--------------------------- MODULE LifecycleProofs ---------------------------
(***************************************************************************)
(* IInv is an invariant of Lifecycle, and with it every safety invariant   *)
(* that the runs check: for any sets of cids, any inputs, and any number   *)
(* of interruptions and torn writes.  From the same invariant follows what *)
(* no step ever does.                                                      *)
(***************************************************************************)
EXTENDS LifecycleSteps

USE NoneIsNothing, InputsAssumption, MaxFaultsAssumption
USE DEF At, Goto, End, OnFile, OnCloud, Nowhere, localVars, ghostVars, stateVars, fileVars,
        recordVars, stemcellVars, diskVars, deployedVars, cloudVars, vmVars

\* Before the first command nothing is recorded and no command runs.
LEMMA InitInv == Init => IInv
<1> SUFFICES ASSUME Init PROVE IInv
  OBVIOUS
<1> USE DEF Init
<1>0. RecordedDisks = {} /\ RecordedStemcells = {} /\ EmptyRecords
  BY DEF RecordedDisks, RecordedStemcells, EmptyRecords
<1>1. TypeOK
  BY <1>0 DEF TypeOK, StateTypeOK, EmptyRecords, Opt, LegacyState, PCs, Writing
<1>2. CmdInv /\ FileInv /\ RecordsInv /\ FaultInv
  BY <1>0 DEF CmdInv, DeployOnly, DeleteOnly, FileInv, RecordsInv, EmptyRecords, Opt, FaultInv
<1>3. VMInv
  BY DEF VMInv, OldVM, NoRecordedVM, UnusedDiskStage, UnusedStemcellStage, KnownVM
<1>4. DiskInv /\ DataInv
  BY DEF DiskInv, DataInv, DiskStage, UnusedDiskStage, JobsStage
<1>5. DeleteInv /\ StemcellInv /\ DeployedInv /\ ContractInv /\ DeleteComplete
  BY DEF DeleteInv, StemcellInv, DeployedInv, ContractInv, DeleteComplete, EmptyRecords
<1>6. DataSafe /\ JobsWriteCurrentDisk
  BY DEF DataSafe, JobsWriteCurrentDisk, DataDisk, VMInv
<1>7. Accounted
  BY DEF Accounted, Known, KnownVMs, KnownDisks, KnownStemcells
<1> QED
  BY <1>1, <1>2, <1>3, <1>4, <1>5, <1>6, <1>7 DEF IInv

\* Every step, and every step that leaves the variables alone, keeps the invariant.
LEMMA NextInv == IInv /\ [Next]_vars => IInv'
<1> SUFFICES ASSUME IInv, [Next]_vars PROVE IInv'
  OBVIOUS
<1>1. CASE Next
  BY <1>1, BeginInv, PrepareStepInv, StemcellStepInv, DeleteVMStepInv, CreateVMStepInv,
     DiskStepInv, UnusedDiskStepInv, JobsStepInv, UnusedStemcellStepInv, DeleteStepInv,
     CloudRefusesInv, InterruptedInv, TornWriteInv DEF Next, Step
<1>2. CASE UNCHANGED vars
  BY <1>2 DEF vars, IInv, Accounted, AfterPromotion, CmdInv, ContractInv, CurrentDisk,
         CurrentStemcell, DataDisk, DataInv, DataSafe, DeleteComplete, DeleteInv,
         DeleteOnly, DeployOnly, DeployedInv, DiskInHand, DiskInv, DiskRecord, DiskStage,
         EmptyRecords, FaultInv, FileInv, FreshDisks, FreshStemcells, FreshVMs, InCloud,
         InHand, InputRecord, JobsStage, JobsWriteCurrentDisk, Known, KnownDisks,
         KnownStemcells, KnownVM, KnownVMs, LegacyCids, LegacyState, NoRecordedVM, OldVM,
         Opt, PCs, RecordedDisks, RecordedStemcells, RecordsInv, StateTypeOK,
         StemcellInHand, StemcellInv, StemcellRecord, StemcellsFound, TypeOK,
         UnusedDiskStage, UnusedStemcellStage, VMInHand, VMInv, Writing
<1> QED
  BY <1>1, <1>2

(***************************************************************************)
(* The inductive invariant holds in every reachable state, however often   *)
(* the commands are interrupted (every step of deployment_preparer.go and  *)
(* deployment_deleter.go and of what they call).                           *)
(***************************************************************************)
THEOREM LifecycleInvariant == Spec => []IInv
  BY InitInv, NextInv, PTL DEF Spec

(***************************************************************************)
(* The state file, the cloud and the memory of the process have the types  *)
(* that the code gives them (deployment_state_service.go).                 *)
(***************************************************************************)
THEOREM TypeCorrect == Spec => []TypeOK
<1>1. IInv => TypeOK
  BY DEF IInv
<1> QED
  BY <1>1, LifecycleInvariant, PTL

(***************************************************************************)
(* No VM, disk or stemcell is in the cloud without a record, except while  *)
(* it is in hand or when it was leaked in that window (createAndRecordVm,  *)
(* disk manager Create, stemcell manager Upload).                          *)
(***************************************************************************)
THEOREM ResourcesAccounted == Spec => []Accounted
<1>1. IInv => Accounted
  BY DEF IInv
<1> QED
  BY <1>1, LifecycleInvariant, PTL

(***************************************************************************)
(* The disk on record as current has the latest data, whatever interrupted *)
(* a deploy or its disk migration (disk_deployer.go migrateDisk).          *)
(***************************************************************************)
THEOREM DataIsSafe == Spec => []DataSafe
<1>1. IInv => DataSafe
  BY DEF IInv
<1> QED
  BY <1>1, LifecycleInvariant, PTL

(***************************************************************************)
(* Running jobs write to no disk but the recorded one (disk_deployer.go,   *)
(* instance.go UpdateJobs).                                                *)
(***************************************************************************)
THEOREM JobsWriteToRecordedDisk == Spec => []JobsWriteCurrentDisk
<1>1. IInv => JobsWriteCurrentDisk
  BY DEF IInv
<1> QED
  BY <1>1, LifecycleInvariant, PTL

(***************************************************************************)
(* A deploy that is skipped is deployed, unless a delete was begun in      *)
(* between (record.go IsDeployed, Clear and Update).                       *)
(***************************************************************************)
THEOREM RecordIsTruthful == Spec => []RecordTruthful
<1>1. IInv => RecordTruthful
  BY DEF IInv, RecordTruthful, DeployedInv, IsDeployed, CurrentStemcell, RecordsInv,
         InputRecord, Opt
<1> QED
  BY <1>1, LifecycleInvariant, PTL

(***************************************************************************)
(* A delete that succeeds leaves nothing that was on record                *)
(* (deployment_deleter.go DeleteDeployment, deployment.go Delete).         *)
(***************************************************************************)
THEOREM DeleteIsComplete == Spec => []DeleteComplete
<1>1. IInv => DeleteComplete
  BY DEF IInv
<1> QED
  BY <1>1, LifecycleInvariant, PTL

(***************************************************************************)
(* After any interruptions, a delete that is not interrupted itself fails  *)
(* only on a torn state file (the not-found handling of vm.go, disk.go and *)
(* cloud_stemcell.go).                                                     *)
(***************************************************************************)
THEOREM DeleteCanBeRetried == Spec => []DeleteRetrySucceeds
<1>1. IInv => DeleteRetrySucceeds
  BY DEF IInv, FaultInv, DeleteRetrySucceeds
<1> QED
  BY <1>1, LifecycleInvariant, PTL

-----------------------------------------------------------------------------
(* Why a deploy fails.                                                     *)

\* No step ends a deploy as failed without one of the reasons.
LEMMA DeployFailsStep == ASSUME IInv, Next PROVE DeployFailsForAReason'
<1>1. CASE Begin
  BY <1>1 DEF IInv, Begin, StartDeploy, StartDelete, DeployFailsForAReason
<1>2. CASE PrepareStep
  BY <1>2 DEF IInv, PrepareStep, MigrateSave, MigrateRemove, LoadState, LoadFails, Prepare,
       SaveMigrated, RemoveLegacy, Load, NewTarget, DeployFailsForAReason
<1>3. CASE StemcellStep
  BY <1>3 DEF IInv, StemcellStep, SkipDeploy, BeginDeploy, StemcellAlreadyUploaded,
       UploadStemcell, SaveStemcell, ClearSha1, ClearReleases, CreateStemcell, StemcellSave,
       ManifestUpdateCurrent, ReleasesUpdate, DeployFailsForAReason
<1>4. CASE DeleteVMStep
  BY <1>4 DEF IInv, DeleteVMStep, FindInstances, HasVM, AgentAnswers, AgentUnreachable,
       ShutdownJobs, Unmount, UnmountDone, DeleteVMInCloud, ClearVM, ClearStemcell, AfterVM,
       Disturb, StopJobs, UnmountDisk, DeleteVM, VMUpdateCurrent, StemcellUpdateCurrent,
       DeployFailsForAReason
<1>5. CASE CreateVMStep
  BY <1>5 DEF IInv, CreateVMStep, CheckJobs, WrongInstances, CreateVMInCloud, RecordVM,
       PromoteStemcell, WaitUntilReady, CreateVM, VMUpdateCurrent, StemcellUpdateCurrent,
       DeployFailsForAReason
<1>6. CASE DiskStep
  BY <1>6 DEF IInv, DiskStep, NoDiskWanted, FindDisk, AttachExisting, MountExisting,
       CreateDiskInCloud, SaveDisk, AttachNew, MountNew, MigrateContent, UpdateCurrentDisk,
       DetachOriginal, DeleteOriginal, ForgetOriginal, AttachDisk, MountDisk, CreateDisk,
       DiskSave, MigrateDisk, DiskUpdateCurrent, DetachDisk, DeleteDisk, DiskForget,
       DeployFailsForAReason
<1>7. CASE UnusedDiskStep
  BY <1>7 DEF IInv, UnusedDiskStep, PickUnusedDisk, DeleteUnusedDisk, ForgetUnusedDisk,
       NoUnusedDisks, UnusedDisks, DeleteDisk, DiskForget, DeployFailsForAReason
<1>8. CASE JobsStep
  BY <1>8 DEF IInv, JobsStep, StopForUpdate, Apply, Start, JobsAreRunning, UpdateSha1,
       UpdateReleases, StopJobs, ApplySpec, StartJobs, ManifestUpdateCurrent,
       ReleasesUpdate, DeployFailsForAReason
<1>9. CASE UnusedStemcellStep
  BY <1>9 DEF IInv, UnusedStemcellStep, PickUnusedStemcell, DeleteUnusedStemcell,
       ForgetUnusedStemcell, NoUnusedStemcells, UnusedStemcells, DeleteStemcell,
       StemcellForget, DeployFailsForAReason
<1>10. CASE DeleteStep
  BY <1>10 DEF IInv, DeleteStep, FindDeployment, CurrentDiskFound, DeleteCurrentDisk,
       ForgetCurrentDisk, CurrentStemcellFound, DeleteCurrentStemcell,
       ForgetCurrentStemcell, Uninstall, CleanupState, Finish, DeleteDisk, DiskForget,
       DeleteStemcell, StemcellForget, Cleanup, DeployFailsForAReason
<1>11. CASE CloudRefuses
  BY <1>11 DEF IInv, CloudRefuses, DeployFailsForAReason, RecordedDisks, CurrentDisk,
       StemcellsFound, FreshVMs, FreshDisks, LegacyCids, Opt, DiskStage, DiskInv,
       RecordsInv, StemcellInv
<1>12. CASE Interrupted
  BY <1>12 DEF IInv, Interrupted, DeployFailsForAReason, FaultInv, TypeOK
<1>13. CASE TornWrite
  BY <1>13 DEF IInv, TornWrite, DeployFailsForAReason
<1> QED
  BY <1>1, <1>2, <1>3, <1>4, <1>5, <1>6, <1>7, <1>8, <1>9, <1>10, <1>11, <1>12, <1>13 DEF
       Next, Step

(***************************************************************************)
(* An undisturbed deploy fails only for one of the reasons that            *)
(* DeployFailsForAReason lists (deployment_preparer.go deploy, deployer.go *)
(* Deploy).                                                                *)
(***************************************************************************)
THEOREM DeployFailures == Spec => []DeployFailsForAReason
<1>1. Init => DeployFailsForAReason
  BY DEF Init, DeployFailsForAReason
<1>2. IInv /\ DeployFailsForAReason /\ [Next]_vars => DeployFailsForAReason'
  <2> SUFFICES ASSUME IInv, DeployFailsForAReason, [Next]_vars PROVE DeployFailsForAReason'
    OBVIOUS
  <2>1. CASE UNCHANGED vars
    BY <2>1 DEF vars, DeployFailsForAReason, FreshVMs, FreshDisks, FreshStemcells, LegacyCids,
             CurrentDisk, StemcellsFound, RecordedDisks, RecordedStemcells
  <2> QED
    BY <2>1, DeployFailsStep
<1> QED
  BY <1>1, <1>2, LifecycleInvariant, PTL DEF Spec

-----------------------------------------------------------------------------
(* What no step ever does                                                  *)

KeepsRecords ==
    file' # "torn" =>
        /\ KnownVMs \cap cloudVMs' \subseteq KnownVMs'
        /\ KnownDisks \cap cloudDisks' \subseteq KnownDisks'
        /\ KnownStemcells \cap cloudStemcells' \subseteq KnownStemcells'

\* A record goes only after the resource it names, whichever command runs.
LEMMA KeepsRecordsStep == ASSUME IInv, Next PROVE KeepsRecords
<1> USE DEF KeepsRecords
<1>1. CASE Begin
  BY <1>1 DEF IInv, Begin, StartDeploy, StartDelete, Known, KnownVMs, KnownDisks,
       KnownStemcells, RecordedDisks, RecordedStemcells
<1>2. CASE PrepareStep
  <2>1. CASE MigrateSave
    BY <2>1, MigrateSaveKnows
  <2>2. CASE MigrateRemove \/ LoadState \/ LoadFails \/ Prepare
    BY <2>2 DEF IInv, PrepareStep, MigrateSave, MigrateRemove, LoadState, LoadFails,
         Prepare, SaveMigrated, RemoveLegacy, Load, NewTarget, Known, KnownVMs, KnownDisks,
         KnownStemcells, FileInv, RecordedDisks, RecordedStemcells
  <2> QED
    BY <1>2, <2>1, <2>2 DEF PrepareStep
<1>3. CASE StemcellStep
  BY <1>3 DEF IInv, StemcellStep, SkipDeploy, BeginDeploy, StemcellAlreadyUploaded,
       UploadStemcell, SaveStemcell, ClearSha1, ClearReleases, CreateStemcell, StemcellSave,
       ManifestUpdateCurrent, ReleasesUpdate, Known, KnownVMs, KnownDisks, KnownStemcells,
       RecordedDisks, RecordedStemcells
<1>4. CASE DeleteVMStep
  BY <1>4 DEF IInv, DeleteVMStep, FindInstances, HasVM, AgentAnswers, AgentUnreachable,
       ShutdownJobs, Unmount, UnmountDone, DeleteVMInCloud, ClearVM, ClearStemcell, AfterVM,
       Disturb, StopJobs, UnmountDisk, DeleteVM, VMUpdateCurrent, StemcellUpdateCurrent,
       Known, KnownVMs, KnownDisks, KnownStemcells, VMInv, RecordedDisks, RecordedStemcells,
       OldVM
<1>5. CASE CreateVMStep
  BY <1>5 DEF IInv, CreateVMStep, CheckJobs, WrongInstances, CreateVMInCloud, RecordVM,
       PromoteStemcell, WaitUntilReady, CreateVM, VMUpdateCurrent, StemcellUpdateCurrent,
       Known, KnownVMs, KnownDisks, KnownStemcells, VMInv, RecordedDisks, RecordedStemcells,
       Opt, NoRecordedVM
<1>6. CASE DiskStep
  BY <1>6 DEF IInv, DiskStep, NoDiskWanted, FindDisk, AttachExisting, MountExisting,
       CreateDiskInCloud, SaveDisk, AttachNew, MountNew, MigrateContent, UpdateCurrentDisk,
       DetachOriginal, DeleteOriginal, ForgetOriginal, AttachDisk, MountDisk, CreateDisk,
       DiskSave, MigrateDisk, DiskUpdateCurrent, DetachDisk, DeleteDisk, DiskForget, Known,
       KnownVMs, KnownDisks, KnownStemcells, DiskInv, RecordedDisks, RecordedStemcells
<1>7. CASE UnusedDiskStep
  BY <1>7 DEF IInv, UnusedDiskStep, PickUnusedDisk, DeleteUnusedDisk, ForgetUnusedDisk,
       NoUnusedDisks, UnusedDisks, DeleteDisk, DiskForget, Known, KnownVMs, KnownDisks,
       KnownStemcells, DiskInv, RecordedDisks, RecordedStemcells
<1>8. CASE JobsStep
  BY <1>8 DEF IInv, JobsStep, StopForUpdate, Apply, Start, JobsAreRunning, UpdateSha1,
       UpdateReleases, StopJobs, ApplySpec, StartJobs, ManifestUpdateCurrent,
       ReleasesUpdate, Known, KnownVMs, KnownDisks, KnownStemcells, RecordedDisks,
       RecordedStemcells
<1>9. CASE UnusedStemcellStep
  BY <1>9 DEF IInv, UnusedStemcellStep, PickUnusedStemcell, DeleteUnusedStemcell,
       ForgetUnusedStemcell, NoUnusedStemcells, UnusedStemcells, DeleteStemcell,
       StemcellForget, Known, KnownVMs, KnownDisks, KnownStemcells, RecordsInv, StemcellInv,
       RecordedDisks, RecordedStemcells
<1>10. CASE DeleteStep
  BY <1>10 DEF IInv, DeleteStep, FindDeployment, CurrentDiskFound, DeleteCurrentDisk,
       ForgetCurrentDisk, CurrentStemcellFound, DeleteCurrentStemcell,
       ForgetCurrentStemcell, Uninstall, CleanupState, Finish, DeleteDisk, DiskForget,
       DeleteStemcell, StemcellForget, Cleanup, Known, KnownVMs, KnownDisks, KnownStemcells,
       CmdInv, VMInv, RecordsInv, DeleteInv, DeleteOnly, RecordedDisks, RecordedStemcells,
       NoRecordedVM
<1>11. CASE CloudRefuses
  BY <1>11 DEF IInv, CloudRefuses, Known, KnownVMs, KnownDisks, KnownStemcells,
       RecordedDisks, RecordedStemcells
<1>12. CASE Interrupted
  BY <1>12 DEF IInv, Interrupted, Known, KnownVMs, KnownDisks, KnownStemcells,
       RecordedDisks, RecordedStemcells
<1>13. CASE TornWrite
  BY <1>13 DEF IInv, TornWrite
<1> QED
  BY <1>1, <1>2, <1>3, <1>4, <1>5, <1>6, <1>7, <1>8, <1>9, <1>10, <1>11, <1>12, <1>13 DEF
       Next, Step

(***************************************************************************)
(* No step drops the record of something that is still in the cloud (vm.go *)
(* Delete, disk.go Delete, cloud_stemcell.go Delete,                       *)
(* legacy_deployment_state_migrator.go, Cleanup).                          *)
(***************************************************************************)
THEOREM RecordsNeverForgotten == Spec => NeverForget
<1>1. IInv /\ [Next]_vars => [KeepsRecords]_vars
  BY KeepsRecordsStep
<1> QED
  BY <1>1, LifecycleInvariant, PTL DEF Spec, NeverForget, KeepsRecords

-----------------------------------------------------------------------------

KeepsData ==
    dataOn # {} /\ dataOn' = {} => cmd = "delete"

\* No step of a deploy destroys the last copy of the data.
LEMMA KeepsDataStep == ASSUME IInv, Next PROVE KeepsData
<1> USE DEF KeepsData
<1>1. CASE Begin
  BY <1>1 DEF IInv, Begin, StartDeploy, StartDelete
<1>2. CASE PrepareStep
  BY <1>2 DEF IInv, PrepareStep, MigrateSave, MigrateRemove, LoadState, LoadFails, Prepare,
       SaveMigrated, RemoveLegacy, Load, NewTarget
<1>3. CASE StemcellStep
  BY <1>3 DEF IInv, StemcellStep, SkipDeploy, BeginDeploy, StemcellAlreadyUploaded,
       UploadStemcell, SaveStemcell, ClearSha1, ClearReleases, CreateStemcell, StemcellSave,
       ManifestUpdateCurrent, ReleasesUpdate
<1>4. CASE DeleteVMStep
  BY <1>4 DEF IInv, DeleteVMStep, FindInstances, HasVM, AgentAnswers, AgentUnreachable,
       ShutdownJobs, Unmount, UnmountDone, DeleteVMInCloud, ClearVM, ClearStemcell, AfterVM,
       Disturb, StopJobs, UnmountDisk, DeleteVM, VMUpdateCurrent, StemcellUpdateCurrent
<1>5. CASE CreateVMStep
  BY <1>5 DEF IInv, CreateVMStep, CheckJobs, WrongInstances, CreateVMInCloud, RecordVM,
       PromoteStemcell, WaitUntilReady, CreateVM, VMUpdateCurrent, StemcellUpdateCurrent
<1>6. CASE DiskStep
  BY <1>6 DEF IInv, DiskStep, NoDiskWanted, FindDisk, AttachExisting, MountExisting,
       CreateDiskInCloud, SaveDisk, AttachNew, MountNew, MigrateContent, UpdateCurrentDisk,
       DetachOriginal, DeleteOriginal, ForgetOriginal, AttachDisk, MountDisk, CreateDisk,
       DiskSave, MigrateDisk, DiskUpdateCurrent, DetachDisk, DeleteDisk, DiskForget,
       DataSafe, DataDisk, DiskInv, FileInv, CurrentDisk
<1>7. CASE UnusedDiskStep
  BY <1>7 DEF IInv, UnusedDiskStep, PickUnusedDisk, DeleteUnusedDisk, ForgetUnusedDisk,
       NoUnusedDisks, UnusedDisks, DeleteDisk, DiskForget, DataSafe, DataDisk, DiskInv,
       RecordsInv, FileInv, CurrentDisk, Opt
<1>8. CASE JobsStep
  BY <1>8 DEF IInv, JobsStep, StopForUpdate, Apply, Start, JobsAreRunning, UpdateSha1,
       UpdateReleases, StopJobs, ApplySpec, StartJobs, ManifestUpdateCurrent, ReleasesUpdate
<1>9. CASE UnusedStemcellStep
  BY <1>9 DEF IInv, UnusedStemcellStep, PickUnusedStemcell, DeleteUnusedStemcell,
       ForgetUnusedStemcell, NoUnusedStemcells, UnusedStemcells, DeleteStemcell,
       StemcellForget
<1>10. CASE DeleteStep
  BY <1>10 DEF IInv, DeleteStep, FindDeployment, CurrentDiskFound, DeleteCurrentDisk,
       ForgetCurrentDisk, CurrentStemcellFound, DeleteCurrentStemcell,
       ForgetCurrentStemcell, Uninstall, CleanupState, Finish, DeleteDisk, DiskForget,
       DeleteStemcell, StemcellForget, Cleanup, CmdInv, DeleteOnly
<1>11. CASE CloudRefuses
  BY <1>11 DEF IInv, CloudRefuses
<1>12. CASE Interrupted
  BY <1>12 DEF IInv, Interrupted, InHand
<1>13. CASE TornWrite
  BY <1>13 DEF IInv, TornWrite
<1> QED
  BY <1>1, <1>2, <1>3, <1>4, <1>5, <1>6, <1>7, <1>8, <1>9, <1>10, <1>11, <1>12, <1>13 DEF
       Next, Step

(***************************************************************************)
(* No step of a deploy, and no interruption, removes the last copy of the  *)
(* jobs' data (disk_deployer.go, disk manager DeleteUnused).               *)
(***************************************************************************)
THEOREM DataLostByDeleteOnly == Spec => DataOnlyLostByDelete
<1>1. IInv /\ [Next]_vars => [KeepsData]_vars
  BY KeepsDataStep
<1> QED
  BY <1>1, LifecycleInvariant, PTL DEF Spec, DataOnlyLostByDelete, KeepsData

-----------------------------------------------------------------------------

KeepsAttached ==
    \A d \in cloudDisks \ cloudDisks' : d \notin attached

\* The disks that a step deletes are detached.
LEMMA KeepsAttachedStep == ASSUME IInv, Next PROVE KeepsAttached
<1> USE DEF KeepsAttached
<1>1. CASE Begin
  BY <1>1 DEF IInv, Begin, StartDeploy, StartDelete
<1>2. CASE PrepareStep
  BY <1>2 DEF IInv, PrepareStep, MigrateSave, MigrateRemove, LoadState, LoadFails, Prepare,
       SaveMigrated, RemoveLegacy, Load, NewTarget
<1>3. CASE StemcellStep
  BY <1>3 DEF IInv, StemcellStep, SkipDeploy, BeginDeploy, StemcellAlreadyUploaded,
       UploadStemcell, SaveStemcell, ClearSha1, ClearReleases, CreateStemcell, StemcellSave,
       ManifestUpdateCurrent, ReleasesUpdate
<1>4. CASE DeleteVMStep
  BY <1>4 DEF IInv, DeleteVMStep, FindInstances, HasVM, AgentAnswers, AgentUnreachable,
       ShutdownJobs, Unmount, UnmountDone, DeleteVMInCloud, ClearVM, ClearStemcell, AfterVM,
       Disturb, StopJobs, UnmountDisk, DeleteVM, VMUpdateCurrent, StemcellUpdateCurrent
<1>5. CASE CreateVMStep
  BY <1>5 DEF IInv, CreateVMStep, CheckJobs, WrongInstances, CreateVMInCloud, RecordVM,
       PromoteStemcell, WaitUntilReady, CreateVM, VMUpdateCurrent, StemcellUpdateCurrent
<1>6. CASE DiskStep
  BY <1>6 DEF IInv, DiskStep, NoDiskWanted, FindDisk, AttachExisting, MountExisting,
       CreateDiskInCloud, SaveDisk, AttachNew, MountNew, MigrateContent, UpdateCurrentDisk,
       DetachOriginal, DeleteOriginal, ForgetOriginal, AttachDisk, MountDisk, CreateDisk,
       DiskSave, MigrateDisk, DiskUpdateCurrent, DetachDisk, DeleteDisk, DiskForget, DiskInv
<1>7. CASE UnusedDiskStep
  BY <1>7 DEF IInv, UnusedDiskStep, PickUnusedDisk, DeleteUnusedDisk, ForgetUnusedDisk,
       NoUnusedDisks, UnusedDisks, DeleteDisk, DiskForget, DiskInv, VMInv, KnownVM, CmdInv,
       FileInv, UnusedDiskStage, TypeOK
<1>8. CASE JobsStep
  BY <1>8 DEF IInv, JobsStep, StopForUpdate, Apply, Start, JobsAreRunning, UpdateSha1,
       UpdateReleases, StopJobs, ApplySpec, StartJobs, ManifestUpdateCurrent, ReleasesUpdate
<1>9. CASE UnusedStemcellStep
  BY <1>9 DEF IInv, UnusedStemcellStep, PickUnusedStemcell, DeleteUnusedStemcell,
       ForgetUnusedStemcell, NoUnusedStemcells, UnusedStemcells, DeleteStemcell,
       StemcellForget
<1>10. CASE DeleteStep
  BY <1>10 DEF IInv, DeleteStep, FindDeployment, CurrentDiskFound, DeleteCurrentDisk,
       ForgetCurrentDisk, CurrentStemcellFound, DeleteCurrentStemcell,
       ForgetCurrentStemcell, Uninstall, CleanupState, Finish, DeleteDisk, DiskForget,
       DeleteStemcell, StemcellForget, Cleanup, VMInv, KnownVM, FileInv, NoRecordedVM
<1>11. CASE CloudRefuses
  BY <1>11 DEF IInv, CloudRefuses
<1>12. CASE Interrupted
  BY <1>12 DEF IInv, Interrupted, InHand
<1>13. CASE TornWrite
  BY <1>13 DEF IInv, TornWrite
<1> QED
  BY <1>1, <1>2, <1>3, <1>4, <1>5, <1>6, <1>7, <1>8, <1>9, <1>10, <1>11, <1>12, <1>13 DEF
       Next, Step

(***************************************************************************)
(* No step deletes a disk that is attached to the VM (disk_deployer.go     *)
(* migrateDisk, deployment.go Delete).                                     *)
(***************************************************************************)
THEOREM AttachedDiskNeverDeleted == Spec => NeverDeleteAttachedDisk
<1>1. IInv /\ [Next]_vars => [KeepsAttached]_vars
  BY KeepsAttachedStep
<1> QED
  BY <1>1, LifecycleInvariant, PTL DEF Spec, NeverDeleteAttachedDisk, KeepsAttached

-----------------------------------------------------------------------------

KeepsBase ==
    \A s \in cloudStemcells \ cloudStemcells' : ~(currentVMCID \in cloudVMs /\ s = base)

\* The stemcell that a step deletes is not that of the VM.
LEMMA KeepsBaseStep == ASSUME IInv, Next PROVE KeepsBase
<1> USE DEF KeepsBase
<1>1. CASE Begin
  BY <1>1 DEF IInv, Begin, StartDeploy, StartDelete
<1>2. CASE PrepareStep
  BY <1>2 DEF IInv, PrepareStep, MigrateSave, MigrateRemove, LoadState, LoadFails, Prepare,
       SaveMigrated, RemoveLegacy, Load, NewTarget
<1>3. CASE StemcellStep
  BY <1>3 DEF IInv, StemcellStep, SkipDeploy, BeginDeploy, StemcellAlreadyUploaded,
       UploadStemcell, SaveStemcell, ClearSha1, ClearReleases, CreateStemcell, StemcellSave,
       ManifestUpdateCurrent, ReleasesUpdate
<1>4. CASE DeleteVMStep
  BY <1>4 DEF IInv, DeleteVMStep, FindInstances, HasVM, AgentAnswers, AgentUnreachable,
       ShutdownJobs, Unmount, UnmountDone, DeleteVMInCloud, ClearVM, ClearStemcell, AfterVM,
       Disturb, StopJobs, UnmountDisk, DeleteVM, VMUpdateCurrent, StemcellUpdateCurrent
<1>5. CASE CreateVMStep
  BY <1>5 DEF IInv, CreateVMStep, CheckJobs, WrongInstances, CreateVMInCloud, RecordVM,
       PromoteStemcell, WaitUntilReady, CreateVM, VMUpdateCurrent, StemcellUpdateCurrent
<1>6. CASE DiskStep
  BY <1>6 DEF IInv, DiskStep, NoDiskWanted, FindDisk, AttachExisting, MountExisting,
       CreateDiskInCloud, SaveDisk, AttachNew, MountNew, MigrateContent, UpdateCurrentDisk,
       DetachOriginal, DeleteOriginal, ForgetOriginal, AttachDisk, MountDisk, CreateDisk,
       DiskSave, MigrateDisk, DiskUpdateCurrent, DetachDisk, DeleteDisk, DiskForget
<1>7. CASE UnusedDiskStep
  BY <1>7 DEF IInv, UnusedDiskStep, PickUnusedDisk, DeleteUnusedDisk, ForgetUnusedDisk,
       NoUnusedDisks, UnusedDisks, DeleteDisk, DiskForget
<1>8. CASE JobsStep
  BY <1>8 DEF IInv, JobsStep, StopForUpdate, Apply, Start, JobsAreRunning, UpdateSha1,
       UpdateReleases, StopJobs, ApplySpec, StartJobs, ManifestUpdateCurrent, ReleasesUpdate
<1>9. CASE UnusedStemcellStep
  BY <1>9 DEF IInv, UnusedStemcellStep, PickUnusedStemcell, DeleteUnusedStemcell,
       ForgetUnusedStemcell, NoUnusedStemcells, UnusedStemcells, DeleteStemcell,
       StemcellForget, StemcellInv, VMInv, CmdInv, UnusedStemcellStage, TypeOK
<1>10. CASE DeleteStep
  BY <1>10 DEF IInv, DeleteStep, FindDeployment, CurrentDiskFound, DeleteCurrentDisk,
       ForgetCurrentDisk, CurrentStemcellFound, DeleteCurrentStemcell,
       ForgetCurrentStemcell, Uninstall, CleanupState, Finish, DeleteDisk, DiskForget,
       DeleteStemcell, StemcellForget, Cleanup, VMInv, NoRecordedVM, TypeOK
<1>11. CASE CloudRefuses
  BY <1>11 DEF IInv, CloudRefuses
<1>12. CASE Interrupted
  BY <1>12 DEF IInv, Interrupted, InHand
<1>13. CASE TornWrite
  BY <1>13 DEF IInv, TornWrite
<1> QED
  BY <1>1, <1>2, <1>3, <1>4, <1>5, <1>6, <1>7, <1>8, <1>9, <1>10, <1>11, <1>12, <1>13 DEF
       Next, Step

(***************************************************************************)
(* No step deletes the stemcell of the VM on record while that VM exists   *)
(* (stemcell/manager.go DeleteUnused, deployment.go Delete).               *)
(***************************************************************************)
THEOREM UsedStemcellNeverDeleted == Spec => NeverDeleteUsedStemcell
<1>1. IInv /\ [Next]_vars => [KeepsBase]_vars
  BY KeepsBaseStep
<1> QED
  BY <1>1, LifecycleInvariant, PTL DEF Spec, NeverDeleteUsedStemcell, KeepsBase

=============================================================================
