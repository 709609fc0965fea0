--------------------------- MODULE ContractProofs ---------------------------
(***************************************************************************)
(* Lifecycle implements DeploymentContract: the initial states map to      *)
(* initial states, and every step to a step of the contract or to none.    *)
(***************************************************************************)
EXTENDS LifecycleProofs

USE NoneIsNothing, InputsAssumption, MaxFaultsAssumption
USE DEF At, Goto, End, OnFile, OnCloud, Nowhere, localVars, ghostVars, stateVars, fileVars,
        recordVars, stemcellVars, diskVars, deployedVars, cloudVars, vmVars

Kept == [Contract!ContractNext]_(Contract!contractVars)

\* Migrating the legacy file adopts the volume it knows of.
LEMMA MigrateSaveContract == ASSUME IInv, MigrateSave PROVE Kept
<1>1. cmd = "deploy" /\ dataOn' = dataOn
  BY DEF IInv, CmdInv, DeployOnly, MigrateSave
<1>2. Certified = {} /\ Certified' = {}
  BY MigrateSaveKnows DEF Certified, MigrateSave, SaveMigrated
<1>3. \/ Volume = "none" /\ Volume' = "none"
      \/ Volume = "unadopted" /\ Volume' = "live"
  BY <1>1, MigrateSaveKnows DEF Volume
<1> QED
  BY <1>1, <1>2, <1>3 DEF Kept, Contract!ContractNext, Contract!Adopt, Contract!Work,
                          Contract!contractVars, MigrateSave

\* Forgetting an unused stemcell leaves the current one, and what it certifies.
LEMMA ForgetUnusedStemcellContract == ASSUME IInv, ForgetUnusedStemcell PROVE Kept
<1>1. PICK r \in stemcells : r.cid = victim /\ StemcellForget(r.version)
  BY DEF ForgetUnusedStemcell
<1>2. \A q \in stemcells : q.cid = currentStemcellID => q.version # r.version
  BY <1>1 DEF IInv, RecordsInv, StemcellInv, ForgetUnusedStemcell
<1>3. currentStemcellID' = currentStemcellID
  BY <1>1, <1>2 DEF StemcellForget, StemcellsFound
<1>4. {q \in stemcells : q.cid = currentStemcellID}' = {q \in stemcells : q.cid = currentStemcellID}
  BY <1>1, <1>2, <1>3 DEF StemcellForget
<1>5. Certified' = Certified
  BY <1>1, <1>4 DEF Certified, StemcellForget
<1>6. Volume' = Volume
  BY <1>1 DEF Volume, DataDisk, CurrentDisk, RecordedDisks, StemcellForget, ForgetUnusedStemcell
<1> QED
  BY <1>5, <1>6 DEF Kept, ForgetUnusedStemcell, Contract!contractVars

\* The volume and the certificate are read off the state file and the data alone.
LEMMA NothingNew ==
    ASSUME UNCHANGED stateVars, UNCHANGED dataOn
    PROVE  Volume' = Volume /\ Certified' = Certified
  BY DEF Volume, Certified, DataDisk, CurrentDisk, RecordedDisks

\* What a deploy has recorded certifies its input.
LEMMA RecordCertifies ==
    ASSUME NEW i, file = "valid", i.sha1 # None, i.releases # None,
           currentManifestSHA1 = i.sha1, releases = i.releases,
           currentStemcellID \in StemcellsFound(i.version)
    PROVE  Contract!Certificate(i) \in Certified
<1>1. PICK r \in stemcells : r.version = i.version /\ r.cid = currentStemcellID
  BY DEF StemcellsFound
<1>2. Contract!Certificate(i) =
          [sha1 |-> currentManifestSHA1, version |-> r.version, releases |-> releases]
  BY <1>1 DEF Contract!Certificate
<1> QED
  BY <1>1, <1>2 DEF Certified

\* A deploy is skipped only when the record certifies its input.
LEMMA SkipDeployContract == ASSUME IInv, SkipDeploy PROVE Kept
<1>1. Volume' = Volume /\ Certified' = Certified
  BY NothingNew DEF SkipDeploy
<1>2. in \in InputRecord /\ cmd = "deploy" /\ file = "valid"
  BY DEF IInv, TypeOK, CmdInv, DeployOnly, FileInv, SkipDeploy, Opt
<1>3. Contract!Certificate(in) \in Certified
  BY <1>2, RecordCertifies DEF SkipDeploy, IsDeployed, CurrentStemcell, InputRecord
<1> QED
  BY <1>1, <1>2, <1>3 DEF Kept, SkipDeploy, Contract!ContractNext, Contract!DeploySucceeds,
                          Contract!Return

\* A deploy ends well with the record of its input, a delete with no file.
LEMMA FinishContract == ASSUME IInv, Finish PROVE Kept
<1>1. Volume' = Volume /\ Certified' = Certified
  BY NothingNew DEF Finish
<1>2. CASE cmd = "deploy"
  <2>1. in \in InputRecord /\ file = "valid"
    BY <1>2 DEF IInv, TypeOK, CmdInv, FileInv, Finish, Opt
  <2>2. Contract!Certificate(in) \in Certified
    BY <1>2, <2>1, RecordCertifies DEF IInv, ContractInv, AfterPromotion, Finish, InputRecord
  <2> QED
    BY <1>1, <1>2, <2>2 DEF Kept, Finish, Contract!ContractNext, Contract!DeploySucceeds,
                            Contract!Return
<1>3. CASE cmd = "delete"
  <2>1. Contract!Deleted
    BY <1>3 DEF IInv, FileInv, Finish, Contract!Deleted, Volume, Certified
  <2> QED
    BY <1>1, <1>3, <2>1 DEF Kept, Finish, Contract!ContractNext, Contract!DeleteSucceeds,
                            Contract!Return
<1> QED
  BY <1>2, <1>3 DEF IInv, TypeOK, CmdInv, Finish

\* A new stemcell is not the current one: what is certified stays.
LEMMA SaveStemcellContract == ASSUME IInv, SaveStemcell PROVE Kept
<1> DEFINE rec == [cid |-> stem, version |-> in.version]
<1>1. stemcells' = stemcells \cup {rec} /\ rec.cid = stem
  BY DEF SaveStemcell, StemcellSave
<1>2. stem # currentStemcellID
  BY DEF IInv, StemcellInv, RecordsInv, SaveStemcell, Opt
<1> HIDE DEF rec
<1>3. Certified' = Certified
  BY <1>1, <1>2 DEF Certified, SaveStemcell, StemcellSave
<1>4. Volume' = Volume
  BY DEF Volume, DataDisk, CurrentDisk, RecordedDisks, SaveStemcell, StemcellSave
<1> QED
  BY <1>3, <1>4 DEF Kept, SaveStemcell, Contract!contractVars

\* An unused disk is not the one that holds the data.
LEMMA UnusedDiskStepContract == ASSUME IInv, UnusedDiskStep PROVE Kept
<1>1. CASE PickUnusedDisk \/ NoUnusedDisks
  <2>1. Volume' = Volume /\ Certified' = Certified
    BY <1>1, NothingNew DEF PickUnusedDisk, NoUnusedDisks
  <2> QED
    BY <1>1, <2>1 DEF Kept, PickUnusedDisk, NoUnusedDisks, Contract!contractVars
<1>2. CASE DeleteUnusedDisk
  <2>1. Certified' = Certified /\ DataDisk' = DataDisk
    BY <1>2 DEF DeleteUnusedDisk, Certified, DataDisk, CurrentDisk, RecordedDisks
  <2>2. DataDisk # victim /\ dataOn' = dataOn \ {victim}
    BY <1>2 DEF IInv, DiskInv, FileInv, RecordsInv, DeleteUnusedDisk, DeleteDisk, DataDisk,
                CurrentDisk, Opt
  <2>3. Volume' = Volume
    BY <1>2, <2>1, <2>2 DEF Volume, DeleteUnusedDisk
  <2> QED
    BY <1>2, <2>1, <2>3 DEF Kept, DeleteUnusedDisk, Contract!contractVars
<1>3. CASE ForgetUnusedDisk
  <2>1. /\ Certified' = Certified
        /\ currentDiskID' = currentDiskID
        /\ currentDiskID \in RecordedDisks' <=> currentDiskID \in RecordedDisks
    BY <1>3 DEF IInv, DiskInv, ForgetUnusedDisk, DiskForget, Certified, RecordedDisks
  <2>2. Volume' = Volume
    BY <1>3, <2>1 DEF Volume, DataDisk, CurrentDisk, ForgetUnusedDisk, DiskForget
  <2> QED
    BY <1>3, <2>1, <2>2 DEF Kept, ForgetUnusedDisk, Contract!contractVars
<1> QED
  BY <1>1, <1>2, <1>3 DEF UnusedDiskStep

\* Every step of the commands is a step of the contract, or none.
LEMMA ContractStep == ASSUME IInv, Next PROVE Kept
<1> USE DEF Kept
<1>1. CASE Begin
  <2>1. CASE StartDelete
    BY <2>1 DEF IInv, Volume, Certified, Contract!contractVars, StartDelete,
         Contract!ContractNext, Contract!Start, Contract!NothingToDelete, Contract!Deleted,
         DataDisk, RecordedDisks, CurrentDisk
  <2>2. ASSUME NEW i \in Inputs, StartDeploy(i) PROVE Kept
    BY <2>2 DEF IInv, Volume, Certified, Contract!contractVars, StartDeploy,
         Contract!ContractNext, Contract!Start, DataDisk, RecordedDisks, CurrentDisk
  <2> QED
    BY <1>1, <2>1, <2>2 DEF Begin
<1>2. CASE PrepareStep
  <2>1. CASE MigrateSave
    BY <2>1, MigrateSaveContract
  <2>2. CASE MigrateRemove
    BY <2>2 DEF IInv, Volume, Certified, Contract!contractVars, MigrateRemove, RemoveLegacy,
         DataDisk, FileInv, RecordedDisks, CurrentDisk
  <2>3. CASE LoadState
    BY <2>3 DEF IInv, Volume, Certified, Contract!contractVars, LoadState, Load, DataDisk,
         EmptyRecords, FileInv, RecordedDisks, CurrentDisk, TypeOK, StateTypeOK
  <2>4. CASE LoadFails
    BY <2>4 DEF IInv, Volume, Certified, Contract!contractVars, LoadFails,
         Contract!ContractNext, Contract!Fail, Contract!Return
  <2>5. CASE Prepare
    BY <2>5 DEF IInv, Volume, Certified, Contract!contractVars, Prepare, NewTarget,
         DataDisk, RecordedDisks, CurrentDisk
  <2> QED
    BY <1>2, <2>1, <2>2, <2>3, <2>4, <2>5 DEF PrepareStep
<1>3. CASE StemcellStep
  <2>1. CASE SkipDeploy
    BY <2>1, SkipDeployContract
  <2>2. CASE BeginDeploy
    BY <2>2 DEF IInv, Volume, Certified, Contract!contractVars, BeginDeploy, DataDisk,
         RecordedDisks, CurrentDisk
  <2>3. CASE StemcellAlreadyUploaded
    BY <2>3 DEF IInv, Volume, Certified, Contract!contractVars, StemcellAlreadyUploaded,
         DataDisk, RecordedDisks, CurrentDisk
  <2>4. CASE UploadStemcell
    BY <2>4 DEF IInv, Volume, Certified, Contract!contractVars, UploadStemcell,
         CreateStemcell, DataDisk, RecordedDisks, CurrentDisk
  <2>5. CASE SaveStemcell
    BY <2>5, SaveStemcellContract
  <2>6. CASE ClearSha1
    BY <2>6 DEF IInv, Volume, Certified, Contract!contractVars, ClearSha1,
         ManifestUpdateCurrent, Contract!ContractNext, Contract!Revoke, Contract!Work,
         DataDisk, RecordedDisks, CurrentDisk
  <2>7. CASE ClearReleases
    BY <2>7 DEF IInv, Volume, Certified, Contract!contractVars, ClearReleases,
         ReleasesUpdate, Contract!ContractNext, Contract!Revoke, Contract!Work, DataDisk,
         RecordedDisks, CurrentDisk
  <2> QED
    BY <1>3, <2>1, <2>2, <2>3, <2>4, <2>5, <2>6, <2>7 DEF StemcellStep
<1>4. CASE DeleteVMStep
  <2>1. CASE FindInstances
    BY <2>1 DEF IInv, Volume, Certified, Contract!contractVars, FindInstances, AfterVM,
         DataDisk, RecordedDisks, CurrentDisk
  <2>2. CASE HasVM
    BY <2>2 DEF IInv, Volume, Certified, Contract!contractVars, HasVM, DataDisk,
         RecordedDisks, CurrentDisk
  <2>3. CASE AgentAnswers
    BY <2>3 DEF IInv, Volume, Certified, Contract!contractVars, AgentAnswers, DataDisk,
         RecordedDisks, CurrentDisk
  <2>4. CASE AgentUnreachable
    BY <2>4 DEF IInv, Volume, Certified, Contract!contractVars, AgentUnreachable, DataDisk,
         RecordedDisks, CurrentDisk
  <2>5. CASE ShutdownJobs
    BY <2>5 DEF IInv, Volume, Certified, Contract!contractVars, ShutdownJobs, Disturb,
         StopJobs, DataDisk, RecordedDisks, CurrentDisk
  <2>6. ASSUME NEW d \in Disks, Unmount(d) PROVE Kept
    BY <2>6 DEF IInv, Volume, Certified, Contract!contractVars, Unmount, UnmountDisk,
         DataDisk, RecordedDisks, CurrentDisk
  <2>7. CASE UnmountDone
    BY <2>7 DEF IInv, Volume, Certified, Contract!contractVars, UnmountDone, DataDisk,
         RecordedDisks, CurrentDisk
  <2>8. CASE DeleteVMInCloud
    BY <2>8 DEF IInv, Volume, Certified, Contract!contractVars, DeleteVMInCloud, Disturb,
         DeleteVM, DataDisk, RecordedDisks, CurrentDisk
  <2>9. CASE ClearVM
    BY <2>9 DEF IInv, Volume, Certified, Contract!contractVars, ClearVM, VMUpdateCurrent,
         DataDisk, RecordedDisks, CurrentDisk
  <2>10. CASE ClearStemcell
    BY <2>10 DEF IInv, Volume, Certified, Contract!contractVars, ClearStemcell, AfterVM,
         StemcellUpdateCurrent, Contract!ContractNext, Contract!Revoke, Contract!Work,
         DataDisk, RecordedDisks, CurrentDisk, TypeOK, StateTypeOK, StemcellRecord
  <2> QED
    BY <1>4, <2>1, <2>2, <2>3, <2>4, <2>5, <2>6, <2>7, <2>8, <2>9, <2>10 DEF DeleteVMStep
<1>5. CASE CreateVMStep
  BY <1>5 DEF IInv, Volume, Certified, Contract!contractVars, CreateVMStep, CheckJobs,
       WrongInstances, CreateVMInCloud, RecordVM, PromoteStemcell, WaitUntilReady, CreateVM,
       VMUpdateCurrent, StemcellUpdateCurrent, Contract!ContractNext, Contract!Fail,
       Contract!Return, DataDisk, DeployedInv, CmdInv, DeployOnly, RecordedDisks,
       CurrentDisk
<1>6. CASE DiskStep
  BY <1>6 DEF IInv, Volume, Certified, Contract!contractVars, DiskStep, NoDiskWanted,
       FindDisk, AttachExisting, MountExisting, CreateDiskInCloud, SaveDisk, AttachNew,
       MountNew, MigrateContent, UpdateCurrentDisk, DetachOriginal, DeleteOriginal,
       ForgetOriginal, AttachDisk, MountDisk, CreateDisk, DiskSave, MigrateDisk,
       DiskUpdateCurrent, DetachDisk, DeleteDisk, DiskForget, DataSafe, DataDisk, DiskInv,
       DeployedInv, FileInv, CmdInv, DeployOnly, RecordedDisks, CurrentDisk, DiskStage,
       TypeOK
<1>7. CASE UnusedDiskStep
  BY <1>7, UnusedDiskStepContract
<1>8. CASE JobsStep
  BY <1>8 DEF IInv, Volume, Certified, Contract!contractVars, JobsStep, StopForUpdate,
       Apply, Start, JobsAreRunning, UpdateSha1, UpdateReleases, StopJobs, ApplySpec,
       StartJobs, ManifestUpdateCurrent, ReleasesUpdate, Contract!ContractNext,
       Contract!FirstWrite, Contract!Certify, Contract!Certificate, Contract!Work, DataDisk,
       DiskInv, RecordsInv, DeployedInv, ContractInv, AfterPromotion, FileInv, CmdInv,
       DeployOnly, RecordedDisks, CurrentDisk, StemcellsFound, Opt, JobsStage
<1>9. CASE UnusedStemcellStep
  <2>1. CASE PickUnusedStemcell
    BY <2>1 DEF IInv, Volume, Certified, Contract!contractVars, PickUnusedStemcell,
         UnusedStemcells, DataDisk, RecordedDisks, CurrentDisk
  <2>2. CASE DeleteUnusedStemcell
    BY <2>2 DEF IInv, Volume, Certified, Contract!contractVars, DeleteUnusedStemcell,
         DeleteStemcell, DataDisk, RecordedDisks, CurrentDisk
  <2>3. CASE ForgetUnusedStemcell
    BY <2>3, ForgetUnusedStemcellContract
  <2>4. CASE NoUnusedStemcells
    BY <2>4 DEF IInv, Volume, Certified, Contract!contractVars, NoUnusedStemcells,
         UnusedStemcells, DataDisk, RecordedDisks, CurrentDisk
  <2> QED
    BY <1>9, <2>1, <2>2, <2>3, <2>4 DEF UnusedStemcellStep
<1>10. CASE DeleteStep
  <2>1. CASE FindDeployment
    BY <2>1 DEF IInv, Volume, Certified, Contract!contractVars, FindDeployment, DataDisk,
         RecordedDisks, CurrentDisk
  <2>2. CASE CurrentDiskFound
    BY <2>2 DEF IInv, Volume, Certified, Contract!contractVars, CurrentDiskFound, DataDisk,
         RecordedDisks, CurrentDisk
  <2>3. CASE DeleteCurrentDisk
    BY <2>3 DEF IInv, Volume, Certified, Contract!contractVars, DeleteCurrentDisk,
         DeleteDisk, Contract!ContractNext, Contract!Destroy, Contract!Work, FileInv,
         CmdInv, DeleteOnly
  <2>4. CASE ForgetCurrentDisk
    BY <2>4 DEF IInv, Volume, Certified, Contract!contractVars, ForgetCurrentDisk,
         DiskForget, DataSafe, DataDisk, DeleteInv, RecordedDisks, CurrentDisk
  <2>5. CASE CurrentStemcellFound
    BY <2>5 DEF IInv, Volume, Certified, Contract!contractVars, CurrentStemcellFound,
         DataDisk, RecordedDisks, CurrentDisk
  <2>6. CASE DeleteCurrentStemcell
    BY <2>6 DEF IInv, Volume, Certified, Contract!contractVars, DeleteCurrentStemcell,
         DeleteStemcell, DataDisk, RecordedDisks, CurrentDisk
  <2>7. CASE ForgetCurrentStemcell
    BY <2>7 DEF IInv, Volume, Certified, Contract!contractVars, ForgetCurrentStemcell,
         StemcellForget, Contract!ContractNext, Contract!Revoke, Contract!Work, DataDisk,
         DeleteInv, CmdInv, DeleteOnly, CurrentDisk, StemcellsFound, TypeOK, StateTypeOK,
         StemcellRecord
  <2>8. CASE Uninstall
    BY <2>8 DEF IInv, Volume, Certified, Contract!contractVars, Uninstall, DataDisk,
         RecordedDisks, CurrentDisk
  <2>9. CASE CleanupState
    BY <2>9 DEF IInv, Volume, Certified, Contract!contractVars, CleanupState, Cleanup,
         DataSafe, DataDisk, DeleteInv, FileInv, CmdInv, DeleteOnly, RecordedDisks,
         CurrentDisk, TypeOK
  <2>10. CASE Finish
    BY <2>10, FinishContract
  <2> QED
    BY <1>10, <2>1, <2>2, <2>3, <2>4, <2>5, <2>6, <2>7, <2>8, <2>9, <2>10 DEF DeleteStep
<1>11. CASE CloudRefuses
  BY <1>11 DEF IInv, Volume, Certified, Contract!contractVars, CloudRefuses,
       Contract!ContractNext, Contract!Fail, Contract!Return, DataDisk, RecordedDisks,
       CurrentDisk
<1>12. CASE Interrupted
  BY <1>12 DEF IInv, Volume, Certified, Contract!contractVars, Interrupted,
       Contract!ContractNext, Contract!Fail, Contract!Return, DataDisk, RecordedDisks,
       CurrentDisk
<1>13. CASE TornWrite
  BY <1>13 DEF IInv, Volume, Certified, Contract!contractVars, TornWrite,
       Contract!ContractNext, Contract!Corrupt, Contract!Return, Writing
<1> QED
  BY <1>1, <1>2, <1>3, <1>4, <1>5, <1>6, <1>7, <1>8, <1>9, <1>10, <1>11, <1>12, <1>13 DEF
       Next, Step

\* The initial states are those of the contract.
LEMMA ContractStart == Init => Contract!ContractInit
  BY DEF Init, EmptyRecords, Contract!ContractInit, Volume, Certified, DataDisk

(***************************************************************************)
(* Every behaviour of the two commands, interrupted anywhere and any       *)
(* number of times, is one that the contract allows                        *)
(* (deployment_preparer.go PrepareDeployment, deployment_deleter.go        *)
(* DeleteDeployment).                                                      *)
(***************************************************************************)
THEOREM LifecycleImplementsContract == Spec => ImplementsContract
<1>1. IInv /\ [Next]_vars => Kept
  <2> SUFFICES ASSUME IInv, [Next]_vars PROVE Kept
    OBVIOUS
  <2>1. CASE UNCHANGED vars
    BY <2>1 DEF vars, Kept, Contract!contractVars, Volume, Certified, DataDisk, CurrentDisk,
             RecordedDisks
  <2> QED
    BY <2>1, ContractStep
<1> QED
  BY <1>1, ContractStart, LifecycleInvariant, PTL DEF Spec, ImplementsContract,
     Contract!ContractSpec, Kept

=============================================================================
