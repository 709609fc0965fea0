--------------------------- MODULE LifecycleSteps ---------------------------
(***************************************************************************)
(* Every step of the two commands preserves the invariant IInv of          *)
(* LifecycleInv.  One lemma for each group of actions in Next, and in it   *)
(* one step for each conjunct of IInv.  Three actions that add records get *)
(* a lemma of their own for the conjuncts that depend on what is recorded. *)
(***************************************************************************)
EXTENDS LifecycleInv, TLAPS

USE NoneIsNothing, InputsAssumption, MaxFaultsAssumption
USE DEF At, Goto, End, OnFile, OnCloud, Nowhere, localVars, ghostVars, stateVars, fileVars,
        recordVars, stemcellVars, diskVars, deployedVars, cloudVars, vmVars

-----------------------------------------------------------------------------
(* The repositories.                                                       *)

\* diskRepo.Save adds exactly the one cid.
LEMMA DiskSaved ==
    ASSUME NEW cid, NEW spec, DiskSave(cid, spec)
    PROVE  RecordedDisks' = RecordedDisks \cup {cid}
<1> DEFINE rec == [cid |-> cid, spec |-> spec]
<1>1. rec.cid = cid
  OBVIOUS
<1>2. disks' = disks \cup {rec}
  BY DEF DiskSave
<1> HIDE DEF rec
<1> QED
  BY <1>1, <1>2 DEF RecordedDisks

\* stemcellRepo.Save adds exactly the one cid, found under its version.
LEMMA StemcellSaved ==
    ASSUME NEW cid, NEW version, StemcellSave(cid, version)
    PROVE  /\ RecordedStemcells' = RecordedStemcells \cup {cid}
           /\ cid \in StemcellsFound(version)'
<1> DEFINE rec == [cid |-> cid, version |-> version]
<1>1. rec.cid = cid /\ rec.version = version
  OBVIOUS
<1>2. stemcells' = stemcells \cup {rec}
  BY DEF StemcellSave
<1> HIDE DEF rec
<1> QED
  BY <1>1, <1>2 DEF RecordedStemcells, StemcellsFound

\* The migrated state has a record of the legacy disk, if there is one, and no other.
LEMMA MigratedDisks ==
    ASSUME SaveMigrated
    PROVE  RecordedDisks' = {legacy.disk} \ {None} /\ \A r, q \in disks' : r = q
<1> DEFINE rec == [cid |-> legacy.disk, spec |-> None]
<1>1. disks' = {r \in {rec} : r.cid # None}
  BY DEF SaveMigrated
<1>2. rec.cid = legacy.disk
  OBVIOUS
<1> HIDE DEF rec
<1> QED
  BY <1>1, <1>2 DEF RecordedDisks

\* The same for the legacy stemcell.
LEMMA MigratedStemcells ==
    ASSUME SaveMigrated
    PROVE  RecordedStemcells' = {legacy.stemcell} \ {None} /\ \A r, q \in stemcells' : r = q
<1> DEFINE rec == [cid |-> legacy.stemcell, version |-> None]
<1>1. stemcells' = {r \in {rec} : r.cid # None}
  BY DEF SaveMigrated
<1>2. rec.cid = legacy.stemcell
  OBVIOUS
<1> HIDE DEF rec
<1> QED
  BY <1>1, <1>2 DEF RecordedStemcells

-----------------------------------------------------------------------------
(* Steps that add records.                                                 *)

\* The migrated state knows what the legacy file knew, and the same disk holds the data.
LEMMA MigrateSaveKnows ==
    ASSUME IInv, MigrateSave
    PROVE  /\ file = "absent" /\ file' = "valid" /\ DataDisk' = DataDisk
           /\ KnownVMs' = KnownVMs /\ KnownDisks' = KnownDisks
           /\ KnownStemcells' = KnownStemcells
<1>1. SaveMigrated
  BY DEF MigrateSave
<1>2. /\ RecordedDisks' = {legacy.disk} \ {None}
      /\ RecordedStemcells' = {legacy.stemcell} \ {None}
  BY <1>1, MigratedDisks, MigratedStemcells
<1>3. file = "absent" /\ legacy # None /\ file' = "valid"
  BY <1>1 DEF IInv, FileInv, MigrateSave, SaveMigrated
<1>4. DataDisk' = DataDisk
  BY <1>1, <1>2, <1>3 DEF DataDisk, CurrentDisk, SaveMigrated
<1>5. KnownVMs' = KnownVMs /\ KnownDisks' = KnownDisks /\ KnownStemcells' = KnownStemcells
  BY <1>1, <1>2, <1>3 DEF KnownVMs, KnownDisks, KnownStemcells, Known, SaveMigrated
<1> QED
  BY <1>3, <1>4, <1>5

\* Saving the migrated state keeps the conjuncts about records.
LEMMA MigrateSaveKeeps ==
    ASSUME IInv, MigrateSave
    PROVE  RecordsInv' /\ DataSafe' /\ JobsWriteCurrentDisk' /\ Accounted'
<1>1. RecordsInv'
  <2>1. SaveMigrated
    BY DEF MigrateSave
  <2>2. currentDiskID' \in Opt({legacy.disk} \ {None}) /\ currentStemcellID' = None
    BY <2>1 DEF SaveMigrated, Opt
  <2> QED
    BY <2>1, <2>2, MigratedDisks, MigratedStemcells DEF RecordsInv, Opt
<1>2. DataSafe' /\ JobsWriteCurrentDisk'
  BY MigrateSaveKnows DEF IInv, DataSafe, JobsWriteCurrentDisk, MigrateSave
<1>3. Accounted'
  <2>1. VMInHand = {} /\ DiskInHand = {} /\ StemcellInHand = {}
    BY DEF MigrateSave, VMInHand, DiskInHand, StemcellInHand
  <2> QED
    BY <2>1, MigrateSaveKnows DEF IInv, Accounted, MigrateSave
<1> QED
  BY <1>1, <1>2, <1>3

\* Recording an uploaded stemcell keeps the conjuncts about stemcells.
LEMMA SaveStemcellKeeps ==
    ASSUME IInv, SaveStemcell
    PROVE  StemcellInv' /\ Accounted'
<1>1. StemcellSave(stem, in.version)
  BY DEF SaveStemcell
<1>2. /\ RecordedStemcells' = RecordedStemcells \cup {stem}
      /\ stem \in StemcellsFound(in.version)'
  BY <1>1, StemcellSaved DEF SaveStemcell
<1>3. file = "valid" /\ file' = "valid" /\ stem # None
  BY <1>1 DEF IInv, FileInv, StemcellInv, SaveStemcell, StemcellSave
<1>4. StemcellInv'
  BY <1>2 DEF StemcellInv, SaveStemcell, IInv, OldVM, DiskStage, UnusedDiskStage, JobsStage,
              UnusedStemcellStage
<1>5. /\ KnownStemcells' = KnownStemcells \cup {stem}
      /\ KnownVMs' = KnownVMs /\ KnownDisks' = KnownDisks
  BY <1>1, <1>2, <1>3 DEF KnownVMs, KnownDisks, KnownStemcells, Known, RecordedDisks, StemcellSave
<1>6. /\ StemcellInHand = {stem} /\ StemcellInHand' = {}
      /\ VMInHand = {} /\ DiskInHand = {}
  BY DEF SaveStemcell, VMInHand, DiskInHand, StemcellInHand
<1>7. Accounted'
  BY <1>3, <1>5, <1>6 DEF IInv, Accounted, SaveStemcell
<1> QED
  BY <1>4, <1>7

\* Recording a created disk keeps the conjuncts about disks.
LEMMA SaveDiskKeeps ==
    ASSUME IInv, SaveDisk
    PROVE  DiskInv' /\ Accounted'
<1>1. DiskSave(dsk, in.disk)
  BY DEF SaveDisk
<1>2. RecordedDisks' = RecordedDisks \cup {dsk}
  BY <1>1, DiskSaved
<1>3. file = "valid" /\ file' = "valid" /\ dsk # None
  BY <1>1 DEF IInv, FileInv, DiskInv, SaveDisk, DiskSave
<1>4. DiskInv'
  BY <1>1, <1>2 DEF SaveDisk, DiskSave, IInv, DiskInv, DiskStage, UnusedDiskStage, JobsStage
<1>5. /\ KnownDisks' = KnownDisks \cup {dsk}
      /\ KnownVMs' = KnownVMs /\ KnownStemcells' = KnownStemcells
  BY <1>1, <1>2, <1>3 DEF KnownVMs, KnownDisks, KnownStemcells, Known, RecordedStemcells, DiskSave
<1>6. DiskInHand = {dsk} /\ DiskInHand' = {} /\ VMInHand = {} /\ StemcellInHand = {}
  BY DEF SaveDisk, VMInHand, DiskInHand, StemcellInHand
<1>7. Accounted'
  BY <1>3, <1>5, <1>6 DEF IInv, Accounted, SaveDisk
<1> QED
  BY <1>4, <1>7

-----------------------------------------------------------------------------
(* The groups of actions.                                                  *)

\* Starting a command.
LEMMA BeginInv == IInv /\ Begin => IInv'
<1> SUFFICES ASSUME IInv, Begin PROVE IInv'
  OBVIOUS
<1> USE DEF IInv, Begin, StartDeploy, StartDelete
<1>1. TypeOK'
  BY DEF TypeOK, StateTypeOK, Writing, PCs, Opt
<1>2. CmdInv'
  BY DEF CmdInv, DeployOnly, DeleteOnly
<1>3. FileInv'
  BY DEF FileInv, EmptyRecords
<1>4. RecordsInv'
  BY DEF RecordsInv, RecordedDisks, RecordedStemcells, Opt
<1>5. VMInv'
  BY DEF VMInv, KnownVM, OldVM, NoRecordedVM, UnusedDiskStage, UnusedStemcellStage
<1>6. DiskInv'
  BY DEF DiskInv, DiskStage, UnusedDiskStage, JobsStage
<1>7. DeleteInv'
  BY DEF DeleteInv, OldVM, UnusedDiskStage, UnusedStemcellStage
<1>8. StemcellInv'
  BY DEF StemcellInv, OldVM, DiskStage, UnusedDiskStage, JobsStage, UnusedStemcellStage
<1>9. DeployedInv'
  BY DEF DeployedInv, OldVM, DiskStage, UnusedDiskStage, JobsStage
<1>10. FaultInv'
  BY DEF FaultInv, TypeOK
<1>11. DataInv'
  BY DEF DataInv
<1>12. ContractInv'
  BY DEF ContractInv, AfterPromotion, DiskStage, UnusedDiskStage, JobsStage,
         UnusedStemcellStage
<1>13. DataSafe'
  BY DEF DataSafe, DataDisk, RecordedDisks, CurrentDisk
<1>14. JobsWriteCurrentDisk'
  BY DEF JobsWriteCurrentDisk, DataDisk, RecordedDisks, CurrentDisk
<1>15. Accounted'
  BY DEF Accounted, VMInHand, DiskInHand, StemcellInHand, Known, KnownVMs, KnownDisks,
         KnownStemcells, RecordedDisks, RecordedStemcells
<1>16. DeleteComplete'
  BY DEF DeleteComplete, InCloud, Accounted, VMInHand, DiskInHand, StemcellInHand, Known,
         KnownVMs, KnownDisks, KnownStemcells
<1> QED
  BY <1>1, <1>2, <1>3, <1>4, <1>5, <1>6, <1>7, <1>8, <1>9, <1>10, <1>11, <1>12, <1>13,
       <1>14, <1>15, <1>16

\* Migrating the legacy file, loading the state file, the installation target.
LEMMA PrepareStepInv == IInv /\ PrepareStep => IInv'
<1> SUFFICES ASSUME IInv, PrepareStep PROVE IInv'
  OBVIOUS
<1> USE DEF IInv, PrepareStep, MigrateSave, MigrateRemove, LoadState, LoadFails, Prepare,
        SaveMigrated, RemoveLegacy, Load, NewTarget
<1>1. TypeOK'
  BY DEF TypeOK, StateTypeOK, DiskRecord, StemcellRecord, LegacyState, Writing, PCs, Opt,
         FileInv
<1>2. CmdInv'
  BY DEF TypeOK, CmdInv, DeployOnly, DeleteOnly
<1>3. FileInv'
  BY DEF FileInv
<1>4. RecordsInv'
  <2>1. CASE MigrateSave
    BY <2>1, MigrateSaveKeeps
  <2>2. CASE MigrateRemove \/ LoadState \/ LoadFails \/ Prepare
    BY <2>2 DEF RecordsInv, RecordedDisks, RecordedStemcells, Opt
  <2> QED
    BY <2>1, <2>2
<1>5. VMInv'
  BY DEF VMInv, KnownVM, FileInv, OldVM, NoRecordedVM, UnusedDiskStage, UnusedStemcellStage
<1>6. DiskInv'
  BY DEF DiskInv, DiskStage, UnusedDiskStage, JobsStage
<1>7. DeleteInv'
  BY DEF DeleteInv, OldVM, UnusedDiskStage, UnusedStemcellStage
<1>8. StemcellInv'
  BY DEF StemcellInv, OldVM, DiskStage, UnusedDiskStage, JobsStage, UnusedStemcellStage
<1>9. DeployedInv'
  BY DEF DeployedInv, FileInv, EmptyRecords, OldVM, DiskStage, UnusedDiskStage, JobsStage,
         TypeOK, StateTypeOK
<1>10. FaultInv'
  BY DEF FaultInv
<1>11. DataInv'
  BY DEF DataInv
<1>12. ContractInv'
  BY DEF ContractInv, AfterPromotion, DiskStage, UnusedDiskStage, JobsStage,
         UnusedStemcellStage
<1>13. DataSafe'
  <2>1. CASE MigrateSave
    BY <2>1, MigrateSaveKeeps
  <2>2. CASE MigrateRemove \/ LoadState \/ LoadFails \/ Prepare
    BY <2>2 DEF DataSafe, DataDisk, FileInv, EmptyRecords, RecordedDisks, CurrentDisk
  <2> QED
    BY <2>1, <2>2
<1>14. JobsWriteCurrentDisk'
  <2>1. CASE MigrateSave
    BY <2>1, MigrateSaveKeeps
  <2>2. CASE MigrateRemove \/ LoadState \/ LoadFails \/ Prepare
    BY <2>2 DEF JobsWriteCurrentDisk, DataDisk, FileInv, EmptyRecords, RecordedDisks,
         CurrentDisk
  <2> QED
    BY <2>1, <2>2
<1>15. Accounted'
  <2>1. CASE MigrateSave
    BY <2>1, MigrateSaveKeeps
  <2>2. CASE MigrateRemove \/ LoadState \/ LoadFails \/ Prepare
    BY <2>2 DEF Accounted, VMInHand, DiskInHand, StemcellInHand, Known, KnownVMs,
         KnownDisks, KnownStemcells, FileInv, RecordedDisks, RecordedStemcells
  <2> QED
    BY <2>1, <2>2
<1>16. DeleteComplete'
  BY DEF DeleteComplete, FaultInv
<1> QED
  BY <1>1, <1>2, <1>3, <1>4, <1>5, <1>6, <1>7, <1>8, <1>9, <1>10, <1>11, <1>12, <1>13,
       <1>14, <1>15, <1>16

\* The check for changes, the stemcell, clearing the deployment record.
LEMMA StemcellStepInv == IInv /\ StemcellStep => IInv'
<1> SUFFICES ASSUME IInv, StemcellStep PROVE IInv'
  OBVIOUS
<1> USE DEF IInv, StemcellStep, SkipDeploy, BeginDeploy, StemcellAlreadyUploaded,
        UploadStemcell, SaveStemcell, ClearSha1, ClearReleases, CreateStemcell,
        StemcellSave, ManifestUpdateCurrent, ReleasesUpdate
<1>1. TypeOK'
  BY DEF TypeOK, StateTypeOK, StemcellRecord, InputRecord, Writing, PCs, DeployOnly,
         StemcellsFound, FreshStemcells, Opt, CmdInv, StemcellInv
<1>2. CmdInv'
  BY DEF CmdInv, DeployOnly, DeleteOnly
<1>3. FileInv'
  BY DEF FileInv
<1>4. RecordsInv'
  BY DEF RecordsInv, StemcellInv, RecordedDisks, RecordedStemcells, StemcellsFound, Opt
<1>5. VMInv'
  BY DEF VMInv, KnownVM, OldVM, NoRecordedVM, UnusedDiskStage, UnusedStemcellStage
<1>6. DiskInv'
  BY DEF DiskInv, DiskStage, UnusedDiskStage, JobsStage
<1>7. DeleteInv'
  BY DEF DeleteInv, OldVM, UnusedDiskStage, UnusedStemcellStage
<1>8. StemcellInv'
  <2>1. CASE SaveStemcell
    BY <2>1, SaveStemcellKeeps
  <2>2. CASE SkipDeploy \/ BeginDeploy \/ StemcellAlreadyUploaded \/ UploadStemcell \/
             ClearSha1 \/ ClearReleases
    BY <2>2 DEF StemcellInv, RecordedStemcells, StemcellsFound, FreshStemcells, OldVM,
         DiskStage, UnusedDiskStage, JobsStage, UnusedStemcellStage
  <2> QED
    BY <2>1, <2>2
<1>9. DeployedInv'
  BY DEF DeployedInv, OldVM, DiskStage, UnusedDiskStage, JobsStage
<1>10. FaultInv'
  BY DEF FaultInv
<1>11. DataInv'
  BY DEF DataInv
<1>12. ContractInv'
  BY DEF ContractInv, AfterPromotion, DiskStage, UnusedDiskStage, JobsStage,
         UnusedStemcellStage
<1>13. DataSafe'
  BY DEF DataSafe, DataDisk, RecordedDisks, CurrentDisk
<1>14. JobsWriteCurrentDisk'
  BY DEF JobsWriteCurrentDisk, DataDisk, RecordedDisks, CurrentDisk
<1>15. Accounted'
  <2>1. CASE SaveStemcell
    BY <2>1, SaveStemcellKeeps
  <2>2. CASE SkipDeploy \/ BeginDeploy \/ StemcellAlreadyUploaded \/ UploadStemcell \/
             ClearSha1 \/ ClearReleases
    BY <2>2 DEF Accounted, VMInHand, DiskInHand, StemcellInHand, Known, KnownVMs,
         KnownDisks, KnownStemcells, RecordedDisks, RecordedStemcells
  <2> QED
    BY <2>1, <2>2
<1>16. DeleteComplete'
  BY DEF DeleteComplete, FaultInv
<1> QED
  BY <1>1, <1>2, <1>3, <1>4, <1>5, <1>6, <1>7, <1>8, <1>9, <1>10, <1>11, <1>12, <1>13,
       <1>14, <1>15, <1>16

\* Deleting the VM, in both commands.
LEMMA DeleteVMStepInv == IInv /\ DeleteVMStep => IInv'
<1> SUFFICES ASSUME IInv, DeleteVMStep PROVE IInv'
  OBVIOUS
<1> USE DEF IInv, DeleteVMStep, FindInstances, HasVM, AgentAnswers, AgentUnreachable,
        ShutdownJobs, Unmount, UnmountDone, DeleteVMInCloud, ClearVM, ClearStemcell,
        AfterVM, Disturb, StopJobs, UnmountDisk, DeleteVM, VMUpdateCurrent,
        StemcellUpdateCurrent
<1>1. TypeOK'
  BY DEF TypeOK, StateTypeOK, Writing, PCs, Opt
<1>2. CmdInv'
  BY DEF TypeOK, CmdInv, DeployOnly, DeleteOnly
<1>3. FileInv'
  BY DEF FileInv
<1>4. RecordsInv'
  BY DEF RecordsInv, RecordedDisks, RecordedStemcells, Opt
<1>5. VMInv'
  BY DEF VMInv, KnownVM, OldVM, NoRecordedVM, UnusedDiskStage, UnusedStemcellStage
<1>6. DiskInv'
  BY DEF DiskInv, DiskStage, UnusedDiskStage, JobsStage
<1>7. DeleteInv'
  BY DEF DeleteInv, CmdInv, DeployOnly, RecordedStemcells, Opt, OldVM, UnusedDiskStage,
         UnusedStemcellStage
<1>8. StemcellInv'
  BY DEF StemcellInv, StemcellsFound, OldVM, DiskStage, UnusedDiskStage, JobsStage,
         UnusedStemcellStage
<1>9. DeployedInv'
  BY DEF DeployedInv, CmdInv, OldVM, TypeOK
<1>10. FaultInv'
  BY DEF FaultInv
<1>11. DataInv'
  BY DEF DataInv
<1>12. ContractInv'
  BY DEF ContractInv, AfterPromotion, DiskStage, UnusedDiskStage, JobsStage,
         UnusedStemcellStage
<1>13. DataSafe'
  BY DEF DataSafe, DataDisk, RecordedDisks, CurrentDisk
<1>14. JobsWriteCurrentDisk'
  BY DEF JobsWriteCurrentDisk, DataDisk, RecordedDisks, CurrentDisk
<1>15. Accounted'
  BY DEF Accounted, VMInHand, DiskInHand, StemcellInHand, Known, KnownVMs, KnownDisks,
         KnownStemcells, VMInv, RecordedDisks, RecordedStemcells, OldVM
<1>16. DeleteComplete'
  BY DEF DeleteComplete, InCloud
<1> QED
  BY <1>1, <1>2, <1>3, <1>4, <1>5, <1>6, <1>7, <1>8, <1>9, <1>10, <1>11, <1>12, <1>13,
       <1>14, <1>15, <1>16

\* Creating and recording the new VM, promoting its stemcell.
LEMMA CreateVMStepInv == IInv /\ CreateVMStep => IInv'
<1> SUFFICES ASSUME IInv, CreateVMStep PROVE IInv'
  OBVIOUS
<1> USE DEF IInv, CreateVMStep, CheckJobs, WrongInstances, CreateVMInCloud, RecordVM,
        PromoteStemcell, WaitUntilReady, CreateVM, VMUpdateCurrent, StemcellUpdateCurrent
<1>1. TypeOK'
  BY DEF TypeOK, StateTypeOK, StemcellRecord, Writing, PCs, StemcellsFound, FreshVMs, Opt
<1>2. CmdInv'
  BY DEF CmdInv, DeployOnly, DeleteOnly
<1>3. FileInv'
  BY DEF FileInv
<1>4. RecordsInv'
  BY DEF RecordsInv, RecordedDisks, RecordedStemcells, Opt
<1>5. VMInv'
  BY DEF VMInv, KnownVM, FreshVMs, OldVM, NoRecordedVM, UnusedDiskStage, UnusedStemcellStage
<1>6. DiskInv'
  BY DEF DiskInv, DiskStage, UnusedDiskStage, JobsStage
<1>7. DeleteInv'
  BY DEF DeleteInv, OldVM, UnusedDiskStage, UnusedStemcellStage
<1>8. StemcellInv'
  BY DEF StemcellInv, RecordsInv, StemcellsFound, OldVM, DiskStage, UnusedDiskStage,
         JobsStage, UnusedStemcellStage, TypeOK, StateTypeOK, StemcellRecord
<1>9. DeployedInv'
  BY DEF DeployedInv, CmdInv, DeployOnly
<1>10. FaultInv'
  BY DEF FaultInv, CmdInv, DeployOnly
<1>11. DataInv'
  BY DEF DataInv
<1>12. ContractInv'
  BY DEF ContractInv, AfterPromotion, StemcellsFound, DiskStage, UnusedDiskStage, JobsStage,
         UnusedStemcellStage
<1>13. DataSafe'
  BY DEF DataSafe, DataDisk, RecordedDisks, CurrentDisk
<1>14. JobsWriteCurrentDisk'
  BY DEF JobsWriteCurrentDisk, DataDisk, RecordedDisks, CurrentDisk
<1>15. Accounted'
  BY DEF Accounted, VMInHand, DiskInHand, StemcellInHand, Known, KnownVMs, KnownDisks,
         KnownStemcells, FileInv, VMInv, RecordedDisks, RecordedStemcells, Opt, NoRecordedVM
<1>16. DeleteComplete'
  BY DEF DeleteComplete, FaultInv
<1> QED
  BY <1>1, <1>2, <1>3, <1>4, <1>5, <1>6, <1>7, <1>8, <1>9, <1>10, <1>11, <1>12, <1>13,
       <1>14, <1>15, <1>16

\* The persistent disk, and its migration.
LEMMA DiskStepInv == IInv /\ DiskStep => IInv'
<1> SUFFICES ASSUME IInv, DiskStep PROVE IInv'
  OBVIOUS
<1> USE DEF IInv, DiskStep, NoDiskWanted, FindDisk, AttachExisting, MountExisting,
        CreateDiskInCloud, SaveDisk, AttachNew, MountNew, MigrateContent, UpdateCurrentDisk,
        DetachOriginal, DeleteOriginal, ForgetOriginal, AttachDisk, MountDisk, CreateDisk,
        DiskSave, MigrateDisk, DiskUpdateCurrent, DetachDisk, DeleteDisk, DiskForget
<1>1. TypeOK'
  BY DEF TypeOK, StateTypeOK, DiskRecord, InputRecord, Writing, PCs, DeployOnly,
         CurrentDisk, FreshDisks, Opt, CmdInv, DiskInv
<1>2. CmdInv'
  BY DEF CmdInv, DeployOnly, DeleteOnly
<1>3. FileInv'
  BY DEF FileInv
<1>4. RecordsInv'
  BY DEF RecordsInv, RecordedDisks, RecordedStemcells, Opt
<1>5. VMInv'
  BY DEF VMInv, StemcellInv, KnownVM, FileInv, CmdInv, DeployOnly, OldVM, NoRecordedVM,
         DiskStage, TypeOK
<1>6. DiskInv'
  <2>1. CASE SaveDisk
    BY <2>1, SaveDiskKeeps
  <2>2. CASE NoDiskWanted \/ FindDisk \/ AttachExisting \/ MountExisting \/
             CreateDiskInCloud \/ AttachNew \/ MountNew \/ MigrateContent \/
             UpdateCurrentDisk \/ DetachOriginal \/ DeleteOriginal \/ ForgetOriginal
    BY <2>2 DEF DiskInv, FileInv, RecordsInv, DataSafe, DataDisk, RecordedDisks,
         CurrentDisk, FreshDisks, Opt, DiskStage, UnusedDiskStage, JobsStage, TypeOK
  <2> QED
    BY <2>1, <2>2
<1>7. DeleteInv'
  BY DEF DeleteInv, CmdInv, DeployOnly
<1>8. StemcellInv'
  BY DEF StemcellInv, OldVM, DiskStage
<1>9. DeployedInv'
  BY DEF DeployedInv, DiskStage
<1>10. FaultInv'
  BY DEF FaultInv
<1>11. DataInv'
  BY DEF DataInv, DiskInv
<1>12. ContractInv'
  BY DEF ContractInv, AfterPromotion, StemcellsFound, DiskStage, UnusedStemcellStage
<1>13. DataSafe'
  BY DEF DataSafe, DataDisk, DataInv, FileInv, DiskInv, RecordedDisks, CurrentDisk,
         DiskStage, TypeOK
<1>14. JobsWriteCurrentDisk'
  BY DEF JobsWriteCurrentDisk, DiskInv, DiskStage
<1>15. Accounted'
  <2>1. CASE SaveDisk
    BY <2>1, SaveDiskKeeps
  <2>2. CASE NoDiskWanted \/ FindDisk \/ AttachExisting \/ MountExisting \/
             CreateDiskInCloud \/ AttachNew \/ MountNew \/ MigrateContent \/
             UpdateCurrentDisk \/ DetachOriginal \/ DeleteOriginal \/ ForgetOriginal
    BY <2>2 DEF Accounted, VMInHand, DiskInHand, StemcellInHand, Known, KnownVMs,
         KnownDisks, KnownStemcells, DiskInv, RecordedDisks, RecordedStemcells
  <2> QED
    BY <2>1, <2>2
<1>16. DeleteComplete'
  BY DEF DeleteComplete, FaultInv
<1> QED
  BY <1>1, <1>2, <1>3, <1>4, <1>5, <1>6, <1>7, <1>8, <1>9, <1>10, <1>11, <1>12, <1>13,
       <1>14, <1>15, <1>16

\* Deleting unused disks, in both commands.
LEMMA UnusedDiskStepInv == IInv /\ UnusedDiskStep => IInv'
<1> SUFFICES ASSUME IInv, UnusedDiskStep PROVE IInv'
  OBVIOUS
<1> USE DEF IInv, UnusedDiskStep, PickUnusedDisk, DeleteUnusedDisk, ForgetUnusedDisk,
        NoUnusedDisks, UnusedDisks, DeleteDisk, DiskForget
<1>1. TypeOK'
  BY DEF TypeOK, StateTypeOK, DiskRecord, Writing, PCs, RecordedDisks, Opt
<1>2. CmdInv'
  BY DEF CmdInv, DeployOnly, DeleteOnly
<1>3. FileInv'
  BY DEF FileInv
<1>4. RecordsInv'
  BY DEF RecordsInv, RecordedDisks, RecordedStemcells, Opt
<1>5. VMInv'
  BY DEF VMInv, KnownVM, OldVM, NoRecordedVM, UnusedDiskStage
<1>6. DiskInv'
  BY DEF DiskInv, VMInv, KnownVM, FileInv, CmdInv, RecordedDisks, CurrentDisk, DiskStage,
         UnusedDiskStage, TypeOK
<1>7. DeleteInv'
  BY DEF DeleteInv, RecordedDisks, CurrentDisk, OldVM, UnusedDiskStage, UnusedStemcellStage,
         TypeOK, StateTypeOK, DiskRecord
<1>8. StemcellInv'
  BY DEF StemcellInv, OldVM, UnusedDiskStage
<1>9. DeployedInv'
  BY DEF DeployedInv, UnusedDiskStage
<1>10. FaultInv'
  BY DEF FaultInv
<1>11. DataInv'
  BY DEF DataInv
<1>12. ContractInv'
  BY DEF ContractInv, AfterPromotion, StemcellsFound, UnusedDiskStage, UnusedStemcellStage
<1>13. DataSafe'
  BY DEF DataSafe, DataDisk, FileInv, RecordsInv, DiskInv, RecordedDisks, CurrentDisk, Opt
<1>14. JobsWriteCurrentDisk'
  BY DEF JobsWriteCurrentDisk, DataDisk, DiskInv, RecordedDisks, CurrentDisk
<1>15. Accounted'
  BY DEF Accounted, VMInHand, DiskInHand, StemcellInHand, Known, KnownVMs, KnownDisks,
         KnownStemcells, DiskInv, RecordedDisks, RecordedStemcells
<1>16. DeleteComplete'
  BY DEF DeleteComplete, InCloud
<1> QED
  BY <1>1, <1>2, <1>3, <1>4, <1>5, <1>6, <1>7, <1>8, <1>9, <1>10, <1>11, <1>12, <1>13,
       <1>14, <1>15, <1>16

\* Updating the jobs and writing the deployment record.
LEMMA JobsStepInv == IInv /\ JobsStep => IInv'
<1> SUFFICES ASSUME IInv, JobsStep PROVE IInv'
  OBVIOUS
<1> USE DEF IInv, JobsStep, StopForUpdate, Apply, Start, JobsAreRunning, UpdateSha1,
        UpdateReleases, StopJobs, ApplySpec, StartJobs, ManifestUpdateCurrent,
        ReleasesUpdate
<1>1. TypeOK'
  BY DEF TypeOK, StateTypeOK, InputRecord, Writing, PCs, DeployOnly, Opt, CmdInv
<1>2. CmdInv'
  BY DEF CmdInv, DeployOnly, DeleteOnly
<1>3. FileInv'
  BY DEF FileInv
<1>4. RecordsInv'
  BY DEF RecordsInv, RecordedDisks, RecordedStemcells, Opt
<1>5. VMInv'
  BY DEF VMInv, StemcellInv, KnownVM, FileInv, CmdInv, DeployOnly, OldVM, NoRecordedVM,
         JobsStage, TypeOK
<1>6. DiskInv'
  BY DEF DiskInv, DiskStage, UnusedDiskStage, JobsStage
<1>7. DeleteInv'
  BY DEF DeleteInv, CmdInv, DeployOnly
<1>8. StemcellInv'
  BY DEF StemcellInv, OldVM, JobsStage
<1>9. DeployedInv'
  BY DEF DeployedInv, StemcellInv, CmdInv, DeployOnly, OldVM, DiskStage, UnusedDiskStage,
         JobsStage
<1>10. FaultInv'
  BY DEF FaultInv
<1>11. DataInv'
  BY DEF DataInv, DiskInv
<1>12. ContractInv'
  BY DEF ContractInv, DeployedInv, AfterPromotion, StemcellsFound, JobsStage,
         UnusedStemcellStage
<1>13. DataSafe'
  BY DEF DataSafe, DataDisk, FileInv, CmdInv, RecordsInv, DiskInv, DeployOnly,
         RecordedDisks, CurrentDisk, Opt, JobsStage
<1>14. JobsWriteCurrentDisk'
  BY DEF JobsWriteCurrentDisk, DataDisk, FileInv, CmdInv, RecordsInv, DiskInv, DeployOnly,
         RecordedDisks, CurrentDisk, Opt, JobsStage
<1>15. Accounted'
  BY DEF Accounted, VMInHand, DiskInHand, StemcellInHand, Known, KnownVMs, KnownDisks,
         KnownStemcells, RecordedDisks, RecordedStemcells
<1>16. DeleteComplete'
  BY DEF DeleteComplete, InCloud
<1> QED
  BY <1>1, <1>2, <1>3, <1>4, <1>5, <1>6, <1>7, <1>8, <1>9, <1>10, <1>11, <1>12, <1>13,
       <1>14, <1>15, <1>16

\* Deleting unused stemcells, in both commands.
LEMMA UnusedStemcellStepInv == IInv /\ UnusedStemcellStep => IInv'
<1> SUFFICES ASSUME IInv, UnusedStemcellStep PROVE IInv'
  OBVIOUS
<1> USE DEF IInv, UnusedStemcellStep, PickUnusedStemcell, DeleteUnusedStemcell,
        ForgetUnusedStemcell, NoUnusedStemcells, UnusedStemcells, DeleteStemcell,
        StemcellForget
<1>1. TypeOK'
  BY DEF TypeOK, StateTypeOK, StemcellRecord, Writing, PCs, RecordedStemcells, Opt
<1>2. CmdInv'
  BY DEF TypeOK, CmdInv, DeployOnly, DeleteOnly
<1>3. FileInv'
  BY DEF FileInv
<1>4. RecordsInv'
  BY DEF RecordsInv, RecordedDisks, RecordedStemcells, StemcellsFound, Opt
<1>5. VMInv'
  BY DEF VMInv, KnownVM, CmdInv, OldVM, NoRecordedVM, UnusedStemcellStage, TypeOK
<1>6. DiskInv'
  BY DEF DiskInv, DiskStage, UnusedDiskStage, JobsStage
<1>7. DeleteInv'
  BY DEF DeleteInv, CmdInv, RecordedStemcells, CurrentStemcell, OldVM, UnusedDiskStage,
         UnusedStemcellStage, TypeOK, StateTypeOK, StemcellRecord
<1>8. StemcellInv'
  BY DEF StemcellInv, RecordsInv, RecordedStemcells, CurrentStemcell, StemcellsFound, OldVM,
         UnusedStemcellStage
<1>9. DeployedInv'
  BY DEF DeployedInv, OldVM, DiskStage, UnusedDiskStage, JobsStage
<1>10. FaultInv'
  BY DEF FaultInv
<1>11. DataInv'
  BY DEF DataInv
<1>12. ContractInv'
  BY DEF ContractInv, AfterPromotion, RecordsInv, StemcellInv, StemcellsFound,
         UnusedStemcellStage
<1>13. DataSafe'
  BY DEF DataSafe, DataDisk, RecordedDisks, CurrentDisk
<1>14. JobsWriteCurrentDisk'
  BY DEF JobsWriteCurrentDisk, DataDisk, RecordedDisks, CurrentDisk
<1>15. Accounted'
  BY DEF Accounted, VMInHand, DiskInHand, StemcellInHand, Known, KnownVMs, KnownDisks,
         KnownStemcells, RecordsInv, StemcellInv, RecordedDisks, RecordedStemcells
<1>16. DeleteComplete'
  BY DEF DeleteComplete, InCloud
<1> QED
  BY <1>1, <1>2, <1>3, <1>4, <1>5, <1>6, <1>7, <1>8, <1>9, <1>10, <1>11, <1>12, <1>13,
       <1>14, <1>15, <1>16

\* The delete command's own steps.
LEMMA DeleteStepInv == IInv /\ DeleteStep => IInv'
<1> SUFFICES ASSUME IInv, DeleteStep PROVE IInv'
  OBVIOUS
<1> USE DEF IInv, DeleteStep, FindDeployment, CurrentDiskFound, DeleteCurrentDisk,
        ForgetCurrentDisk, CurrentStemcellFound, DeleteCurrentStemcell,
        ForgetCurrentStemcell, Uninstall, CleanupState, Finish, DeleteDisk, DiskForget,
        DeleteStemcell, StemcellForget, Cleanup
<1>1. TypeOK'
  BY DEF TypeOK, StateTypeOK, Writing, PCs, CurrentDisk, CurrentStemcell, Opt
<1>2. CmdInv'
  BY DEF CmdInv, DeployOnly, DeleteOnly
<1>3. FileInv'
  BY DEF FileInv, CmdInv, DeleteOnly, EmptyRecords
<1>4. RecordsInv'
  BY DEF RecordsInv, RecordedDisks, RecordedStemcells, StemcellsFound, Opt
<1>5. VMInv'
  BY DEF VMInv, KnownVM, FileInv, OldVM, NoRecordedVM, UnusedDiskStage, UnusedStemcellStage
<1>6. DiskInv'
  BY DEF DiskInv, VMInv, KnownVM, FileInv, CmdInv, DeleteOnly, NoRecordedVM, DiskStage,
         UnusedDiskStage, JobsStage
<1>7. DeleteInv'
  BY DEF DeleteInv, CmdInv, RecordsInv, DeleteOnly, RecordedStemcells, CurrentDisk,
         CurrentStemcell, StemcellsFound, Opt, OldVM, UnusedDiskStage, UnusedStemcellStage
<1>8. StemcellInv'
  BY DEF StemcellInv, CmdInv, DeleteOnly, OldVM, DiskStage, UnusedDiskStage, JobsStage,
         UnusedStemcellStage
<1>9. DeployedInv'
  BY DEF DeployedInv, CmdInv, DeleteOnly, OldVM, DiskStage, UnusedDiskStage, JobsStage
<1>10. FaultInv'
  BY DEF FaultInv, FileInv
<1>11. DataInv'
  BY DEF DataInv
<1>12. ContractInv'
  BY DEF ContractInv, AfterPromotion, CmdInv, DeleteOnly, StemcellsFound
<1>13. DataSafe'
  BY DEF DataSafe, DataDisk, FileInv, CmdInv, DeleteInv, DeleteOnly, RecordedDisks,
         CurrentDisk, TypeOK
<1>14. JobsWriteCurrentDisk'
  BY DEF JobsWriteCurrentDisk, DataDisk, FileInv, VMInv, KnownVM, RecordedDisks,
         CurrentDisk, NoRecordedVM
<1>15. Accounted'
  BY DEF Accounted, VMInHand, DiskInHand, StemcellInHand, Known, KnownVMs, KnownDisks,
         KnownStemcells, FileInv, CmdInv, VMInv, RecordsInv, DeleteInv, DeleteOnly,
         RecordedDisks, RecordedStemcells, NoRecordedVM
<1>16. DeleteComplete'
  BY DEF DeleteComplete, InCloud, Accounted, VMInHand, DiskInHand, StemcellInHand, Known,
         KnownVMs, KnownDisks, KnownStemcells, FileInv
<1> QED
  BY <1>1, <1>2, <1>3, <1>4, <1>5, <1>6, <1>7, <1>8, <1>9, <1>10, <1>11, <1>12, <1>13,
       <1>14, <1>15, <1>16

\* Calls that the state of the cloud makes fail.
LEMMA CloudRefusesInv == IInv /\ CloudRefuses => IInv'
<1> SUFFICES ASSUME IInv, CloudRefuses PROVE IInv'
  OBVIOUS
<1> USE DEF IInv, CloudRefuses
<1>1. TypeOK'
  BY DEF TypeOK, StateTypeOK, PCs, Opt
<1>2. CmdInv'
  BY DEF CmdInv, DeployOnly, DeleteOnly
<1>3. FileInv'
  BY DEF FileInv
<1>4. RecordsInv'
  BY DEF RecordsInv, RecordedDisks, RecordedStemcells
<1>5. VMInv'
  BY DEF VMInv, KnownVM, OldVM, NoRecordedVM, UnusedDiskStage, UnusedStemcellStage
<1>6. DiskInv'
  BY DEF DiskInv, DiskStage, UnusedDiskStage, JobsStage
<1>7. DeleteInv'
  BY DEF DeleteInv, OldVM, UnusedDiskStage, UnusedStemcellStage
<1>8. StemcellInv'
  BY DEF StemcellInv, OldVM, DiskStage, UnusedDiskStage, JobsStage, UnusedStemcellStage
<1>9. DeployedInv'
  BY DEF DeployedInv, OldVM, DiskStage, UnusedDiskStage, JobsStage
<1>10. FaultInv'
  BY DEF FaultInv, CmdInv, DeployOnly
<1>11. DataInv'
  BY DEF DataInv
<1>12. ContractInv'
  BY DEF ContractInv, AfterPromotion, DiskStage, UnusedDiskStage, JobsStage,
         UnusedStemcellStage
<1>13. DataSafe'
  BY DEF DataSafe, DataDisk, RecordedDisks, CurrentDisk
<1>14. JobsWriteCurrentDisk'
  BY DEF JobsWriteCurrentDisk, DataDisk, RecordedDisks, CurrentDisk
<1>15. Accounted'
  BY DEF Accounted, VMInHand, DiskInHand, StemcellInHand, Known, KnownVMs, KnownDisks,
         KnownStemcells, RecordedDisks, RecordedStemcells
<1>16. DeleteComplete'
  BY DEF DeleteComplete
<1> QED
  BY <1>1, <1>2, <1>3, <1>4, <1>5, <1>6, <1>7, <1>8, <1>9, <1>10, <1>11, <1>12, <1>13,
       <1>14, <1>15, <1>16

\* A command interrupted at any step.
LEMMA InterruptedInv == IInv /\ Interrupted => IInv'
<1> SUFFICES ASSUME IInv, Interrupted PROVE IInv'
  OBVIOUS
<1> USE DEF IInv, Interrupted
<1>1. TypeOK'
  BY DEF TypeOK, StateTypeOK, PCs, Opt, DiskInv, StemcellInv, InHand, VMInHand, DiskInHand,
         StemcellInHand
<1>2. CmdInv'
  BY DEF CmdInv, DeployOnly, DeleteOnly
<1>3. FileInv'
  BY DEF FileInv, EmptyRecords
<1>4. RecordsInv'
  BY DEF RecordsInv, RecordedDisks, RecordedStemcells
<1>5. VMInv'
  BY DEF VMInv, KnownVM, OldVM, NoRecordedVM, UnusedDiskStage, UnusedStemcellStage
<1>6. DiskInv'
  BY DEF DiskInv, DiskStage, UnusedDiskStage, JobsStage
<1>7. DeleteInv'
  BY DEF DeleteInv, OldVM, UnusedDiskStage, UnusedStemcellStage
<1>8. StemcellInv'
  BY DEF StemcellInv, OldVM, DiskStage, UnusedDiskStage, JobsStage, UnusedStemcellStage
<1>9. DeployedInv'
  BY DEF DeployedInv, OldVM, DiskStage, UnusedDiskStage, JobsStage
<1>10. FaultInv'
  BY DEF FaultInv, TypeOK
<1>11. DataInv'
  BY DEF DataInv
<1>12. ContractInv'
  BY DEF ContractInv, AfterPromotion, DiskStage, UnusedDiskStage, JobsStage,
         UnusedStemcellStage
<1>13. DataSafe'
  BY DEF DataSafe, DataDisk, RecordedDisks, CurrentDisk
<1>14. JobsWriteCurrentDisk'
  BY DEF JobsWriteCurrentDisk, DataDisk, RecordedDisks, CurrentDisk
<1>15. Accounted'
  BY DEF Accounted, InHand, Known, KnownVMs, KnownDisks, KnownStemcells, RecordedDisks,
         RecordedStemcells
<1>16. DeleteComplete'
  BY DEF DeleteComplete
<1> QED
  BY <1>1, <1>2, <1>3, <1>4, <1>5, <1>6, <1>7, <1>8, <1>9, <1>10, <1>11, <1>12, <1>13,
       <1>14, <1>15, <1>16

\* A write of the state file cut short.
LEMMA TornWriteInv == IInv /\ TornWrite => IInv'
<1> SUFFICES ASSUME IInv, TornWrite PROVE IInv'
  OBVIOUS
<1> USE DEF IInv, TornWrite
<1>1. TypeOK'
  BY DEF TypeOK, StateTypeOK, PCs, Opt, DiskInv, StemcellInv, InHand, VMInHand, DiskInHand,
         StemcellInHand
<1>2. CmdInv'
  BY DEF CmdInv, DeployOnly, DeleteOnly
<1>3. FileInv'
  BY DEF FileInv
<1>4. RecordsInv'
  BY DEF RecordsInv, RecordedDisks, RecordedStemcells
<1>5. VMInv'
  BY DEF VMInv, OldVM, NoRecordedVM, UnusedDiskStage, UnusedStemcellStage
<1>6. DiskInv'
  BY DEF DiskInv, DiskStage, UnusedDiskStage, JobsStage
<1>7. DeleteInv'
  BY DEF DeleteInv, OldVM, UnusedDiskStage, UnusedStemcellStage
<1>8. StemcellInv'
  BY DEF StemcellInv, OldVM, DiskStage, UnusedDiskStage, JobsStage, UnusedStemcellStage
<1>9. DeployedInv'
  BY DEF DeployedInv, OldVM, DiskStage, UnusedDiskStage, JobsStage
<1>10. FaultInv'
  BY DEF FaultInv, TypeOK
<1>11. DataInv'
  BY DEF DataInv
<1>12. ContractInv'
  BY DEF ContractInv, AfterPromotion, DiskStage, UnusedDiskStage, JobsStage,
         UnusedStemcellStage
<1>13. DataSafe'
  BY DEF DataSafe
<1>14. JobsWriteCurrentDisk'
  BY DEF JobsWriteCurrentDisk
<1>15. Accounted'
  BY DEF Accounted
<1>16. DeleteComplete'
  BY DEF DeleteComplete
<1> QED
  BY <1>1, <1>2, <1>3, <1>4, <1>5, <1>6, <1>7, <1>8, <1>9, <1>10, <1>11, <1>12, <1>13,
       <1>14, <1>15, <1>16

=============================================================================
