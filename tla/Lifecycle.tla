----------------------------- MODULE Lifecycle -----------------------------
(***************************************************************************)
(* The deploy and delete commands of bosh-init, one step per call that     *)
(* changes the state file, the cloud or the agent, over the repositories   *)
(* of DeploymentState and the infrastructure of Cloud.                     *)
(*                                                                         *)
(* bosh-init is one sequential process per command.  Between two steps it  *)
(* may stop for good: because the call it is about to make fails, because  *)
(* the call it just made did its work and then reported an error, or       *)
(* because the process is killed.  All three leave the same state behind   *)
(* (the process' memory is lost, the file and the cloud are as they are),  *)
(* so that one action, Interrupted, stands for them; it is enabled at      *)
(* every step of a command.  The file is written in place, so a write may  *)
(* also leave a file that no longer parses (TornWrite).                    *)
(*                                                                         *)
(* What a command holds in memory: in (its inputs), vm, stem, orig (the    *)
(* current disk it found), dsk (the disk it creates) and victim (the disk  *)
(* or stemcell it is deleting).                                            *)
(***************************************************************************)
EXTENDS Cloud, Naturals

CONSTANTS
    Inputs,      \* what a deploy may be given: manifest, stemcell and releases
    MaxFaults    \* bound on interruptions and torn writes

InputRecord == [sha1 : Sha1s, version : Versions, disk : Opt(DiskSpecs),
                releases : ReleaseSets, instances : Nat]

ASSUME InputsAssumption == Inputs \subseteq InputRecord /\ None \notin Inputs
ASSUME MaxFaultsAssumption == MaxFaults \in Nat

VARIABLES
    cmd,       \* the command started last: "none", "deploy" or "delete"
    pc,        \* where it is; "idle" when no process runs
    in, vm, stem, orig, dsk, victim,
    result,    \* how the last command ended: "none", "ok", "skipped", "failed"
    (***********************************************************************)
    (* Observation.                                                        *)
    (***********************************************************************)
    faults,    \* interruptions so far
    since,     \* faults when the command started: it is undisturbed while they agree
    disturbed, \* "yes": a delete has touched the jobs or the VM since they were started
    leaked     \* cids that were created and lost before they were recorded

localVars == <<in, vm, stem, orig, dsk, victim>>
ghostVars == <<faults, since, disturbed, leaked>>
vars == <<stateVars, cloudVars, cmd, pc, localVars, result, ghostVars>>

\* Steps that write the state file
Writing == {"migrate_save", "load", "new_target", "save_stemcell", "clear_sha1", "clear_releases",
            "clear_vm", "clear_stemcell", "record_vm", "promote", "save_disk",
            "update_disk", "forget_orig", "forget_unused_disk", "forget_current_disk",
            "update_sha1", "update_releases", "forget_unused_stemcell",
            "forget_current_stemcell"}

PCs == Writing \cup
       {"idle", "migrate_remove", "validate", "upload", "find_instances",
        "exists", "ping", "stop_jobs", "unmount", "delete_vm", "check_jobs",
        "create_vm", "wait_ready", "deploy_disk", "attach_existing", "mount_existing",
        "create_disk", "attach_new", "mount_new", "migrate_disk", "detach",
        "delete_orig", "unused_disks", "delete_unused_disk", "update_jobs", "apply",
        "start", "wait_running", "unused_stemcells", "delete_unused_stemcell",
        "find_deployment", "current_disk", "delete_current_disk",
        "current_stemcell", "delete_current_stemcell", "uninstall",
        "cleanup_state", "finish"}

TypeOK ==
    /\ StateTypeOK
    /\ cloudVMs \in SUBSET VMs
    /\ cloudDisks \in SUBSET Disks
    /\ cloudStemcells \in SUBSET Stemcells
    /\ attached \in SUBSET Disks
    /\ mounted \in SUBSET Disks
    /\ jobs \in {"none", "stopped", "running"}
    /\ applied \in Opt(Inputs)
    /\ base \in Opt(Stemcells)
    /\ dataOn \in SUBSET Disks
    /\ cmd \in {"none", "deploy", "delete"}
    /\ pc \in PCs
    /\ in \in Opt(Inputs)
    /\ vm \in Opt(VMs)
    /\ stem \in Opt(Stemcells)
    /\ orig \in Opt(Disks)
    /\ dsk \in Opt(Disks)
    /\ victim \in Opt(Disks \cup Stemcells)
    /\ result \in {"none", "ok", "skipped", "failed"}
    /\ faults \in Nat
    /\ since \in Nat
    /\ disturbed \in {"no", "yes"}
    /\ leaked \in SUBSET (VMs \cup Disks \cup Stemcells)

-----------------------------------------------------------------------------
(* How steps are written.                                                  *)

At(from) == pc = from
Goto(to) == pc' = to /\ UNCHANGED <<cmd, result>>

\* The command returns: whatever it held in memory is gone.
End(r) ==
    /\ pc' = "idle" /\ result' = r
    /\ vm' = None /\ stem' = None /\ orig' = None /\ dsk' = None /\ victim' = None
    /\ UNCHANGED <<cmd, in>>

\* Steps of the file only, of the cloud only, and of neither
OnFile == UNCHANGED <<cloudVars, ghostVars>>
OnCloud == UNCHANGED stateVars
Nowhere == UNCHANGED <<stateVars, cloudVars, ghostVars>>

LegacyCids == IF legacy = None THEN {} ELSE {legacy.vm, legacy.disk, legacy.stemcell}
FreshVMs == VMs \ (cloudVMs \cup LegacyCids \cup {currentVMCID})
FreshDisks == Disks \ (cloudDisks \cup RecordedDisks \cup LegacyCids)
FreshStemcells == Stemcells \ (cloudStemcells \cup RecordedStemcells \cup LegacyCids)

-----------------------------------------------------------------------------
(* Starting a command.                                                     *)

StartDeploy(i) ==
    /\ At("idle")
    /\ pc' = IF file = "absent" /\ legacy # None THEN "migrate_save" ELSE "load"
    /\ cmd' = "deploy" /\ in' = i /\ result' = "none" /\ since' = faults
    /\ UNCHANGED <<stateVars, cloudVars, vm, stem, orig, dsk, victim, faults, disturbed, leaked>>

\* MigrateIfExists: the new file first, then the old one is removed
MigrateSave ==
    /\ At("migrate_save") /\ Goto("migrate_remove")
    /\ SaveMigrated
    /\ OnFile /\ UNCHANGED localVars

MigrateRemove ==
    /\ At("migrate_remove") /\ Goto("load")
    /\ RemoveLegacy
    /\ OnFile /\ UNCHANGED localVars

\* The delete command does not look at the legacy file.
StartDelete ==
    /\ At("idle")
    /\ cmd' = "delete" /\ in' = None /\ since' = faults
    /\ IF file = "absent" THEN pc' = "idle" /\ result' = "ok"
                          ELSE pc' = "load" /\ result' = "none"
    /\ UNCHANGED <<stateVars, cloudVars, vm, stem, orig, dsk, victim, faults, disturbed, leaked>>

LoadState ==
    /\ At("load") /\ Goto("new_target")
    /\ Load
    /\ OnFile /\ UNCHANGED localVars

LoadFails ==
    /\ At("load") /\ file = "torn"
    /\ End("failed") /\ Nowhere

\* The installation target; validating and installing the CPI follow
Prepare ==
    /\ At("new_target") /\ Goto(IF cmd = "deploy" THEN "validate" ELSE "find_deployment")
    /\ NewTarget
    /\ OnFile /\ UNCHANGED localVars

-----------------------------------------------------------------------------
(* Deploy: the stemcell and the deployment record.                         *)

SkipDeploy ==
    /\ At("validate")
    /\ IsDeployed(in.sha1, in.version, in.releases)
    /\ End("skipped") /\ Nowhere

BeginDeploy ==
    /\ At("validate") /\ Goto("upload")
    /\ ~IsDeployed(in.sha1, in.version, in.releases)
    /\ Nowhere /\ UNCHANGED localVars

\* Mutant: with the stemcell already there, the deployment record is not cleared
StemcellAlreadyUploaded_NoClear ==
    /\ At("upload") /\ Goto("find_instances")
    /\ stem' \in StemcellsFound(in.version)
    /\ Nowhere /\ UNCHANGED <<in, vm, orig, dsk, victim>>

\* stemcellManager.Upload: a recorded stemcell is taken to be in the cloud
StemcellAlreadyUploaded ==
    /\ At("upload") /\ Goto("clear_sha1")
    /\ stem' \in StemcellsFound(in.version)
    /\ Nowhere /\ UNCHANGED <<in, vm, orig, dsk, victim>>

UploadStemcell ==
    /\ At("upload") /\ Goto("save_stemcell")
    /\ StemcellsFound(in.version) = {}
    /\ stem' \in FreshStemcells
    /\ CreateStemcell(stem')
    /\ OnCloud /\ UNCHANGED <<in, vm, orig, dsk, victim, ghostVars>>

SaveStemcell ==
    /\ At("save_stemcell") /\ Goto("clear_sha1")
    /\ StemcellSave(stem, in.version)
    /\ OnFile /\ UNCHANGED localVars

\* deploymentRecord.Clear
ClearSha1 ==
    /\ At("clear_sha1") /\ Goto("clear_releases")
    /\ ManifestUpdateCurrent(None)
    /\ OnFile /\ UNCHANGED localVars

ClearReleases ==
    /\ At("clear_releases") /\ Goto("find_instances")
    /\ ReleasesUpdate(None)
    /\ OnFile /\ UNCHANGED localVars

-----------------------------------------------------------------------------
(* Deleting the VM (instance.Delete), in both commands.                    *)

AfterVM == IF cmd = "deploy" THEN "check_jobs" ELSE "current_disk"

\* instanceManager.DeleteAll
FindInstances ==
    /\ At("find_instances") /\ Goto(IF currentVMCID = None THEN AfterVM ELSE "exists")
    /\ vm' = currentVMCID
    /\ Nowhere /\ UNCHANGED <<in, stem, orig, dsk, victim>>

\* Mutant: a recorded VM that no longer exists is an error
HasVM_MustExist ==
    \/ At("exists") /\ vm \in cloudVMs /\ Goto("ping") /\ Nowhere /\ UNCHANGED localVars
    \/ At("exists") /\ vm \notin cloudVMs /\ End("failed") /\ Nowhere

HasVM ==
    /\ At("exists") /\ Goto(IF vm \in cloudVMs THEN "ping" ELSE "delete_vm")
    /\ Nowhere /\ UNCHANGED localVars

\* shutdown: an agent that does not answer in time is given up on
AgentAnswers ==
    /\ At("ping") /\ Goto("stop_jobs")
    /\ Nowhere /\ UNCHANGED localVars

\* Mutant: a VM whose agent does not answer is taken to be gone
AgentUnreachable_Forgets ==
    /\ At("ping") /\ Goto("clear_vm")
    /\ Nowhere /\ UNCHANGED localVars

AgentUnreachable ==
    /\ At("ping") /\ Goto("delete_vm")
    /\ Nowhere /\ UNCHANGED localVars

Disturb == disturbed' = IF cmd = "delete" THEN "yes" ELSE disturbed

ShutdownJobs ==
    /\ At("stop_jobs") /\ Goto("unmount")
    /\ StopJobs
    /\ Disturb
    /\ OnCloud /\ UNCHANGED <<localVars, faults, since, leaked>>

Unmount(d) ==
    /\ At("unmount") /\ Goto("unmount")
    /\ d \in mounted
    /\ UnmountDisk(d)
    /\ OnCloud /\ UNCHANGED <<localVars, ghostVars>>

UnmountDone ==
    /\ At("unmount") /\ Goto("delete_vm")
    /\ mounted = {}
    /\ Nowhere /\ UNCHANGED localVars

\* vm.Delete: VMNotFound counts as deleted
DeleteVMInCloud ==
    /\ At("delete_vm") /\ Goto("clear_vm")
    /\ DeleteVM(vm)
    /\ Disturb
    /\ OnCloud /\ UNCHANGED <<localVars, faults, since, leaked>>

ClearVM ==
    /\ At("clear_vm") /\ Goto("clear_stemcell")
    /\ VMUpdateCurrent(None)
    /\ OnFile /\ UNCHANGED localVars

ClearStemcell ==
    /\ At("clear_stemcell") /\ Goto(AfterVM)
    /\ StemcellUpdateCurrent(None)
    /\ OnFile /\ UNCHANGED localVars

-----------------------------------------------------------------------------
(* Deploy: the new VM (deployer.createAllInstances, instanceManager.Create).  *)

\* The number of instances is only looked at once the old VM is gone.
CheckJobs ==
    /\ At("check_jobs") /\ Goto("create_vm")
    /\ in.instances = 1
    /\ Nowhere /\ UNCHANGED localVars

WrongInstances ==
    /\ At("check_jobs") /\ in.instances # 1
    /\ End("failed") /\ Nowhere

CreateVMInCloud ==
    /\ At("create_vm") /\ Goto("record_vm")
    /\ vm' \in FreshVMs
    /\ CreateVM(vm', stem)
    /\ OnCloud /\ UNCHANGED <<in, stem, orig, dsk, victim, ghostVars>>

\* Mutant: the VM is not recorded
RecordVM_Forgotten ==
    /\ At("record_vm") /\ Goto("promote")
    /\ Nowhere /\ UNCHANGED localVars

\* Recorded at once; then the metadata, whose NotImplementedError is ignored
RecordVM ==
    /\ At("record_vm") /\ Goto("promote")
    /\ VMUpdateCurrent(vm)
    /\ OnFile /\ UNCHANGED localVars

\* Mutant: the stemcell of the new VM is not made current
PromoteStemcell_Forgotten ==
    /\ At("promote") /\ Goto("wait_ready")
    /\ Nowhere /\ UNCHANGED localVars

\* cloudStemcell.PromoteAsCurrent: the record is found by name and version
PromoteStemcell ==
    /\ At("promote") /\ Goto("wait_ready")
    /\ \E s \in StemcellsFound(in.version) : StemcellUpdateCurrent(s)
    /\ OnFile /\ UNCHANGED localVars

WaitUntilReady ==
    /\ At("wait_ready") /\ Goto("deploy_disk")
    /\ Nowhere /\ UNCHANGED localVars

-----------------------------------------------------------------------------
(* Deploy: the persistent disk (diskDeployer.Deploy).                      *)

\* With size 0 the disk deployer returns at once: a current disk stays recorded,
\* unattached, and unused disks are not cleaned up.
NoDiskWanted ==
    /\ At("deploy_disk") /\ Goto("update_jobs")
    /\ in.disk = None
    /\ Nowhere /\ UNCHANGED localVars

FindDisk ==
    /\ At("deploy_disk")
    /\ in.disk # None
    /\ orig' = CurrentDisk
    /\ Goto(IF CurrentDisk = None THEN "create_disk" ELSE "attach_existing")
    /\ Nowhere /\ UNCHANGED <<in, vm, stem, dsk, victim>>

AttachExisting ==
    /\ At("attach_existing") /\ Goto("mount_existing")
    /\ AttachDisk(orig)
    /\ OnCloud /\ UNCHANGED <<localVars, ghostVars>>

MountExisting ==
    /\ At("mount_existing")
    /\ Goto(IF NeedsMigration(orig, in.disk) THEN "create_disk" ELSE "unused_disks")
    /\ MountDisk(orig)
    /\ OnCloud /\ UNCHANGED <<localVars, ghostVars>>

CreateDiskInCloud ==
    /\ At("create_disk") /\ Goto("save_disk")
    /\ dsk' \in FreshDisks
    /\ CreateDisk(dsk')
    /\ OnCloud /\ UNCHANGED <<in, vm, stem, orig, victim, ghostVars>>

SaveDisk ==
    /\ At("save_disk") /\ Goto("attach_new")
    /\ DiskSave(dsk, in.disk)
    /\ OnFile /\ UNCHANGED localVars

AttachNew ==
    /\ At("attach_new") /\ Goto("mount_new")
    /\ AttachDisk(dsk)
    /\ OnCloud /\ UNCHANGED <<localVars, ghostVars>>

\* Mutant: the content of the original disk is not migrated
MountNew_NoMigration ==
    /\ At("mount_new") /\ Goto("update_disk")
    /\ MountDisk(dsk)
    /\ OnCloud /\ UNCHANGED <<localVars, ghostVars>>

MountNew ==
    /\ At("mount_new") /\ Goto(IF orig = None THEN "update_disk" ELSE "migrate_disk")
    /\ MountDisk(dsk)
    /\ OnCloud /\ UNCHANGED <<localVars, ghostVars>>

\* migrateDisk: copy, switch the record, detach and delete the original
MigrateContent ==
    /\ At("migrate_disk") /\ Goto("update_disk")
    /\ MigrateDisk(orig, dsk)
    /\ OnCloud /\ UNCHANGED <<localVars, ghostVars>>

\* Mutant: a first disk is not made current
UpdateCurrentDisk_OnlyMigrated ==
    /\ At("update_disk") /\ Goto(IF orig = None THEN "unused_disks" ELSE "detach")
    /\ IF orig = None THEN UNCHANGED stateVars ELSE DiskUpdateCurrent(dsk)
    /\ OnFile /\ UNCHANGED localVars

UpdateCurrentDisk ==
    /\ At("update_disk") /\ Goto(IF orig = None THEN "unused_disks" ELSE "detach")
    /\ DiskUpdateCurrent(dsk)
    /\ OnFile /\ UNCHANGED localVars

\* Mutant: the original disk stays attached
DetachOriginal_Forgotten ==
    /\ At("detach") /\ Goto("delete_orig")
    /\ Nowhere /\ UNCHANGED localVars

DetachOriginal ==
    /\ At("detach") /\ Goto("delete_orig")
    /\ DetachDisk(orig)
    /\ OnCloud /\ UNCHANGED <<localVars, ghostVars>>

\* Here DiskNotFound is not skipped; the disk was attached a moment ago.
DeleteOriginal ==
    /\ At("delete_orig") /\ Goto("forget_orig")
    /\ orig \in cloudDisks
    /\ DeleteDisk(orig, dataOn)
    /\ OnCloud /\ UNCHANGED <<localVars, ghostVars>>

ForgetOriginal ==
    /\ At("forget_orig") /\ Goto("unused_disks")
    /\ DiskForget(orig)
    /\ OnFile /\ UNCHANGED localVars

\* diskManager.DeleteUnused, in both commands; DiskNotFound is skipped
PickUnusedDisk ==
    /\ At("unused_disks") /\ Goto("delete_unused_disk")
    /\ victim' \in UnusedDisks
    /\ Nowhere /\ UNCHANGED <<in, vm, stem, orig, dsk>>

\* Mutant: DiskNotFound is an error
DeleteUnusedDisk_MustExist ==
    \/ /\ At("delete_unused_disk") /\ Goto("forget_unused_disk")
       /\ victim \in cloudDisks
       /\ DeleteDisk(victim, dataOn)
       /\ OnCloud /\ UNCHANGED <<localVars, ghostVars>>
    \/ At("delete_unused_disk") /\ victim \notin cloudDisks /\ End("failed") /\ Nowhere

DeleteUnusedDisk ==
    /\ At("delete_unused_disk") /\ Goto("forget_unused_disk")
    /\ DeleteDisk(victim, dataOn)
    /\ OnCloud /\ UNCHANGED <<localVars, ghostVars>>

ForgetUnusedDisk ==
    /\ At("forget_unused_disk") /\ Goto("unused_disks")
    /\ DiskForget(victim)
    /\ OnFile /\ UNCHANGED localVars

\* Mutant: a delete leaves the unused stemcells
NoUnusedDisks_KeepStemcells ==
    /\ At("unused_disks")
    /\ UnusedDisks = {}
    /\ Goto(IF cmd = "deploy" THEN "update_jobs" ELSE "uninstall")
    /\ Nowhere /\ UNCHANGED localVars

NoUnusedDisks ==
    /\ At("unused_disks")
    /\ UnusedDisks = {}
    /\ Goto(IF cmd = "deploy" THEN "update_jobs" ELSE "unused_stemcells")
    /\ Nowhere /\ UNCHANGED localVars

-----------------------------------------------------------------------------
(* Deploy: the jobs (instance.UpdateJobs) and the deployment record.       *)

\* The initial state is applied and the new one built; then the jobs are stopped.
StopForUpdate ==
    /\ At("update_jobs") /\ Goto("apply")
    /\ StopJobs
    /\ OnCloud /\ UNCHANGED <<localVars, ghostVars>>

\* The new state is applied and pre-start run.
Apply ==
    /\ At("apply") /\ Goto("start")
    /\ ApplySpec(in)
    /\ OnCloud /\ UNCHANGED <<localVars, ghostVars>>

Start ==
    /\ At("start") /\ Goto("wait_running")
    /\ StartJobs
    /\ disturbed' = "no"
    /\ OnCloud /\ UNCHANGED <<localVars, faults, since, leaked>>

\* The jobs report running, post-start runs.
JobsAreRunning ==
    /\ At("wait_running") /\ Goto("update_sha1")
    /\ Nowhere /\ UNCHANGED localVars

\* Mutant: the releases are not recorded
UpdateSha1_Unchecked ==
    /\ At("update_sha1") /\ Goto("unused_stemcells")
    /\ ManifestUpdateCurrent(in.sha1)
    /\ OnFile /\ UNCHANGED localVars

\* deploymentRecord.Update: the digest first, then the releases
UpdateSha1 ==
    /\ At("update_sha1") /\ Goto("update_releases")
    /\ ManifestUpdateCurrent(in.sha1)
    /\ OnFile /\ UNCHANGED localVars

UpdateReleases ==
    /\ At("update_releases") /\ Goto("unused_stemcells")
    /\ ReleasesUpdate(in.releases)
    /\ OnFile /\ UNCHANGED localVars

-----------------------------------------------------------------------------
(* stemcellManager.DeleteUnused, in both commands.                         *)

PickUnusedStemcell ==
    /\ At("unused_stemcells") /\ Goto("delete_unused_stemcell")
    /\ victim' \in UnusedStemcells
    /\ Nowhere /\ UNCHANGED <<in, vm, stem, orig, dsk>>

DeleteUnusedStemcell ==
    /\ At("delete_unused_stemcell") /\ Goto("forget_unused_stemcell")
    /\ DeleteStemcell(victim)
    /\ OnCloud /\ UNCHANGED <<localVars, ghostVars>>

ForgetUnusedStemcell ==
    /\ At("forget_unused_stemcell") /\ Goto("unused_stemcells")
    /\ \E r \in stemcells : r.cid = victim /\ StemcellForget(r.version)
    /\ OnFile /\ UNCHANGED localVars

NoUnusedStemcells ==
    /\ At("unused_stemcells")
    /\ UnusedStemcells = {}
    /\ Goto(IF cmd = "deploy" THEN "finish" ELSE "uninstall")
    /\ Nowhere /\ UNCHANGED localVars

-----------------------------------------------------------------------------
(* Delete: what deploymentManager.FindCurrent found is deleted in the order *)
(* instance, disk, stemcell.  It was read before the VM was deleted: by    *)
(* then no stemcell is current any more.                                   *)

FindDeployment ==
    /\ At("find_deployment") /\ Goto(IF currentVMCID = None THEN "current_disk" ELSE "exists")
    /\ vm' = currentVMCID /\ orig' = CurrentDisk /\ stem' = CurrentStemcell
    /\ Nowhere /\ UNCHANGED <<in, dsk, victim>>

CurrentDiskFound ==
    /\ At("current_disk") /\ Goto(IF orig = None THEN "current_stemcell" ELSE "delete_current_disk")
    /\ Nowhere /\ UNCHANGED localVars

\* The operator's data goes here, on purpose.
DeleteCurrentDisk ==
    /\ At("delete_current_disk") /\ Goto("forget_current_disk")
    /\ DeleteDisk(orig, {})
    /\ OnCloud /\ UNCHANGED <<localVars, ghostVars>>

ForgetCurrentDisk ==
    /\ At("forget_current_disk") /\ Goto("current_stemcell")
    /\ DiskForget(orig)
    /\ OnFile /\ UNCHANGED localVars

CurrentStemcellFound ==
    /\ At("current_stemcell") /\ Goto(IF stem = None THEN "unused_disks" ELSE "delete_current_stemcell")
    /\ Nowhere /\ UNCHANGED localVars

DeleteCurrentStemcell ==
    /\ At("delete_current_stemcell") /\ Goto("forget_current_stemcell")
    /\ DeleteStemcell(stem)
    /\ OnCloud /\ UNCHANGED <<localVars, ghostVars>>

ForgetCurrentStemcell ==
    /\ At("forget_current_stemcell") /\ Goto("unused_disks")
    /\ \E r \in stemcells : r.cid = stem /\ StemcellForget(r.version)
    /\ OnFile /\ UNCHANGED localVars

\* The local CPI installation, then the state file
Uninstall ==
    /\ At("uninstall") /\ Goto("cleanup_state")
    /\ Nowhere /\ UNCHANGED localVars

CleanupState ==
    /\ At("cleanup_state") /\ Goto("finish")
    /\ Cleanup
    /\ OnFile /\ UNCHANGED localVars

\* The registry is stopped and the rendered CPI jobs are removed.
Finish ==
    /\ At("finish")
    /\ End("ok") /\ Nowhere

-----------------------------------------------------------------------------
(* What the cloud refuses, and interruptions.                              *)

\* A call that can only fail: a resource that is gone, or no quota left
CloudRefuses ==
    /\ \/ At("upload") /\ StemcellsFound(in.version) = {} /\ FreshStemcells = {}
       \/ At("create_vm") /\ (FreshVMs = {} \/ stem \notin cloudStemcells)
       \/ At("create_disk") /\ FreshDisks = {}
       \/ At("attach_existing") /\ orig \notin cloudDisks
    /\ End("failed") /\ Nowhere

\* What is in memory between its creation and its record
VMInHand == IF pc = "record_vm" THEN {vm} ELSE {}
DiskInHand == IF pc = "save_disk" THEN {dsk} ELSE {}
StemcellInHand == IF pc = "save_stemcell" THEN {stem} ELSE {}
InHand == VMInHand \cup DiskInHand \cup StemcellInHand

Interrupted ==
    /\ pc # "idle" /\ faults < MaxFaults
    /\ End("failed")
    /\ faults' = faults + 1 /\ leaked' = leaked \cup InHand
    /\ UNCHANGED <<stateVars, cloudVars, since, disturbed>>

\* WriteFile truncates and rewrites the file in place.  Load writes only a new
\* file, NewTarget only a new installation id.
TornWrite ==
    /\ pc \in Writing /\ faults < MaxFaults
    /\ pc = "load" => file = "absent"
    /\ pc = "new_target" => installationID = "none"
    /\ End("failed")
    /\ file' = "torn"
    /\ faults' = faults + 1 /\ leaked' = leaked \cup InHand
    /\ UNCHANGED <<legacy, installationID, recordVars, cloudVars, since, disturbed>>

-----------------------------------------------------------------------------
(* The specification.                                                      *)

\* Nothing deployed yet, or what the earlier micro deployer left behind: its
\* file, and a running VM with its disk and stemcell, as far as it made them.
Init ==
    /\ file = "absent" /\ EmptyRecords
    /\ \E v \in Opt(VMs), d \in Opt(Disks), s \in Opt(Stemcells) :
        /\ legacy \in {None, [vm |-> v, disk |-> d, stemcell |-> s]}
        /\ legacy = None => v = None /\ d = None /\ s = None
        /\ cloudVMs = {v} \ {None}
        /\ cloudDisks = {d} \ {None}
        /\ cloudStemcells = {s} \ {None}
        /\ attached = IF v = None THEN {} ELSE {d} \ {None}
        /\ base = IF v = None THEN None ELSE s
    /\ mounted = attached
    /\ jobs = IF cloudVMs = {} THEN "none" ELSE "running"
    /\ applied = None
    /\ dataOn = cloudDisks
    /\ cmd = "none" /\ pc = "idle" /\ result = "none"
    /\ in = None /\ vm = None /\ stem = None /\ orig = None /\ dsk = None /\ victim = None
    /\ faults = 0 /\ since = 0 /\ disturbed = "no" /\ leaked = {}

Begin == StartDelete \/ \E i \in Inputs : StartDeploy(i)

PrepareStep == MigrateSave \/ MigrateRemove \/ LoadState \/ LoadFails \/ Prepare

StemcellStep ==
    \/ SkipDeploy \/ BeginDeploy \/ StemcellAlreadyUploaded \/ UploadStemcell
    \/ SaveStemcell \/ ClearSha1 \/ ClearReleases

DeleteVMStep ==
    \/ FindInstances \/ HasVM \/ AgentAnswers \/ AgentUnreachable \/ ShutdownJobs
    \/ \E d \in Disks : Unmount(d)
    \/ UnmountDone \/ DeleteVMInCloud \/ ClearVM \/ ClearStemcell

CreateVMStep ==
    \/ CheckJobs \/ WrongInstances \/ CreateVMInCloud \/ RecordVM \/ PromoteStemcell
    \/ WaitUntilReady

DiskStep ==
    \/ NoDiskWanted \/ FindDisk \/ AttachExisting \/ MountExisting \/ CreateDiskInCloud
    \/ SaveDisk \/ AttachNew \/ MountNew \/ MigrateContent \/ UpdateCurrentDisk
    \/ DetachOriginal \/ DeleteOriginal \/ ForgetOriginal

UnusedDiskStep ==
    PickUnusedDisk \/ DeleteUnusedDisk \/ ForgetUnusedDisk \/ NoUnusedDisks

JobsStep ==
    \/ StopForUpdate \/ Apply \/ Start \/ JobsAreRunning \/ UpdateSha1 \/ UpdateReleases

UnusedStemcellStep ==
    \/ PickUnusedStemcell \/ DeleteUnusedStemcell \/ ForgetUnusedStemcell
    \/ NoUnusedStemcells

DeleteStep ==
    \/ FindDeployment \/ CurrentDiskFound \/ DeleteCurrentDisk \/ ForgetCurrentDisk
    \/ CurrentStemcellFound \/ DeleteCurrentStemcell \/ ForgetCurrentStemcell
    \/ Uninstall \/ CleanupState \/ Finish

\* A step of the running command that is not an interruption
Step ==
    \/ PrepareStep \/ StemcellStep \/ DeleteVMStep \/ CreateVMStep \/ DiskStep
    \/ UnusedDiskStep \/ JobsStep \/ UnusedStemcellStep \/ DeleteStep \/ CloudRefuses

Next == Begin \/ Step \/ Interrupted \/ TornWrite

Spec == Init /\ [][Next]_vars

(***************************************************************************)
(* Fairness: a running process takes its next step, and the operator tries *)
(* a delete again as long as there is something to delete.                 *)
(***************************************************************************)
FairSpec == Spec /\ WF_vars(Step) /\ WF_vars(StartDelete)
-----------------------------------------------------------------------------
(* Safety.                                                                 *)

\* What the state on disk says exists in the cloud
Known(current, old) == (IF file = "absent" THEN IF legacy = None THEN {} ELSE {old}
                                           ELSE current) \ {None}
KnownVMs == Known({currentVMCID}, legacy.vm)
KnownDisks == Known(RecordedDisks, legacy.disk)
KnownStemcells == Known(RecordedStemcells, legacy.stemcell)

(***************************************************************************)
(* Accounting for cloud resources: every VM, disk and stemcell in the      *)
(* cloud is recorded, or the running process has just created it and is    *)
(* about to record it, or the process was interrupted in exactly that      *)
(* window (vm/manager.go createAndRecordVm, disk/manager.go Create,        *)
(* stemcell/manager.go Upload).                                            *)
(***************************************************************************)
Accounted ==
    file # "torn" =>
        /\ cloudVMs \subseteq KnownVMs \cup VMInHand \cup leaked
        /\ cloudDisks \subseteq KnownDisks \cup DiskInHand \cup leaked
        /\ cloudStemcells \subseteq KnownStemcells \cup StemcellInHand \cup leaked

(***************************************************************************)
(* A record is dropped only after its resource is gone from the cloud, in  *)
(* every path of the two commands (vm.Delete, disk.Delete,                 *)
(* cloudStemcell.Delete, the migration of the legacy file and the removal  *)
(* of the state file at the end of a delete).                              *)
(***************************************************************************)
NeverForget ==
    [][file' # "torn" =>
          /\ KnownVMs \cap cloudVMs' \subseteq KnownVMs'
          /\ KnownDisks \cap cloudDisks' \subseteq KnownDisks'
          /\ KnownStemcells \cap cloudStemcells' \subseteq KnownStemcells']_vars

(***************************************************************************)
(* The data of the jobs survives every deploy, whatever interrupts it: as  *)
(* long as no delete was asked to destroy it, the disk the state on disk   *)
(* names as current exists and holds the latest copy (disk_deployer.go     *)
(* migrateDisk, legacy_deployment_state_migrator.go).                      *)
(***************************************************************************)
DataDisk == IF file = "absent"
            THEN IF legacy = None THEN None ELSE legacy.disk
            ELSE CurrentDisk

DataSafe == dataOn # {} /\ file # "torn" => DataDisk \in dataOn \cap cloudDisks

(***************************************************************************)
(* Only a delete ever removes the last copy of the data.                   *)
(***************************************************************************)
DataOnlyLostByDelete == [][dataOn # {} /\ dataOn' = {} => cmd = "delete"]_vars

(***************************************************************************)
(* Running jobs write to no disk but the one recorded as current, so that  *)
(* an interrupted deploy never leaves data on a disk the next one deletes. *)
(***************************************************************************)
JobsWriteCurrentDisk ==
    jobs = "running" /\ file # "torn" => mounted \subseteq {DataDisk}

(***************************************************************************)
(* A disk is never deleted while it is attached to the VM: a migrated disk *)
(* is detached first, unused disks were attached to an earlier VM only.    *)
(***************************************************************************)
NeverDeleteAttachedDisk ==
    [][\A d \in cloudDisks \ cloudDisks' : d \notin attached]_vars

(***************************************************************************)
(* A stemcell is never deleted while the recorded VM made from it exists   *)
(* (stemcell/manager.go DeleteUnused, deployment.go Delete).               *)
(***************************************************************************)
NeverDeleteUsedStemcell ==
    [][\A s \in cloudStemcells \ cloudStemcells' :
          ~(currentVMCID \in cloudVMs /\ s = base)]_vars

(***************************************************************************)
(* The deployment record is truthful: when it makes a deploy of an input   *)
(* be skipped, the recorded VM runs jobs of exactly that manifest, stemcell*)
(* and releases, unless a delete was begun and not finished since.  It is  *)
(* cleared before the old VM is touched and filled once the jobs run       *)
(* (record.go Clear, Update and IsDeployed).                               *)
(***************************************************************************)
RecordTruthful ==
    \A i \in Inputs :
        /\ file = "valid" /\ disturbed = "no" /\ IsDeployed(i.sha1, i.version, i.releases)
        => /\ currentVMCID \in cloudVMs
           /\ jobs = "running"
           /\ applied # None /\ applied.sha1 = i.sha1 /\ applied.releases = i.releases
           /\ base = CurrentStemcell

InCloud == cloudVMs \cup cloudDisks \cup cloudStemcells

(***************************************************************************)
(* A delete that succeeds leaves nothing behind but what was leaked: no    *)
(* state file and, unless a legacy file is still there, no VM, disk or     *)
(* stemcell in the cloud.                                                  *)
(***************************************************************************)
DeleteComplete ==
    cmd = "delete" /\ result = "ok" =>
        file = "absent" /\ (legacy = None => InCloud \subseteq leaked)

(***************************************************************************)
(* A delete that succeeds has deleted what was deployed before             *)
(* (deployment_deleter.go DeleteDeployment), whichever file recorded it.   *)
(***************************************************************************)
DeleteDeletesDeployment ==
    cmd = "delete" /\ result = "ok" => InCloud \subseteq leaked

(***************************************************************************)
(* Retrying works: whatever was interrupted before, a delete that is not   *)
(* itself interrupted fails only on a state file that does not parse.      *)
(***************************************************************************)
DeleteRetrySucceeds ==
    cmd = "delete" /\ pc = "idle" /\ result = "failed" /\ since = faults => file = "torn"

(***************************************************************************)
(* A deploy that is not interrupted fails only for a reason one can name:  *)
(* an unreadable file, a wrong number of instances, no quota, or a record  *)
(* of a disk or stemcell that an interrupted command deleted in the cloud  *)
(* and not yet in the file.                                                *)
(***************************************************************************)
DeployFailsForAReason ==
    cmd = "deploy" /\ pc = "idle" /\ result = "failed" /\ since = faults =>
        \/ file = "torn"
        \/ in.instances # 1
        \/ FreshVMs = {} \/ FreshDisks = {} \/ FreshStemcells = {}
        \/ CurrentDisk # None /\ CurrentDisk \notin cloudDisks
        \/ StemcellsFound(in.version) \cap cloudStemcells = {}

(***************************************************************************)
(* "Skipping deploy" means that the deployment is there                    *)
(* (deployment_preparer.go PrepareDeployment).                             *)
(***************************************************************************)
SkipMeansDeployed ==
    result = "skipped" => currentVMCID \in cloudVMs /\ jobs = "running"

(***************************************************************************)
(* A disk is only migrated when its size or its cloud properties change    *)
(* (disk.go NeedsMigration, disk_deployer.go deployExistingDisk).          *)
(***************************************************************************)
MigratesOnlyForChange ==
    pc = "create_disk" /\ orig # None => [cid |-> orig, spec |-> in.disk] \notin disks

-----------------------------------------------------------------------------
(* Liveness, under FairSpec.                                               *)

=============================================================================
