---------------------------- MODULE LifecycleInv ----------------------------
(***************************************************************************)
(* The inductive strengthening of the safety properties of Lifecycle: what *)
(* is true at each step of a command of the file, of the records, of the   *)
(* VM and of what the process holds in memory.                             *)
(***************************************************************************)
EXTENDS Lifecycle

DeployOnly ==
    {"migrate_save", "migrate_remove", "validate", "upload", "save_stemcell",
     "clear_sha1", "clear_releases", "find_instances", "check_jobs", "create_vm",
     "record_vm", "promote", "wait_ready", "deploy_disk", "attach_existing",
     "mount_existing", "create_disk", "save_disk", "attach_new", "mount_new",
     "migrate_disk", "update_disk", "detach", "delete_orig", "forget_orig",
     "update_jobs", "apply", "start", "wait_running", "update_sha1", "update_releases"}

DeleteOnly ==
    {"find_deployment", "current_disk", "delete_current_disk", "forget_current_disk",
     "current_stemcell", "delete_current_stemcell", "forget_current_stemcell",
     "uninstall", "cleanup_state"}

CmdInv ==
    /\ pc \in DeployOnly => cmd = "deploy"
    /\ pc \in DeleteOnly => cmd = "delete"
    /\ cmd = "deploy" => in \in Inputs
    /\ pc # "idle" => cmd # "none"

\* The file is there, and parses, from the moment it is loaded until it is removed.
FileInv ==
    /\ file = "absent" => EmptyRecords
    /\ pc = "migrate_save" => file = "absent" /\ legacy # None
    /\ pc = "load" /\ file = "absent" => legacy = None
    /\ pc \notin {"idle", "load", "migrate_save", "finish"} => file = "valid"
    /\ pc = "finish" => file = (IF cmd = "deploy" THEN "valid" ELSE "absent")

\* Records are unique, and what is current is recorded.
RecordsInv ==
    /\ \A r, q \in disks : r.cid = q.cid => r = q
    /\ \A r, q \in stemcells : r.cid = q.cid \/ r.version = q.version => r = q
    /\ currentDiskID \in Opt(RecordedDisks)
    /\ currentStemcellID \in Opt(RecordedStemcells)

KnownVM == IF file = "absent" THEN IF legacy = None THEN None ELSE legacy.vm
                              ELSE currentVMCID

\* While the old VM is deleted, and after
OldVM == {"exists", "ping", "stop_jobs", "unmount", "delete_vm", "clear_vm"}
NoRecordedVM ==
    {"clear_stemcell", "check_jobs", "create_vm", "record_vm", "current_disk",
     "delete_current_disk", "forget_current_disk", "current_stemcell",
     "delete_current_stemcell", "forget_current_stemcell", "uninstall", "cleanup_state"}

\* From the new VM's record on
DiskStage ==
    {"attach_existing", "mount_existing", "create_disk", "save_disk", "attach_new",
     "mount_new", "migrate_disk", "update_disk", "detach", "delete_orig", "forget_orig"}
UnusedDiskStage == {"unused_disks", "delete_unused_disk", "forget_unused_disk"}
JobsStage == {"update_jobs", "apply", "start", "wait_running", "update_sha1", "update_releases"}
UnusedStemcellStage ==
    {"unused_stemcells", "delete_unused_stemcell", "forget_unused_stemcell"}

VMInv ==
    /\ pc \in OldVM => vm = currentVMCID /\ vm # None
    /\ pc = "clear_vm" => vm \notin cloudVMs
    /\ pc \in NoRecordedVM => currentVMCID = None
    /\ cmd = "delete" /\ pc \in UnusedDiskStage \cup UnusedStemcellStage => currentVMCID = None
    /\ pc = "record_vm" => vm \in VMs
    /\ pc = "clear_vm" => jobs = "none" /\ attached = {} /\ mounted = {}
    /\ file # "torn" /\ KnownVM = None => jobs # "running" /\ attached = {} /\ mounted = {}

\* Which disks the VM may have attached and mounted
DiskInv ==
    /\ mounted \subseteq attached
    /\ attached \subseteq cloudDisks
    /\ pc \in {"record_vm", "promote", "wait_ready", "deploy_disk"} \cup DiskStage =>
           jobs = "stopped"
    /\ pc \in {"record_vm", "promote", "wait_ready", "deploy_disk"} => attached = {}
    /\ pc \in DiskStage \ {"detach", "delete_orig", "forget_orig"} => orig = currentDiskID
    /\ pc \in {"attach_existing", "mount_existing", "migrate_disk"} => orig # None
    /\ pc \in {"attach_existing", "mount_existing"} => attached \subseteq {orig} /\ mounted = {}
    /\ pc \in {"create_disk", "save_disk", "attach_new"} => attached \subseteq {orig}
    /\ pc = "save_disk" => dsk \in cloudDisks
    /\ pc \in {"save_disk", "attach_new", "mount_new", "migrate_disk", "update_disk",
               "detach", "delete_orig", "forget_orig"} => dsk # orig /\ dsk # None
    /\ pc \in {"attach_new", "mount_new", "migrate_disk", "update_disk"} => dsk \in RecordedDisks
    /\ pc = "mount_new" => attached \subseteq {orig, dsk} /\ mounted \subseteq {orig}
    /\ pc \in {"migrate_disk", "update_disk", "detach"} => attached \subseteq {orig, dsk}
    /\ pc = "update_disk" => mounted \subseteq {dsk}
    /\ pc = "update_disk" /\ orig # None /\ dataOn # {} => dsk \in dataOn
    /\ pc \in {"detach", "delete_orig", "forget_orig"} =>
           currentDiskID = dsk /\ orig # None /\ mounted \subseteq {dsk}
    /\ pc \in {"delete_orig", "forget_orig"} => attached \subseteq {dsk}
    /\ pc = "forget_orig" => orig \notin cloudDisks
    /\ pc \in {"delete_unused_disk", "forget_unused_disk"} =>
           victim \in RecordedDisks /\ victim # currentDiskID
    /\ pc = "forget_unused_disk" => victim \notin cloudDisks
    /\ cmd = "deploy" /\ pc \in UnusedDiskStage => jobs = "stopped"
    /\ cmd = "deploy" /\ pc \in UnusedDiskStage \cup JobsStage => attached \subseteq {currentDiskID}

\* What a delete has found and has left to do
DeleteInv ==
    /\ cmd = "delete" /\ pc \in OldVM \cup {"clear_stemcell", "current_disk",
           "delete_current_disk", "forget_current_disk"} => orig = currentDiskID
    /\ pc \in {"delete_current_disk", "forget_current_disk"} => orig # None
    /\ pc = "forget_current_disk" => orig \notin cloudDisks
    /\ pc \in {"current_stemcell", "delete_current_stemcell", "forget_current_stemcell"} =>
           currentDiskID = None
    /\ cmd = "delete" /\ pc \in UnusedDiskStage => currentDiskID = None
    /\ cmd = "delete" /\ pc \in UnusedStemcellStage \cup {"uninstall", "cleanup_state"} => disks = {}
    /\ cmd = "delete" /\ pc \in OldVM \cup {"clear_stemcell", "current_disk",
           "delete_current_disk", "forget_current_disk", "current_stemcell",
           "delete_current_stemcell", "forget_current_stemcell"} =>
           currentStemcellID \in {stem, None} /\ stem \in Opt(RecordedStemcells)
    /\ cmd = "delete" /\ pc \in UnusedDiskStage \cup UnusedStemcellStage =>
           currentStemcellID = None
    /\ pc \in {"delete_current_stemcell", "forget_current_stemcell"} => stem \in RecordedStemcells
    /\ pc = "forget_current_stemcell" => stem \notin cloudStemcells
    /\ pc \in {"uninstall", "cleanup_state"} => stemcells = {}

\* The stemcell of a deploy
StemcellInv ==
    /\ pc = "save_stemcell" => StemcellsFound(in.version) = {} /\ stem \in Stemcells /\ stem \notin RecordedStemcells
    /\ cmd = "deploy" /\ pc \in {"clear_sha1", "clear_releases", "find_instances",
           "clear_stemcell", "check_jobs", "create_vm", "record_vm", "promote"} \cup OldVM =>
           stem \in StemcellsFound(in.version)
    /\ pc \in {"record_vm", "promote"} => base = stem
    /\ cmd = "deploy" /\ pc \in {"wait_ready", "deploy_disk"} \cup DiskStage \cup UnusedDiskStage
           \cup JobsStage \cup UnusedStemcellStage =>
           base = currentStemcellID /\ base # None /\ currentVMCID \in cloudVMs
    /\ pc \in {"record_vm"} => vm \in cloudVMs
    /\ pc = "promote" => currentVMCID \in cloudVMs
    /\ pc \in {"delete_unused_stemcell", "forget_unused_stemcell"} =>
           victim \in RecordedStemcells /\ victim # currentStemcellID
    /\ pc = "forget_unused_stemcell" => victim \notin cloudStemcells

\* The deployment record is empty while it is not true.
DeployedInv ==
    /\ pc = "clear_releases" => currentManifestSHA1 = None
    /\ cmd = "deploy" /\ pc \in {"find_instances", "clear_stemcell", "check_jobs", "create_vm",
           "record_vm", "promote", "wait_ready", "deploy_disk"} \cup OldVM \cup DiskStage
           \cup UnusedDiskStage \cup (JobsStage \ {"update_releases"}) =>
           currentManifestSHA1 = None /\ releases = None
    /\ pc = "update_releases" => currentManifestSHA1 = in.sha1 /\ releases = None
    /\ pc \in {"start", "wait_running", "update_sha1", "update_releases"} => applied = in
    /\ pc \in {"wait_running", "update_sha1", "update_releases"} => jobs = "running"
    /\ cmd = "delete" /\ pc = "clear_vm" => disturbed = "yes"
    /\ file = "valid" /\ disturbed = "no" /\ currentManifestSHA1 # None /\ releases # None
           /\ currentStemcellID # None =>
           /\ currentVMCID \in cloudVMs
           /\ jobs = "running"
           /\ applied # None /\ applied.sha1 = currentManifestSHA1 /\ applied.releases = releases
           /\ base = currentStemcellID

FaultInv ==
    /\ since <= faults
    /\ cmd = "delete" /\ result = "failed" /\ since = faults => file = "torn"
    /\ pc # "idle" => result = "none"
    /\ cmd = "delete" /\ result = "ok" => file = "absent"

DataInv == dataOn \subseteq cloudDisks

\* From its promotion on the stemcell of a deploy is the current one, and once the
\* record is written it is the record of this deploy.
AfterPromotion ==
    {"wait_ready", "deploy_disk"} \cup DiskStage \cup UnusedDiskStage \cup JobsStage
        \cup UnusedStemcellStage \cup {"finish"}
ContractInv ==
    /\ cmd = "deploy" /\ pc \in AfterPromotion => currentStemcellID \in StemcellsFound(in.version)
    /\ cmd = "deploy" /\ pc \in UnusedStemcellStage \cup {"finish"} =>
           currentManifestSHA1 = in.sha1 /\ releases = in.releases

IInv ==
    /\ TypeOK /\ CmdInv /\ FileInv /\ RecordsInv /\ VMInv /\ DiskInv /\ DeleteInv
    /\ StemcellInv /\ DeployedInv /\ FaultInv /\ DataInv /\ ContractInv
    /\ DataSafe /\ JobsWriteCurrentDisk /\ Accounted /\ DeleteComplete

-----------------------------------------------------------------------------
(* Lifecycle implements the contract of DeploymentContract.                *)

Volume ==
    IF file = "torn" THEN "unreachable"
    ELSE IF DataDisk \notin dataOn THEN "none"
    ELSE IF file = "absent" THEN "unadopted" ELSE "live"

Certified ==
    IF file # "valid" \/ currentManifestSHA1 = None \/ releases = None THEN {}
    ELSE {[sha1 |-> currentManifestSHA1, version |-> r.version, releases |-> releases] :
              r \in {q \in stemcells : q.cid = currentStemcellID}}

Contract == INSTANCE DeploymentContract WITH
    command <- cmd, input <- in, outcome <- result,
    running <- IF pc = "idle" THEN "no" ELSE "yes",
    volume <- Volume, certified <- Certified

(***************************************************************************)
(* Every behaviour of the two commands, interrupted anywhere and any       *)
(* number of times, keeps the contract: data is brought in only by deploys,*)
(* destroyed only by deletes, and an outcome means what it says.           *)
(***************************************************************************)
ImplementsContract == Contract!ContractSpec
=============================================================================
