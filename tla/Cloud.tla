------------------------------- MODULE Cloud -------------------------------
(***************************************************************************)
(* The infrastructure behind the CPI and the agent on the VM, as package   *)
(* cloud and the vendored agent client use them.  Both are outside this    *)
(* repository; what the calls do is modelled from how the code relies on   *)
(* them:                                                                   *)
(*  - create_* returns a cid no live resource, record or caller holds, and *)
(*    fails when the quota (the finite sets of cids) is used up;           *)
(*  - delete_* of a resource that is gone reports *NotFound, which callers *)
(*    treat as done: the resource is absent afterwards in both cases;      *)
(*  - deleting a VM detaches its disks and ends its agent.                 *)
(*                                                                         *)
(* attached ... base describe the VM created last: at most one VM is       *)
(* recorded, and the code never talks to an earlier one again.             *)
(***************************************************************************)
EXTENDS DeploymentState

VARIABLES
    cloudVMs, cloudDisks, cloudStemcells,   \* what exists in the cloud
    attached,    \* disks attached to the VM
    mounted,     \* disks its agent has mounted
    jobs,        \* "none" without a VM, else "stopped" or "running"
    applied,     \* the input its agent was told to apply, or None
    base,        \* the stemcell it was created from, or None
    (***********************************************************************)
    (* Observation: the disks that hold the latest copy of the data the    *)
    (* jobs have written and no delete has been asked to destroy.          *)
    (***********************************************************************)
    dataOn

vmVars == <<attached, mounted, jobs, applied, base>>
cloudVars == <<cloudVMs, cloudDisks, cloudStemcells, vmVars, dataOn>>

\* create_stemcell
CreateStemcell(cid) ==
    /\ cloudStemcells' = cloudStemcells \cup {cid}
    /\ UNCHANGED <<cloudVMs, cloudDisks, vmVars, dataOn>>

\* delete_stemcell
DeleteStemcell(cid) ==
    /\ cloudStemcells' = cloudStemcells \ {cid}
    /\ UNCHANGED <<cloudVMs, cloudDisks, vmVars, dataOn>>

\* create_vm from a stemcell that must exist
CreateVM(cid, stemcell) ==
    /\ stemcell \in cloudStemcells
    /\ cloudVMs' = cloudVMs \cup {cid}
    /\ attached' = {} /\ mounted' = {}
    /\ jobs' = "stopped" /\ applied' = None /\ base' = stemcell
    /\ UNCHANGED <<cloudDisks, cloudStemcells, dataOn>>

\* delete_vm
DeleteVM(cid) ==
    /\ cloudVMs' = cloudVMs \ {cid}
    /\ attached' = {} /\ mounted' = {}
    /\ jobs' = "none" /\ applied' = None /\ base' = None
    /\ UNCHANGED <<cloudDisks, cloudStemcells, dataOn>>

\* create_disk
CreateDisk(cid) ==
    /\ cloudDisks' = cloudDisks \cup {cid}
    /\ UNCHANGED <<cloudVMs, cloudStemcells, vmVars, dataOn>>

\* delete_disk; keep is what is still wanted of the data afterwards
DeleteDisk(cid, keep) ==
    /\ cloudDisks' = cloudDisks \ {cid}
    /\ dataOn' = keep \ {cid}
    /\ UNCHANGED <<cloudVMs, cloudStemcells, vmVars>>

\* attach_disk of a disk that must exist
AttachDisk(cid) ==
    /\ cid \in cloudDisks
    /\ attached' = attached \cup {cid}
    /\ UNCHANGED <<cloudVMs, cloudDisks, cloudStemcells, mounted, jobs, applied, base, dataOn>>

\* detach_disk
DetachDisk(cid) ==
    /\ attached' = attached \ {cid}
    /\ UNCHANGED <<cloudVMs, cloudDisks, cloudStemcells, mounted, jobs, applied, base, dataOn>>

\* agent mount_disk of an attached disk
MountDisk(cid) ==
    /\ cid \in attached
    /\ mounted' = mounted \cup {cid}
    /\ UNCHANGED <<cloudVMs, cloudDisks, cloudStemcells, attached, jobs, applied, base, dataOn>>

\* agent unmount_disk
UnmountDisk(cid) ==
    /\ mounted' = mounted \ {cid}
    /\ UNCHANGED <<cloudVMs, cloudDisks, cloudStemcells, attached, jobs, applied, base, dataOn>>

\* agent migrate_disk: copy the old disk's content, then use only the new disk
MigrateDisk(old, new) ==
    /\ {old, new} \subseteq mounted
    /\ dataOn' = IF old \in dataOn THEN dataOn \cup {new} ELSE dataOn
    /\ mounted' = mounted \ {old}
    /\ UNCHANGED <<cloudVMs, cloudDisks, cloudStemcells, attached, jobs, applied, base>>

\* agent stop
StopJobs ==
    /\ jobs' = "stopped"
    /\ UNCHANGED <<cloudVMs, cloudDisks, cloudStemcells, attached, mounted, applied, base, dataOn>>

\* agent apply
ApplySpec(spec) ==
    /\ applied' = spec
    /\ UNCHANGED <<cloudVMs, cloudDisks, cloudStemcells, attached, mounted, jobs, base, dataOn>>

\* agent start: from now on the jobs write to the mounted disk, so that a copy
\* anywhere else is out of date
StartJobs ==
    /\ jobs' = "running"
    /\ dataOn' = IF mounted = {} THEN dataOn ELSE mounted
    /\ UNCHANGED <<cloudVMs, cloudDisks, cloudStemcells, attached, mounted, applied, base>>
=============================================================================
