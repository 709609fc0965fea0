-------------------------- MODULE DeploymentState --------------------------
(***************************************************************************)
(* The deployment state file (<manifest>-state.json) and the five          *)
(* repositories that read and write it (package config).                   *)
(*                                                                         *)
(* Every repository operation loads the whole file, changes some fields    *)
(* and saves the whole file.  One process runs at a time, so load-modify-  *)
(* save is one action here; what can interrupt it (a save that fails       *)
(* before, or in the middle of, the write) is the business of the modules  *)
(* that use the repositories.                                              *)
(*                                                                         *)
(* Data abstraction.  The cloud never gives the same cid to two live       *)
(* resources, so the UUID of a disk or stemcell record and the cid in it   *)
(* determine each other: the model names a record by its cid.  A stemcell  *)
(* version stands for the pair (name, version); a disk spec for the pair   *)
(* (size, cloud_properties); a release set for the list of name/version    *)
(* pairs.  None is the empty string, the empty list or size 0.             *)
(***************************************************************************)
CONSTANTS
    VMs, Disks, Stemcells,   \* cids of the cloud's resources
    Versions,                \* name/version pairs of stemcells
    DiskSpecs,               \* size/cloud_properties pairs of disk pools
    LossySpecs,              \* the disk specs that JSON does not give back as they were
    Sha1s,                   \* digests of deployment manifests
    ReleaseSets,             \* non-empty lists of releases
    None

(* None is no cid, no version, no disk spec, no digest and no release set. *)
ASSUME NoneIsNothing ==
    /\ None \notin VMs /\ None \notin Disks /\ None \notin Stemcells
    /\ None \notin Versions /\ None \notin DiskSpecs
    /\ None \notin Sha1s /\ None \notin ReleaseSets
    /\ LossySpecs \subseteq DiskSpecs

VARIABLES
    file,                 \* "absent", "valid", or "torn" (unparsable JSON)
    legacy,               \* what bosh-deployments.yml says, or None
    installationID,       \* "none", or "set" once an installation target exists
    currentVMCID,
    currentStemcellID, stemcells,
    currentDiskID, disks,
    currentManifestSHA1,
    releases

fileVars == <<file, legacy, installationID>>
stemcellVars == <<currentStemcellID, stemcells>>
diskVars == <<currentDiskID, disks>>
deployedVars == <<currentManifestSHA1, releases>>
recordVars == <<currentVMCID, stemcellVars, diskVars, deployedVars>>
stateVars == <<fileVars, recordVars>>

Opt(S) == S \cup {None}

DiskRecord == [cid : Disks, spec : Opt(DiskSpecs)]
StemcellRecord == [cid : Stemcells, version : Opt(Versions)]
LegacyState == [vm : Opt(VMs), disk : Opt(Disks), stemcell : Opt(Stemcells)]

StateTypeOK ==
    /\ file \in {"absent", "valid", "torn"}
    /\ legacy \in Opt(LegacyState)
    /\ installationID \in {"none", "set"}
    /\ currentVMCID \in Opt(VMs)
    /\ currentStemcellID \in Opt(Stemcells)
    /\ stemcells \in SUBSET StemcellRecord
    /\ currentDiskID \in Opt(Disks)
    /\ disks \in SUBSET DiskRecord
    /\ currentManifestSHA1 \in Opt(Sha1s)
    /\ releases \in Opt(ReleaseSets)

(* A DeploymentState whose fields all have their zero value.               *)
EmptyRecords ==
    /\ installationID = "none"
    /\ currentVMCID = None
    /\ currentStemcellID = None /\ stemcells = {}
    /\ currentDiskID = None /\ disks = {}
    /\ currentManifestSHA1 = None
    /\ releases = None

-----------------------------------------------------------------------------
(* Queries.                                                                *)

RecordedDisks == {r.cid : r \in disks}
RecordedStemcells == {r.cid : r \in stemcells}

\* diskRepo.FindCurrent: no current disk when the id names no record
CurrentDisk == IF currentDiskID \in RecordedDisks THEN currentDiskID ELSE None

\* stemcellRepo.FindCurrent
CurrentStemcell ==
    IF currentStemcellID \in RecordedStemcells THEN currentStemcellID ELSE None

\* Mutant: the current disk is not left out
UnusedDisks_All == RecordedDisks

\* diskManager.FindUnused: every record but the current one
UnusedDisks == RecordedDisks \ {CurrentDisk}

\* stemcellManager.FindUnused
UnusedStemcells == RecordedStemcells \ {CurrentStemcell}

\* stemcellRepo.Find(name, version)
StemcellsFound(version) == {r.cid : r \in {q \in stemcells : q.version = version}}

\* disk.NeedsMigration.  The record went through JSON: an int comes back as a
\* float64 and a nested property map as a plain map, and reflect.DeepEqual tells
\* them apart; LossySpecs are the specs whose cloud_properties hold one of these.
NeedsMigration(d, spec) ==
    \E r \in disks : r.cid = d /\ (r.spec # spec \/ spec \in LossySpecs)

\* deploymentRecord.IsDeployed(manifest, releases, stemcell)
IsDeployed(sha1, version, rels) ==
    /\ currentManifestSHA1 = sha1
    /\ CurrentStemcell # None
    /\ CurrentStemcell \in StemcellsFound(version)
    /\ releases # None
    /\ releases = rels

-----------------------------------------------------------------------------
(* Repository operations.  Each is one load-modify-save of the file.       *)

\* Load: the first one finds no file, generates the director id and saves a
\* state whose other fields are zero; a file that does not parse is an error.
Load ==
    /\ file # "torn"
    /\ file' = "valid"
    /\ UNCHANGED <<legacy, installationID, recordVars>>

\* targetProvider.NewTarget: generates the installation id the first time
NewTarget ==
    /\ installationID' = "set"
    /\ UNCHANGED <<file, legacy, recordVars>>

\* Cleanup: the file is removed, and everything it recorded with it.
Cleanup ==
    /\ file' = "absent"
    /\ installationID' = "none"
    /\ currentVMCID' = None
    /\ currentStemcellID' = None /\ stemcells' = {}
    /\ currentDiskID' = None /\ disks' = {}
    /\ currentManifestSHA1' = None
    /\ releases' = None
    /\ UNCHANGED legacy

\* Mutant: a legacy file without a disk yields a disk record all the same
SaveMigrated_EmptyDisk ==
    /\ file' = "valid" /\ installationID' = "none"
    /\ currentVMCID' = legacy.vm
    /\ currentDiskID' = legacy.disk
    /\ disks' = {[cid |-> legacy.disk, spec |-> None]}
    /\ currentStemcellID' = None
    /\ stemcells' = {r \in {[cid |-> legacy.stemcell, version |-> None]} : r.cid # None}
    /\ currentManifestSHA1' = None
    /\ releases' = None
    /\ UNCHANGED legacy

\* legacyDeploymentStateMigrator.migrate and the Save that follows it
SaveMigrated ==
    /\ file' = "valid" /\ installationID' = "none"
    /\ currentVMCID' = legacy.vm
    /\ currentDiskID' = legacy.disk
    /\ disks' = {r \in {[cid |-> legacy.disk, spec |-> None]} : r.cid # None}
    /\ currentStemcellID' = None
    /\ stemcells' = {r \in {[cid |-> legacy.stemcell, version |-> None]} : r.cid # None}
    /\ currentManifestSHA1' = None
    /\ releases' = None
    /\ UNCHANGED legacy

\* MigrateIfExists: RemoveAll of the legacy file
RemoveLegacy == legacy' = None /\ UNCHANGED <<file, installationID, recordVars>>

\* vmRepo.UpdateCurrent; ClearCurrent is UpdateCurrent("")
VMUpdateCurrent(cid) ==
    /\ currentVMCID' = cid
    /\ UNCHANGED <<fileVars, stemcellVars, diskVars, deployedVars>>

\* stemcellRepo.Save: refused when the name/version is already recorded
StemcellSave(cid, version) ==
    /\ StemcellsFound(version) = {}
    /\ stemcells' = stemcells \cup {[cid |-> cid, version |-> version]}
    /\ UNCHANGED <<fileVars, currentVMCID, currentStemcellID, diskVars, deployedVars>>

\* stemcellRepo.UpdateCurrent (the id must name a record) and ClearCurrent
StemcellUpdateCurrent(cid) ==
    /\ cid \in Opt(RecordedStemcells)
    /\ currentStemcellID' = cid
    /\ UNCHANGED <<fileVars, currentVMCID, stemcells, diskVars, deployedVars>>

\* cloudStemcell.Delete: find the record by name/version, stemcellRepo.Delete it
StemcellForget(version) ==
    /\ stemcells' = {r \in stemcells : r.version # version}
    /\ currentStemcellID' = IF currentStemcellID \in StemcellsFound(version)
                            THEN None ELSE currentStemcellID
    /\ UNCHANGED <<fileVars, currentVMCID, diskVars, deployedVars>>

\* diskRepo.Save: refused when the cid is already recorded
DiskSave(cid, spec) ==
    /\ cid \notin RecordedDisks
    /\ disks' = disks \cup {[cid |-> cid, spec |-> spec]}
    /\ UNCHANGED <<fileVars, currentVMCID, stemcellVars, currentDiskID, deployedVars>>

\* diskRepo.UpdateCurrent: the id must name a record
DiskUpdateCurrent(cid) ==
    /\ cid \in RecordedDisks
    /\ currentDiskID' = cid
    /\ UNCHANGED <<fileVars, currentVMCID, stemcellVars, disks, deployedVars>>

\* disk.Delete's diskRepo.Find and diskRepo.Delete: nothing to do without a record
DiskForget(cid) ==
    /\ disks' = {r \in disks : r.cid # cid}
    /\ currentDiskID' = IF currentDiskID = cid /\ cid \in RecordedDisks
                        THEN None ELSE currentDiskID
    /\ UNCHANGED <<fileVars, currentVMCID, stemcellVars, deployedVars>>

\* deploymentRepo.UpdateCurrent
ManifestUpdateCurrent(sha1) ==
    /\ currentManifestSHA1' = sha1
    /\ UNCHANGED <<fileVars, currentVMCID, stemcellVars, diskVars, releases>>

\* releaseRepo.Update: replaces the whole list
ReleasesUpdate(rels) ==
    /\ releases' = rels
    /\ UNCHANGED <<fileVars, currentVMCID, stemcellVars, diskVars, currentManifestSHA1>>
=============================================================================
