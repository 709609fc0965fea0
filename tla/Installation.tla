---------------------------- MODULE Installation ----------------------------
(***************************************************************************)
(* The CPI on this machine, over any number of commands: its release is    *)
(* fetched (Tarball), its packages are compiled and installed, its job is  *)
(* rendered, uploaded and extracted (installation/installer.go), the       *)
(* registry runs while it is used (Registry), and the rendered job is      *)
(* cleaned up (cpi/release/installer.go).  Calls fail and the process is   *)
(* killed at any point; the installation directory stays until a delete    *)
(* uninstalls it.  The index of the compiled packages is written in place, *)
(* so that a write which breaks off leaves a file that does not parse.     *)
(*                                                                         *)
(* A file of a package is modelled by the fingerprint of the package it    *)
(* came from, so a directory is a set of fingerprints.  Extracting over a  *)
(* directory adds to it.                                                   *)
(***************************************************************************)
EXTENDS Tarball, Registry, Sequences

CONSTANTS
    Order,          \* the packages of the CPI job in the order they are compiled
    DependsOn,      \* their dependencies
    Fingerprint     \* of each package in each version (tarball) of the release

Pkgs == {Order[i] : i \in DOMAIN Order}

ASSUME InstallationAssumption ==
    /\ Order \in Seq(Pkgs) /\ DependsOn \in [Pkgs -> SUBSET Pkgs]
    /\ DOMAIN Fingerprint = Tarballs /\ \A t \in Tarballs : DOMAIN Fingerprint[t] = Pkgs

VARIABLES
    phase,
    version,        \* the tarball at hand
    next,           \* index into Order
    index,          \* the compiled package index: entries that point to blobs
    readable,       \* its file can be parsed, or is not there
    blobs,          \* the blobs of compiled packages that are in the blobstore
    packages,       \* packages[p]: the directory of p under the target's packages
    renderedBlob,   \* this command's rendered CPI job is in the blobstore
    jobDir,         \* the extracted CPI job is there
    fn,             \* how the use of the CPI ended: "none", "ok" or "failed"
    cleanupFailed,  \* the blob could not be deleted
    result,         \* "none", "ok", "failed", "killed"
    used,           \* versions that were installed into this target
    lost,           \* the blobs that uninstallations removed before they broke off
    served          \* bound: the registry has clients in the first command only; every
                    \* server starts with a new map, a new password and no requests

indexVars == <<index, readable>>
targetVars == <<indexVars, blobs, packages, renderedBlob, jobDir>>
outcomeVars == <<fn, cleanupFailed, result>>
installVars == <<phase, version, next, targetVars, outcomeVars, used, lost, served>>
vars == <<tarballVars, registryVars, installVars>>

Phases == {"idle", "fetch", "compile", "packaging", "store", "save", "install", "render", "extract", "start",
           "run", "stop", "cleanup"}

NoFiles == [p \in Pkgs |-> {}]
FilesOf(p) == {Fingerprint[t][p] : t \in Tarballs}

TypeOK ==
    /\ TarballTypeOK /\ RegistryTypeOK
    /\ phase \in Phases /\ version \in Tarballs \cup {None}
    /\ next \in 1 .. Len(Order) + 1
    /\ DOMAIN packages = Pkgs /\ \A p \in Pkgs : packages[p] \subseteq FilesOf(p)
    /\ renderedBlob \in BOOLEAN /\ jobDir \in BOOLEAN /\ cleanupFailed \in BOOLEAN
    /\ fn \in {"none", "ok", "failed"} /\ result \in {"none", "ok", "failed", "killed"}
    /\ used \subseteq Tarballs /\ served \in BOOLEAN /\ readable \in BOOLEAN

Init ==
    /\ TarballInit /\ RegistryInit
    /\ phase = "idle" /\ version = None /\ next = 1
    /\ index = {} /\ readable = TRUE /\ blobs = {} /\ packages = NoFiles
    /\ renderedBlob = FALSE /\ jobDir = FALSE
    /\ fn = "none" /\ cleanupFailed = FALSE /\ result = "none" /\ used = {} /\ lost = {} /\ served = FALSE

Current == Order[next]

-----------------------------------------------------------------------------
(* The command                                                             *)

\* The id of a blob that is not in the index is lost: the model drops the blob.
Begin(s) ==
    /\ phase = "idle" /\ phase' = "fetch" /\ Get(s)
    /\ next' = 1 /\ fn' = "none" /\ cleanupFailed' = FALSE /\ result' = "none"
    /\ renderedBlob' = FALSE /\ blobs' = blobs \cap index
    /\ UNCHANGED <<registryVars, version, indexVars, packages, jobDir, used, lost, served>>

\* The command returns, and the process with its listener is gone.
Return(r) ==
    /\ phase' = "idle" /\ version' = None /\ next' = 1 /\ result' = r
    /\ GetEnds /\ ServerKilled
    /\ served' = TRUE
    /\ UNCHANGED <<used, lost>>

Killed ==
    /\ phase # "idle" /\ Return("killed") /\ UNCHANGED <<targetVars, fn, cleanupFailed>>

\* fatal error: concurrent map read and map write
RaceKills ==
    /\ raced /\ Return("killed") /\ UNCHANGED <<targetVars, fn, cleanupFailed>>

FetchStep ==
    /\ phase = "fetch" /\ GetStep /\ UNCHANGED <<registryVars, installVars>>

\* The tarball cannot be had, or it is no release.
FetchFails ==
    /\ phase = "fetch" /\ (getPc = "failed" \/ got = Junk)
    /\ Return("failed") /\ UNCHANGED <<targetVars, fn, cleanupFailed>>

Fetched ==
    /\ phase = "fetch" /\ getPc = "ok" /\ got # Junk
    /\ phase' = "compile" /\ version' = got /\ used' = used \cup {got} /\ GetEnds
    /\ UNCHANGED <<registryVars, next, targetVars, outcomeVars, lost, served>>

-----------------------------------------------------------------------------
(* Compiling (installation/pkg/compiler.go)                                *)

\* The packages p depends on, directly or not; that is PackageGraph's subject.
ResolveDependencies(p) ==
    {q \in Pkgs \ {p} : \A S \in SUBSET Pkgs :
        DependsOn[p] \subseteq S /\ (\A r \in S : DependsOn[r] \subseteq S) => q \in S}

\* Name, fingerprint, and the names and fingerprints of everything below
KeyIn(v, p) == [pkg |-> p, fingerprint |-> Fingerprint[v][p],
                below |-> {<<d, Fingerprint[v][d]>> : d \in ResolveDependencies(p)}]
PkgKey(p) == KeyIn(version, p)

Found(p) == {e \in index : e.key = PkgKey(p)}
Blob(p) == CHOOSE e \in Found(p) : TRUE

\* FileIndex.Find: the file cannot be read, or does not parse.
LookupFails ==
    /\ phase = "compile" /\ next <= Len(Order)
    /\ Return("failed") /\ UNCHANGED <<targetVars, fn, cleanupFailed>>

Compiled ==
    /\ phase = "compile" /\ next <= Len(Order) /\ readable /\ Found(Current) # {}
    /\ next' = next + 1
    /\ UNCHANGED <<tarballVars, registryVars, phase, version, targetVars, outcomeVars, used, lost, served>>

\* Extracting a blob adds its files to what the directory holds.
HasBlob(p) == Found(p) # {} /\ Blob(p) \in blobs
Extracted(S) == [p \in Pkgs |-> IF p \in S THEN packages[p] \cup Blob(p).files ELSE packages[p]]

InstallDependencies ==
    /\ phase = "compile" /\ next <= Len(Order) /\ readable /\ Found(Current) = {}
    /\ \A d \in DependsOn[Current] : HasBlob(d)
    /\ packages' = Extracted(DependsOn[Current]) /\ phase' = "packaging"
    /\ UNCHANGED <<tarballVars, registryVars, version, next, indexVars, blobs, renderedBlob, jobDir,
                   outcomeVars, used, lost, served>>

\* An extraction fails: the directories extracted before stay, since the removal of the
\* packages is not deferred yet.
InstallDependenciesFails ==
    /\ phase = "compile" /\ next <= Len(Order) /\ readable /\ Found(Current) = {}
    /\ \E S \in SUBSET {d \in DependsOn[Current] : HasBlob(d)} : packages' = Extracted(S)
    /\ Return("failed") /\ UNCHANGED <<indexVars, blobs, renderedBlob, jobDir, fn, cleanupFailed>>

\* The packaging script writes into a directory that is not emptied before.
RunPackaging ==
    /\ phase = "packaging"
    /\ packages' = [packages EXCEPT ![Current] = @ \cup {Fingerprint[version][Current]}]
    /\ phase' = "store"
    /\ UNCHANGED <<tarballVars, registryVars, version, next, indexVars, blobs, renderedBlob, jobDir,
                   outcomeVars, used, lost, served>>

\* RemoveAll of the packages, deferred: all of their files go, or some, since it may break
\* off, which is only logged.
PackagesRemoved ==
    \E kept \in SUBSET UNION {{p} \X packages[p] : p \in Pkgs} :
        packages' = [p \in Pkgs |-> {f \in packages[p] : <<p, f>> \in kept}]

\* What packing the directory of the current package gives
Packed == [key |-> PkgKey(Current), files |-> packages[Current],
           against |-> [d \in DependsOn[Current] |-> packages[d]]]

\* Mutant: the index is written first
CreateBlob_IndexFirst ==
    /\ phase = "store" /\ index' = index \cup {Packed} /\ phase' = "save"
    /\ UNCHANGED <<tarballVars, registryVars, version, next, readable, blobs, packages, renderedBlob,
                   jobDir, outcomeVars, used, lost, served>>

CreateBlob ==
    /\ phase = "store" /\ blobs' = blobs \cup {Packed} /\ phase' = "save"
    /\ UNCHANGED <<tarballVars, registryVars, version, next, indexVars, packages, renderedBlob,
                   jobDir, outcomeVars, used, lost, served>>

SaveIndex ==
    /\ phase = "save" /\ readable /\ index' = index \cup {Packed} /\ PackagesRemoved
    /\ next' = next + 1 /\ phase' = "compile"
    /\ UNCHANGED <<tarballVars, registryVars, version, readable, blobs, renderedBlob, jobDir,
                   outcomeVars, used, lost, served>>

\* WriteFile truncates the index before it writes: killed, or failing, in between it leaves
\* a file that does not parse.  Only when it failed are the packages removed.
SaveIndexBreaksOff ==
    /\ phase = "save" /\ index' = {} /\ readable' = FALSE
    /\ PackagesRemoved
    /\ \E r \in {"failed", "killed"} : Return(r) /\ (r = "killed" => packages' = packages)
    /\ UNCHANGED <<blobs, renderedBlob, jobDir, fn, cleanupFailed>>

CompileFails ==
    /\ phase \in {"packaging", "store", "save"}
    /\ PackagesRemoved /\ Return("failed")
    /\ UNCHANGED <<indexVars, blobs, renderedBlob, jobDir, fn, cleanupFailed>>

AllCompiled ==
    /\ phase = "compile" /\ next > Len(Order) /\ phase' = "install" /\ next' = 1
    /\ UNCHANGED <<tarballVars, registryVars, version, targetVars, outcomeVars, used, lost, served>>

-----------------------------------------------------------------------------
(* Installing                                                              *)

\* Mutant: a package whose directory is there is not extracted again
InstallPackage_SkipPresent ==
    /\ phase = "install" /\ next <= Len(Order) /\ HasBlob(Current) /\ next' = next + 1
    /\ packages' = IF packages[Current] = {} THEN Extracted({Current}) ELSE packages
    /\ UNCHANGED <<tarballVars, registryVars, phase, version, indexVars, blobs, renderedBlob, jobDir,
                   outcomeVars, used, lost, served>>

InstallPackage ==
    /\ phase = "install" /\ next <= Len(Order) /\ HasBlob(Current) /\ next' = next + 1
    /\ packages' = Extracted({Current})
    /\ UNCHANGED <<tarballVars, registryVars, phase, version, indexVars, blobs, renderedBlob, jobDir,
                   outcomeVars, used, lost, served>>

AllInstalled ==
    /\ phase = "install" /\ next > Len(Order) /\ phase' = "render"
    /\ UNCHANGED <<tarballVars, registryVars, version, next, targetVars, outcomeVars, used, lost, served>>

RenderAndUpload ==
    /\ phase = "render" /\ renderedBlob' = TRUE /\ phase' = "extract"
    /\ UNCHANGED <<tarballVars, registryVars, version, next, indexVars, blobs, packages, jobDir,
                   outcomeVars, used, lost, served>>

InstallJob ==
    /\ phase = "extract" /\ jobDir' = TRUE /\ phase' = "start"
    /\ UNCHANGED <<tarballVars, registryVars, version, next, indexVars, blobs, packages, renderedBlob,
                   outcomeVars, used, lost, served>>

\* Nothing is cleaned up after an installation that failed: not the blob, and not the
\* job's directory when making its files executable failed.
InstallFails ==
    /\ phase \in {"install", "render", "extract"}
    /\ IF phase = "extract" THEN jobDir' \in {jobDir, TRUE} ELSE UNCHANGED jobDir
    /\ Return("failed") /\ UNCHANGED <<indexVars, blobs, packages, renderedBlob, fn, cleanupFailed>>

-----------------------------------------------------------------------------
(* Using the CPI (cpi/release/installer.go, installation/installation.go)  *)

\* Only when the manifest configures an SSH tunnel is there a registry.
StartRegistry ==
    /\ phase = "start" /\ phase' = "run"
    /\ StartServer \/ UNCHANGED registryVars
    /\ UNCHANGED <<tarballVars, version, next, targetVars, outcomeVars, used, lost, served>>

\* The port is taken: the CPI is not used and no stop is deferred.
StartRegistryFails ==
    /\ phase = "start" /\ fn' = "failed" /\ phase' = "cleanup"
    /\ UNCHANGED <<tarballVars, registryVars, version, next, targetVars, cleanupFailed,
                   result, used, lost, served>>

\* A deploy, or a delete that fails before the uninstallation
UseCpi(r) ==
    /\ phase = "run" /\ fn' = r /\ phase' = "stop"
    /\ UNCHANGED <<tarballVars, registryVars, version, next, targetVars, cleanupFailed,
                   result, used, lost, served>>

\* A delete: the deployment, then the target with everything in it
Uninstall ==
    /\ phase = "run" /\ fn' = "ok" /\ phase' = "stop"
    /\ index' = {} /\ readable' = TRUE /\ blobs' = {} /\ packages' = NoFiles
    /\ renderedBlob' = FALSE /\ jobDir' = FALSE /\ used' = {} /\ lost' = {}
    /\ UNCHANGED <<tarballVars, registryVars, version, next, cleanupFailed, result, served>>

\* RemoveAll stops half-way; it goes through the target in any order.
UninstallFails ==
    /\ phase = "run" /\ fn' = "failed" /\ phase' = "stop"
    /\ UNCHANGED indexVars \/ (index' = {} /\ readable' = TRUE)
    /\ blobs' \in SUBSET blobs /\ lost' = (lost \cup (blobs \ blobs')) \cap index'
    /\ PackagesRemoved
    /\ renderedBlob' \in {renderedBlob, FALSE} /\ jobDir' \in {jobDir, FALSE}
    /\ UNCHANGED <<tarballVars, registryVars, version, next, cleanupFailed, result, used, served>>

\* A listener that cannot be closed is only logged.
StopRegistry ==
    /\ phase = "stop" /\ phase' = "cleanup"
    /\ StopServer \/ UNCHANGED registryVars
    /\ UNCHANGED <<tarballVars, version, next, targetVars, outcomeVars, used, lost, served>>

\* Mutant: the rendered job is only cleaned up after a failure
CleanUp_FailureOnly ==
    /\ phase = "cleanup"
    /\ IF fn = "failed" THEN jobDir' = FALSE /\ renderedBlob' = FALSE ELSE UNCHANGED <<jobDir, renderedBlob>>
    /\ Return(fn)
    /\ UNCHANGED <<indexVars, blobs, packages, fn, cleanupFailed>>

\* The job's directory, whose removal failing is only logged, then the blob, whose
\* deletion failing is returned unless there is an error already.
CleanUp ==
    /\ phase = "cleanup"
    /\ jobDir' \in {FALSE, jobDir}
    /\ \E failed \in BOOLEAN :
        /\ cleanupFailed' = failed
        /\ renderedBlob' = (failed /\ renderedBlob)
        /\ Return(IF fn = "ok" /\ failed THEN "failed" ELSE fn)
    /\ UNCHANGED <<indexVars, blobs, packages, fn>>

RegistryServes == RegistryStep /\ ~served /\ UNCHANGED <<tarballVars, installVars>>

-----------------------------------------------------------------------------
Next ==
    \/ \E s \in Sources : Begin(s)
    \/ Killed \/ RaceKills \/ FetchStep \/ FetchFails \/ Fetched
    \/ Compiled \/ InstallDependencies \/ InstallDependenciesFails \/ RunPackaging
    \/ LookupFails \/ CreateBlob \/ SaveIndex \/ SaveIndexBreaksOff \/ CompileFails \/ AllCompiled
    \/ InstallPackage \/ AllInstalled \/ RenderAndUpload \/ InstallJob
    \/ InstallFails \/ StartRegistry \/ StartRegistryFails \/ UseCpi("ok") \/ UseCpi("failed")
    \/ Uninstall \/ UninstallFails \/ StopRegistry \/ CleanUp \/ RegistryServes

Spec == Init /\ [][Next]_vars

-----------------------------------------------------------------------------
(* What is said about it                                                   *)

(***************************************************************************)
(* When the CPI is used, every package has the files of the version at     *)
(* hand, compiled against that version of its dependencies, in spite of    *)
(* kills and failures before.  Other files come only from versions that    *)
(* were installed into the same target since it was last uninstalled: with *)
(* one version there are none, after an upgrade there may be some, because *)
(* neither compiling nor installing empties the directory of a package.    *)
(***************************************************************************)
InstalledFiles ==
    phase = "run" =>
        \A p \in Pkgs :
            /\ Fingerprint[version][p] \in packages[p]
            /\ packages[p] \subseteq {Fingerprint[v][p] : v \in used}
            /\ \A e \in Found(p) : \A d \in DependsOn[p] :
                /\ Fingerprint[version][d] \in e.against[d]
                /\ e.against[d] \subseteq {Fingerprint[v][d] : v \in used}

(***************************************************************************)
(* The compiled package index and the blobstore, after any history of      *)
(* failures, kills, writes of the index cut short and uninstallations      *)
(* broken off.  The only entries without their blob are those whose blob   *)
(* an uninstallation removed before it broke off.  And neither such an     *)
(* entry nor an index that was lost goes unnoticed: an installation gets   *)
(* past compiling only with an entry for every package, and past           *)
(* installing only with the blob of every package.  Until then it fails,   *)
(* and so does the delete that would clear the index away.                 *)
(***************************************************************************)
AllInstalledIn == {"render", "extract", "start", "run"}

IndexedBlobsExist ==
    /\ index \subseteq blobs \cup lost
    /\ phase \in {"install"} \cup AllInstalledIn => \A p \in Pkgs : Found(p) # {}
    /\ phase \in AllInstalledIn => \A p \in Pkgs : HasBlob(p)

(***************************************************************************)
(* The result of a command that used the CPI: it succeeds only when what   *)
(* it did with the CPI succeeded and the rendered job, which holds the     *)
(* credentials of the cloud, is gone from the blobstore; it fails in spite *)
(* of that success only when the clean-up failed.  The blob stays behind   *)
(* only when the installation itself failed or the clean-up did.           *)
(***************************************************************************)
CommandOutcome ==
    phase = "idle" /\ result \in {"ok", "failed"} =>
        /\ result = "ok" => fn = "ok" /\ ~renderedBlob
        /\ result = "failed" /\ fn = "ok" => cleanupFailed
        /\ renderedBlob => fn = "none" \/ cleanupFailed

=============================================================================
