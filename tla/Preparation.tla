---------------------------- MODULE Preparation -----------------------------
(***************************************************************************)
(* What a command does with its manifest, releases and stemcell: the       *)
(* validating stage of deploy (cmd/deployment_preparer.go) and of delete   *)
(* (cmd/deployment_deleter.go), then every later place that relies on what *)
(* was validated, up to the point where the job templates are rendered.    *)
(* Extracted releases and stemcells are directories under the temp root,   *)
(* which the next command wipes.                                           *)
(*                                                                         *)
(* An input is the manifest together with the tarballs its URLs lead to:   *)
(* tarballs[i] is the release tarball of releases[i].                      *)
(***************************************************************************)
EXTENDS Manifest, Releases

CONSTANTS
    Inputs,         \* the inputs a command may be given
    MaxCommands     \* bound on the number of commands

ASSUME PreparationAssumption == MaxCommands \in Nat

\* What unmarshalling makes of any manifest and any release.MF
ASSUME InputsAssumption ==
    \A raw \in Inputs :
        /\ raw.releases \in Seq(ReleaseRef) /\ raw.deployment \in RawDeployment
        /\ raw.tarballs \in Seq(ToSet(raw.tarballs)) /\ Len(raw.releases) <= Len(raw.tarballs)
        /\ \A i \in DOMAIN raw.tarballs : IsReleaseManifest(raw.tarballs[i])

VARIABLES
    command,        \* "none", "deploy" or "delete"
    input,
    phase,          \* where the command is
    manager,        \* the release manager: indices of the releases added, in order
    stemcell,       \* "none", "extracted", or "deferred": its deletion is deferred
    dirs,           \* extracted directories: i for release i, 0 for the stemcell
    vmDeleted,      \* the running VM was deleted to make room for the new one
    result,         \* how the command ends
    removeFailed,   \* some directory could not be removed
    commands

vars == <<command, input, phase, manager, stemcell, dirs, vmDeleted, result, removeFailed, commands>>

-----------------------------------------------------------------------------
(* The parsed input                                                        *)

releaseSet == ParseReleaseSet(input)
installation == ParseInstallation(input)
deployment == ParseDeployment(input.deployment)
job == deployment.jobs[1]
Release(i) == ReadRelease(input.tarballs[i])

\* releaseManager.Find
Managed(name) == SelectInSeq(manager, LAMBDA i : Release(i).name = name)

\* Deploy fetches every release, delete only the one of the CPI.
ReleasesToFetch ==
    IF command = "deploy" THEN [i \in DOMAIN releaseSet |-> i]
    ELSE <<FindByName(releaseSet, installation.template.release)>>

cpiRelease == Release(manager[Managed(installation.template.release)])

-----------------------------------------------------------------------------
Phases == {"idle", "manifests", "fetch", "cpi", "deployment", "stemcell", "compiled", "install",
           "replace", "create", "build", "cleanup"}

Results == {"none", "ok", "skipped", "io", "killed", "invalid", "name mismatch", "compiled", "panic",
            "job", "package", "instances", "pool", "network", "address"}

TypeOK ==
    /\ command \in {"none", "deploy", "delete"}
    /\ phase \in Phases /\ result \in Results
    /\ ToSet(manager) \subseteq DOMAIN input.tarballs /\ IsInjective(manager)
    /\ dirs \subseteq {0} \cup DOMAIN input.tarballs
    /\ stemcell \in {"none", "extracted", "deferred"} /\ vmDeleted \in BOOLEAN /\ removeFailed \in BOOLEAN
    /\ commands \in 0 .. MaxCommands

Init ==
    /\ command = "none" /\ input \in Inputs /\ phase = "idle" /\ manager = <<>>
    /\ stemcell = "none" /\ dirs = {} /\ vmDeleted = FALSE /\ result = "none"
    /\ removeFailed = FALSE /\ commands = 0

\* The command leaves its stages with a result; the deferred calls come next, on a
\* panic too.
Leave(r) ==
    /\ phase' = "cleanup" /\ result' = r
    /\ UNCHANGED <<command, input, commands>>

Go(p) == phase' = p /\ UNCHANGED <<command, input, result, commands>>

-----------------------------------------------------------------------------
(* The command begins and ends                                             *)

\* PrepareAndSetTempRoot wipes what earlier commands left.
Begin(c) ==
    /\ phase = "idle" /\ commands < MaxCommands
    /\ command' = c /\ phase' = "manifests" /\ dirs' = {} /\ manager' = <<>>
    /\ stemcell' = "none" /\ vmDeleted' = FALSE /\ result' = "none" /\ removeFailed' = FALSE
    /\ commands' = commands + 1 /\ UNCHANGED input

\* The temp root cannot be set up: nothing is deferred yet.
BeginFails(c) ==
    /\ phase = "idle" /\ commands < MaxCommands
    /\ command' = c /\ result' = "io" /\ commands' = commands + 1
    /\ manager' = <<>> /\ stemcell' = "none" /\ vmDeleted' = FALSE
    /\ \E removed \in BOOLEAN : removeFailed' = ~removed /\ dirs' = IF removed THEN {} ELSE dirs
    /\ UNCHANGED <<input, phase>>

\* Reading a file, a download or a CPI call fails.
IoFails ==
    /\ phase \in {"manifests", "fetch", "deployment", "install", "replace", "create", "build"}
    /\ Leave("io")
    /\ UNCHANGED <<manager, stemcell, dirs, vmDeleted, removeFailed>>

Killed ==
    /\ phase # "idle" /\ phase' = "idle" /\ result' = "killed"
    /\ UNCHANGED <<command, input, manager, stemcell, dirs, vmDeleted, removeFailed, commands>>

\* DeleteAll deletes the releases in the order they were added and gives up on the
\* first it cannot delete; deleted is how many it got through.
DeletedReleases(deleted) == {manager[i] : i \in 1 .. deleted}

\* Mutant: the release that was added last is not deleted
Cleanup_AllButLast ==
    /\ phase = "cleanup" /\ phase' = "idle"
    /\ dirs' = dirs \ (DeletedReleases(Len(manager) - 1) \cup (IF stemcell = "deferred" THEN {0} ELSE {}))
    /\ UNCHANGED <<command, input, manager, stemcell, vmDeleted, result, removeFailed, commands>>

\* The deferred calls: the stemcell, then the releases.  Errors are only logged.
Cleanup ==
    /\ phase = "cleanup" /\ phase' = "idle"
    /\ \E deleted \in 0 .. Len(manager), stemcellDeleted \in BOOLEAN :
        /\ dirs' = dirs \ (DeletedReleases(deleted)
                            \cup (IF stemcell = "deferred" /\ stemcellDeleted THEN {0} ELSE {}))
        /\ removeFailed' = (removeFailed \/ deleted < Len(manager) \/ ~stemcellDeleted)
    /\ UNCHANGED <<command, input, manager, stemcell, vmDeleted, result, commands>>

-----------------------------------------------------------------------------
(* Validating                                                              *)

ParseManifests ==
    /\ phase = "manifests"
    /\ IF /\ ValidReleaseSet(releaseSet)
          /\ ParsesInstallation(input) /\ ValidInstallation(installation, releaseSet)
       THEN Go("fetch") ELSE Leave("invalid")
    /\ UNCHANGED <<manager, stemcell, dirs, vmDeleted, removeFailed>>

\* Extract removes the directory of a release it cannot read or that is not valid;
\* that failing is only logged.
RejectRelease(i) ==
    /\ ~(ReadsRelease(input.tarballs[i]) /\ ValidRelease(Release(i)))
    /\ \E removed \in BOOLEAN :
        /\ dirs' = IF removed THEN dirs ELSE dirs \cup {i}
        /\ removeFailed' = (removeFailed \/ ~removed)
    /\ Leave("invalid") /\ UNCHANGED <<manager, stemcell, vmDeleted>>

\* Mutant: the extractor adds the release as well
AddRelease_Twice(i) ==
    /\ ReadsRelease(input.tarballs[i]) /\ ValidRelease(Release(i))
    /\ dirs' = dirs \cup {i}
    /\ IF Release(i).name = releaseSet[i].name
       THEN manager' = manager \o <<i, i>> /\ Go("fetch")
       ELSE manager' = Append(manager, i) /\ Leave("name mismatch")
    /\ UNCHANGED <<stemcell, vmDeleted, removeFailed>>

\* A release of another name than the manifest's never gets to the manager.
AddRelease(i) ==
    /\ ReadsRelease(input.tarballs[i]) /\ ValidRelease(Release(i))
    /\ dirs' = dirs \cup {i}
    /\ IF Release(i).name = releaseSet[i].name
       THEN manager' = Append(manager, i) /\ Go("fetch")
       ELSE manager' = manager /\ Leave("name mismatch")
    /\ UNCHANGED <<stemcell, vmDeleted, removeFailed>>

DownloadAndExtract ==
    /\ phase = "fetch" /\ Len(manager) < Len(ReleasesToFetch)
    /\ LET i == ReleasesToFetch[Len(manager) + 1] IN RejectRelease(i) \/ AddRelease(i)

AllFetched ==
    /\ phase = "fetch" /\ Len(manager) = Len(ReleasesToFetch) /\ Go("cpi")
    /\ UNCHANGED <<manager, stemcell, dirs, vmDeleted, removeFailed>>

ValidateCpiRelease ==
    /\ phase = "cpi"
    /\ IF /\ Managed(installation.template.release) # 0
          /\ ValidCpiRelease(cpiRelease, installation.template.name)
       THEN Go(IF command = "deploy" THEN "deployment" ELSE "install")
       ELSE Leave("invalid")
    /\ UNCHANGED <<manager, stemcell, dirs, vmDeleted, removeFailed>>

\* Every template names a job of a release that was fetched.
ValidReleaseJobs ==
    \A j \in DOMAIN deployment.jobs : \A t \in DOMAIN deployment.jobs[j].templates :
        LET template == deployment.jobs[j].templates[t]
        IN  /\ Managed(template.release) # 0
            /\ FindJob(Release(manager[Managed(template.release)]), template.name) # 0

GetDeploymentManifest ==
    /\ phase = "deployment"
    /\ IF ParsesDeployment(input.deployment) /\ ValidDeployment(deployment, releaseSet) /\ ValidReleaseJobs
       THEN Go("stemcell") ELSE Leave("invalid")
    /\ UNCHANGED <<manager, stemcell, dirs, vmDeleted, removeFailed>>

\* JobName takes the first job whether there is one or not.
NoJobPanics ==
    /\ phase = "stemcell" /\ deployment.jobs = <<>> /\ Leave("panic")
    /\ UNCHANGED <<manager, stemcell, dirs, vmDeleted, removeFailed>>

\* The stage goes on with no stemcell when it cannot be had: its error is returned
\* after the compiled releases were looked at.
GetStemcell ==
    /\ phase = "stemcell" /\ deployment.jobs # <<>> /\ Go("compiled")
    /\ \/ /\ ResourcePool(deployment, job.name) # 0 /\ ReadsStemcell(input.stemcell)
          /\ stemcell' = "extracted" /\ dirs' = dirs \cup {0} /\ UNCHANGED removeFailed
       \/ /\ stemcell' = "none"
          /\ \E removed \in BOOLEAN :
              /\ dirs' = IF removed THEN dirs ELSE dirs \cup {0}
              /\ removeFailed' = (removeFailed \/ ~removed)
    /\ UNCHANGED <<manager, vmDeleted>>

UsedBesidesCpi == TemplateReleases(deployment) \ {installation.template.release}

CompiledVerdict(i) ==
    IF ~Release(i).isCompiled THEN "ok"
    ELSE IF Release(i).name \notin UsedBesidesCpi THEN "compiled"
    ELSE IF stemcell = "none" THEN "panic"
    ELSE IF ToLower(Release(i).packages[1].stemcell) = ToLower(input.stemcell.os_and_version) THEN "ok"
    ELSE "compiled"

FirstVerdict ==
    LET i == SelectInSeq(manager, LAMBDA k : CompiledVerdict(k) # "ok")
    IN  IF i = 0 THEN "ok" ELSE CompiledVerdict(manager[i])

CheckCompiledReleases ==
    /\ phase = "compiled"
    /\ IF FirstVerdict # "ok" \/ stemcell = "none"
       THEN Leave(IF FirstVerdict # "ok" THEN FirstVerdict ELSE "io") /\ UNCHANGED stemcell
       ELSE Go("install") /\ stemcell' = "deferred"
    /\ UNCHANGED <<manager, dirs, vmDeleted, removeFailed>>

-----------------------------------------------------------------------------
(* What relies on the validation                                           *)

\* The deployment record says nothing changed.
SkipDeploy ==
    /\ phase = "install" /\ command = "deploy" /\ Leave("skipped")
    /\ UNCHANGED <<manager, stemcell, dirs, vmDeleted, removeFailed>>

\* A package of a release, or an empty one when the release does not contain it
PackageNamed(release, name) ==
    LET i == SelectInSeq(release.packages, LAMBDA p : p.name = name)
    IN  IF i = 0 THEN Dangling(name) ELSE release.packages[i]

WithDependencies(release, names) ==
    names \cup UNION {PackageNamed(release, n).dependencies : n \in names}

\* The packages a job lists, what they depend on, and what the sort adds to that; their
\* order is PackageCompile's subject.
RequiredPackages(release, j) ==
    {PackageNamed(release, n) : n \in WithDependencies(release, WithDependencies(release, j.packages))}

\* A package is compiled from its packaging script, which neither a package outside
\* the release nor a compiled one has; what it depends on was compiled before.
\* Packages found in the index are not compiled again.
CompilesLocally(packages, indexed) ==
    \A p \in packages \ indexed : /\ p.in_release /\ p.stemcell = ""
                                  /\ p.dependencies \subseteq {q.name : q \in packages}

InstallCpi ==
    /\ phase = "install"
    /\ LET j == FindJob(cpiRelease, installation.template.name)
           required == RequiredPackages(cpiRelease, cpiRelease.jobs[j])
       IN  IF j = 0 THEN Leave("job")
           ELSE \E indexed \in SUBSET {p \in required : p.in_release} :
                    IF ~CompilesLocally(required, indexed) THEN Leave("package")
                    ELSE IF command = "delete" THEN Leave("ok") ELSE Go("replace")
    /\ UNCHANGED <<manager, stemcell, dirs, vmDeleted, removeFailed>>

\* Deployer.Deploy deletes what is running before it looks at the manifest.
ReplaceInstances ==
    /\ phase = "replace" /\ vmDeleted' = TRUE
    /\ IF Len(deployment.jobs) = 1 /\ job.instances = 1 THEN Go("create") ELSE Leave("instances")
    /\ UNCHANGED <<manager, stemcell, dirs, removeFailed>>

\* vmManager.Create, then UpdateDisks
CreateInstance ==
    /\ phase = "create"
    /\ LET outcome == InterfacesOutcome(deployment, job)
       IN  IF outcome = "panic" THEN Leave("panic")
           ELSE IF outcome = "error" THEN Leave("network")
           ELSE IF ResourcePool(deployment, job.name) = 0 \/ DiskPool(deployment, job) < 0 THEN Leave("pool")
           ELSE Go("build")
    /\ UNCHANGED <<manager, stemcell, dirs, vmDeleted, removeFailed>>

\* builder.Build: the jobs are resolved and the address is looked up.
BuildState ==
    /\ phase = "build"
    /\ IF ~ValidReleaseJobs THEN Leave("job")
       ELSE \E address \in defaultAddress(NetworkInterfaces(deployment, job), <<>>) :
                Leave(CASE address.outcome = "panic" -> "panic"
                        [] address.outcome = "error" -> "address"
                        [] OTHER -> "ok")
    /\ UNCHANGED <<manager, stemcell, dirs, vmDeleted, removeFailed>>

-----------------------------------------------------------------------------
Next ==
    \/ \E c \in {"deploy", "delete"} : Begin(c) \/ BeginFails(c)
    \/ IoFails \/ Killed \/ Cleanup
    \/ ParseManifests \/ DownloadAndExtract \/ AllFetched \/ ValidateCpiRelease
    \/ GetDeploymentManifest \/ NoJobPanics \/ GetStemcell \/ CheckCompiledReleases
    \/ SkipDeploy \/ InstallCpi \/ ReplaceInstances \/ CreateInstance \/ BuildState

Spec == Init /\ [][Next]_vars

-----------------------------------------------------------------------------
(* What is said about it                                                   *)

ListedTwice(networks) == \E i, j \in DOMAIN networks : i # j /\ networks[i].name = networks[j].name

\* The network whose address the templates get has none.
NoAddress(networks) == \E i \in DOMAIN networks :
    /\ Cardinality(Names(networks)) = 1 \/ "gateway" \in ToSet(networks[i].default)
    /\ networks[i].static_ips = <<>> /\ NetworkNamed(deployment, networks[i].name).type # "dynamic"

(***************************************************************************)
(* A command that got past validating is broken off by its own manifest or *)
(* releases for six reasons only.  It panics when the manifest has no job, *)
(* when a compiled release is used and the stemcell cannot be had, or when *)
(* the default network is not dynamic and gives the job no IP; it fails    *)
(* when a package of the CPI is not in its release or is already compiled  *)
(* (the latter on delete), when the job does not have one instance, or     *)
(* when a network listed twice loses the default gateway.  Jobs, pools,    *)
(* networks and subnets that validation looked at are never missing later. *)
(***************************************************************************)
OnlyKnownLateFailures ==
    /\ result = "panic" =>
        \/ deployment.jobs = <<>>
        \/ stemcell = "none" /\ \E i \in ToSet(manager) : Release(i).isCompiled
        \/ vmDeleted /\ NoAddress(job.networks)
    /\ result \notin {"job", "pool", "network"}
    /\ result = "package" =>
        \/ \E i \in DOMAIN cpiRelease.packages : cpiRelease.packages[i].dependencies # {}
        \/ command = "delete" /\ cpiRelease.isCompiled
    /\ result = "instances" => vmDeleted /\ job.instances # 1
    /\ result = "address" => ListedTwice(job.networks)

(***************************************************************************)
(* The networks the new VM is created with: a static IP of a manual        *)
(* network lies in its range, the gateway is a host address of the range,  *)
(* and unless the job lists a network twice exactly one network is the     *)
(* default gateway and one the default for DNS.                            *)
(***************************************************************************)
InterfacesWellFormed ==
    phase = "create" =>
        LET ifaces == NetworkInterfaces(deployment, job)
        IN  /\ \A n \in DOMAIN ifaces : ifaces[n].type = "manual" =>
                /\ ifaces[n].ip # NoText => InRange(ifaces[n].range, ifaces[n].ip)
                /\ InRange(ifaces[n].range, ifaces[n].gateway - 1)
                /\ InRange(ifaces[n].range, ifaces[n].gateway + 1)
            /\ ~ListedTwice(job.networks) =>
                \A dflt \in {"dns", "gateway"} :
                    \E n \in DOMAIN ifaces : \A m \in DOMAIN ifaces : dflt \in ifaces[m].default <=> m = n

(***************************************************************************)
(* What a command leaves in the temp root, when every removal worked and   *)
(* it was not killed: the release whose name is not the manifest's, and    *)
(* the stemcell when the check of the compiled releases fails after it was *)
(* extracted.  Everything else that was extracted is gone.                 *)
(***************************************************************************)
LeftoverDirs ==
    phase = "idle" /\ result \notin {"none", "killed"} /\ ~removeFailed /\ commands > 0 =>
        dirs \subseteq
            (IF result = "name mismatch" THEN DOMAIN input.tarballs \ ToSet(manager) ELSE {})
            \cup (IF result = "compiled" THEN {0} ELSE {})

(***************************************************************************)
(* A deploy that goes on to install the CPI has no compiled release but    *)
(* ones that a template uses and that are not the CPI's, and every package *)
(* of those was compiled for the stemcell's operating system.              *)
(***************************************************************************)
CompiledReleasesMatch ==
    phase \in {"install", "replace"} /\ command = "deploy" =>
        \A i \in ToSet(manager) : Release(i).isCompiled =>
            /\ Release(i).name \in TemplateReleases(deployment)
            /\ Release(i).name # installation.template.release
            /\ \A k \in DOMAIN Release(i).packages :
                ToLower(Release(i).packages[k].stemcell) = ToLower(input.stemcell.os_and_version)

(***************************************************************************)
(* installation/pkg/compiler.go, on the packages it is given: "Compiled    *)
(* CPI releases are not currently allowed".  Deploy refuses one; delete    *)
(* has no such check.                                                      *)
(***************************************************************************)
CpiNeverCompiled == phase = "install" => ~cpiRelease.isCompiled

=============================================================================
