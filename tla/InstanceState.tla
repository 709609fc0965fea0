---------------------------- MODULE InstanceState ---------------------------
(***************************************************************************)
(* Bringing the jobs of an instance up to date (instance.UpdateJobs): the  *)
(* agent is told its networks and asked for its addresses, the templates   *)
(* are rendered with them, archived and uploaded, the packages of the jobs *)
(* are compiled (deployment/instance/state/builder.go), and the agent      *)
(* stops, applies the new spec, starts and is watched until its jobs run.  *)
(* Any call may fail and the process may be killed at any point.           *)
(*                                                                         *)
(* A package is a model of the Go pointer: packages of two releases may    *)
(* have one name.  A property is named by its whole path and is absent     *)
(* when it is null.                                                        *)
(***************************************************************************)
EXTENDS Manifest

CONSTANTS
    Instances,      \* what is to be brought up to date
    Nil             \* the value of a property without default

\* The networks as NetworkInterfaces of the manifest gives them, the templates with
\* their release jobs, the properties of the instance group and of the deployment,
\* name and dependencies of every package, and the watch time in milliseconds
ASSUME InstanceAssumption ==
    \A i \in Instances :
        /\ Len(i.templates) \in Nat /\ DOMAIN i.templates = 1 .. Len(i.templates)
        /\ \A k \in DOMAIN i.templates : i.templates[k].packages \in Seq(DOMAIN i.pkgName)
        /\ i.pkgDeps \in [DOMAIN i.pkgName -> SUBSET DOMAIN i.pkgName]
        /\ i.watch.start \in Nat /\ i.watch.end \in Nat /\ i.watch.start <= i.watch.end

VARIABLES
    instance, phase,
    agentIPs,       \* the addresses the agent has on dynamic networks
    reported,       \* what it told of them
    address,        \* what the templates are rendered with
    next,           \* index of the template to render
    temp,           \* temporary files and directories; that of a rendered job by its name
    deferred,       \* those whose removal is deferred
    undeleted,      \* those whose removal failed, which is only logged
    archive,        \* the uploaded archive: a rendering for each template
    refs,           \* the packages compiled so far, in order
    spec,           \* what the agent applied last
    jobs,           \* state of the jobs on the VM
    ran,            \* they were running at some time since they were started
    attempts,       \* of GetState
    result,         \* "none", "ok", "failed", "panic" or "killed"
    endedIn         \* the phase in which it ended

buildVars == <<address, next, archive, refs>>
tempVars == <<temp, deferred, undeleted>>
agentVars == <<agentIPs, spec, jobs, ran>>
outcome == <<result, endedIn>>
vars == <<instance, phase, reported, buildVars, tempVars, agentVars, attempts, outcome>>

Init ==
    /\ instance \in Instances /\ phase = "initial" /\ agentIPs = <<>> /\ reported = <<>>
    /\ address = NoText /\ next = 1 /\ temp = {} /\ deferred = {} /\ undeleted = {}
    /\ archive = <<>> /\ refs = <<>> /\ spec = <<>> /\ jobs = "stopped" /\ ran = FALSE
    /\ attempts = 0 /\ result = "none" /\ endedIn = "none"

-----------------------------------------------------------------------------
(* Leaving                                                                 *)

\* The deferred removals, each of which may fail without anybody being told
RemoveDeferred ==
    /\ deferred' = {}
    /\ \E kept \in SUBSET deferred :
        temp' = (temp \ deferred) \cup kept /\ undeleted' = undeleted \cup kept

Leave(r) == phase' = "done" /\ result' = r /\ endedIn' = phase

Fail == Leave("failed") /\ RemoveDeferred /\ UNCHANGED <<instance, reported, buildVars, agentVars, attempts>>

Killed ==
    /\ phase # "done" /\ Leave("killed")
    /\ UNCHANGED <<instance, reported, buildVars, tempVars, agentVars, attempts>>

-----------------------------------------------------------------------------
(* The address                                                             *)

ifaces == instance.ifaces
Dynamic == {n \in DOMAIN ifaces : ifaces[n].type = "dynamic"}

\* The spec with the networks only; the agent sets them up, and gets addresses for
\* some of the dynamic ones.
ApplyInitial ==
    /\ phase = "initial" /\ phase' = "state"
    /\ spec' = [networks |-> DOMAIN ifaces, templates |-> <<>>, archive |-> <<>>, packages |-> <<>>]
    /\ \E S \in SUBSET Dynamic : agentIPs' \in [S -> Addresses]
    /\ UNCHANGED <<instance, reported, buildVars, tempVars, jobs, ran, attempts, outcome>>

GetState ==
    /\ phase = "state" /\ phase' = "address" /\ reported' = agentIPs
    /\ UNCHANGED <<instance, buildVars, tempVars, agentVars, attempts, outcome>>

\* An error, or the panic of a type assertion, ends it before anything is rendered.
ChooseAddress ==
    /\ phase = "address"
    /\ \E a \in defaultAddress(ifaces, reported) :
        \/ /\ a.outcome = "ok" /\ address' = a.ip /\ phase' = "render" /\ UNCHANGED outcome
        \/ /\ a.outcome = "error" /\ Leave("failed") /\ UNCHANGED address
        \/ /\ a.outcome = "panic" /\ Leave("panic") /\ UNCHANGED address
    /\ UNCHANGED <<instance, reported, next, archive, refs, tempVars, agentVars, attempts>>

-----------------------------------------------------------------------------
(* Rendering (templatescompiler)                                           *)

templates == instance.templates

\* The properties of the template alone, or those of the instance group over those
\* of the deployment; what is absent has its default.
Property(t, p) ==
    LET given == IF t.hasProperties THEN t.properties ELSE instance.cluster @@ instance.global
    IN  IF p \in DOMAIN given THEN given[p] ELSE t.defaults[p]

\* p(name) of a property that the job does not declare or that has no value raises.
Renders(t) == \A p \in t.uses : p \in DOMAIN t.defaults /\ Property(t, p) # Nil

Rendering(t) ==
    [job |-> t.name, address |-> address, values |-> [p \in DOMAIN t.defaults |-> Property(t, p)]]

\* The directory for the Ruby script and its context is removed on every way out; that
\* failing is only logged.
ErbLeftovers == SUBSET {"erb"}

\* Every template file of a job, then its monit file, into a new directory
RenderJob ==
    /\ phase = "render" /\ next <= Len(templates) /\ Renders(templates[next])
    /\ \E kept \in ErbLeftovers :
        /\ temp' = temp \cup {templates[next].name} \cup kept /\ undeleted' = undeleted \cup kept
    /\ deferred' = deferred \cup {templates[next].name} /\ next' = next + 1
    /\ UNCHANGED <<instance, phase, reported, address, archive, refs, agentVars, attempts, outcome>>

\* The directory of this job, if it was made, and those of the jobs before are deleted.
RenderJobFails ==
    /\ phase = "render" /\ next <= Len(templates) /\ Leave("failed")
    /\ deferred' = {}
    /\ \E kept \in SUBSET (deferred \cup {templates[next].name}), erb \in ErbLeftovers :
        /\ temp' = (temp \ deferred) \cup kept \cup erb
        /\ undeleted' = undeleted \cup kept \cup erb
    /\ UNCHANGED <<instance, reported, buildVars, agentVars, attempts>>

AllRendered ==
    /\ phase = "render" /\ next > Len(templates) /\ phase' = "compress"
    /\ temp' = temp \cup {"list"} /\ deferred' = deferred \cup {"list"}
    /\ UNCHANGED <<instance, reported, buildVars, undeleted, agentVars, attempts, outcome>>

\* The rendered jobs are copied into one directory, each under its name, and packed.
Compress ==
    /\ phase = "compress" /\ phase' = "digest"
    /\ archive' = [i \in DOMAIN templates |-> Rendering(templates[i])]
    /\ temp' = temp \cup {"archive"}
    /\ UNCHANGED <<instance, reported, address, next, refs, deferred, undeleted, agentVars, attempts,
                   outcome>>

\* tar left a file behind, or did not come to it
CompressFails ==
    /\ phase = "compress" /\ Leave("failed") /\ deferred' = {}
    /\ \E kept \in SUBSET deferred, torn \in SUBSET {"archive"} :
        temp' = (temp \ deferred) \cup kept \cup torn /\ undeleted' = undeleted \cup kept
    /\ UNCHANGED <<instance, reported, buildVars, agentVars, attempts>>

\* Compress returns: its directory goes, the archive is from now on deleted.
DigestArchive ==
    /\ phase = "digest" /\ phase' = "upload"
    /\ \E kept \in SUBSET {"list"} :
        temp' = (temp \ {"list"}) \cup kept /\ undeleted' = undeleted \cup kept
    /\ deferred' = (deferred \ {"list"}) \cup {"archive"}
    /\ UNCHANGED <<instance, reported, buildVars, agentVars, attempts, outcome>>

\* Nobody deletes the archive when its digest cannot be calculated.
DigestArchiveFails == phase = "digest" /\ Fail

Upload ==
    /\ phase = "upload" /\ phase' = "compile" /\ RemoveDeferred
    /\ UNCHANGED <<instance, reported, buildVars, agentVars, attempts, outcome>>

\* Mutant: the archive is only deleted after it was uploaded
UploadFails_KeepsArchive ==
    /\ phase = "upload" /\ Leave("failed")
    /\ UNCHANGED <<instance, reported, buildVars, tempVars, agentVars, attempts>>

UploadFails == phase = "upload" /\ Fail

-----------------------------------------------------------------------------
(* Packages (state/job/dependency_compiler.go, remote_package_compiler.go) *)

name == instance.pkgName
deps == instance.pkgDeps

\* One package of each name: a job's package replaces what is there, a dependency does not.
AddPackage(map, p) ==
    [n \in DOMAIN map \cup {name[d] : d \in {p} \cup deps[p]} |->
        IF n = name[p] THEN p
        ELSE IF n \in DOMAIN map THEN map[n] ELSE CHOOSE d \in deps[p] : name[d] = n]

\* The packages of a job, one after the other
AddPackages(map, packages) ==
    LET added[k \in 0 .. Len(packages)] == IF k = 0 THEN map ELSE AddPackage(added[k - 1], packages[k])
    IN  added[Len(packages)]

\* Mutant: only the last job's packages stay
packageMap_LastJob == AddPackages(<<>>, IF templates = <<>> THEN <<>> ELSE Last(templates).packages)

packageMap ==
    LET added[i \in 0 .. Len(templates)] ==
            IF i = 0 THEN <<>> ELSE AddPackages(added[i - 1], templates[i].packages)
    IN  added[Len(templates)]

\* Sort also returns the dependencies of what it is given, be they in the map or not.
ToCompile ==
    LET collected == {packageMap[n] : n \in DOMAIN packageMap}
    IN  collected \cup UNION {deps[p] : p \in collected}

\* The agent compiles a package after its dependencies; PackageCompile has the order.
CompilePackage(p) ==
    /\ phase = "compile" /\ p \in ToCompile \ ToSet(refs) /\ deps[p] \subseteq ToSet(refs)
    /\ refs' = Append(refs, p)
    /\ UNCHANGED <<instance, phase, reported, address, next, archive, tempVars, agentVars, attempts, outcome>>

\* Also when a dependency is not among the packages to compile
CompileFails == phase = "compile" /\ ToCompile # ToSet(refs) /\ Fail

AllCompiled ==
    /\ phase = "compile" /\ ToCompile = ToSet(refs) /\ phase' = "stop"
    /\ UNCHANGED <<instance, reported, buildVars, tempVars, agentVars, attempts, outcome>>

-----------------------------------------------------------------------------
(* The agent                                                               *)

StopJobs ==
    /\ phase = "stop" /\ phase' = "apply" /\ jobs' = "stopped"
    /\ UNCHANGED <<instance, reported, buildVars, tempVars, agentIPs, spec, ran, attempts, outcome>>

\* ToApplySpec: of two packages with one name the one compiled last stays.
ToApplySpec ==
    [networks |-> DOMAIN ifaces, templates |-> [i \in DOMAIN templates |-> templates[i].name],
     archive |-> archive,
     packages |-> [n \in {name[p] : p \in ToSet(refs)} |->
                      refs[SelectLastInSeq(refs, LAMBDA p : name[p] = n)]]]

Apply ==
    /\ phase = "apply" /\ phase' = "pre-start" /\ spec' = ToApplySpec
    /\ UNCHANGED <<instance, reported, buildVars, tempVars, agentIPs, jobs, ran, attempts, outcome>>

PreStart ==
    /\ phase = "pre-start" /\ phase' = "start"
    /\ UNCHANGED <<instance, reported, buildVars, tempVars, agentVars, attempts, outcome>>

StartJobs ==
    /\ phase = "start" /\ phase' = "wait" /\ jobs' = "starting"
    /\ UNCHANGED <<instance, reported, buildVars, tempVars, agentIPs, spec, ran, attempts, outcome>>

\* The jobs come up, or do not, in their own time.
JobsChange ==
    /\ jobs # "stopped" /\ phase # "done" /\ jobs' \in {"starting", "running", "failing"}
    /\ ran' = (ran \/ jobs' = "running")
    /\ UNCHANGED <<instance, phase, reported, buildVars, tempVars, agentIPs, spec, attempts, outcome>>

maxAttempts == (instance.watch.end - instance.watch.start) \div 1000

SeenToRun ==
    /\ phase = "wait" /\ (maxAttempts = 0 \/ jobs = "running") /\ phase' = "post-start"
    /\ UNCHANGED <<instance, reported, buildVars, tempVars, agentVars, attempts, outcome>>

\* Mutant: after the last attempt it goes on
NotRunning_GoesOn ==
    /\ phase = "wait" /\ attempts < maxAttempts /\ jobs # "running" /\ attempts' = attempts + 1
    /\ phase' = IF attempts' < maxAttempts THEN "wait" ELSE "post-start"
    /\ UNCHANGED <<instance, reported, buildVars, tempVars, agentVars, outcome>>

NotRunning ==
    /\ phase = "wait" /\ attempts < maxAttempts /\ jobs # "running" /\ attempts' = attempts + 1
    /\ IF attempts' < maxAttempts THEN UNCHANGED <<phase, outcome>> ELSE Leave("failed")
    /\ UNCHANGED <<instance, reported, buildVars, tempVars, agentVars>>

PostStart ==
    /\ phase = "post-start" /\ Leave("ok")
    /\ UNCHANGED <<instance, reported, buildVars, tempVars, agentVars, attempts>>

\* The agent does not answer, answers with an error, or a script fails.  While
\* waiting, an error of GetState is not retried.
AgentFails ==
    /\ phase \in {"initial", "state", "stop", "apply", "pre-start", "start", "wait", "post-start"}
    /\ phase = "wait" => maxAttempts > 0
    /\ Fail

Next ==
    \/ ApplyInitial \/ GetState \/ ChooseAddress \/ RenderJob \/ RenderJobFails \/ AllRendered
    \/ Compress \/ CompressFails \/ DigestArchive \/ DigestArchiveFails \/ Upload \/ UploadFails
    \/ \E p \in DOMAIN name : CompilePackage(p)
    \/ CompileFails \/ AllCompiled \/ StopJobs \/ Apply \/ PreStart \/ StartJobs \/ JobsChange
    \/ SeenToRun \/ NotRunning \/ PostStart \/ AgentFails \/ Killed

Spec == Init /\ [][Next]_vars

-----------------------------------------------------------------------------
(* What is said about it                                                   *)

(***************************************************************************)
(* A command that was not killed leaves no rendered template behind, which *)
(* hold the deployment's credentials, whatever failed and wherever: except *)
(* the very files whose removal failed, and the archive of a command that  *)
(* ended in packing it or in calculating its digest                        *)
(* (rendered_job_list_compressor.go).  Once its digest is known, the       *)
(* archive goes on every way out, also when the upload fails.              *)
(***************************************************************************)
ArchiveIsNobodys == endedIn \in {"compress", "digest"}

NothingRenderedLeft ==
    result \in {"ok", "failed", "panic"} =>
        temp \subseteq undeleted \cup (IF ArchiveIsNobodys THEN {"archive"} ELSE {})

(***************************************************************************)
(* The jobs that are started are those of the manifest, in its order; each *)
(* was rendered with the address the agent has on a default network, and   *)
(* with none only when that network is dynamic; and each finds its         *)
(* packages and their dependencies as its own release has them, or the     *)
(* package of another release that has the same name and is needed by a    *)
(* job, by a dependency or by one of its dependencies                      *)
(* (dependency_compiler.go).                                               *)
(***************************************************************************)
DefaultNetworks ==
    IF Cardinality(DOMAIN ifaces) = 1 THEN DOMAIN ifaces
    ELSE {n \in DOMAIN ifaces : "gateway" \in ifaces[n].default}

ActualAddress(n) ==
    IF n \in Dynamic THEN IF n \in DOMAIN agentIPs THEN agentIPs[n] ELSE NoText ELSE ifaces[n].ip

RenderedFor(n, ip) == ip = ActualAddress(n) /\ (ip # NoText \/ n \in Dynamic)

Needed(t) == UNION {{p} \cup deps[p] : p \in ToSet(t.packages)}

Used ==
    LET needed == UNION {Needed(templates[i]) : i \in DOMAIN templates}
    IN  needed \cup UNION {deps[p] : p \in needed}

Delivered(p) ==
    /\ name[p] \in DOMAIN spec.packages
    /\ spec.packages[name[p]] \in {q \in Used : name[q] = name[p]}

StartedAsConfigured ==
    jobs # "stopped" =>
        /\ spec.templates = [i \in DOMAIN templates |-> templates[i].name]
        /\ \A i \in DOMAIN templates :
            /\ spec.archive[i].job = templates[i].name
            /\ \E n \in DefaultNetworks : RenderedFor(n, spec.archive[i].address)
            /\ \A p \in Needed(templates[i]) : Delivered(p)

(***************************************************************************)
(* Jobs that are reported to be up were seen running by the agent after    *)
(* they were started; a watch time shorter than a second is the exception, *)
(* since it leaves no attempt at all (instance.go waitUntilJobsAreRunning).*)
(***************************************************************************)
UpMeansRunning == result = "ok" => ran \/ instance.watch.end - instance.watch.start < 1000

=============================================================================
