--------------------------- MODULE PackageCompile ---------------------------
(***************************************************************************)
(* Compiling the packages a job needs (state/job/dependency_compiler.go):  *)
(* collect them, sort them (release/pkg/sort.go), compile them in that     *)
(* order, and remember each result in the compiled package index.          *)
(*                                                                         *)
(* Two compilers are used: the CPI's packages are compiled on this machine *)
(* (installation/pkg/compiler.go) and remembered in a file, the            *)
(* deployment's packages by the agent (remote_package_compiler.go) and     *)
(* remembered in memory only.  The file outlives the process, so it may    *)
(* hold packages of an earlier version of the release.  What a write of    *)
(* the file leaves that breaks off is in Installation: here it only ends   *)
(* the process.                                                            *)
(*                                                                         *)
(* A compiled package is modelled by what went into it: the set of         *)
(* package/fingerprint pairs.                                              *)
(***************************************************************************)
EXTENDS PackageGraph

CONSTANTS
    Pkgs, Fingerprints,
    Cases            \* the releases, each with a bound on the processes started for it

\* A case gives the dependency graph, the packages the job templates ask for, those
\* that come already compiled, and where packages are compiled.
ASSUME PackageAssumption ==
    /\ IsFiniteSet(Pkgs) /\ "copy" \notin Pkgs /\ Fingerprints # {}
    /\ \A c \in Cases : /\ c.deps \in [Pkgs -> Seq(Pkgs)]
                        /\ c.jobPackages \subseteq Pkgs /\ c.compiled \subseteq Pkgs
                        /\ c.place \in {"local", "remote"} /\ c.processes \in Nat

VARIABLES
    deps, fingerprint,     \* the release: dependencies and fingerprints
    jobPackages, compiledRelease, place,
    pc,                    \* "idle", "resolve", "sort" or "compile"
    packageMap,            \* packages collected so far
    unresolved,            \* packages of the job not looked at yet
    incomingEdges, noIncomingEdgesSet, sortedPackages,
    next,                  \* index into sortedPackages
    index,                 \* the compiled package index
    result,                \* "none", "ok", "circular", "missing", "failed"
    processes              \* how many more processes may be started

releaseVars == <<deps, jobPackages, compiledRelease, place>>
sortVars == <<incomingEdges, noIncomingEdgesSet, sortedPackages>>
vars == <<releaseVars, fingerprint, pc, packageMap, unresolved, sortVars, next, index,
          result, processes>>

Tag(S) == {<<p, fingerprint[p]>> : p \in S}

TypeOK ==
    /\ DOMAIN deps = Pkgs /\ fingerprint \in [Pkgs -> Fingerprints]
    /\ jobPackages \subseteq Pkgs /\ compiledRelease \subseteq Pkgs /\ place \in {"local", "remote"}
    /\ pc \in {"idle", "resolve", "sort", "compile"}
    /\ packageMap \subseteq Pkgs /\ unresolved \subseteq jobPackages
    /\ DOMAIN incomingEdges \subseteq Pkgs
    /\ \A p \in DOMAIN incomingEdges : incomingEdges[p] \subseteq packageMap
    /\ noIncomingEdgesSet \in Seq(Pkgs) /\ sortedPackages \in Seq(Pkgs)
    /\ next \in Nat
    /\ result \in {"none", "ok", "circular", "missing", "failed"}
    /\ processes \in Nat

Init ==
    /\ \E c \in Cases : /\ deps = c.deps /\ jobPackages = c.jobPackages /\ compiledRelease = c.compiled
                        /\ place = c.place /\ processes = c.processes
    /\ fingerprint = [p \in Pkgs |-> CHOOSE f \in Fingerprints : TRUE]
    /\ pc = "idle" /\ packageMap = {} /\ unresolved = {}
    /\ incomingEdges = <<>> /\ noIncomingEdgesSet = <<>> /\ sortedPackages = <<>>
    /\ next = 0 /\ index = {} /\ result = "none"

-----------------------------------------------------------------------------
(* The release and the process.                                            *)

\* The next process is given a release with one package changed.
NewRelease(p) ==
    /\ pc = "idle" /\ result # "none" /\ processes > 0
    /\ \E f \in Fingerprints : f # fingerprint[p] /\ fingerprint' = [fingerprint EXCEPT ![p] = f]
    /\ UNCHANGED <<releaseVars, pc, packageMap, unresolved, sortVars, next, index, result, processes>>

Begin ==
    /\ pc = "idle" /\ processes > 0
    /\ pc' = "resolve" /\ processes' = processes - 1 /\ result' = "none"
    /\ packageMap' = {} /\ unresolved' = jobPackages
    /\ incomingEdges' = <<>> /\ noIncomingEdgesSet' = <<>> /\ sortedPackages' = <<>> /\ next' = 0
    /\ index' = IF place = "local" THEN index ELSE {}
    /\ UNCHANGED <<releaseVars, fingerprint>>

\* Any call fails, or the process is killed
Interrupted ==
    /\ pc # "idle" /\ pc' = "idle" /\ result' = "failed"
    /\ UNCHANGED <<releaseVars, fingerprint, packageMap, unresolved, sortVars, next, index, processes>>

-----------------------------------------------------------------------------
(* resolveJobCompilationDependencies                                       *)

\* Mutant: the dependencies are queued instead of collected
ResolvePackage_Queue(p) ==
    /\ pc = "resolve" /\ p \in unresolved
    /\ packageMap' = packageMap \cup {p}
    /\ unresolved' = (unresolved \cup ToSet(deps[p])) \ packageMap'
    /\ UNCHANGED <<releaseVars, fingerprint, pc, sortVars, next, index, result, processes>>

ResolvePackage(p) ==
    /\ pc = "resolve" /\ p \in unresolved
    /\ unresolved' = unresolved \ {p}
    /\ packageMap' = ResolvePackageDependencies(deps, p, packageMap \cup {p})
    /\ UNCHANGED <<releaseVars, fingerprint, pc, sortVars, next, index, result, processes>>

\* getEdgeMaps.  A dependency that is not itself in the list gets incoming edges
\* all the same, and no outgoing ones.
Outgoing(p) == IF p \in packageMap THEN ToSet(deps[p]) ELSE {}

\* Sort begins; the packages come out of a Go map, so in any order.
BeginSort ==
    /\ pc = "resolve" /\ unresolved = {} /\ pc' = "sort"
    /\ incomingEdges' = [p \in packageMap \cup DirectDeps(deps, packageMap) |->
                            {q \in packageMap : p \in Outgoing(q)}]
    /\ noIncomingEdgesSet' \in SetToSeqs({p \in packageMap : incomingEdges'[p] = {}})
    /\ UNCHANGED <<releaseVars, fingerprint, packageMap, unresolved, sortedPackages, next,
                   index, result, processes>>

\* The members of S, in the order of the list
InOrder(S, list) ==
    {s \in SetToSeqs(S) : \A i, j \in DOMAIN s : i < j =>
        \E k, l \in DOMAIN list : k < l /\ list[k] = s[i] /\ list[l] = s[j]}

\* Mutant: a dependency is put in line as soon as one of its dependents is out
SortNext_AnyEdge ==
    /\ pc = "sort" /\ noIncomingEdgesSet # <<>>
    /\ LET elem == Head(noIncomingEdgesSet)
           freed == SelectSeq(deps[elem], LAMBDA d : d \in Outgoing(elem))
       IN  /\ sortedPackages' = <<elem>> \o sortedPackages
           /\ incomingEdges' = [p \in DOMAIN incomingEdges |-> incomingEdges[p] \ {elem}]
           /\ noIncomingEdgesSet' = Tail(noIncomingEdgesSet) \o
                 SelectSeq(freed, LAMBDA d : d \notin ToSet(sortedPackages'))
    /\ UNCHANGED <<releaseVars, fingerprint, pc, packageMap, unresolved, next, index, result, processes>>

\* Mutant: the result is not reversed
SortNext_Appended ==
    /\ pc = "sort" /\ noIncomingEdgesSet # <<>>
    /\ LET elem == Head(noIncomingEdgesSet)
       IN  /\ sortedPackages' = Append(sortedPackages, elem)
           /\ incomingEdges' = [p \in DOMAIN incomingEdges |->
                 IF p \in Outgoing(elem) THEN incomingEdges[p] \ {elem} ELSE incomingEdges[p]]
           /\ noIncomingEdgesSet' = Tail(noIncomingEdgesSet) \o
                 SelectSeq(deps[elem], LAMBDA d : d \in Outgoing(elem) /\ incomingEdges'[d] = {})
    /\ UNCHANGED <<releaseVars, fingerprint, pc, packageMap, unresolved, next, index, result, processes>>

\* One round of Sort's loop: the first in line is put in front of the result, and
\* the dependencies it was the last to wait for are put in line.
SortNext ==
    /\ pc = "sort" /\ noIncomingEdgesSet # <<>>
    /\ LET elem == Head(noIncomingEdgesSet)
           freed == {d \in Outgoing(elem) : incomingEdges'[d] = {}}
       IN  /\ sortedPackages' = <<elem>> \o sortedPackages
           /\ incomingEdges' = [p \in DOMAIN incomingEdges |->
                 IF p \in Outgoing(elem) THEN incomingEdges[p] \ {elem} ELSE incomingEdges[p]]
           /\ \E s \in InOrder(freed, deps[elem]) : noIncomingEdgesSet' = Tail(noIncomingEdgesSet) \o s
    /\ UNCHANGED <<releaseVars, fingerprint, pc, packageMap, unresolved, next, index, result, processes>>

\* Mutant: left-over edges are not looked at
SortDone_NoCheck ==
    /\ pc = "sort" /\ noIncomingEdgesSet = <<>>
    /\ pc' = "compile" /\ next' = 1 /\ UNCHANGED result
    /\ UNCHANGED <<releaseVars, fingerprint, packageMap, unresolved, sortVars, index, processes>>

SortDone ==
    /\ pc = "sort" /\ noIncomingEdgesSet = <<>>
    /\ IF \E p \in DOMAIN incomingEdges : incomingEdges[p] # {}
       THEN pc' = "idle" /\ result' = "circular" /\ UNCHANGED next
       ELSE pc' = "compile" /\ next' = 1 /\ UNCHANGED result
    /\ UNCHANGED <<releaseVars, fingerprint, packageMap, unresolved, sortVars, index, processes>>

-----------------------------------------------------------------------------
(* compilePackages, with the two compilers.                                *)

\* The package is passed to pkgKey by value, so that the walk starts from a copy of it
\* and does not recognise the package itself when a cycle leads back to it.
WithCopy(p) == [x \in Pkgs \cup {"copy"} |-> IF x = "copy" THEN deps[p] ELSE deps[x]]
DependenciesOfCopy(p) == ToSet(ResolveDependencies(WithCopy(p), "copy"))

\* Mutant: the key forgets the dependencies
PkgKey_NoDependencies(p) == [pkg |-> p, fingerprint |-> fingerprint[p], below |-> {}]

\* compiledPackageRepo.pkgKey: name, fingerprint and those of all dependencies
PkgKey(p) == [pkg |-> p, fingerprint |-> fingerprint[p], below |-> Tag(DependenciesOfCopy(p))]

Found(p) == {e \in index : e.key = PkgKey(p)}

\* index.Save replaces an entry with the same key
Save(p, parts) == index' = (index \ Found(p)) \cup {[key |-> PkgKey(p), parts |-> parts]}

Current == sortedPackages[next]
Compiling == pc = "compile" /\ next <= Len(sortedPackages)

CompiledAlready ==
    /\ place = "local" /\ Found(Current) # {} /\ UNCHANGED index

FromCompiledRelease ==
    /\ place = "remote" /\ Current \in compiledRelease
    /\ Save(Current, Tag({Current} \cup Below(deps, Current)))

NeedsCompiling ==
    /\ place = "local" => Found(Current) = {}
    /\ place = "remote" => Current \notin compiledRelease
DependenciesFound == \A d \in ToSet(deps[Current]) : Found(d) # {}

\* Only the immediate dependencies are installed, as they were compiled.
FromSource ==
    /\ NeedsCompiling /\ DependenciesFound
    /\ Save(Current, Tag({Current}) \cup
             UNION {e.parts : e \in UNION {Found(d) : d \in ToSet(deps[Current])}})

CompileNext ==
    /\ Compiling
    /\ CompiledAlready \/ FromCompiledRelease \/ FromSource
    /\ next' = next + 1
    /\ UNCHANGED <<releaseVars, fingerprint, pc, packageMap, unresolved, sortVars, result, processes>>

DependencyMissing ==
    /\ Compiling /\ NeedsCompiling /\ ~DependenciesFound
    /\ pc' = "idle" /\ result' = "missing"
    /\ UNCHANGED <<releaseVars, fingerprint, packageMap, unresolved, sortVars, next, index, processes>>

Done ==
    /\ pc = "compile" /\ next > Len(sortedPackages)
    /\ pc' = "idle" /\ result' = "ok"
    /\ UNCHANGED <<releaseVars, fingerprint, packageMap, unresolved, sortVars, next, index, processes>>

Next ==
    \/ Begin \/ Interrupted \/ \E p \in Pkgs : NewRelease(p) \/ ResolvePackage(p)
    \/ BeginSort \/ SortNext \/ SortDone \/ CompileNext \/ DependencyMissing \/ Done

Spec == Init /\ [][Next]_vars

-----------------------------------------------------------------------------
(* Properties.                                                             *)

(***************************************************************************)
(* What is compiled, and in which order: every package at most once, and   *)
(* after each of its dependencies that is compiled at all (sort.go Sort).  *)
(***************************************************************************)
CompileOrder ==
    pc = "compile" =>
        /\ ToSet(sortedPackages) = packageMap \cup DirectDeps(deps, packageMap)
        /\ \A i, j \in 1..Len(sortedPackages) :
              /\ i # j => sortedPackages[i] # sortedPackages[j]
              /\ sortedPackages[j] \in Outgoing(sortedPackages[i]) => j < i

\* Among finitely many packages there is a cycle exactly when there are some of which
\* each is a dependency of one of them.
Cyclic == \E S \in SUBSET Pkgs : S # {} /\ \A p \in S : \E q \in S : p \in Outgoing(q)

(***************************************************************************)
(* Sort reports a circular dependency exactly when there is one among the  *)
(* packages it was given.                                                  *)
(***************************************************************************)
CyclesDetected == (pc = "compile" => ~Cyclic) /\ (result = "circular" => Cyclic)

(***************************************************************************)
(* ResolveDependencies yields every transitive dependency once, whatever   *)
(* the order of the lists and in spite of cycles, and on the copy that     *)
(* pkgKey is given the package itself too when a cycle leads back to it.   *)
(* The graph never changes: it is looked at before the first process.      *)
(***************************************************************************)
ResolveCorrect ==
    pc = "idle" /\ result = "none" =>
        \A p \in Pkgs :
            LET all == ResolveDependencies(deps, p)
            IN  /\ ToSet(all) = Below(deps, p) \ {p} /\ Len(all) = Cardinality(ToSet(all))
                /\ DependenciesOfCopy(p) = Below(deps, p)

(***************************************************************************)
(* A package that is used was compiled from the packages of the release at *)
(* hand: the index never passes off what was compiled against an earlier   *)
(* version of a dependency, however deep (compiled_package_repo.go).       *)
(***************************************************************************)
NoStalePackage ==
    result = "ok" =>
        \A p \in ToSet(sortedPackages) : \A e \in Found(p) :
            e.parts = Tag({p} \cup Below(deps, p))

(***************************************************************************)
(* Compiling stops for a missing dependency only below the packages that   *)
(* were collected: when one that Sort brought in itself (two dependencies  *)
(* away from the job) has dependencies of its own, be they deeper packages *)
(* or, in a cycle that Sort does not see, packages compiled later.         *)
(***************************************************************************)
MissingOnlyWhenDeep ==
    result = "missing" =>
        DirectDeps(deps, DirectDeps(deps, packageMap) \ packageMap) # {}

=============================================================================
