---------------------------- MODULE PackageGraph ----------------------------
(***************************************************************************)
(* The pure algorithms over the dependency graph of a release's packages.  *)
(* deps[p] is the list pkg.Dependencies, without repetitions.              *)
(***************************************************************************)
EXTENDS Naturals, SequencesExt

-----------------------------------------------------------------------------
(* state/pkg/resolve_dependencies.go                                       *)

\* One round of the loop: a dependency that is neither collected already nor in
\* noFollow is collected and followed.
Follow(walk, noFollow, all, depPkg) ==
    IF depPkg \in ToSet(all) \cup noFollow THEN all
    ELSE Append(all, depPkg) \o walk[<<depPkg, ToSet(all) \cup {depPkg} \cup noFollow>>]

\* all[i] is what the loop has collected from the first i dependencies.
Collect(deps, walk, pkg, noFollow) ==
    LET all[i \in 0 .. Len(deps[pkg])] ==
            IF i = 0 THEN <<>> ELSE Follow(walk, noFollow, all[i - 1], deps[pkg][i])
    IN  all[Len(deps[pkg])]

\* The package itself is cut out of what was collected.
Without(all, pkg) ==
    IF pkg \in ToSet(all) THEN RemoveAt(all, CHOOSE i \in DOMAIN all : all[i] = pkg) ELSE all

\* A call is a package with the packages not to follow.
ResolveInner(deps) ==
    LET walk[call \in (DOMAIN deps) \X (SUBSET DOMAIN deps)] ==
            Without(Collect(deps, walk, call[1], call[2]), call[1])
    IN  walk

\* Mutant: only the direct dependencies
ResolveDependencies_DirectOnly(deps, pkg) == Reverse(Without(deps[pkg], pkg))

ResolveDependencies(deps, pkg) == Reverse(ResolveInner(deps)[<<pkg, {}>>])

-----------------------------------------------------------------------------
(* state/job/dependency_compiler.go                                        *)

\* The recursive call is made on releasePackage itself, not on the dependency: it
\* only adds what is left of the same list.
ResolvePackageDependencies(deps, pkg, packageMap) == packageMap \cup ToSet(deps[pkg])

-----------------------------------------------------------------------------
(* Reference definitions.                                                  *)

DirectDeps(deps, S) == UNION {ToSet(deps[p]) : p \in S}

\* All packages reachable from p by at least one dependency: the least set that has
\* the dependencies of p and those of its members
Below(deps, p) ==
    LET closed == {S \in SUBSET DOMAIN deps : ToSet(deps[p]) \cup DirectDeps(deps, S) \subseteq S}
    IN  {q \in DOMAIN deps : \A S \in closed : q \in S}

=============================================================================
