---------------------------- MODULE PackageProofs ---------------------------
(***************************************************************************)
(* Sorting and compiling the packages of a release, for any number of      *)
(* packages, any dependencies between them, cyclic ones included, and any  *)
(* number of processes and versions of the release.                        *)
(***************************************************************************)
EXTENDS PackageCompile, FiniteSetTheorems, FunctionTheorems, SequenceTheorems, WellFoundedInduction, TLAPS

-----------------------------------------------------------------------------
(* Lists without repetitions                                               *)

Once(s) == \A i, j \in 1 .. Len(s) : i # j => s[i] # s[j]

LEMMA EmptyList ==
    ASSUME NEW S PROVE <<>> \in Seq(S) /\ Len(<<>>) = 0 /\ ToSet(<<>>) = {} /\ Once(<<>>)
<1>1. <<>> \in Seq(S) /\ Len(<<>>) = 0 /\ DOMAIN <<>> = {}
  OBVIOUS
<1>2. QED
  BY <1>1 DEF ToSet, Once

\* A member of a list has a position.
LEMMA Member ==
    ASSUME NEW S, NEW s \in Seq(S)
    PROVE  \A x : x \in ToSet(s) <=> \E i \in 1 .. Len(s) : x = s[i]
<1>1. DOMAIN s = 1 .. Len(s)
  OBVIOUS
<1>2. QED
  BY <1>1 DEF ToSet

LEMMA Joined ==
    ASSUME NEW S, NEW s \in Seq(S), NEW t \in Seq(S)
    PROVE  /\ s \o t \in Seq(S) /\ ToSet(s \o t) = ToSet(s) \cup ToSet(t)
           /\ Once(s) /\ Once(t) /\ ToSet(s) \cap ToSet(t) = {} => Once(s \o t)
<1> DEFINE m == Len(s)
           n == Len(t)
           u == s \o t
<1>1. /\ m \in Nat /\ n \in Nat /\ u \in Seq(S) /\ Len(u) = m + n
      /\ \A i \in 1 .. m : u[i] = s[i]
      /\ \A i \in 1 .. m + n : i > m => u[i] = t[i - m]
  OBVIOUS
<1>2. /\ \A x : x \in ToSet(s) <=> \E i \in 1 .. m : x = s[i]
      /\ \A x : x \in ToSet(t) <=> \E i \in 1 .. n : x = t[i]
  BY Member
<1> HIDE DEF m, n, u
<1>3. \A x : x \in ToSet(u) <=> \E i \in 1 .. m + n : x = u[i]
  <2>1. \A x : x \in ToSet(u) <=> \E i \in 1 .. Len(u) : x = u[i]
    BY <1>1, Member
  <2>2. QED
    BY <1>1, <2>1
<1>4. ASSUME NEW i \in 1 .. m + n
      PROVE  \/ i \in 1 .. m /\ u[i] = s[i] /\ u[i] \in ToSet(s)
             \/ i > m /\ i - m \in 1 .. n /\ u[i] = t[i - m] /\ u[i] \in ToSet(t)
  <2>1. CASE i \in 1 .. m
    BY <1>1, <1>2, <2>1
  <2>2. CASE i > m
    <3>1. i - m \in 1 .. n /\ u[i] = t[i - m]
      BY <1>1, <2>2
    <3>2. QED
      BY <1>2, <2>2, <3>1
  <2>3. QED
    BY <1>1, <2>1, <2>2
<1>5. ToSet(u) = ToSet(s) \cup ToSet(t)
  <2>1. ToSet(u) \subseteq ToSet(s) \cup ToSet(t)
    BY <1>3, <1>4
  <2>2. ASSUME NEW x \in ToSet(s) PROVE x \in ToSet(u)
    <3>1. PICK i \in 1 .. m : x = s[i]
      BY <1>2
    <3>2. i \in 1 .. m + n /\ x = u[i]
      BY <1>1, <3>1
    <3>3. QED
      BY <1>3, <3>2
  <2>3. ASSUME NEW x \in ToSet(t) PROVE x \in ToSet(u)
    <3>1. PICK i \in 1 .. n : x = t[i]
      BY <1>2
    <3>2. i + m \in 1 .. m + n /\ i + m > m /\ (i + m) - m = i
      BY <1>1
    <3>3. x = u[i + m]
      BY <1>1, <3>1, <3>2
    <3>4. QED
      BY <1>3, <3>2, <3>3
  <2>4. QED
    BY <2>1, <2>2, <2>3
<1>6. ASSUME Once(s), Once(t), ToSet(s) \cap ToSet(t) = {} PROVE Once(u)
  <2>1. ASSUME NEW i \in 1 .. m + n, NEW j \in 1 .. m + n, i # j PROVE u[i] # u[j]
    <3>1. CASE i \in 1 .. m /\ j \in 1 .. m
      BY <1>1, <1>6, <2>1, <3>1 DEF Once, m
    <3>2. CASE i > m /\ j > m
      <4>1. i - m \in 1 .. n /\ j - m \in 1 .. n /\ i - m # j - m /\ u[i] = t[i - m] /\ u[j] = t[j - m]
        BY <1>1, <1>4, <2>1, <3>2
      <4>2. QED
        BY <1>6, <4>1 DEF Once, n
    <3>3. CASE i \in 1 .. m /\ j > m
      BY <1>1, <1>4, <1>6, <3>3
    <3>4. CASE i > m /\ j \in 1 .. m
      BY <1>1, <1>4, <1>6, <3>4
    <3>5. QED
      BY <1>1, <3>1, <3>2, <3>3, <3>4
  <2>2. QED
    BY <1>1, <2>1 DEF Once
<1>7. QED
  BY <1>1, <1>5, <1>6 DEF u

LEMMA HeadAndTail ==
    ASSUME NEW S, NEW s \in Seq(S), s # <<>>
    PROVE  /\ Head(s) \in S /\ Tail(s) \in Seq(S)
           /\ ToSet(s) = {Head(s)} \cup ToSet(Tail(s))
           /\ Once(s) => Once(Tail(s)) /\ Head(s) \notin ToSet(Tail(s))
<1> DEFINE n == Len(s)
           r == Tail(s)
<1>1. n \in Nat /\ n # 0 /\ DOMAIN s = 1 .. n
  BY EmptySeq
<1>2. /\ Head(s) = s[1] /\ s[1] \in S /\ r \in Seq(S) /\ Len(r) = n - 1
      /\ \A i \in 1 .. n - 1 : r[i] = s[i + 1]
  BY <1>1
<1> HIDE DEF n, r
<1>3. /\ \A x : x \in ToSet(s) <=> \E i \in 1 .. n : x = s[i]
      /\ \A x : x \in ToSet(r) <=> \E i \in 1 .. n - 1 : x = r[i]
  <2>1. \A x : x \in ToSet(s) <=> \E i \in 1 .. Len(s) : x = s[i]
    BY Member
  <2>2. \A x : x \in ToSet(r) <=> \E i \in 1 .. Len(r) : x = r[i]
    BY <1>2, Member
  <2>3. QED
    BY <1>2, <2>1, <2>2 DEF n
<1>4. ASSUME NEW x \in ToSet(r) PROVE \E i \in 2 .. n : x = s[i]
  <2>1. PICK i \in 1 .. n - 1 : x = r[i]
    BY <1>3
  <2>2. i + 1 \in 2 .. n /\ x = s[i + 1]
    BY <1>1, <1>2, <2>1
  <2>3. QED
    BY <2>2
<1>5. ASSUME NEW x \in ToSet(s), x # s[1] PROVE x \in ToSet(r)
  <2>1. PICK i \in 1 .. n : x = s[i]
    BY <1>3
  <2>2. i - 1 \in 1 .. n - 1 /\ (i - 1) + 1 = i
    BY <1>1, <1>5, <2>1
  <2>3. x = r[i - 1]
    BY <1>2, <2>1, <2>2
  <2>4. QED
    BY <1>3, <2>2, <2>3
<1>6. s[1] \in ToSet(s)
  BY <1>1, <1>3
<1>7. ToSet(r) \subseteq ToSet(s)
  <2>1. \A i \in 2 .. n : i \in 1 .. n
    BY <1>1
  <2>2. QED
    BY <1>3, <1>4, <2>1
<1>8. ASSUME Once(s) PROVE Once(r) /\ s[1] \notin ToSet(r)
  <2>1. \A i, j \in 1 .. n : i # j => s[i] # s[j]
    BY <1>8 DEF Once, n
  <2>2. ASSUME NEW i \in 1 .. n - 1, NEW j \in 1 .. n - 1, i # j PROVE r[i] # r[j]
    <3>1. i + 1 \in 1 .. n /\ j + 1 \in 1 .. n /\ i + 1 # j + 1
      BY <1>1, <2>2
    <3>2. QED
      BY <1>2, <2>1, <3>1
  <2>3. ASSUME NEW i \in 2 .. n PROVE s[1] # s[i]
    <3>1. i \in 1 .. n /\ 1 \in 1 .. n /\ 1 # i
      BY <1>1
    <3>2. QED
      BY <2>1, <3>1
  <2>4. QED
    BY <1>2, <1>4, <2>2, <2>3 DEF Once
<1>9. QED
  BY <1>2, <1>5, <1>6, <1>7, <1>8 DEF r

\* A listing of a finite set lists all of it, and nothing twice.
LEMMA Listing ==
    ASSUME NEW S, IsFiniteSet(S), NEW f \in SetToSeqs(S)
    PROVE  f \in Seq(S) /\ ToSet(f) = S /\ Once(f)
<1> DEFINE n == Cardinality(S)
<1>1. n \in Nat /\ IsFiniteSet(1 .. n) /\ Cardinality(1 .. n) = n
  BY FS_CardinalityType, FS_Interval
<1>2. f \in [1 .. n -> S] /\ \A i, j \in 1 .. n : i # j => f[i] # f[j]
  BY DEF SetToSeqs
<1> HIDE DEF n
<1>3. f \in Seq(S) /\ Len(f) = n /\ DOMAIN f = 1 .. n
  BY <1>1, <1>2
<1>4. f \in Injection(1 .. n, S)
  BY <1>2, Fun_IsInj
<1>5. f \in Surjection(1 .. n, S)
  BY <1>1, <1>4, FS_Injection DEF n
<1>6. \A t \in S : \E i \in 1 .. n : f[i] = t
  BY <1>5 DEF Surjection
<1>7. ToSet(f) = S
  BY <1>2, <1>3, <1>6 DEF ToSet
<1>8. Once(f)
  BY <1>2, <1>3 DEF Once
<1>9. QED
  BY <1>3, <1>7, <1>8

\* A set of natural numbers has a least one.
LEMMA Least == ASSUME NEW T \in SUBSET Nat, T # {} PROVE \E x \in T : \A y \in T : x <= y
<1>1. PICK k \in T : \A l \in T : ~ (<<l, k>> \in OpToRel(<, Nat))
  BY NatLessThanWellFounded, WFMin
<1>2. \A l \in T : ~ (l < k)
  BY <1>1 DEF OpToRel
<1>3. QED
  BY <1>2

\* A nonempty set of positions in a list has a greatest one.
LEMMA Greatest ==
    ASSUME NEW n \in Nat, NEW T \in SUBSET (1 .. n), T # {}
    PROVE  \E x \in T : \A y \in T : y <= x
<1> DEFINE U == {k \in Nat : n - k \in T}
<1>1. U \subseteq Nat /\ U # {}
  <2>1. PICK x \in T : TRUE
    OBVIOUS
  <2>2. n - x \in Nat /\ n - (n - x) = x
    BY <2>1
  <2>3. QED
    BY <2>1, <2>2
<1> HIDE DEF U
<1>2. PICK k \in U : \A l \in U : k <= l
  BY <1>1, Least
<1> USE DEF U
<1>4. ASSUME NEW y \in T PROVE y <= n - k
  <2>1. n - y \in Nat /\ n - (n - y) = y /\ k \in Nat
    OBVIOUS
  <2>2. n - y \in U
    BY <2>1
  <2>3. k <= n - y
    BY <1>2, <2>2
  <2>4. QED
    BY <2>1, <2>3
<1>5. QED
  BY <1>4

\* The members of a list are finitely many.
LEMMA FiniteMembers == ASSUME NEW S, NEW s \in Seq(S) PROVE IsFiniteSet(ToSet(s))
<1>1. Len(s) \in Nat /\ DOMAIN s = 1 .. Len(s)
  OBVIOUS
<1>2. s \in [1 .. Len(s) -> ToSet(s)] /\ \A t \in ToSet(s) : \E i \in 1 .. Len(s) : s[i] = t
  BY <1>1 DEF ToSet
<1>3. s \in Surjection(1 .. Len(s), ToSet(s))
  BY <1>2, Fun_IsSurj
<1>4. IsFiniteSet(1 .. Len(s))
  BY <1>1, FS_Interval
<1>5. QED
  BY <1>3, <1>4, FS_Surjection

-----------------------------------------------------------------------------
(* The inductive invariant                                                 *)

\* Everything Sort is given an edge for: the collected packages and what they need
All == packageMap \cup DirectDeps(deps, packageMap)

Sorting == pc \in {"sort", "compile"}

\* The edges that are left are those of the collected packages not yet in the result ...
EdgesInv ==
    /\ DOMAIN incomingEdges = All
    /\ \A p \in All : incomingEdges[p] =
           {q \in packageMap : p \in Outgoing(q) /\ q \notin ToSet(sortedPackages)}

\* ... and exactly the packages without one are in line or in the result, each of them
\* once and in one of the two.
LineInv ==
    /\ ToSet(sortedPackages) \subseteq All /\ ToSet(noIncomingEdgesSet) \subseteq All
    /\ \A p \in All : incomingEdges[p] = {} <=>
           p \in ToSet(sortedPackages) \cup ToSet(noIncomingEdgesSet)
    /\ ToSet(sortedPackages) \cap ToSet(noIncomingEdgesSet) = {}
    /\ Once(sortedPackages) /\ Once(noIncomingEdgesSet)

OrderInv ==
    \A i, j \in 1 .. Len(sortedPackages) :
        sortedPackages[j] \in Outgoing(sortedPackages[i]) => j < i

\* Sort has stopped with everything in the result, and what comes before the package
\* that is compiled next is in the index.
CompileInv ==
    /\ All \subseteq ToSet(sortedPackages) /\ next # 0
    /\ \A k \in 1 .. Len(sortedPackages) : k < next => Found(sortedPackages[k]) # {}

ReleaseInv == deps \in [Pkgs -> Seq(Pkgs)]

IInv ==
    /\ TypeOK /\ ReleaseInv
    /\ pc = "resolve" => sortedPackages = <<>>
    /\ Sorting => EdgesInv /\ LineInv /\ OrderInv
    /\ pc = "compile" => CompileInv
    /\ pc # "idle" => result = "none"
    /\ result = "circular" => Cyclic
    /\ MissingOnlyWhenDeep

\* The part that rests on the resolver: an entry of the index holds what its key says.
ResolverExact == \A p \in Pkgs : DependenciesOfCopy(p) = Below(deps, p)
IndexInv ==
    \A e \in index : e.parts = {<<e.key.pkg, e.key.fingerprint>>} \cup e.key.below


-----------------------------------------------------------------------------
(* The packages of the release                                             *)

LEMMA Dependencies ==
    ASSUME ReleaseInv, packageMap \subseteq Pkgs
    PROVE  /\ \A p \in Pkgs : deps[p] \in Seq(Pkgs) /\ ToSet(deps[p]) \subseteq Pkgs
           /\ \A p : Outgoing(p) \subseteq All
           /\ All \subseteq Pkgs /\ packageMap \subseteq All
<1>1. \A p \in Pkgs : deps[p] \in Seq(Pkgs)
  BY DEF ReleaseInv
<1>2. ASSUME NEW p \in Pkgs PROVE ToSet(deps[p]) \subseteq Pkgs
  <2>1. \A x : x \in ToSet(deps[p]) <=> \E i \in 1 .. Len(deps[p]) : x = deps[p][i]
    BY <1>1, Member
  <2>2. \A i \in 1 .. Len(deps[p]) : deps[p][i] \in Pkgs
    BY <1>1, ElementOfSeq
  <2>3. QED
    BY <2>1, <2>2
<1>3. \A p : Outgoing(p) \subseteq All
  BY DEF Outgoing, All, DirectDeps
<1>4. DirectDeps(deps, packageMap) \subseteq Pkgs
  BY <1>2 DEF DirectDeps
<1>5. QED
  BY <1>1, <1>2, <1>3, <1>4 DEF All

\* Of some positions in the result one is the greatest, and the package there is a
\* dependency of none of the others.
LEMMA SortedIsAcyclic ==
    ASSUME TypeOK, OrderInv, All \subseteq ToSet(sortedPackages), ReleaseInv
    PROVE  ~Cyclic
<1> SUFFICES ASSUME NEW S \in SUBSET Pkgs, S # {}, \A p \in S : \E q \in S : p \in Outgoing(q)
             PROVE  FALSE
  BY DEF Cyclic
<1> DEFINE n == Len(sortedPackages)
           T == {k \in 1 .. n : sortedPackages[k] \in S}
<1>1. sortedPackages \in Seq(Pkgs) /\ n \in Nat
  BY DEF TypeOK
<1>2. \A p \in S : p \in All
  BY Dependencies DEF TypeOK
<1>3. \A x : x \in ToSet(sortedPackages) <=> \E i \in 1 .. n : x = sortedPackages[i]
  BY <1>1, Member
<1> HIDE DEF n
<1>4. T \in SUBSET (1 .. n) /\ T # {}
  BY <1>2, <1>3
<1>5. PICK k \in T : \A l \in T : l <= k
  BY <1>1, <1>4, Greatest
<1>6. PICK q \in S : sortedPackages[k] \in Outgoing(q)
  BY <1>5
<1>7. PICK l \in 1 .. n : q = sortedPackages[l]
  BY <1>2, <1>3, <1>6
<1>8. l \in T /\ l <= k
  BY <1>5, <1>6, <1>7
<1>9. k < l
  BY <1>5, <1>6, <1>7 DEF OrderInv, n
<1>10. QED
  BY <1>1, <1>4, <1>5, <1>8, <1>9

-----------------------------------------------------------------------------
(* The first state                                                         *)

LEMMA InitIInv == Init => IInv /\ IndexInv
<1> SUFFICES ASSUME Init PROVE IInv /\ IndexInv
  OBVIOUS
<1>1. PICK c \in Cases : /\ deps = c.deps /\ jobPackages = c.jobPackages /\ compiledRelease = c.compiled
                         /\ place = c.place /\ processes = c.processes
  BY DEF Init
<1>2. /\ deps \in [Pkgs -> Seq(Pkgs)] /\ jobPackages \subseteq Pkgs /\ compiledRelease \subseteq Pkgs
      /\ place \in {"local", "remote"} /\ processes \in Nat
  BY <1>1, PackageAssumption
<1>3. fingerprint \in [Pkgs -> Fingerprints]
  BY PackageAssumption DEF Init
<1>4. <<>> \in Seq(Pkgs) /\ DOMAIN <<>> = {}
  OBVIOUS
<1>5. TypeOK
  BY <1>2, <1>3, <1>4 DEF Init, TypeOK
<1>6. QED
  BY <1>2, <1>5 DEF Init, IInv, IndexInv, ReleaseInv, Sorting, MissingOnlyWhenDeep

-----------------------------------------------------------------------------
(* Steps that leave what is being sorted alone                             *)

\* What the invariants of sorting and compiling speak of
SortState == <<deps, packageMap, incomingEdges, noIncomingEdgesSet, sortedPackages>>

LEMMA SortStateSame ==
    ASSUME SortState' = SortState
    PROVE  /\ All' = All /\ \A p : Outgoing(p)' = Outgoing(p)
           /\ EdgesInv' = EdgesInv /\ LineInv' = LineInv /\ OrderInv' = OrderInv
           /\ Cyclic' = Cyclic /\ ReleaseInv' = ReleaseInv
<1>1. /\ deps' = deps /\ packageMap' = packageMap /\ incomingEdges' = incomingEdges
      /\ noIncomingEdgesSet' = noIncomingEdgesSet /\ sortedPackages' = sortedPackages
  BY DEF SortState
<1>2. All' = All
  BY <1>1 DEF All
<1>3. \A p : Outgoing(p)' = Outgoing(p)
  BY <1>1 DEF Outgoing
<1>4. EdgesInv' = EdgesInv
  BY <1>1, <1>2, <1>3 DEF EdgesInv
<1>5. LineInv' = LineInv
  BY <1>1, <1>2 DEF LineInv
<1>6. OrderInv' = OrderInv
  BY <1>1, <1>3 DEF OrderInv
<1>7. Cyclic' = Cyclic
  BY <1>3 DEF Cyclic
<1>8. QED
  BY <1>1, <1>2, <1>3, <1>4, <1>5, <1>6, <1>7 DEF ReleaseInv

\* Outside of sorting and compiling little has to be shown.
LEMMA IdleStep ==
    ASSUME IInv, SortState' = SortState, TypeOK', pc' = "idle",
           result' = "circular" => Cyclic, MissingOnlyWhenDeep'
    PROVE  IInv'
BY SortStateSame DEF IInv, Sorting

LEMMA NewReleaseStep == ASSUME IInv, NEW p \in Pkgs, NewRelease(p) PROVE IInv'
<1>1. SortState' = SortState /\ pc = "idle" /\ pc' = "idle" /\ result' = result
  BY DEF NewRelease, releaseVars, sortVars, SortState
<1>2. TypeOK'
  BY DEF IInv, TypeOK, NewRelease, releaseVars, sortVars
<1>3. MissingOnlyWhenDeep'
  BY <1>1 DEF IInv, MissingOnlyWhenDeep, SortState
<1>4. QED
  BY <1>1, <1>2, <1>3, IdleStep DEF IInv

LEMMA BeginStep == ASSUME IInv, Begin PROVE IInv'
<1>1. <<>> \in Seq(Pkgs) /\ DOMAIN <<>> = {}
  OBVIOUS
<1>2. TypeOK'
  BY <1>1 DEF IInv, TypeOK, Begin, releaseVars
<1>3. QED
  BY <1>2 DEF IInv, Begin, Sorting, ReleaseInv, releaseVars, MissingOnlyWhenDeep

LEMMA InterruptedStep == ASSUME IInv, Interrupted PROVE IInv'
<1>1. SortState' = SortState /\ pc' = "idle" /\ result' = "failed"
  BY DEF Interrupted, releaseVars, sortVars, SortState
<1>2. TypeOK'
  BY DEF IInv, TypeOK, Interrupted, releaseVars, sortVars
<1>3. QED
  BY <1>1, <1>2, IdleStep DEF MissingOnlyWhenDeep

LEMMA DoneStep == ASSUME IInv, Done PROVE IInv'
<1>1. SortState' = SortState /\ pc' = "idle" /\ result' = "ok"
  BY DEF Done, releaseVars, sortVars, SortState
<1>2. TypeOK'
  BY DEF IInv, TypeOK, Done, releaseVars, sortVars
<1>3. QED
  BY <1>1, <1>2, IdleStep DEF MissingOnlyWhenDeep

LEMMA ResolveStep == ASSUME IInv, NEW p \in Pkgs, ResolvePackage(p) PROVE IInv'
<1>1. ToSet(deps[p]) \subseteq Pkgs
  BY Dependencies DEF IInv, TypeOK
<1>2. /\ packageMap' = packageMap \cup {p} \cup ToSet(deps[p])
      /\ unresolved' = unresolved \ {p}
      /\ pc = "resolve" /\ pc' = "resolve" /\ result' = result /\ sortedPackages' = sortedPackages
      /\ deps' = deps
  BY DEF ResolvePackage, ResolvePackageDependencies, releaseVars, sortVars
<1>3. TypeOK'
  BY <1>1, <1>2 DEF IInv, TypeOK, ResolvePackage, releaseVars, sortVars
<1>4. QED
  BY <1>2, <1>3 DEF IInv, Sorting, ReleaseInv, MissingOnlyWhenDeep

-----------------------------------------------------------------------------
(* Sort                                                                    *)

LEMMA BeginSortStep == ASSUME IInv, BeginSort PROVE IInv'
<1> DEFINE free == {p \in packageMap : incomingEdges'[p] = {}}
<1>1. /\ deps' = deps /\ packageMap' = packageMap /\ sortedPackages' = <<>> /\ sortedPackages = <<>>
      /\ pc' = "sort" /\ result' = result /\ result = "none"
      /\ incomingEdges' = [p \in All |-> {q \in packageMap : p \in Outgoing(q)}]
      /\ noIncomingEdgesSet' \in SetToSeqs(free)
  BY DEF BeginSort, IInv, All, releaseVars
<1>2. All' = All /\ \A p : Outgoing(p)' = Outgoing(p)
  BY <1>1 DEF All, Outgoing
<1>3. All \subseteq Pkgs /\ packageMap \subseteq All
  BY Dependencies DEF IInv, TypeOK
<1>4. IsFiniteSet(free)
  BY <1>3, PackageAssumption, FS_Subset
<1> HIDE DEF free
<1>5. noIncomingEdgesSet' \in Seq(free) /\ ToSet(noIncomingEdgesSet') = free /\ Once(noIncomingEdgesSet')
  BY <1>1, <1>4, Listing
<1>6. noIncomingEdgesSet' \in Seq(Pkgs)
  <2>1. free \subseteq Pkgs
    BY <1>3 DEF free
  <2>2. QED
    BY <1>5, <2>1, SeqMonotonic
<1>7. TypeOK'
  BY <1>1, <1>3, <1>6 DEF IInv, TypeOK, BeginSort, releaseVars
<1>8. ToSet(<<>>) = {} /\ Once(<<>>) /\ Len(<<>>) = 0
  BY EmptyList
<1>9. EdgesInv'
  BY <1>1, <1>2, <1>8 DEF EdgesInv
<1>10. LineInv'
  <2>1. ASSUME NEW p \in All, incomingEdges'[p] = {} PROVE p \in packageMap
    BY <1>1, <2>1 DEF All, DirectDeps, Outgoing
  <2>2. \A p \in All : incomingEdges'[p] = {} <=> p \in free
    BY <2>1 DEF free
  <2>3. free \subseteq All
    BY <1>3 DEF free
  <2>4. QED
    BY <1>1, <1>2, <1>5, <1>8, <2>2, <2>3 DEF LineInv
<1>11. OrderInv'
  BY <1>1, <1>8 DEF OrderInv
<1>12. QED
  BY <1>1, <1>7, <1>9, <1>10, <1>11 DEF IInv, ReleaseInv, MissingOnlyWhenDeep, Sorting

\* Putting elem in front moves every other package by one.
LEMMA InFront ==
    ASSUME NEW S, NEW s \in Seq(S), NEW e \in S
    PROVE  /\ <<e>> \o s \in Seq(S) /\ Len(<<e>> \o s) = Len(s) + 1
           /\ (<<e>> \o s)[1] = e
           /\ \A i \in 1 .. Len(s) + 1 : i = 1 \/ (i - 1 \in 1 .. Len(s) /\ (<<e>> \o s)[i] = s[i - 1])
           /\ ToSet(<<e>> \o s) = {e} \cup ToSet(s)
           /\ Once(s) /\ e \notin ToSet(s) => Once(<<e>> \o s)
<1>1. <<e>> \in Seq(S) /\ Len(<<e>>) = 1 /\ <<e>>[1] = e /\ Once(<<e>>)
  BY DEF Once
<1>2. ToSet(<<e>>) = {e}
  <2>1. DOMAIN <<e>> = {1}
    OBVIOUS
  <2>2. QED
    BY <1>1, <2>1 DEF ToSet
<1> DEFINE n == Len(s)
           u == <<e>> \o s
<1>3. n \in Nat /\ u \in Seq(S) /\ Len(u) = n + 1 /\ u[1] = e
  BY <1>1
<1>4. \A i \in 1 .. n + 1 : i > 1 => u[i] = s[i - 1]
  BY <1>1
<1>5. /\ ToSet(u) = {e} \cup ToSet(s)
      /\ Once(s) /\ e \notin ToSet(s) => Once(u)
  <2>1. /\ ToSet(u) = ToSet(<<e>>) \cup ToSet(s)
        /\ Once(<<e>>) /\ Once(s) /\ ToSet(<<e>>) \cap ToSet(s) = {} => Once(u)
    BY <1>1, Joined
  <2>2. QED
    BY <1>1, <1>2, <2>1
<1> HIDE DEF n, u
<1>6. \A i \in 1 .. n + 1 : i = 1 \/ (i - 1 \in 1 .. n /\ u[i] = s[i - 1])
  BY <1>3, <1>4
<1>7. QED
  BY <1>3, <1>5, <1>6 DEF n, u

\* One round of Sort's loop, as far as it is about sets: elem leaves the line for the
\* result, and freed joins the line.
SortRound(elem, freed, line) ==
    /\ sortedPackages' = <<elem>> \o sortedPackages
    /\ incomingEdges' = [p \in DOMAIN incomingEdges |->
           IF p \in Outgoing(elem) THEN incomingEdges[p] \ {elem} ELSE incomingEdges[p]]
    /\ freed = {d \in Outgoing(elem) : incomingEdges'[d] = {}}
    /\ noIncomingEdgesSet' = Tail(noIncomingEdgesSet) \o line

LEMMA SortNextStep == ASSUME IInv, SortNext PROVE IInv'
<1> DEFINE elem == Head(noIncomingEdgesSet)
           rest == Tail(noIncomingEdgesSet)
           freed == {d \in Outgoing(elem) : incomingEdges'[d] = {}}
<1>1. /\ deps' = deps /\ packageMap' = packageMap /\ pc = "sort" /\ pc' = "sort" /\ result' = result
      /\ result = "none" /\ noIncomingEdgesSet # <<>>
  BY DEF SortNext, IInv, releaseVars
<1>2. PICK s \in SetToSeqs(freed) : SortRound(elem, freed, s)
  BY DEF SortNext, InOrder, SortRound
<1>3. All' = All /\ \A p : Outgoing(p)' = Outgoing(p)
  BY <1>1 DEF All, Outgoing
<1>4. All \subseteq Pkgs /\ packageMap \subseteq All /\ \A p : Outgoing(p) \subseteq All
  BY Dependencies DEF IInv, TypeOK
<1>5. /\ sortedPackages \in Seq(Pkgs) /\ noIncomingEdgesSet \in Seq(Pkgs)
      /\ EdgesInv /\ LineInv /\ OrderInv
  BY <1>1 DEF IInv, TypeOK, Sorting
<1>6. IsFiniteSet(freed) /\ freed \subseteq Pkgs /\ freed \subseteq All
  BY <1>4, PackageAssumption, FS_Subset
<1>7. /\ elem \in Pkgs /\ rest \in Seq(Pkgs)
      /\ ToSet(noIncomingEdgesSet) = {elem} \cup ToSet(rest)
      /\ Once(rest) /\ elem \notin ToSet(rest)
  BY <1>1, <1>5, HeadAndTail DEF LineInv
<1> HIDE DEF elem, rest, freed
<1>8. s \in Seq(Pkgs) /\ ToSet(s) = freed /\ Once(s)
  BY <1>6, Listing, SeqMonotonic
\* elem waits for nothing, and is not in the result
<1>9. elem \in All /\ incomingEdges[elem] = {} /\ elem \notin ToSet(sortedPackages)
  BY <1>5, <1>7 DEF LineInv
\* a dependency of elem still waits for it
<1>10. ASSUME NEW d \in Outgoing(elem)
       PROVE  d \in All /\ elem \in incomingEdges[d] /\ d # elem
              /\ d \notin ToSet(sortedPackages) /\ d \notin ToSet(noIncomingEdgesSet)
  <2>1. elem \in packageMap
    BY DEF Outgoing
  <2>2. d \in All /\ elem \in incomingEdges[d]
    BY <1>4, <1>5, <1>9, <2>1 DEF EdgesInv
  <2>3. QED
    BY <1>5, <1>9, <2>2 DEF LineInv
<1>11. /\ sortedPackages' \in Seq(Pkgs) /\ ToSet(sortedPackages') = {elem} \cup ToSet(sortedPackages)
       /\ Once(sortedPackages')
  BY <1>2, <1>5, <1>7, <1>9, InFront DEF SortRound, LineInv
<1>12. DOMAIN incomingEdges' = All /\ DOMAIN incomingEdges = All
       /\ \A p \in All : incomingEdges'[p] = incomingEdges[p] \ {elem}
  <2>1. DOMAIN incomingEdges = All /\ DOMAIN incomingEdges' = All
    BY <1>2, <1>5 DEF SortRound, EdgesInv
  <2>2. ASSUME NEW p \in All PROVE incomingEdges'[p] = incomingEdges[p] \ {elem}
    <3>1. CASE p \in Outgoing(elem)
      BY <1>2, <2>1, <3>1 DEF SortRound
    <3>2. CASE p \notin Outgoing(elem)
      <4>1. incomingEdges'[p] = incomingEdges[p]
        BY <1>2, <2>1, <3>2 DEF SortRound
      <4>2. elem \notin incomingEdges[p]
        BY <1>5, <3>2 DEF EdgesInv
      <4>3. QED
        BY <4>1, <4>2
    <3>3. QED
      BY <3>1, <3>2
  <2>3. QED
    BY <2>1, <2>2
<1>13. EdgesInv'
  <2>1. \A p \in All : incomingEdges'[p] =
           {q \in packageMap : p \in Outgoing(q) /\ q \notin ToSet(sortedPackages')}
    BY <1>5, <1>11, <1>12 DEF EdgesInv
  <2>2. QED
    BY <1>1, <1>3, <1>12, <2>1 DEF EdgesInv
<1>14. ToSet(rest) \cap freed = {}
  BY <1>7, <1>10 DEF freed
<1>15. /\ noIncomingEdgesSet' \in Seq(Pkgs) /\ ToSet(noIncomingEdgesSet') = ToSet(rest) \cup freed
       /\ Once(noIncomingEdgesSet')
  <2>1. noIncomingEdgesSet' = rest \o s
    BY <1>2 DEF SortRound, rest
  <2>2. QED
    BY <1>7, <1>8, <1>14, <2>1, Joined
<1>16. LineInv'
  <2>1. ToSet(sortedPackages') \subseteq All /\ ToSet(noIncomingEdgesSet') \subseteq All
    BY <1>5, <1>6, <1>7, <1>11, <1>15 DEF LineInv
  <2>2. ToSet(sortedPackages') \cap ToSet(noIncomingEdgesSet') = {}
    BY <1>5, <1>7, <1>10, <1>11, <1>15 DEF LineInv, freed
  <2>3. ASSUME NEW p \in All
        PROVE  incomingEdges'[p] = {} <=> p \in ToSet(sortedPackages') \cup ToSet(noIncomingEdgesSet')
    <3>1. ASSUME incomingEdges'[p] = {}
          PROVE  p \in ToSet(sortedPackages') \cup ToSet(noIncomingEdgesSet')
      <4>1. CASE p \in Outgoing(elem)
        BY <1>15, <3>1, <4>1 DEF freed
      <4>2. CASE p \notin Outgoing(elem)
        <5>1. incomingEdges[p] = {}
          BY <1>2, <1>12, <3>1, <4>2 DEF SortRound
        <5>2. QED
          BY <1>5, <1>7, <1>11, <1>15, <5>1 DEF LineInv
      <4>3. QED
        BY <4>1, <4>2
    <3>2. ASSUME p \in ToSet(sortedPackages') \cup ToSet(noIncomingEdgesSet')
          PROVE  incomingEdges'[p] = {}
      <4>1. CASE p \in freed
        BY <4>1 DEF freed
      <4>2. CASE p \notin freed
        <5>1. incomingEdges[p] = {}
          BY <1>5, <1>7, <1>11, <1>15, <3>2, <4>2 DEF LineInv
        <5>2. QED
          BY <1>12, <5>1
      <4>3. QED
        BY <4>1, <4>2
    <3>3. QED
      BY <3>1, <3>2
  <2>4. QED
    BY <1>3, <1>11, <1>15, <2>1, <2>2, <2>3 DEF LineInv
<1>17. OrderInv'
  <2> DEFINE n == Len(sortedPackages)
  <2>1. /\ n \in Nat /\ Len(sortedPackages') = n + 1 /\ sortedPackages'[1] = elem
        /\ \A i \in 1 .. n + 1 : i = 1 \/ (i - 1 \in 1 .. n /\ sortedPackages'[i] = sortedPackages[i - 1])
    BY <1>2, <1>5, <1>7, InFront DEF SortRound
  <2>2. \A i, j \in 1 .. n : sortedPackages[j] \in Outgoing(sortedPackages[i]) => j < i
    BY <1>5 DEF OrderInv
  <2>3. \A i \in 1 .. n : sortedPackages[i] \in ToSet(sortedPackages)
    BY <1>5, Member
  <2> HIDE DEF n
  <2>4. ASSUME NEW i \in 1 .. n + 1, NEW j \in 1 .. n + 1, sortedPackages'[j] \in Outgoing(sortedPackages'[i])
        PROVE  j < i
    <3>1. CASE i = 1
      <4>1. sortedPackages'[j] \in Outgoing(elem)
        BY <2>1, <2>4, <3>1
      <4>2. sortedPackages'[j] # elem /\ sortedPackages'[j] \notin ToSet(sortedPackages)
        BY <1>10, <4>1
      <4>3. QED
        BY <2>1, <2>3, <4>2
    <3>2. CASE i # 1 /\ j = 1
      BY <2>1, <3>2
    <3>3. CASE i # 1 /\ j # 1
      <4>1. i - 1 \in 1 .. n /\ j - 1 \in 1 .. n
            /\ sortedPackages'[i] = sortedPackages[i - 1] /\ sortedPackages'[j] = sortedPackages[j - 1]
        BY <2>1, <3>3
      <4>2. j - 1 < i - 1
        BY <2>2, <2>4, <4>1
      <4>3. QED
        BY <2>1, <4>1, <4>2
    <3>4. QED
      BY <3>1, <3>2, <3>3
  <2>5. QED
    BY <1>3, <2>1, <2>4 DEF OrderInv
<1>18. TypeOK'
  <2>1. \A p \in DOMAIN incomingEdges' : incomingEdges'[p] \subseteq packageMap'
    BY <1>1, <1>12 DEF IInv, TypeOK
  <2>2. QED
    BY <1>1, <1>4, <1>11, <1>12, <1>15, <2>1 DEF IInv, TypeOK, SortNext, releaseVars
<1>19. QED
  BY <1>1, <1>13, <1>16, <1>17, <1>18 DEF IInv, ReleaseInv, MissingOnlyWhenDeep, Sorting

LEMMA SortDoneStep == ASSUME IInv, SortDone PROVE IInv'
<1>1. /\ SortState' = SortState /\ fingerprint' = fingerprint /\ index' = index
      /\ pc = "sort" /\ noIncomingEdgesSet = <<>> /\ result = "none"
  BY DEF SortDone, IInv, releaseVars, sortVars, SortState
<1>2. EdgesInv /\ LineInv /\ OrderInv /\ TypeOK /\ ReleaseInv /\ MissingOnlyWhenDeep
  BY <1>1 DEF IInv, Sorting
<1>3. ToSet(noIncomingEdgesSet) = {}
  BY <1>1, EmptyList
<1>4. packageMap \subseteq All /\ All \subseteq Pkgs
  BY <1>2, Dependencies DEF TypeOK
<1>5. TypeOK'
  BY <1>1, <1>2 DEF TypeOK, SortDone, releaseVars, sortVars
<1>6. CASE \E p \in DOMAIN incomingEdges : incomingEdges[p] # {}
  <2>1. pc' = "idle" /\ result' = "circular"
    BY <1>6 DEF SortDone
  <2> DEFINE S == {p \in All : incomingEdges[p] # {}}
  <2>2. S \in SUBSET Pkgs /\ S # {}
    BY <1>2, <1>4, <1>6 DEF EdgesInv
  <2>3. ASSUME NEW p \in S PROVE \E q \in S : p \in Outgoing(q)
    <3>1. PICK q \in packageMap : p \in Outgoing(q) /\ q \notin ToSet(sortedPackages)
      BY <1>2 DEF EdgesInv
    <3>2. q \in S
      BY <1>2, <1>3, <1>4, <3>1 DEF LineInv
    <3>3. QED
      BY <3>1, <3>2
  <2>4. Cyclic
    BY <2>2, <2>3 DEF Cyclic
  <2>5. QED
    BY <1>1, <1>5, <2>1, <2>4, IdleStep DEF MissingOnlyWhenDeep
<1>7. CASE \A p \in DOMAIN incomingEdges : incomingEdges[p] = {}
  <2>1. pc' = "compile" /\ next' = 1 /\ result' = result
    BY <1>7 DEF SortDone
  <2>2. All \subseteq ToSet(sortedPackages)
    BY <1>2, <1>3, <1>7 DEF EdgesInv, LineInv
  <2>3. All' \subseteq ToSet(sortedPackages')
    BY <1>1, <2>2 DEF SortState, All
  <2>4. \A k \in 1 .. Len(sortedPackages') : ~(k < next')
    BY <2>1
  <2>5. CompileInv'
    BY <2>1, <2>3, <2>4 DEF CompileInv
  <2>6. QED
    BY <1>1, <1>2, <1>5, <2>1, <2>5, SortStateSame DEF IInv, MissingOnlyWhenDeep, Sorting
<1>8. QED
  BY <1>6, <1>7

-----------------------------------------------------------------------------
(* Compiling                                                               *)

\* The keys, and so what is found under them, depend on the release only.
LEMMA KeysSame ==
    ASSUME deps' = deps, fingerprint' = fingerprint
    PROVE  \A p : /\ PkgKey(p)' = PkgKey(p)
                  /\ Found(p)' = {e \in index' : e.key = PkgKey(p)}
<1>1. \A p : PkgKey(p)' = PkgKey(p)
  BY DEF PkgKey, Tag, DependenciesOfCopy, WithCopy
<1>2. QED
  BY <1>1 DEF Found

\* Saving one package loses no other.
LEMMA SavedAndKept ==
    ASSUME deps' = deps, fingerprint' = fingerprint, NEW p, NEW parts, Save(p, parts)
    PROVE  /\ Found(p)' # {}
           /\ \A q : Found(q) # {} => Found(q)' # {}
<1>1. \A q : Found(q)' = {e \in index' : e.key = PkgKey(q)}
  BY KeysSame
<1> DEFINE new == [key |-> PkgKey(p), parts |-> parts]
<1>2. index' = (index \ Found(p)) \cup {new} /\ new.key = PkgKey(p)
  BY DEF Save
<1> HIDE DEF new
<1>3. new \in Found(p)'
  BY <1>1, <1>2
<1>4. ASSUME NEW q, Found(q) # {} PROVE Found(q)' # {}
  <2>1. CASE PkgKey(q) = PkgKey(p)
    BY <1>1, <1>2, <2>1
  <2>2. CASE PkgKey(q) # PkgKey(p)
    <3>1. PICK e \in index : e.key = PkgKey(q)
      BY <1>4 DEF Found
    <3>2. e \in index' /\ e.key = PkgKey(q)
      BY <1>2, <2>2, <3>1 DEF Found
    <3>3. QED
      BY <1>1, <3>2
  <2>3. QED
    BY <2>1, <2>2
<1>5. QED
  BY <1>3, <1>4

LEMMA CompileNextStep == ASSUME IInv, CompileNext PROVE IInv'
<1>1. /\ SortState' = SortState /\ deps' = deps /\ sortedPackages' = sortedPackages
      /\ fingerprint' = fingerprint /\ pc' = "compile" /\ result' = result
      /\ pc = "compile" /\ next <= Len(sortedPackages) /\ next' = next + 1 /\ result = "none"
  BY DEF CompileNext, Compiling, IInv, releaseVars, sortVars, SortState
<1>2. EdgesInv /\ LineInv /\ OrderInv /\ TypeOK /\ ReleaseInv /\ CompileInv
  BY <1>1 DEF IInv, Sorting
<1>3. TypeOK'
  BY <1>1, <1>2 DEF TypeOK, CompileNext, releaseVars, sortVars
<1>4. PICK c : c = Current
  OBVIOUS
<1>5. Found(c)' # {} /\ \A q : Found(q) # {} => Found(q)' # {}
  <2>1. CASE CompiledAlready
    <3>1. \A q : Found(q)' = {e \in index' : e.key = PkgKey(q)}
      BY <1>1, KeysSame
    <3>2. index' = index /\ Found(c) # {}
      BY <1>4, <2>1 DEF CompiledAlready
    <3>3. QED
      BY <3>1, <3>2 DEF Found
  <2>2. ASSUME NEW parts, Save(c, parts)
        PROVE  Found(c)' # {} /\ \A q : Found(q) # {} => Found(q)' # {}
    BY <1>1, <2>2, SavedAndKept
  <2>3. QED
    BY <1>4, <2>1, <2>2 DEF CompileNext, FromCompiledRelease, FromSource
<1>6. CompileInv'
  <2>1. next \in Nat /\ next # 0 /\ next' # 0 /\ c = sortedPackages[next]
    BY <1>1, <1>2, <1>4 DEF TypeOK, CompileInv, Current
  <2>2. ASSUME NEW k \in 1 .. Len(sortedPackages), k < next' PROVE Found(sortedPackages[k]) # {} \/ k = next
    BY <1>1, <1>2, <2>1, <2>2 DEF CompileInv
  <2>3. ASSUME NEW k \in 1 .. Len(sortedPackages), k < next' PROVE (Found(sortedPackages[k]) # {})'
    <3>1. PICK p : p = sortedPackages[k]
      OBVIOUS
    <3>2. Found(p)' # {}
      BY <1>5, <2>1, <2>2, <2>3, <3>1
    <3>3. QED
      BY <1>1, <3>1, <3>2
  <2>4. QED
    BY <1>1, <1>2, <2>1, <2>3 DEF CompileInv, All, SortState
<1>7. QED
  BY <1>1, <1>2, <1>3, <1>6, SortStateSame DEF IInv, Sorting, MissingOnlyWhenDeep

\* The dependency that is missing belongs to a package that Sort brought in: those of a
\* collected package are in front of it in the result, and so in the index.
LEMMA DependencyMissingStep == ASSUME IInv, DependencyMissing PROVE IInv'
<1>1. /\ SortState' = SortState /\ deps' = deps /\ packageMap' = packageMap
      /\ pc = "compile" /\ next <= Len(sortedPackages) /\ pc' = "idle" /\ result' = "missing"
  BY DEF DependencyMissing, Compiling, releaseVars, sortVars, SortState
<1>2. EdgesInv /\ LineInv /\ OrderInv /\ TypeOK /\ ReleaseInv /\ CompileInv
  BY <1>1 DEF IInv, Sorting
<1>3. TypeOK'
  BY <1>1, <1>2 DEF TypeOK, DependencyMissing, releaseVars, sortVars
<1>4. PICK d \in ToSet(deps[Current]) : Found(d) = {}
  BY DEF DependencyMissing, DependenciesFound
<1> DEFINE n == Len(sortedPackages)
<1>5. n \in Nat /\ next \in 1 .. n /\ Current = sortedPackages[next]
  BY <1>1, <1>2 DEF TypeOK, CompileInv, Current
<1>6. \A x : x \in ToSet(sortedPackages) <=> \E i \in 1 .. n : x = sortedPackages[i]
  BY <1>2, Member DEF TypeOK
<1> HIDE DEF n
<1>7. Current \in All
  BY <1>2, <1>5, <1>6 DEF LineInv
<1>8. Current \notin packageMap
  <2> SUFFICES ASSUME Current \in packageMap PROVE FALSE
    OBVIOUS
  <2>1. d \in Outgoing(Current) /\ d \in All
    BY <1>2, <1>4, Dependencies DEF Outgoing, TypeOK
  <2>2. PICK j \in 1 .. n : d = sortedPackages[j]
    BY <1>2, <1>6, <2>1 DEF CompileInv
  <2>3. j < next
    BY <1>2, <1>5, <2>1, <2>2 DEF OrderInv, n
  <2>4. QED
    BY <1>2, <1>4, <2>2, <2>3 DEF CompileInv, n
<1>9. Current \in DirectDeps(deps, packageMap) \ packageMap
  BY <1>7, <1>8 DEF All
<1>10. d \in DirectDeps(deps, DirectDeps(deps, packageMap) \ packageMap)
  BY <1>4, <1>9 DEF DirectDeps
<1>11. MissingOnlyWhenDeep'
  BY <1>1, <1>10 DEF MissingOnlyWhenDeep
<1>12. QED
  BY <1>1, <1>3, <1>11, IdleStep

LEMMA StutterStep == ASSUME IInv, UNCHANGED vars PROVE IInv'
<1>1. /\ SortState' = SortState /\ pc' = pc /\ result' = result /\ next' = next /\ index' = index
      /\ deps' = deps /\ packageMap' = packageMap /\ sortedPackages' = sortedPackages
      /\ fingerprint' = fingerprint
  BY DEF vars, releaseVars, sortVars, SortState
<1>2. TypeOK'
  BY DEF IInv, TypeOK, vars, releaseVars, sortVars
<1>3. CompileInv' = CompileInv
  BY <1>1, SortStateSame DEF CompileInv, Found, PkgKey, Tag, DependenciesOfCopy, WithCopy
<1>4. QED
  BY <1>1, <1>2, <1>3, SortStateSame DEF IInv, Sorting, MissingOnlyWhenDeep

LEMMA IInvInductive == IInv /\ [Next]_vars => IInv'
<1> SUFFICES ASSUME IInv, [Next]_vars PROVE IInv'
  OBVIOUS
<1>1. CASE Begin
  BY <1>1, BeginStep
<1>2. CASE Interrupted
  BY <1>2, InterruptedStep
<1>3. ASSUME NEW p \in Pkgs, NewRelease(p) \/ ResolvePackage(p) PROVE IInv'
  BY <1>3, NewReleaseStep, ResolveStep
<1>4. CASE BeginSort
  BY <1>4, BeginSortStep
<1>5. CASE SortNext
  BY <1>5, SortNextStep
<1>6. CASE SortDone
  BY <1>6, SortDoneStep
<1>7. CASE CompileNext
  BY <1>7, CompileNextStep
<1>8. CASE DependencyMissing
  BY <1>8, DependencyMissingStep
<1>9. CASE Done
  BY <1>9, DoneStep
<1>10. CASE UNCHANGED vars
  BY <1>10, StutterStep
<1>11. QED
  BY <1>1, <1>2, <1>3, <1>4, <1>5, <1>6, <1>7, <1>8, <1>9, <1>10 DEF Next

-----------------------------------------------------------------------------
(* The theorems                                                            *)

\* The invariants the runs check follow from IInv.
LEMMA IInvGivesOrder == IInv => CompileOrder /\ CyclesDetected
<1> SUFFICES ASSUME IInv PROVE CompileOrder /\ CyclesDetected
  OBVIOUS
<1>1. CASE pc = "compile"
  <2>1. EdgesInv /\ LineInv /\ OrderInv /\ TypeOK /\ ReleaseInv /\ CompileInv
    BY <1>1 DEF IInv, Sorting
  <2>2. ToSet(sortedPackages) = packageMap \cup DirectDeps(deps, packageMap)
    BY <2>1 DEF LineInv, CompileInv, All
  <2>3. \A i, j \in 1 .. Len(sortedPackages) :
           /\ i # j => sortedPackages[i] # sortedPackages[j]
           /\ sortedPackages[j] \in Outgoing(sortedPackages[i]) => j < i
    BY <2>1 DEF LineInv, OrderInv, Once
  <2>4. ~Cyclic
    BY <2>1, SortedIsAcyclic DEF CompileInv
  <2>5. QED
    BY <2>2, <2>3, <2>4 DEF CompileOrder, CyclesDetected, IInv
<1>2. QED
  BY <1>1 DEF CompileOrder, CyclesDetected, IInv

(***************************************************************************)
(* The variables of the dependency compiler keep their types.              *)
(***************************************************************************)
THEOREM PackageTypes == Spec => []TypeOK
<1>1. IInv => TypeOK
  BY DEF IInv
<1>2. QED
  BY <1>1, InitIInv, IInvInductive, PTL DEF Spec

(***************************************************************************)
(* sort.go Sort: whatever the graph and whatever order the Go map hands    *)
(* the packages over in, all of them and what they need directly come out, *)
(* each once and after those of its dependencies Sort was told of.         *)
(***************************************************************************)
THEOREM SortedForCompiling == Spec => []CompileOrder
<1>1. QED
  BY IInvGivesOrder, InitIInv, IInvInductive, PTL DEF Spec

(***************************************************************************)
(* sort.go Sort: the error for a circular dependency is returned exactly   *)
(* for the graphs that have one.                                           *)
(***************************************************************************)
THEOREM CircularExactly == Spec => []CyclesDetected
<1>1. QED
  BY IInvGivesOrder, InitIInv, IInvInductive, PTL DEF Spec

(***************************************************************************)
(* dependency_compiler.go: compiling stops for want of a dependency only   *)
(* when a package that Sort brought in has dependencies itself.            *)
(***************************************************************************)
THEOREM MissingIsDeep == Spec => []MissingOnlyWhenDeep
<1>1. IInv => MissingOnlyWhenDeep
  BY DEF IInv
<1>2. QED
  BY <1>1, InitIInv, IInvInductive, PTL DEF Spec

-----------------------------------------------------------------------------
(* The resolver                                                            *)

\* What the calls with more packages not to follow return: lists of packages ...
TypedAbove(P, noFollow, walk) ==
    \A d \in P : \A S \in SUBSET P : noFollow \subseteq S /\ S # noFollow => walk[<<d, S>>] \in Seq(P)

\* ... the same in two functions.
AgreeAbove(P, noFollow, walk, other) ==
    \A d \in P : \A S \in SUBSET P : noFollow \subseteq S /\ S # noFollow => other[<<d, S>>] = walk[<<d, S>>]

\* One round makes such a call, if any.
LEMMA FollowTyped ==
    ASSUME NEW P, NEW noFollow \in SUBSET P, NEW walk, TypedAbove(P, noFollow, walk),
           NEW all \in Seq(P), NEW d \in P
    PROVE  Follow(walk, noFollow, all, d) \in Seq(P)
<1> DEFINE S == ToSet(all) \cup {d} \cup noFollow
<1>1. ToSet(all) \subseteq P
  BY Member, ElementOfSeq
<1>2. CASE d \in ToSet(all) \cup noFollow
  BY <1>2 DEF Follow
<1>3. CASE d \notin ToSet(all) \cup noFollow
  <2>1. S \in SUBSET P /\ noFollow \subseteq S /\ S # noFollow
    BY <1>1, <1>3
  <2>2. walk[<<d, S>>] \in Seq(P)
    BY <2>1 DEF TypedAbove
  <2>3. Follow(walk, noFollow, all, d) = Append(all, d) \o walk[<<d, S>>]
    BY <1>3 DEF Follow
  <2> HIDE DEF S
  <2>4. QED
    BY <2>2, <2>3
<1>4. QED
  BY <1>2, <1>3

LEMMA FollowLocal ==
    ASSUME NEW P, NEW noFollow \in SUBSET P, NEW walk, NEW other, AgreeAbove(P, noFollow, walk, other),
           NEW all \in Seq(P), NEW d \in P
    PROVE  Follow(other, noFollow, all, d) = Follow(walk, noFollow, all, d)
<1> DEFINE S == ToSet(all) \cup {d} \cup noFollow
<1>1. ToSet(all) \subseteq P
  BY Member, ElementOfSeq
<1>2. CASE d \in ToSet(all) \cup noFollow
  BY <1>2 DEF Follow
<1>3. CASE d \notin ToSet(all) \cup noFollow
  <2>1. S \in SUBSET P /\ noFollow \subseteq S /\ S # noFollow
    BY <1>1, <1>3
  <2>2. other[<<d, S>>] = walk[<<d, S>>]
    BY <2>1 DEF AgreeAbove
  <2>3. /\ Follow(walk, noFollow, all, d) = Append(all, d) \o walk[<<d, S>>]
        /\ Follow(other, noFollow, all, d) = Append(all, d) \o other[<<d, S>>]
    BY <1>3 DEF Follow
  <2>4. QED
    BY <2>2, <2>3
<1>4. QED
  BY <1>2, <1>3

\* The equation of the loop: what it has collected after each round
LoopEquation(D, walk, pkg, noFollow, n, all) ==
    all = [i \in 0 .. n |-> IF i = 0 THEN <<>> ELSE Follow(walk, noFollow, all[i - 1], D[pkg][i])]

LEMMA LoopExists ==
    ASSUME NEW D, NEW walk, NEW pkg, NEW noFollow, NEW n \in Nat
    PROVE  \E all : LoopEquation(D, walk, pkg, noFollow, n, all)
<1> DEFINE Fail == {k \in Nat : ~ \E all : LoopEquation(D, walk, pkg, noFollow, k, all)}
<1> SUFFICES ASSUME Fail # {} PROVE FALSE
  OBVIOUS
<1>1. PICK m \in Fail : \A k \in Fail : m <= k
  BY Least
<1>2. m # 0
  <2> DEFINE z == [i \in 0 .. 0 |-> <<>>]
  <2>1. LoopEquation(D, walk, pkg, noFollow, 0, z)
    BY DEF LoopEquation
  <2>2. QED
    BY <2>1
<1>3. m - 1 \in Nat /\ m - 1 \notin Fail
  BY <1>1, <1>2
<1>4. PICK f : LoopEquation(D, walk, pkg, noFollow, m - 1, f)
  BY <1>3
<1> DEFINE g == [i \in 0 .. m |-> IF i = m THEN Follow(walk, noFollow, f[m - 1], D[pkg][m]) ELSE f[i]]
<1>5. \A i \in 0 .. m - 1 : g[i] = f[i] /\ f[i] = IF i = 0 THEN <<>> ELSE Follow(walk, noFollow, f[i - 1], D[pkg][i])
  BY <1>3, <1>4 DEF LoopEquation
<1>6. ASSUME NEW i \in 0 .. m
      PROVE  g[i] = IF i = 0 THEN <<>> ELSE Follow(walk, noFollow, g[i - 1], D[pkg][i])
  <2>1. CASE i = m
    <3>1. g[m - 1] = f[m - 1] /\ g[m] = Follow(walk, noFollow, f[m - 1], D[pkg][m])
      BY <1>2, <1>3, <1>5
    <3>2. QED
      BY <1>2, <2>1, <3>1
  <2>2. CASE i # m /\ i # 0
    <3>1. i \in 0 .. m - 1 /\ i - 1 \in 0 .. m - 1
      BY <1>3, <2>2
    <3>2. QED
      BY <1>5, <2>2, <3>1
  <2>3. CASE i # m /\ i = 0
    <3>1. 0 \in 0 .. m - 1
      BY <1>3
    <3>2. g[0] = <<>>
      BY <1>5, <3>1
    <3>3. QED
      BY <2>3, <3>2
  <2>4. QED
    BY <2>1, <2>2, <2>3
<1>7. DOMAIN g = 0 .. m
  OBVIOUS
<1>8. g = [i \in 0 .. m |-> IF i = 0 THEN <<>> ELSE Follow(walk, noFollow, g[i - 1], D[pkg][i])]
  <2> HIDE DEF g
  <2>0. g = [i \in 0 .. m |-> g[i]]
    BY DEF g
  <2>1. QED
    BY <1>6, <2>0
<1>9. LoopEquation(D, walk, pkg, noFollow, m, g)
  BY <1>8 DEF LoopEquation
<1>10. QED
  BY <1>1, <1>9

\* A loop: the rounds one after the other
IsLoop(D, walk, pkg, noFollow, n, all) ==
    /\ all[0] = <<>>
    /\ \A i \in 1 .. n : all[i] = Follow(walk, noFollow, all[i - 1], D[pkg][i])

\* Collect is the last value of a loop.
EndsLoop(D, walk, pkg, noFollow, n) ==
    \E all : /\ IsLoop(D, walk, pkg, noFollow, n, all)
            /\ Collect(D, walk, pkg, noFollow) = all[n]

LEMMA CollectIsLoop ==
    ASSUME NEW D, NEW walk, NEW pkg, NEW noFollow, Len(D[pkg]) \in Nat
    PROVE  EndsLoop(D, walk, pkg, noFollow, Len(D[pkg]))
<1> DEFINE all[i \in 0 .. Len(D[pkg])] ==
              IF i = 0 THEN <<>> ELSE Follow(walk, noFollow, all[i - 1], D[pkg][i])
<1>1. \E f : LoopEquation(D, walk, pkg, noFollow, Len(D[pkg]), f)
  BY LoopExists
<1>2. all = [i \in 0 .. Len(D[pkg]) |->
              IF i = 0 THEN <<>> ELSE Follow(walk, noFollow, all[i - 1], D[pkg][i])]
  BY <1>1, Zenon DEF LoopEquation
<1>3. Collect(D, walk, pkg, noFollow) = all[Len(D[pkg])]
  BY Zenon DEF Collect
<1> HIDE DEF all
<1>4. \A i \in 0 .. Len(D[pkg]) :
         all[i] = IF i = 0 THEN <<>> ELSE Follow(walk, noFollow, all[i - 1], D[pkg][i])
  BY <1>2, Zenon
<1>5. 0 \in 0 .. Len(D[pkg]) /\ \A i \in 1 .. Len(D[pkg]) : i \in 0 .. Len(D[pkg]) /\ i # 0
  OBVIOUS
<1>6. IsLoop(D, walk, pkg, noFollow, Len(D[pkg]), all)
  BY <1>4, <1>5 DEF IsLoop
<1>7. QED
  BY <1>3, <1>6, Zenon DEF EndsLoop

LEMMA LoopTyped ==
    ASSUME NEW P, NEW D \in [P -> Seq(P)], NEW pkg \in P, NEW noFollow \in SUBSET P,
           NEW walk, TypedAbove(P, noFollow, walk),
           NEW n \in Nat, n = Len(D[pkg]), NEW all, IsLoop(D, walk, pkg, noFollow, n, all)
    PROVE  \A i \in 0 .. n : all[i] \in Seq(P)
<1> DEFINE Fail == {k \in Nat : k <= n /\ all[k] \notin Seq(P)}
<1> SUFFICES ASSUME Fail # {} PROVE FALSE
  OBVIOUS
<1>1. PICK m \in Fail : \A k \in Fail : m <= k
  BY Least
<1>2. /\ all[0] = <<>>
      /\ \A i \in 1 .. n : all[i] = Follow(walk, noFollow, all[i - 1], D[pkg][i])
  BY DEF IsLoop
<1>3. m # 0
  <2>1. <<>> \in Seq(P)
    OBVIOUS
  <2>2. all[0] \in Seq(P)
    BY <1>2, <2>1, Zenon
  <2>3. QED
    BY <2>2, Zenon
<1>4. m - 1 \in Nat /\ m - 1 <= n /\ m \in 1 .. n /\ all[m - 1] \in Seq(P)
  BY <1>1, <1>3
<1>5. D[pkg][m] \in P
  <2>1. D[pkg] \in Seq(P)
    OBVIOUS
  <2>2. QED
    BY <1>4, <2>1, ElementOfSeq
<1>6. all[m] \in Seq(P)
  BY <1>2, <1>4, <1>5, FollowTyped
<1>7. QED
  BY <1>6

LEMMA CollectTyped ==
    ASSUME NEW P, NEW D \in [P -> Seq(P)], NEW pkg \in P, NEW noFollow \in SUBSET P,
           NEW walk, TypedAbove(P, noFollow, walk)
    PROVE  Collect(D, walk, pkg, noFollow) \in Seq(P)
<1> DEFINE n == Len(D[pkg])
<1>1. n \in Nat
  <2>1. D[pkg] \in Seq(P)
    OBVIOUS
  <2>2. QED
    BY <2>1
<1>2. PICK all : IsLoop(D, walk, pkg, noFollow, n, all) /\ Collect(D, walk, pkg, noFollow) = all[n]
  <2>1. EndsLoop(D, walk, pkg, noFollow, n)
    BY <1>1, CollectIsLoop
  <2>2. QED
    BY <2>1, Zenon DEF EndsLoop
<1>3. \A i \in 0 .. n : all[i] \in Seq(P)
  BY <1>1, <1>2, LoopTyped
<1>4. QED
  BY <1>1, <1>2, <1>3

LEMMA CollectLocal ==
    ASSUME NEW P, NEW D \in [P -> Seq(P)], NEW pkg \in P, NEW noFollow \in SUBSET P,
           NEW walk, NEW other, TypedAbove(P, noFollow, walk), AgreeAbove(P, noFollow, walk, other)
    PROVE  Collect(D, other, pkg, noFollow) = Collect(D, walk, pkg, noFollow)
<1> DEFINE n == Len(D[pkg])
<1>1. n \in Nat
  <2>1. D[pkg] \in Seq(P)
    OBVIOUS
  <2>2. QED
    BY <2>1
<1>2. PICK all : IsLoop(D, walk, pkg, noFollow, n, all) /\ Collect(D, walk, pkg, noFollow) = all[n]
  <2>1. EndsLoop(D, walk, pkg, noFollow, n)
    BY <1>1, CollectIsLoop
  <2>2. QED
    BY <2>1, Zenon DEF EndsLoop
<1>3. PICK same : IsLoop(D, other, pkg, noFollow, n, same) /\ Collect(D, other, pkg, noFollow) = same[n]
  <2>1. EndsLoop(D, other, pkg, noFollow, n)
    BY <1>1, CollectIsLoop
  <2>2. QED
    BY <2>1, Zenon DEF EndsLoop
<1>4. n = Len(D[pkg])
  OBVIOUS
<1> HIDE DEF n
<1>5. \A i \in 0 .. n : same[i] = all[i]
  <2> DEFINE Fail == {k \in Nat : k <= n /\ same[k] # all[k]}
  <2> SUFFICES ASSUME Fail # {} PROVE FALSE
    OBVIOUS
  <2>1. PICK m \in Fail : \A k \in Fail : m <= k
    BY Least
  <2>2. /\ all[0] = <<>>
        /\ \A i \in 1 .. n : all[i] = Follow(walk, noFollow, all[i - 1], D[pkg][i])
    BY <1>2 DEF IsLoop
  <2>3. /\ same[0] = <<>>
        /\ \A i \in 1 .. n : same[i] = Follow(other, noFollow, same[i - 1], D[pkg][i])
    BY <1>3 DEF IsLoop
  <2>4. \A i \in 0 .. n : all[i] \in Seq(P)
    BY <1>1, <1>2, <1>4, LoopTyped
  <2>5. m # 0
    BY <2>2, <2>3
  <2>6. m - 1 \in 0 .. n /\ m \in 1 .. n /\ same[m - 1] = all[m - 1]
    BY <1>1, <2>1, <2>5
  <2>7. D[pkg][m] \in P
    <3>1. D[pkg] \in Seq(P)
      OBVIOUS
    <3>2. QED
      BY <1>4, <2>6, <3>1, ElementOfSeq
  <2> DEFINE a == all[m - 1]
             d == D[pkg][m]
  <2>8. Follow(other, noFollow, a, d) = Follow(walk, noFollow, a, d)
    <3>1. a \in Seq(P) /\ d \in P
      BY <2>4, <2>6, <2>7
    <3> HIDE DEF a, d, Fail
    <3>2. QED
      BY <3>1, FollowLocal
  <2>9. QED
    BY <2>2, <2>3, <2>6, <2>8
<1>6. QED
  BY <1>1, <1>2, <1>3, <1>5

LEMMA Part ==
    ASSUME NEW S, NEW s \in Seq(S), NEW a \in 1 .. Len(s) + 1, NEW b \in a - 1 .. Len(s)
    PROVE  /\ SubSeq(s, a, b) \in Seq(S)
           /\ \A x : x \in ToSet(SubSeq(s, a, b)) <=> \E k \in a .. b : x = s[k]
           /\ Once(s) => Once(SubSeq(s, a, b))
<1> DEFINE u == SubSeq(s, a, b)
           n == Len(s)
           m == b - a + 1
<1>1. /\ n \in Nat /\ m \in Nat /\ u \in Seq(S) /\ Len(u) = m
      /\ \A k \in 1 .. m : u[k] = s[a + k - 1] /\ a + k - 1 \in a .. b /\ a + k - 1 \in 1 .. n
  OBVIOUS
<1> HIDE DEF u
<1>2. \A x : x \in ToSet(u) <=> \E k \in 1 .. Len(u) : x = u[k]
  BY <1>1, Member
<1>3. ASSUME NEW x \in ToSet(u) PROVE \E k \in a .. b : x = s[k]
  <2>1. PICK k \in 1 .. m : x = u[k]
    BY <1>1, <1>2
  <2>2. a + k - 1 \in a .. b /\ x = s[a + k - 1]
    BY <1>1, <2>1
  <2>3. QED
    BY <2>2
<1>4. ASSUME NEW k \in a .. b PROVE s[k] \in ToSet(u)
  <2>1. k - a + 1 \in 1 .. m /\ a + (k - a + 1) - 1 = k
    OBVIOUS
  <2>2. u[k - a + 1] = s[k]
    BY <1>1, <2>1
  <2>3. QED
    BY <1>1, <1>2, <2>1, <2>2
<1>5. ASSUME Once(s) PROVE Once(u)
  <2>1. \A i, j \in 1 .. n : i # j => s[i] # s[j]
    BY <1>5 DEF Once
  <2>2. ASSUME NEW i \in 1 .. m, NEW j \in 1 .. m, i # j PROVE u[i] # u[j]
    <3>1. /\ a + i - 1 \in 1 .. n /\ a + j - 1 \in 1 .. n /\ a + i - 1 # a + j - 1
          /\ u[i] = s[a + i - 1] /\ u[j] = s[a + j - 1]
      BY <1>1, <2>2
    <3>2. QED
      BY <2>1, <3>1
  <2>3. QED
    BY <1>1, <2>2 DEF Once
<1>6. QED
  BY <1>1, <1>3, <1>4, <1>5 DEF u

LEMMA CutOut ==
    ASSUME NEW S, NEW s \in Seq(S), NEW p
    PROVE  /\ Without(s, p) \in Seq(S)
           /\ Once(s) => Once(Without(s, p)) /\ ToSet(Without(s, p)) = ToSet(s) \ {p}
<1>1. CASE p \notin ToSet(s)
  BY <1>1 DEF Without
<1>2. CASE p \in ToSet(s)
  <2> DEFINE n == Len(s)
             c == CHOOSE i \in DOMAIN s : s[i] = p
             u == SubSeq(s, 1, c - 1)
             v == SubSeq(s, c + 1, n)
  <2>1. n \in Nat /\ DOMAIN s = 1 .. n
    OBVIOUS
  <2>2. \A x : x \in ToSet(s) <=> \E i \in 1 .. n : x = s[i]
    BY Member
  <2>3. c \in 1 .. n /\ s[c] = p
    <3>1. \E i \in DOMAIN s : s[i] = p
      BY <1>2, <2>1, <2>2
    <3>2. c \in DOMAIN s /\ s[c] = p
      BY <3>1, Zenon
    <3>3. QED
      BY <2>1, <3>2
  <2>4. Without(s, p) = u \o v
    BY <1>2 DEF Without, RemoveAt
  <2> HIDE DEF c, n
  <2>5. /\ u \in Seq(S) /\ (\A x : x \in ToSet(u) <=> \E k \in 1 .. c - 1 : x = s[k])
        /\ Once(s) => Once(u)
    <3>1. 1 \in 1 .. Len(s) + 1 /\ c - 1 \in 1 - 1 .. Len(s)
      BY <2>1, <2>3 DEF n
    <3>2. QED
      BY <3>1, Part
  <2>6. /\ v \in Seq(S) /\ (\A x : x \in ToSet(v) <=> \E k \in c + 1 .. n : x = s[k])
        /\ Once(s) => Once(v)
    <3>1. c + 1 \in 1 .. Len(s) + 1 /\ n \in (c + 1) - 1 .. Len(s)
      BY <2>1, <2>3 DEF n
    <3>2. QED
      BY <3>1, Part
  <2> HIDE DEF u, v
  <2>7. u \o v \in Seq(S)
    BY <2>5, <2>6, Joined
  <2>8. ASSUME Once(s) PROVE Once(u \o v) /\ ToSet(u \o v) = ToSet(s) \ {p}
    <3>1. \A i, j \in 1 .. n : i # j => s[i] # s[j]
      BY <2>8 DEF Once, n
    <3>2. /\ \A k \in 1 .. c - 1 : k \in 1 .. n /\ k # c
          /\ \A k \in c + 1 .. n : k \in 1 .. n /\ k # c
          /\ \A k \in 1 .. c - 1 : \A l \in c + 1 .. n : k # l
          /\ \A k \in 1 .. n : k = c \/ k \in 1 .. c - 1 \/ k \in c + 1 .. n
      BY <2>1, <2>3
    <3>3. ToSet(u) \cap ToSet(v) = {}
      BY <2>5, <2>6, <3>1, <3>2
    <3>4. Once(u \o v) /\ ToSet(u \o v) = ToSet(u) \cup ToSet(v)
      BY <2>5, <2>6, <2>8, <3>3, Joined
    <3>5. p \notin ToSet(u) \cup ToSet(v)
      BY <2>3, <2>5, <2>6, <3>1, <3>2
    <3>6. ToSet(u) \cup ToSet(v) \subseteq ToSet(s)
      BY <2>2, <2>5, <2>6, <3>2
    <3>7. ASSUME NEW x \in ToSet(s), x # p PROVE x \in ToSet(u) \cup ToSet(v)
      BY <2>2, <2>3, <2>5, <2>6, <3>2, <3>7
    <3>8. QED
      BY <3>4, <3>5, <3>6, <3>7
  <2>9. QED
    BY <2>4, <2>7, <2>8
<1>3. QED
  BY <1>1, <1>2

LEMMA Reversed ==
    ASSUME NEW S, NEW s \in Seq(S)
    PROVE  Reverse(s) \in Seq(S) /\ Len(Reverse(s)) = Len(s) /\ ToSet(Reverse(s)) = ToSet(s)
<1> DEFINE n == Len(s)
           r == Reverse(s)
<1>1. n \in Nat /\ \A i \in 1 .. n : s[i] \in S
  OBVIOUS
<1>2. /\ r \in Seq(S) /\ Len(r) = n
      /\ \A i \in 1 .. n : r[i] = s[n - i + 1] /\ n - i + 1 \in 1 .. n /\ n - (n - i + 1) + 1 = i
  <2>1. r = [i \in 1 .. n |-> s[(n - i) + 1]]
    BY DEF Reverse
  <2> HIDE DEF n, r
  <2>2. \A i \in 1 .. n : n - i + 1 \in 1 .. n /\ n - (n - i + 1) + 1 = i
    BY <1>1
  <2>3. r \in [1 .. n -> S]
    BY <1>1, <2>1, <2>2
  <2>4. QED
    BY <1>1, <2>1, <2>2, <2>3
<1>3. \A x : x \in ToSet(s) <=> \E i \in 1 .. n : x = s[i]
  BY Member
<1> HIDE DEF n, r
<1>4. \A x : x \in ToSet(r) <=> \E i \in 1 .. n : x = r[i]
  BY <1>2, Member
<1>5. ASSUME NEW x \in ToSet(r) PROVE x \in ToSet(s)
  <2>1. PICK i \in 1 .. n : x = r[i]
    BY <1>4
  <2>2. n - i + 1 \in 1 .. n /\ x = s[n - i + 1]
    BY <1>2, <2>1
  <2>3. QED
    BY <1>3, <2>2
<1>6. ASSUME NEW x \in ToSet(s) PROVE x \in ToSet(r)
  <2>1. PICK i \in 1 .. n : x = s[i]
    BY <1>3
  <2>2. n - i + 1 \in 1 .. n /\ r[n - i + 1] = s[i]
    BY <1>2
  <2>3. QED
    BY <1>4, <2>1, <2>2
<1>7. QED
  BY <1>2, <1>5, <1>6 DEF n, r

\* With more packages not to follow, fewer are left.
LEMMA FewerLeft ==
    ASSUME NEW P, IsFiniteSet(P), NEW noFollow \in SUBSET P
    PROVE  /\ Cardinality(P \ noFollow) \in Nat
           /\ \A S \in SUBSET P : noFollow \subseteq S /\ S # noFollow
                 => Cardinality(P \ S) < Cardinality(P \ noFollow)
<1>1. \A S \in SUBSET P : IsFiniteSet(P \ S) /\ Cardinality(P \ S) \in Nat
  <2>1. \A S \in SUBSET P : P \ S \in SUBSET P
    OBVIOUS
  <2>2. \A S \in SUBSET P : IsFiniteSet(P \ S)
    BY <2>1, FS_Subset
  <2>3. QED
    BY <2>2, FS_CardinalityType
<1>2. ASSUME NEW S \in SUBSET P, noFollow \subseteq S, S # noFollow
      PROVE  Cardinality(P \ S) < Cardinality(P \ noFollow)
  <2>1. P \ S \in SUBSET (P \ noFollow) /\ P \ S # P \ noFollow
    BY <1>2
  <2>2. /\ Cardinality(P \ S) <= Cardinality(P \ noFollow)
        /\ Cardinality(P \ S) # Cardinality(P \ noFollow)
    BY <1>1, <2>1, FS_Subset
  <2>3. QED
    BY <1>1, <2>2
<1>3. QED
  BY <1>1, <1>2

\* What resolveInner does with a call, given what it does with the calls it makes
Body(P, D, walk) ==
    [call \in P \X SUBSET P |-> Without(Collect(D, walk, call[1], call[2]), call[1])]

\* walk is right for the calls that leave fewer than k packages to follow.
Solved(P, D, walk, k) ==
    \A d \in P : \A S \in SUBSET P :
        Cardinality(P \ S) < k => walk[<<d, S>>] = Body(P, D, walk)[<<d, S>>]

LEMMA BodyTyped ==
    ASSUME NEW P, NEW D \in [P -> Seq(P)], NEW walk \in [P \X SUBSET P -> Seq(P)]
    PROVE  Body(P, D, walk) \in [P \X SUBSET P -> Seq(P)]
<1>1. ASSUME NEW d \in P, NEW S \in SUBSET P PROVE Without(Collect(D, walk, d, S), d) \in Seq(P)
  <2>1. TypedAbove(P, S, walk)
    BY DEF TypedAbove
  <2>2. Collect(D, walk, d, S) \in Seq(P)
    BY <2>1, CollectTyped
  <2>3. QED
    BY <2>2, CutOut
<1>3. \A call \in P \X SUBSET P : call[1] \in P /\ call[2] \in SUBSET P
  OBVIOUS
<1>4. QED
  BY <1>1, <1>3 DEF Body

\* One more level of the recursion
LEMMA OneDeeper ==
    ASSUME NEW P, IsFiniteSet(P), NEW D \in [P -> Seq(P)], NEW walk \in [P \X SUBSET P -> Seq(P)],
           NEW k \in Nat, Solved(P, D, walk, k)
    PROVE  Solved(P, D, Body(P, D, walk), k + 1)
<1> DEFINE deeper == Body(P, D, walk)
<1>2. \A d \in P : \A S \in SUBSET P :
         /\ Body(P, D, walk)[<<d, S>>] = Without(Collect(D, walk, d, S), d)
         /\ Body(P, D, deeper)[<<d, S>>] = Without(Collect(D, deeper, d, S), d)
  BY DEF Body
<1> HIDE DEF deeper
<1>3. ASSUME NEW d \in P, NEW S \in SUBSET P, Cardinality(P \ S) < k + 1
      PROVE  deeper[<<d, S>>] = Body(P, D, deeper)[<<d, S>>]
  <2>1. ASSUME NEW T \in SUBSET P, S \subseteq T, T # S PROVE Cardinality(P \ T) < k
    <3>1. Cardinality(P \ T) < Cardinality(P \ S) /\ Cardinality(P \ S) \in Nat /\ Cardinality(P \ T) \in Nat
      BY <2>1, FewerLeft
    <3>2. QED
      BY <1>3, <3>1
  <2>2. AgreeAbove(P, S, walk, deeper)
    BY <2>1 DEF AgreeAbove, Solved, deeper
  <2>3. TypedAbove(P, S, walk)
    BY DEF TypedAbove
  <2>4. Collect(D, deeper, d, S) = Collect(D, walk, d, S)
    BY <2>2, <2>3, CollectLocal
  <2>5. QED
    BY <1>2, <2>4 DEF deeper
<1>4. QED
  BY <1>3 DEF Solved, deeper

LEMMA WalkExists ==
    ASSUME NEW P, IsFiniteSet(P), NEW D \in [P -> Seq(P)]
    PROVE  \E walk \in [P \X SUBSET P -> Seq(P)] : walk = Body(P, D, walk)
<1> DEFINE W == [P \X SUBSET P -> Seq(P)]
           Fail == {k \in Nat : ~ \E walk \in W : Solved(P, D, walk, k)}
<1>2. \A S \in SUBSET P : Cardinality(P \ S) \in Nat
  BY FewerLeft
<1>3. Fail = {}
  <2> SUFFICES ASSUME Fail # {} PROVE FALSE
    OBVIOUS
  <2>1. PICK m \in Fail : \A k \in Fail : m <= k
    BY Least
  <2>2. m # 0
    <3>1. PICK e \in Seq(P) : TRUE
      BY EmptyList
    <3> DEFINE z == [call \in P \X SUBSET P |-> e]
    <3>4. z \in W
      OBVIOUS
    <3>2. \A S \in SUBSET P : ~ (Cardinality(P \ S) < 0)
      <4>1. \A a \in Nat : ~ (a < 0)
        OBVIOUS
      <4>2. QED
        BY <1>2, <4>1, Zenon
    <3> HIDE DEF z, W
    <3>3. Solved(P, D, z, 0)
      BY <3>2 DEF Solved
    <3>5. QED
      BY <3>3, <3>4
  <2>3. m - 1 \in Nat /\ m - 1 \notin Fail /\ (m - 1) + 1 = m
    <3>1. m \in Nat /\ m - 1 \in Nat /\ ~ (m <= m - 1) /\ (m - 1) + 1 = m
      BY <2>1, <2>2
    <3> HIDE DEF Fail
    <3>2. QED
      BY <2>1, <3>1
  <2>4. PICK walk \in W : Solved(P, D, walk, m - 1)
    BY <2>3
  <2>5. Body(P, D, walk) \in W /\ Solved(P, D, Body(P, D, walk), (m - 1) + 1)
    BY <2>3, <2>4, BodyTyped, OneDeeper
  <2>6. QED
    BY <2>3, <2>5
<1>4. Cardinality(P) \in Nat /\ \A S \in SUBSET P : Cardinality(P \ S) < Cardinality(P) + 1
  <2>1. Cardinality(P) \in Nat
    BY FS_CardinalityType
  <2>2. \A S \in SUBSET P : Cardinality(P \ S) <= Cardinality(P)
    <3>1. ASSUME NEW S \in SUBSET P PROVE Cardinality(P \ S) <= Cardinality(P)
      <4>1. P \ S \in SUBSET P
        OBVIOUS
      <4> DEFINE T == P \ S
      <4> HIDE DEF T
      <4>2. Cardinality(T) <= Cardinality(P)
        BY <4>1, FS_Subset DEF T
      <4>3. QED
        BY <4>2 DEF T
    <3>2. QED
      BY <3>1
  <2>3. QED
    <3>1. \A a, b \in Nat : a <= b => a < b + 1
      OBVIOUS
    <3>2. QED
      BY <1>2, <2>1, <2>2, <3>1, Zenon
<1>5. PICK walk \in W : Solved(P, D, walk, Cardinality(P) + 1)
  <2>1. Cardinality(P) + 1 \in Nat
    BY <1>4
  <2>2. QED
    BY <1>3, <2>1
<1>6. \A d \in P : \A S \in SUBSET P : walk[<<d, S>>] = Body(P, D, walk)[<<d, S>>]
  BY <1>4, <1>5 DEF Solved
<1>7. Body(P, D, walk) \in W
  BY BodyTyped
<1> HIDE DEF W, Fail
<1>8. walk = Body(P, D, walk)
  <2>1. \A call \in P \X SUBSET P : walk[call] = Body(P, D, walk)[call]
    BY <1>6
  <2>2. walk \in [P \X SUBSET P -> Seq(P)] /\ Body(P, D, walk) \in [P \X SUBSET P -> Seq(P)]
    BY <1>7 DEF W
  <2> DEFINE other == Body(P, D, walk)
  <2> HIDE DEF other
  <2>3. walk = other
    BY <2>1, <2>2 DEF other
  <2>4. QED
    BY <2>3 DEF other
<1>9. QED
  BY <1>8 DEF W

\* The recursion is well-founded: resolveInner satisfies its equation.
LEMMA ResolverEquation ==
    ASSUME NEW P, IsFiniteSet(P), NEW D \in [P -> Seq(P)]
    PROVE  ResolveInner(D) = Body(P, D, ResolveInner(D))
<1>1. (DOMAIN D) \X (SUBSET DOMAIN D) = P \X SUBSET P
  OBVIOUS
<1>2. \E walk : walk = Body(P, D, walk)
  BY WalkExists
<1>3. \E walk : walk = [call \in (DOMAIN D) \X (SUBSET DOMAIN D) |->
                            Without(Collect(D, walk, call[1], call[2]), call[1])]
  <2>1. PICK walk : walk = Body(P, D, walk)
    BY <1>2
  <2>2. Body(P, D, walk) = [call \in (DOMAIN D) \X (SUBSET DOMAIN D) |->
                               Without(Collect(D, walk, call[1], call[2]), call[1])]
    BY <1>1 DEF Body
  <2>3. QED
    BY <2>1, <2>2, Zenon
<1> DEFINE walk[call \in (DOMAIN D) \X (SUBSET DOMAIN D)] ==
              Without(Collect(D, walk, call[1], call[2]), call[1])
<1>4. walk = [call \in (DOMAIN D) \X (SUBSET DOMAIN D) |->
                 Without(Collect(D, walk, call[1], call[2]), call[1])]
  BY <1>3, Zenon
<1>5. ResolveInner(D) = walk
  BY Zenon DEF ResolveInner
<1> HIDE DEF walk
<1>6. QED
  BY <1>1, <1>4, <1>5 DEF Body

\* Below is closed under dependencies, and the least such set.
LEMMA BelowIs ==
    ASSUME NEW P, NEW D \in [P -> Seq(P)], NEW p \in P
    PROVE  /\ ToSet(D[p]) \subseteq Below(D, p) /\ Below(D, p) \subseteq P
           /\ \A y \in Below(D, p) : ToSet(D[y]) \subseteq Below(D, p)
           /\ \A S \in SUBSET P : /\ ToSet(D[p]) \subseteq S
                                  /\ \A y \in S : ToSet(D[y]) \subseteq S
                                  => Below(D, p) \subseteq S
<1> DEFINE Closed == {S \in SUBSET P : ToSet(D[p]) \cup DirectDeps(D, S) \subseteq S}
<1>1. Below(D, p) = {q \in P : \A S \in Closed : q \in S}
  <2>1. DOMAIN D = P
    OBVIOUS
  <2>2. QED
    BY <2>1 DEF Below
<1>2. \A x \in P : ToSet(D[x]) \subseteq P
  <2>1. ASSUME NEW x \in P PROVE ToSet(D[x]) \subseteq P
    <3>1. D[x] \in Seq(P)
      OBVIOUS
    <3>2. \A y : y \in ToSet(D[x]) <=> \E i \in 1 .. Len(D[x]) : y = D[x][i]
      BY <3>1, Member
    <3>3. QED
      BY <3>1, <3>2, ElementOfSeq
  <2>2. QED
    BY <2>1
<1>3. \A S \in Closed : /\ S \subseteq P /\ ToSet(D[p]) \subseteq S
                        /\ \A y \in S : ToSet(D[y]) \subseteq S
  BY DEF DirectDeps
<1>4. \A S \in SUBSET P : /\ ToSet(D[p]) \subseteq S
                          /\ \A y \in S : ToSet(D[y]) \subseteq S
                          => S \in Closed
  BY DEF DirectDeps
<1> HIDE DEF Closed
<1>5. ToSet(D[p]) \subseteq Below(D, p) /\ Below(D, p) \subseteq P
  BY <1>1, <1>2, <1>3
<1>6. ASSUME NEW y \in Below(D, p) PROVE ToSet(D[y]) \subseteq Below(D, p)
  <2>1. y \in P /\ \A S \in Closed : ToSet(D[y]) \subseteq S
    BY <1>1, <1>3
  <2>2. QED
    BY <1>1, <1>2, <2>1
<1>7. ASSUME NEW S \in SUBSET P, ToSet(D[p]) \subseteq S, \A y \in S : ToSet(D[y]) \subseteq S
      PROVE  Below(D, p) \subseteq S
  <2>1. S \in Closed
    BY <1>4, <1>7
  <2>2. QED
    BY <1>1, <2>1
<1>8. QED
  BY <1>5, <1>6, <1>7

\* A list of packages below pkg, without those not to follow, and with the dependencies
\* of its members, unless they are not to be followed.
Good(P, D, pkg, noFollow, all) ==
    /\ all \in Seq(P) /\ Once(all)
    /\ ToSet(all) \cap noFollow = {} /\ ToSet(all) \subseteq Below(D, pkg)
    /\ \A x \in ToSet(all) : ToSet(D[x]) \subseteq ToSet(all) \cup noFollow

\* It is complete when the dependencies of pkg itself are in it as well.
Complete(P, D, pkg, noFollow, all) ==
    Good(P, D, pkg, noFollow, all) /\ ToSet(D[pkg]) \subseteq ToSet(all) \cup noFollow

\* The calls that resolveInner makes return complete lists.
CallsRight(P, D, noFollow, walk) ==
    \A d \in P : \A S \in SUBSET P :
        noFollow \subseteq S /\ S # noFollow /\ d \in S => Complete(P, D, d, S, walk[<<d, S>>])

LEMMA FollowRight ==
    ASSUME NEW P, NEW D \in [P -> Seq(P)], NEW pkg \in P, NEW noFollow \in SUBSET P, NEW walk,
           CallsRight(P, D, noFollow, walk)
    PROVE  \A d \in ToSet(D[pkg]) : \A all : Good(P, D, pkg, noFollow, all) =>
               /\ Good(P, D, pkg, noFollow, Follow(walk, noFollow, all, d))
               /\ {d} \cup ToSet(all) \subseteq ToSet(Follow(walk, noFollow, all, d)) \cup noFollow
<1> SUFFICES ASSUME NEW d \in ToSet(D[pkg]), NEW all, Good(P, D, pkg, noFollow, all)
             PROVE  /\ Good(P, D, pkg, noFollow, Follow(walk, noFollow, all, d))
                    /\ {d} \cup ToSet(all) \subseteq ToSet(Follow(walk, noFollow, all, d)) \cup noFollow
  OBVIOUS
<1>1. CASE d \in ToSet(all) \cup noFollow
  BY <1>1 DEF Follow
<1>2. CASE d \notin ToSet(all) \cup noFollow
  <2> DEFINE S == ToSet(all) \cup {d} \cup noFollow
             w == walk[<<d, S>>]
             u == Append(all, d)
  <2>1. /\ all \in Seq(P) /\ Once(all) /\ ToSet(all) \cap noFollow = {}
        /\ ToSet(all) \subseteq Below(D, pkg)
        /\ \A x \in ToSet(all) : ToSet(D[x]) \subseteq ToSet(all) \cup noFollow
    BY DEF Good
  <2>2. d \in Below(D, pkg) /\ Below(D, pkg) \subseteq P
    BY BelowIs
  <2>3. Below(D, d) \subseteq Below(D, pkg)
    <3>1. d \in P /\ Below(D, pkg) \in SUBSET P /\ ToSet(D[d]) \subseteq Below(D, pkg)
          /\ \A y \in Below(D, pkg) : ToSet(D[y]) \subseteq Below(D, pkg)
      BY <2>2, BelowIs
    <3>2. QED
      BY <3>1, BelowIs
  <2>4. S \in SUBSET P /\ noFollow \subseteq S /\ S # noFollow /\ d \in S /\ d \in P
    BY <1>2, <2>1, <2>2
  <2>5. Complete(P, D, d, S, w)
    BY <2>4 DEF CallsRight
  <2>6. Follow(walk, noFollow, all, d) = u \o w
    BY <1>2 DEF Follow
  <2> HIDE DEF w
  <2>7. /\ w \in Seq(P) /\ Once(w) /\ ToSet(w) \cap S = {} /\ ToSet(w) \subseteq Below(D, d)
        /\ \A x \in ToSet(w) : ToSet(D[x]) \subseteq ToSet(w) \cup S
        /\ ToSet(D[d]) \subseteq ToSet(w) \cup S
    BY <2>5 DEF Complete, Good
  <2>8. u \in Seq(P) /\ Once(u) /\ ToSet(u) = ToSet(all) \cup {d}
    <3>1. PICK e \in Seq(P) : e = <<d>>
      <4>1. <<d>> \in Seq(P)
        BY <2>4
      <4>2. QED
        BY <4>1, Zenon
    <3>2. u = all \o e /\ Len(e) = 1 /\ DOMAIN e = {1} /\ e[1] = d
      <4>1. all \in Seq(P) /\ d \in P
        BY <2>1, <2>4
      <4>2. u = all \o <<d>>
        BY <4>1, AppendIsConcat
      <4>3. QED
        BY <3>1, <4>2
    <3>3. ToSet(e) = {d} /\ Once(e)
      BY <3>2 DEF ToSet, Once
    <3>4. ToSet(all) \cap ToSet(e) = {}
      BY <1>2, <3>3
    <3> HIDE DEF u
    <3>5. QED
      BY <2>1, <3>2, <3>3, <3>4, Joined
  <2> HIDE DEF u
  <2>9. u \o w \in Seq(P) /\ Once(u \o w) /\ ToSet(u \o w) = ToSet(u) \cup ToSet(w)
    <3>1. ToSet(u) \cap ToSet(w) = {}
      BY <2>7, <2>8
    <3>2. QED
      BY <2>7, <2>8, <3>1, Joined
  <2> DEFINE A == u \o w
  <2> HIDE DEF A
  <2>10. A \in Seq(P) /\ Once(A) /\ ToSet(A) = ToSet(all) \cup {d} \cup ToSet(w)
    BY <2>8, <2>9 DEF A
  <2>11. ToSet(A) \cap noFollow = {} /\ ToSet(A) \subseteq Below(D, pkg)
    BY <1>2, <2>1, <2>2, <2>3, <2>7, <2>10
  <2>12. \A x \in ToSet(A) : ToSet(D[x]) \subseteq ToSet(A) \cup noFollow
    BY <2>1, <2>7, <2>10
  <2>13. QED
    BY <2>6, <2>10, <2>11, <2>12 DEF Good, A
<1>3. QED
  BY <1>1, <1>2

\* The loop collects everything below the package that may be followed.
LEMMA CollectRight ==
    ASSUME NEW P, NEW D \in [P -> Seq(P)], NEW pkg \in P, NEW noFollow \in SUBSET P, NEW walk,
           CallsRight(P, D, noFollow, walk)
    PROVE  Complete(P, D, pkg, noFollow, Collect(D, walk, pkg, noFollow))
<1> DEFINE n == Len(D[pkg])
<1>1. D[pkg] \in Seq(P) /\ n \in Nat
  <2>1. D[pkg] \in Seq(P)
    OBVIOUS
  <2>2. QED
    BY <2>1
<1>2. PICK all : IsLoop(D, walk, pkg, noFollow, n, all) /\ Collect(D, walk, pkg, noFollow) = all[n]
  <2>1. EndsLoop(D, walk, pkg, noFollow, n)
    BY <1>1, CollectIsLoop
  <2>2. QED
    BY <2>1, Zenon DEF EndsLoop
<1>3. \A x : x \in ToSet(D[pkg]) <=> \E i \in 1 .. n : x = D[pkg][i]
  BY <1>1, Member
<1> HIDE DEF n
<1> DEFINE UpTo(i) == /\ Good(P, D, pkg, noFollow, all[i])
                      /\ \A k \in 1 .. i : D[pkg][k] \in ToSet(all[i]) \cup noFollow
<1>4. UpTo(0)
  <2>1. <<>> \in Seq(P) /\ Len(<<>>) = 0 /\ ToSet(<<>>) = {} /\ Once(<<>>)
    BY EmptyList
  <2>2. all[0] = <<>>
    BY <1>2 DEF IsLoop
  <2>3. QED
    BY <2>1, <2>2 DEF Good
<1>5. ASSUME NEW i \in 1 .. n, UpTo(i - 1) PROVE UpTo(i)
  <2> DEFINE a == all[i - 1]
             d == D[pkg][i]
  <2>1. all[i] = Follow(walk, noFollow, a, d)
    BY <1>2 DEF IsLoop
  <2>2. d \in ToSet(D[pkg]) /\ Good(P, D, pkg, noFollow, a)
    BY <1>3, <1>5
  <2>3. \A k \in 1 .. i - 1 : D[pkg][k] \in ToSet(a) \cup noFollow
    BY <1>5
  <2>4. /\ Good(P, D, pkg, noFollow, all[i])
        /\ {d} \cup ToSet(a) \subseteq ToSet(all[i]) \cup noFollow
    <3>1. \A e \in ToSet(D[pkg]) : \A f : Good(P, D, pkg, noFollow, f) =>
             /\ Good(P, D, pkg, noFollow, Follow(walk, noFollow, f, e))
             /\ {e} \cup ToSet(f) \subseteq ToSet(Follow(walk, noFollow, f, e)) \cup noFollow
      BY FollowRight
    <3> HIDE DEF a, d
    <3>2. QED
      BY <2>1, <2>2, <3>1, Zenon
  <2>5. \A k \in 1 .. i : k \in 1 .. i - 1 \/ k = i
    OBVIOUS
  <2>6. QED
    BY <2>3, <2>4, <2>5
<1>6. \A i \in 0 .. n : UpTo(i)
  <2> DEFINE Fail == {k \in Nat : k <= n /\ ~UpTo(k)}
  <2> HIDE DEF UpTo
  <2> SUFFICES ASSUME Fail # {} PROVE FALSE
    BY <1>1
  <2>1. PICK m \in Fail : \A k \in Fail : m <= k
    BY Least
  <2>2. m # 0
    BY <1>4
  <2>3. m - 1 \in Nat /\ m \in 1 .. n /\ m - 1 <= n /\ ~ (m <= m - 1)
    BY <1>1, <2>2
  <2>4. UpTo(m - 1)
    BY <2>1, <2>3
  <2>5. QED
    BY <1>5, <2>3, <2>4
<1>7. UpTo(n)
  BY <1>1, <1>6
<1>8. ToSet(D[pkg]) \subseteq ToSet(all[n]) \cup noFollow
  BY <1>3, <1>7
<1>9. QED
  BY <1>2, <1>7, <1>8 DEF Complete

\* By induction over the number of packages left to follow
LEMMA WalkRight ==
    ASSUME NEW P, IsFiniteSet(P), NEW D \in [P -> Seq(P)], NEW walk, walk = Body(P, D, walk)
    PROVE  \A d \in P : \A S \in SUBSET P : Complete(P, D, d, S, Collect(D, walk, d, S))
<1> DEFINE Right(S) == \A d \in P : Complete(P, D, d, S, Collect(D, walk, d, S))
           Fail == {k \in Nat : \E S \in SUBSET P : k = Cardinality(P \ S) /\ ~Right(S)}
<1>1. \A d \in P : \A S \in SUBSET P : walk[<<d, S>>] = Without(Collect(D, walk, d, S), d)
  <2>1. \A d \in P : \A S \in SUBSET P : Body(P, D, walk)[<<d, S>>] = Without(Collect(D, walk, d, S), d)
    BY DEF Body
  <2>2. QED
    BY <2>1
<1>2. \A S \in SUBSET P : Cardinality(P \ S) \in Nat
  BY FewerLeft
<1>3. ASSUME NEW S \in SUBSET P, NEW d \in S, Right(S) PROVE Complete(P, D, d, S, walk[<<d, S>>])
  <2> DEFINE all == Collect(D, walk, d, S)
  <2>1. Complete(P, D, d, S, all) /\ walk[<<d, S>>] = Without(all, d)
    BY <1>1, <1>3
  <2> HIDE DEF all
  <2>2. /\ all \in Seq(P) /\ Once(all) /\ ToSet(all) \cap S = {}
    BY <2>1 DEF Complete, Good
  <2>3. Without(all, d) = all
    BY <2>2 DEF Without
  <2>4. QED
    BY <2>1, <2>3
<1> HIDE DEF Right
<1>4. ASSUME NEW S \in SUBSET P, \A T \in SUBSET P : S \subseteq T /\ T # S => Right(T)
      PROVE  Right(S)
  <2>1. CallsRight(P, D, S, walk)
    BY <1>3, <1>4 DEF CallsRight
  <2>2. QED
    BY <2>1, CollectRight DEF Right
<1>5. Fail = {}
  <2> SUFFICES ASSUME Fail # {} PROVE FALSE
    OBVIOUS
  <2>1. PICK m \in Fail : \A k \in Fail : m <= k
    BY Least
  <2>2. PICK S \in SUBSET P : m = Cardinality(P \ S) /\ ~Right(S)
    OBVIOUS
  <2>3. ASSUME NEW T \in SUBSET P, S \subseteq T, T # S PROVE Right(T)
    <3>1. Cardinality(P \ T) < m /\ Cardinality(P \ T) \in Nat
      BY <1>2, <2>2, <2>3, FewerLeft
    <3>2. Cardinality(P \ T) \notin Fail
      <4>1. m \in Nat
        OBVIOUS
      <4> HIDE DEF Fail
      <4>2. QED
        BY <2>1, <3>1, <4>1
    <3>3. QED
      BY <3>1, <3>2
  <2>4. QED
    BY <1>4, <2>2, <2>3
<1>6. \A S \in SUBSET P : Right(S)
  BY <1>2, <1>5
<1>7. QED
  BY <1>6 DEF Right

LEMMA OnceCounted ==
    ASSUME NEW S, NEW s \in Seq(S), Once(s)
    PROVE  Len(s) = Cardinality(ToSet(s))
<1> DEFINE n == Len(s)
<1>1. n \in Nat /\ DOMAIN s = 1 .. n
  OBVIOUS
<1>2. s \in [1 .. n -> ToSet(s)] /\ \A t \in ToSet(s) : \E i \in 1 .. n : s[i] = t
  BY <1>1 DEF ToSet
<1>3. s \in Surjection(1 .. n, ToSet(s))
  BY <1>2, Fun_IsSurj
<1>4. s \in Injection(1 .. n, ToSet(s))
  BY <1>2, Fun_IsInj DEF Once
<1>5. Cardinality(1 .. n) = Cardinality(ToSet(s))
  BY <1>3, <1>4, FiniteMembers, FS_Injection
<1>6. QED
  BY <1>1, <1>5, FS_Interval

\* ResolveDependencies yields all packages below pkg but pkg itself, each once.
LEMMA ResolverRight ==
    ASSUME NEW P, IsFiniteSet(P), NEW D \in [P -> Seq(P)], NEW pkg \in P
    PROVE  /\ ToSet(ResolveDependencies(D, pkg)) = Below(D, pkg) \ {pkg}
           /\ Len(ResolveDependencies(D, pkg)) = Cardinality(ToSet(ResolveDependencies(D, pkg)))
<1> DEFINE walk == ResolveInner(D)
           all == Collect(D, walk, pkg, {})
           rest == Without(all, pkg)
<1>1. walk = Body(P, D, walk)
  BY ResolverEquation
<1> HIDE DEF walk
<1>2. Complete(P, D, pkg, {}, all)
  BY <1>1, WalkRight
<1>3. walk[<<pkg, {}>>] = rest
  <2>1. Body(P, D, walk)[<<pkg, {}>>] = rest
    BY DEF Body
  <2>2. QED
    BY <1>1, <2>1
<1> HIDE DEF all, rest
<1>4. /\ all \in Seq(P) /\ Once(all) /\ ToSet(all) \subseteq Below(D, pkg)
      /\ \A x \in ToSet(all) : ToSet(D[x]) \subseteq ToSet(all)
      /\ ToSet(D[pkg]) \subseteq ToSet(all)
  BY <1>2 DEF Complete, Good
<1>5. ToSet(all) = Below(D, pkg)
  <2>1. ToSet(all) \in SUBSET P
    BY <1>4, BelowIs
  <2>2. Below(D, pkg) \subseteq ToSet(all)
    BY <1>4, <2>1, BelowIs
  <2>3. QED
    BY <1>4, <2>2
<1>6. rest \in Seq(P) /\ Once(rest) /\ ToSet(rest) = Below(D, pkg) \ {pkg}
  BY <1>4, <1>5, CutOut DEF rest
<1>7. ResolveDependencies(D, pkg) = Reverse(rest)
  BY <1>3 DEF ResolveDependencies, walk
<1>8. QED
  BY <1>6, <1>7, Reversed, OnceCounted

\* A copy of a package that no package depends on has everything below the package,
\* the package itself included.
LEMMA BelowCopy ==
    ASSUME NEW D \in [Pkgs -> Seq(Pkgs)], NEW p \in Pkgs, NEW Q, Q = Pkgs \cup {"copy"},
           NEW E \in [Q -> Seq(Q)], E["copy"] = D[p], \A x \in Pkgs : E[x] = D[x]
    PROVE  Below(E, "copy") = Below(D, p)
<1>1. "copy" \in Q /\ Pkgs \subseteq Q
  OBVIOUS
<1>2. /\ ToSet(D[p]) \subseteq Below(D, p) /\ Below(D, p) \subseteq Pkgs
      /\ \A y \in Below(D, p) : ToSet(D[y]) \subseteq Below(D, p)
  BY BelowIs
<1>3. Below(E, "copy") \subseteq Below(D, p)
  <2>1. Below(D, p) \in SUBSET Q /\ ToSet(E["copy"]) \subseteq Below(D, p)
        /\ \A y \in Below(D, p) : ToSet(E[y]) \subseteq Below(D, p)
    BY <1>1, <1>2
  <2>2. \A S \in SUBSET Q : ToSet(E["copy"]) \subseteq S /\ (\A y \in S : ToSet(E[y]) \subseteq S)
                             => Below(E, "copy") \subseteq S
    BY <1>1, BelowIs
  <2>3. QED
    BY <2>1, <2>2
<1>4. Below(D, p) \subseteq Below(E, "copy")
  <2> DEFINE S == Below(E, "copy") \cap Pkgs
  <2>1. /\ ToSet(E["copy"]) \subseteq Below(E, "copy")
        /\ \A y \in Below(E, "copy") : ToSet(E[y]) \subseteq Below(E, "copy")
    BY <1>1, BelowIs
  <2>2. \A x \in Pkgs : ToSet(D[x]) \subseteq Pkgs
    BY BelowIs
  <2>3. S \in SUBSET Pkgs /\ ToSet(D[p]) \subseteq S /\ \A y \in S : ToSet(D[y]) \subseteq S
    BY <2>1, <2>2
  <2>4. Below(D, p) \subseteq S
    BY <2>3, BelowIs
  <2>5. QED
    BY <2>4
<1>5. QED
  BY <1>3, <1>4

LEMMA ReleaseResolved ==
    ASSUME ReleaseInv, NEW p \in Pkgs
    PROVE  /\ ToSet(ResolveDependencies(deps, p)) = Below(deps, p) \ {p}
           /\ Len(ResolveDependencies(deps, p)) = Cardinality(ToSet(ResolveDependencies(deps, p)))
           /\ DependenciesOfCopy(p) = Below(deps, p)
<1>1. deps \in [Pkgs -> Seq(Pkgs)] /\ IsFiniteSet(Pkgs) /\ "copy" \notin Pkgs
  BY PackageAssumption DEF ReleaseInv
<1>2. /\ ToSet(ResolveDependencies(deps, p)) = Below(deps, p) \ {p}
      /\ Len(ResolveDependencies(deps, p)) = Cardinality(ToSet(ResolveDependencies(deps, p)))
  BY <1>1, ResolverRight
<1> DEFINE Q == Pkgs \cup {"copy"}
           E == WithCopy(p)
<1>3. E \in [Q -> Seq(Q)] /\ E["copy"] = deps[p] /\ \A x \in Pkgs : E[x] = deps[x]
  <2>1. E["copy"] = deps[p] /\ \A x \in Pkgs : E[x] = deps[x]
    BY <1>1 DEF WithCopy
  <2>2. \A x \in Pkgs : deps[x] \in Seq(Q)
    <3>1. \A x \in Pkgs : deps[x] \in Seq(Pkgs)
      BY <1>1
    <3>2. Pkgs \subseteq Q
      OBVIOUS
    <3> HIDE DEF Q
    <3>3. QED
      BY <3>1, <3>2, SeqMonotonic
  <2>3. \A x \in Q : E[x] \in Seq(Q)
    BY <2>1, <2>2
  <2>4. E = [x \in Q |-> E[x]]
    BY DEF WithCopy
  <2> HIDE DEF Q, E
  <2>5. QED
    BY <2>1, <2>3, <2>4
<1>4. IsFiniteSet(Q) /\ "copy" \in Q
  BY <1>1, FS_AddElement
<1>5. ToSet(ResolveDependencies(E, "copy")) = Below(E, "copy") \ {"copy"}
  <2> HIDE DEF Q, E
  <2>1. QED
    BY <1>3, <1>4, ResolverRight
<1>6. Below(E, "copy") = Below(deps, p)
  <2>1. Q = Pkgs \cup {"copy"}
    OBVIOUS
  <2> HIDE DEF Q, E
  <2>2. QED
    BY <1>1, <1>3, <2>1, BelowCopy
<1>7. Below(deps, p) \subseteq Pkgs
  BY <1>1, BelowIs
<1>8. DependenciesOfCopy(p) = Below(deps, p)
  BY <1>1, <1>5, <1>6, <1>7 DEF DependenciesOfCopy
<1>9. QED
  BY <1>2, <1>8

LEMMA ResolverIsRight == IInv => ResolveCorrect /\ ResolverExact
<1> SUFFICES ASSUME ReleaseInv PROVE ResolveCorrect /\ ResolverExact
  BY DEF IInv
<1>1. QED
  BY ReleaseResolved DEF ResolveCorrect, ResolverExact

(***************************************************************************)
(* resolve_dependencies.go: for every release, whatever cycles its         *)
(* packages form and whatever the order of their lists, the resolver ends  *)
(* with every package that can be reached, each once, without the package  *)
(* it started from; on the copy that pkgKey makes of a package, with that  *)
(* package too when a cycle leads back to it.                              *)
(***************************************************************************)
THEOREM DependenciesResolved == Spec => []ResolveCorrect
<1>1. IInv => ResolveCorrect
  BY ResolverIsRight
<1>2. QED
  BY <1>1, InitIInv, IInvInductive, PTL DEF Spec

-----------------------------------------------------------------------------
(* What is in the index                                                    *)

\* A package can be reached through one of the dependencies, or is one.
LEMMA BelowUnfolds ==
    ASSUME NEW D \in [Pkgs -> Seq(Pkgs)], NEW p \in Pkgs
    PROVE  /\ Below(D, p) = UNION {{d} \cup Below(D, d) : d \in ToSet(D[p])}
           /\ ToSet(D[p]) \subseteq Pkgs
<1> DEFINE U == UNION {{d} \cup Below(D, d) : d \in ToSet(D[p])}
<1>1. /\ ToSet(D[p]) \subseteq Below(D, p) /\ Below(D, p) \subseteq Pkgs
      /\ \A y \in Below(D, p) : ToSet(D[y]) \subseteq Below(D, p)
  BY BelowIs
<1>2. \A d \in ToSet(D[p]) : /\ ToSet(D[d]) \subseteq Below(D, d) /\ Below(D, d) \subseteq Pkgs
                             /\ \A y \in Below(D, d) : ToSet(D[y]) \subseteq Below(D, d)
                             /\ Below(D, d) \subseteq Below(D, p)
  <2>1. ASSUME NEW d \in ToSet(D[p])
        PROVE  /\ ToSet(D[d]) \subseteq Below(D, d) /\ Below(D, d) \subseteq Pkgs
               /\ \A y \in Below(D, d) : ToSet(D[y]) \subseteq Below(D, d)
               /\ Below(D, d) \subseteq Below(D, p)
    <3>1. d \in Pkgs /\ ToSet(D[d]) \subseteq Below(D, p) /\ Below(D, p) \in SUBSET Pkgs
      BY <1>1
    <3>2. QED
      BY <1>1, <3>1, BelowIs
  <2>2. QED
    BY <2>1
<1>3. Below(D, p) \subseteq U
  <2>1. U \in SUBSET Pkgs /\ ToSet(D[p]) \subseteq U /\ \A y \in U : ToSet(D[y]) \subseteq U
    BY <1>1, <1>2
  <2> HIDE DEF U
  <2>2. QED
    BY <2>1, BelowIs
<1>4. QED
  BY <1>1, <1>2, <1>3

\* What the index gives out for a package
LEMMA FoundIsFresh ==
    ASSUME IndexInv, ResolverExact, NEW p \in Pkgs, NEW e \in Found(p)
    PROVE  e.parts = Tag({p} \cup Below(deps, p))
<1>1. e \in index /\ e.key = PkgKey(p)
  BY DEF Found
<1>2. e.key.pkg = p /\ e.key.fingerprint = fingerprint[p] /\ e.key.below = Tag(Below(deps, p))
  BY <1>1 DEF PkgKey, ResolverExact
<1>3. e.parts = {<<p, fingerprint[p]>>} \cup Tag(Below(deps, p))
  BY <1>1, <1>2 DEF IndexInv
<1>4. QED
  BY <1>3 DEF Tag

LEMMA SaveKeepsIndex ==
    ASSUME IndexInv, ResolverExact, NEW p \in Pkgs, NEW parts,
           parts = Tag({p} \cup Below(deps, p)), Save(p, parts)
    PROVE  IndexInv'
<1> DEFINE new == [key |-> PkgKey(p), parts |-> parts]
<1>1. index' \subseteq index \cup {new}
  BY DEF Save
<1>2. new.parts = parts /\ new.key.pkg = p /\ new.key.fingerprint = fingerprint[p]
      /\ new.key.below = Tag(Below(deps, p))
  BY DEF PkgKey, ResolverExact
<1>3. parts = {<<p, fingerprint[p]>>} \cup Tag(Below(deps, p))
  BY DEF Tag
<1> HIDE DEF new
<1>4. new.parts = {<<new.key.pkg, new.key.fingerprint>>} \cup new.key.below
  BY <1>2, <1>3
<1>5. QED
  BY <1>1, <1>4 DEF IndexInv

LEMMA CompileKeepsIndex ==
    ASSUME IInv, IndexInv, ResolverExact, CompileNext
    PROVE  IndexInv'
<1>1. Current \in Pkgs /\ deps \in [Pkgs -> Seq(Pkgs)]
  <2>1. sortedPackages \in Seq(Pkgs) /\ next \in 1 .. Len(sortedPackages)
    BY DEF CompileNext, Compiling, IInv, TypeOK, CompileInv
  <2>2. QED
    BY <2>1, ElementOfSeq DEF Current, IInv, ReleaseInv
<1>2. CASE CompiledAlready
  BY <1>2 DEF CompiledAlready, IndexInv
<1>3. CASE FromCompiledRelease
  BY <1>1, <1>3, SaveKeepsIndex DEF FromCompiledRelease
<1>4. CASE FromSource
  <2> DEFINE D == ToSet(deps[Current])
             parts == Tag({Current}) \cup UNION {e.parts : e \in UNION {Found(d) : d \in D}}
  <2>1. /\ Below(deps, Current) = UNION {{d} \cup Below(deps, d) : d \in D}
        /\ D \subseteq Pkgs
    BY <1>1, BelowUnfolds
  <2>2. \A d \in D : Found(d) # {}
    BY <1>4 DEF FromSource, DependenciesFound
  <2>3. Save(Current, parts)
    BY <1>4 DEF FromSource
  <2> HIDE DEF D
  <2>4. \A d \in D : \A e \in Found(d) : e.parts = Tag({d} \cup Below(deps, d))
    BY <2>1, FoundIsFresh
  <2>5. UNION {e.parts : e \in UNION {Found(d) : d \in D}} = Tag(Below(deps, Current))
    <3>1. ASSUME NEW x \in UNION {e.parts : e \in UNION {Found(d) : d \in D}}
          PROVE  x \in Tag(Below(deps, Current))
      <4>1. PICK d \in D : \E e \in Found(d) : x \in e.parts
        OBVIOUS
      <4>2. x \in Tag({d} \cup Below(deps, d))
        BY <2>4, <4>1
      <4>3. {d} \cup Below(deps, d) \subseteq Below(deps, Current)
        BY <2>1
      <4>4. QED
        BY <4>2, <4>3 DEF Tag
    <3>2. ASSUME NEW x \in Tag(Below(deps, Current))
          PROVE  x \in UNION {e.parts : e \in UNION {Found(d) : d \in D}}
      <4>1. PICK q \in Below(deps, Current) : x = <<q, fingerprint[q]>>
        BY DEF Tag
      <4>2. PICK d \in D : q \in {d} \cup Below(deps, d)
        BY <2>1
      <4>3. PICK e \in Found(d) : TRUE
        BY <2>2
      <4>4. x \in e.parts
        BY <2>4, <4>1, <4>2 DEF Tag
      <4>5. QED
        BY <4>4
    <3>3. QED
      BY <3>1, <3>2
  <2>6. parts = Tag({Current} \cup Below(deps, Current))
    BY <2>5 DEF Tag
  <2> HIDE DEF parts
  <2>7. QED
    BY <1>1, <2>3, <2>6, SaveKeepsIndex
<1>5. QED
  BY <1>2, <1>3, <1>4 DEF CompileNext

LEMMA IndexInductive == IInv /\ IndexInv /\ [Next]_vars => IndexInv'
<1> SUFFICES ASSUME IInv, IndexInv, [Next]_vars PROVE IndexInv'
  OBVIOUS
<1>1. CASE CompileNext
  BY <1>1, CompileKeepsIndex, ResolverIsRight
<1>2. CASE ~CompileNext
  <2>1. index' \subseteq index
    BY <1>2 DEF Next, vars, Begin, Interrupted, NewRelease, ResolvePackage, BeginSort,
         SortNext, SortDone, DependencyMissing, Done
  <2>2. QED
    BY <2>1 DEF IndexInv
<1>3. QED
  BY <1>1, <1>2

(***************************************************************************)
(* compiled_package_repo.go: no package of an index that outlives the      *)
(* process is used that was compiled against an earlier version of any     *)
(* package below it, however deep: what the key is made of determines what *)
(* the package was compiled from.                                          *)
(***************************************************************************)
THEOREM IndexIsFresh == Spec => []NoStalePackage
<1>1. IInv /\ IndexInv => NoStalePackage
  <2> SUFFICES ASSUME IInv, IndexInv, NEW p \in ToSet(sortedPackages), NEW e \in Found(p)
               PROVE  e.parts = Tag({p} \cup Below(deps, p))
    BY DEF NoStalePackage
  <2>1. sortedPackages \in Seq(Pkgs)
    BY DEF IInv, TypeOK
  <2>2. PICK i \in 1 .. Len(sortedPackages) : p = sortedPackages[i]
    BY <2>1, Member
  <2>3. p \in Pkgs
    BY <2>1, <2>2, ElementOfSeq
  <2>4. QED
    BY <2>3, FoundIsFresh, ResolverIsRight
<1>2. QED
  BY <1>1, InitIInv, IInvInductive, IndexInductive, PTL DEF Spec

=============================================================================
