------------------------ MODULE InstanceStateProofs -------------------------
(***************************************************************************)
(* The safety properties of InstanceState, for any instances: what a       *)
(* command leaves of the rendered templates, what it means that jobs are   *)
(* reported to be up, and that the jobs started are those configured.      *)
(***************************************************************************)
EXTENDS InstanceState, WellFoundedInduction, SequenceTheorems, TLAPS

Before == {"initial", "state", "address"}
Rendered == {"render", "compress", "upload"}
Agent == {"compile", "stop", "apply", "pre-start", "start", "wait", "post-start"}

\* Every temporary file there is has an owner that removes it, or could not be removed,
\* except the archive until its digest is known.
TempInv ==
    /\ phase \in Before \cup Rendered \cup Agent \cup {"digest", "done"}
    /\ phase \in Before \cup Rendered \cup Agent => temp \subseteq deferred \cup undeleted
    /\ phase = "digest" => temp \subseteq deferred \cup undeleted \cup {"archive"}
    /\ phase \in Before \cup Agent => deferred = {}
    /\ phase # "done" => result = "none"

CleanInv == TempInv /\ NothingRenderedLeft

\* Jobs seen to run did run; the wait is passed without that only when it has no attempt.
RunInv ==
    /\ instance \in Instances
    /\ jobs = "running" => ran
    /\ phase = "post-start" \/ result = "ok" => ran \/ maxAttempts = 0

USE DEF buildVars, tempVars, agentVars, outcome

-----------------------------------------------------------------------------
LEMMA CleanInit == Init => CleanInv
  BY DEF Init, CleanInv, TempInv, NothingRenderedLeft, Before, Rendered, Agent

LEMMA CleanStep == CleanInv /\ [Next]_vars => CleanInv'
<1> SUFFICES ASSUME CleanInv, [Next]_vars PROVE CleanInv'
  OBVIOUS
<1> USE DEF CleanInv, TempInv, NothingRenderedLeft, ArchiveIsNobodys, Before, Rendered, Agent
<1>1. CASE ApplyInitial \/ GetState \/ ChooseAddress
  BY <1>1 DEF ApplyInitial, GetState, ChooseAddress, Leave
<1>2. CASE RenderJob
  BY <1>2 DEF RenderJob
<1>3. CASE RenderJobFails
  BY <1>3 DEF RenderJobFails, Leave
<1>4. CASE AllRendered \/ Compress
  BY <1>4 DEF AllRendered, Compress
<1>5. CASE CompressFails
  BY <1>5 DEF CompressFails, Leave
<1>6. CASE DigestArchive
  BY <1>6 DEF DigestArchive
<1>7. CASE DigestArchiveFails \/ UploadFails \/ CompileFails \/ AgentFails
  BY <1>7 DEF DigestArchiveFails, UploadFails, CompileFails, AgentFails, Fail, RemoveDeferred, Leave
<1>8. CASE Upload
  BY <1>8 DEF Upload, RemoveDeferred
<1>9. CASE (\E p \in DOMAIN name : CompilePackage(p)) \/ AllCompiled
  BY <1>9 DEF CompilePackage, AllCompiled
<1>10. CASE StopJobs \/ Apply \/ PreStart \/ StartJobs \/ JobsChange
  BY <1>10 DEF StopJobs, Apply, PreStart, StartJobs, JobsChange
<1>11. CASE SeenToRun \/ NotRunning \/ PostStart \/ Killed
  BY <1>11 DEF SeenToRun, NotRunning, PostStart, Killed, Leave
<1>12. CASE UNCHANGED vars
  BY <1>12 DEF vars
<1> QED
  BY <1>1, <1>2, <1>3, <1>4, <1>5, <1>6, <1>7, <1>8, <1>9, <1>10, <1>11, <1>12 DEF Next

(***************************************************************************)
(* For any templates, in any number: of what was rendered, a command that  *)
(* was not killed leaves on this machine only what could not be removed,   *)
(* and the archive only when packing it or its digest failed               *)
(* (builder.go, rendered_job_list_compressor.go).                          *)
(***************************************************************************)
THEOREM RenderedIsRemoved == Spec => []NothingRenderedLeft
<1>1. CleanInv => NothingRenderedLeft
  BY DEF CleanInv
<1> QED
  BY <1>1, CleanInit, CleanStep, PTL DEF Spec

-----------------------------------------------------------------------------
LEMMA RunInit == Init => RunInv
  BY DEF Init, RunInv

LEMMA RunStep == RunInv /\ [Next]_vars => RunInv'
<1> SUFFICES ASSUME RunInv, [Next]_vars PROVE RunInv'
  OBVIOUS
<1> USE DEF RunInv, maxAttempts
<1>1. CASE ApplyInitial \/ GetState \/ ChooseAddress
  BY <1>1 DEF ApplyInitial, GetState, ChooseAddress, Leave
<1>2. CASE RenderJob \/ RenderJobFails \/ AllRendered
  BY <1>2 DEF RenderJob, RenderJobFails, AllRendered, Leave
<1>3. CASE Compress \/ CompressFails \/ DigestArchive \/ Upload
  BY <1>3 DEF Compress, CompressFails, DigestArchive, Upload, Leave
<1>4. CASE DigestArchiveFails \/ UploadFails \/ CompileFails \/ AgentFails
  BY <1>4 DEF DigestArchiveFails, UploadFails, CompileFails, AgentFails, Fail, Leave
<1>5. CASE (\E p \in DOMAIN name : CompilePackage(p)) \/ AllCompiled
  BY <1>5 DEF CompilePackage, AllCompiled
<1>6. CASE StopJobs \/ Apply \/ PreStart \/ StartJobs
  BY <1>6 DEF StopJobs, Apply, PreStart, StartJobs
<1>7. CASE JobsChange
  <2>1. UNCHANGED <<instance, phase, result>> /\ (ran' <=> ran \/ jobs' = "running")
    BY <1>7 DEF JobsChange
  <2> QED
    BY <2>1
<1>8. CASE SeenToRun
  BY <1>8 DEF SeenToRun
<1>9. CASE NotRunning \/ PostStart \/ Killed
  BY <1>9 DEF NotRunning, PostStart, Killed, Leave
<1>10. CASE UNCHANGED vars
  BY <1>10 DEF vars
<1> QED
  BY <1>1, <1>2, <1>3, <1>4, <1>5, <1>6, <1>7, <1>8, <1>9, <1>10 DEF Next

(***************************************************************************)
(* For any watch time: jobs that are reported to be up were running, or    *)
(* the watch time was shorter than a second                                *)
(* (deployment/instance/instance.go waitUntilJobsAreRunning).              *)
(***************************************************************************)
THEOREM UpHasRun == Spec => []UpMeansRunning
<1>1. RunInv => UpMeansRunning
  <2> SUFFICES ASSUME RunInv, result = "ok" PROVE ran \/ instance.watch.end - instance.watch.start < 1000
    BY DEF UpMeansRunning
  <2>1. CASE maxAttempts = 0
    <3> DEFINE watched == instance.watch.end - instance.watch.start
    <3>1. watched \in Int
      BY InstanceAssumption DEF RunInv
    <3>2. watched \div 1000 = 0
      BY <2>1 DEF maxAttempts
    <3> HIDE DEF watched
    <3>3. watched < 1000
      BY <3>1, <3>2
    <3> QED
      BY <3>3 DEF watched
  <2> QED
    BY <2>1 DEF RunInv
<1> QED
  BY <1>1, RunInit, RunStep, PTL DEF Spec

-----------------------------------------------------------------------------
(* The packages collected for the jobs                                     *)

\* A set of natural numbers has a least one.
LEMMA Least == ASSUME NEW T \in SUBSET Nat, T # {} PROVE \E x \in T : \A y \in T : x <= y
<1>1. PICK k \in T : \A l \in T : ~ (<<l, k>> \in OpToRel(<, Nat))
  BY NatLessThanWellFounded, WFMin
<1>2. \A l \in T : ~ (l < k)
  BY <1>1 DEF OpToRel
<1>3. QED
  BY <1>2

\* A loop of n rounds over a state in M has a run.
Rounds(M, a, step, n, f) ==
    /\ f \in [0 .. n -> M] /\ f[0] = a
    /\ \A k \in 1 .. n : f[k] = step[<<k, f[k - 1]>>]

LEMMA LoopRuns ==
    ASSUME NEW M, NEW a \in M, NEW n \in Nat, NEW step \in [(1 .. n) \X M -> M]
    PROVE  \E f : Rounds(M, a, step, n, f)
<1> DEFINE Bad == {k \in Nat : k <= n /\ ~ \E f : Rounds(M, a, step, k, f)}
<1> SUFFICES ASSUME Bad # {} PROVE FALSE
  OBVIOUS
<1>1. PICK m \in Bad : \A k \in Bad : m <= k
  BY Least
<1>2. m # 0
  <2> DEFINE z == [k \in 0 .. 0 |-> a]
  <2>1. Rounds(M, a, step, 0, z)
    BY DEF Rounds
  <2>2. QED
    BY <2>1
<1>3. m - 1 \in Nat /\ m - 1 <= n /\ m \in 1 .. n /\ m - 1 \notin Bad
  BY <1>1, <1>2
<1>4. PICK f : Rounds(M, a, step, m - 1, f)
  BY <1>3
<1> DEFINE g == [k \in 0 .. m |-> IF k = m THEN step[<<m, f[m - 1]>>] ELSE f[k]]
<1>5. m - 1 \in 0 .. m - 1 /\ f \in [0 .. m - 1 -> M] /\ f[0] = a
      /\ \A k \in 1 .. m - 1 : f[k] = step[<<k, f[k - 1]>>]
  BY <1>3, <1>4 DEF Rounds
<1>6. step[<<m, f[m - 1]>>] \in M
  BY <1>3, <1>5
<1>7. g \in [0 .. m -> M]
  <2>1. \A k \in 0 .. m : k # m => k \in 0 .. m - 1
    BY <1>3
  <2>2. QED
    BY <1>5, <1>6, <2>1
<1>8. g[0] = a
  BY <1>2, <1>3, <1>5
<1>9. ASSUME NEW k \in 1 .. m PROVE g[k] = step[<<k, g[k - 1]>>]
  <2>1. k - 1 \in 0 .. m /\ k - 1 # m /\ k \in 0 .. m
    BY <1>3
  <2>2. g[k - 1] = f[k - 1]
    BY <2>1
  <2>3. k # m => k \in 1 .. m - 1
    BY <1>3
  <2>4. QED
    BY <1>5, <2>1, <2>2, <2>3
<1>10. Rounds(M, a, step, m, g)
  <2> HIDE DEF g
  <2>1. QED
    BY <1>7, <1>8, <1>9 DEF Rounds
<1>11. QED
  BY <1>1, <1>10


\* What is collected once the packages in S have been added: something for every name
\* that one of them or of their dependencies has, and nothing else
Holds(map, S) ==
    LET around == UNION {{p} \cup deps[p] : p \in S}
    IN  /\ \A n \in DOMAIN map : map[n] \in around /\ name[map[n]] = n
        /\ \A p \in around : name[p] \in DOMAIN map

Packages == DOMAIN name
PackageMaps == UNION {[N -> Packages] : N \in SUBSET {name[p] : p \in Packages}}

LEMMA PackageTypes == instance \in Instances => deps \in [Packages -> SUBSET Packages]
  BY InstanceAssumption DEF Packages, name, deps

LEMMA AddTyped ==
    ASSUME instance \in Instances, NEW map \in PackageMaps, NEW p \in Packages
    PROVE  AddPackage(map, p) \in PackageMaps
<1> DEFINE N == DOMAIN map \cup {name[d] : d \in {p} \cup deps[p]}
           m == AddPackage(map, p)
<1>1. deps[p] \subseteq Packages
  BY PackageTypes
<1>2. /\ DOMAIN map \subseteq {name[q] : q \in Packages}
      /\ \A n \in DOMAIN map : map[n] \in Packages
  BY DEF PackageMaps
<1>3. N \in SUBSET {name[q] : q \in Packages}
  BY <1>1, <1>2
<1>4. m = [n \in N |-> m[n]]
  BY DEF AddPackage
<1>5. ASSUME NEW n \in N PROVE m[n] \in Packages
  <2>1. m[n] = IF n = name[p] THEN p
               ELSE IF n \in DOMAIN map THEN map[n] ELSE CHOOSE d \in deps[p] : name[d] = n
    BY DEF AddPackage
  <2>2. n # name[p] /\ n \notin DOMAIN map => \E d \in deps[p] : name[d] = n
    OBVIOUS
  <2>3. QED
    BY <1>1, <1>2, <2>1, <2>2
<1> HIDE DEF N, m
<1>6. m \in [N -> Packages]
  BY <1>4, <1>5
<1>7. QED
  BY <1>3, <1>6 DEF PackageMaps, m

LEMMA AddHolds ==
    ASSUME NEW map, NEW S, NEW p, Holds(map, S)
    PROVE  Holds(AddPackage(map, p), S \cup {p})
<1> DEFINE around == UNION {{q} \cup deps[q] : q \in S}
           m == AddPackage(map, p)
           more == UNION {{q} \cup deps[q] : q \in S \cup {p}}
<1>1. /\ \A n \in DOMAIN map : map[n] \in around /\ name[map[n]] = n
      /\ \A q \in around : name[q] \in DOMAIN map
  BY DEF Holds
<1>2. more = around \cup {p} \cup deps[p]
  OBVIOUS
<1>3. DOMAIN m = DOMAIN map \cup {name[d] : d \in {p} \cup deps[p]}
  BY DEF AddPackage
<1>4. ASSUME NEW n \in DOMAIN m PROVE m[n] \in more /\ name[m[n]] = n
  <2>1. m[n] = IF n = name[p] THEN p
               ELSE IF n \in DOMAIN map THEN map[n] ELSE CHOOSE d \in deps[p] : name[d] = n
    BY <1>3 DEF AddPackage
  <2>2. n # name[p] /\ n \notin DOMAIN map => \E d \in deps[p] : name[d] = n
    BY <1>3
  <2> HIDE DEF m, around, more
  <2>3. QED
    BY <1>1, <1>2, <2>1, <2>2
<1>5. ASSUME NEW q \in more PROVE name[q] \in DOMAIN m
  BY <1>1, <1>2, <1>3
<1>6. QED
  BY <1>4, <1>5 DEF Holds

\* The loop over the packages of a job
PackageLoop(map, list, n, f) ==
    f[0] = map /\ \A k \in 1 .. n : f[k] = AddPackage(f[k - 1], list[k])

EndsPackageLoop(map, list, n) ==
    \E f : PackageLoop(map, list, n, f) /\ AddPackages(map, list) = f[n]

LEMMA PackageLoopEnds ==
    ASSUME instance \in Instances, NEW map \in PackageMaps, NEW list \in Seq(Packages)
    PROVE  EndsPackageLoop(map, list, Len(list))
<1> DEFINE step == [x \in (1 .. Len(list)) \X PackageMaps |-> AddPackage(x[2], list[x[1]])]
<1>1. Len(list) \in Nat
  OBVIOUS
<1>2. step \in [(1 .. Len(list)) \X PackageMaps -> PackageMaps]
  <2>1. ASSUME NEW x \in (1 .. Len(list)) \X PackageMaps PROVE AddPackage(x[2], list[x[1]]) \in PackageMaps
    <3>1. x[1] \in 1 .. Len(list) /\ x[2] \in PackageMaps
      OBVIOUS
    <3>2. list[x[1]] \in Packages
      BY <3>1, ElementOfSeq
    <3>3. QED
      BY <3>1, <3>2, AddTyped
  <2>2. QED
    BY <2>1
<1>3. PICK f : Rounds(PackageMaps, map, step, Len(list), f)
  <2> HIDE DEF step
  <2>1. QED
    BY <1>1, <1>2, LoopRuns
<1>4. \A k \in 1 .. Len(list) : f[k] = AddPackage(f[k - 1], list[k])
  <2>1. ASSUME NEW k \in 1 .. Len(list) PROVE f[k] = AddPackage(f[k - 1], list[k])
    <3>1. f[k] = step[<<k, f[k - 1]>>] /\ k - 1 \in 0 .. Len(list) /\ f \in [0 .. Len(list) -> PackageMaps]
      <4> HIDE DEF step
      <4>1. QED
        BY <1>1, <1>3 DEF Rounds
    <3>2. <<k, f[k - 1]>> \in (1 .. Len(list)) \X PackageMaps
      BY <3>1
    <3>3. step[<<k, f[k - 1]>>] = AddPackage(f[k - 1], list[k])
      BY <3>2
    <3>4. QED
      BY <3>1, <3>3
  <2>2. QED
    BY <2>1
<1>5. \E g : g = [k \in 0 .. Len(list) |-> IF k = 0 THEN map ELSE AddPackage(g[k - 1], list[k])]
  <2>1. \A k \in 0 .. Len(list) : f[k] = IF k = 0 THEN map ELSE AddPackage(f[k - 1], list[k])
    BY <1>1, <1>3, <1>4 DEF Rounds
  <2>2. f = [k \in 0 .. Len(list) |-> f[k]]
    BY <1>3 DEF Rounds
  <2>3. QED
    BY <2>1, <2>2
<1> DEFINE added[k \in 0 .. Len(list)] == IF k = 0 THEN map ELSE AddPackage(added[k - 1], list[k])
<1>6. added = [k \in 0 .. Len(list) |-> IF k = 0 THEN map ELSE AddPackage(added[k - 1], list[k])]
  BY <1>5, Zenon
<1>7. AddPackages(map, list) = added[Len(list)]
  BY Zenon DEF AddPackages
<1> HIDE DEF added
<1>8. \A k \in 0 .. Len(list) : added[k] = IF k = 0 THEN map ELSE AddPackage(added[k - 1], list[k])
  BY <1>6, Zenon
<1>9. 0 \in 0 .. Len(list) /\ \A k \in 1 .. Len(list) : k \in 0 .. Len(list) /\ k # 0
  OBVIOUS
<1>10. PackageLoop(map, list, Len(list), added)
  BY <1>8, <1>9 DEF PackageLoop
<1>11. QED
  BY <1>7, <1>10, Zenon DEF EndsPackageLoop

LEMMA AddPackagesTyped ==
    ASSUME instance \in Instances, NEW map \in PackageMaps, NEW list \in Seq(Packages)
    PROVE  AddPackages(map, list) \in PackageMaps
<1> DEFINE n == Len(list)
<1>1. n \in Nat /\ \A k \in 1 .. n : list[k] \in Packages
  BY ElementOfSeq
<1>2. PICK f : PackageLoop(map, list, n, f) /\ AddPackages(map, list) = f[n]
  <2>1. EndsPackageLoop(map, list, n)
    BY PackageLoopEnds
  <2>2. QED
    BY <2>1, Zenon DEF EndsPackageLoop
<1> HIDE DEF n
<1>3. \A k \in 0 .. n : f[k] \in PackageMaps
  <2> DEFINE Bad == {k \in Nat : k <= n /\ f[k] \notin PackageMaps}
  <2> SUFFICES ASSUME Bad # {} PROVE FALSE
    BY <1>1
  <2>1. PICK m \in Bad : \A k \in Bad : m <= k
    BY Least
  <2>2. m # 0 /\ \A k \in 1 .. n : f[k] = AddPackage(f[k - 1], list[k])
    BY <1>2 DEF PackageLoop
  <2>3. m \in 1 .. n /\ m - 1 \in Nat /\ m - 1 <= n /\ m - 1 \notin Bad
    BY <1>1, <2>1, <2>2
  <2>4. f[m - 1] \in PackageMaps /\ list[m] \in Packages /\ f[m] = AddPackage(f[m - 1], list[m])
    BY <1>1, <2>2, <2>3
  <2> HIDE DEF Bad
  <2>5. f[m] \in PackageMaps
    BY <2>4, AddTyped
  <2>6. QED
    BY <2>1, <2>5 DEF Bad
<1>4. QED
  BY <1>1, <1>2, <1>3

LEMMA AddPackagesRight ==
    ASSUME instance \in Instances, NEW map \in PackageMaps, NEW S, Holds(map, S), NEW list \in Seq(Packages)
    PROVE  Holds(AddPackages(map, list), S \cup ToSet(list))
<1> DEFINE n == Len(list)
           Part(k) == {list[j] : j \in 1 .. k}
<1>1. n \in Nat /\ DOMAIN list = 1 .. n
  OBVIOUS
<1>2. PICK f : PackageLoop(map, list, n, f) /\ AddPackages(map, list) = f[n]
  <2>1. EndsPackageLoop(map, list, n)
    BY PackageLoopEnds
  <2>2. QED
    BY <2>1, Zenon DEF EndsPackageLoop
<1>3. ToSet(list) = Part(n)
  BY <1>1 DEF ToSet
<1> HIDE DEF n
<1> DEFINE Right(k) == Holds(f[k], S \cup Part(k))
<1>4. Right(0)
  <2>1. S \cup Part(0) = S
    OBVIOUS
  <2>2. f[0] = map
    BY <1>2 DEF PackageLoop
  <2> HIDE DEF Part
  <2>3. QED
    BY <2>1, <2>2
<1>5. ASSUME NEW k \in 1 .. n, Right(k - 1) PROVE Right(k)
  <2>1. f[k] = AddPackage(f[k - 1], list[k])
    BY <1>2 DEF PackageLoop
  <2>2. S \cup Part(k) = (S \cup Part(k - 1)) \cup {list[k]}
    BY <1>1
  <2> HIDE DEF Part
  <2>3. QED
    BY <1>5, <2>1, <2>2, AddHolds
<1> HIDE DEF Right
<1>6. Right(n)
  <2> DEFINE Bad == {k \in Nat : k <= n /\ ~Right(k)}
  <2> SUFFICES ASSUME Bad # {} PROVE FALSE
    BY <1>1
  <2>1. PICK m \in Bad : \A k \in Bad : m <= k
    BY Least
  <2>2. m # 0
    BY <1>4
  <2>3. m \in 1 .. n /\ m - 1 \in Nat /\ m - 1 <= n /\ m - 1 \notin Bad
    BY <1>1, <2>1, <2>2
  <2>4. QED
    BY <1>5, <2>1, <2>3
<1>7. QED
  <2> HIDE DEF Part
  <2>1. QED
    BY <1>2, <1>3, <1>6 DEF Right

\* The loop over the jobs
JobLoop(n, f) ==
    f[0] = <<>> /\ \A i \in 1 .. n : f[i] = AddPackages(f[i - 1], templates[i].packages)

EndsJobLoop(n) == \E f : JobLoop(n, f) /\ packageMap = f[n]

LEMMA NothingYet == <<>> \in PackageMaps /\ Holds(<<>>, {})
<1>1. <<>> \in [{} -> Packages]
  OBVIOUS
<1>2. {} \in SUBSET {name[p] : p \in Packages}
  OBVIOUS
<1>3. DOMAIN <<>> = {}
  OBVIOUS
<1>4. QED
  BY <1>1, <1>2, <1>3 DEF PackageMaps, Holds

LEMMA JobLoopEnds == ASSUME instance \in Instances PROVE EndsJobLoop(Len(templates))
<1> DEFINE n == Len(templates)
<1>1. n \in Nat /\ \A i \in 1 .. n : templates[i].packages \in Seq(Packages)
  BY InstanceAssumption DEF templates, Packages, name
<1> HIDE DEF n
<1> DEFINE step == [x \in (1 .. n) \X PackageMaps |-> AddPackages(x[2], templates[x[1]].packages)]
<1>2. step \in [(1 .. n) \X PackageMaps -> PackageMaps]
  <2>1. ASSUME NEW x \in (1 .. n) \X PackageMaps
        PROVE  AddPackages(x[2], templates[x[1]].packages) \in PackageMaps
    <3>1. x[1] \in 1 .. n /\ x[2] \in PackageMaps
      OBVIOUS
    <3>2. templates[x[1]].packages \in Seq(Packages)
      BY <1>1, <3>1
    <3>3. QED
      BY <3>1, <3>2, AddPackagesTyped
  <2>2. QED
    BY <2>1
<1>3. PICK f : Rounds(PackageMaps, <<>>, step, n, f)
  <2> HIDE DEF step
  <2>1. QED
    BY <1>1, <1>2, LoopRuns, NothingYet
<1>4. \A i \in 1 .. n : f[i] = AddPackages(f[i - 1], templates[i].packages)
  <2>1. ASSUME NEW i \in 1 .. n PROVE f[i] = AddPackages(f[i - 1], templates[i].packages)
    <3>1. f[i] = step[<<i, f[i - 1]>>] /\ i - 1 \in 0 .. n /\ f \in [0 .. n -> PackageMaps]
      <4> HIDE DEF step
      <4>1. QED
        BY <1>1, <1>3 DEF Rounds
    <3>2. <<i, f[i - 1]>> \in (1 .. n) \X PackageMaps
      BY <3>1
    <3>3. step[<<i, f[i - 1]>>] = AddPackages(f[i - 1], templates[i].packages)
      BY <3>2
    <3>4. QED
      BY <3>1, <3>3
  <2>2. QED
    BY <2>1
<1>5. \E g : g = [i \in 0 .. n |-> IF i = 0 THEN <<>> ELSE AddPackages(g[i - 1], templates[i].packages)]
  <2>1. \A i \in 0 .. n : f[i] = IF i = 0 THEN <<>> ELSE AddPackages(f[i - 1], templates[i].packages)
    BY <1>1, <1>3, <1>4 DEF Rounds
  <2>2. f = [i \in 0 .. n |-> f[i]]
    BY <1>3 DEF Rounds
  <2>3. QED
    BY <2>1, <2>2
<1> DEFINE added[i \in 0 .. n] == IF i = 0 THEN <<>> ELSE AddPackages(added[i - 1], templates[i].packages)
<1>6. added = [i \in 0 .. n |-> IF i = 0 THEN <<>> ELSE AddPackages(added[i - 1], templates[i].packages)]
  BY <1>5, Zenon
<1>7. packageMap = added[n]
  BY Zenon DEF packageMap, n
<1> HIDE DEF added
<1>8. \A i \in 0 .. n : added[i] = IF i = 0 THEN <<>> ELSE AddPackages(added[i - 1], templates[i].packages)
  BY <1>6, Zenon
<1>9. 0 \in 0 .. n /\ \A i \in 1 .. n : i \in 0 .. n /\ i # 0
  BY <1>1
<1>10. JobLoop(n, added)
  BY <1>8, <1>9 DEF JobLoop
<1>11. QED
  BY <1>7, <1>10, Zenon DEF EndsJobLoop, n

\* The packages of the job templates
Asked == UNION {ToSet(templates[i].packages) : i \in DOMAIN templates}

LEMMA PackageMapRight == ASSUME instance \in Instances PROVE Holds(packageMap, Asked)
<1> DEFINE n == Len(templates)
           Part(k) == UNION {ToSet(templates[i].packages) : i \in 1 .. k}
<1>1. /\ n \in Nat /\ DOMAIN templates = 1 .. n
      /\ \A i \in 1 .. n : templates[i].packages \in Seq(Packages)
  BY InstanceAssumption DEF templates, Packages, name
<1>2. PICK f : JobLoop(n, f) /\ packageMap = f[n]
  <2>1. EndsJobLoop(n)
    BY JobLoopEnds
  <2>2. QED
    BY <2>1, Zenon DEF EndsJobLoop
<1>3. Asked = Part(n)
  BY <1>1 DEF Asked
<1> HIDE DEF n
<1> DEFINE Right(k) == f[k] \in PackageMaps /\ Holds(f[k], Part(k))
<1>4. Right(0)
  <2>1. Part(0) = {}
    OBVIOUS
  <2>2. f[0] = <<>>
    BY <1>2 DEF JobLoop
  <2> HIDE DEF Part
  <2>3. QED
    BY <2>1, <2>2, NothingYet
<1>5. ASSUME NEW k \in 1 .. n, Right(k - 1) PROVE Right(k)
  <2>1. f[k] = AddPackages(f[k - 1], templates[k].packages)
    BY <1>2 DEF JobLoop
  <2>2. Part(k) = Part(k - 1) \cup ToSet(templates[k].packages)
    <3>1. 1 .. k = (1 .. k - 1) \cup {k}
      BY <1>1
    <3>2. QED
      BY <3>1
  <2> HIDE DEF Part
  <2>3. QED
    BY <1>1, <1>5, <2>1, <2>2, AddPackagesTyped, AddPackagesRight
<1> HIDE DEF Right
<1>6. Right(n)
  <2> DEFINE Bad == {k \in Nat : k <= n /\ ~Right(k)}
  <2> SUFFICES ASSUME Bad # {} PROVE FALSE
    BY <1>1
  <2>1. PICK m \in Bad : \A k \in Bad : m <= k
    BY Least
  <2>2. m # 0
    BY <1>4
  <2>3. m \in 1 .. n /\ m - 1 \in Nat /\ m - 1 <= n /\ m - 1 \notin Bad
    BY <1>1, <2>1, <2>2
  <2>4. QED
    BY <1>5, <2>1, <2>3
<1>7. QED
  <2> HIDE DEF Part
  <2>1. QED
    BY <1>2, <1>3, <1>6 DEF Right

\* What is sent to the agent has a package for each name the jobs need.
LEMMA CollectedIsUsed ==
    ASSUME instance \in Instances
    PROVE  /\ ToCompile \subseteq Used
           /\ \A i \in DOMAIN templates : \A p \in Needed(templates[i]) : \E q \in ToCompile : name[q] = name[p]
<1> DEFINE around == UNION {{p} \cup deps[p] : p \in Asked}
           collected == {packageMap[n] : n \in DOMAIN packageMap}
<1>1. /\ \A n \in DOMAIN packageMap : packageMap[n] \in around /\ name[packageMap[n]] = n
      /\ \A p \in around : name[p] \in DOMAIN packageMap
  BY PackageMapRight DEF Holds
<1>2. around = UNION {Needed(templates[i]) : i \in DOMAIN templates}
  BY DEF Needed, Asked
<1>3. ToCompile = collected \cup UNION {deps[p] : p \in collected}
  BY DEF ToCompile
<1>4. Used = around \cup UNION {deps[p] : p \in around}
  BY <1>2 DEF Used
<1> HIDE DEF around
<1>5. collected \subseteq around
  BY <1>1
<1>6. ToCompile \subseteq Used
  <2> HIDE DEF collected
  <2>1. QED
    BY <1>3, <1>4, <1>5
<1>7. ASSUME NEW i \in DOMAIN templates, NEW p \in Needed(templates[i])
      PROVE  \E q \in ToCompile : name[q] = name[p]
  <2>1. p \in around
    BY <1>2
  <2>2. packageMap[name[p]] \in collected /\ name[packageMap[name[p]]] = name[p]
    BY <1>1, <2>1
  <2>3. QED
    BY <1>3, <2>2
<1>8. QED
  BY <1>6, <1>7

\* The last of the compiled packages with a name
LEMMA LastNamed ==
    ASSUME NEW P, NEW s \in Seq(P), NEW n, NEW k \in 1 .. Len(s), name[s[k]] = n
    PROVE  LET l == SelectLastInSeq(s, LAMBDA p : name[p] = n)
           IN  l \in 1 .. Len(s) /\ name[s[l]] = n
<1> DEFINE I == {i \in 1 .. Len(s) : name[s[i]] = n}
           T == {x \in Nat : Len(s) - x \in I}
<1>1. Len(s) \in Nat
  OBVIOUS
<1>2. I \subseteq 1 .. Len(s) /\ k \in I /\ \A i \in I : name[s[i]] = n
  OBVIOUS
<1>3. SelectLastInSeq(s, LAMBDA p : name[p] = n) = Max(I)
  <2>1. SelectLastInSeq(s, LAMBDA p : name[p] = n) = IF I # {} THEN Max(I) ELSE 0
    BY DEF SelectLastInSeq
  <2>2. QED
    BY <1>2, <2>1
<1> HIDE DEF I
<1> DEFINE N == Len(s)
<1>4. N \in Nat /\ I \subseteq 1 .. N /\ T = {x \in Nat : N - x \in I}
  BY <1>1, <1>2
<1> HIDE DEF N, T
<1>5. N - k \in Nat /\ N - (N - k) = k
  BY <1>2, <1>4
<1>6. PICK x \in T : \A y \in T : x <= y
  <2>1. T \in SUBSET Nat /\ T # {}
    BY <1>2, <1>4, <1>5
  <2>2. QED
    BY <2>1, Least
<1>7. N - x \in I /\ x \in Nat
  BY <1>4, <1>6
<1>8. ASSUME NEW y \in I PROVE y <= N - x
  <2>1. y \in 1 .. N /\ N - y \in Nat /\ N - (N - y) = y
    BY <1>4
  <2>2. x <= N - y
    BY <1>4, <1>6, <2>1
  <2>3. QED
    BY <1>4, <1>7, <2>1, <2>2
<1>9. Max(I) \in I
  <2>1. \A y \in I : N - x >= y
    <3>1. \A y \in I : y \in Nat
      BY <1>4
    <3>2. QED
      BY <1>4, <1>7, <1>8, <3>1
  <2>2. QED
    BY <1>7, <2>1 DEF Max
<1>10. QED
  BY <1>2, <1>3, <1>9

\* Every package that a job needs is delivered by a spec once all are compiled.
HasPackages(packages) ==
    \A i \in DOMAIN templates : \A p \in Needed(templates[i]) :
        name[p] \in DOMAIN packages /\ packages[name[p]] \in {q \in Used : name[q] = name[p]}

LEMMA SpecDelivers ==
    ASSUME instance \in Instances, refs \in Seq(Packages), ToSet(refs) = ToCompile
    PROVE  HasPackages(ToApplySpec.packages)
<1> DEFINE packages == ToApplySpec.packages
<1>1. DOMAIN refs = 1 .. Len(refs) /\ ToSet(refs) = {refs[k] : k \in 1 .. Len(refs)}
  BY DEF ToSet
<1>2. packages = [n \in {name[p] : p \in ToSet(refs)} |->
                     refs[SelectLastInSeq(refs, LAMBDA p : name[p] = n)]]
  BY DEF ToApplySpec
<1> HIDE DEF packages
<1>3. ASSUME NEW i \in DOMAIN templates, NEW p \in Needed(templates[i])
      PROVE  name[p] \in DOMAIN packages /\ packages[name[p]] \in {q \in Used : name[q] = name[p]}
  <2>1. PICK k \in 1 .. Len(refs) : name[refs[k]] = name[p]
    BY <1>1, CollectedIsUsed
  <2> DEFINE l == SelectLastInSeq(refs, LAMBDA q : name[q] = name[p])
  <2>2. l \in 1 .. Len(refs) /\ name[refs[l]] = name[p]
    BY <2>1, LastNamed
  <2>3. name[p] \in DOMAIN packages /\ packages[name[p]] = refs[l]
    BY <1>1, <1>2, <2>1
  <2> HIDE DEF l
  <2>4. refs[l] \in Used
    BY <1>1, <2>2, CollectedIsUsed
  <2>5. QED
    BY <2>2, <2>3, <2>4
<1>4. QED
  BY <1>3 DEF HasPackages, packages

-----------------------------------------------------------------------------
(* From the agent's answer to the jobs it starts                           *)

Addressed == \E n \in DefaultNetworks : RenderedFor(n, address)
Archived == archive = [i \in DOMAIN templates |-> Rendering(templates[i])]

Configured ==
    /\ spec.templates = [i \in DOMAIN templates |-> templates[i].name]
    /\ \A i \in DOMAIN templates :
        /\ spec.archive[i].job = templates[i].name
        /\ \E n \in DefaultNetworks : RenderedFor(n, spec.archive[i].address)
    /\ HasPackages(spec.packages)

\* What is started was addressed, archived and compiled for, and the agent was told all
\* of it last.
ConfigInv ==
    /\ instance \in Instances /\ refs \in Seq(Packages)
    /\ phase = "address" => reported = agentIPs
    /\ phase \in {"render", "compress", "digest", "upload", "compile", "stop", "apply"} => Addressed
    /\ phase \in {"digest", "upload", "compile", "stop", "apply"} => Archived
    /\ phase \in {"stop", "apply"} => ToSet(refs) = ToCompile
    /\ phase \in {"pre-start", "start", "wait", "post-start"} \/ jobs # "stopped" => Configured
    /\ jobs # "stopped" => phase \in {"wait", "post-start", "done"}

LEMMA AddressFits ==
    ASSUME reported = agentIPs, NEW a \in defaultAddress(ifaces, reported), a.outcome = "ok"
    PROVE  \E n \in DefaultNetworks : RenderedFor(n, a.ip)
<1>1. DefaultNetworks # {}
  BY DEF defaultAddress, DefaultNetworks
<1>2. PICK n \in DefaultNetworks : a = networkIp(n, ifaces[n], reported)
  BY <1>1 DEF defaultAddress, DefaultNetworks
<1>3. n \in DOMAIN ifaces
  BY DEF DefaultNetworks
<1>4. RenderedFor(n, a.ip)
  BY <1>2, <1>3 DEF networkIp, RenderedFor, ActualAddress, Dynamic
<1>5. QED
  BY <1>4

\* Each part of the invariant is about a few variables only.
LEMMA SamePackages ==
    UNCHANGED instance => /\ Packages' = Packages /\ ToCompile' = ToCompile /\ DefaultNetworks' = DefaultNetworks
                          /\ templates' = templates
  BY DEF Packages, ToCompile, packageMap, AddPackages, AddPackage, name, deps, templates,
         DefaultNetworks, ifaces

LEMMA SameAddress == UNCHANGED <<instance, agentIPs, address>> => (Addressed' <=> Addressed)
  BY DEF Addressed, DefaultNetworks, RenderedFor, ActualAddress, Dynamic, ifaces

LEMMA SameArchive == UNCHANGED <<instance, address, archive>> => (Archived' <=> Archived)
  BY DEF Archived, templates, Rendering, Property

LEMMA SameSpec == UNCHANGED <<instance, agentIPs, spec>> => (Configured' <=> Configured)
  BY DEF Configured, templates, DefaultNetworks, RenderedFor, ActualAddress, Dynamic, ifaces,
         HasPackages, Needed, Used, name, deps

LEMMA ConfigInit == Init => ConfigInv
<1> SUFFICES ASSUME Init PROVE ConfigInv
  OBVIOUS
<1>1. refs \in Seq(Packages)
  BY DEF Init
<1>2. QED
  BY <1>1 DEF Init, ConfigInv

LEMMA ApplyConfigures ==
    ASSUME ConfigInv, phase = "apply", UNCHANGED <<instance, agentIPs>>, spec' = ToApplySpec
    PROVE  Configured'
<1>1. /\ instance \in Instances /\ refs \in Seq(Packages) /\ Addressed /\ Archived
      /\ ToSet(refs) = ToCompile
  BY DEF ConfigInv
<1>2. HasPackages(ToApplySpec.packages)
  BY <1>1, SpecDelivers
<1>3. /\ ToApplySpec.templates = [i \in DOMAIN templates |-> templates[i].name]
      /\ ToApplySpec.archive = archive
  BY DEF ToApplySpec
<1>4. \A i \in DOMAIN templates : /\ archive[i].job = templates[i].name
                                  /\ archive[i].address = address
  BY <1>1 DEF Archived, Rendering
<1>5. \E n \in DefaultNetworks : RenderedFor(n, address)
  BY <1>1 DEF Addressed
<1> HIDE DEF ConfigInv
<1>6. ASSUME NEW i \in DOMAIN templates
      PROVE  (\E n \in DefaultNetworks : RenderedFor(n, spec.archive[i].address))'
  <2>1. spec'.archive[i].address = address
    BY <1>3, <1>4
  <2>2. QED
    BY <1>5, <2>1 DEF DefaultNetworks, RenderedFor, ActualAddress, Dynamic, ifaces
<1>7. HasPackages(spec.packages)'
  <2>1. /\ templates' = templates /\ name' = name /\ Used' = Used
        /\ \A i : (Needed(templates[i]))' = Needed(templates[i])
    BY DEF templates, name, deps, Used, Needed
  <2>2. spec'.packages = ToApplySpec.packages
    OBVIOUS
  <2>3. QED
    BY <1>2, <2>1, <2>2 DEF HasPackages
<1>8. (spec.templates = [i \in DOMAIN templates |-> templates[i].name])'
  BY <1>3 DEF templates
<1>9. \A i \in DOMAIN templates : (spec.archive[i].job = templates[i].name)'
  BY <1>3, <1>4 DEF templates
<1>10. templates' = templates
  BY DEF templates
<1>11. QED
  BY <1>6, <1>7, <1>8, <1>9, <1>10, Zenon DEF Configured

LEMMA ConfigStep == ConfigInv /\ [Next]_vars => ConfigInv'
<1> SUFFICES ASSUME ConfigInv, [Next]_vars PROVE ConfigInv'
  OBVIOUS
<1>0. UNCHANGED instance
  BY DEF Next, vars, ApplyInitial, GetState, ChooseAddress, RenderJob, RenderJobFails, AllRendered, Compress,
         CompressFails, DigestArchive, DigestArchiveFails, Upload, UploadFails, CompilePackage, CompileFails,
         AllCompiled, StopJobs, Apply, PreStart, StartJobs, JobsChange, SeenToRun, NotRunning, PostStart,
         AgentFails, Killed, Fail
<1>1. Packages' = Packages /\ ToCompile' = ToCompile
  BY <1>0, SamePackages
<1> USE DEF ConfigInv
<1>2. CASE ApplyInitial
  BY <1>0, <1>1, <1>2 DEF ApplyInitial
<1>3. CASE GetState
  BY <1>0, <1>1, <1>3, SameSpec DEF GetState
<1>4. CASE ChooseAddress
  <2>1. UNCHANGED <<instance, reported, refs, agentIPs, spec, jobs>>
    BY <1>4 DEF ChooseAddress
  <2>2. CASE phase' = "render"
    <3>1. PICK a \in defaultAddress(ifaces, reported) : a.outcome = "ok" /\ address' = a.ip
      BY <1>4, <2>2 DEF ChooseAddress, Leave
    <3>2. \E n \in DefaultNetworks : RenderedFor(n, a.ip)
      BY <1>4, <3>1, AddressFits DEF ChooseAddress
    <3>3. Addressed'
      BY <2>1, <3>1, <3>2 DEF Addressed, DefaultNetworks, RenderedFor, ActualAddress, Dynamic, ifaces
    <3>4. QED
      BY <1>1, <1>4, <2>1, <2>2, <3>3 DEF ChooseAddress
  <2>3. CASE phase' = "done"
    BY <1>1, <1>4, <2>1, <2>3, SameSpec DEF ChooseAddress
  <2>4. QED
    BY <1>4, <2>2, <2>3 DEF ChooseAddress, Leave
<1>5. CASE RenderJob \/ AllRendered
  BY <1>1, <1>5, SameAddress, SameSpec DEF RenderJob, AllRendered
<1>6. CASE RenderJobFails \/ CompressFails \/ Killed
  BY <1>1, <1>6, SameSpec DEF RenderJobFails, CompressFails, Killed, Leave
<1>7. CASE Compress
  <2>1. Archived'
    BY <1>7 DEF Compress, Archived, templates, Rendering, Property
  <2>2. QED
    BY <1>1, <1>7, <2>1, SameAddress, SameSpec DEF Compress
<1>8. CASE DigestArchive \/ Upload
  BY <1>1, <1>8, SameAddress, SameArchive, SameSpec DEF DigestArchive, Upload, RemoveDeferred
<1>9. CASE DigestArchiveFails \/ UploadFails \/ CompileFails \/ AgentFails
  BY <1>1, <1>9, SameSpec DEF DigestArchiveFails, UploadFails, CompileFails, AgentFails, Fail, Leave
<1>10. ASSUME NEW p \in DOMAIN name, CompilePackage(p) PROVE ConfigInv'
  <2>1. refs' \in Seq(Packages)
    BY <1>1, <1>10, AppendProperties DEF CompilePackage, Packages
  <2>2. QED
    BY <1>1, <1>10, <2>1, SameAddress, SameArchive, SameSpec DEF CompilePackage
<1>11. CASE AllCompiled \/ StopJobs
  BY <1>1, <1>11, SameAddress, SameArchive, SameSpec DEF AllCompiled, StopJobs
<1>12. CASE Apply
  <2>1. Configured'
    BY <1>12, ApplyConfigures DEF Apply
  <2>2. QED
    BY <1>1, <1>12, <2>1 DEF Apply
<1>13. CASE PreStart \/ StartJobs \/ JobsChange
  BY <1>1, <1>13, SameAddress, SameArchive, SameSpec DEF PreStart, StartJobs, JobsChange
<1>14. CASE SeenToRun \/ NotRunning \/ PostStart
  BY <1>1, <1>14, SameSpec DEF SeenToRun, NotRunning, PostStart, Leave
<1>15. CASE UNCHANGED vars
  BY <1>1, <1>15, SameAddress, SameArchive, SameSpec DEF vars
<1> QED
  BY <1>2, <1>3, <1>4, <1>5, <1>6, <1>7, <1>8, <1>9, <1>10, <1>11, <1>12, <1>13, <1>14, <1>15 DEF Next

(***************************************************************************)
(* For any templates, networks, addresses and packages, whatever releases  *)
(* they are of: the agent starts what was configured, rendered with an     *)
(* address it has on a default network, and with a package for each name   *)
(* that a job or one of its packages needs (builder.go,                    *)
(* dependency_compiler.go).                                                *)
(***************************************************************************)
THEOREM StartedIsConfigured == Spec => []StartedAsConfigured
<1>1. ConfigInv => StartedAsConfigured
  BY DEF ConfigInv, Configured, StartedAsConfigured, HasPackages, Delivered
<1> QED
  BY <1>1, ConfigInit, ConfigStep, PTL DEF Spec

=============================================================================
