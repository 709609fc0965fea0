------------------------- MODULE InstallationProofs -------------------------
(***************************************************************************)
(* The safety properties of Installation, with the tarball cache and the   *)
(* registry it is composed of, for any packages and dependencies, any      *)
(* number of versions of the release, download attempts and requests.      *)
(***************************************************************************)
EXTENDS Installation, TLAPS

-----------------------------------------------------------------------------
(* The invariant                                                           *)

\* What was downloaded is compared before it is saved, and nothing else is.
FetchInv ==
    /\ FetchedAsAsked
    /\ getPc # "idle" => source \in Sources
    /\ getPc = "save" => temp = source.sha1
    /\ getPc = "ok" => got \in Contents
    /\ got # None => getPc = "ok"
    /\ phase # "fetch" => getPc = "idle"

\* The map holds what the CPI was told, or what its last request just wrote; a request
\* of the agent at work may be answered with that and with what is being written.
RegInv ==
    /\ SettingsServed
    /\ settings = IF cpiRequest.stage = "answered" THEN cpiRequest.value ELSE acknowledged
    /\ cpiRequest.stage = "access" => cpiRequest.authorized
    /\ agentRequest.stage \in {"received", "access"} =>
        /\ settings \in agentRequest.allowed
        /\ cpiRequest.stage \in {"received", "access"} /\ cpiRequest.authorized =>
            cpiRequest.value \in agentRequest.allowed

\* The CPI has been used, or is not yet.
OutcomeInv ==
    /\ CommandOutcome
    /\ phase \notin {"idle", "stop", "cleanup"} => fn = "none" /\ ~cleanupFailed
    /\ phase \in {"stop", "cleanup"} => fn \in {"ok", "failed"} /\ ~cleanupFailed

BlobInv ==
    /\ index \subseteq blobs \cup lost
    /\ phase = "save" => Packed \in blobs

\* What the command has found, or put, into the index so far, and what it has extracted
LookedUp ==
    /\ phase = "fetch" => next = 1
    /\ phase \in {"compile", "packaging", "store", "save"} =>
        \A i \in 1 .. next - 1 : Found(Order[i]) # {}
    /\ phase \in {"install"} \cup AllInstalledIn => \A p \in Pkgs : Found(p) # {}
    /\ phase = "install" => \A i \in 1 .. next - 1 : HasBlob(Order[i])
    /\ phase \in AllInstalledIn => \A p \in Pkgs : HasBlob(p)

UsedFiles(p) == {Fingerprint[v][p] : v \in used}

\* An entry of the index, or a blob, was made of a version that was installed.
MadeOf(e, p, v) ==
    /\ e.key = KeyIn(v, p)
    /\ Fingerprint[v][p] \in e.files /\ e.files \subseteq UsedFiles(p)
    /\ \A d \in DependsOn[p] : Fingerprint[v][d] \in e.against[d] /\ e.against[d] \subseteq UsedFiles(d)
MadeOfUsed(e) == \E p \in Pkgs, v \in used : MadeOf(e, p, v)

Has(p) == Fingerprint[version][p] \in packages[p]

Stored == \A e \in index \cup blobs : MadeOfUsed(e)
Dirs == DOMAIN packages = Pkgs /\ \A p \in Pkgs : packages[p] \subseteq UsedFiles(p)

\* What has been put into the packages' directories so far
Progress ==
    /\ phase \notin {"idle", "fetch", "stop", "cleanup"} => version \in used
    /\ phase \in {"packaging", "store", "save"} =>
        /\ next <= Len(Order)
        /\ \A d \in DependsOn[Current] : Has(d)
    /\ phase \in {"store", "save"} => Has(Current)
    /\ phase = "install" => \A i \in 1 .. next - 1 : Has(Order[i])
    /\ phase \in {"render", "extract", "start", "run"} => \A p \in Pkgs : Has(p)

FilesInv == Stored /\ Dirs /\ Progress

InstallationInv == TypeOK /\ FetchInv /\ RegInv /\ OutcomeInv /\ BlobInv /\ LookedUp /\ FilesInv

USE TarballAssumption, RegistryAssumption, InstallationAssumption
USE DEF indexVars

-----------------------------------------------------------------------------
(* What a step of the command is for the tarball provider and the registry *)

\* The command is outside of Get before and after a step.
NotFetching == phase # "fetch" /\ phase' # "fetch" /\ UNCHANGED tarballVars

LEMMA TarballEffect ==
    ASSUME Next
    PROVE  \/ NotFetching
           \/ GetEnds /\ phase' # "fetch"
           \/ (\E s \in Sources : Get(s)) /\ phase' = "fetch"
           \/ GetStep /\ phase = "fetch" /\ phase' = "fetch"
           \/ RegistryServes
<1> USE DEF NotFetching, Return
<1>1. CASE \E s \in Sources : Begin(s)
  BY <1>1 DEF Begin
<1>2. CASE Killed \/ RaceKills \/ FetchFails \/ Fetched
  BY <1>2 DEF Killed, RaceKills, FetchFails, Fetched
<1>3. CASE FetchStep
  BY <1>3 DEF FetchStep, installVars
<1>4. CASE Compiled \/ InstallDependencies \/ InstallDependenciesFails \/ RunPackaging \/ CreateBlob
  BY <1>4 DEF Compiled, InstallDependencies, InstallDependenciesFails, RunPackaging, CreateBlob
<1>5. CASE SaveIndex \/ CompileFails \/ AllCompiled \/ InstallPackage \/ AllInstalled
  BY <1>5 DEF SaveIndex, CompileFails, AllCompiled, InstallPackage, AllInstalled
<1>9. CASE LookupFails \/ SaveIndexBreaksOff
  BY <1>9 DEF LookupFails, SaveIndexBreaksOff
<1>6. CASE RenderAndUpload \/ InstallJob \/ InstallFails \/ StartRegistry \/ StartRegistryFails
  BY <1>6 DEF RenderAndUpload, InstallJob, InstallFails, StartRegistry, StartRegistryFails
<1>7. CASE UseCpi("ok") \/ UseCpi("failed") \/ Uninstall \/ UninstallFails \/ StopRegistry \/ CleanUp
  BY <1>7 DEF UseCpi, Uninstall, UninstallFails, StopRegistry, CleanUp
<1> QED
  BY <1>1, <1>2, <1>3, <1>4, <1>5, <1>6, <1>7, <1>9 DEF Next

LEMMA RegistryEffect ==
    ASSUME Next
    PROVE  UNCHANGED registryVars \/ StartServer \/ StopServer \/ ServerKilled \/ RegistryStep
<1> USE DEF Return
<1>1. CASE \E s \in Sources : Begin(s)
  BY <1>1 DEF Begin
<1>2. CASE Killed \/ RaceKills \/ FetchFails \/ Fetched \/ FetchStep \/ RegistryServes
  BY <1>2 DEF Killed, RaceKills, FetchFails, Fetched, FetchStep, RegistryServes
<1>4. CASE Compiled \/ InstallDependencies \/ InstallDependenciesFails \/ RunPackaging \/ CreateBlob
  BY <1>4 DEF Compiled, InstallDependencies, InstallDependenciesFails, RunPackaging, CreateBlob
<1>5. CASE SaveIndex \/ CompileFails \/ AllCompiled \/ InstallPackage \/ AllInstalled
  BY <1>5 DEF SaveIndex, CompileFails, AllCompiled, InstallPackage, AllInstalled
<1>9. CASE LookupFails \/ SaveIndexBreaksOff
  BY <1>9 DEF LookupFails, SaveIndexBreaksOff
<1>6. CASE RenderAndUpload \/ InstallJob \/ InstallFails \/ StartRegistry \/ StartRegistryFails
  BY <1>6 DEF RenderAndUpload, InstallJob, InstallFails, StartRegistry, StartRegistryFails
<1>7. CASE UseCpi("ok") \/ UseCpi("failed") \/ Uninstall \/ UninstallFails \/ StopRegistry \/ CleanUp
  BY <1>7 DEF UseCpi, Uninstall, UninstallFails, StopRegistry, CleanUp
<1> QED
  BY <1>1, <1>2, <1>4, <1>5, <1>6, <1>7, <1>9 DEF Next

-----------------------------------------------------------------------------
(* The tarball provider                                                    *)

LEMMA GetStepInv ==
    ASSUME TarballTypeOK, FetchInv, phase = "fetch", phase' = "fetch", GetStep
    PROVE  TarballTypeOK' /\ FetchInv'
<1> USE DEF TarballTypeOK, FetchInv, FetchedAsAsked, Sources, Contents
<1>1. CASE UseFile
  BY <1>1 DEF UseFile
<1>2. CASE UseCached
  BY <1>2 DEF UseCached
<1>3. CASE NotCached
  BY <1>3 DEF NotCached
<1>4. CASE Download
  BY <1>4 DEF Download
<1>5. CASE DownloadFails
  BY <1>5 DEF DownloadFails, AttemptFailed
<1>6. CASE CompareDigest
  BY <1>6 DEF CompareDigest, AttemptFailed
<1>7. CASE SaveInCache
  BY <1>7 DEF SaveInCache
<1> QED
  BY <1>1, <1>2, <1>3, <1>4, <1>5, <1>6, <1>7 DEF GetStep

LEMMA FetchPreserved == TarballTypeOK /\ FetchInv /\ [Next]_vars => TarballTypeOK' /\ FetchInv'
<1> SUFFICES ASSUME TarballTypeOK, FetchInv, [Next]_vars PROVE TarballTypeOK' /\ FetchInv'
  OBVIOUS
<1> DEFINE Goal == TarballTypeOK' /\ FetchInv'
<1>1. CASE UNCHANGED <<tarballVars, phase>>
  BY <1>1 DEF tarballVars, TarballTypeOK, FetchInv, FetchedAsAsked
<1>2. CASE NotFetching
  BY <1>2 DEF NotFetching, tarballVars, TarballTypeOK, FetchInv, FetchedAsAsked
<1>3. CASE GetEnds /\ phase' # "fetch"
  BY <1>3 DEF GetEnds, TarballTypeOK, FetchInv, FetchedAsAsked
<1>4. CASE (\E s \in Sources : Get(s)) /\ phase' = "fetch"
  BY <1>4 DEF Get, TarballTypeOK, FetchInv, FetchedAsAsked
<1>5. CASE GetStep /\ phase = "fetch" /\ phase' = "fetch"
  BY <1>5, GetStepInv
<1> QED
  BY <1>1, <1>2, <1>3, <1>4, <1>5, TarballEffect DEF vars, installVars, RegistryServes

-----------------------------------------------------------------------------
(* The registry                                                            *)

LEMMA RegistryStepInv == RegistryTypeOK /\ RegInv /\ RegistryStep => RegistryTypeOK' /\ RegInv'
<1> SUFFICES ASSUME RegistryTypeOK, RegInv, RegistryStep PROVE RegistryTypeOK' /\ RegInv'
  OBVIOUS
<1> USE DEF RegistryTypeOK, RegInv, SettingsServed, Request
<1>1. ASSUME NEW method \in {"PUT", "DELETE"}, NEW value \in Value, NEW authorized \in BOOLEAN,
             ReceiveWrite(method, value, authorized)
      PROVE  RegistryTypeOK' /\ RegInv'
  BY <1>1 DEF ReceiveWrite, Value
<1>2. CASE RefuseWrite
  BY <1>2 DEF RefuseWrite, Idle, Value
<1>3. CASE StartWrite
  BY <1>3 DEF StartWrite, Value
<1>4. CASE EndWrite
  BY <1>4 DEF EndWrite, Value
<1>5. CASE WriteAnswered
  BY <1>5 DEF WriteAnswered, Idle, Value
<1>6. CASE ReceiveRead
  BY <1>6 DEF ReceiveRead, MayWrite, Value
<1>7. CASE StartRead
  BY <1>7 DEF StartRead, Value
<1>8. CASE EndRead
  BY <1>8 DEF EndRead, Value
<1>9. CASE ReadAnswered
  BY <1>9 DEF ReadAnswered, Idle, Value
<1>10. Settings \subseteq Value /\ NoSettings \in Value
  BY DEF Value
<1> QED
  BY <1>1, <1>2, <1>3, <1>4, <1>5, <1>6, <1>7, <1>8, <1>9, <1>10 DEF RegistryStep

LEMMA RegistryPreserved == RegistryTypeOK /\ RegInv /\ [Next]_vars => RegistryTypeOK' /\ RegInv'
<1> SUFFICES ASSUME RegistryTypeOK, RegInv, [Next]_vars PROVE RegistryTypeOK' /\ RegInv'
  OBVIOUS
<1>1. CASE UNCHANGED registryVars
  BY <1>1 DEF registryVars, RegistryTypeOK, RegInv, SettingsServed
<1>2. CASE StartServer \/ ServerKilled
  <2>1. Idle \in Request /\ Idle.stage = "idle" /\ NoSettings \in Value /\ 0 \in 0 .. MaxRequests
    BY DEF Idle, Request, Value
  <2>2. RegistryTypeOK'
    BY <1>2, <2>1 DEF StartServer, ServerKilled, RegistryTypeOK
  <2>3. RegInv'
    BY <1>2, <2>1 DEF StartServer, ServerKilled, RegInv, SettingsServed
  <2> QED
    BY <2>2, <2>3
<1>3. CASE StopServer
  BY <1>3 DEF StopServer, RegistryTypeOK, RegInv, SettingsServed
<1> QED
  BY <1>1, <1>2, <1>3, RegistryStepInv, RegistryEffect DEF vars

-----------------------------------------------------------------------------
(* The outcome of the command                                              *)

LEMMA OutcomePreserved == OutcomeInv /\ [Next]_vars => OutcomeInv'
<1> SUFFICES ASSUME OutcomeInv, [Next]_vars PROVE OutcomeInv'
  OBVIOUS
<1> USE DEF OutcomeInv, CommandOutcome, outcomeVars, targetVars, Return
<1>1. CASE \E s \in Sources : Begin(s)
  BY <1>1 DEF Begin
<1>2. CASE Killed \/ RaceKills \/ FetchFails \/ Fetched
  BY <1>2 DEF Killed, RaceKills, FetchFails, Fetched
<1>3. CASE FetchStep \/ RegistryServes \/ UNCHANGED vars
  BY <1>3 DEF FetchStep, RegistryServes, vars, installVars
<1>4. CASE Compiled \/ InstallDependencies \/ InstallDependenciesFails \/ RunPackaging \/ CreateBlob
  BY <1>4 DEF Compiled, InstallDependencies, InstallDependenciesFails, RunPackaging, CreateBlob
<1>5. CASE SaveIndex \/ CompileFails \/ AllCompiled \/ InstallPackage \/ AllInstalled
  BY <1>5 DEF SaveIndex, CompileFails, AllCompiled, InstallPackage, AllInstalled
<1>9. CASE LookupFails \/ SaveIndexBreaksOff
  BY <1>9 DEF LookupFails, SaveIndexBreaksOff
<1>6. CASE RenderAndUpload \/ InstallJob \/ InstallFails \/ StartRegistry \/ StartRegistryFails
  <2>1. CASE InstallFails
    BY <2>1 DEF InstallFails
  <2>2. CASE RenderAndUpload \/ InstallJob
    BY <2>2 DEF RenderAndUpload, InstallJob
  <2>3. CASE StartRegistry
    BY <2>3 DEF StartRegistry
  <2>4. CASE StartRegistryFails
    BY <2>4 DEF StartRegistryFails
  <2> QED
    BY <1>6, <2>1, <2>2, <2>3, <2>4
<1>7. CASE UseCpi("ok") \/ UseCpi("failed") \/ Uninstall \/ UninstallFails \/ StopRegistry
  <2>1. CASE UseCpi("ok")
    BY <2>1 DEF UseCpi
  <2>2. CASE UseCpi("failed")
    BY <2>2 DEF UseCpi
  <2>3. CASE Uninstall
    BY <2>3 DEF Uninstall
  <2>4. CASE UninstallFails
    BY <2>4 DEF UninstallFails
  <2>5. CASE StopRegistry
    BY <2>5 DEF StopRegistry
  <2> QED
    BY <1>7, <2>1, <2>2, <2>3, <2>4, <2>5
<1>8. CASE CleanUp
  BY <1>8 DEF CleanUp
<1> QED
  BY <1>1, <1>2, <1>3, <1>4, <1>5, <1>6, <1>7, <1>8, <1>9 DEF Next

-----------------------------------------------------------------------------
(* The index and the blobs                                                 *)

\* Packed is made of variables that stay as they are between the two steps.
LEMMA BlobPreserved == BlobInv /\ [Next]_vars => BlobInv'
<1> SUFFICES ASSUME BlobInv, [Next]_vars PROVE BlobInv'
  OBVIOUS
<1> USE DEF BlobInv, outcomeVars, targetVars, Return
<1>1. CASE \E s \in Sources : Begin(s)
  BY <1>1 DEF Begin
<1>2. CASE Killed \/ RaceKills \/ FetchFails \/ Fetched
  BY <1>2 DEF Killed, RaceKills, FetchFails, Fetched
<1>3. CASE FetchStep \/ RegistryServes \/ UNCHANGED vars
  BY <1>3 DEF FetchStep, RegistryServes, vars, installVars, Packed, PkgKey, KeyIn, Current
<1>4. CASE Compiled \/ InstallDependencies \/ InstallDependenciesFails \/ RunPackaging
  BY <1>4 DEF Compiled, InstallDependencies, InstallDependenciesFails, RunPackaging
<1>5. CASE CreateBlob
  BY <1>5 DEF CreateBlob, Packed, PkgKey, KeyIn, Current
<1>6. CASE SaveIndex \/ CompileFails \/ AllCompiled \/ InstallPackage \/ AllInstalled
  BY <1>6 DEF SaveIndex, CompileFails, AllCompiled, InstallPackage, AllInstalled
<1>9. CASE LookupFails \/ SaveIndexBreaksOff
  BY <1>9 DEF LookupFails, SaveIndexBreaksOff
<1>7. CASE RenderAndUpload \/ InstallJob \/ InstallFails \/ StartRegistry \/ StartRegistryFails
  BY <1>7 DEF RenderAndUpload, InstallJob, InstallFails, StartRegistry, StartRegistryFails
<1>8. CASE UseCpi("ok") \/ UseCpi("failed") \/ Uninstall \/ UninstallFails \/ StopRegistry \/ CleanUp
  BY <1>8 DEF UseCpi, Uninstall, UninstallFails, StopRegistry, CleanUp
<1> QED
  BY <1>1, <1>2, <1>3, <1>4, <1>5, <1>6, <1>7, <1>8, <1>9 DEF Next

-----------------------------------------------------------------------------
(* The files of the packages                                               *)

\* What the index has under the key of a package is as good as compiled now.
LEMMA FoundIsCurrent ==
    ASSUME NEW p \in Pkgs, NEW e \in Found(p), MadeOfUsed(e)
    PROVE  MadeOf(e, p, version)
<1>1. PICK q \in Pkgs, v \in used : MadeOf(e, q, v)
  BY DEF MadeOfUsed
<1>2. e.key = KeyIn(v, q) /\ e.key = KeyIn(version, p)
  BY <1>1 DEF MadeOf, Found, PkgKey
<1>3. q = p /\ Fingerprint[v][p] = Fingerprint[version][p]
  BY <1>2 DEF KeyIn
<1>4. {<<d, Fingerprint[v][d]>> : d \in ResolveDependencies(p)}
          = {<<d, Fingerprint[version][d]>> : d \in ResolveDependencies(p)}
  BY <1>2, <1>3 DEF KeyIn
<1>5. ASSUME NEW d \in DependsOn[p] PROVE Fingerprint[v][d] = Fingerprint[version][d]
  <2>1. CASE d = p
    BY <1>3, <2>1
  <2>2. CASE d # p
    <3>1. d \in ResolveDependencies(p)
      BY <2>2 DEF ResolveDependencies
    <3>2. <<d, Fingerprint[version][d]>> \in {<<c, Fingerprint[v][c]>> : c \in ResolveDependencies(p)}
      BY <1>4, <3>1
    <3>3. PICK c \in ResolveDependencies(p) : <<d, Fingerprint[version][d]>> = <<c, Fingerprint[v][c]>>
      BY <3>2
    <3> QED
      BY <3>3
  <2> QED
    BY <2>1, <2>2
<1> QED
  BY <1>1, <1>2, <1>3, <1>5 DEF MadeOf

LEMMA ExtractedFiles ==
    ASSUME Stored, Dirs, NEW S \in SUBSET Pkgs, \A p \in S : Found(p) # {}, packages' = Extracted(S)
    PROVE  /\ DOMAIN packages' = Pkgs
           /\ \A p \in Pkgs : packages[p] \subseteq packages'[p] /\ packages'[p] \subseteq UsedFiles(p)
           /\ \A p \in S : Fingerprint[version][p] \in packages'[p]
<1>1. ASSUME NEW p \in S
      PROVE  Fingerprint[version][p] \in Blob(p).files /\ Blob(p).files \subseteq UsedFiles(p)
  <2>1. Blob(p) \in Found(p)
    BY DEF Blob
  <2>2. MadeOfUsed(Blob(p))
    BY <2>1 DEF Found, Stored
  <2> QED
    BY <2>1, <2>2, FoundIsCurrent DEF MadeOf
<1>2. packages' = [p \in Pkgs |-> IF p \in S THEN packages[p] \cup Blob(p).files ELSE packages[p]]
  BY DEF Extracted
<1> HIDE DEF Extracted
<1> QED
  BY <1>1, <1>2 DEF Dirs

LEMMA PackedIsMadeOfUsed ==
    ASSUME Dirs, Progress, next \in 1 .. Len(Order) + 1, phase \in {"store", "save"}
    PROVE  MadeOfUsed(Packed)
<1>1. next \in DOMAIN Order /\ Current \in Pkgs /\ version \in used /\ DependsOn[Current] \subseteq Pkgs
  BY DEF Progress, Current, Pkgs
<1>2. MadeOf(Packed, Current, version)
  BY <1>1 DEF MadeOf, Packed, PkgKey, Dirs, Progress, Has
<1> QED
  BY <1>1, <1>2 DEF MadeOfUsed

LEMMA MadeOfUsedGrows == ASSUME NEW e, MadeOfUsed(e), used \subseteq used' PROVE MadeOfUsed(e)'
<1>1. PICK p \in Pkgs, v \in used : MadeOf(e, p, v)
  BY DEF MadeOfUsed
<1>2. \A q : UsedFiles(q) \subseteq UsedFiles(q)'
  BY DEF UsedFiles
<1>3. MadeOf(e, p, v)'
  BY <1>1, <1>2 DEF MadeOf
<1> QED
  BY <1>3 DEF MadeOfUsed

\* Only two actions add to the index or the blobs, and only one forgets versions.
LEMMA StoreEffect ==
    ASSUME Next
    PROVE  \/ index' \cup blobs' \subseteq index \cup blobs /\ used \subseteq used'
           \/ CreateBlob \/ SaveIndex \/ Uninstall
<1> USE DEF targetVars, outcomeVars, Return
<1>1. CASE \E s \in Sources : Begin(s)
  BY <1>1 DEF Begin
<1>2. CASE Killed \/ RaceKills \/ FetchFails \/ Fetched
  BY <1>2 DEF Killed, RaceKills, FetchFails, Fetched
<1>3. CASE FetchStep \/ RegistryServes
  BY <1>3 DEF FetchStep, RegistryServes, installVars
<1>4. CASE Compiled \/ InstallDependencies \/ InstallDependenciesFails \/ RunPackaging
  BY <1>4 DEF Compiled, InstallDependencies, InstallDependenciesFails, RunPackaging
<1>5. CASE LookupFails \/ SaveIndexBreaksOff \/ CompileFails \/ AllCompiled \/ InstallPackage \/ AllInstalled
  BY <1>5 DEF LookupFails, SaveIndexBreaksOff, CompileFails, AllCompiled, InstallPackage, AllInstalled
<1>6. CASE RenderAndUpload \/ InstallJob \/ InstallFails \/ StartRegistry \/ StartRegistryFails
  BY <1>6 DEF RenderAndUpload, InstallJob, InstallFails, StartRegistry, StartRegistryFails
<1>7. CASE UseCpi("ok") \/ UseCpi("failed") \/ UninstallFails \/ StopRegistry \/ CleanUp
  BY <1>7 DEF UseCpi, UninstallFails, StopRegistry, CleanUp
<1> QED
  BY <1>1, <1>2, <1>3, <1>4, <1>5, <1>6, <1>7 DEF Next

LEMMA StoredPreserved ==
    Stored /\ Dirs /\ Progress /\ next \in 1 .. Len(Order) + 1 /\ [Next]_vars => Stored'
<1> SUFFICES ASSUME Stored, Dirs, Progress, next \in 1 .. Len(Order) + 1, [Next]_vars,
                    NEW e \in index' \cup blobs'
             PROVE  MadeOfUsed(e)'
  BY DEF Stored
<1>1. CASE Uninstall
  BY <1>1 DEF Uninstall
<1>2. CASE CreateBlob \/ SaveIndex
  <2>1. e \in index \cup blobs \/ e = Packed
    BY <1>2 DEF CreateBlob, SaveIndex
  <2>2. MadeOfUsed(e)
    BY <1>2, <2>1, PackedIsMadeOfUsed DEF Stored, CreateBlob, SaveIndex
  <2>3. used' = used
    BY <1>2 DEF CreateBlob, SaveIndex
  <2> QED
    BY <2>2, <2>3, MadeOfUsedGrows
<1>3. CASE index' \cup blobs' \subseteq index \cup blobs /\ used \subseteq used'
  BY <1>3, MadeOfUsedGrows DEF Stored
<1>4. CASE UNCHANGED vars
  BY <1>3, <1>4 DEF vars, installVars, targetVars
<1> QED
  BY <1>1, <1>2, <1>3, <1>4, StoreEffect

\* Four actions add to the directories of the packages; others remove, and versions are
\* forgotten only when nothing is left.
LEMMA DirsEffect ==
    ASSUME Next, Dirs
    PROVE  \/ packages' = packages /\ used \subseteq used'
           \/ packages' = NoFiles
           \/ PackagesRemoved /\ used' = used
           \/ InstallDependencies \/ InstallDependenciesFails \/ RunPackaging \/ InstallPackage
<1> USE DEF targetVars, outcomeVars, Return
<1>1. CASE \E s \in Sources : Begin(s)
  BY <1>1 DEF Begin
<1>2. CASE Killed \/ RaceKills \/ FetchFails \/ Fetched
  BY <1>2 DEF Killed, RaceKills, FetchFails, Fetched
<1>3. CASE FetchStep \/ RegistryServes
  BY <1>3 DEF FetchStep, RegistryServes, installVars
<1>4. CASE LookupFails \/ Compiled \/ CreateBlob \/ SaveIndex \/ SaveIndexBreaksOff
  BY <1>4 DEF LookupFails, Compiled, CreateBlob, SaveIndex, SaveIndexBreaksOff
<1>5. CASE CompileFails \/ AllCompiled \/ AllInstalled
  BY <1>5 DEF CompileFails, AllCompiled, AllInstalled
<1>6. CASE RenderAndUpload \/ InstallJob \/ InstallFails \/ StartRegistry \/ StartRegistryFails
  BY <1>6 DEF RenderAndUpload, InstallJob, InstallFails, StartRegistry, StartRegistryFails
<1>7. CASE UseCpi("ok") \/ UseCpi("failed") \/ Uninstall \/ UninstallFails \/ StopRegistry \/ CleanUp
  BY <1>7 DEF UseCpi, Uninstall, UninstallFails, StopRegistry, CleanUp
<1> QED
  BY <1>1, <1>2, <1>3, <1>4, <1>5, <1>6, <1>7 DEF Next

LEMMA CurrentIsPackage == ASSUME next \in 1 .. Len(Order) PROVE Current \in Pkgs /\ DependsOn[Current] \subseteq Pkgs
  BY DEF Current, Pkgs

LEMMA DirsPreserved ==
    Stored /\ Dirs /\ Progress /\ next \in 1 .. Len(Order) + 1 /\ [Next]_vars => Dirs'
<1> SUFFICES ASSUME Stored, Dirs, Progress, next \in 1 .. Len(Order) + 1, [Next]_vars PROVE Dirs'
  OBVIOUS
<1>1. CASE packages' = packages /\ used \subseteq used'
  BY <1>1 DEF Dirs, UsedFiles
<1>2. CASE packages' = NoFiles
  BY <1>2 DEF Dirs, NoFiles
<1>3. CASE InstallDependencies
  <2>1. used' = used /\ packages' = Extracted(DependsOn[Current]) /\ DependsOn[Current] \in SUBSET Pkgs
        /\ \A d \in DependsOn[Current] : Found(d) # {}
    BY <1>3, CurrentIsPackage DEF InstallDependencies, HasBlob
  <2> QED
    BY <2>1, ExtractedFiles DEF Dirs, UsedFiles
<1>4. CASE InstallDependenciesFails
  <2>1. PICK S \in SUBSET {d \in DependsOn[Current] : HasBlob(d)} : packages' = Extracted(S)
    BY <1>4 DEF InstallDependenciesFails
  <2>2. S \in SUBSET Pkgs /\ \A d \in S : Found(d) # {}
    BY <1>4, CurrentIsPackage DEF InstallDependenciesFails, HasBlob
  <2>3. used' = used
    BY <1>4 DEF InstallDependenciesFails, Return
  <2> QED
    BY <2>1, <2>2, <2>3, ExtractedFiles DEF Dirs, UsedFiles
<1>5. CASE RunPackaging
  <2>1. version \in used /\ used' = used
        /\ packages' = [packages EXCEPT ![Current] = @ \cup {Fingerprint[version][Current]}]
    BY <1>5 DEF RunPackaging, Progress
  <2> QED
    BY <2>1 DEF Dirs, UsedFiles
<1>6. CASE InstallPackage
  <2>1. used' = used /\ packages' = Extracted({Current}) /\ {Current} \in SUBSET Pkgs
        /\ \A d \in {Current} : Found(d) # {}
    BY <1>6, CurrentIsPackage DEF InstallPackage, HasBlob
  <2> QED
    BY <2>1, ExtractedFiles DEF Dirs, UsedFiles
<1>7. CASE PackagesRemoved /\ used' = used
  BY <1>7 DEF PackagesRemoved, Dirs, UsedFiles
<1>8. CASE UNCHANGED vars
  BY <1>1, <1>8 DEF vars, installVars, targetVars
<1> QED
  BY <1>1, <1>2, <1>3, <1>4, <1>5, <1>6, <1>7, <1>8, DirsEffect

LEMMA ProgressPreserved ==
    Stored /\ Dirs /\ Progress /\ next \in 1 .. Len(Order) + 1 /\ [Next]_vars => Progress'
<1> SUFFICES ASSUME Stored, Dirs, Progress, next \in 1 .. Len(Order) + 1, [Next]_vars PROVE Progress'
  OBVIOUS
<1> DEFINE Same == UNCHANGED <<version, next, packages, used>>
<1>1. CASE (\E s \in Sources : Begin(s)) \/ Killed \/ RaceKills \/ FetchFails
  BY <1>1 DEF Begin, Killed, RaceKills, FetchFails, Return, Progress
<1>2. CASE Fetched
  BY <1>2 DEF Fetched, Progress
<1>3. CASE FetchStep \/ RegistryServes \/ UNCHANGED vars
  <2>1. Same /\ phase' = phase
    BY <1>3 DEF FetchStep, RegistryServes, vars, installVars, targetVars
  <2> QED
    BY <2>1 DEF Progress, Current, Has
<1>4. CASE Compiled \/ SaveIndex \/ AllCompiled
  BY <1>4 DEF Compiled, SaveIndex, AllCompiled, Progress
<1>5. CASE InstallDependencies
  <2>1. next <= Len(Order) /\ DependsOn[Current] \in SUBSET Pkgs
        /\ packages' = Extracted(DependsOn[Current])
        /\ \A d \in DependsOn[Current] : Found(d) # {}
    BY <1>5, CurrentIsPackage DEF InstallDependencies, HasBlob
  <2>2. \A d \in DependsOn[Current] : Fingerprint[version][d] \in packages'[d]
    BY <2>1, ExtractedFiles
  <2>3. phase' = "packaging" /\ version' = version /\ next' = next /\ used' = used /\ version \in used
    BY <1>5 DEF InstallDependencies, Progress
  <2> QED
    BY <2>1, <2>2, <2>3 DEF Progress, Current, Has
<1>6. CASE RunPackaging
  <2>1. /\ phase' = "store" /\ version' = version /\ next' = next /\ used' = used /\ version \in used
        /\ next <= Len(Order)
        /\ packages' = [packages EXCEPT ![Current] = @ \cup {Fingerprint[version][Current]}]
        /\ \A d \in DependsOn[Current] : Has(d)
    BY <1>6 DEF RunPackaging, Progress
  <2>2. Current \in Pkgs /\ DependsOn[Current] \subseteq Pkgs
    BY <2>1, CurrentIsPackage
  <2>3. Current' = Current
    BY <2>1 DEF Current
  <2> QED
    BY <2>1, <2>2, <2>3 DEF Progress, Has, Dirs
<1>7. CASE CreateBlob
  BY <1>7 DEF CreateBlob, Progress, Current, Has
<1>8. CASE InstallPackage
  <2>1. /\ next <= Len(Order) /\ next' = next + 1 /\ phase = "install" /\ phase' = "install"
        /\ version' = version /\ used' = used /\ version \in used
        /\ packages' = Extracted({Current}) /\ \A d \in {Current} : Found(d) # {}
    BY <1>8 DEF InstallPackage, HasBlob, Progress
  <2>2. {Current} \in SUBSET Pkgs
    BY <2>1, CurrentIsPackage
  <2>3. /\ \A p \in Pkgs : packages[p] \subseteq packages'[p]
        /\ Fingerprint[version][Current] \in packages'[Current]
    BY <2>1, <2>2, ExtractedFiles
  <2>4. ASSUME NEW i \in 1 .. next' - 1 PROVE Has(Order[i])'
    <3>1. i \in 1 .. Len(Order) /\ Order[i] \in Pkgs
      BY <2>1 DEF Pkgs
    <3>2. CASE i = next
      BY <2>1, <2>3, <3>2 DEF Has, Current
    <3>3. CASE i # next
      <4>1. i \in 1 .. next - 1
        BY <2>1, <3>3
      <4>2. Has(Order[i])
        BY <2>1, <4>1 DEF Progress
      <4> QED
        BY <2>1, <2>3, <3>1, <4>2 DEF Has
    <3> QED
      BY <3>2, <3>3
  <2> QED
    BY <2>1, <2>4 DEF Progress
<1>9. CASE AllInstalled
  <2>1. Same /\ phase = "install" /\ phase' = "render" /\ next = Len(Order) + 1
    BY <1>9 DEF AllInstalled, targetVars
  <2>2. ASSUME NEW p \in Pkgs PROVE Has(p)
    <3>1. PICK i \in 1 .. Len(Order) : p = Order[i]
      BY DEF Pkgs
    <3> QED
      BY <2>1, <3>1 DEF Progress
  <2> QED
    BY <2>1, <2>2 DEF Progress, Has
<1>10. CASE RenderAndUpload \/ InstallJob \/ StartRegistry
  <2>1. Same /\ phase \in {"render", "extract", "start"} /\ phase' \in {"extract", "start", "run"}
    BY <1>10 DEF RenderAndUpload, InstallJob, StartRegistry, targetVars
  <2> QED
    BY <2>1 DEF Progress, Has
<1>11. CASE LookupFails \/ InstallDependenciesFails \/ SaveIndexBreaksOff \/ CompileFails \/ InstallFails
            \/ StartRegistryFails \/ StopRegistry
  BY <1>11 DEF LookupFails, InstallDependenciesFails, SaveIndexBreaksOff, CompileFails, InstallFails,
               StartRegistryFails, StopRegistry, Return, Progress
<1>12. CASE UseCpi("ok") \/ UseCpi("failed") \/ Uninstall \/ UninstallFails \/ CleanUp
  BY <1>12 DEF UseCpi, Uninstall, UninstallFails, CleanUp, Return, Progress
<1> QED
  BY <1>1, <1>2, <1>3, <1>4, <1>5, <1>6, <1>7, <1>8, <1>9, <1>10, <1>11, <1>12 DEF Next

-----------------------------------------------------------------------------
(* What the command found                                                  *)

\* Nothing that Found and HasBlob are made of changes.
SameStore == UNCHANGED <<version, index, blobs>>

LEMMA FoundAgain ==
    ASSUME SameStore
    PROVE  \A p : Found(p)' = Found(p) /\ HasBlob(p)' = HasBlob(p)
<1>1. \A p : Found(p)' = Found(p)
  BY DEF SameStore, Found, PkgKey, KeyIn
<1>2. \A p : Blob(p)' = Blob(p)
  BY <1>1 DEF Blob
<1> QED
  BY <1>1, <1>2 DEF SameStore, HasBlob

LEMMA PackedIsFound ==
    ASSUME NEW p, p = Current \/ Found(p) # {}, index' = index \cup {Packed}, version' = version
    PROVE  Found(p)' # {}
<1>1. PkgKey(p)' = PkgKey(p)
  BY DEF PkgKey, KeyIn
<1>2. Found(p) \subseteq Found(p)'
  BY <1>1 DEF Found
<1>3. ASSUME p = Current PROVE Packed \in Found(p)'
  <2>1. Packed.key = PkgKey(p)
    BY <1>3 DEF Packed
  <2>2. Packed \in index'
    OBVIOUS
  <2> HIDE DEF Packed
  <2> QED
    BY <1>1, <2>1, <2>2 DEF Found
<1> QED
  BY <1>2, <1>3

LEMMA LookedUpPreserved ==
    LookedUp /\ next \in 1 .. Len(Order) + 1 /\ [Next]_vars => LookedUp'
<1> SUFFICES ASSUME LookedUp, next \in 1 .. Len(Order) + 1, [Next]_vars PROVE LookedUp'
  OBVIOUS
<1> USE DEF targetVars, outcomeVars
<1>1. CASE (\E s \in Sources : Begin(s)) \/ Killed \/ RaceKills \/ FetchFails
  BY <1>1 DEF Begin, Killed, RaceKills, FetchFails, Return, LookedUp, AllInstalledIn
<1>2. CASE Fetched
  BY <1>2 DEF Fetched, LookedUp, AllInstalledIn
<1>3. CASE FetchStep \/ RegistryServes \/ UNCHANGED vars
  <2>1. SameStore /\ phase' = phase /\ next' = next
    BY <1>3 DEF FetchStep, RegistryServes, vars, installVars, SameStore
  <2> QED
    BY <2>1, FoundAgain DEF LookedUp
<1>4. CASE Compiled
  <2>1. SameStore /\ phase = "compile" /\ phase' = "compile" /\ next' = next + 1 /\ Found(Current) # {}
    BY <1>4 DEF Compiled, SameStore
  <2>2. ASSUME NEW i \in 1 .. next' - 1 PROVE Found(Order[i])' # {}
    <3>1. i = next \/ i \in 1 .. next - 1
      BY <2>1
    <3> QED
      BY <2>1, <3>1, FoundAgain DEF LookedUp, Current
  <2> QED
    BY <2>1, <2>2 DEF LookedUp, AllInstalledIn
<1>5. CASE InstallDependencies \/ RunPackaging
  <2>1. /\ SameStore /\ next' = next
        /\ phase \in {"compile", "packaging"} /\ phase' \in {"packaging", "store"}
    BY <1>5 DEF InstallDependencies, RunPackaging, SameStore
  <2> QED
    BY <2>1, FoundAgain DEF LookedUp, AllInstalledIn
<1>6. CASE CreateBlob
  <2>1. index' = index /\ version' = version /\ next' = next /\ phase = "store" /\ phase' = "save"
    BY <1>6 DEF CreateBlob
  <2>2. \A p : Found(p)' = Found(p)
    BY <2>1 DEF Found, PkgKey, KeyIn
  <2> QED
    BY <2>1, <2>2 DEF LookedUp, AllInstalledIn
<1>7. CASE SaveIndex
  <2>1. /\ index' = index \cup {Packed} /\ version' = version /\ next' = next + 1
        /\ phase = "save" /\ phase' = "compile"
    BY <1>7 DEF SaveIndex
  <2>2. ASSUME NEW i \in 1 .. next' - 1 PROVE Found(Order[i])' # {}
    <3>1. Order[i] = Current \/ i \in 1 .. next - 1
      BY <2>1 DEF Current
    <3>2. Order[i] = Current \/ Found(Order[i]) # {}
      BY <2>1, <3>1 DEF LookedUp
    <3> QED
      BY <2>1, <3>2, PackedIsFound
  <2> QED
    BY <2>1, <2>2 DEF LookedUp, AllInstalledIn
<1>8. CASE AllCompiled
  <2>1. SameStore /\ phase = "compile" /\ phase' = "install" /\ next = Len(Order) + 1 /\ next' = 1
    BY <1>8 DEF AllCompiled, SameStore
  <2>2. ASSUME NEW p \in Pkgs PROVE Found(p)' # {}
    <3>1. PICK i \in 1 .. Len(Order) : p = Order[i]
      BY DEF Pkgs
    <3> QED
      BY <2>1, <3>1, FoundAgain DEF LookedUp
  <2> QED
    BY <2>1, <2>2 DEF LookedUp, AllInstalledIn
<1>9. CASE InstallPackage
  <2>1. SameStore /\ phase = "install" /\ phase' = "install" /\ next' = next + 1 /\ HasBlob(Order[next])
    BY <1>9 DEF InstallPackage, SameStore, Current
  <2>2. ASSUME NEW i \in 1 .. next' - 1 PROVE HasBlob(Order[i])'
    <3>1. i = next \/ i \in 1 .. next - 1
      BY <2>1
    <3> QED
      BY <2>1, <3>1, FoundAgain DEF LookedUp
  <2> QED
    BY <2>1, <2>2, FoundAgain DEF LookedUp, AllInstalledIn
<1>10. CASE AllInstalled
  <2>1. SameStore /\ phase = "install" /\ phase' = "render" /\ next = Len(Order) + 1
    BY <1>10 DEF AllInstalled, SameStore
  <2>2. ASSUME NEW p \in Pkgs PROVE HasBlob(p)'
    <3>1. PICK i \in 1 .. Len(Order) : p = Order[i]
      BY DEF Pkgs
    <3> QED
      BY <2>1, <3>1, FoundAgain DEF LookedUp
  <2> QED
    BY <2>1, <2>2, FoundAgain DEF LookedUp, AllInstalledIn
<1>11. CASE RenderAndUpload \/ InstallJob \/ StartRegistry
  <2>1. SameStore /\ phase \in {"render", "extract", "start"} /\ phase' \in {"extract", "start", "run"}
    BY <1>11 DEF RenderAndUpload, InstallJob, StartRegistry, SameStore
  <2> QED
    BY <2>1, FoundAgain DEF LookedUp, AllInstalledIn
<1>12. CASE LookupFails \/ InstallDependenciesFails \/ SaveIndexBreaksOff \/ CompileFails \/ InstallFails
            \/ StartRegistryFails \/ StopRegistry
  BY <1>12 DEF LookupFails, InstallDependenciesFails, SaveIndexBreaksOff, CompileFails, InstallFails,
               StartRegistryFails, StopRegistry, Return, LookedUp, AllInstalledIn
<1>13. CASE UseCpi("ok") \/ UseCpi("failed") \/ Uninstall \/ UninstallFails \/ CleanUp
  BY <1>13 DEF UseCpi, Uninstall, UninstallFails, CleanUp, Return, LookedUp, AllInstalledIn
<1> QED
  BY <1>1, <1>2, <1>3, <1>4, <1>5, <1>6, <1>7, <1>8, <1>9, <1>10, <1>11, <1>12, <1>13 DEF Next

-----------------------------------------------------------------------------
(* Types                                                                   *)

\* The types of the variables that are no files
CommandTypes ==
    /\ phase \in Phases /\ version \in Tarballs \cup {None}
    /\ next \in 1 .. Len(Order) + 1
    /\ renderedBlob \in BOOLEAN /\ jobDir \in BOOLEAN /\ cleanupFailed \in BOOLEAN
    /\ fn \in {"none", "ok", "failed"} /\ result \in {"none", "ok", "failed", "killed"}
    /\ used \subseteq Tarballs /\ readable \in BOOLEAN /\ served \in BOOLEAN

LEMMA CommandTypesPreserved ==
    CommandTypes /\ FetchInv /\ OutcomeInv /\ Progress /\ [Next]_vars => CommandTypes'
<1> SUFFICES ASSUME CommandTypes, FetchInv, OutcomeInv, Progress, [Next]_vars PROVE CommandTypes'
  OBVIOUS
<1>0. Len(Order) \in Nat /\ 1 \in 1 .. Len(Order) + 1
  OBVIOUS
<1> USE DEF CommandTypes, Phases, targetVars, outcomeVars
<1>1. CASE \E s \in Sources : Begin(s)
  BY <1>0, <1>1 DEF Begin
<1>2. CASE Killed \/ RaceKills \/ FetchFails
  BY <1>0, <1>2 DEF Killed, RaceKills, FetchFails, Return
<1>3. CASE Fetched
  <2>1. got \in Tarballs
    BY <1>3 DEF Fetched, FetchInv, Contents
  <2> QED
    BY <1>3, <2>1 DEF Fetched
<1>4. CASE FetchStep \/ RegistryServes \/ UNCHANGED vars
  BY <1>4 DEF FetchStep, RegistryServes, vars, installVars
<1>5. CASE Compiled \/ InstallDependencies \/ RunPackaging \/ CreateBlob
  BY <1>5 DEF Compiled, InstallDependencies, RunPackaging, CreateBlob
<1>6. CASE SaveIndex
  <2>1. next' = next + 1 /\ next <= Len(Order)
    BY <1>0, <1>6 DEF SaveIndex, Progress
  <2> QED
    BY <1>6, <2>1 DEF SaveIndex
<1>7. CASE AllCompiled \/ InstallPackage \/ AllInstalled
  BY <1>7 DEF AllCompiled, InstallPackage, AllInstalled
<1>8. CASE LookupFails \/ InstallDependenciesFails \/ SaveIndexBreaksOff \/ CompileFails
  BY <1>0, <1>8 DEF LookupFails, InstallDependenciesFails, SaveIndexBreaksOff, CompileFails, Return
<1>9. CASE InstallFails
  BY <1>0, <1>9 DEF InstallFails, Return
<1>10. CASE RenderAndUpload \/ InstallJob \/ StartRegistry \/ StartRegistryFails \/ StopRegistry
  BY <1>10 DEF RenderAndUpload, InstallJob, StartRegistry, StartRegistryFails, StopRegistry
<1>11. CASE UseCpi("ok") \/ UseCpi("failed") \/ Uninstall
  BY <1>11 DEF UseCpi, Uninstall
<1>12. CASE UninstallFails
  BY <1>12 DEF UninstallFails
<1>13. CASE CleanUp
  BY <1>0, <1>13 DEF CleanUp, Return, OutcomeInv
<1> QED
  BY <1>1, <1>2, <1>3, <1>4, <1>5, <1>6, <1>7, <1>8, <1>9, <1>10, <1>11, <1>12, <1>13 DEF Next

-----------------------------------------------------------------------------
(* The theorems                                                            *)

LEMMA InvInit == Init => InstallationInv
<1> SUFFICES ASSUME Init PROVE InstallationInv
  OBVIOUS
<1>1. TarballTypeOK /\ FetchInv
  BY DEF Init, TarballInit, TarballTypeOK, FetchInv, FetchedAsAsked
<1>2. RegistryTypeOK
  <2>1. Idle \in Request /\ NoSettings \in Value /\ 0 \in 0 .. MaxRequests
    BY DEF Idle, Request, Value
  <2> QED
    BY <2>1 DEF Init, RegistryInit, RegistryTypeOK
<1>3. RegInv
  BY DEF Init, RegistryInit, RegInv, SettingsServed, Idle
<1>4. OutcomeInv /\ BlobInv /\ LookedUp
  BY DEF Init, OutcomeInv, CommandOutcome, BlobInv, LookedUp, AllInstalledIn
<1>5. FilesInv
  BY DEF Init, FilesInv, Stored, Dirs, Progress, NoFiles
<1>6. CommandTypes
  <2>1. 1 \in 1 .. Len(Order) + 1
    OBVIOUS
  <2> QED
    BY <2>1 DEF Init, CommandTypes, Phases
<1>7. TypeOK
  BY <1>1, <1>2, <1>6 DEF Init, TypeOK, CommandTypes, NoFiles
<1> QED
  BY <1>1, <1>2, <1>3, <1>4, <1>5, <1>7 DEF InstallationInv

LEMMA InvStep == InstallationInv /\ [Next]_vars => InstallationInv'
<1> SUFFICES ASSUME InstallationInv, [Next]_vars PROVE InstallationInv'
  OBVIOUS
<1>1. /\ TarballTypeOK /\ FetchInv /\ RegistryTypeOK /\ RegInv /\ OutcomeInv /\ BlobInv /\ LookedUp
      /\ Stored /\ Dirs /\ Progress /\ CommandTypes /\ next \in 1 .. Len(Order) + 1
  BY DEF InstallationInv, TypeOK, FilesInv, CommandTypes
<1>2. TarballTypeOK' /\ FetchInv' /\ RegistryTypeOK' /\ RegInv' /\ OutcomeInv' /\ BlobInv' /\ LookedUp'
  BY <1>1, FetchPreserved, RegistryPreserved, OutcomePreserved, BlobPreserved, LookedUpPreserved
<1>3. FilesInv'
  BY <1>1, StoredPreserved, DirsPreserved, ProgressPreserved DEF FilesInv
<1>4. CommandTypes'
  BY <1>1, CommandTypesPreserved
<1>5. \A p \in Pkgs : packages'[p] \subseteq FilesOf(p)
  BY <1>3, <1>4 DEF FilesInv, Dirs, UsedFiles, FilesOf, CommandTypes
<1>6. TypeOK'
  BY <1>2, <1>3, <1>4, <1>5 DEF TypeOK, CommandTypes, FilesInv, Dirs
<1> QED
  BY <1>2, <1>3, <1>6 DEF InstallationInv

(***************************************************************************)
(* The inductive invariant of the installation holds throughout.           *)
(***************************************************************************)
THEOREM InstallationInvariant == Spec => []InstallationInv
  BY InvInit, InvStep, PTL DEF Spec

(***************************************************************************)
(* Cache, registry, target and command keep their types; in particular no  *)
(* attempt is made beyond DownloadAttempts, and the directory of a package *)
(* holds files of that package only (installation).                        *)
(***************************************************************************)
THEOREM InstallationTypeCorrect == Spec => []TypeOK
<1>1. InstallationInv => TypeOK
  BY DEF InstallationInv
<1> QED
  BY <1>1, InstallationInvariant, PTL

(***************************************************************************)
(* Whatever servers answer, a cached tarball is the one its name says, and *)
(* one fetched by HTTP is the one asked for (installation/tarball).        *)
(***************************************************************************)
THEOREM TarballsAreAsAsked == Spec => []FetchedAsAsked
<1>1. InstallationInv => FetchedAsAsked
  BY DEF InstallationInv, FetchInv
<1> QED
  BY <1>1, InstallationInvariant, PTL

(***************************************************************************)
(* An answer to the agent is always one of the values that were current or *)
(* being written while its request was handled, for any number of requests *)
(* and any settings (registry/instance_handler.go, registry/registry.go).  *)
(***************************************************************************)
THEOREM SettingsAreServed == Spec => []SettingsServed
<1>1. InstallationInv => SettingsServed
  BY DEF InstallationInv, RegInv
<1> QED
  BY <1>1, InstallationInvariant, PTL

(***************************************************************************)
(* For any packages and any history, with writes of the index cut short    *)
(* and uninstallations broken off: an entry without its blob is one whose  *)
(* blob such an uninstallation removed, and no installation gets past      *)
(* compiling without an entry, or past installing without a blob, for      *)
(* every package (index/file_index.go, installation/uninstaller.go,        *)
(* installation/pkg/compiler.go).                                          *)
(***************************************************************************)
THEOREM IndexPointsToBlobs == Spec => []IndexedBlobsExist
<1>1. InstallationInv => IndexedBlobsExist
  BY DEF InstallationInv, BlobInv, LookedUp, IndexedBlobsExist
<1> QED
  BY <1>1, InstallationInvariant, PTL

(***************************************************************************)
(* What a command reports about its use of the CPI is true, and the        *)
(* rendered job is gone when it succeeds (cpi/release/installer.go).       *)
(***************************************************************************)
THEOREM OutcomeIsTrue == Spec => []CommandOutcome
<1>1. InstallationInv => CommandOutcome
  BY DEF InstallationInv, OutcomeInv
<1> QED
  BY <1>1, InstallationInvariant, PTL

(***************************************************************************)
(* The CPI that is used has the files of its version, compiled against the *)
(* same version of what it depends on, for any packages and dependencies   *)
(* and any history of versions, failures and kills; other files come from  *)
(* versions used before (installation/pkg/compiler.go, installer.go).      *)
(***************************************************************************)
THEOREM UsedCpiIsInstalled == Spec => []InstalledFiles
<1>1. InstallationInv => InstalledFiles
  <2> SUFFICES ASSUME InstallationInv, phase = "run", NEW p \in Pkgs
               PROVE  /\ Fingerprint[version][p] \in packages[p]
                      /\ packages[p] \subseteq UsedFiles(p)
                      /\ \A e \in Found(p) : \A d \in DependsOn[p] :
                          /\ Fingerprint[version][d] \in e.against[d]
                          /\ e.against[d] \subseteq UsedFiles(d)
    BY DEF InstalledFiles, UsedFiles
  <2>1. Stored /\ Dirs /\ Progress
    BY DEF InstallationInv, FilesInv
  <2>2. ASSUME NEW e \in Found(p) PROVE MadeOf(e, p, version)
    BY <2>1, FoundIsCurrent DEF Stored, Found
  <2> QED
    BY <2>1, <2>2 DEF Dirs, Progress, Has, MadeOf
<1> QED
  BY <1>1, InstallationInvariant, PTL
=============================================================================
