-------------------------- MODULE PreparationProofs -------------------------
(***************************************************************************)
(* Every invariant of Preparation that the run checks holds for any        *)
(* manifest, releases and stemcell that can be unmarshalled, any width of  *)
(* an address and any number of commands.                                  *)
(***************************************************************************)
EXTENDS Preparation, FiniteSetTheorems, FunctionTheorems, SequenceTheorems, WellFoundedInduction, TLAPS

-----------------------------------------------------------------------------
(* Searching lists                                                         *)

\* A set of naturals that has an element has a least one.
LEMMA MinInSet ==
    ASSUME NEW T \in SUBSET Nat, T # {}
    PROVE  Min(T) \in T /\ \A y \in T : Min(T) <= y
<1> DEFINE R == OpToRel(<, Nat)
<1>1. PICK x \in T : \A y \in T : <<y, x>> \notin R
  BY WFMin, NatLessThanWellFounded
<1>2. R = {ss \in Nat \X Nat : ss[1] < ss[2]}
  BY Zenon DEF OpToRel
<1> HIDE DEF R
<1>3. ASSUME NEW y \in T PROVE x <= y
  <2>1. <<y, x>> \in Nat \X Nat /\ <<y, x>> \notin R
    BY <1>1
  <2>2. ~(<<y, x>>[1] < <<y, x>>[2])
    BY <1>2, <2>1
  <2>3. QED
    BY <2>2
<1>4. QED
  BY <1>3 DEF Min

\* A set of positions of a list that has an element has a last one.
LEMMA MaxInSet ==
    ASSUME NEW n \in Nat, NEW T \in SUBSET (1 .. n), T # {}
    PROVE  Max(T) \in T /\ \A y \in T : y <= Max(T)
<1> DEFINE U == {k \in Nat : n - k \in T}
<1>1. U \in SUBSET Nat
  OBVIOUS
<1>2. PICK s \in T : TRUE
  OBVIOUS
<1>3. n - s \in U
  <2>1. n - s \in Nat /\ n - (n - s) = s
    BY <1>2
  <2>2. QED
    BY <1>2, <2>1
<1>4. Min(U) \in U /\ \A y \in U : Min(U) <= y
  BY <1>1, <1>3, MinInSet
<1> DEFINE t == n - Min(U)
<1>5. t \in T /\ Min(U) \in Nat
  BY <1>4
<1>6. ASSUME NEW y \in T PROVE y <= t
  <2>1. y \in 1 .. n /\ n - y \in Nat /\ n - (n - y) = y
    OBVIOUS
  <2>2. n - y \in U
    BY <2>1
  <2>3. Min(U) <= n - y
    BY <1>4, <2>2
  <2>4. QED
    BY <1>5, <2>1, <2>3
<1>7. QED
  BY <1>5, <1>6 DEF Max

\* A list that is not empty has a first entry.
LEMMA HasFirst ==
    ASSUME NEW S, NEW s \in Seq(S), s # <<>>
    PROVE  Len(s) \in Nat /\ Len(s) >= 1 /\ 1 \in DOMAIN s
<1>1. Len(s) \in Nat /\ DOMAIN s = 1 .. Len(s)
  OBVIOUS
<1>2. Len(s) # 0
  BY EmptySeq
<1>3. QED
  BY <1>1, <1>2

LEMMA SingleEntry ==
    ASSUME NEW S, NEW s \in Seq(S), s # <<>>, Len(s) <= 1
    PROVE  Len(s) = 1 /\ DOMAIN s = {1} /\ 1 \in DOMAIN s
<1>1. Len(s) \in Nat /\ Len(s) >= 1 /\ DOMAIN s = 1 .. Len(s)
  BY HasFirst
<1>2. Len(s) = 1
  BY <1>1
<1>3. QED
  BY <1>1, <1>2

LEMMA SeveralEntries ==
    ASSUME NEW S, NEW s \in Seq(S), s # <<>>, Len(s) # 1
    PROVE  Len(s) > 1
<1>1. Len(s) \in Nat /\ Len(s) >= 1
  BY HasFirst
<1>2. QED
  BY <1>1

\* A name that is listed is the name of an entry.
LEMMA ListedName ==
    ASSUME NEW S, NEW s \in Seq(S), NEW name \in Names(s)
    PROVE  \E i \in 1 .. Len(s) : s[i].name = name
<1>1. DOMAIN s = 1 .. Len(s)
  OBVIOUS
<1>2. QED
  BY <1>1 DEF Names

\* FindByName is the position of the first entry with the name, 0 if there is none.
LEMMA FirstNamed ==
    ASSUME NEW S, NEW s \in Seq(S), NEW name
    PROVE  /\ FindByName(s, name) \in 0 .. Len(s)
           /\ FindByName(s, name) # 0 => s[FindByName(s, name)].name = name
           /\ (\E i \in 1 .. Len(s) : s[i].name = name) => FindByName(s, name) # 0
<1> DEFINE I == {i \in 1 .. Len(s) : s[i].name = name}
<1>1. FindByName(s, name) = IF I # {} THEN Min(I) ELSE 0
  BY DEF FindByName, SelectInSeq
<1>2. I \in SUBSET Nat
  OBVIOUS
<1> HIDE DEF I
<1>3. I # {} => Min(I) \in I
  BY <1>2, MinInSet
<1> USE DEF I
<1>4. QED
  BY <1>1, <1>3

\* Position of the last entry with a name
FindLast(s, name) == SelectLastInSeq(s, LAMBDA r : r.name = name)

LEMMA LastNamed ==
    ASSUME NEW S, NEW s \in Seq(S), NEW name
    PROVE  /\ FindLast(s, name) \in 0 .. Len(s)
           /\ FindLast(s, name) # 0 => s[FindLast(s, name)].name = name
           /\ (\E i \in 1 .. Len(s) : s[i].name = name) => FindLast(s, name) # 0
<1> DEFINE I == {i \in 1 .. Len(s) : s[i].name = name}
<1>1. FindLast(s, name) = IF I # {} THEN Max(I) ELSE 0
  BY DEF FindLast, SelectLastInSeq
<1>2. I \in SUBSET (1 .. Len(s)) /\ Len(s) \in Nat
  OBVIOUS
<1> HIDE DEF I
<1>3. I # {} => Max(I) \in I
  BY <1>2, MaxInSet
<1> USE DEF I
<1>4. QED
  BY <1>1, <1>3

-----------------------------------------------------------------------------
(* What parsing delivers                                                   *)

IsDeployment(d) ==
    /\ d.networks \in Seq(Network) /\ d.disk_pools \in Seq(DiskPoolEntry)
    /\ d.resource_pools \in Seq(ResourcePoolEntry) /\ d.jobs \in Seq(Job)

\* Parsing keeps the shape of the pools and of the jobs.
LEMMA ParseDeploymentShape == ASSUME NEW d \in RawDeployment PROVE IsDeployment(ParseDeployment(d))
<1>1. d.resource_pools \in Seq(ResourcePoolEntry) /\ d.networks \in Seq(Network)
      /\ d.disk_pools \in Seq(DiskPoolEntry) /\ d.jobs \in Seq(Job) /\ d.instance_groups \in Seq(Job)
  BY DEF RawDeployment
<1>2. ASSUME NEW p \in ResourcePoolEntry PROVE ParseResourcePool(p) \in ResourcePoolEntry
  BY DEF ParseResourcePool, ResourcePoolEntry, StemcellRef, Absolutified, AbsolutifyPath, UrlKinds
<1>3. ASSUME NEW j \in Job PROVE ParseJob(j) \in Job
  <2> DEFINE ts == IF j.jobs # <<>> THEN j.jobs ELSE j.templates
  <2>1. ts \in Seq(ReleaseJobRef) /\ <<>> \in Seq(ReleaseJobRef)
    BY DEF Job
  <2>2. [j EXCEPT !.templates = ts] \in Job
    BY <2>1 DEF Job
  <2>3. [[j EXCEPT !.templates = ts] EXCEPT !.jobs = <<>>] \in Job
    BY <2>1, <2>2 DEF Job
  <2>4. QED
    BY <2>3 DEF ParseJob, Job
<1>4. [i \in DOMAIN d.resource_pools |-> ParseResourcePool(d.resource_pools[i])] \in Seq(ResourcePoolEntry)
  BY <1>1, <1>2
<1>5. RawJobs(d) \in Seq(Job)
  BY <1>1 DEF RawJobs
<1>6. [i \in DOMAIN RawJobs(d) |-> ParseJob(RawJobs(d)[i])] \in Seq(Job)
  BY <1>3, <1>5
<1>7. QED
  BY <1>1, <1>4, <1>6 DEF ParseDeployment, IsDeployment

-----------------------------------------------------------------------------
(* What validation says about what the manifest answers later              *)

\* A network that is found by its name is one of the manifest's, and valid.
LEMMA NamedNetwork ==
    ASSUME NEW d, IsDeployment(d), NEW releases, ValidDeployment(d, releases),
           NEW name \in Names(d.networks)
    PROVE  /\ NetworkNamed(d, name) \in Network
           /\ ValidNetwork(NetworkNamed(d, name))
<1>1. \E i \in 1 .. Len(d.networks) : d.networks[i].name = name
  BY DEF IsDeployment, Names
<1>2. FindLast(d.networks, name) \in 1 .. Len(d.networks)
  BY <1>1, LastNamed DEF IsDeployment
<1>3. NetworkNamed(d, name) = d.networks[FindLast(d.networks, name)]
  BY <1>2 DEF NetworkNamed, FindLast
<1>4. QED
  BY <1>2, <1>3 DEF IsDeployment, ValidDeployment

\* The networks of a valid job are the manifest's: building an interface never fails.
LEMMA InterfacesOK ==
    ASSUME NEW d, IsDeployment(d), NEW releases, ValidDeployment(d, releases),
           NEW j \in DOMAIN d.jobs
    PROVE  InterfacesOutcome(d, d.jobs[j]) = "ok"
<1> DEFINE networks == d.jobs[j].networks
<1>1. ValidJobNetworks(d, networks)
  BY DEF ValidDeployment, ValidJob
<1>2. ASSUME NEW i \in DOMAIN networks
      PROVE  InterfaceOutcome(NetworkNamed(d, networks[i].name)) = "ok"
  <2> DEFINE n == NetworkNamed(d, networks[i].name)
  <2>1. n \in Network /\ ValidNetwork(n)
    BY <1>1, NamedNetwork DEF ValidJobNetworks
  <2> HIDE DEF n
  <2>2. n.type = "manual" => n.subnets # <<>> /\ ParsesCIDR(n.subnets[1].range)
    BY <2>1 DEF ValidNetwork, Network
  <2>3. InterfaceOutcome(n) = "ok"
    BY <2>2 DEF InterfaceOutcome
  <2>4. QED
    BY <2>3 DEF n
<1>3. QED
  BY <1>2 DEF InterfacesOutcome

\* The resource pool and the disk pool of a valid job exist.
LEMMA PoolsExist ==
    ASSUME NEW d, IsDeployment(d), NEW releases, ValidDeployment(d, releases), d.jobs # <<>>
    PROVE  /\ ResourcePool(d, d.jobs[1].name) # 0
           /\ DiskPool(d, d.jobs[1]) \in Int /\ DiskPool(d, d.jobs[1]) >= 0
<1> DEFINE j == d.jobs[1]
           k == FindByName(d.disk_pools, j.persistent_disk_pool)
<1>1. /\ d.jobs \in Seq(Job) /\ d.resource_pools \in Seq(ResourcePoolEntry)
      /\ d.disk_pools \in Seq(DiskPoolEntry)
  BY DEF IsDeployment
<1>2. Len(d.jobs) <= 1 /\ \A i \in DOMAIN d.jobs : ValidJob(d, releases, d.jobs[i])
  BY DEF ValidDeployment
<1>3. Len(d.jobs) = 1 /\ 1 \in DOMAIN d.jobs
  <2>1. d.jobs \in Seq(Job) /\ d.jobs # <<>>
    BY <1>1
  <2>2. QED
    BY <1>2, <2>1, SingleEntry
<1>4. j \in Job /\ ValidJob(d, releases, j)
  BY <1>1, <1>2, <1>3
<1> HIDE DEF j
<1>5. FindJobByName(d, j.name) = FindByName(d.jobs, j.name)
  BY DEF FindJobByName, FindByName
<1>6. FindJobByName(d, j.name) = 1
  <2>1. \E i \in 1 .. Len(d.jobs) : d.jobs[i].name = j.name
    BY <1>3 DEF j
  <2>2. FindByName(d.jobs, j.name) \in 0 .. 1 /\ FindByName(d.jobs, j.name) # 0
    BY <1>1, <1>3, <2>1, FirstNamed
  <2>3. QED
    BY <2>2, <1>5
<1>7. ResourcePool(d, j.name) = FindByName(d.resource_pools, j.resource_pool)
  BY <1>6 DEF ResourcePool, FindByName, j
<1>8. \E i \in 1 .. Len(d.resource_pools) : d.resource_pools[i].name = j.resource_pool
  <2>1. j.resource_pool \in Names(d.resource_pools)
    BY <1>4 DEF ValidJob
  <2>2. QED
    BY <1>1, <2>1, ListedName
<1>9. ResourcePool(d, j.name) # 0
  BY <1>1, <1>7, <1>8, FirstNamed
<1>10. DiskPool(d, j) = IF j.persistent_disk_pool = "" THEN j.persistent_disk
                        ELSE IF k = 0 THEN -1 ELSE d.disk_pools[k].disk_size
  BY DEF DiskPool, FindByName
<1> HIDE DEF k
<1>11. CASE j.persistent_disk_pool = ""
  <2>1. j.persistent_disk \in Int /\ j.persistent_disk >= 0
    BY <1>4 DEF Job, ValidJob
  <2>2. QED
    BY <1>9, <1>10, <1>11, <2>1 DEF j
<1>12. CASE j.persistent_disk_pool # ""
  <2>1. \E i \in 1 .. Len(d.disk_pools) : d.disk_pools[i].name = j.persistent_disk_pool
    <3>1. j.persistent_disk_pool \in Names(d.disk_pools)
      BY <1>4, <1>12 DEF ValidJob
    <3>2. QED
      BY <1>1, <3>1, ListedName
  <2>2. k \in 1 .. Len(d.disk_pools)
    BY <1>1, <2>1, FirstNamed DEF k
  <2>3. d.disk_pools[k].disk_size \in Int /\ ValidDiskPool(d.disk_pools[k])
    <3>1. \A i \in DOMAIN d.disk_pools : ValidDiskPool(d.disk_pools[i])
      BY DEF ValidDeployment
    <3>2. d.disk_pools[k] \in DiskPoolEntry /\ k \in DOMAIN d.disk_pools
      BY <1>1, <2>2
    <3>3. QED
      BY <3>1, <3>2 DEF DiskPoolEntry
  <2>4. QED
    <3>1. k # 0 /\ d.disk_pools[k].disk_size >= 0
      BY <2>2, <2>3 DEF ValidDiskPool
    <3>2. DiskPool(d, j) = d.disk_pools[k].disk_size
      BY <1>10, <1>12, <3>1
    <3>3. QED
      BY <1>9, <2>3, <3>1, <3>2 DEF j
<1>13. QED
  BY <1>11, <1>12

-----------------------------------------------------------------------------
(* The networks the new VM is created with                                 *)

\* The powers of two that sizes of ranges are
LEMMA RangeBounds ==
    ASSUME NEW cidr, ParsesCIDR(cidr)
    PROVE  NetworkAddress(cidr) \in Int /\ LastAddress(cidr) \in Int
<1>1. AddressBits \in Nat /\ cidr.ones \in 0 .. AddressBits
  BY AddressAssumption DEF ParsesCIDR
<1>2. Size(cidr) \in Nat \ {0}
  BY <1>1, AddressAssumption DEF Size
<1>3. cidr.addr \in Int
  BY DEF ParsesCIDR, Addresses
<1>4. cidr.addr % Size(cidr) \in Int
  BY <1>2, <1>3
<1>5. QED
  BY <1>2, <1>3, <1>4 DEF NetworkAddress, LastAddress

\* A gateway that passes validation is neither the first nor the last address.
LEMMA GatewayInside ==
    ASSUME NEW range, ParsesCIDR(range), NEW gateway, ValidGateway(range, gateway)
    PROVE  InRange(range, gateway - 1) /\ InRange(range, gateway + 1)
<1>1. NetworkAddress(range) \in Int /\ LastAddress(range) \in Int
  BY RangeBounds
<1>2. /\ gateway \in NetworkAddress(range) .. LastAddress(range)
      /\ gateway # NetworkAddress(range) /\ gateway # LastAddress(range)
  BY DEF ValidGateway, InRange
<1>3. QED
  BY <1>1, <1>2 DEF InRange

\* What is validated of the networks of a job, entry by entry
LEMMA ValidJobNetwork ==
    ASSUME NEW d, IsDeployment(d), NEW releases, ValidDeployment(d, releases),
           NEW j \in DOMAIN d.jobs, NEW i \in DOMAIN d.jobs[j].networks
    PROVE  /\ d.jobs[j].networks[i] \in JobNetwork
           /\ d.jobs[j].networks[i].name \in Names(d.networks)
           /\ \A k \in DOMAIN d.jobs[j].networks[i].static_ips :
                ValidStaticIP(NetworkNamed(d, d.jobs[j].networks[i].name),
                              d.jobs[j].networks[i].static_ips[k])
<1>1. ValidJobNetworks(d, d.jobs[j].networks)
  BY DEF ValidDeployment, ValidJob
<1>2. d.jobs[j] \in Job
  BY DEF IsDeployment
<1>3. d.jobs[j].networks \in Seq(JobNetwork)
  BY <1>2 DEF Job
<1>4. d.jobs[j].networks[i] \in JobNetwork
  BY <1>3
<1>5. QED
  BY <1>1, <1>4 DEF ValidJobNetworks

\* The interface of a manual network: the address it is given and the gateway
LEMMA ManualInterface ==
    ASSUME NEW d, IsDeployment(d), NEW releases, ValidDeployment(d, releases),
           NEW j \in DOMAIN d.jobs, NEW i \in DOMAIN d.jobs[j].networks,
           NEW iface,
           iface = Interface(NetworkNamed(d, d.jobs[j].networks[i].name), d.jobs[j].networks[i]),
           iface.type = "manual"
    PROVE  /\ iface.ip # NoText => InRange(iface.range, iface.ip)
           /\ InRange(iface.range, iface.gateway - 1)
           /\ InRange(iface.range, iface.gateway + 1)
<1> DEFINE jn == d.jobs[j].networks[i]
           n == NetworkNamed(d, jn.name)
<1>1. /\ jn \in JobNetwork /\ jn.name \in Names(d.networks)
      /\ \A k \in DOMAIN jn.static_ips : ValidStaticIP(n, jn.static_ips[k])
  BY ValidJobNetwork
<1>2. n \in Network /\ ValidNetwork(n)
  BY <1>1, NamedNetwork
<1>3. iface = Interface(n, jn)
  OBVIOUS
<1> HIDE DEF n, jn
<1>4. n.type = "manual"
  BY <1>3 DEF Interface
<1>5. /\ Len(n.subnets) = 1 /\ n.subnets \in Seq(Subnet)
      /\ ParsesCIDR(n.subnets[1].range) /\ ValidGateway(n.subnets[1].range, n.subnets[1].gateway)
  BY <1>2, <1>4 DEF ValidNetwork, Network
<1>6. /\ iface.range = n.subnets[1].range /\ iface.gateway = n.subnets[1].gateway
      /\ iface.ip = IF jn.static_ips = <<>> THEN NoText ELSE jn.static_ips[1]
  BY <1>3, <1>4 DEF Interface
<1>7. InRange(iface.range, iface.gateway - 1) /\ InRange(iface.range, iface.gateway + 1)
  BY <1>5, <1>6, GatewayInside
<1>8. ASSUME iface.ip # NoText PROVE InRange(iface.range, iface.ip)
  <2>1. jn.static_ips # <<>> /\ jn.static_ips \in Seq(IPTexts) /\ iface.ip = jn.static_ips[1]
    BY <1>1, <1>6, <1>8 DEF JobNetwork
  <2>2. 1 \in DOMAIN jn.static_ips
    BY <2>1, HasFirst
  <2>3. ValidStaticIP(n, iface.ip)
    BY <1>1, <2>1, <2>2
  <2>4. \E k \in DOMAIN n.subnets : InRange(n.subnets[k].range, iface.ip)
    BY <1>4, <2>3 DEF ValidStaticIP
  <2>5. DOMAIN n.subnets = {1}
    BY <1>5
  <2>6. QED
    BY <1>6, <2>4, <2>5
<1>9. QED
  BY <1>7, <1>8

\* The defaults given by the networks of a job, by the positions where they are given
Given(networks, dflt) ==
    {k \in UNION {{<<i, j>> : j \in DOMAIN networks[i].default} : i \in DOMAIN networks} :
        networks[k[1]].default[k[2]] = dflt}

LEMMA GivenFinite ==
    ASSUME NEW networks \in Seq(JobNetwork), NEW dflt
    PROVE  IsFiniteSet(Given(networks, dflt))
<1> DEFINE At(i) == {<<i, j>> : j \in DOMAIN networks[i].default}
           Ats == {At(i) : i \in DOMAIN networks}
<1>1. ASSUME NEW i \in DOMAIN networks PROVE IsFiniteSet(At(i))
  <2> DEFINE n == Len(networks[i].default)
             f == [j \in 1 .. n |-> <<i, j>>]
  <2>0. networks[i] \in JobNetwork
    OBVIOUS
  <2>1. networks[i].default \in Seq(STRING)
    BY <2>0 DEF JobNetwork
  <2>2. n \in Nat /\ DOMAIN networks[i].default = 1 .. n
    BY <2>1
  <2>3. IsFiniteSet(1 .. n)
    BY <2>2, FS_Interval
  <2>4. f \in [1 .. n -> At(i)] /\ \A t \in At(i) : \E j \in 1 .. n : f[j] = t
    BY <2>2
  <2> HIDE DEF f, At
  <2>5. f \in Surjection(1 .. n, At(i))
    BY <2>4, Fun_IsSurj
  <2>6. QED
    BY <2>3, <2>5, FS_Surjection
<1>2. IsFiniteSet(Ats)
  <2> DEFINE n == Len(networks)
             f == [i \in 1 .. n |-> At(i)]
  <2>1. n \in Nat /\ DOMAIN networks = 1 .. n
    OBVIOUS
  <2>2. IsFiniteSet(1 .. n)
    BY <2>1, FS_Interval
  <2> HIDE DEF At
  <2>3. f \in [1 .. n -> Ats] /\ \A t \in Ats : \E j \in 1 .. n : f[j] = t
    BY <2>1
  <2> HIDE DEF f, Ats
  <2>4. f \in Surjection(1 .. n, Ats)
    BY <2>3, Fun_IsSurj
  <2>5. QED
    BY <2>2, <2>4, FS_Surjection
<1>3. \A T \in Ats : IsFiniteSet(T)
  BY <1>1
<1>4. IsFiniteSet(UNION Ats)
  BY <1>2, <1>3, FS_UNION
<1>5. Given(networks, dflt) \subseteq UNION Ats
  BY DEF Given
<1>6. QED
  BY <1>4, <1>5, FS_Subset

\* Of several networks exactly one gives a default.
LEMMA OneDefault ==
    ASSUME NEW d, NEW networks \in Seq(JobNetwork), ValidJobNetworks(d, networks),
           Len(networks) > 1, NEW dflt \in {"dns", "gateway"}
    PROVE  \E i \in DOMAIN networks : \A m \in DOMAIN networks :
               dflt \in ToSet(networks[m].default) <=> m = i
<1> DEFINE K == Given(networks, dflt)
<1>1. IsFiniteSet(K)
  BY GivenFinite
<1>2. DefaultCount(networks, dflt) = Cardinality(K)
  BY DEF DefaultCount, Given
<1>3. DefaultCount(networks, dflt) # 0 /\ DefaultCount(networks, dflt) <= 1
  BY DEF ValidJobNetworks
<1>4. Cardinality(K) = 1
  BY <1>1, <1>2, <1>3, FS_CardinalityType
<1>5. PICK x : K = {x}
  BY <1>1, <1>4, FS_Singleton
<1>6. ASSUME NEW m \in DOMAIN networks
      PROVE  dflt \in ToSet(networks[m].default) <=> \E l \in DOMAIN networks[m].default : <<m, l>> \in K
  <2>1. ASSUME NEW l \in DOMAIN networks[m].default
        PROVE  <<m, l>> \in K <=> networks[m].default[l] = dflt
    <3>1. <<m, l>> \in UNION {{<<i, j>> : j \in DOMAIN networks[i].default} : i \in DOMAIN networks}
      OBVIOUS
    <3>2. <<m, l>>[1] = m /\ <<m, l>>[2] = l
      OBVIOUS
    <3>3. QED
      BY <3>1, <3>2 DEF Given
  <2>2. QED
    BY <2>1 DEF ToSet
<1>7. PICK i \in DOMAIN networks : \E l \in DOMAIN networks[i].default : x = <<i, l>>
  BY <1>5 DEF Given
<1> HIDE DEF K
<1>8. ASSUME NEW m \in DOMAIN networks
      PROVE  dflt \in ToSet(networks[m].default) <=> m = i
  <2>1. ASSUME dflt \in ToSet(networks[m].default) PROVE m = i
    BY <1>5, <1>6, <1>7, <2>1
  <2>2. ASSUME m = i PROVE dflt \in ToSet(networks[m].default)
    BY <1>5, <1>6, <1>7, <2>2
  <2>3. QED
    BY <2>1, <2>2
<1>9. QED
  BY <1>8

\* The interface of a network is that of its last listing.
LEMMA InterfaceNamed ==
    ASSUME NEW d, NEW jb, jb.networks \in Seq(JobNetwork), NEW n \in Names(jb.networks)
    PROVE  \E i \in DOMAIN jb.networks :
             /\ jb.networks[i].name = n /\ i = FindLast(jb.networks, n)
             /\ LET iface == NetworkInterfaces(d, jb)[n]
                    plain == Interface(NetworkNamed(d, n), jb.networks[i])
                IN  /\ iface.type = plain.type /\ iface.ip = plain.ip
                    /\ iface.range = plain.range /\ iface.gateway = plain.gateway
                    /\ iface.default = IF Len(jb.networks) = 1 THEN {"dns", "gateway"}
                                       ELSE ToSet(jb.networks[i].default)
<1> DEFINE i == FindLast(jb.networks, n)
<1>1. \E k \in 1 .. Len(jb.networks) : jb.networks[k].name = n
  BY ListedName
<1>2. i \in 1 .. Len(jb.networks) /\ jb.networks[i].name = n
  BY <1>1, LastNamed
<1>3. i \in DOMAIN jb.networks
  BY <1>2
<1>4. NetworkInterfaces(d, jb)[n] =
        IF Len(jb.networks) = 1
        THEN [Interface(NetworkNamed(d, n), jb.networks[i]) EXCEPT !.default = {"dns", "gateway"}]
        ELSE Interface(NetworkNamed(d, n), jb.networks[i])
  BY DEF NetworkInterfaces, FindLast
<1> HIDE DEF i
<1>5. QED
  BY <1>2, <1>3, <1>4 DEF i, Interface

LEMMA InterfacesDomain ==
    ASSUME NEW d, NEW jb PROVE DOMAIN NetworkInterfaces(d, jb) = Names(jb.networks)
BY DEF NetworkInterfaces

\* What validation leaves of the networks of the new VM
LEMMA ManualInterfaces ==
    ASSUME NEW d, IsDeployment(d), NEW releases, ValidDeployment(d, releases),
           NEW j \in DOMAIN d.jobs, NEW n \in Names(d.jobs[j].networks),
           NEW iface, iface = NetworkInterfaces(d, d.jobs[j])[n], iface.type = "manual"
    PROVE  /\ iface.ip # NoText => InRange(iface.range, iface.ip)
           /\ InRange(iface.range, iface.gateway - 1)
           /\ InRange(iface.range, iface.gateway + 1)
<1>1. d.jobs[j].networks \in Seq(JobNetwork)
  <2>1. d.jobs[j] \in Job
    BY DEF IsDeployment
  <2>2. QED
    BY <2>1 DEF Job
<1>2. PICK i \in DOMAIN d.jobs[j].networks :
        /\ d.jobs[j].networks[i].name = n
        /\ LET plain == Interface(NetworkNamed(d, n), d.jobs[j].networks[i])
           IN  /\ iface.type = plain.type /\ iface.ip = plain.ip
               /\ iface.range = plain.range /\ iface.gateway = plain.gateway
  <2> DEFINE jb == d.jobs[j]
  <2>1. jb.networks \in Seq(JobNetwork) /\ n \in Names(jb.networks) /\ iface = NetworkInterfaces(d, jb)[n]
    BY <1>1
  <2> HIDE DEF jb
  <2>2. \E i \in DOMAIN jb.networks :
        /\ jb.networks[i].name = n
        /\ LET plain == Interface(NetworkNamed(d, n), jb.networks[i])
           IN  /\ iface.type = plain.type /\ iface.ip = plain.ip
               /\ iface.range = plain.range /\ iface.gateway = plain.gateway
    BY <2>1, InterfaceNamed
  <2>3. QED
    BY <2>2 DEF jb
<1> DEFINE plain == Interface(NetworkNamed(d, d.jobs[j].networks[i].name), d.jobs[j].networks[i])
<1>3. /\ iface.type = plain.type /\ iface.ip = plain.ip
      /\ iface.range = plain.range /\ iface.gateway = plain.gateway
  BY <1>2
<1> HIDE DEF plain
<1>4. /\ plain.ip # NoText => InRange(plain.range, plain.ip)
      /\ InRange(plain.range, plain.gateway - 1)
      /\ InRange(plain.range, plain.gateway + 1)
  BY <1>2, <1>3, ManualInterface DEF plain
<1>5. QED
  BY <1>3, <1>4

\* Networks that are listed once: one of them is the default, whichever default.
LEMMA DefaultInterface ==
    ASSUME NEW d, NEW jb, jb.networks \in Seq(JobNetwork), ValidJobNetworks(d, jb.networks),
           jb.networks # <<>>, ~ListedTwice(jb.networks), NEW dflt \in {"dns", "gateway"}
    PROVE  \E n \in Names(jb.networks) : \A m \in Names(jb.networks) :
               dflt \in NetworkInterfaces(d, jb)[m].default <=> m = n
<1> DEFINE ifaces == NetworkInterfaces(d, jb)
<1>1. CASE Len(jb.networks) = 1
  <2>1. DOMAIN jb.networks = {1}
    BY <1>1
  <2>2. Names(jb.networks) = {jb.networks[1].name}
    BY <2>1 DEF Names
  <2>3. ASSUME NEW m \in Names(jb.networks) PROVE dflt \in ifaces[m].default
    BY <1>1, InterfaceNamed
  <2>4. QED
    BY <2>2, <2>3
<1>2. CASE Len(jb.networks) # 1
  <2>1. Len(jb.networks) > 1
    BY <1>2, SeveralEntries
  <2>2. PICK i \in DOMAIN jb.networks : \A k \in DOMAIN jb.networks :
           dflt \in ToSet(jb.networks[k].default) <=> k = i
    BY <2>1, OneDefault
  <2>3. jb.networks[i].name \in Names(jb.networks)
    BY DEF Names
  <2>4. ASSUME NEW m \in Names(jb.networks) PROVE dflt \in ifaces[m].default <=> m = jb.networks[i].name
    <3>1. PICK k \in DOMAIN jb.networks :
            jb.networks[k].name = m /\ ifaces[m].default = ToSet(jb.networks[k].default)
      BY <1>2, InterfaceNamed
    <3>2. m = jb.networks[i].name <=> k = i
      BY <3>1 DEF ListedTwice
    <3>3. QED
      BY <2>2, <3>1, <3>2
  <2>5. QED
    BY <2>3, <2>4
<1>3. QED
  BY <1>1, <1>2

\* NoAddress, of any manifest
NoAddressIn(d, networks) == \E i \in DOMAIN networks :
    /\ Cardinality(Names(networks)) = 1 \/ "gateway" \in ToSet(networks[i].default)
    /\ networks[i].static_ips = <<>> /\ NetworkNamed(d, networks[i].name).type # "dynamic"

\* Looking up the address of a valid job goes wrong in the two known ways only.
LEMMA AddressOutcome ==
    ASSUME NEW d, IsDeployment(d), NEW releases, ValidDeployment(d, releases), NEW j \in DOMAIN d.jobs,
           NEW networks, networks = d.jobs[j].networks, NEW reported,
           NEW a \in defaultAddress(NetworkInterfaces(d, d.jobs[j]), reported)
    PROVE  /\ a.outcome = "panic" => NoAddressIn(d, networks)
           /\ a.outcome = "error" => ListedTwice(networks)
<1> DEFINE jb == d.jobs[j]
           ifaces == NetworkInterfaces(d, jb)
           C == IF Cardinality(DOMAIN ifaces) = 1 THEN DOMAIN ifaces
                ELSE {n \in DOMAIN ifaces : "gateway" \in ifaces[n].default}
<1>1. jb \in Job /\ ValidJob(d, releases, jb)
  BY DEF IsDeployment, ValidDeployment
<1>2. /\ jb.networks \in Seq(JobNetwork) /\ jb.networks # <<>> /\ ValidJobNetworks(d, jb.networks)
      /\ networks = jb.networks
  BY <1>1 DEF Job, ValidJob
<1>3. DOMAIN ifaces = Names(networks)
  BY <1>2, InterfacesDomain
<1>4. a \in IF C = {} THEN {[outcome |-> "error", ip |-> NoText]}
            ELSE {networkIp(n, ifaces[n], reported) : n \in C}
  BY DEF defaultAddress
<1>5. ASSUME NEW i \in DOMAIN networks, networks[i].static_ips # <<>>
      PROVE  networks[i].static_ips[1] # NoText
  <2>1. networks[i].static_ips \in Seq(IPTexts)
    <3>1. networks[i] \in JobNetwork
      BY <1>2
    <3>2. QED
      BY <3>1 DEF JobNetwork
  <2>2. 1 \in DOMAIN networks[i].static_ips
    BY <1>5, <2>1, HasFirst
  <2>3. ValidStaticIP(NetworkNamed(d, networks[i].name), networks[i].static_ips[1])
    BY <1>2, <2>2, ValidJobNetwork
  <2>4. QED
    <3> DEFINE ip == networks[i].static_ips[1]
               top == 2^AddressBits - 1
    <3>1. ip \in 0 .. top
      BY <2>3 DEF ValidStaticIP, isValidIP, Addresses
    <3> HIDE DEF ip, top
    <3>2. ip # -2
      BY <3>1
    <3>3. QED
      BY <3>2 DEF ip, NoText
<1> HIDE DEF jb, ifaces, C
<1>6. CASE C = {}
  <2>1. a.outcome = "error"
    BY <1>4, <1>6
  <2>2. ASSUME ~ListedTwice(networks) PROVE FALSE
    <3>1. PICK n \in Names(networks) : "gateway" \in ifaces[n].default
      BY <1>2, <2>2, DefaultInterface DEF ifaces
    <3>2. n \in C
      BY <1>3, <3>1 DEF C
    <3>3. QED
      BY <1>6, <3>2
  <2>3. QED
    BY <2>1, <2>2
<1>7. CASE C # {}
  <2>1. PICK n \in C : a = networkIp(n, ifaces[n], reported)
    BY <1>4, <1>7
  <2>2. a.outcome \in {"ok", "panic"}
    BY <2>1 DEF networkIp
  <2>3. n \in Names(networks)
    BY <1>3 DEF C
  <2>4. ASSUME a.outcome = "panic"
        PROVE  NoAddressIn(d, networks)
    <3>1. ifaces[n].type # "dynamic" /\ ifaces[n].ip = NoText
      BY <2>1, <2>4 DEF networkIp
    <3>2. PICK i \in DOMAIN networks :
            LET plain == Interface(NetworkNamed(d, n), networks[i])
            IN  /\ networks[i].name = n
                /\ ifaces[n].type = plain.type /\ ifaces[n].ip = plain.ip
                /\ ifaces[n].default = IF Len(networks) = 1 THEN {"dns", "gateway"}
                                       ELSE ToSet(networks[i].default)
      BY <1>2, <2>3, InterfaceNamed DEF ifaces
    <3>3. NetworkNamed(d, networks[i].name).type # "dynamic"
      BY <3>1, <3>2 DEF Interface
    <3>4. networks[i].static_ips = <<>>
      BY <1>5, <3>1, <3>2 DEF Interface
    <3>5. Cardinality(Names(networks)) = 1 \/ "gateway" \in ToSet(networks[i].default)
      <4>1. CASE Len(networks) = 1
        <5>1. DOMAIN networks = {1}
          BY <1>2, <4>1
        <5>2. Names(networks) = {networks[1].name}
          BY <5>1 DEF Names
        <5>3. QED
          BY <5>2, FS_Singleton
      <4>2. CASE Len(networks) # 1
        BY <1>3, <3>2, <4>2 DEF C
      <4>3. QED
        BY <4>1, <4>2
    <3>6. QED
      BY <3>3, <3>4, <3>5 DEF NoAddressIn
  <2>5. QED
    BY <2>2, <2>4
<1>8. QED
  BY <1>6, <1>7

-----------------------------------------------------------------------------
(* Releases                                                                *)

\* What the reader makes of the packages of a release.MF
LEMMA ReadPackages ==
    ASSUME NEW mf, IsReleaseManifest(mf)
    PROVE  /\ ReadRelease(mf).packages \in Seq(ToSet(ReadRelease(mf).packages))
           /\ ReadRelease(mf).isCompiled => ReadRelease(mf).packages # <<>>
           /\ \A i \in DOMAIN ReadRelease(mf).packages :
                /\ ReadRelease(mf).packages[i].in_release
                /\ ~ReadRelease(mf).isCompiled => ReadRelease(mf).packages[i].stemcell = ""
<1> DEFINE mp == ManifestPackages(mf)
           compiled == IsCompiled(mf)
<1>1. mp \in Seq(PackageRef) /\ (compiled => mp # <<>>)
  BY DEF IsReleaseManifest, ManifestPackages, IsCompiled
<1>2. /\ ReadRelease(mf).packages = [i \in DOMAIN mp |-> FindOrCreatePackage(mf, mp[i].name)]
      /\ ReadRelease(mf).isCompiled = compiled
  BY DEF ReadRelease
<1> DEFINE PackageOf(name, p) ==
             [name |-> name, fingerprint |-> p.fingerprint, sha1 |-> p.sha1,
              stemcell |-> IF compiled THEN p.stemcell ELSE "",
              dependencies |-> p.dependencies, in_release |-> TRUE]
<1>3. ASSUME NEW name
      PROVE  FindOrCreatePackage(mf, name) =
               IF FindLast(mp, name) = 0 THEN Dangling(name)
               ELSE PackageOf(name, mp[FindLast(mp, name)])
  BY DEF FindOrCreatePackage, FindLast
<1> HIDE DEF mp, compiled
<1>4. ASSUME NEW i \in DOMAIN mp
      PROVE  /\ FindOrCreatePackage(mf, mp[i].name).in_release
             /\ ~compiled => FindOrCreatePackage(mf, mp[i].name).stemcell = ""
  <2>1. mp[i] \in PackageRef /\ i \in 1 .. Len(mp)
    BY <1>1
  <2> DEFINE k == FindLast(mp, mp[i].name)
  <2>2. k \in 1 .. Len(mp)
    BY <1>1, <2>1, LastNamed
  <2>3. k # 0
    BY <2>2
  <2>4. FindOrCreatePackage(mf, mp[i].name) = PackageOf(mp[i].name, mp[k])
    BY <1>3, <2>3, Zenon
  <2> HIDE DEF k
  <2>5. /\ PackageOf(mp[i].name, mp[k]).in_release = TRUE
        /\ ~compiled => PackageOf(mp[i].name, mp[k]).stemcell = ""
    OBVIOUS
  <2> HIDE DEF PackageOf
  <2>6. QED
    BY <2>4, <2>5
<1>5. /\ ReadRelease(mf).packages \in Seq(ToSet(ReadRelease(mf).packages))
      /\ DOMAIN ReadRelease(mf).packages = DOMAIN mp
  <2> DEFINE f == [i \in DOMAIN mp |-> FindOrCreatePackage(mf, mp[i].name)]
  <2>1. f \in Seq(ToSet(f)) /\ DOMAIN f = DOMAIN mp
    BY <1>1 DEF ToSet
  <2>2. QED
    BY <1>2, <2>1
<1>6. compiled => ReadRelease(mf).packages # <<>>
  <2>1. ASSUME compiled PROVE 1 \in DOMAIN mp
    BY <1>1, <2>1, HasFirst
  <2>2. DOMAIN <<>> = {}
    OBVIOUS
  <2>3. QED
    BY <1>5, <2>1, <2>2
<1>7. QED
  BY <1>2, <1>4, <1>5, <1>6

\* A set of at most one element
LEMMA AtMostOne ==
    ASSUME NEW S, IsFiniteSet(S), Cardinality(S) <= 1, NEW a \in S, NEW b \in S
    PROVE  a = b
<1>1. Cardinality(S) \in Nat /\ Cardinality(S) # 0
  BY FS_CardinalityType, FS_EmptySet
<1>2. Cardinality(S) = 1
  BY <1>1
<1>3. QED
  BY <1>2, FS_Singleton

\* The packages of a valid compiled release were compiled for one stemcell.
LEMMA OneStemcell ==
    ASSUME NEW mf, IsReleaseManifest(mf), ValidRelease(ReadRelease(mf)), ReadRelease(mf).isCompiled,
           NEW k \in DOMAIN ReadRelease(mf).packages
    PROVE  ReadRelease(mf).packages[k].stemcell = ReadRelease(mf).packages[1].stemcell
<1> DEFINE release == ReadRelease(mf)
           n == Len(release.packages)
           f == [i \in 1 .. n |-> release.packages[i].stemcell]
<1>1. release.packages \in Seq(ToSet(release.packages)) /\ release.packages # <<>>
  BY ReadPackages
<1>2. n \in Nat /\ DOMAIN release.packages = 1 .. n /\ 1 \in DOMAIN release.packages
  BY <1>1, HasFirst
<1>3. Cardinality(Stemcells(release)) <= 1
  BY DEF ValidRelease, ValidReleasePackages
<1>4. k \in DOMAIN release.packages
  OBVIOUS
<1> HIDE DEF release
<1>5. IsFiniteSet(Stemcells(release))
  <2>1. IsFiniteSet(1 .. n)
    BY <1>2, FS_Interval
  <2>2. f \in [1 .. n -> Stemcells(release)] /\ \A t \in Stemcells(release) : \E i \in 1 .. n : f[i] = t
    BY <1>2 DEF Stemcells
  <2> HIDE DEF f, n
  <2>3. f \in Surjection(1 .. n, Stemcells(release))
    BY <2>2, Fun_IsSurj
  <2>4. QED
    BY <2>1, <2>3, FS_Surjection
<1>6. release.packages[k].stemcell \in Stemcells(release) /\ release.packages[1].stemcell \in Stemcells(release)
  BY <1>2, <1>4 DEF Stemcells
<1>7. release.packages[k].stemcell = release.packages[1].stemcell
  BY <1>3, <1>5, <1>6, AtMostOne
<1>8. QED
  BY <1>7 DEF release

\* A release from source without dependencies between its packages compiles.
LEMMA IndependentPackagesCompile ==
    ASSUME NEW mf, IsReleaseManifest(mf), ValidRelease(ReadRelease(mf)), ~ReadRelease(mf).isCompiled,
           \A i \in DOMAIN ReadRelease(mf).packages : ReadRelease(mf).packages[i].dependencies = {},
           NEW k \in DOMAIN ReadRelease(mf).jobs, NEW indexed
    PROVE  CompilesLocally(RequiredPackages(ReadRelease(mf), ReadRelease(mf).jobs[k]), indexed)
<1> DEFINE release == ReadRelease(mf)
           names == release.jobs[k].packages
<1>1. /\ release.packages \in Seq(ToSet(release.packages))
      /\ \A i \in DOMAIN release.packages : release.packages[i].in_release /\ release.packages[i].stemcell = ""
  BY ReadPackages
<1>2. names \subseteq Names(release.packages)
  BY DEF ValidRelease, ValidReleaseJob, Names
<1>3. \A i \in DOMAIN release.packages : release.packages[i].dependencies = {}
  OBVIOUS
<1> HIDE DEF release, names
<1>4. ASSUME NEW name \in names
      PROVE  \E i \in DOMAIN release.packages : PackageNamed(release, name) = release.packages[i]
  <2> DEFINE i == FindByName(release.packages, name)
  <2>1. PackageNamed(release, name) = IF i = 0 THEN Dangling(name) ELSE release.packages[i]
    BY DEF PackageNamed, FindByName
  <2>2. \E j \in 1 .. Len(release.packages) : release.packages[j].name = name
    BY <1>1, <1>2, ListedName
  <2>3. i \in 1 .. Len(release.packages)
    <3> DEFINE s == release.packages
    <3>1. s \in Seq(ToSet(s)) /\ \E j \in 1 .. Len(s) : s[j].name = name
      BY <1>1, <2>2
    <3> HIDE DEF s
    <3>2. FindByName(s, name) \in 1 .. Len(s)
      BY <3>1, FirstNamed
    <3>3. QED
      BY <3>2 DEF s
  <2> HIDE DEF i
  <2>4. i # 0 /\ i \in DOMAIN release.packages
    <3> DEFINE s == release.packages
    <3>1. s \in Seq(ToSet(s)) /\ i \in 1 .. Len(s)
      BY <1>1, <2>3
    <3> HIDE DEF s
    <3>2. i # 0 /\ i \in DOMAIN s
      BY <3>1
    <3>3. QED
      BY <3>2 DEF s
  <2>5. QED
    BY <2>1, <2>4
<1>5. WithDependencies(release, names) = names
  BY <1>3, <1>4 DEF WithDependencies
<1>6. RequiredPackages(release, release.jobs[k]) = {PackageNamed(release, name) : name \in names}
  BY <1>5 DEF RequiredPackages, names
<1>7. ASSUME NEW p \in RequiredPackages(release, release.jobs[k])
      PROVE  p.in_release /\ p.stemcell = "" /\ p.dependencies = {}
  BY <1>1, <1>3, <1>4, <1>6
<1>8. CompilesLocally(RequiredPackages(release, release.jobs[k]), indexed)
  BY <1>7 DEF CompilesLocally
<1>9. QED
  BY <1>8 DEF release

-----------------------------------------------------------------------------
(* The inductive invariant                                                 *)

SetValid == ValidReleaseSet(releaseSet) /\ ValidInstallation(installation, releaseSet)

CpiValid ==
    /\ Managed(installation.template.release) # 0
    /\ ValidCpiRelease(cpiRelease, installation.template.name)

DeploymentValid == ValidDeployment(deployment, releaseSet) /\ ValidReleaseJobs

Validated == {"fetch", "cpi", "deployment", "stemcell", "compiled", "install", "replace", "create", "build"}

\* The stages of a deploy that come after its manifest was validated
AfterManifest ==
    phase \in {"stemcell", "compiled", "replace", "create", "build"} \/ (phase = "install" /\ command = "deploy")

\* What each stage can rely on
StagesInv ==
    /\ phase \in Validated => SetValid
    /\ phase \in Validated \ {"fetch", "cpi"} => CpiValid
    /\ phase \in {"deployment", "stemcell", "compiled", "replace", "create", "build"} => command = "deploy"
    /\ AfterManifest => DeploymentValid
    /\ AfterManifest /\ phase # "stemcell" => deployment.jobs # <<>>
    /\ phase \in {"create", "build"} => vmDeleted
    /\ phase \notin {"idle", "cleanup"} => result = "none" /\ command # "none"

\* The manager has the first of the releases to fetch, and all it has are valid.
FetchInv ==
    /\ manager \in Seq(Nat)
    /\ Len(manager) <= Len(ReleasesToFetch)
    /\ \A k \in 1 .. Len(manager) : manager[k] = ReleasesToFetch[k]
    /\ \A i \in ToSet(manager) : ValidRelease(Release(i))

StemcellInv ==
    /\ phase \in {"manifests", "fetch", "cpi", "deployment", "stemcell"} => stemcell = "none"
    /\ phase # "idle" /\ stemcell = "extracted" =>
        phase = "compiled" \/ (phase = "cleanup" /\ result = "compiled")

\* Every directory has an owner that will delete it, but for a release of the wrong name.
DirsInv ==
    phase # "idle" /\ ~removeFailed =>
        dirs \subseteq ToSet(manager) \cup (IF stemcell # "none" THEN {0} ELSE {})
            \cup (IF phase = "cleanup" /\ result = "name mismatch"
                  THEN DOMAIN input.tarballs \ ToSet(manager) ELSE {})

IInv ==
    /\ TypeOK /\ input \in Inputs
    /\ FetchInv /\ StagesInv /\ StemcellInv /\ DirsInv
    /\ LeftoverDirs /\ CompiledReleasesMatch /\ OnlyKnownLateFailures

-----------------------------------------------------------------------------
(* What depends on the input alone                                         *)

LEMMA InputShape ==
    ASSUME input \in Inputs
    PROVE  /\ releaseSet \in Seq(ReleaseRef) /\ IsDeployment(deployment)
           /\ Len(input.tarballs) \in Nat /\ DOMAIN input.tarballs = 1 .. Len(input.tarballs)
           /\ DOMAIN releaseSet \subseteq DOMAIN input.tarballs
           /\ \A i \in DOMAIN input.tarballs : IsReleaseManifest(input.tarballs[i])
<1>1. /\ input.releases \in Seq(ReleaseRef) /\ input.deployment \in RawDeployment
      /\ input.tarballs \in Seq(ToSet(input.tarballs)) /\ Len(input.releases) <= Len(input.tarballs)
      /\ \A i \in DOMAIN input.tarballs : IsReleaseManifest(input.tarballs[i])
  BY InputsAssumption
<1> DEFINE rs == input.releases
           ts == input.tarballs
<1>2. rs \in Seq(ReleaseRef) /\ ts \in Seq(ToSet(ts)) /\ Len(rs) <= Len(ts)
      /\ releaseSet = [i \in DOMAIN rs |-> Absolutified(rs[i])]
  BY <1>1 DEF releaseSet, ParseReleaseSet
<1> HIDE DEF rs, ts
<1>3. ASSUME NEW ref \in ReleaseRef PROVE Absolutified(ref) \in ReleaseRef
  BY DEF ReleaseRef, Absolutified, AbsolutifyPath, UrlKinds
<1>4. releaseSet \in Seq(ReleaseRef) /\ DOMAIN releaseSet = DOMAIN rs
  BY <1>2, <1>3
<1>5. DOMAIN rs = 1 .. Len(rs) /\ DOMAIN ts = 1 .. Len(ts) /\ Len(rs) \in Nat /\ Len(ts) \in Nat
  BY <1>2
<1>6. DOMAIN rs \subseteq DOMAIN ts
  BY <1>2, <1>5
<1>7. IsDeployment(deployment)
  BY <1>1, ParseDeploymentShape DEF deployment
<1>8. QED
  BY <1>1, <1>4, <1>5, <1>6, <1>7 DEF ts

LEMMA InputFixed ==
    ASSUME input' = input
    PROVE  /\ releaseSet' = releaseSet /\ installation' = installation
           /\ deployment' = deployment /\ job' = job
           /\ \A i : Release(i)' = Release(i)
           /\ SetValid' <=> SetValid
           /\ UsedBesidesCpi' = UsedBesidesCpi
<1>1. releaseSet' = releaseSet /\ installation' = installation /\ deployment' = deployment
  BY DEF releaseSet, installation, deployment
<1>2. job' = job
  BY <1>1 DEF job
<1>3. \A i : Release(i)' = Release(i)
  BY DEF Release
<1>4. SetValid' <=> SetValid
  BY <1>1 DEF SetValid
<1>5. UsedBesidesCpi' = UsedBesidesCpi
  BY <1>1 DEF UsedBesidesCpi
<1>6. QED
  BY <1>1, <1>2, <1>3, <1>4, <1>5

LEMMA ManagerFixed ==
    ASSUME input' = input, manager' = manager
    PROVE  /\ \A name : Managed(name)' = Managed(name)
           /\ cpiRelease' = cpiRelease
           /\ CpiValid' <=> CpiValid
           /\ ValidReleaseJobs' <=> ValidReleaseJobs
           /\ DeploymentValid' <=> DeploymentValid
<1>1. releaseSet' = releaseSet /\ installation' = installation /\ deployment' = deployment
  BY InputFixed
<1>2. \A i : Release(i)' = Release(i)
  BY InputFixed
<1>3. \A name : Managed(name)' = Managed(name)
  BY DEF Managed, SelectInSeq, Release
<1>4. cpiRelease' = cpiRelease
  BY <1>1, <1>2, <1>3 DEF cpiRelease
<1>5. CpiValid' <=> CpiValid
  BY <1>1, <1>3, <1>4 DEF CpiValid
<1>6. ValidReleaseJobs' <=> ValidReleaseJobs
  BY <1>1, <1>2, <1>3 DEF ValidReleaseJobs
<1>7. DeploymentValid' <=> DeploymentValid
  BY <1>1, <1>6 DEF DeploymentValid
<1>8. QED
  BY <1>3, <1>4, <1>5, <1>6, <1>7

\* The releases to fetch are different ones, and once the manifests are valid each
\* of them has a tarball.
LEMMA FetchShape ==
    ASSUME input \in Inputs, command \in {"none", "deploy", "delete"}
    PROVE  /\ ReleasesToFetch \in Seq(Nat)
           /\ \A k, l \in 1 .. Len(ReleasesToFetch) : ReleasesToFetch[k] = ReleasesToFetch[l] => k = l
           /\ SetValid => \A k \in 1 .. Len(ReleasesToFetch) : ReleasesToFetch[k] \in DOMAIN input.tarballs
<1>1. releaseSet \in Seq(ReleaseRef) /\ DOMAIN releaseSet \subseteq DOMAIN input.tarballs
  BY InputShape
<1>2. CASE command = "deploy"
  <2> DEFINE n == Len(releaseSet)
  <2>1. ReleasesToFetch = [i \in 1 .. n |-> i] /\ n \in Nat /\ DOMAIN releaseSet = 1 .. n
    BY <1>1, <1>2 DEF ReleasesToFetch
  <2> HIDE DEF n
  <2>2. [i \in 1 .. n |-> i] \in Seq(Nat) /\ Len([i \in 1 .. n |-> i]) = n
    BY <2>1
  <2>3. QED
    BY <1>1, <2>1, <2>2
<1>3. CASE command # "deploy"
  <2> DEFINE f == FindByName(releaseSet, installation.template.release)
  <2>1. ReleasesToFetch = <<f>>
    BY <1>3 DEF ReleasesToFetch
  <2>2. f \in 0 .. Len(releaseSet)
    BY <1>1, FirstNamed
  <2>3. SetValid => f # 0
    BY DEF SetValid, ValidInstallation
  <2> HIDE DEF f
  <2>4. f \in Nat
    BY <1>1, <2>2
  <2>5. SetValid => f \in DOMAIN releaseSet
    BY <1>1, <2>2, <2>3
  <2>6. <<f>> \in Seq(Nat) /\ Len(<<f>>) = 1 /\ <<f>>[1] = f
    BY <2>4
  <2>7. QED
    BY <1>1, <2>1, <2>5, <2>6
<1>4. QED
  BY <1>2, <1>3

-----------------------------------------------------------------------------
(* Steps that only move on or leave                                        *)

workVars == <<manager, stemcell, dirs, vmDeleted, removeFailed>>

LEMMA FetchKept == ASSUME IInv, UNCHANGED <<command, input, manager>> PROVE FetchInv'
<1>1. releaseSet' = releaseSet /\ installation' = installation /\ \A i : Release(i)' = Release(i)
  BY InputFixed
<1>2. ReleasesToFetch' = ReleasesToFetch
  BY <1>1 DEF ReleasesToFetch
<1>3. QED
  BY <1>1, <1>2 DEF IInv, FetchInv

LEMMA TypeKept ==
    ASSUME TypeOK, UNCHANGED <<command, input, workVars, commands>>, phase' \in Phases, result' \in Results
    PROVE  TypeOK'
BY DEF TypeOK, workVars

\* A result that validation does not exclude
LEMMA OtherResult ==
    ASSUME result' \notin {"panic", "job", "pool", "network", "package", "instances", "address"}
    PROVE  OnlyKnownLateFailures'
BY DEF OnlyKnownLateFailures

LEMMA QuietLeave ==
    ASSUME IInv, phase \notin {"idle", "cleanup", "compiled"}, UNCHANGED workVars,
           NEW r \in Results \ {"name mismatch", "compiled"}, Leave(r), OnlyKnownLateFailures'
    PROVE  IInv'
<1>1. /\ phase' = "cleanup" /\ result' = r /\ command' = command /\ input' = input /\ commands' = commands
      /\ manager' = manager /\ stemcell' = stemcell /\ dirs' = dirs /\ removeFailed' = removeFailed
  BY DEF Leave, workVars
<1>2. TypeOK' /\ input' \in Inputs
  BY <1>1, TypeKept DEF IInv, Phases
<1>3. FetchInv'
  BY <1>1, FetchKept
<1>4. StagesInv' /\ CompiledReleasesMatch' /\ LeftoverDirs'
  BY <1>1 DEF StagesInv, AfterManifest, Validated, CompiledReleasesMatch, LeftoverDirs
<1>5. StemcellInv'
  BY <1>1 DEF IInv, StemcellInv
<1>6. DirsInv'
  BY <1>1 DEF IInv, DirsInv
<1>7. QED
  BY <1>2, <1>3, <1>4, <1>5, <1>6 DEF IInv

LEMMA QuietGo ==
    ASSUME IInv, phase \notin {"idle", "cleanup", "compiled"}, UNCHANGED workVars,
           NEW p \in {"fetch", "cpi", "deployment", "stemcell", "install", "replace", "create", "build"}, Go(p),
           p \in {"deployment", "stemcell", "cpi", "fetch"} =>
               phase \in {"manifests", "fetch", "cpi", "deployment", "stemcell"},
           StagesInv', CompiledReleasesMatch'
    PROVE  IInv'
<1>1. /\ phase' = p /\ result' = result /\ command' = command /\ input' = input /\ commands' = commands
      /\ manager' = manager /\ stemcell' = stemcell /\ dirs' = dirs /\ removeFailed' = removeFailed
  BY DEF Go, workVars
<1>2. TypeOK' /\ input' \in Inputs
  BY <1>1, TypeKept DEF IInv, Phases, TypeOK
<1>3. FetchInv'
  BY <1>1, FetchKept
<1>4. LeftoverDirs'
  BY <1>1 DEF LeftoverDirs
<1>5. OnlyKnownLateFailures'
  <2>1. result = "none"
    BY DEF IInv, StagesInv
  <2>2. QED
    BY <1>1, <2>1, OtherResult
<1>6. StemcellInv'
  BY <1>1 DEF IInv, StemcellInv
<1>7. DirsInv'
  BY <1>1 DEF IInv, DirsInv
<1>8. QED
  BY <1>2, <1>3, <1>4, <1>5, <1>6, <1>7 DEF IInv

-----------------------------------------------------------------------------
(* The command begins and ends                                             *)

\* No release has been added.
LEMMA NothingFetched ==
    manager = <<>> /\ input \in Inputs /\ command \in {"none", "deploy", "delete"} =>
        FetchInv /\ ToSet(manager) = {} /\ IsInjective(manager)
<1> SUFFICES ASSUME manager = <<>>, input \in Inputs, command \in {"none", "deploy", "delete"}
             PROVE  FetchInv /\ ToSet(manager) = {} /\ IsInjective(manager)
  OBVIOUS
<1>1. ReleasesToFetch \in Seq(Nat)
  BY FetchShape
<1>2. Len(ReleasesToFetch) \in Nat
  BY <1>1
<1>3. manager \in Seq(Nat) /\ Len(manager) = 0 /\ DOMAIN manager = {}
  OBVIOUS
<1>4. ToSet(manager) = {} /\ IsInjective(manager)
  BY <1>3 DEF ToSet, IsInjective
<1>5. QED
  BY <1>2, <1>3, <1>4 DEF FetchInv

LEMMA InitInv == Init => IInv
<1> SUFFICES ASSUME Init PROVE IInv
  OBVIOUS
<1> USE DEF Init
<1>1. FetchInv /\ ToSet(manager) = {} /\ IsInjective(manager)
  BY NothingFetched
<1>2. TypeOK
  <2>1. commands \in 0 .. MaxCommands
    BY PreparationAssumption
  <2>2. QED
    BY <1>1, <2>1 DEF TypeOK, Phases, Results
<1>3. StagesInv /\ StemcellInv /\ DirsInv /\ LeftoverDirs /\ CompiledReleasesMatch
  BY DEF StagesInv, AfterManifest, Validated, StemcellInv, DirsInv, LeftoverDirs, CompiledReleasesMatch
<1>4. OnlyKnownLateFailures
  BY DEF OnlyKnownLateFailures
<1>5. QED
  BY <1>1, <1>2, <1>3, <1>4 DEF IInv

LEMMA BeginInv == ASSUME IInv, NEW c \in {"deploy", "delete"}, Begin(c) PROVE IInv'
<1>1. /\ phase' = "manifests" /\ command' = c /\ dirs' = {} /\ manager' = <<>> /\ stemcell' = "none"
      /\ vmDeleted' = FALSE /\ result' = "none" /\ removeFailed' = FALSE /\ input' = input
      /\ input \in Inputs /\ commands' = commands + 1 /\ commands < MaxCommands
  BY DEF Begin, IInv
<1>2. FetchInv' /\ ToSet(manager') = {} /\ IsInjective(manager')
  <2>1. (manager = <<>> /\ input \in Inputs /\ command \in {"none", "deploy", "delete"} =>
            FetchInv /\ ToSet(manager) = {} /\ IsInjective(manager))'
    BY NothingFetched, PTL
  <2>2. QED
    BY <1>1, <2>1
<1>3. commands' \in 0 .. MaxCommands
  BY <1>1, PreparationAssumption DEF IInv, TypeOK
<1>4. TypeOK'
  BY <1>1, <1>2, <1>3 DEF TypeOK, Phases, Results
<1>5. StagesInv' /\ StemcellInv' /\ DirsInv' /\ LeftoverDirs' /\ CompiledReleasesMatch'
  BY <1>1 DEF StagesInv, AfterManifest, Validated, StemcellInv, DirsInv, LeftoverDirs, CompiledReleasesMatch
<1>6. OnlyKnownLateFailures'
  BY <1>1, OtherResult
<1>7. QED
  BY <1>1, <1>2, <1>4, <1>5, <1>6 DEF IInv

LEMMA BeginFailsInv == ASSUME IInv, NEW c \in {"deploy", "delete"}, BeginFails(c) PROVE IInv'
<1>1. /\ phase = "idle" /\ phase' = "idle" /\ command' = c /\ manager' = <<>> /\ stemcell' = "none"
      /\ vmDeleted' = FALSE /\ result' = "io" /\ input' = input /\ input \in Inputs
      /\ commands' = commands + 1 /\ commands < MaxCommands
  BY DEF BeginFails, IInv
<1>2. PICK removed \in BOOLEAN : removeFailed' = ~removed /\ dirs' = IF removed THEN {} ELSE dirs
  BY DEF BeginFails
<1>3. FetchInv' /\ ToSet(manager') = {} /\ IsInjective(manager')
  <2>1. (manager = <<>> /\ input \in Inputs /\ command \in {"none", "deploy", "delete"} =>
            FetchInv /\ ToSet(manager) = {} /\ IsInjective(manager))'
    BY NothingFetched, PTL
  <2>2. QED
    BY <1>1, <2>1
<1>4. commands' \in 0 .. MaxCommands
  BY <1>1, PreparationAssumption DEF IInv, TypeOK
<1>5. removeFailed' \in BOOLEAN /\ (~removeFailed' => dirs' = {})
  BY <1>2
<1>6. dirs' \subseteq {0} \cup DOMAIN input'.tarballs
  BY <1>1, <1>2 DEF IInv, TypeOK
<1>7. TypeOK'
  BY <1>1, <1>3, <1>4, <1>5, <1>6 DEF TypeOK, Phases, Results
<1>8. StagesInv' /\ StemcellInv' /\ DirsInv' /\ CompiledReleasesMatch'
  BY <1>1 DEF StagesInv, AfterManifest, Validated, StemcellInv, DirsInv, CompiledReleasesMatch
<1>9. LeftoverDirs'
  BY <1>5 DEF LeftoverDirs
<1>10. OnlyKnownLateFailures'
  BY <1>1, OtherResult
<1>11. QED
  BY <1>1, <1>3, <1>7, <1>8, <1>9, <1>10 DEF IInv

LEMMA KilledInv == ASSUME IInv, Killed PROVE IInv'
<1>1. /\ phase' = "idle" /\ result' = "killed" /\ command' = command /\ input' = input
      /\ UNCHANGED workVars /\ commands' = commands
  BY DEF Killed, workVars
<1>2. TypeOK' /\ input' \in Inputs
  BY <1>1, TypeKept DEF IInv, Phases, Results
<1>3. FetchInv'
  BY <1>1, FetchKept DEF workVars
<1>4. StagesInv' /\ StemcellInv' /\ DirsInv' /\ LeftoverDirs' /\ CompiledReleasesMatch'
  BY <1>1 DEF StagesInv, AfterManifest, Validated, StemcellInv, DirsInv, LeftoverDirs, CompiledReleasesMatch
<1>5. OnlyKnownLateFailures'
  BY <1>1, OtherResult
<1>6. QED
  BY <1>2, <1>3, <1>4, <1>5 DEF IInv

LEMMA NetworksFixed ==
    ASSUME input' = input
    PROVE  /\ NoAddress(job.networks)' <=> NoAddress(job.networks)
           /\ ListedTwice(job.networks)' <=> ListedTwice(job.networks)
<1>1. deployment' = deployment /\ job' = job
  BY InputFixed
<1>2. NoAddress(job.networks)' <=> NoAddress(job.networks)
  BY <1>1 DEF NoAddress
<1>3. ListedTwice(job.networks)' <=> ListedTwice(job.networks)
  BY <1>1 DEF ListedTwice
<1>4. QED
  BY <1>2, <1>3

\* A step that changes neither the result nor what a result is about
LEMMA ResultKept ==
    ASSUME OnlyKnownLateFailures, UNCHANGED <<command, input, manager, stemcell, vmDeleted, result>>
    PROVE  OnlyKnownLateFailures'
<1>1. deployment' = deployment /\ job' = job /\ \A i : Release(i)' = Release(i)
  BY InputFixed
<1>2. cpiRelease' = cpiRelease
  BY ManagerFixed
<1>3. /\ NoAddress(job.networks)' <=> NoAddress(job.networks)
      /\ ListedTwice(job.networks)' <=> ListedTwice(job.networks)
  BY NetworksFixed
<1>4. QED
  BY <1>1, <1>2, <1>3 DEF OnlyKnownLateFailures

\* The deferred calls delete every directory that has an owner.
LEMMA CleanupInv == ASSUME IInv, Cleanup PROVE IInv'
<1>1. /\ phase = "cleanup" /\ phase' = "idle" /\ command' = command /\ input' = input
      /\ manager' = manager /\ stemcell' = stemcell /\ vmDeleted' = vmDeleted /\ result' = result
      /\ commands' = commands
  BY DEF Cleanup
<1>2. \E deleted \in 0 .. Len(manager) : \E stemcellDeleted \in BOOLEAN :
        /\ dirs' = dirs \ (DeletedReleases(deleted)
                            \cup (IF stemcell = "deferred" /\ stemcellDeleted THEN {0} ELSE {}))
        /\ removeFailed' = (removeFailed \/ deleted < Len(manager) \/ ~stemcellDeleted)
  BY Zenon DEF Cleanup
<1>3. PICK deleted \in 0 .. Len(manager) : \E stemcellDeleted \in BOOLEAN :
        /\ dirs' = dirs \ (DeletedReleases(deleted)
                            \cup (IF stemcell = "deferred" /\ stemcellDeleted THEN {0} ELSE {}))
        /\ removeFailed' = (removeFailed \/ deleted < Len(manager) \/ ~stemcellDeleted)
  BY <1>2
<1>4. PICK stemcellDeleted \in BOOLEAN :
        /\ dirs' = dirs \ (DeletedReleases(deleted)
                            \cup (IF stemcell = "deferred" /\ stemcellDeleted THEN {0} ELSE {}))
        /\ removeFailed' = (removeFailed \/ deleted < Len(manager) \/ ~stemcellDeleted)
  BY <1>3
<1>5. removeFailed \in BOOLEAN /\ removeFailed' \in BOOLEAN /\ dirs' \subseteq dirs
  BY <1>4 DEF IInv, TypeOK
<1>6. TypeOK' /\ input' \in Inputs
  <2>1. input' \in Inputs /\ IsInjective(manager')
    BY <1>1 DEF IInv, TypeOK
  <2>2. dirs' \subseteq {0} \cup DOMAIN input'.tarballs
    BY <1>1, <1>5 DEF IInv, TypeOK
  <2>3. QED
    BY <1>1, <1>5, <2>1, <2>2 DEF IInv, TypeOK, Phases
<1>7. FetchInv'
  BY <1>1, FetchKept
<1>8. StagesInv' /\ StemcellInv' /\ DirsInv' /\ CompiledReleasesMatch'
  BY <1>1 DEF StagesInv, AfterManifest, Validated, StemcellInv, DirsInv, CompiledReleasesMatch
<1>9. LeftoverDirs'
  <2> SUFFICES ASSUME ~removeFailed'
               PROVE  dirs' \subseteq
                        (IF result = "name mismatch" THEN DOMAIN input.tarballs \ ToSet(manager) ELSE {})
                        \cup (IF result = "compiled" THEN {0} ELSE {})
    BY <1>1 DEF LeftoverDirs
  <2>1. ~removeFailed /\ ~(deleted < Len(manager)) /\ stemcellDeleted
    BY <1>4, <1>5, Zenon
  <2>2. Len(manager) \in Nat /\ DOMAIN manager = 1 .. Len(manager)
    BY DEF IInv, FetchInv
  <2>3. deleted = Len(manager)
    <3> DEFINE n == Len(manager)
    <3>1. n \in Nat /\ deleted \in 0 .. n /\ ~(deleted < n)
      BY <2>1, <2>2
    <3> HIDE DEF n
    <3>2. deleted = n
      BY <3>1
    <3>3. QED
      BY <3>2 DEF n
  <2>4. DeletedReleases(deleted) = ToSet(manager)
    BY <2>2, <2>3 DEF DeletedReleases, ToSet
  <2>5. dirs' = dirs \ (ToSet(manager) \cup (IF stemcell = "deferred" THEN {0} ELSE {}))
    BY <1>4, <2>1, <2>4
  <2>6. dirs \subseteq ToSet(manager) \cup (IF stemcell # "none" THEN {0} ELSE {})
            \cup (IF result = "name mismatch" THEN DOMAIN input.tarballs \ ToSet(manager) ELSE {})
    BY <1>1, <2>1 DEF IInv, DirsInv
  <2>7. stemcell \in {"none", "deferred"} \/ result = "compiled"
    BY <1>1 DEF IInv, StemcellInv, TypeOK
  <2>8. QED
    BY <2>5, <2>6, <2>7
<1>10. OnlyKnownLateFailures'
  BY <1>1, ResultKept DEF IInv
<1>11. QED
  BY <1>6, <1>7, <1>8, <1>9, <1>10 DEF IInv

-----------------------------------------------------------------------------
(* Validating: the steps that only move on or leave                        *)

LEMMA IoFailsInv == ASSUME IInv, IoFails PROVE IInv'
<1>1. phase \notin {"idle", "cleanup", "compiled"} /\ Leave("io") /\ UNCHANGED workVars
  BY DEF IoFails, workVars
<1>2. OnlyKnownLateFailures'
  BY <1>1, OtherResult DEF Leave
<1>3. QED
  BY <1>1, <1>2, QuietLeave DEF Results

\* A manifest, a release or a job that validation refuses
LEMMA Refused ==
    ASSUME IInv, phase \notin {"idle", "cleanup", "compiled"}, UNCHANGED workVars, Leave("invalid")
    PROVE  IInv'
<1>1. OnlyKnownLateFailures'
  BY OtherResult DEF Leave
<1>2. QED
  BY <1>1, QuietLeave DEF Results

LEMMA ParseManifestsInv == ASSUME IInv, ParseManifests PROVE IInv'
<1>1. phase = "manifests" /\ UNCHANGED workVars /\ (Leave("invalid") \/ (Go("fetch") /\ SetValid))
  BY DEF ParseManifests, workVars, SetValid
<1>2. CASE Leave("invalid")
  BY <1>1, <1>2, Refused
<1>3. CASE Go("fetch") /\ SetValid
  <2>1. /\ SetValid' /\ phase' = "fetch" /\ result' = result /\ result = "none"
        /\ command' = command /\ command # "none"
    BY <1>1, <1>3, InputFixed DEF Go, IInv, StagesInv
  <2>2. StagesInv' /\ CompiledReleasesMatch'
    BY <2>1 DEF StagesInv, AfterManifest, Validated, CompiledReleasesMatch
  <2>3. QED
    BY <1>1, <1>3, <2>2, QuietGo
<1>4. QED
  BY <1>1, <1>2, <1>3

LEMMA AllFetchedInv == ASSUME IInv, AllFetched PROVE IInv'
<1>1. phase = "fetch" /\ UNCHANGED workVars /\ Go("cpi")
  BY DEF AllFetched, workVars
<1>2. /\ SetValid' /\ phase' = "cpi" /\ result' = result /\ result = "none"
      /\ command' = command /\ command # "none"
  BY <1>1, InputFixed DEF Go, IInv, StagesInv, Validated
<1>3. StagesInv' /\ CompiledReleasesMatch'
  BY <1>2 DEF StagesInv, AfterManifest, Validated, CompiledReleasesMatch
<1>4. QED
  BY <1>1, <1>3, QuietGo

\* A delete fetched only the CPI's release, a deploy checks the compiled ones later.
LEMMA ValidateCpiReleaseInv == ASSUME IInv, ValidateCpiRelease PROVE IInv'
<1>1. /\ phase = "cpi" /\ UNCHANGED workVars
      /\ \/ Leave("invalid")
         \/ command = "deploy" /\ Go("deployment") /\ CpiValid
         \/ command # "deploy" /\ Go("install") /\ CpiValid
  <2>1. CASE CpiValid
    BY <2>1 DEF ValidateCpiRelease, workVars, CpiValid
  <2>2. CASE ~CpiValid
    BY <2>2 DEF ValidateCpiRelease, workVars, CpiValid
  <2>3. QED
    BY <2>1, <2>2
<1>2. CASE Leave("invalid")
  BY <1>1, <1>2, Refused
<1>3. ASSUME NEW p \in {"deployment", "install"}, Go(p), CpiValid, p = "deployment" <=> command = "deploy"
      PROVE  IInv'
  <2>1. phase' = p /\ result' = result /\ result = "none" /\ command' = command /\ command # "none"
    BY <1>1, <1>3 DEF Go, IInv, StagesInv
  <2>2. SetValid'
    BY <1>1, <1>3, InputFixed DEF Go, IInv, StagesInv, Validated
  <2>3. CpiValid'
    BY <1>1, <1>3, ManagerFixed DEF Go, workVars
  <2>4. StagesInv' /\ CompiledReleasesMatch'
    BY <1>3, <2>1, <2>2, <2>3 DEF StagesInv, AfterManifest, Validated, CompiledReleasesMatch
  <2>5. QED
    BY <1>1, <1>3, <2>4, QuietGo
<1>4. QED
  BY <1>1, <1>2, <1>3

LEMMA GetDeploymentManifestInv == ASSUME IInv, GetDeploymentManifest PROVE IInv'
<1>1. phase = "deployment" /\ UNCHANGED workVars /\ (Leave("invalid") \/ (Go("stemcell") /\ DeploymentValid))
  BY DEF GetDeploymentManifest, workVars, DeploymentValid
<1>2. CASE Leave("invalid")
  BY <1>1, <1>2, Refused
<1>3. CASE Go("stemcell") /\ DeploymentValid
  <2>1. /\ phase' = "stemcell" /\ result' = result /\ result = "none"
        /\ command' = command /\ command = "deploy"
    BY <1>1, <1>3 DEF Go, IInv, StagesInv
  <2>2. SetValid'
    BY <1>1, <1>3, InputFixed DEF Go, IInv, StagesInv, Validated
  <2>3. CpiValid /\ input' = input /\ manager' = manager
    BY <1>1, <1>3 DEF IInv, StagesInv, Validated, Go, workVars
  <2>4. CpiValid' /\ DeploymentValid'
    BY <1>3, <2>3, ManagerFixed
  <2>5. StagesInv' /\ CompiledReleasesMatch'
    BY <2>1, <2>2, <2>4 DEF StagesInv, AfterManifest, Validated, CompiledReleasesMatch
  <2>6. QED
    BY <1>1, <1>3, <2>5, QuietGo
<1>4. QED
  BY <1>1, <1>2, <1>3

LEMMA NoJobPanicsInv == ASSUME IInv, NoJobPanics PROVE IInv'
<1>1. phase = "stemcell" /\ Leave("panic") /\ UNCHANGED workVars /\ deployment.jobs = <<>>
  BY DEF NoJobPanics, workVars
<1>2. result' = "panic" /\ deployment'.jobs = <<>>
  BY <1>1, InputFixed DEF Leave
<1>3. OnlyKnownLateFailures'
  BY <1>2 DEF OnlyKnownLateFailures
<1>4. QED
  BY <1>1, <1>3, QuietLeave DEF Results

LEMMA SkipDeployInv == ASSUME IInv, SkipDeploy PROVE IInv'
<1>1. phase = "install" /\ Leave("skipped") /\ UNCHANGED workVars
  BY DEF SkipDeploy, workVars
<1>2. OnlyKnownLateFailures'
  BY <1>1, OtherResult DEF Leave
<1>3. QED
  BY <1>1, <1>2, QuietLeave DEF Results

-----------------------------------------------------------------------------
(* Validating: the releases                                                *)

Follows(s, t) == Len(s) <= Len(t) /\ \A k \in 1 .. Len(s) : s[k] = t[k]
Different(t) == \A k, l \in 1 .. Len(t) : t[k] = t[l] => k = l

\* A list that follows another of different entries, and its next entry
LEMMA NextEntry ==
    ASSUME NEW s \in Seq(Nat), NEW t \in Seq(Nat), Len(s) < Len(t), Follows(s, t), Different(t),
           NEW i, i = t[Len(s) + 1]
    PROVE  /\ Len(s) + 1 \in 1 .. Len(t) /\ i \notin ToSet(s)
           /\ Append(s, i) \in Seq(Nat) /\ Follows(Append(s, i), t)
           /\ ToSet(Append(s, i)) = ToSet(s) \cup {i}
           /\ IsInjective(Append(s, i))
<1> USE DEF Follows, Different
<1> DEFINE n == Len(s)
           a == Append(s, i)
<1>1. n \in Nat /\ Len(t) \in Nat /\ n + 1 \in 1 .. Len(t) /\ i \in Nat /\ DOMAIN s = 1 .. n
  OBVIOUS
<1>2. a \in Seq(Nat) /\ Len(a) = n + 1 /\ DOMAIN a = 1 .. (n + 1) /\ a[n + 1] = i
      /\ \A k \in 1 .. n : a[k] = s[k]
  BY <1>1
<1>3. i \notin ToSet(s)
  <2>1. ASSUME NEW k \in 1 .. n, s[k] = i PROVE FALSE
    <3>1. k \in 1 .. Len(t) /\ n + 1 \in 1 .. Len(t) /\ t[k] = t[n + 1] /\ k # n + 1
      BY <1>1, <2>1
    <3>2. QED
      BY <3>1
  <2>2. QED
    BY <1>1, <2>1 DEF ToSet
<1> HIDE DEF a, n
<1>4. ASSUME NEW k \in 1 .. (n + 1) PROVE a[k] = t[k]
  <2>1. k \in 1 .. n \/ k = n + 1
    BY <1>1
  <2>2. QED
    BY <1>1, <1>2, <2>1 DEF n
<1>5. ToSet(a) = ToSet(s) \cup {i}
  <2>1. 1 .. (n + 1) = (1 .. n) \cup {n + 1}
    BY <1>1
  <2>2. /\ \A x : x \in ToSet(a) <=> \E k \in (1 .. n) \cup {n + 1} : x = a[k]
        /\ \A x : x \in ToSet(s) <=> \E k \in 1 .. n : x = s[k]
    BY <1>1, <1>2, <2>1 DEF ToSet
  <2>3. \A x : x \in ToSet(a) <=> x \in ToSet(s) \/ x = i
    <3>1. ASSUME NEW x \in ToSet(a) PROVE x \in ToSet(s) \/ x = i
      BY <1>2, <2>2
    <3>2. ASSUME NEW x \in ToSet(s) PROVE x \in ToSet(a)
      <4>1. PICK k \in 1 .. n : x = s[k]
        BY <2>2
      <4>2. x = a[k] /\ k \in (1 .. n) \cup {n + 1}
        BY <1>2, <4>1
      <4>3. QED
        BY <2>2, <4>2
    <3>3. i \in ToSet(a)
      BY <1>2, <2>2
    <3>4. QED
      BY <3>1, <3>2, <3>3
  <2>4. QED
    BY <2>3
<1>6. IsInjective(a)
  <2>1. ASSUME NEW k \in 1 .. (n + 1), NEW l \in 1 .. (n + 1), a[k] = a[l] PROVE k = l
    <3>1. k \in 1 .. Len(t) /\ l \in 1 .. Len(t) /\ t[k] = t[l]
      BY <1>1, <1>4, <2>1
    <3>2. QED
      BY <3>1
  <2>2. QED
    BY <1>2, <2>1 DEF IsInjective
<1>7. QED
  BY <1>1, <1>2, <1>3, <1>4, <1>5, <1>6 DEF a, n

\* The release that comes next was not added before.
LEMMA NextRelease ==
    ASSUME IInv, phase = "fetch", Len(manager) < Len(ReleasesToFetch),
           NEW i, i = ReleasesToFetch[Len(manager) + 1]
    PROVE  /\ i \in DOMAIN input.tarballs /\ i \notin ToSet(manager)
           /\ Append(manager, i) \in Seq(Nat) /\ Len(Append(manager, i)) <= Len(ReleasesToFetch)
           /\ \A k \in 1 .. Len(Append(manager, i)) : Append(manager, i)[k] = ReleasesToFetch[k]
           /\ ToSet(Append(manager, i)) = ToSet(manager) \cup {i}
           /\ IsInjective(Append(manager, i))
<1>1. SetValid /\ input \in Inputs /\ command \in {"none", "deploy", "delete"}
  BY DEF IInv, StagesInv, Validated, TypeOK
<1>2. /\ ReleasesToFetch \in Seq(Nat)
      /\ \A k, l \in 1 .. Len(ReleasesToFetch) : ReleasesToFetch[k] = ReleasesToFetch[l] => k = l
      /\ \A k \in 1 .. Len(ReleasesToFetch) : ReleasesToFetch[k] \in DOMAIN input.tarballs
  BY <1>1, FetchShape
<1>3. manager \in Seq(Nat) /\ Follows(manager, ReleasesToFetch)
  BY DEF IInv, FetchInv, Follows
<1>4. Different(ReleasesToFetch)
  BY <1>2 DEF Different
<1>5. /\ Len(manager) + 1 \in 1 .. Len(ReleasesToFetch) /\ i \notin ToSet(manager)
      /\ Append(manager, i) \in Seq(Nat) /\ Follows(Append(manager, i), ReleasesToFetch)
      /\ ToSet(Append(manager, i)) = ToSet(manager) \cup {i}
      /\ IsInjective(Append(manager, i))
  BY <1>2, <1>3, <1>4, NextEntry
<1>6. QED
  BY <1>2, <1>5 DEF Follows

LEMMA RejectReleaseInv ==
    ASSUME IInv, phase = "fetch", NEW i \in DOMAIN input.tarballs, RejectRelease(i)
    PROVE  IInv'
<1>1. /\ phase' = "cleanup" /\ result' = "invalid" /\ command' = command /\ input' = input
      /\ commands' = commands /\ manager' = manager /\ stemcell' = stemcell /\ vmDeleted' = vmDeleted
  BY DEF RejectRelease, Leave
<1>2. PICK removed \in BOOLEAN : /\ dirs' = IF removed THEN dirs ELSE dirs \cup {i}
                                 /\ removeFailed' = (removeFailed \/ ~removed)
  BY DEF RejectRelease
<1>3. removeFailed \in BOOLEAN /\ removeFailed' \in BOOLEAN /\ (~removeFailed' => ~removeFailed /\ dirs' = dirs)
  BY <1>2 DEF IInv, TypeOK
<1>4. dirs' \subseteq {0} \cup DOMAIN input.tarballs
  BY <1>2 DEF IInv, TypeOK
<1>5. TypeOK' /\ input' \in Inputs
  BY <1>1, <1>3, <1>4 DEF IInv, TypeOK, Phases, Results
<1>6. FetchInv'
  BY <1>1, FetchKept
<1>7. StagesInv' /\ CompiledReleasesMatch' /\ LeftoverDirs'
  BY <1>1 DEF StagesInv, AfterManifest, Validated, CompiledReleasesMatch, LeftoverDirs
<1>8. StemcellInv'
  BY <1>1 DEF IInv, StemcellInv
<1>9. DirsInv'
  BY <1>1, <1>3 DEF IInv, DirsInv
<1>10. OnlyKnownLateFailures'
  BY <1>1, OtherResult
<1>11. QED
  BY <1>5, <1>6, <1>7, <1>8, <1>9, <1>10 DEF IInv

\* The release is added: it belongs to the manager now.
LEMMA ReleaseAdded ==
    ASSUME IInv, phase = "fetch", Len(manager) < Len(ReleasesToFetch),
           NEW i, i = ReleasesToFetch[Len(manager) + 1], ValidRelease(Release(i)),
           dirs' = dirs \cup {i}, manager' = Append(manager, i), Go("fetch"),
           UNCHANGED <<stemcell, vmDeleted, removeFailed>>
    PROVE  IInv'
<1>1. /\ i \in DOMAIN input.tarballs
      /\ manager' \in Seq(Nat) /\ Len(manager') <= Len(ReleasesToFetch)
      /\ \A k \in 1 .. Len(manager') : manager'[k] = ReleasesToFetch[k]
      /\ ToSet(manager') = ToSet(manager) \cup {i} /\ IsInjective(manager')
  BY NextRelease
<1>2. /\ phase' = "fetch" /\ result' = result /\ command' = command /\ input' = input
      /\ commands' = commands /\ stemcell' = stemcell /\ vmDeleted' = vmDeleted /\ removeFailed' = removeFailed
      /\ dirs' = dirs \cup {i} /\ result = "none" /\ command # "none"
  BY DEF Go, IInv, StagesInv
<1>3. TypeOK' /\ input' \in Inputs
  <2>1. dirs' \subseteq {0} \cup DOMAIN input'.tarballs /\ ToSet(manager') \subseteq DOMAIN input'.tarballs
    BY <1>1, <1>2 DEF IInv, TypeOK
  <2>2. QED
    BY <1>1, <1>2, <2>1 DEF IInv, TypeOK, Phases
<1>4. FetchInv'
  <2>1. releaseSet' = releaseSet /\ installation' = installation /\ \A k : Release(k)' = Release(k)
    BY <1>2, InputFixed
  <2>2. ReleasesToFetch' = ReleasesToFetch
    BY <1>2, <2>1 DEF ReleasesToFetch
  <2>3. \A k \in ToSet(manager') : ValidRelease(Release(k)')
    BY <1>1, <2>1 DEF IInv, FetchInv
  <2>4. QED
    BY <1>1, <2>2, <2>3 DEF FetchInv
<1>5. SetValid'
  BY <1>2, InputFixed DEF IInv, StagesInv, Validated
<1>6. StagesInv' /\ CompiledReleasesMatch' /\ LeftoverDirs'
  BY <1>2, <1>5 DEF StagesInv, AfterManifest, Validated, CompiledReleasesMatch, LeftoverDirs
<1>7. StemcellInv' /\ stemcell = "none"
  BY <1>2 DEF IInv, StemcellInv
<1>8. DirsInv'
  BY <1>1, <1>2, <1>7 DEF IInv, DirsInv
<1>9. OnlyKnownLateFailures'
  BY <1>2, OtherResult
<1>10. QED
  BY <1>3, <1>4, <1>6, <1>7, <1>8, <1>9 DEF IInv

\* Before there is a stemcell only the releases that were added are extracted.
LEMMA OwnedDirs == ASSUME IInv, phase \in {"fetch", "stemcell"}, removeFailed = FALSE
                   PROVE  dirs \subseteq ToSet(manager)
BY DEF IInv, DirsInv, StemcellInv

\* The name is not the manifest's: the release stays extracted and has no owner.
LEMMA ReleaseMisnamed ==
    ASSUME IInv, phase = "fetch", NEW i \in DOMAIN input.tarballs, i \notin ToSet(manager),
           dirs' = dirs \cup {i}, manager' = manager, Leave("name mismatch"),
           UNCHANGED <<stemcell, vmDeleted, removeFailed>>
    PROVE  IInv'
<1>1. /\ phase' = "cleanup" /\ result' = "name mismatch" /\ command' = command /\ input' = input
      /\ commands' = commands /\ manager' = manager /\ stemcell' = stemcell /\ vmDeleted' = vmDeleted
      /\ removeFailed' = removeFailed /\ dirs' = dirs \cup {i}
  BY DEF Leave
<1>2. TypeOK' /\ input' \in Inputs
  <2>1. dirs' \subseteq {0} \cup DOMAIN input'.tarballs
    BY <1>1 DEF IInv, TypeOK
  <2>2. QED
    BY <1>1, <2>1 DEF IInv, TypeOK, Phases, Results
<1>3. FetchInv'
  BY <1>1, FetchKept
<1>4. StagesInv' /\ CompiledReleasesMatch' /\ LeftoverDirs'
  BY <1>1 DEF StagesInv, AfterManifest, Validated, CompiledReleasesMatch, LeftoverDirs
<1>5. StemcellInv'
  BY <1>1 DEF IInv, StemcellInv
<1>6. DirsInv'
  <2>1. ASSUME removeFailed' = FALSE
        PROVE  dirs' \subseteq ToSet(manager) \cup (DOMAIN input.tarballs \ ToSet(manager))
    <3>1. removeFailed = FALSE
      BY <1>1, <2>1
    <3>2. dirs \subseteq ToSet(manager)
      BY <3>1, OwnedDirs
    <3>3. QED
      BY <1>1, <3>2
  <2>2. QED
    BY <1>1, <1>2, <2>1 DEF DirsInv, TypeOK
<1>7. OnlyKnownLateFailures'
  BY <1>1, OtherResult
<1>8. QED
  BY <1>2, <1>3, <1>4, <1>5, <1>6, <1>7 DEF IInv

LEMMA DownloadAndExtractInv == ASSUME IInv, DownloadAndExtract PROVE IInv'
<1>1. PICK i : i = ReleasesToFetch[Len(manager) + 1]
  OBVIOUS
<1>2. phase = "fetch" /\ Len(manager) < Len(ReleasesToFetch) /\ (RejectRelease(i) \/ AddRelease(i))
  BY <1>1 DEF DownloadAndExtract
<1>3. i \in DOMAIN input.tarballs /\ i \notin ToSet(manager)
  BY <1>1, <1>2, NextRelease
<1>4. CASE RejectRelease(i)
  BY <1>2, <1>3, <1>4, RejectReleaseInv
<1>5. CASE AddRelease(i) /\ Release(i).name = releaseSet[i].name
  <2>1. /\ ValidRelease(Release(i)) /\ dirs' = dirs \cup {i} /\ manager' = Append(manager, i) /\ Go("fetch")
        /\ UNCHANGED <<stemcell, vmDeleted, removeFailed>>
    BY <1>5 DEF AddRelease
  <2>2. QED
    BY <1>1, <1>2, <2>1, ReleaseAdded
<1>6. CASE AddRelease(i) /\ Release(i).name # releaseSet[i].name
  <2>1. /\ dirs' = dirs \cup {i} /\ manager' = manager /\ Leave("name mismatch")
        /\ UNCHANGED <<stemcell, vmDeleted, removeFailed>>
    BY <1>6 DEF AddRelease
  <2>2. QED
    BY <1>2, <1>3, <2>1, ReleaseMisnamed
<1>7. QED
  BY <1>2, <1>4, <1>5, <1>6

-----------------------------------------------------------------------------
(* Validating: the stemcell and the compiled releases                      *)

\* What the stages after the manifest rely on depends on the input and the manager.
LEMMA StagesKept ==
    ASSUME IInv, AfterManifest, UNCHANGED <<command, input, manager, result>>,
           phase \in {"stemcell", "compiled", "install", "replace", "create"},
           phase' \in {"compiled", "install", "replace", "create", "build"},
           deployment.jobs # <<>>, phase' \in {"create", "build"} => vmDeleted'
    PROVE  StagesInv'
<1>1. /\ SetValid /\ CpiValid /\ DeploymentValid /\ command = "deploy" /\ result = "none"
  BY DEF IInv, StagesInv, Validated, AfterManifest
<1>2. SetValid' /\ deployment' = deployment
  BY <1>1, InputFixed
<1>3. CpiValid' /\ DeploymentValid'
  BY <1>1, ManagerFixed
<1>4. QED
  BY <1>1, <1>2, <1>3 DEF StagesInv, Validated, AfterManifest

LEMMA GetStemcellInv == ASSUME IInv, GetStemcell PROVE IInv'
<1>1. /\ phase = "stemcell" /\ phase' = "compiled" /\ command' = command /\ input' = input
      /\ result' = result /\ commands' = commands /\ manager' = manager /\ vmDeleted' = vmDeleted
      /\ deployment.jobs # <<>>
  BY DEF GetStemcell, Go
<1>2. /\ removeFailed' \in BOOLEAN /\ stemcell' \in {"none", "extracted", "deferred"}
      /\ dirs' \subseteq dirs \cup {0}
      /\ removeFailed' = FALSE => /\ removeFailed = FALSE
                                  /\ dirs' \subseteq dirs \cup (IF stemcell' # "none" THEN {0} ELSE {})
  <2>1. removeFailed \in BOOLEAN
    BY DEF IInv, TypeOK
  <2>2. CASE stemcell' = "extracted" /\ dirs' = dirs \cup {0} /\ UNCHANGED removeFailed
    BY <2>1, <2>2
  <2>3. ASSUME stemcell' = "none", NEW removed \in BOOLEAN,
               dirs' = IF removed THEN dirs ELSE dirs \cup {0}, removeFailed' = (removeFailed \/ ~removed)
        PROVE  <1>2!:
    BY <2>1, <2>3
  <2>4. \/ stemcell' = "extracted" /\ dirs' = dirs \cup {0} /\ UNCHANGED removeFailed
        \/ stemcell' = "none" /\ \E removed \in BOOLEAN :
              /\ dirs' = IF removed THEN dirs ELSE dirs \cup {0}
              /\ removeFailed' = (removeFailed \/ ~removed)
    BY DEF GetStemcell
  <2>5. QED
    BY <2>2, <2>3, <2>4
<1>3. TypeOK' /\ input' \in Inputs
  <2>1. dirs' \subseteq {0} \cup DOMAIN input'.tarballs
    BY <1>1, <1>2 DEF IInv, TypeOK
  <2>2. QED
    BY <1>1, <1>2, <2>1 DEF IInv, TypeOK, Phases
<1>4. FetchInv'
  BY <1>1, FetchKept
<1>5. StagesInv'
  BY <1>1, StagesKept DEF AfterManifest
<1>6. StemcellInv' /\ LeftoverDirs' /\ CompiledReleasesMatch'
  BY <1>1 DEF StemcellInv, LeftoverDirs, CompiledReleasesMatch
<1>7. DirsInv'
  <2>1. ASSUME removeFailed' = FALSE
        PROVE  dirs' \subseteq ToSet(manager) \cup (IF stemcell' # "none" THEN {0} ELSE {})
    <3>1. dirs \subseteq ToSet(manager)
      BY <1>1, <1>2, <2>1, OwnedDirs
    <3>2. QED
      BY <1>2, <2>1, <3>1
  <2>2. QED
    BY <1>1, <1>2, <2>1 DEF DirsInv
<1>8. OnlyKnownLateFailures'
  <2>1. result' = "none"
    BY <1>1 DEF IInv, StagesInv
  <2>2. QED
    BY <2>1, OtherResult
<1>9. QED
  BY <1>3, <1>4, <1>5, <1>6, <1>7, <1>8 DEF IInv

\* The loop over the releases stops at the first that is not accepted.
LEMMA FirstVerdictIs ==
    ASSUME manager \in Seq(Nat)
    PROVE  /\ FirstVerdict = "ok" => \A i \in ToSet(manager) : CompiledVerdict(i) = "ok"
           /\ FirstVerdict # "ok" => \E i \in ToSet(manager) : CompiledVerdict(i) = FirstVerdict
<1> DEFINE I == {k \in 1 .. Len(manager) : CompiledVerdict(manager[k]) # "ok"}
           first == IF I # {} THEN Min(I) ELSE 0
<1>1. FirstVerdict = IF first = 0 THEN "ok" ELSE CompiledVerdict(manager[first])
  BY DEF FirstVerdict, SelectInSeq
<1>2. I \in SUBSET Nat /\ Len(manager) \in Nat /\ DOMAIN manager = 1 .. Len(manager)
  OBVIOUS
<1>3. CASE I = {}
  <2>1. \A k \in DOMAIN manager : CompiledVerdict(manager[k]) = "ok"
    BY <1>2, <1>3
  <2>2. \A i \in ToSet(manager) : CompiledVerdict(i) = "ok"
    BY <2>1 DEF ToSet
  <2>3. FirstVerdict = "ok"
    BY <1>1, <1>3
  <2>4. QED
    BY <2>2, <2>3
<1>4. CASE I # {}
  <2>1. Min(I) \in I
    BY <1>2, <1>4, MinInSet
  <2>2. Min(I) \in 1 .. Len(manager) /\ CompiledVerdict(manager[Min(I)]) # "ok"
    BY <2>1
  <2> DEFINE k == Min(I)
  <2>3. k \in DOMAIN manager /\ k # 0 /\ FirstVerdict = CompiledVerdict(manager[k])
    BY <1>1, <1>2, <1>4, <2>2
  <2>4. manager[k] \in ToSet(manager)
    BY <2>3 DEF ToSet
  <2>5. QED
    BY <2>2, <2>3, <2>4
<1>5. QED
  BY <1>3, <1>4

\* The command leaves after the compiled releases were looked at.
LEMMA LeaveCompiled ==
    ASSUME IInv, phase = "compiled", UNCHANGED workVars, NEW r \in {"io", "compiled", "panic"}, Leave(r),
           stemcell = "none" \/ r = "compiled",
           r = "panic" => \E i \in ToSet(manager) : Release(i).isCompiled
    PROVE  IInv'
<1>1. /\ phase' = "cleanup" /\ result' = r /\ command' = command /\ input' = input /\ commands' = commands
      /\ manager' = manager /\ stemcell' = stemcell /\ dirs' = dirs /\ removeFailed' = removeFailed
  BY DEF Leave, workVars
<1>2. TypeOK' /\ input' \in Inputs
  BY <1>1, TypeKept DEF IInv, Phases, Results
<1>3. FetchInv'
  BY <1>1, FetchKept
<1>4. StagesInv' /\ CompiledReleasesMatch' /\ LeftoverDirs'
  BY <1>1 DEF StagesInv, AfterManifest, Validated, CompiledReleasesMatch, LeftoverDirs
<1>5. StemcellInv'
  BY <1>1 DEF StemcellInv
<1>6. DirsInv'
  BY <1>1 DEF IInv, DirsInv
<1>7. OnlyKnownLateFailures'
  <2>1. CASE r = "panic"
    <3>1. stemcell' = "none" /\ \E i \in ToSet(manager') : Release(i)'.isCompiled
      BY <1>1, <2>1, InputFixed
    <3>2. QED
      BY <1>1, <2>1, <3>1 DEF OnlyKnownLateFailures
  <2>2. CASE r # "panic"
    BY <1>1, <2>2, OtherResult
  <2>3. QED
    BY <2>1, <2>2
<1>8. QED
  BY <1>2, <1>3, <1>4, <1>5, <1>6, <1>7 DEF IInv

\* A compiled release that is accepted was compiled for the stemcell of the deploy.
LEMMA AcceptedRelease ==
    ASSUME IInv, stemcell # "none", NEW i \in ToSet(manager), Release(i).isCompiled, CompiledVerdict(i) = "ok"
    PROVE  /\ Release(i).name \in TemplateReleases(deployment)
           /\ Release(i).name # installation.template.release
           /\ \A k \in DOMAIN Release(i).packages :
                ToLower(Release(i).packages[k].stemcell) = ToLower(input.stemcell.os_and_version)
<1>1. /\ Release(i).name \in UsedBesidesCpi
      /\ ToLower(Release(i).packages[1].stemcell) = ToLower(input.stemcell.os_and_version)
  BY DEF CompiledVerdict
<1>2. i \in DOMAIN input.tarballs /\ input \in Inputs /\ ValidRelease(Release(i))
  BY DEF IInv, TypeOK, FetchInv
<1>3. IsReleaseManifest(input.tarballs[i])
  BY <1>2, InputShape
<1>4. \A k \in DOMAIN Release(i).packages : Release(i).packages[k].stemcell = Release(i).packages[1].stemcell
  BY <1>2, <1>3, OneStemcell DEF Release
<1>5. QED
  BY <1>1, <1>4 DEF UsedBesidesCpi

LEMMA CheckCompiledReleasesInv == ASSUME IInv, CheckCompiledReleases PROVE IInv'
<1>1. phase = "compiled" /\ UNCHANGED <<manager, dirs, vmDeleted, removeFailed>>
  BY DEF CheckCompiledReleases
<1>2. manager \in Seq(Nat)
  BY DEF IInv, FetchInv
<1>3. CASE FirstVerdict # "ok"
  <2>1. Leave(FirstVerdict) /\ UNCHANGED workVars
    BY <1>1, <1>3 DEF CheckCompiledReleases, workVars
  <2>2. PICK i \in ToSet(manager) : CompiledVerdict(i) = FirstVerdict
    BY <1>2, <1>3, FirstVerdictIs
  <2>3. /\ FirstVerdict \in {"compiled", "panic"} /\ Release(i).isCompiled
        /\ FirstVerdict = "panic" => stemcell = "none"
    BY <1>3, <2>2 DEF CompiledVerdict
  <2>4. QED
    BY <1>1, <2>1, <2>3, LeaveCompiled
<1>4. CASE FirstVerdict = "ok" /\ stemcell = "none"
  <2>1. Leave("io") /\ UNCHANGED workVars
    BY <1>1, <1>4 DEF CheckCompiledReleases, workVars
  <2>2. QED
    BY <1>1, <1>4, <2>1, LeaveCompiled
<1>5. CASE FirstVerdict = "ok" /\ stemcell # "none"
  <2>1. /\ phase' = "install" /\ result' = result /\ command' = command /\ input' = input
        /\ commands' = commands /\ manager' = manager /\ dirs' = dirs /\ vmDeleted' = vmDeleted
        /\ removeFailed' = removeFailed /\ stemcell' = "deferred" /\ result = "none"
        /\ deployment.jobs # <<>>
    BY <1>1, <1>5 DEF CheckCompiledReleases, Go, IInv, StagesInv, AfterManifest
  <2>2. TypeOK' /\ input' \in Inputs
    BY <2>1 DEF IInv, TypeOK, Phases
  <2>3. FetchInv'
    BY <2>1, FetchKept
  <2>4. StagesInv'
    BY <1>1, <2>1, StagesKept DEF AfterManifest
  <2>5. StemcellInv' /\ LeftoverDirs'
    BY <2>1 DEF StemcellInv, LeftoverDirs
  <2>6. DirsInv'
    BY <1>1, <1>5, <2>1 DEF IInv, DirsInv
  <2>7. CompiledReleasesMatch'
    <3>1. \A i \in ToSet(manager) : CompiledVerdict(i) = "ok"
      BY <1>2, <1>5, FirstVerdictIs
    <3>2. ASSUME NEW i \in ToSet(manager), Release(i).isCompiled
          PROVE  /\ Release(i).name \in TemplateReleases(deployment)
                 /\ Release(i).name # installation.template.release
                 /\ \A k \in DOMAIN Release(i).packages :
                      ToLower(Release(i).packages[k].stemcell) = ToLower(input.stemcell.os_and_version)
      BY <1>5, <3>1, <3>2, AcceptedRelease
    <3>3. deployment' = deployment /\ installation' = installation /\ \A i : Release(i)' = Release(i)
      BY <2>1, InputFixed
    <3>4. QED
      BY <2>1, <3>2, <3>3 DEF CompiledReleasesMatch
  <2>8. OnlyKnownLateFailures'
    BY <2>1, OtherResult
  <2>9. QED
    BY <2>2, <2>3, <2>4, <2>5, <2>6, <2>7, <2>8 DEF IInv
<1>6. QED
  BY <1>3, <1>4, <1>5

-----------------------------------------------------------------------------
(* What relies on the validation                                           *)

\* The one job of a deploy that got this far
LEMMA TheJob ==
    ASSUME IInv, AfterManifest, phase # "stemcell"
    PROVE  /\ IsDeployment(deployment) /\ ValidDeployment(deployment, releaseSet)
           /\ deployment.jobs # <<>> /\ Len(deployment.jobs) = 1 /\ 1 \in DOMAIN deployment.jobs
           /\ command = "deploy" /\ result = "none" /\ ValidReleaseJobs
<1>1. /\ ValidDeployment(deployment, releaseSet) /\ deployment.jobs # <<>> /\ ValidReleaseJobs
      /\ command = "deploy" /\ result = "none"
  BY DEF IInv, StagesInv, AfterManifest, DeploymentValid
<1>2. IsDeployment(deployment)
  BY InputShape DEF IInv
<1>3. deployment.jobs \in Seq(Job) /\ Len(deployment.jobs) <= 1
  BY <1>1, <1>2 DEF IsDeployment, ValidDeployment
<1>4. Len(deployment.jobs) = 1 /\ 1 \in DOMAIN deployment.jobs
  BY <1>1, <1>3, SingleEntry
<1>5. QED
  BY <1>1, <1>2, <1>4

LEMMA ReplaceInstancesInv == ASSUME IInv, ReplaceInstances PROVE IInv'
<1>1. /\ phase = "replace" /\ vmDeleted' = TRUE /\ UNCHANGED <<manager, stemcell, dirs, removeFailed>>
      /\ IF Len(deployment.jobs) = 1 /\ job.instances = 1 THEN Go("create") ELSE Leave("instances")
  BY DEF ReplaceInstances
<1>2. deployment.jobs # <<>> /\ Len(deployment.jobs) = 1 /\ command = "deploy" /\ result = "none"
  BY <1>1, TheJob DEF AfterManifest
<1>3. \/ phase' = "create" /\ result' = "none"
      \/ phase' = "cleanup" /\ result' = "instances" /\ job.instances # 1
  BY <1>1, <1>2 DEF Go, Leave
<1>4. input' = input /\ command' = command /\ commands' = commands
  BY <1>1 DEF Go, Leave
<1>5. TypeOK' /\ input' \in Inputs
  BY <1>1, <1>3, <1>4 DEF IInv, TypeOK, Phases, Results
<1>6. FetchInv'
  BY <1>1, <1>4, FetchKept
<1>7. StagesInv'
  <2>1. CASE phase' = "create" /\ result' = "none"
    BY <1>1, <1>2, <1>4, <2>1, StagesKept DEF AfterManifest
  <2>2. CASE phase' = "cleanup"
    BY <2>2 DEF StagesInv, Validated, AfterManifest
  <2>3. QED
    BY <1>3, <2>1, <2>2
<1>8. StemcellInv'
  BY <1>1, <1>3 DEF IInv, StemcellInv
<1>9. DirsInv'
  BY <1>1, <1>3, <1>4 DEF IInv, DirsInv
<1>10. LeftoverDirs' /\ CompiledReleasesMatch'
  BY <1>3 DEF LeftoverDirs, CompiledReleasesMatch
<1>11. OnlyKnownLateFailures'
  <2>1. CASE result' = "none"
    BY <2>1, OtherResult
  <2>2. CASE result' = "instances" /\ job.instances # 1
    <3>1. job' = job
      BY <1>4, InputFixed
    <3>2. QED
      BY <1>1, <2>2, <3>1 DEF OnlyKnownLateFailures
  <2>3. QED
    BY <1>3, <2>1, <2>2
<1>12. QED
  BY <1>5, <1>6, <1>7, <1>8, <1>9, <1>10, <1>11 DEF IInv

LEMMA CreateInstanceInv == ASSUME IInv, CreateInstance PROVE IInv'
<1>1. phase = "create" /\ UNCHANGED workVars
  BY DEF CreateInstance, workVars
<1>2. /\ IsDeployment(deployment) /\ ValidDeployment(deployment, releaseSet)
      /\ deployment.jobs # <<>> /\ 1 \in DOMAIN deployment.jobs
  BY <1>1, TheJob DEF AfterManifest
<1>3. InterfacesOutcome(deployment, job) = "ok"
  BY <1>2, InterfacesOK DEF job
<1>4. /\ ResourcePool(deployment, job.name) # 0
      /\ DiskPool(deployment, job) \in Int /\ DiskPool(deployment, job) >= 0
  BY <1>2, PoolsExist DEF job
<1>5. Go("build")
  <2>1. ~(DiskPool(deployment, job) < 0)
    BY <1>4
  <2>2. QED
    BY <1>3, <1>4, <2>1 DEF CreateInstance
<1>6. vmDeleted' = vmDeleted /\ vmDeleted
  BY <1>1 DEF workVars, IInv, StagesInv
<1>7. StagesInv' /\ CompiledReleasesMatch'
  <2>1. UNCHANGED <<command, input, manager, result>> /\ phase' = "build"
    BY <1>1, <1>5 DEF Go, workVars
  <2>2. StagesInv'
    BY <1>1, <1>2, <1>6, <2>1, StagesKept DEF AfterManifest
  <2>3. CompiledReleasesMatch'
    BY <2>1 DEF CompiledReleasesMatch
  <2>4. QED
    BY <2>2, <2>3
<1>8. QED
  BY <1>1, <1>5, <1>7, QuietGo

\* Whatever address the templates get, its failures are known.
LEMMA BuildStateInv == ASSUME IInv, BuildState PROVE IInv'
<1>1. phase = "build" /\ UNCHANGED workVars
  BY DEF BuildState, workVars
<1>2. /\ IsDeployment(deployment) /\ ValidDeployment(deployment, releaseSet)
      /\ 1 \in DOMAIN deployment.jobs /\ ValidReleaseJobs
  BY <1>1, TheJob DEF AfterManifest
<1>3. PICK address \in defaultAddress(NetworkInterfaces(deployment, job), <<>>) :
          Leave(CASE address.outcome = "panic" -> "panic"
                  [] address.outcome = "error" -> "address"
                  [] OTHER -> "ok")
  BY <1>2 DEF BuildState
<1>4. /\ address.outcome = "panic" => NoAddress(job.networks)
      /\ address.outcome = "error" => ListedTwice(job.networks)
  <2> DEFINE networks == deployment.jobs[1].networks
  <2>1. address \in defaultAddress(NetworkInterfaces(deployment, deployment.jobs[1]), <<>>)
    BY <1>3 DEF job
  <2>2. /\ address.outcome = "panic" => NoAddressIn(deployment, networks)
        /\ address.outcome = "error" => ListedTwice(networks)
    BY <1>2, <2>1, AddressOutcome
  <2>3. job.networks = networks
    BY DEF job
  <2>4. QED
    BY <2>2, <2>3 DEF NoAddress, NoAddressIn
<1>5. \/ Leave("panic") /\ NoAddress(job.networks)
      \/ Leave("address") /\ ListedTwice(job.networks)
      \/ Leave("ok")
  <2>1. CASE address.outcome = "panic"
    <3>1. Leave("panic")
      BY <1>3, <2>1
    <3>2. QED
      BY <1>4, <2>1, <3>1
  <2>2. CASE address.outcome = "error"
    <3>1. Leave("address")
      BY <1>3, <2>2
    <3>2. QED
      BY <1>4, <2>2, <3>1
  <2>3. CASE address.outcome \notin {"panic", "error"}
    BY <1>3, <2>3
  <2>4. QED
    BY <2>1, <2>2, <2>3
<1>6. vmDeleted' /\ input' = input
  BY <1>1, <1>5 DEF workVars, IInv, StagesInv, Leave
<1>7. /\ NoAddress(job.networks)' <=> NoAddress(job.networks)
      /\ ListedTwice(job.networks)' <=> ListedTwice(job.networks)
  BY <1>6, NetworksFixed
<1>8. CASE Leave("panic") /\ NoAddress(job.networks)
  <2>1. result' = "panic" /\ NoAddress(job.networks)'
    BY <1>7, <1>8 DEF Leave
  <2>2. OnlyKnownLateFailures'
    BY <1>6, <2>1 DEF OnlyKnownLateFailures
  <2>3. QED
    BY <1>1, <1>8, <2>2, QuietLeave DEF Results
<1>9. CASE Leave("address") /\ ListedTwice(job.networks)
  <2>1. result' = "address" /\ ListedTwice(job.networks)'
    BY <1>7, <1>9 DEF Leave
  <2>2. OnlyKnownLateFailures'
    BY <2>1 DEF OnlyKnownLateFailures
  <2>3. QED
    BY <1>1, <1>9, <2>2, QuietLeave DEF Results
<1>10. CASE Leave("ok")
  <2>1. OnlyKnownLateFailures'
    BY <1>10, OtherResult DEF Leave
  <2>2. QED
    BY <1>1, <1>10, <2>1, QuietLeave DEF Results
<1>11. QED
  BY <1>5, <1>8, <1>9, <1>10

\* A release the manager finds by its name
LEMMA ManagedNamed ==
    ASSUME manager \in Seq(Nat), NEW name, Managed(name) # 0
    PROVE  manager[Managed(name)] \in ToSet(manager) /\ Release(manager[Managed(name)]).name = name
<1> DEFINE I == {k \in 1 .. Len(manager) : Release(manager[k]).name = name}
<1>1. Managed(name) = IF I # {} THEN Min(I) ELSE 0
  BY DEF Managed, SelectInSeq
<1>2. I \in SUBSET Nat /\ I # {} /\ DOMAIN manager = 1 .. Len(manager)
  BY <1>1
<1>3. Min(I) \in I
  BY <1>2, MinInSet
<1>4. Managed(name) \in 1 .. Len(manager) /\ Release(manager[Managed(name)]).name = name
  BY <1>1, <1>2, <1>3
<1>5. QED
  BY <1>2, <1>4 DEF ToSet

\* Neither a missing job nor a package that does not compile is a surprise.
LEMMA InstallCpiInv == ASSUME IInv, InstallCpi PROVE IInv'
<1> DEFINE name == installation.template.release
           j == FindJob(cpiRelease, installation.template.name)
           required == RequiredPackages(cpiRelease, cpiRelease.jobs[j])
           independent == \A i \in DOMAIN cpiRelease.packages : cpiRelease.packages[i].dependencies = {}
<1>1. phase = "install" /\ UNCHANGED workVars
  BY DEF InstallCpi, workVars
<1>2. CpiValid /\ manager \in Seq(Nat) /\ input \in Inputs /\ command \in {"deploy", "delete"}
  BY <1>1 DEF IInv, StagesInv, Validated, FetchInv, TypeOK
<1>3. PICK i : i = manager[Managed(name)]
  OBVIOUS
<1>4. i \in ToSet(manager) /\ Release(i).name = name /\ cpiRelease = Release(i)
  BY <1>2, <1>3, ManagedNamed DEF CpiValid, cpiRelease
<1>5. j # 0
  BY <1>2 DEF CpiValid, ValidCpiRelease
<1>6. i \in DOMAIN input.tarballs /\ ValidRelease(Release(i))
  BY <1>4 DEF IInv, TypeOK, FetchInv
<1>7. IsReleaseManifest(input.tarballs[i])
  BY <1>2, <1>6, InputShape
<1>8. j \in DOMAIN cpiRelease.jobs
  <2> DEFINE s == input.tarballs[i].jobs
  <2>1. cpiRelease.jobs = s /\ s \in Seq(ToSet(s))
    BY <1>4, <1>7 DEF Release, ReadRelease, IsReleaseManifest
  <2>2. j = FindByName(s, installation.template.name)
    BY <2>1 DEF FindJob, FindByName
  <2> HIDE DEF s, j
  <2>3. j \in 1 .. Len(s) /\ DOMAIN s = 1 .. Len(s)
    BY <1>5, <2>1, <2>2, FirstNamed
  <2>4. QED
    BY <2>1, <2>3
<1>9. command = "deploy" => ~Release(i).isCompiled
  BY <1>1, <1>4 DEF IInv, CompiledReleasesMatch
<1>10. PICK indexed : IF ~CompilesLocally(required, indexed) THEN Leave("package")
                      ELSE IF command = "delete" THEN Leave("ok") ELSE Go("replace")
  BY <1>5 DEF InstallCpi
<1>11. CASE ~CompilesLocally(required, indexed)
  <2>1. Leave("package")
    BY <1>10, <1>11
  <2>2. ~independent \/ (command = "delete" /\ cpiRelease.isCompiled)
    <3>1. ASSUME independent, ~cpiRelease.isCompiled PROVE FALSE
      <4>1. CompilesLocally(required, indexed)
        BY <1>4, <1>6, <1>7, <1>8, <3>1, IndependentPackagesCompile DEF Release
      <4>2. QED
        BY <1>11, <4>1
    <3>2. QED
      BY <1>2, <1>4, <1>9, <3>1
  <2>3. cpiRelease' = cpiRelease /\ command' = command /\ result' = "package"
    BY <1>1, <2>1, ManagerFixed DEF Leave, workVars
  <2>4. OnlyKnownLateFailures'
    BY <2>2, <2>3 DEF OnlyKnownLateFailures
  <2>5. QED
    BY <1>1, <2>1, <2>4, QuietLeave DEF Results
<1>12. CASE CompilesLocally(required, indexed) /\ command = "delete"
  <2>1. Leave("ok")
    BY <1>10, <1>12
  <2>2. OnlyKnownLateFailures'
    BY <2>1, OtherResult DEF Leave
  <2>3. QED
    BY <1>1, <2>1, <2>2, QuietLeave DEF Results
<1>13. CASE CompilesLocally(required, indexed) /\ command = "deploy"
  <2>1. Go("replace")
    BY <1>10, <1>13
  <2>2. UNCHANGED <<command, input, manager, result>> /\ phase' = "replace" /\ deployment.jobs # <<>>
    BY <1>1, <1>13, <2>1, TheJob DEF Go, workVars, AfterManifest
  <2>3. StagesInv'
    BY <1>1, <1>13, <2>2, StagesKept DEF AfterManifest
  <2>4. CompiledReleasesMatch'
    <3>1. deployment' = deployment /\ installation' = installation /\ \A k : Release(k)' = Release(k)
      BY <2>2, InputFixed
    <3>2. QED
      BY <1>1, <2>2, <3>1 DEF IInv, CompiledReleasesMatch
  <2>5. QED
    BY <1>1, <2>1, <2>3, <2>4, QuietGo
<1>14. QED
  BY <1>2, <1>11, <1>12, <1>13

-----------------------------------------------------------------------------
(* The specification                                                       *)

LEMMA StepInv == IInv /\ [Next]_vars => IInv'
<1> SUFFICES ASSUME IInv, [Next]_vars PROVE IInv'
  OBVIOUS
<1>1. CASE UNCHANGED vars
  <2>1. UNCHANGED <<command, input, manager, stemcell, vmDeleted, result>> /\ UNCHANGED workVars
        /\ phase' = phase /\ commands' = commands
    BY <1>1 DEF vars, workVars
  <2>2. TypeOK' /\ input' \in Inputs
    BY <2>1, TypeKept DEF IInv, TypeOK
  <2>3. FetchInv'
    BY <2>1, FetchKept
  <2>4. StagesInv'
    <3>1. (SetValid' <=> SetValid) /\ deployment' = deployment
      BY <2>1, InputFixed
    <3>2. (CpiValid' <=> CpiValid) /\ (DeploymentValid' <=> DeploymentValid)
      BY <2>1, ManagerFixed
    <3>3. QED
      BY <2>1, <3>1, <3>2 DEF IInv, StagesInv, AfterManifest
  <2>5. StemcellInv'
    BY <2>1 DEF IInv, StemcellInv
  <2>6. DirsInv' /\ LeftoverDirs'
    BY <1>1 DEF vars, IInv, DirsInv, LeftoverDirs
  <2>7. CompiledReleasesMatch'
    <3>1. deployment' = deployment /\ installation' = installation /\ \A i : Release(i)' = Release(i)
      BY <2>1, InputFixed
    <3>2. QED
      BY <2>1, <3>1 DEF IInv, CompiledReleasesMatch
  <2>8. OnlyKnownLateFailures'
    BY <2>1, ResultKept DEF IInv
  <2>9. QED
    BY <2>2, <2>3, <2>4, <2>5, <2>6, <2>7, <2>8 DEF IInv
<1>2. ASSUME NEW c \in {"deploy", "delete"}, Begin(c) PROVE IInv'
  BY <1>2, BeginInv
<1>3. ASSUME NEW c \in {"deploy", "delete"}, BeginFails(c) PROVE IInv'
  BY <1>3, BeginFailsInv
<1>4. CASE IoFails
  BY <1>4, IoFailsInv
<1>5. CASE Killed
  BY <1>5, KilledInv
<1>6. CASE Cleanup
  BY <1>6, CleanupInv
<1>7. CASE ParseManifests
  BY <1>7, ParseManifestsInv
<1>8. CASE DownloadAndExtract
  BY <1>8, DownloadAndExtractInv
<1>9. CASE AllFetched
  BY <1>9, AllFetchedInv
<1>10. CASE ValidateCpiRelease
  BY <1>10, ValidateCpiReleaseInv
<1>11. CASE GetDeploymentManifest
  BY <1>11, GetDeploymentManifestInv
<1>12. CASE NoJobPanics
  BY <1>12, NoJobPanicsInv
<1>13. CASE GetStemcell
  BY <1>13, GetStemcellInv
<1>14. CASE CheckCompiledReleases
  BY <1>14, CheckCompiledReleasesInv
<1>15. CASE SkipDeploy
  BY <1>15, SkipDeployInv
<1>16. CASE InstallCpi
  BY <1>16, InstallCpiInv
<1>17. CASE ReplaceInstances
  BY <1>17, ReplaceInstancesInv
<1>18. CASE CreateInstance
  BY <1>18, CreateInstanceInv
<1>19. CASE BuildState
  BY <1>19, BuildStateInv
<1>20. QED
  BY <1>1, <1>2, <1>3, <1>4, <1>5, <1>6, <1>7, <1>8, <1>9, <1>10, <1>11, <1>12, <1>13, <1>14, <1>15,
     <1>16, <1>17, <1>18, <1>19 DEF Next

\* The invariant holds in every behaviour.
LEMMA Invariance == Spec => []IInv
BY InitInv, StepInv, PTL DEF Spec

(***************************************************************************)
(* The state keeps its types: the release manager never holds a release    *)
(* twice or one that is not among the tarballs, and only releases and the  *)
(* stemcell are extracted.                                                 *)
(***************************************************************************)
THEOREM PreparationTypes == Spec => []TypeOK
<1>1. IInv => TypeOK
  BY DEF IInv
<1>2. QED
  BY <1>1, Invariance, PTL

(***************************************************************************)
(* Whatever the manifest, releases and stemcell are, a command that passed *)
(* validation is broken off by them for the six known reasons only         *)
(* (cmd/deployment_preparer.go, deployment_deleter.go and what they call). *)
(***************************************************************************)
THEOREM LateFailuresKnown == Spec => []OnlyKnownLateFailures
<1>1. IInv => OnlyKnownLateFailures
  BY DEF IInv
<1>2. QED
  BY <1>1, Invariance, PTL

(***************************************************************************)
(* What a command that was not killed leaves in the temp root is a release *)
(* of the wrong name or the stemcell of a refused compiled release; every  *)
(* other extracted directory is deleted by the deferred calls.             *)
(***************************************************************************)
THEOREM LeftoversKnown == Spec => []LeftoverDirs
<1>1. IInv => LeftoverDirs
  BY DEF IInv
<1>2. QED
  BY <1>1, Invariance, PTL

(***************************************************************************)
(* A deploy goes on to the CPI only with compiled releases that a template *)
(* uses, that are not the CPI's and whose packages were all compiled for   *)
(* the stemcell, although the check looks at the first package alone.      *)
(***************************************************************************)
THEOREM CompiledReleasesChecked == Spec => []CompiledReleasesMatch
<1>1. IInv => CompiledReleasesMatch
  BY DEF IInv
<1>2. QED
  BY <1>1, Invariance, PTL

(***************************************************************************)
(* For every width of an address, the networks a VM is created with are    *)
(* what deployment/manifest/validator.go promises: static IPs in range,    *)
(* the gateway a host address, one default gateway and one for DNS.        *)
(***************************************************************************)
THEOREM InterfacesFit == Spec => []InterfacesWellFormed
<1>1. IInv => InterfacesWellFormed
  <2> SUFFICES ASSUME IInv, phase = "create" PROVE InterfacesWellFormed
    BY DEF InterfacesWellFormed
  <2> DEFINE ifaces == NetworkInterfaces(deployment, job)
  <2>1. /\ IsDeployment(deployment) /\ ValidDeployment(deployment, releaseSet) /\ 1 \in DOMAIN deployment.jobs
    BY TheJob DEF AfterManifest
  <2>2. DOMAIN ifaces = Names(job.networks)
    BY InterfacesDomain
  <2>3. ASSUME NEW n \in DOMAIN ifaces, ifaces[n].type = "manual"
        PROVE  /\ ifaces[n].ip # NoText => InRange(ifaces[n].range, ifaces[n].ip)
               /\ InRange(ifaces[n].range, ifaces[n].gateway - 1)
               /\ InRange(ifaces[n].range, ifaces[n].gateway + 1)
    <3>1. PICK iface : iface = NetworkInterfaces(deployment, deployment.jobs[1])[n]
      OBVIOUS
    <3>2. iface = ifaces[n] /\ n \in Names(deployment.jobs[1].networks)
      BY <2>2, <3>1 DEF job
    <3> HIDE DEF ifaces
    <3>3. QED
      BY <2>1, <2>3, <3>1, <3>2, ManualInterfaces
  <2>4. ASSUME ~ListedTwice(job.networks), NEW dflt \in {"dns", "gateway"}
        PROVE  \E n \in DOMAIN ifaces : \A m \in DOMAIN ifaces : dflt \in ifaces[m].default <=> m = n
    <3>1. deployment.jobs[1] \in Job /\ ValidJob(deployment, releaseSet, deployment.jobs[1])
      BY <2>1 DEF IsDeployment, ValidDeployment
    <3>2. job.networks \in Seq(JobNetwork) /\ job.networks # <<>> /\ ValidJobNetworks(deployment, job.networks)
      BY <3>1 DEF job, Job, ValidJob
    <3>3. QED
      BY <2>2, <2>4, <3>2, DefaultInterface
  <2>5. QED
    BY <2>3, <2>4 DEF InterfacesWellFormed
<1>2. QED
  BY <1>1, Invariance, PTL

=============================================================================
