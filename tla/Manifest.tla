------------------------------ MODULE Manifest ------------------------------
(***************************************************************************)
(* The deployment manifest: how its three readings (release set,           *)
(* installation, deployment) are parsed and validated, and what the        *)
(* deployed manifest answers later on.                                     *)
(*                                                                         *)
(* Texts are abstracted to what the code tells apart.  A name is a string, *)
(* blank when it is "" or " ".  A URL is one of UrlKinds.  An IP address   *)
(* is a number below 2^AddressBits, and a text that is empty or is not an  *)
(* address is one of two negative numbers.  A property map that cannot be  *)
(* built (a key is not a string) is the flag unbuildable.                  *)
(***************************************************************************)
EXTENDS Integers, SequencesExt

CONSTANT AddressBits    \* width of an IP address

\* That a power of two is a positive number, which the provers do not know, is part of
\* the assumption; it restricts nothing.
ASSUME AddressAssumption ==
    AddressBits \in Nat /\ \A n \in 0 .. AddressBits : 2^n \in Nat \ {0}

NoText == -2     \* an empty text
NotAnIP == -1    \* a text net.ParseIP does not understand
Addresses == 0 .. 2^AddressBits - 1

\* strings.TrimSpace leaves nothing
isBlank(s) == s \in {"", " "}

-----------------------------------------------------------------------------
(* The manifest as yaml.Unmarshal delivers it                              *)

IPTexts == Addresses \cup {NoText, NotAnIP}
UrlKinds == {"", "http", "httpx", "file-abs", "file-home", "file-rel", "home", "abs", "rel"}

ReleaseRef == [name : STRING, url : UrlKinds, sha1 : STRING]
ReleaseJobRef == [name : STRING, release : STRING]
Subnet == [range : [addr : IPTexts, ones : Nat], gateway : IPTexts]
Network == [name : STRING, type : STRING, subnets : Seq(Subnet)]
StemcellRef == [url : UrlKinds, sha1 : STRING]
ResourcePoolEntry == [name : STRING, network : STRING, stemcell : StemcellRef]
DiskPoolEntry == [name : STRING, disk_size : Int]
JobNetwork == [name : STRING, static_ips : Seq(IPTexts), default : Seq(STRING)]
Job ==
    [name : STRING, instances : Int, lifecycle : STRING, templates : Seq(ReleaseJobRef),
     jobs : Seq(ReleaseJobRef), networks : Seq(JobNetwork), persistent_disk : Int,
     persistent_disk_pool : STRING, resource_pool : STRING]
RawDeployment ==
    [name : STRING, unbuildable : BOOLEAN, update_watch_time : Seq(Int), networks : Seq(Network),
     resource_pools : Seq(ResourcePoolEntry), disk_pools : Seq(DiskPoolEntry), jobs : Seq(Job),
     instance_groups : Seq(Job)]

-----------------------------------------------------------------------------
(* URLs                                                                    *)

\* A path is made absolute, a file URL stays one; what has no scheme gets none.
AbsolutifyPath(url) ==
    CASE url \in {"home", "rel", ""} -> "abs"
      [] url = "file-rel"            -> "file-abs"
      [] OTHER                       -> url

\* ^(file|http|https)://, and a digest for what starts with http
ValidSource(url, sha1) ==
    /\ ~isBlank(url)
    /\ url \in {"http", "file-abs", "file-home", "file-rel"}
    /\ url \in {"http", "httpx"} => ~isBlank(sha1)

-----------------------------------------------------------------------------
(* Release set and installation                                            *)

Absolutified(ref) == [ref EXCEPT !.url = AbsolutifyPath(ref.url)]

ParseReleaseSet(raw) == [i \in DOMAIN raw.releases |-> Absolutified(raw.releases[i])]

ValidReleaseSet(releases) ==
    /\ releases # <<>>
    /\ \A i \in DOMAIN releases :
        /\ ~isBlank(releases[i].name)
        /\ \A j \in 1 .. i - 1 : releases[j].name # releases[i].name
        /\ ValidSource(releases[i].url, releases[i].sha1)

FindByName(releases, name) == SelectInSeq(releases, LAMBDA r : r.name = name)

\* The registry is there exactly when an SSH tunnel is configured.
ParseInstallation(raw) ==
    [template |-> raw.template, registry |-> raw.ssh_tunnel # "none"]

ParsesInstallation(raw) == ~raw.unbuildable

ValidInstallation(installation, releases) ==
    /\ ~isBlank(installation.template.name)
    /\ ~isBlank(installation.template.release)
    /\ FindByName(releases, installation.template.release) # 0

-----------------------------------------------------------------------------
(* Deployment: parsing                                                     *)

\* A time range is the parts between the dashes; a part that is not a number is -1.
ParsesWatchTime(parts) ==
    /\ Len(parts) = 2 /\ parts[1] >= 0 /\ parts[2] >= 0
    /\ parts[2] >= parts[1]

\* boshDeploymentDefaults, when the manifest gives no watch time
NewWatchTime(parts) ==
    IF parts = <<>> THEN [start |-> 0, end |-> 300000] ELSE [start |-> parts[1], end |-> parts[2]]

RawJobs(d) == IF d.instance_groups # <<>> THEN d.instance_groups ELSE d.jobs

ParseJob(j) ==
    [j EXCEPT !.templates = IF j.jobs # <<>> THEN j.jobs ELSE j.templates, !.jobs = <<>>]

ParseResourcePool(p) == [p EXCEPT !.stemcell = Absolutified(p.stemcell)]

ParsesDeployment(d) ==
    /\ ~d.unbuildable
    /\ d.jobs = <<>> \/ d.instance_groups = <<>>
    /\ \A i \in DOMAIN RawJobs(d) : RawJobs(d)[i].templates = <<>> \/ RawJobs(d)[i].jobs = <<>>
    /\ d.update_watch_time # <<>> => ParsesWatchTime(d.update_watch_time)

ParseDeployment(d) ==
    [name |-> d.name, networks |-> d.networks, disk_pools |-> d.disk_pools,
     resource_pools |-> [i \in DOMAIN d.resource_pools |-> ParseResourcePool(d.resource_pools[i])],
     jobs |-> [i \in DOMAIN RawJobs(d) |-> ParseJob(RawJobs(d)[i])],
     update_watch_time |-> NewWatchTime(d.update_watch_time)]

-----------------------------------------------------------------------------
(* IP ranges                                                               *)

isValidIP(ip) == ip \in Addresses

\* net.ParseCIDR: an address and the number of leading ones of the mask
ParsesCIDR(cidr) == cidr.addr \in Addresses /\ cidr.ones \in 0 .. AddressBits

Size(cidr) == 2^(AddressBits - cidr.ones)
NetworkAddress(cidr) == cidr.addr - (cidr.addr % Size(cidr))

\* The address with every bit outside the mask set
LastAddress(cidr) == NetworkAddress(cidr) + Size(cidr) - 1

InRange(cidr, ip) == ip \in NetworkAddress(cidr) .. LastAddress(cidr)

-----------------------------------------------------------------------------
(* Deployment: validation                                                  *)

Names(s) == {s[i].name : i \in DOMAIN s}

\* Mutant: the broadcast address may be the gateway
ValidGateway_Broadcast(range, gateway) ==
    /\ gateway # NoText
    /\ ParsesCIDR(range) =>
        /\ isValidIP(gateway) /\ InRange(range, gateway) /\ gateway # NetworkAddress(range)

\* The gateway is only looked at when the range was understood.
ValidGateway(range, gateway) ==
    /\ gateway # NoText
    /\ ParsesCIDR(range) =>
        /\ isValidIP(gateway) /\ InRange(range, gateway)
        /\ gateway # NetworkAddress(range) /\ gateway # LastAddress(range)

\* Mutant: a manual network may have no subnet
ValidNetwork_Subnets(n) ==
    /\ ~isBlank(n.name)
    /\ n.type \in {"dynamic", "manual", "vip"}
    /\ n.type = "manual" => \A i \in DOMAIN n.subnets :
        ParsesCIDR(n.subnets[i].range) /\ ValidGateway(n.subnets[i].range, n.subnets[i].gateway)

ValidNetwork(n) ==
    /\ ~isBlank(n.name)
    /\ n.type \in {"dynamic", "manual", "vip"}
    /\ n.type = "manual" =>
        /\ Len(n.subnets) = 1
        /\ ParsesCIDR(n.subnets[1].range) /\ ValidGateway(n.subnets[1].range, n.subnets[1].gateway)

ValidResourcePool(d, p) ==
    /\ ~isBlank(p.name)
    /\ ~isBlank(p.network) /\ p.network \in Names(d.networks)
    /\ ValidSource(p.stemcell.url, p.stemcell.sha1)

ValidDiskPool(p) == ~isBlank(p.name) /\ p.disk_size > 0

\* The zero value of a Go struct
NoNetwork == [name |-> "", type |-> "", subnets |-> <<>>]

\* The last network of a name, as in networkMap
NetworkNamed(d, name) ==
    LET i == SelectLastInSeq(d.networks, LAMBDA n : n.name = name)
    IN  IF i = 0 THEN NoNetwork ELSE d.networks[i]

ValidStaticIP(n, ip) ==
    /\ isValidIP(ip)
    /\ n.type = "manual" => \E i \in DOMAIN n.subnets :
        ParsesCIDR(n.subnets[i].range) /\ InRange(n.subnets[i].range, ip)

\* How often a default is given, over all networks of the job
DefaultCount(networks, dflt) ==
    Cardinality({k \in UNION {{<<i, j>> : j \in DOMAIN networks[i].default} : i \in DOMAIN networks} :
                    networks[k[1]].default[k[2]] = dflt})

ValidJobNetworks(d, networks) ==
    /\ \A i \in DOMAIN networks :
        /\ ~isBlank(networks[i].name) /\ networks[i].name \in Names(d.networks)
        /\ \A k \in DOMAIN networks[i].static_ips :
            ValidStaticIP(NetworkNamed(d, networks[i].name), networks[i].static_ips[k])
        /\ ToSet(networks[i].default) \subseteq {"dns", "gateway"}
    /\ \A dflt \in {"dns", "gateway"} :
        /\ Len(networks) > 1 => DefaultCount(networks, dflt) # 0
        /\ DefaultCount(networks, dflt) <= 1

ValidTemplates(templates, releases) ==
    \A i \in DOMAIN templates :
        /\ ~isBlank(templates[i].name)
        /\ \A j \in 1 .. i - 1 : templates[j].name # templates[i].name
        /\ ~isBlank(templates[i].release) /\ FindByName(releases, templates[i].release) # 0

ValidJob(d, releases, j) ==
    /\ ~isBlank(j.name)
    /\ j.persistent_disk >= 0
    /\ j.persistent_disk_pool # "" => j.persistent_disk_pool \in Names(d.disk_pools)
    /\ j.instances >= 0
    /\ j.networks # <<>>
    /\ ~isBlank(j.resource_pool) /\ j.resource_pool \in Names(d.resource_pools)
    /\ ValidJobNetworks(d, j.networks)
    /\ j.lifecycle \in {"", "service"}
    /\ ValidTemplates(j.templates, releases)

\* More than one job is refused; none at all is not.
ValidDeployment(d, releases) ==
    /\ ~isBlank(d.name)
    /\ \A i \in DOMAIN d.networks : ValidNetwork(d.networks[i])
    /\ \A i \in DOMAIN d.resource_pools : ValidResourcePool(d, d.resource_pools[i])
    /\ \A i \in DOMAIN d.disk_pools : ValidDiskPool(d.disk_pools[i])
    /\ Len(d.jobs) <= 1
    /\ \A i \in DOMAIN d.jobs : ValidJob(d, releases, d.jobs[i])

-----------------------------------------------------------------------------
(* What the manifest answers                                               *)

FindJobByName(d, name) == SelectInSeq(d.jobs, LAMBDA j : j.name = name)

\* The resource pool of a job: 0 when the job or the pool is missing
ResourcePool(d, jobName) ==
    LET j == FindJobByName(d, jobName)
    IN  IF j = 0 THEN 0
        ELSE SelectInSeq(d.resource_pools, LAMBDA p : p.name = d.jobs[j].resource_pool)

\* Size of the disk to have, 0 for none, -1 when the pool is missing
DiskPool(d, job) ==
    LET i == SelectInSeq(d.disk_pools, LAMBDA p : p.name = job.persistent_disk_pool)
    IN  IF job.persistent_disk_pool = "" THEN job.persistent_disk
        ELSE IF i = 0 THEN -1
        ELSE d.disk_pools[i].disk_size

TemplateReleases(d) ==
    IF Len(d.jobs) # 1 THEN {} ELSE {d.jobs[1].templates[i].release : i \in DOMAIN d.jobs[1].templates}

\* Building the interface of a manual network takes its first subnet.
InterfaceOutcome(n) ==
    IF n.type # "manual" THEN "ok"
    ELSE IF n.subnets = <<>> THEN "panic"
    ELSE IF ParsesCIDR(n.subnets[1].range) THEN "ok" ELSE "error"

Interface(n, jobNetwork) ==
    [type |-> n.type,
     range |-> IF n.type = "manual" THEN n.subnets[1].range ELSE [addr |-> NoText, ones |-> 0],
     gateway |-> IF n.type = "manual" THEN n.subnets[1].gateway ELSE NoText,
     ip |-> IF jobNetwork.static_ips = <<>> THEN NoText ELSE jobNetwork.static_ips[1],
     default |-> ToSet(jobNetwork.default)]

InterfacesOutcome(d, job) ==
    LET outcomes == {InterfaceOutcome(NetworkNamed(d, job.networks[i].name)) : i \in DOMAIN job.networks}
    IN  IF "panic" \in outcomes THEN "panic" ELSE IF "error" \in outcomes THEN "error" ELSE "ok"

\* Keyed by the name of the network: of a network listed twice the last listing
\* stays, and the single network of a job is the default for everything.
NetworkInterfaces(d, job) ==
    [name \in Names(job.networks) |->
        LET i == SelectLastInSeq(job.networks, LAMBDA n : n.name = name)
            iface == Interface(NetworkNamed(d, name), job.networks[i])
        IN  IF Len(job.networks) = 1 THEN [iface EXCEPT !.default = {"dns", "gateway"}] ELSE iface]

-----------------------------------------------------------------------------
(* The address the job templates see (deployment/instance/state/builder.go) *)

\* A dynamic address is what the agent reports, "" when it reports none; any other
\* must have been given: the type assertion on a missing ip panics.
networkIp(name, iface, reported) ==
    IF iface.type = "dynamic"
    THEN [outcome |-> "ok", ip |-> IF name \in DOMAIN reported THEN reported[name] ELSE NoText]
    ELSE IF iface.ip = NoText THEN [outcome |-> "panic", ip |-> NoText]
    ELSE [outcome |-> "ok", ip |-> iface.ip]

\* The interfaces come out of a map, so the result is one of a set.
defaultAddress(ifaces, reported) ==
    LET candidates == IF Cardinality(DOMAIN ifaces) = 1 THEN DOMAIN ifaces
                      ELSE {name \in DOMAIN ifaces : "gateway" \in ifaces[name].default}
    IN  IF candidates = {} THEN {[outcome |-> "error", ip |-> NoText]}
        ELSE {networkIp(name, ifaces[name], reported) : name \in candidates}

=============================================================================
