---------------------------- MODULE MCPreparation ---------------------------
(* Instances of Preparation: one input that deploys, and every input that  *)
(* differs from it by one edit, or by two edits of different parts.        *)
EXTENDS Preparation

Pkg(name, os, deps) ==
    [name |-> name, fingerprint |-> "f", sha1 |-> "s", stemcell |-> os, dependencies |-> deps,
     archive |-> TRUE]

RJob(name, target, packages) ==
    [name |-> name, fingerprint |-> "f", sha1 |-> "s", archive |-> TRUE, monit |-> TRUE,
     templates |-> [t \in {"t"} |-> target], files |-> {"t"}, packages |-> packages]

Tarball(name, job_, packages, compiled) ==
    [name |-> name, version |-> "1", archive |-> TRUE, jobs |-> <<job_>>, packages |-> packages,
     compiled_packages |-> compiled]

CpiTar == Tarball("cpi", RJob("cpi_job", "bin/cpi", {"p"}), <<Pkg("p", "", {})>>, <<>>)
AppTar == Tarball("app", RJob("app_job", "x", {"q"}), <<Pkg("q", "", {"r"}), Pkg("r", "", {})>>, <<>>)
CompiledApp(s1, s2) ==
    [AppTar EXCEPT !.packages = <<>>, !.compiled_packages = <<Pkg("q", s1, {}), Pkg("r", s2, {})>>]

OneSubnet(addr, ones, gateway) == [range |-> [addr |-> addr, ones |-> ones], gateway |-> gateway]
Manual(name, subnets) == [name |-> name, type |-> "manual", subnets |-> subnets]
OfType(name, type) == [name |-> name, type |-> type, subnets |-> <<>>]

On(name, ips, default) == [name |-> name, static_ips |-> ips, default |-> default]
Template(name, release) == [name |-> name, release |-> release]

Job1 == [name |-> "j", instances |-> 1, lifecycle |-> "", templates |-> <<Template("app_job", "app")>>,
         jobs |-> <<>>, networks |-> <<On("m", <<5>>, <<>>)>>, persistent_disk |-> 0,
         persistent_disk_pool |-> "", resource_pool |-> "rp"]

Base ==
    [releases |-> <<[name |-> "cpi", url |-> "file-rel", sha1 |-> ""], [name |-> "app", url |-> "http", sha1 |-> "x"]>>,
     template |-> Template("cpi_job", "cpi"), ssh_tunnel |-> "key", unbuildable |-> FALSE,
     tarballs |-> <<CpiTar, AppTar>>,
     stemcell |-> [archive |-> TRUE, unbuildable |-> FALSE, os_and_version |-> "ubuntu/1"],
     deployment |->
        [name |-> "d", unbuildable |-> FALSE, update_watch_time |-> <<>>,
         networks |-> <<Manual("m", <<OneSubnet(5, 1, 6)>>), OfType("d", "dynamic"), OfType("v", "vip")>>,
         resource_pools |-> <<[name |-> "rp", network |-> "m", stemcell |-> [url |-> "file-abs", sha1 |-> ""]]>>,
         disk_pools |-> <<[name |-> "dp", disk_size |-> 1]>>,
         jobs |-> <<Job1>>, instance_groups |-> <<>>]]

ReleaseEdits(b) ==
    {[b EXCEPT !.releases[2].url = u] : u \in UrlKinds}
    \cup {[b EXCEPT !.releases[2].sha1 = " "], [b EXCEPT !.releases[2].name = "cpi"],
          [b EXCEPT !.releases = <<>>], [b EXCEPT !.template.release = "app"],
          [b EXCEPT !.template.release = "other"], [b EXCEPT !.template.name = " "],
          [b EXCEPT !.ssh_tunnel = "none"], [b EXCEPT !.unbuildable = TRUE]}

TarballEdits(b) ==
    {[b EXCEPT !.tarballs[2].name = "cpi"], [b EXCEPT !.tarballs[2].archive = FALSE],
     [b EXCEPT !.tarballs[2].version = ""], [b EXCEPT !.tarballs[2].jobs[1].monit = FALSE],
     [b EXCEPT !.tarballs[2].jobs[1].files = {}], [b EXCEPT !.tarballs[2].jobs[1].packages = {"q", "u"}],
     [b EXCEPT !.tarballs[2].packages[1].fingerprint = ""],
     [b EXCEPT !.tarballs[2].compiled_packages = <<Pkg("c", "ubuntu/1", {})>>],
     [b EXCEPT !.tarballs[2] = CompiledApp("ubuntu/1", "ubuntu/1")],
     [b EXCEPT !.tarballs[2] = CompiledApp("Ubuntu/1", "Ubuntu/1")],
     [b EXCEPT !.tarballs[2] = CompiledApp("ubuntu/1", "other/1")],
     [b EXCEPT !.tarballs[2] = CompiledApp("other/1", "other/1")],
     [b EXCEPT !.tarballs[1].jobs[1].templates = [t \in {"t"} |-> "x"]],
     [b EXCEPT !.tarballs[1].packages[1].dependencies = {"u"}],
     [b EXCEPT !.tarballs[1].packages = <<>>, !.tarballs[1].compiled_packages = <<Pkg("p", "ubuntu/1", {})>>]}

NetworkEdits(b) ==
    {[b EXCEPT !.deployment.networks[1].subnets[1] = OneSubnet(5, ones, g)] : ones \in 0 .. 4, g \in -2 .. 7}
    \cup {[b EXCEPT !.deployment.networks[1].subnets = s] :
            s \in {<<>>, <<OneSubnet(5, 1, 6), OneSubnet(5, 1, 6)>>, <<OneSubnet(-1, 1, 6)>>}}
    \cup {[b EXCEPT !.deployment.networks[1].type = t] : t \in {"dynamic", "vip", "other"}}
    \cup {[b EXCEPT !.deployment.networks[2].name = "m"]}

JobEdits(b) ==
    {[b EXCEPT !.deployment.jobs = js] : js \in {<<>>, <<Job1, [Job1 EXCEPT !.name = "k"]>>}}
    \cup {[b EXCEPT !.deployment.instance_groups = <<Job1>>],
          [b EXCEPT !.deployment.jobs = <<>>, !.deployment.instance_groups = <<Job1>>]}
    \cup {[b EXCEPT !.deployment.jobs[1].instances = n] : n \in {-1, 0, 2}}
    \cup {[b EXCEPT !.deployment.jobs[1].templates = ts] :
            ts \in {<<>>, <<Template("app_job", "app"), Template("app_job", "app")>>,
                    <<Template("other", "app")>>, <<Template("app_job", "other")>>,
                    <<Template("app_job", "app"), Template("cpi_job", "cpi")>>}}
    \cup {[b EXCEPT !.deployment.jobs[1].jobs = <<Template("cpi_job", "cpi")>>],
          [b EXCEPT !.deployment.jobs[1].persistent_disk_pool = "dp"],
          [b EXCEPT !.deployment.jobs[1].persistent_disk_pool = "other"],
          [b EXCEPT !.deployment.jobs[1].resource_pool = "other"],
          [b EXCEPT !.deployment.jobs[1].lifecycle = "errand"],
          [b EXCEPT !.deployment.jobs[1].persistent_disk = -1]}

JobNetworkEdits(b) ==
    {[b EXCEPT !.deployment.jobs[1].networks = ns] :
        ns \in {<<>>, <<On("m", <<>>, <<>>)>>, <<On("m", <<0>>, <<>>)>>, <<On("m", <<-1>>, <<>>)>>,
                <<On("other", <<>>, <<>>)>>, <<On("d", <<>>, <<"dns">>)>>, <<On("v", <<5>>, <<>>)>>,
                <<On("m", <<5>>, <<>>), On("d", <<>>, <<>>)>>,
                <<On("m", <<5>>, <<"dns">>), On("d", <<>>, <<"gateway">>)>>,
                <<On("m", <<5>>, <<"dns", "gateway">>), On("d", <<>>, <<"gateway">>)>>,
                <<On("m", <<>>, <<"dns", "gateway">>), On("d", <<>>, <<>>)>>,
                <<On("m", <<>>, <<"dns">>), On("d", <<>>, <<"gateway">>)>>,
                <<On("m", <<5>>, <<"dns", "gateway">>), On("m", <<>>, <<>>)>>,
                <<On("m", <<5>>, <<"dns", "gateway">>), On("m", <<6>>, <<>>), On("v", <<5>>, <<>>)>>,
                <<On("m", <<5>>, <<"dns", "other">>)>>}}

OtherEdits(b) ==
    {[b EXCEPT !.stemcell.archive = FALSE], [b EXCEPT !.stemcell.os_and_version = "other/1"],
     [b EXCEPT !.stemcell.unbuildable = TRUE],
     [b EXCEPT !.deployment.resource_pools[1].stemcell.url = "rel"],
     [b EXCEPT !.deployment.resource_pools[1].network = "other"],
     [b EXCEPT !.deployment.disk_pools[1].disk_size = 0],
     [b EXCEPT !.deployment.update_watch_time = <<-1, 1>>],
     [b EXCEPT !.deployment.update_watch_time = <<2, 1>>],
     [b EXCEPT !.deployment.update_watch_time = <<1>>],
     [b EXCEPT !.deployment.name = ""], [b EXCEPT !.deployment.unbuildable = TRUE]}

\* Edits of the tarballs and of other parts go together, so do edits of the job's
\* networks and of the networks.
MCInputs ==
    LET jobs == JobEdits(Base) \cup OtherEdits(Base) \cup {Base}
    IN  ReleaseEdits(Base) \cup NetworkEdits(Base) \cup JobNetworkEdits(Base)
            \cup UNION {TarballEdits(b) \cup {b} : b \in jobs \cup ReleaseEdits(Base)}
            \cup UNION {JobNetworkEdits(b) : b \in NetworkEdits(Base)}

\* A compiled CPI release, given to deploy and to delete
CompiledCpi == {i \in TarballEdits(Base) : IsCompiled(i.tarballs[1])}
=============================================================================
