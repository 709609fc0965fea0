------------------------------ MODULE Releases ------------------------------
(***************************************************************************)
(* Reading and validating release and stemcell tarballs.                   *)
(*                                                                         *)
(* A release tarball is its release.MF (name, version, jobs, packages,     *)
(* compiled_packages) together with what the archives in it hold: for each *)
(* job its job.MF and which files are there, for each package whether its  *)
(* archive can be extracted.                                               *)
(***************************************************************************)
EXTENDS SequencesExt

-----------------------------------------------------------------------------
(* release.MF                                                              *)

PackageRef ==
    [name : STRING, fingerprint : STRING, sha1 : STRING, stemcell : STRING,
     dependencies : SUBSET STRING, archive : BOOLEAN]

\* The lists of a release.MF, and the packages each job.MF lists
IsReleaseManifest(mf) ==
    /\ mf.packages \in Seq(PackageRef) /\ mf.compiled_packages \in Seq(PackageRef)
    /\ mf.jobs \in Seq(ToSet(mf.jobs))
    /\ \A i \in DOMAIN mf.jobs : mf.jobs[i].packages \subseteq STRING

-----------------------------------------------------------------------------
(* Reader: packages                                                        *)

IsCompiled(mf) == mf.compiled_packages # <<>>

ManifestPackages(mf) == IF IsCompiled(mf) THEN mf.compiled_packages ELSE mf.packages

\* A release is either compiled or not, and every archive must extract.
ReadsPackages(mf) ==
    /\ mf.packages = <<>> \/ mf.compiled_packages = <<>>
    /\ \A i \in DOMAIN ManifestPackages(mf) : ManifestPackages(mf)[i].archive

\* What FindOrCreatePackage makes of a dependency the release does not contain
Dangling(name) ==
    [name |-> name, fingerprint |-> "", sha1 |-> "", stemcell |-> "", dependencies |-> {}, in_release |-> FALSE]

\* One object per name: an entry read later overwrites an earlier one of its name,
\* and a name that is only depended on gets an empty package.
FindOrCreatePackage(mf, name) ==
    LET i == SelectLastInSeq(ManifestPackages(mf), LAMBDA p : p.name = name)
        p == ManifestPackages(mf)[i]
    IN  IF i = 0 THEN Dangling(name)
        ELSE [name |-> name, fingerprint |-> p.fingerprint, sha1 |-> p.sha1,
              stemcell |-> IF IsCompiled(mf) THEN p.stemcell ELSE "",
              dependencies |-> p.dependencies, in_release |-> TRUE]

PackageNames(mf) == {ManifestPackages(mf)[i].name : i \in DOMAIN ManifestPackages(mf)}

-----------------------------------------------------------------------------
(* Reader: jobs                                                            *)

\* The job archive is found under the name in release.MF; the name of the job is
\* the one in its job.MF.
ReadsJob(mf, j) == j.archive /\ j.packages \subseteq PackageNames(mf)

ReadsRelease(mf) ==
    /\ mf.archive
    /\ ReadsPackages(mf)
    /\ \A i \in DOMAIN mf.jobs : ReadsJob(mf, mf.jobs[i])

ReadRelease(mf) ==
    [name |-> mf.name, version |-> mf.version, jobs |-> mf.jobs, isCompiled |-> IsCompiled(mf),
     packages |-> [i \in DOMAIN ManifestPackages(mf) |->
                      FindOrCreatePackage(mf, ManifestPackages(mf)[i].name)]]

FindJob(release, name) == SelectInSeq(release.jobs, LAMBDA j : j.name = name)

-----------------------------------------------------------------------------
(* Validator                                                               *)

\* The files of a job are looked for where the job was extracted.
ValidReleaseJob(release, j) ==
    /\ j.name # "" /\ j.fingerprint # "" /\ j.sha1 # ""
    /\ j.monit
    /\ DOMAIN j.templates \subseteq j.files
    /\ j.packages \subseteq {release.packages[i].name : i \in DOMAIN release.packages}

Stemcells(release) == {release.packages[i].stemcell : i \in DOMAIN release.packages}

\* Mutant: packages compiled against different stemcells are let through
ValidReleasePackages_Mixed(release) ==
    \A i \in DOMAIN release.packages :
        LET p == release.packages[i]
        IN  /\ p.name # "" /\ p.fingerprint # "" /\ p.sha1 # ""
            /\ release.isCompiled => p.stemcell # ""

ValidReleasePackages(release) ==
    /\ \A i \in DOMAIN release.packages :
        LET p == release.packages[i]
        IN  /\ p.name # "" /\ p.fingerprint # "" /\ p.sha1 # ""
            /\ release.isCompiled => p.stemcell # ""
    /\ release.isCompiled => Cardinality(Stemcells(release)) <= 1

ValidRelease(release) ==
    /\ release.name # "" /\ release.version # ""
    /\ \A i \in DOMAIN release.jobs : ValidReleaseJob(release, release.jobs[i])
    /\ ValidReleasePackages(release)

\* A CPI job has a template that renders to bin/cpi.
ValidCpiRelease(release, jobName) ==
    /\ FindJob(release, jobName) # 0
    /\ \E t \in DOMAIN release.jobs[FindJob(release, jobName)].templates :
        release.jobs[FindJob(release, jobName)].templates[t] = "bin/cpi"

-----------------------------------------------------------------------------
(* Stemcells                                                               *)

\* A stemcell is read without any check of its fields.
ReadsStemcell(tarball) == tarball.archive /\ ~tarball.unbuildable

\* strings.ToLower on the texts "<os>/<version>" of the instances
ToLower(text) == IF text = "Ubuntu/1" THEN "ubuntu/1" ELSE text

=============================================================================
