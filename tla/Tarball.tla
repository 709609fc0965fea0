------------------------------ MODULE Tarball -------------------------------
(***************************************************************************)
(* Fetching a tarball (installation/tarball): from a file, from the cache, *)
(* or by downloading it, in several attempts, into the cache.  The cache   *)
(* is a directory outside of every installation, so it outlives commands,  *)
(* kills and uninstalls; a file in it is named after the URL and the       *)
(* digest that was asked for.                                              *)
(*                                                                         *)
(* A tarball is identified with its digest.  A source is a record of its   *)
(* scheme, "file" or "http", and the digest the manifest gives for it.     *)
(***************************************************************************)
EXTENDS Naturals

CONSTANTS
    Tarballs,           \* the tarballs a source may name
    Junk,               \* anything else a server answers with, an error page or a torn body
    None,
    DownloadAttempts    \* 3 in cmd/factory.go

ASSUME TarballAssumption ==
    /\ Junk \notin Tarballs /\ None \notin Tarballs \cup {Junk}
    /\ DownloadAttempts \in Nat \ {0}

Sources == [scheme : {"file", "http"}, sha1 : Tarballs]
Contents == Tarballs \cup {Junk}

VARIABLES
    cache,       \* the cached file for each digest
    source,      \* what is being fetched, or None
    getPc,       \* where provider.Get is
    attempt,     \* of the download
    temp,        \* the temporary file of this attempt
    got          \* content of the file whose path Get returned

tarballVars == <<cache, source, getPc, attempt, temp, got>>

TarballTypeOK ==
    /\ cache \in [Tarballs -> Contents \cup {None}] /\ source \in Sources \cup {None}
    /\ getPc \in {"idle", "lookup", "download", "compare", "save", "ok", "failed"}
    /\ attempt \in 0 .. DownloadAttempts
    /\ temp \in Contents \cup {None} /\ got \in Contents \cup {None}

TarballInit ==
    /\ cache = [t \in Tarballs |-> None] /\ source = None /\ getPc = "idle"
    /\ attempt = 0 /\ temp = None /\ got = None

Get(s) ==
    /\ source' = s /\ getPc' = "lookup" /\ attempt' = 0 /\ temp' = None /\ got' = None
    /\ UNCHANGED cache

\* A file is taken as it is: its digest is not looked at.
UseFile ==
    /\ getPc = "lookup" /\ source.scheme = "file"
    /\ got' \in Contents /\ getPc' = "ok"
    /\ UNCHANGED <<cache, source, attempt, temp>>

UseCached ==
    /\ getPc = "lookup" /\ source.scheme = "http" /\ cache[source.sha1] # None
    /\ got' = cache[source.sha1] /\ getPc' = "ok"
    /\ UNCHANGED <<cache, source, attempt, temp>>

NotCached ==
    /\ getPc = "lookup" /\ source.scheme = "http" /\ cache[source.sha1] = None
    /\ attempt' = 1 /\ getPc' = "download"
    /\ UNCHANGED <<cache, source, temp, got>>

\* The status of the response is not looked at: whatever came is the file.
Download ==
    /\ getPc = "download" /\ temp' \in Contents /\ getPc' = "compare"
    /\ UNCHANGED <<cache, source, attempt, got>>

\* Mutant: one attempt too many
AttemptFailed_OneMore ==
    /\ temp' = None
    /\ IF attempt <= DownloadAttempts THEN attempt' = attempt + 1 /\ getPc' = "download"
       ELSE getPc' = "failed" /\ UNCHANGED attempt
    /\ UNCHANGED <<cache, source, got>>

\* Every failure is retryable; the temporary file is removed.
AttemptFailed ==
    /\ temp' = None
    /\ IF attempt < DownloadAttempts THEN attempt' = attempt + 1 /\ getPc' = "download"
       ELSE getPc' = "failed" /\ UNCHANGED attempt
    /\ UNCHANGED <<cache, source, got>>

DownloadFails == getPc \in {"download", "compare", "save"} /\ AttemptFailed

CompareDigest ==
    /\ getPc = "compare"
    /\ \/ temp = source.sha1 /\ getPc' = "save" /\ UNCHANGED <<cache, source, attempt, temp, got>>
       \/ temp # source.sha1 /\ AttemptFailed

\* Mutant: the file is in the cache before its digest is compared
SaveInCache_Early ==
    /\ getPc \in {"compare", "save"}
    /\ cache' = [cache EXCEPT ![source.sha1] = temp]
    /\ temp' = None /\ got' = temp /\ getPc' = "ok" /\ attempt' = 0
    /\ UNCHANGED source

\* cache.Save renames the temporary file.
SaveInCache ==
    /\ getPc = "save"
    /\ cache' = [cache EXCEPT ![source.sha1] = temp]
    /\ temp' = None /\ got' = temp /\ getPc' = "ok" /\ attempt' = 0
    /\ UNCHANGED source

GetStep == UseFile \/ UseCached \/ NotCached \/ Download \/ DownloadFails \/ CompareDigest \/ SaveInCache

\* Get has returned, or the process died in it: only the cache stays.
GetEnds ==
    /\ source' = None /\ getPc' = "idle" /\ attempt' = 0 /\ temp' = None /\ got' = None
    /\ UNCHANGED cache

-----------------------------------------------------------------------------
(***************************************************************************)
(* A cached tarball always is the one its name says, whatever the servers  *)
(* answered and whenever the process was killed; so a tarball that was     *)
(* fetched by HTTP is the one the manifest gives the digest of.            *)
(***************************************************************************)
FetchedAsAsked ==
    /\ \A t \in Tarballs : cache[t] \in {None, t}
    /\ getPc = "ok" /\ source.scheme = "http" => got = source.sha1

=============================================================================
