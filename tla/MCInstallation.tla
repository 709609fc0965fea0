---- MODULE MCInstallation ----
(* A CPI of two packages, one of which depends on the other; in the second *)
(* version of the release the dependency changed.                          *)
EXTENDS Installation

MCOrder == <<"p1", "p2">>
MCDependsOn == [p \in {"p1", "p2"} |-> IF p = "p2" THEN {"p1"} ELSE {}]
MCFingerprint ==
    [t \in {"v1", "v2"} |-> [p \in {"p1", "p2"} |-> IF p = "p2" THEN "x" ELSE IF t = "v1" THEN "a" ELSE "b"]]
====
