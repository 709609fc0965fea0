---- MODULE MCLifecycle ----
(* Small instances of Lifecycle for TLC. *)
EXTENDS LifecycleInv, TLC

First == [sha1 |-> "m1", version |-> "v1", disk |-> "small", releases |-> "r1", instances |-> 1]

\* After the first input: one that differs in everything (another stemcell, a disk to
\* migrate), one with the same manifest text over another stemcell, one that wants no
\* disk, and one whose job has two instances.
MCInputs ==
    {First,
     [sha1 |-> "m2", version |-> "v2", disk |-> "big", releases |-> "r2", instances |-> 1],
     [First EXCEPT !.version = "v2"],
     [First EXCEPT !.sha1 = "m3", !.disk = None],
     [First EXCEPT !.sha1 = "m4", !.instances = 2]}

\* Fewer inputs for liveness
LiveInputs == {i \in MCInputs : i.sha1 \in {"m2", "m4"}} \cup {First}

Symmetry == Permutations(VMs) \cup Permutations(Disks) \cup Permutations(Stemcells)
====
