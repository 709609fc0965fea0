---- MODULE MCPackages ----
(* Small instances of PackageCompile for TLC. *)
EXTENDS PackageCompile

P == {"p1", "p2", "p3", "p4"}

\* Every graph on four packages with at most two dependencies each, cycles and
\* packages that depend on themselves included, in one order of each list ...
AllGraphs == [P -> {SetToSeq(S) : S \in {T \in SUBSET P : Cardinality(T) <= 2}}]

\* ... and a chain, a diamond, a shared dependency and a cycle below the job.
List(a, b, c, d) == [p \in P |-> CASE p = "p1" -> a [] p = "p2" -> b [] p = "p3" -> c [] p = "p4" -> d]
Chain == List(<<"p2">>, <<"p3">>, <<"p4">>, <<>>)
Diamond == List(<<"p2", "p3">>, <<"p4">>, <<"p4">>, <<>>)
Shared == List(<<"p3", "p4">>, <<"p4", "p3">>, <<"p4">>, <<>>)
LowCycle == List(<<"p2">>, <<"p3">>, <<"p2">>, <<>>)
SomeGraphs == {Chain, Diamond, Shared, LowCycle}

CaseSet(graphs, jobs, compiled, places, n) ==
    {[deps |-> g, jobPackages |-> j, compiled |-> c, place |-> l, processes |-> n] :
        g \in graphs, j \in jobs, c \in compiled, l \in places}

\* One process for every graph, two processes with a changed release for some.
MCCases ==
    CaseSet(AllGraphs, {{"p1"}, {"p1", "p2"}}, {{}}, {"remote"}, 1)
    \cup CaseSet(SomeGraphs, {{"p1"}, {"p1", "p3"}}, {{}, {"p2", "p4"}}, {"local", "remote"}, 2)

TransitiveCases == CaseSet(SomeGraphs, {{"p1"}}, {{}}, {"local", "remote"}, 1)
====
