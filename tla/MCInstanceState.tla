--------------------------- MODULE MCInstanceState --------------------------
(* Networks, templates and watch times in every combination.  Package q1   *)
(* of one release and q2 of another are both called q; in the first, s     *)
(* depends on r and r on q1.                                               *)
EXTENDS InstanceState

Iface(type, ip, default) == [type |-> type, ip |-> ip, default |-> default]
Both == {"dns", "gateway"}

Networks ==
    {[n \in {"a"} |-> Iface("manual", 1, Both)], [n \in {"a"} |-> Iface("dynamic", NoText, Both)],
     [n \in {"a"} |-> Iface("manual", NoText, Both)],
     [n \in {"a", "b"} |-> IF n = "a" THEN Iface("manual", 1, {"dns"}) ELSE Iface("dynamic", NoText, {"gateway"})],
     [n \in {"a", "b"} |-> IF n = "a" THEN Iface("manual", 1, Both) ELSE Iface("dynamic", NoText, {})],
     [n \in {"a", "b"} |-> Iface("dynamic", NoText, {})]}

Template(jobName, packages, uses, hasProperties) ==
    [name |-> jobName, packages |-> packages, uses |-> uses, hasProperties |-> hasProperties,
     properties |-> IF hasProperties THEN "own" :> "template" ELSE <<>>,
     defaults |-> [p \in {"own", "shared"} |-> IF p = "own" THEN "default" ELSE Nil]]

TemplateLists ==
    {<<Template("x", <<"r">>, {"own", "shared"}, FALSE)>>,
     <<Template("x", <<"r", "q1">>, {}, FALSE), Template("y", <<"q2">>, {"own"}, TRUE)>>,
     <<Template("y", <<"q2">>, {"own"}, TRUE), Template("x", <<"r">>, {"shared"}, FALSE)>>,
     <<Template("x", <<"q1">>, {}, FALSE), Template("y", <<>>, {"shared"}, TRUE)>>,
     <<Template("x", <<"s">>, {}, FALSE), Template("y", <<"q2">>, {}, FALSE)>>}

MCInstances ==
    {[ifaces |-> n, templates |-> t, watch |-> [start |-> w[1], end |-> w[2]],
      cluster |-> "shared" :> "group", global |-> ("shared" :> "deployment") @@ ("own" :> "deployment"),
      pkgName |-> [p \in {"q1", "q2", "r", "s"} |-> IF p \in {"q1", "q2"} THEN "q" ELSE p],
      pkgDeps |-> [p \in {"q1", "q2", "r", "s"} |-> CASE p = "s" -> {"r"} [] p = "r" -> {"q1"} [] OTHER -> {}]] :
        n \in Networks, t \in TemplateLists, w \in {<<0, 999>>, <<500, 1500>>, <<0, 2999>>}}
=============================================================================
