------------------------- MODULE DeploymentContract -------------------------
(***************************************************************************)
(* What the deploy and delete commands promise to an operator, whatever    *)
(* goes on inside them: what becomes of the persistent data, when a        *)
(* deployment counts as deployed, and what the outcome of a command may    *)
(* be taken to mean.  Lifecycle is shown to implement this specification.  *)
(***************************************************************************)
CONSTANTS Inputs, None

VARIABLES
    command, input,   \* the command started last, and what a deploy was given
    running,          \* "yes" while it runs
    outcome,          \* "none" while it runs, else "ok", "skipped" or "failed"
    (***********************************************************************)
    (* The data of the jobs: "none"; "unadopted", on the disk of an earlier*)
    (* micro deployment; "live", on the disk recorded as current; or       *)
    (* "unreachable", because the state file can no longer be read.        *)
    (***********************************************************************)
    volume,
    certified         \* {}, or the certificate of what is deployed

contractVars == <<command, input, running, outcome, volume, certified>>

\* What decides whether a deploy is skipped
Certificate(i) == [sha1 |-> i.sha1, version |-> i.version, releases |-> i.releases]

ContractInit ==
    /\ command = "none" /\ input = None /\ running = "no" /\ outcome = "none"
    /\ volume \in {"none", "unadopted"}
    /\ certified = {}

Start(c, i) ==
    /\ running = "no" /\ running' = "yes"
    /\ command' = c /\ input' = i /\ outcome' = "none"
    /\ UNCHANGED <<volume, certified>>

Return(o) ==
    /\ running = "yes" /\ running' = "no"
    /\ outcome' = o
    /\ UNCHANGED <<command, input>>

\* A deploy succeeds, or is skipped, only when its input is what is deployed.
DeploySucceeds ==
    /\ command = "deploy" /\ Certificate(input) \in certified
    /\ Return("ok") \/ Return("skipped")
    /\ UNCHANGED <<volume, certified>>

\* A delete succeeds only when no data is left that a deploy would find on a
\* disk it recorded, and nothing counts as deployed.
Deleted == volume \in {"none", "unadopted"} /\ certified = {}

DeleteSucceeds ==
    /\ command = "delete" /\ Deleted
    /\ Return("ok")
    /\ UNCHANGED <<volume, certified>>

NothingToDelete ==
    /\ running = "no" /\ Deleted
    /\ command' = "delete" /\ input' = None /\ outcome' = "ok"
    /\ UNCHANGED <<running, volume, certified>>

\* A command that fails leaves the data and the certificate alone ...
Fail == Return("failed") /\ UNCHANGED <<volume, certified>>

\* ... unless it is stopped in the middle of writing the state file.
Corrupt == Return("failed") /\ volume' = "unreachable" /\ certified' = {}

Work == running = "yes" /\ UNCHANGED <<command, input, running, outcome>>

\* Only a deploy brings data under management, only a delete destroys it.
Adopt == Work /\ command = "deploy" /\ volume = "unadopted" /\ volume' = "live" /\ UNCHANGED certified
FirstWrite == Work /\ command = "deploy" /\ volume = "none" /\ volume' = "live" /\ UNCHANGED certified
Destroy == Work /\ command = "delete" /\ volume = "live" /\ volume' = "none" /\ UNCHANGED certified

Revoke == Work /\ certified' = {} /\ UNCHANGED volume
Certify ==
    /\ Work /\ command = "deploy"
    /\ certified = {} /\ certified' = {Certificate(input)}
    /\ UNCHANGED volume

ContractNext ==
    \/ Start("delete", None) \/ \E i \in Inputs : Start("deploy", i)
    \/ DeploySucceeds \/ DeleteSucceeds \/ NothingToDelete \/ Fail \/ Corrupt
    \/ Adopt \/ FirstWrite \/ Destroy \/ Revoke \/ Certify

ContractSpec == ContractInit /\ [][ContractNext]_contractVars
=============================================================================
