------------------------------ MODULE Registry ------------------------------
(***************************************************************************)
(* The registry server (registry): a map from instances to settings behind *)
(* an HTTP server that lives while the CPI is used.  The CPI writes, the   *)
(* agent on the VM reads.  The password is new for every command, so that  *)
(* a CPI process left over from a killed one is refused.                   *)
(*                                                                         *)
(* Every request has its own goroutine, and the map is a plain one.  A     *)
(* handler is modelled as receiving the request, starting to access the    *)
(* map, ending the access, and answering.  The Go runtime may kill the     *)
(* process when an access overlaps a write; otherwise the overlapping      *)
(* accesses take place in some order.                                      *)
(***************************************************************************)
EXTENDS Naturals

CONSTANTS
    Settings,       \* the settings the CPI may put
    NoSettings,     \* answered with status 404
    MaxRequests     \* bound on the requests of each client while a server runs

ASSUME RegistryAssumption == NoSettings \notin Settings /\ MaxRequests \in Nat

VARIABLES
    listening,      \* the listener is open
    settings,       \* the map, for the instance at hand
    cpiRequest, agentRequest,
    raced,          \* an access overlaps a write
    acknowledged,   \* what the CPI was last told is in the registry
    requests        \* requests received by this server

registryVars == <<listening, settings, cpiRequest, agentRequest, raced, acknowledged, requests>>

Value == Settings \cup {NoSettings}

\* No request; a handled one keeps its answer until the client sees it.
Idle == [stage |-> "idle", method |-> "GET", value |-> NoSettings, authorized |-> TRUE, allowed |-> {}]

Request ==
    [stage : {"idle", "received", "access", "answered"}, method : {"GET", "PUT", "DELETE"},
     value : Value, authorized : BOOLEAN, allowed : SUBSET Value]

RegistryTypeOK ==
    /\ listening \in BOOLEAN /\ settings \in Value /\ raced \in BOOLEAN
    /\ cpiRequest \in Request /\ agentRequest \in Request /\ acknowledged \in Value
    /\ requests \in 0 .. MaxRequests

RegistryInit ==
    /\ listening = FALSE /\ settings = NoSettings /\ cpiRequest = Idle /\ agentRequest = Idle
    /\ raced = FALSE /\ acknowledged = NoSettings /\ requests = 0

-----------------------------------------------------------------------------
(* The server                                                              *)

\* ServerManager.Start returns once the listener is open; the map is a new one.
StartServer ==
    /\ listening' = TRUE /\ settings' = NoSettings /\ acknowledged' = NoSettings
    /\ cpiRequest' = Idle /\ agentRequest' = Idle /\ raced' = FALSE /\ requests' = 0

\* Only the listener is closed: handlers at work go on.
StopServer ==
    /\ listening' = FALSE
    /\ UNCHANGED <<settings, cpiRequest, agentRequest, raced, acknowledged, requests>>

ServerKilled ==
    /\ listening' = FALSE /\ settings' = NoSettings /\ acknowledged' = NoSettings
    /\ cpiRequest' = Idle /\ agentRequest' = Idle /\ raced' = FALSE /\ requests' = 0

-----------------------------------------------------------------------------
(* The CPI's requests, one after the other                                 *)

\* What a GET may see from now on: the value a request at work is about to write.
MayWrite == IF cpiRequest.stage \in {"received", "access"} /\ cpiRequest.authorized
            THEN {cpiRequest.value} ELSE {}

ReceiveWrite(method, value, authorized) ==
    /\ listening /\ cpiRequest.stage = "idle" /\ requests < MaxRequests
    /\ cpiRequest' = [stage |-> "received", method |-> method, value |-> value,
                      authorized |-> authorized, allowed |-> {}]
    /\ agentRequest' = [agentRequest EXCEPT !.allowed =
                            @ \cup (IF agentRequest.stage # "idle" /\ authorized THEN {value} ELSE {})]
    /\ requests' = requests + 1
    /\ UNCHANGED <<listening, settings, raced, acknowledged>>

\* 401 without a look at the body, or 400 for a body that breaks off: nothing is written.
RefuseWrite ==
    /\ cpiRequest.stage = "received" /\ (~cpiRequest.authorized \/ cpiRequest.method = "PUT")
    /\ cpiRequest' = Idle
    /\ UNCHANGED <<listening, settings, agentRequest, raced, acknowledged, requests>>

StartWrite ==
    /\ cpiRequest.stage = "received" /\ cpiRequest.authorized
    /\ cpiRequest' = [cpiRequest EXCEPT !.stage = "access"]
    /\ raced' = (agentRequest.stage = "access")
    /\ UNCHANGED <<listening, settings, agentRequest, acknowledged, requests>>

\* Mutant: a PUT is answered before its settings are in the map
EndWrite_AnsweredFirst ==
    /\ cpiRequest.stage = "access"
    /\ acknowledged' = cpiRequest.value
    /\ cpiRequest' = [cpiRequest EXCEPT !.stage = "answered"]
    /\ raced' = FALSE
    /\ UNCHANGED <<listening, settings, agentRequest, requests>>

\* registry.Save or registry.Delete
EndWrite ==
    /\ cpiRequest.stage = "access"
    /\ settings' = cpiRequest.value
    /\ cpiRequest' = [cpiRequest EXCEPT !.stage = "answered"]
    /\ raced' = FALSE
    /\ UNCHANGED <<listening, agentRequest, acknowledged, requests>>

\* The answer arrives at the CPI.
WriteAnswered ==
    /\ cpiRequest.stage = "answered"
    /\ cpiRequest' = Idle /\ acknowledged' = cpiRequest.value
    /\ UNCHANGED <<listening, settings, agentRequest, raced, requests>>

-----------------------------------------------------------------------------
(* The agent's requests                                                    *)

ReceiveRead ==
    /\ listening /\ agentRequest.stage = "idle" /\ requests < MaxRequests
    /\ agentRequest' = [stage |-> "received", method |-> "GET", value |-> NoSettings, authorized |-> TRUE,
                        allowed |-> {acknowledged} \cup MayWrite
                                     \cup (IF cpiRequest.stage = "answered" THEN {cpiRequest.value} ELSE {})]
    /\ requests' = requests + 1
    /\ UNCHANGED <<listening, settings, cpiRequest, raced, acknowledged>>

StartRead ==
    /\ agentRequest.stage = "received"
    /\ agentRequest' = [agentRequest EXCEPT !.stage = "access"]
    /\ raced' = (cpiRequest.stage = "access")
    /\ UNCHANGED <<listening, settings, cpiRequest, acknowledged, requests>>

EndRead ==
    /\ agentRequest.stage = "access"
    /\ agentRequest' = [agentRequest EXCEPT !.stage = "answered", !.value = settings]
    /\ raced' = FALSE
    /\ UNCHANGED <<listening, settings, cpiRequest, acknowledged, requests>>

ReadAnswered ==
    /\ agentRequest.stage = "answered" /\ agentRequest' = Idle
    /\ UNCHANGED <<listening, settings, cpiRequest, raced, acknowledged, requests>>

RegistryStep ==
    \/ \E v \in Settings, a \in BOOLEAN : ReceiveWrite("PUT", v, a)
    \/ \E a \in BOOLEAN : ReceiveWrite("DELETE", NoSettings, a)
    \/ RefuseWrite \/ StartWrite \/ EndWrite \/ WriteAnswered
    \/ ReceiveRead \/ StartRead \/ EndRead \/ ReadAnswered

-----------------------------------------------------------------------------
(***************************************************************************)
(* The agent is answered with settings that the CPI knew to be in the      *)
(* registry, or was just writing, at some time while the request was       *)
(* handled; never with what a refused request brought, nor with what a     *)
(* finished request replaced (registry/instance_handler.go).               *)
(***************************************************************************)
SettingsServed == agentRequest.stage = "answered" => agentRequest.value \in agentRequest.allowed

=============================================================================
