------------------------------ MODULE SSHTunnel ------------------------------
(***************************************************************************)
(* Waiting for the agent of a new VM (instance.WaitUntilReady) when the    *)
(* CPI uses the registry: a goroutine opens an SSH tunnel to the VM and    *)
(* forwards the agent's connections to the registry on this machine.       *)
(*                                                                         *)
(* The waiting command receives one message on readyErrCh and nothing on   *)
(* errCh; both channels are unbuffered.  So a goroutine that has anything  *)
(* to say on errCh stops there for good ("stuck"), before its deferred     *)
(* calls.  SSH, the agent and the registry are external: they fail, close  *)
(* connections and stay silent as they like.  Neither ssh.Dial nor Listen  *)
(* nor the ping of the agent has a deadline for the answer, so each of     *)
(* them may never return.                                                  *)
(***************************************************************************)
EXTENDS Naturals

CONSTANTS
    ConnectionRefusedTimeout, AuthFailureTimeout, StartDialDelay,
    PingTimeout,     \* how long vm.WaitUntilReady tries to reach the agent
    Conns,           \* the connections the agent makes
    MaxTime          \* bound on the clock

ASSUME TimeoutsAssumption ==
    /\ ConnectionRefusedTimeout \in Nat \ {0} /\ AuthFailureTimeout \in Nat \ {0}
    /\ StartDialDelay \in Nat /\ PingTimeout \in Nat /\ MaxTime \in Nat

VARIABLES
    now,
    main,          \* the waiting command: "wait_tunnel", "ping" while a ping is on its
                   \* way, "sleep" between two pings, "ready", "failed"
    pingTime,      \* the time left to reach the agent
    tunnel,        \* where the goroutine of Start is
    failure,       \* why the last dial failed
    wake,          \* when it dials again
    retry,         \* SSHRetryStrategy: initialized, startTime, authStartTime
    listening,     \* "yes" once the VM's port is forwarded
    current,       \* the connection being forwarded
    conn,          \* agent's side: "none", "queued", "open", "answered", "closed"
    localConn,     \* registry's side: "none", "open", "closed"
    up, down,      \* the copying goroutines: "none", "copying", "done", "stuck"
    firstFailure,  \* observation: when a dial first failed
    lastOther      \* observation: when one last failed for another reason than auth

clientVars == <<main, pingTime>>
dialVars == <<failure, wake, retry, firstFailure, lastOther>>
connVars == <<current, conn, localConn, up, down>>
vars == <<now, clientVars, tunnel, dialVars, listening, connVars>>

Failures == {"refused", "auth", "no_common"}

TypeOK ==
    /\ now \in 0..MaxTime
    /\ main \in {"wait_tunnel", "ping", "sleep", "ready", "failed"}
    /\ pingTime \in 0..PingTimeout
    /\ tunnel \in {"start", "dial", "sleep", "listen", "send_error", "send_ready",
                   "accept", "dial_local", "stuck", "returned"}
    /\ failure \in Failures \cup {"none"}
    /\ wake \in Nat /\ firstFailure \in Nat /\ lastOther \in Nat
    /\ retry \in [initialized : {"no", "yes"}, startTime : Nat, authStartTime : Nat]
    /\ listening \in {"no", "yes"}
    /\ current \in Conns
    /\ conn \in [Conns -> {"none", "queued", "open", "answered", "closed"}]
    /\ localConn \in [Conns -> {"none", "open", "closed"}]
    /\ up \in [Conns -> {"none", "copying", "done", "stuck"}]
    /\ down \in [Conns -> {"none", "copying", "done", "stuck"}]

Init ==
    /\ now = 0 /\ main = "wait_tunnel" /\ pingTime = PingTimeout
    /\ tunnel = "start" /\ failure = "none" /\ wake = 0 /\ firstFailure = 0 /\ lastOther = 0
    /\ retry = [initialized |-> "no", startTime |-> 0, authStartTime |-> 0]
    /\ listening = "no" /\ current \in Conns
    /\ conn = [c \in Conns |-> "none"] /\ localConn = [c \in Conns |-> "none"]
    /\ up = [c \in Conns |-> "none"] /\ down = [c \in Conns |-> "none"]

\* Time counts from the first failure to dial on; after MaxTime it matters no more.
Clock ==
    IF now < MaxTime /\ retry.initialized = "yes" THEN now + 1 ELSE now
Tick ==
    /\ now' = Clock
    /\ pingTime' = IF main \in {"ping", "sleep"} /\ pingTime > 0 THEN pingTime - 1 ELSE pingTime
    /\ UNCHANGED <<main, tunnel, dialVars, listening, connVars>>

-----------------------------------------------------------------------------
(* The goroutine of Start, until it answers on readyErrCh.                 *)

\* The private key is read and parsed, if there is one.
Begin(to) ==
    /\ tunnel = "start" /\ tunnel' = to
    /\ UNCHANGED <<now, clientVars, dialVars, listening, connVars>>

\* Mutant: a refused connection does not start the time for authentication anew
IsRetryable_NoReset(kind, r) ==
    [ok |-> kind # "no_common" /\ now < (IF kind = "auth" THEN r.authStartTime + AuthFailureTimeout
                                         ELSE r.startTime + ConnectionRefusedTimeout),
     next |-> r]

\* Mutant: a failure to authenticate starts the time for connecting anew
IsRetryable_Restart(kind, r) ==
    [ok |-> kind # "no_common" /\ now < (IF kind = "auth" THEN r.authStartTime + AuthFailureTimeout
                                         ELSE r.startTime + ConnectionRefusedTimeout),
     next |-> IF kind = "auth" THEN [r EXCEPT !.startTime = now]
              ELSE [r EXCEPT !.authStartTime = now]]

\* The verdict, and the strategy's fields afterwards
IsRetryable(kind, r) ==
    [ok |-> kind # "no_common" /\ now < (IF kind = "auth" THEN r.authStartTime + AuthFailureTimeout
                                         ELSE r.startTime + ConnectionRefusedTimeout),
     next |-> IF kind = "refused" THEN [r EXCEPT !.authStartTime = now] ELSE r]

\* Its clock starts with the first failure.
Initialized ==
    IF retry.initialized = "yes" THEN retry
    ELSE [initialized |-> "yes", startTime |-> now, authStartTime |-> now]

DialFails(kind) ==
    /\ tunnel = "dial"
    /\ LET verdict == IsRetryable(kind, Initialized)
       IN  /\ tunnel' = IF verdict.ok THEN "sleep" ELSE "send_error"
           /\ retry' = verdict.next
    /\ failure' = kind /\ wake' = now + StartDialDelay
    /\ firstFailure' = IF retry.initialized = "yes" THEN firstFailure ELSE now
    /\ lastOther' = IF kind = "auth" /\ retry.initialized = "yes" THEN lastOther ELSE now
    /\ UNCHANGED <<now, clientVars, listening, connVars>>

DialAgain ==
    /\ tunnel = "sleep" /\ now >= wake /\ tunnel' = "dial"
    /\ UNCHANGED <<now, clientVars, dialVars, listening, connVars>>

\* Mutant: the command is told before the port is forwarded
DialSucceeds_ReadyFirst ==
    /\ tunnel = "dial" /\ tunnel' = "send_ready" /\ failure' = "none"
    /\ UNCHANGED <<now, clientVars, wake, retry, firstFailure, lastOther, listening, connVars>>

DialSucceeds ==
    /\ tunnel = "dial" /\ tunnel' = "listen" /\ failure' = "none"
    /\ UNCHANGED <<now, clientVars, wake, retry, firstFailure, lastOther, listening, connVars>>

Listen ==
    /\ tunnel = "listen" /\ tunnel' = "send_ready" /\ listening' = "yes"
    /\ UNCHANGED <<now, clientVars, dialVars, connVars>>

\* Mutant: a failure to listen is not reported
ListenFails_Silent ==
    /\ tunnel = "listen" /\ tunnel' = "returned"
    /\ UNCHANGED <<now, clientVars, dialVars, listening, connVars>>

ListenFails ==
    /\ tunnel = "listen" /\ tunnel' = "send_error"
    /\ UNCHANGED <<now, clientVars, dialVars, listening, connVars>>

\* readyErrCh: sender and receiver meet.
SendError ==
    /\ tunnel = "send_error" /\ main = "wait_tunnel"
    /\ tunnel' = "returned" /\ main' = "failed"
    /\ UNCHANGED <<now, pingTime, dialVars, listening, connVars>>

SendReady ==
    /\ tunnel = "send_ready" /\ main = "wait_tunnel"
    /\ tunnel' = "accept" /\ main' = "ping"
    /\ UNCHANGED <<now, pingTime, dialVars, listening, connVars>>

-----------------------------------------------------------------------------
(* Forwarding.                                                             *)

AgentConnects(c) ==
    /\ listening = "yes" /\ conn[c] = "none"
    /\ conn' = [conn EXCEPT ![c] = "queued"]
    /\ UNCHANGED <<now, clientVars, tunnel, dialVars, listening, current, localConn, up, down>>

Accept(c) ==
    /\ tunnel = "accept" /\ conn[c] = "queued"
    /\ tunnel' = "dial_local" /\ current' = c
    /\ UNCHANGED <<now, clientVars, dialVars, listening, conn, localConn, up, down>>

DialLocal ==
    /\ tunnel = "dial_local" /\ tunnel' = "accept"
    /\ conn' = [conn EXCEPT ![current] = "open"]
    /\ localConn' = [localConn EXCEPT ![current] = "open"]
    /\ up' = [up EXCEPT ![current] = "copying"]
    /\ down' = [down EXCEPT ![current] = "copying"]
    /\ UNCHANGED <<now, clientVars, dialVars, listening, current>>

\* Mutant: after an error of Accept the loop goes on without a connection
ForwardingFails_GoesOn ==
    /\ tunnel = "accept" /\ tunnel' = "dial_local" /\ current' = "nil"
    /\ UNCHANGED <<now, clientVars, dialVars, listening, conn, localConn, up, down>>

\* Accept or the local dial fails: the loop says so on errCh.
ForwardingFails ==
    /\ tunnel \in {"accept", "dial_local"} /\ tunnel' = "stuck"
    /\ UNCHANGED <<now, clientVars, dialVars, listening, connVars>>

\* The registry's answer reaches the agent, which then answers pings.
Answer(c) ==
    /\ conn[c] = "open" /\ up[c] = "copying" /\ down[c] = "copying"
    /\ conn' = [conn EXCEPT ![c] = "answered"]
    /\ UNCHANGED <<now, clientVars, tunnel, dialVars, listening, current, localConn, up, down>>

AgentCloses(c) ==
    /\ conn[c] \in {"open", "answered"}
    /\ conn' = [conn EXCEPT ![c] = "closed"]
    /\ UNCHANGED <<now, clientVars, tunnel, dialVars, listening, current, localConn, up, down>>

\* Mutant: the local connection is left to the other goroutine
UpEnds_NoClose(c) ==
    /\ up[c] = "copying" /\ conn[c] = "closed"
    /\ up' = [up EXCEPT ![c] = "done"]
    /\ UNCHANGED <<now, clientVars, tunnel, dialVars, listening, current, conn, localConn, down>>

\* From the agent to the registry: ends when the agent closes, then closes localConn
UpEnds(c) ==
    /\ up[c] = "copying" /\ conn[c] = "closed"
    /\ up' = [up EXCEPT ![c] = "done"] /\ localConn' = [localConn EXCEPT ![c] = "closed"]
    /\ UNCHANGED <<now, clientVars, tunnel, dialVars, listening, current, conn, down>>

\* From the registry to the agent: ends when the registry closes
DownEnds(c) ==
    /\ down[c] = "copying" /\ localConn[c] = "open"
    /\ down' = [down EXCEPT ![c] = "done"] /\ localConn' = [localConn EXCEPT ![c] = "closed"]
    /\ UNCHANGED <<now, clientVars, tunnel, dialVars, listening, current, conn, up>>

\* Reading from, or writing to, a connection that broke or was closed on this side
\* is an error, which nobody takes.
CopyBreaks(c) ==
    /\ \/ up[c] = "copying" /\ up' = [up EXCEPT ![c] = "stuck"] /\ UNCHANGED down
       \/ down[c] = "copying" /\ down' = [down EXCEPT ![c] = "stuck"] /\ UNCHANGED up
    /\ UNCHANGED <<now, clientVars, tunnel, dialVars, listening, current, conn, localConn>>

-----------------------------------------------------------------------------
(* vm.WaitUntilReady: the agent is pinged again and again; whether the     *)
(* time is over is looked at only when a ping returned.                    *)

AgentReady ==
    /\ main = "ping" /\ \E c \in Conns : conn[c] \in {"answered", "closed"}
    /\ main' = "ready"
    /\ UNCHANGED <<now, pingTime, tunnel, dialVars, listening, connVars>>

PingFails ==
    /\ main = "ping" /\ main' = IF pingTime = 0 THEN "failed" ELSE "sleep"
    /\ UNCHANGED <<now, pingTime, tunnel, dialVars, listening, connVars>>

PingAgain ==
    /\ main = "sleep" /\ main' = "ping"
    /\ UNCHANGED <<now, pingTime, tunnel, dialVars, listening, connVars>>

-----------------------------------------------------------------------------
\* What the two processes do by themselves
Going == Begin("dial") \/ Begin("send_error") \/ DialAgain \/ SendError \/ SendReady
\* What returns when the other side answers, if it does
Answered ==
    \/ DialSucceeds \/ \E kind \in Failures : DialFails(kind)
    \/ Listen \/ ListenFails \/ AgentReady \/ PingFails
Copying(c) == UpEnds(c) \/ DownEnds(c) \/ CopyBreaks(c)

Next ==
    \/ Tick \/ Going \/ Answered \/ PingAgain \/ DialLocal \/ ForwardingFails
    \/ \E c \in Conns : Accept(c) \/ AgentConnects(c) \/ Answer(c) \/ AgentCloses(c) \/ Copying(c)

Spec == Init /\ [][Next]_vars

(***************************************************************************)
(* Fairness: time passes, and a goroutine that can go on does, as the      *)
(* scheduler sees to.  Nothing is assumed of SSH, the VM and the agent:    *)
(* the steps in Answered are not fair, and neither are the agent's own.    *)
(***************************************************************************)
FairSpec ==
    /\ Spec /\ WF_vars(Tick) /\ WF_vars(Going) /\ WF_vars(PingAgain)
    /\ \A c \in Conns : WF_vars(UpEnds(c))

-----------------------------------------------------------------------------
(* Properties.                                                             *)

(***************************************************************************)
(* The command starts to ping the agent only when the agent can reach the  *)
(* registry: the port is forwarded by then (ssh_tunnel.go Start,           *)
(* instance.go WaitUntilReady).                                            *)
(***************************************************************************)
PingOnlyBehindTunnel == main \in {"ping", "sleep", "ready"} => listening = "yes"

(***************************************************************************)
(* However connections refused and authentications failed follow each      *)
(* other, no attempt is retried once both timeouts have passed since the   *)
(* first failure (SSHRetryStrategy.IsRetryable).                           *)
(***************************************************************************)
DialBounded ==
    tunnel = "sleep" =>
        wake < firstFailure + ConnectionRefusedTimeout + AuthFailureTimeout + StartDialDelay

(***************************************************************************)
(* Authentication that fails is given up on only when it has failed for    *)
(* the whole AuthFailureTimeout since the connection was last refused: a   *)
(* VM whose sshd restarts while it boots gets the time anew.               *)
(***************************************************************************)
AuthPatience ==
    tunnel = "send_error" /\ failure = "auth" => now >= lastOther + AuthFailureTimeout

(***************************************************************************)
(* The command waits forever only for an answer that never comes: to one   *)
(* ssh.Dial, one Listen or one ping, none of which has a deadline          *)
(* (ssh_tunnel.go:90 and 108).  Failures, however many and wherever, let   *)
(* it end: every way out of Start before the loop sends on readyErrCh,     *)
(* retries end, and the tunnel's goroutine that is stuck on errCh is not   *)
(* waited for.                                                             *)
(***************************************************************************)
WaitEnds ==
    \/ <>(main \in {"ready", "failed"})
    \/ <>[](main = "wait_tunnel" /\ tunnel = "dial")
    \/ <>[](main = "wait_tunnel" /\ tunnel = "listen")
    \/ <>[](main = "ping")

(***************************************************************************)
(* When the agent closes a connection, the connection to the registry is   *)
(* closed as well, unless copying broke off before.                        *)
(***************************************************************************)
LocalReleased ==
    \A c \in Conns : conn[c] = "closed" ~> (localConn[c] = "closed" \/ up[c] = "stuck")
=============================================================================
