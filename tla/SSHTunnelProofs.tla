--------------------------- MODULE SSHTunnelProofs ---------------------------
(***************************************************************************)
(* The safety properties of SSHTunnel for all timeouts, any number of      *)
(* connections and any bound on the clock.                                 *)
(***************************************************************************)
EXTENDS SSHTunnel, TLAPS

\* The goroutine of Start is still dialing, or has got through.
NotGivenUp == tunnel \notin {"send_error", "returned"}

\* The strategy's times: connecting has its time from the first failure on, and
\* authentication from the last failure of another kind, which was in that time.
RetryInv ==
    /\ NotGivenUp /\ retry.initialized = "yes" =>
           /\ retry.startTime = firstFailure
           /\ retry.authStartTime = lastOther
           /\ lastOther < firstFailure + ConnectionRefusedTimeout
    /\ tunnel \in {"start", "listen"} => failure = "none"

\* The port is forwarded before the command is told.
ListenInv == tunnel \in {"send_ready", "accept", "dial_local", "stuck"} => listening = "yes"

TunnelInv == TypeOK /\ RetryInv /\ ListenInv /\ PingOnlyBehindTunnel /\ DialBounded /\ AuthPatience

USE TimeoutsAssumption
USE DEF vars, clientVars, dialVars, connVars

LEMMA TunnelInit == Init => TunnelInv
  BY DEF Init, TunnelInv, TypeOK, RetryInv, ListenInv, PingOnlyBehindTunnel, DialBounded,
         AuthPatience, Failures

-----------------------------------------------------------------------------
(* Types.                                                                  *)

LEMMA TypeStep == TypeOK /\ [Next]_vars => TypeOK'
<1> SUFFICES ASSUME TypeOK, [Next]_vars PROVE TypeOK'
  OBVIOUS
<1> USE DEF TypeOK, Failures
<1>1. CASE Tick
  BY <1>1 DEF Tick, Clock
<1>2. CASE Answered
  <2>1. ASSUME NEW kind \in Failures, DialFails(kind) PROVE TypeOK'
    <3>1. Initialized \in [initialized : {"no", "yes"}, startTime : Nat, authStartTime : Nat]
      BY DEF Initialized
    <3>2. IsRetryable(kind, Initialized).next
              \in [initialized : {"no", "yes"}, startTime : Nat, authStartTime : Nat]
      BY <3>1 DEF IsRetryable
    <3> QED
      BY <2>1, <3>2 DEF DialFails
  <2>2. CASE DialSucceeds \/ Listen \/ ListenFails \/ AgentReady \/ PingFails
    BY <2>2 DEF DialSucceeds, Listen, ListenFails, AgentReady, PingFails
  <2> QED
    BY <1>2, <2>1, <2>2 DEF Answered
<1>3. CASE Going \/ PingAgain
  BY <1>3 DEF Going, Begin, DialAgain, SendError, SendReady, PingAgain
<1>4. CASE DialLocal \/ ForwardingFails
  BY <1>4 DEF DialLocal, ForwardingFails
<1>5. ASSUME NEW c \in Conns,
             Accept(c) \/ AgentConnects(c) \/ Answer(c) \/ AgentCloses(c) \/ Copying(c)
      PROVE  TypeOK'
  BY <1>5 DEF Accept, AgentConnects, Answer, AgentCloses, Copying, UpEnds, DownEnds, CopyBreaks
<1>6. CASE UNCHANGED vars
  BY <1>6
<1> QED
  BY <1>1, <1>2, <1>3, <1>4, <1>5, <1>6 DEF Next

-----------------------------------------------------------------------------
(* A dial that fails is the step the timeouts are about.                   *)

LEMMA DialFailsStep ==
    ASSUME TunnelInv, NEW kind \in Failures, DialFails(kind)
    PROVE  RetryInv' /\ DialBounded' /\ AuthPatience'
<1> DEFINE r == Initialized
<1>1. /\ r.initialized = "yes" /\ r.startTime \in Nat /\ r.authStartTime \in Nat
      /\ r \in [initialized : {"no", "yes"}, startTime : Nat, authStartTime : Nat]
      /\ now \in Nat
  BY DEF Initialized, TunnelInv, TypeOK
<1>2. r.startTime = firstFailure' /\ firstFailure' \in Nat
  BY DEF Initialized, TunnelInv, TypeOK, RetryInv, NotGivenUp, DialFails
<1>3. r.authStartTime = (IF retry.initialized = "yes" THEN lastOther ELSE now)
  BY DEF Initialized, TunnelInv, TypeOK, RetryInv, NotGivenUp, DialFails
<1>4. r.authStartTime < firstFailure' + ConnectionRefusedTimeout
  BY DEF Initialized, TunnelInv, TypeOK, RetryInv, NotGivenUp, DialFails
<1> HIDE DEF r
<1>5. /\ retry' = IF kind = "refused" THEN [r EXCEPT !.authStartTime = now] ELSE r
      /\ tunnel' = IF kind # "no_common"
                      /\ now < (IF kind = "auth" THEN r.authStartTime + AuthFailureTimeout
                                ELSE r.startTime + ConnectionRefusedTimeout)
                   THEN "sleep" ELSE "send_error"
  BY DEF DialFails, IsRetryable, r
<1>6. RetryInv'
  BY <1>1, <1>2, <1>3, <1>4, <1>5 DEF RetryInv, NotGivenUp, DialFails, Failures
<1>7. DialBounded'
  BY <1>1, <1>2, <1>4, <1>5 DEF DialBounded, DialFails, Failures
<1>8. AuthPatience'
  BY <1>1, <1>3, <1>5 DEF AuthPatience, DialFails, Failures
<1> QED
  BY <1>6, <1>7, <1>8

LEMMA TunnelStep == TunnelInv /\ [Next]_vars => TunnelInv'
<1> SUFFICES ASSUME TunnelInv, [Next]_vars PROVE TunnelInv'
  OBVIOUS
<1>1. TypeOK'
  BY TypeStep DEF TunnelInv
<1> USE DEF RetryInv, NotGivenUp, ListenInv, PingOnlyBehindTunnel, DialBounded, AuthPatience
<1> DEFINE Rest == (RetryInv /\ ListenInv /\ PingOnlyBehindTunnel /\ DialBounded /\ AuthPatience)'
<1>2. CASE Tick
  BY <1>1, <1>2 DEF TunnelInv, TypeOK, Tick, Clock
<1>3. CASE Answered
  <2>1. ASSUME NEW kind \in Failures, DialFails(kind) PROVE Rest
    <3>1. ListenInv' /\ PingOnlyBehindTunnel'
      BY <2>1 DEF TunnelInv, DialFails
    <3> QED
      BY <2>1, <3>1, DialFailsStep
  <2>2. CASE DialSucceeds \/ Listen \/ ListenFails \/ AgentReady \/ PingFails
    BY <1>1, <2>2 DEF TunnelInv, DialSucceeds, Listen, ListenFails, AgentReady, PingFails
  <2> QED
    BY <1>1, <1>3, <2>1, <2>2 DEF TunnelInv, Answered
<1>4. CASE Going \/ PingAgain
  BY <1>1, <1>4 DEF TunnelInv, Going, Begin, DialAgain, SendError, SendReady, PingAgain
<1>5. CASE DialLocal \/ ForwardingFails
  BY <1>1, <1>5 DEF TunnelInv, DialLocal, ForwardingFails
<1>6. ASSUME NEW c \in Conns,
             Accept(c) \/ AgentConnects(c) \/ Answer(c) \/ AgentCloses(c) \/ Copying(c)
      PROVE  TunnelInv'
  BY <1>1, <1>6 DEF TunnelInv, Accept, AgentConnects, Answer, AgentCloses, Copying, UpEnds, DownEnds, CopyBreaks
<1>7. CASE UNCHANGED vars
  BY <1>1, <1>7 DEF TunnelInv
<1> QED
  BY <1>1, <1>2, <1>3, <1>4, <1>5, <1>6, <1>7 DEF Next, TunnelInv

(***************************************************************************)
(* The invariant holds throughout.                                         *)
(***************************************************************************)
THEOREM TunnelInvariant == Spec => []TunnelInv
  BY TunnelInit, TunnelStep, PTL DEF Spec

(***************************************************************************)
(* Whatever the two timeouts and the delay, and however refused            *)
(* connections and failed authentications follow each other, dialing is    *)
(* given up in time (ssh_tunnel.go Start, SSHRetryStrategy.IsRetryable).   *)
(***************************************************************************)
THEOREM DialIsBounded == Spec => []DialBounded
<1>1. TunnelInv => DialBounded
  BY DEF TunnelInv
<1> QED
  BY <1>1, TunnelInvariant, PTL

(***************************************************************************)
(* Authentication is not given up on before its whole timeout has passed   *)
(* since the connection was last refused (SSHRetryStrategy.IsRetryable).   *)
(***************************************************************************)
THEOREM AuthIsPatient == Spec => []AuthPatience
<1>1. TunnelInv => AuthPatience
  BY DEF TunnelInv
<1> QED
  BY <1>1, TunnelInvariant, PTL

(***************************************************************************)
(* The goroutines, channels and connections keep their types.              *)
(***************************************************************************)
THEOREM TunnelTypeCorrect == Spec => []TypeOK
<1>1. TunnelInv => TypeOK
  BY DEF TunnelInv
<1> QED
  BY <1>1, TunnelInvariant, PTL

(***************************************************************************)
(* The agent is waited for only when its way to the registry is open       *)
(* (instance.WaitUntilReady, ssh_tunnel.go Start).                         *)
(***************************************************************************)
THEOREM PingIsBehindTunnel == Spec => []PingOnlyBehindTunnel
<1>1. TunnelInv => PingOnlyBehindTunnel
  BY DEF TunnelInv
<1> QED
  BY <1>1, TunnelInvariant, PTL
=============================================================================
