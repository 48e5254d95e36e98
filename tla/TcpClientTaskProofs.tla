------------------------ MODULE TcpClientTaskProofs ------------------------
(***************************************************************************)
(* TcpClientTask keeps its promises against every remote end.              *)
(***************************************************************************)
EXTENDS TcpClientTask, TLAPS

(* What the state says of the handle, of the connection and of the past.   *)
(* on_connect is due exactly in S1, and an Error was always preceded by    *)
(* uv_close.                                                               *)
Progress ==
    /\ state = S0 => stage = "run" /\ client = "raw" /\ link = "none"
    /\ state = S1 => client # "raw" /\ link \in {"connecting", "dead"}
    /\ link = "connecting" => client = "init"
    /\ state \in {S2, S3, S4} => client = "init" /\ link = "up"
    /\ state = Error => client \in {"closing", "closed"} /\ link = "up"
    /\ response <=> state \in {S3, S4}
    /\ calls = IF state = S4 THEN 1 ELSE 0

(* A handle that is being closed is closed before uv_run returns. *)
Closing ==
    /\ client = "closing" => stage = "close"
    /\ stage = "gone" => state = Error

IInv == TypeOK /\ Progress /\ Closing /\ ConnectAssertHolds

USE DEF S0, S1, S2, S3, S4, Error

LEMMA InitIInv == Init => IInv
  <1> SUFFICES ASSUME Init PROVE IInv
    OBVIOUS
  <1>1. TypeOK
    <2>1. response \in BOOLEAN
      BY DEF Init
    <2> QED BY <2>1, ClientAssumption DEF Init, TypeOK
  <1>2. ~response /\ state \notin {S3, S4}
    BY DEF Init
  <1>3. Progress
    BY <1>2 DEF Init, Progress
  <1>4. Closing /\ ConnectAssertHolds
    BY DEF Init, Closing, ConnectAssertHolds
  <1> QED BY <1>1, <1>3, <1>4 DEF IInv

(* The remote end reaches nothing but the socket. *)
LEMMA RemoteKeeps ==
  ASSUME IInv, Answer \/ \E how \in {"closed", "reset"} : Hangup(how)
  PROVE  IInv'
  <1>1. CASE Answer
    BY <1>1, ClientAssumption
    DEF Answer, IInv, TypeOK, Progress, Closing, ConnectAssertHolds
  <1>2. CASE \E how \in {"closed", "reset"} : Hangup(how)
    BY <1>2 DEF Hangup, IInv, TypeOK, Progress, Closing, ConnectAssertHolds
  <1> QED BY <1>1, <1>2

(* run() in each of its states *)
LEMMA RunKeeps ==
  ASSUME IInv, RunConnect \/ RunCallBack \/ RunWait \/ RunError
  PROVE  IInv'
  <1> USE DEF IInv, TypeOK, Progress, Closing, ConnectAssertHolds, env
  <1>1. CASE RunConnect
    BY <1>1 DEF RunConnect
  <1>2. CASE RunCallBack
    BY <1>2 DEF RunCallBack
  <1>3. CASE RunWait
    BY <1>3 DEF RunWait
  <1>4. CASE RunError
    BY <1>4 DEF RunError
  <1> QED BY <1>1, <1>2, <1>3, <1>4

(* uv_run: the callbacks, then the handles that are closing *)
LEMMA UvRunKeeps ==
  ASSUME IInv,
         \/ OnConnect \/ OnConnectFails \/ OnReadAborts \/ OnReadData
         \/ OnReadEnd \/ OtherEvent \/ EndUvRun
  PROVE  IInv'
  <1> USE DEF IInv, TypeOK, Progress, Closing, ConnectAssertHolds, env
  <1>1. CASE OnConnect
    BY <1>1 DEF OnConnect
  <1>2. CASE OnConnectFails
    BY <1>2 DEF OnConnectFails
  <1>3. CASE OnReadAborts
    BY <1>3 DEF OnReadAborts
  <1>4. CASE OnReadData
    BY <1>4 DEF OnReadData
  <1>5. CASE OnReadEnd
    BY <1>5 DEF OnReadEnd
  <1>6. CASE OtherEvent
    BY <1>6 DEF OtherEvent
  <1>7. CASE EndUvRun
    BY <1>7 DEF EndUvRun
  <1> QED BY <1>1, <1>2, <1>3, <1>4, <1>5, <1>6, <1>7

LEMMA NextKeeps ==
  ASSUME IInv, [Next]_vars
  PROVE  IInv'
  <1>1. CASE Next
    BY <1>1, RemoteKeeps, RunKeeps, UvRunKeeps DEF Next, LoopStep
  <1>2. CASE UNCHANGED vars
    BY <1>2 DEF vars, IInv, TypeOK, Progress, Closing, ConnectAssertHolds
  <1> QED BY <1>1, <1>2

THEOREM ClientInvariant == Spec => []IInv
  BY InitIInv, NextKeeps, PTL DEF Spec

-----------------------------------------------------------------------------
(* The task's variables keep their types, whatever the remote end does. *)
THEOREM TypeCorrect == Spec => []TypeOK
  <1>1. IInv => TypeOK
    BY DEF IInv
  <1> QED BY <1>1, ClientInvariant, PTL

(* call_back_ is called at most once, with bytes of a response, for any    *)
(* number of pieces in which the response comes.                           *)
THEOREM CallsBackOnce == Spec => []CallBackOnce
  <1>1. IInv => CallBackOnce
    BY DEF IInv, Progress, CallBackOnce
  <1> QED BY <1>1, ClientInvariant, PTL

(* The memory of the handle goes only after libuv has closed it. *)
THEOREM IsClosedBeforeDestroyed == Spec => []ClosedBeforeDestroyed
  <1>1. IInv => ClosedBeforeDestroyed
    BY DEF IInv, TypeOK, Progress, Closing, ClosedBeforeDestroyed
  <1> QED BY <1>1, ClientInvariant, PTL

(* The assert of on_connect never fails: no remote end can bring the task  *)
(* into another state than S1 while its connection is pending.             *)
THEOREM ConnectIsExpected == Spec => []ConnectAssertHolds
  <1>1. IInv => ConnectAssertHolds
    BY DEF IInv
  <1> QED BY <1>1, ClientInvariant, PTL
=============================================================================
