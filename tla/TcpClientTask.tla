--------------------------- MODULE TcpClientTask ---------------------------
(***************************************************************************)
(* A TcpClientTask in its Loop: connect, send one request, take one        *)
(* response, call back.  The uv_tcp_t is a member of the task.  stage is   *)
(* where the loop's thread is:                                             *)
(*   "run"      about to call TcpClientTask::run                           *)
(*   "uv"       in uv_run, before the callbacks of this poll               *)
(*   "close"    in uv_run, about to run the close callbacks                *)
(*   "gone"     run() reported the error state and the task was destroyed  *)
(*   "aborted"  an assert of task.cpp failed                               *)
(*   "crashed"  the process was killed by the bad free in on_close         *)
(* The remote end is the environment: it accepts or refuses, sends bytes   *)
(* in as many pieces as it likes, and closes or resets.                    *)
(***************************************************************************)
EXTENDS Integers

CONSTANT MaxPieces  \* bound: pieces the remote end sends

ASSUME ClientAssumption == MaxPieces \in Nat

VARIABLES
    state,     \* Task::State::internal_
    stage,     \* where the loop's thread is
    client,    \* the uv_tcp_t: "raw", "init", "closing" or "closed"
    link,      \* "none", "connecting" or "up"; "dead" if connect failed
    remote,    \* the remote end: "open", "closed" or "reset"
    pieces,    \* pieces the remote end sent
    unread,    \* pieces that wait in the client's socket
    response,  \* whether response_ holds bytes of the remote end
    calls,     \* history: calls of call_back_
    failed     \* history: the assert that failed, or "none"

vars == <<state, stage, client, link, remote, pieces, unread, response, calls,
          failed>>

env == <<remote, pieces>>

\* Task::State
S0 == 0
S1 == 1
S2 == 2
S3 == 3
S4 == 4
Error == -2

TypeOK ==
    /\ state \in {S0, S1, S2, S3, S4, Error}
    /\ stage \in {"run", "uv", "close", "gone", "aborted", "crashed"}
    /\ client \in {"raw", "init", "closing", "closed"}
    /\ link \in {"none", "connecting", "up", "dead"}
    /\ remote \in {"open", "closed", "reset"}
    /\ pieces \in 0 .. MaxPieces
    /\ unread \in 0 .. pieces
    /\ response \in BOOLEAN
    /\ calls \in Nat
    /\ failed \in {"none", "on_connect", "on_read"}

Init ==
    /\ state = S0 /\ stage = "run" /\ client = "raw" /\ link = "none"
    /\ remote = "open" /\ pieces = 0 /\ unread = 0 /\ response = FALSE
    /\ calls = 0 /\ failed = "none"

-----------------------------------------------------------------------------
(* The remote end (external)                                               *)

Running == stage \in {"run", "uv", "close"}

Answer ==
    /\ Running /\ link = "up" /\ remote = "open" /\ pieces < MaxPieces
    /\ pieces' = pieces + 1
    /\ unread' = unread + 1
    /\ UNCHANGED <<state, stage, client, link, remote, response, calls, failed>>

Hangup(how) ==
    /\ Running /\ link = "up" /\ remote = "open"
    /\ remote' = how
    /\ UNCHANGED <<state, stage, client, link, pieces, unread, response, calls,
                   failed>>

-----------------------------------------------------------------------------
(* TcpClientTask::run, called once between two polls                       *)

(* run() in S0.  When uv_tcp_connect itself fails the error is printed and *)
(* nothing else: no callback will ever come.                               *)
RunConnect ==
    /\ stage = "run" /\ state = S0
    /\ client' = "init"
    /\ link' \in {"connecting", "dead"}
    /\ state' = S1
    /\ stage' = "uv"
    /\ UNCHANGED <<env, unread, response, calls, failed>>

(* Mutant of RunCallBack: the state is not advanced. *)
MutRunCallBackStays ==
    /\ stage = "run" /\ state = S3
    /\ calls' = calls + 1
    /\ stage' = "uv"
    /\ UNCHANGED <<state, client, link, env, unread, response, failed>>

(* Mutant of RunCallBack: the state is advanced twice. *)
MutRunCallBackTwice ==
    /\ stage = "run" /\ state = S3
    /\ calls' = calls + 1
    /\ state' = S4 + 1
    /\ stage' = "uv"
    /\ UNCHANGED <<client, link, env, unread, response, failed>>

(* run() in S3 *)
RunCallBack ==
    /\ stage = "run" /\ state = S3
    /\ calls' = calls + 1
    /\ state' = S4
    /\ stage' = "uv"
    /\ UNCHANGED <<client, link, env, unread, response, failed>>

(* run() in S1, S2 or S4: nothing to do, the loop keeps the task *)
RunWait ==
    /\ stage = "run" /\ state \in {S1, S2, S4}
    /\ stage' = "uv"
    /\ UNCHANGED <<state, client, link, env, unread, response, calls, failed>>

(* run() in the error state: the loop destroys the task *)
RunError ==
    /\ stage = "run" /\ state = Error
    /\ stage' = "gone"
    /\ UNCHANGED <<state, client, link, env, unread, response, calls, failed>>

-----------------------------------------------------------------------------
(* uv_run and its callbacks                                                *)

(* on_connect, success: read, send the request, S1 -> S2 *)
OnConnect ==
    /\ stage = "uv" /\ link = "connecting"
    /\ link' = "up"
    /\ state' = IF state = S1 THEN S2 ELSE state
    /\ stage' = IF state = S1 THEN "close" ELSE "aborted"
    /\ failed' = IF state = S1 THEN failed ELSE "on_connect"
    /\ UNCHANGED <<client, env, unread, response, calls>>

(* on_connect, failure: the handle is closed, the state stays S1 *)
OnConnectFails ==
    /\ stage = "uv" /\ link = "connecting"
    /\ link' = "dead"
    /\ client' = "closing"
    /\ stage' = "close"
    /\ UNCHANGED <<state, env, unread, response, calls, failed>>

(* on_read with an assert that fails ends the process. *)
OnReadAborts ==
    /\ stage = "uv" /\ link = "up" /\ client = "init"
    /\ unread > 0 \/ remote # "open"
    /\ state # S2 \/ (unread > 0 /\ remote = "reset")
    /\ stage' = "aborted"
    /\ failed' = "on_read"
    /\ UNCHANGED <<state, client, link, env, unread, response, calls>>

(* on_read with bytes, S2 -> S3.  (After a reset libuv reports the end of  *)
(* the stream right behind the bytes, in S3: see OnReadAborts.)            *)
OnReadData ==
    /\ stage = "uv" /\ link = "up" /\ client = "init" /\ state = S2
    /\ unread > 0 /\ remote # "reset"
    /\ unread' = 0
    /\ response' = TRUE
    /\ state' = S3
    /\ stage' = "close"
    /\ UNCHANGED <<client, link, env, calls, failed>>

(* Mutant of OnReadEnd: uv_close is missing. *)
MutOnReadEndNoClose ==
    /\ stage = "uv" /\ link = "up" /\ client = "init" /\ state = S2
    /\ unread = 0 /\ remote # "open"
    /\ state' = Error
    /\ stage' = "close"
    /\ UNCHANGED <<client, link, env, unread, response, calls, failed>>

(* on_read at the end of the stream or with an error *)
OnReadEnd ==
    /\ stage = "uv" /\ link = "up" /\ client = "init" /\ state = S2
    /\ unread = 0 /\ remote # "open"
    /\ state' = Error
    /\ client' = "closing"
    /\ stage' = "close"
    /\ UNCHANGED <<link, env, unread, response, calls, failed>>

(* Nothing for this task in this uv_run: something else ended its sleep.   *)
OtherEvent ==
    /\ stage = "uv"
    /\ ~(link = "up" /\ client = "init" /\ (unread > 0 \/ remote # "open"))
    /\ stage' = "close"
    /\ UNCHANGED <<state, client, link, env, unread, response, calls, failed>>

(* uv__run_closing_handles: on_close frees the address of the member       *)
(* client, which malloc never returned; glibc aborts, or the heap is       *)
(* damaged and the process goes on.                                        *)
EndUvRun ==
    /\ stage = "close"
    /\ \/ client # "closing" /\ stage' = "run" /\ UNCHANGED client
       \/ client = "closing" /\ stage' = "run" /\ client' = "closed"
       \/ client = "closing" /\ stage' = "crashed" /\ client' = "closed"
    /\ UNCHANGED <<state, link, env, unread, response, calls, failed>>

-----------------------------------------------------------------------------
LoopStep ==
    \/ RunConnect \/ RunCallBack \/ RunWait \/ RunError
    \/ OnConnect \/ OnConnectFails \/ OnReadAborts \/ OnReadData \/ OnReadEnd
    \/ OtherEvent \/ EndUvRun

Next == LoopStep \/ Answer \/ \E how \in {"closed", "reset"} : Hangup(how)

Spec == Init /\ [][Next]_vars

-----------------------------------------------------------------------------
(* Properties                                                              *)

(* call_back_ is called at most once, and only with bytes of a response;   *)
(* the state it leaves behind is the one that never calls again.           *)
CallBackOnce ==
    /\ calls <= 1
    /\ calls = 1 => response /\ state = S4

(* The task's memory, client included, is released only after libuv closed *)
(* the handle: the close callback of on_read's uv_close runs in the same   *)
(* uv_run, before the loop sees the error state.                           *)
ClosedBeforeDestroyed == stage = "gone" => client = "closed"

(* on_connect always finds the task in S1. *)
ConnectAssertHolds == failed # "on_connect"

(* The assert of on_read: every read callback finds the task in S2. *)
ReadAssertHolds == failed # "on_read"
=============================================================================
