----------------------------- MODULE MygoServer -----------------------------
(***************************************************************************)
(* The program Server::Run starts: one Loop with a RunOnce task that posts *)
(* a repeating timer, a TcpServerTask, and, once the timer has ticked for  *)
(* the first time, a TcpClientTask that talks to that server.  It composes *)
(* TcpServerTask (whose only peer is the client) and TcpClientTask (whose  *)
(* remote end is the server): what one end does to the connection and what *)
(* the other end sees of it are one step.                                  *)
(*                                                                         *)
(* A pass of Loop::run calls the tasks in the order of the channel, which  *)
(* EventLoop shows to be the order of the posts: server, timer, client.    *)
(* turn is the task whose run() comes next, or the phase of uv_run.        *)
(***************************************************************************)
EXTENDS Integers, Sequences, FiniteSets

CONSTANTS Client, Addrs, None

VARIABLES
    s_state, s_stage, ready, fed, cur_id, id_map, handle_map,
    new_connect, new_data, mem, owner, queued, backlog, peer, sent, read,
    inflight, got, answers, served, reported,
    c_state, c_stage, client, link, remote, pieces, unread, response, calls,
    failed,
    turn,     \* "boot", "server", "timer", "client", "uv" or "dispatch";
              \* "killed" when the use of freed memory ended the process
    armed,    \* the repeating timer was started
    timeout,  \* its timeout_
    count,    \* the global count; 2 stands for every larger value
    posted,   \* the TcpClientTask was posted
    woken     \* this uv_run has an event, or must not sleep

sv == <<s_state, s_stage, ready, fed, cur_id, id_map, handle_map,
        new_connect, new_data, mem, owner, queued, backlog, peer, sent, read,
        inflight, got, answers, served, reported>>
cv == <<c_state, c_stage, client, link, remote, pieces, unread, response,
        calls, failed>>
timer == <<armed, timeout, count, posted>>
vars == <<sv, cv, timer, turn, woken>>

Srv == INSTANCE TcpServerTask
         WITH state <- s_state, stage <- s_stage, Peers <- {Client},
              MaxSend <- 1, Room <- 1, Ticking <- TRUE, Patient <- {Client}
Cli == INSTANCE TcpClientTask
         WITH state <- c_state, stage <- c_stage, MaxPieces <- 2

ASSUME MygoAssumption ==
    /\ None \notin {Client} \cup Addrs \cup Int
    /\ Srv!Listener \notin Addrs  \* the listening handle is a member of the task

Init ==
    /\ Srv!Init /\ Cli!Init
    /\ turn = "boot" /\ count = 0
    /\ armed = FALSE /\ timeout = FALSE /\ posted = FALSE /\ woken = FALSE

(* The process has not been killed. *)
Alive ==
    /\ s_stage # "crashed"
    /\ c_stage \notin {"crashed", "aborted"}
    /\ turn # "killed"

-----------------------------------------------------------------------------
(* A pass of the loop                                                      *)

(* The RunOnce task of Server::Run posts the timer behind the server task. *)
Boot ==
    /\ turn = "boot"
    /\ turn' = "server"
    /\ UNCHANGED <<sv, cv, timer, woken>>

(* A response that leaves the server is a piece in the client's socket. *)
ServerTurn ==
    /\ Alive /\ turn = "server"
    /\ turn' = "timer"
    /\ \/ /\ Srv!RunListen \/ Srv!RunListenFails \/ Srv!RunConnect
               \/ Srv!RunIdle
          /\ UNCHANGED cv
       \/ /\ Srv!RunData
          /\ IF inflight' = inflight THEN UNCHANGED cv ELSE Cli!Answer
       \/ s_stage = "gone" /\ UNCHANGED <<sv, cv>>
    /\ UNCHANGED <<timer, woken>>

(* Mutant of Tick: count is compared with 0, after it was incremented. *)
MutTick ==
    /\ timeout' = FALSE
    /\ count' = IF count < 2 THEN count + 1 ELSE 2
    /\ posted' = (posted \/ count' = 0)

(* The timer's callback in Server::Run: the first tick posts the client. *)
Tick ==
    /\ timeout' = FALSE
    /\ count' = IF count < 2 THEN count + 1 ELSE 2
    /\ posted' = (posted \/ count' = 1)

(* TimerTask::run.  The handle of a server that could not listen is still  *)
(* linked to the loop when its task is destroyed, and uv_timer_init links  *)
(* the timer behind it: the memory is still intact, or the process ends.   *)
TimerTurn ==
    /\ Alive /\ turn = "timer"
    /\ \/ ~armed /\ armed' = TRUE /\ UNCHANGED <<timeout, count, posted>>
       \/ armed /\ timeout /\ Tick /\ UNCHANGED armed
       \/ armed /\ ~timeout /\ UNCHANGED timer
    /\ \/ turn' = IF posted' THEN "client" ELSE "uv"
       \/ ~armed /\ s_stage = "gone" /\ turn' = "killed"
    /\ UNCHANGED <<sv, cv, woken>>

(* A connection attempt reaches the server if that one listens. *)
ClientTurn ==
    /\ Alive /\ turn = "client"
    /\ turn' = "uv"
    /\ \/ /\ Cli!RunConnect
          /\ IF link' = "connecting" /\ s_state = Srv!S1
             THEN Srv!Connect(Client) ELSE UNCHANGED sv
       \/ (Cli!RunCallBack \/ Cli!RunWait \/ Cli!RunError) /\ UNCHANGED sv
       \/ c_stage = "gone" /\ UNCHANGED <<sv, cv>>
    /\ UNCHANGED <<timer, woken>>

-----------------------------------------------------------------------------
(* uv_run                                                                  *)

ServerReady == s_stage # "gone" /\ (Srv!Readable # {} \/ fed)

ClientReady ==
    /\ posted /\ client = "init"
    /\ link = "connecting" \/ (link = "up" /\ (unread > 0 \/ remote # "open"))

(* The end of a connection that was cut before on_connect is there by the  *)
(* next poll.                                                              *)
Poll ==
    /\ Alive /\ turn = "uv"
    /\ turn' = "dispatch"
    /\ IF s_stage = "gone" THEN UNCHANGED sv ELSE Srv!Poll
    /\ IF peer[Client] = "reset" /\ link = "up" /\ remote = "open"
       THEN Cli!Hangup("reset") ELSE UNCHANGED cv
    /\ UNCHANGED timer
    /\ woken' = (ServerReady \/ ClientReady')

(* When uv_accept fails the connection is cut under the client. *)
DispatchServer ==
    /\ Alive /\ turn = "dispatch"
    /\ \E a \in Addrs :
         \/ (Srv!AcceptConnection(a) \/ Srv!OnRead(a)) /\ UNCHANGED cv
         \/ /\ Srv!AcceptFails(a)
            /\ IF link = "up" THEN Cli!Hangup("reset") ELSE UNCHANGED cv
    /\ UNCHANGED <<timer, turn, woken>>

(* on_connect sends the request; on_read takes the response.  The kernel   *)
(* makes the connection before the server accepts it, so that on_connect   *)
(* may get status 0 of one that is already cut.                            *)
DispatchClient ==
    /\ Alive /\ turn = "dispatch" /\ posted
    /\ \/ peer[Client] = "open" /\ Cli!OnConnect /\ Srv!Send(Client)
       \/ peer[Client] = "reset" /\ Cli!OnConnect /\ UNCHANGED sv
       \/ peer[Client] # "open" /\ Cli!OnConnectFails /\ UNCHANGED sv
       \/ Cli!OnReadData /\ Srv!Receive(Client)
       \/ (Cli!OnReadEnd \/ Cli!OnReadAborts) /\ UNCHANGED sv
       \/ ~ClientReady /\ Cli!OtherEvent /\ UNCHANGED sv
    /\ UNCHANGED <<timer, turn, woken>>

(* The close callbacks, then the timers.  A uv_run without any event ends  *)
(* because the timer is due.                                               *)
EndUvRun ==
    /\ Alive /\ turn = "dispatch"
    /\ turn' = "server"
    /\ IF s_stage = "gone" THEN UNCHANGED sv ELSE Srv!EndUvRun
    /\ IF ~posted \/ c_stage = "gone" THEN UNCHANGED cv ELSE Cli!EndUvRun
    /\ timeout' \in IF woken THEN {timeout, TRUE} ELSE {TRUE}
    /\ UNCHANGED <<armed, count, posted, woken>>

-----------------------------------------------------------------------------
Next ==
    \/ Boot \/ ServerTurn \/ TimerTurn \/ ClientTurn
    \/ Poll \/ DispatchServer \/ DispatchClient \/ EndUvRun

Spec == Init /\ [][Next]_vars

(* One thread does everything, and it is scheduled. *)
FairSpec == Spec /\ WF_vars(Next)

-----------------------------------------------------------------------------
(* Properties                                                              *)

(* Listening, connecting or accepting failed. *)
Broken ==
    \/ s_stage = "gone"
    \/ link = "dead"
    \/ peer[Client] = "reset"

(* Unless the network fails them, the client that the first tick posts is  *)
(* accepted, its "hello world" is read and answered, and its callback gets *)
(* the response.                                                           *)
ClientAnswered == <>(calls = 1 \/ Broken)

(* The response the callback gets is the one to its own request, sent once *)
(* and after OnConnect reported the connection.                            *)
AnswerIsOwn ==
    calls = 1 => /\ reported = {0}
                 /\ served[Client] = 1
                 /\ got[Client] = {Client}

(* What can end the process does so only after listening, connecting or    *)
(* accepting failed (on_close's free of a member, the timer linked behind  *)
(* a destroyed handle); and even then the asserts of on_connect and        *)
(* on_read, which a remote end that sends in pieces or hangs up can break, *)
(* hold for the server this program runs, which leaves no write in a queue *)
(* behind its buffer.  Nobody but the program's own client connects here.  *)
ProcessSurvives ==
    /\ Alive \/ Broken
    /\ Cli!ConnectAssertHolds /\ Cli!ReadAssertHolds
    /\ Srv!BuffersOutliveWrites
=============================================================================
