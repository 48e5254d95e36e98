--------------------------- MODULE TcpServerTask ---------------------------
(***************************************************************************)
(* A TcpServerTask in its Loop: the listening socket, the heap-allocated   *)
(* uv_tcp_t of every accepted connection, the two maps between connection  *)
(* ids and handles, the one-place slots new_connect_ and new_data_ that    *)
(* libuv's callbacks fill and run() empties, and the peers on the network. *)
(*                                                                         *)
(* The loop alternates between one call of run() and one uv_run, which     *)
(* polls once, dispatches every ready descriptor and then runs the close   *)
(* callbacks.  stage says where the loop's thread is:                      *)
(*   "run"       about to call TcpServerTask::run                          *)
(*   "uv"        asleep in uv_run                                          *)
(*   "dispatch"  calling the callbacks of the descriptors in ready         *)
(*   "gone"      run() reported an error and the task was destroyed        *)
(*   "crashed"   the process was killed by a use of freed memory           *)
(* Peers act at any moment.                                                *)
(***************************************************************************)
EXTENDS Integers, Sequences, FiniteSets

CONSTANTS
    Peers,     \* remote clients, one connection each
    Addrs,     \* heap addresses malloc can return for a uv_tcp_t
    None,      \* no peer, no address, an empty optional
    MaxSend,   \* bound: requests a peer sends
    Room,      \* responses a socket buffers before a write must be queued
    Ticking,   \* whether a repeating timer runs in the same loop
    Patient    \* the peers that wait for their answer before they go on

Listener == "listener"

ASSUME ServerAssumption ==
    /\ None \notin Peers \cup Addrs \cup Int
    /\ Listener \notin Addrs  \* the listening handle is a member of the task
    /\ IsFiniteSet(Peers) /\ IsFiniteSet(Addrs)
    /\ Cardinality(Peers) <= Cardinality(Addrs)  \* malloc does not fail
    /\ MaxSend \in Nat /\ Room \in Nat \ {0}
    /\ Ticking \in BOOLEAN /\ Patient \subseteq Peers

Ids == 0 .. Cardinality(Peers) - 1

VARIABLES
    state,       \* Task::State::internal_
    stage,       \* where the loop's thread is
    ready,       \* descriptors the current poll reported, not dispatched yet
    fed,         \* a completed uv_write waits in libuv's pending queue
    cur_id,      \* cur_connction_id_
    id_map,      \* connection_id_map_: address -> id
    handle_map,  \* connection_handle_map_: id -> address
    new_connect, \* new_connect_: an id or None
    new_data,    \* new_data_: [id, from] (from: whose bytes) or None
    mem,         \* mem[a]: "free", "live" or "closing"
    owner,       \* owner[a]: the peer behind the descriptor of the handle at a
    queued,      \* queued[a]: writes waiting for room in a's socket
    backlog,     \* peers connected and not accepted, oldest first
    peer,        \* peer[p]: "idle", "open", "closed" or "reset"
    sent,        \* sent[p]: requests p sent
    read,        \* read[p]: requests of p that on_read delivered
    inflight,    \* inflight[p]: responses in p's socket, not taken yet
    got,         \* history: got[p]: whose requests were answered to p
    answers,     \* history: answers[p]: responses p took
    served,      \* history: served[p]: calls of OnData for p's bytes
    reported     \* history: ids for which OnConnect was called

vars == <<state, stage, ready, fed, cur_id, id_map, handle_map,
          new_connect, new_data, mem, owner, queued, backlog, peer, sent, read,
          inflight, got, answers, served, reported>>

maps == <<cur_id, id_map, handle_map>>
slots == <<new_connect, new_data>>
heap == <<mem, owner, queued>>
hist == <<served, reported>>
network == <<backlog, peer, sent, read, inflight, got, answers>>

\* Task::State
S0 == 0
S1 == 1
Error == -2

TypeOK ==
    /\ state \in {S0, S1, Error}
    /\ stage \in {"run", "uv", "dispatch", "gone", "crashed"}
    /\ ready \subseteq Addrs \cup {Listener}
    /\ fed \in BOOLEAN
    /\ cur_id \in Ids \cup {-1}
    /\ id_map \in [Addrs -> Ids \cup {None}]
    /\ handle_map \in [Ids -> Addrs \cup {None}]
    /\ new_connect \in Ids \cup {None}
    /\ new_data \in [id : Ids, from : Peers] \cup {None}
    /\ mem \in [Addrs -> {"free", "live", "closing"}]
    /\ owner \in [Addrs -> Peers \cup {None}]
    /\ queued \in [Addrs -> Nat]
    /\ backlog \in Seq(Peers)
    /\ peer \in [Peers -> {"idle", "open", "closed", "reset"}]
    /\ sent \in [Peers -> 0 .. MaxSend]
    /\ read \in [Peers -> 0 .. MaxSend]
    /\ inflight \in [Peers -> 0 .. Room]
    /\ got \in [Peers -> SUBSET Peers]
    /\ answers \in [Peers -> Nat]
    /\ served \in [Peers -> Nat]
    /\ reported \subseteq Ids

Init ==
    /\ state = S0 /\ stage = "run" /\ ready = {} /\ fed = FALSE
    /\ cur_id = -1
    /\ id_map = [a \in Addrs |-> None]
    /\ handle_map = [i \in Ids |-> None]
    /\ new_connect = None /\ new_data = None
    /\ mem = [a \in Addrs |-> "free"]
    /\ owner = [a \in Addrs |-> None]
    /\ queued = [a \in Addrs |-> 0]
    /\ backlog = <<>>
    /\ peer = [p \in Peers |-> "idle"]
    /\ sent = [p \in Peers |-> 0]
    /\ read = [p \in Peers |-> 0]
    /\ inflight = [p \in Peers |-> 0]
    /\ got = [p \in Peers |-> {}]
    /\ answers = [p \in Peers |-> 0]
    /\ served = [p \in Peers |-> 0]
    /\ reported = {}

-----------------------------------------------------------------------------
(* The network and the peers (external)                                    *)

Waiting(p) == answers[p] < sent[p]

(* The kernel completes the handshake while the socket listens. *)
Connect(p) ==
    /\ state = S1 /\ peer[p] = "idle"
    /\ peer' = [peer EXCEPT ![p] = "open"]
    /\ backlog' = Append(backlog, p)
    /\ UNCHANGED <<state, stage, ready, fed, maps, slots, heap, sent,
                   read, inflight, got, answers, hist>>

Send(p) ==
    /\ peer[p] = "open" /\ sent[p] < MaxSend
    /\ p \in Patient => ~Waiting(p)
    /\ sent' = [sent EXCEPT ![p] = @ + 1]
    /\ UNCHANGED <<state, stage, ready, fed, maps, slots, heap,
                   backlog, peer, read, inflight, got, answers, hist>>

(* The peer takes one response out of its socket. *)
Receive(p) ==
    /\ peer[p] = "open" /\ inflight[p] > 0
    /\ inflight' = [inflight EXCEPT ![p] = @ - 1]
    /\ answers' = [answers EXCEPT ![p] = @ + 1]
    /\ UNCHANGED <<state, stage, ready, fed, maps, slots, heap,
                   backlog, peer, sent, read, got, hist>>

(* An orderly close, or a reset.  What was sent before can still be read. *)
Close(p, how) ==
    /\ peer[p] = "open" /\ how \in {"closed", "reset"}
    /\ p \in Patient => ~Waiting(p)
    /\ peer' = [peer EXCEPT ![p] = how]
    /\ UNCHANGED <<state, stage, ready, fed, maps, slots, heap,
                   backlog, sent, read, inflight, got, answers, hist>>

-----------------------------------------------------------------------------
(* TcpServerTask::run, called once between two polls                       *)

(* run() in S0: uv_tcp_init, uv_tcp_bind, uv_listen *)
RunListen ==
    /\ stage = "run" /\ state = S0
    /\ state' = S1
    /\ stage' = "uv"
    /\ UNCHANGED <<ready, fed, maps, slots, heap, network, hist>>

(* run() in S0 when uv_tcp_bind or uv_listen fails: the loop destroys the  *)
(* task; uv_tcp_init has linked server_ to the loop and nothing closes it. *)
RunListenFails ==
    /\ stage = "run" /\ state = S0
    /\ state' = Error
    /\ stage' = "gone"
    /\ UNCHANGED <<ready, fed, maps, slots, heap, network, hist>>

(* Mutants of RunConnect: OnConnect is not called; new_connect_ is not     *)
(* reset.                                                                  *)
MutRunConnectSilent ==
    /\ stage = "run" /\ state = S1 /\ new_connect # None
    /\ new_connect' = None
    /\ stage' = "uv"
    /\ UNCHANGED <<state, ready, fed, maps, new_data, heap, network,
                   hist>>

MutRunConnectNoReset ==
    /\ stage = "run" /\ state = S1 /\ new_connect # None
    /\ reported' = reported \cup {new_connect}
    /\ stage' = "uv"
    /\ UNCHANGED <<state, ready, fed, maps, slots, heap, network,
                   served>>

(* run() with a new connection: OnConnect, and nothing else in this call *)
RunConnect ==
    /\ stage = "run" /\ state = S1 /\ new_connect # None
    /\ reported' = reported \cup {new_connect}
    /\ new_connect' = None
    /\ stage' = "uv"
    /\ UNCHANGED <<state, ready, fed, maps, new_data, heap, network,
                   served>>

(* uv_write at address a, of a response to from.  A freed handle's         *)
(* descriptor is -1 and uv_write refuses it, if its memory is still        *)
(* intact; otherwise anything happens.  With room in the socket and        *)
(* nothing queued the bytes leave at once and the completed request is     *)
(* fed to the next uv_run; otherwise the write is queued, and its buffer,  *)
(* a string local to OnData and SendData, is destroyed on return.          *)
SendData(a, from) ==
    LET q == owner[a]
    IN  \/ /\ mem[a] = "free"
           /\ stage' \in {"uv", "crashed"}
           /\ UNCHANGED <<fed, queued, inflight, got>>
        \/ /\ mem[a] = "live" /\ queued[a] = 0 /\ inflight[q] < Room
           /\ inflight' = [inflight EXCEPT ![q] = @ + 1]
           /\ got' = [got EXCEPT ![q] = @ \cup {from}]
           /\ fed' = TRUE
           /\ stage' = "uv"
           /\ UNCHANGED queued
        \/ /\ mem[a] = "live" /\ (queued[a] > 0 \/ inflight[q] = Room)
           /\ queued' = [queued EXCEPT ![a] = @ + 1]
           /\ got' = [got EXCEPT ![q] = @ \cup {from}]
           /\ stage' = "uv"
           /\ UNCHANGED <<fed, inflight>>

(* Mutants of RunData: new_data_ is not reset; the answer goes to the      *)
(* newest connection.                                                      *)
MutRunDataNoReset ==
    /\ stage = "run" /\ state = S1 /\ new_connect = None /\ new_data # None
    /\ SendData(handle_map[new_data.id], new_data.from)
    /\ served' = [served EXCEPT ![new_data.from] = @ + 1]
    /\ UNCHANGED <<state, ready, maps, slots, mem, owner, backlog,
                   peer, sent, read, answers, reported>>

MutRunDataNewest ==
    /\ stage = "run" /\ state = S1 /\ new_connect = None /\ new_data # None
    /\ SendData(handle_map[cur_id], new_data.from)
    /\ served' = [served EXCEPT ![new_data.from] = @ + 1]
    /\ new_data' = None
    /\ UNCHANGED <<state, ready, maps, new_connect, mem, owner,
                   backlog, peer, sent, read, answers, reported>>

(* run() with new data and no new connection: OnData answers it *)
RunData ==
    /\ stage = "run" /\ state = S1 /\ new_connect = None /\ new_data # None
    /\ SendData(handle_map[new_data.id], new_data.from)
    /\ served' = [served EXCEPT ![new_data.from] = @ + 1]
    /\ new_data' = None
    /\ UNCHANGED <<state, ready, maps, new_connect, mem, owner,
                   backlog, peer, sent, read, answers, reported>>

RunIdle ==
    /\ stage = "run" /\ state = S1 /\ new_connect = None /\ new_data = None
    /\ stage' = "uv"
    /\ UNCHANGED <<state, ready, fed, maps, slots, heap, network,
                   hist>>

-----------------------------------------------------------------------------
(* uv_run                                                                  *)

HasInput(a) ==
    /\ mem[a] = "live"
    /\ \/ read[owner[a]] < sent[owner[a]]
       \/ peer[owner[a]] \in {"closed", "reset"}

Writable(a) == mem[a] = "live" /\ queued[a] > 0 /\ inflight[owner[a]] < Room

Readable ==
    {a \in Addrs : HasInput(a) \/ Writable(a)}
      \cup {Listener : p \in {backlog[i] : i \in DOMAIN backlog}}

(* The poll returns every ready descriptor.  It sleeps until there is one, *)
(* unless a timer ends the sleep or a completed write forbids it.          *)
Poll ==
    /\ stage = "uv"
    /\ Readable # {} \/ fed \/ Ticking
    /\ ready' = Readable
    /\ fed' = FALSE
    /\ stage' = "dispatch"
    /\ UNCHANGED <<state, maps, slots, heap, network, hist>>

(* Mutants of AcceptConnection: the id is taken before it is incremented;  *)
(* a poll accepts the whole backlog; an old id of the address is kept.     *)
MutAcceptOldId(a) ==
    /\ stage = "dispatch" /\ Listener \in ready /\ mem[a] = "free"
    /\ ready' = ready \ {Listener}
    /\ mem' = [mem EXCEPT ![a] = "live"]
    /\ owner' = [owner EXCEPT ![a] = Head(backlog)]
    /\ queued' = [queued EXCEPT ![a] = 0]
    /\ backlog' = Tail(backlog)
    /\ cur_id' = cur_id + 1
    /\ id_map' = [id_map EXCEPT ![a] = cur_id]
    /\ handle_map' = [handle_map EXCEPT ![cur_id] = a]
    /\ new_connect' = cur_id
    /\ UNCHANGED <<state, stage, fed, new_data, peer, sent, read,
                   inflight, got, answers, hist>>

MutAcceptAll(a) ==
    /\ stage = "dispatch" /\ Listener \in ready /\ mem[a] = "free"
    /\ ready' = IF Len(backlog) > 1 THEN ready ELSE ready \ {Listener}
    /\ mem' = [mem EXCEPT ![a] = "live"]
    /\ owner' = [owner EXCEPT ![a] = Head(backlog)]
    /\ queued' = [queued EXCEPT ![a] = 0]
    /\ backlog' = Tail(backlog)
    /\ cur_id' = cur_id + 1
    /\ id_map' = [id_map EXCEPT ![a] = cur_id']
    /\ handle_map' = [handle_map EXCEPT ![cur_id'] = a]
    /\ new_connect' = cur_id'
    /\ UNCHANGED <<state, stage, fed, new_data, peer, sent, read,
                   inflight, got, answers, hist>>

MutAcceptInsert(a) ==
    /\ stage = "dispatch" /\ Listener \in ready /\ mem[a] = "free"
    /\ ready' = ready \ {Listener}
    /\ mem' = [mem EXCEPT ![a] = "live"]
    /\ owner' = [owner EXCEPT ![a] = Head(backlog)]
    /\ queued' = [queued EXCEPT ![a] = 0]
    /\ backlog' = Tail(backlog)
    /\ cur_id' = cur_id + 1
    /\ id_map' = IF id_map[a] = None THEN [id_map EXCEPT ![a] = cur_id']
                 ELSE id_map
    /\ handle_map' = [handle_map EXCEPT ![cur_id'] = a]
    /\ new_connect' = cur_id'
    /\ UNCHANGED <<state, stage, fed, new_data, peer, sent, read,
                   inflight, got, answers, hist>>

(* uv__server_io accepts one connection a poll; on_new_connection mallocs  *)
(* a handle at a, gives it the next id and fills new_connect_.             *)
AcceptConnection(a) ==
    /\ stage = "dispatch" /\ Listener \in ready /\ mem[a] = "free"
    /\ ready' = ready \ {Listener}
    /\ mem' = [mem EXCEPT ![a] = "live"]
    /\ owner' = [owner EXCEPT ![a] = Head(backlog)]
    /\ queued' = [queued EXCEPT ![a] = 0]
    /\ backlog' = Tail(backlog)
    /\ cur_id' = cur_id + 1
    /\ id_map' = [id_map EXCEPT ![a] = cur_id']
    /\ handle_map' = [handle_map EXCEPT ![cur_id'] = a]
    /\ new_connect' = cur_id'
    /\ UNCHANGED <<state, stage, fed, new_data, peer, sent, read,
                   inflight, got, answers, hist>>

(* on_new_connection when uv_accept fails: libuv closed the descriptor,    *)
(* and the fresh handle is closed and freed.                               *)
AcceptFails(a) ==
    /\ stage = "dispatch" /\ Listener \in ready /\ mem[a] = "free"
    /\ ready' = ready \ {Listener}
    /\ mem' = [mem EXCEPT ![a] = "closing"]
    /\ peer' = [peer EXCEPT ![Head(backlog)] = "reset"]
    /\ backlog' = Tail(backlog)
    /\ UNCHANGED <<state, stage, fed, maps, slots, owner, queued, sent,
                   read, inflight, got, answers, hist>>

(* The write queue takes what fits into the socket.  (got was recorded by  *)
(* SendData; the bytes are those of a string that is destroyed by now.)    *)
Flush(a, open) ==
    LET q == owner[a]
    IN  IF open /\ queued[a] > 0 /\ inflight[q] < Room
        THEN /\ queued' = [queued EXCEPT ![a] = @ - 1]
             /\ inflight' = [inflight EXCEPT ![q] = @ + 1]
        ELSE UNCHANGED <<queued, inflight>>

(* Mutant of OnRead: the handle is closed after every read. *)
MutOnReadCloses(a) ==
    LET p == owner[a]
    IN  /\ stage = "dispatch" /\ a \in ready
        /\ ready' = ready \ {a}
        /\ read' = [read EXCEPT ![p] = sent[p]]
        /\ new_data' = IF read[p] < sent[p]
                       THEN [id |-> id_map[a], from |-> p]
                       ELSE new_data
        /\ mem' = [mem EXCEPT ![a] = "closing"]
        /\ UNCHANGED <<state, stage, fed, maps, new_connect, owner, queued,
                       backlog, peer, sent, inflight, got, answers, hist>>

(* uv__stream_io on a connection.  on_read takes all the bytes that wait   *)
(* and overwrites new_data_; at the end of the stream it closes the        *)
(* handle and leaves both maps alone.  A reset is reported in the same     *)
(* dispatch as the last bytes (POLLHUP after a partial read), an orderly   *)
(* close in a later one.                                                   *)
OnRead(a) ==
    LET p     == owner[a]
        bytes == read[p] < sent[p]
        ends  == peer[p] = "reset" \/ (peer[p] = "closed" /\ ~bytes)
    IN  /\ stage = "dispatch" /\ a \in ready
        /\ ready' = ready \ {a}
        /\ read' = [read EXCEPT ![p] = sent[p]]
        /\ new_data' = IF bytes
                       THEN [id |-> id_map[a], from |-> p]
                       ELSE new_data
        /\ mem' = [mem EXCEPT ![a] = IF ends THEN "closing" ELSE @]
        /\ Flush(a, ~ends)
        /\ UNCHANGED <<state, stage, fed, maps, new_connect, owner,
                       backlog, peer, sent, got, answers, hist>>

(* uv__run_closing_handles: the close callback is free. *)
EndUvRun ==
    /\ stage = "dispatch" /\ ready = {}
    /\ mem' = [a \in Addrs |-> IF mem[a] = "closing" THEN "free" ELSE mem[a]]
    /\ owner' = [a \in Addrs |-> IF mem[a] = "closing" THEN None ELSE owner[a]]
    /\ queued' = [a \in Addrs |-> IF mem[a] = "closing" THEN 0 ELSE queued[a]]
    /\ stage' = "run"
    /\ UNCHANGED <<state, ready, fed, maps, slots, network, hist>>

-----------------------------------------------------------------------------
LoopStep ==
    \/ RunListen \/ RunListenFails \/ RunConnect \/ RunData \/ RunIdle
    \/ Poll \/ EndUvRun
    \/ \E a \in Addrs : AcceptConnection(a) \/ AcceptFails(a) \/ OnRead(a)

Next ==
    \/ LoopStep
    \/ \E p \in Peers :
         Connect(p) \/ Send(p) \/ Receive(p)
           \/ \E how \in {"closed", "reset"} : Close(p, how)

Spec == Init /\ [][Next]_vars

(* The loop's thread is scheduled; a ticking timer wakes uv_run. *)
FairSpec == Spec /\ WF_vars(LoopStep)

-----------------------------------------------------------------------------
(* Properties                                                              *)

(* OnConnect is called for every accepted connection: the one-place slot   *)
(* new_connect_ is never overwritten before run() empties it, because one  *)
(* poll accepts one connection and run() looks at new_connect_ first.      *)
NoConnectLost ==
    \A i \in 0 .. cur_id : i \in reported \/ new_connect = i

(* The id of an open connection is the newest one its address was given,   *)
(* it leads back to that address, and waiting data of the connection       *)
(* carries it, although closed connections are never erased from the maps  *)
(* and malloc reuses their addresses.                                      *)
IdsFollowConnections ==
    \A a \in {b \in Addrs : mem[b] = "live"} :
        /\ id_map[a] # None /\ handle_map[id_map[a]] = a
        /\ \A i \in Ids : handle_map[i] = a => i <= id_map[a]
        /\ new_data # None /\ new_data.from = owner[a]
             => new_data.id = id_map[a]

(* No bytes are answered twice: the calls of OnData for a peer, with the   *)
(* one that is waiting, never exceed the requests read from it.            *)
AtMostOneAnswer ==
    \A p \in Peers :
        served[p] + (IF new_data # None /\ new_data.from = p THEN 1 ELSE 0)
          <= read[p]

(* The response to a peer that waits for it is written to no other peer's  *)
(* connection, although other peers hang up while their data waits in      *)
(* new_data_, so that addresses are freed, reused and looked up through    *)
(* stale ids.  A peer that was itself given the answer to another one's    *)
(* request is exempt: it takes it for its own, hangs up, and its data is   *)
(* then as stale as theirs.                                                *)
RoutedHome ==
    \A p \in Patient, q \in Peers :
        p \in got[q] /\ got[p] \subseteq {p} => q = p

(* When every peer waits for its answers nobody gets another one's. *)
EachItsOwn ==
    Patient = Peers => \A p \in Peers : got[p] \subseteq {p}

(* The bytes of p wait in new_data_, and OnData was called for p k times. *)
Waits(p, k) == new_data # None /\ new_data.from = p /\ served[p] = k

(* OnData is called for waiting bytes, or for later ones of the same peer, *)
(* unless another peer's overwrite them, although run() reports a          *)
(* connection first and then goes to sleep: the repeating timer ends the   *)
(* next uv_run.  It takes that connections stop coming: run() would always *)
(* prefer them.  (Bytes that are overwritten are never answered, and       *)
(* nothing in the code promises that they are.)                            *)
DataServed ==
    <>[](backlog = <<>>) =>
        \A p \in Peers, k \in 0 .. MaxSend :
            Waits(p, k) ~> \/ served[p] > k
                           \/ new_data # None /\ new_data.from # p
                           \/ stage = "crashed"

(* libuv's rule for uv_write: the memory of the buffers stays valid until  *)
(* the write is done.  SendData's string is gone when RunData is over, so  *)
(* no write may be left in a queue.                                        *)
BuffersOutliveWrites ==
    \A a \in Addrs : mem[a] = "live" => queued[a] = 0
=============================================================================
