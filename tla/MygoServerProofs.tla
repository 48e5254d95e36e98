------------------------- MODULE MygoServerProofs -------------------------
(***************************************************************************)
(* Proofs about MygoServer, the program that Server::Run starts.           *)
(*                                                                         *)
(* The asserts of TcpClientTask hold, and its callback gets its own        *)
(* answer, because of what the two ends know of each other: the request    *)
(* is sent once (Conversation), its connection is accepted once and then   *)
(* kept (Accepted), and the client's state tells how far the answer has    *)
(* come (Ends).  IInv is the conjunction; every action keeps every part.   *)
(***************************************************************************)
EXTENDS MygoServer, FiniteSetTheorems, TLAPS

(* The program's values, sharper than the types of its two parts: the      *)
(* server has not crashed and no assert has failed.                        *)
Values ==
    /\ s_state \in {0, 1, -2}
    /\ s_stage \in {"run", "uv", "dispatch", "gone"}
    /\ ready \subseteq Addrs \cup {Srv!Listener}
    /\ cur_id \in {-1, 0}
    /\ id_map \in [Addrs -> {0, None}]
    /\ handle_map \in [{0} -> Addrs \cup {None}]
    /\ new_connect \in {0, None}
    /\ new_data \in {[id |-> 0, from |-> Client], None}
    /\ mem \in [Addrs -> {"free", "live", "closing"}]
    /\ owner \in [Addrs -> {Client, None}]
    /\ queued = [a \in Addrs |-> 0]
    /\ backlog \in {<<>>, <<Client>>}
    /\ peer \in [{Client} -> {"idle", "open", "reset"}]
    /\ sent \in [{Client} -> {0, 1}]
    /\ read \in [{Client} -> {0, 1}]
    /\ inflight \in [{Client} -> {0, 1}]
    /\ got \in [{Client} -> {{}, {Client}}]
    /\ answers \in [{Client} -> {0, 1}]
    /\ served \in [{Client} -> {0, 1}]
    /\ reported \in {{}, {0}}
    /\ c_state \in {0, 1, 2, 3, 4, -2}
    /\ c_stage \in {"run", "uv", "close", "gone", "crashed"}
    /\ client \in {"raw", "init", "closing", "closed"}
    /\ link \in {"none", "connecting", "up", "dead"}
    /\ remote \in {"open", "reset"}
    /\ calls \in {0, 1}
    /\ failed = "none"

(* Before the client is accepted the server holds nothing of it. *)
NotYet ==
    cur_id = -1 =>
        /\ new_connect = None /\ new_data = None /\ reported = {}
        /\ \A a \in Addrs : mem[a] # "live"
        /\ read[Client] = 0

(* Once accepted, the client's connection is the only live handle, it has  *)
(* id 0, and neither end gives it up; OnConnect is called, or about to be. *)
Accepted ==
    cur_id = 0 =>
        /\ peer[Client] = "open" /\ backlog = <<>>
        /\ handle_map[0] \in Addrs
        /\ mem[handle_map[0]] = "live" /\ owner[handle_map[0]] = Client
        /\ id_map[handle_map[0]] = 0
        /\ \A a \in Addrs : mem[a] = "live" => a = handle_map[0]
        /\ new_connect = 0 \/ reported = {0}

(* What a poll reported is still there when it is dispatched. *)
Reported ==
    /\ Srv!Listener \in ready => backlog = <<Client>>
    /\ \A a \in Addrs : a \in ready => mem[a] = "live"

(* A connection that waits to be accepted is open. *)
Pending == backlog = <<Client>> => peer[Client] = "open" /\ cur_id = -1

(* The request is sent when the connection is up; it is read at most once, *)
(* then waits in new_data_, then is served; the answer is on its way or    *)
(* was taken.                                                              *)
Conversation ==
    /\ sent[Client] = 1 => link = "up"
    /\ read[Client] <= sent[Client]
    /\ served[Client] + (IF new_data = None THEN 0 ELSE 1) <= read[Client]
    /\ served[Client] = inflight[Client] + answers[Client]
    /\ served[Client] = 1 => got[Client] = {Client} /\ reported = {0}
    /\ pieces = served[Client] /\ unread = inflight[Client]

(* What the client's state says of the connection and of the answer. *)
Ends ==
    /\ c_state = 0 <=> link = "none"
    /\ c_state = 1 <=> link \in {"connecting", "dead"}
    /\ link = "none" => peer[Client] = "idle"
    /\ link = "up" => peer[Client] # "idle"
    /\ remote = "reset" => link = "up" /\ peer[Client] = "reset"
    /\ answers[Client] = 1 <=> c_state \in {3, 4}
    /\ calls = 1 <=> c_state = 4
    /\ c_state = -2 => client # "init"
    /\ client \in {"closing", "closed"} => link = "dead" \/ remote = "reset"
    /\ c_stage = "crashed" => client = "closed"

(* Only a server that could not listen leaves a freed handle behind. *)
Killed == turn = "killed" => s_stage = "gone"

(* The two ends; Killed is kept next to it. *)
IInv ==
    /\ Values /\ NotYet /\ Accepted /\ Reported /\ Pending
    /\ Conversation /\ Ends


-----------------------------------------------------------------------------
(* Lemmas about the operators                                              *)

(* The server of this program has one id to give. *)
LEMMA OneId == Srv!Ids = {0}
  <1>1. Cardinality({Client}) = 1
    BY FS_Singleton
  <1>2. 0 .. 0 = {0}
    OBVIOUS
  <1>3. Srv!Cardinality({Client}) = 1
    BY <1>1 DEF Srv!Cardinality, Cardinality
  <1>4. QED
    BY <1>2, <1>3 DEF Srv!Ids

(* The backlog of a server with one client. *)
LEMMA OneInLine ==
    /\ Append(<<>>, Client) = <<Client>>
    /\ Head(<<Client>>) = Client /\ Tail(<<Client>>) = <<>>
    /\ <<>> # <<Client>>
    /\ DOMAIN <<>> = {} 
  OBVIOUS

(* What a poll reports. *)
LEMMA WhatIsReadable ==
    ASSUME backlog \in {<<>>, <<Client>>}
    PROVE  /\ Srv!Readable \subseteq Addrs \cup {Srv!Listener}
           /\ Srv!Listener \in Srv!Readable => backlog = <<Client>>
           /\ \A a \in Addrs : a \in Srv!Readable => mem[a] = "live"
  BY MygoAssumption, OneInLine
     DEF Srv!Readable, Srv!HasInput, Srv!Writable

-----------------------------------------------------------------------------
(* The first state satisfies the invariant.                                *)

LEMMA InitHolds == Init => IInv
  BY OneId, OneInLine, MygoAssumption
     DEF Init, Srv!Init, Cli!Init, Srv!S0, Cli!S0, IInv, Values, NotYet,
         Accepted, Reported, Pending, Conversation, Ends

-----------------------------------------------------------------------------
(* Every step keeps it.                                                    *)

(* The invariant is about the two ends, not about the loop around them. *)
LEMMA StutterKeeps ==
    ASSUME IInv, UNCHANGED <<sv, cv>>
    PROVE  IInv'
  BY DEF IInv, Values, NotYet, Accepted, Reported, Pending, Conversation,
         Ends, sv, cv, Srv!Listener

(* The server's run(). *)
LEMMA ServerTurnKeeps ==
    ASSUME IInv, ServerTurn
    PROVE  IInv'
  <1>1. CASE UNCHANGED <<sv, cv>>
    BY <1>1, StutterKeeps
  <1>2. CASE (Srv!RunListen \/ Srv!RunListenFails \/ Srv!RunIdle)
               /\ UNCHANGED cv
    <2>1. /\ s_state' \in {0, 1, -2} /\ s_stage' \in {"run", "uv", "gone"}
          /\ UNCHANGED <<ready, fed, cur_id, id_map, handle_map, new_connect,
                         new_data, mem, owner, queued, backlog, peer, sent,
                         read, inflight, got, answers, served, reported, cv>>
      BY <1>2 DEF IInv, Values, Srv!RunListen, Srv!RunListenFails,
         Srv!RunIdle, Srv!maps, Srv!slots, Srv!heap, Srv!network, Srv!hist,
         Srv!S0, Srv!S1, Srv!Error
    <2>2. QED
      BY <2>1 DEF Srv!Listener, IInv, Values, NotYet, Accepted, Reported,
         Pending, Conversation, Ends, cv
  <1>3. CASE Srv!RunConnect /\ UNCHANGED cv
    <2>1. new_connect = 0 /\ cur_id = 0
      BY <1>3 DEF Srv!RunConnect, IInv, Values, NotYet
    <2>2. reported' = {0}
      BY <2>1, <1>3 DEF Srv!RunConnect, IInv, Values
    <2>3. QED
      BY <2>1, <2>2, <1>3 DEF IInv, Values, NotYet, Accepted, Reported,
         Pending, Conversation, Ends, cv, Srv!RunConnect, Srv!maps,
         Srv!heap, Srv!network
  <1>4. CASE Srv!RunData
               /\ IF inflight' = inflight THEN UNCHANGED cv ELSE Cli!Answer
    <2>1. /\ new_data = [id |-> 0, from |-> Client] /\ new_connect = None
          /\ cur_id = 0 /\ reported = {0}
      BY <1>4, MygoAssumption DEF Srv!RunData, IInv, Values, NotYet, Accepted
    <2>2. /\ read[Client] = 1 /\ served[Client] = 0 /\ inflight[Client] = 0
          /\ answers[Client] = 0
      <3>1. /\ read[Client] \in {0, 1} /\ sent[Client] \in {0, 1}
            /\ served[Client] \in {0, 1} /\ inflight[Client] \in {0, 1}
            /\ answers[Client] \in {0, 1}
        BY DEF IInv, Values
      <3>2. new_data # None
        BY <1>4 DEF Srv!RunData
      <3>3. /\ served[Client] + 1 <= read[Client]
            /\ served[Client] = inflight[Client] + answers[Client]
        BY <3>2 DEF IInv, Conversation
      <3> QED BY <3>1, <3>3
    <2>3. /\ handle_map[new_data.id] \in Addrs
          /\ mem[handle_map[new_data.id]] = "live"
          /\ owner[handle_map[new_data.id]] = Client
          /\ queued[handle_map[new_data.id]] = 0
          /\ new_data.from = Client
      BY <2>1 DEF IInv, Values, Accepted
    <2>4. /\ inflight' = [inflight EXCEPT ![Client] = @ + 1]
          /\ got' = [got EXCEPT ![Client] = @ \cup {Client}]
          /\ s_stage' = "uv" /\ UNCHANGED queued
      BY <2>2, <2>3, <1>4 DEF Srv!RunData, Srv!SendData
    <2>5. /\ inflight'[Client] = 1 /\ inflight' # inflight
          /\ inflight' \in [{Client} -> {0, 1}]
          /\ got'[Client] = {Client}
          /\ got' \in [{Client} -> {{}, {Client}}]
      BY <2>2, <2>4 DEF IInv, Values
    <2>6. Cli!Answer
      BY <1>4, <2>5
    <2>7. /\ served'[Client] = 1 /\ served' \in [{Client} -> {0, 1}]
      BY <1>4, <2>2, <2>3 DEF Srv!RunData, IInv, Values
    <2>8. /\ new_data' = None
          /\ UNCHANGED <<s_state, ready, cur_id, id_map, handle_map,
                         new_connect, mem, owner, backlog, peer, sent, read,
                         answers, reported>>
      BY <1>4 DEF Srv!RunData, Srv!maps
    <2>9. Values' /\ NotYet' /\ Accepted' /\ Reported' /\ Pending'
      BY <2>1, <2>4, <2>5, <2>6, <2>7, <2>8 DEF IInv, Values, NotYet,
         Accepted, Reported, Pending, Cli!Answer
    <2>10. Conversation' /\ Ends'
      BY <2>1, <2>2, <2>5, <2>6, <2>7, <2>8 DEF IInv, Values, Conversation,
         Ends, Cli!Answer
    <2>11. QED
      BY <2>9, <2>10 DEF IInv
  <1>5. QED
    BY <1>1, <1>2, <1>3, <1>4 DEF ServerTurn

(* The client's run(), and the connection attempt it may start. *)
LEMMA ClientTurnKeeps ==
    ASSUME IInv, ClientTurn
    PROVE  IInv'
  <1>1. CASE UNCHANGED <<sv, cv>>
    BY <1>1, StutterKeeps
  <1>2. CASE Cli!RunConnect /\ UNCHANGED sv
    BY <1>2 DEF IInv, Values, NotYet, Accepted, Reported, Pending,
         Conversation, Ends, sv, Srv!Listener, Cli!RunConnect, Cli!env,
         Cli!S0, Cli!S1
  <1>3. CASE Cli!RunConnect /\ link' = "connecting" /\ Srv!Connect(Client)
    <2>1. /\ peer[Client] = "idle" /\ backlog = <<>> /\ cur_id = -1
          /\ peer'[Client] = "open"
          /\ peer' \in [{Client} -> {"idle", "open", "reset"}]
          /\ backlog' = <<Client>>
      BY <1>3, OneInLine DEF Srv!Connect, IInv, Values, Accepted, Pending
    <2>2. QED
      BY <2>1, <1>3, OneInLine DEF IInv, Values, NotYet, Accepted, Reported,
         Pending, Conversation, Ends, Srv!Listener, Srv!Connect, Srv!maps,
         Srv!slots, Srv!heap, Srv!hist, Cli!RunConnect, Cli!env, Cli!S0,
         Cli!S1
  <1>4. CASE Cli!RunCallBack /\ UNCHANGED sv
    <2>1. /\ c_state = 3 /\ c_state' = 4 /\ calls = 0 /\ calls' = 1
          /\ c_stage' = "uv"
          /\ UNCHANGED <<sv, client, link, remote, pieces, unread, failed>>
      BY <1>4 DEF Cli!RunCallBack, Cli!env, Cli!S3, Cli!S4, IInv, Values,
         Ends
    <2>2. QED
      BY <2>1 DEF IInv, Values, NotYet, Accepted, Reported, Pending,
         Conversation, Ends, sv, Srv!Listener
  <1>5. CASE (Cli!RunWait \/ Cli!RunError) /\ UNCHANGED sv
    <2>1. /\ c_stage' \in {"uv", "gone"}
          /\ UNCHANGED <<sv, c_state, client, link, remote, pieces, unread,
                         calls, failed>>
      BY <1>5 DEF Cli!RunWait, Cli!RunError, Cli!env
    <2>2. QED
      BY <2>1 DEF IInv, Values, NotYet, Accepted, Reported, Pending,
         Conversation, Ends, sv, Srv!Listener
  <1>6. QED
    BY <1>1, <1>2, <1>3, <1>4, <1>5 DEF ClientTurn

(* The poll only fills ready. *)
LEMMA PollKeeps ==
    ASSUME IInv, Poll
    PROVE  IInv'
  <1>1. CASE UNCHANGED <<sv, cv>>
    BY <1>1, StutterKeeps
  <1>2. CASE UNCHANGED sv /\ peer[Client] = "reset" /\ Cli!Hangup("reset")
    <2>1. remote' = "reset" /\ link = "up"
      BY <1>2 DEF Cli!Hangup
    <2> QED BY <1>2, <2>1 DEF IInv, Values, NotYet, Accepted, Reported,
         Pending, Conversation, Ends, sv, Srv!Listener, Cli!Hangup
  <1>3. CASE Srv!Poll
    <2>1. /\ ready' \subseteq Addrs \cup {Srv!Listener}
          /\ Srv!Listener \in ready' => backlog = <<Client>>
          /\ \A a \in Addrs : a \in ready' => mem[a] = "live"
      BY <1>3, WhatIsReadable DEF Srv!Poll, IInv, Values
    <2>2. /\ s_stage' \in {"run", "uv", "dispatch", "gone"}
          /\ UNCHANGED <<s_state, cur_id, id_map, handle_map, new_connect,
                         new_data, mem, owner, queued, backlog, peer, sent,
                         read, inflight, got, answers, served, reported>>
      BY <1>3 DEF Srv!Poll, Srv!maps, Srv!slots, Srv!heap, Srv!network, Srv!hist
    <2>3. /\ UNCHANGED <<c_state, c_stage, client, link, pieces, unread, calls,
                         failed>>
          /\ \/ remote' = remote
             \/ remote' = "reset" /\ link = "up" /\ peer[Client] = "reset"
      BY DEF Poll, cv, Cli!Hangup
    <2>4. Values' /\ NotYet' /\ Accepted' /\ Reported' /\ Pending'
      BY <2>1, <2>2, <2>3 DEF IInv, Values, NotYet, Accepted, Reported,
         Pending, Srv!Listener
    <2>5. Conversation' /\ Ends'
      BY <2>2, <2>3 DEF IInv, Values, Conversation, Ends
    <2>6. QED
      BY <2>4, <2>5 DEF IInv
  <1>4. QED
    BY <1>1, <1>2, <1>3 DEF Poll

(* on_new_connection: the one client is accepted, or cut off, once; and    *)
(* on_read of its connection.                                              *)
LEMMA DispatchServerKeeps ==
    ASSUME IInv, DispatchServer
    PROVE  IInv'
  <1>1. PICK a \in Addrs :
          \/ (Srv!AcceptConnection(a) \/ Srv!OnRead(a)) /\ UNCHANGED cv
          \/ /\ Srv!AcceptFails(a)
             /\ IF link = "up" THEN Cli!Hangup("reset") ELSE UNCHANGED cv
    BY DEF DispatchServer
  <1>2. CASE Srv!AcceptConnection(a) /\ UNCHANGED cv
    <2> backlog = <<Client>> /\ cur_id = -1 /\ peer[Client] = "open"
      BY <1>2 DEF Srv!AcceptConnection, IInv, Reported, Pending
    <2>1. backlog' = <<>> /\ cur_id' = 0 /\ new_connect' = 0
      BY <1>2, OneInLine DEF Srv!AcceptConnection
    <2>2. /\ handle_map' \in [{0} -> Addrs \cup {None}] /\ handle_map'[0] = a
          /\ id_map' \in [Addrs -> {0, None}] /\ id_map'[a] = 0
          /\ mem' \in [Addrs -> {"free", "live", "closing"}]
          /\ mem'[a] = "live"
          /\ \A b \in Addrs : mem'[b] = "live" => b = a
          /\ owner' \in [Addrs -> {Client, None}] /\ owner'[a] = Client
          /\ queued' = [b \in Addrs |-> 0]
      BY <1>2, <2>1, OneInLine DEF Srv!AcceptConnection, IInv, Values, NotYet
    <2>3. /\ ready' \subseteq Addrs \cup {Srv!Listener}
          /\ Srv!Listener \notin ready'
          /\ \A b \in Addrs : b \notin ready'
      BY <1>2, <2>1 DEF Srv!AcceptConnection, IInv, Values, NotYet, Reported
    <2>4. QED
      BY <2>1, <2>2, <2>3, <1>2, OneInLine DEF IInv, Values, NotYet,
         Accepted, Reported, Pending, Conversation, Ends, cv, Srv!Listener,
         Srv!AcceptConnection, Srv!hist
  <1>3. CASE /\ Srv!AcceptFails(a)
             /\ IF link = "up" THEN Cli!Hangup("reset") ELSE UNCHANGED cv
    <2>1. /\ backlog = <<Client>> /\ cur_id = -1 /\ backlog' = <<>>
          /\ peer' \in [{Client} -> {"idle", "open", "reset"}]
          /\ peer'[Client] = "reset"
      BY <1>3, OneInLine DEF Srv!AcceptFails, IInv, Values, Reported, Pending
    <2>2. /\ mem' \in [Addrs -> {"free", "live", "closing"}]
          /\ \A b \in Addrs : mem'[b] # "live"
      BY <1>3, <2>1 DEF Srv!AcceptFails, IInv, Values, NotYet
    <2>3. /\ ready' \subseteq Addrs \cup {Srv!Listener}
          /\ Srv!Listener \notin ready'
          /\ \A b \in Addrs : b \notin ready'
      BY <1>3, <2>1 DEF Srv!AcceptFails, IInv, Values, NotYet, Reported
    <2>4. /\ UNCHANGED <<c_state, c_stage, client, link, pieces, unread,
                         response, calls, failed>>
          /\ remote' = IF link = "up" THEN "reset" ELSE remote
      BY <1>3 DEF Cli!Hangup, cv
    <2>5. link # "none"
      BY <2>1 DEF IInv, Ends, Pending
    <2>6. QED
      BY <2>1, <2>2, <2>3, <2>4, <2>5, <1>3, OneInLine DEF IInv, Values,
         NotYet, Accepted, Reported, Pending, Conversation, Ends,
         Srv!Listener, Srv!AcceptFails, Srv!maps, Srv!slots, Srv!hist
  <1>4. CASE Srv!OnRead(a) /\ UNCHANGED cv
    <2>1. mem[a] = "live" /\ cur_id = 0 /\ a = handle_map[0]
      BY <1>4 DEF Srv!OnRead, IInv, Values, NotYet, Accepted, Reported
    <2>2. /\ owner[a] = Client /\ id_map[a] = 0 /\ queued[a] = 0
          /\ peer[Client] = "open"
      BY <2>1 DEF IInv, Values, Accepted
    <2>3. UNCHANGED <<mem, queued, inflight>>
      BY <1>4, <2>2 DEF Srv!OnRead, Srv!Flush, IInv, Values
    <2>4. /\ read' \in [{Client} -> {0, 1}] /\ read'[Client] = sent[Client]
          /\ new_data' = IF read[Client] < sent[Client]
                         THEN [id |-> 0, from |-> Client] ELSE new_data
      BY <1>4, <2>2 DEF Srv!OnRead, IInv, Values
    <2>5. ready' \subseteq ready
      BY <1>4 DEF Srv!OnRead
    <2>6. UNCHANGED <<s_state, s_stage, fed, cur_id, id_map, handle_map,
                      new_connect, owner, backlog, peer, sent, got, answers,
                      served, reported, cv>>
      BY <1>4 DEF Srv!OnRead, Srv!maps, Srv!hist
    <2>7. Values' /\ NotYet' /\ Accepted' /\ Reported' /\ Pending' /\ Ends'
      BY <2>1, <2>3, <2>4, <2>5, <2>6 DEF IInv, Values, NotYet, Accepted,
         Reported, Pending, Ends, Srv!Listener, cv
    <2>8. Conversation'
      BY <2>3, <2>4, <2>6, MygoAssumption DEF IInv, Values, Conversation, cv
    <2>9. QED
      BY <2>7, <2>8 DEF IInv
  <1>5. QED
    BY <1>1, <1>2, <1>3, <1>4

(* on_connect sends the request, on_read takes the answer. *)
LEMMA DispatchClientKeeps ==
    ASSUME IInv, DispatchClient
    PROVE  IInv'
  <1>1. CASE peer[Client] = "open" /\ Cli!OnConnect /\ Srv!Send(Client)
    <2>1. /\ link = "connecting" /\ c_state = 1
          /\ link' = "up" /\ c_state' = 2 /\ c_stage' = "close"
          /\ UNCHANGED <<client, remote, pieces, unread, calls, failed>>
      BY <1>1 DEF Cli!OnConnect, Cli!env, Cli!S1, Cli!S2, IInv, Ends
    <2>2. /\ sent[Client] = 0 /\ sent'[Client] = 1
          /\ sent' \in [{Client} -> {0, 1}]
      BY <1>1, <2>1 DEF Srv!Send, IInv, Values, Conversation
    <2>3. UNCHANGED <<s_state, s_stage, ready, fed, cur_id, id_map,
                      handle_map, new_connect, new_data, mem, owner, queued,
                      backlog, peer, read, inflight, got, answers, served,
                      reported>>
      BY <1>1 DEF Srv!Send, Srv!maps, Srv!slots, Srv!heap, Srv!hist
    <2>4. remote = "open" /\ answers[Client] = 0 /\ calls = 0
      BY <2>1 DEF IInv, Values, Ends
    <2>5. Values' /\ NotYet' /\ Accepted' /\ Reported' /\ Pending'
      BY <2>1, <2>2, <2>3 DEF IInv, Values, NotYet, Accepted, Reported,
         Pending, Srv!Listener
    <2>6. Conversation' /\ Ends'
      BY <1>1, <2>1, <2>2, <2>3, <2>4 DEF IInv, Values, Conversation, Ends
    <2>7. QED
      BY <2>5, <2>6 DEF IInv
  \* The connection is already cut.
  <1>1a. CASE peer[Client] = "reset" /\ Cli!OnConnect /\ UNCHANGED sv
    <2>1. /\ link = "connecting" /\ c_state = 1 /\ sent[Client] = 0
          /\ link' = "up" /\ c_state' = 2 /\ c_stage' = "close"
          /\ UNCHANGED <<sv, client, remote, pieces, unread, calls, failed>>
      BY <1>1a DEF Cli!OnConnect, Cli!env, Cli!S1, Cli!S2, IInv, Values, Ends,
         Conversation
    <2> QED BY <1>1a, <2>1 DEF IInv, Values, NotYet, Accepted, Reported,
         Pending, Conversation, Ends, sv, Srv!Listener
  <1>2. CASE Cli!OnConnectFails /\ UNCHANGED sv
    BY <1>2 DEF IInv, Values, NotYet, Accepted, Reported, Pending,
         Conversation, Ends, sv, Srv!Listener, Cli!OnConnectFails, Cli!env
  <1>3. CASE Cli!OnReadData /\ Srv!Receive(Client)
    <2>1. /\ c_state = 2 /\ c_state' = 3 /\ c_stage' = "close"
          /\ unread > 0 /\ unread' = 0
          /\ UNCHANGED <<client, link, remote, pieces, calls, failed>>
      BY <1>3 DEF Cli!OnReadData, Cli!env, Cli!S2, Cli!S3
    <2>2. /\ inflight[Client] = 1 /\ answers[Client] = 0
          /\ served[Client] = 1
      BY <2>1 DEF IInv, Values, Conversation
    <2>3. /\ inflight'[Client] = 0 /\ inflight' \in [{Client} -> {0, 1}]
          /\ answers'[Client] = 1 /\ answers' \in [{Client} -> {0, 1}]
      BY <1>3, <2>2 DEF Srv!Receive, IInv, Values
    <2>4. UNCHANGED <<s_state, s_stage, ready, fed, cur_id, id_map,
                      handle_map, new_connect, new_data, mem, owner, queued,
                      backlog, peer, sent, read, got, served, reported>>
      BY <1>3 DEF Srv!Receive, Srv!maps, Srv!slots, Srv!heap, Srv!hist
    <2>5. Values' /\ NotYet' /\ Accepted' /\ Reported' /\ Pending'
      BY <2>1, <2>3, <2>4 DEF IInv, Values, NotYet, Accepted, Reported,
         Pending, Srv!Listener
    <2>6. Conversation' /\ Ends'
      BY <2>1, <2>2, <2>3, <2>4 DEF IInv, Values, Conversation, Ends
    <2>7. QED
      BY <2>5, <2>6 DEF IInv
  <1>4. CASE Cli!OnReadEnd /\ UNCHANGED sv
    <2>1. /\ c_state = 2 /\ c_state' = -2 /\ c_stage' = "close"
          /\ client' = "closing" /\ remote # "open"
          /\ UNCHANGED <<sv, link, remote, pieces, unread, calls, failed>>
      BY <1>4 DEF Cli!OnReadEnd, Cli!env, Cli!S2, Cli!Error
    <2>2. QED
      BY <2>1 DEF IInv, Values, NotYet, Accepted, Reported, Pending,
         Conversation, Ends, sv, Srv!Listener
  \* Behind the answer nothing more comes, and no answer comes with a reset.
  <1>5. ~Cli!OnReadAborts
    <2>1. SUFFICES ASSUME Cli!OnReadAborts PROVE FALSE
      OBVIOUS
    <2>2. /\ link = "up" /\ client = "init"
          /\ unread > 0 \/ remote # "open"
          /\ c_state # 2 \/ (unread > 0 /\ remote = "reset")
      BY <2>1 DEF Cli!OnReadAborts, Cli!S2
    <2>3. remote = "reset" => unread = 0
      BY DEF IInv, Values, NotYet, Accepted, Conversation, Ends
    <2>4. c_state \in {3, 4}
      BY <2>2, <2>3 DEF IInv, Values, Ends
    <2>5. unread = 0 /\ served[Client] = 1
      BY <2>4 DEF IInv, Values, Conversation, Ends
    <2>6. cur_id = 0 /\ peer[Client] = "open"
      BY <2>5 DEF IInv, Values, NotYet, Accepted, Conversation
    <2>7. QED
      BY <2>2, <2>5, <2>6 DEF IInv, Values, Ends
  <1>6. CASE Cli!OtherEvent /\ UNCHANGED sv
    <2>1. /\ c_stage' = "close"
          /\ UNCHANGED <<sv, c_state, client, link, remote, pieces, unread,
                         calls, failed>>
      BY <1>6 DEF Cli!OtherEvent, Cli!env
    <2>2. QED
      BY <2>1 DEF IInv, Values, NotYet, Accepted, Reported, Pending,
         Conversation, Ends, sv, Srv!Listener
  <1>7. QED
    BY <1>1, <1>1a, <1>2, <1>3, <1>4, <1>5, <1>6 DEF DispatchClient

(* The close callbacks free what was cut off, never the live connection. *)
LEMMA EndUvRunKeeps ==
    ASSUME IInv, EndUvRun
    PROVE  IInv'
  <1>1. /\ s_state' = s_state /\ s_stage' \in {"run", "uv", "dispatch", "gone"}
        /\ UNCHANGED <<ready, cur_id, id_map, handle_map, new_connect,
                       new_data, backlog, peer, sent, read, inflight, got,
                       answers, served, reported>>
        /\ mem' \in [Addrs -> {"free", "live", "closing"}]
        /\ \A a \in Addrs : mem'[a] = "live" <=> mem[a] = "live"
        /\ owner' \in [Addrs -> {Client, None}]
        /\ \A a \in Addrs : mem[a] = "live" => owner'[a] = owner[a]
        /\ queued' = [a \in Addrs |-> 0]
    <2>1. CASE UNCHANGED sv
      BY <2>1 DEF sv, IInv, Values
    <2>2. CASE Srv!EndUvRun
      BY <2>2 DEF IInv, Values, Srv!EndUvRun, Srv!maps, Srv!slots,
         Srv!network, Srv!hist
    <2>3. QED
      BY <2>1, <2>2 DEF EndUvRun
  <1>2. /\ UNCHANGED <<c_state, link, remote, pieces, unread, calls, failed>>
        /\ c_stage' \in {"run", "uv", "close", "gone", "crashed"}
        /\ \/ client' = client
           \/ client = "closing" /\ client' = "closed"
        /\ c_stage' = "crashed" => client' = "closed"
    <2>1. CASE UNCHANGED cv
      BY <2>1 DEF cv, IInv, Values, Ends
    <2>2. CASE Cli!EndUvRun
      BY <2>2 DEF Cli!EndUvRun, Cli!env
    <2>3. QED
      BY <2>1, <2>2 DEF EndUvRun
  <1>3. Values' /\ NotYet' /\ Reported' /\ Pending'
    BY <1>1, <1>2 DEF IInv, Values, NotYet, Reported, Pending, Srv!Listener
  <1>4. Accepted'
    BY <1>1 DEF IInv, Accepted
  <1>5. Conversation' /\ Ends'
    BY <1>1, <1>2 DEF IInv, Values, Conversation, Ends
  <1>6. QED
    BY <1>3, <1>4, <1>5 DEF IInv

LEMMA NextKeeps == IInv /\ [Next]_vars => IInv'
  <1>1. CASE IInv /\ (Boot \/ TimerTurn \/ UNCHANGED vars)
    BY <1>1, StutterKeeps DEF Boot, TimerTurn, vars
  <1>2. QED
    BY <1>1, ServerTurnKeeps, ClientTurnKeeps, PollKeeps,
       DispatchServerKeeps, DispatchClientKeeps, EndUvRunKeeps DEF Next

(* The process ends in the timer's turn only, and for the server's sake. *)
LEMMA KilledKeeps == Killed /\ [Next]_vars => Killed'
  <1> SUFFICES ASSUME Killed, [Next]_vars PROVE Killed'
    OBVIOUS
  <1>1. CASE UNCHANGED vars
    BY <1>1 DEF Killed, vars, sv
  <1>2. CASE TimerTurn
    BY <1>2 DEF Killed, TimerTurn, sv
  <1>3. CASE Boot \/ ServerTurn \/ ClientTurn \/ Poll \/ DispatchServer
               \/ DispatchClient \/ EndUvRun
    BY <1>3 DEF Killed, Boot, ServerTurn, ClientTurn, Poll, DispatchServer,
       DispatchClient, EndUvRun
  <1> QED BY <1>1, <1>2, <1>3 DEF Next

-----------------------------------------------------------------------------
(* Theorems                                                                *)

(* In the program of Server::Run the request is read, answered and taken   *)
(* once, over a connection neither end gives up.                           *)
THEOREM MygoInvariant == Spec => []IInv
  BY InitHolds, NextKeeps, PTL DEF Spec

(* The callback of the client gets the response to its own request, sent   *)
(* once, after OnConnect reported the connection.                          *)
THEOREM CallBackGetsItsAnswer == Spec => []AnswerIsOwn
  <1>1. IInv => AnswerIsOwn
    BY DEF IInv, Values, Conversation, Ends, AnswerIsOwn
  <1>2. QED
    BY <1>1, MygoInvariant, PTL

(* The process of Server::Run ends only after listening, connecting or     *)
(* accepting failed; no assert of TcpClientTask fails in it even then, and *)
(* no write outlives its buffer.                                           *)
THEOREM OnlyFailuresEndTheProcess == Spec => []ProcessSurvives
  <1>1. Init => Killed
    BY DEF Init, Killed
  <1>2. IInv /\ Killed => ProcessSurvives
    <2> SUFFICES ASSUME IInv, Killed PROVE ProcessSurvives
      OBVIOUS
    <2>1. c_stage = "crashed" => link = "dead" \/ peer[Client] = "reset"
      BY DEF IInv, Ends
    <2>2. Alive \/ Broken
      BY <2>1 DEF IInv, Values, Killed, Alive, Broken
    <2> QED BY <2>2 DEF IInv, Values, ProcessSurvives,
       Cli!ConnectAssertHolds, Cli!ReadAssertHolds, Srv!BuffersOutliveWrites
  <1>3. QED
    BY <1>1, <1>2, KilledKeeps, MygoInvariant, PTL DEF Spec
=============================================================================
