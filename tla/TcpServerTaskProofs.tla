------------------------ MODULE TcpServerTaskProofs ------------------------
(***************************************************************************)
(* Theorems about TcpServerTask, for any number of peers, addresses and    *)
(* requests.                                                               *)
(***************************************************************************)
EXTENDS TcpServerTask, FiniteSetTheorems, TLAPS

Queue == {backlog[i] : i \in 1 .. Len(backlog)}

(* The peers the kernel has handed to uv__server_io, accepted or refused *)
Taken == {p \in Peers : peer[p] # "idle" /\ p \notin Queue}

(* Every peer is in the backlog at most once, and the listening descriptor *)
(* is reported only while somebody is in it.                               *)
Backlog ==
    /\ \A p \in Queue : peer[p] # "idle"
    /\ \A i, j \in 1 .. Len(backlog) : backlog[i] = backlog[j] => i = j
    /\ Listener \in ready => backlog # <<>>

Stages ==
    /\ ready # {} => stage = "dispatch"
    /\ stage \in {"uv", "dispatch"} => state = S1
    /\ \A a \in Addrs : a \in ready => mem[a] = "live"

(* One peer has one handle, as long as it does not hang up. *)
Owners ==
    /\ \A a \in Addrs : owner[a] # None => owner[a] \in Taken
    /\ \A a \in Addrs : mem[a] = "live" => owner[a] # None
    /\ \A a \in Addrs : mem[a] = "free" => owner[a] = None
    /\ \A a, b \in Addrs : owner[a] = owner[b] /\ owner[a] # None => a = b
    /\ \A p \in Taken :
         peer[p] = "open" => \E a \in Addrs : mem[a] = "live" /\ owner[a] = p

(* Every id belongs to one of the peers that were taken. *)
Counted == cur_id + 1 <= Cardinality(Taken)

Handles ==
    /\ \A i \in Ids : handle_map[i] # None <=> i <= cur_id
    /\ new_data # None => new_data.id <= cur_id /\ new_data.from \in Taken

(* new_connect_ is filled by the one accept of a poll and emptied before   *)
(* the next poll.                                                          *)
Slot ==
    new_connect # None =>
        /\ state = S1
        /\ stage = "run" \/ (stage = "dispatch" /\ Listener \notin ready)

Reads ==
    /\ \A p \in Peers : read[p] <= sent[p]
    /\ \A p \in Peers : p \notin Taken => read[p] = 0

(* A patient peer that nobody else's answer has reached has no more        *)
(* answers than it was served, and hangs up while it waits only if it was  *)
(* never accepted.                                                         *)
Patience ==
    \A p \in Patient :
        /\ sent[p] <= answers[p] + 1
        /\ Waiting(p) /\ peer[p] # "open" =>
             p \in Taken /\ read[p] = 0 /\ \A a \in Addrs : owner[a] # p
        /\ got[p] \subseteq {p} =>
             /\ answers[p] + inflight[p] <= served[p]
             /\ \A a \in Addrs : owner[a] = p => queued[a] = 0

IInv ==
    /\ TypeOK /\ Backlog /\ Stages /\ Owners /\ Counted /\ Handles /\ Slot
    /\ Reads /\ Patience
    /\ NoConnectLost /\ IdsFollowConnections /\ AtMostOneAnswer /\ RoutedHome
    /\ EachItsOwn

USE DEF S0, S1, Error, Listener

-----------------------------------------------------------------------------
(* Which actions change what *)
LEMMA Footprints ==
  ASSUME Next
  PROVE  /\ UNCHANGED maps \/ \E a \in Addrs : AcceptConnection(a)
         /\ \/ UNCHANGED <<new_connect, reported>>
            \/ RunConnect \/ \E a \in Addrs : AcceptConnection(a)
         /\ UNCHANGED new_data \/ RunData \/ \E a \in Addrs : OnRead(a)
         /\ \/ UNCHANGED <<mem, owner>>
            \/ EndUvRun
            \/ \E a \in Addrs : AcceptConnection(a) \/ AcceptFails(a) \/ OnRead(a)
         /\ \/ UNCHANGED queued
            \/ RunData \/ EndUvRun
            \/ \E a \in Addrs : AcceptConnection(a) \/ OnRead(a)
         /\ \/ UNCHANGED <<backlog, peer>>
            \/ \E p \in Peers : Connect(p) \/ \E how \in {"closed", "reset"} : Close(p, how)
            \/ \E a \in Addrs : AcceptConnection(a) \/ AcceptFails(a)
         /\ UNCHANGED sent \/ \E p \in Peers : Send(p)
         /\ UNCHANGED read \/ \E a \in Addrs : OnRead(a)
         /\ \/ UNCHANGED inflight
            \/ RunData
            \/ \E a \in Addrs : OnRead(a)
            \/ \E p \in Peers : Receive(p)
         /\ UNCHANGED <<got, served>> \/ RunData
         /\ UNCHANGED answers \/ \E p \in Peers : Receive(p)
         /\ \/ UNCHANGED ready
            \/ Poll
            \/ \E a \in Addrs : AcceptConnection(a) \/ AcceptFails(a) \/ OnRead(a)
         /\ \/ UNCHANGED <<state, stage>>
            \/ RunListen \/ RunListenFails \/ RunConnect \/ RunData \/ RunIdle
            \/ Poll \/ EndUvRun
  <1> USE DEF maps, slots, heap, hist, network
  <1>1. CASE RunListen \/ RunListenFails
    BY <1>1 DEF RunListen, RunListenFails
  <1>2. CASE RunConnect \/ RunIdle
    BY <1>2 DEF RunConnect, RunIdle
  <1>3. CASE RunData
    BY <1>3 DEF RunData
  <1>4. CASE Poll \/ EndUvRun
    BY <1>4 DEF Poll, EndUvRun
  <1>5. CASE \E a \in Addrs : AcceptConnection(a)
    BY <1>5 DEF AcceptConnection
  <1>6. CASE \E a \in Addrs : AcceptFails(a)
    BY <1>6 DEF AcceptFails
  <1>7. CASE \E a \in Addrs : OnRead(a)
    BY <1>7 DEF OnRead
  <1>8. CASE \E p \in Peers : Connect(p) \/ \E how \in {"closed", "reset"} : Close(p, how)
    BY <1>8 DEF Connect, Close
  <1>9. CASE \E p \in Peers : Send(p) \/ Receive(p)
    BY <1>9 DEF Send, Receive
  <1> QED BY <1>1, <1>2, <1>3, <1>4, <1>5, <1>6, <1>7, <1>8, <1>9 DEF Next, LoopStep

-----------------------------------------------------------------------------
(* The backlog *)

LEMMA ConnectTaken ==
  ASSUME TypeOK, Backlog, NEW p \in Peers, Connect(p)
  PROVE  Queue' = Queue \cup {p} /\ Taken' = Taken /\ p \notin Taken /\ Backlog'
  <1>1. /\ backlog \in Seq(Peers) /\ backlog' = Append(backlog, p)
        /\ peer[p] = "idle" /\ peer' = [peer EXCEPT ![p] = "open"]
        /\ peer \in [Peers -> {"idle", "open", "closed", "reset"}]
        /\ UNCHANGED ready
    BY DEF Connect, TypeOK
  <1>2. /\ Len(backlog) \in Nat /\ Len(backlog') = Len(backlog) + 1
        /\ \A i \in 1 .. Len(backlog) : backlog'[i] = backlog[i]
        /\ backlog'[Len(backlog) + 1] = p
        /\ backlog' # <<>>
    BY <1>1
  <1>3. 1 .. Len(backlog') = (1 .. Len(backlog)) \cup {Len(backlog) + 1}
    BY <1>2
  <1>4. Queue' = Queue \cup {p} /\ Queue \subseteq Peers
    BY <1>1, <1>2, <1>3 DEF Queue
  <1>5. p \notin Queue
    BY <1>1 DEF Backlog
  <1>6. Taken' = Taken /\ p \notin Taken
    BY <1>1, <1>4, <1>5 DEF Taken
  <1>7. \A q \in Queue' : peer'[q] # "idle"
    BY <1>1, <1>4 DEF Backlog
  <1>8. \A i, j \in 1 .. Len(backlog') : backlog'[i] = backlog'[j] => i = j
    <2>1. \A i \in 1 .. Len(backlog) : backlog[i] # p
      BY <1>5 DEF Queue
    <2>2. \A i, j \in 1 .. Len(backlog) : backlog[i] = backlog[j] => i = j
      BY DEF Backlog
    <2> QED BY <1>2, <1>3, <2>1, <2>2
  <1> QED BY <1>2, <1>4, <1>6, <1>7, <1>8 DEF Backlog

LEMMA AcceptTaken ==
  ASSUME TypeOK, Backlog, NEW a \in Addrs, AcceptConnection(a) \/ AcceptFails(a)
  PROVE  /\ Head(backlog) \in Peers /\ Head(backlog) \in Queue
         /\ Queue' = Queue \ {Head(backlog)}
         /\ Head(backlog) \notin Taken
         /\ Taken' = Taken \cup {Head(backlog)}
         /\ Backlog'
  <1>1. /\ ready' = ready \ {Listener} /\ backlog' = Tail(backlog)
        /\ backlog \in Seq(Peers) /\ backlog # <<>>
    BY DEF AcceptConnection, AcceptFails, Backlog, TypeOK
  <1>2. /\ Len(backlog) \in Nat /\ Len(backlog) >= 1
        /\ Head(backlog) = backlog[1] /\ Head(backlog) \in Peers
        /\ Len(backlog') = Len(backlog) - 1
        /\ \A i \in 1 .. Len(backlog') : backlog'[i] = backlog[i + 1]
    BY <1>1
  <1>3. Head(backlog) \in Queue
    BY <1>2 DEF Queue
  <1>4. Queue' = Queue \ {Head(backlog)}
    <2>1. ASSUME NEW q \in Queue' PROVE q \in Queue \ {Head(backlog)}
      <3>1. PICK i \in 1 .. Len(backlog') : q = backlog'[i]
        BY <2>1 DEF Queue
      <3>2. i + 1 \in 1 .. Len(backlog) /\ i + 1 # 1 /\ 1 \in 1 .. Len(backlog) /\ q = backlog[i + 1]
        BY <1>2, <3>1
      <3> QED BY <1>2, <3>2 DEF Queue, Backlog
    <2>2. ASSUME NEW q \in Queue, q # Head(backlog) PROVE q \in Queue'
      <3>1. PICK i \in 1 .. Len(backlog) : q = backlog[i]
        BY DEF Queue
      <3>2. i - 1 \in 1 .. Len(backlog') /\ backlog'[i - 1] = q
        BY <1>2, <2>2, <3>1
      <3> QED BY <3>2 DEF Queue
    <2> QED BY <2>1, <2>2
  <1>5. peer' = peer \/ peer' = [peer EXCEPT ![Head(backlog)] = "reset"]
    BY DEF AcceptConnection, AcceptFails
  <1>6. \A q \in Peers : peer'[q] # "idle" <=> peer[q] # "idle"
    <2>1. peer[Head(backlog)] # "idle"
      BY <1>3 DEF Backlog
    <2>2. CASE peer' = peer
      BY <2>2
    <2>3. CASE peer' = [peer EXCEPT ![Head(backlog)] = "reset"]
      <3>1. \A q \in Peers :
              peer'[q] = IF q = Head(backlog) THEN "reset" ELSE peer[q]
        BY <2>3 DEF TypeOK
      <3> QED BY <2>1, <3>1
    <2> QED BY <1>5, <2>2, <2>3
  <1>7. Head(backlog) \notin Taken /\ Taken' = Taken \cup {Head(backlog)}
    BY <1>2, <1>3, <1>4, <1>6 DEF Taken, Backlog
  <1>8. Queue \subseteq Peers
    BY <1>1 DEF Queue
  <1>9. \A q \in Queue' : peer'[q] # "idle"
    BY <1>4, <1>6, <1>8 DEF Backlog
  <1>10. \A i, j \in 1 .. Len(backlog') : backlog'[i] = backlog'[j] => i = j
    <2> TAKE i, j \in 1 .. Len(backlog')
    <2>1. i + 1 \in 1 .. Len(backlog) /\ j + 1 \in 1 .. Len(backlog)
      BY <1>2
    <2>2. backlog[i + 1] = backlog[j + 1] => i + 1 = j + 1
      BY <2>1 DEF Backlog
    <2> QED BY <1>2, <2>2
  <1> QED BY <1>1, <1>2, <1>3, <1>4, <1>7, <1>9, <1>10 DEF Backlog

LEMMA CloseTaken ==
  ASSUME TypeOK, Backlog, NEW p \in Peers, NEW how \in {"closed", "reset"}, Close(p, how)
  PROVE  Queue' = Queue /\ Taken' = Taken /\ Backlog'
  <1>1. \A q \in Peers : peer'[q] # "idle" <=> peer[q] # "idle"
    BY DEF Close, TypeOK
  <1>2. backlog \in Seq(Peers) /\ backlog' = backlog /\ ready' = ready
    BY DEF Close, TypeOK
  <1>3. Queue' = Queue /\ Queue \subseteq Peers
    BY <1>2 DEF Queue
  <1>4. Taken' = Taken
    BY <1>1, <1>3 DEF Taken
  <1> QED BY <1>1, <1>2, <1>3, <1>4 DEF Backlog

LEMMA BacklogKeeps ==
  ASSUME TypeOK, Backlog, Next
  PROVE  Backlog' /\ Taken \subseteq Taken'
  <1>1. CASE \E p \in Peers : Connect(p)
    BY <1>1, ConnectTaken
  <1>2. CASE \E a \in Addrs : AcceptConnection(a) \/ AcceptFails(a)
    BY <1>2, AcceptTaken
  <1>3. CASE \E p \in Peers : \E how \in {"closed", "reset"} : Close(p, how)
    BY <1>3, CloseTaken
  <1>4. CASE UNCHANGED <<backlog, peer>>
    <2>1. Queue' = Queue /\ Taken' = Taken
      BY <1>4 DEF Queue, Taken
    <2>2. Listener \in ready' => backlog' # <<>>
      <3>1. CASE UNCHANGED ready
        BY <1>4, <3>1 DEF Backlog
      <3>2. CASE Poll
        BY <1>4, <3>2, ServerAssumption DEF Poll, Readable
      <3>3. CASE \E a \in Addrs : OnRead(a)
        BY <1>4, <3>3 DEF OnRead, Backlog
      <3> QED BY <1>2, <3>1, <3>2, <3>3, Footprints, AcceptTaken DEF Backlog
    <2> QED BY <1>4, <2>1, <2>2 DEF Backlog
  <1> QED BY <1>1, <1>2, <1>3, <1>4, Footprints

(* There is an id left for every peer that can be accepted: ids are given  *)
(* to peers that were taken, and each of those is taken once.              *)
LEMMA IdLeft ==
  ASSUME IInv, NEW a \in Addrs, AcceptConnection(a) \/ AcceptFails(a)
  PROVE  cur_id + 1 \in Ids /\ Cardinality(Taken') = Cardinality(Taken) + 1
  <1> DEFINE h == Head(backlog)
  <1>1. h \in Peers /\ h \notin Taken /\ Taken' = Taken \cup {h}
    BY AcceptTaken DEF IInv
  <1>2. IsFiniteSet(Peers) /\ Taken \subseteq Peers /\ Taken' \subseteq Peers
    BY <1>1, ServerAssumption DEF Taken
  <1>3. IsFiniteSet(Taken) /\ IsFiniteSet(Taken')
    BY <1>2, FS_Subset
  <1>4. Cardinality(Taken') = Cardinality(Taken) + 1
    BY <1>1, <1>3, FS_AddElement
  <1>5. Cardinality(Taken') <= Cardinality(Peers)
    BY <1>2, FS_Subset
  <1>6. Cardinality(Taken) \in Nat /\ Cardinality(Peers) \in Nat
    BY <1>2, <1>3, FS_CardinalityType
  <1>7. cur_id \in Int /\ cur_id >= -1 /\ cur_id + 1 <= Cardinality(Taken)
    BY <1>6 DEF IInv, TypeOK, Counted, Ids
  <1> QED BY <1>4, <1>5, <1>6, <1>7 DEF Ids

LEMMA CountedKeeps ==
  ASSUME IInv, Next
  PROVE  Counted'
  <1>1. CASE \E a \in Addrs : AcceptConnection(a)
    <2>1. PICK a \in Addrs : AcceptConnection(a)
      BY <1>1
    <2>2. cur_id' = cur_id + 1
      BY <2>1 DEF AcceptConnection
    <2>3. Cardinality(Taken) \in Nat /\ cur_id \in Int
      BY ServerAssumption, FS_Subset, FS_CardinalityType DEF Taken, IInv, TypeOK, Ids
    <2> QED BY <2>1, <2>2, <2>3, IdLeft DEF IInv, Counted
  <1>2. CASE \E a \in Addrs : AcceptFails(a)
    <2>1. cur_id' = cur_id
      BY <1>2 DEF AcceptFails, maps
    <2>2. Cardinality(Taken) \in Nat /\ cur_id \in Int
      BY ServerAssumption, FS_Subset, FS_CardinalityType DEF Taken, IInv, TypeOK, Ids
    <2> QED BY <1>2, <2>1, <2>2, IdLeft DEF IInv, Counted
  <1>3. CASE ~ \E a \in Addrs : AcceptConnection(a) \/ AcceptFails(a)
    <2>1. cur_id' = cur_id
      BY <1>3, Footprints DEF maps
    <2>2. Taken' = Taken
      <3>1. CASE UNCHANGED <<backlog, peer>>
        BY <3>1 DEF Taken, Queue
      <3>2. CASE \E p \in Peers : Connect(p)
        BY <3>2, ConnectTaken DEF IInv
      <3>3. CASE \E p \in Peers : \E how \in {"closed", "reset"} : Close(p, how)
        BY <3>3, CloseTaken DEF IInv
      <3> QED BY <1>3, <3>1, <3>2, <3>3, Footprints
    <2> QED BY <2>1, <2>2 DEF IInv, Counted
  <1> QED BY <1>1, <1>2, <1>3

-----------------------------------------------------------------------------
(* Types *)

LEMMA PeersKeepTypes ==
  ASSUME IInv,
         NEW p \in Peers,
         \/ Connect(p) \/ Send(p) \/ Receive(p)
         \/ \E how \in {"closed", "reset"} : Close(p, how)
  PROVE  TypeOK'
  <1> USE DEF IInv, TypeOK, maps, slots, heap, hist
  <1>1. CASE Connect(p)
    BY <1>1 DEF Connect
  <1>2. CASE Send(p)
    BY <1>2, ServerAssumption DEF Send
  <1>3. CASE Receive(p)
    <2>1. inflight[p] \in 0 .. Room /\ inflight[p] > 0 /\ Room \in Nat
      BY <1>3, ServerAssumption DEF Receive
    <2>2. inflight[p] - 1 \in 0 .. Room /\ answers[p] + 1 \in Nat
      BY <2>1
    <2>3. inflight' = [inflight EXCEPT ![p] = inflight[p] - 1]
      BY <1>3 DEF Receive
    <2>4. inflight' \in [Peers -> 0 .. Room]
      BY <2>2, <2>3
    <2> QED BY <1>3, <2>2, <2>4 DEF Receive
  <1>4. CASE \E how \in {"closed", "reset"} : Close(p, how)
    <2>1. PICK how \in {"closed", "reset"} : Close(p, how)
      BY <1>4
    <2>2. peer' = [peer EXCEPT ![p] = how]
      BY <2>1 DEF Close
    <2> QED BY <2>1, <2>2 DEF Close
  <1> QED BY <1>1, <1>2, <1>3, <1>4

(* The handle SendData looks up *)
Target == handle_map[new_data.id]

LEMMA TargetFacts ==
  ASSUME IInv, RunData
  PROVE  /\ new_data \in [id : Ids, from : Peers] /\ new_data # None
         /\ new_data' = None
         /\ Target \in Addrs
         /\ mem[Target] = "live" => owner[Target] \in Peers
         /\ SendData(Target, new_data.from)
  <1>1. new_data \in [id : Ids, from : Peers] /\ new_data # None /\ new_data' = None
    BY DEF RunData, IInv, TypeOK
  <1>2. handle_map[new_data.id] # None
    BY <1>1 DEF IInv, Handles
  <1>3. Target \in Addrs
    BY <1>1, <1>2 DEF Target, IInv, TypeOK
  <1>4. mem[Target] = "live" => owner[Target] \in Peers
    BY <1>3 DEF IInv, TypeOK, Owners
  <1>5. SendData(Target, new_data.from)
    BY DEF RunData, Target
  <1> QED BY <1>1, <1>3, <1>4, <1>5

LEMMA SendKeepsTypes ==
  ASSUME IInv, RunData
  PROVE  /\ stage' \in {"uv", "crashed"} /\ fed' \in BOOLEAN
         /\ queued' \in [Addrs -> Nat]
         /\ got' \in [Peers -> SUBSET Peers]
         /\ inflight' \in [Peers -> 0 .. Room]
  <1>1. /\ new_data.from \in Peers /\ Target \in Addrs
        /\ mem[Target] = "live" => owner[Target] \in Peers
        /\ SendData(Target, new_data.from)
    BY TargetFacts
  <1>2. stage' \in {"uv", "crashed"}
    BY <1>1 DEF SendData
  <1>3. fed' \in BOOLEAN
    <2>1. fed' = TRUE \/ fed' = fed
      BY <1>1, Zenon DEF SendData
    <2> QED BY <2>1 DEF IInv, TypeOK
  <1>4. queued' \in [Addrs -> Nat]
    <2>1. queued' = queued \/ queued' = [queued EXCEPT ![Target] = @ + 1]
      BY <1>1 DEF SendData
    <2> QED BY <1>1, <2>1 DEF IInv, TypeOK
  <1>5. got' \in [Peers -> SUBSET Peers]
    <2>1. \/ got' = got
          \/ /\ owner[Target] \in Peers
             /\ got' = [got EXCEPT ![owner[Target]] = @ \cup {new_data.from}]
      BY <1>1 DEF SendData
    <2>2. got \in [Peers -> SUBSET Peers]
      BY DEF IInv, TypeOK
    <2> QED BY <1>1, <2>1, <2>2
  <1>6. inflight' \in [Peers -> 0 .. Room]
    <2>1. \/ inflight' = inflight
          \/ /\ mem[Target] = "live" /\ inflight[owner[Target]] < Room
             /\ inflight' = [inflight EXCEPT ![owner[Target]] = @ + 1]
      BY <1>1 DEF SendData
    <2>2. inflight \in [Peers -> 0 .. Room] /\ Room \in Nat
      BY ServerAssumption DEF IInv, TypeOK
    <2> QED BY <1>1, <2>1, <2>2
  <1> QED BY <1>2, <1>3, <1>4, <1>5, <1>6

LEMMA RunKeepsTypes ==
  ASSUME IInv, RunListen \/ RunListenFails \/ RunConnect \/ RunData \/ RunIdle
  PROVE  TypeOK'
  <1> USE DEF IInv, TypeOK, maps, slots, heap, hist, network
  <1>1. CASE RunListen \/ RunListenFails
    BY <1>1 DEF RunListen, RunListenFails
  <1>2. CASE RunConnect \/ RunIdle
    BY <1>2 DEF RunConnect, RunIdle
  <1>3. CASE RunData
    <2>1. served' \in [Peers -> Nat] /\ new_data' = None
      BY <1>3, TargetFacts DEF RunData
    <2> QED BY <1>3, <2>1, SendKeepsTypes DEF RunData
  <1> QED BY <1>1, <1>2, <1>3

LEMMA UvRunKeepsTypes ==
  ASSUME IInv,
         \/ Poll \/ EndUvRun
         \/ \E a \in Addrs : AcceptConnection(a) \/ AcceptFails(a) \/ OnRead(a)
  PROVE  TypeOK'
  <1> USE DEF IInv, TypeOK, maps, slots, heap, hist, network
  <1>1. CASE Poll
    BY <1>1 DEF Poll, Readable
  <1>2. CASE EndUvRun
    BY <1>2 DEF EndUvRun
  <1>3. ASSUME NEW a \in Addrs, AcceptConnection(a) PROVE TypeOK'
    <2>1. cur_id + 1 \in Ids /\ Head(backlog) \in Peers
      BY <1>3, IdLeft, AcceptTaken
    <2>2. backlog' \in Seq(Peers)
      BY <1>3, AcceptTaken DEF AcceptConnection, Backlog
    <2> QED BY <1>3, <2>1, <2>2 DEF AcceptConnection
  <1>4. ASSUME NEW a \in Addrs, AcceptFails(a) PROVE TypeOK'
    <2>1. Head(backlog) \in Peers
      BY <1>4, AcceptTaken
    <2>2. backlog' \in Seq(Peers)
      BY <1>4, AcceptTaken DEF AcceptFails, Backlog
    <2> QED BY <1>4, <2>1, <2>2 DEF AcceptFails
  <1>5. ASSUME NEW a \in Addrs, OnRead(a) PROVE TypeOK'
    <2>1. mem[a] = "live" /\ owner[a] \in Peers
      BY <1>5 DEF OnRead, Stages, Owners
    <2>2. id_map[a] \in Ids
      BY <2>1 DEF IdsFollowConnections
    <2>3. new_data' \in [id : Ids, from : Peers] \cup {None}
      BY <1>5, <2>1, <2>2 DEF OnRead
    <2>4. queued' \in [Addrs -> Nat] /\ inflight' \in [Peers -> 0 .. Room]
      <3>1. CASE UNCHANGED <<queued, inflight>>
        BY <3>1
      <3>2. CASE /\ queued[a] > 0 /\ inflight[owner[a]] < Room
                 /\ queued' = [queued EXCEPT ![a] = @ - 1]
                 /\ inflight' = [inflight EXCEPT ![owner[a]] = @ + 1]
        <4>1. inflight[owner[a]] + 1 \in 0 .. Room /\ queued[a] - 1 \in Nat
          BY <2>1, <3>2, ServerAssumption
        <4> QED BY <3>2, <4>1
      <3> QED BY <1>5, <3>1, <3>2 DEF OnRead, Flush
    <2> QED BY <1>5, <2>1, <2>3, <2>4 DEF OnRead
  <1> QED BY <1>1, <1>2, <1>3, <1>4, <1>5

LEMMA TypesKeep ==
  ASSUME IInv, Next
  PROVE  TypeOK'
  BY PeersKeepTypes, RunKeepsTypes, UvRunKeepsTypes DEF Next, LoopStep

-----------------------------------------------------------------------------
(* The loop's stages and the handles *)

LEMMA StagesKeep ==
  ASSUME IInv, Next
  PROVE  Stages'
  <1> USE DEF IInv, Stages
  <1>1. CASE RunListen \/ RunListenFails \/ RunConnect \/ RunIdle
    BY <1>1 DEF RunListen, RunListenFails, RunConnect, RunIdle, heap
  <1>2. CASE RunData
    <2>1. ready' = ready /\ state' = state /\ state = S1 /\ mem' = mem /\ ready = {}
      BY <1>2 DEF RunData
    <2> QED BY <2>1
  <1>3. CASE Poll
    <2>1. \A a \in Addrs : a \in ready' => mem'[a] = "live"
      BY <1>3, ServerAssumption DEF Poll, Readable, HasInput, Writable, heap
    <2> QED BY <1>3, <2>1 DEF Poll
  <1>4. CASE EndUvRun
    BY <1>4 DEF EndUvRun
  <1>5. ASSUME NEW a \in Addrs, AcceptConnection(a) \/ AcceptFails(a) PROVE Stages'
    BY <1>5 DEF AcceptConnection, AcceptFails, TypeOK
  <1>6. ASSUME NEW a \in Addrs, OnRead(a) PROVE Stages'
    BY <1>6 DEF OnRead, TypeOK
  <1>7. CASE UNCHANGED <<state, stage, ready, mem>>
    BY <1>7
  <1> QED BY <1>1, <1>2, <1>3, <1>4, <1>5, <1>6, <1>7, Footprints

LEMMA OwnersKeep ==
  ASSUME IInv, Next
  PROVE  Owners'
  <1>1. ASSUME NEW a \in Addrs, AcceptConnection(a) PROVE Owners'
    <2> DEFINE h == Head(backlog)
    <2>1. /\ h \in Peers /\ h \notin Taken /\ Taken' = Taken \cup {h} /\ h # None
          /\ mem[a] = "free" /\ mem' = [mem EXCEPT ![a] = "live"]
          /\ owner' = [owner EXCEPT ![a] = h] /\ peer' = peer
          /\ a \in DOMAIN mem /\ a \in DOMAIN owner
      BY <1>1, AcceptTaken, ServerAssumption DEF AcceptConnection, IInv, TypeOK
    <2>2. /\ \A b \in Addrs : b # a => owner'[b] = owner[b] /\ mem'[b] = mem[b]
          /\ owner'[a] = h /\ mem'[a] = "live" /\ owner[a] = None
      BY <2>1 DEF IInv, TypeOK, Owners
    <2>3. \A b \in Addrs : owner[b] # h
      BY <2>1 DEF IInv, Owners
    <2>4. \A p \in Taken' :
            peer'[p] = "open" => \E b \in Addrs : mem'[b] = "live" /\ owner'[b] = p
      <3> SUFFICES ASSUME NEW p \in Taken', peer'[p] = "open"
                   PROVE  \E b \in Addrs : mem'[b] = "live" /\ owner'[b] = p
        OBVIOUS
      <3>1. CASE p = h
        BY <2>2, <3>1
      <3>2. CASE p \in Taken
        <4>1. PICK b \in Addrs : mem[b] = "live" /\ owner[b] = p
          BY <2>1, <3>2 DEF IInv, Owners
        <4> QED BY <2>1, <2>2, <4>1
      <3> QED BY <2>1, <3>1, <3>2
    <2> HIDE DEF h
    <2> QED BY <2>1, <2>2, <2>3, <2>4 DEF IInv, Owners
  <1>2. ASSUME NEW a \in Addrs, AcceptFails(a) PROVE Owners'
    <2>1. Taken' = Taken \cup {Head(backlog)} /\ Head(backlog) \in Peers
      BY <1>2, AcceptTaken DEF IInv
    <2>2. /\ mem[a] = "free" /\ owner' = owner /\ owner[a] = None
          /\ mem'[a] = "closing"
          /\ \A b \in Addrs : b # a => mem'[b] = mem[b]
      BY <1>2 DEF AcceptFails, IInv, TypeOK, Owners
    <2>3. /\ peer'[Head(backlog)] = "reset"
          /\ \A p \in Taken : p # Head(backlog) => peer'[p] = peer[p]
      BY <1>2, <2>1 DEF AcceptFails, IInv, TypeOK, Taken
    <2> QED BY <2>1, <2>2, <2>3 DEF IInv, Owners
  <1>3. ASSUME NEW a \in Addrs, OnRead(a) PROVE Owners'
    <2>1. /\ owner' = owner /\ backlog' = backlog /\ peer' = peer
          /\ mem \in [Addrs -> {"free", "live", "closing"}] /\ mem[a] = "live"
          /\ owner[a] # None
      BY <1>3 DEF OnRead, IInv, TypeOK, Stages, Owners
    <2>2. \A b \in Addrs : b # a => mem'[b] = mem[b]
      BY <1>3, <2>1 DEF OnRead
    <2>3. mem'[a] = "live" \/ (mem'[a] = "closing" /\ peer[owner[a]] # "open")
      BY <1>3, <2>1 DEF OnRead
    <2>4. Taken' = Taken
      BY <2>1 DEF Taken, Queue
    <2> QED BY <2>1, <2>2, <2>3, <2>4 DEF IInv, Owners
  <1>4. CASE EndUvRun
    <2>1. \A a \in Addrs : \/ mem'[a] = mem[a] /\ owner'[a] = owner[a]
                           \/ mem[a] = "closing" /\ mem'[a] = "free" /\ owner'[a] = None
      BY <1>4 DEF EndUvRun
    <2>2. Taken' = Taken /\ peer' = peer
      BY <1>4 DEF EndUvRun, Taken, Queue, network
    <2> QED BY <2>1, <2>2 DEF IInv, Owners
  <1>5. CASE UNCHANGED <<mem, owner>>
    <2>1. CASE UNCHANGED <<backlog, peer>>
      BY <1>5, <2>1 DEF IInv, Owners, Taken, Queue
    <2>2. ASSUME NEW p \in Peers, Connect(p) PROVE Owners'
      <3>1. Taken' = Taken /\ p \notin Taken /\ \A q \in Taken : peer'[q] = peer[q]
        BY <2>2, ConnectTaken DEF IInv, Connect, TypeOK, Taken
      <3> QED BY <1>5, <3>1 DEF IInv, Owners
    <2>3. ASSUME NEW p \in Peers, NEW how \in {"closed", "reset"}, Close(p, how) PROVE Owners'
      <3>1. Taken' = Taken /\ \A q \in Taken : peer'[q] = "open" => peer[q] = "open"
        BY <2>3, CloseTaken DEF IInv, Close, TypeOK, Taken
      <3> QED BY <1>5, <3>1 DEF IInv, Owners
    <2> QED BY <1>1, <1>2, <2>1, <2>2, <2>3, Footprints
  <1> QED BY <1>1, <1>2, <1>3, <1>4, <1>5, Footprints

-----------------------------------------------------------------------------
(* The maps and the slots *)

LEMMA HandlesKeep ==
  ASSUME IInv, Next
  PROVE  Handles'
  <1>1. cur_id' = cur_id \/ (cur_id' = cur_id + 1 /\ cur_id + 1 \in Ids)
    BY Footprints, IdLeft DEF maps, AcceptConnection
  <1>2. cur_id \in Int /\ \A i \in Ids : i \in Int
    BY DEF IInv, TypeOK, Ids
  <1>3. \A i \in Ids : handle_map'[i] # None <=> i <= cur_id'
    <2>1. ASSUME NEW a \in Addrs, AcceptConnection(a)
          PROVE  \A i \in Ids : handle_map'[i] # None <=> i <= cur_id'
      <3>1. /\ cur_id' = cur_id + 1 /\ cur_id + 1 \in Ids /\ a # None
            /\ handle_map' = [handle_map EXCEPT ![cur_id + 1] = a]
        BY <2>1, IdLeft, ServerAssumption DEF AcceptConnection
      <3> QED BY <1>2, <3>1 DEF IInv, TypeOK, Handles
    <2>2. CASE UNCHANGED maps
      BY <2>2 DEF maps, IInv, Handles
    <2> QED BY <2>1, <2>2, Footprints
  <1>4. new_data' # None => new_data'.id <= cur_id' /\ new_data'.from \in Taken'
    <2>1. CASE UNCHANGED new_data
      <3>1. Taken \subseteq Taken'
        BY BacklogKeeps DEF IInv
      <3>2. new_data # None => new_data.id \in Ids
        BY DEF IInv, TypeOK
      <3> QED BY <1>1, <1>2, <2>1, <3>1, <3>2 DEF IInv, Handles
    <2>2. CASE RunData
      BY <2>2 DEF RunData
    <2>3. ASSUME NEW a \in Addrs, OnRead(a)
          PROVE  new_data' # None => new_data'.id <= cur_id' /\ new_data'.from \in Taken'
      <3>1. /\ mem[a] = "live" /\ owner[a] \in Taken /\ UNCHANGED <<cur_id, backlog, peer>>
            /\ new_data' = new_data \/ new_data' = [id |-> id_map[a], from |-> owner[a]]
        BY <2>3 DEF OnRead, IInv, Stages, Owners, maps
      <3>2. id_map[a] \in Ids /\ handle_map[id_map[a]] = a /\ a # None
        BY <3>1, ServerAssumption DEF IInv, TypeOK, IdsFollowConnections
      <3>3. id_map[a] <= cur_id
        BY <3>2 DEF IInv, Handles
      <3>4. Taken' = Taken
        BY <3>1 DEF Taken, Queue
      <3> QED BY <3>1, <3>3, <3>4 DEF IInv, Handles
    <2> QED BY <2>1, <2>2, <2>3, Footprints
  <1> QED BY <1>3, <1>4 DEF Handles

LEMMA IdsKeep ==
  ASSUME IInv, Next
  PROVE  IdsFollowConnections'
  <1> DEFINE Follows(b) ==
        /\ id_map[b] # None /\ handle_map[id_map[b]] = b
        /\ \A i \in Ids : handle_map[i] = b => i <= id_map[b]
        /\ new_data # None /\ new_data.from = owner[b] => new_data.id = id_map[b]
  <1> SUFFICES ASSUME NEW b \in Addrs, mem'[b] = "live"
               PROVE  Follows(b)'
    BY DEF IdsFollowConnections
  <1>0. mem[b] = "live" => Follows(b) /\ id_map[b] \in Ids
    BY DEF IInv, TypeOK, IdsFollowConnections
  <1>1. ASSUME NEW a \in Addrs, AcceptConnection(a) PROVE Follows(b)'
    <2>1. /\ cur_id + 1 \in Ids /\ a # None /\ Head(backlog) \notin Taken
          /\ id_map' = [id_map EXCEPT ![a] = cur_id + 1]
          /\ handle_map' = [handle_map EXCEPT ![cur_id + 1] = a]
          /\ mem' = [mem EXCEPT ![a] = "live"]
          /\ owner' = [owner EXCEPT ![a] = Head(backlog)]
          /\ new_data' = new_data
      BY <1>1, IdLeft, AcceptTaken, ServerAssumption DEF AcceptConnection, IInv
    <2>2. /\ handle_map \in [Ids -> Addrs \cup {None}] /\ id_map \in [Addrs -> Ids \cup {None}]
          /\ mem \in [Addrs -> {"free", "live", "closing"}]
          /\ owner \in [Addrs -> Peers \cup {None}]
          /\ cur_id \in Int /\ \A i \in Ids : i \in Int
          /\ None \notin Int
      BY ServerAssumption DEF IInv, TypeOK, Ids
    <2>3. \A i \in Ids : handle_map[i] # None <=> i <= cur_id
      BY DEF IInv, Handles
    <2>4. CASE b = a
      <3>1. id_map'[b] = cur_id + 1 /\ handle_map'[cur_id + 1] = b /\ owner'[b] = Head(backlog)
        BY <2>1, <2>2, <2>4
      <3>2. \A i \in Ids : handle_map'[i] = b => i <= cur_id + 1
        BY <2>1, <2>2, <2>3, <2>4
      <3>3. new_data # None => new_data.from # Head(backlog)
        BY <2>1 DEF IInv, Handles
      <3> QED BY <2>1, <2>2, <3>1, <3>2, <3>3
    <2>5. CASE b # a
      <3>1. mem[b] = "live" /\ id_map'[b] = id_map[b] /\ owner'[b] = owner[b]
        BY <2>1, <2>2, <2>5
      <3>2. Follows(b) /\ id_map[b] \in Ids
        BY <1>0, <3>1
      <3>3. id_map[b] <= cur_id /\ id_map[b] # cur_id + 1
        BY <2>2, <2>3, <3>2, ServerAssumption
      <3>4. handle_map'[id_map[b]] = b
        BY <2>1, <2>2, <3>2, <3>3
      <3>5. \A i \in Ids : handle_map'[i] = b => i <= id_map[b]
        BY <2>1, <2>2, <2>5, <3>2
      <3> QED BY <2>1, <3>1, <3>2, <3>4, <3>5
    <2> QED BY <2>4, <2>5
  <1>2. ASSUME NEW a \in Addrs, OnRead(a) PROVE Follows(b)'
    <2>1. /\ id_map' = id_map /\ handle_map' = handle_map /\ owner' = owner
          /\ new_data' = new_data \/ new_data' = [id |-> id_map[a], from |-> owner[a]]
          /\ mem[a] = "live" /\ mem[b] = "live" /\ owner[a] # None
      BY <1>2 DEF OnRead, maps, IInv, TypeOK, Stages, Owners
    <2>2. owner[a] = owner[b] => a = b
      BY <2>1 DEF IInv, Owners
    <2> QED BY <1>0, <2>1, <2>2
  <1>3. CASE UNCHANGED maps /\ (UNCHANGED new_data \/ new_data' = None)
    <2>1. mem[b] = "live" /\ owner'[b] = owner[b]
      <3>1. CASE UNCHANGED <<mem, owner>>
        BY <3>1
      <3>2. CASE EndUvRun
        BY <3>2 DEF EndUvRun
      <3>3. CASE \E a \in Addrs : AcceptFails(a)
        BY <3>3 DEF AcceptFails, IInv, TypeOK
      <3>4. CASE \E a \in Addrs : OnRead(a)
        BY <3>4 DEF OnRead, IInv, TypeOK, Stages
      <3>5. ~ \E a \in Addrs : AcceptConnection(a)
        BY <1>3 DEF AcceptConnection, maps, IInv, TypeOK, Ids
      <3> QED BY <3>1, <3>2, <3>3, <3>4, <3>5, Footprints
    <2> QED BY <1>0, <1>3, <2>1 DEF maps
  <1>4. RunData => new_data' = None
    BY DEF RunData
  <1> QED BY <1>1, <1>2, <1>3, <1>4, Footprints

LEMMA SlotKeeps ==
  ASSUME IInv, Next
  PROVE  Slot' /\ NoConnectLost'
  <1> USE DEF IInv, Slot, NoConnectLost
  <1>1. ASSUME NEW a \in Addrs, AcceptConnection(a) PROVE Slot' /\ NoConnectLost'
    <2>1. /\ new_connect = None /\ cur_id' = cur_id + 1 /\ new_connect' = cur_id + 1
          /\ reported' = reported /\ cur_id \in Int
          /\ stage' = "dispatch" /\ state' = S1 /\ Listener \notin ready'
      BY <1>1 DEF AcceptConnection, Stages, TypeOK, Ids, hist
    <2>2. \A i \in 0 .. cur_id : i \in reported
      BY <2>1, ServerAssumption
    <2> QED BY <2>1, <2>2
  <1>2. CASE RunConnect
    <2>1. /\ new_connect' = None /\ cur_id' = cur_id /\ reported' = reported \cup {new_connect}
      BY <1>2 DEF RunConnect, maps
    <2> QED BY <2>1
  <1>3. CASE UNCHANGED <<new_connect, reported>>
    <2>1. NoConnectLost'
      BY <1>1, <1>3, Footprints DEF maps
    <2>2. Slot'
      <3>1. CASE new_connect = None
        BY <1>3, <3>1
      <3>2. CASE RunListen \/ RunListenFails \/ RunIdle \/ RunData \/ Poll
        BY <1>3, <3>2 DEF RunListen, RunListenFails, RunIdle, RunData, Poll
      <3>3. CASE EndUvRun
        BY <1>3, <3>3 DEF EndUvRun
      <3>4. CASE UNCHANGED <<state, stage>> /\ Listener \notin ready'
        BY <1>3, <3>4
      <3>5. CASE UNCHANGED <<state, stage, ready>>
        BY <1>3, <3>5
      <3>6. ASSUME NEW a \in Addrs, AcceptFails(a) \/ OnRead(a)
            PROVE  UNCHANGED <<state, stage>> /\ ready' \subseteq ready
        BY <3>6 DEF AcceptFails, OnRead
      <3>7. CASE UNCHANGED <<state, stage>> /\ ready' \subseteq ready
        BY <1>3, <3>7
      <3> QED BY <1>1, <1>2, <3>1, <3>2, <3>3, <3>5, <3>6, <3>7, Footprints
    <2> QED BY <2>1, <2>2
  <1> QED BY <1>1, <1>2, <1>3, Footprints

-----------------------------------------------------------------------------
(* Requests and responses *)

LEMMA ReadsKeep ==
  ASSUME IInv, Next
  PROVE  Reads'
  <1>1. Taken \subseteq Taken'
    BY BacklogKeeps DEF IInv
  <1>2. /\ sent \in [Peers -> 0 .. MaxSend] /\ read \in [Peers -> 0 .. MaxSend]
        /\ owner \in [Addrs -> Peers \cup {None}] /\ MaxSend \in Nat
    BY ServerAssumption DEF IInv, TypeOK
  <1>3. ASSUME NEW a \in Addrs, OnRead(a) PROVE Reads'
    <2>1. /\ owner[a] \in Taken /\ owner[a] \in Peers /\ sent' = sent
          /\ read' = [read EXCEPT ![owner[a]] = sent[owner[a]]]
      BY <1>2, <1>3 DEF OnRead, IInv, Stages, Owners
    <2> QED BY <1>1, <1>2, <2>1 DEF IInv, Reads
  <1>4. ASSUME NEW p \in Peers, Send(p) PROVE Reads'
    <2>1. read' = read /\ sent' = [sent EXCEPT ![p] = @ + 1]
      BY <1>4 DEF Send
    <2> QED BY <1>1, <1>2, <2>1 DEF IInv, Reads
  <1>5. CASE UNCHANGED <<sent, read>>
    BY <1>1, <1>5 DEF IInv, Reads
  <1> QED BY <1>3, <1>4, <1>5, Footprints

LEMMA AtMostOneKeeps ==
  ASSUME IInv, Next
  PROVE  AtMostOneAnswer'
  <1>1. /\ served \in [Peers -> Nat] /\ read \in [Peers -> 0 .. MaxSend]
        /\ sent \in [Peers -> 0 .. MaxSend] /\ MaxSend \in Nat
    BY ServerAssumption DEF IInv, TypeOK
  <1>2. \A p \in Peers : read[p] <= sent[p]
    BY DEF IInv, Reads
  <1>3. CASE RunData
    <2>1. /\ new_data' = None /\ read' = read /\ new_data.from \in Peers /\ new_data # None
          /\ served' = [served EXCEPT ![new_data.from] = @ + 1]
      BY <1>3, TargetFacts DEF RunData
    <2> QED BY <1>1, <2>1 DEF IInv, AtMostOneAnswer
  <1>4. ASSUME NEW a \in Addrs, OnRead(a) PROVE AtMostOneAnswer'
    <2>1. /\ served' = served
          /\ read' = [read EXCEPT ![owner[a]] = sent[owner[a]]]
          /\ new_data' = IF read[owner[a]] < sent[owner[a]]
                         THEN [id |-> id_map[a], from |-> owner[a]] ELSE new_data
      BY <1>4 DEF OnRead, hist
    <2>2. \A p \in Peers : read'[p] \in Nat /\ read'[p] >= read[p]
      BY <1>1, <1>2, <2>1
    <2>3. CASE new_data' = new_data
      BY <1>1, <2>1, <2>2, <2>3 DEF IInv, AtMostOneAnswer
    <2>4. CASE /\ read[owner[a]] < sent[owner[a]]
               /\ new_data' = [id |-> id_map[a], from |-> owner[a]]
      <3>1. \A p \in Peers : served[p] <= read[p]
        BY <1>1 DEF IInv, AtMostOneAnswer
      <3>2. new_data'.from = owner[a]
        BY <2>4
      <3>3. \A p \in Peers : p = owner[a] => read'[p] >= read[p] + 1
        BY <1>1, <2>1, <2>4
      <3> QED BY <1>1, <2>1, <2>2, <3>1, <3>2, <3>3 DEF AtMostOneAnswer
    <2> QED BY <2>1, <2>3, <2>4
  <1>5. CASE UNCHANGED <<new_data, served, read>>
    BY <1>5 DEF IInv, AtMostOneAnswer
  <1> QED BY <1>3, <1>4, <1>5, Footprints

(* The data of a patient peer is answered to that peer, at once: it waits, *)
(* so it has not hung up, so its handle is the one its id leads to; and it *)
(* has taken all of its earlier answers, so there is room for this one.    *)
LEMMA HomeTarget ==
  ASSUME IInv, RunData, new_data.from \in Patient,
         got[new_data.from] \subseteq {new_data.from}
  PROVE  /\ mem[Target] = "live" /\ owner[Target] = new_data.from
         /\ queued[Target] = 0 /\ inflight[new_data.from] = 0
  <1> DEFINE p == new_data.from
  <1>1. p \in Peers /\ new_data # None /\ new_data.id \in Ids
    BY TargetFacts
  <1>2. /\ served[p] \in Nat /\ read[p] \in Nat /\ sent[p] \in Nat
        /\ answers[p] \in Nat /\ inflight[p] \in Nat
    BY <1>1 DEF IInv, TypeOK
  <1>3. served[p] + 1 <= read[p] /\ read[p] <= sent[p]
    BY <1>1 DEF IInv, AtMostOneAnswer, Reads
  <1>4. /\ sent[p] <= answers[p] + 1
        /\ answers[p] + inflight[p] <= served[p]
        /\ \A a \in Addrs : owner[a] = p => queued[a] = 0
    BY DEF IInv, Patience
  <1>5. Waiting(p) /\ read[p] # 0 /\ inflight[p] = 0
    BY <1>2, <1>3, <1>4 DEF Waiting
  <1>6. peer[p] = "open" /\ p \in Taken
    BY <1>1, <1>5 DEF IInv, Patience, Handles
  <1>7. PICK a \in Addrs : mem[a] = "live" /\ owner[a] = p
    BY <1>6 DEF IInv, Owners
  <1>8. new_data.id = id_map[a] /\ handle_map[id_map[a]] = a
    BY <1>1, <1>7 DEF IInv, IdsFollowConnections
  <1> QED BY <1>4, <1>5, <1>7, <1>8 DEF Target

LEMMA RoutedKeeps ==
  ASSUME IInv, Next
  PROVE  RoutedHome' /\ EachItsOwn'
  <1>1. CASE RunData
    <2>1. /\ new_data.from \in Peers
          /\ mem[Target] = "live" => owner[Target] \in Peers
          /\ SendData(Target, new_data.from)
      BY <1>1, TargetFacts
    <2>2. \/ got' = got
          \/ /\ owner[Target] \in Peers
             /\ got' = [got EXCEPT ![owner[Target]] = @ \cup {new_data.from}]
      BY <2>1 DEF SendData
    <2>3. got \in [Peers -> SUBSET Peers] /\ Patient \subseteq Peers
      BY ServerAssumption DEF IInv, TypeOK
    <2>4. CASE new_data.from \in Patient /\ got[new_data.from] \subseteq {new_data.from}
      <3>1. owner[Target] = new_data.from
        BY <1>1, <2>4, HomeTarget
      <3> QED BY <2>1, <2>2, <2>3, <3>1 DEF IInv, RoutedHome, EachItsOwn
    <2>5. CASE ~(new_data.from \in Patient /\ got[new_data.from] \subseteq {new_data.from})
      <3>1. Patient # Peers
        BY <2>1, <2>5 DEF IInv, EachItsOwn
      <3>2. \A p \in Peers : got[p] \subseteq got'[p]
        BY <2>2, <2>3
      <3>3. \A p \in Patient, q \in Peers :
              p \in got'[q] /\ got'[p] \subseteq {p} => p \in got[q] /\ got[p] \subseteq {p}
        BY <2>2, <2>3, <2>5, <3>2
      <3>4. RoutedHome'
        BY <3>3 DEF IInv, RoutedHome
      <3> QED BY <3>1, <3>4 DEF EachItsOwn
    <2> QED BY <2>4, <2>5
  <1>2. CASE UNCHANGED got
    BY <1>2 DEF IInv, RoutedHome, EachItsOwn
  <1> QED BY <1>1, <1>2, Footprints

(* A patient peer sends when it has its answers, and hangs up then. *)
LEMMA WaitingKeeps ==
  ASSUME IInv, Next, NEW p \in Patient
  PROVE  /\ sent'[p] <= answers'[p] + 1
         /\ Waiting(p)' /\ peer'[p] # "open" =>
              p \in Taken' /\ read'[p] = 0 /\ \A a \in Addrs : owner'[a] # p
  <1> DEFINE Goal == /\ sent'[p] <= answers'[p] + 1
                     /\ Waiting(p)' /\ peer'[p] # "open" =>
                          p \in Taken' /\ read'[p] = 0 /\ \A a \in Addrs : owner'[a] # p
  <1>1. /\ p \in Peers /\ sent \in [Peers -> 0 .. MaxSend] /\ answers \in [Peers -> Nat]
        /\ peer \in [Peers -> {"idle", "open", "closed", "reset"}]
        /\ owner \in [Addrs -> Peers \cup {None}]
        /\ sent[p] \in Nat /\ answers[p] \in Nat
    BY ServerAssumption DEF IInv, TypeOK
  <1>2. /\ sent[p] <= answers[p] + 1
        /\ Waiting(p) /\ peer[p] # "open" =>
             p \in Taken /\ read[p] = 0 /\ \A a \in Addrs : owner[a] # p
    BY DEF IInv, Patience
  <1>3. Taken \subseteq Taken'
    BY BacklogKeeps DEF IInv
  <1>4. ASSUME NEW q \in Peers, Send(q) PROVE Goal
    <2>1. /\ sent' = [sent EXCEPT ![q] = @ + 1] /\ answers' = answers /\ peer' = peer
          /\ read' = read /\ owner' = owner /\ peer[q] = "open" /\ (q = p => ~Waiting(p))
      BY <1>4 DEF Send, heap
    <2> QED BY <1>1, <1>2, <1>3, <2>1 DEF Waiting
  <1>5. ASSUME NEW q \in Peers, Receive(q) PROVE Goal
    <2>1. /\ answers' = [answers EXCEPT ![q] = @ + 1] /\ sent' = sent /\ peer' = peer
          /\ read' = read /\ owner' = owner
      BY <1>5 DEF Receive, heap
    <2> QED BY <1>1, <1>2, <1>3, <2>1 DEF Waiting
  <1>6. ASSUME NEW q \in Peers, NEW how \in {"closed", "reset"}, Close(q, how) PROVE Goal
    <2>1. /\ sent' = sent /\ answers' = answers /\ read' = read /\ owner' = owner
          /\ peer' = [peer EXCEPT ![q] = how] /\ (q = p => ~Waiting(p))
      BY <1>6 DEF Close, heap
    <2> QED BY <1>1, <1>2, <1>3, <2>1 DEF Waiting
  <1>7. ASSUME NEW q \in Peers, Connect(q) PROVE Goal
    <2>1. /\ sent' = sent /\ answers' = answers /\ read' = read /\ owner' = owner
          /\ peer' = [peer EXCEPT ![q] = "open"]
      BY <1>7 DEF Connect, heap
    <2> QED BY <1>1, <1>2, <1>3, <2>1 DEF Waiting
  <1>8. ASSUME NEW a \in Addrs, AcceptFails(a) PROVE Goal
    <2>1. /\ Head(backlog) \in Peers /\ Head(backlog) \notin Taken
          /\ Taken' = Taken \cup {Head(backlog)}
          /\ sent' = sent /\ answers' = answers /\ read' = read /\ owner' = owner
          /\ peer' = [peer EXCEPT ![Head(backlog)] = "reset"]
      BY <1>8, AcceptTaken DEF AcceptFails, IInv
    <2>2. CASE p = Head(backlog)
      <3>1. read[p] = 0 /\ \A b \in Addrs : owner[b] # p
        BY <1>1, <2>1, <2>2, ServerAssumption DEF IInv, Reads, Owners
      <3> QED BY <1>2, <2>1, <2>2, <3>1
    <2>3. CASE p # Head(backlog)
      BY <1>1, <1>2, <2>1, <2>3 DEF Waiting
    <2> QED BY <2>2, <2>3
  <1>9. ASSUME NEW a \in Addrs, AcceptConnection(a) PROVE Goal
    <2>1. /\ Head(backlog) \notin Taken
          /\ sent' = sent /\ answers' = answers /\ read' = read /\ peer' = peer
          /\ owner' = [owner EXCEPT ![a] = Head(backlog)]
      BY <1>9, AcceptTaken DEF AcceptConnection, IInv
    <2> QED BY <1>1, <1>2, <1>3, <2>1 DEF Waiting
  <1>10. ASSUME NEW a \in Addrs, OnRead(a) PROVE Goal
    <2>1. /\ sent' = sent /\ answers' = answers /\ peer' = peer /\ owner' = owner
          /\ read' = [read EXCEPT ![owner[a]] = sent[owner[a]]]
          /\ read \in [Peers -> 0 .. MaxSend]
      BY <1>10 DEF OnRead, IInv, TypeOK
    <2>2. p # owner[a] => read'[p] = read[p]
      BY <1>1, <2>1
    <2> QED BY <1>2, <1>3, <2>1, <2>2 DEF Waiting
  <1>11. CASE EndUvRun
    <2>1. /\ sent' = sent /\ answers' = answers /\ peer' = peer /\ read' = read
          /\ \A a \in Addrs : owner'[a] = owner[a] \/ owner'[a] = None
      BY <1>11 DEF EndUvRun, network
    <2>2. p # None
      BY <1>1, ServerAssumption
    <2> QED BY <1>2, <1>3, <2>1, <2>2 DEF Waiting
  <1>12. CASE UNCHANGED <<sent, answers, peer, read, owner>>
    BY <1>2, <1>3, <1>12 DEF Waiting
  <1> QED BY <1>4, <1>5, <1>6, <1>7, <1>8, <1>9, <1>10, <1>11, <1>12, Footprints

(* As long as nobody else's answer reached a patient peer, its answers are *)
(* its own, and none of them waits in a write queue.                       *)
LEMMA AnswersKeep ==
  ASSUME IInv, Next, NEW p \in Patient, got'[p] \subseteq {p}
  PROVE  /\ answers'[p] + inflight'[p] <= served'[p]
         /\ \A a \in Addrs : owner'[a] = p => queued'[a] = 0
  <1> DEFINE Goal == /\ answers'[p] + inflight'[p] <= served'[p]
                     /\ \A a \in Addrs : owner'[a] = p => queued'[a] = 0
  <1>1. /\ p \in Peers /\ p # None
        /\ got \in [Peers -> SUBSET Peers] /\ queued \in [Addrs -> Nat]
        /\ answers \in [Peers -> Nat] /\ served \in [Peers -> Nat]
        /\ inflight \in [Peers -> 0 .. Room] /\ Room \in Nat /\ Room >= 1
        /\ owner \in [Addrs -> Peers \cup {None}]
    BY ServerAssumption DEF IInv, TypeOK
  <1>2. CASE RunData
    <2>1. /\ new_data.from \in Peers /\ Target \in Addrs
          /\ mem[Target] = "live" => owner[Target] \in Peers
          /\ SendData(Target, new_data.from)
          /\ served' = [served EXCEPT ![new_data.from] = @ + 1]
          /\ answers' = answers /\ owner' = owner
      BY <1>2, TargetFacts DEF RunData
    <2>2. \A q \in Peers : got[q] \subseteq got'[q]
      <3>1. \/ got' = got
            \/ /\ owner[Target] \in Peers
               /\ got' = [got EXCEPT ![owner[Target]] = @ \cup {new_data.from}]
        BY <2>1 DEF SendData
      <3> QED BY <1>1, <3>1
    <2>3. /\ got[p] \subseteq {p}
          /\ answers[p] + inflight[p] <= served[p]
          /\ \A a \in Addrs : owner[a] = p => queued[a] = 0
      BY <1>1, <2>2 DEF IInv, Patience
    <2>4. CASE p = new_data.from
      <3>1. /\ mem[Target] = "live" /\ owner[Target] = p
            /\ queued[Target] = 0 /\ inflight[p] = 0
        BY <1>2, <2>3, <2>4, HomeTarget
      <3>2. inflight' = [inflight EXCEPT ![p] = @ + 1] /\ queued' = queued
        BY <1>1, <2>1, <3>1 DEF SendData
      <3> QED BY <1>1, <2>1, <2>3, <2>4, <3>2
    <2>5. CASE p # new_data.from
      <3>1. mem[Target] = "live" => owner[Target] # p
        <4> SUFFICES ASSUME mem[Target] = "live", owner[Target] = p PROVE FALSE
          OBVIOUS
        <4>1. got' = [got EXCEPT ![p] = @ \cup {new_data.from}]
          BY <2>1 DEF SendData
        <4> QED BY <1>1, <2>5, <4>1
      <3>2. inflight'[p] = inflight[p]
        BY <1>1, <2>1, <3>1 DEF SendData
      <3>3. \A a \in Addrs : owner[a] = p => queued'[a] = queued[a]
        BY <1>1, <2>1, <3>1 DEF SendData
      <3> QED BY <1>1, <2>1, <2>3, <2>5, <3>2, <3>3
    <2> QED BY <2>4, <2>5
  <1>3. CASE UNCHANGED <<got, served>>
    <2>1. /\ answers[p] + inflight[p] <= served[p]
          /\ \A a \in Addrs : owner[a] = p => queued[a] = 0
      BY <1>3 DEF IInv, Patience
    <2>2. ASSUME NEW q \in Peers, Receive(q) PROVE Goal
      <3>1. /\ inflight' = [inflight EXCEPT ![q] = @ - 1] /\ UNCHANGED heap
            /\ answers' = [answers EXCEPT ![q] = @ + 1]
        BY <2>2 DEF Receive
      <3> QED BY <1>1, <1>3, <2>1, <3>1 DEF heap
    <2>3. ASSUME NEW a \in Addrs, OnRead(a) PROVE Goal
      <3>1. owner' = owner /\ answers' = answers
        BY <2>3 DEF OnRead
      <3>2. \/ UNCHANGED <<queued, inflight>>
            \/ /\ queued[a] > 0 /\ queued' = [queued EXCEPT ![a] = @ - 1]
               /\ inflight' = [inflight EXCEPT ![owner[a]] = @ + 1]
        BY <2>3 DEF OnRead, Flush
      <3> QED BY <1>1, <1>3, <2>1, <3>1, <3>2
    <2>4. ASSUME NEW a \in Addrs, AcceptConnection(a) PROVE Goal
      <3>1. /\ owner' = [owner EXCEPT ![a] = Head(backlog)] /\ queued' = [queued EXCEPT ![a] = 0]
            /\ UNCHANGED <<answers, inflight>>
        BY <2>4 DEF AcceptConnection
      <3> QED BY <1>1, <1>3, <2>1, <3>1
    <2>5. CASE EndUvRun
      <3>1. /\ UNCHANGED <<answers, inflight>>
            /\ \A a \in Addrs : \/ owner'[a] = None
                                \/ owner'[a] = owner[a] /\ queued'[a] = queued[a]
        BY <2>5 DEF EndUvRun, network
      <3> QED BY <1>1, <1>3, <2>1, <3>1
    <2>6. ASSUME NEW a \in Addrs, AcceptFails(a) PROVE Goal
      BY <1>3, <2>1, <2>6 DEF AcceptFails
    <2>7. CASE UNCHANGED <<answers, inflight, owner, queued>>
      BY <1>3, <2>1, <2>7
    <2> QED BY <1>2, <2>2, <2>3, <2>4, <2>5, <2>6, <2>7, Footprints
  <1> QED BY <1>2, <1>3, Footprints

LEMMA PatienceKeeps ==
  ASSUME IInv, Next
  PROVE  Patience'
  BY WaitingKeeps, AnswersKeep DEF Patience

-----------------------------------------------------------------------------
(* The inductive invariant *)

LEMMA InitIInv == Init => IInv
  <1> SUFFICES ASSUME Init PROVE IInv
    OBVIOUS
  <1>1. backlog = <<>> /\ Len(backlog) = 0 /\ Queue = {} /\ Taken = {}
    BY DEF Init, Queue, Taken
  <1>2. fed \in BOOLEAN
    BY DEF Init
  <1>3. TypeOK
    BY <1>1, <1>2, ServerAssumption DEF Init, TypeOK
  <1>4. Backlog /\ Stages /\ Owners /\ Handles /\ Slot
    BY <1>1, ServerAssumption
    DEF Init, Backlog, Stages, Owners, Handles, Slot, Ids
  <1>5. Counted
    BY <1>1, FS_EmptySet DEF Init, Counted
  <1>6. Reads /\ Patience
    BY <1>1, ServerAssumption DEF Init, Reads, Patience, Waiting
  <1>7. NoConnectLost /\ IdsFollowConnections /\ AtMostOneAnswer
    BY DEF Init, NoConnectLost, IdsFollowConnections, AtMostOneAnswer
  <1>8. RoutedHome /\ EachItsOwn
    BY ServerAssumption DEF Init, RoutedHome, EachItsOwn
  <1> QED BY <1>3, <1>4, <1>5, <1>6, <1>7, <1>8 DEF IInv

LEMMA NextKeeps ==
  ASSUME IInv, [Next]_vars
  PROVE  IInv'
  <1>1. CASE Next
    <2>1. Backlog'
      BY <1>1, BacklogKeeps DEF IInv
    <2> QED BY <1>1, <2>1, TypesKeep, StagesKeep, OwnersKeep, CountedKeeps,
               HandlesKeep, SlotKeeps, ReadsKeep, PatienceKeeps, IdsKeep,
               AtMostOneKeeps, RoutedKeeps
            DEF IInv
  <1>2. CASE UNCHANGED vars
    <2> USE <1>2 DEF vars, IInv
    <2>1. Queue' = Queue /\ Taken' = Taken
      BY DEF Queue, Taken
    <2>2. TypeOK' /\ Stages' /\ Slot'
      BY DEF TypeOK, Stages, Slot
    <2>3. Backlog' /\ Owners' /\ Counted' /\ Handles'
      BY <2>1 DEF Backlog, Owners, Counted, Handles
    <2>4. Reads' /\ Patience'
      BY <2>1 DEF Reads, Patience, Waiting
    <2>5. NoConnectLost' /\ IdsFollowConnections' /\ AtMostOneAnswer'
      BY DEF NoConnectLost, IdsFollowConnections, AtMostOneAnswer
    <2>6. RoutedHome' /\ EachItsOwn'
      BY DEF RoutedHome, EachItsOwn
    <2> QED BY <2>2, <2>3, <2>4, <2>5, <2>6
  <1> QED BY <1>1, <1>2

THEOREM ServerInvariant == Spec => []IInv
  BY InitIInv, NextKeeps, PTL DEF Spec

-----------------------------------------------------------------------------
(* The variables keep their types; above all, there is an id for every     *)
(* connection and a handle behind every id that waiting data carries.      *)
THEOREM TypeCorrect == Spec => []TypeOK
  <1>1. IInv => TypeOK
    BY DEF IInv
  <1> QED BY <1>1, ServerInvariant, PTL

(* OnConnect is called for every connection that was accepted, for any     *)
(* number of peers that connect at once.                                   *)
THEOREM NoConnectIsLost == Spec => []NoConnectLost
  <1>1. IInv => NoConnectLost
    BY DEF IInv
  <1> QED BY <1>1, ServerInvariant, PTL

(* The maps lead from an open connection to its id and back, however often *)
(* its address was used before.                                            *)
THEOREM IdsAreCurrent == Spec => []IdsFollowConnections
  <1>1. IInv => IdsFollowConnections
    BY DEF IInv
  <1> QED BY <1>1, ServerInvariant, PTL

(* No bytes are answered twice. *)
THEOREM AnsweredOnce == Spec => []AtMostOneAnswer
  <1>1. IInv => AtMostOneAnswer
    BY DEF IInv
  <1> QED BY <1>1, ServerInvariant, PTL

(* A patient peer's response goes astray only after somebody else's has    *)
(* come to it.                                                             *)
THEOREM RoutesHome == Spec => []RoutedHome
  <1>1. IInv => RoutedHome
    BY DEF IInv
  <1> QED BY <1>1, ServerInvariant, PTL

(* When all peers are patient every response goes to the peer whose        *)
(* request it answers.                                                     *)
THEOREM PatientPeersGetTheirOwn == Spec => []EachItsOwn
  <1>1. IInv => EachItsOwn
    BY DEF IInv
  <1> QED BY <1>1, ServerInvariant, PTL
=============================================================================
