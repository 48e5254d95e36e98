-------------------------- MODULE EventLoopProofs --------------------------
(***************************************************************************)
(* Proofs about EventLoop, for any sets of tasks and any durations.        *)
(***************************************************************************)
EXTENDS EventLoop, TLAPS

(* Pushing one more task at the back of a channel or vector adds exactly   *)
(* that task to its members.                                               *)
LEMMA AppendMembers ==
  ASSUME NEW T, NEW q \in Seq(T), NEW t \in T
  PROVE  /\ Append(q, t) \in Seq(T)
         /\ Members(Append(q, t)) = Members(q) \cup {t}
         /\ Injective(q) /\ t \notin Members(q) => Injective(Append(q, t))
<1>1. /\ Append(q, t) \in Seq(T)
      /\ DOMAIN Append(q, t) = 1 .. Len(q) + 1
      /\ \A i \in 1 .. Len(q) : Append(q, t)[i] = q[i]
      /\ Append(q, t)[Len(q) + 1] = t
  OBVIOUS
<1>2. /\ DOMAIN q = 1 .. Len(q) /\ Len(q) \in Nat
  OBVIOUS
<1>3. Members(Append(q, t)) = Members(q) \cup {t}
  BY <1>1, <1>2 DEF Members
<1>4. Injective(q) /\ t \notin Members(q) => Injective(Append(q, t))
  BY <1>1, <1>2 DEF Members, Injective
<1> QED BY <1>1, <1>3, <1>4

(* Popping the front of a channel without duplicates removes exactly the   *)
(* popped task.                                                            *)
LEMMA TailMembers ==
  ASSUME NEW T, NEW q \in Seq(T), q # <<>>, Injective(q)
  PROVE  /\ Head(q) \in T /\ Tail(q) \in Seq(T)
         /\ Head(q) \in Members(q)
         /\ Members(Tail(q)) = Members(q) \ {Head(q)}
         /\ Injective(Tail(q))
<1>1. /\ Len(q) \in Nat \ {0} /\ DOMAIN q = 1 .. Len(q)
      /\ Head(q) = q[1] /\ Tail(q) \in Seq(T)
      /\ DOMAIN Tail(q) = 1 .. Len(q) - 1
      /\ \A i \in 1 .. Len(q) - 1 : Tail(q)[i] = q[i + 1]
  OBVIOUS
<1>2. Head(q) \in T /\ Head(q) \in Members(q)
  BY <1>1 DEF Members
<1>3. Members(Tail(q)) \subseteq Members(q) \ {Head(q)}
  BY <1>1 DEF Members, Injective
<1>4. ASSUME NEW x \in Members(q) \ {Head(q)}
      PROVE  x \in Members(Tail(q))
  <2>1. PICK i \in 1 .. Len(q) : x = q[i]
    BY <1>1 DEF Members
  <2>2. i # 1 /\ i - 1 \in 1 .. Len(q) - 1 /\ Tail(q)[i - 1] = x
    BY <1>1, <2>1
  <2> QED BY <1>1, <2>2 DEF Members
<1>5. Injective(Tail(q))
  BY <1>1 DEF Injective
<1> QED BY <1>1, <1>2, <1>3, <1>4, <1>5

(* An empty channel has no members. *)
LEMMA EmptyMembers == Members(<<>>) = {} /\ Injective(<<>>)
BY DEF Members, Injective

-----------------------------------------------------------------------------
(* The three kinds of task. *)
LEMMA TaskSets ==
  /\ Once \subseteq Tasks /\ Timers \subseteq Tasks
  /\ OneShot \subseteq Timers /\ Repeating \subseteq Timers
  /\ Once \cap Timers = {} /\ OneShot \cap Repeating = {}
  /\ NoTask \notin Tasks
BY TasksAssumption DEF Tasks, Timers

(* What a callback can do to the channel and to the numbering of posts. *)
LEMMA CallBackType ==
  ASSUME TypeOK, NEW u \in Tasks \cup {NoTask}, CallBack(u)
  PROVE  /\ queue' \in Seq(Tasks)
         /\ posts' \in Nat
         /\ ticket' \in [Tasks -> Nat]
<1>1. CASE u = NoTask
  BY <1>1, TaskSets DEF TypeOK, CallBack, PostTask
<1>2. CASE u \in Tasks /\ PostTask(u)
  BY <1>2, AppendMembers DEF TypeOK, PostTask, Push
<1> QED BY <1>1, <1>2 DEF CallBack

(* Type correctness: every step of Loop::run, of libuv and of a posting    *)
(* thread keeps every variable in its type.                                *)
LEMMA TypeStep == TypeOK /\ [Next]_vars => TypeOK'
<1> SUFFICES ASSUME TypeOK, [Next]_vars PROVE TypeOK'
  OBVIOUS
<1> USE TaskSets
<1> USE DEF TypeOK, S0, S1, Finished, uvVars
<1>1. ASSUME NEW t \in Tasks, Post(t) PROVE TypeOK'
  BY <1>1, AppendMembers DEF Post, PostTask, Push
<1>2. CASE CheckSize
  BY <1>2 DEF CheckSize
<1>3. CASE Pop
  BY <1>3 DEF Pop
<1>4. ASSUME NEW u \in Tasks \cup {NoTask}, RunOnce(u) PROVE TypeOK'
  <2>1. CallBack(u) /\ Destroy BY <1>4 DEF RunOnce
  <2>2. calls' \in [Once \cup OneShot -> Nat]
    BY <1>4 DEF RunOnce
  <2> QED BY <1>4, <2>1, <2>2, CallBackType DEF RunOnce, Destroy
<1>5. CASE StartTimer
  <2>1. not_finished' \in Seq(Tasks)
    BY <1>5, AppendMembers DEF StartTimer, Keep
  <2> QED BY <1>5, <2>1 DEF StartTimer, Keep
<1>6. CASE TimerIdle
  BY <1>6, AppendMembers DEF TimerIdle, Keep
<1>7. ASSUME NEW u \in Tasks \cup {NoTask}, TimerRepeat(u) PROVE TypeOK'
  <2>1. not_finished' \in Seq(Tasks)
    BY <1>7, AppendMembers DEF TimerRepeat, Keep
  <2>2. CallBack(u) BY <1>7 DEF TimerRepeat
  <2> QED BY <1>7, <2>1, <2>2, CallBackType DEF TimerRepeat, Keep
<1>8. ASSUME NEW u \in Tasks \cup {NoTask}, TimerOnce(u) PROVE TypeOK'
  <2>1. CallBack(u) /\ Destroy BY <1>8 DEF TimerOnce
  <2>2. calls' \in [Once \cup OneShot -> Nat]
    BY <1>8 DEF TimerOnce
  <2> QED BY <1>8, <2>1, <2>2, CallBackType DEF TimerOnce, Destroy
<1>9. CASE Requeue
  BY <1>9, AppendMembers DEF Requeue, Push
<1>10. CASE EnterUvRun
  BY <1>10 DEF EnterUvRun
<1>11. ASSUME NEW S \in SUBSET Timers, UvRun(S) PROVE TypeOK'
  BY <1>11 DEF UvRun
<1>12. CASE UseAfterFree
  BY <1>12 DEF UseAfterFree
<1>13. CASE UNCHANGED vars
  BY <1>13 DEF vars
<1> QED
  BY <1>1, <1>2, <1>3, <1>4, <1>5, <1>6, <1>7, <1>8, <1>9, <1>10, <1>11,
     <1>12, <1>13 DEF Next, LoopStep

(* Type correctness of every reachable state of a Loop. *)
THEOREM TypeCorrect == Spec => []TypeOK
<1>1. Init => TypeOK
  BY TaskSets DEF Init, TypeOK, S0, S1, Finished
<1> QED BY <1>1, TypeStep, PTL DEF Spec

-----------------------------------------------------------------------------
(* Ownership of tasks                                                      *)

(* Ownership with what makes it inductive. *)
Owned == TypeOK /\ Placed /\ Ownership /\ Started /\ PopSafe

(* The tasks a callback posts. *)
New(u) == {u} \ {NoTask}

(* A posted task was in no place before, and is in the channel after. *)
LEMMA CallBackOwned ==
  ASSUME Owned, NEW u \in Tasks \cup {NoTask}, CallBack(u)
  PROVE  /\ queue' \in Seq(Tasks)
         /\ Members(queue') = Members(queue) \cup New(u)
         /\ Injective(queue')
         /\ New(u) \cap (Members(queue) \cup Members(not_finished) \cup {cur}) = {}
         /\ \A t \in New(u) : state[t] = S0
         /\ \A t \in Tasks : ticket'[t] # 0 <=> ticket[t] # 0 \/ t \in New(u)
<1> USE TaskSets
<1>1. CASE u = NoTask
  BY <1>1 DEF Owned, TypeOK, Ownership, CallBack, PostTask, New
<1>2. CASE u \in Tasks /\ PostTask(u)
  <2>1. ~Live(u) /\ ticket[u] = 0
    BY <1>2 DEF PostTask, Live
  <2>2. u \notin Members(queue) \cup Members(not_finished) \cup {cur}
    BY <1>2, <2>1 DEF Owned, Ownership
  <2>3. /\ queue' \in Seq(Tasks)
        /\ Members(queue') = Members(queue) \cup {u} /\ Injective(queue')
    BY <1>2, <2>2, AppendMembers DEF PostTask, Push, Owned, TypeOK, Ownership
  <2>4. \A t \in Tasks : ticket'[t] # 0 <=> ticket[t] # 0 \/ t = u
    BY <1>2 DEF PostTask, Owned, TypeOK
  <2>5. New(u) = {u} /\ state[u] = S0
    BY <1>2, <2>1 DEF New, Owned, Started
  <2> QED BY <2>2, <2>3, <2>4, <2>5
<1> QED BY <1>1, <1>2 DEF CallBack

(* Keeping the current task moves it from cur to not_finished. *)
LEMMA KeepOwned ==
  ASSUME Owned, cur \in Tasks, Keep
  PROVE  /\ not_finished' \in Seq(Tasks)
         /\ Members(not_finished') = Members(not_finished) \cup {cur}
         /\ Injective(not_finished')
         /\ cur \notin Members(queue) \cup Members(not_finished)
         /\ Live(cur)
BY AppendMembers, TaskSets DEF Keep, Owned, TypeOK, Ownership

(* No step of the loop or of a posting thread loses, duplicates or         *)
(* resurrects a task.                                                      *)
LEMMA OwnedStep == Owned /\ [Next]_vars => Owned'
<1> SUFFICES ASSUME Owned, [Next]_vars PROVE Owned'
  OBVIOUS
<1> USE TaskSets
<1>0. TypeOK'
  BY TypeStep DEF Owned
<1>1. ASSUME NEW t \in Tasks, Post(t) PROVE Owned'
  <2>1. CallBack(t) BY <1>1 DEF Post, CallBack
  <2>2. New(t) = {t} /\ queue' # <<>>
    BY <1>1 DEF New, Post, PostTask, Push, Owned, TypeOK
  <2> DEFINE livings == {s \in Tasks : Live(s)}
  <2>3. livings' = livings \cup {t}
    BY <1>1, <2>1, <2>2, CallBackOwned
       DEF Owned, TypeOK, Post, Live, isNotFinished, S0
  <2>4. Ownership'
    BY <1>1, <2>1, <2>2, <2>3, CallBackOwned DEF Owned, Ownership, Post
  <2>5. Started'
    BY <1>1, <2>1, CallBackOwned DEF Owned, TypeOK, Started, Post, uvVars
  <2>6. Placed' /\ PopSafe'
    BY <1>1, <2>2 DEF Owned, Placed, PopSafe, Post
  <2> QED BY <1>0, <2>4, <2>5, <2>6 DEF Owned
<1>2. CASE CheckSize
  BY <1>0, <1>2
     DEF Owned, TypeOK, Placed, Ownership, Started, PopSafe, CheckSize, Live,
         uvVars
<1>3. CASE Pop
  <2>1. /\ Head(queue) \in Members(queue) /\ Tail(queue) \in Seq(Tasks)
        /\ Members(Tail(queue)) = Members(queue) \ {Head(queue)}
        /\ Injective(Tail(queue)) /\ Head(queue) \in Tasks
    BY <1>3, TailMembers DEF Pop, Owned, TypeOK, Ownership
  <2> QED BY <1>0, <1>3, <2>1
          DEF Owned, TypeOK, Placed, Ownership, Started, PopSafe, Pop, Live,
              uvVars
<1>4. ASSUME NEW u \in Tasks \cup {NoTask}, RunOnce(u) PROVE Owned'
  <2>1. CallBack(u) BY <1>4 DEF RunOnce
  <2> DEFINE livings == {s \in Tasks : Live(s)}
  <2>2. livings' = (livings \ {cur}) \cup New(u)
    BY <1>4, <2>1, CallBackOwned
       DEF Owned, TypeOK, RunOnce, Live, isNotFinished, S0, Finished, New
  <2>3. Ownership'
    BY <1>4, <2>1, <2>2, CallBackOwned
       DEF Owned, Ownership, RunOnce, Destroy, New
  <2>4. Started'
    <3>1. ticket[cur] # 0 /\ cur \notin Members(not_finished) /\ cur \in Tasks
      BY <1>4 DEF RunOnce, Owned, Ownership, Live
    <3> QED BY <1>4, <2>1, <3>1, CallBackOwned
            DEF Owned, TypeOK, Started, RunOnce, Destroy, uvVars, S0, S1, Finished
  <2>5. Placed' /\ PopSafe'
    BY <1>4 DEF Owned, Placed, PopSafe, RunOnce, Destroy
  <2> QED BY <1>0, <2>3, <2>4, <2>5 DEF Owned
<1>5. CASE StartTimer
  <2>1. Keep /\ cur \in Tasks BY <1>5 DEF StartTimer
  <2> QED BY <1>0, <1>5, <2>1, KeepOwned
          DEF Owned, TypeOK, Placed, Ownership, Started, PopSafe, StartTimer,
              Keep, Live, isNotFinished, S0, S1, Finished, uvVars
<1>6. CASE TimerIdle
  <2>1. Keep /\ cur \in Tasks BY <1>6 DEF TimerIdle
  <2> QED BY <1>0, <1>6, <2>1, KeepOwned
          DEF Owned, TypeOK, Placed, Ownership, Started, PopSafe, TimerIdle,
              Keep, Live, S0, S1, uvVars
<1>7. ASSUME NEW u \in Tasks \cup {NoTask}, TimerRepeat(u) PROVE Owned'
  <2>1. Keep /\ cur \in Tasks /\ CallBack(u) BY <1>7 DEF TimerRepeat
  <2> DEFINE livings == {s \in Tasks : Live(s)}
  <2>2. livings' = livings \cup New(u)
    BY <1>7, <2>1, CallBackOwned
       DEF Owned, TypeOK, TimerRepeat, Live, isNotFinished, S0, New
  <2>3. Ownership'
    BY <1>7, <2>1, <2>2, KeepOwned, CallBackOwned
       DEF Owned, Ownership, TimerRepeat, Keep, New
  <2>4. Started'
    BY <1>7, <2>1, KeepOwned, CallBackOwned
       DEF Owned, TypeOK, Started, TimerRepeat, uvVars
  <2>5. Placed' /\ PopSafe'
    BY <1>7 DEF Owned, Placed, PopSafe, TimerRepeat, Keep
  <2> QED BY <1>0, <2>3, <2>4, <2>5 DEF Owned
<1>8. ASSUME NEW u \in Tasks \cup {NoTask}, TimerOnce(u) PROVE Owned'
  <2>1. CallBack(u) BY <1>8 DEF TimerOnce
  <2> DEFINE livings == {s \in Tasks : Live(s)}
  <2>2. livings' = (livings \ {cur}) \cup New(u)
    BY <1>8, <2>1, CallBackOwned
       DEF Owned, TypeOK, TimerOnce, Live, isNotFinished, S0, Finished, New
  <2>3. Ownership'
    BY <1>8, <2>1, <2>2, CallBackOwned
       DEF Owned, Ownership, TimerOnce, Destroy, New
  <2>4. Started'
    <3>1. ticket[cur] # 0 /\ cur \notin Members(not_finished) /\ cur \in Tasks
      BY <1>8 DEF TimerOnce, Owned, Ownership, Live
    <3> QED BY <1>8, <2>1, <3>1, CallBackOwned
            DEF Owned, TypeOK, Started, TimerOnce, Destroy, uvVars, S0, S1, Finished
  <2>5. Placed' /\ PopSafe'
    BY <1>8 DEF Owned, Placed, PopSafe, TimerOnce, Destroy
  <2> QED BY <1>0, <2>3, <2>4, <2>5 DEF Owned
<1>9. CASE Requeue
  <2> DEFINE h == Head(not_finished)
  <2>1. /\ h \in Members(not_finished) /\ h \in Tasks
        /\ Members(not_finished') = Members(not_finished) \ {h}
        /\ Injective(not_finished')
    BY <1>9, TailMembers DEF Requeue, Owned, TypeOK, Ownership
  <2>2. h \notin Members(queue)
    BY <2>1 DEF Owned, Ownership
  <2>3. Members(queue') = Members(queue) \cup {h} /\ Injective(queue')
    BY <1>9, <2>1, <2>2, AppendMembers DEF Requeue, Push, Owned, TypeOK, Ownership
  <2> QED BY <1>0, <1>9, <2>1, <2>2, <2>3
          DEF Owned, TypeOK, Placed, Ownership, Started, PopSafe, Requeue,
              Live, uvVars
<1>10. CASE EnterUvRun
  BY <1>0, <1>10
     DEF Owned, TypeOK, Placed, Ownership, Started, PopSafe, EnterUvRun, Live,
         uvVars
<1>11. ASSUME NEW S \in SUBSET Timers, UvRun(S) PROVE Owned'
  BY <1>0, <1>11
     DEF Owned, TypeOK, Placed, Ownership, Started, PopSafe, UvRun, Live
<1>12. CASE UseAfterFree
  BY <1>0, <1>12
     DEF Owned, TypeOK, Placed, Ownership, Started, PopSafe, UseAfterFree,
         Live, uvVars
<1>13. CASE UNCHANGED vars
  BY <1>0, <1>13
     DEF vars, Owned, TypeOK, Placed, Ownership, Started, PopSafe, Live
<1> QED
  BY <1>1, <1>2, <1>3, <1>4, <1>5, <1>6, <1>7, <1>8, <1>9, <1>10, <1>11,
     <1>12, <1>13 DEF Next, LoopStep

(* The ownership invariant holds in every reachable state. *)
LEMMA OwnedAlways == Spec => []Owned
<1>1. Init => Owned
  BY EmptyMembers, TaskSets
     DEF Init, Owned, TypeOK, Placed, Ownership, Started, PopSafe, Live, S0,
         S1, Finished
<1> QED BY <1>1, OwnedStep, PTL DEF Spec

(* Every existing task has exactly one owner, in every reachable state and *)
(* however posts interleave with the loop: no unique_ptr in the channel,   *)
(* in not_finished or in Loop::run is lost, shared or stale.               *)
THEOREM OwnershipHolds == Spec => []Ownership
BY OwnedAlways, PTL DEF Owned

(* Loop::run never pops an empty channel, although Size() and Pop() are    *)
(* separate critical sections.                                             *)
THEOREM PopIsSafe == Spec => []PopSafe
BY OwnedAlways, PTL DEF Owned

-----------------------------------------------------------------------------
(* Timers                                                                  *)

(* A step keeps every set timeout_ on its way to the next run of its task. *)
LEMMA ServedStep == Owned /\ Owned' /\ Served /\ [Next]_vars => Served'
<1> SUFFICES ASSUME Owned, Owned', Served, [Next]_vars PROVE Served'
  OBVIOUS
<1> USE TaskSets
<1> USE DEF Owned, TypeOK
<1>1. ASSUME NEW t \in Tasks, Post(t) PROVE Served'
  <2>1. CallBack(t) BY <1>1 DEF Post, CallBack
  <2>2. ASSUME NEW s \in Timers, pc' \in {"requeue", "uv"}, Live(s)'
        PROVE  ~timeout'[s]
    <3>1. CASE s = t
      BY <1>1, <2>1, <3>1, CallBackOwned DEF Served, Started, Post, New
    <3>2. CASE s # t
      BY <1>1, <2>1, <2>2, <3>2, CallBackOwned
         DEF Served, Post, Live, New
    <3> QED BY <3>1, <3>2
  <2> QED BY <1>1, <2>2 DEF Served, Post, uvVars
<1>2. CASE CheckSize
  <2>1. ASSUME pc' = "requeue", NEW t \in Timers, Live(t) PROVE ~timeout[t]
    <3>1. queue = <<>> /\ cur = NoTask
      BY <1>2, <2>1 DEF CheckSize, Placed
    <3>2. t \in Members(not_finished)
      BY <2>1, <3>1, EmptyMembers DEF Ownership
    <3> QED BY <3>2 DEF Served
  <2> QED BY <1>2, <2>1 DEF Served, CheckSize, Live, uvVars
<1>3. CASE Pop
  BY <1>3 DEF Served, Pop, uvVars
<1>4. ASSUME NEW u \in Tasks \cup {NoTask}, RunOnce(u) PROVE Served'
  BY <1>4 DEF Served, RunOnce, Destroy, uvVars
<1>5. CASE StartTimer
  <2>1. Keep /\ cur \in Tasks BY <1>5 DEF StartTimer
  <2>2. ~timeout[cur] BY <1>5 DEF StartTimer, Served, Started
  <2> QED BY <1>5, <2>1, <2>2, KeepOwned DEF Served, StartTimer, Keep
<1>6. CASE TimerIdle
  <2>1. Keep /\ cur \in Tasks BY <1>6 DEF TimerIdle
  <2> QED BY <1>6, <2>1, KeepOwned DEF Served, TimerIdle, Keep, uvVars
<1>7. ASSUME NEW u \in Tasks \cup {NoTask}, TimerRepeat(u) PROVE Served'
  <2>1. Keep /\ cur \in Tasks BY <1>7 DEF TimerRepeat
  <2> QED BY <1>7, <2>1, KeepOwned DEF Served, TimerRepeat, Keep, uvVars
<1>8. ASSUME NEW u \in Tasks \cup {NoTask}, TimerOnce(u) PROVE Served'
  BY <1>8 DEF Served, TimerOnce, Destroy, uvVars
<1>9. CASE Requeue
  <2>1. Members(not_finished') \subseteq Members(not_finished)
    BY <1>9, TailMembers DEF Requeue, Ownership
  <2> QED BY <1>9, <2>1 DEF Served, Requeue, Live, uvVars
<1>10. CASE EnterUvRun
  BY <1>10 DEF Served, EnterUvRun, Live, uvVars
<1>11. ASSUME NEW S \in SUBSET Timers, UvRun(S) PROVE Served'
  <2>1. S \subseteq handles BY <1>11 DEF UvRun, Due
  <2>2. Members(not_finished') = {}
    BY <1>11, EmptyMembers DEF UvRun, Placed
  <2> QED BY <1>11, <2>1, <2>2 DEF Served, UvRun
<1>12. CASE UseAfterFree
  BY <1>12 DEF Served, UseAfterFree, uvVars
<1>13. CASE UNCHANGED vars
  BY <1>13 DEF Served, vars, Live
<1> QED
  BY <1>1, <1>2, <1>3, <1>4, <1>5, <1>6, <1>7, <1>8, <1>9, <1>10, <1>11,
     <1>12, <1>13 DEF Next, LoopStep

(* No timer fires into a timeout_ flag that is still set: the pass between *)
(* two calls of uv_run serves all that the first one fired.                *)
THEOREM NoTickIsLost == Spec => []NoTickLost
<1>1. Init => Served
  BY EmptyMembers DEF Init, Served
<1>2. Served => NoTickLost
  BY DEF Served, NoTickLost
<1> QED BY <1>1, <1>2, ServedStep, OwnedAlways, PTL DEF Spec

(* libuv never holds a handle of a repeating TimerTask that is gone, since *)
(* such a task is never destroyed, whatever the one-shot ones do.          *)
THEOREM RepeatingHandlesOwned == Spec => []HandlesOwned
<1> DEFINE Inv == /\ HandlesOwned
                  /\ \A t \in Timers \ OneShot : state[t] # Finished
<1>1. Init => Inv
  BY TaskSets DEF Init, HandlesOwned, S0, Finished
<1>2. Owned /\ Owned' /\ Inv /\ [Next]_vars => Inv'
  <2> SUFFICES ASSUME Owned, Owned', Inv, [Next]_vars PROVE Inv'
    OBVIOUS
  <2>1. \A t \in Timers \ OneShot : state'[t] # Finished
    <3>1. \A t \in Timers \ OneShot : state'[t] = state[t] \/ state'[t] = S1
      BY TaskSets
         DEF Next, LoopStep, vars, Owned, TypeOK, Post, CheckSize, Pop, RunOnce,
             StartTimer, TimerIdle, TimerRepeat, TimerOnce, Requeue,
             EnterUvRun, UvRun, UseAfterFree
    <3> QED BY <3>1 DEF S1, Finished
  <2>2. \A t \in handles' : t \in Timers /\ state'[t] # S0
    BY DEF Owned, TypeOK, Started
  <2>3. \A t \in handles' : t \in OneShot \/ Live(t)'
    BY <2>1, <2>2, TaskSets
       DEF Owned, TypeOK, Started, Live, isNotFinished, S0, S1, Finished
  <2> QED BY <2>1, <2>3 DEF HandlesOwned
<1> QED BY <1>1, <1>2, OwnedAlways, PTL DEF Spec

(* The callback of a RunOnce task or of a one-shot timer has run exactly   *)
(* once when the task is destroyed, and not at all before.                 *)
THEOREM RunsExactlyOnce == Spec => []ExactlyOnce
<1>1. Init => ExactlyOnce
  BY TaskSets DEF Init, ExactlyOnce, S0, Finished
<1>2. Owned /\ ExactlyOnce /\ [Next]_vars => ExactlyOnce'
  <2> SUFFICES ASSUME Owned, ExactlyOnce, [Next]_vars PROVE ExactlyOnce'
    OBVIOUS
  <2> USE TaskSets
  <2> USE DEF Owned, TypeOK, ExactlyOnce, S0, S1, Finished
  <2>1. ASSUME NEW u \in Tasks \cup {NoTask}, RunOnce(u) PROVE ExactlyOnce'
    BY <2>1 DEF RunOnce
  <2>2. ASSUME NEW u \in Tasks \cup {NoTask}, TimerOnce(u) PROVE ExactlyOnce'
    BY <2>2 DEF TimerOnce
  <2>3. CASE StartTimer
    BY <2>3 DEF StartTimer
  <2>4. CASE UNCHANGED <<state, calls>>
    BY <2>4
  <2> QED
    BY <2>1, <2>2, <2>3, <2>4
       DEF Next, LoopStep, vars, Post, CheckSize, Pop, TimerIdle, TimerRepeat,
           Requeue, EnterUvRun, UvRun, UseAfterFree
<1> QED BY <1>1, <1>2, OwnedAlways, PTL DEF Spec

-----------------------------------------------------------------------------
(* The order of tasks                                                      *)

Ordered == Owned /\ Tickets /\ InOrder

(* A posted task takes the highest ticket and the last place. *)
LEMMA CallBackOrdered ==
  ASSUME Ordered, NEW u \in Tasks \cup {NoTask}, CallBack(u)
  PROVE  /\ Tickets'
         /\ \A i, j \in DOMAIN queue' :
              i < j /\ state[queue'[i]] = S0 /\ state[queue'[j]] = S0
                => ticket'[queue'[i]] < ticket'[queue'[j]]
         /\ \A t \in Tasks : ticket[t] # 0 => ticket'[t] = ticket[t]
         /\ \A t \in New(u) : ticket'[t] > posts
<1> USE TaskSets
<1>1. CASE u = NoTask
  BY <1>1 DEF Ordered, Owned, TypeOK, Tickets, InOrder, CallBack, PostTask, New
<1>2. CASE u \in Tasks /\ PostTask(u)
  <2>1. /\ ticket' = [ticket EXCEPT ![u] = posts + 1] /\ posts' = posts + 1
        /\ ticket \in [Tasks -> Nat] /\ posts \in Nat /\ ticket[u] = 0
    BY <1>2 DEF PostTask, Ordered, Owned, TypeOK
  <2>2. Tickets'
    BY <1>2, <2>1 DEF Ordered, Tickets
  <2>3. \A t \in Members(queue) : t \in Tasks /\ ticket[t] # 0
    BY DEF Ordered, Owned, Ownership, Live
  <2>4. /\ queue \in Seq(Tasks) /\ queue' = Append(queue, u)
        /\ DOMAIN queue = 1 .. Len(queue) /\ Len(queue) \in Nat
        /\ DOMAIN queue' = 1 .. Len(queue) + 1
        /\ \A i \in 1 .. Len(queue) : queue'[i] = queue[i]
        /\ queue'[Len(queue) + 1] = u
    BY <1>2 DEF PostTask, Push, Ordered, Owned, TypeOK
  <2>5. \A i \in DOMAIN queue : queue[i] \in Tasks /\ ticket[queue[i]] # 0
    BY <2>3 DEF Members
  <2>6. ASSUME NEW i \in DOMAIN queue', NEW j \in DOMAIN queue', i < j,
               state[queue'[i]] = S0, state[queue'[j]] = S0
        PROVE  ticket'[queue'[i]] < ticket'[queue'[j]]
    <3>1. i \in DOMAIN queue /\ queue'[i] = queue[i] /\ queue[i] # u
      BY <2>1, <2>4, <2>5, <2>6
    <3>2. CASE j \in DOMAIN queue
      BY <1>2, <2>1, <2>4, <2>5, <2>6, <3>1, <3>2 DEF Ordered, InOrder
    <3>3. CASE j = Len(queue) + 1
      BY <1>2, <2>1, <2>4, <2>5, <3>1, <3>3 DEF Ordered, Tickets
    <3> QED BY <2>4, <3>2, <3>3
  <2>7. New(u) = {u} /\ ticket'[u] > posts
    BY <1>2, <2>1 DEF New
  <2> QED BY <1>2, <2>1, <2>2, <2>6, <2>7
<1> QED BY <1>1, <1>2 DEF CallBack

(* The second half of InOrder, after a callback: the current task still    *)
(* precedes every waiting one.                                             *)
LEMMA CurrentFirst ==
  ASSUME Ordered, NEW u \in Tasks \cup {NoTask}, CallBack(u),
         cur \in Tasks, state[cur] = S0
  PROVE  \A t \in Members(queue') : state[t] = S0 => ticket'[cur] < ticket'[t]
<1> USE TaskSets
<1>1. ticket[cur] # 0 /\ ticket'[cur] = ticket[cur] /\ ticket[cur] <= posts
  BY CallBackOrdered DEF Ordered, Owned, Ownership, Live, Tickets
<1>2. ASSUME NEW t \in Members(queue), state[t] = S0
      PROVE  ticket'[cur] < ticket'[t]
  <2>1. t \in Tasks /\ ticket[t] # 0
    BY <1>2 DEF Ordered, Owned, Ownership, Live
  <2> QED BY <1>1, <1>2, <2>1, CallBackOrdered DEF Ordered, InOrder
<1>3. ASSUME NEW t \in New(u) PROVE ticket'[cur] < ticket'[t]
  <2>1. t \in Tasks /\ ticket' \in [Tasks -> Nat] /\ ticket \in [Tasks -> Nat]
        /\ posts \in Nat
    BY CallBackType DEF New, Ordered, Owned, TypeOK
  <2> QED BY <1>1, <2>1, CallBackOrdered
<1> QED BY <1>2, <1>3, CallBackOwned DEF Ordered

(* No step disturbs the order of the tasks still waiting for their first   *)
(* run: unfinished tasks are pushed among them, but are past S0.           *)
LEMMA OrderedStep == Ordered /\ Owned' /\ [Next]_vars => Ordered'
<1> SUFFICES ASSUME Ordered, Owned', [Next]_vars PROVE Tickets' /\ InOrder'
  BY DEF Ordered
<1> USE TaskSets
<1> USE DEF Owned, TypeOK
<1>1. ASSUME NEW t \in Tasks, Post(t) PROVE Tickets' /\ InOrder'
  <2>1. CallBack(t) BY <1>1 DEF Post, CallBack
  <2>2. cur # NoTask => cur \in Tasks BY DEF Ordered
  <2> QED BY <1>1, <2>1, <2>2, CallBackOrdered, CurrentFirst
          DEF Post, InOrder
<1>2. CASE CheckSize
  BY <1>2 DEF Ordered, Tickets, InOrder, CheckSize
<1>3. CASE Pop
  <2>1. /\ queue \in Seq(Tasks) /\ queue # <<>>
        /\ Len(queue) \in Nat \ {0} /\ DOMAIN queue = 1 .. Len(queue)
        /\ Head(queue) = queue[1] /\ queue' = Tail(queue)
        /\ DOMAIN queue' = 1 .. Len(queue) - 1
        /\ \A i \in 1 .. Len(queue) - 1 : queue'[i] = queue[i + 1]
    BY <1>3 DEF Pop, Ordered
  <2>2. Tickets' BY <1>3 DEF Ordered, Tickets, Pop
  <2>3. ASSUME NEW i \in DOMAIN queue', NEW j \in DOMAIN queue', i < j,
               state[queue'[i]] = S0, state[queue'[j]] = S0
        PROVE  ticket[queue'[i]] < ticket[queue'[j]]
    <3> DEFINE n == Len(queue)
    <3>1. n \in Nat /\ i \in 1 .. n - 1 /\ j \in 1 .. n - 1
      BY <2>1
    <3> HIDE DEF n
    <3>2. i + 1 \in 1 .. n /\ j + 1 \in 1 .. n /\ i + 1 < j + 1
      BY <2>3, <3>1
    <3>3. queue'[i] = queue[i + 1] /\ queue'[j] = queue[j + 1]
      BY <2>1, <3>1 DEF n
    <3>4. i + 1 \in DOMAIN queue /\ j + 1 \in DOMAIN queue
      BY <2>1, <3>2 DEF n
    <3> QED BY <2>3, <3>2, <3>3, <3>4 DEF Ordered, InOrder
  <2>4. ASSUME NEW j \in DOMAIN queue', state[queue[1]] = S0,
               state[queue'[j]] = S0
        PROVE  ticket[queue[1]] < ticket[queue'[j]]
    <3> DEFINE n == Len(queue)
    <3>1. n \in Nat \ {0} /\ j \in 1 .. n - 1
      BY <2>1
    <3> HIDE DEF n
    <3>2. 1 \in 1 .. n /\ j + 1 \in 1 .. n /\ 1 < j + 1
      BY <3>1
    <3>3. queue'[j] = queue[j + 1]
      BY <2>1, <3>1 DEF n
    <3>4. 1 \in DOMAIN queue /\ j + 1 \in DOMAIN queue
      BY <2>1, <3>2 DEF n
    <3> QED BY <2>4, <3>2, <3>3, <3>4 DEF Ordered, InOrder
  <2> QED BY <1>3, <2>1, <2>2, <2>3, <2>4 DEF Pop, InOrder, Members
<1>4. ASSUME NEW u \in Tasks \cup {NoTask}, RunOnce(u)
      PROVE  Tickets' /\ InOrder'
  <2>1. CallBack(u) /\ cur \in Tasks BY <1>4 DEF RunOnce
  <2>2. \A t \in Tasks : state'[t] = S0 => state[t] = S0
    BY <1>4 DEF RunOnce, Ordered, S0, Finished
  <2>3. \A i \in DOMAIN queue' : queue'[i] \in Tasks
    OBVIOUS
  <2> QED BY <1>4, <2>1, <2>2, <2>3, CallBackOrdered
          DEF RunOnce, Destroy, InOrder
<1>5. CASE StartTimer
  <2>1. \A t \in Tasks : state'[t] = S0 => state[t] = S0
    BY <1>5 DEF StartTimer, Ordered, S0, S1
  <2>2. \A i \in DOMAIN queue : queue[i] \in Tasks
    BY DEF Ordered
  <2> QED BY <1>5, <2>1, <2>2 DEF StartTimer, Keep, Ordered, Tickets, InOrder
<1>6. CASE TimerIdle
  BY <1>6 DEF TimerIdle, Keep, Ordered, Tickets, InOrder
<1>7. ASSUME NEW u \in Tasks \cup {NoTask}, TimerRepeat(u)
      PROVE  Tickets' /\ InOrder'
  <2>1. CallBack(u) BY <1>7 DEF TimerRepeat
  <2> QED BY <1>7, <2>1, CallBackOrdered DEF TimerRepeat, Keep, InOrder
<1>8. ASSUME NEW u \in Tasks \cup {NoTask}, TimerOnce(u)
      PROVE  Tickets' /\ InOrder'
  <2>1. CallBack(u) /\ cur \in Tasks BY <1>8 DEF TimerOnce
  <2>2. \A t \in Tasks : state'[t] = S0 => state[t] = S0
    BY <1>8 DEF TimerOnce, Ordered, S0, Finished
  <2>3. \A i \in DOMAIN queue' : queue'[i] \in Tasks
    OBVIOUS
  <2> QED BY <1>8, <2>1, <2>2, <2>3, CallBackOrdered
          DEF TimerOnce, Destroy, InOrder
<1>9. CASE Requeue
  <2> DEFINE h == Head(not_finished)
  <2>1. h \in Members(not_finished)
    BY <1>9, TailMembers DEF Requeue, Ordered, Ownership
  <2>2. state[h] # S0 /\ h \in Tasks
    <3>1. state[h] = S1 BY <2>1 DEF Ordered, Started
    <3>2. h \in Tasks BY <2>1 DEF Ordered, Ownership
    <3> QED BY <3>1, <3>2 DEF S0, S1
  <2>3. /\ queue \in Seq(Tasks) /\ queue' = Append(queue, h)
        /\ DOMAIN queue = 1 .. Len(queue) /\ Len(queue) \in Nat
        /\ DOMAIN queue' = 1 .. Len(queue) + 1
        /\ \A i \in 1 .. Len(queue) : queue'[i] = queue[i]
        /\ queue'[Len(queue) + 1] = h
    BY <1>9, <2>2 DEF Requeue, Push, Ordered
  <2>4. cur = NoTask BY <1>9 DEF Requeue, Ordered, Placed
  <2> QED BY <1>9, <2>2, <2>3, <2>4 DEF Requeue, Ordered, Tickets, InOrder
<1>10. CASE EnterUvRun
  BY <1>10 DEF EnterUvRun, Ordered, Tickets, InOrder
<1>11. ASSUME NEW S \in SUBSET Timers, UvRun(S) PROVE Tickets' /\ InOrder'
  BY <1>11 DEF UvRun, Ordered, Tickets, InOrder
<1>12. CASE UseAfterFree
  BY <1>12 DEF UseAfterFree, Ordered, Tickets, InOrder
<1>13. CASE UNCHANGED vars
  BY <1>13 DEF vars, Ordered, Tickets, InOrder
<1> QED
  BY <1>1, <1>2, <1>3, <1>4, <1>5, <1>6, <1>7, <1>8, <1>9, <1>10, <1>11,
     <1>12, <1>13 DEF Next, LoopStep

(* A current task in S0 is the oldest task not begun. *)
LEMMA CurrentIsOldest ==
  ASSUME Ordered, cur \in Tasks, state[cur] = S0
  PROVE  Fifo!Oldest(cur)
<1> USE TaskSets
<1>1. ticket[cur] # 0
  BY DEF Ordered, Owned, Ownership, Live
<1>2. ASSUME NEW s \in Tasks, ticket[s] # 0, ticket[s] < ticket[cur],
             state[s] = S0
      PROVE  FALSE
  <2>1. Live(s) /\ s # cur /\ s \notin Members(not_finished)
    BY <1>2 DEF Live, isNotFinished, S0, S1, Ordered, Owned, TypeOK, Started
  <2>2. s \in Members(queue)
    BY <2>1 DEF Ordered, Owned, Ownership
  <2> QED BY <1>2, <2>2 DEF Ordered, Owned, TypeOK, InOrder
<1> QED BY <1>1, <1>2 DEF Fifo!Oldest

(* A callback is, in the abstract, a post of the new task or nothing. *)
LEMMA CallBackPosts ==
  ASSUME Owned, NEW u \in Tasks \cup {NoTask}, CallBack(u)
  PROVE  \/ u = NoTask /\ UNCHANGED <<posts, ticket>>
         \/ u \in Tasks /\ Fifo!TakeTicket(u) /\ state[u] = S0
BY TaskSets DEF CallBack, PostTask, Fifo!TakeTicket, Owned, Started

(* Every step of the loop is a step of FifoDispatch or leaves it alone. *)
LEMMA FifoStep == Ordered /\ Owned' /\ [Next]_vars => [Fifo!Next]_(Fifo!vars)
<1> SUFFICES ASSUME Ordered, Owned', [Next]_vars
             PROVE  [Fifo!Next]_(Fifo!vars)
  OBVIOUS
<1> DEFINE begun == {t \in Tasks : ticket[t] # 0 /\ state[t] # S0}
<1> USE TaskSets
<1>a. /\ Owned /\ ticket \in [Tasks -> Nat] /\ posts \in Nat
      /\ state \in [Tasks -> {S0, S1, Finished}] /\ S0 # S1 /\ S0 # Finished
  BY DEF Ordered, Owned, TypeOK, S0, S1, Finished
<1>b. cur \in Tasks => ticket[cur] # 0
  BY DEF Ordered, Owned, Ownership, Live
<1>1. ASSUME NEW t \in Tasks, Post(t) PROVE Fifo!Post(t)
  <2>1. CallBack(t) BY <1>1 DEF Post, CallBack
  <2>2. Fifo!TakeTicket(t) /\ state[t] = S0
    BY <1>a, <2>1, CallBackPosts
  <2> QED BY <1>1, <1>a, <2>2 DEF Fifo!Post, Fifo!TakeTicket, Post
<1>2. CASE UNCHANGED <<posts, ticket, state>>
  BY <1>2 DEF Fifo!vars
<1>3. ASSUME NEW u \in Tasks \cup {NoTask}, RunOnce(u) PROVE Fifo!Next
  <2>1. CallBack(u) /\ cur \in Tasks /\ state[cur] = S0 /\ Fifo!Oldest(cur)
    BY <1>3, CurrentIsOldest DEF RunOnce
  <2>2. state' = [state EXCEPT ![cur] = Finished] BY <1>3 DEF RunOnce
  <2>3. CASE u = NoTask /\ UNCHANGED <<posts, ticket>>
    <3>1. begun' = begun \cup {cur}
      BY <1>a, <1>b, <2>1, <2>2, <2>3
    <3> QED BY <2>1, <2>3, <3>1 DEF Fifo!Next, Fifo!Begin
  <2>4. CASE u \in Tasks /\ Fifo!TakeTicket(u) /\ state[u] = S0
    <3>1. u # cur BY <1>b, <2>1, <2>4 DEF Fifo!TakeTicket
    <3>2. begun' = begun \cup {cur}
      BY <1>a, <1>b, <2>1, <2>2, <2>4, <3>1 DEF Fifo!TakeTicket
    <3> QED BY <2>1, <2>4, <3>2 DEF Fifo!Next, Fifo!BeginPosting
  <2> QED BY <1>a, <2>1, <2>3, <2>4, CallBackPosts
<1>4. CASE StartTimer
  <2>1. cur \in Tasks /\ state[cur] = S0 /\ Fifo!Oldest(cur)
    BY <1>4, CurrentIsOldest DEF StartTimer
  <2>2. begun' = begun \cup {cur}
    BY <1>4, <1>a, <1>b, <2>1 DEF StartTimer
  <2> QED BY <1>4, <2>1, <2>2 DEF StartTimer, Fifo!Next, Fifo!Begin
<1>5. ASSUME NEW u \in Tasks \cup {NoTask}, TimerRepeat(u) \/ TimerOnce(u)
      PROVE  [Fifo!Next]_(Fifo!vars)
  <2>1. CallBack(u) /\ cur \in Tasks
    BY <1>5 DEF TimerRepeat, TimerOnce
  <2>2. \A t \in Tasks : state'[t] # S0 <=> state[t] # S0
    BY <1>5, <1>a DEF TimerRepeat, TimerOnce
  <2>3. CASE u = NoTask /\ UNCHANGED <<posts, ticket>>
    BY <2>2, <2>3 DEF Fifo!vars
  <2>4. CASE u \in Tasks /\ Fifo!TakeTicket(u) /\ state[u] = S0
    <3>1. begun' = begun
      BY <1>a, <2>2, <2>4 DEF Fifo!TakeTicket
    <3> QED BY <2>4, <3>1 DEF Fifo!Next, Fifo!Post
  <2> QED BY <1>a, <2>1, <2>3, <2>4, CallBackPosts
<1> QED
  BY <1>1, <1>2, <1>3, <1>4, <1>5
     DEF Next, LoopStep, vars, CheckSize, Pop, TimerIdle, Requeue, EnterUvRun,
         UvRun, UseAfterFree, Fifo!Next

(* A Loop implements FifoDispatch: tasks are begun once each, in the order *)
(* in which all threads and callbacks posted them.                         *)
THEOREM LoopIsFifo == Spec => FifoOrder
<1>1. Init => Fifo!Init
  BY TaskSets DEF Init, Fifo!Init
<1>2. Init => Tickets /\ InOrder
  BY EmptyMembers DEF Init, Tickets, InOrder
<1>3. Spec => []Ordered
  <2>1. Init /\ Owned => Ordered BY <1>2 DEF Ordered
  <2> QED BY <2>1, OrderedStep, OwnedAlways, PTL DEF Spec
<1> QED BY <1>1, <1>3, FifoStep, OwnedAlways, PTL DEF Spec, FifoOrder, Fifo!Spec
=============================================================================
