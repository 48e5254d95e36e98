----------------------------- MODULE EventLoop -----------------------------
(***************************************************************************)
(* One mygo Loop: the channel of pending tasks, the pass over it, the      *)
(* RunOnce and TimerTask tasks, and the part of libuv they use (the timer  *)
(* heap and uv_run(UV_RUN_ONCE)).                                          *)
(*                                                                         *)
(* Any thread may post at any moment; the channel's mutex makes each of    *)
(* Size, Pop and Push one atomic step, and nothing larger.  Everything     *)
(* else is done by the loop's own thread, whose place in Loop::run is pc:  *)
(*   "size"     about to test pending_tasks_->Size() > 0                   *)
(*   "pop"      inside the while body, about to Pop                        *)
(*   "run"      cur has been popped, about to run it                       *)
(*   "requeue"  pushing not_finished back, one task at a time              *)
(*   "uv"       inside uv_run                                              *)
(*   "crashed"  the process was killed by a use of freed memory            *)
(***************************************************************************)
EXTENDS Integers, Sequences

CONSTANTS
    Once,       \* tasks that are RunOnce objects
    OneShot,    \* tasks that are TimerTask objects with repeat_ = false
    Repeating,  \* tasks that are TimerTask objects with repeat_ = true
    NoTask,     \* the null unique_ptr
    Duration,   \* Duration[t]: duration_ of timer t, in units of NanoSec
    MiliSec,    \* how many of those units make a millisecond
    IntRange,   \* 2^(bits of int)
    LongRange,  \* 2^(bits of uint64_t)
    Lifetime    \* milliseconds the process is observed for

Timers == OneShot \cup Repeating
Tasks  == Once \cup Timers

ASSUME TasksAssumption ==
    /\ Once \cap Timers = {}
    /\ OneShot \cap Repeating = {}
    /\ NoTask \notin Tasks

ASSUME WidthAssumption ==
    /\ Duration \in [Timers -> Nat]
    /\ MiliSec \in Nat \ {0}
    /\ Lifetime \in Nat
    /\ IntRange \in Nat \ {0}
    /\ LongRange \in Nat
    /\ LongRange >= IntRange

VARIABLES
    queue,        \* pending_tasks_: the tasks in the channel, front first
    not_finished, \* the vector local to one iteration of Loop::run
    cur,          \* the task between Pop and the end of its run()
    pc,           \* where the loop's thread is
    state,        \* state[t]: Task::State::internal_
    timeout,      \* timeout[t]: timeout_ of timer t
    handles,      \* timers whose uv_timer_t is initialised and not closed
    armed,        \* timers whose uv_timer_t is in libuv's heap
    posts,        \* history: number of posts so far
    ticket,       \* history: the order of the posts; 0 if not posted yet
    calls         \* history: how often the func_ of a one-time task ran

vars == <<queue, not_finished, cur, pc, state, timeout, handles, armed,
          posts, ticket, calls>>

uvVars == <<handles, armed>>

\* Task::State
S0 == 0
S1 == 1
Finished == -1
isNotFinished(s) == s >= 0

(* The task object exists: it was posted and no unique_ptr destroyed it.   *)
(* Loop::run destroys a task exactly when its run() reports a state below  *)
(* zero.                                                                   *)
Live(t) == ticket[t] # 0 /\ isNotFinished(state[t])

(* (int)duration_ keeps the low bits and makes the upper half negative;    *)
(* dividing by the uint64_t MiliSec then converts it back to unsigned.     *)
Truncated(d) ==
    LET low == d % IntRange
    IN  IF 2 * low < IntRange THEN low ELSE low + (LongRange - IntRange)

Millis(t) == Truncated(Duration[t]) \div MiliSec

TypeOK ==
    /\ queue \in Seq(Tasks)
    /\ not_finished \in Seq(Tasks)
    /\ cur \in Tasks \cup {NoTask}
    /\ pc \in {"size", "pop", "run", "requeue", "uv", "crashed"}
    /\ state \in [Tasks -> {S0, S1, Finished}]
    /\ timeout \in [Timers -> BOOLEAN]
    /\ handles \subseteq Timers
    /\ armed \subseteq handles
    /\ posts \in Nat
    /\ ticket \in [Tasks -> Nat]
    /\ calls \in [Once \cup OneShot -> Nat]

Init ==
    /\ queue = <<>>
    /\ not_finished = <<>>
    /\ cur = NoTask
    /\ pc = "size"
    /\ state = [t \in Tasks |-> S0]
    /\ timeout = [t \in Timers |-> FALSE]
    /\ handles = {}
    /\ armed = {}
    /\ posts = 0
    /\ ticket = [t \in Tasks |-> 0]
    /\ calls = [t \in Once \cup OneShot |-> 0]

-----------------------------------------------------------------------------
(* The channel                                                             *)

(* Mutant of Push: the new task jumps the queue. *)
MutPushFront(t) == queue' = <<t>> \o queue

Push(t) == queue' = Append(queue, t)

(* Loop::PostTask and Loop::PostTimerTask of a task made just before. *)
PostTask(t) ==
    /\ ticket[t] = 0
    /\ Push(t)
    /\ posts' = posts + 1
    /\ ticket' = [ticket EXCEPT ![t] = posts + 1]

(* What a func_ may do to the loop: post one new task (u), or nothing. *)
CallBack(u) ==
    \/ u = NoTask /\ UNCHANGED <<queue, posts, ticket>>
    \/ u # NoTask /\ PostTask(u)

(* A post from any thread other than the loop's. *)
Post(t) ==
    /\ pc # "crashed"
    /\ PostTask(t)
    /\ UNCHANGED <<not_finished, cur, pc, state, timeout, uvVars, calls>>

-----------------------------------------------------------------------------
(* The pass of Loop::run                                                   *)

(* Mutants of CheckSize: a test that is always true; one that wants two. *)
MutCheckSizeAlways ==
    /\ pc = "size"
    /\ pc' = IF Len(queue) >= 0 THEN "pop" ELSE "requeue"
    /\ UNCHANGED <<queue, not_finished, cur, state, timeout, uvVars, posts,
                   ticket, calls>>

MutCheckSizeTwo ==
    /\ pc = "size"
    /\ pc' = IF Len(queue) > 1 THEN "pop" ELSE "requeue"
    /\ UNCHANGED <<queue, not_finished, cur, state, timeout, uvVars, posts,
                   ticket, calls>>

(* while (pending_tasks_->Size() > 0) *)
CheckSize ==
    /\ pc = "size"
    /\ pc' = IF Len(queue) > 0 THEN "pop" ELSE "requeue"
    /\ UNCHANGED <<queue, not_finished, cur, state, timeout, uvVars, posts,
                   ticket, calls>>

(* queue_.front() of an empty queue is undefined; PopSafe shows that the   *)
(* second conjunct never disables this action.                             *)
Pop ==
    /\ pc = "pop"
    /\ queue # <<>>
    /\ cur' = Head(queue)
    /\ queue' = Tail(queue)
    /\ pc' = "run"
    /\ UNCHANGED <<not_finished, state, timeout, uvVars, posts, ticket, calls>>

(* task->run returned an unfinished state: the vector keeps the task. *)
Keep ==
    /\ not_finished' = Append(not_finished, cur)
    /\ cur' = NoTask
    /\ pc' = "size"

(* Mutant of Destroy: isNotFinished is not tested, every task is kept. *)
MutDestroyKeeps == Keep

(* task->run returned a negative state: unique_ptr destroys the task. *)
Destroy ==
    /\ cur' = NoTask
    /\ pc' = "size"
    /\ UNCHANGED not_finished

(* Mutant of RunOnce: setFinished is missing. *)
MutRunOnceAgain(u) ==
    /\ pc = "run" /\ cur \in Once /\ state[cur] = S0
    /\ CallBack(u)
    /\ calls' = [calls EXCEPT ![cur] = @ + 1]
    /\ Keep
    /\ UNCHANGED <<state, timeout, uvVars>>

(* RunOnce::run in S0 *)
RunOnce(u) ==
    /\ pc = "run" /\ cur \in Once /\ state[cur] = S0
    /\ CallBack(u)
    /\ calls' = [calls EXCEPT ![cur] = @ + 1]
    /\ state' = [state EXCEPT ![cur] = Finished]
    /\ Destroy
    /\ UNCHANGED <<timeout, uvVars>>

(* Mutant of StartTimer: uv_timer_init is missing. *)
MutStartTimerNoInit ==
    /\ pc = "run" /\ cur \in Timers /\ state[cur] = S0
    /\ armed' = armed \cup {cur}
    /\ state' = [state EXCEPT ![cur] = S1]
    /\ Keep
    /\ UNCHANGED <<queue, timeout, handles, posts, ticket, calls>>

(* TimerTask::run in S0: uv_timer_init, and uv_timer_start with a repeat   *)
(* equal to the timeout whatever repeat_ says.                             *)
StartTimer ==
    /\ pc = "run" /\ cur \in Timers /\ state[cur] = S0
    /\ handles' = handles \cup {cur}
    /\ armed' = armed \cup {cur}
    /\ state' = [state EXCEPT ![cur] = S1]
    /\ Keep
    /\ UNCHANGED <<queue, timeout, posts, ticket, calls>>

(* TimerTask::run while the timer has not fired since the last call *)
TimerIdle ==
    /\ pc = "run" /\ cur \in Timers /\ state[cur] = S1 /\ ~timeout[cur]
    /\ Keep
    /\ UNCHANGED <<queue, state, timeout, uvVars, posts, ticket, calls>>

(* Mutants of TimerRepeat: timeout_ is not cleared; repeat_ is ignored. *)
MutTimerRepeatNoReset(u) ==
    /\ pc = "run" /\ cur \in Repeating /\ state[cur] = S1 /\ timeout[cur]
    /\ CallBack(u)
    /\ Keep
    /\ UNCHANGED <<state, timeout, uvVars, calls>>

MutTimerRepeatEnds(u) ==
    /\ pc = "run" /\ cur \in Repeating /\ state[cur] = S1 /\ timeout[cur]
    /\ CallBack(u)
    /\ state' = [state EXCEPT ![cur] = Finished]
    /\ Destroy
    /\ UNCHANGED <<timeout, uvVars, calls>>

(* TimerTask::run after a timeout, repeat_ *)
TimerRepeat(u) ==
    /\ pc = "run" /\ cur \in Repeating /\ state[cur] = S1 /\ timeout[cur]
    /\ CallBack(u)
    /\ timeout' = [timeout EXCEPT ![cur] = FALSE]
    /\ Keep
    /\ UNCHANGED <<state, uvVars, calls>>

(* TimerTask::run after a timeout, !repeat_: the destructor is defaulted,  *)
(* so the uv_timer_t goes away with the object, neither stopped nor closed.*)
TimerOnce(u) ==
    /\ pc = "run" /\ cur \in OneShot /\ state[cur] = S1 /\ timeout[cur]
    /\ CallBack(u)
    /\ calls' = [calls EXCEPT ![cur] = @ + 1]
    /\ state' = [state EXCEPT ![cur] = Finished]
    /\ Destroy
    /\ UNCHANGED <<timeout, uvVars>>

(* for (task : not_finished) pending_tasks_->Push(task), one Push a step *)
Requeue ==
    /\ pc = "requeue" /\ not_finished # <<>>
    /\ Push(Head(not_finished))
    /\ not_finished' = Tail(not_finished)
    /\ UNCHANGED <<cur, pc, state, timeout, uvVars, posts, ticket, calls>>

EnterUvRun ==
    /\ pc = "requeue" /\ not_finished = <<>>
    /\ pc' = "uv"
    /\ UNCHANGED <<queue, not_finished, cur, state, timeout, uvVars, posts,
                   ticket, calls>>

-----------------------------------------------------------------------------
(* libuv                                                                   *)

(* The armed timers whose period ends while the process is observed. *)
Due == {t \in armed : Millis(t) <= Lifetime}

(* Mutant of UvRun: the timer is started with a repeat of 0. *)
MutUvRunNoRepeat(S) ==
    /\ pc = "uv"
    /\ IF armed = {} THEN S = {} ELSE S # {} /\ S \subseteq Due
    /\ timeout' = [t \in Timers |-> timeout[t] \/ t \in S]
    /\ armed' = armed \ S
    /\ pc' = "size"
    /\ UNCHANGED <<queue, not_finished, cur, state, handles, posts, ticket,
                   calls>>

(* uv_run(UV_RUN_ONCE): with nothing active it returns at once; otherwise  *)
(* it sleeps until a timer is due and then fires every due one (S).        *)
(* uv_timer_again re-arms a timer unless its repeat is 0, and the callback *)
(* sets timeout_.                                                          *)
UvRun(S) ==
    /\ pc = "uv"
    /\ IF armed = {} THEN S = {} ELSE S # {} /\ S \subseteq Due
    /\ timeout' = [t \in Timers |-> timeout[t] \/ t \in S]
    /\ armed' = {t \in armed : t \in S => Millis(t) > 0}
    /\ pc' = "size"
    /\ UNCHANGED <<queue, not_finished, cur, state, handles, posts, ticket,
                   calls>>

(* libuv follows its lists into the memory of a destroyed task: running    *)
(* the heap in uv_run, or linking a new handle behind a freed one.  The    *)
(* outcome is undefined; here either nothing (the memory is still intact:  *)
(* UvRun, StartTimer) or the end of the process.                           *)
UseAfterFree ==
    /\ \/ pc = "uv" /\ \E t \in armed : ~Live(t)
       \/ /\ pc = "run" /\ cur \in Timers /\ state[cur] = S0
          /\ \E t \in handles : ~Live(t)
    /\ pc' = "crashed"
    /\ UNCHANGED <<queue, not_finished, cur, state, timeout, uvVars, posts,
                   ticket, calls>>

-----------------------------------------------------------------------------
LoopStep ==
    \/ CheckSize
    \/ Pop
    \/ \E u \in Tasks \cup {NoTask} : RunOnce(u)
    \/ StartTimer
    \/ TimerIdle
    \/ \E u \in Tasks \cup {NoTask} : TimerRepeat(u)
    \/ \E u \in Tasks \cup {NoTask} : TimerOnce(u)
    \/ Requeue
    \/ EnterUvRun
    \/ \E S \in SUBSET Timers : UvRun(S)
    \/ UseAfterFree

Next == LoopStep \/ \E t \in Tasks : Post(t)

Spec == Init /\ [][Next]_vars

(* The loop's thread is scheduled, uv_run wakes when a timer is due, and   *)
(* the clock moves on: a timer that stays armed becomes due in some call.  *)
(* Nobody is obliged to post.                                              *)
Fairness ==
    /\ WF_vars(LoopStep)
    /\ \A t \in Timers :
         SF_vars(\E S \in SUBSET Timers : t \in S /\ UvRun(S))

FairSpec == Spec /\ Fairness

-----------------------------------------------------------------------------
(* Properties                                                              *)

Members(q) == {q[i] : i \in DOMAIN q}

Injective(q) == \A i, j \in DOMAIN q : q[i] = q[j] => i = j

(* Every existing task has exactly one owner: one place in the channel,    *)
(* one place in not_finished, or the local variable of Loop::run; and      *)
(* nothing else is in those places.  (The unique_ptr is neither lost       *)
(* between Pop and Push nor used after its task was destroyed.)            *)
Ownership ==
    /\ {t \in Tasks : Live(t)} =
          Members(queue) \cup Members(not_finished) \cup ({cur} \ {NoTask})
    /\ Injective(queue) /\ Injective(not_finished)
    /\ Members(queue) \cap Members(not_finished) = {}
    /\ cur \notin Members(queue) \cup Members(not_finished)

(* Size() > 0 and the following Pop() are two critical sections, yet the   *)
(* channel is never empty when Loop::run pops: no other thread pops.       *)
PopSafe == pc = "pop" => queue # <<>>

(* The func_ of a RunOnce or of a non-repeating TimerTask has run exactly  *)
(* once when the task is destroyed and never before.                       *)
ExactlyOnce ==
    \A t \in Once \cup OneShot :
        calls[t] = IF state[t] = Finished THEN 1 ELSE 0

(* A timer never fires into a timeout_ flag that is still set: whatever    *)
(* fired in one uv_run is served by the pass that follows, before the next *)
(* uv_run, so no tick is merged with an earlier one.                       *)
NoTickLost ==
    pc = "uv" => \A t \in Timers : Live(t) => ~timeout[t]

(* libuv only knows handles whose memory still exists, except for those of *)
(* non-repeating TimerTasks: a task never calls uv_close on its handle, so *)
(* this needs the tasks themselves to stay alive.                          *)
HandlesOwned == \A t \in handles : t \in OneShot \/ Live(t)

(* The same of all TimerTasks, as one would expect of RAII: violated when  *)
(* a non-repeating one has finished.                                       *)
AllHandlesOwned == \A t \in handles : Live(t)

(* Tasks are begun in the order of their posts, each at most once, though  *)
(* unfinished ones keep cycling through the same channel.                  *)
Fifo == INSTANCE FifoDispatch
          WITH begun <- {t \in Tasks : ticket[t] # 0 /\ state[t] # S0}

FifoOrder == Fifo!Spec

(* Every posted task is begun, even one posted by another thread while the *)
(* loop sleeps in uv_run.  Nothing wakes uv_run for it (there is no        *)
(* uv_async): it is begun because a timer comes due, or because uv_run     *)
(* does not sleep when no timer is armed.                                  *)
EveryTaskStarts ==
    \A t \in Tasks : (ticket[t] # 0) ~> (state[t] # S0 \/ pc = "crashed")

(* A repeating timer keeps firing, and its callback answers every firing,  *)
(* when it was asked for at least a millisecond and for less than half of  *)
(* int's range: a shorter one is started with repeat 0 and fires once, a   *)
(* longer one is cut to another duration, mostly one without end.          *)
Sensible(t) ==
    /\ MiliSec <= Duration[t]
    /\ 2 * Duration[t] < IntRange
    /\ Duration[t] <= MiliSec * Lifetime

KeepsTicking ==
    \A t \in {r \in Repeating : Sensible(r)} :
        /\ (state[t] = S1 /\ ~timeout[t]) ~> (timeout[t] \/ pc = "crashed")
        /\ timeout[t] ~> (~timeout[t] \/ pc = "crashed")

-----------------------------------------------------------------------------
(* The inductive strengthening of the safety properties                    *)

(* Where tasks are at each pc. *)
Placed ==
    /\ pc = "run" => cur \in Tasks
    /\ pc \in {"size", "pop", "requeue", "uv"} => cur = NoTask
    /\ pc = "uv" => not_finished = <<>>

(* What a task's state says of its past. *)
Started ==
    /\ \A t \in Tasks : ticket[t] = 0 => state[t] = S0
    /\ \A t \in Once : state[t] # S1
    /\ \A t \in Members(not_finished) : state[t] = S1
    /\ \A t \in handles : state[t] # S0

(* A set timeout_ is on its way to the front of the channel. *)
Served ==
    /\ \A t \in Timers : timeout[t] => t \in handles
    /\ \A t \in Timers : timeout[t] => t \notin Members(not_finished)
    /\ pc \in {"requeue", "uv"} => \A t \in Timers : Live(t) => ~timeout[t]

(* The posts are numbered without gaps behind them, and the tasks still in *)
(* S0 are in the channel in that order, behind the one being run.          *)
Tickets ==
    /\ \A t \in Tasks : ticket[t] <= posts
    /\ \A s, t \in Tasks : ticket[s] = ticket[t] /\ ticket[s] # 0 => s = t

InOrder ==
    /\ \A i, j \in DOMAIN queue :
          i < j /\ state[queue[i]] = S0 /\ state[queue[j]] = S0
            => ticket[queue[i]] < ticket[queue[j]]
    /\ cur # NoTask /\ state[cur] = S0
          => \A t \in Members(queue) : state[t] = S0 => ticket[cur] < ticket[t]
=============================================================================
