---------------------------- MODULE FifoDispatch ----------------------------
(***************************************************************************)
(* What a mygo Loop promises to whoever calls PostTask: every posted task  *)
(* is begun at most once, and tasks are begun in the order in which they   *)
(* were posted, whichever thread or callback posted them.  Nothing is said *)
(* of how long a task then lives or how often it is polled.                *)
(***************************************************************************)
EXTENDS Naturals

CONSTANT Tasks

VARIABLES
    posts,   \* how many tasks were posted so far
    ticket,  \* ticket[t]: t was the ticket[t]-th task posted; 0 if never
    begun    \* the tasks whose run() was entered at least once

vars == <<posts, ticket, begun>>

TypeOK ==
    /\ posts \in Nat
    /\ ticket \in [Tasks -> Nat]
    /\ begun \subseteq Tasks

Init ==
    /\ posts = 0
    /\ ticket = [t \in Tasks |-> 0]
    /\ begun = {}

(* t is the oldest task that is still waiting. *)
Oldest(t) ==
    /\ ticket[t] # 0
    /\ t \notin begun
    /\ \A s \in Tasks : ticket[s] # 0 /\ ticket[s] < ticket[t] => s \in begun

TakeTicket(t) ==
    /\ ticket[t] = 0
    /\ posts' = posts + 1
    /\ ticket' = [ticket EXCEPT ![t] = posts + 1]

Post(t) == TakeTicket(t) /\ UNCHANGED begun

Begin(t) ==
    /\ Oldest(t)
    /\ begun' = begun \cup {t}
    /\ UNCHANGED <<posts, ticket>>

(* A task may itself post another one while it is being begun. *)
BeginPosting(t, u) ==
    /\ Oldest(t)
    /\ begun' = begun \cup {t}
    /\ TakeTicket(u)

Next ==
    \/ \E t \in Tasks : Post(t) \/ Begin(t)
    \/ \E t, u \in Tasks : BeginPosting(t, u)

Spec == Init /\ [][Next]_vars
=============================================================================
