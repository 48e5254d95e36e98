------------------------- MODULE TokenStreamProofs -------------------------
(***************************************************************************)
(* Theorems about TokenStream, for every set of sources whose tokens are   *)
(* as SourcesAssumption says and for any number of guards.                 *)
(*                                                                         *)
(* The cache is keyed by the position alone, so its coherence rests on loc *)
(* being determined by the position among all the states the stream may    *)
(* still return to.  That is inductive together with their order: guards   *)
(* lie behind the stream and one behind the other, Next either moves to a  *)
(* position beyond them all or, at the end, does not move at all.          *)
(***************************************************************************)
EXTENDS TokenStream, SequenceTheorems, TLAPS

Locs == [line : Nat, coloum : Nat]

Tokens ==
    {Lex(s, p) : s \in Sources, p \in Nat}
      \cup {Nothing, [type |-> "Enf", len |-> 0]}

Kept == [pos : Nat, loc : Locs, last_tk : Tokens]

Caches == [key : Int, tk : Tokens, start : Locs, end : Locs]

Shape ==
    /\ src \in Sources
    /\ state \in Kept /\ state.pos <= src.len
    /\ guards \in Seq(Kept)
    /\ \A i \in 1 .. Len(guards) : guards[i].pos <= src.len
    /\ Len(guards) <= MaxGuards
    /\ cache \in Caches /\ cache.key <= src.len /\ cache.key >= -1
    /\ defined \in BOOLEAN

(* Behind or at the same place; one position has one loc *)
Precedes(s, t) ==
    /\ s.pos <= t.pos
    /\ s.pos = t.pos => s.loc = t.loc
    /\ Upto(s.loc, t.loc)

Ordered ==
    /\ \A i \in 1 .. Len(guards) : Precedes(guards[i], state)
    /\ \A i, j \in 1 .. Len(guards) : i <= j => Precedes(guards[i], guards[j])

(* The cache c, as far as it concerns the state s *)
Coherent(c, s) ==
    s.pos = c.key =>
        /\ c.tk = Lex(src, s.pos)
        /\ c.start = s.loc
        /\ c.end = End(c.tk, s.loc)

AllCoherent ==
    /\ Coherent(cache, state)
    /\ \A i \in 1 .. Len(guards) : Coherent(cache, guards[i])

IInv == Shape /\ Ordered /\ AllCoherent

-----------------------------------------------------------------------------
(* What the assumptions say of each source *)
LEMMA SourcesFacts ==
  \A s \in Sources :
    /\ s.len \in Nat
    /\ \A p \in 0 .. s.len :
         /\ Lex(s, p).len \in 0 .. s.len - p
         /\ Lex(s, p).len = 0 <=> Lex(s, p).type \in {"Enf", "Null"}
         /\ Lex(s, p).type = "Space" => Lex(s, p + Lex(s, p).len).type # "Space"
BY SourcesAssumption DEF Readable

LEMMA PlacesFacts ==
  \A s \in Sources :
    /\ s.places \in Seq(0 .. s.len) /\ s.places # <<>>
    /\ s.places[1] = 0
    /\ \A n \in 1 .. Len(s.places) :
         Behind(s, s.places[n]) =
             IF n < Len(s.places) THEN s.places[n + 1] ELSE s.places[n]
    /\ \A m, n \in 1 .. Len(s.places) : m < n => s.places[m] < s.places[n]
    /\ \A p \in 0 .. s.len :
         /\ "type" \in DOMAIN Lex(s, p)
         /\ Lex(s, p).type = "Null" => Lex(s, p) = Nothing
BY PlacesAssumption DEF Placed

(* What a token of the source is *)
LEMMA TokenFacts ==
  ASSUME Shape, NEW s \in Kept, s.pos <= src.len
  PROVE  /\ Lex(src, s.pos) \in Tokens
         /\ Lex(src, s.pos).len \in Nat
         /\ s.pos + Lex(src, s.pos).len <= src.len
         /\ Lex(src, s.pos).len = 0 <=> Lex(src, s.pos).type \in {"Enf", "Null"}
         /\ s.pos + Lex(src, s.pos).len \in 0 .. src.len
         /\ src.len \in Nat
<1>1. s.pos \in Nat /\ src \in Sources /\ src.len \in Nat
  BY SourcesFacts DEF Shape, Kept
<1>2. s.pos \in 0 .. src.len
  BY <1>1
<1>3. Lex(src, s.pos).len \in 0 .. src.len - s.pos
  BY <1>1, <1>2, SourcesFacts
<1>4. Lex(src, s.pos).len = 0 <=> Lex(src, s.pos).type \in {"Enf", "Null"}
  BY <1>1, <1>2, SourcesFacts
<1>5. Lex(src, s.pos) \in Tokens
  BY <1>1 DEF Tokens
<1>6. /\ Lex(src, s.pos).len \in Nat
      /\ s.pos + Lex(src, s.pos).len <= src.len
      /\ s.pos + Lex(src, s.pos).len \in 0 .. src.len
  BY <1>1, <1>3
<1> QED BY <1>1, <1>4, <1>5, <1>6

LEMMA EndType ==
  ASSUME NEW loc \in Locs, NEW tk, tk.len \in Nat
  PROVE  /\ End(tk, loc) \in Locs
         /\ Upto(loc, End(tk, loc))
         /\ tk.len = 0 /\ tk.type # "Enl" => End(tk, loc) = loc
BY DEF Locs, End, Loc, Upto

LEMMA PrecedesSelf == ASSUME NEW s \in Kept PROVE Precedes(s, s)
BY DEF Precedes, Upto, Kept, Locs

LEMMA PrecedesTrans ==
  ASSUME NEW r \in Kept, NEW s \in Kept, NEW t \in Kept,
         Precedes(r, s), Precedes(s, t)
  PROVE  Precedes(r, t)
BY DEF Precedes, Upto, Kept, Locs

(* A Peek in s leaves a cache that is right there, hit or miss. *)
LEMMA FilledRight ==
  ASSUME Shape, NEW s \in Kept, s.pos <= src.len,
         NEW c \in Caches, Coherent(c, s)
  PROVE  /\ Filled(c, s) \in Caches
         /\ Filled(c, s).key = s.pos
         /\ Filled(c, s).tk = Lex(src, s.pos)
         /\ Filled(c, s).start = s.loc
         /\ Filled(c, s).end = End(Lex(src, s.pos), s.loc)
<1>1. Lex(src, s.pos) \in Tokens /\ Lex(src, s.pos).len \in Nat
  BY TokenFacts
<1>2. s.pos \in Int /\ s.loc \in Locs
  BY DEF Kept
<1>3. End(Lex(src, s.pos), s.loc) \in Locs
  BY <1>1, <1>2, EndType
<1>4. CASE c.key = s.pos
  BY <1>4 DEF Filled, Coherent
<1>5. CASE c.key # s.pos
  <2>1. Filled(c, s) = [key |-> s.pos, tk |-> Lex(src, s.pos), start |-> s.loc,
                        end |-> End(Lex(src, s.pos), s.loc)]
    BY <1>5 DEF Filled
  <2> QED BY <2>1, <1>1, <1>2, <1>3 DEF Caches
<1> QED BY <1>4, <1>5

(* A turn of Next's loop goes to a later position, or nowhere at the end. *)
LEMMA HopForward ==
  ASSUME Shape, NEW s \in Kept, s.pos <= src.len,
         NEW c \in Caches, c.tk = Lex(src, s.pos), c.end = End(c.tk, s.loc),
         c.tk.type # "Null", NEW last \in Tokens
  PROVE  /\ Hop(s, c, last) \in Kept
         /\ Hop(s, c, last).pos <= src.len
         /\ Hop(s, c, last).pos = s.pos + c.tk.len
         /\ Hop(s, c, last).loc = c.end
         /\ Precedes(s, Hop(s, c, last))
         /\ IF c.tk.type = "Enf" THEN Hop(s, c, last).pos = s.pos
            ELSE Hop(s, c, last).pos > s.pos
<1>1. /\ c.tk.len \in Nat
      /\ s.pos + c.tk.len <= src.len
      /\ c.tk.len = 0 <=> c.tk.type \in {"Enf", "Null"}
  BY TokenFacts
<1>2. s.pos \in Nat /\ s.loc \in Locs
  BY DEF Kept
<1>3. /\ c.end \in Locs
      /\ Upto(s.loc, c.end)
      /\ c.tk.len = 0 /\ c.tk.type # "Enl" => c.end = s.loc
  BY <1>1, <1>2, EndType
<1>4. Hop(s, c, last) = [pos |-> s.pos + c.tk.len, loc |-> c.end, last_tk |-> last]
  BY DEF Hop
<1>5. Hop(s, c, last) \in Kept
  BY <1>1, <1>2, <1>3, <1>4 DEF Kept
<1>6. s.pos = s.pos + c.tk.len => c.end = s.loc
  BY <1>1, <1>2, <1>3
<1>7. Precedes(s, Hop(s, c, last))
  BY <1>1, <1>2, <1>3, <1>4, <1>6 DEF Precedes
<1> QED BY <1>1, <1>2, <1>4, <1>5, <1>7

(* A state at or behind which a coherent cache was filled stays coherent   *)
(* with it when it is left.                                                *)
LEMMA CoherentAhead ==
  ASSUME NEW s, NEW t, NEW c, Coherent(c, s), c.key = s.pos, Precedes(s, t)
  PROVE  Coherent(c, t)
BY DEF Coherent, Precedes

(* A step that fills the cache at the state it leaves the stream in, which *)
(* is the old one or beyond it, keeps the invariant.                       *)
LEMMA MoveKeeps ==
  ASSUME IInv, src' = src, guards' = guards, defined' = defined,
         state' \in Kept, state'.pos <= src.len, Precedes(state, state'),
         cache' \in Caches, cache'.key = state'.pos, Coherent(cache', state')
  PROVE  IInv'
<1>1. Shape'
  <2>1. state'.pos \in Nat
    BY DEF Kept
  <2> QED BY <2>1 DEF IInv, Shape
<1>2. \A i \in 1 .. Len(guards) : guards[i] \in Kept /\ Precedes(guards[i], state')
  BY PrecedesTrans DEF IInv, Shape, Ordered
<1>3. Ordered'
  BY <1>2 DEF IInv, Ordered, Precedes
<1>4. \A i \in 1 .. Len(guards) : Coherent(cache', guards[i])
  BY <1>2 DEF Coherent, Precedes
<1>5. AllCoherent'
  BY <1>4 DEF AllCoherent, Coherent
<1> QED BY <1>1, <1>3, <1>5 DEF IInv

LEMMA PeekKeeps == IInv /\ Peek => IInv'
<1> SUFFICES ASSUME IInv, Peek PROVE IInv'
  OBVIOUS
<1>1. /\ cache' \in Caches /\ cache'.key = state.pos
      /\ Coherent(cache', state)
  BY FilledRight DEF IInv, Shape, AllCoherent, Peek, Coherent
<1>2. Precedes(state, state)
  BY PrecedesSelf DEF IInv, Shape
<1>3. src' = src /\ guards' = guards /\ state' = state /\ defined' = defined
  BY DEF Peek
<1> QED BY <1>1, <1>2, <1>3, MoveKeeps DEF IInv, Shape

(* The loc at Behind(s, p), when loc is the one at p *)
BehindLoc(s, p, loc) ==
    LET q == p + Lex(s, p).len
        end == End(Lex(s, p), loc)
    IN  IF Lex(s, q).type = "Space" THEN End(Lex(s, q), end) ELSE end

(* Where Next goes, and what it leaves in the cache *)
LEMMA NextMoves ==
  ASSUME IInv, Next
  PROVE  /\ state' \in Kept /\ state'.pos <= src.len
         /\ Precedes(state, state')
         /\ cache' \in Caches /\ cache'.key = state'.pos
         /\ Coherent(cache', state')
         /\ Lex(src, state.pos).type # "Null"
         /\ state'.pos = Behind(src, state.pos)
         /\ state'.loc = BehindLoc(src, state.pos, state.loc)
         /\ Lex(src, state.pos).type = "Enf" =>
              state'.pos = state.pos
         /\ Lex(src, state.pos).type # "Enf" =>
              state'.pos > state.pos /\ Lex(src, state'.pos).type # "Space"
<1> DEFINE c0 == Filled(cache, state)
           s1 == Hop(state, c0, c0.tk)
           c1 == Filled(c0, s1)
           s2 == Hop(s1, c1, c0.tk)
           c2 == Filled(c1, s2)
<1>1. /\ c0.tk.type # "Null"
      /\ IF c1.tk.type = "Space" THEN state' = s2 /\ cache' = c2
         ELSE state' = s1 /\ cache' = c1
  BY DEF Next
<1>2. Shape /\ state \in Kept /\ state.pos <= src.len /\ state.pos \in Nat
  BY DEF IInv, Shape, Kept
<1>3. /\ c0 \in Caches /\ c0.key = state.pos /\ c0.tk = Lex(src, state.pos)
      /\ c0.start = state.loc /\ c0.end = End(c0.tk, state.loc)
  BY <1>2, FilledRight DEF IInv, Shape, AllCoherent
<1>4. c0.tk \in Tokens
  BY <1>3 DEF Caches
<1> HIDE DEF c0
<1>5. /\ s1 \in Kept /\ s1.pos <= src.len /\ Precedes(state, s1)
      /\ s1.pos = state.pos + c0.tk.len /\ s1.loc = c0.end
      /\ IF c0.tk.type = "Enf" THEN s1.pos = state.pos ELSE s1.pos > state.pos
  BY <1>1, <1>2, <1>3, <1>4, HopForward
<1>6. Coherent(c0, s1)
  BY <1>3, <1>5, CoherentAhead DEF Coherent
<1> HIDE DEF s1
<1>7. /\ c1 \in Caches /\ c1.key = s1.pos /\ c1.tk = Lex(src, s1.pos)
      /\ c1.start = s1.loc /\ c1.end = End(c1.tk, s1.loc)
  BY <1>2, <1>3, <1>5, <1>6, FilledRight
<1> HIDE DEF c1
<1>8. CASE c1.tk.type # "Space"
  <2>1. state' = s1 /\ cache' = c1
    BY <1>1, <1>8
  <2>2. state'.pos = Behind(src, state.pos)
    BY <2>1, <1>3, <1>5, <1>7, <1>8 DEF Behind
  <2>3. state'.loc = BehindLoc(src, state.pos, state.loc)
    BY <2>1, <1>3, <1>5, <1>7, <1>8 DEF BehindLoc
  <2> QED BY <2>1, <2>2, <2>3, <1>1, <1>3, <1>5, <1>7, <1>8 DEF Coherent
<1>9. CASE c1.tk.type = "Space"
  <2>1. state' = s2 /\ cache' = c2
    BY <1>1, <1>9
  <2>2. /\ s2 \in Kept /\ s2.pos <= src.len /\ Precedes(s1, s2)
        /\ s2.pos = s1.pos + c1.tk.len /\ s2.pos > s1.pos
        /\ s2.loc = c1.end
    BY <1>2, <1>4, <1>5, <1>7, <1>9, HopForward
  <2>3. Coherent(c1, s2)
    BY <1>7, <2>2, CoherentAhead DEF Coherent
  <2> HIDE DEF s2
  <2>4. /\ c2 \in Caches /\ c2.key = s2.pos /\ c2.tk = Lex(src, s2.pos)
        /\ c2.start = s2.loc /\ c2.end = End(c2.tk, s2.loc)
    BY <1>2, <1>7, <2>2, <2>3, FilledRight
  <2> HIDE DEF c2
  <2>5. Precedes(state, s2)
    BY <1>2, <1>5, <2>2, PrecedesTrans
  <2>6. s1.pos \in 0 .. src.len /\ s1.pos \in Nat /\ s2.pos \in Nat
    BY <1>2, <1>5, <2>2, SourcesFacts DEF Kept, Shape
  <2>7. Lex(src, s2.pos).type # "Space"
    BY <1>2, <1>7, <1>9, <2>2, <2>6, SourcesFacts DEF Shape
  <2>8. c0.tk.type # "Enf"
    <3> SUFFICES ASSUME c0.tk.type = "Enf" PROVE FALSE
      OBVIOUS
    <3>1. s1.pos = state.pos
      BY <1>5
    <3> QED BY <3>1, <1>3, <1>7, <1>9
  <2>9. s2.pos > state.pos
    BY <1>2, <1>5, <2>2, <2>6, <2>8
  <2>10. state'.pos = Behind(src, state.pos)
    BY <2>1, <1>3, <1>5, <1>7, <1>9, <2>2 DEF Behind
  <2>11. state'.loc = BehindLoc(src, state.pos, state.loc)
    BY <2>1, <1>3, <1>5, <1>7, <1>9, <2>2 DEF BehindLoc
  <2> QED BY <2>1, <1>1, <1>3, <2>2, <2>4, <2>5, <2>7, <2>8, <2>9, <2>10, <2>11
          DEF Coherent
<1> QED BY <1>8, <1>9

LEMMA NextKeeps == IInv /\ Next => IInv'
<1> SUFFICES ASSUME IInv, Next PROVE IInv'
  OBVIOUS
<1>1. src' = src /\ guards' = guards /\ defined' = defined
  BY DEF Next
<1> QED BY <1>1, NextMoves, MoveKeeps

LEMMA GuardKeeps == IInv /\ Guard => IInv'
<1> SUFFICES ASSUME IInv, Guard PROVE IInv'
  OBVIOUS
<1>1. /\ guards' = Append(guards, state) /\ Len(guards) < MaxGuards
      /\ src' = src /\ state' = state /\ cache' = cache /\ defined' = defined
  BY DEF Guard
<1>2. guards \in Seq(Kept) /\ state \in Kept /\ Len(guards) \in Nat
  BY DEF IInv, Shape
<1>3. /\ guards' \in Seq(Kept) /\ Len(guards') = Len(guards) + 1
      /\ guards'[Len(guards) + 1] = state
      /\ \A i \in 1 .. Len(guards) : guards'[i] = guards[i]
  BY <1>1, <1>2
<1>4. \A i \in 1 .. Len(guards') :
         i \in 1 .. Len(guards) \/ i = Len(guards) + 1
  BY <1>2, <1>3
<1>5. Shape'
  BY <1>1, <1>2, <1>3, <1>4, MaxGuardsAssumption DEF IInv, Shape
<1>6. Precedes(state, state)
  BY <1>2, PrecedesSelf
<1>7. \A i \in 1 .. Len(guards') : Precedes(guards'[i], state)
  BY <1>3, <1>4, <1>6 DEF IInv, Ordered
<1>8. \A i, j \in 1 .. Len(guards') : i <= j => Precedes(guards'[i], guards'[j])
  BY <1>2, <1>3, <1>4, <1>7 DEF IInv, Ordered
<1>9. Ordered'
  BY <1>1, <1>7, <1>8 DEF Ordered, Precedes
<1>10. AllCoherent'
  BY <1>1, <1>3, <1>4 DEF IInv, AllCoherent, Coherent
<1> QED BY <1>5, <1>9, <1>10 DEF IInv

(* Leaving a guard, wherever it leaves the stream among the states that    *)
(* were there, keeps what is left.                                         *)
LEMMA LeaveFacts ==
  ASSUME IInv, guards # <<>>, Leave
  PROVE  /\ guards' \in Seq(Kept) /\ Len(guards') = Len(guards) - 1
         /\ Len(guards) \in 1 .. Len(guards)
         /\ \A i \in 1 .. Len(guards') : i \in 1 .. Len(guards) /\ guards'[i] = guards[i]
<1>1. guards \in Seq(Kept) /\ Len(guards) \in Nat /\ Len(guards) > 0
  BY DEF IInv, Shape
<1> DEFINE n == Len(guards) - 1
<1>2. n \in Nat /\ n <= Len(guards)
  BY <1>1
<1>3. \A i \in 1 .. n : guards[i] \in Kept
  BY <1>1, <1>2
<1>4. /\ SubSeq(guards, 1, n) \in Seq(Kept)
      /\ Len(SubSeq(guards, 1, n)) = IF 1 <= n THEN n - 1 + 1 ELSE 0
      /\ \A i \in 1 .. n - 1 + 1 : SubSeq(guards, 1, n)[i] = guards[1 + i - 1]
  BY <1>2, <1>3, SubSeqProperties
<1>5. Len(SubSeq(guards, 1, n)) = n
  <2> DEFINE r == Len(SubSeq(guards, 1, n))
  <2>1. r = IF 1 <= n THEN n - 1 + 1 ELSE 0
    BY <1>4
  <2> HIDE DEF r, n
  <2>2. r = n
    BY <2>1, <1>2
  <2> QED BY <2>2 DEF r
<1>6. \A i \in 1 .. n : SubSeq(guards, 1, n)[i] = guards[i]
  <2> HIDE DEF n
  <2>1. \A i \in 1 .. n : i \in 1 .. n - 1 + 1 /\ 1 + i - 1 = i
    BY <1>2
  <2> QED BY <2>1, <1>4
<1> QED BY <1>1, <1>2, <1>4, <1>5, <1>6 DEF Leave

LEMMA FinishKeeps == IInv /\ Finish => IInv'
<1> SUFFICES ASSUME IInv, Finish PROVE IInv'
  OBVIOUS
<1>1. /\ guards # <<>> /\ Leave
      /\ src' = src /\ state' = state /\ cache' = cache /\ defined' = defined
  BY DEF Finish
<1>2. /\ guards' \in Seq(Kept) /\ Len(guards') = Len(guards) - 1
      /\ \A i \in 1 .. Len(guards') : i \in 1 .. Len(guards) /\ guards'[i] = guards[i]
  BY <1>1, LeaveFacts
<1>3. Shape'
  BY <1>1, <1>2, MaxGuardsAssumption DEF IInv, Shape
<1>4. Ordered'
  BY <1>1, <1>2 DEF IInv, Ordered, Precedes
<1>5. AllCoherent'
  BY <1>1, <1>2 DEF IInv, AllCoherent, Coherent
<1> QED BY <1>3, <1>4, <1>5 DEF IInv

LEMMA ReloadKeeps == IInv /\ Reload => IInv'
<1> SUFFICES ASSUME IInv, Reload PROVE IInv'
  OBVIOUS
<1>1. /\ guards # <<>> /\ Leave /\ state' = guards[Len(guards)]
      /\ src' = src /\ cache' = cache /\ defined' = defined
  BY DEF Reload, Innermost
<1>2. /\ guards' \in Seq(Kept) /\ Len(guards') = Len(guards) - 1
      /\ Len(guards) \in 1 .. Len(guards)
      /\ \A i \in 1 .. Len(guards') : i \in 1 .. Len(guards) /\ guards'[i] = guards[i]
  BY <1>1, LeaveFacts
<1>3. Shape'
  BY <1>1, <1>2, MaxGuardsAssumption DEF IInv, Shape
<1>4. \A i \in 1 .. Len(guards') : Precedes(guards'[i], state')
  BY <1>1, <1>2 DEF IInv, Ordered
<1>5. \A i, j \in 1 .. Len(guards') : i <= j => Precedes(guards'[i], guards'[j])
  BY <1>2 DEF IInv, Ordered
<1>6. Ordered'
  BY <1>4, <1>5 DEF Ordered, Precedes
<1>7. AllCoherent'
  BY <1>1, <1>2 DEF IInv, AllCoherent, Coherent
<1> QED BY <1>3, <1>6, <1>7 DEF IInv

LEMMA NextUndefinedKeeps == IInv /\ NextUndefined => IInv'
<1> SUFFICES ASSUME IInv, NextUndefined PROVE IInv'
  OBVIOUS
<1>1. /\ src' = src /\ state' = state /\ cache' = cache /\ guards' = guards
      /\ defined' = FALSE
  BY DEF NextUndefined
<1>2. Shape'
  BY <1>1 DEF IInv, Shape
<1>3. Ordered'
  BY <1>1 DEF IInv, Ordered, Precedes
<1>4. AllCoherent'
  BY <1>1 DEF IInv, AllCoherent, Coherent
<1> QED BY <1>2, <1>3, <1>4 DEF IInv

LEMMA InitRight == Init => IInv
<1> SUFFICES ASSUME Init PROVE IInv
  OBVIOUS
<1>1. /\ src \in Sources /\ src.len \in Nat
      /\ state.pos = 0 /\ cache.key = -1 /\ guards = <<>> /\ defined = TRUE
  BY SourcesFacts DEF Init
<1>2. Loc(1, 1) \in Locs
  BY DEF Loc, Locs
<1>3. state \in Kept
  BY <1>2 DEF Init, Kept, Tokens
<1>4. cache \in Caches
  BY <1>2 DEF Init, Caches, Tokens
<1>5. Shape
  BY <1>1, <1>3, <1>4, MaxGuardsAssumption DEF Shape
<1> QED BY <1>1, <1>5 DEF IInv, Ordered, AllCoherent, Coherent

(* Guards lie in order behind the stream, and the cache is right for each  *)
(* of them, in every state TokenStream can reach.                          *)
THEOREM StreamInvariant == Spec => []IInv
<1>1. IInv /\ [Step]_vars => IInv'
  <2> SUFFICES ASSUME IInv, [Step]_vars PROVE IInv'
    OBVIOUS
  <2>1. CASE Peek
    BY <2>1, PeekKeeps
  <2>2. CASE Next
    BY <2>2, NextKeeps
  <2>3. CASE NextUndefined
    BY <2>3, NextUndefinedKeeps
  <2>4. CASE Guard
    BY <2>4, GuardKeeps
  <2>5. CASE Finish
    BY <2>5, FinishKeeps
  <2>6. CASE Reload
    BY <2>6, ReloadKeeps
  <2>7. CASE UNCHANGED vars
    BY <2>7 DEF vars, IInv, Shape, Ordered, AllCoherent, Coherent, Precedes
  <2> QED BY <2>1, <2>2, <2>3, <2>4, <2>5, <2>6, <2>7 DEF Step
<1> QED BY <1>1, InitRight, PTL DEF Spec

-----------------------------------------------------------------------------
(* No state the stream is in or may be taken back to lies outside the      *)
(* source: FromChars never reads beyond its end.                           *)
THEOREM TypeCorrect == Spec => []TypeOK
<1>1. IInv => TypeOK
  <2> SUFFICES ASSUME IInv PROVE TypeOK
    OBVIOUS
  <2>1. src.len \in Nat
    BY SourcesFacts DEF IInv, Shape
  <2>2. \A s \in States : s \in Kept /\ s.pos <= src.len
    BY DEF IInv, Shape, States
  <2>3. \A s \in States : s.pos \in 0 .. src.len
    BY <2>1, <2>2 DEF Kept
  <2>4. cache.key \in -1 .. src.len
    BY <2>1 DEF IInv, Shape, Caches
  <2> QED BY <2>3, <2>4 DEF IInv, Shape, TypeOK
<1> QED BY <1>1, StreamInvariant, PTL

(* Peek may trust its cache although only the position is compared and a   *)
(* guard's destructor does not clear it.                                   *)
THEOREM CacheIsCoherent == Spec => []CacheCoherent
<1>1. IInv => CacheCoherent
  <2> SUFFICES ASSUME IInv, NEW s \in States PROVE Coherent(cache, s)
    BY DEF CacheCoherent, Coherent
  <2>1. guards \in Seq(Kept)
    BY DEF IInv, Shape
  <2> QED BY <2>1 DEF IInv, AllCoherent, States
<1> QED BY <1>1, StreamInvariant, PTL

(* The start and the end a guard hands out are in order, however the       *)
(* stream moved while it was alive.                                        *)
THEOREM SpansAreForward == Spec => SpanForward
<1>1. IInv /\ [Step]_vars => [Finish => Upto(ret'.start, ret'.end)]_vars
  <2> SUFFICES ASSUME IInv, Finish PROVE Upto(ret'.start, ret'.end)
    OBVIOUS
  <2>1. Len(guards) \in 1 .. Len(guards)
    BY LeaveFacts DEF Finish
  <2>2. Upto(guards[Len(guards)].loc, state.loc)
    BY <2>1 DEF IInv, Ordered, Precedes
  <2> QED BY <2>2 DEF Finish, Innermost
<1> QED BY <1>1, StreamInvariant, PTL DEF Spec, SpanForward

(* Next is progress, in every source: a loop that calls it ends.           *)
THEOREM NextIsProgress == Spec => NextAdvances
<1> DEFINE A == Next => IF Lex(src, state.pos).type = "Enf"
                        THEN state'.pos = state.pos /\ state'.loc = state.loc
                        ELSE /\ state'.pos > state.pos
                             /\ Lex(src, state'.pos).type # "Space"
<1>1. IInv /\ [Step]_vars => [A]_vars
  <2> SUFFICES ASSUME IInv, Next PROVE A
    OBVIOUS
  <2>1. /\ Precedes(state, state')
        /\ Lex(src, state.pos).type = "Enf" => state'.pos = state.pos
        /\ Lex(src, state.pos).type # "Enf" =>
             state'.pos > state.pos /\ Lex(src, state'.pos).type # "Space"
    BY NextMoves
  <2> QED BY <2>1 DEF Precedes
<1> QED BY <1>1, StreamInvariant, PTL DEF Spec, NextAdvances

-----------------------------------------------------------------------------
(* The stream implements TokenCursor                                       *)

(* p is the place of a token of s. *)
IsPlace(s, p) == \E n \in 1 .. Len(s.places) : s.places[n] = p

(* The stream, and every guard, is at a token's place; what Peek gave back *)
(* is the token there.                                                     *)
AtPlaces ==
    /\ IsPlace(src, state.pos)
    /\ \A i \in 1 .. Len(guards) : IsPlace(src, guards[i].pos)
    /\ Returned \in {Nothing, Lex(src, state.pos)}

(* A place is visited once, so it has one index. *)
LEMMA IndexRight ==
  ASSUME NEW s \in Sources, NEW n \in 1 .. Len(s.places)
  PROVE  Index(s, s.places[n]) = n
<1>1. s.places \in Seq(0 .. s.len) /\ s.len \in Nat /\ Len(s.places) \in Nat
  BY PlacesFacts, SourcesFacts
<1>2. DOMAIN s.places = 1 .. Len(s.places)
  BY <1>1
<1>3. \A m \in 1 .. Len(s.places) : s.places[m] \in 0 .. s.len
  BY <1>1
<1>4. \A m \in 1 .. Len(s.places) : s.places[m] = s.places[n] => m = n
  <2> SUFFICES ASSUME NEW m \in 1 .. Len(s.places),
                      s.places[m] = s.places[n], m # n
               PROVE  FALSE
    OBVIOUS
  <2>1. m < n \/ n < m
    BY <1>1
  <2>2. s.places[m] < s.places[n] \/ s.places[n] < s.places[m]
    BY <2>1, PlacesFacts
  <2> QED BY <2>2, <1>1, <1>3
<1> QED BY <1>2, <1>4 DEF Index

(* The token at an index of the cursor *)
LEMMA CursorToken ==
  ASSUME NEW s \in Sources, NEW p, IsPlace(s, p)
  PROVE  /\ Index(s, p) \in 1 .. Len(s.places)
         /\ s.places[Index(s, p)] = p
         /\ [n \in DOMAIN s.places |-> Lex(s, s.places[n])][Index(s, p)]
              = Lex(s, p)
<1>1. s.places \in Seq(0 .. s.len)
  BY PlacesFacts
<1>2. DOMAIN s.places = 1 .. Len(s.places)
  BY <1>1
<1>3. PICK n \in 1 .. Len(s.places) : s.places[n] = p
  BY DEF IsPlace
<1>4. Index(s, p) = n
  BY <1>3, IndexRight
<1> QED BY <1>2, <1>3, <1>4

(* From a token that is not the last, Next goes to the following index. *)
LEMMA BehindIsNext ==
  ASSUME NEW s \in Sources, NEW p, IsPlace(s, p), Behind(s, p) # p
  PROVE  /\ IsPlace(s, Behind(s, p))
         /\ Index(s, Behind(s, p)) = Index(s, p) + 1
<1>1. PICK n \in 1 .. Len(s.places) : s.places[n] = p
  BY DEF IsPlace
<1>2. s.places \in Seq(0 .. s.len) /\ Len(s.places) \in Nat
  BY PlacesFacts
<1>3. Behind(s, p) =
        IF n < Len(s.places) THEN s.places[n + 1] ELSE s.places[n]
  BY <1>1, PlacesFacts
<1>4. n < Len(s.places) /\ Behind(s, p) = s.places[n + 1]
  BY <1>1, <1>3
<1>5. n + 1 \in 1 .. Len(s.places)
  BY <1>2, <1>4
<1>6. Index(s, p) = n /\ Index(s, Behind(s, p)) = n + 1
  BY <1>1, <1>4, <1>5, IndexRight
<1> QED BY <1>4, <1>5, <1>6 DEF IsPlace

(* A token is a record with a type, so Peek's answer can be told. *)
LEMMA ReturnedToken ==
  ASSUME IInv
  PROVE  /\ "type" \in DOMAIN Lex(src, state.pos)
         /\ Lex(src, state.pos).type = "Null" => Lex(src, state.pos) = Nothing
<1>1. src \in Sources /\ state.pos \in 0 .. src.len
  BY SourcesFacts DEF IInv, Shape, Kept
<1> QED BY <1>1, PlacesFacts

CursorStep ==
    Cursor!Peek \/ Cursor!Next \/ Cursor!Guard \/ Cursor!Leave
      \/ UNCHANGED Cursor!cursorVars

LEMMA PeekIsCursor ==
  ASSUME IInv, AtPlaces, Peek
  PROVE  AtPlaces' /\ CursorStep
<1>1. src' = src /\ state' = state /\ guards' = guards
  BY DEF Peek
<1>2. ret' = Lex(src, state.pos)
  BY FilledRight DEF IInv, Shape, AllCoherent, Peek
<1>3. Returned' = Lex(src, state.pos)
  BY <1>2, ReturnedToken DEF Returned
<1>4. AtPlaces'
  BY <1>1, <1>3 DEF AtPlaces
<1>5. [n \in DOMAIN src.places |-> Lex(src, src.places[n])]
        [Index(src, state.pos)] = Lex(src, state.pos)
  BY CursorToken DEF AtPlaces, IInv, Shape
<1>6. Cursor!Peek
  BY <1>1, <1>3, <1>5 DEF Cursor!Peek
<1> QED BY <1>4, <1>6 DEF CursorStep

LEMMA NextIsCursor ==
  ASSUME IInv, AtPlaces, Next
  PROVE  AtPlaces' /\ CursorStep
<1>1. src' = src /\ guards' = guards /\ ret' = Nothing
  BY DEF Next
<1>2. Returned' = Nothing
  BY <1>1 DEF Returned, Nothing
<1>3. /\ Lex(src, state.pos).type # "Null"
      /\ state'.pos = Behind(src, state.pos)
      /\ Lex(src, state.pos).type = "Enf" => state'.pos = state.pos
      /\ Lex(src, state.pos).type # "Enf" => state'.pos > state.pos
  BY NextMoves
<1>4. src \in Sources /\ state.pos \in Nat /\ IsPlace(src, state.pos)
  BY DEF IInv, Shape, Kept, AtPlaces
<1>5. [n \in DOMAIN src.places |-> Lex(src, src.places[n])]
        [Index(src, state.pos)] = Lex(src, state.pos)
  BY <1>4, CursorToken
<1>6. /\ IsPlace(src, state'.pos)
      /\ Index(src, state'.pos) =
           IF Lex(src, state.pos).type = "Enf" THEN Index(src, state.pos)
           ELSE Index(src, state.pos) + 1
  <2>1. CASE Lex(src, state.pos).type = "Enf"
    BY <2>1, <1>3, <1>4
  <2>2. CASE Lex(src, state.pos).type # "Enf"
    <3>1. Behind(src, state.pos) # state.pos
      BY <2>2, <1>3, <1>4
    <3> QED BY <2>2, <3>1, <1>3, <1>4, BehindIsNext
  <2> QED BY <2>1, <2>2
<1>7. AtPlaces'
  BY <1>1, <1>2, <1>6 DEF AtPlaces
<1>8. Cursor!Next
  BY <1>1, <1>2, <1>3, <1>5, <1>6 DEF Cursor!Next, Cursor!Nothing, Nothing
<1> QED BY <1>7, <1>8 DEF CursorStep

(* NextUndefined forgets what Peek gave back, which was nothing. *)
LEMMA NextUndefinedIsCursor ==
  ASSUME IInv, AtPlaces, NextUndefined
  PROVE  AtPlaces' /\ CursorStep
<1>1. src' = src /\ state' = state /\ guards' = guards /\ ret' = Nothing
  BY DEF NextUndefined
<1>2. Returned' = Nothing
  BY <1>1 DEF Returned, Nothing
<1>3. Lex(src, state.pos).type = "Null"
  BY FilledRight DEF IInv, Shape, AllCoherent, NextUndefined
<1>4. Returned = Nothing
  BY <1>3, ReturnedToken DEF AtPlaces
<1>5. AtPlaces'
  BY <1>1, <1>2 DEF AtPlaces
<1>6. UNCHANGED Cursor!cursorVars
  BY <1>1, <1>2, <1>4 DEF Cursor!cursorVars
<1> QED BY <1>5, <1>6 DEF CursorStep

(* The guards, as marks of the cursor *)
LEMMA SavedPlaces ==
  ASSUME IInv, AtPlaces
  PROVE  LET saved == [i \in DOMAIN guards |-> Index(src, guards[i].pos)]
         IN  saved \in Seq(Nat) /\ Len(saved) = Len(guards)
<1> DEFINE saved == [i \in DOMAIN guards |-> Index(src, guards[i].pos)]
<1>1. /\ src \in Sources
      /\ guards \in Seq(Kept) /\ Len(guards) \in Nat
      /\ DOMAIN guards = 1 .. Len(guards)
  BY DEF IInv, Shape
<1>2. Len(src.places) \in Nat
  BY <1>1, PlacesFacts
<1>3. ASSUME NEW i \in 1 .. Len(guards)
      PROVE  Index(src, guards[i].pos) \in Nat
  <2>1. Index(src, guards[i].pos) \in 1 .. Len(src.places)
    BY <1>1, CursorToken DEF AtPlaces
  <2> QED BY <2>1, <1>2
<1>4. saved \in [1 .. Len(guards) -> Nat]
  BY <1>1, <1>3
<1> HIDE DEF saved
<1>5. saved \in Seq(Nat) /\ Len(saved) = Len(guards)
  BY <1>1, <1>4
<1> QED BY <1>5 DEF saved

LEMMA GuardIsCursor ==
  ASSUME IInv, AtPlaces, Guard
  PROVE  AtPlaces' /\ CursorStep
<1> DEFINE saved == [i \in DOMAIN guards |-> Index(src, guards[i].pos)]
           at == Index(src, state.pos)
<1>1. /\ guards' = Append(guards, state)
      /\ src' = src /\ state' = state /\ ret' = Nothing
  BY DEF Guard
<1>2. Returned' = Nothing
  BY <1>1 DEF Returned, Nothing
<1>3. guards \in Seq(Kept) /\ Len(guards) \in Nat /\ state \in Kept
  BY DEF IInv, Shape
<1>4. /\ Len(guards') = Len(guards) + 1
      /\ guards'[Len(guards) + 1] = state
      /\ \A i \in 1 .. Len(guards) : guards'[i] = guards[i]
      /\ DOMAIN guards = 1 .. Len(guards)
      /\ DOMAIN guards' = 1 .. Len(guards) + 1
  BY <1>1, <1>3
<1>5. \A i \in 1 .. Len(guards') :
         i \in 1 .. Len(guards) \/ i = Len(guards) + 1
  BY <1>3, <1>4
<1>6. AtPlaces'
  BY <1>1, <1>2, <1>4, <1>5 DEF AtPlaces
<1>7. saved \in Seq(Nat) /\ Len(saved) = Len(guards)
  BY SavedPlaces
<1>8. saved' = [i \in 1 .. Len(guards) + 1 |-> Index(src, guards'[i].pos)]
  BY <1>1, <1>4
<1>9. Append(saved, at) =
         [i \in 1 .. Len(guards) + 1 |->
            IF i = Len(guards) + 1 THEN at ELSE saved[i]]
  BY <1>3, <1>7
<1>10. \A i \in 1 .. Len(guards) + 1 :
         Index(src, guards'[i].pos) =
           IF i = Len(guards) + 1 THEN at ELSE saved[i]
  BY <1>3, <1>4, <1>5
<1>11. saved' = Append(saved, at)
  BY <1>8, <1>9, <1>10
<1>12. Cursor!Guard
  BY <1>1, <1>2, <1>11 DEF Cursor!Guard, Cursor!Nothing, Nothing
<1> QED BY <1>6, <1>12 DEF CursorStep

(* Finish leaves the cursor alone, Reload takes it to the last mark. *)
LEMMA LeaveIsCursor ==
  ASSUME IInv, AtPlaces, Finish \/ Reload
  PROVE  AtPlaces' /\ CursorStep
<1> DEFINE saved == [i \in DOMAIN guards |-> Index(src, guards[i].pos)]
<1>1. /\ src' = src /\ guards # <<>> /\ Leave
      /\ state' \in {state, guards[Len(guards)]}
  BY DEF Finish, Reload, Innermost
<1>2. Returned' = Nothing
  <2>1. CASE Finish
    <3>1. ret' = [start |-> Innermost.loc, end |-> state.loc]
      BY <2>1 DEF Finish
    <3>2. "type" \notin DOMAIN ret'
      BY <3>1
    <3> QED BY <3>2 DEF Returned
  <2>2. CASE Reload
    BY <2>2 DEF Reload, Returned, Nothing
  <2> QED BY <2>1, <2>2
<1>3. /\ guards' \in Seq(Kept) /\ Len(guards') = Len(guards) - 1
      /\ Len(guards) \in 1 .. Len(guards)
      /\ \A i \in 1 .. Len(guards') : i \in 1 .. Len(guards) /\ guards'[i] = guards[i]
  BY <1>1, LeaveFacts
<1>4. AtPlaces'
  BY <1>1, <1>2, <1>3 DEF AtPlaces
<1>5. saved \in Seq(Nat) /\ Len(saved) = Len(guards)
  BY SavedPlaces
<1>6. /\ guards \in Seq(Kept) /\ Len(guards) \in Nat
      /\ DOMAIN guards = 1 .. Len(guards)
      /\ DOMAIN guards' = 1 .. Len(guards) - 1
  BY <1>3 DEF IInv, Shape
<1>7. /\ saved # <<>>
      /\ saved[Len(saved)] = Index(src, guards[Len(guards)].pos)
  BY <1>3, <1>5, <1>6
<1>8. saved' = [i \in 1 .. Len(guards) - 1 |-> saved[i]]
  BY <1>1, <1>3, <1>6
<1>9. SubSeq(saved, 1, Len(saved) - 1) = [i \in 1 .. Len(guards) - 1 |-> saved[i]]
  <2> HIDE DEF saved
  <2>1. SubSeq(saved, 1, Len(saved) - 1)
          = [i \in 1 .. (Len(saved) - 1) - 1 + 1 |-> saved[i + 1 - 1]]
    BY <1>5, <1>6
  <2>2. /\ (Len(saved) - 1) - 1 + 1 = Len(guards) - 1
        /\ \A i \in 1 .. Len(guards) - 1 : i + 1 - 1 = i
    BY <1>5, <1>6
  <2> QED BY <2>1, <2>2
<1>10. Index(src, state.pos)' \in {Index(src, state.pos), saved[Len(saved)]}
  BY <1>1, <1>7
<1>11. Cursor!Leave
  BY <1>1, <1>2, <1>7, <1>8, <1>9, <1>10
     DEF Cursor!Leave, Cursor!Nothing, Nothing
<1> QED BY <1>4, <1>11 DEF CursorStep

LEMMA CursorInit == Init => AtPlaces /\ Cursor!Init
<1> SUFFICES ASSUME Init PROVE AtPlaces /\ Cursor!Init
  OBVIOUS
<1>1. /\ src \in Sources /\ state.pos = 0 /\ guards = <<>> /\ ret = Nothing
  BY DEF Init
<1>2. Returned = Nothing
  BY <1>1 DEF Returned, Nothing
<1>3. /\ src.places \in Seq(0 .. src.len) /\ src.places # <<>>
      /\ src.places[1] = 0
  BY <1>1, PlacesFacts
<1>4. 1 \in 1 .. Len(src.places)
  BY <1>3
<1>5. IsPlace(src, 0) /\ Index(src, 0) = 1
  BY <1>1, <1>3, <1>4, IndexRight DEF IsPlace
<1>6. DOMAIN guards = {} /\ Len(guards) = 0
  BY <1>1
<1>7. [i \in DOMAIN guards |-> Index(src, guards[i].pos)] = <<>>
  BY <1>6
<1>8. Cursor!Init
  BY <1>1, <1>2, <1>5, <1>7 DEF Cursor!Init, Cursor!Nothing, Nothing
<1>9. AtPlaces
  BY <1>1, <1>2, <1>5, <1>6 DEF AtPlaces
<1> QED BY <1>8, <1>9

(* Every step keeps the stream at places, and is one of the cursor. *)
LEMMA StepIsCursor ==
  ASSUME IInv, AtPlaces, [Step]_vars
  PROVE  AtPlaces' /\ CursorStep
<1>1. CASE UNCHANGED vars
  <2>1. Returned' = Returned
    BY <1>1 DEF vars, Returned
  <2>2. AtPlaces'
    BY <1>1, <2>1 DEF vars, AtPlaces
  <2>3. UNCHANGED Cursor!cursorVars
    BY <1>1, <2>1 DEF vars, Cursor!cursorVars
  <2> QED BY <2>2, <2>3 DEF CursorStep
<1> QED BY <1>1, PeekIsCursor, NextIsCursor, NextUndefinedIsCursor,
           GuardIsCursor, LeaveIsCursor DEF Step

(* TokenStream implements TokenCursor: to the parser the stream is a mark  *)
(* in a sequence of tokens, whatever is cached, blank or taken back.       *)
THEOREM StreamIsCursor == Spec => IsCursor
<1>1. IInv /\ AtPlaces /\ [Step]_vars => AtPlaces' /\ CursorStep
  BY StepIsCursor
<1>2. CursorStep =>
        [Cursor!Peek \/ Cursor!Next \/ Cursor!Guard \/ Cursor!Leave]_(Cursor!cursorVars)
  BY DEF CursorStep
<1> QED BY <1>1, <1>2, CursorInit, StreamInvariant, PTL
        DEF Spec, IsCursor, Cursor!Spec
=============================================================================
