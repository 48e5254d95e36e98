---------------------------- MODULE TokenStream ----------------------------
(***************************************************************************)
(* TokenStream: a cursor over the characters of a source that reads tokens *)
(* through a cache of one, and StateGuards that put it back when a parse   *)
(* fails.  The user is the parser: it may call Peek, Next and the guards'  *)
(* operations in any order, guards being scoped variables (last in, first  *)
(* out).                                                                   *)
(***************************************************************************)
EXTENDS Integers, Sequences

CONSTANTS
    Sources,   \* the sources
    MaxGuards  \* bound: how many guards are alive at a time

(* A source by what the lexer reads in it: s.tk[p] is what                 *)
(* token::Value::FromChars makes of the characters from position p on.     *)
Lex(s, p) == s.tk[p]

(* What the stream relies on: a token lies within the source, only the end *)
(* (Enf) and what cannot be read (Null) have no length, and a Space is all *)
(* of its blanks.                                                          *)
Readable(s) ==
    /\ s.len \in Nat
    /\ \A p \in 0 .. s.len :
         /\ Lex(s, p).len \in 0 .. s.len - p
         /\ Lex(s, p).len = 0 <=> Lex(s, p).type \in {"Enf", "Null"}
         /\ Lex(s, p).type = "Space" => Lex(s, p + Lex(s, p).len).type # "Space"

ASSUME SourcesAssumption == \A s \in Sources : Readable(s)

ASSUME MaxGuardsAssumption == MaxGuards \in Nat

Nothing == [type |-> "Null", len |-> 0]

(* The place behind the token at p and the blanks that follow it *)
Behind(s, p) ==
    LET q == p + Lex(s, p).len
    IN  IF Lex(s, q).type = "Space" THEN q + Lex(s, q).len ELSE q

(* s.places are the places of the tokens of s, the way they are read one   *)
(* after the other, up to the end or to what cannot be read.  Only the     *)
(* comparison with TokenCursor looks at them.                              *)
Placed(s) ==
    /\ s.places \in Seq(0 .. s.len) /\ s.places # <<>>
    /\ s.places[1] = 0
    /\ \A n \in 1 .. Len(s.places) :
         Behind(s, s.places[n]) =
             IF n < Len(s.places) THEN s.places[n + 1] ELSE s.places[n]
    /\ \A m, n \in 1 .. Len(s.places) : m < n => s.places[m] < s.places[n]
    /\ \A p \in 0 .. s.len :
         /\ "type" \in DOMAIN Lex(s, p)
         /\ Lex(s, p).type = "Null" => Lex(s, p) = Nothing

ASSUME PlacesAssumption == \A s \in Sources : Placed(s)

VARIABLES
    src,     \* src_
    state,   \* state_: pos, loc and last_tk, the token Next passed
    cache,   \* cache_ (tk, start, end; tk.type "Null" when empty) and its key
    guards,  \* the states the living guards hold, the innermost last
    ret,     \* what the last call gave back: Peek a token, finish a start
             \* and an end
    defined  \* FALSE after an access to an empty optional

vars == <<src, state, cache, guards, ret, defined>>

Loc(l, c) == [line |-> l, coloum |-> c]

(* Mutant of Init: positions count from 1. *)
MutInitFromOne ==
    /\ src \in Sources
    /\ state = [pos |-> 1, loc |-> Loc(1, 1), last_tk |-> [type |-> "Enf", len |-> 0]]
    /\ cache = [key |-> -1, tk |-> Nothing, start |-> Loc(1, 1), end |-> Loc(1, 1)]
    /\ guards = <<>>
    /\ ret = Nothing
    /\ defined = TRUE

Init ==
    /\ src \in Sources
    /\ state = [pos |-> 0, loc |-> Loc(1, 1), last_tk |-> [type |-> "Enf", len |-> 0]]
    /\ cache = [key |-> -1, tk |-> Nothing, start |-> Loc(1, 1), end |-> Loc(1, 1)]
    /\ guards = <<>>
    /\ ret = Nothing
    /\ defined = TRUE

-----------------------------------------------------------------------------
(* The loc behind a token *)
End(tk, loc) ==
    IF tk.type = "Enl" THEN Loc(loc.line + 1, 1)
    ELSE Loc(loc.line, loc.coloum + tk.len)

(* The cache c after a Peek in state s: a hit when only the position is    *)
(* the same; start and end are written even when there is no token.        *)
Filled(c, s) ==
    IF c.key = s.pos THEN c
    ELSE [key |-> s.pos, tk |-> Lex(src, s.pos),
          start |-> s.loc, end |-> End(Lex(src, s.pos), s.loc)]

Peek ==
    /\ defined
    /\ cache' = Filled(cache, state)
    /\ ret' = cache'.tk
    /\ UNCHANGED <<src, state, guards, defined>>

(* One turn of the loop in Next: over the token that c holds *)
Hop(s, c, last) ==
    [pos |-> s.pos + c.tk.len, loc |-> c.end, last_tk |-> last]

(* Mutant of Next: it stops at blanks. *)
MutNextOnce ==
    LET c0 == Filled(cache, state)
        s1 == Hop(state, c0, c0.tk)
    IN  /\ defined
        /\ c0.tk.type # "Null"
        /\ state' = s1 /\ cache' = Filled(c0, s1)
        /\ ret' = Nothing
        /\ UNCHANGED <<src, guards, defined>>

(* Over the current token and the blanks behind it; a Space is all of its  *)
(* blanks, so that the loop turns at most twice.                           *)
Next ==
    LET c0 == Filled(cache, state)
        s1 == Hop(state, c0, c0.tk)
        c1 == Filled(c0, s1)
        s2 == Hop(s1, c1, c0.tk)
    IN  /\ defined
        /\ c0.tk.type # "Null"
        /\ IF c1.tk.type = "Space"
           THEN state' = s2 /\ cache' = Filled(c1, s2)
           ELSE state' = s1 /\ cache' = c1
        /\ ret' = Nothing
        /\ UNCHANGED <<src, guards, defined>>

(* Next where nothing can be read: loc and pos are set from an optional    *)
(* without a value.  The model says nothing of what follows.               *)
NextUndefined ==
    /\ defined
    /\ Filled(cache, state).tk.type = "Null"
    /\ defined' = FALSE
    /\ ret' = Nothing
    /\ UNCHANGED <<src, state, cache, guards>>

-----------------------------------------------------------------------------
(* StateGuard                                                              *)

Guard ==
    /\ defined
    /\ Len(guards) < MaxGuards
    /\ guards' = Append(guards, state)
    /\ ret' = Nothing
    /\ UNCHANGED <<src, state, cache, defined>>

Innermost == guards[Len(guards)]

Leave == guards' = SubSeq(guards, 1, Len(guards) - 1)

(* finish, then the destructor, which leaves the stream alone *)
Finish ==
    /\ defined
    /\ guards # <<>>
    /\ ret' = [start |-> Innermost.loc, end |-> state.loc]
    /\ Leave
    /\ UNCHANGED <<src, state, cache, defined>>

(* Mutant of Reload: the outermost guard's state is loaded. *)
MutReloadFirst ==
    /\ defined
    /\ guards # <<>>
    /\ state' = guards[1]
    /\ Leave
    /\ ret' = Nothing
    /\ UNCHANGED <<src, cache, defined>>

(* Mutant of Reload: only the position is put back. *)
MutReloadPosOnly ==
    /\ defined
    /\ guards # <<>>
    /\ state' = [state EXCEPT !.pos = Innermost.pos]
    /\ Leave
    /\ ret' = Nothing
    /\ UNCHANGED <<src, cache, defined>>

(* The destructor of a guard that was not told to finish *)
Reload ==
    /\ defined
    /\ guards # <<>>
    /\ state' = Innermost
    /\ Leave
    /\ ret' = Nothing
    /\ UNCHANGED <<src, cache, defined>>

-----------------------------------------------------------------------------
Step == Peek \/ Next \/ NextUndefined \/ Guard \/ Finish \/ Reload

Spec == Init /\ [][Step]_vars

-----------------------------------------------------------------------------
(* Properties                                                              *)

States == {state} \cup {guards[i] : i \in DOMAIN guards}

TypeOK ==
    /\ \A s \in States : s.pos \in 0 .. src.len
    /\ cache.key \in -1 .. src.len
    /\ Len(guards) <= MaxGuards
    /\ defined \in BOOLEAN

(* A hit is as good as reading again: whenever the cache's key is the      *)
(* position of the stream, or a position a guard may take it back to, the  *)
(* cached token and its two locs are those a miss would compute there,     *)
(* although the key does not know of loc and a reload does not clear it.   *)
CacheCoherent ==
    \A s \in States :
        s.pos = cache.key =>
            /\ cache.tk = Lex(src, s.pos)
            /\ cache.start = s.loc
            /\ cache.end = End(cache.tk, s.loc)

(* Before or at the same place *)
Upto(k, l) ==
    \/ k.line < l.line
    \/ k.line = l.line /\ k.coloum <= l.coloum

(* A node never ends before it starts, whatever was read, reloaded and     *)
(* read again while its guard was alive.                                   *)
SpanForward == [][Finish => Upto(ret'.start, ret'.end)]_vars

(* Next moves forward, to a place where no blanks are, and stays only at   *)
(* the end of the source: a parser that keeps calling it gets there.       *)
NextAdvances ==
    [][Next => IF Lex(src, state.pos).type = "Enf"
               THEN state'.pos = state.pos /\ state'.loc = state.loc
               ELSE /\ state'.pos > state.pos
                    /\ Lex(src, state'.pos).type # "Space"]_vars

-----------------------------------------------------------------------------
(* The stream as a cursor in a sequence of tokens                          *)

Index(s, p) == CHOOSE n \in DOMAIN s.places : s.places[n] = p

(* The token that the last call gave back, if it did *)
Returned == IF "type" \in DOMAIN ret THEN ret ELSE Nothing

Cursor ==
    INSTANCE TokenCursor
      WITH toks <- [n \in DOMAIN src.places |-> Lex(src, src.places[n])],
           at <- Index(src, state.pos),
           saved <- [i \in DOMAIN guards |-> Index(src, guards[i].pos)],
           got <- Returned

(* The stream is a cursor: Peek returns the token under it, Next goes to   *)
(* the following one, and a reload goes back to the token the guard was    *)
(* taken at; blanks and the cache cannot be told.                          *)
IsCursor == Cursor!Spec
=============================================================================
