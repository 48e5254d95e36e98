---------------------------- MODULE TokenCursor ----------------------------
(***************************************************************************)
(* What a TokenStream promises its user, the parser: a cursor in a fixed   *)
(* sequence of tokens, with marks to go back to.  No characters, no cache, *)
(* no blanks.                                                              *)
(***************************************************************************)
EXTENDS Naturals, Sequences

VARIABLES
    toks,   \* the tokens of the source, up to its end or to the first
            \* place the lexer cannot read
    at,     \* the index of the current token
    saved,  \* the indices of the guards, the innermost last
    got     \* what Peek returned, if it was called last

cursorVars == <<toks, at, saved, got>>

Nothing == [type |-> "Null", len |-> 0]

Init == at = 1 /\ saved = <<>> /\ got = Nothing

Peek ==
    /\ got' = toks[at]
    /\ UNCHANGED <<toks, at, saved>>

(* The end of the file is never left. *)
Next ==
    /\ toks[at].type # "Null"
    /\ at' = IF toks[at].type = "Enf" THEN at ELSE at + 1
    /\ got' = Nothing
    /\ UNCHANGED <<toks, saved>>

Guard ==
    /\ saved' = Append(saved, at)
    /\ got' = Nothing
    /\ UNCHANGED <<toks, at>>

(* A guard goes, and takes the cursor back or leaves it. *)
Leave ==
    /\ saved # <<>>
    /\ saved' = SubSeq(saved, 1, Len(saved) - 1)
    /\ at' \in {at, saved[Len(saved)]}
    /\ got' = Nothing
    /\ UNCHANGED toks

Spec == Init /\ [][Peek \/ Next \/ Guard \/ Leave]_cursorVars
=============================================================================
