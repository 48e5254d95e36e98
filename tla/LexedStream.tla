---------------------------- MODULE LexedStream ----------------------------
(***************************************************************************)
(* TokenStream over the tokens that the lexer, Token, reads in texts, and  *)
(* what the stream's places and the tokens' values should be, said of the  *)
(* characters alone.                                                       *)
(***************************************************************************)
EXTENDS TokenStream, Token, FiniteSets

Lexed(text) == [p \in 0 .. Len(text) |-> FromChars(text, p)]

(* A source of TokenStream: a text, by what the lexer reads in it *)
Source(text, places) ==
    [chars |-> text, len |-> Len(text), tk |-> Lexed(text), places |-> places]

ASSUME LexedAssumption ==
    \A s \in Sources : s.chars \in Seq(STRING) /\ s = Source(s.chars, s.places)

-----------------------------------------------------------------------------
(* Reference: lines and columns of the characters                          *)

EndsLine == {"\r", "\n"}

(* The positions of the characters before p that end a line *)
LineEnds(text, p) ==
    {q \in 0 .. p - 1 :
       \/ At(text, q) = "\n"
       \/ At(text, q) = "\r" /\ (q + 1 < Len(text) => At(text, q + 1) # "\n")}

(* The last of them, -1 when there is none *)
LastEnd(text, p) ==
    CHOOSE q \in LineEnds(text, p) \cup {-1} :
        \A r \in LineEnds(text, p) : r <= q

TrueLoc(text, p) ==
    Loc(1 + Cardinality(LineEnds(text, p)), p - LastEnd(text, p))

(* The token at p is a string literal with the end of a line in it. *)
MultiLine(s, p) ==
    /\ Lex(s, p).type = "Str"
    /\ \E k \in 0 .. Lex(s, p).len - 1 : At(s.chars, p + k) \in EndsLine

(* One of the tokens before p is such a literal. *)
MultiLineBefore(s, p) ==
    \E n \in 1 .. Len(s.places) : s.places[n] < p /\ MultiLine(s, s.places[n])

(* The loc the stream keeps by adding up token lengths, and the ones its   *)
(* guards keep, are the line and the column of the character at their      *)
(* position: what error messages and nodes say.  (A string literal that    *)
(* spans lines is counted as one line: from behind one on, the loc is not  *)
(* the true one and nothing is said of it.)                                *)
LocRight ==
    \A s \in States :
        MultiLineBefore(src, s.pos) \/ s.loc = TrueLoc(src.chars, s.pos)

-----------------------------------------------------------------------------
(* Reference: the values of numbers                                        *)

(* What the n decimal digits from p on stand for *)
Decimal(text, p, n) ==
    LET value[k \in 0 .. n] ==
          IF k = 0 THEN 0
          ELSE 10 * value[k - 1] + CHOOSE d \in 0 .. 9 : Digits[d + 1] = text[p + k]
    IN  value[n]

(* An integer tk at p leaves no digit behind for the next token, is not    *)
(* cut off at its dot, and its value is that of its digits as far as an    *)
(* int holds it.                                                           *)
IntRead(text, p, tk) ==
    LET rest == p + tk.len
    IN  /\ tk.i = Wrap(Decimal(text, p, tk.len))
        /\ rest < Len(text) => At(text, rest) \notin is_digit
        /\ rest + 1 < Len(text) =>
             ~(At(text, rest) = "." /\ At(text, rest + 1) \in is_digit)

(* The same for both integers of a float tk at p *)
FloatRead(text, p, tk) ==
    LET rest == p + tk.len
        dot == CHOOSE q \in p .. rest - 1 : At(text, q) = "."
        weight == rest - (dot + 1)
    IN  /\ tk.f = <<Wrap(Decimal(text, p, dot - p)),
                    Wrap(Decimal(text, dot + 1, weight)), weight>>
        /\ rest < Len(text) => At(text, rest) \notin is_digit

(* Tokens are read whole: a simple token that stands alone is not hidden   *)
(* by an earlier entry that begins it, and numbers are taken with all of   *)
(* their digits and have the value of those.                               *)
TokensRead ==
    LET tk == Lex(src, state.pos)
    IN  /\ \A k \in DOMAIN simple_tokens :
             src.chars = simple_tokens[k][2] =>
                 Lex(src, 0) = Plain(simple_tokens[k][1], src.len)
        /\ tk.type = "Int" => IntRead(src.chars, state.pos, tk)
        /\ tk.type = "Float" => FloatRead(src.chars, state.pos, tk)
=============================================================================
