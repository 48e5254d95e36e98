--------------------------- MODULE MCTokenStream ---------------------------
(***************************************************************************)
(* TokenStream with the lexer: all sources of up to MaxLen of the          *)
(* characters Chars, and some longer ones.                                 *)
(***************************************************************************)
EXTENDS LexedStream

CONSTANT MaxLen  \* bound: the length of the sources that are all there

Chars == {"g", "o", "1", ".", "=", " ", "\n", "\r", "\"", "#"}

(* each simple token alone *)
Words == {simple_tokens[k][2] : k \in DOMAIN simple_tokens}

Longer ==
    { <<"g", "o", "p", "h", "=", "1", "\n">>,
      <<"-", "1", "0", ".", "2", "5", "*", "x", ";">>,
      <<"\"", "\n", "\"", " ", "b", "\r", "\n">>,
      <<"\"", "a", "\"", "\n", "\"", "b", "\"", "=", "\"", "\r", "\"", "x">>,
      <<"1", "2", "3", "4", " ", "\t", "=", "=", "\r", "\n", "x">> }

Texts == UNION {[1 .. n -> Chars] : n \in 0 .. MaxLen} \cup Words \cup Longer

(* The places of the tokens of s from p on *)
RECURSIVE PlacesFrom(_, _)
PlacesFrom(s, p) ==
    IF Behind(s, p) = p THEN <<p>> ELSE <<p>> \o PlacesFrom(s, Behind(s, p))

MCSources == {Source(text, PlacesFrom([tk |-> Lexed(text)], 0)) : text \in Texts}
=============================================================================
