------------------------------- MODULE Token -------------------------------
(***************************************************************************)
(* The lexer: token::Value::FromChars and its helpers, as functions of the *)
(* source and a position.  A source is a sequence of characters; positions *)
(* count from 0, as iterators do from begin().                             *)
(*                                                                         *)
(* A token has a type, the length of its text and, as Value has, the data  *)
(* of its type: i (Int), f (Float: the two integers and the number of      *)
(* digits that weigh the second), str (Str and Symbol).  Null is           *)
(* std::nullopt.                                                           *)
(***************************************************************************)
EXTENDS Integers, Sequences

CONSTANT IntRange  \* how many values an int has: 2^32 in the code

ASSUME IntRangeAssumption == IntRange \in Nat \ {0}

Null == [type |-> "Null", len |-> 0]
Plain(t, n) == [type |-> t, len |-> n]

At(src, p) == src[p + 1]

First(S) == CHOOSE p \in S : \A q \in S : p <= q

(* How many characters from p on are in S *)
Span(src, p, S) ==
    First({n \in 0 .. Len(src) - p : p + n = Len(src) \/ At(src, p + n) \notin S})

-----------------------------------------------------------------------------
(* Characters                                                              *)

Digits == <<"0", "1", "2", "3", "4", "5", "6", "7", "8", "9">>

is_digit == {Digits[k] : k \in DOMAIN Digits}

is_symbol_head_ele ==
    {"a", "b", "c", "d", "e", "f", "g", "h", "i", "j", "k", "l", "m",
     "n", "o", "p", "q", "r", "s", "t", "u", "v", "w", "x", "y", "z",
     "A", "B", "C", "D", "E", "F", "G", "H", "I", "J", "K", "L", "M",
     "N", "O", "P", "Q", "R", "S", "T", "U", "V", "W", "X", "Y", "Z", "_"}

is_symbol_ele == is_symbol_head_ele \cup is_digit

Blank == {" ", "\t"}

Quote == "\""

(* TokenList, the entries with a fixed text, in the order they are tried *)
simple_tokens ==
    << <<"Dot", <<".">>>>, <<"At", <<"@">>>>,
       <<"Mygo", <<"m", "y", "g", "o">>>>, <<"Go", <<"g", "o">>>>,
       <<"Walrus", <<":", "=">>>>, <<"And", <<"&", "&">>>>,
       <<"Not", <<"!">>>>, <<"Or", <<"|", "|">>>>,
       <<"True", <<"t", "r", "u", "e">>>>,
       <<"False", <<"f", "l", "a", "s", "e">>>>,
       <<"Var", <<"v", "a", "r">>>>, <<"Const", <<"c", "o", "n", "s", "t">>>>,
       <<"Struct", <<"s", "t", "r", "u", "c", "t">>>>,
       <<"For", <<"f", "o", "r">>>>, <<"If", <<"i", "f">>>>,
       <<"Else", <<"e", "l", "s", "e">>>>, <<"Typedef", <<"t", "y", "p", "e">>>>,
       <<"Equal", <<"=", "=">>>>, <<"Less", <<"<">>>>, <<"Greater", <<">">>>>,
       <<"Assign", <<"=">>>>, <<"Plus", <<"+">>>>, <<"Sub", <<"-">>>>,
       <<"Star", <<"*">>>>, <<"Slash", <<"/">>>>,
       <<"Func", <<"f", "u", "n", "c">>>>,
       <<"Return", <<"r", "e", "t", "u", "r", "n">>>>,
       <<"LBrace", <<"{">>>>, <<"RBrace", <<"}">>>>,
       <<"LParent", <<"(">>>>, <<"RParent", <<")">>>>,
       <<"Comma", <<",">>>>, <<"Colon", <<":">>>>, <<"Semicolon", <<";">>>> >>

-----------------------------------------------------------------------------
(* The kinds of tokens                                                     *)

(* A number in two's complement, as the multiplication of the build leaves *)
(* it when it overflows                                                    *)
Wrap(n) == ((n + IntRange \div 2) % IntRange) - IntRange \div 2

Digit(c) == (CHOOSE k \in DOMAIN Digits : Digits[k] = c) - 1

(* res after the n digits from p on *)
Accumulated(src, p, n) ==
    LET res[k \in 0 .. n] ==
          IF k = 0 THEN 0 ELSE Wrap(res[k - 1] * 10 + Digit(src[p + k]))
    IN  res[n]

int_from_chars(src, p) ==
    LET n == Span(src, p, is_digit)
    IN  IF n = 0 THEN Null
        ELSE [type |-> "Int", len |-> n, i |-> Accumulated(src, p, n)]

(* Two integers with a dot between them; decimal_weight_after_zero of the  *)
(* second one's length is the weight of its value.                         *)
float_from_chars(src, p) ==
    LET n1 == int_from_chars(src, p)
        dot == p + n1.len
        n2 == int_from_chars(src, dot + 1)
    IN  IF n1 = Null \/ dot = Len(src) THEN Null
        ELSE IF At(src, dot) # "." \/ n2 = Null THEN Null
        ELSE [type |-> "Float", len |-> n1.len + n2.len + 1,
              f |-> <<n1.i, n2.i, n2.len>>]

(* From one quote to the next, whatever is between them *)
str_from_chars(src, p) ==
    LET quotes == {q \in p + 1 .. Len(src) - 1 : At(src, q) = Quote}
    IN  IF At(src, p) # Quote \/ quotes = {} THEN Null
        ELSE [type |-> "Str", len |-> First(quotes) - p + 1,
              str |-> SubSeq(src, p + 2, First(quotes))]

(* An identifier needs a character behind it. *)
symbol_from_chars(src, p) ==
    LET n == Span(src, p, is_symbol_ele)
    IN  IF At(src, p) \notin is_symbol_head_ele \/ p + n = Len(src) THEN Null
        ELSE [type |-> "Symbol", len |-> n, str |-> SubSeq(src, p + 1, p + n)]

(* Mutant of endl_from_chars: a carriage return never takes the line feed  *)
(* behind it with it.                                                      *)
MutEndlOneChar(src, p) ==
    IF At(src, p) \in {"\r", "\n"} THEN Plain("Enl", 1) ELSE Null

endl_from_chars(src, p) ==
    IF /\ p + 1 # Len(src)
       /\ At(src, p) = "\r" /\ At(src, p + 1) = "\n"
    THEN Plain("Enl", 2)
    ELSE IF At(src, p) \in {"\r", "\n"} THEN Plain("Enl", 1)
    ELSE Null

(* The entries of simple_tokens that the source continues with *)
Matches(src, p) ==
    {k \in DOMAIN simple_tokens :
       LET l == simple_tokens[k][2]
       IN  \A i \in DOMAIN l : p + i <= Len(src) /\ src[p + i] = l[i]}

(* Mutant of Kinds: integers are tried first. *)
MutKindsIntFirst(src, p) ==
    <<int_from_chars(src, p), float_from_chars(src, p),
      str_from_chars(src, p), symbol_from_chars(src, p)>>

(* The kinds of tokens with data, in the order they are tried *)
Kinds(src, p) ==
    <<float_from_chars(src, p), int_from_chars(src, p),
      str_from_chars(src, p), symbol_from_chars(src, p)>>

(* The first kind that fits *)
FromChars(src, p) ==
    IF p = Len(src) THEN Plain("Enf", 0)
    ELSE IF endl_from_chars(src, p) # Null THEN endl_from_chars(src, p)
    ELSE IF At(src, p) \in Blank THEN Plain("Space", Span(src, p, Blank))
    ELSE IF Matches(src, p) # {}
         THEN LET entry == simple_tokens[First(Matches(src, p))]
              IN  Plain(entry[1], Len(entry[2]))
    ELSE LET fits == {k \in 1 .. 4 : Kinds(src, p)[k] # Null}
         IN  IF fits = {} THEN Null ELSE Kinds(src, p)[First(fits)]
=============================================================================
