---------------------------- MODULE LexerProofs ----------------------------
(***************************************************************************)
(* The lexer, for every text: FromChars makes sources the stream can work  *)
(* on, the stream's locs are the lines and columns of the characters, and  *)
(* numbers and fixed tokens are read whole.                                *)
(***************************************************************************)
EXTENDS LexedStream, TokenStreamProofs, FiniteSetTheorems, WellFoundedInduction

(* A set of naturals that is not empty has a least element. *)
LEMMA LeastNumber ==
  ASSUME NEW S, S \subseteq Nat, NEW x \in S
  PROVE  \E m \in S : \A k \in S : m <= k
<1>1. PICK m \in S : \A k \in S : ~(<<k, m>> \in OpToRel(<, Nat))
  BY WFMin, NatLessThanWellFounded, Zenon
<1>2. \A k \in S : ~(k < m)
  BY <1>1 DEF OpToRel
<1> QED BY <1>2

(* First finds it. *)
LEMMA FirstRight ==
  ASSUME NEW S, S \subseteq Nat, S # {}
  PROVE  First(S) \in S /\ \A k \in S : First(S) <= k
BY LeastNumber DEF First

(* Span stops at the end or at the first character that is not in S. *)
LEMMA SpanRight ==
  ASSUME NEW text \in Seq(STRING), NEW p \in 0 .. Len(text), NEW S
  PROVE  /\ Span(text, p, S) \in Nat /\ p + Span(text, p, S) <= Len(text)
         /\ \A k \in 0 .. Span(text, p, S) - 1 : At(text, p + k) \in S
         /\ p + Span(text, p, S) < Len(text) => At(text, p + Span(text, p, S)) \notin S
<1> DEFINE N == {n \in 0 .. Len(text) - p : p + n = Len(text) \/ At(text, p + n) \notin S}
           n == Span(text, p, S)
<1>1. Len(text) \in Nat /\ p \in Nat
  OBVIOUS
<1>2. Len(text) - p \in N
  BY <1>1
<1>3. N \subseteq Nat
  BY <1>1
<1>4. n = First(N)
  BY DEF Span
<1>5. First(N) \in N /\ \A k \in N : First(N) <= k
  <2> HIDE DEF N
  <2> QED BY <1>2, <1>3, FirstRight
<1>6. n \in N /\ \A k \in N : n <= k
  BY <1>4, <1>5
<1> HIDE DEF n
<1>7. n \in 0 .. Len(text) - p /\ (p + n = Len(text) \/ At(text, p + n) \notin S)
  BY <1>6
<1>8. ASSUME NEW k \in 0 .. n - 1 PROVE At(text, p + k) \in S
  <2>1. k \notin N
    BY <1>1, <1>6, <1>7
  <2>2. k \in 0 .. Len(text) - p /\ p + k # Len(text)
    BY <1>1, <1>7
  <2> QED BY <2>1, <2>2
<1>9. n \in Nat /\ p + n <= Len(text)
  BY <1>1, <1>7
<1> QED BY <1>7, <1>8, <1>9 DEF n

-----------------------------------------------------------------------------
(* Characters                                                              *)

LEMMA CharacterClasses ==
  /\ EndsLine \cap is_digit = {}
  /\ EndsLine \cap is_symbol_ele = {}
  /\ EndsLine \cap Blank = {}
  /\ "." \notin EndsLine /\ "." \notin is_digit
  /\ is_digit = {"0", "1", "2", "3", "4", "5", "6", "7", "8", "9"}
  /\ is_symbol_head_ele \subseteq is_symbol_ele
  /\ Blank \cap is_digit = {}
<1>1. is_digit = {"0", "1", "2", "3", "4", "5", "6", "7", "8", "9"}
  <2>1. DOMAIN Digits = 1 .. 10
    BY DEF Digits
  <2>2. \A k \in 1 .. 10 : Digits[k] \in {"0", "1", "2", "3", "4", "5", "6", "7", "8", "9"}
    BY DEF Digits
  <2>3. \A c \in {"0", "1", "2", "3", "4", "5", "6", "7", "8", "9"} :
           \E k \in 1 .. 10 : Digits[k] = c
    BY DEF Digits
  <2> QED BY <2>1, <2>2, <2>3 DEF is_digit
<1>2. EndsLine \cap is_symbol_head_ele = {}
  BY DEF EndsLine, is_symbol_head_ele
<1> QED BY <1>1, <1>2 DEF EndsLine, is_symbol_ele, Blank


-----------------------------------------------------------------------------
(* The tokens with a fixed text                                            *)

DataTypes == {"Null", "Enf", "Enl", "Space", "Int", "Float", "Str", "Symbol"}

(* An entry of simple_tokens: its text is not empty and has no end of a    *)
(* line in it, its type is its own.                                        *)
Fixed(entry) ==
    /\ Len(entry[2]) \in Nat /\ Len(entry[2]) >= 1
    /\ DOMAIN entry[2] = 1 .. Len(entry[2])
    /\ \A i \in 1 .. Len(entry[2]) : entry[2][i] \notin EndsLine
    /\ entry[1] \notin DataTypes


LEMMA SimpleTokens ==
  /\ DOMAIN simple_tokens = 1 .. 34
  /\ \A k \in 1 .. 34 : Fixed(simple_tokens[k])
<1>0. DOMAIN simple_tokens = 1 .. 34
  BY DEF simple_tokens
<1>1. Fixed(simple_tokens[1])
  BY DEF simple_tokens, Fixed, EndsLine, DataTypes
<1>2. Fixed(simple_tokens[2])
  BY DEF simple_tokens, Fixed, EndsLine, DataTypes
<1>3. Fixed(simple_tokens[3])
  BY DEF simple_tokens, Fixed, EndsLine, DataTypes
<1>4. Fixed(simple_tokens[4])
  BY DEF simple_tokens, Fixed, EndsLine, DataTypes
<1>5. Fixed(simple_tokens[5])
  BY DEF simple_tokens, Fixed, EndsLine, DataTypes
<1>6. Fixed(simple_tokens[6])
  BY DEF simple_tokens, Fixed, EndsLine, DataTypes
<1>7. Fixed(simple_tokens[7])
  BY DEF simple_tokens, Fixed, EndsLine, DataTypes
<1>8. Fixed(simple_tokens[8])
  BY DEF simple_tokens, Fixed, EndsLine, DataTypes
<1>9. Fixed(simple_tokens[9])
  BY DEF simple_tokens, Fixed, EndsLine, DataTypes
<1>10. Fixed(simple_tokens[10])
  BY DEF simple_tokens, Fixed, EndsLine, DataTypes
<1>11. Fixed(simple_tokens[11])
  BY DEF simple_tokens, Fixed, EndsLine, DataTypes
<1>12. Fixed(simple_tokens[12])
  BY DEF simple_tokens, Fixed, EndsLine, DataTypes
<1>13. Fixed(simple_tokens[13])
  BY DEF simple_tokens, Fixed, EndsLine, DataTypes
<1>14. Fixed(simple_tokens[14])
  BY DEF simple_tokens, Fixed, EndsLine, DataTypes
<1>15. Fixed(simple_tokens[15])
  BY DEF simple_tokens, Fixed, EndsLine, DataTypes
<1>16. Fixed(simple_tokens[16])
  BY DEF simple_tokens, Fixed, EndsLine, DataTypes
<1>17. Fixed(simple_tokens[17])
  BY DEF simple_tokens, Fixed, EndsLine, DataTypes
<1>18. Fixed(simple_tokens[18])
  BY DEF simple_tokens, Fixed, EndsLine, DataTypes
<1>19. Fixed(simple_tokens[19])
  BY DEF simple_tokens, Fixed, EndsLine, DataTypes
<1>20. Fixed(simple_tokens[20])
  BY DEF simple_tokens, Fixed, EndsLine, DataTypes
<1>21. Fixed(simple_tokens[21])
  BY DEF simple_tokens, Fixed, EndsLine, DataTypes
<1>22. Fixed(simple_tokens[22])
  BY DEF simple_tokens, Fixed, EndsLine, DataTypes
<1>23. Fixed(simple_tokens[23])
  BY DEF simple_tokens, Fixed, EndsLine, DataTypes
<1>24. Fixed(simple_tokens[24])
  BY DEF simple_tokens, Fixed, EndsLine, DataTypes
<1>25. Fixed(simple_tokens[25])
  BY DEF simple_tokens, Fixed, EndsLine, DataTypes
<1>26. Fixed(simple_tokens[26])
  BY DEF simple_tokens, Fixed, EndsLine, DataTypes
<1>27. Fixed(simple_tokens[27])
  BY DEF simple_tokens, Fixed, EndsLine, DataTypes
<1>28. Fixed(simple_tokens[28])
  <2>1. Len(simple_tokens[28][2]) = 1 /\ DOMAIN simple_tokens[28][2] = 1 .. 1
    BY DEF simple_tokens
  <2>2. simple_tokens[28][2][1] = "{"
    BY DEF simple_tokens
  <2>3. simple_tokens[28][1] = "LBrace"
    BY DEF simple_tokens
  <2>4. "{" \notin EndsLine
    BY Zenon DEF EndsLine
  <2>5. simple_tokens[28][2][1] \notin EndsLine
    BY <2>2, <2>4, Zenon
  <2>6. \A i \in 1 .. 1 : i = 1
    OBVIOUS
  <2>7. simple_tokens[28][1] \notin DataTypes
    BY <2>3 DEF DataTypes
  <2> QED BY <2>1, <2>5, <2>6, <2>7 DEF Fixed
<1>29. Fixed(simple_tokens[29])
  <2>1. Len(simple_tokens[29][2]) = 1 /\ DOMAIN simple_tokens[29][2] = 1 .. 1
    BY DEF simple_tokens
  <2>2. simple_tokens[29][2][1] = "}"
    BY DEF simple_tokens
  <2>3. simple_tokens[29][1] = "RBrace"
    BY DEF simple_tokens
  <2>4. "}" \notin EndsLine
    BY Zenon DEF EndsLine
  <2>5. simple_tokens[29][2][1] \notin EndsLine
    BY <2>2, <2>4, Zenon
  <2>6. \A i \in 1 .. 1 : i = 1
    OBVIOUS
  <2>7. simple_tokens[29][1] \notin DataTypes
    BY <2>3 DEF DataTypes
  <2> QED BY <2>1, <2>5, <2>6, <2>7 DEF Fixed
<1>30. Fixed(simple_tokens[30])
  BY DEF simple_tokens, Fixed, EndsLine, DataTypes
<1>31. Fixed(simple_tokens[31])
  BY DEF simple_tokens, Fixed, EndsLine, DataTypes
<1>32. Fixed(simple_tokens[32])
  <2>1. Len(simple_tokens[32][2]) = 1 /\ DOMAIN simple_tokens[32][2] = 1 .. 1
    BY DEF simple_tokens
  <2>2. simple_tokens[32][2][1] = ","
    BY DEF simple_tokens
  <2>3. simple_tokens[32][1] = "Comma"
    BY DEF simple_tokens
  <2>4. "," \notin EndsLine
    BY Zenon DEF EndsLine
  <2>5. simple_tokens[32][2][1] \notin EndsLine
    BY <2>2, <2>4, Zenon
  <2>6. \A i \in 1 .. 1 : i = 1
    OBVIOUS
  <2>7. simple_tokens[32][1] \notin DataTypes
    BY <2>3 DEF DataTypes
  <2> QED BY <2>1, <2>5, <2>6, <2>7 DEF Fixed
<1>33. Fixed(simple_tokens[33])
  BY DEF simple_tokens, Fixed, EndsLine, DataTypes
<1>34. Fixed(simple_tokens[34])
  <2>1. Len(simple_tokens[34][2]) = 1 /\ DOMAIN simple_tokens[34][2] = 1 .. 1
    BY DEF simple_tokens
  <2>2. simple_tokens[34][2][1] = ";"
    BY DEF simple_tokens
  <2>3. simple_tokens[34][1] = "Semicolon"
    BY DEF simple_tokens
  <2>4. ";" \notin EndsLine
    BY Zenon DEF EndsLine
  <2>5. simple_tokens[34][2][1] \notin EndsLine
    BY <2>2, <2>4, Zenon
  <2>6. \A i \in 1 .. 1 : i = 1
    OBVIOUS
  <2>7. simple_tokens[34][1] \notin DataTypes
    BY <2>3 DEF DataTypes
  <2> QED BY <2>1, <2>5, <2>6, <2>7 DEF Fixed
<1>35. ASSUME NEW k \in 1 .. 34 PROVE Fixed(simple_tokens[k])
  BY <1>1, <1>2, <1>3, <1>4, <1>5, <1>6, <1>7, <1>8, <1>9, <1>10,
     <1>11, <1>12, <1>13, <1>14, <1>15, <1>16, <1>17, <1>18, <1>19, <1>20,
     <1>21, <1>22, <1>23, <1>24, <1>25, <1>26, <1>27, <1>28, <1>29, <1>30,
     <1>31, <1>32, <1>33, <1>34
<1> QED BY <1>0, <1>35

-----------------------------------------------------------------------------
(* The kinds of tokens                                                     *)

(* What the stream and its locs need of the token tk read at p *)
NoLineEnd(text, p, n) == \A k \in 0 .. n - 1 : At(text, p + k) \notin EndsLine

Inside(text, p, tk) ==
    tk.len \in Nat /\ tk.len >= 1 /\ p + tk.len <= Len(text)

LEMMA IntKind ==
  ASSUME NEW text \in Seq(STRING), NEW p \in 0 .. Len(text),
         int_from_chars(text, p) # Null
  PROVE  LET tk == int_from_chars(text, p)
         IN  /\ tk.type = "Int" /\ "type" \in DOMAIN tk
             /\ tk.len = Span(text, p, is_digit)
             /\ tk.i = Accumulated(text, p, tk.len)
             /\ Inside(text, p, tk)
             /\ NoLineEnd(text, p, tk.len)
<1> DEFINE n == Span(text, p, is_digit)
           tk == int_from_chars(text, p)
<1>1. n # 0 /\ tk = [type |-> "Int", len |-> n, i |-> Accumulated(text, p, n)]
  BY DEF int_from_chars
<1>2. /\ n \in Nat /\ p + n <= Len(text)
      /\ \A k \in 0 .. n - 1 : At(text, p + k) \in is_digit
  BY SpanRight
<1> HIDE DEF n
<1>3. tk.type = "Int" /\ "type" \in DOMAIN tk /\ tk.len = n /\ tk.i = Accumulated(text, p, n)
  BY <1>1
<1>4. NoLineEnd(text, p, n)
  BY <1>2, CharacterClasses DEF NoLineEnd
<1>5. Inside(text, p, tk)
  BY <1>1, <1>2, <1>3 DEF Inside
<1> QED BY <1>3, <1>4, <1>5 DEF n

LEMMA FloatKind ==
  ASSUME NEW text \in Seq(STRING), NEW p \in 0 .. Len(text),
         float_from_chars(text, p) # Null
  PROVE  LET tk == float_from_chars(text, p)
             n1 == int_from_chars(text, p)
             dot == p + n1.len
             n2 == int_from_chars(text, dot + 1)
         IN  /\ tk.type = "Float" /\ "type" \in DOMAIN tk
             /\ n1 # Null /\ n2 # Null
             /\ dot \in 0 .. Len(text) - 1 /\ At(text, dot) = "."
             /\ tk.len = n1.len + n2.len + 1
             /\ tk.f = <<n1.i, n2.i, n2.len>>
             /\ Inside(text, p, tk)
             /\ NoLineEnd(text, p, tk.len)
<1> DEFINE tk == float_from_chars(text, p)
           n1 == int_from_chars(text, p)
           dot == p + n1.len
           n2 == int_from_chars(text, dot + 1)
<1>1. /\ n1 # Null /\ dot # Len(text) /\ At(text, dot) = "." /\ n2 # Null
      /\ tk = [type |-> "Float", len |-> n1.len + n2.len + 1, f |-> <<n1.i, n2.i, n2.len>>]
  BY DEF float_from_chars
<1>2. Inside(text, p, n1) /\ NoLineEnd(text, p, n1.len)
  BY <1>1, IntKind
<1> HIDE DEF n1
<1>3. /\ Len(text) \in Nat /\ n1.len \in Nat /\ n1.len >= 1
      /\ dot \in 0 .. Len(text) - 1 /\ dot + 1 \in 0 .. Len(text)
  BY <1>1, <1>2 DEF Inside
<1>4. Inside(text, dot + 1, n2) /\ NoLineEnd(text, dot + 1, n2.len)
  <2> HIDE DEF dot
  <2> QED BY <1>1, <1>3, IntKind
<1> HIDE DEF n2
<1>5. /\ tk.type = "Float" /\ "type" \in DOMAIN tk /\ tk.len = n1.len + n2.len + 1
      /\ tk.f = <<n1.i, n2.i, n2.len>>
  BY <1>1
<1> HIDE DEF tk
<1>6. Inside(text, p, tk)
  <2>1. n2.len \in Nat /\ p \in Nat /\ dot + 1 + n2.len <= Len(text)
    BY <1>4 DEF Inside
  <2>2. tk.len = n1.len + n2.len + 1
    BY <1>5
  <2> DEFINE a == n1.len
             c == n2.len
             e == tk.len
             l == Len(text)
  <2>3. /\ a \in Nat /\ c \in Nat /\ p \in Nat /\ l \in Nat
        /\ e = a + c + 1 /\ p + a + 1 + c <= l
    BY <2>1, <2>2, <1>3
  <2> HIDE DEF a, c, e, l
  <2>4. e \in Nat /\ e >= 1 /\ p + e <= l
    BY <2>3
  <2> QED BY <2>4 DEF Inside, e, l
<1>7. ASSUME NEW k \in 0 .. tk.len - 1 PROVE At(text, p + k) \notin EndsLine
  <2>1. CASE k < n1.len
    BY <2>1, <1>2, <1>3 DEF NoLineEnd
  <2>2. CASE k = n1.len
    BY <2>2, <1>1, CharacterClasses
  <2>3. CASE k > n1.len
    <3>0. n2.len \in Nat
      BY <1>4 DEF Inside
    <3>1. k - n1.len - 1 \in 0 .. n2.len - 1
      <4> DEFINE a == n1.len
                 c == n2.len
                 e == tk.len
      <4>1. /\ e = a + c + 1 /\ a \in Nat /\ c \in Nat
            /\ k \in 0 .. e - 1 /\ k > a
        BY <2>3, <3>0, <1>3, <1>5
      <4> HIDE DEF a, c, e
      <4>2. k - a - 1 \in 0 .. c - 1
        BY <4>1
      <4> QED BY <4>2 DEF a, c
    <3>2. dot + 1 + (k - n1.len - 1) = p + k
      BY <1>3
    <3> HIDE DEF dot
    <3> QED BY <3>1, <3>2, <1>4 DEF NoLineEnd
  <2> QED BY <2>1, <2>2, <2>3, <1>3, <1>4, <1>5 DEF Inside
<1> QED BY <1>1, <1>3, <1>5, <1>6, <1>7 DEF NoLineEnd, n1, n2, tk

LEMMA StrKind ==
  ASSUME NEW text \in Seq(STRING), NEW p \in 0 .. Len(text) - 1,
         str_from_chars(text, p) # Null
  PROVE  LET tk == str_from_chars(text, p)
         IN  /\ tk.type = "Str" /\ "type" \in DOMAIN tk
             /\ Inside(text, p, tk) /\ tk.len >= 2
             /\ At(text, p) = Quote /\ At(text, p + tk.len - 1) = Quote
<1> DEFINE quotes == {q \in p + 1 .. Len(text) - 1 : At(text, q) = Quote}
           tk == str_from_chars(text, p)
           e == First(quotes)
<1>1. /\ At(text, p) = Quote /\ quotes # {}
      /\ tk = [type |-> "Str", len |-> e - p + 1, str |-> SubSeq(text, p + 2, e)]
  BY DEF str_from_chars
<1>2. e \in quotes
  <2>1. quotes \subseteq Nat
    <3>1. p \in Nat /\ Len(text) \in Nat
      OBVIOUS
    <3> QED BY <3>1
  <2> HIDE DEF quotes
  <2> QED BY <2>1, <1>1, FirstRight
<1> HIDE DEF e, tk
<1>3. e \in p + 1 .. Len(text) - 1 /\ At(text, e) = Quote
  BY <1>2
<1>4. tk.type = "Str" /\ "type" \in DOMAIN tk /\ tk.len = e - p + 1
  BY <1>1
<1>5. p + tk.len - 1 = e
  BY <1>3, <1>4
<1>6. Inside(text, p, tk) /\ tk.len >= 2
  BY <1>3, <1>4 DEF Inside
<1> QED BY <1>1, <1>3, <1>4, <1>5, <1>6 DEF tk

LEMMA SymbolKind ==
  ASSUME NEW text \in Seq(STRING), NEW p \in 0 .. Len(text) - 1,
         symbol_from_chars(text, p) # Null
  PROVE  LET tk == symbol_from_chars(text, p)
         IN  /\ tk.type = "Symbol" /\ "type" \in DOMAIN tk
             /\ Inside(text, p, tk)
             /\ NoLineEnd(text, p, tk.len)
<1> DEFINE n == Span(text, p, is_symbol_ele)
           tk == symbol_from_chars(text, p)
<1>1. /\ At(text, p) \in is_symbol_head_ele
      /\ tk = [type |-> "Symbol", len |-> n, str |-> SubSeq(text, p + 1, p + n)]
  BY DEF symbol_from_chars
<1>2. /\ n \in Nat /\ p + n <= Len(text)
      /\ \A k \in 0 .. n - 1 : At(text, p + k) \in is_symbol_ele
      /\ p + n < Len(text) => At(text, p + n) \notin is_symbol_ele
  BY SpanRight
<1> HIDE DEF n
<1>3. tk.type = "Symbol" /\ "type" \in DOMAIN tk /\ tk.len = n
  BY <1>1
<1>4. n # 0
  BY <1>1, <1>2, CharacterClasses
<1>5. NoLineEnd(text, p, n)
  BY <1>2, CharacterClasses DEF NoLineEnd
<1> QED BY <1>2, <1>3, <1>4, <1>5 DEF Inside

(* A Kind that is not Null is one of the four. *)
LEMMA KindsRight ==
  ASSUME NEW text \in Seq(STRING), NEW p \in 0 .. Len(text) - 1,
         NEW k \in 1 .. 4, Kinds(text, p)[k] # Null
  PROVE  LET tk == Kinds(text, p)[k]
         IN  /\ tk.type = <<"Float", "Int", "Str", "Symbol">>[k]
             /\ "type" \in DOMAIN tk
             /\ Inside(text, p, tk)
             /\ tk.type = "Str" => /\ tk.len >= 2 /\ At(text, p) = Quote
                                   /\ At(text, p + tk.len - 1) = Quote
             /\ tk.type # "Str" => NoLineEnd(text, p, tk.len)
<1>0. p \in 0 .. Len(text)
  OBVIOUS
<1>1. CASE k = 1
  BY <1>0, <1>1, FloatKind DEF Kinds
<1>2. CASE k = 2
  BY <1>0, <1>2, IntKind DEF Kinds
<1>3. CASE k = 3
  BY <1>3, StrKind DEF Kinds
<1>4. CASE k = 4
  BY <1>4, SymbolKind DEF Kinds
<1> QED BY <1>1, <1>2, <1>3, <1>4


-----------------------------------------------------------------------------
(* FromChars                                                               *)

(* The end of a line that q is, as LineEnds counts it *)
IsEnd(text, q) ==
    \/ At(text, q) = "\n"
    \/ At(text, q) = "\r" /\ (q + 1 < Len(text) => At(text, q + 1) # "\n")

LEMMA EndlKind ==
  ASSUME NEW text \in Seq(STRING), NEW p \in 0 .. Len(text) - 1,
         endl_from_chars(text, p) # Null
  PROVE  LET tk == endl_from_chars(text, p)
         IN  /\ tk.type = "Enl" /\ "type" \in DOMAIN tk
             /\ Inside(text, p, tk)
             /\ \A k \in 0 .. tk.len - 1 : IsEnd(text, p + k) <=> k = tk.len - 1
<1> DEFINE tk == endl_from_chars(text, p)
<1>0. Len(text) \in Nat /\ p \in Nat
  OBVIOUS
<1>1. CASE p + 1 # Len(text) /\ At(text, p) = "\r" /\ At(text, p + 1) = "\n"
  <2>1. tk = [type |-> "Enl", len |-> 2]
    BY <1>1 DEF endl_from_chars, Plain
  <2>2. tk.type = "Enl" /\ "type" \in DOMAIN tk /\ tk.len = 2
    BY <2>1
  <2> HIDE DEF tk
  <2>3. Inside(text, p, tk)
    BY <1>0, <1>1, <2>2 DEF Inside
  <2>4. \A k \in 0 .. 1 : k = 0 \/ k = 1
    OBVIOUS
  <2>5. ~IsEnd(text, p + 0) /\ IsEnd(text, p + 1)
    BY <1>0, <1>1 DEF IsEnd
  <2> QED BY <2>2, <2>3, <2>4, <2>5 DEF tk
<1>2. CASE ~(p + 1 # Len(text) /\ At(text, p) = "\r" /\ At(text, p + 1) = "\n")
  <2>1. tk = [type |-> "Enl", len |-> 1] /\ At(text, p) \in {"\r", "\n"}
    BY <1>2 DEF endl_from_chars, Plain
  <2>2. tk.type = "Enl" /\ "type" \in DOMAIN tk /\ tk.len = 1
    BY <2>1
  <2>3. At(text, p) \in {"\r", "\n"}
    BY <2>1
  <2> HIDE DEF tk
  <2>4. Inside(text, p, tk)
    BY <1>0, <2>2 DEF Inside
  <2>5. \A k \in 0 .. 0 : k = 0
    OBVIOUS
  <2>6. IsEnd(text, p + 0)
    BY <1>0, <1>2, <2>3 DEF IsEnd
  <2> QED BY <2>2, <2>4, <2>5, <2>6 DEF tk
<1> QED BY <1>1, <1>2

(* A character after which endl_from_chars finds nothing ends no line. *)
LEMMA NoEndl ==
  ASSUME NEW text, NEW p, At(text, p) \in EndsLine
  PROVE  endl_from_chars(text, p) # Null
BY DEF endl_from_chars, EndsLine, Plain, Null

(* A fixed token that the text continues with lies in it. *)
LEMMA MatchRight ==
  ASSUME NEW text \in Seq(STRING), NEW p \in 0 .. Len(text) - 1,
         Matches(text, p) # {}
  PROVE  LET k == First(Matches(text, p))
             entry == simple_tokens[k]
         IN  /\ k \in 1 .. 34
             /\ entry[1] \notin DataTypes
             /\ Len(entry[2]) \in Nat /\ Len(entry[2]) >= 1
             /\ p + Len(entry[2]) <= Len(text)
             /\ NoLineEnd(text, p, Len(entry[2]))
<1> DEFINE M == Matches(text, p)
           k == First(M)
           entry == simple_tokens[k]
           n == Len(entry[2])
<1>1. M \subseteq 1 .. 34
  BY SimpleTokens DEF Matches
<1>2. k \in M
  <2>0. M # {}
    OBVIOUS
  <2> HIDE DEF M
  <2>1. M \subseteq Nat
    BY <1>1
  <2> QED BY <2>0, <2>1, FirstRight
<1> HIDE DEF k
<1>3. k \in 1 .. 34 /\ Fixed(entry)
  BY <1>1, <1>2, SimpleTokens
<1>4. \A i \in DOMAIN entry[2] : p + i <= Len(text) /\ text[p + i] = entry[2][i]
  BY <1>2 DEF Matches
<1>5. /\ n \in Nat /\ n >= 1 /\ DOMAIN entry[2] = 1 .. n
      /\ \A i \in 1 .. n : entry[2][i] \notin EndsLine
      /\ entry[1] \notin DataTypes
  BY <1>3 DEF Fixed
<1> HIDE DEF entry
<1>6. p + n <= Len(text)
  <2>1. n \in DOMAIN entry[2]
    BY <1>5
  <2> QED BY <2>1, <1>4
<1>7. ASSUME NEW i \in 0 .. n - 1 PROVE At(text, p + i) \notin EndsLine
  <2>1. i + 1 \in 1 .. n /\ p + i + 1 = p + (i + 1)
    BY <1>5
  <2>2. text[p + (i + 1)] = entry[2][i + 1]
    BY <2>1, <1>4, <1>5
  <2> QED BY <2>1, <2>2, <1>5 DEF At
<1>8. NoLineEnd(text, p, n)
  BY <1>7 DEF NoLineEnd
<1> QED BY <1>3, <1>5, <1>6, <1>8 DEF entry, k

(* What FromChars reads at p, whatever the text is *)
Sound(text, p, tk) ==
    /\ "type" \in DOMAIN tk
    /\ tk.len \in Nat /\ p + tk.len <= Len(text)
    /\ tk.len = 0 <=> tk.type \in {"Enf", "Null"}
    /\ tk.type = "Null" => tk = Nothing
    /\ tk.type = "Enf" => p = Len(text)
    /\ tk.type = "Space" =>
         /\ p < Len(text) /\ At(text, p) \in Blank
         /\ p + tk.len < Len(text) => At(text, p + tk.len) \notin Blank
    /\ tk.type = "Enl" =>
         \A k \in 0 .. tk.len - 1 : IsEnd(text, p + k) <=> k = tk.len - 1
    /\ tk.type = "Str" =>
         tk.len >= 2 /\ At(text, p) = Quote /\ At(text, p + tk.len - 1) = Quote
    /\ tk.type \notin {"Enl", "Str"} => NoLineEnd(text, p, tk.len)


LEMMA ReadsRight ==
  ASSUME NEW text \in Seq(STRING), NEW p \in 0 .. Len(text)
  PROVE  Sound(text, p, FromChars(text, p))
<1> DEFINE tk == FromChars(text, p)
<1>0. Len(text) \in Nat /\ p \in Nat
  OBVIOUS
<1>1. CASE p = Len(text)
  <2>1. tk = [type |-> "Enf", len |-> 0]
    BY <1>1 DEF FromChars, Plain
  <2>2. tk.type = "Enf" /\ tk.len = 0 /\ "type" \in DOMAIN tk
    BY <2>1
  <2>3. NoLineEnd(text, p, 0)
    BY DEF NoLineEnd
  <2> HIDE DEF tk
  <2> QED BY <1>0, <1>1, <2>2, <2>3 DEF Sound, tk
<1>2. CASE p # Len(text)
  <2>0. p \in 0 .. Len(text) - 1 /\ p < Len(text)
    BY <1>0, <1>2
  <2>1. CASE endl_from_chars(text, p) # Null
    <3>1. tk = endl_from_chars(text, p)
      BY <1>2, <2>1 DEF FromChars
    <3>2. /\ tk.type = "Enl" /\ "type" \in DOMAIN tk /\ Inside(text, p, tk)
          /\ \A k \in 0 .. tk.len - 1 : IsEnd(text, p + k) <=> k = tk.len - 1
      BY <2>0, <2>1, <3>1, EndlKind
    <3> HIDE DEF tk
    <3> QED BY <3>2 DEF Sound, Inside, tk
  <2>2. CASE endl_from_chars(text, p) = Null /\ At(text, p) \in Blank
    <3> DEFINE n == Span(text, p, Blank)
    <3>1. tk = [type |-> "Space", len |-> n]
      BY <1>2, <2>2 DEF FromChars, Plain
    <3>2. /\ n \in Nat /\ p + n <= Len(text)
          /\ \A k \in 0 .. n - 1 : At(text, p + k) \in Blank
          /\ p + n < Len(text) => At(text, p + n) \notin Blank
      BY SpanRight
    <3> HIDE DEF n
    <3>3. tk.type = "Space" /\ tk.len = n /\ "type" \in DOMAIN tk
      BY <3>1
    <3> HIDE DEF tk
    <3>4. n # 0
      BY <1>0, <2>0, <2>2, <3>2
    <3>5. NoLineEnd(text, p, n)
      BY <3>2, CharacterClasses DEF NoLineEnd
    <3> QED BY <2>0, <2>2, <3>2, <3>3, <3>4, <3>5 DEF Sound, tk
  <2>3. CASE /\ endl_from_chars(text, p) = Null /\ At(text, p) \notin Blank
             /\ Matches(text, p) # {}
    <3> DEFINE entry == simple_tokens[First(Matches(text, p))]
    <3>1. tk = [type |-> entry[1], len |-> Len(entry[2])]
      BY <1>2, <2>3 DEF FromChars, Plain
    <3>2. /\ entry[1] \notin DataTypes
          /\ Len(entry[2]) \in Nat /\ Len(entry[2]) >= 1
          /\ p + Len(entry[2]) <= Len(text)
          /\ NoLineEnd(text, p, Len(entry[2]))
      BY <2>0, <2>3, MatchRight
    <3> HIDE DEF entry
    <3>3. tk.type = entry[1] /\ tk.len = Len(entry[2]) /\ "type" \in DOMAIN tk
      BY <3>1
    <3> HIDE DEF tk
    <3> QED BY <3>2, <3>3 DEF Sound, DataTypes, tk
  <2>4. CASE /\ endl_from_chars(text, p) = Null /\ At(text, p) \notin Blank
             /\ Matches(text, p) = {}
    <3> DEFINE fits == {k \in 1 .. 4 : Kinds(text, p)[k] # Null}
               i == First(fits)
    <3>1. tk = IF fits = {} THEN Null ELSE Kinds(text, p)[i]
      BY <1>2, <2>4 DEF FromChars
    <3>2. CASE fits = {}
      <4>1. tk = [type |-> "Null", len |-> 0]
        BY <3>1, <3>2 DEF Null
      <4>2. tk.type = "Null" /\ tk.len = 0 /\ "type" \in DOMAIN tk /\ tk = Nothing
        BY <4>1 DEF Nothing
      <4>3. NoLineEnd(text, p, 0)
        BY DEF NoLineEnd
      <4> HIDE DEF tk
      <4> QED BY <1>0, <2>0, <4>2, <4>3 DEF Sound, tk
    <3>3. CASE fits # {}
      <4>1. fits \subseteq Nat
        OBVIOUS
      <4>2. i \in fits
        <5> HIDE DEF fits
        <5> QED BY <4>1, <3>3, FirstRight
      <4>3. tk = Kinds(text, p)[i]
        BY <3>1, <3>3
      <4> HIDE DEF i
      <4>4. i \in 1 .. 4 /\ Kinds(text, p)[i] # Null
        BY <4>2
      <4> HIDE DEF tk
      <4>5. /\ tk.type = <<"Float", "Int", "Str", "Symbol">>[i]
            /\ "type" \in DOMAIN tk
            /\ Inside(text, p, tk)
            /\ tk.type = "Str" => /\ tk.len >= 2 /\ At(text, p) = Quote
                                  /\ At(text, p + tk.len - 1) = Quote
            /\ tk.type # "Str" => NoLineEnd(text, p, tk.len)
        BY <2>0, <4>3, <4>4, KindsRight
      <4>6. tk.type \in {"Float", "Int", "Str", "Symbol"}
        BY <4>4, <4>5
      <4>7. tk.len \in Nat /\ tk.len >= 1 /\ p + tk.len <= Len(text)
        BY <4>5 DEF Inside
      <4> QED BY <4>5, <4>6, <4>7 DEF Sound, tk
    <3> QED BY <3>2, <3>3
  <2> QED BY <2>1, <2>2, <2>3, <2>4
<1> QED BY <1>1, <1>2


-----------------------------------------------------------------------------
(* The lexer's sources are sources of the stream.                          *)

LEMMA LexIsFromChars ==
  ASSUME NEW text \in Seq(STRING), NEW places, NEW p \in 0 .. Len(text)
  PROVE  Lex(Source(text, places), p) = FromChars(text, p)
BY DEF Lex, Source, Lexed

(* Readable: what the stream relies on holds of what the lexer reads. *)
LEMMA LexedIsReadable ==
  ASSUME NEW text \in Seq(STRING), NEW places
  PROVE  Readable(Source(text, places))
<1> DEFINE s == Source(text, places)
<1>0. s.len = Len(text) /\ Len(text) \in Nat
  BY DEF Source
<1>1. \A p \in 0 .. Len(text) : Sound(text, p, Lex(s, p)) /\ Lex(s, p) = FromChars(text, p)
  BY ReadsRight, LexIsFromChars
<1> HIDE DEF s
<1>2. ASSUME NEW p \in 0 .. Len(text)
      PROVE  /\ Lex(s, p).len \in 0 .. Len(text) - p
             /\ Lex(s, p).len = 0 <=> Lex(s, p).type \in {"Enf", "Null"}
             /\ Lex(s, p).type = "Space" => Lex(s, p + Lex(s, p).len).type # "Space"
  <2> DEFINE tk == Lex(s, p)
             q == p + tk.len
  <2>0. Sound(text, p, tk)
    BY <1>1
  <2> HIDE DEF tk
  <2>1. tk.len \in Nat /\ q <= Len(text) /\ (tk.len = 0 <=> tk.type \in {"Enf", "Null"})
    BY <2>0 DEF Sound
  <2>2. tk.len \in 0 .. Len(text) - p /\ q \in 0 .. Len(text)
    BY <1>0, <2>1
  <2>3. ASSUME tk.type = "Space", Lex(s, q).type = "Space" PROVE FALSE
    <3> HIDE DEF q
    <3>1. Sound(text, q, Lex(s, q))
      BY <1>1, <2>2
    <3>2. q < Len(text) /\ At(text, q) \in Blank
      BY <2>3, <3>1 DEF Sound
    <3>3. q < Len(text) => At(text, q) \notin Blank
      BY <2>0, <2>3 DEF Sound, q
    <3> QED BY <3>2, <3>3
  <2> QED BY <2>1, <2>2, <2>3 DEF tk
<1> QED BY <1>0, <1>2 DEF Readable, s

(* Next never goes back. *)
LEMMA BehindAhead ==
  ASSUME NEW s, Readable(s), NEW p \in 0 .. s.len
  PROVE  Behind(s, p) \in p .. s.len
<1>1. /\ s.len \in Nat
      /\ \A r \in 0 .. s.len : Lex(s, r).len \in 0 .. s.len - r
  BY DEF Readable
<1> DEFINE q == p + Lex(s, p).len
<1>2. q \in p .. s.len /\ q \in 0 .. s.len
  BY <1>1
<1>3. q + Lex(s, q).len \in p .. s.len
  <2> HIDE DEF q
  <2>1. Lex(s, q).len \in 0 .. s.len - q
    BY <1>1, <1>2
  <2> QED BY <1>1, <1>2, <2>1
<1> QED BY <1>2, <1>3 DEF Behind

(* The places f, one behind the other from p on, in s *)
Path(s, p, f) ==
    /\ f \in Seq(0 .. s.len) /\ f # <<>>
    /\ f[1] = p
    /\ \A n \in 1 .. Len(f) :
         Behind(s, f[n]) = IF n < Len(f) THEN f[n + 1] ELSE f[n]
    /\ \A m, n \in 1 .. Len(f) : m < n => f[m] < f[n]

(* A path can be begun one place earlier. *)
LEMMA PathLonger ==
  ASSUME NEW s, s.len \in Nat, NEW p \in 0 .. s.len, NEW f,
         Behind(s, p) > p, Path(s, Behind(s, p), f)
  PROVE  \E g : Path(s, p, g)
<1> DEFINE L == Len(f)
           g == [i \in 1 .. L + 1 |-> IF i = 1 THEN p ELSE f[i - 1]]
<1>1. /\ f \in Seq(0 .. s.len) /\ L \in Nat /\ L >= 1
      /\ \A i \in 1 .. L : f[i] \in 0 .. s.len
  BY DEF Path
<1>2. /\ f[1] = Behind(s, p)
      /\ \A n \in 1 .. L : Behind(s, f[n]) = IF n < L THEN f[n + 1] ELSE f[n]
      /\ \A m, n \in 1 .. L : m < n => f[m] < f[n]
  BY DEF Path
<1> HIDE DEF L
<1>3. \A i \in 1 .. L + 1 : g[i] \in 0 .. s.len
  BY <1>1
<1>4. g \in Seq(0 .. s.len) /\ Len(g) = L + 1
  BY <1>1, <1>3
<1>5. g[1] = p /\ \A i \in 2 .. L + 1 : g[i] = f[i - 1]
  BY <1>1
<1> HIDE DEF g
<1>6. g # <<>>
  BY <1>1, <1>4
<1>7. ASSUME NEW n \in 1 .. L + 1
      PROVE  Behind(s, g[n]) = IF n < L + 1 THEN g[n + 1] ELSE g[n]
  <2>1. CASE n = 1
    <3>1. g[2] = f[1]
      BY <1>1, <1>5
    <3> QED BY <2>1, <3>1, <1>1, <1>2, <1>5
  <2>2. CASE n # 1
    <3>1. n \in 2 .. L + 1 /\ n - 1 \in 1 .. L
      BY <2>2, <1>1
    <3>2. g[n] = f[n - 1] /\ Behind(s, f[n - 1]) = IF n - 1 < L THEN f[n - 1 + 1] ELSE f[n - 1]
      BY <3>1, <1>2, <1>5
    <3>3. CASE n < L + 1
      <4>1. n + 1 \in 2 .. L + 1 /\ n + 1 - 1 = n - 1 + 1 /\ n - 1 < L
        BY <3>1, <3>3, <1>1
      <4>2. g[n + 1] = f[n + 1 - 1]
        BY <4>1, <1>5
      <4> QED BY <3>2, <3>3, <4>1, <4>2
    <3>4. CASE ~(n < L + 1)
      <4>1. ~(n - 1 < L)
        BY <3>1, <3>4, <1>1
      <4> QED BY <3>2, <3>4, <4>1
    <3> QED BY <3>3, <3>4
  <2> QED BY <2>1, <2>2
<1>8. ASSUME NEW m \in 1 .. L + 1, NEW n \in 1 .. L + 1, m < n PROVE g[m] < g[n]
  <2>1. n \in 2 .. L + 1 /\ n - 1 \in 1 .. L /\ g[n] = f[n - 1]
    BY <1>1, <1>5, <1>8
  <2>2. CASE m = 1
    <3>1. f[1] <= f[n - 1]
      BY <2>1, <1>1, <1>2
    <3>2. p < f[1] /\ f[1] \in Int /\ f[n - 1] \in Int /\ p \in Int
      BY <2>1, <1>1, <1>2
    <3> QED BY <2>1, <2>2, <3>1, <3>2, <1>5
  <2>3. CASE m # 1
    <3>1. m \in 2 .. L + 1 /\ m - 1 \in 1 .. L /\ m - 1 < n - 1
      BY <2>1, <2>3, <1>1, <1>8
    <3> QED BY <2>1, <3>1, <1>2, <1>5
  <2> QED BY <2>2, <2>3
<1>9. Path(s, p, g)
  BY <1>4, <1>5, <1>6, <1>7, <1>8 DEF Path
<1> QED BY <1>9

(* From every place the tokens can be read one after the other to an end. *)
LEMMA PathExists ==
  ASSUME NEW s, Readable(s), NEW p0 \in 0 .. s.len
  PROVE  \E f : Path(s, p0, f)
<1> DEFINE Reached(p) == \E f : Path(s, p, f)
           T == {m \in 0 .. s.len : ~Reached(s.len - m)}
<1>0. s.len \in Nat
  BY DEF Readable
<1> HIDE DEF Reached
<1>1. T = {}
  <2> SUFFICES ASSUME T # {} PROVE FALSE
    OBVIOUS
  <2>1. PICK m \in T : \A k \in T : m <= k
    <3>1. T \subseteq Nat
      OBVIOUS
    <3> HIDE DEF T
    <3> QED BY <3>1, LeastNumber
  <2> DEFINE p == s.len - m
             b == Behind(s, p)
  <2>2. m \in 0 .. s.len /\ ~Reached(p) /\ p \in 0 .. s.len
    BY <1>0
  <2>3. b \in p .. s.len
    <3> HIDE DEF p
    <3> QED BY <2>2, BehindAhead
  <2>4. CASE b = p
    <3> DEFINE f == <<p>>
    <3>1. f \in Seq(0 .. s.len) /\ f # <<>> /\ Len(f) = 1 /\ f[1] = p
      BY <2>2
    <3> HIDE DEF f
    <3>2. \A n \in 1 .. 1 : n = 1
      OBVIOUS
    <3>3. Path(s, p, f)
      BY <2>4, <3>1, <3>2 DEF Path
    <3> QED BY <2>2, <3>3 DEF Reached
  <2>5. CASE b # p
    <3>1. b > p /\ s.len - b \in 0 .. s.len /\ s.len - b < m /\ s.len - (s.len - b) = b
      <4> HIDE DEF b
      <4> QED BY <1>0, <2>2, <2>3, <2>5
    <3>2. s.len - b \notin T
      <4> HIDE DEF T, b, p
      <4> QED BY <2>1, <2>2, <3>1
    <3>3. Reached(b)
      <4> HIDE DEF b, p
      <4> QED BY <3>1, <3>2
    <3>4. PICK f : Path(s, b, f)
      BY <3>3 DEF Reached
    <3>5. \E g : Path(s, p, g)
      <4> HIDE DEF p
      <4> QED BY <1>0, <2>2, <3>1, <3>4, PathLonger
    <3> QED BY <2>2, <3>5 DEF Reached
  <2> QED BY <2>4, <2>5
<1>2. s.len - p0 \in 0 .. s.len /\ s.len - (s.len - p0) = p0
  BY <1>0
<1>3. Reached(p0)
  BY <1>1, <1>2
<1> QED BY <1>3 DEF Reached

(* Every text is a source of the stream: what the lexer reads in it is     *)
(* what SourcesAssumption and PlacesAssumption ask for.  So the theorems   *)
(* of TokenStreamProofs, which rest on those two assumptions, hold of the  *)
(* stream over any text, and a parser that only calls Next comes to an end.*)
THEOREM EveryTextIsASource ==
  \A text \in Seq(STRING) :
    \E places : Readable(Source(text, places)) /\ Placed(Source(text, places))
<1> SUFFICES ASSUME NEW text \in Seq(STRING)
             PROVE  \E places : /\ Readable(Source(text, places))
                                /\ Placed(Source(text, places))
  OBVIOUS
<1> DEFINE s0 == Source(text, <<>>)
<1>1. Readable(s0) /\ s0.len = Len(text) /\ 0 \in 0 .. s0.len
  BY LexedIsReadable DEF Source
<1>2. PICK f : Path(s0, 0, f)
  <2> HIDE DEF s0
  <2> QED BY <1>1, PathExists
<1> DEFINE s == Source(text, f)
<1>3. s.places = f /\ s.len = Len(text) /\ s0.len = Len(text)
  BY DEF Source
<1>4. \A p : Lex(s, p) = Lex(s0, p)
  BY DEF Source, Lex
<1>5. \A p : Behind(s, p) = Behind(s0, p)
  BY <1>4 DEF Behind
<1>6. \A p \in 0 .. Len(text) :
        /\ "type" \in DOMAIN Lex(s, p)
        /\ Lex(s, p).type = "Null" => Lex(s, p) = Nothing
  <2> TAKE p \in 0 .. Len(text)
  <2>1. Lex(s, p) = FromChars(text, p) /\ Sound(text, p, FromChars(text, p))
    BY ReadsRight, LexIsFromChars
  <2> HIDE DEF s
  <2> QED BY <2>1 DEF Sound
<1>7. Readable(s)
  BY LexedIsReadable
<1> HIDE DEF s, s0
<1>8. Placed(s)
  BY <1>2, <1>3, <1>5, <1>6 DEF Placed, Path
<1> QED BY <1>7, <1>8 DEF s


-----------------------------------------------------------------------------
(* Lines and columns                                                       *)

LEMMA LineEndsAre ==
  ASSUME NEW text, NEW p
  PROVE  LineEnds(text, p) = {q \in 0 .. p - 1 : IsEnd(text, q)}
BY DEF LineEnds, IsEnd

LEMMA LineEndsFinite ==
  ASSUME NEW text, NEW p \in Nat
  PROVE  /\ IsFiniteSet(LineEnds(text, p))
         /\ Cardinality(LineEnds(text, p)) \in Nat
         /\ LineEnds(text, p) \subseteq 0 .. p - 1
<1>1. IsFiniteSet(0 .. p - 1)
  BY FS_Interval
<1>2. LineEnds(text, p) \subseteq 0 .. p - 1
  BY DEF LineEnds
<1>3. IsFiniteSet(LineEnds(text, p))
  BY <1>1, <1>2, FS_Subset
<1> QED BY <1>2, <1>3, FS_CardinalityType

(* LastEnd is -1 or a line end before p. *)
LEMMA LastEndRight ==
  ASSUME NEW text, NEW p \in Nat
  PROVE  /\ LastEnd(text, p) \in LineEnds(text, p) \cup {-1}
         /\ \A r \in LineEnds(text, p) : r <= LastEnd(text, p)
         /\ LastEnd(text, p) \in Int
<1> DEFINE E == LineEnds(text, p)
           T == {m \in 0 .. p : p - m - 1 \in E \cup {-1}}
<1>1. E \subseteq 0 .. p - 1
  BY LineEndsFinite
<1> HIDE DEF E
<1>2. p \in T /\ T \subseteq Nat
  OBVIOUS
<1>3. PICK m \in T : \A k \in T : m <= k
  <2> HIDE DEF T
  <2> QED BY <1>2, LeastNumber
<1> DEFINE q == p - m - 1
<1>4. m \in 0 .. p /\ q \in E \cup {-1} /\ q \in Int
  OBVIOUS
<1>5. ASSUME NEW r \in E PROVE r <= q
  <2>1. r \in 0 .. p - 1
    BY <1>1
  <2>2. p - 1 - r \in 0 .. p /\ p - (p - 1 - r) - 1 = r
    BY <2>1
  <2>3. p - 1 - r \in T
    BY <2>2
  <2>4. m <= p - 1 - r
    <3> HIDE DEF T
    <3> QED BY <1>3, <2>3
  <2> QED BY <2>1, <2>4, <1>4
<1> HIDE DEF q
<1>6. \E z \in E \cup {-1} : \A r \in E : r <= z
  BY <1>4, <1>5
<1>7. LastEnd(text, p) \in E \cup {-1} /\ \A r \in E : r <= LastEnd(text, p)
  BY <1>6 DEF LastEnd, E
<1> QED BY <1>1, <1>7 DEF E

(* Characters that end no line move the column on. *)
LEMMA SameLine ==
  ASSUME NEW text, NEW p \in Nat, NEW n \in Nat,
         \A k \in 0 .. n - 1 : ~IsEnd(text, p + k)
  PROVE  TrueLoc(text, p + n) =
           Loc(TrueLoc(text, p).line, TrueLoc(text, p).coloum + n)
<1>1. LineEnds(text, p + n) = LineEnds(text, p)
  <2>1. ASSUME NEW q \in 0 .. p + n - 1, IsEnd(text, q) PROVE q \in 0 .. p - 1
    <3>1. CASE q >= p
      <4>1. q - p \in 0 .. n - 1 /\ p + (q - p) = q
        BY <3>1
      <4> QED BY <2>1, <4>1
    <3> QED BY <3>1
  <2>2. \A q \in 0 .. p - 1 : q \in 0 .. p + n - 1
    OBVIOUS
  <2> QED BY <2>1, <2>2, LineEndsAre
<1>2. LastEnd(text, p + n) = LastEnd(text, p)
  BY <1>1 DEF LastEnd
<1>3. LastEnd(text, p) \in Int
  BY LastEndRight
<1>4. (p + n) - LastEnd(text, p) = (p - LastEnd(text, p)) + n
  BY <1>3
<1>5. /\ TrueLoc(text, p).line = 1 + Cardinality(LineEnds(text, p))
      /\ TrueLoc(text, p).coloum = p - LastEnd(text, p)
  BY DEF TrueLoc, Loc
<1>6. TrueLoc(text, p + n) = Loc(1 + Cardinality(LineEnds(text, p)), (p + n) - LastEnd(text, p))
  BY <1>1, <1>2 DEF TrueLoc
<1> QED BY <1>4, <1>5, <1>6

(* Characters of which the last one, and only that, ends a line lead to    *)
(* the first column of the next one.                                       *)
LEMMA NewLine ==
  ASSUME NEW text, NEW p \in Nat, NEW n \in Nat, n >= 1,
         \A k \in 0 .. n - 1 : IsEnd(text, p + k) <=> k = n - 1
  PROVE  TrueLoc(text, p + n) = Loc(TrueLoc(text, p).line + 1, 1)
<1> DEFINE e == p + n - 1
<1>0. e \in Nat /\ e \notin 0 .. p - 1 /\ e \in 0 .. p + n - 1
  OBVIOUS
<1>1. LineEnds(text, p + n) = LineEnds(text, p) \cup {e}
  <2>1. ASSUME NEW q \in 0 .. p + n - 1, IsEnd(text, q) PROVE q \in 0 .. p - 1 \/ q = e
    <3>1. CASE q >= p
      <4>1. q - p \in 0 .. n - 1 /\ p + (q - p) = q
        BY <3>1
      <4>2. q - p = n - 1
        BY <2>1, <4>1
      <4> QED BY <4>1, <4>2
    <3> QED BY <3>1
  <2>2. \A q \in 0 .. p - 1 : q \in 0 .. p + n - 1
    OBVIOUS
  <2>3. IsEnd(text, e)
    <3>1. n - 1 \in 0 .. n - 1 /\ p + (n - 1) = e
      OBVIOUS
    <3> QED BY <3>1
  <2> HIDE DEF e
  <2> QED BY <1>0, <2>1, <2>2, <2>3, LineEndsAre
<1>2. Cardinality(LineEnds(text, p + n)) = Cardinality(LineEnds(text, p)) + 1
  <2> HIDE DEF e
  <2>1. e \notin LineEnds(text, p)
    BY <1>0 DEF LineEnds
  <2> QED BY <1>1, <2>1, LineEndsFinite, FS_AddElement
<1>3. LastEnd(text, p + n) = e
  <2>0. p + n \in Nat
    OBVIOUS
  <2>1. /\ LastEnd(text, p + n) \in LineEnds(text, p + n) \cup {-1}
        /\ \A r \in LineEnds(text, p + n) : r <= LastEnd(text, p + n)
        /\ LastEnd(text, p + n) \in Int
    BY <2>0, LastEndRight
  <2>2. e \in LineEnds(text, p + n)
    BY <1>1
  <2>3. LineEnds(text, p + n) \subseteq 0 .. p + n - 1
    BY <2>0, LineEndsFinite
  <2>4. e <= LastEnd(text, p + n)
    BY <2>1, <2>2
  <2>5. LastEnd(text, p + n) <= e
    BY <2>1, <2>3, <1>0
  <2> QED BY <2>1, <2>4, <2>5, <1>0
<1>4. (p + n) - e = 1
  OBVIOUS
<1>5. Cardinality(LineEnds(text, p)) \in Nat
  BY LineEndsFinite
<1>6. 1 + (Cardinality(LineEnds(text, p)) + 1) = 1 + Cardinality(LineEnds(text, p)) + 1
  BY <1>5
<1> HIDE DEF e
<1>7. TrueLoc(text, p).line = 1 + Cardinality(LineEnds(text, p))
  BY DEF TrueLoc, Loc
<1>8. TrueLoc(text, p + n) = Loc(1 + (Cardinality(LineEnds(text, p)) + 1), 1)
  BY <1>2, <1>3, <1>4 DEF TrueLoc
<1> QED BY <1>6, <1>7, <1>8

(* The stream's step over a token is the right one, if the token is not a  *)
(* string that spans lines.                                                *)
LEMMA EndRight ==
  ASSUME NEW text \in Seq(STRING), NEW p \in 0 .. Len(text),
         FromChars(text, p).type = "Str" => NoLineEnd(text, p, FromChars(text, p).len)
  PROVE  End(FromChars(text, p), TrueLoc(text, p))
           = TrueLoc(text, p + FromChars(text, p).len)
<1> DEFINE tk == FromChars(text, p)
<1>1. Sound(text, p, tk)
  BY ReadsRight
<1> HIDE DEF tk
<1>2. tk.len \in Nat /\ p \in Nat /\ p + tk.len <= Len(text) /\ Len(text) \in Nat
  BY <1>1 DEF Sound
<1>3. CASE tk.type = "Enl"
  <2>1. tk.len >= 1
    BY <1>1, <1>2, <1>3 DEF Sound
  <2>2. \A k \in 0 .. tk.len - 1 : IsEnd(text, p + k) <=> k = tk.len - 1
    BY <1>1, <1>3 DEF Sound
  <2>3. TrueLoc(text, p + tk.len) = Loc(TrueLoc(text, p).line + 1, 1)
    BY <1>2, <2>1, <2>2, NewLine
  <2> QED BY <1>3, <2>3 DEF End, tk
<1>4. CASE tk.type # "Enl"
  <2>1. NoLineEnd(text, p, tk.len)
    <3>1. CASE tk.type = "Str"
      BY <3>1 DEF tk
    <3>2. CASE tk.type # "Str"
      BY <1>1, <1>4, <3>2 DEF Sound
    <3> QED BY <3>1, <3>2
  <2>2. \A k \in 0 .. tk.len - 1 : ~IsEnd(text, p + k)
    BY <2>1 DEF NoLineEnd, IsEnd, EndsLine
  <2>3. TrueLoc(text, p + tk.len)
          = Loc(TrueLoc(text, p).line, TrueLoc(text, p).coloum + tk.len)
    BY <1>2, <2>2, SameLine
  <2> QED BY <1>4, <2>3 DEF End, tk
<1> QED BY <1>3, <1>4


(* The source the stream is over, and its tokens *)
LEMMA LexedSource ==
  ASSUME NEW s \in Sources
  PROVE  /\ s.chars \in Seq(STRING)
         /\ s.len = Len(s.chars) /\ Len(s.chars) \in Nat
         /\ \A p \in 0 .. Len(s.chars) : Lex(s, p) = FromChars(s.chars, p)
<1> DEFINE text == s.chars
           t == Source(text, s.places)
<1>1. text \in Seq(STRING) /\ s = t
  BY LexedAssumption
<1>2. t.len = Len(text)
  BY DEF Source
<1>3. \A p \in 0 .. Len(text) : Lex(t, p) = FromChars(text, p)
  <2> HIDE DEF text
  <2> QED BY <1>1, LexIsFromChars
<1>4. s.len = Len(text) /\ \A p \in 0 .. Len(text) : Lex(s, p) = FromChars(text, p)
  <2> HIDE DEF t, text
  <2> QED BY <1>1, <1>2, <1>3
<1> QED BY <1>1, <1>4

(* The invariant behind LocRight, of one state kept *)
LocTrue(s) == MultiLineBefore(src, s.pos) \/ s.loc = TrueLoc(src.chars, s.pos)

LocsTrue == LocTrue(state) /\ \A i \in 1 .. Len(guards) : LocTrue(guards[i])

LEMMA NextLocsTrue ==
  ASSUME IInv, AtPlaces, LocsTrue, Next
  PROVE  LocsTrue'
<1> DEFINE text == src.chars
           p == state.pos
           q == p + Lex(src, p).len
<1>1. /\ src \in Sources /\ text \in Seq(STRING) /\ src.len = Len(text)
      /\ \A r \in 0 .. Len(text) : Lex(src, r) = FromChars(text, r)
  BY LexedSource DEF IInv, Shape
<1>2. p \in 0 .. Len(text) /\ q \in 0 .. Len(text)
  BY <1>1, TokenFacts DEF IInv, Shape, Kept
<1>3. /\ state'.pos = Behind(src, p)
      /\ state'.loc = BehindLoc(src, p, state.loc)
      /\ src' = src /\ guards' = guards
  BY NextMoves DEF Next
<1>4. p <= q /\ q <= Behind(src, p)
  <2>1. p \in Nat /\ q \in Nat /\ p <= q
    BY <1>1, <1>2, TokenFacts DEF IInv, Shape, Kept
  <2>2. Lex(src, q).len \in Nat
    BY <1>1, <1>2, SourcesFacts
  <2> HIDE DEF p
  <2> QED BY <2>1, <2>2 DEF Behind
<1>5. PICK n \in 1 .. Len(src.places) : src.places[n] = p
  BY DEF AtPlaces, IsPlace
<1>6. \A m \in 1 .. Len(src.places) : src.places[m] \in Int
  BY <1>1, PlacesFacts
<1>7. CASE MultiLineBefore(src, p)
  <2>1. PICK m \in 1 .. Len(src.places) : src.places[m] < p /\ MultiLine(src, src.places[m])
    BY <1>7 DEF MultiLineBefore
  <2>2. src.places[m] < state'.pos
    <3> HIDE DEF p
    <3>1. Behind(src, p) \in Nat
      BY <1>3, NextMoves DEF Kept
    <3> HIDE DEF q
    <3> QED BY <1>2, <1>3, <1>4, <1>6, <2>1, <3>1
  <2>3. MultiLineBefore(src, state'.pos)
    BY <2>1, <2>2 DEF MultiLineBefore
  <2> QED BY <1>3, <2>3 DEF LocsTrue, LocTrue
<1>8. CASE MultiLine(src, p)
  <2>1. p < q
    <3>1. Lex(src, p).type = "Str"
      BY <1>8 DEF MultiLine
    <3>2. Lex(src, p).len \in Nat /\ Lex(src, p).len # 0
      <4>1. Lex(src, p).len = 0 <=> Lex(src, p).type \in {"Enf", "Null"}
        BY <1>1, <1>2, SourcesFacts
      <4>2. Lex(src, p).len \in Nat
        BY <1>1, <1>2, SourcesFacts
      <4> HIDE DEF p
      <4> QED BY <3>1, <4>1, <4>2
    <3> HIDE DEF p
    <3> QED BY <1>2, <3>2
  <2>2. p < state'.pos
    <3> HIDE DEF p
    <3>1. Behind(src, p) \in Nat
      BY <1>3, NextMoves DEF Kept
    <3> HIDE DEF q
    <3> QED BY <1>2, <1>3, <1>4, <2>1, <3>1
  <2>3. MultiLineBefore(src, state'.pos)
    BY <1>5, <1>8, <2>2 DEF MultiLineBefore
  <2> QED BY <1>3, <2>3 DEF LocsTrue, LocTrue
<1>9. CASE ~MultiLineBefore(src, p) /\ ~MultiLine(src, p)
  <2>1. state.loc = TrueLoc(text, p)
    BY <1>9 DEF LocsTrue, LocTrue
  <2> HIDE DEF p
  <2>2. Lex(src, p).type = "Str" => NoLineEnd(text, p, Lex(src, p).len)
    BY <1>9 DEF MultiLine, NoLineEnd
  <2> HIDE DEF text
  <2>3. End(Lex(src, p), state.loc) = TrueLoc(text, q)
    BY <1>1, <1>2, <2>1, <2>2, EndRight DEF text
  <2> HIDE DEF q
  <2>4. CASE Lex(src, q).type = "Space"
    <3>1. End(Lex(src, q), TrueLoc(text, q)) = TrueLoc(text, q + Lex(src, q).len)
      BY <1>1, <1>2, <2>4, EndRight DEF text
    <3>2. state'.loc = TrueLoc(text, state'.pos)
      BY <1>3, <2>3, <2>4, <3>1 DEF Behind, BehindLoc, q
    <3> QED BY <1>3, <3>2 DEF LocsTrue, LocTrue, text
  <2>5. CASE Lex(src, q).type # "Space"
    <3>1. state'.loc = TrueLoc(text, state'.pos)
      BY <1>3, <2>3, <2>5 DEF Behind, BehindLoc, q
    <3> QED BY <1>3, <3>1 DEF LocsTrue, LocTrue, text
  <2> QED BY <2>4, <2>5
<1> QED BY <1>7, <1>8, <1>9

LEMMA LocsStayTrue ==
  ASSUME IInv, AtPlaces, LocsTrue, [Step]_vars
  PROVE  LocsTrue'
<1>1. CASE Peek
  BY <1>1 DEF Peek, LocsTrue, LocTrue
<1>2. CASE Next
  BY <1>2, NextLocsTrue
<1>3. CASE NextUndefined
  BY <1>3 DEF NextUndefined, LocsTrue, LocTrue
<1>4. CASE Guard
  <2>1. /\ guards' = Append(guards, state) /\ src' = src /\ state' = state
        /\ guards \in Seq(Kept) /\ state \in Kept /\ Len(guards) \in Nat
    BY <1>4 DEF Guard, IInv, Shape
  <2>2. /\ Len(guards') = Len(guards) + 1
        /\ guards'[Len(guards) + 1] = state
        /\ \A i \in 1 .. Len(guards) : guards'[i] = guards[i]
    BY <2>1
  <2>3. \A i \in 1 .. Len(guards') : i \in 1 .. Len(guards) \/ i = Len(guards) + 1
    BY <2>1, <2>2
  <2> QED BY <2>1, <2>2, <2>3 DEF LocsTrue, LocTrue
<1>5. CASE Finish \/ Reload
  <2>1. /\ guards # <<>> /\ Leave /\ src' = src
        /\ state' \in {state, guards[Len(guards)]}
    BY <1>5 DEF Finish, Reload, Innermost
  <2>2. /\ Len(guards) \in 1 .. Len(guards)
        /\ \A i \in 1 .. Len(guards') : i \in 1 .. Len(guards) /\ guards'[i] = guards[i]
    BY <2>1, LeaveFacts
  <2> QED BY <2>1, <2>2 DEF LocsTrue, LocTrue
<1>6. CASE UNCHANGED vars
  BY <1>6 DEF vars, LocsTrue, LocTrue
<1> QED BY <1>1, <1>2, <1>3, <1>4, <1>5, <1>6 DEF Step

(* For every text, and however it is read, guarded and taken back: up to   *)
(* the first string literal that spans lines, the line and the column that *)
(* TokenStream adds up from the lengths of tokens are those of the         *)
(* character it is at, and so are the ones its guards keep.                *)
THEOREM LocIsRight == Spec => []LocRight
<1>1. Init => LocsTrue
  <2> SUFFICES ASSUME Init PROVE LocsTrue
    OBVIOUS
  <2>1. LineEnds(src.chars, 0) = {}
    BY DEF LineEnds
  <2>2. Cardinality(LineEnds(src.chars, 0)) = 0
    BY <2>1, FS_EmptySet
  <2>3. LastEnd(src.chars, 0) = -1
    BY <2>1 DEF LastEnd
  <2>4. TrueLoc(src.chars, 0) = Loc(1, 1)
    BY <2>2, <2>3 DEF TrueLoc
  <2> QED BY <2>4 DEF Init, LocsTrue, LocTrue
<1>2. IInv /\ AtPlaces /\ LocsTrue /\ [Step]_vars => LocsTrue'
  BY LocsStayTrue
<1>3. IInv /\ AtPlaces /\ [Step]_vars => AtPlaces'
  BY StepIsCursor
<1>4. IInv /\ LocsTrue => LocRight
  <2> SUFFICES ASSUME IInv, LocsTrue, NEW s \in States
               PROVE  LocTrue(s)
    BY DEF LocRight, LocTrue
  <2>1. DOMAIN guards = 1 .. Len(guards)
    BY DEF IInv, Shape
  <2> QED BY <2>1 DEF States, LocsTrue
<1> QED BY <1>1, <1>2, <1>3, <1>4, CursorInit, StreamInvariant, PTL DEF Spec


-----------------------------------------------------------------------------
(* The values of numbers                                                   *)

LEMMA DivMod ==
  ASSUME NEW v \in Int, NEW K \in Nat, K > 0
  PROVE  \E q \in Int : v = (q * K) + (v % K) /\ v % K \in Nat /\ v % K < K
<1>1. v \div K \in Int /\ v % K \in Nat /\ v % K < K
  OBVIOUS
<1> DEFINE q == v \div K
           r == v % K
<1>2. q \in Int /\ r \in Int /\ q = v \div K /\ r = v % K
  BY <1>1
<1>3. v = q * K + r
  <2> HIDE DEF q, r
  <2> QED BY <1>2
<1> QED BY <1>1, <1>3

LEMMA NoMultipleBetween ==
  ASSUME NEW d \in Int, NEW K \in Nat, -K < d * K, d * K < K
  PROVE  d = 0
<1>1. CASE d >= 1
  <2>1. (d - 1) * K >= 0
    BY <1>1
  <2>2. (d - 1) * K = d * K - K
    OBVIOUS
  <2> QED BY <2>1, <2>2
<1>2. CASE d <= -1
  <2>1. (-d - 1) * K >= 0
    BY <1>2
  <2>2. (-d - 1) * K = -(d * K) - K
    OBVIOUS
  <2> QED BY <2>1, <2>2
<1> QED BY <1>1, <1>2

LEMMA ModUnique ==
  ASSUME NEW q \in Int, NEW K \in Nat, NEW r \in Nat, r < K
  PROVE  (q * K + r) % K = r
<1> DEFINE v == q * K + r
           s == v % K
<1>1. v \in Int /\ K > 0
  OBVIOUS
<1>2. PICK p \in Int : v = (p * K) + s /\ s \in Nat /\ s < K
  <2> HIDE DEF v
  <2> QED BY <1>1, DivMod
<1>3. q * K + r = p * K + s
  BY <1>2
<1> HIDE DEF v, s
<1>4. (q - p) * K = q * K - p * K
  BY <1>2
<1>5. (q - p) * K = s - r
  BY <1>2, <1>3, <1>4
<1>6. q - p \in Int /\ -K < (q - p) * K /\ (q - p) * K < K
  BY <1>2, <1>5
<1>7. q - p = 0
  BY <1>6, NoMultipleBetween
<1>8. q = p
  BY <1>2, <1>7
<1>9. s = r
  BY <1>2, <1>3, <1>8
<1> QED BY <1>9 DEF s, v

(* Wrap takes off a multiple of IntRange, and does not see one. *)
LEMMA WrapRight ==
  ASSUME NEW v \in Int
  PROVE  /\ Wrap(v) \in Int
         /\ \E q \in Int : Wrap(v) = v - q * IntRange
         /\ \A q \in Int : Wrap(v + q * IntRange) = Wrap(v)
<1> DEFINE h == IntRange \div 2
           u == v + h
           r == u % IntRange
<1>0. IntRange \in Nat /\ IntRange > 0 /\ h \in Int
  BY IntRangeAssumption
<1>1. Wrap(v) = r - h
  BY DEF Wrap
<1> HIDE DEF h
<1>2. u \in Int
  BY <1>0
<1>3. PICK a \in Int : u = (a * IntRange) + r /\ r \in Nat /\ r < IntRange
  <2> HIDE DEF u
  <2> QED BY <1>0, <1>2, DivMod
<1> HIDE DEF r
<1>4. Wrap(v) = v - a * IntRange
  <2>1. a * IntRange \in Int
    BY <1>0
  <2> QED BY <1>0, <1>1, <1>3, <2>1
<1>5. ASSUME NEW q \in Int PROVE Wrap(v + q * IntRange) = Wrap(v)
  <2> DEFINE w == (v + q * IntRange) + h
  <2>1. Wrap(v + q * IntRange) = (w % IntRange) - h
    BY DEF Wrap, h
  <2>2. w = (a + q) * IntRange + r
    <3>1. (a + q) * IntRange = a * IntRange + q * IntRange
      BY <1>0
    <3>2. a * IntRange \in Int /\ q * IntRange \in Int
      BY <1>0
    <3> QED BY <1>0, <1>3, <3>1, <3>2
  <2> HIDE DEF w
  <2>3. a + q \in Int
    OBVIOUS
  <2>4. w % IntRange = r
    BY <1>0, <1>3, <2>2, <2>3, ModUnique
  <2> QED BY <1>1, <2>1, <2>4
<1> QED BY <1>0, <1>1, <1>3, <1>4, <1>5

(* Wrapping after every digit is wrapping once. *)
LEMMA WrapStep ==
  ASSUME NEW v \in Int, NEW d \in Int
  PROVE  Wrap(Wrap(v) * 10 + d) = Wrap(10 * v + d)
<1> DEFINE w == Wrap(v)
<1>0. IntRange \in Int
  BY IntRangeAssumption
<1>1. PICK q \in Int : w \in Int /\ w = v - q * IntRange
  BY WrapRight
<1> HIDE DEF w
<1> DEFINE x == 10 * v + d
           y == (-10) * q
<1>2. x \in Int /\ y \in Int
  OBVIOUS
<1>3. w * 10 + d = x + y * IntRange
  <2>1. (-10) * q * IntRange = (-10) * (q * IntRange)
    BY <1>0
  <2>2. q * IntRange \in Int
    BY <1>0
  <2> QED BY <1>0, <1>1, <2>1, <2>2
<1>4. Wrap(x + y * IntRange) = Wrap(x)
  <2> HIDE DEF x, y
  <2> QED BY <1>2, WrapRight
<1> QED BY <1>3, <1>4 DEF w

LEMMA WrapZero == Wrap(0) = 0
<1> DEFINE h == IntRange \div 2
<1>1. IntRange \in Nat /\ h \in Nat /\ h < IntRange
  BY IntRangeAssumption
<1>2. (0 * IntRange + h) % IntRange = h
  <2> HIDE DEF h
  <2> QED BY <1>1, ModUnique
<1>3. 0 * IntRange + h = 0 + h
  BY <1>1
<1> QED BY <1>1, <1>2, <1>3 DEF Wrap

(* The digits *)
LEMMA DigitRight ==
  ASSUME NEW c \in is_digit
  PROVE  /\ Digit(c) \in 0 .. 9
         /\ Digit(c) = CHOOSE d \in 0 .. 9 : Digits[d + 1] = c
<1>1. DOMAIN Digits = 1 .. 10
  BY DEF Digits
<1>2. \A j, k \in 1 .. 10 : Digits[j] = Digits[k] => j = k
  BY DEF Digits
<1>3. PICK k \in 1 .. 10 : Digits[k] = c
  BY <1>1 DEF is_digit
<1>4. Digit(c) = k - 1
  BY <1>1, <1>2, <1>3 DEF Digit
<1>5. k - 1 \in 0 .. 9 /\ Digits[k - 1 + 1] = c
  BY <1>3
<1>6. \A d \in 0 .. 9 : Digits[d + 1] = c => d = k - 1
  <2> TAKE d \in 0 .. 9
  <2>1. d + 1 \in 1 .. 10
    OBVIOUS
  <2> QED BY <2>1, <1>2, <1>3
<1>7. (CHOOSE d \in 0 .. 9 : Digits[d + 1] = c) = k - 1
  BY <1>5, <1>6
<1> QED BY <1>4, <1>5, <1>7


(* f is a recursion over 0 .. n from 0: G[i] makes f[i] of f[i - 1]. *)
Recursion(f, n, G) ==
    /\ f \in [0 .. n -> Int]
    /\ f[0] = 0
    /\ \A i \in 1 .. n : f[i] = G[i][f[i - 1]]

(* There is one. *)
LEMMA RecursionExists ==
  ASSUME NEW n \in Nat, NEW G \in [1 .. n -> [Int -> Int]]
  PROVE  \E f : Recursion(f, n, G)
<1> DEFINE T == {m \in 0 .. n : ~\E f : Recursion(f, m, G)}
<1>1. T = {}
  <2> SUFFICES ASSUME T # {} PROVE FALSE
    OBVIOUS
  <2>1. PICK m \in T : \A k \in T : m <= k
    <3>1. T \subseteq Nat
      OBVIOUS
    <3> HIDE DEF T
    <3> QED BY <3>1, LeastNumber
  <2>2. m \in 0 .. n /\ ~\E f : Recursion(f, m, G)
    OBVIOUS
  <2>3. m # 0
    <3>1. Recursion([i \in 0 .. 0 |-> 0], 0, G)
      BY DEF Recursion
    <3> QED BY <2>2, <3>1
  <2>4. m - 1 \in 0 .. n /\ m - 1 \notin T
    <3>1. m - 1 \in 0 .. n
      BY <2>2, <2>3
    <3> HIDE DEF T
    <3> QED BY <3>1, <2>1, <2>2
  <2>5. PICK f : Recursion(f, m - 1, G)
    BY <2>4
  <2>6. /\ f \in [0 .. m - 1 -> Int] /\ f[0] = 0
        /\ \A i \in 1 .. m - 1 : f[i] = G[i][f[i - 1]]
    BY <2>5 DEF Recursion
  <2> DEFINE x == G[m][f[m - 1]]
             g == [i \in 0 .. m |-> IF i = m THEN x ELSE f[i]]
  <2>7. x \in Int
    <3>0. m - 1 \in 0 .. m - 1 /\ m \in 1 .. n
      BY <2>2, <2>3
    <3>1. f[m - 1] \in Int /\ G[m] \in [Int -> Int]
      BY <3>0, <2>6
    <3> QED BY <3>1
  <2>8. \A i \in 0 .. m - 1 : f[i] \in Int
    BY <2>6
  <2> HIDE DEF x
  <2>9. /\ g \in [0 .. m -> Int] /\ g[m] = x /\ g[0] = 0
        /\ \A i \in 0 .. m - 1 : g[i] = f[i]
    <3>1. \A i \in 0 .. m : i = m \/ i \in 0 .. m - 1
      BY <2>2
    <3>2. \A i \in 0 .. m - 1 : i \in 0 .. m /\ i # m
      BY <2>2
    <3>3. 0 \in 0 .. m - 1 /\ m \in 0 .. m
      BY <2>2, <2>3
    <3>4. \A i \in 0 .. m : g[i] = IF i = m THEN x ELSE f[i]
      OBVIOUS
    <3>5. g[m] = x /\ \A i \in 0 .. m - 1 : g[i] = f[i]
      BY <3>2, <3>3, <3>4
    <3>6. \A i \in 0 .. m : (IF i = m THEN x ELSE f[i]) \in Int
      BY <2>7, <2>8, <3>1
    <3>7. g \in [0 .. m -> Int]
      BY <3>6
    <3> QED BY <2>6, <3>3, <3>5, <3>7
  <2> HIDE DEF g
  <2>10. ASSUME NEW i \in 1 .. m PROVE g[i] = G[i][g[i - 1]]
    <3>1. i - 1 \in 0 .. m - 1 /\ g[i - 1] = f[i - 1]
      BY <2>2, <2>9
    <3>2. CASE i = m
      BY <3>1, <3>2, <2>9 DEF x
    <3>3. CASE i # m
      <4>1. i \in 1 .. m - 1 /\ i \in 0 .. m - 1
        BY <2>2, <3>3
      <4> QED BY <3>1, <4>1, <2>6, <2>9
    <3> QED BY <3>2, <3>3
  <2>11. Recursion(g, m, G)
    BY <2>9, <2>10 DEF Recursion
  <2> QED BY <2>2, <2>11
<1>2. n \in 0 .. n /\ n \notin T
  <2> HIDE DEF T
  <2> QED BY <1>1
<1> QED BY <1>2

DigitsAt(text, p, n) == \A k \in 1 .. n : text[p + k] \in is_digit

(* The functions that Accumulated and Decimal compute with *)
Res(text, p, n) ==
    CHOOSE f : f = [k \in 0 .. n |->
                      IF k = 0 THEN 0 ELSE Wrap(f[k - 1] * 10 + Digit(text[p + k]))]

Value(text, p, n) ==
    CHOOSE f : f = [k \in 0 .. n |->
                      IF k = 0 THEN 0
                      ELSE 10 * f[k - 1] + CHOOSE d \in 0 .. 9 : Digits[d + 1] = text[p + k]]

LEMMA ResRight ==
  ASSUME NEW text, NEW p, NEW n \in Nat, DigitsAt(text, p, n)
  PROVE  /\ Res(text, p, n)[0] = 0
         /\ \A k \in 1 .. n : Res(text, p, n)[k] =
              Wrap(Res(text, p, n)[k - 1] * 10 + Digit(text[p + k]))
         /\ Accumulated(text, p, n) = Res(text, p, n)[n]
<1> DEFINE Body(f) == [k \in 0 .. n |->
                         IF k = 0 THEN 0 ELSE Wrap(f[k - 1] * 10 + Digit(text[p + k]))]
           G == [k \in 1 .. n |-> [x \in Int |-> Wrap(x * 10 + Digit(text[p + k]))]]
           res == Res(text, p, n)
<1>1. G \in [1 .. n -> [Int -> Int]]
  <2>1. ASSUME NEW k \in 1 .. n, NEW x \in Int PROVE Wrap(x * 10 + Digit(text[p + k])) \in Int
    <3> DEFINE d == Digit(text[p + k])
    <3>1. d \in Int
      BY DigitRight DEF DigitsAt
    <3> HIDE DEF d
    <3>2. x * 10 + d \in Int
      BY <3>1
    <3>3. Wrap(x * 10 + d) \in Int
      BY <3>2, WrapRight
    <3> QED BY <3>3 DEF d
  <2> QED BY <2>1
<1>2. PICK f : Recursion(f, n, G)
  <2> HIDE DEF G
  <2> QED BY <1>1, RecursionExists
<1>3. /\ f \in [0 .. n -> Int] /\ f[0] = 0
      /\ \A k \in 1 .. n : f[k] = Wrap(f[k - 1] * 10 + Digit(text[p + k]))
  <2>1. f \in [0 .. n -> Int] /\ f[0] = 0 /\ \A k \in 1 .. n : f[k] = G[k][f[k - 1]]
    BY <1>2 DEF Recursion
  <2>2. ASSUME NEW k \in 1 .. n PROVE f[k] = Wrap(f[k - 1] * 10 + Digit(text[p + k]))
    <3>1. f[k - 1] \in Int
      BY <2>1
    <3> QED BY <2>1, <3>1
  <2> QED BY <2>1, <2>2
<1>4. f = Body(f)
  <2>1. \A k \in 0 .. n : f[k] = Body(f)[k]
    BY <1>3
  <2> QED BY <1>3, <2>1
<1>5. res = Body(res)
  BY <1>4 DEF Res
<1>6. Accumulated(text, p, n) = res[n]
  BY DEF Accumulated, Res
<1> HIDE DEF res
<1>7. res[0] = 0 /\ \A k \in 1 .. n : res[k] = Wrap(res[k - 1] * 10 + Digit(text[p + k]))
  BY <1>5
<1> QED BY <1>6, <1>7 DEF res

LEMMA ValueRight ==
  ASSUME NEW text, NEW p, NEW n \in Nat, DigitsAt(text, p, n)
  PROVE  /\ Value(text, p, n) \in [0 .. n -> Int]
         /\ Value(text, p, n)[0] = 0
         /\ \A k \in 1 .. n : Value(text, p, n)[k] =
              10 * Value(text, p, n)[k - 1] + Digit(text[p + k])
         /\ Decimal(text, p, n) = Value(text, p, n)[n]
<1> DEFINE Dig(k) == CHOOSE d \in 0 .. 9 : Digits[d + 1] = text[p + k]
           Body(f) == [k \in 0 .. n |-> IF k = 0 THEN 0 ELSE 10 * f[k - 1] + Dig(k)]
           G == [k \in 1 .. n |-> [x \in Int |-> 10 * x + Dig(k)]]
           value == Value(text, p, n)
<1>0. ASSUME NEW k \in 1 .. n
      PROVE  Dig(k) = Digit(text[p + k]) /\ Dig(k) \in Int
  <2>1. text[p + k] \in is_digit
    BY DEF DigitsAt
  <2>2. Digit(text[p + k]) \in 0 .. 9 /\ Dig(k) = Digit(text[p + k])
    BY <2>1, DigitRight
  <2> HIDE DEF Dig
  <2> QED BY <2>2
<1>5. (\E f : f = Body(f)) => value = Body(value)
  BY DEF Value
<1>6. Decimal(text, p, n) = value[n]
  BY DEF Decimal, Value
<1> HIDE DEF Dig
<1>1. G \in [1 .. n -> [Int -> Int]]
  BY <1>0
<1>2. PICK f : Recursion(f, n, G)
  <2> HIDE DEF G
  <2> QED BY <1>1, RecursionExists
<1>3. /\ f \in [0 .. n -> Int] /\ f[0] = 0
      /\ \A k \in 1 .. n : f[k] = 10 * f[k - 1] + Dig(k)
  <2>1. f \in [0 .. n -> Int] /\ f[0] = 0 /\ \A k \in 1 .. n : f[k] = G[k][f[k - 1]]
    BY <1>2 DEF Recursion
  <2>2. ASSUME NEW k \in 1 .. n PROVE f[k] = 10 * f[k - 1] + Dig(k)
    <3>1. f[k - 1] \in Int
      BY <2>1
    <3> QED BY <2>1, <3>1
  <2> QED BY <2>1, <2>2
<1>4. f = Body(f)
  <2>1. \A k \in 0 .. n : f[k] = Body(f)[k]
    BY <1>3
  <2> QED BY <1>3, <2>1
<1> HIDE DEF value
<1>7. value = Body(value)
  BY <1>4, <1>5
<1>8. value[0] = 0 /\ \A k \in 1 .. n : value[k] = 10 * value[k - 1] + Dig(k)
  BY <1>7
<1>9. value \in [0 .. n -> Int]
  <2> DEFINE T == {k \in 0 .. n : value[k] \notin Int}
  <2>1. T = {}
    <3> SUFFICES ASSUME T # {} PROVE FALSE
      OBVIOUS
    <3>1. PICK m \in T : \A k \in T : m <= k
      <4>1. T \subseteq Nat
        OBVIOUS
      <4> HIDE DEF T
      <4> QED BY <4>1, LeastNumber
    <3>2. m \in 1 .. n /\ m - 1 \in 0 .. n
      BY <1>8
    <3>3. m - 1 \notin T
      <4> HIDE DEF T
      <4> QED BY <3>1, <3>2
    <3>4. value[m - 1] \in Int /\ Dig(m) \in Int
      BY <3>2, <3>3, <1>0
    <3>5. value[m] \in Int
      BY <3>2, <3>4, <1>8
    <3> QED BY <3>5
  <2> QED BY <2>1, <1>7
<1>10. \A k \in 1 .. n : value[k] = 10 * value[k - 1] + Digit(text[p + k])
  BY <1>0, <1>8
<1> QED BY <1>6, <1>8, <1>9, <1>10 DEF value

(* An int that overflows on the way holds what the whole number would      *)
(* leave in it.                                                            *)
LEMMA AccumulatedRight ==
  ASSUME NEW text, NEW p, NEW n \in Nat, DigitsAt(text, p, n)
  PROVE  Accumulated(text, p, n) = Wrap(Decimal(text, p, n))
<1> DEFINE res == Res(text, p, n)
           value == Value(text, p, n)
           T == {k \in 0 .. n : res[k] # Wrap(value[k])}
<1>1. /\ res[0] = 0 /\ Accumulated(text, p, n) = res[n]
      /\ \A k \in 1 .. n : res[k] = Wrap(res[k - 1] * 10 + Digit(text[p + k]))
  BY ResRight
<1>2. /\ value \in [0 .. n -> Int]
      /\ value[0] = 0 /\ Decimal(text, p, n) = value[n]
      /\ \A k \in 1 .. n : value[k] = 10 * value[k - 1] + Digit(text[p + k])
  BY ValueRight
<1> HIDE DEF res, value
<1>3. T = {}
  <2> SUFFICES ASSUME T # {} PROVE FALSE
    OBVIOUS
  <2>1. PICK m \in T : \A k \in T : m <= k
    <3>1. T \subseteq Nat
      OBVIOUS
    <3> HIDE DEF T
    <3> QED BY <3>1, LeastNumber
  <2>2. m \in 1 .. n /\ m - 1 \in 0 .. n
    BY <1>1, <1>2, WrapZero
  <2>3. m - 1 \notin T
    <3> HIDE DEF T
    <3> QED BY <2>1, <2>2
  <2>4. res[m - 1] = Wrap(value[m - 1])
    BY <2>2, <2>3
  <2> DEFINE v == value[m - 1]
             d == Digit(text[p + m])
  <2>5. v \in Int /\ d \in Int
    <3>1. text[p + m] \in is_digit
      BY <2>2 DEF DigitsAt
    <3>2. d \in 0 .. 9
      BY <3>1, DigitRight
    <3>3. v \in Int
      BY <2>2, <1>2
    <3> HIDE DEF d, v
    <3> QED BY <3>2, <3>3
  <2>6. Wrap(Wrap(v) * 10 + d) = Wrap(10 * v + d)
    <3> HIDE DEF v, d
    <3> QED BY <2>5, WrapStep
  <2>7. res[m] = Wrap(value[m])
    BY <1>1, <1>2, <2>2, <2>4, <2>6
  <2> QED BY <2>7
<1>4. res[n] = Wrap(value[n])
  <2>1. n \in 0 .. n /\ n \notin T
    BY <1>3
  <2> QED BY <2>1
<1> QED BY <1>1, <1>2, <1>4


(* A digit begins an integer. *)
LEMMA IntFound ==
  ASSUME NEW text \in Seq(STRING), NEW p \in 0 .. Len(text) - 1, At(text, p) \in is_digit
  PROVE  int_from_chars(text, p) # Null
<1> DEFINE n == Span(text, p, is_digit)
<1>1. n # 0
  <2>1. p \in 0 .. Len(text) /\ p + 0 < Len(text)
    OBVIOUS
  <2>2. p + n < Len(text) => At(text, p + n) \notin is_digit
    BY <2>1, SpanRight
  <2> HIDE DEF n
  <2>3. p + 0 = p
    OBVIOUS
  <2> QED BY <2>1, <2>2, <2>3
<1>2. int_from_chars(text, p) = [type |-> "Int", len |-> n, i |-> Accumulated(text, p, n)]
  BY <1>1 DEF int_from_chars
<1>3. int_from_chars(text, p).type = "Int"
  BY <1>2
<1>4. Null.type = "Null"
  BY DEF Null
<1> QED BY <1>3, <1>4

(* An integer has all the digits there are, and their value. *)
LEMMA IntValue ==
  ASSUME NEW text \in Seq(STRING), NEW p \in 0 .. Len(text),
         int_from_chars(text, p) # Null
  PROVE  LET tk == int_from_chars(text, p)
         IN  /\ tk.len \in Nat /\ tk.len >= 1 /\ p + tk.len <= Len(text)
             /\ tk.i = Wrap(Decimal(text, p, tk.len))
             /\ \A k \in 0 .. tk.len - 1 : At(text, p + k) \in is_digit
             /\ p + tk.len < Len(text) => At(text, p + tk.len) \notin is_digit
<1> DEFINE tk == int_from_chars(text, p)
           n == Span(text, p, is_digit)
<1>1. tk.len = n /\ tk.i = Accumulated(text, p, n) /\ Inside(text, p, tk)
  BY IntKind
<1>2. /\ n \in Nat
      /\ \A k \in 0 .. n - 1 : At(text, p + k) \in is_digit
      /\ p + n < Len(text) => At(text, p + n) \notin is_digit
  BY SpanRight
<1> HIDE DEF n, tk
<1>3. ASSUME NEW k \in 1 .. n PROVE text[p + k] \in is_digit
  <2>1. k - 1 \in 0 .. n - 1 /\ p + (k - 1) + 1 = p + k
    BY <1>2
  <2>2. At(text, p + (k - 1)) \in is_digit
    BY <1>2, <2>1
  <2> QED BY <2>1, <2>2 DEF At
<1>4. Accumulated(text, p, n) = Wrap(Decimal(text, p, n))
  BY <1>2, <1>3, AccumulatedRight DEF DigitsAt
<1> QED BY <1>1, <1>2, <1>4 DEF Inside, tk

(* A number that FromChars reads comes from the first kind that fits. *)
LEMMA NumberKind ==
  ASSUME NEW text \in Seq(STRING), NEW p \in 0 .. Len(text),
         FromChars(text, p).type \in {"Int", "Float"}
  PROVE  LET tk == FromChars(text, p)
         IN  /\ p \in 0 .. Len(text) - 1
             /\ tk.type = "Float" =>
                  tk = float_from_chars(text, p) /\ float_from_chars(text, p) # Null
             /\ tk.type = "Int" =>
                  /\ tk = int_from_chars(text, p) /\ int_from_chars(text, p) # Null
                  /\ float_from_chars(text, p) = Null
<1> DEFINE tk == FromChars(text, p)
<1>0. tk.type \in {"Int", "Float"}
  OBVIOUS
<1>1. p # Len(text)
  <2> SUFFICES ASSUME p = Len(text) PROVE FALSE
    OBVIOUS
  <2>1. tk = [type |-> "Enf", len |-> 0]
    BY DEF FromChars, Plain
  <2>2. tk.type = "Enf"
    BY <2>1
  <2> HIDE DEF tk
  <2> QED BY <1>0, <2>2
<1>2. p \in 0 .. Len(text) - 1
  BY <1>1
<1>3. endl_from_chars(text, p) = Null
  <2> SUFFICES ASSUME endl_from_chars(text, p) # Null PROVE FALSE
    OBVIOUS
  <2>1. tk = endl_from_chars(text, p)
    BY <1>1 DEF FromChars
  <2>2. tk.type = "Enl"
    BY <1>2, <2>1, EndlKind
  <2> HIDE DEF tk
  <2> QED BY <1>0, <2>2
<1>4. At(text, p) \notin Blank
  <2> SUFFICES ASSUME At(text, p) \in Blank PROVE FALSE
    OBVIOUS
  <2>1. tk = [type |-> "Space", len |-> Span(text, p, Blank)]
    BY <1>1, <1>3 DEF FromChars, Plain
  <2>2. tk.type = "Space"
    BY <2>1
  <2> HIDE DEF tk
  <2> QED BY <1>0, <2>2
<1>5. Matches(text, p) = {}
  <2> SUFFICES ASSUME Matches(text, p) # {} PROVE FALSE
    OBVIOUS
  <2> DEFINE entry == simple_tokens[First(Matches(text, p))]
  <2>1. tk = [type |-> entry[1], len |-> Len(entry[2])]
    BY <1>1, <1>3, <1>4 DEF FromChars, Plain
  <2>2. entry[1] \notin DataTypes
    BY <1>2, MatchRight
  <2> HIDE DEF entry
  <2>3. tk.type = entry[1]
    BY <2>1
  <2> HIDE DEF tk
  <2> QED BY <1>0, <2>2, <2>3 DEF DataTypes
<1> DEFINE fits == {k \in 1 .. 4 : Kinds(text, p)[k] # Null}
           i == First(fits)
<1>6. tk = IF fits = {} THEN Null ELSE Kinds(text, p)[i]
  BY <1>1, <1>3, <1>4, <1>5 DEF FromChars
<1>7. fits # {}
  <2> SUFFICES ASSUME fits = {} PROVE FALSE
    OBVIOUS
  <2>1. tk = [type |-> "Null", len |-> 0]
    BY <1>6 DEF Null
  <2>2. tk.type = "Null"
    BY <2>1
  <2> HIDE DEF tk
  <2> QED BY <1>0, <2>2
<1>8. i \in fits /\ \A k \in fits : i <= k
  <2>1. fits \subseteq Nat
    OBVIOUS
  <2> HIDE DEF fits
  <2> QED BY <2>1, <1>7, FirstRight
<1>9. tk = Kinds(text, p)[i]
  BY <1>6, <1>7
<1> HIDE DEF i
<1>10. i \in 1 .. 4 /\ Kinds(text, p)[i] # Null
  BY <1>8
<1>11. tk.type = <<"Float", "Int", "Str", "Symbol">>[i]
  BY <1>2, <1>9, <1>10, KindsRight
<1>12. Kinds(text, p)[1] = float_from_chars(text, p) /\ Kinds(text, p)[2] = int_from_chars(text, p)
  BY DEF Kinds
<1>13. (1 \in fits <=> float_from_chars(text, p) # Null)
  BY <1>12
<1> HIDE DEF tk, fits
<1>14. CASE i = 1
  <2>1. tk.type = "Float"
    BY <1>11, <1>14
  <2> QED BY <2>1, <1>2, <1>9, <1>10, <1>12, <1>14 DEF tk
<1>15. CASE i = 2
  <2>1. tk.type = "Int"
    BY <1>11, <1>15
  <2>2. 1 \notin fits
    BY <1>8, <1>15
  <2> QED BY <2>1, <2>2, <1>2, <1>9, <1>10, <1>12, <1>13, <1>15 DEF tk
<1>16. i \notin {3, 4}
  <2>1. i = 3 => tk.type = "Str"
    BY <1>11
  <2>2. i = 4 => tk.type = "Symbol"
    BY <1>11
  <2> QED BY <2>1, <2>2, <1>0
<1> QED BY <1>10, <1>14, <1>15, <1>16

LEMMA IntIsRead ==
  ASSUME NEW text \in Seq(STRING), NEW p \in 0 .. Len(text),
         FromChars(text, p).type = "Int"
  PROVE  IntRead(text, p, FromChars(text, p))
<1> DEFINE tk == int_from_chars(text, p)
           rest == p + tk.len
<1>1. /\ FromChars(text, p) = tk /\ tk # Null
      /\ float_from_chars(text, p) = Null
  BY NumberKind
<1>2. /\ tk.len \in Nat /\ tk.len >= 1 /\ rest <= Len(text)
      /\ tk.i = Wrap(Decimal(text, p, tk.len))
      /\ rest < Len(text) => At(text, rest) \notin is_digit
  BY <1>1, IntValue
<1>3. ASSUME rest + 1 < Len(text), At(text, rest) = ".", At(text, rest + 1) \in is_digit
      PROVE  FALSE
  <2>1. rest + 1 \in 0 .. Len(text) - 1 /\ rest # Len(text)
    BY <1>2, <1>3
  <2> DEFINE n2 == int_from_chars(text, rest + 1)
  <2>2. n2 # Null
    <3> HIDE DEF rest
    <3> QED BY <1>3, <2>1, IntFound
  <2>3. float_from_chars(text, p)
          = [type |-> "Float", len |-> tk.len + n2.len + 1, f |-> <<tk.i, n2.i, n2.len>>]
    BY <1>1, <1>3, <2>1, <2>2 DEF float_from_chars
  <2>4. float_from_chars(text, p).type = "Float"
    BY <2>3
  <2>5. Null.type = "Null"
    BY DEF Null
  <2> QED BY <1>1, <2>4, <2>5
<1> HIDE DEF tk
<1> QED BY <1>1, <1>2, <1>3 DEF IntRead

LEMMA FloatIsRead ==
  ASSUME NEW text \in Seq(STRING), NEW p \in 0 .. Len(text),
         FromChars(text, p).type = "Float"
  PROVE  FloatRead(text, p, FromChars(text, p))
<1> DEFINE tk == float_from_chars(text, p)
           n1 == int_from_chars(text, p)
           point == p + n1.len
           n2 == int_from_chars(text, point + 1)
           rest == p + tk.len
<1>1. FromChars(text, p) = tk /\ tk # Null
  BY NumberKind
<1>2. /\ n1 # Null /\ n2 # Null
      /\ point \in 0 .. Len(text) - 1 /\ At(text, point) = "."
      /\ tk.len = n1.len + n2.len + 1
      /\ tk.f = <<n1.i, n2.i, n2.len>>
  BY <1>1, FloatKind
<1>3. /\ n1.len \in Nat /\ n1.len >= 1
      /\ n1.i = Wrap(Decimal(text, p, n1.len))
      /\ \A k \in 0 .. n1.len - 1 : At(text, p + k) \in is_digit
  BY <1>2, IntValue
<1> DEFINE b == point + 1
<1>4. b \in 0 .. Len(text) /\ Len(text) \in Nat /\ p \in Nat /\ b = p + n1.len + 1
  BY <1>2, <1>3
<1>5. /\ n2.len \in Nat /\ n2.len >= 1
      /\ n2.i = Wrap(Decimal(text, b, n2.len))
      /\ \A k \in 0 .. n2.len - 1 : At(text, b + k) \in is_digit
      /\ b + n2.len < Len(text) => At(text, b + n2.len) \notin is_digit
  <2> HIDE DEF point
  <2> QED BY <1>2, <1>4, IntValue
<1> HIDE DEF tk, n1, n2
<1>6. /\ rest = b + n2.len /\ point - p = n1.len /\ rest - (point + 1) = n2.len
      /\ point \in p .. rest - 1
  <2>1. tk.len = n1.len + n2.len + 1 /\ n1.len \in Nat /\ n2.len \in Nat /\ p \in Nat
    BY <1>2, <1>3, <1>4, <1>5
  <2>2. rest = b + n2.len
    BY <2>1
  <2>3. point - p = n1.len
    BY <2>1
  <2>4. rest - (point + 1) = n2.len
    BY <2>1
  <2>5. point \in p .. rest - 1
    BY <2>1
  <2> QED BY <2>2, <2>3, <2>4, <2>5
<1>7. ASSUME NEW q \in p .. rest - 1, At(text, q) = "." PROVE q = point
  <2>1. CASE q < point
    <3>1. q - p \in 0 .. n1.len - 1 /\ p + (q - p) = q
      BY <2>1, <1>3, <1>4
    <3>2. At(text, q) \in is_digit
      BY <3>1, <1>3
    <3> QED BY <3>2, <1>7, CharacterClasses
  <2>2. CASE q > point
    <3> HIDE DEF point, rest
    <3>1. q - b \in 0 .. n2.len - 1 /\ b + (q - b) = q
      BY <2>2, <1>2, <1>4, <1>5, <1>6, <1>7
    <3>2. At(text, q) \in is_digit
      BY <3>1, <1>5
    <3> QED BY <3>2, <1>7, CharacterClasses
  <2>3. q \in Int /\ point \in Int
    BY <1>3, <1>4, <1>6
  <2> QED BY <2>1, <2>2, <2>3
<1> HIDE DEF point, rest
<1>8. (CHOOSE q \in p .. rest - 1 : At(text, q) = ".") = point
  BY <1>2, <1>6, <1>7
<1>9. rest < Len(text) => At(text, rest) \notin is_digit
  BY <1>5, <1>6
<1>10. tk.f = <<Wrap(Decimal(text, p, point - p)),
                Wrap(Decimal(text, point + 1, rest - (point + 1))), rest - (point + 1)>>
  BY <1>2, <1>3, <1>5, <1>6
<1> QED BY <1>1, <1>8, <1>9, <1>10 DEF FloatRead, rest


-----------------------------------------------------------------------------
(* The order of the tokens with a fixed text                               *)

HeadOf(k) == simple_tokens[k][2][1]

(* The first characters of the entries, but for braces, comma and semicolon *)
Heads ==
    {".", "@", "m", "g", ":", "&", "!", "|", "t", "f", "v", "c", "s", "i",
     "e", "=", "<", ">", "+", "-", "*", "/", "r", "(", ")"}

(* None of them is a blank, and two entries that begin with the same one   *)
(* are one of a few pairs.                                                 *)
LEMMA HeadsApart ==
  /\ \A k \in 1 .. 34 : HeadOf(k) \notin Blank
  /\ \A k \in 1 .. 34 : \A j \in 1 .. k - 1 :
       HeadOf(j) # HeadOf(k)
         \/ <<j, k>> \in {<<10, 14>>, <<9, 17>>, <<18, 21>>, <<10, 26>>, <<14, 26>>, <<5, 33>>}
<1>1. HeadOf(1) = "."
  BY DEF HeadOf, simple_tokens
<1>2. HeadOf(2) = "@"
  BY DEF HeadOf, simple_tokens
<1>3. HeadOf(3) = "m"
  BY DEF HeadOf, simple_tokens
<1>4. HeadOf(4) = "g"
  BY DEF HeadOf, simple_tokens
<1>5. HeadOf(5) = ":"
  BY DEF HeadOf, simple_tokens
<1>6. HeadOf(6) = "&"
  BY DEF HeadOf, simple_tokens
<1>7. HeadOf(7) = "!"
  BY DEF HeadOf, simple_tokens
<1>8. HeadOf(8) = "|"
  BY DEF HeadOf, simple_tokens
<1>9. HeadOf(9) = "t"
  BY DEF HeadOf, simple_tokens
<1>10. HeadOf(10) = "f"
  BY DEF HeadOf, simple_tokens
<1>11. HeadOf(11) = "v"
  BY DEF HeadOf, simple_tokens
<1>12. HeadOf(12) = "c"
  BY DEF HeadOf, simple_tokens
<1>13. HeadOf(13) = "s"
  BY DEF HeadOf, simple_tokens
<1>14. HeadOf(14) = "f"
  BY DEF HeadOf, simple_tokens
<1>15. HeadOf(15) = "i"
  BY DEF HeadOf, simple_tokens
<1>16. HeadOf(16) = "e"
  BY DEF HeadOf, simple_tokens
<1>17. HeadOf(17) = "t"
  BY DEF HeadOf, simple_tokens
<1>18. HeadOf(18) = "="
  BY DEF HeadOf, simple_tokens
<1>19. HeadOf(19) = "<"
  BY DEF HeadOf, simple_tokens
<1>20. HeadOf(20) = ">"
  BY DEF HeadOf, simple_tokens
<1>21. HeadOf(21) = "="
  BY DEF HeadOf, simple_tokens
<1>22. HeadOf(22) = "+"
  BY DEF HeadOf, simple_tokens
<1>23. HeadOf(23) = "-"
  BY DEF HeadOf, simple_tokens
<1>24. HeadOf(24) = "*"
  BY DEF HeadOf, simple_tokens
<1>25. HeadOf(25) = "/"
  BY DEF HeadOf, simple_tokens
<1>26. HeadOf(26) = "f"
  BY DEF HeadOf, simple_tokens
<1>27. HeadOf(27) = "r"
  BY DEF HeadOf, simple_tokens
<1>28. HeadOf(28) = "{" /\ HeadOf(28) \notin Heads \cup Blank
  <2>1. HeadOf(28) = "{"
    BY DEF HeadOf, simple_tokens
  <2>2. "{" \notin Heads \cup Blank
    BY Zenon DEF Heads, Blank
  <2> QED BY <2>1, <2>2, Zenon
<1>29. HeadOf(29) = "}" /\ HeadOf(29) \notin Heads \cup Blank
  <2>1. HeadOf(29) = "}"
    BY DEF HeadOf, simple_tokens
  <2>2. "}" \notin Heads \cup Blank
    BY Zenon DEF Heads, Blank
  <2> QED BY <2>1, <2>2, Zenon
<1>30. HeadOf(30) = "("
  BY DEF HeadOf, simple_tokens
<1>31. HeadOf(31) = ")"
  BY DEF HeadOf, simple_tokens
<1>32. HeadOf(32) = "," /\ HeadOf(32) \notin Heads \cup Blank
  <2>1. HeadOf(32) = ","
    BY DEF HeadOf, simple_tokens
  <2>2. "," \notin Heads \cup Blank
    BY Zenon DEF Heads, Blank
  <2> QED BY <2>1, <2>2, Zenon
<1>33. HeadOf(33) = ":"
  BY DEF HeadOf, simple_tokens
<1>34. HeadOf(34) = ";" /\ HeadOf(34) \notin Heads \cup Blank
  <2>1. HeadOf(34) = ";"
    BY DEF HeadOf, simple_tokens
  <2>2. ";" \notin Heads \cup Blank
    BY Zenon DEF Heads, Blank
  <2> QED BY <2>1, <2>2, Zenon
<1>35. Heads \cap Blank = {}
  BY Zenon DEF Heads, Blank
<1>36. /\ HeadOf(28) # HeadOf(29)
       /\ HeadOf(28) # HeadOf(32)
       /\ HeadOf(28) # HeadOf(34)
       /\ HeadOf(29) # HeadOf(32)
       /\ HeadOf(29) # HeadOf(34)
       /\ HeadOf(32) # HeadOf(34)
  BY <1>28, <1>29, <1>32, <1>34, Zenon
<1>37. /\ HeadOf(28) \notin Heads \cup Blank
       /\ HeadOf(29) \notin Heads \cup Blank
       /\ HeadOf(32) \notin Heads \cup Blank
       /\ HeadOf(34) \notin Heads \cup Blank
  BY <1>28, <1>29, <1>32, <1>34, Zenon
<1>38. ASSUME NEW k \in 1 .. 34 PROVE k \in {28, 29, 32, 34} \/ HeadOf(k) \in Heads
  BY <1>1, <1>2, <1>3, <1>4, <1>5, <1>6, <1>7, <1>8, <1>9, <1>10, <1>11,
     <1>12, <1>13, <1>14, <1>15, <1>16, <1>17, <1>18, <1>19, <1>20, <1>21,
     <1>22, <1>23, <1>24, <1>25, <1>26, <1>27, <1>30, <1>31, <1>33 DEF Heads
<1>39. ASSUME NEW k \in 1 .. 34 PROVE HeadOf(k) \notin Blank
  BY <1>35, <1>37, <1>38
<1>40. ASSUME NEW k \in 1 .. 34, NEW j \in 1 .. k - 1
       PROVE  HeadOf(j) # HeadOf(k)
                \/ <<j, k>> \in {<<10, 14>>, <<9, 17>>, <<18, 21>>, <<10, 26>>, <<14, 26>>, <<5, 33>>}
  <2>1. CASE k \notin {28, 29, 32, 34} /\ j \notin {28, 29, 32, 34}
    BY <2>1, <1>1, <1>2, <1>3, <1>4, <1>5, <1>6, <1>7, <1>8, <1>9, <1>10, <1>11,
       <1>12, <1>13, <1>14, <1>15, <1>16, <1>17, <1>18, <1>19, <1>20,
       <1>21, <1>22, <1>23, <1>24, <1>25, <1>26, <1>27, <1>30, <1>31, <1>33
  <2>2. CASE k \in {28, 29, 32, 34} /\ j \notin {28, 29, 32, 34}
    BY <2>2, <1>37, <1>38
  <2>3. CASE k \notin {28, 29, 32, 34} /\ j \in {28, 29, 32, 34}
    BY <2>3, <1>37, <1>38
  <2>4. CASE k \in {28, 29, 32, 34} /\ j \in {28, 29, 32, 34}
    BY <2>4, <1>36
  <2> QED BY <2>1, <2>2, <2>3, <2>4
<1> QED BY <1>39, <1>40


(* The text begins with l. *)
Begins(l, text) == \A i \in DOMAIN l : i <= Len(text) /\ text[i] = l[i]

(* No entry is hidden by one that is tried before it. *)
LEMMA NoneBefore ==
  ASSUME NEW k \in 1 .. 34, NEW j \in 1 .. k - 1
  PROVE  ~Begins(simple_tokens[j][2], simple_tokens[k][2])
<1> SUFFICES ASSUME Begins(simple_tokens[j][2], simple_tokens[k][2]) PROVE FALSE
  OBVIOUS
<1>1. j \in 1 .. 34 /\ Fixed(simple_tokens[j])
  BY SimpleTokens
<1>2. 1 \in DOMAIN simple_tokens[j][2]
  BY <1>1 DEF Fixed
<1>3. HeadOf(j) = HeadOf(k)
  BY <1>2 DEF Begins, HeadOf
<1>4. <<j, k>> \in {<<9, 17>>, <<18, 21>>, <<10, 14>>, <<10, 26>>, <<14, 26>>, <<5, 33>>}
  BY <1>3, HeadsApart
<1>5. /\ Len(simple_tokens[j][2]) >= 2
      /\ Len(simple_tokens[k][2]) = 1 \/ simple_tokens[k][2][2] # simple_tokens[j][2][2]
  <2>1. Len(simple_tokens[9][2]) = 4 /\ simple_tokens[9][2][2] = "r"
    BY DEF simple_tokens
  <2>2. simple_tokens[17][2][2] = "y"
    BY DEF simple_tokens
  <2>3. Len(simple_tokens[10][2]) = 5 /\ simple_tokens[10][2][2] = "l"
    BY DEF simple_tokens
  <2>4. Len(simple_tokens[14][2]) = 3 /\ simple_tokens[14][2][2] = "o"
    BY DEF simple_tokens
  <2>5. simple_tokens[26][2][2] = "u"
    BY DEF simple_tokens
  <2>6. Len(simple_tokens[18][2]) = 2
    BY DEF simple_tokens
  <2>7. Len(simple_tokens[21][2]) = 1
    BY DEF simple_tokens
  <2>8. Len(simple_tokens[5][2]) = 2
    BY DEF simple_tokens
  <2>9. Len(simple_tokens[33][2]) = 1
    BY DEF simple_tokens
  <2>10. \/ j = 9 /\ k = 17
         \/ j = 18 /\ k = 21
         \/ j = 10 /\ k = 14
         \/ j = 10 /\ k = 26
         \/ j = 14 /\ k = 26
         \/ j = 5 /\ k = 33
    BY <1>4
  <2>11. CASE j = 9 /\ k = 17
    BY <2>11, <2>1, <2>2
  <2>12. CASE j = 18 /\ k = 21
    BY <2>12, <2>6, <2>7
  <2>13. CASE j = 10 /\ k = 14
    BY <2>13, <2>3, <2>4
  <2>14. CASE j = 10 /\ k = 26
    BY <2>14, <2>3, <2>5
  <2>15. CASE j = 14 /\ k = 26
    BY <2>15, <2>4, <2>5
  <2>16. CASE j = 5 /\ k = 33
    BY <2>16, <2>8, <2>9
  <2> QED BY <2>10, <2>11, <2>12, <2>13, <2>14, <2>15, <2>16
<1>6. 2 \in DOMAIN simple_tokens[j][2]
  BY <1>1, <1>5 DEF Fixed
<1> QED BY <1>5, <1>6 DEF Begins

LEMMA AloneIsRead ==
  ASSUME NEW k \in 1 .. 34, NEW text, text = simple_tokens[k][2]
  PROVE  FromChars(text, 0) = Plain(simple_tokens[k][1], Len(text))
<1>1. /\ Len(text) \in Nat /\ Len(text) >= 1 /\ DOMAIN text = 1 .. Len(text)
      /\ \A i \in 1 .. Len(text) : text[i] \notin EndsLine
  BY SimpleTokens DEF Fixed
<1>2. At(text, 0) = text[1] /\ text[1] \notin EndsLine /\ text[1] \notin Blank
  <2>1. text[1] = HeadOf(k)
    BY DEF HeadOf
  <2>2. text[1] \notin Blank
    BY <2>1, HeadsApart
  <2>3. At(text, 0) = text[1]
    BY DEF At
  <2> QED BY <2>2, <2>3, <1>1
<1>3. endl_from_chars(text, 0) = Null
  BY <1>2 DEF endl_from_chars, EndsLine
<1>4. Matches(text, 0) = {j \in 1 .. 34 : Begins(simple_tokens[j][2], text)}
  <2>1. ASSUME NEW j \in 1 .. 34
        PROVE  (\A i \in DOMAIN simple_tokens[j][2] :
                  0 + i <= Len(text) /\ text[0 + i] = simple_tokens[j][2][i])
                 <=> Begins(simple_tokens[j][2], text)
    <3>1. DOMAIN simple_tokens[j][2] = 1 .. Len(simple_tokens[j][2])
      BY SimpleTokens DEF Fixed
    <3>2. \A i \in DOMAIN simple_tokens[j][2] : 0 + i = i
      BY <3>1
    <3> QED BY <3>2 DEF Begins
  <2> QED BY <2>1, SimpleTokens DEF Matches
<1> DEFINE M == Matches(text, 0)
<1>5. k \in M
  <2>1. Begins(text, text)
    BY <1>1 DEF Begins
  <2> QED BY <2>1, <1>4
<1>6. \A j \in M : k <= j
  <2> TAKE j \in M
  <2>1. j \in 1 .. 34 /\ Begins(simple_tokens[j][2], text)
    BY <1>4
  <2>2. j \notin 1 .. k - 1
    BY <2>1, NoneBefore
  <2> QED BY <2>1, <2>2
<1>7. First(M) = k
  <2>1. M \subseteq Nat
    BY <1>4
  <2>2. First(M) \in M /\ \A j \in M : First(M) <= j
    <3> HIDE DEF M
    <3> QED BY <2>1, <1>5, FirstRight
  <2> HIDE DEF M
  <2>3. First(M) \in Nat /\ First(M) <= k /\ k <= First(M)
    BY <2>1, <2>2, <1>5, <1>6
  <2> QED BY <2>3
<1>8. Matches(text, 0) # {}
  BY <1>5
<1> QED BY <1>1, <1>2, <1>3, <1>7, <1>8 DEF FromChars

(* For every text, and wherever the parser goes in it: no keyword or       *)
(* operator is hidden by an earlier entry of TokenList, an integer has all *)
(* of its digits, is not the beginning of a float, and holds the value of  *)
(* its digits as far as an int can, however many digits overflow it; and   *)
(* so do both halves of a float.                                           *)
THEOREM TokensAreRead == Spec => []TokensRead
<1>1. IInv => TokensRead
  <2> SUFFICES ASSUME IInv PROVE TokensRead
    OBVIOUS
  <2> DEFINE text == src.chars
             p == state.pos
  <2>1. /\ src \in Sources /\ text \in Seq(STRING) /\ src.len = Len(text)
        /\ \A r \in 0 .. Len(text) : Lex(src, r) = FromChars(text, r)
    BY LexedSource DEF IInv, Shape
  <2>2. p \in 0 .. Len(text) /\ 0 \in 0 .. Len(text)
    BY <2>1 DEF IInv, Shape, Kept
  <2> HIDE DEF text, p
  <2>3. ASSUME NEW k \in DOMAIN simple_tokens, text = simple_tokens[k][2]
        PROVE  Lex(src, 0) = Plain(simple_tokens[k][1], src.len)
    <3>1. k \in 1 .. 34
      BY SimpleTokens
    <3>2. FromChars(text, 0) = Plain(simple_tokens[k][1], Len(text))
      BY <2>3, <3>1, AloneIsRead
    <3> QED BY <2>1, <2>2, <3>2
  <2>4. Lex(src, p).type = "Int" => IntRead(text, p, Lex(src, p))
    BY <2>1, <2>2, IntIsRead
  <2>5. Lex(src, p).type = "Float" => FloatRead(text, p, Lex(src, p))
    BY <2>1, <2>2, FloatIsRead
  <2> QED BY <2>3, <2>4, <2>5 DEF TokensRead, text, p
<1> QED BY <1>1, StreamInvariant, PTL
=============================================================================
