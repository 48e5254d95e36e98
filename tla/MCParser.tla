------------------------------ MODULE MCParser ------------------------------
(***************************************************************************)
(* The parser on all short token sequences, on expressions, on programs in *)
(* the manner of the repository's tests with any one token left out, put   *)
(* in or replaced, and on the sentences of a grammar.                      *)
(***************************************************************************)
EXTENDS Parser, TLC, SequencesExt, FiniteSetsExt

CONSTANTS
    MaxWords,  \* bound: the length of the sequences that are all there
    MaxExpr    \* bound: the length of the expressions that are all there

MCBound == [ret |-> 3, block |-> 8, params |-> 3, returns |-> 3,
          branches |-> 3, fields |-> 3]

Tk(type) == [type |-> type]

Keywords ==
    [var |-> "Var", struct |-> "Struct", for |-> "For", if |-> "If",
     else |-> "Else", type |-> "Typedef", func |-> "Func", return |-> "Return"]
      @@ ("=" :> "Assign") @@ ("==" :> "Equal") @@ (">" :> "Greater")
      @@ ("+" :> "Plus") @@ ("-" :> "Sub") @@ ("*" :> "Star") @@ ("/" :> "Slash")
      @@ ("{" :> "LBrace") @@ ("}" :> "RBrace") @@ ("(" :> "LParent")
      @@ (")" :> "RParent") @@ ("," :> "Comma") @@ (";" :> "Semicolon")
      @@ ("\n" :> "Enl")

(* A word of a source as a token *)
Lexed(w) ==
    IF w \in DOMAIN Keywords THEN Tk(Keywords[w])
    ELSE IF w = "1" THEN [type |-> "Int", i |-> 1]
    ELSE IF w = "2.5" THEN [type |-> "Float", f |-> <<2, 5, 1>>]
    ELSE [type |-> "Symbol", str |-> w]

Toks(words, end) == [k \in DOMAIN words |-> Lexed(words[k])] \o <<Tk(end)>>

Words == DOMAIN Keywords \cup {"1", "a"}

Upto(S, n) == UNION {[1 .. k -> S] : k \in 0 .. n}

Programs ==
    { <<"func", "f", "(", "a", "int", ",", "b", "int", ")", "int", "{", "\n",
        "if", "a", ">", "1", "{", "return", "}",
        "else", "if", "b", "{", "print", "(", "a", ",", "b", ")", "}",
        "else", "{", "a", "=", "-", "1", "}", "\n", "return", "a", "b", "\n", "}">>,
      <<"for", "var", "i", "=", "1", ";", "i", "==", "1", ";", "i", "=", "i", "+", "1",
        "{", "f", "(", "i", "*", "2.5", ",", "1", ")", "}", "\n", "return">>,
      <<"type", "struct", "{", "\n", "a", "int", "\n", "b", "int", "\n", "}", "S",
        "\n", "type", "int", "my", "\n", "var", "s", "S", "=", "1">> }

(* One word left out, put in or replaced *)
Edited(P) ==
    {RemoveAt(P, k) : k \in DOMAIN P}
      \cup {InsertAt(P, k, w) : k \in DOMAIN P, w \in Words}
      \cup {ReplaceAt(P, k, w) : k \in DOMAIN P, w \in Words}

ExprWords == {"1", "a", "+", "-", "*", ">", "("}

-----------------------------------------------------------------------------
(* Reference: a grammar, by its sentences.  A sentence has its words and   *)
(* its shape: the kinds of its statements, and of those in its blocks.     *)

Says(kind, words) == [words |-> words, shape |-> <<kind>>]

(* A statement with blocks *)
Around(kind, words, blocks) ==
    [words |-> words, shape |-> <<kind>> \o [k \in DOMAIN blocks |-> blocks[k].shape]]

Exprs == { <<"1">>, <<"-", "a">>, <<"a", "+", "1", "*", "b">>, <<"a", ">", "1">>,
           <<"f", "(", ")">>, <<"f", "(", "a", ",", "g", "(", "1", ")", ")">> }

Fieldless == <<"struct", "{", "}">>
TwoFields == <<"struct", "{", "\n", "a", "int", "\n", "\n", "b", "int", "\n", "}">>

Declarations ==
    {Says("Declaration", <<"var", "x">> \o y \o <<"=">> \o e) :
       y \in {<<>>, <<"int">>, TwoFields}, e \in Exprs}
Assignments == {Says("Assignment", <<"x", "=">> \o e) : e \in Exprs}
Returns ==
    {Says("Return", <<"return">> \o d \o e) :
       d \in {<<>>} \cup Exprs, e \in {<<>>, <<"a">>, <<"f", "(", "1", ")">>}}
Typedefs ==
    {Says("Typedef", <<"type">> \o y \o <<"T">>) :
       y \in {<<"int">>, Fieldless, TwoFields}}

Simple ==
    Declarations \cup Assignments \cup {Says("Expr", e) : e \in Exprs}
      \cup Returns \cup Typedefs

(* Statements in a block, a line each *)
Lines(stmts) ==
    [words |-> FlattenSeq([k \in DOMAIN stmts |-> <<"\n">> \o stmts[k].words]) \o <<"\n">>,
     shape |-> [k \in DOMAIN stmts |-> stmts[k].shape]]

Few == { Lines(<<>>),
         Lines(<<Says("Assignment", <<"x", "=", "f", "(", "a", ")">>),
                 Says("Return", <<"return">>)>>),
         Lines(<<Says("Expr", <<"a">>), Says("Declaration", <<"var", "x", "=", "1">>)>>),
         [words |-> <<"return", "-", "1">>, shape |-> <<<<"Return">>>>] }

Block(b) == <<"{">> \o b.words \o <<"}">>

Ifs ==
    {Around("If", <<"if">> \o c \o Block(b), <<b>>) : c \in Exprs, b \in Few}
      \cup {Around("If", <<"if", "a">> \o Block(b) \o <<"else">> \o Block(d), <<b, d>>) :
               b, d \in Few}
      \cup {Around("If", <<"if", "a">> \o Block(b) \o <<"else", "if">> \o c \o Block(d)
                           \o <<"else">> \o Block(e), <<b, d, e>>) :
               c \in Exprs, b, d, e \in Few}

Fors ==
    {Around("For", <<"for">> \o i \o <<";">> \o c \o <<";">> \o n \o Block(b), <<b>>) :
       i \in {<<>>, <<"var", "i", "=", "1">>, <<"var", "i", "int", "=", "f", "(", "1", ")">>},
       c \in {<<>>} \cup Exprs, n \in {<<>>, <<"i", "=", "i", "+", "1">>}, b \in Few}

Functions ==
    {Around("Function", <<"func", "f", "(">> \o ps \o <<")">> \o rs \o Block(b), <<b>>) :
       ps \in {<<>>, <<"a", "int">>, <<"a", "int", ",", "b", "int">>},
       rs \in {<<>>, <<"int">>, <<"int", "int">>}, b \in Few}

Flat == Ifs \cup Fors \cup Functions
Nested ==
    LET Bs == {Lines(<<s, Says("Return", <<"return">>)>>) : s \in Flat}
    IN  {Around("Function", <<"func", "f", "(", ")">> \o Block(b), <<b>>) : b \in Bs}
          \cup {Around("If", <<"if", "a">> \o Block(b), <<b>>) : b \in Bs}

(* One statement, or one and another one on the next line *)
Sentences ==
    {Lines(<<s>>) : s \in Simple \cup Flat \cup Nested}
      \cup {Lines(<<s, r>>) : s \in Simple \cup Ifs \cup Fors,
              r \in {Says("Expr", <<"-", "a">>), Says("Assignment", <<"x", "=", "1">>),
                     Says("Return", <<"return", "a">>)}}

-----------------------------------------------------------------------------
Sources ==
    {Toks(ws, e) : ws \in Upto(Words, MaxWords - 1), e \in {"Enf", "Null"}}
      \cup {Toks(ws, "Enf") : ws \in [1 .. MaxWords -> Words] \cup Upto(ExprWords, MaxExpr)}
      \cup {Toks(ws, "Enf") : ws \in UNION {Edited(P) : P \in Programs}}
      \cup UNION {{Toks(SubSeq(P, 1, k), "Null") : k \in DOMAIN P} : P \in Programs}

VARIABLES
    toks,
    meant,  \* the shape of a sentence, if the source is one of the grammar
    res

Init ==
    /\ \/ toks \in Sources /\ meant = <<>>
       \/ \E g \in Sentences : toks = Toks(g.words, "Enf") /\ meant = <<g.shape>>
    /\ res = [st |-> "none"]

Parse ==
    /\ res.st = "none"
    /\ res' = Root_parse(toks, 1)
    /\ UNCHANGED <<toks, meant>>

Spec == Init /\ [][Parse]_<<toks, meant, res>>

-----------------------------------------------------------------------------
(* Reference: how a node is written                                        *)

RECURSIVE Text(_)

Texts(nodes) == FlattenSeq([k \in DOMAIN nodes |-> Text(nodes[k])])
Name(x) == IF x = "" THEN <<>> ELSE <<[type |-> "Symbol", str |-> x]>>
Pairs(ps) == FlattenSeq([k \in DOMAIN ps |-> Name(ps[k][1]) \o Name(ps[k][2])])
InBraces(ts) == <<Tk("LBrace")>> \o ts \o <<Tk("RBrace")>>
InParents(ts) == <<Tk("LParent")>> \o ts \o <<Tk("RParent")>>

ExprText(n) ==
    CASE n.etype = "TOKEN" -> <<n.v>>
      [] n.etype = "FUNCALL" -> Text(n.exprs[1]) \o InParents(Texts(Tail(n.exprs)))
      [] n.etype = "OPS" ->
           IF Len(n.exprs) = 1 THEN <<Tk(n.ops[1])>> \o Text(n.exprs[1])
           ELSE Text(n.exprs[1]) \o
                FlattenSeq([k \in DOMAIN n.ops |->
                              <<Tk(n.ops[k])>> \o Text(n.exprs[k + 1])])

StatementText(n) ==
    CASE n.stype = "Declaration" ->
           <<Tk("Var")>> \o Name(n.var_name) \o Text(n.var_type)
             \o <<Tk("Assign")>> \o Text(n.expr)
      [] n.stype = "Assignment" -> Name(n.var_name) \o <<Tk("Assign")>> \o Text(n.expr)
      [] n.stype = "Expr" -> Text(n.expr)
      [] n.stype = "Return" -> <<Tk("Return")>> \o Texts(n.ret_exprs)
      [] n.stype = "Typedef" -> <<Tk("Typedef")>> \o Text(n.old_type) \o Name(n.new_name)
      [] n.stype = "Function" ->
           <<Tk("Func")>> \o Name(n.func_name) \o InParents(Pairs(n.args))
             \o FlattenSeq([k \in DOMAIN n.returns |-> Name(n.returns[k])])
             \o InBraces(Text(n.block))
      [] n.stype = "For" ->
           <<Tk("For")>> \o Texts(n.init_stmt) \o <<Tk("Semicolon")>>
             \o Texts(n.finish_cond) \o <<Tk("Semicolon")>>
             \o Texts(n.step_stmp) \o InBraces(Text(n.block))
      [] n.stype = "If" ->
           FlattenSeq([k \in DOMAIN n.branches |->
              (IF k = 1 THEN <<>> ELSE <<Tk("Else")>>) \o <<Tk("If")>>
                \o Text(n.branches[k].cond) \o InBraces(Text(n.branches[k].block))])
             \o (IF n.tail_else = <<>> THEN <<>>
                 ELSE <<Tk("Else")>> \o InBraces(Texts(n.tail_else)))

Text(n) ==
    CASE "etype" \in DOMAIN n -> ExprText(n)
      [] "stype" \in DOMAIN n -> StatementText(n)
      [] "nodes" \in DOMAIN n -> Texts(n.nodes)
      [] "fields" \in DOMAIN n -> <<Tk("Struct")>> \o InBraces(Pairs(n.fields))
      [] "stct" \in DOMAIN n -> Texts(n.stct) \o Name(n.name)
      [] OTHER -> Text(n.block)

(* The nodes below a node *)
Children(n) ==
    UNION {IF f \in {"block", "expr", "var_type", "old_type"} THEN {n[f]}
           ELSE IF f \in {"exprs", "nodes", "ret_exprs", "init_stmt", "finish_cond",
                          "step_stmp", "tail_else", "stct"} THEN Range(n[f])
           ELSE IF f = "branches"
                THEN UNION {{b.cond, b.block} : b \in Range(n.branches)}
           ELSE {} : f \in DOMAIN n}

RECURSIVE Below(_)
Below(n) == {n} \cup UNION {Below(c) : c \in Children(n)}

(* Commas and the ends of lines leave no trace in the tree. *)
Written(ts) == SelectSeq(ts, LAMBDA tk : tk.type \notin {"Comma", "Enl"})

(* Functions whose name is a name *)
Named == \A k \in 1 .. Len(toks) - 1 :
           toks[k].type = "Func" => toks[k + 1].type = "Symbol"

-----------------------------------------------------------------------------
(* Properties                                                              *)

(* Nothing of an accepted source is lost, read twice or attributed to      *)
(* another place, whatever was tried before and taken back: the tree spans *)
(* the source, and every node, written out again, is the text between its  *)
(* own start and end, those whose guards began before it was known what    *)
(* they are too.  (A function whose name is not a name loses it:           *)
(* ast.cpp:422.)                                                           *)
NothingLost ==
    res.st = "ok" /\ Named =>
        /\ Written(Text(res.node)) = Written(Front(toks))
        /\ \A n \in Below(res.node) :
             Written(SubSeq(toks, n.span[1], n.span[2] - 1)) = Written(Text(n))

(* The shape of a block and of a statement of the tree *)
RECURSIVE Shape(_)
Shape(n) ==
    LET blocks ==
          IF n.stype = "If" THEN [k \in DOMAIN n.branches |-> n.branches[k].block] \o n.tail_else
          ELSE IF n.stype \in {"For", "Function"} THEN <<n.block>> ELSE <<>>
    IN  <<n.stype>> \o [k \in DOMAIN blocks |->
                          [j \in DOMAIN blocks[k].nodes |-> Shape(blocks[k].nodes[j])]]

(* Every sentence of the grammar is accepted, and as the statements it is  *)
(* made of: no kind of statement that is tried earlier, and can read the   *)
(* beginning of another kind, and no optional part, whether it is there or *)
(* missing, keeps the parser from the reading that fits.                   *)
GrammarAccepted ==
    res.st # "none" /\ meant # <<>> =>
        /\ res.st = "ok"
        /\ meant = <<[k \in DOMAIN res.node.block.nodes |-> Shape(res.node.block.nodes[k])]>>

(* A line is read the same whatever is on the next one: a source that is   *)
(* accepted keeps its statements when a line follows it.                   *)
LinesIndependent ==
    res.st = "ok" /\ Len(res.node.block.nodes) < Bound.block - 1 =>
        \A line \in {<<"a", "=", "1">>, <<"-", "a">>, <<"(", "a", ")">>, <<"a">>} :
            LET both == Root_parse(Front(toks) \o <<Lexed("\n")>> \o Toks(line, "Enf"), 1)
            IN  IF Head(line) = "(" THEN both.st = "err"
                ELSE /\ both.st = "ok"
                     /\ Front(both.node.block.nodes) = res.node.block.nodes
                     /\ Text(Last(both.node.block.nodes)) = Front(Toks(line, "Enf"))

-----------------------------------------------------------------------------
(* Reference: expressions by precedence                                    *)

Levels == << {"Greater", "Equal"}, {"Plus", "Sub"}, {"Star", "Slash"} >>
Operator(tk) == \E l \in DOMAIN Levels : tk.type \in Levels[l]

(* The places of the operators with two operands *)
Binary(ts) ==
    {k \in 2 .. Len(ts) : Operator(ts[k]) /\ ~Operator(ts[k - 1])}

(* An expression splits at the last operator of the lowest level. *)
RECURSIVE Meaning(_)
Meaning(ts) ==
    LET at == {k \in Binary(ts) :
                 \A j \in Binary(ts) : \A l \in DOMAIN Levels :
                   ts[j].type \in Levels[l] =>
                     \E m \in 1 .. l : ts[k].type \in Levels[m]}
    IN  IF at # {}
        THEN <<ts[Max(at)].type, Meaning(SubSeq(ts, 1, Max(at) - 1)),
               Meaning(SubSeq(ts, Max(at) + 1, Len(ts)))>>
        ELSE IF Len(ts) = 2 THEN <<"Neg", Meaning(Tail(ts))>>
        ELSE <<ts[1].type>>

(* The same of a tree, its chains being read from the left *)
RECURSIVE TreeMeaning(_)
TreeMeaning(n) ==
    IF n.etype = "TOKEN" THEN <<n.v.type>>
    ELSE IF Len(n.exprs) = 1 THEN <<"Neg", TreeMeaning(n.exprs[1])>>
    ELSE FoldLeft(LAMBDA acc, k : <<n.ops[k], acc, TreeMeaning(n.exprs[k + 1])>>,
                  TreeMeaning(n.exprs[1]), [k \in DOMAIN n.ops |-> k])

(* An expression of literals and operators is the tree that the            *)
(* precedence of its operators, from left to right, makes of it.           *)
PrecedenceRight ==
    res.st = "ok" =>
      LET nodes == res.node.block.nodes
          ts == Front(toks)
      IN  /\ Len(nodes) = 1
          /\ \A k \in DOMAIN ts : Operator(ts[k]) \/ ts[k].type \in {"Int", "Symbol"}
          => TreeMeaning(nodes[1].expr) = Meaning(ts)
=============================================================================
