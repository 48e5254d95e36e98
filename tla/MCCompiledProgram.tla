------------------------- MODULE MCCompiledProgram -------------------------
(* Sources for the compiler: all expressions of the grammar of             *)
(* parse_with_plus, parse_with_star and parse_atomic up to two operands,   *)
(* over the literals Literals and the operators PlusOps and StarOps, and   *)
(* divisions.                                                              *)
EXTENDS CompiledProgram

CONSTANTS Literals, PlusOps, StarOps

MCWidth == [I8 |-> 1, I32 |-> 4, I64 |-> 8]

Lit(n) == [etype |-> "Int", v |-> n]
Ops1(e) == [etype |-> "OPS", ops |-> <<"Sub">>, exprs |-> <<e>>]
Ops2(o, d, e) == [etype |-> "OPS", ops |-> <<o>>, exprs |-> <<d, e>>]

Atoms == {Lit(n) : n \in Literals} \cup {Ops1(Lit(n)) : n \in Literals}
Stars == Atoms \cup {Ops2(o, d, e) : o \in StarOps, d, e \in Atoms}
Pluses == Stars \cup {Ops2(o, d, e) : o \in PlusOps, d, e \in Stars}
Threes == {[etype |-> "OPS", ops |-> <<o, p>>, exprs |-> <<Lit(2), d, Lit(3)>>] :
             o, p \in PlusOps, d \in Stars}

(* divisions, of and by 0 too, alone, in a sum and in chains *)
Quotients == {Ops2("Slash", d, e) : d, e \in {Lit(0)} \cup Atoms}
Chains == {[etype |-> "OPS", ops |-> <<o, p>>, exprs |-> <<Lit(l), Lit(m), Lit(n)>>] :
             o, p \in {"Star", "Slash"}, l, m, n \in {0} \cup Literals}
Divisions == Quotients \cup Chains \cup {Ops2("Plus", Lit(5), q) : q \in Quotients}
               \cup {Ops2("Plus", q, Lit(5)) : q \in Quotients}

-----------------------------------------------------------------------------
(* What a source says, and its tokens                                      *)

Word(type) == <<[type |-> type]>>
Name(x) == <<[type |-> "Symbol", str |-> x]>>

RECURSIVE ExprToks(_)
ExprToks(e) ==
    IF e.etype = "Int" THEN <<[type |-> "Int", i |-> e.v]>>
    ELSE IF Len(e.exprs) = 1 THEN Word("Sub") \o ExprToks(e.exprs[1])
    ELSE ExprToks(e.exprs[1]) \o
         FlattenSeq([k \in DOMAIN e.ops |-> Word(e.ops[k]) \o ExprToks(e.exprs[k + 1])])

Braces(toks) == Word("LBrace") \o Word("Enl") \o toks \o Word("RBrace")

Stmt(s, toks) == [says |-> s, toks |-> toks \o Word("Enl")]

Var(x, t) ==
    Stmt([stype |-> "Declaration", name |-> x, type |-> t],
         Word("Var") \o Name(x) \o Name(t) \o Word("Assign") \o ExprToks(Lit(0)))
Asg(x, e) ==
    Stmt([stype |-> "Assignment", name |-> x, expr |-> e],
         Name(x) \o Word("Assign") \o ExprToks(e))
Show(e, x) ==
    Stmt([stype |-> "Expr", expr |-> e], Name("print") \o Word("LParent") \o ExprToks(e)
                               \o Word("Comma") \o Name(x) \o Word("RParent"))
ForOnce(s) ==
    Stmt([stype |-> "For"], Word("For") \o Word("Semicolon") \o Word("Semicolon")
                              \o Braces(s.toks))
IfElse(s, r) ==
    Stmt([stype |-> "If"], Word("If") \o Word("True") \o Braces(s.toks)
                             \o Word("Else") \o Braces(r.toks))

Typedefs ==
    Word("Typedef") \o Name("int") \o Name("myint") \o Word("Enl")
      \o Word("Typedef") \o Word("Struct")
      \o Braces(Name("name") \o Name("string") \o Word("Enl")
                  \o Name("aget") \o Name("int") \o Word("Enl")
                  \o Name("weight") \o Name("float32") \o Word("Enl"))
      \o Name("Student") \o Word("Enl")

(* main and, where there is one, add *)
Source(typedefs, bodies) ==
    [blocks |-> [k \in DOMAIN bodies |-> [i \in DOMAIN bodies[k] |-> bodies[k][i].says]],
     toks |-> typedefs
       \o FlattenSeq([k \in DOMAIN bodies |->
            Word("Func") \o Name(<<"main", "add">>[k]) \o Word("LParent") \o Word("RParent")
              \o Braces(FlattenSeq([i \in DOMAIN bodies[k] |-> bodies[k][i].toks]))
              \o Word("Enl")])
       \o Word("Enf")]

-----------------------------------------------------------------------------
(* two variables, the second between two others; an undeclared one *)
Body(e) == <<Var("a", "int"), Asg("a", e), Show(e, "a"),
             Var("b", "bool"), Var("c", "int"),
             Asg("u", Lit(3)), Asg("b", Ops2("Plus", Lit(2), Lit(3))),
             Asg("c", Ops2("Plus", Lit(1), Ops2("Star", Lit(2), Lit(3))))>>

(* a struct, an alias, an unknown type and a second declaration *)
Typed == <<Var("s", "Student"), Var("m", "myint"), Var("a", "int"),
           Var("x", "nosuch"), Var("a", "int"), Asg("x", Lit(1)),
           Asg("m", Lit(2)), Asg("a", Lit(3)), ForOnce(Asg("x", Lit(2)))>>

IfBody == <<Var("a", "int"), IfElse(Asg("a", Lit(1)), Asg("a", Lit(2)))>>

MCSources ==
    {Source(<<>>, <<Body(e)>>) : e \in Pluses \cup Threes \cup Divisions}
      \cup {Source(Typedefs, <<Body(Lit(1)), Typed>>), Source(<<>>, <<IfBody>>)}

SubSources == {Source(<<>>, <<<<Var("a", "int"), Asg("a", e)>>>>) : e \in Pluses}

(* the parser's bounds *)
MCBound == [ret |-> 100, block |-> 100000, params |-> 1000, returns |-> 99,
            branches |-> 1000, fields |-> 10000]
=============================================================================
