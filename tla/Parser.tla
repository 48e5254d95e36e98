------------------------------- MODULE Parser -------------------------------
(***************************************************************************)
(* The parser: the parse functions of the syntax tree's classes, over a    *)
(* sequence t of tokens and a place p in it.  The stream hands out the     *)
(* tokens one by one (TokenStream shows that it is a cursor); the last one *)
(* is Enf, or Null where the lexer finds no token.                         *)
(*                                                                         *)
(* A result's st is "ok" (with a node and the place behind it), "err",     *)
(* "fatal", "undef" (the type of a missing token was read) or "abort" (an  *)
(* assert failed); what happens after the last two is not modelled.  Every *)
(* function holds a StateGuard, so that a failed parse leaves the stream   *)
(* where it was: the caller goes on from its own p.  A node's span is its  *)
(* start and its end, as places.  The texts and locs of errors are left    *)
(* out; an optional child is a sequence of at most one.                    *)
(***************************************************************************)
EXTENDS Naturals, Sequences

CONSTANT Bound  \* the bounds of the loops: ret, block, params, returns, branches, fields

Ok(node, p) == [st |-> "ok", node |-> node, pos |-> p]
Err == [st |-> "err"]
Fatal == [st |-> "fatal"]
Undef == [st |-> "undef"]
Abort == [st |-> "abort"]

isErr(r) == r.st \in {"err", "fatal"}

(* Go on with F when r is a node, with s when it is an error. *)
Try(r, F(_), s) == IF r.st = "ok" THEN F(r) ELSE IF isErr(r) THEN s ELSE r

(* Go on with F when r is a node; an error is handed on. *)
Then(r, F(_)) == Try(r, F, r)

-----------------------------------------------------------------------------
(* The stream                                                              *)

(* The place after Next *)
After(t, p) == IF t[p].type = "Enf" THEN p ELSE p + 1

(* EXPECT_TOKEN and its kin: e is the error. *)
Expect(t, p, type, e) == IF t[p].type = type THEN Ok(t[p], After(t, p)) ELSE e

RECURSIVE Skip(_, _, _)
Skip(t, p, type) == IF t[p].type = type THEN Skip(t, After(t, p), type) ELSE p

(* Peek()->type(), without a look at whether there is a token *)
Deref(t, p, r) == IF t[p].type = "Null" THEN Undef ELSE r

(* Value::str: only strings and symbols have one. *)
str(tk) == IF tk.type \in {"Str", "Symbol"} THEN tk.str ELSE ""

-----------------------------------------------------------------------------
(* Expressions                                                             *)

RECURSIVE Expr_parse(_, _), Arguments(_, _, _), Operators(_, _, _, _, _)

(* Mutant of OpsNode: the node starts at its last operand. *)
MutOpsLate(exprs, ops, p, q) ==
    [etype |-> "OPS", exprs |-> exprs, ops |-> ops,
     span |-> <<exprs[Len(exprs)].span[1], q>>]

OpsNode(exprs, ops, p, q) ==
    [etype |-> "OPS", exprs |-> exprs, ops |-> ops, span |-> <<p, q>>]

parse_token(t, p) ==
    IF t[p].type \in {"Int", "Float", "Str", "True", "False", "Symbol"}
    THEN Ok([etype |-> "TOKEN", v |-> t[p], span |-> <<p, After(t, p)>>], After(t, p))
    ELSE Err

(* The arguments that follow args; a comma may stand behind the last one. *)
Arguments(t, p, args) ==
    Try(Expr_parse(t, p),
        LAMBDA e : IF t[e.pos].type = "Comma"
                   THEN Arguments(t, After(t, e.pos), Append(args, e.node))
                   ELSE Ok(Append(args, e.node), e.pos),
        Ok(args, p))

parse_funcall(t, p) ==
    Try(parse_token(t, p), LAMBDA f :
      Then(Expect(t, f.pos, "LParent", Err), LAMBDA l :
        Then(Arguments(t, l.pos, <<f.node>>), LAMBDA a :
          Then(Expect(t, a.pos, "RParent", Err), LAMBDA r :
            Ok([etype |-> "FUNCALL", exprs |-> a.node, span |-> <<p, r.pos>>], r.pos)))),
      Err)

(* A call, or a token with an optional minus before it *)
parse_atomic(t, p) ==
    Try(parse_funcall(t, p), LAMBDA f : f,
      Deref(t, p,
        LET sub_prefix == t[p].type = "Sub"
        IN  Try(parse_token(t, IF sub_prefix THEN After(t, p) ELSE p), LAMBDA e :
              IF sub_prefix THEN Ok(OpsNode(<<e.node>>, <<"Sub">>, p, e.pos), e.pos)
              ELSE e,
              Err)))

(* Mutant of OperatorsOf: sums bind more tightly than products. *)
MutOperatorsSwapped == [star |-> {"Plus", "Sub"}, plus |-> {"Star", "Slash"}]

OperatorsOf == [star |-> {"Star", "Slash"}, plus |-> {"Plus", "Sub"}]

(* parse_with_plus and parse_with_star: operands and operators, the ones   *)
(* read so far being exprs and ops; an operand alone is the expression.    *)
Operators(t, level, exprs, ops, q) ==
    LET Operand(p) == IF level = "star" THEN parse_atomic(t, p)
                      ELSE Operators(t, "star", <<>>, <<>>, p)
    IN  IF exprs = <<>>
        THEN Try(Operand(q),
                 LAMBDA e : Operators(t, level, <<e.node>>, <<>>, e.pos), Err)
        ELSE Deref(t, q,
               IF t[q].type \in OperatorsOf[level]
               THEN Try(Operand(After(t, q)), LAMBDA e :
                      Operators(t, level, Append(exprs, e.node),
                                Append(ops, t[q].type), e.pos),
                      Err)
               ELSE Ok(IF ops = <<>> THEN exprs[1]
                       ELSE OpsNode(exprs, ops, exprs[1].span[1], q), q))

parse_with_star(t, p) == Operators(t, "star", <<>>, <<>>, p)
parse_with_plus(t, p) == Operators(t, "plus", <<>>, <<>>, p)

(* At most one comparison *)
parse_with_greater(t, p) ==
    Try(parse_with_plus(t, p), LAMBDA d :
      Deref(t, d.pos,
        IF t[d.pos].type \in {"Greater", "Less", "Equal"}
        THEN Try(parse_with_plus(t, After(t, d.pos)), LAMBDA e :
               Ok(OpsNode(<<d.node, e.node>>, <<t[d.pos].type>>, p, e.pos), e.pos),
               Err)
        ELSE d),
      Err)

Expr_parse(t, p) == parse_with_greater(t, p)

-----------------------------------------------------------------------------
(* Types                                                                   *)

RECURSIVE Fields(_, _, _)

(* The fields that follow fs, a line each *)
Fields(t, p, fs) ==
    IF Len(fs) = Bound.fields THEN Abort
    ELSE Deref(t, p,
           IF t[p].type # "Symbol" THEN Ok(fs, p)
           ELSE Deref(t, p + 1,
                  Then(Expect(t, p + 1, "Symbol", Err), LAMBDA y :
                    Then(Expect(t, y.pos, "Enl", Err), LAMBDA n :
                      Fields(t, Skip(t, n.pos, "Enl"),
                             Append(fs, <<t[p].str, y.node.str>>))))))

Struct_parse(t, p) ==
    Then(Expect(t, p, "Struct", Err), LAMBDA s :
      Then(Expect(t, s.pos, "LBrace", Err), LAMBDA l :
        Then(Fields(t, Skip(t, l.pos, "Enl"), <<>>), LAMBDA f :
          Then(Expect(t, f.pos, "RBrace", Err), LAMBDA r :
            Ok([fields |-> f.node, span |-> <<p, r.pos>>], r.pos)))))

(* A struct, a name, or nothing at all: then finish is not called, and the *)
(* span is that of a default Loc.                                          *)
VarType_parse(t, p) ==
    Try(Struct_parse(t, p),
      LAMBDA s : Ok([stct |-> <<s.node>>, name |-> "", span |-> <<p, s.pos>>], s.pos),
      IF t[p].type = "Symbol"
      THEN Ok([stct |-> <<>>, name |-> t[p].str, span |-> <<p, p + 1>>], p + 1)
      ELSE Ok([stct |-> <<>>, name |-> "", span |-> <<1, 1>>], p))

(* VarType_parse does not fail, so neither does the check behind it. *)
Typedef_parse(t, p) ==
    Then(Expect(t, p, "Typedef", Err), LAMBDA k :
      Then(VarType_parse(t, k.pos), LAMBDA v :
        Deref(t, v.pos,
          Then(Expect(t, v.pos, "Symbol", Fatal), LAMBDA n :
            Ok([stype |-> "Typedef", new_name |-> n.node.str, old_type |-> v.node,
                span |-> <<p, n.pos>>], n.pos)))))

-----------------------------------------------------------------------------
(* Statements                                                              *)

RECURSIVE Block_parse(_, _), Statements(_, _, _, _), Branches(_, _, _, _),
          Results(_, _, _), Params(_, _, _), ReturnTypes(_, _, _)

(* A result as the optional child of a node *)
Optional(r, p) == Try(r, LAMBDA x : Ok(<<x.node>>, x.pos), Ok(<<>>, p))

Declaration_parse(t, p) ==
    Then(Expect(t, p, "Var", Err), LAMBDA k :
      Then(Expect(t, k.pos, "Symbol", Fatal), LAMBDA n :
        Then(VarType_parse(t, n.pos), LAMBDA y :
          Then(Expect(t, y.pos, "Assign", Err), LAMBDA a :
            Then(Expr_parse(t, a.pos), LAMBDA e :
              Ok([stype |-> "Declaration", var_name |-> n.node.str,
                  var_type |-> y.node, expr |-> e.node, span |-> <<p, e.pos>>],
                 e.pos))))))

Assignment_parse(t, p) ==
    Then(Expect(t, p, "Symbol", Err), LAMBDA n :
      Then(Expect(t, n.pos, "Assign", Err), LAMBDA a :
        Then(Expr_parse(t, a.pos), LAMBDA e :
          Ok([stype |-> "Assignment", var_name |-> n.node.str, expr |-> e.node,
              span |-> <<p, e.pos>>], e.pos))))

ExprNode(t, p) ==
    Then(Expr_parse(t, p), LAMBDA e :
      Ok([stype |-> "Expr", expr |-> e.node, span |-> <<p, e.pos>>], e.pos))

(* Mutant of Results: they may stand on the following lines. *)
MutResultsOverLines(t, p, es) ==
    IF Len(es) = Bound.ret THEN Abort
    ELSE Try(Expr_parse(t, Skip(t, p, "Enl")),
             LAMBDA e : Results(t, e.pos, Append(es, e.node)), Ok(es, p))

(* The expressions that follow es, with nothing between them *)
Results(t, p, es) ==
    IF Len(es) = Bound.ret THEN Abort
    ELSE Try(Expr_parse(t, p),
             LAMBDA e : Results(t, e.pos, Append(es, e.node)), Ok(es, p))

Return_parse(t, p) ==
    Then(Expect(t, p, "Return", Err), LAMBDA k :
      Then(Results(t, k.pos, <<>>), LAMBDA es :
        Ok([stype |-> "Return", ret_exprs |-> es.node, span |-> <<p, es.pos>>], es.pos)))

(* Braces and the block in them: what an if, a for and a function share *)
Braced(t, p) ==
    Then(Expect(t, p, "LBrace", Err), LAMBDA l :
      Then(Block_parse(t, Skip(t, l.pos, "Enl")), LAMBDA b :
        Then(Expect(t, b.pos, "RBrace", Err), LAMBDA r : Ok(b.node, r.pos))))

(* From the condition on: the branches bs are read, an if or an else if    *)
(* is passed.  p is where the node starts.                                 *)
Branches(t, p, q, bs) ==
    Try(Expr_parse(t, q), LAMBDA c :
      Then(Braced(t, c.pos), LAMBDA b :
        LET all == Append(bs, [cond |-> c.node, block |-> b.node])
            IfNode(tail, r) ==
              Ok([stype |-> "If", branches |-> all, tail_else |-> tail,
                  span |-> <<p, r>>], r)
            e == After(t, b.pos)
        IN  IF t[b.pos].type # "Else" THEN IfNode(<<>>, b.pos)
            ELSE IF Len(all) = Bound.branches THEN Abort
            ELSE IF t[e].type = "If" THEN Branches(t, p, After(t, e), all)
            ELSE Then(Braced(t, e), LAMBDA x : IfNode(<<x.node>>, x.pos))),
      Err)

If_parse(t, p) ==
    Then(Expect(t, p, "If", Err), LAMBDA k : Branches(t, p, k.pos, <<>>))

(* An error of one of the three parts, fatal or not, is the part missing. *)
For_parse(t, p) ==
    Then(Expect(t, p, "For", Err), LAMBDA k :
      Then(Optional(Declaration_parse(t, k.pos), k.pos), LAMBDA d :
        Then(Expect(t, d.pos, "Semicolon", Err), LAMBDA s1 :
          Then(Optional(Expr_parse(t, s1.pos), s1.pos), LAMBDA c :
            Then(Expect(t, c.pos, "Semicolon", Err), LAMBDA s2 :
              Then(Optional(Assignment_parse(t, s2.pos), s2.pos), LAMBDA a :
                Then(Braced(t, a.pos), LAMBDA b :
                  Ok([stype |-> "For", init_stmt |-> d.node, finish_cond |-> c.node,
                      step_stmp |-> a.node, block |-> b.node, span |-> <<p, b.pos>>],
                     b.pos))))))))

(* The parameters that follow ps; the comma between two is optional. *)
Params(t, p, ps) ==
    IF Len(ps) = Bound.params THEN Ok(ps, p)
    ELSE Deref(t, p,
           IF t[p].type # "Symbol" THEN Ok(ps, p)
           ELSE Then(Expect(t, p + 1, "Symbol", Fatal), LAMBDA y :
                  Params(t, IF t[y.pos].type = "Comma" THEN After(t, y.pos) ELSE y.pos,
                         Append(ps, <<t[p].str, y.node.str>>))))

ReturnTypes(t, p, rs) ==
    IF Len(rs) = Bound.returns THEN Abort
    ELSE IF t[p].type = "Symbol" THEN ReturnTypes(t, p + 1, Append(rs, t[p].str))
    ELSE Ok(rs, p)

(* Any token is passed as the name: the error made for one that is not a   *)
(* symbol is dropped.                                                      *)
Function_parse(t, p) ==
    Then(Expect(t, p, "Func", Err), LAMBDA k :
      Deref(t, k.pos,
        Then(Expect(t, After(t, k.pos), "LParent", Fatal), LAMBDA l :
          Then(Params(t, l.pos, <<>>), LAMBDA ps :
            Then(Expect(t, ps.pos, "RParent", Fatal), LAMBDA r :
              Then(ReturnTypes(t, r.pos, <<>>), LAMBDA rs :
                Then(Braced(t, rs.pos), LAMBDA b :
                  Ok([stype |-> "Function", func_name |-> str(t[k.pos]),
                      args |-> ps.node, returns |-> rs.node, block |-> b.node,
                      span |-> <<p, b.pos>>], b.pos))))))))

-----------------------------------------------------------------------------
(* Blocks                                                                  *)

OrElse(r, s) == IF r.st = "err" THEN s ELSE r

(* Mutant of Statement: an expression is tried before an assignment. *)
MutStatementExprFirst(t, p) ==
    OrElse(Declaration_parse(t, p), OrElse(ExprNode(t, p),
    OrElse(Assignment_parse(t, p), OrElse(If_parse(t, p),
    OrElse(Function_parse(t, p), OrElse(Return_parse(t, p),
    OrElse(For_parse(t, p), Typedef_parse(t, p))))))))

(* parse_funcs, in order, up to the first that does not just fail *)
Statement(t, p) ==
    OrElse(Declaration_parse(t, p), OrElse(Assignment_parse(t, p),
    OrElse(ExprNode(t, p), OrElse(If_parse(t, p),
    OrElse(Function_parse(t, p), OrElse(Return_parse(t, p),
    OrElse(For_parse(t, p), Typedef_parse(t, p))))))))

(* The statements that follow nodes, in a block that starts at p *)
Statements(t, p, q, nodes) ==
    LET next == Skip(t, q, "Enl")
        s == Statement(t, next)
    IN  IF Len(nodes) = Bound.block THEN Abort
        ELSE IF s.st = "ok" THEN Statements(t, p, s.pos, Append(nodes, s.node))
        ELSE IF s.st = "err" THEN Ok([nodes |-> nodes, span |-> <<p, next>>], next)
        ELSE s

Block_parse(t, p) == Statements(t, p, p, <<>>)

Root_parse(t, p) ==
    Then(Block_parse(t, p), LAMBDA b :
      Then(Expect(t, Skip(t, b.pos, "Enl"), "Enf", Err), LAMBDA e :
        Ok([block |-> b.node, span |-> <<p, e.pos>>], e.pos)))
=============================================================================
