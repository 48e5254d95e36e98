------------------------------ MODULE Compiler ------------------------------
(***************************************************************************)
(* Compiler: from a syntax tree of Parser to the instructions of ByteVM, a *)
(* function.  cp stands for the CompilingFunc and the Compiler around it:  *)
(* top is cur_stack_top, address and size are the two halves of            *)
(* var_address_map, code the instructions so far, errors counts errors_,   *)
(* label is cur_lable_.  An assert that fails, or a null pointer that is   *)
(* followed, is outside the model, and so are float literals: the types of *)
(* fields and of global variables are known ones.                          *)
(***************************************************************************)
EXTENDS Integers, Parser, SequencesExt

CONSTANT IntRange  \* how many values an int has: 2^32 in the code

ASSUME IntRangeAssumption == IntRange \in Nat \ {0}

(* The bits of an int, as a plain number *)
i32u64(i) == i % IntRange

(* Instructions; ty and unused arguments are filled in. *)
Num(n) == [seg |-> "zero", off |-> n]
Top(n) == [seg |-> "top", off |-> n]
LabelAt(n) == [seg |-> "label", off |-> n]

Ins(name, type, a, b, c) ==
    [op |-> name, ty |-> type, arg0 |-> a, arg1 |-> b, arg2 |-> c]

NewFunc(first_label) ==
    [top |-> 0, address |-> <<>>, size |-> <<>>, code |-> <<>>,
     errors |-> 0, label |-> first_label]

Emit(cp, i) == [cp EXCEPT !.code = Append(@, i)]

(* The nodes of one type *)
Nodes(root, type) == SelectSeq(root.block.nodes, LAMBDA n : n.stype = type)

Defined(cp, name) == name \in DOMAIN cp.address

-----------------------------------------------------------------------------
(* Types                                                                   *)

(* initBasicInfos: the sizes by name *)
BasicTypes == [bool |-> 1, int |-> 4, float32 |-> 4, string |-> 16]

Extended(f, k, v) == [x \in DOMAIN f \cup {k} |-> IF x = k THEN v ELSE f[x]]

(* compile_types: a struct has the size of its fields, every other type    *)
(* definition the size 0 that TypeInfo starts with.  The names are new     *)
(* ones; which of two types of one name findByName returns is unspecified. *)
compile_types(root) ==
    LET Add(table, t) ==
          Extended(table, t.new_name,
                   IF t.old_type.stct # <<>>
                   THEN FoldLeft(LAMBDA sum, f : sum + table[f[2]], 0,
                                 t.old_type.stct[1].fields)
                   ELSE 0)
    IN  FoldLeft(Add, BasicTypes, Nodes(root, "Typedef"))

-----------------------------------------------------------------------------
(* Expressions: their value is left at cur_stack_top.                      *)

RECURSIVE compile_expr(_, _)

(* Only an Int emits code (and a Float). *)
compile_expr_literature(cp, expr) ==
    IF expr.v.type = "Int"
    THEN Emit(cp, Ins("Set", "I32", Top(cp.top), Num(i32u64(expr.v.i)), Num(0)))
    ELSE cp

getExprSize == 4

ArithOp == [Plus |-> "Add", Sub |-> "Sub", Star |-> "Mul", Slash |-> "Div"]

(* Mutant of compile_expr_ops: the first operand's place is not reserved. *)
MutExprOpsOverlap(cp, expr) ==
    LET origin == cp.top
        first == compile_expr(cp, expr.exprs[1])
        Operand(c, i) ==
          LET d == compile_expr(c, expr.exprs[i + 1])
          IN  Emit(d, Ins(ArithOp[expr.ops[i]], "I32", Top(origin),
                          Top(d.top), Top(origin)))
    IN  IF expr.ops = <<"Sub">> /\ Len(expr.exprs) = 1
        THEN Emit(first, Ins("MulD", "I32", Top(origin), Num(i32u64(-1)), Top(origin)))
        ELSE FoldLeft(Operand, first, [i \in 1 .. Len(expr.ops) |-> i])

(* -x, or x1 op x2 op x3 ...: the accumulator stays at origin, each        *)
(* further operand is computed behind it.                                  *)
compile_expr_ops(cp, expr) ==
    LET origin == cp.top
        first == compile_expr(cp, expr.exprs[1])
        Operand(c, i) ==
          LET d == compile_expr(c, expr.exprs[i + 1])
          IN  IF expr.ops[i] \in DOMAIN ArithOp
              THEN Emit(d, Ins(ArithOp[expr.ops[i]], "I32", Top(origin),
                               Top(d.top), Top(origin)))
              ELSE d
        all == FoldLeft(Operand, [first EXCEPT !.top = @ + getExprSize],
                        [i \in 1 .. Len(expr.ops) |-> i])
    IN  IF expr.ops = <<"Sub">> /\ Len(expr.exprs) = 1
        THEN Emit(first, Ins("MulD", "I32", Top(origin), Num(i32u64(-1)), Top(origin)))
        ELSE [all EXCEPT !.top = origin]

(* Mutant of compile_call: the argument is not made an address. *)
MutCallRaw(cp, func_name) ==
    IF func_name = "print"
    THEN Emit(cp, Ins("Print", "I32", Num(0), Num(cp.top), Num(0)))
    ELSE cp

(* print is a built-in of the machine; other calls emit nothing. *)
compile_call(cp, func_name) ==
    IF func_name = "print"
    THEN Emit(cp, Ins("Print", "I32", Num(0), Top(cp.top), Num(0)))
    ELSE cp

(* All arguments are computed at the same place, one over the other. *)
compile_funcall(cp, expr) ==
    compile_call(FoldLeft(LAMBDA c, e : compile_expr(c, e), cp, Tail(expr.exprs)),
                 str(expr.exprs[1].v))

compile_expr(cp, expr) ==
    CASE expr.etype = "FUNCALL" -> compile_funcall(cp, expr)
      [] expr.etype = "OPS" -> compile_expr_ops(cp, expr)
      [] expr.etype = "TOKEN" -> compile_expr_literature(cp, expr)

-----------------------------------------------------------------------------
(* Statements                                                              *)

(* Mutant of compile_declaration: the stack top is not moved. *)
MutDeclarationNoTop(types, cp, decl) ==
    IF decl.var_type.name \notin DOMAIN types
    THEN [cp EXCEPT !.errors = @ + 1]
    ELSE IF Defined(cp, decl.var_name) THEN cp
    ELSE [cp EXCEPT !.address = Extended(@, decl.var_name, cp.top),
                    !.size = Extended(@, decl.var_name, types[decl.var_type.name])]

(* The initial value is not compiled.  emplace keeps an earlier variable   *)
(* of the name, but the stack grows all the same.                          *)
compile_declaration(types, cp, decl) ==
    IF decl.var_type.name \notin DOMAIN types
    THEN [cp EXCEPT !.errors = @ + 1]
    ELSE LET size == types[decl.var_type.name]
             grown == [cp EXCEPT !.top = @ + size]
         IN  IF Defined(cp, decl.var_name) THEN grown
             ELSE [grown EXCEPT !.address = Extended(@, decl.var_name, cp.top),
                                !.size = Extended(@, decl.var_name, size)]

addMoveInsts(cp, dst, from, length) ==
    [cp EXCEPT !.code = @ \o [i \in 1 .. length |->
        Ins("Move", "I8", Top(dst + i - 1), Top(from + i - 1), Num(0))]]

(* var_address_map[name] makes up a variable of size 0 at address 0 when   *)
(* there is none, so that the error branch behind it is never taken.       *)
compile_assignment(cp, asmt) ==
    LET known == IF Defined(cp, asmt.var_name) THEN cp
                 ELSE [cp EXCEPT !.address = Extended(@, asmt.var_name, 0),
                                 !.size = Extended(@, asmt.var_name, 0)]
    IN  addMoveInsts(compile_expr(known, asmt.expr),
                     known.address[asmt.var_name], known.top, known.size[asmt.var_name])

RECURSIVE compile_block(_, _, _)

(* The condition is not compiled: the jump compares address 0 with itself. *)
compile_if(types, cp, iff) ==
    LET jump == Ins("JumpEq", "I32", Num(0), Num(0), LabelAt(cp.label))
        start == Emit([cp EXCEPT !.label = @ + 1], jump)
        body == FoldLeft(LAMBDA c, b : compile_block(types, c, b.block), start,
                         iff.branches)
        all == FoldLeft(LAMBDA c, b : compile_block(types, c, b), body, iff.tail_else)
    IN  Emit(all, Ins("Label", "I8", LabelAt(cp.label), Num(0), Num(0)))

(* The body, once *)
compile_for(types, cp, forr) == compile_block(types, cp, forr.block)

compile_statement(types, cp, stmt) ==
    CASE stmt.stype = "Declaration" -> compile_declaration(types, cp, stmt)
      [] stmt.stype = "Assignment" -> compile_assignment(cp, stmt)
      [] stmt.stype = "If" -> compile_if(types, cp, stmt)
      [] stmt.stype = "Expr" -> compile_expr(cp, stmt.expr)
      [] stmt.stype = "For" -> compile_for(types, cp, stmt)
      [] OTHER -> cp

compile_block(types, cp, blk) ==
    FoldLeft(LAMBDA c, stmt : compile_statement(types, c, stmt), cp, blk.nodes)

(* compile_funcs: labels and errors are the Compiler's, the rest starts    *)
(* afresh for each function.                                               *)
compile_funcs(types, root) ==
    LET Func(done, f) ==
          Append(done, compile_block(types,
              IF done = <<>> THEN NewFunc(1)
              ELSE [NewFunc(Last(done).label) EXCEPT !.errors = Last(done).errors],
              f.block))
    IN  FoldLeft(Func, <<>>, Nodes(root, "Function"))

(* link: the functions' code, one behind the other *)
link(funcs) == FoldLeft(LAMBDA code, f : code \o f.code, <<>>, funcs)
=============================================================================
