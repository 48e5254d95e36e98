-------------------------- MODULE CompiledProgram --------------------------
(***************************************************************************)
(* Parser, compiler and machine together, as the Compiler test puts them:  *)
(* a source is parsed and compiled, its functions are linked, and Run      *)
(* executes the program from pc 0.  No function ends in a Return and none  *)
(* is called, so the machine runs through the functions in their order,    *)
(* all in the one frame at 0.                                              *)
(*                                                                         *)
(* A source has its tokens, toks, and what they are meant to say: blocks,  *)
(* the declarations (name, type), assignments (name, expr) and prints      *)
(* (expr) of each function, an expression being a number, or operators     *)
(* between operands.                                                       *)
(***************************************************************************)
EXTENDS ByteVM, Compiler

CONSTANT Sources

VARIABLES
    source,
    tree,    \* the root of the syntax tree
    funcs    \* func_table_, each with what its CompilingFunc knew at the end

(* Root::parse, Compiler::compile, then the constructor of ByteCodeVM *)
CompileInit ==
    /\ source \in Sources
    /\ tree = Root_parse(source.toks, 1).node
    /\ funcs = compile_funcs(compile_types(tree), tree)
    /\ program = link(funcs)
    /\ pc = 0
    /\ MachineInit

RunProgram == Next /\ UNCHANGED <<source, tree, funcs>>

allvars == <<vars, source, tree, funcs>>

CompiledSpec == CompileInit /\ [][RunProgram]_allvars /\ WF_allvars(RunProgram)

-----------------------------------------------------------------------------
(* Reference: what the source means                                        *)

RECURSIVE Eval(_)
Eval(expr) ==
    IF expr.etype = "Int" THEN expr.v
    ELSE IF Len(expr.exprs) = 1 THEN -Eval(expr.exprs[1])
    ELSE FoldLeft(LAMBDA acc, i :
                    Apply(ArithOp[expr.ops[i]], acc, Eval(expr.exprs[i + 1])),
                  Eval(expr.exprs[1]), [i \in 1 .. Len(expr.ops) |-> i])

(* An expression the way compile_expr_ops computes it, each operand before *)
(* what was accumulated so far; <<>> when a division traps.                *)
RECURSIVE Computed(_)
Computed(expr) ==
    LET Operand(acc, i) ==
          LET x == Computed(expr.exprs[i + 1])
              op == ArithOp[expr.ops[i]]
          IN  IF acc = <<>> \/ x = <<>> THEN <<>>
              ELSE IF Traps(op, "I32", x[1], acc[1]) THEN <<>>
              ELSE <<Apply(op, x[1], acc[1])>>
    IN  IF expr.etype = "Int" THEN <<expr.v>>
        ELSE IF Len(expr.exprs) = 1
        THEN LET x == Computed(expr.exprs[1]) IN IF x = <<>> THEN x ELSE <<-x[1]>>
        ELSE FoldLeft(Operand, Computed(expr.exprs[1]), [i \in 1 .. Len(expr.ops) |-> i])

RECURSIVE Divides(_)
Divides(expr) ==
    expr.etype = "OPS" /\ \/ \E i \in DOMAIN expr.ops : expr.ops[i] = "Slash"
                          \/ \E i \in DOMAIN expr.exprs : Divides(expr.exprs[i])

(* The places in a block where a variable gets a value *)
Assignments(blk, name) ==
    {i \in DOMAIN blk : blk[i].stype = "Assignment" /\ blk[i].name = name}

LastAssigned(blk, name) ==
    blk[CHOOSE i \in Assignments(blk, name) :
          \A j \in Assignments(blk, name) : j <= i].expr

(* The variables of a block that are declared with a basic integral type *)
Declared(blk) ==
    {i \in DOMAIN blk :
       blk[i].stype = "Declaration" /\ blk[i].type \in {"bool", "int"}}

-----------------------------------------------------------------------------
(* Properties                                                              *)

(* When the program has run, every variable of its last function holds the *)
(* value of the expression assigned to it last, cut to the variable's      *)
(* size: operands of nested expressions, the results of earlier            *)
(* assignments and what other functions left in the frame do not get in    *)
(* each other's way.  (Of a division no value is asked for: its operands   *)
(* are swapped the way those of a subtraction are, and 1 / 0 has none.)    *)
VariablesRight ==
    pc = Len(program) =>
      LET f == Last(funcs)
          blk == Last(source.blocks)
      IN  \A i \in Declared(blk) :
            LET name == blk[i].name
                size == BasicTypes[blk[i].type]
            IN  Assignments(blk, name) # {} /\ ~Divides(LastAssigned(blk, name)) =>
                  Load(f.address[name], size)
                    = Eval(LastAssigned(blk, name)) % Modulus(size)

(* The function whose code the machine is in *)
Running ==
    CHOOSE k \in DOMAIN funcs :
      /\ Len(link(SubSeq(funcs, 1, k - 1))) <= pc
      /\ pc < Len(link(SubSeq(funcs, 1, k)))

(* The machine has passed an assignment of the running function to name. *)
Assigned(f, name) ==
    \E k \in 1 .. pc - Len(link(SubSeq(funcs, 1, Running - 1))) :
      f.code[k].op = "Move" /\ f.code[k].arg0.off = f.address[name]

(* Whatever a function computes after an assignment goes behind the        *)
(* variable: once assigned, only the Moves of another assignment change    *)
(* it, although cur_stack_top rises and falls with every expression.       *)
AssignedKept ==
    [][LET f == funcs[Running]
       IN  ins.op # "Move" =>
             \A name \in DOMAIN f.address :
               Assigned(f, name) =>
                 \A c \in 0 .. f.size[name] - 1 :
                   stack'[f.address[name] + c] = stack[f.address[name] + c]
      ]_allvars

Said ==
    UNION {{source.blocks[k][i] : i \in DOMAIN source.blocks[k]} :
             k \in DOMAIN source.blocks}

NoIf == \A s \in Said : s.stype # "If"

DivisionTraps ==
    \E s \in Said : s.stype \in {"Assignment", "Expr"} /\ Computed(s.expr) = <<>>

(* A program without an if runs to its end if, and only if, it does not    *)
(* divide by zero in the order in which the compiler divides (0 / 5 traps  *)
(* and 5 / 0 does not): its instructions name no address of another        *)
(* segment and none that the machine lacks, and no division is lost or     *)
(* computed from another operand.                                          *)
RunsToEnd ==
    /\ (NoIf /\ ~DivisionTraps) ~> (pc = Len(program))
    /\ [](pc = Len(program) => ~DivisionTraps)
=============================================================================
