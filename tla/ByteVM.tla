------------------------------- MODULE ByteVM -------------------------------
(***************************************************************************)
(* ByteCodeVM: the byte-code machine that runs what the compiler emits.    *)
(* One step is one iteration of the loop in ByteCodeVM::Run.               *)
(*                                                                         *)
(* An instruction is a record [op, ty, arg0, arg1, arg2]; AddI32 is op     *)
(* "Add" of ty "I32".  An argument is a 64-bit Address, the record         *)
(* [seg, off] of its type byte and its offset; a plain number has the type *)
(* byte 0, seg "zero".                                                     *)
(* The stack is an array of bytes in which the types I8, I32 and I64 take  *)
(* Width[ty] bytes, lowest byte first, so that accesses of different types *)
(* overlap as they do in memory.  Signed overflow wraps around, as it does *)
(* in the debug build.  The float types are not modelled, and programs are *)
(* small enough for the 64-bit stack_top + offset not to wrap.             *)
(*                                                                         *)
(* status is "running", "finished" (a Return of the outermost frame) or    *)
(* "fault": an assert failed, a division trapped, or stack_ was indexed    *)
(* outside its MAX_STACK bytes, which the code does not check.             *)
(***************************************************************************)
EXTENDS Integers, Sequences

CONSTANTS
    Programs,   \* the programs the machine is started on
    StartPcs,   \* arguments of setPc before Run
    ByteRange,  \* values of a byte
    Width,      \* Width[ty]: sizeof the C type of ty
    MaxStack,   \* MAX_STACK
    MaxDepth    \* bound: length of call_stack_

Types == {"I8", "I32", "I64"}
Ops == {"Move", "Set", "SetStackBottom", "SavePC", "Call", "Print",
        "Return", "Label", "Unknown", "ToI32",
        "Add", "Sub", "Mul", "Div", "AddD", "SubD", "MulD", "DivD",
        "JumpGt", "JumpEq", "JumpGtEq"}
Address == [seg : {"zero", "top", "tail", "label"}, off : Nat]
Instruction ==
    [op : Ops, ty : Types, arg0 : Address, arg1 : Address, arg2 : Address]

ASSUME VMAssumption ==
    /\ \A p \in Programs : p \in Seq(Instruction)
    /\ StartPcs \subseteq Nat
    /\ ByteRange \in Nat /\ ByteRange > 1
    /\ Width \in [Types -> Nat \ {0}]
    /\ MaxStack \in Nat /\ MaxDepth \in Nat

VARIABLES
    program,       \* program_->instructions
    pc,            \* pc_
    stack_top,     \* stack_top_: where the running function's frame starts
    stack_bottom,  \* stack_bottom_: where the next frame will start
    call_stack,    \* call_stack_: CallPoints, the innermost last
    stack,         \* stack_: the bytes
    status

vars == <<program, pc, stack_top, stack_bottom, call_stack, stack, status>>

frame == <<stack_top, stack_bottom, call_stack>>

Bytes == 0 .. ByteRange - 1
Cells == 0 .. MaxStack - 1

CallPoint == [pc : Nat, stack_top : Nat, stack_bottom : Nat,
              ret_res_addr : Address]

FrameTypeOK ==
    /\ program \in Programs
    /\ stack_top \in Nat /\ stack_bottom \in Nat
    /\ call_stack \in Seq(CallPoint)

TypeOK ==
    /\ FrameTypeOK
    /\ pc \in Nat
    /\ stack \in [Cells -> Bytes]
    /\ status \in {"running", "finished", "fault"}

(* ByteCodeVM::Init and the members' initial values *)
MachineInit ==
    /\ stack_top = 0 /\ stack_bottom = 0
    /\ call_stack = <<>>
    /\ stack = [k \in Cells |-> 0]
    /\ status = "running"

(* The constructor, setPc *)
Init == program \in Programs /\ pc \in StartPcs /\ MachineInit

-----------------------------------------------------------------------------
(* Memory                                                                  *)

(* Mutant of Index: the start of the frame is forgotten. *)
MutIndexAbsolute(addr) ==
    (IF addr.seg = "top" THEN 0 ELSE stack_bottom) + addr.off

(* transAddr, as an index of stack_ *)
Index(addr) ==
    (IF addr.seg = "top" THEN stack_top ELSE stack_bottom) + addr.off

(* transAddr succeeds, and the n bytes from addr on lie inside stack_. *)
Accessible(addr, n) ==
    n > 0 => addr.seg \in {"top", "tail"} /\ Index(addr) + n <= MaxStack

(* How many values n bytes have *)
Modulus(n) ==
    LET power[i \in 0 .. n] == IF i = 0 THEN 1 ELSE ByteRange * power[i - 1]
    IN  power[n]

(* The unsigned number in the n bytes from index k on. *)
Load(k, n) ==
    LET sum[i \in 0 .. n] ==
          IF i = 0 THEN 0
          ELSE sum[i - 1] + stack[k + i - 1] * Modulus(i - 1)
    IN  sum[n]

(* Mutant of Store: the bytes are not cut off. *)
MutStoreWide(k, n, v) ==
    stack' = [c \in Cells |->
                IF k <= c /\ c < k + n THEN v \div Modulus(c - k)
                ELSE stack[c]]

(* The n low bytes of v, stored from index k on. *)
Store(k, n, v) ==
    stack' = [c \in Cells |->
                IF k <= c /\ c < k + n
                THEN (v \div Modulus(c - k)) % ByteRange
                ELSE stack[c]]

(* n bytes of a type, read as a signed number *)
Signed(v, n) ==
    IF 2 * v < Modulus(n) THEN v ELSE v - Modulus(n)

Value(addr, ty) == Signed(Load(Index(addr), Width[ty]), Width[ty])

(* *(C_TYPE* )&arg: the low bytes of a plain number *)
Immediate(arg, ty) ==
    Signed(arg.off % Modulus(Width[ty]), Width[ty])

(* C's division truncates towards zero. *)
Quotient(x, y) ==
    LET abs(z) == IF z < 0 THEN -z ELSE z
        q == abs(x) \div abs(y)
    IN  IF (x < 0) = (y < 0) THEN q ELSE -q

(* The CPU traps: a division by zero, or one whose result does not fit     *)
(* (I8 operands are widened to int first, where it does).                  *)
Traps(op, ty, x, y) ==
    /\ op = "Div"
    /\ \/ y = 0
       \/ ty # "I8" /\ y = -1 /\ 2 * x = -Modulus(Width[ty])

Apply(op, x, y) ==
    CASE op = "Add" -> x + y
      [] op = "Sub" -> x - y
      [] op = "Mul" -> x * y
      [] op = "Div" -> Quotient(x, y)

(* Mutant of Holds: JumpGt jumps on equality too. *)
MutHoldsEq(op, x, y) == IF op = "JumpEq" THEN x = y ELSE x >= y

Holds(op, x, y) ==
    CASE op = "JumpGt" -> x > y
      [] op = "JumpEq" -> x = y
      [] op = "JumpGtEq" -> x >= y

-----------------------------------------------------------------------------
(* The instruction in hand, and whether the process dies in it: an address *)
(* of another segment, an index outside stack_, a trapping division, or an *)
(* op without a case.                                                      *)

ins == program[pc + 1]

arithmetic == {"Add", "Sub", "Mul", "Div"}
immediate == {"AddD", "SubD", "MulD", "DivD"}
jumps == {"JumpGt", "JumpEq", "JumpGtEq"}

(* The memory an instruction always accesses: addresses and sizes. *)
Operands ==
    CASE ins.op = "Move" -> {<<ins.arg0, 1>>, <<ins.arg1, 1>>}
      [] ins.op \in {"Set"} \cup immediate -> {<<ins.arg0, Width[ins.ty]>>}
      [] ins.op \in arithmetic ->
           {<<a, Width[ins.ty]>> : a \in {ins.arg0, ins.arg1, ins.arg2}}
      [] ins.op \in jumps -> {<<a, Width[ins.ty]>> : a \in {ins.arg0, ins.arg1}}
      [] ins.op = "ToI32" ->
           {<<ins.arg0, Width["I32"]>>, <<ins.arg1, Width[ins.ty]>>}
      [] ins.op = "SavePC" -> {<<ins.arg0, Width["I64"]>>}
      [] ins.op = "Print" -> {<<ins.arg1, Width[ins.ty]>>}
      [] ins.op = "Return" /\ call_stack # <<>> -> {<<ins.arg0, ins.arg1.off>>}
      [] OTHER -> {}

BadOperand == \E o \in Operands : ~Accessible(o[1], o[2])

BadDivision ==
    \/ /\ ins.op = "Div"
       /\ Traps("Div", ins.ty, Value(ins.arg1, ins.ty), Value(ins.arg2, ins.ty))
    \/ /\ ins.op = "DivD"
       /\ Traps("Div", ins.ty, Value(ins.arg0, ins.ty), Immediate(ins.arg1, ins.ty))

(* The condition of a jump *)
Taken == Holds(ins.op, Value(ins.arg0, ins.ty), Value(ins.arg1, ins.ty))

BadTarget ==
    ins.op \in jumps /\ Taken /\ ~Accessible(ins.arg2, Width["I64"])

(* Where the caller wants a result: an address of the caller's frame. *)
Caller == call_stack[Len(call_stack)]

ResultIndex ==
    (IF Caller.ret_res_addr.seg = "top"
     THEN Caller.stack_top ELSE Caller.stack_bottom) + Caller.ret_res_addr.off

BadResult ==
    /\ ins.op = "Return" /\ call_stack # <<>> /\ ins.arg1.off > 0
    /\ \/ Caller.ret_res_addr.seg \notin {"top", "tail"}
       \/ ResultIndex + ins.arg1.off > MaxStack

(* Op::Label, the default of either switch: assert *)
NoCase == ins.op \in {"Label", "Unknown"}

Faulty ==
    IF BadOperand THEN TRUE
    ELSE BadDivision \/ BadTarget \/ BadResult \/ NoCase

-----------------------------------------------------------------------------
(* Instructions: one action for each group of cases of the switch          *)

Fetch(ops) ==
    /\ status = "running" /\ pc \in 0 .. Len(program) - 1
    /\ ins.op \in ops /\ ~Faulty

Advance == pc' = pc + 1

Move ==
    /\ Fetch({"Move"})
    /\ Store(Index(ins.arg0), 1, stack[Index(ins.arg1)])
    /\ Advance
    /\ UNCHANGED <<program, frame, status>>

(* Set8, Set32, Set64 *)
Set ==
    /\ Fetch({"Set"})
    /\ Store(Index(ins.arg0), Width[ins.ty], ins.arg1.off)
    /\ Advance
    /\ UNCHANGED <<program, frame, status>>

(* Mutant of SetStackBottom: the size is taken for an absolute index. *)
MutSetStackBottomAbsolute ==
    /\ Fetch({"SetStackBottom"})
    /\ stack_bottom' = ins.arg0.off
    /\ Advance
    /\ UNCHANGED <<program, stack_top, call_stack, stack, status>>

SetStackBottom ==
    /\ Fetch({"SetStackBottom"})
    /\ stack_bottom' = stack_top + ins.arg0.off
    /\ Advance
    /\ UNCHANGED <<program, stack_top, call_stack, stack, status>>

(* AddI32 and its like: arg0 = arg1 op arg2 *)
Arith ==
    /\ Fetch(arithmetic)
    /\ Store(Index(ins.arg0), Width[ins.ty],
             Apply(ins.op, Value(ins.arg1, ins.ty), Value(ins.arg2, ins.ty)))
    /\ Advance
    /\ UNCHANGED <<program, frame, status>>

(* AddI32D and its like: arg0 op= the immediate arg1 *)
ArithD ==
    LET op == [AddD |-> "Add", SubD |-> "Sub", MulD |-> "Mul", DivD |-> "Div"]
    IN  /\ Fetch(immediate)
        /\ Store(Index(ins.arg0), Width[ins.ty],
                 Apply(op[ins.op], Value(ins.arg0, ins.ty),
                       Immediate(ins.arg1, ins.ty)))
        /\ Advance
        /\ UNCHANGED <<program, frame, status>>

(* JumpGtI32 and its like: the target is a 64-bit number in memory. *)
Jump ==
    /\ Fetch(jumps)
    /\ IF Taken THEN pc' = Load(Index(ins.arg2), Width["I64"]) ELSE Advance
    /\ UNCHANGED <<program, frame, stack, status>>

(* ToI32I8 and its like *)
ToI32 ==
    /\ Fetch({"ToI32"})
    /\ Store(Index(ins.arg0), Width["I32"], Value(ins.arg1, ins.ty))
    /\ Advance
    /\ UNCHANGED <<program, frame, status>>

SavePC ==
    /\ Fetch({"SavePC"})
    /\ Store(Index(ins.arg0), Width["I64"], pc + 1)
    /\ Advance
    /\ UNCHANGED <<program, frame, status>>

(* Mutant of Call: the Call itself is saved as the place to return to. *)
MutCallOwnPc ==
    /\ Fetch({"Call"})
    /\ Len(call_stack) < MaxDepth
    /\ call_stack' = Append(call_stack,
                            [pc |-> pc, stack_top |-> stack_top,
                             stack_bottom |-> stack_bottom,
                             ret_res_addr |-> ins.arg1])
    /\ pc' = ins.arg0.off
    /\ stack_top' = stack_bottom
    /\ UNCHANGED <<program, stack_bottom, stack, status>>

(* Call of a function: its frame starts where the caller's frame ends. *)
Call ==
    /\ Fetch({"Call"})
    /\ Len(call_stack) < MaxDepth
    /\ call_stack' = Append(call_stack,
                            [pc |-> pc + 1, stack_top |-> stack_top,
                             stack_bottom |-> stack_bottom,
                             ret_res_addr |-> ins.arg1])
    /\ pc' = ins.arg0.off
    /\ stack_top' = stack_bottom
    /\ UNCHANGED <<program, stack_bottom, stack, status>>

(* Call of a built-in: the SC_PRINT functions only read their argument. *)
PrintBuiltin ==
    /\ Fetch({"Print"})
    /\ Advance
    /\ UNCHANGED <<program, frame, stack, status>>

(* Return of the outermost frame *)
Finish ==
    /\ Fetch({"Return"}) /\ call_stack = <<>>
    /\ status' = "finished"
    /\ UNCHANGED <<program, pc, frame, stack>>

(* Mutant of Return: the result is read after the frame was restored. *)
MutReturnLate ==
    /\ Fetch({"Return"}) /\ call_stack # <<>>
    /\ call_stack' = SubSeq(call_stack, 1, Len(call_stack) - 1)
    /\ stack_top' = Caller.stack_top
    /\ stack_bottom' = Caller.stack_bottom
    /\ pc' = Caller.pc
    /\ stack' = [c \in Cells |->
                   IF ResultIndex <= c /\ c < ResultIndex + ins.arg1.off
                   THEN stack[Caller.stack_top + ins.arg0.off + (c - ResultIndex)]
                   ELSE stack[c]]
    /\ UNCHANGED <<program, status>>

(* The result bytes are read from the callee's frame, the caller's frame   *)
(* is restored, and then they are written through the caller's address.    *)
Return ==
    /\ Fetch({"Return"}) /\ call_stack # <<>>
    /\ call_stack' = SubSeq(call_stack, 1, Len(call_stack) - 1)
    /\ stack_top' = Caller.stack_top
    /\ stack_bottom' = Caller.stack_bottom
    /\ pc' = Caller.pc
    /\ stack' = [c \in Cells |->
                   IF ResultIndex <= c /\ c < ResultIndex + ins.arg1.off
                   THEN stack[Index(ins.arg0) + (c - ResultIndex)]
                   ELSE stack[c]]
    /\ UNCHANGED <<program, status>>

Fault ==
    /\ status = "running" /\ pc \in 0 .. Len(program) - 1
    /\ Faulty
    /\ status' = "fault"
    /\ UNCHANGED <<program, pc, frame, stack>>

-----------------------------------------------------------------------------
Next ==
    \/ Move \/ Set \/ SetStackBottom \/ Arith \/ ArithD \/ Jump \/ ToI32
    \/ SavePC \/ Call \/ PrintBuiltin \/ Finish \/ Return \/ Fault

Spec == Init /\ [][Next]_vars

(* Run(UINT64_MAX) does not stop in the middle. *)
FairSpec == Spec /\ WF_vars(Next)

-----------------------------------------------------------------------------
(* Properties                                                              *)

(* Where the i-th frame starts and ends, the running one being the last. *)
FrameTop(i) ==
    IF i > Len(call_stack) THEN stack_top ELSE call_stack[i].stack_top

FrameBottom(i) ==
    IF i > Len(call_stack) THEN stack_bottom ELSE call_stack[i].stack_bottom

(* The frames lie one behind the other: each begins where the frame of its *)
(* caller ends, the first at 0, and none has a negative size, whatever     *)
(* calls, returns, jumps and SetStackBottoms the program makes.            *)
FrameChain ==
    /\ FrameTop(1) = 0
    /\ \A i \in 1 .. Len(call_stack) + 1 : FrameTop(i) <= FrameBottom(i)
    /\ \A i \in 1 .. Len(call_stack) : FrameBottom(i) = FrameTop(i + 1)

(* Every return address is the one behind a Call, and its result goes      *)
(* where that Call said.                                                   *)
ReturnSites ==
    \A i \in 1 .. Len(call_stack) :
        LET cp == call_stack[i]
        IN  /\ cp.pc \in 1 .. Len(program)
            /\ program[cp.pc].op = "Call"
            /\ program[cp.pc].arg1 = cp.ret_res_addr

(* No instruction changes a byte below the frame it leaves running: a      *)
(* function cannot touch the frames of its callers, and Return writes only *)
(* into the frame it returns to, or behind it.                             *)
CallersKept ==
    [][\A c \in Cells : c < stack_top /\ c < stack_top' => stack'[c] = stack[c]]_vars
=============================================================================
