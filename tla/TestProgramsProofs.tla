------------------------- MODULE TestProgramsProofs -------------------------
(***************************************************************************)
(* The test programs compute what they should, for every input, every byte *)
(* and word size and every size of the stack, whenever they come to their  *)
(* end: ResultsRight.                                                      *)
(*                                                                         *)
(* The invariant says for each place of a program what memory holds there. *)
(* While a function runs, its callers wait, each with its number in a part *)
(* of memory that, as FrameChain and CallersKept say, nobody touches.      *)
(***************************************************************************)
EXTENDS TestPrograms, ByteVMProofs

(* The n bytes from k on are memory and hold v. *)
Keeps(k, n, v) == k + n <= MaxStack /\ Load(k, n) = v

Number(k, v) == Keeps(k, IntSize, v)

(* The main part, which starts at b, is running or has come to its end. *)
InMain(b, n, m) ==
    /\ call_stack = <<>> /\ stack_top = 0
    /\ status = "running" \/ (status = "finished" /\ pc = b + 6)
    /\ \/ pc = b
       \/ pc = b + 1 /\ stack_bottom = Third
       \/ pc = b + 2 /\ stack_bottom = Third /\ Number(Third, n)
       \/ pc = b + 3 /\ stack_bottom = Third /\ Number(0, Triangle(n))
       \/ pc = b + 4 /\ stack_bottom = Third /\ Number(0, Triangle(n))
       \/ /\ pc = b + 5 /\ stack_bottom = Third
          /\ Number(0, Triangle(n)) /\ Number(Third, m)
       \/ pc = b + 6 /\ Number(0, Triangle(n)) /\ Number(Second, Triangle(m))

(* The main part waits for the function's result for x. *)
Waiting(b, n, m, x) ==
    /\ status = "running" /\ call_stack # <<>>
    /\ call_stack[1].stack_top = 0 /\ call_stack[1].stack_bottom = Third
    /\ \/ /\ call_stack[1].pc = b + 3 /\ x = n
          /\ call_stack[1].ret_res_addr = At("top", 0)
       \/ /\ call_stack[1].pc = b + 6 /\ x = m
          /\ call_stack[1].ret_res_addr = At("top", Second)
          /\ Number(0, Triangle(n))

(* Loop with the argument x, in the frame at t *)
LoopAt(t, x) ==
    /\ Number(t, x)
    /\ \/ pc \in {0, 1}
       \/ pc = 2 /\ Number(t + Second, 0)
       \/ pc = 3 /\ Number(t + Second, 0) /\ Number(t + Third, 0)
       \/ \E c \in 0 .. x :
            /\ Number(t + Second, c) /\ Keeps(t + Fourth, PcSize, 4)
            /\ \/ pc = 4 /\ c < x /\ Number(t + Third, Triangle(c))
               \/ pc = 5 /\ c > 0 /\ Number(t + Third, Triangle(c - 1))
               \/ pc = 6 /\ c > 0 /\ Number(t + Third, Triangle(c))
       \/ pc = 7 /\ Number(t + Third, Triangle(x))

InLoop(x) == Len(call_stack) = 1 /\ LoopAt(stack_top, x)

(* Recursion with the argument a, in the frame at t *)
RecursionAt(t, a) ==
    /\ Number(t, a) /\ a > 0
    /\ pc \notin {0, 4, 8} => stack_bottom = t + FrameSize
    /\ \/ pc \in {0, 1}
       \/ pc = 2 /\ Number(t + Second, 1)
       \/ pc = 3 /\ Number(t + Second, 1) /\ Keeps(t + Third, PcSize, 5)
       \/ pc = 4 /\ a = 1
       \/ pc = 5 /\ a > 1 /\ Number(t + Second, 1)
       \/ pc = 6 /\ a > 1 /\ Number(t + FrameSize, a - 1)
       \/ pc = 7 /\ a > 1 /\ Number(t + BehindPc, Triangle(a - 1))
       \/ pc = 8 /\ Number(t + BehindPc, Triangle(a))

(* What the i-th frame was called with: each call counts down from x. *)
Argument(x, i) == x - (i - 2)

(* The i-th frame waits for the result of the one behind it. *)
Suspended(x, i) ==
    /\ call_stack[i].pc = 7
    /\ call_stack[i].ret_res_addr = At("top", BehindPc)
    /\ call_stack[i].stack_bottom = call_stack[i].stack_top + FrameSize
    /\ Argument(x, i) > 1
    /\ Number(call_stack[i].stack_top, Argument(x, i))

InRecursion(x) ==
    /\ \A i \in 2 .. Len(call_stack) : Suspended(x, i)
    /\ RecursionAt(stack_top, Argument(x, Len(call_stack) + 1))

LoopInv(n, m) ==
    \/ status = "fault"
    \/ InMain(8, n, m)
    \/ \E x \in Inputs : Waiting(8, n, m, x) /\ InLoop(x)

RecursionInv(n, m) ==
    \/ status = "fault"
    \/ InMain(9, n, m)
    \/ \E x \in Inputs : Waiting(9, n, m, x) /\ InRecursion(x)

(* What the programs have computed so far, at each of their places *)
Progress ==
    \A n, m \in Inputs :
        /\ program = Loop \o Main(n, m) => LoopInv(n, m)
        /\ program = Recursion \o Main(n, m) => RecursionInv(n, m)


-----------------------------------------------------------------------------
(* The programs, instruction by instruction                                *)

LEMMA Sizes ==
    /\ IntSize \in Nat \ {0} /\ PcSize \in Nat \ {0}
    /\ Second = IntSize /\ Third = IntSize + IntSize
    /\ Fourth = IntSize + IntSize + IntSize
    /\ BehindPc = IntSize + IntSize + PcSize
    /\ FrameSize = IntSize + IntSize + IntSize + PcSize
BY VMAssumption DEF IntSize, PcSize, Second, Third, Fourth, BehindPc, FrameSize, Types

(* The main part behind a function of b instructions *)
MainListing(b, n, m) ==
    /\ Len(program) = b + 7
    /\ pc = b => ins = Ins("SetStackBottom", "I8", Num(Third), Zero, Zero)
    /\ pc = b + 1 => ins = Ins("Set", "I32", At("tail", 0), Num(n), Zero)
    /\ pc = b + 2 => ins = Ins("Call", "I8", Zero, At("top", 0), Zero)
    /\ pc = b + 3 => ins = Ins("Print", "I32", Zero, At("top", 0), Zero)
    /\ pc = b + 4 => ins = Ins("Set", "I32", At("tail", 0), Num(m), Zero)
    /\ pc = b + 5 => ins = Ins("Call", "I8", Zero, At("top", Second), Zero)
    /\ pc = b + 6 => ins = Ins("Return", "I8", Zero, Zero, Zero)

(* The program is f, of b instructions, and main's g behind it. *)
Consists(f, g, b) ==
    /\ Len(program) = b + 7
    /\ \A i \in 1 .. b : program[i] = f[i]
    /\ \A i \in 1 .. 7 : program[b + i] = g[i]

LEMMA Joined ==
    ASSUME NEW S, NEW f \in Seq(S), NEW g \in Seq(S), NEW b \in Nat, Len(f) = b,
           Len(g) = 7, program = f \o g
    PROVE  Consists(f, g, b)
<1>1. /\ Len(f \o g) = Len(f) + Len(g)
      /\ \A i \in 1 .. Len(f) + Len(g) :
           (f \o g)[i] = IF i <= Len(f) THEN f[i] ELSE g[i - Len(f)]
    BY ConcatProperties, Zenon
<1>2. ASSUME NEW i \in 1 .. 7 PROVE (f \o g)[b + i] = g[i]
    <2>1. b + i \in 1 .. b + 7 /\ ~(b + i <= b) /\ (b + i) - b = i
        OBVIOUS
    <2> QED BY <1>1, <2>1
<1>3. ASSUME NEW i \in 1 .. b PROVE (f \o g)[i] = f[i]
    <2>1. i \in 1 .. b + 7 /\ i <= b
        OBVIOUS
    <2> QED BY <1>1, <2>1
<1> QED BY <1>1, <1>2, <1>3 DEF Consists

LEMMA MainAt ==
    ASSUME NEW b \in Nat, NEW n, NEW m, Len(program) = b + 7,
           \A i \in 1 .. 7 : program[b + i] = Main(n, m)[i]
    PROVE  MainListing(b, n, m)
<1>1. /\ program[b + 1] = Main(n, m)[1] /\ program[(b + 1) + 1] = Main(n, m)[2]
      /\ program[(b + 2) + 1] = Main(n, m)[3] /\ program[(b + 3) + 1] = Main(n, m)[4]
      /\ program[(b + 4) + 1] = Main(n, m)[5] /\ program[(b + 5) + 1] = Main(n, m)[6]
      /\ program[(b + 6) + 1] = Main(n, m)[7]
    <2> DEFINE g == Main(n, m)
    <2>1. \A i \in 1 .. 7 : program[b + i] = g[i]
        OBVIOUS
    <2> HIDE DEF g
    <2>2. /\ program[b + 1] = g[1] /\ program[(b + 1) + 1] = g[2]
          /\ program[(b + 2) + 1] = g[3] /\ program[(b + 3) + 1] = g[4]
          /\ program[(b + 4) + 1] = g[5] /\ program[(b + 5) + 1] = g[6]
          /\ program[(b + 6) + 1] = g[7]
        BY <2>1
    <2> QED BY <2>2 DEF g
<1> QED BY <1>1 DEF MainListing, Main, ins

LEMMA LoopConsists ==
    ASSUME NEW n, NEW m, program = Loop \o Main(n, m)
    PROVE  Consists(Loop, Main(n, m), 8)
<1> DEFINE S == {Loop[i] : i \in 1 .. 8} \cup {Main(n, m)[i] : i \in 1 .. 7}
<1>1. Loop \in Seq(S) /\ Len(Loop) = 8
    BY DEF Loop
<1>2. Main(n, m) \in Seq(S) /\ Len(Main(n, m)) = 7
    BY DEF Main
<1>3. Consists(Loop, Main(n, m), 8)
    <2>1. PICK b \in Nat : b = 8
        OBVIOUS
    <2>2. PICK f, g : f = Loop /\ g = Main(n, m)
        OBVIOUS
    <2> HIDE DEF S
    <2>3. /\ f \in Seq(S) /\ g \in Seq(S) /\ b \in Nat
          /\ Len(f) = b /\ Len(g) = 7 /\ program = f \o g
        BY <1>1, <1>2, <2>1, <2>2
    <2>4. Consists(f, g, b)
        BY ONLY <2>3, Joined, Zenon
    <2> QED BY <2>1, <2>2, <2>4
<1> QED BY <1>3

LEMMA LoopListing ==
    ASSUME NEW n, NEW m, program = Loop \o Main(n, m)
    PROVE  /\ MainListing(8, n, m)
           /\ pc = 0 => ins = Ins("SetStackBottom", "I8", Num(FrameSize), Zero, Zero)
           /\ pc = 1 => ins = Ins("Set", "I32", At("top", Second), Zero, Zero)
           /\ pc = 2 => ins = Ins("Set", "I32", At("top", Third), Zero, Zero)
           /\ pc = 3 => ins = Ins("SavePC", "I64", At("top", Fourth), Zero, Zero)
           /\ pc = 4 => ins = Ins("AddD", "I32", At("top", Second), Num(1), Zero)
           /\ pc = 5 => ins = Ins("Add", "I32", At("top", Third), At("top", Third),
                                  At("top", Second))
           /\ pc = 6 => ins = Ins("JumpGt", "I32", At("top", 0), At("top", Second),
                                  At("top", Fourth))
           /\ pc = 7 => ins = Ins("Return", "I8", At("top", Third), Num(IntSize), Zero)
<1>0. /\ Len(program) = 8 + 7
      /\ \A i \in 1 .. 8 : program[i] = Loop[i]
      /\ \A i \in 1 .. 7 : program[8 + i] = Main(n, m)[i]
    <2>1. Consists(Loop, Main(n, m), 8)
        BY LoopConsists, Zenon
    <2> QED BY ONLY <2>1, Zenon DEF Consists
<1>1. MainListing(8, n, m)
    BY <1>0, MainAt
<1>2. /\ program[1] = Loop[1] /\ program[2] = Loop[2] /\ program[3] = Loop[3]
      /\ program[4] = Loop[4] /\ program[5] = Loop[5] /\ program[6] = Loop[6]
      /\ program[7] = Loop[7] /\ program[8] = Loop[8]
    BY ONLY <1>0, SMT
<1> QED BY <1>1, <1>2 DEF Loop, ins

LEMMA RecursionConsists ==
    ASSUME NEW n, NEW m, program = Recursion \o Main(n, m)
    PROVE  Consists(Recursion, Main(n, m), 9)
<1> DEFINE S == {Recursion[i] : i \in 1 .. 9} \cup {Main(n, m)[i] : i \in 1 .. 7}
<1>1. Recursion \in Seq(S) /\ Len(Recursion) = 9
    BY DEF Recursion
<1>2. Main(n, m) \in Seq(S) /\ Len(Main(n, m)) = 7
    BY DEF Main
<1>3. Consists(Recursion, Main(n, m), 9)
    <2>1. PICK b \in Nat : b = 9
        OBVIOUS
    <2>2. PICK f, g : f = Recursion /\ g = Main(n, m)
        OBVIOUS
    <2> HIDE DEF S
    <2>3. /\ f \in Seq(S) /\ g \in Seq(S) /\ b \in Nat
          /\ Len(f) = b /\ Len(g) = 7 /\ program = f \o g
        BY <1>1, <1>2, <2>1, <2>2
    <2>4. Consists(f, g, b)
        BY ONLY <2>3, Joined, Zenon
    <2> QED BY <2>1, <2>2, <2>4
<1> QED BY <1>3

LEMMA RecursionListing ==
    ASSUME NEW n, NEW m, program = Recursion \o Main(n, m)
    PROVE  /\ MainListing(9, n, m)
           /\ pc = 0 => ins = Ins("SetStackBottom", "I8", Num(FrameSize), Zero, Zero)
           /\ pc = 1 => ins = Ins("Set", "I32", At("top", Second), Num(1), Zero)
           /\ pc = 2 => ins = Ins("Set", "I64", At("top", Third), Num(5), Zero)
           /\ pc = 3 => ins = Ins("JumpGt", "I32", At("top", 0), At("top", Second),
                                  At("top", Third))
           /\ pc = 4 => ins = Ins("Return", "I8", At("top", 0), Num(IntSize), Zero)
           /\ pc = 5 => ins = Ins("Sub", "I32", At("tail", 0), At("top", 0),
                                  At("top", Second))
           /\ pc = 6 => ins = Ins("Call", "I8", Zero, At("top", BehindPc), Zero)
           /\ pc = 7 => ins = Ins("Add", "I32", At("top", BehindPc),
                                  At("top", BehindPc), At("top", 0))
           /\ pc = 8 => ins = Ins("Return", "I8", At("top", BehindPc), Num(IntSize), Zero)
<1>0. /\ Len(program) = 9 + 7
      /\ \A i \in 1 .. 9 : program[i] = Recursion[i]
      /\ \A i \in 1 .. 7 : program[9 + i] = Main(n, m)[i]
    <2>1. Consists(Recursion, Main(n, m), 9)
        BY RecursionConsists, Zenon
    <2> QED BY ONLY <2>1, Zenon DEF Consists
<1>1. MainListing(9, n, m)
    BY <1>0, MainAt
<1>2. /\ program[1] = Recursion[1] /\ program[2] = Recursion[2] /\ program[3] = Recursion[3]
      /\ program[4] = Recursion[4] /\ program[5] = Recursion[5] /\ program[6] = Recursion[6]
      /\ program[7] = Recursion[7] /\ program[8] = Recursion[8]
      /\ program[9] = Recursion[9]
    BY ONLY <1>0, SMT
<1> QED BY <1>1, <1>2 DEF Recursion, ins

-----------------------------------------------------------------------------
(* What the instructions do                                                *)

(* A step that does not end the process *)
Goes == TypeOK /\ TypeOK' /\ FrameChain /\ Next /\ status' # "fault"

LEMMA Which ==
    ASSUME Goes
    PROVE  /\ status = "running"
           /\ ins.op = "SetStackBottom" => SetStackBottom
           /\ ins.op = "Set" => Set
           /\ ins.op = "SavePC" => SavePC
           /\ ins.op = "AddD" => ArithD
           /\ ins.op \in {"Add", "Sub"} => Arith
           /\ ins.op = "JumpGt" => Jump
           /\ ins.op = "Call" => Call
           /\ ins.op = "Print" => PrintBuiltin
           /\ ins.op = "Return" => Return \/ Finish
<1>1. ~Fault /\ Next
    BY DEF Goes, Fault
<1>2. status = "running"
    BY <1>1 DEF Next, Move, Set, SetStackBottom, Arith, ArithD, Jump, ToI32, SavePC, Call,
               PrintBuiltin, Finish, Return, Fetch
<1>3. /\ Move => ins.op = "Move"
      /\ Set => ins.op = "Set"
      /\ SetStackBottom => ins.op = "SetStackBottom"
      /\ Arith => ins.op \in {"Add", "Sub", "Mul", "Div"}
      /\ ArithD => ins.op \in {"AddD", "SubD", "MulD", "DivD"}
      /\ Jump => ins.op \in {"JumpGt", "JumpEq", "JumpGtEq"}
      /\ ToI32 => ins.op = "ToI32"
      /\ SavePC => ins.op = "SavePC"
      /\ Call => ins.op = "Call"
      /\ PrintBuiltin => ins.op = "Print"
      /\ Finish => ins.op = "Return"
      /\ Return => ins.op = "Return"
    BY DEF Move, Set, SetStackBottom, Arith, ArithD, Jump, ToI32, SavePC, Call,
           PrintBuiltin, Finish, Return, Fetch, arithmetic, immediate, jumps
<1> QED BY <1>1, <1>2, <1>3 DEF Next

(* The step leaves the frames alone and goes on to the next instruction. *)
Quiet ==
    /\ call_stack' = call_stack /\ stack_top' = stack_top
    /\ status' = status /\ program' = program

(* The step writes v into the n bytes from k on. *)
Written(k, n, v) ==
    /\ k \in Nat /\ n \in Nat /\ k + n <= MaxStack
    /\ ReadBack(k, n, v)

LEMMA WrittenIsKept ==
    ASSUME NEW k, NEW n, NEW v \in Nat, v < Modulus(n), Written(k, n, v)
    PROVE  Keeps(k, n, v)'
<1>1. n \in Nat /\ k + n <= MaxStack /\ Load(k, n)' = v % Modulus(n)
    BY DEF Written, ReadBack
<1>2. Modulus(n) \in Nat /\ Modulus(n) > 0
    BY <1>1, ModulusRight
<1>3. v % Modulus(n) = v
    BY <1>2
<1> QED BY <1>1, <1>3 DEF Keeps

LEMMA WrittenElsewhere ==
    ASSUME NEW k, NEW n, NEW v, Written(k, n, v), NEW i \in Nat, NEW e \in Nat, NEW x,
           Keeps(i, e, x), i + e <= k \/ k + n <= i
    PROVE  Keeps(i, e, x)'
BY DEF Written, ReadBack, Keeps

LEMMA Writes ==
    ASSUME Goes, ~Faulty, NEW a \in Address, NEW n \in Nat \ {0}, NEW v \in Int,
           <<a, n>> \in Operands, NEW k, k = Index(a), Store(k, n, v)
    PROVE  Written(k, n, v)
<1>1. Accessible(a, n)
    BY OperandsAccessible
<1>2. k \in Nat /\ k + n <= MaxStack
    BY <1>1, SMTT(30) DEF Goes, TypeOK, FrameTypeOK, Index, Address, Accessible
<1>3. ReadBack(k, n, v)
    BY <1>2, StoreReadsBack DEF Goes, TypeOK
<1> QED BY <1>2, <1>3 DEF Written

LEMMA Addresses ==
    ASSUME NEW o \in Nat
    PROVE  /\ At("top", o) \in Address /\ At("tail", o) \in Address
           /\ Index(At("top", o)) = stack_top + o
           /\ Index(At("tail", o)) = stack_bottom + o
           /\ Num(o).off = o
BY DEF At, Address, Index, Num

LEMMA DoesSet ==
    ASSUME Goes, NEW a \in Address, NEW ty \in Types, NEW v \in Nat,
           NEW k, k = Index(a), ins = Ins("Set", ty, a, Num(v), Zero)
    PROVE  /\ Quiet /\ pc' = pc + 1 /\ stack_bottom' = stack_bottom
           /\ Written(k, Width[ty], v)
<1>1. ins.op = "Set" /\ ins.ty = ty /\ ins.arg0 = a /\ ins.arg1.off = v
    BY DEF Ins, Num, At
<1>2. Set
    BY <1>1, Which
<1>3. ~Faulty /\ Store(k, Width[ty], v)
    BY <1>1, <1>2 DEF Set, Fetch
<1>4. <<a, Width[ty]>> \in Operands
    BY <1>1 DEF Operands, arithmetic, immediate, jumps
<1>5. Width[ty] \in Nat \ {0}
    BY VMAssumption
<1>6. Written(k, Width[ty], v)
    BY <1>3, <1>4, <1>5, Writes
<1> QED BY <1>2, <1>6 DEF Set, Advance, frame, Quiet

LEMMA DoesSavePC ==
    ASSUME Goes, NEW a \in Address, NEW p \in Nat, p = pc,
           NEW k, k = Index(a), ins = Ins("SavePC", "I64", a, Zero, Zero)
    PROVE  /\ Quiet /\ pc' = pc + 1 /\ stack_bottom' = stack_bottom
           /\ Written(k, PcSize, p + 1)
<1>1. ins.op = "SavePC" /\ ins.arg0 = a
    BY DEF Ins
<1>2. SavePC
    BY <1>1, Which
<1>3. ~Faulty /\ Store(k, PcSize, p + 1)
    BY <1>1, <1>2 DEF SavePC, Fetch, PcSize
<1>4. <<a, PcSize>> \in Operands
    BY <1>1 DEF Operands, arithmetic, immediate, jumps, PcSize
<1>5. Written(k, PcSize, p + 1)
    BY <1>3, <1>4, Sizes, Writes
<1> QED BY <1>2, <1>5 DEF SavePC, Advance, frame, Quiet

(* A number that an int can hold is what is read where it is kept. *)
LEMMA Reads ==
    ASSUME NEW o \in Nat, NEW x \in Nat, 2 * x < Modulus(IntSize),
           NEW t, t = stack_top, Number(t + o, x)
    PROVE  Value(At("top", o), "I32") = x
BY DEF Number, Keeps, Value, Signed, At, Index, IntSize

LEMMA DoesArith ==
    ASSUME Goes, NEW op \in {"Add", "Sub"}, NEW a \in Address, NEW b \in Address,
           NEW c \in Address, NEW x \in Nat, NEW y \in Nat,
           Value(b, "I32") = x, Value(c, "I32") = y,
           NEW k, k = Index(a), ins = Ins(op, "I32", a, b, c)
    PROVE  /\ Quiet /\ pc' = pc + 1 /\ stack_bottom' = stack_bottom
           /\ Written(k, IntSize, IF op = "Add" THEN x + y ELSE x - y)
<1> DEFINE v == IF op = "Add" THEN x + y ELSE x - y
<1>1. ins.op = op /\ ins.ty = "I32" /\ ins.arg0 = a /\ ins.arg1 = b /\ ins.arg2 = c
    BY DEF Ins
<1>2. Arith
    BY <1>1, Which
<1>3. ~Faulty /\ Store(k, IntSize, Apply(op, x, y))
    BY <1>1, <1>2 DEF Arith, Fetch, IntSize
<1>4. Apply(op, x, y) = v /\ v \in Int
    BY DEF Apply
<1>5. <<a, IntSize>> \in Operands
    BY <1>1 DEF Operands, arithmetic, immediate, jumps, IntSize
<1> HIDE DEF v
<1>6. Written(k, IntSize, v)
    BY <1>3, <1>4, <1>5, Sizes, Writes
<1> QED BY <1>2, <1>6 DEF Arith, Advance, frame, Quiet, v

LEMMA DoesAdd ==
    ASSUME Goes, NEW a \in Address, NEW b \in Address, NEW c \in Address,
           NEW x \in Nat, NEW y \in Nat, Value(b, "I32") = x, Value(c, "I32") = y,
           NEW k, k = Index(a), ins = Ins("Add", "I32", a, b, c)
    PROVE  /\ Quiet /\ pc' = pc + 1 /\ stack_bottom' = stack_bottom
           /\ Written(k, IntSize, x + y)
<1>1. PICK op \in {"Add", "Sub"} : op = "Add"
    OBVIOUS
<1>2. ins = Ins(op, "I32", a, b, c)
    BY <1>1
<1>3. /\ Quiet /\ pc' = pc + 1 /\ stack_bottom' = stack_bottom
      /\ Written(k, IntSize, IF op = "Add" THEN x + y ELSE x - y)
    BY <1>2, DoesArith
<1> QED BY <1>1, <1>3

LEMMA DoesSub ==
    ASSUME Goes, NEW a \in Address, NEW b \in Address, NEW c \in Address,
           NEW x \in Nat, NEW y \in Nat, Value(b, "I32") = x, Value(c, "I32") = y,
           NEW k, k = Index(a), ins = Ins("Sub", "I32", a, b, c)
    PROVE  /\ Quiet /\ pc' = pc + 1 /\ stack_bottom' = stack_bottom
           /\ Written(k, IntSize, x - y)
<1>1. PICK op \in {"Add", "Sub"} : op = "Sub"
    OBVIOUS
<1>2. ins = Ins(op, "I32", a, b, c)
    BY <1>1
<1>3. /\ Quiet /\ pc' = pc + 1 /\ stack_bottom' = stack_bottom
      /\ Written(k, IntSize, IF op = "Add" THEN x + y ELSE x - y)
    BY <1>2, DoesArith
<1> QED BY <1>1, <1>3

LEMMA DoesAddOne ==
    ASSUME Goes, NEW a \in Address, NEW x \in Nat, Value(a, "I32") = x,
           2 < Modulus(IntSize),
           NEW k, k = Index(a), ins = Ins("AddD", "I32", a, Num(1), Zero)
    PROVE  /\ Quiet /\ pc' = pc + 1 /\ stack_bottom' = stack_bottom
           /\ Written(k, IntSize, x + 1)
<1>1. ins.op = "AddD" /\ ins.ty = "I32" /\ ins.arg0 = a /\ ins.arg1.off = 1
    BY DEF Ins, Num, At
<1>2. ArithD
    BY <1>1, Which
<1>3. Immediate(ins.arg1, "I32") = 1
    <2>1. Modulus(IntSize) \in Nat
        BY Sizes, ModulusRight
    <2>2. 1 % Modulus(IntSize) = 1
        BY <2>1
    <2> QED BY <1>1, <2>1, <2>2 DEF Immediate, Signed, IntSize
<1>4. ~Faulty /\ Store(k, IntSize, Apply("Add", x, 1))
    BY <1>1, <1>2, <1>3 DEF ArithD, Fetch, IntSize
<1>5. Apply("Add", x, 1) = x + 1
    BY DEF Apply
<1>6. <<a, IntSize>> \in Operands
    BY <1>1 DEF Operands, arithmetic, immediate, jumps, IntSize
<1>7. Written(k, IntSize, x + 1)
    BY <1>4, <1>5, <1>6, Sizes, Writes
<1> QED BY <1>2, <1>7 DEF ArithD, Advance, frame, Quiet

LEMMA SameStack ==
    ASSUME stack' = stack, NEW k, NEW n, NEW v, Keeps(k, n, v)
    PROVE  Keeps(k, n, v)'
<1>1. Load(k, n)' = Load(k, n)
    BY DEF Load
<1> QED BY <1>1 DEF Keeps

LEMMA DoesJump ==
    ASSUME Goes, NEW a \in Address, NEW b \in Address, NEW c \in Address,
           NEW x \in Nat, NEW y \in Nat, Value(a, "I32") = x, Value(b, "I32") = y,
           NEW k, k = Index(c), NEW p, Keeps(k, PcSize, p),
           ins = Ins("JumpGt", "I32", a, b, c)
    PROVE  /\ Quiet /\ pc' = (IF x > y THEN p ELSE pc + 1)
           /\ stack_bottom' = stack_bottom /\ stack' = stack
<1>1. ins.op = "JumpGt" /\ ins.ty = "I32" /\ ins.arg0 = a /\ ins.arg1 = b /\ ins.arg2 = c
    BY DEF Ins
<1>2. Jump
    BY <1>1, Which
<1>3. Taken <=> x > y
    BY <1>1 DEF Taken, Holds
<1>4. Load(Index(ins.arg2), Width["I64"]) = p
    BY <1>1 DEF Keeps, PcSize
<1> QED BY <1>2, <1>3, <1>4 DEF Jump, Advance, frame, Quiet

LEMMA DoesSetStackBottom ==
    ASSUME Goes, NEW s \in Nat, ins = Ins("SetStackBottom", "I8", Num(s), Zero, Zero)
    PROVE  /\ Quiet /\ pc' = pc + 1
           /\ stack_bottom' = stack_top + s /\ stack' = stack
<1>1. ins.op = "SetStackBottom" /\ ins.arg0.off = s
    BY DEF Ins, Num, At
<1>2. SetStackBottom
    BY <1>1, Which
<1> QED BY <1>1, <1>2 DEF SetStackBottom, Advance, Quiet

LEMMA DoesPrint ==
    ASSUME Goes, NEW a, ins = Ins("Print", "I32", Zero, a, Zero)
    PROVE  /\ Quiet /\ pc' = pc + 1
           /\ stack_bottom' = stack_bottom /\ stack' = stack
<1>1. ins.op = "Print"
    BY DEF Ins
<1>2. PrintBuiltin
    BY <1>1, Which
<1> QED BY <1>2 DEF PrintBuiltin, Advance, frame, Quiet

(* A call, and what its CallPoint keeps *)
LEMMA DoesCall ==
    ASSUME Goes, NEW a, ins = Ins("Call", "I8", Zero, a, Zero)
    PROVE  /\ program' = program /\ status' = status /\ stack' = stack
           /\ pc' = 0 /\ stack_top' = stack_bottom /\ stack_bottom' = stack_bottom
           /\ Len(call_stack') = Len(call_stack) + 1
           /\ \A i \in 1 .. Len(call_stack) : call_stack'[i] = call_stack[i]
           /\ LET cp == call_stack'[Len(call_stack) + 1]
              IN  /\ cp.pc = pc + 1 /\ cp.ret_res_addr = a
                  /\ cp.stack_top = stack_top /\ cp.stack_bottom = stack_bottom
<1>1. ins.op = "Call" /\ ins.arg0.off = 0 /\ ins.arg1 = a
    BY DEF Ins, Zero, Num, At
<1>2. Call
    BY <1>1, Which
<1> DEFINE cp == [pc |-> pc + 1, stack_top |-> stack_top,
                  stack_bottom |-> stack_bottom, ret_res_addr |-> a]
<1>3. call_stack' = Append(call_stack, cp)
    BY <1>1, <1>2 DEF Call
<1>4. call_stack \in Seq(CallPoint) /\ call_stack' \in Seq(CallPoint)
    BY DEF Goes, TypeOK, FrameTypeOK
<1>5. /\ Len(call_stack') = Len(call_stack) + 1
      /\ \A i \in 1 .. Len(call_stack) : call_stack'[i] = call_stack[i]
      /\ call_stack'[Len(call_stack) + 1] = cp
    <2> HIDE DEF cp
    <2> QED BY <1>3, <1>4
<1> QED BY <1>1, <1>2, <1>5 DEF Call

(* A return of an int, and where its caller finds it *)
LEMMA DoesReturn ==
    ASSUME Goes, call_stack # <<>>, NEW o \in Nat, NEW q \in Nat, NEW x,
           ins = Ins("Return", "I8", At("top", o), Num(IntSize), Zero),
           NEW t, t = stack_top, Number(t + o, x),
           NEW r, r = Caller.stack_top, Caller.ret_res_addr = At("top", q)
    PROVE  /\ program' = program /\ status' = status
           /\ pc' = Caller.pc /\ stack_top' = r /\ stack_bottom' = Caller.stack_bottom
           /\ Len(call_stack') = Len(call_stack) - 1
           /\ \A i \in 1 .. Len(call_stack) - 1 : call_stack'[i] = call_stack[i]
           /\ Number(r + q, x)'
           /\ \A i, e \in Nat : \A v :
                /\ Keeps(i, e, v)
                /\ i + e <= r + q \/ (r + q) + IntSize <= i
                => Keeps(i, e, v)'
<1>1. ins.op = "Return" /\ ins.arg0 = At("top", o) /\ ins.arg1.off = IntSize
    BY DEF Ins, Num, At
<1>2. Return
    BY <1>1, Which DEF Finish
<1>3. /\ Len(call_stack') = Len(call_stack) - 1
      /\ \A i \in 1 .. Len(call_stack) - 1 : call_stack'[i] = call_stack[i]
    BY <1>2, PopBack DEF Return, Goes, TypeOK, FrameTypeOK
<1>4. Caller \in CallPoint /\ r \in Nat
    BY CallerType DEF Goes, TypeOK, CallPoint
<1> DEFINE k == t + o
           j == r + q
<1>5. k = Index(ins.arg0) /\ j = ResultIndex /\ k \in Nat /\ j \in Nat
    BY <1>1, <1>4 DEF Index, ResultIndex, At, Goes, TypeOK, FrameTypeOK
<1>6. j + IntSize <= MaxStack
    <2>1. ~BadResult
        BY <1>2 DEF Return, Fetch, Faulty
    <2>2. ~(ResultIndex + IntSize > MaxStack)
        BY <1>1, <2>1, Sizes DEF BadResult
    <2> QED BY <1>5, <2>2, Sizes, VMAssumption
<1> HIDE DEF k, j
<1>7. Load(j, IntSize)' = Load(k, IntSize)
    BY <1>1, <1>2, <1>5, Sizes, ReturnCopies DEF Goes
<1>8. Number(j, x)'
    <2>1. Load(k, IntSize) = x
        BY DEF Number, Keeps, k
    <2> QED BY <1>6, <1>7, <2>1 DEF Number, Keeps
<1>9. ASSUME NEW i \in Nat, NEW e \in Nat, NEW v, Keeps(i, e, v),
             i + e <= j \/ j + IntSize <= i
      PROVE  Keeps(i, e, v)'
    <2>1. stack' = [c \in Cells |-> IF j <= c /\ c < j + IntSize
                                    THEN stack[k + (c - j)] ELSE stack[c]]
        BY <1>1, <1>2, <1>5 DEF Return
    <2>2. i + e <= MaxStack
        BY <1>9 DEF Keeps
    <2>3. SameBytes(stack', i, stack, i, e)
        <3>1. ASSUME NEW d \in 0 .. e - 1 PROVE stack'[i + d] = stack[i + d]
            <4>1. i + d \in Cells /\ ~(j <= i + d /\ i + d < j + IntSize)
                BY <1>5, <1>9, <2>2, Sizes, VMAssumption DEF Cells
            <4> QED BY <2>1, <4>1
        <3> QED BY <3>1 DEF SameBytes
    <2>4. ByteSum(stack', i, e)[e] = ByteSum(stack, i, e)[e]
        <3>1. stack \in [Cells -> Bytes] /\ stack' \in [Cells -> Bytes]
            BY DEF Goes, TypeOK
        <3> QED BY <2>2, <2>3, <3>1, SumsAgree
    <2>5. Load(i, e)' = Load(i, e)
        BY <2>4 DEF Load, ByteSum
    <2> QED BY <1>9, <2>5 DEF Keeps
<1>10. \A i, e \in Nat : \A v :
         Keeps(i, e, v) /\ (i + e <= j \/ j + IntSize <= i) => Keeps(i, e, v)'
    BY <1>9
<1> QED BY <1>2, <1>3, <1>8, <1>10 DEF Return, j

-----------------------------------------------------------------------------
(* Frames and sums                                                         *)

(* Every frame ends before any later one begins. *)
LEMMA FramesOrdered ==
    ASSUME FrameTypeOK, FrameChain,
           NEW i \in 1 .. Len(call_stack) + 1, NEW j \in 1 .. Len(call_stack) + 1, i < j
    PROVE  FrameBottom(i) <= FrameTop(j)
<1> DEFINE d == Len(call_stack)
           T == {m \in i + 1 .. d + 1 : ~(FrameBottom(i) <= FrameTop(m))}
<1>0. d \in Nat
    BY DEF FrameTypeOK
<1>1. \A m \in 1 .. d + 1 : FrameTop(m) \in Nat /\ FrameBottom(m) \in Nat
    <2> TAKE m \in 1 .. d + 1
    <2>1. m <= d => call_stack[m] \in CallPoint
        BY <1>0, SMTT(30) DEF FrameTypeOK
    <2> QED BY <1>0, <2>1, SMTT(30) DEF FrameTypeOK, FrameTop, FrameBottom, CallPoint
<1>2. T = {}
    <2> SUFFICES ASSUME T # {} PROVE FALSE
        OBVIOUS
    <2>1. PICK m \in T : \A k \in T : m <= k
        <3>1. T \subseteq Nat
            BY <1>0
        <3> QED BY <3>1, LeastNumber
    <2>2. m \in i + 1 .. d + 1 /\ ~(FrameBottom(i) <= FrameTop(m)) /\ m - 1 \notin T
        <3>1. m - 1 \notin T
            <4> HIDE DEF T
            <4>1. T \subseteq Int
                BY <1>0 DEF T
            <4> QED BY <2>1, <4>1
        <3> QED BY <3>1
    <2>3. m - 1 \in 1 .. d /\ FrameBottom(m - 1) = FrameTop((m - 1) + 1)
        <3>1. m - 1 \in 1 .. d
            BY <1>0, <2>2
        <3> QED BY <3>1 DEF FrameChain
    <2>4. (m - 1) + 1 = m
        BY <2>2
    <2>5. CASE m = i + 1
        <3>1. m - 1 = i
            BY <2>2, <2>5
        <3> QED BY <1>1, <2>2, <2>3, <2>4, <3>1
    <2>6. CASE m # i + 1
        <3>1. m - 1 \in i + 1 .. d + 1 /\ m - 1 \in 1 .. d + 1
            BY <1>0, <2>2, <2>6
        <3>2. FrameBottom(i) <= FrameTop(m - 1) /\ FrameTop(m - 1) <= FrameBottom(m - 1)
            BY <2>2, <3>1 DEF FrameChain
        <3>3. m \in 1 .. d + 1
            BY <1>0, <2>2
        <3> QED BY <1>1, <2>2, <2>3, <2>4, <3>1, <3>2, <3>3, SMTT(30)
    <2> QED BY <2>5, <2>6
<1>3. j \in i + 1 .. d + 1
    BY <1>0
<1> QED BY <1>2, <1>3

(* What lies below the frame that was running and the one that will be *)
LEMMA BelowKept ==
    ASSUME Goes, NEW k \in Nat, NEW n \in Nat, NEW v, Keeps(k, n, v),
           k + n <= stack_top, k + n <= stack_top'
    PROVE  Keeps(k, n, v)'
<1>1. /\ stack \in [Cells -> Bytes] /\ stack' \in [Cells -> Bytes]
      /\ stack_top \in Nat /\ stack_top' \in Nat
    BY DEF Goes, TypeOK, FrameTypeOK
<1>2. \A c \in Cells : c < stack_top /\ c < stack_top' => stack'[c] = stack[c]
    BY CallersKeptStep DEF Goes, TypeOK
<1>3. k + n <= MaxStack
    BY DEF Keeps
<1>4. SameBytes(stack', k, stack, k, n)
    <2>1. ASSUME NEW d \in 0 .. n - 1 PROVE stack'[k + d] = stack[k + d]
        <3>1. k + d \in Cells /\ k + d < stack_top /\ k + d < stack_top'
            BY <1>1, <1>3, VMAssumption DEF Cells
        <3> QED BY <1>2, <3>1
    <2> QED BY <2>1 DEF SameBytes
<1>5. ByteSum(stack', k, n)[n] = ByteSum(stack, k, n)[n]
    BY <1>1, <1>3, <1>4, SumsAgree
<1>6. Load(k, n)' = Load(k, n)
    BY <1>5 DEF Load, ByteSum
<1> QED BY <1>6 DEF Keeps

LEMMA TriangleRight ==
    ASSUME NEW n \in Nat
    PROVE  /\ Triangle(n) \in Nat /\ Triangle(0) = 0 /\ Triangle(1) = 1
           /\ Triangle(n + 1) = Triangle(n) + (n + 1)
           /\ n <= Triangle(n)
<1>1. PICK u : u = n * (n + 1)
    OBVIOUS
<1>2. u \in Nat /\ (n + 1) * ((n + 1) + 1) = u + 2 * (n + 1) /\ u >= 2 * n
    BY <1>1
<1>3. Triangle(n) = u \div 2 /\ Triangle(n + 1) = (u + 2 * (n + 1)) \div 2
    BY <1>1, <1>2 DEF Triangle
<1>4. u \div 2 \in Nat /\ (u + 2 * (n + 1)) \div 2 = (u \div 2) + (n + 1) /\ u \div 2 >= n
    BY <1>2
<1>5. Triangle(0) = 0 /\ Triangle(1) = 1
    BY DEF Triangle
<1> QED BY <1>3, <1>4, <1>5

LEMMA TriangleGrows ==
    ASSUME NEW n \in Nat, NEW c \in Nat, c <= n
    PROVE  Triangle(c) <= Triangle(n)
<1>1. PICK u, v : u = c * (c + 1) /\ v = n * (n + 1)
    OBVIOUS
<1>2. PICK e \in Nat : n = c + e
    <2>1. n - c \in Nat /\ n = c + (n - c)
        OBVIOUS
    <2> QED BY <2>1
<1>3. v = u + e * (c + c + e + 1) /\ e * (c + c + e + 1) >= 0 /\ u \in Nat /\ v \in Nat
    BY <1>1, <1>2
<1>4. u <= v
    BY <1>3
<1>5. u \div 2 <= v \div 2
    BY <1>3, <1>4
<1> QED BY <1>1, <1>5 DEF Triangle

(* Everything that is counted or added up on the way to an input fits. *)
LEMMA Fits ==
    ASSUME NEW x \in Inputs, NEW c \in Nat, c <= x
    PROVE  /\ x \in Nat /\ x > 0
           /\ Modulus(IntSize) \in Nat /\ 2 < Modulus(IntSize)
           /\ 2 * c < Modulus(IntSize) /\ c < Modulus(IntSize)
           /\ Triangle(c) \in Nat
           /\ 2 * Triangle(c) < Modulus(IntSize) /\ Triangle(c) < Modulus(IntSize)
<1>1. x \in Nat /\ x > 0 /\ 2 * Triangle(x) < Modulus(IntSize)
    BY InputsAssumption
<1>2. Modulus(IntSize) \in Nat
    BY Sizes, ModulusRight
<1>3. /\ Triangle(x) \in Nat /\ Triangle(c) \in Nat /\ c <= Triangle(c)
      /\ Triangle(1) = 1
    BY <1>1, TriangleRight
<1>4. Triangle(c) <= Triangle(x) /\ Triangle(1) <= Triangle(x)
    BY <1>1, TriangleGrows
<1> QED BY <1>1, <1>2, <1>3, <1>4

-----------------------------------------------------------------------------
(* The main part                                                           *)

(* The function is about to begin, called by main with x. *)
Called(x) ==
    /\ Len(call_stack) = 1 /\ pc = 0
    /\ stack_top = Third /\ Number(Third, x)

LEMMA NotEmpty ==
    ASSUME NEW s, Len(s) = 1 PROVE s # <<>>
<1>1. Len(<<>>) # 1
    OBVIOUS
<1> QED BY <1>1, Zenon

LEMMA MainSteps ==
    ASSUME Goes, NEW b \in Nat, NEW n \in Inputs, NEW m \in Inputs,
           MainListing(b, n, m), InMain(b, n, m)
    PROVE  \/ InMain(b, n, m)'
           \/ \E x \in Inputs : Waiting(b, n, m, x)' /\ Called(x)'
<1>0. /\ status = "running" /\ call_stack = <<>> /\ stack_top = 0
      /\ n \in Nat /\ m \in Nat
      /\ n < Modulus(IntSize) /\ m < Modulus(IntSize)
    BY Which, Fits, InputsAssumption DEF InMain
<1> USE Sizes
<1>1. CASE pc = b
    <2>1. ins = Ins("SetStackBottom", "I8", Num(Third), Zero, Zero)
        BY <1>1 DEF MainListing
    <2>2. Quiet /\ pc' = pc + 1 /\ stack_bottom' = stack_top + Third
        BY <2>1, DoesSetStackBottom
    <2>3. InMain(b, n, m)'
        BY <1>0, <1>1, <2>2 DEF InMain, Quiet
    <2> QED BY <2>3
<1>2. CASE pc = b + 1
    <2>0. stack_bottom = Third
        BY <1>2 DEF InMain
    <2>1. ins = Ins("Set", "I32", At("tail", 0), Num(n), Zero)
        BY <1>2 DEF MainListing
    <2>2. At("tail", 0) \in Address /\ Index(At("tail", 0)) = Third
        BY <2>0, Addresses
    <2>3. /\ Quiet /\ pc' = pc + 1 /\ stack_bottom' = stack_bottom
          /\ Written(Third, IntSize, n)
        BY <1>0, <2>1, <2>2, DoesSet DEF Types, IntSize
    <2>4. Number(Third, n)'
        BY <1>0, <2>3, WrittenIsKept DEF Number
    <2>5. InMain(b, n, m)'
        BY <1>0, <1>2, <2>0, <2>3, <2>4 DEF InMain, Quiet
    <2> QED BY <2>5
<1>3. CASE pc = b + 2
    <2>0. stack_bottom = Third /\ Number(Third, n)
        BY <1>3 DEF InMain
    <2>1. ins = Ins("Call", "I8", Zero, At("top", 0), Zero)
        BY <1>3 DEF MainListing
    <2>2. /\ status' = status /\ stack' = stack
          /\ pc' = 0 /\ stack_top' = Third /\ Len(call_stack') = 1
          /\ call_stack'[1].pc = b + 3 /\ call_stack'[1].ret_res_addr = At("top", 0)
          /\ call_stack'[1].stack_top = 0 /\ call_stack'[1].stack_bottom = Third
        BY <1>0, <1>3, <2>0, <2>1, DoesCall
    <2>3. Number(Third, n)'
        BY <2>0, <2>2, SameStack DEF Number
    <2>4. Called(n)' /\ Waiting(b, n, m, n)'
        <3>1. call_stack' # <<>>
            BY <2>2, NotEmpty, Zenon
        <3> QED BY <1>0, <2>2, <2>3, <3>1, Zenon DEF Called, Waiting
    <2> QED BY <2>4
<1>4. CASE pc = b + 3
    <2>0. stack_bottom = Third /\ Number(0, Triangle(n))
        BY <1>4 DEF InMain
    <2>1. ins = Ins("Print", "I32", Zero, At("top", 0), Zero)
        BY <1>4 DEF MainListing
    <2>2. /\ Quiet /\ pc' = pc + 1
          /\ stack_bottom' = stack_bottom /\ stack' = stack
        BY <2>1, DoesPrint
    <2>3. Number(0, Triangle(n))'
        BY <2>0, <2>2, SameStack DEF Number
    <2>4. InMain(b, n, m)'
        BY <1>0, <1>4, <2>0, <2>2, <2>3 DEF InMain, Quiet
    <2> QED BY <2>4
<1>5. CASE pc = b + 4
    <2>0. stack_bottom = Third /\ Number(0, Triangle(n))
        BY <1>5 DEF InMain
    <2>1. ins = Ins("Set", "I32", At("tail", 0), Num(m), Zero)
        BY <1>5 DEF MainListing
    <2>2. At("tail", 0) \in Address /\ Index(At("tail", 0)) = Third
        BY <2>0, Addresses
    <2>3. /\ Quiet /\ pc' = pc + 1 /\ stack_bottom' = stack_bottom
          /\ Written(Third, IntSize, m)
        BY <1>0, <2>1, <2>2, DoesSet DEF Types, IntSize
    <2>4. Number(Third, m)'
        BY <1>0, <2>3, WrittenIsKept DEF Number
    <2>5. Number(0, Triangle(n))'
        BY <2>0, <2>3, WrittenElsewhere DEF Number
    <2>6. InMain(b, n, m)'
        BY <1>0, <1>5, <2>0, <2>3, <2>4, <2>5 DEF InMain, Quiet
    <2> QED BY <2>6
<1>6. CASE pc = b + 5
    <2>0. stack_bottom = Third /\ Number(Third, m) /\ Number(0, Triangle(n))
        BY <1>6 DEF InMain
    <2>1. ins = Ins("Call", "I8", Zero, At("top", Second), Zero)
        BY <1>6 DEF MainListing
    <2>2. /\ status' = status /\ stack' = stack
          /\ pc' = 0 /\ stack_top' = Third /\ Len(call_stack') = 1
          /\ call_stack'[1].pc = b + 6 /\ call_stack'[1].ret_res_addr = At("top", Second)
          /\ call_stack'[1].stack_top = 0 /\ call_stack'[1].stack_bottom = Third
        BY <1>0, <1>6, <2>0, <2>1, DoesCall
    <2>3. Number(Third, m)' /\ Number(0, Triangle(n))'
        BY <2>0, <2>2, SameStack DEF Number
    <2>4. Called(m)' /\ Waiting(b, n, m, m)'
        <3>1. call_stack' # <<>>
            BY <2>2, NotEmpty, Zenon
        <3> QED BY <1>0, <2>2, <2>3, <3>1, Zenon DEF Called, Waiting
    <2> QED BY <2>4
<1>7. CASE pc = b + 6
    <2>0. Number(0, Triangle(n)) /\ Number(Second, Triangle(m))
        BY <1>7 DEF InMain
    <2>1. ins = Ins("Return", "I8", Zero, Zero, Zero)
        BY <1>7 DEF MainListing
    <2>2. Finish
        <3>1. ins.op = "Return"
            BY <2>1 DEF Ins
        <3> QED BY <1>0, <3>1, Which DEF Return
    <2>3. /\ status' = "finished" /\ pc' = pc /\ stack' = stack
          /\ call_stack' = call_stack /\ stack_top' = stack_top
        BY <2>2 DEF Finish, frame
    <2>4. Number(0, Triangle(n))' /\ Number(Second, Triangle(m))'
        BY <2>0, <2>3, SameStack DEF Number
    <2>5. InMain(b, n, m)'
        BY <1>0, <1>7, <2>3, <2>4 DEF InMain
    <2> QED BY <2>5
<1> QED BY <1>1, <1>2, <1>3, <1>4, <1>5, <1>6, <1>7 DEF InMain

(* The frames of functions lie above main's. *)
LEMMA AboveMain ==
    ASSUME Goes, NEW b, NEW n, NEW m, NEW x, Waiting(b, n, m, x)
    PROVE  /\ Len(call_stack) \in Nat /\ Len(call_stack) >= 1
           /\ stack_top \in Nat /\ Third <= stack_top
           /\ Len(call_stack) = 1 => stack_top = Third
           /\ \A i \in 2 .. Len(call_stack) :
                call_stack[i] \in CallPoint /\ Third <= call_stack[i].stack_top
<1>1. FrameTypeOK /\ FrameChain /\ stack_top \in Nat
    BY DEF Goes, TypeOK, FrameTypeOK
<1>2. Len(call_stack) \in Nat /\ Len(call_stack) >= 1
    BY <1>1, CallerType DEF Waiting
<1>3. FrameBottom(1) = Third
    BY <1>2 DEF FrameBottom, Waiting
<1>4. ASSUME NEW j \in 2 .. Len(call_stack) + 1 PROVE Third <= FrameTop(j)
    <2>1. 1 \in 1 .. Len(call_stack) + 1 /\ j \in 1 .. Len(call_stack) + 1 /\ 1 < j
        BY <1>2
    <2> QED BY <1>1, <1>3, <2>1, FramesOrdered
<1>5. Third <= stack_top
    <2>1. Len(call_stack) + 1 \in 2 .. Len(call_stack) + 1
        BY <1>2
    <2>2. FrameTop(Len(call_stack) + 1) = stack_top
        BY <1>2 DEF FrameTop
    <2> QED BY <1>4, <2>1, <2>2
<1>6. CASE Len(call_stack) = 1
    BY <1>1, <1>2, <1>3, <1>6 DEF FrameChain, FrameTop
<1>7. ASSUME NEW i \in 2 .. Len(call_stack)
      PROVE  call_stack[i] \in CallPoint /\ Third <= call_stack[i].stack_top
    <2>1. i \in 2 .. Len(call_stack) + 1 /\ ~(i > Len(call_stack))
        BY <1>2
    <2>2. call_stack[i] \in CallPoint
        BY <1>1, <1>2 DEF FrameTypeOK
    <2> QED BY <1>4, <2>1, <2>2 DEF FrameTop
<1> QED BY <1>1, <1>2, <1>5, <1>6, <1>7

LEMMA StillWaiting ==
    ASSUME Goes, NEW b, NEW n, NEW m, NEW x, Waiting(b, n, m, x),
           call_stack' # <<>>, call_stack'[1] = call_stack[1], status' = "running",
           Third <= stack_top'
    PROVE  Waiting(b, n, m, x)'
<1>1. ASSUME Number(0, Triangle(n)) PROVE Number(0, Triangle(n))'
    <2>1. stack_top \in Nat /\ stack_top' \in Nat /\ Third <= stack_top
        BY AboveMain DEF Goes, TypeOK, FrameTypeOK
    <2>2. 0 + IntSize <= stack_top /\ 0 + IntSize <= stack_top' /\ IntSize \in Nat
        BY <2>1, Sizes
    <2> QED BY <1>1, <2>2, BelowKept DEF Number
<1> QED BY <1>1 DEF Waiting

LEMMA QuietWaiting ==
    ASSUME Goes, NEW b, NEW n, NEW m, NEW x, Waiting(b, n, m, x), Quiet
    PROVE  Waiting(b, n, m, x)'
<1>1. status = "running" /\ call_stack # <<>>
    BY DEF Waiting
<1>2. /\ call_stack' # <<>> /\ call_stack'[1] = call_stack[1]
      /\ status' = "running" /\ Third <= stack_top'
    BY <1>1, AboveMain DEF Quiet
<1> QED BY <1>2, StillWaiting

LEMMA ReturnsToMain ==
    ASSUME Goes, NEW b \in Nat, NEW n, NEW m, NEW x, Waiting(b, n, m, x),
           Len(call_stack) = 1, NEW o \in Nat,
           ins = Ins("Return", "I8", At("top", o), Num(IntSize), Zero),
           NEW t, t = stack_top, Number(t + o, Triangle(x))
    PROVE  InMain(b, n, m)'
<1>1. /\ Caller = call_stack[1] /\ call_stack # <<>> /\ status = "running"
      /\ Caller.stack_top = 0 /\ Caller.stack_bottom = Third
    BY DEF Caller, Waiting
<1> DEFINE returns(q) ==
             /\ status' = status /\ pc' = Caller.pc /\ stack_top' = 0
             /\ stack_bottom' = Caller.stack_bottom
             /\ Len(call_stack') = Len(call_stack) - 1
             /\ Number(0 + q, Triangle(x))'
             /\ \A i, e \in Nat : \A v :
                  /\ Keeps(i, e, v)
                  /\ i + e <= 0 + q \/ (0 + q) + IntSize <= i
                  => Keeps(i, e, v)'
<1>2. ASSUME NEW q \in Nat, Caller.ret_res_addr = At("top", q) PROVE returns(q)
    BY <1>1, <1>2, DoesReturn
<1>3. ASSUME Len(call_stack') = 0 PROVE call_stack' = <<>>
    BY <1>3 DEF Goes, TypeOK, FrameTypeOK
<1>4. CASE /\ Caller.pc = b + 3 /\ x = n /\ Caller.ret_res_addr = At("top", 0)
    <2>1. returns(0)
        BY <1>2, <1>4
    <2>2. Number(0, Triangle(n))' /\ Len(call_stack') = 0
        BY <1>4, <2>1
    <2> QED BY <1>1, <1>3, <1>4, <2>1, <2>2 DEF InMain
<1>5. CASE /\ Caller.pc = b + 6 /\ x = m /\ Caller.ret_res_addr = At("top", Second)
           /\ Number(0, Triangle(n))
    <2>1. Second \in Nat
        BY Sizes
    <2>2. returns(Second)
        BY <1>2, <1>5, <2>1
    <2>3. Number(Second, Triangle(m))' /\ Len(call_stack') = 0
        BY <1>5, <2>2, Sizes
    <2>4. Number(0, Triangle(n))'
        BY <1>5, <2>2, Sizes DEF Number
    <2> QED BY <1>1, <1>3, <1>5, <2>2, <2>3, <2>4 DEF InMain
<1> QED BY <1>1, <1>4, <1>5 DEF Waiting

-----------------------------------------------------------------------------
(* The loop                                                                *)

LEMMA LoopSteps ==
    ASSUME Goes, NEW n \in Inputs, NEW m \in Inputs, program = Loop \o Main(n, m),
           NEW x \in Inputs, Waiting(8, n, m, x), InLoop(x)
    PROVE  LoopInv(n, m)'
<1>1. PICK t : t = stack_top
    OBVIOUS
<1>2. t \in Nat /\ Third <= t /\ Len(call_stack) = 1 /\ LoopAt(t, x) /\ Number(t, x)
    BY <1>1, AboveMain DEF InLoop, LoopAt
<1>3. /\ x \in Nat /\ x > 0 /\ Modulus(IntSize) \in Nat /\ 2 < Modulus(IntSize)
      /\ \A c \in 0 .. x :
           /\ c < Modulus(IntSize) /\ 2 * c < Modulus(IntSize)
           /\ Triangle(c) \in Nat
           /\ Triangle(c) < Modulus(IntSize) /\ 2 * Triangle(c) < Modulus(IntSize)
    <2>1. x \in Nat
        BY InputsAssumption
    <2> QED BY <2>1, Fits
<1>4. \A o \in Nat : /\ At("top", o) \in Address
                     /\ Index(At("top", o)) = t + o
    BY <1>1, Addresses
(* An instruction of the body leaves main waiting. *)
<1>5. ASSUME Quiet, LoopAt(t, x)' PROVE LoopInv(n, m)'
    <2>1. Waiting(8, n, m, x)'
        BY <1>5, QuietWaiting
    <2>2. InLoop(x)'
        BY <1>1, <1>2, <1>5 DEF Quiet, InLoop
    <2> QED BY <2>1, <2>2 DEF LoopInv
<1> USE Sizes
<1>6. CASE pc = 0
    <2>1. ins = Ins("SetStackBottom", "I8", Num(FrameSize), Zero, Zero)
        BY <1>6, LoopListing
    <2>2. Quiet /\ pc' = 1 /\ stack' = stack
        BY <1>6, <2>1, DoesSetStackBottom
    <2>3. Number(t, x)'
        BY <1>2, <2>2, SameStack DEF Number
    <2>4. LoopAt(t, x)'
        BY <2>2, <2>3 DEF LoopAt
    <2> QED BY <1>5, <2>2, <2>4
<1>7. CASE pc = 1
    <2>1. ins = Ins("Set", "I32", At("top", Second), Num(0), Zero)
        BY <1>7, LoopListing DEF Zero
    <2>2. Quiet /\ pc' = 2 /\ Written(t + Second, IntSize, 0)
        BY <1>4, <1>7, <2>1, DoesSet, SMTT(30) DEF Types, IntSize
    <2>3. Number(t + Second, 0)'
        BY <1>3, <2>2, WrittenIsKept DEF Number
    <2>4. Number(t, x)'
        BY <1>2, <2>2, WrittenElsewhere DEF Number
    <2>5. LoopAt(t, x)'
        BY <2>2, <2>3, <2>4 DEF LoopAt
    <2> QED BY <1>5, <2>2, <2>5
<1>8. CASE pc = 2
    <2>0. Number(t + Second, 0)
        BY <1>2, <1>8 DEF LoopAt
    <2>1. ins = Ins("Set", "I32", At("top", Third), Num(0), Zero)
        BY <1>8, LoopListing DEF Zero
    <2>2. Quiet /\ pc' = 3 /\ Written(t + Third, IntSize, 0)
        BY <1>4, <1>8, <2>1, DoesSet, SMTT(30) DEF Types, IntSize
    <2>3. Number(t + Third, 0)'
        BY <1>3, <2>2, WrittenIsKept DEF Number
    <2>4. Number(t, x)' /\ Number(t + Second, 0)'
        BY <1>2, <2>0, <2>2, WrittenElsewhere DEF Number
    <2>5. LoopAt(t, x)'
        BY <2>2, <2>3, <2>4 DEF LoopAt
    <2> QED BY <1>5, <2>2, <2>5
<1>9. CASE pc = 3
    <2>0. Number(t + Second, 0) /\ Number(t + Third, 0)
        BY <1>2, <1>9 DEF LoopAt
    <2>1. ins = Ins("SavePC", "I64", At("top", Fourth), Zero, Zero)
        BY <1>9, LoopListing
    <2>2. Quiet /\ pc' = 4 /\ Written(t + Fourth, PcSize, 4)
        BY <1>4, <1>9, <2>1, DoesSavePC
    <2>3. Keeps(t + Fourth, PcSize, 4)'
        <3>1. 4 < Modulus(PcSize)
            <4>1. Modulus(PcSize) \in Nat /\ Modulus(PcSize) > 5
                BY InputsAssumption, ModulusRight
            <4> QED BY <4>1
        <3> QED BY <2>2, <3>1, WrittenIsKept
    <2>4. Number(t, x)' /\ Number(t + Second, 0)' /\ Number(t + Third, 0)'
        BY <1>2, <2>0, <2>2, WrittenElsewhere DEF Number
    <2>5. Triangle(0) = 0 /\ 0 \in 0 .. x
        <3>1. 0 \in 0 .. x
            BY <1>3
        <3> QED BY <3>1, TriangleRight, Zenon
    <2>6. LoopAt(t, x)'
        BY <1>3, <2>2, <2>3, <2>4, <2>5 DEF LoopAt
    <2> QED BY <1>5, <2>2, <2>6
<1>10. CASE pc = 4
    <2>0. PICK c \in 0 .. x : /\ Number(t + Second, c) /\ Keeps(t + Fourth, PcSize, 4)
                              /\ c < x /\ Number(t + Third, Triangle(c))
        BY <1>2, <1>10 DEF LoopAt
    <2>1. ins = Ins("AddD", "I32", At("top", Second), Num(1), Zero)
        BY <1>10, LoopListing
    <2>2. Value(At("top", Second), "I32") = c /\ c \in Nat /\ c + 1 \in 0 .. x
        BY <1>1, <1>3, <2>0, Reads
    <2>3. Quiet /\ pc' = 5 /\ Written(t + Second, IntSize, c + 1)
        BY <1>3, <1>4, <1>10, <2>1, <2>2, DoesAddOne
    <2>4. Number(t + Second, c + 1)'
        BY <1>3, <2>2, <2>3, WrittenIsKept DEF Number
    <2>5. /\ Number(t, x)' /\ Number(t + Third, Triangle(c))'
          /\ Keeps(t + Fourth, PcSize, 4)'
        BY <1>2, <2>0, <2>3, WrittenElsewhere DEF Number
    <2>6. (c + 1) - 1 = c /\ c + 1 > 0
        BY <2>2
    <2>7. LoopAt(t, x)'
        BY <2>2, <2>3, <2>4, <2>5, <2>6 DEF LoopAt
    <2> QED BY <1>5, <2>3, <2>7
<1>11. CASE pc = 5
    <2>0. PICK c \in 0 .. x : /\ Number(t + Second, c) /\ Keeps(t + Fourth, PcSize, 4)
                              /\ c > 0 /\ Number(t + Third, Triangle(c - 1))
        BY <1>2, <1>11 DEF LoopAt
    <2>1. ins = Ins("Add", "I32", At("top", Third), At("top", Third), At("top", Second))
        BY <1>11, LoopListing
    <2>2. c \in Nat /\ c - 1 \in Nat /\ c - 1 \in 0 .. x /\ (c - 1) + 1 = c
        BY <1>3, <2>0
    <2>3. PICK y \in Nat : y = Triangle(c - 1) /\ 2 * y < Modulus(IntSize)
        BY <1>3, <2>2
    <2>4. Triangle(c) = y + c
        BY <2>2, <2>3, TriangleRight
    <2>5. Quiet /\ pc' = 6 /\ Written(t + Third, IntSize, Triangle(c))
        <3>1. Value(At("top", Second), "I32") = c
            BY <1>1, <1>3, <2>0, <2>2, Reads
        <3>2. Value(At("top", Third), "I32") = y
            BY <1>1, <2>0, <2>3, Reads
        <3>3. /\ Quiet /\ pc' = pc + 1
              /\ Written(t + Third, IntSize, y + c)
            <4>1. /\ At("top", Third) \in Address /\ At("top", Second) \in Address
                  /\ Index(At("top", Third)) = t + Third
                BY <1>4
            <4> QED BY <2>1, <2>2, <2>3, <3>1, <3>2, <4>1, DoesAdd
        <3> QED BY <1>11, <2>4, <3>3
    <2>6. Number(t + Third, Triangle(c))'
        BY <1>3, <2>5, WrittenIsKept DEF Number
    <2>7. /\ Number(t, x)' /\ Number(t + Second, c)' /\ Keeps(t + Fourth, PcSize, 4)'
        BY <1>2, <2>0, <2>5, WrittenElsewhere DEF Number
    <2>8. LoopAt(t, x)'
        BY <2>0, <2>5, <2>6, <2>7 DEF LoopAt
    <2> QED BY <1>5, <2>5, <2>8
<1>12. CASE pc = 6
    <2>0. PICK c \in 0 .. x : /\ Number(t + Second, c) /\ Keeps(t + Fourth, PcSize, 4)
                              /\ c > 0 /\ Number(t + Third, Triangle(c))
        BY <1>2, <1>12 DEF LoopAt
    <2>1. ins = Ins("JumpGt", "I32", At("top", 0), At("top", Second), At("top", Fourth))
        BY <1>12, LoopListing
    <2>2. t + 0 = t /\ c \in Nat /\ x \in 0 .. x
        BY <1>2, <1>3
    <2>3. Value(At("top", 0), "I32") = x /\ Value(At("top", Second), "I32") = c
        <3>1. /\ 0 \in Nat /\ Second \in Nat /\ Number(t + 0, x)
              /\ 2 * x < Modulus(IntSize) /\ 2 * c < Modulus(IntSize)
            BY <1>2, <1>3, <2>2, Sizes
        <3>2. Value(At("top", 0), "I32") = x
            BY <1>1, <1>3, <3>1, Reads
        <3>3. Value(At("top", Second), "I32") = c
            BY <1>1, <2>0, <2>2, <3>1, Reads
        <3> QED BY <3>2, <3>3
    <2>4. Quiet /\ pc' = (IF x > c THEN 4 ELSE 7) /\ stack' = stack
        <3>1. /\ Quiet /\ pc' = (IF x > c THEN 4 ELSE pc + 1) /\ stack' = stack
            <4>1. /\ At("top", 0) \in Address /\ At("top", Second) \in Address
                  /\ At("top", Fourth) \in Address
                  /\ Index(At("top", Fourth)) = t + Fourth
                BY <1>4
            <4> QED BY <1>3, <2>0, <2>1, <2>2, <2>3, <4>1, DoesJump
        <3> QED BY <1>12, <3>1
    <2>5. /\ Number(t, x)' /\ Number(t + Second, c)' /\ Number(t + Third, Triangle(c))'
          /\ Keeps(t + Fourth, PcSize, 4)'
        BY <1>2, <2>0, <2>4, SameStack DEF Number
    <2>6. CASE x > c
        <3>1. LoopAt(t, x)'
            BY <2>4, <2>5, <2>6 DEF LoopAt
        <3> QED BY <1>5, <2>4, <3>1
    <2>7. CASE ~(x > c)
        <3>1. x = c
            BY <1>3, <2>7
        <3>2. LoopAt(t, x)'
            BY <2>4, <2>5, <2>7, <3>1 DEF LoopAt
        <3> QED BY <1>5, <2>4, <3>2
    <2> QED BY <2>6, <2>7
<1>13. CASE pc = 7
    <2>0. Number(t + Third, Triangle(x))
        BY <1>2, <1>13 DEF LoopAt
    <2>1. ins = Ins("Return", "I8", At("top", Third), Num(IntSize), Zero)
        BY <1>13, LoopListing
    <2>2. InMain(8, n, m)'
        BY <1>1, <1>2, <2>0, <2>1, ReturnsToMain
    <2> QED BY <2>2 DEF LoopInv
<1> QED BY <1>2, <1>6, <1>7, <1>8, <1>9, <1>10, <1>11, <1>12, <1>13 DEF LoopAt

-----------------------------------------------------------------------------
(* The recursion                                                           *)

LEMMA StillSuspended ==
    ASSUME Goes, NEW b, NEW n, NEW m, NEW x, Waiting(b, n, m, x),
           NEW i \in 2 .. Len(call_stack), Suspended(x, i),
           call_stack'[i] = call_stack[i], call_stack[i].stack_bottom <= stack_top'
    PROVE  Suspended(x, i)'
<1>1. PICK k : k = call_stack[i].stack_top
    OBVIOUS
<1>2. /\ Len(call_stack) \in Nat /\ call_stack[i] \in CallPoint /\ k \in Nat
      /\ stack_top \in Nat /\ stack_top' \in Nat
      /\ call_stack[i].stack_bottom = k + FrameSize
    BY <1>1, AboveMain DEF CallPoint, Goes, TypeOK, FrameTypeOK, Suspended
<1>3. k + FrameSize <= stack_top
    <2>1. /\ i \in 1 .. Len(call_stack) + 1
          /\ Len(call_stack) + 1 \in 1 .. Len(call_stack) + 1
          /\ i < Len(call_stack) + 1
        BY <1>2
    <2>2. FrameBottom(i) <= FrameTop(Len(call_stack) + 1)
        BY <2>1, FramesOrdered DEF Goes, TypeOK
    <2> QED BY <1>2, <2>1, <2>2 DEF FrameTop, FrameBottom
<1>4. k + IntSize <= stack_top /\ k + IntSize <= stack_top' /\ IntSize \in Nat
    BY <1>2, <1>3, Sizes
<1>5. PICK v : v = Argument(x, i)
    OBVIOUS
<1>6. Number(k, v)
    BY <1>1, <1>5 DEF Suspended
<1>7. Number(k, v)'
    BY <1>2, <1>4, <1>6, BelowKept DEF Number
<1> QED BY <1>1, <1>5, <1>7 DEF Suspended

(* Recursion hands its result to main, or to the call before it. *)
LEMMA RecursionReturns ==
    ASSUME Goes, NEW n, NEW m, NEW x \in Inputs, Waiting(9, n, m, x), InRecursion(x),
           NEW a, a = Argument(x, Len(call_stack) + 1), a \in Nat, a > 0,
           NEW o \in Nat,
           ins = Ins("Return", "I8", At("top", o), Num(IntSize), Zero),
           NEW t, t = stack_top, Number(t + o, Triangle(a))
    PROVE  RecursionInv(n, m)'
<1>1. PICK d \in Nat : d = Len(call_stack) /\ d >= 1
    BY AboveMain
<1>2. x \in Nat /\ a = x - (d - 1)
    <2>1. x \in Nat
        BY InputsAssumption
    <2> QED BY <1>1, <2>1 DEF Argument
<1>3. CASE d = 1
    <2>1. a = x
        BY <1>2, <1>3
    <2>2. InMain(9, n, m)'
        BY <1>1, <1>3, <2>1, ReturnsToMain
    <2> QED BY <2>2 DEF RecursionInv
<1>4. CASE d # 1
    <2>1. d \in 2 .. d /\ Caller = call_stack[d]
        BY <1>1, <1>4 DEF Caller
    <2>2. /\ Suspended(x, d) /\ Caller \in CallPoint /\ Third <= Caller.stack_top
        BY <1>1, <2>1, AboveMain DEF InRecursion
    <2>3. PICK r \in Nat : r = Caller.stack_top
        BY <2>2 DEF CallPoint
    <2>4. /\ Caller.pc = 7 /\ Caller.ret_res_addr = At("top", BehindPc)
          /\ Caller.stack_bottom = r + FrameSize
          /\ Argument(x, d) = a + 1 /\ Number(r, a + 1)
        BY <1>2, <2>1, <2>2, <2>3, SMTT(30) DEF Suspended, Argument
    <2>5. /\ status' = status /\ pc' = 7
          /\ stack_top' = r /\ stack_bottom' = r + FrameSize
          /\ Len(call_stack') = d - 1
          /\ \A i \in 1 .. d - 1 : call_stack'[i] = call_stack[i]
          /\ Number(r + BehindPc, Triangle(a))'
          /\ \A i, e \in Nat : \A v :
                /\ Keeps(i, e, v)
                /\ i + e <= r + BehindPc \/ (r + BehindPc) + IntSize <= i
                => Keeps(i, e, v)'
        <3>1. call_stack # <<>> /\ BehindPc \in Nat
            BY Sizes DEF Waiting
        <3> QED BY <1>1, <2>3, <2>4, <3>1, DoesReturn, SMTT(30)
    <2>6. Number(r, a + 1)'
        <3>1. r + IntSize <= r + BehindPc /\ IntSize \in Nat
            BY <2>3, Sizes
        <3> QED BY <2>3, <2>4, <2>5, <3>1 DEF Number
    <2>7. RecursionAt(r, a + 1)'
        <3>1. a + 1 > 1 /\ a + 1 > 0 /\ (a + 1) - 1 = a
            OBVIOUS
        <3> QED BY <2>5, <2>6, <3>1 DEF RecursionAt
    <2>8. Waiting(9, n, m, x)'
        <3>1. call_stack' # <<>>
            <4>1. d - 1 # 0
                BY <1>4
            <4> QED BY <2>5, <4>1
        <3>2. call_stack'[1] = call_stack[1] /\ status' = "running" /\ Third <= stack_top'
            BY <1>1, <1>4, <2>2, <2>3, <2>5 DEF Waiting
        <3> QED BY <3>1, <3>2, StillWaiting
    <2>9. ASSUME NEW i \in 2 .. d - 1 PROVE Suspended(x, i)'
        <3>1. /\ i \in 2 .. Len(call_stack) /\ i \in 1 .. d - 1
              /\ i \in 1 .. Len(call_stack) + 1 /\ d \in 1 .. Len(call_stack) + 1
              /\ i < d /\ ~(i > Len(call_stack)) /\ ~(d > Len(call_stack))
            BY <1>1
        <3>2. FrameBottom(i) <= FrameTop(d)
            BY <3>1, FramesOrdered DEF Goes, TypeOK
        <3>3. call_stack[i].stack_bottom <= stack_top'
            BY <2>1, <2>3, <2>5, <3>1, <3>2 DEF FrameBottom, FrameTop
        <3>4. Suspended(x, i) /\ call_stack'[i] = call_stack[i]
            BY <2>5, <3>1 DEF InRecursion
        <3> QED BY <3>1, <3>3, <3>4, StillSuspended
    <2>10. InRecursion(x)'
        <3>1. PICK e : e = a + 1 /\ e = Argument(x, (d - 1) + 1)
            BY <1>2, <2>4 DEF Argument
        <3>2. RecursionAt(r, e)'
            BY <2>7, <3>1
        <3> QED BY <2>5, <2>9, <3>1, <3>2 DEF InRecursion
    <2> QED BY <2>8, <2>10 DEF RecursionInv
<1> QED BY <1>3, <1>4

(* Recursion calls itself with one less. *)
LEMMA RecursionCalls ==
    ASSUME Goes, NEW n, NEW m, NEW x \in Inputs, Waiting(9, n, m, x), InRecursion(x),
           NEW a, a = Argument(x, Len(call_stack) + 1), a \in Nat, a > 1,
           ins = Ins("Call", "I8", Zero, At("top", BehindPc), Zero), pc = 6,
           NEW t \in Nat, t = stack_top, stack_bottom = t + FrameSize,
           Number(t, a), Number(t + FrameSize, a - 1)
    PROVE  RecursionInv(n, m)'
<1>1. PICK d \in Nat : d = Len(call_stack) /\ d >= 1
    BY AboveMain
<1>2. x \in Nat /\ a = x - (d - 1)
    <2>1. x \in Nat
        BY InputsAssumption
    <2> QED BY <1>1, <2>1 DEF Argument
<1>3. /\ status' = status /\ stack' = stack /\ pc' = 0
      /\ stack_top' = t + FrameSize /\ stack_bottom' = t + FrameSize
      /\ Len(call_stack') = d + 1
      /\ \A i \in 1 .. d : call_stack'[i] = call_stack[i]
      /\ call_stack'[d + 1].pc = 7
      /\ call_stack'[d + 1].ret_res_addr = At("top", BehindPc)
      /\ call_stack'[d + 1].stack_top = t
      /\ call_stack'[d + 1].stack_bottom = t + FrameSize
    BY <1>1, DoesCall
<1>4. Number(t, a)' /\ Number(t + FrameSize, a - 1)'
    BY <1>3, SameStack DEF Number
<1>5. RecursionAt(t + FrameSize, a - 1)'
    <2>1. a - 1 > 0
        OBVIOUS
    <2> QED BY <1>3, <1>4, <2>1 DEF RecursionAt
<1>6. Waiting(9, n, m, x)'
    <2>1. call_stack' # <<>>
        <3>1. d + 1 # 0
            BY <1>1
        <3> QED BY <1>3, <3>1
    <2>2. call_stack'[1] = call_stack[1] /\ status' = "running" /\ Third <= stack_top'
        BY <1>1, <1>3, AboveMain, Sizes DEF Waiting
    <2> QED BY <2>1, <2>2, StillWaiting
<1>7. ASSUME NEW i \in 2 .. d PROVE Suspended(x, i)'
    <2>1. /\ i \in 2 .. Len(call_stack) /\ i \in 1 .. d
          /\ i \in 1 .. Len(call_stack) + 1 /\ d + 1 \in 1 .. Len(call_stack) + 1
          /\ i < d + 1 /\ ~(i > Len(call_stack)) /\ d + 1 > Len(call_stack)
        BY <1>1
    <2>2. FrameBottom(i) <= FrameTop(d + 1)
        BY <2>1, FramesOrdered DEF Goes, TypeOK
    <2>3. call_stack[i].stack_bottom <= stack_top
        BY <2>1, <2>2 DEF FrameBottom, FrameTop
    <2>4. Suspended(x, i) /\ call_stack'[i] = call_stack[i] /\ call_stack[i] \in CallPoint
        BY <1>3, <2>1, AboveMain DEF InRecursion
    <2>5. call_stack[i].stack_bottom <= stack_top'
        BY <1>3, <2>3, <2>4, Sizes, SMTT(30) DEF CallPoint
    <2> QED BY <2>1, <2>4, <2>5, StillSuspended
<1>8. Suspended(x, d + 1)'
    <2>1. PICK e : e = a /\ e = Argument(x, d + 1)
        BY <1>1
    <2>2. Number(t, e)'
        BY <1>4, <2>1
    <2> QED BY <1>3, <2>1, <2>2 DEF Suspended
<1>9. InRecursion(x)'
    <2>1. PICK e : e = a - 1 /\ e = Argument(x, (d + 1) + 1)
        BY <1>2 DEF Argument
    <2>2. RecursionAt(t + FrameSize, e)'
        BY <1>5, <2>1
    <2>3. ASSUME NEW i \in 2 .. d + 1 PROVE Suspended(x, i)'
        <3>1. i \in 2 .. d \/ i = d + 1
            BY <1>1
        <3> QED BY <1>7, <1>8, <3>1
    <2> QED BY <1>3, <2>1, <2>2, <2>3 DEF InRecursion
<1> QED BY <1>6, <1>9 DEF RecursionInv

LEMMA RecursionSteps ==
    ASSUME Goes, NEW n \in Inputs, NEW m \in Inputs, program = Recursion \o Main(n, m),
           NEW x \in Inputs, Waiting(9, n, m, x), InRecursion(x)
    PROVE  RecursionInv(n, m)'
<1>1. PICK t, a : t = stack_top /\ a = Argument(x, Len(call_stack) + 1)
    OBVIOUS
<1>2. /\ t \in Nat /\ RecursionAt(t, a) /\ Number(t, a)
      /\ a \in Nat /\ a > 0 /\ a <= x /\ x \in Nat
    <2>1. t \in Nat /\ Len(call_stack) \in Nat /\ Len(call_stack) >= 1 /\ x \in Nat
        BY <1>1, AboveMain, InputsAssumption
    <2>2. RecursionAt(t, a)
        BY <1>1 DEF InRecursion
    <2>3. Number(t, a) /\ a > 0
        BY <2>2 DEF RecursionAt
    <2> QED BY <1>1, <2>1, <2>2, <2>3 DEF Argument
<1>3. /\ Modulus(IntSize) \in Nat /\ 2 < Modulus(IntSize)
      /\ \A c \in 0 .. a :
           /\ c < Modulus(IntSize) /\ 2 * c < Modulus(IntSize)
           /\ Triangle(c) \in Nat
           /\ Triangle(c) < Modulus(IntSize) /\ 2 * Triangle(c) < Modulus(IntSize)
    <2>1. ASSUME NEW c \in 0 .. a PROVE c \in Nat /\ c <= x
        BY <1>2
    <2>2. 0 \in 0 .. a
        BY <1>2
    <2> QED BY <2>1, <2>2, Fits
<1>4. \A o \in Nat : /\ At("top", o) \in Address /\ Index(At("top", o)) = t + o
    BY <1>1, Addresses
(* An instruction of the body leaves main and the calls before waiting. *)
<1>5. ASSUME Quiet, RecursionAt(t, a)' PROVE RecursionInv(n, m)'
    <2>1. Waiting(9, n, m, x)'
        BY <1>5, QuietWaiting
    <2>2. ASSUME NEW i \in 2 .. Len(call_stack) PROVE Suspended(x, i)'
        <3>1. /\ Len(call_stack) \in Nat
              /\ Suspended(x, i) /\ call_stack'[i] = call_stack[i]
            BY <1>5, AboveMain DEF InRecursion, Quiet
        <3>2. /\ i \in 1 .. Len(call_stack) + 1
              /\ Len(call_stack) + 1 \in 1 .. Len(call_stack) + 1
              /\ i < Len(call_stack) + 1 /\ ~(i > Len(call_stack))
            BY <3>1
        <3>3. FrameBottom(i) <= FrameTop(Len(call_stack) + 1)
            BY <3>2, FramesOrdered DEF Goes, TypeOK
        <3>4. call_stack[i].stack_bottom <= stack_top'
            BY <1>5, <3>2, <3>3 DEF FrameBottom, FrameTop, Quiet
        <3> QED BY <3>1, <3>4, StillSuspended
    <2>3. InRecursion(x)'
        BY <1>1, <1>5, <2>2 DEF Quiet, InRecursion
    <2> QED BY <2>1, <2>3 DEF RecursionInv
<1> USE Sizes
<1>6. CASE pc = 0
    <2>1. ins = Ins("SetStackBottom", "I8", Num(FrameSize), Zero, Zero)
        BY <1>6, RecursionListing
    <2>2. Quiet /\ pc' = 1 /\ stack' = stack /\ stack_bottom' = t + FrameSize
        BY <1>1, <1>6, <2>1, DoesSetStackBottom
    <2>3. Number(t, a)'
        BY <1>2, <2>2, SameStack DEF Number
    <2>4. RecursionAt(t, a)'
        BY <1>2, <2>2, <2>3 DEF RecursionAt
    <2> QED BY <1>5, <2>2, <2>4
<1>7. CASE pc = 1
    <2>0. stack_bottom = t + FrameSize
        BY <1>2, <1>7 DEF RecursionAt
    <2>1. ins = Ins("Set", "I32", At("top", Second), Num(1), Zero)
        BY <1>7, RecursionListing
    <2>2. /\ Quiet /\ pc' = 2 /\ stack_bottom' = t + FrameSize
          /\ Written(t + Second, IntSize, 1)
        BY <1>4, <1>7, <2>0, <2>1, DoesSet, SMTT(30) DEF Types, IntSize
    <2>3. Number(t + Second, 1)'
        BY <1>3, <2>2, WrittenIsKept DEF Number
    <2>4. Number(t, a)'
        BY <1>2, <2>2, WrittenElsewhere DEF Number
    <2>5. RecursionAt(t, a)'
        BY <1>2, <2>2, <2>3, <2>4 DEF RecursionAt
    <2> QED BY <1>5, <2>2, <2>5
<1>8. CASE pc = 2
    <2>0. stack_bottom = t + FrameSize /\ Number(t + Second, 1)
        BY <1>2, <1>8 DEF RecursionAt
    <2>1. ins = Ins("Set", "I64", At("top", Third), Num(5), Zero)
        BY <1>8, RecursionListing
    <2>2. /\ Quiet /\ pc' = 3 /\ stack_bottom' = t + FrameSize
          /\ Written(t + Third, PcSize, 5)
        BY <1>4, <1>8, <2>0, <2>1, DoesSet DEF Types, PcSize
    <2>3. Keeps(t + Third, PcSize, 5)'
        <3>1. 5 < Modulus(PcSize)
            <4>1. Modulus(PcSize) \in Nat /\ Modulus(PcSize) > 5
                BY InputsAssumption, ModulusRight
            <4> QED BY <4>1
        <3> QED BY <2>2, <3>1, WrittenIsKept
    <2>4. Number(t, a)' /\ Number(t + Second, 1)'
        BY <1>2, <2>0, <2>2, WrittenElsewhere DEF Number
    <2>5. RecursionAt(t, a)'
        BY <1>2, <2>2, <2>3, <2>4 DEF RecursionAt
    <2> QED BY <1>5, <2>2, <2>5
<1>9. CASE pc = 3
    <2>0. /\ stack_bottom = t + FrameSize /\ Number(t + Second, 1)
          /\ Keeps(t + Third, PcSize, 5)
        BY <1>2, <1>9 DEF RecursionAt
    <2>1. ins = Ins("JumpGt", "I32", At("top", 0), At("top", Second), At("top", Third))
        BY <1>9, RecursionListing
    <2>2. t + 0 = t /\ 1 \in 0 .. a /\ a \in 0 .. a
        BY <1>2
    <2>3. Value(At("top", 0), "I32") = a /\ Value(At("top", Second), "I32") = 1
        <3>1. Number(t + 0, a) /\ 2 * a < Modulus(IntSize) /\ 2 * 1 < Modulus(IntSize)
            BY <1>2, <1>3, <2>2
        <3>2. Value(At("top", 0), "I32") = a
            BY <1>1, <1>2, <3>1, Reads
        <3>3. Value(At("top", Second), "I32") = 1
            BY <1>1, <2>0, <3>1, Reads
        <3> QED BY <3>2, <3>3
    <2>4. /\ Quiet /\ pc' = (IF a > 1 THEN 5 ELSE 4) /\ stack' = stack
          /\ stack_bottom' = t + FrameSize
        <3>1. /\ At("top", 0) \in Address /\ At("top", Second) \in Address
              /\ At("top", Third) \in Address
              /\ Index(At("top", Third)) = t + Third
            BY <1>4
        <3>2. /\ Quiet /\ pc' = (IF a > 1 THEN 5 ELSE pc + 1) /\ stack' = stack
              /\ stack_bottom' = stack_bottom
            BY <1>2, <2>0, <2>1, <2>3, <3>1, DoesJump
        <3> QED BY <1>9, <2>0, <3>2
    <2>5. Number(t, a)' /\ Number(t + Second, 1)'
        BY <1>2, <2>0, <2>4, SameStack DEF Number
    <2>6. CASE a > 1
        <3>1. RecursionAt(t, a)'
            BY <1>2, <2>4, <2>5, <2>6 DEF RecursionAt
        <3> QED BY <1>5, <2>4, <3>1
    <2>7. CASE ~(a > 1)
        <3>1. a = 1
            BY <1>2, <2>7
        <3>2. RecursionAt(t, a)'
            BY <1>2, <2>4, <2>5, <2>7, <3>1 DEF RecursionAt
        <3> QED BY <1>5, <2>4, <3>2
    <2> QED BY <2>6, <2>7
<1>10. CASE pc = 4
    <2>1. ins = Ins("Return", "I8", At("top", 0), Num(IntSize), Zero)
        BY <1>10, RecursionListing
    <2>2. a = 1 /\ t + 0 = t
        BY <1>2, <1>10 DEF RecursionAt
    <2>3. Triangle(a) = a
        BY <2>2, TriangleRight
    <2>4. Number(t + 0, Triangle(a))
        BY <1>2, <2>2, <2>3
    <2> QED BY <1>1, <1>2, <2>1, <2>4, RecursionReturns
<1>11. CASE pc = 5
    <2>0. stack_bottom = t + FrameSize /\ Number(t + Second, 1) /\ a > 1
        BY <1>2, <1>11 DEF RecursionAt
    <2>1. ins = Ins("Sub", "I32", At("tail", 0), At("top", 0), At("top", Second))
        BY <1>11, RecursionListing
    <2>2. t + 0 = t /\ 1 \in 0 .. a /\ a \in 0 .. a /\ a - 1 \in 0 .. a /\ a - 1 \in Nat
        BY <1>2
    <2>3. Value(At("top", 0), "I32") = a /\ Value(At("top", Second), "I32") = 1
        <3>1. Number(t + 0, a) /\ 2 * a < Modulus(IntSize) /\ 2 * 1 < Modulus(IntSize)
            BY <1>2, <1>3, <2>2
        <3>2. Value(At("top", 0), "I32") = a
            BY <1>1, <1>2, <3>1, Reads
        <3>3. Value(At("top", Second), "I32") = 1
            BY <1>1, <2>0, <3>1, Reads
        <3> QED BY <3>2, <3>3
    <2>4. /\ Quiet /\ pc' = 6 /\ stack_bottom' = t + FrameSize
          /\ Written(t + FrameSize, IntSize, a - 1)
        <3>1. /\ At("tail", 0) \in Address /\ At("top", 0) \in Address
              /\ At("top", Second) \in Address /\ Index(At("tail", 0)) = t + FrameSize
            BY <1>2, <2>0, Addresses
        <3>2. /\ Quiet /\ pc' = pc + 1 /\ stack_bottom' = stack_bottom
              /\ Written(t + FrameSize, IntSize, a - 1)
            BY <1>2, <2>1, <2>3, <3>1, DoesSub
        <3> QED BY <1>11, <2>0, <3>2
    <2>5. Number(t + FrameSize, a - 1)'
        BY <1>3, <2>2, <2>4, WrittenIsKept DEF Number
    <2>6. Number(t, a)'
        BY <1>2, <2>4, WrittenElsewhere DEF Number
    <2>7. RecursionAt(t, a)'
        BY <1>2, <2>0, <2>4, <2>5, <2>6 DEF RecursionAt
    <2> QED BY <1>5, <2>4, <2>7
<1>12. CASE pc = 6
    <2>0. stack_bottom = t + FrameSize /\ Number(t + FrameSize, a - 1) /\ a > 1
        BY <1>2, <1>12 DEF RecursionAt
    <2>1. ins = Ins("Call", "I8", Zero, At("top", BehindPc), Zero)
        BY <1>12, RecursionListing
    <2> QED BY <1>1, <1>2, <1>12, <2>0, <2>1, RecursionCalls
<1>13. CASE pc = 7
    <2>0. stack_bottom = t + FrameSize /\ Number(t + BehindPc, Triangle(a - 1)) /\ a > 1
        BY <1>2, <1>13 DEF RecursionAt
    <2>1. ins = Ins("Add", "I32", At("top", BehindPc), At("top", BehindPc), At("top", 0))
        BY <1>13, RecursionListing
    <2>2. /\ t + 0 = t /\ a \in 0 .. a /\ a - 1 \in 0 .. a /\ a - 1 \in Nat
          /\ (a - 1) + 1 = a
        BY <1>2
    <2>3. PICK y \in Nat : y = Triangle(a - 1) /\ 2 * y < Modulus(IntSize)
        BY <1>3, <2>2
    <2>4. Triangle(a) = y + a
        BY <2>2, <2>3, TriangleRight
    <2>5. Quiet /\ pc' = 8 /\ Written(t + BehindPc, IntSize, Triangle(a))
        <3>1. Value(At("top", 0), "I32") = a
            BY <1>1, <1>2, <1>3, <2>2, Reads, SMTT(30)
        <3>2. Value(At("top", BehindPc), "I32") = y
            BY <1>1, <2>0, <2>3, Reads
        <3>3. /\ At("top", 0) \in Address /\ At("top", BehindPc) \in Address
              /\ Index(At("top", BehindPc)) = t + BehindPc
            BY <1>4
        <3>4. Quiet /\ pc' = pc + 1 /\ Written(t + BehindPc, IntSize, y + a)
            BY <1>2, <2>1, <2>3, <3>1, <3>2, <3>3, DoesAdd
        <3> QED BY <1>13, <2>4, <3>4
    <2>6. Number(t + BehindPc, Triangle(a))'
        BY <1>3, <2>2, <2>5, WrittenIsKept DEF Number
    <2>7. Number(t, a)'
        BY <1>2, <2>5, WrittenElsewhere DEF Number
    <2>8. RecursionAt(t, a)'
        BY <1>2, <2>5, <2>6, <2>7 DEF RecursionAt
    <2> QED BY <1>5, <2>5, <2>8
<1>14. CASE pc = 8
    <2>0. Number(t + BehindPc, Triangle(a))
        BY <1>2, <1>14 DEF RecursionAt
    <2>1. ins = Ins("Return", "I8", At("top", BehindPc), Num(IntSize), Zero)
        BY <1>14, RecursionListing
    <2> QED BY <1>1, <1>2, <2>0, <2>1, RecursionReturns
<1> QED BY <1>2, <1>6, <1>7, <1>8, <1>9, <1>10, <1>11, <1>12, <1>13, <1>14
        DEF RecursionAt

-----------------------------------------------------------------------------
(* The programs                                                            *)

LEMMA ProgressInit == TestInit => Progress
<1> SUFFICES ASSUME TestInit, NEW n \in Inputs, NEW m \in Inputs
             PROVE  /\ program = Loop \o Main(n, m) => LoopInv(n, m)
                    /\ program = Recursion \o Main(n, m) => RecursionInv(n, m)
    BY DEF Progress
<1>1. Len(Main(0, 0)) = 7
    BY DEF Main
<1>2. /\ pc = IF program \in Functions THEN Len(program) - 7 ELSE 0
      /\ call_stack = <<>> /\ stack_top = 0 /\ status = "running"
    BY <1>1 DEF TestInit, Init, MachineInit
<1>3. ASSUME program = Loop \o Main(n, m) PROVE LoopInv(n, m)
    <2>1. program \in Functions
        BY <1>3, SMTT(30) DEF Functions
    <2>2. Len(program) = 8 + 7
        BY <1>3, LoopListing DEF MainListing
    <2>3. pc = 8
        BY <1>2, <2>1, <2>2
    <2> QED BY <1>2, <2>3 DEF LoopInv, InMain
<1>4. ASSUME program = Recursion \o Main(n, m) PROVE RecursionInv(n, m)
    <2>1. program \in Functions
        BY <1>4, SMTT(30) DEF Functions
    <2>2. Len(program) = 9 + 7
        BY <1>4, RecursionListing DEF MainListing
    <2>3. pc = 9
        BY <1>2, <2>1, <2>2
    <2> QED BY <1>2, <2>3 DEF RecursionInv, InMain
<1> QED BY <1>3, <1>4

LEMMA ProgressStep ==
    TypeOK /\ TypeOK' /\ FrameChain /\ Progress /\ [Next]_vars => Progress'
<1> SUFFICES ASSUME TypeOK, TypeOK', FrameChain, Progress, [Next]_vars
             PROVE  Progress'
    OBVIOUS
<1>1. CASE UNCHANGED vars
    <2>1. \A k, n, v : Number(k, v)' = Number(k, v) /\ Keeps(k, n, v)' = Keeps(k, n, v)
        BY <1>1 DEF vars, Number, Keeps, Load
    <2>2. \A b, n, m : InMain(b, n, m)' = InMain(b, n, m)
        BY <1>1, <2>1 DEF vars, InMain
    <2>3. \A b, n, m, x : Waiting(b, n, m, x)' = Waiting(b, n, m, x)
        BY <1>1, <2>1 DEF vars, Waiting
    <2>4. \A x : InLoop(x)' = InLoop(x)
        BY <1>1, <2>1 DEF vars, InLoop, LoopAt
    <2>5. \A x : InRecursion(x)' = InRecursion(x)
        BY <1>1, <2>1 DEF vars, InRecursion, RecursionAt, Suspended
    <2> QED BY <1>1, <2>2, <2>3, <2>4, <2>5 DEF vars, Progress, LoopInv, RecursionInv
<1>2. CASE Next /\ status' = "fault"
    BY <1>2 DEF Progress, LoopInv, RecursionInv
<1>3. CASE Next /\ status' # "fault"
    <2>1. Goes /\ program' = program /\ status = "running"
        <3>1. Goes
            BY <1>3 DEF Goes
        <3>2. program' = program
            BY <1>3, QuietSteps DEF Next, SetStackBottom, Call, Return
        <3> QED BY <3>1, <3>2, Which
    <2>2. ASSUME NEW n \in Inputs, NEW m \in Inputs, program = Loop \o Main(n, m)
          PROVE  LoopInv(n, m)'
        <3>1. LoopInv(n, m) /\ MainListing(8, n, m)
            BY <2>2, LoopListing DEF Progress
        <3>2. CASE InMain(8, n, m)
            <4>1. \/ InMain(8, n, m)'
                  \/ \E x \in Inputs : Waiting(8, n, m, x)' /\ Called(x)'
                BY <2>1, <3>1, <3>2, MainSteps
            <4>2. ASSUME NEW x \in Inputs, Called(x)' PROVE InLoop(x)'
                BY <4>2 DEF Called, InLoop, LoopAt
            <4> QED BY <4>1, <4>2 DEF LoopInv
        <3>3. CASE \E x \in Inputs : Waiting(8, n, m, x) /\ InLoop(x)
            BY <2>1, <2>2, <3>3, LoopSteps
        <3> QED BY <2>1, <3>1, <3>2, <3>3 DEF LoopInv
    <2>3. ASSUME NEW n \in Inputs, NEW m \in Inputs, program = Recursion \o Main(n, m)
          PROVE  RecursionInv(n, m)'
        <3>1. RecursionInv(n, m) /\ MainListing(9, n, m)
            BY <2>3, RecursionListing DEF Progress
        <3>2. CASE InMain(9, n, m)
            <4>1. \/ InMain(9, n, m)'
                  \/ \E x \in Inputs : Waiting(9, n, m, x)' /\ Called(x)'
                BY <2>1, <3>1, <3>2, MainSteps
            <4>2. ASSUME NEW x \in Inputs, Called(x)' PROVE InRecursion(x)'
                <5>1. PICK a : a = Argument(x, 1 + 1) /\ a = x /\ x \in Nat /\ a > 0
                    BY InputsAssumption DEF Argument
                <5>2. RecursionAt(Third, a)'
                    BY <4>2, <5>1 DEF Called, RecursionAt
                <5> QED BY <4>2, <5>1, <5>2 DEF Called, InRecursion
            <4> QED BY <4>1, <4>2 DEF RecursionInv
        <3>3. CASE \E x \in Inputs : Waiting(9, n, m, x) /\ InRecursion(x)
            BY <2>1, <2>3, <3>3, RecursionSteps
        <3> QED BY <2>1, <3>1, <3>2, <3>3 DEF RecursionInv
    <2> QED BY <2>1, <2>2, <2>3 DEF Progress
<1> QED BY <1>1, <1>2, <1>3

(* A program that has come to its end has its results in place. *)
LEMMA EndIsRight == TypeOK /\ Progress => ResultsRight
<1> SUFFICES ASSUME TypeOK, Progress, program \in Functions, status = "finished"
             PROVE  /\ Value(At("top", 0), "I32")
                         = Triangle(program[Len(program) - 5].arg1.off)
                    /\ Value(At("top", Second), "I32")
                         = Triangle(program[Len(program) - 2].arg1.off)
    BY DEF ResultsRight
<1>1. PICK f \in {Loop, Recursion}, n \in Inputs, m \in Inputs : program = f \o Main(n, m)
    BY DEF Functions
<1>2. PICK b \in Nat : InMain(b, n, m) /\ Consists(f, Main(n, m), b)
    <2>1. CASE f = Loop
        <3>1. Consists(f, Main(n, m), 8)
            BY <1>1, <2>1, LoopConsists
        <3>2. InMain(8, n, m)
            BY <1>1, <2>1 DEF Progress, LoopInv, Waiting
        <3> QED BY <3>1, <3>2
    <2>2. CASE f = Recursion
        <3>1. Consists(f, Main(n, m), 9)
            BY <1>1, <2>2, RecursionConsists
        <3>2. InMain(9, n, m)
            BY <1>1, <2>2 DEF Progress, RecursionInv, Waiting
        <3> QED BY <3>1, <3>2
    <2> QED BY <2>1, <2>2
<1>3. /\ program[Len(program) - 5] = Main(n, m)[2]
      /\ program[Len(program) - 2] = Main(n, m)[5]
    <2>1. Len(program) - 5 = b + 2 /\ Len(program) - 2 = b + 5
        BY <1>2 DEF Consists
    <2>2. program[b + 2] = Main(n, m)[2] /\ program[b + 5] = Main(n, m)[5]
        BY <1>2 DEF Consists
    <2> QED BY <2>1, <2>2
<1>4. /\ program[Len(program) - 5].arg1.off = n
      /\ program[Len(program) - 2].arg1.off = m
    BY <1>3 DEF Main, Ins, Num, At
<1>5. /\ stack_top = 0
      /\ Number(0, Triangle(n)) /\ Number(Second, Triangle(m))
    <2>1. pc = b + 6
        BY <1>2 DEF InMain
    <2> QED BY <1>2, <2>1 DEF InMain
<1>6. /\ Triangle(n) \in Nat /\ 2 * Triangle(n) < Modulus(IntSize)
      /\ Triangle(m) \in Nat /\ 2 * Triangle(m) < Modulus(IntSize)
      /\ Second \in Nat
    <2>1. n \in Nat /\ m \in Nat
        BY InputsAssumption
    <2> QED BY <2>1, Fits, Sizes
<1>7. Number(0 + 0, Triangle(n)) /\ Number(0 + Second, Triangle(m))
    BY <1>5, <1>6
<1>8. /\ Value(At("top", 0), "I32") = Triangle(n)
      /\ Value(At("top", Second), "I32") = Triangle(m)
    BY <1>5, <1>6, <1>7, Reads
<1> QED BY <1>4, <1>8

(***************************************************************************)
(* For every input, byte, word and stack size: when the main part of a     *)
(* program has returned, its loop or its recursion has left 1 + ... + n at *)
(* the place that each of its two calls named.                             *)
(***************************************************************************)
THEOREM ResultsAreRight == TestSpec => []ResultsRight
<1>1. TestInit => Init
    BY DEF TestInit
<1>2. TestSpec => [](TypeOK /\ FrameChain)
    BY <1>1, TypeCorrect, FramesNested, PTL DEF TestSpec, Spec
<1>3. TestInit => Progress
    BY ProgressInit
<1>4. TypeOK /\ TypeOK' /\ FrameChain /\ Progress /\ [Next]_vars => Progress'
    BY ProgressStep
<1>5. TypeOK /\ Progress => ResultsRight
    BY EndIsRight
<1> QED BY <1>2, <1>3, <1>4, <1>5, PTL DEF TestSpec
=============================================================================
