---------------------------- MODULE TestPrograms ----------------------------
(***************************************************************************)
(* Whole programs for the machine.  Loop is laid out as gen_cal_pi_codes   *)
(* and the main part of the cal_pi test are: the argument is passed at     *)
(* STACK_TAIL + 0, SavePC keeps the head of the loop, and main calls the   *)
(* function twice.  Recursion is acc of example/acc.mgo.  Both functions   *)
(* start at 0 and return 1 + ... + n.                                      *)
(***************************************************************************)
EXTENDS ByteVM

CONSTANT Inputs  \* the arguments main passes

At(seg, n) == [seg |-> seg, off |-> n]
Num(n) == At("zero", n)
Zero == Num(0)

Ins(name, type, a, b, c) ==
    [op |-> name, ty |-> type, arg0 |-> a, arg1 |-> b, arg2 |-> c]

IntSize == Width["I32"]
PcSize == Width["I64"]

(* Where the functions keep what: an argument at 0, two more numbers, and, *)
(* in Loop, a pc at the end; in Recursion it lies before the last number.  *)
Second == IntSize
Third == IntSize + IntSize
Fourth == Third + IntSize
BehindPc == Third + PcSize
FrameSize == Fourth + PcSize

(* times at 0, count, sum and pc_loc behind it *)
Loop == <<
    Ins("SetStackBottom", "I8", Num(FrameSize), Zero, Zero),
    Ins("Set", "I32", At("top", Second), Zero, Zero),
    Ins("Set", "I32", At("top", Third), Zero, Zero),
    Ins("SavePC", "I64", At("top", Fourth), Zero, Zero),
    Ins("AddD", "I32", At("top", Second), Num(1), Zero),
    Ins("Add", "I32", At("top", Third), At("top", Third), At("top", Second)),
    Ins("JumpGt", "I32", At("top", 0), At("top", Second), At("top", Fourth)),
    Ins("Return", "I8", At("top", Third), Num(IntSize), Zero) >>

(* a at 0, the constant 1, a jump target and acc(a - 1) behind it *)
Recursion == <<
    Ins("SetStackBottom", "I8", Num(FrameSize), Zero, Zero),
    Ins("Set", "I32", At("top", Second), Num(1), Zero),
    Ins("Set", "I64", At("top", Third), Num(5), Zero),
    Ins("JumpGt", "I32", At("top", 0), At("top", Second), At("top", Third)),
    Ins("Return", "I8", At("top", 0), Num(IntSize), Zero),
    Ins("Sub", "I32", At("tail", 0), At("top", 0), At("top", Second)),
    Ins("Call", "I8", Zero, At("top", BehindPc), Zero),
    Ins("Add", "I32", At("top", BehindPc), At("top", BehindPc), At("top", 0)),
    Ins("Return", "I8", At("top", BehindPc), Num(IntSize), Zero) >>

(* The function is called with n and with m; the results lie one behind    *)
(* the other.                                                              *)
Main(n, m) == <<
    Ins("SetStackBottom", "I8", Num(Third), Zero, Zero),
    Ins("Set", "I32", At("tail", 0), Num(n), Zero),
    Ins("Call", "I8", Zero, At("top", 0), Zero),
    Ins("Print", "I32", Zero, At("top", 0), Zero),
    Ins("Set", "I32", At("tail", 0), Num(m), Zero),
    Ins("Call", "I8", Zero, At("top", Second), Zero),
    Ins("Return", "I8", Zero, Zero, Zero) >>

Functions == {f \o Main(n, m) : f \in {Loop, Recursion}, n, m \in Inputs}

(* 1 + ... + n *)
Triangle(n) == (n * (n + 1)) \div 2

(* The numbers that the functions compute, and the places they jump to,    *)
(* fit into their types.                                                   *)
ASSUME InputsAssumption ==
    /\ Inputs \subseteq Nat \ {0}
    /\ \A n \in Inputs : 2 * Triangle(n) < Modulus(IntSize)
    /\ Modulus(PcSize) > 5

(* setPc(main_loc) *)
TestInit ==
    /\ Init
    /\ pc = IF program \in Functions THEN Len(program) - Len(Main(0, 0)) ELSE 0

TestSpec == TestInit /\ [][Next]_vars

FairTestSpec == TestSpec /\ WF_vars(Next)

-----------------------------------------------------------------------------
(* When the main of the functions has returned, each call has left its own *)
(* result where main asked for it: frames, the argument at the tail,       *)
(* return values and the loop's saved pc fit together, however deep the    *)
(* recursion.                                                              *)
ResultsRight ==
    LET N(i) == program[Len(program) - i].arg1.off
    IN  program \in Functions /\ status = "finished" =>
          /\ Value(At("top", 0), "I32") = Triangle(N(5))
          /\ Value(At("top", Second), "I32") = Triangle(N(2))

(* The functions run to the Return of main without a fault: Run comes back *)
(* although it was called with UINT64_MAX ticks.                           *)
RunReturns == (program \in Functions) ~> (status = "finished")
=============================================================================
