------------------------------ MODULE MCByteVM ------------------------------
(***************************************************************************)
(* Two kinds of programs on a small machine with two-bit bytes: the        *)
(* functions of TestPrograms, and every program of MaxLen instructions     *)
(* from Code, so that frames overlap, overflow and return in every way.    *)
(***************************************************************************)
EXTENDS TestPrograms

CONSTANT MaxLen  \* bound: the length of the programs from Code

Code ==
    { Ins("Call", "I8", At("zero", 1), At("top", 0), Zero),
      Ins("Call", "I8", At("zero", 2), At("tail", 0), Zero),
      Ins("Call", "I8", At("zero", 3), At("top", 0), Zero),
      Ins("Call", "I8", At("zero", 3), Zero, Zero),
      Ins("Return", "I8", At("top", 0), At("zero", 1), Zero),
      Ins("Return", "I8", At("tail", 0), At("zero", 2), Zero),
      Ins("SetStackBottom", "I8", At("zero", 1), Zero, Zero),
      Ins("SetStackBottom", "I8", At("zero", 2), Zero, Zero),
      Ins("SetStackBottom", "I8", At("zero", 30), Zero, Zero),
      Ins("Set", "I32", At("top", 1), At("zero", 3), Zero),
      Ins("Move", "I8", At("tail", 0), At("top", 1), Zero),
      Ins("SavePC", "I64", At("top", 0), Zero, Zero),
      Ins("JumpGtEq", "I8", At("top", 0), At("tail", 0), At("top", 1)),
      Ins("JumpEq", "I32", Zero, Zero, At("label", 1)),
      Ins("DivD", "I8", At("tail", 0), At("zero", 2), Zero),
      Ins("ToI32", "I8", At("tail", 1), At("top", 0), Zero),
      Ins("Unknown", "I8", Zero, Zero, Zero) }

MCPrograms == [1 .. MaxLen -> Code] \cup Functions

MCStartPcs == {0, Len(Loop), Len(Recursion)}

MCWidth == [I8 |-> 1, I32 |-> 2, I64 |-> 3]
=============================================================================
