---------------------------- MODULE ByteVMProofs ----------------------------
(***************************************************************************)
(* The byte-code machine, for every set of programs, every size of the     *)
(* stack and every byte and word size.                                     *)
(*                                                                         *)
(* First its frames: the inductive invariant is FrameTypeOK /\ FrameChain  *)
(* /\ ReturnSites, and nothing in it depends on the contents of the stack. *)
(*                                                                         *)
(* Then its memory: what Load and Store do to numbers, and from it that    *)
(* bytes stay bytes and pc a place, whatever the program does.  Modulus    *)
(* and Load are recursive functions, so the lemmas about them are          *)
(* inductions over the number of bytes.  Each one looks at the least       *)
(* counterexample, which LeastNumber gives.                                *)
(***************************************************************************)
EXTENDS ByteVM, SequenceTheorems, WellFoundedInduction, TLAPS

(* Actions that leave the frames and the program alone. *)
LEMMA QuietSteps ==
    ASSUME \/ Move \/ Set \/ Arith \/ ArithD \/ Jump \/ ToI32 \/ SavePC
           \/ PrintBuiltin \/ Finish \/ Fault \/ UNCHANGED vars
    PROVE  /\ program' = program /\ stack_top' = stack_top
           /\ stack_bottom' = stack_bottom /\ call_stack' = call_stack
BY DEF Move, Set, Arith, ArithD, Jump, ToI32, SavePC, PrintBuiltin, Finish, Fault,
       vars, frame

(* The instruction in hand is one of the program's. *)
LEMMA InsType ==
    ASSUME FrameTypeOK, pc \in 0 .. Len(program) - 1
    PROVE  /\ program \in Seq(Instruction)
           /\ pc \in Nat /\ pc + 1 \in 1 .. Len(program)
           /\ ins \in Instruction
BY VMAssumption DEF FrameTypeOK, ins

(* The innermost CallPoint, when there is one. *)
LEMMA CallerType ==
    ASSUME FrameTypeOK, call_stack # <<>>
    PROVE  /\ Len(call_stack) \in Nat /\ Len(call_stack) >= 1
           /\ Caller \in CallPoint
BY DEF FrameTypeOK, Caller

(* What pop_back leaves. *)
LEMMA PopBack ==
    ASSUME NEW S, NEW s \in Seq(S), s # <<>>
    PROVE  LET r == SubSeq(s, 1, Len(s) - 1)
           IN  /\ Len(r) = Len(s) - 1
               /\ \A i \in 1 .. Len(s) - 1 : r[i] = s[i]
<1>1. Len(s) \in Nat /\ Len(s) >= 1
    OBVIOUS
<1>2. Len(s) - 1 \in Int /\ \A i \in 1 .. Len(s) - 1 : s[i] \in S
    BY <1>1
<1>3. /\ Len(SubSeq(s, 1, Len(s) - 1))
           = IF 1 <= Len(s) - 1 THEN (Len(s) - 1) - 1 + 1 ELSE 0
      /\ \A i \in 1 .. (Len(s) - 1) - 1 + 1 :
            SubSeq(s, 1, Len(s) - 1)[i] = s[1 + i - 1]
    BY <1>2, SubSeqProperties
<1>4. (Len(s) - 1) - 1 + 1 = Len(s) - 1
    BY <1>1
<1>5. Len(SubSeq(s, 1, Len(s) - 1)) = Len(s) - 1
    <2> DEFINE k == Len(s)
               r == Len(SubSeq(s, 1, Len(s) - 1))
    <2>1. k \in Nat /\ k >= 1 /\ r = IF 1 <= k - 1 THEN (k - 1) - 1 + 1 ELSE 0
        BY <1>1, <1>3, Zenon
    <2> HIDE DEF k, r
    <2>2. r = k - 1
        BY <2>1
    <2> QED BY <2>2 DEF k, r
<1>6. \A i \in 1 .. Len(s) - 1 : SubSeq(s, 1, Len(s) - 1)[i] = s[i]
    <2> TAKE i \in 1 .. Len(s) - 1
    <2>1. 1 + i - 1 = i
        OBVIOUS
    <2> QED BY <1>3, <1>4, <2>1
<1> QED BY <1>5, <1>6

LEMMA FrameTypesInit == Init => FrameTypeOK
BY DEF Init, MachineInit, FrameTypeOK

LEMMA FrameTypesStep == FrameTypeOK /\ [Next]_vars => FrameTypeOK'
<1> SUFFICES ASSUME FrameTypeOK, [Next]_vars PROVE FrameTypeOK'
    OBVIOUS
<1>1. CASE \/ Move \/ Set \/ Arith \/ ArithD \/ Jump \/ ToI32 \/ SavePC
           \/ PrintBuiltin \/ Finish \/ Fault \/ UNCHANGED vars
    BY <1>1, QuietSteps DEF FrameTypeOK
<1>2. CASE SetStackBottom
    <2>1. ins.arg0.off \in Nat
        BY <1>2, InsType DEF SetStackBottom, Fetch, Instruction, Address
    <2> QED BY <1>2, <2>1 DEF SetStackBottom, FrameTypeOK
<1>3. CASE Call
    <2>1. pc \in Nat /\ ins.arg1 \in Address
        BY <1>3, InsType DEF Call, Fetch, Instruction
    <2>2. [pc |-> pc + 1, stack_top |-> stack_top,
           stack_bottom |-> stack_bottom, ret_res_addr |-> ins.arg1]
             \in CallPoint
        BY <2>1 DEF FrameTypeOK, CallPoint
    <2> QED BY <1>3, <2>2 DEF Call, FrameTypeOK
<1>4. CASE Return
    <2>1. Caller \in CallPoint /\ Len(call_stack) \in Nat /\ Len(call_stack) >= 1
        BY <1>4, CallerType DEF Return
    <2>2. call_stack' \in Seq(CallPoint)
        BY <1>4, <2>1 DEF Return, FrameTypeOK
    <2> QED BY <1>4, <2>1, <2>2 DEF Return, FrameTypeOK, CallPoint
<1> QED BY <1>1, <1>2, <1>3, <1>4 DEF Next

-----------------------------------------------------------------------------
LEMMA FrameChainInit == Init => FrameChain
BY DEF Init, MachineInit, FrameChain, FrameTop, FrameBottom

LEMMA FrameChainStep ==
    FrameTypeOK /\ FrameTypeOK' /\ FrameChain /\ [Next]_vars => FrameChain'
<1> SUFFICES ASSUME FrameTypeOK, FrameTypeOK', FrameChain, [Next]_vars
             PROVE  FrameChain'
    OBVIOUS
<1>1. CASE \/ Move \/ Set \/ Arith \/ ArithD \/ Jump \/ ToI32 \/ SavePC
           \/ PrintBuiltin \/ Finish \/ Fault \/ UNCHANGED vars
    BY <1>1, QuietSteps DEF FrameChain, FrameTop, FrameBottom
<1>2. CASE SetStackBottom
    <2>1. ins.arg0.off \in Nat
        BY <1>2, InsType DEF SetStackBottom, Fetch, Instruction, Address
    <2> QED BY <1>2, <2>1 DEF SetStackBottom, FrameTypeOK, FrameChain, FrameTop,
                              FrameBottom
<1>3. CASE Call
    <2> DEFINE cp == [pc |-> pc + 1, stack_top |-> stack_top,
                      stack_bottom |-> stack_bottom, ret_res_addr |-> ins.arg1]
    <2>0. PICK n \in Nat : n = Len(call_stack)
        BY DEF FrameTypeOK
    <2>1. n = Len(call_stack) /\ cp \in CallPoint /\ call_stack \in Seq(CallPoint)
        BY <1>3, <2>0, InsType DEF Call, Fetch, Instruction, FrameTypeOK, CallPoint
    <2>2. call_stack' = Append(call_stack, cp)
        BY <1>3 DEF Call
    <2>3. /\ Len(call_stack') = n + 1
          /\ \A i \in 1 .. n : call_stack'[i] = call_stack[i]
          /\ call_stack'[n + 1] = cp
        BY <2>1, <2>2
    <2>4. stack_top' = stack_bottom /\ stack_bottom' = stack_bottom
        BY <1>3 DEF Call
    <2>5. /\ cp.stack_top = stack_top /\ cp.stack_bottom = stack_bottom
        OBVIOUS
    <2> HIDE DEF cp
    <2>6. \A i \in 1 .. n + 1 : /\ FrameTop(i)' = FrameTop(i)
                               /\ FrameBottom(i)' = FrameBottom(i)
        BY <2>1, <2>3, <2>4, <2>5 DEF FrameTop, FrameBottom
    <2>7. /\ FrameTop(n + 2)' = stack_bottom
          /\ FrameBottom(n + 2)' = stack_bottom
          /\ FrameBottom(n + 1) = stack_bottom
        BY <2>1, <2>3, <2>4 DEF FrameTop, FrameBottom
    <2>8. FrameTop(1)' = 0
        BY <2>1, <2>6 DEF FrameChain
    <2>9. ASSUME NEW i \in 1 .. n + 2 PROVE FrameTop(i)' <= FrameBottom(i)'
        <3>1. CASE i = n + 2
            BY <3>1, <2>7 DEF FrameTypeOK
        <3>2. CASE i # n + 2
            BY <3>2, <2>1, <2>6 DEF FrameChain
        <3> QED BY <3>1, <3>2
    <2>10. ASSUME NEW i \in 1 .. n + 1 PROVE FrameBottom(i)' = FrameTop(i + 1)'
        <3>1. CASE i = n + 1
            BY <3>1, <2>1, <2>6, <2>7
        <3>2. CASE i # n + 1
            <4>1. i \in 1 .. n /\ i + 1 \in 1 .. n + 1
                BY <3>2, <2>1
            <4> QED BY <4>1, <2>1, <2>6 DEF FrameChain
        <3> QED BY <3>1, <3>2
    <2>11. Len(call_stack') + 1 = n + 2 /\ Len(call_stack') = n + 1
        BY <2>1, <2>3
    <2> QED BY <2>8, <2>9, <2>10, <2>11 DEF FrameChain
<1>4. CASE Return
    <2> DEFINE n == Len(call_stack)
    <2>1. n \in Nat /\ n >= 1 /\ Caller \in CallPoint
        BY <1>4, CallerType DEF Return
    <2>2. /\ Len(call_stack') = n - 1
          /\ \A i \in 1 .. n - 1 : call_stack'[i] = call_stack[i]
        BY <1>4, PopBack DEF Return, FrameTypeOK
    <2>3. /\ stack_top' = call_stack[n].stack_top
          /\ stack_bottom' = call_stack[n].stack_bottom
        BY <1>4 DEF Return, Caller
    <2>4. \A i \in 1 .. n : /\ FrameTop(i)' = FrameTop(i)
                           /\ FrameBottom(i)' = FrameBottom(i)
        BY <2>1, <2>2, <2>3 DEF FrameTop, FrameBottom
    <2> QED BY <2>1, <2>2, <2>4 DEF FrameChain
<1> QED BY <1>1, <1>2, <1>3, <1>4 DEF Next

(***************************************************************************)
(* Whatever the program does, the frames lie one behind the other.         *)
(***************************************************************************)
THEOREM FramesNested == Spec => []FrameChain
<1>1. Init => FrameTypeOK /\ FrameChain
    BY FrameTypesInit, FrameChainInit
<1>2. FrameTypeOK /\ FrameChain /\ [Next]_vars => (FrameTypeOK /\ FrameChain)'
    BY FrameTypesStep, FrameChainStep
<1> QED BY <1>1, <1>2, PTL DEF Spec

-----------------------------------------------------------------------------
LEMMA ReturnSitesInit == Init => ReturnSites
BY DEF Init, MachineInit, ReturnSites

LEMMA ReturnSitesStep ==
    FrameTypeOK /\ ReturnSites /\ [Next]_vars => ReturnSites'
<1> SUFFICES ASSUME FrameTypeOK, ReturnSites, [Next]_vars PROVE ReturnSites'
    OBVIOUS
<1>1. CASE \/ Move \/ Set \/ Arith \/ ArithD \/ Jump \/ ToI32 \/ SavePC
           \/ PrintBuiltin \/ Finish \/ Fault \/ UNCHANGED vars
    BY <1>1, QuietSteps DEF ReturnSites
<1>2. CASE SetStackBottom
    BY <1>2 DEF SetStackBottom, ReturnSites
<1>3. CASE Call
    <2> DEFINE cp == [pc |-> pc + 1, stack_top |-> stack_top,
                      stack_bottom |-> stack_bottom, ret_res_addr |-> ins.arg1]
               n == Len(call_stack)
    <2>1. n \in Nat /\ cp \in CallPoint /\ call_stack \in Seq(CallPoint)
        BY <1>3, InsType DEF Call, Fetch, Instruction, FrameTypeOK, CallPoint
    <2>2. call_stack' = Append(call_stack, cp) /\ program' = program
        BY <1>3 DEF Call
    <2>3. /\ Len(call_stack') = n + 1
          /\ \A i \in 1 .. n : call_stack'[i] = call_stack[i]
          /\ call_stack'[n + 1] = cp
        BY <2>1, <2>2
    <2>4. cp.pc \in 1 .. Len(program) /\ program[cp.pc].op = "Call"
            /\ program[cp.pc].arg1 = cp.ret_res_addr
        BY <1>3, InsType DEF Call, Fetch, ins
    <2> HIDE DEF cp
    <2> QED BY <2>1, <2>2, <2>3, <2>4 DEF ReturnSites
<1>4. CASE Return
    <2> DEFINE n == Len(call_stack)
    <2>1. n \in Nat /\ n >= 1
        BY <1>4, CallerType DEF Return
    <2>2. /\ Len(call_stack') = n - 1 /\ program' = program
          /\ \A i \in 1 .. n - 1 : call_stack'[i] = call_stack[i]
        BY <1>4, PopBack DEF Return, FrameTypeOK
    <2> QED BY <2>1, <2>2 DEF ReturnSites
<1> QED BY <1>1, <1>2, <1>3, <1>4 DEF Next

(***************************************************************************)
(* A return address on the call stack is always the one behind a Call.     *)
(***************************************************************************)
THEOREM ReturnsBehindCalls == Spec => []ReturnSites
<1>1. Init => FrameTypeOK /\ ReturnSites
    BY FrameTypesInit, ReturnSitesInit
<1>2. FrameTypeOK /\ ReturnSites /\ [Next]_vars => (FrameTypeOK /\ ReturnSites)'
    BY FrameTypesStep, ReturnSitesStep
<1> QED BY <1>1, <1>2, PTL DEF Spec

-----------------------------------------------------------------------------
(* FrameChain, as far as the running frame and its caller are concerned. *)
LEMMA InnerFrames ==
    ASSUME FrameTypeOK, FrameChain
    PROVE  /\ stack_top <= stack_bottom
           /\ call_stack # <<>> => Caller.stack_top <= Caller.stack_bottom
<1>1. Len(call_stack) \in Nat
    BY DEF FrameTypeOK
<1>2. stack_top <= stack_bottom
    BY <1>1 DEF FrameChain, FrameTop, FrameBottom
<1>3. CASE call_stack # <<>>
    BY <1>1, <1>3, CallerType DEF FrameChain, FrameTop, FrameBottom, Caller
<1> QED BY <1>2, <1>3

(* A store through an address of the running frame leaves what lies below  *)
(* the frame as it was.                                                    *)
LEMMA StoreAbove ==
    ASSUME FrameTypeOK, FrameChain, NEW a \in Address, NEW n, NEW v,
           Store(Index(a), n, v)
    PROVE  \A c \in Cells : c < stack_top => stack'[c] = stack[c]
<1>1. Index(a) \in Nat /\ Index(a) >= stack_top
    BY InnerFrames DEF FrameTypeOK, Index, Address
<1>2. ASSUME NEW c \in Cells, c < stack_top PROVE ~(Index(a) <= c)
    BY <1>1, <1>2, VMAssumption DEF Cells, FrameTypeOK
<1> QED BY <1>2 DEF Store

LEMMA CallersKeptStep ==
    FrameTypeOK /\ FrameChain /\ [Next]_vars =>
      \A c \in Cells : c < stack_top /\ c < stack_top' => stack'[c] = stack[c]
<1> SUFFICES ASSUME FrameTypeOK, FrameChain, [Next]_vars,
                    NEW c \in Cells, c < stack_top, c < stack_top'
             PROVE  stack'[c] = stack[c]
    OBVIOUS
<1>1. CASE Jump \/ SetStackBottom \/ Call \/ PrintBuiltin \/ Finish \/ Fault
           \/ UNCHANGED vars
    BY <1>1 DEF Jump, SetStackBottom, Call, PrintBuiltin, Finish, Fault, vars
<1>2. CASE Move \/ Set \/ Arith \/ ArithD \/ ToI32 \/ SavePC
    <2>1. ins.arg0 \in Address
        BY <1>2, InsType DEF Move, Set, Arith, ArithD, ToI32, SavePC, Fetch,
                             Instruction
    <2>2. PICK n, v : Store(Index(ins.arg0), n, v)
        <3>1. CASE Move BY <3>1 DEF Move
        <3>2. CASE Set BY <3>2 DEF Set
        <3>3. CASE Arith BY <3>3 DEF Arith
        <3>4. CASE ArithD BY <3>4 DEF ArithD
        <3>5. CASE ToI32 BY <3>5 DEF ToI32
        <3>6. CASE SavePC BY <3>6 DEF SavePC
        <3> QED BY <1>2, <3>1, <3>2, <3>3, <3>4, <3>5, <3>6
    <2> QED BY <2>1, <2>2, StoreAbove
<1>3. CASE Return
    <2>1. Caller \in CallPoint /\ Caller.stack_top <= Caller.stack_bottom
        BY <1>3, CallerType, InnerFrames DEF Return
    <2>2. ResultIndex \in Nat /\ ResultIndex >= Caller.stack_top
        BY <2>1 DEF ResultIndex, CallPoint, Address
    <2>3. stack_top' = Caller.stack_top
        BY <1>3 DEF Return
    <2>4. ~(ResultIndex <= c)
        BY <2>1, <2>2, <2>3, VMAssumption DEF Cells, CallPoint
    <2> QED BY <1>3, <2>4 DEF Return
<1> QED BY <1>1, <1>2, <1>3 DEF Next

(***************************************************************************)
(* No instruction writes below the frame it leaves running.                *)
(***************************************************************************)
THEOREM CallersAreKept == Spec => CallersKept
<1>1. Init => FrameTypeOK /\ FrameChain
    BY FrameTypesInit, FrameChainInit
<1>2. FrameTypeOK /\ FrameChain /\ [Next]_vars => (FrameTypeOK /\ FrameChain)'
    BY FrameTypesStep, FrameChainStep
<1>3. FrameTypeOK /\ FrameChain /\ [Next]_vars =>
        [\A c \in Cells : c < stack_top /\ c < stack_top'
                            => stack'[c] = stack[c]]_vars
    BY CallersKeptStep
<1> QED BY <1>1, <1>2, <1>3, PTL DEF Spec, CallersKept

-----------------------------------------------------------------------------
(* Induction                                                               *)

(* A set of naturals that is not empty has a least element. *)
LEMMA LeastNumber ==
    ASSUME NEW S, S \subseteq Nat, NEW x \in S
    PROVE  \E m \in S : \A k \in S : m <= k
<1>1. PICK m \in S : \A k \in S : ~(<<k, m>> \in OpToRel(<, Nat))
    BY WFMin, NatLessThanWellFounded, Zenon
<1>2. \A k \in S : ~(k < m)
    BY <1>1 DEF OpToRel
<1> QED BY <1>2

(* f solves a linear recursion over 0 .. n. *)
Linear(f, n, a, b, d) ==
    /\ f \in [0 .. n -> Nat]
    /\ f[0] = a
    /\ \A i \in 1 .. n : f[i] = f[i - 1] * b + d[i]

(* A linear recursion has a solution. *)
LEMMA RecursionExists ==
    ASSUME NEW n \in Nat, NEW a \in Nat, NEW b \in Nat, NEW d \in [0 .. n -> Nat]
    PROVE  \E f : Linear(f, n, a, b, d)
<1> DEFINE Solves(f, m) ==
             /\ f \in [0 .. m -> Nat]
             /\ f[0] = a
             /\ \A i \in 1 .. m : f[i] = f[i - 1] * b + d[i]
           T == {m \in 0 .. n : ~\E f : Solves(f, m)}
<1>1. \E f : Solves(f, n)
    <2> SUFFICES ASSUME ~\E f : Solves(f, n) PROVE FALSE
        OBVIOUS
    <2>1. n \in T /\ T \subseteq Nat
        <3> HIDE DEF Solves
        <3> QED OBVIOUS
    <2>2. PICK m \in T : \A k \in T : m <= k
        <3> HIDE DEF T
        <3> QED BY <2>1, LeastNumber
    <2>3. m \in 0 .. n /\ ~\E f : Solves(f, m)
        OBVIOUS
    <2>4. m # 0
        <3>1. Solves([i \in 0 .. 0 |-> a], 0)
            OBVIOUS
        <3> QED BY <2>3, <3>1
    <2>5. m - 1 \in 0 .. n /\ m - 1 \notin T
        <3>1. m - 1 \in 0 .. n
            BY <2>3, <2>4
        <3> HIDE DEF T
        <3> QED BY <3>1, <2>2, <2>3
    <2>6. PICK f : Solves(f, m - 1)
        <3> HIDE DEF Solves
        <3> QED BY <2>5
    <2> DEFINE g == [i \in 0 .. m |-> IF i = m THEN f[m - 1] * b + d[m] ELSE f[i]]
    <2>7. \A i \in 0 .. m : g[i] \in Nat
        <3>1. f[m - 1] \in Nat /\ d[m] \in Nat
            BY <2>3, <2>4, <2>6
        <3>2. f[m - 1] * b \in Nat
            BY <3>1
        <3>3. \A i \in 0 .. m : i # m => f[i] \in Nat
            BY <2>3, <2>6
        <3> QED BY <3>1, <3>2, <3>3
    <2>8. g[0] = a
        BY <2>3, <2>4, <2>6
    <2>9. ASSUME NEW i \in 1 .. m PROVE g[i] = g[i - 1] * b + d[i]
        <3>1. m \in Nat /\ i - 1 \in 0 .. m /\ i \in 0 .. m /\ i - 1 # m
            BY <2>3
        <3>2. g[i - 1] = f[i - 1]
            BY <3>1
        <3>3. CASE i = m
            BY <3>1, <3>2, <3>3
        <3>4. CASE i # m
            <4>1. i \in 1 .. m - 1
                BY <3>1, <3>4
            <4>2. g[i] = f[i] /\ f[i] = f[i - 1] * b + d[i]
                BY <3>1, <3>4, <4>1, <2>6
            <4> QED BY <3>2, <4>2
        <3> QED BY <3>3, <3>4
    <2>10. Solves(g, m)
        BY <2>7, <2>8, <2>9
    <2> QED BY <2>3, <2>10
<1> QED BY <1>1 DEF Linear


(* The function power in Modulus(n) *)
Power(n) ==
    CHOOSE f : f = [i \in 0 .. n |-> IF i = 0 THEN 1 ELSE ByteRange * f[i - 1]]

LEMMA PowerRight ==
    ASSUME NEW n \in Nat
    PROVE  /\ Power(n) \in [0 .. n -> Nat]
           /\ Power(n)[0] = 1
           /\ \A i \in 1 .. n : Power(n)[i] = ByteRange * Power(n)[i - 1]
           /\ Modulus(n) = Power(n)[n]
<1> DEFINE Body(f) == [i \in 0 .. n |-> IF i = 0 THEN 1 ELSE ByteRange * f[i - 1]]
           zero == [i \in 0 .. n |-> 0]
<1>1. zero \in [0 .. n -> Nat] /\ \A i \in 1 .. n : zero[i] = 0
    OBVIOUS
<1>2. PICK f \in [0 .. n -> Nat] :
        /\ f[0] = 1
        /\ \A i \in 1 .. n : f[i] = ByteRange * f[i - 1]
    <2> HIDE DEF zero
    <2>0. 1 \in Nat /\ ByteRange \in Nat
        BY VMAssumption
    <2>1. PICK f : Linear(f, n, 1, ByteRange, zero)
        BY <1>1, <2>0, RecursionExists
    <2>2. ASSUME NEW i \in 1 .. n PROVE f[i] = ByteRange * f[i - 1]
        <3>1. f[i - 1] \in Nat /\ f[i] = f[i - 1] * ByteRange + 0
            BY <1>1, <2>1 DEF Linear
        <3> QED BY <2>0, <3>1
    <2> QED BY <2>1, <2>2 DEF Linear
<1>3. Power(n) = Body(Power(n))
    <2>1. \A i \in 0 .. n : f[i] = Body(f)[i]
        BY <1>2
    <2>2. f = Body(f)
        BY <2>1
    <2> QED BY <2>2 DEF Power
<1>4. /\ Power(n)[0] = 1
      /\ \A i \in 1 .. n : Power(n)[i] = ByteRange * Power(n)[i - 1]
    BY <1>3
<1> DEFINE T == {i \in 0 .. n : Power(n)[i] \notin Nat}
<1>5. T = {}
    <2> SUFFICES ASSUME T # {} PROVE FALSE
        OBVIOUS
    <2>1. PICK i \in T : \A k \in T : i <= k
        <3>1. T \subseteq Nat
            OBVIOUS
        <3> QED BY <3>1, LeastNumber
    <2>2. i # 0 /\ i \in 1 .. n /\ i - 1 \in 0 .. n
        BY <1>4
    <2>3. i - 1 \notin T
        <3> HIDE DEF T
        <3> QED BY <2>1, <2>2
    <2>4. Power(n)[i - 1] \in Nat
        BY <2>2, <2>3
    <2>5. Power(n)[i] \in Nat
        <3> DEFINE w == Power(n)[i - 1]
        <3>1. w \in Nat /\ Power(n)[i] = ByteRange * w
            BY <1>4, <2>2, <2>4
        <3> HIDE DEF w
        <3>2. ByteRange * w \in Nat
            BY <3>1, VMAssumption
        <3> QED BY <3>1, <3>2
    <2> QED BY <2>5
<1>6. Power(n) \in [0 .. n -> Nat]
    BY <1>3, <1>5
<1>7. Modulus(n) = Power(n)[n]
    BY DEF Modulus, Power
<1> QED BY <1>4, <1>6, <1>7

(* The powers do not depend on how many of them are asked for. *)
LEMMA PowersAgree ==
    ASSUME NEW n \in Nat
    PROVE  \A i \in 0 .. n : Power(n + 1)[i] = Power(n)[i]
<1> DEFINE T == {i \in 0 .. n : Power(n + 1)[i] # Power(n)[i]}
<1>0. /\ Power(n)[0] = 1 /\ Power(n + 1)[0] = 1
      /\ \A i \in 1 .. n : Power(n)[i] = ByteRange * Power(n)[i - 1]
      /\ \A i \in 1 .. n + 1 : Power(n + 1)[i] = ByteRange * Power(n + 1)[i - 1]
    BY PowerRight
<1>1. T = {}
    <2> SUFFICES ASSUME T # {} PROVE FALSE
        OBVIOUS
    <2>1. PICK i \in T : \A k \in T : i <= k
        <3>1. T \subseteq Nat
            OBVIOUS
        <3> QED BY <3>1, LeastNumber
    <2>2. i # 0 /\ i \in 1 .. n /\ i \in 1 .. n + 1 /\ i - 1 \in 0 .. n
        BY <1>0
    <2>3. i - 1 \notin T
        <3> HIDE DEF T
        <3> QED BY <2>1, <2>2
    <2>4. Power(n + 1)[i - 1] = Power(n)[i - 1]
        BY <2>2, <2>3
    <2>5. Power(n + 1)[i] = Power(n)[i]
        BY <2>2, <2>4, <1>0
    <2> QED BY <2>5
<1> QED BY <1>1

(* n bytes have a positive number of values, one more byte ByteRange times *)
(* as many.                                                                *)
LEMMA ModulusRight ==
    ASSUME NEW n \in Nat
    PROVE  /\ Modulus(n) \in Nat /\ Modulus(n) > 0
           /\ Modulus(0) = 1
           /\ Modulus(n + 1) = ByteRange * Modulus(n)
<1> DEFINE T == {i \in 0 .. n : ~(Power(n)[i] > 0)}
<1>0. /\ Power(n) \in [0 .. n -> Nat] /\ Power(n)[0] = 1
      /\ \A i \in 1 .. n : Power(n)[i] = ByteRange * Power(n)[i - 1]
      /\ Modulus(n) = Power(n)[n]
    BY PowerRight
<1>1. T = {}
    <2> SUFFICES ASSUME T # {} PROVE FALSE
        OBVIOUS
    <2>1. PICK i \in T : \A k \in T : i <= k
        <3>1. T \subseteq Nat
            OBVIOUS
        <3> QED BY <3>1, LeastNumber
    <2>2. i # 0 /\ i \in 1 .. n /\ i - 1 \in 0 .. n
        BY <1>0
    <2>3. i - 1 \notin T
        <3> HIDE DEF T
        <3> QED BY <2>1, <2>2
    <2> DEFINE w == Power(n)[i - 1]
    <2>4. w \in Nat /\ w > 0
        BY <2>2, <2>3, <1>0
    <2>5. Power(n)[i] = ByteRange * w
        BY <2>2, <1>0
    <2> HIDE DEF w
    <2>6. ByteRange * w > 0
        BY <2>4, VMAssumption
    <2> QED BY <2>5, <2>6
<1>2. Modulus(n) \in Nat /\ Modulus(n) > 0
    BY <1>0, <1>1
<1>3. Modulus(0) = 1
    BY PowerRight
<1>4. Modulus(n + 1) = ByteRange * Modulus(n)
    <2>1. n + 1 \in Nat /\ n + 1 \in 1 .. n + 1 /\ n \in 0 .. n /\ (n + 1) - 1 = n
        OBVIOUS
    <2>2. Power(n + 1)[n + 1] = ByteRange * Power(n + 1)[n]
        BY <2>1, PowerRight
    <2>3. Power(n + 1)[n] = Power(n)[n]
        BY <2>1, PowersAgree
    <2> QED BY <2>1, <2>2, <2>3, PowerRight
<1> QED BY <1>2, <1>3, <1>4

-----------------------------------------------------------------------------
(* The function sum in Load(k, n), of the memory s *)
ByteSum(s, k, n) ==
    CHOOSE f :
      f = [i \in 0 .. n |-> IF i = 0 THEN 0
                            ELSE f[i - 1] + s[k + i - 1] * Modulus(i - 1)]

LEMMA SumRight ==
    ASSUME NEW s \in [Cells -> Bytes], NEW k \in Nat, NEW n \in Nat,
           k + n <= MaxStack
    PROVE  /\ ByteSum(s, k, n) \in [0 .. n -> Nat]
           /\ ByteSum(s, k, n)[0] = 0
           /\ \A i \in 1 .. n : ByteSum(s, k, n)[i]
                = ByteSum(s, k, n)[i - 1] + s[k + i - 1] * Modulus(i - 1)
<1> DEFINE Body(f) ==
             [i \in 0 .. n |-> IF i = 0 THEN 0
                               ELSE f[i - 1] + s[k + i - 1] * Modulus(i - 1)]
           d == [i \in 0 .. n |-> IF i = 0 THEN 0
                                  ELSE s[k + i - 1] * Modulus(i - 1)]
<1>1. \A i \in 1 .. n : s[k + i - 1] * Modulus(i - 1) \in Nat
    <2> TAKE i \in 1 .. n
    <2>1. k + i - 1 \in Cells
        BY VMAssumption DEF Cells
    <2>2. s[k + i - 1] \in Nat
        BY <2>1, VMAssumption DEF Bytes
    <2>3. i - 1 \in Nat
        OBVIOUS
    <2>4. Modulus(i - 1) \in Nat
        BY <2>3, ModulusRight
    <2> QED BY <2>2, <2>4
<1>2. /\ d \in [0 .. n -> Nat]
      /\ \A i \in 1 .. n : d[i] = s[k + i - 1] * Modulus(i - 1)
    <2>1. \A i \in 0 .. n : i = 0 \/ i \in 1 .. n
        OBVIOUS
    <2>2. \A i \in 1 .. n : i \in 0 .. n /\ i # 0
        OBVIOUS
    <2> QED BY <2>1, <2>2, <1>1
<1>3. PICK f \in [0 .. n -> Nat] :
        f[0] = 0 /\ \A i \in 1 .. n : f[i] = f[i - 1] + d[i]
    <2> HIDE DEF d
    <2>1. 0 \in Nat /\ 1 \in Nat /\ d \in [0 .. n -> Nat]
        BY <1>2
    <2>2. PICK f : Linear(f, n, 0, 1, d)
        BY <2>1, RecursionExists
    <2>3. ASSUME NEW i \in 1 .. n PROVE f[i] = f[i - 1] + d[i]
        <3>1. f[i - 1] \in Nat /\ f[i] = f[i - 1] * 1 + d[i]
            BY <2>2 DEF Linear
        <3> QED BY <3>1
    <2> QED BY <2>2, <2>3 DEF Linear
<1>4. ByteSum(s, k, n) = Body(ByteSum(s, k, n))
    <2>0. Body(f)[0] = 0
        OBVIOUS
    <2>1. ASSUME NEW i \in 0 .. n PROVE f[i] = Body(f)[i]
        <3>1. CASE i = 0
            BY <3>1, <2>0, <1>3
        <3>2. CASE i # 0
            <4>1. i \in 1 .. n
                BY <3>2
            <4>2. Body(f)[i] = f[i - 1] + s[k + i - 1] * Modulus(i - 1)
                BY <3>2
            <4> QED BY <4>1, <4>2, <1>2, <1>3
        <3> QED BY <3>1, <3>2
    <2>2. f = Body(f)
        BY <2>1
    <2> QED BY <2>2 DEF ByteSum
<1>5. /\ ByteSum(s, k, n)[0] = 0
      /\ \A i \in 1 .. n : ByteSum(s, k, n)[i]
           = ByteSum(s, k, n)[i - 1] + s[k + i - 1] * Modulus(i - 1)
    BY <1>4
<1> DEFINE T == {i \in 0 .. n : ByteSum(s, k, n)[i] \notin Nat}
<1>6. T = {}
    <2> SUFFICES ASSUME T # {} PROVE FALSE
        OBVIOUS
    <2>1. PICK i \in T : \A j \in T : i <= j
        <3>1. T \subseteq Nat
            OBVIOUS
        <3> QED BY <3>1, LeastNumber
    <2>2. i # 0 /\ i \in 1 .. n /\ i - 1 \in 0 .. n
        BY <1>5
    <2>3. i - 1 \notin T
        <3> HIDE DEF T
        <3> QED BY <2>1, <2>2
    <2>4. ByteSum(s, k, n)[i - 1] \in Nat
        BY <2>2, <2>3
    <2>5. ByteSum(s, k, n)[i] \in Nat
        <3> DEFINE x == ByteSum(s, k, n)[i - 1]
                   y == s[k + i - 1] * Modulus(i - 1)
        <3>1. x \in Nat /\ y \in Nat /\ ByteSum(s, k, n)[i] = x + y
            BY <1>1, <1>5, <2>2, <2>4
        <3> HIDE DEF x, y
        <3> QED BY <3>1
    <2> QED BY <2>5
<1> QED BY <1>4, <1>5, <1>6

LEMMA LoadIsSum ==
    ASSUME NEW k, NEW n PROVE Load(k, n) = ByteSum(stack, k, n)[n]
BY DEF Load, ByteSum

(* What is read from inside the stack is a natural number. *)
LEMMA LoadType ==
    ASSUME stack \in [Cells -> Bytes], NEW k \in Nat, NEW n \in Nat,
           k + n <= MaxStack
    PROVE  Load(k, n) \in Nat
BY LoadIsSum, SumRight

-----------------------------------------------------------------------------
(* Numbers                                                                 *)

(* Whatever number is stored, bytes stay bytes. *)
LEMMA StoreType ==
    ASSUME stack \in [Cells -> Bytes], NEW k \in Nat, NEW n, NEW v \in Int,
           Store(k, n, v)
    PROVE  stack' \in [Cells -> Bytes]
<1>1. ASSUME NEW c \in Cells, k <= c
      PROVE  (v \div Modulus(c - k)) % ByteRange \in Bytes
    <2> DEFINE m == Modulus(c - k)
    <2>1. c - k \in Nat
        BY <1>1, VMAssumption DEF Cells
    <2>2. m \in Nat /\ m > 0
        BY <2>1, ModulusRight
    <2> HIDE DEF m
    <2>3. v \div m \in Int
        BY <2>2
    <2> DEFINE q == v \div m
    <2> HIDE DEF q
    <2>4. q \in Int
        BY <2>3 DEF q
    <2>5. q % ByteRange \in 0 .. ByteRange - 1
        BY <2>4, VMAssumption
    <2> QED BY <2>5 DEF m, q, Bytes
<1> QED BY <1>1 DEF Store

LEMMA SignedType ==
    ASSUME NEW v \in Int, NEW n \in Nat PROVE Signed(v, n) \in Int
BY ModulusRight DEF Signed

(* A typed read of an accessible address *)
LEMMA ValueType ==
    ASSUME TypeOK, NEW a \in Address, NEW ty \in Types,
           Accessible(a, Width[ty])
    PROVE  Value(a, ty) \in Int
<1>1. Width[ty] \in Nat /\ Width[ty] > 0
    BY VMAssumption
<1>2. Index(a) \in Nat /\ Index(a) + Width[ty] <= MaxStack
    BY <1>1 DEF TypeOK, FrameTypeOK, Address, Index, Accessible
<1>3. Load(Index(a), Width[ty]) \in Nat
    BY <1>1, <1>2, LoadType DEF TypeOK
<1> QED BY <1>1, <1>3, SignedType DEF Value

LEMMA ImmediateType ==
    ASSUME NEW a \in Address, NEW ty \in Types
    PROVE  Immediate(a, ty) \in Int
<1>1. Width[ty] \in Nat /\ a.off \in Nat
    BY VMAssumption DEF Address
<1>2. Modulus(Width[ty]) \in Nat /\ Modulus(Width[ty]) > 0
    BY <1>1, ModulusRight
<1>3. a.off % Modulus(Width[ty]) \in Int
    BY <1>1, <1>2
<1> QED BY <1>1, <1>3, SignedType DEF Immediate

LEMMA QuotientType ==
    ASSUME NEW x \in Int, NEW y \in Int, y # 0
    PROVE  Quotient(x, y) \in Int
<1> DEFINE ax == IF x < 0 THEN -x ELSE x
           ay == IF y < 0 THEN -y ELSE y
<1>1. ax \in Nat /\ ay \in Nat /\ ay > 0
    OBVIOUS
<1> HIDE DEF ax, ay
<1>2. ax \div ay \in Int
    BY <1>1
<1>3. Quotient(x, y) = IF (x < 0) = (y < 0) THEN ax \div ay ELSE -(ax \div ay)
    BY DEF Quotient, ax, ay
<1> QED BY <1>2, <1>3

LEMMA ApplyType ==
    ASSUME NEW op \in arithmetic, NEW x \in Int, NEW y \in Int,
           op = "Div" => y # 0
    PROVE  Apply(op, x, y) \in Int
<1>1. CASE op = "Add"
    BY <1>1 DEF Apply
<1>2. CASE op = "Sub"
    BY <1>2 DEF Apply
<1>3. CASE op = "Mul"
    BY <1>3 DEF Apply
<1>4. CASE op = "Div"
    BY <1>4, QuotientType DEF Apply
<1> QED BY <1>1, <1>2, <1>3, <1>4 DEF arithmetic

-----------------------------------------------------------------------------
(* An instruction that is not faulty accesses the stack only inside. *)
LEMMA OperandsAccessible ==
    ASSUME ~Faulty, NEW o \in Operands
    PROVE  Accessible(o[1], o[2])
BY DEF Faulty, BadOperand

LEMMA WhatIsAccessible ==
    ASSUME TypeOK, pc \in 0 .. Len(program) - 1, ~Faulty
    PROVE  /\ ins.op = "Move" => Accessible(ins.arg0, 1) /\ Accessible(ins.arg1, 1)
           /\ ins.op \in arithmetic => /\ Accessible(ins.arg1, Width[ins.ty])
                                       /\ Accessible(ins.arg2, Width[ins.ty])
           /\ ins.op \in immediate => Accessible(ins.arg0, Width[ins.ty])
           /\ ins.op = "ToI32" => Accessible(ins.arg1, Width[ins.ty])
           /\ ins.op = "Return" /\ call_stack # <<>> =>
                Accessible(ins.arg0, ins.arg1.off)
<1>1. CASE ins.op = "Move"
    <2>1. Operands = {<<ins.arg0, 1>>, <<ins.arg1, 1>>}
        BY <1>1 DEF Operands, arithmetic, immediate, jumps
    <2> QED BY <1>1, <2>1, OperandsAccessible DEF arithmetic, immediate
<1>2. CASE ins.op \in arithmetic
    <2>1. Operands = {<<a, Width[ins.ty]>> : a \in {ins.arg0, ins.arg1, ins.arg2}}
        BY <1>2 DEF Operands, arithmetic, immediate, jumps
    <2>2. <<ins.arg1, Width[ins.ty]>> \in Operands /\ <<ins.arg2, Width[ins.ty]>> \in Operands
        BY <2>1
    <2> QED BY <1>2, <2>2, OperandsAccessible DEF arithmetic, immediate
<1>3. CASE ins.op \in immediate
    <2>1. Operands = {<<ins.arg0, Width[ins.ty]>>}
        BY <1>3 DEF Operands, arithmetic, immediate, jumps
    <2> QED BY <1>3, <2>1, OperandsAccessible DEF arithmetic, immediate
<1>4. CASE ins.op = "ToI32"
    <2>1. Operands = {<<ins.arg0, Width["I32"]>>, <<ins.arg1, Width[ins.ty]>>}
        BY <1>4 DEF Operands, arithmetic, immediate, jumps
    <2> QED BY <1>4, <2>1, OperandsAccessible DEF arithmetic, immediate
<1>5. CASE ins.op = "Return" /\ call_stack # <<>>
    <2>1. Operands = {<<ins.arg0, ins.arg1.off>>}
        BY <1>5 DEF Operands, arithmetic, immediate, jumps
    <2> QED BY <1>5, <2>1, OperandsAccessible DEF arithmetic, immediate
<1> QED BY <1>1, <1>2, <1>3, <1>4, <1>5

(* The instructions that store a number: what they store is one. *)
LEMMA StoresNumbers ==
    ASSUME TypeOK, Move \/ Set \/ Arith \/ ArithD \/ ToI32 \/ SavePC
    PROVE  \E n, v : v \in Int /\ Store(Index(ins.arg0), n, v)
<1>1. /\ pc \in 0 .. Len(program) - 1 /\ ~Faulty /\ FrameTypeOK
    BY DEF Move, Set, Arith, ArithD, ToI32, SavePC, Fetch, TypeOK
<1>2. /\ ins.arg0 \in Address /\ ins.arg1 \in Address /\ ins.arg2 \in Address
      /\ ins.ty \in Types /\ pc \in Nat
    BY <1>1, InsType DEF Instruction
<1>3. CASE Move
    <2>1. Accessible(ins.arg1, 1)
        BY <1>1, <1>3, WhatIsAccessible DEF Move, Fetch
    <2>2. Index(ins.arg1) \in Cells
        <3>1. Index(ins.arg1) \in Nat
            BY <1>1, <1>2 DEF FrameTypeOK, Address, Index
        <3>2. Index(ins.arg1) + 1 <= MaxStack
            BY <2>1 DEF Accessible
        <3> QED BY <3>1, <3>2, VMAssumption DEF Cells
    <2>3. stack[Index(ins.arg1)] \in Int
        BY <2>2, VMAssumption DEF TypeOK, Bytes
    <2> QED BY <1>3, <2>3 DEF Move
<1>4. CASE Set
    BY <1>2, <1>4 DEF Set, Address
<1>5. CASE Arith
    <2>1. /\ ins.op \in arithmetic
          /\ Accessible(ins.arg1, Width[ins.ty])
          /\ Accessible(ins.arg2, Width[ins.ty])
        BY <1>1, <1>5, WhatIsAccessible DEF Arith, Fetch
    <2>2. Value(ins.arg1, ins.ty) \in Int /\ Value(ins.arg2, ins.ty) \in Int
        BY <1>2, <2>1, ValueType
    <2>3. ins.op = "Div" => Value(ins.arg2, ins.ty) # 0
        BY <1>1 DEF Faulty, BadDivision, Traps
    <2>4. Apply(ins.op, Value(ins.arg1, ins.ty), Value(ins.arg2, ins.ty)) \in Int
        BY <2>1, <2>2, <2>3, ApplyType
    <2> QED BY <1>5, <2>4 DEF Arith
<1>6. CASE ArithD
    <2> DEFINE op == [AddD |-> "Add", SubD |-> "Sub", MulD |-> "Mul", DivD |-> "Div"]
    <2>1. ins.op \in immediate /\ Accessible(ins.arg0, Width[ins.ty])
        BY <1>1, <1>6, WhatIsAccessible DEF ArithD, Fetch
    <2>2. Value(ins.arg0, ins.ty) \in Int /\ Immediate(ins.arg1, ins.ty) \in Int
        BY <1>2, <2>1, ValueType, ImmediateType
    <2>3. ins.op = "DivD" => Immediate(ins.arg1, ins.ty) # 0
        BY <1>1 DEF Faulty, BadDivision, Traps
    <2>4. op[ins.op] \in arithmetic /\ (op[ins.op] = "Div" => ins.op = "DivD")
        BY <2>1 DEF immediate, arithmetic
    <2>5. Apply(op[ins.op], Value(ins.arg0, ins.ty), Immediate(ins.arg1, ins.ty))
            \in Int
        <3> HIDE DEF op
        <3> QED BY <2>2, <2>3, <2>4, ApplyType
    <2> QED BY <1>6, <2>5 DEF ArithD
<1>7. CASE ToI32
    <2>1. Accessible(ins.arg1, Width[ins.ty])
        BY <1>1, <1>7, WhatIsAccessible DEF ToI32, Fetch
    <2>2. Value(ins.arg1, ins.ty) \in Int
        BY <1>2, <2>1, ValueType
    <2> QED BY <1>7, <2>2 DEF ToI32
<1>8. CASE SavePC
    BY <1>2, <1>8 DEF SavePC
<1> QED BY <1>3, <1>4, <1>5, <1>6, <1>7, <1>8

LEMMA TypeStep == TypeOK /\ [Next]_vars => TypeOK'
<1> SUFFICES ASSUME TypeOK, [Next]_vars PROVE TypeOK'
    OBVIOUS
<1>1. FrameTypeOK /\ FrameTypeOK'
    BY FrameTypesStep DEF TypeOK
<1>2. CASE Move \/ Set \/ Arith \/ ArithD \/ ToI32 \/ SavePC
    <2>1. /\ pc \in 0 .. Len(program) - 1 /\ pc' = pc + 1 /\ status' = status
        BY <1>2 DEF Move, Set, Arith, ArithD, ToI32, SavePC, Fetch, Advance
    <2>2. ins.arg0 \in Address
        BY <1>1, <2>1, InsType DEF Instruction
    <2>3. Index(ins.arg0) \in Nat
        BY <1>1, <2>2 DEF FrameTypeOK, Index, Address
    <2>4. stack' \in [Cells -> Bytes]
        BY <1>2, <2>3, StoresNumbers, StoreType DEF TypeOK
    <2> QED BY <1>1, <2>1, <2>4 DEF TypeOK
<1>3. CASE SetStackBottom \/ PrintBuiltin
    BY <1>1, <1>3 DEF TypeOK, SetStackBottom, PrintBuiltin, Advance
<1>4. CASE Jump
    <2>1. /\ pc \in 0 .. Len(program) - 1 /\ ~Faulty /\ ins.op \in jumps
          /\ UNCHANGED <<stack, status>>
        BY <1>4 DEF Jump, Fetch
    <2>2. ins.arg2 \in Address
        BY <1>1, <2>1, InsType DEF Instruction
    <2>3. CASE Taken
        <3>1. Accessible(ins.arg2, Width["I64"])
            BY <2>1, <2>3 DEF Faulty, BadTarget
        <3>2. Width["I64"] \in Nat /\ Width["I64"] > 0
            BY VMAssumption DEF Types
        <3>3. /\ Index(ins.arg2) \in Nat
              /\ Index(ins.arg2) + Width["I64"] <= MaxStack
            BY <1>1, <2>2, <3>1, <3>2 DEF FrameTypeOK, Index, Address, Accessible
        <3>4. Load(Index(ins.arg2), Width["I64"]) \in Nat
            BY <3>2, <3>3, LoadType DEF TypeOK
        <3> QED BY <1>1, <1>4, <2>1, <2>3, <3>4 DEF Jump, TypeOK
    <2>4. CASE ~Taken
        BY <1>1, <1>4, <2>1, <2>4 DEF Jump, Advance, TypeOK
    <2> QED BY <2>3, <2>4
<1>5. CASE Call
    <2>1. ins.arg0.off \in Nat
        BY <1>1, <1>5, InsType DEF Call, Fetch, Instruction, Address
    <2> QED BY <1>1, <1>5, <2>1 DEF Call, TypeOK
<1>6. CASE Return
    <2>1. /\ pc \in 0 .. Len(program) - 1 /\ ~Faulty /\ ins.op = "Return"
          /\ call_stack # <<>> /\ pc' = Caller.pc /\ status' = status
        BY <1>6 DEF Return, Fetch
    <2>2. Caller \in CallPoint
        BY <1>1, <2>1, CallerType
    <2>3. ins.arg0 \in Address /\ ins.arg1.off \in Nat
        BY <1>1, <2>1, InsType DEF Instruction, Address
    <2>4. Accessible(ins.arg0, ins.arg1.off)
        BY <2>1, WhatIsAccessible
    <2>5. Index(ins.arg0) \in Nat /\ ResultIndex \in Nat
        <3>1. Index(ins.arg0) \in Nat
            BY <1>1, <2>3 DEF FrameTypeOK, Index, Address
        <3>2. ResultIndex \in Nat
            BY <2>2 DEF ResultIndex, CallPoint, Address
        <3> QED BY <3>1, <3>2
    <2>6. ASSUME NEW c \in Cells, ResultIndex <= c, c < ResultIndex + ins.arg1.off
          PROVE  stack[Index(ins.arg0) + (c - ResultIndex)] \in Bytes
        <3>1. c \in Nat /\ ins.arg1.off > 0
            BY <2>3, <2>5, <2>6, VMAssumption DEF Cells
        <3>2. Index(ins.arg0) + ins.arg1.off <= MaxStack
            BY <2>4, <3>1 DEF Accessible
        <3>3. Index(ins.arg0) + (c - ResultIndex) \in Cells
            BY <2>3, <2>5, <2>6, <3>1, <3>2, VMAssumption DEF Cells
        <3> QED BY <3>3 DEF TypeOK
    <2>7. stack' \in [Cells -> Bytes]
        BY <1>6, <2>6 DEF Return, TypeOK
    <2> QED BY <1>1, <2>1, <2>2, <2>7 DEF TypeOK, CallPoint
<1>7. CASE Finish \/ Fault \/ UNCHANGED vars
    BY <1>1, <1>7 DEF Finish, Fault, vars, TypeOK
<1> QED BY <1>2, <1>3, <1>4, <1>5, <1>6, <1>7 DEF Next

(***************************************************************************)
(* Whatever the program does, bytes stay bytes and pc_ a place: a step of  *)
(* Run that does not fault reads nothing but the machine's stack.          *)
(***************************************************************************)
THEOREM TypeCorrect == Spec => []TypeOK
<1>1. Init => TypeOK
    BY FrameTypesInit, VMAssumption DEF Init, MachineInit, TypeOK, Cells, Bytes
<1> QED BY <1>1, TypeStep, PTL DEF Spec

-----------------------------------------------------------------------------
(* What is stored is read back: the digits to the base ByteRange           *)

LEMMA DivMod ==
    ASSUME NEW v \in Int, NEW K \in Nat, K > 0
    PROVE  /\ v \div K \in Int /\ v % K \in Nat /\ v % K < K
           /\ v = ((v \div K) * K) + (v % K)
<1>1. v \div K \in Int /\ v % K \in Nat /\ v % K < K
    OBVIOUS
<1> DEFINE q == v \div K
           r == v % K
<1>2. q \in Int /\ r \in Int /\ q = v \div K /\ r = v % K
    BY <1>1
<1>3. v = q * K + r
    <2> HIDE DEF q, r
    <2> QED BY <1>2
<1> QED BY <1>1, <1>3

(* No multiple of K but 0 lies between -K and K. *)
LEMMA NoMultipleBetween ==
    ASSUME NEW d \in Int, NEW K \in Nat, -K < d * K, d * K < K
    PROVE  d = 0
<1>1. CASE d >= 1
    <2>1. d * K >= K
        <3>1. (d - 1) * K >= 0
            BY <1>1
        <3>2. (d - 1) * K = d * K - K
            OBVIOUS
        <3> QED BY <3>1, <3>2
    <2> QED BY <2>1
<1>2. CASE d <= -1
    <2>1. (-d - 1) * K >= 0
        BY <1>2
    <2>2. (-d - 1) * K = -(d * K) - K
        OBVIOUS
    <2> QED BY <2>1, <2>2
<1> QED BY <1>1, <1>2

(* The remainder is the only one. *)
LEMMA ModUnique ==
    ASSUME NEW q \in Int, NEW K \in Nat, NEW r \in Nat, r < K
    PROVE  (q * K + r) % K = r
<1> DEFINE v == q * K + r
           p == v \div K
           s == v % K
<1>1. v \in Int
    OBVIOUS
<1>2. p \in Int /\ s \in Nat /\ s < K /\ v = p * K + s
    <2> HIDE DEF v
    <2> QED BY <1>1, DivMod
<1>3. q * K + r = p * K + s
    BY <1>2
<1> HIDE DEF v, p, s
<1>4. (q - p) * K = q * K - p * K
    BY <1>2
<1>5. (q - p) * K = s - r
    BY <1>2, <1>3, <1>4
<1>6. q - p \in Int /\ -K < (q - p) * K /\ (q - p) * K < K
    BY <1>2, <1>5
<1>7. q - p = 0
    BY <1>6, NoMultipleBetween
<1>8. q = p
    BY <1>2, <1>7
<1>9. s = r
    BY <1>2, <1>3, <1>8
<1> QED BY <1>9 DEF s, v

(* One more digit to the base B *)
LEMMA ModStep ==
    ASSUME NEW v \in Int, NEW M \in Nat, M > 0, NEW B \in Nat, B > 0
    PROVE  v % (B * M) = (v % M) + ((v \div M) % B) * M
<1> DEFINE q == v \div M
           r == v % M
           p == q \div B
           d == q % B
<1>1. q \in Int /\ r \in Nat /\ r < M /\ v = q * M + r
    BY DivMod
<1>2. p \in Int /\ d \in Nat /\ d < B /\ q = p * B + d
    <2> HIDE DEF q
    <2> QED BY <1>1, DivMod
<1> HIDE DEF q, r, p, d
<1>3. B * M \in Nat /\ d * M \in Nat /\ d * M + r \in Nat
    BY <1>1, <1>2
<1>4. v = p * (B * M) + (d * M + r)
    <2>1. v = (p * B + d) * M + r
        BY <1>1, <1>2
    <2>2. (p * B + d) * M = p * (B * M) + d * M
        BY <1>2
    <2>3. p * (B * M) \in Int
        BY <1>2, <1>3
    <2> QED BY <2>1, <2>2, <2>3, <1>3, <1>1
<1>5. d * M + r < B * M
    <2>1. (B - 1 - d) * M >= 0
        BY <1>2
    <2>2. (B - 1 - d) * M = B * M - M - d * M
        BY <1>2
    <2> QED BY <2>1, <2>2, <1>1, <1>3
<1> DEFINE K == B * M
           e == d * M + r
<1>6. K \in Nat /\ e \in Nat /\ e < K /\ v = p * K + e
    BY <1>3, <1>4, <1>5
<1>7. v % K = e
    <2> HIDE DEF K, e
    <2> QED BY <1>2, <1>6, ModUnique
<1>8. v % (B * M) = d * M + r
    BY <1>7
<1>9. d * M + r = r + d * M
    BY <1>1, <1>3
<1> QED BY <1>8, <1>9 DEF d, q, r

(* The n bytes from k on in s are those from j on in t. *)
SameBytes(s, k, t, j, n) == \A i \in 0 .. n - 1 : s[k + i] = t[j + i]

(* Equal bytes are equal numbers. *)
LEMMA SumsAgree ==
    ASSUME NEW s \in [Cells -> Bytes], NEW t \in [Cells -> Bytes],
           NEW k \in Nat, NEW j \in Nat, NEW n \in Nat,
           k + n <= MaxStack, j + n <= MaxStack, SameBytes(s, k, t, j, n)
    PROVE  ByteSum(s, k, n)[n] = ByteSum(t, j, n)[n]
<1> DEFINE f == ByteSum(s, k, n)
           g == ByteSum(t, j, n)
           T == {i \in 0 .. n : f[i] # g[i]}
<1>0. /\ f[0] = 0 /\ g[0] = 0
      /\ \A i \in 1 .. n : f[i] = f[i - 1] + s[k + i - 1] * Modulus(i - 1)
      /\ \A i \in 1 .. n : g[i] = g[i - 1] + t[j + i - 1] * Modulus(i - 1)
    BY SumRight
<1> HIDE DEF f, g
<1>1. T = {}
    <2> SUFFICES ASSUME T # {} PROVE FALSE
        OBVIOUS
    <2>1. PICK i \in T : \A m \in T : i <= m
        <3>1. T \subseteq Nat
            OBVIOUS
        <3> QED BY <3>1, LeastNumber
    <2>2. i # 0 /\ i \in 1 .. n /\ i - 1 \in 0 .. n
        BY <1>0
    <2>3. i - 1 \notin T
        <3> HIDE DEF T
        <3> QED BY <2>1, <2>2
    <2>4. f[i - 1] = g[i - 1]
        BY <2>2, <2>3
    <2>5. s[k + i - 1] = t[j + i - 1]
        <3>1. i - 1 \in 0 .. n - 1 /\ k + (i - 1) = k + i - 1 /\ j + (i - 1) = j + i - 1
            BY <2>2
        <3> QED BY <3>1 DEF SameBytes
    <2>6. f[i] = g[i]
        BY <2>2, <2>4, <2>5, <1>0
    <2> QED BY <2>6
<1> QED BY <1>1 DEF f, g

(* A number that is stored is read back, as far as its bytes hold it. *)
LEMMA LoadOfStore ==
    ASSUME stack \in [Cells -> Bytes], NEW k \in Nat, NEW n \in Nat, NEW v \in Int,
           k + n <= MaxStack, Store(k, n, v)
    PROVE  Load(k, n)' = v % Modulus(n)
<1> DEFINE f == ByteSum(stack', k, n)
           T == {i \in 0 .. n : f[i] # v % Modulus(i)}
<1>0. stack' \in [Cells -> Bytes]
    BY StoreType
<1>1. /\ f[0] = 0
      /\ \A i \in 1 .. n : f[i] = f[i - 1] + stack'[k + i - 1] * Modulus(i - 1)
    BY <1>0, SumRight
<1>2. Load(k, n)' = f[n]
    BY DEF Load, ByteSum
<1> HIDE DEF f
<1>3. f[0] = v % Modulus(0)
    <2>1. v % 1 = 0
        OBVIOUS
    <2> QED BY <1>1, <2>1, ModulusRight
<1>4. T = {}
    <2> SUFFICES ASSUME T # {} PROVE FALSE
        OBVIOUS
    <2>1. PICK i \in T : \A m \in T : i <= m
        <3>1. T \subseteq Nat
            OBVIOUS
        <3> QED BY <3>1, LeastNumber
    <2>2. i # 0 /\ i \in 1 .. n /\ i - 1 \in 0 .. n
        BY <1>3
    <2>3. i - 1 \notin T
        <3> HIDE DEF T
        <3> QED BY <2>1, <2>2
    <2> DEFINE M == Modulus(i - 1)
    <2>4. f[i - 1] = v % M
        BY <2>2, <2>3
    <2>5. i - 1 \in Nat /\ (i - 1) + 1 = i
        BY <2>2
    <2>6. M \in Nat /\ M > 0 /\ Modulus(i) = ByteRange * M
        BY <2>5, ModulusRight
    <2>7. stack'[k + i - 1] = (v \div M) % ByteRange
        <3>1. /\ k + i - 1 \in Cells /\ k <= k + i - 1 /\ k + i - 1 < k + n
              /\ (k + i - 1) - k = i - 1
            BY <2>2, VMAssumption DEF Cells
        <3> QED BY <3>1 DEF Store
    <2>8. f[i] = (v % M) + ((v \div M) % ByteRange) * M
        BY <1>1, <2>2, <2>4, <2>7
    <2> HIDE DEF M
    <2>9. v % (ByteRange * M) = (v % M) + ((v \div M) % ByteRange) * M
        BY <2>6, ModStep, VMAssumption
    <2>10. f[i] = v % Modulus(i)
        BY <2>6, <2>8, <2>9
    <2> QED BY <2>10
<1> QED BY <1>2, <1>4

(* A store leaves every number alone that it does not overlap. *)
LEMMA LoadElsewhere ==
    ASSUME stack \in [Cells -> Bytes], NEW k \in Nat, NEW n \in Nat, NEW v \in Int,
           Store(k, n, v), NEW j \in Nat, NEW m \in Nat, j + m <= MaxStack,
           j + m <= k \/ k + n <= j
    PROVE  Load(j, m)' = Load(j, m)
<1>1. stack' \in [Cells -> Bytes]
    BY StoreType
<1>2. SameBytes(stack', j, stack, j, m)
    <2>1. ASSUME NEW i \in 0 .. m - 1 PROVE stack'[j + i] = stack[j + i]
        <3>1. j + i \in Cells /\ ~(k <= j + i /\ j + i < k + n)
            BY VMAssumption DEF Cells
        <3> QED BY <3>1 DEF Store
    <2> QED BY <2>1 DEF SameBytes
<1>3. ByteSum(stack', j, m)[m] = ByteSum(stack, j, m)[m]
    BY <1>1, <1>2, SumsAgree
<1> QED BY <1>3 DEF Load, ByteSum

(* A number that fits into n bytes is the signed number of its remainder. *)
LEMMA SignedRight ==
    ASSUME NEW n \in Nat, NEW v \in Int,
           -Modulus(n) <= 2 * v, 2 * v < Modulus(n)
    PROVE  Signed(v % Modulus(n), n) = v
<1> DEFINE M == Modulus(n)
<1>1. M \in Nat /\ M > 0
    BY ModulusRight
<1>2. /\ -M <= 2 * v /\ 2 * v < M
      /\ \A x : Signed(x, n) = IF 2 * x < M THEN x ELSE x - M
    BY DEF Signed
<1> HIDE DEF M
<1>3. CASE v >= 0
    <2>1. v = 0 * M + v /\ v \in Nat /\ v < M
        BY <1>1, <1>2, <1>3
    <2>2. (0 * M + v) % M = v
        BY <1>1, <2>1, ModUnique
    <2>3. v % M = v
        BY <2>1, <2>2
    <2>4. Signed(v % M, n) = v
        BY <1>2, <2>3
    <2> QED BY <2>4 DEF M
<1>4. CASE v < 0
    <2> DEFINE r == v + M
    <2>1. v = -1 * M + r /\ r \in Nat /\ r < M
        BY <1>1, <1>2, <1>4
    <2>2. (-1 * M + r) % M = r
        <3> HIDE DEF r
        <3> QED BY <1>1, <2>1, ModUnique
    <2>3. v % M = r
        <3> HIDE DEF r
        <3> QED BY <2>1, <2>2
    <2>4. ~(2 * r < M) /\ r - M = v
        BY <1>1, <1>2
    <2>5. Signed(v % M, n) = v
        BY <1>2, <2>3, <2>4
    <2> QED BY <2>5 DEF M
<1> QED BY <1>3, <1>4

-----------------------------------------------------------------------------
(* After the step, the n bytes from index k on hold v: read as a signed    *)
(* number they are v itself if n bytes can hold it.  Every number that     *)
(* lies elsewhere is what it was.                                          *)
ReadBack(k, n, v) ==
    \A j, m, x : j = k /\ m = n /\ x = v =>
        /\ Load(j, m)' = x % Modulus(m)
        /\ -Modulus(m) <= 2 * x /\ 2 * x < Modulus(m) => Signed(Load(j, m)', m) = x
        /\ \A i, l \in Nat :
             i + l <= MaxStack /\ (i + l <= j \/ j + m <= i) => Load(i, l)' = Load(i, l)

(* The operator of an instruction with an immediate *)
Operator == [AddD |-> "Add", SubD |-> "Sub", MulD |-> "Mul", DivD |-> "Div"]

(* What the instructions leave in memory *)
LeavesValue ==
    /\ Set => ReadBack(Index(ins.arg0), Width[ins.ty], ins.arg1.off)
    /\ Arith =>
         ReadBack(Index(ins.arg0), Width[ins.ty],
                  Apply(ins.op, Value(ins.arg1, ins.ty), Value(ins.arg2, ins.ty)))
    /\ ArithD =>
         ReadBack(Index(ins.arg0), Width[ins.ty],
                  Apply(Operator[ins.op], Value(ins.arg0, ins.ty),
                        Immediate(ins.arg1, ins.ty)))
    /\ ToI32 => ReadBack(Index(ins.arg0), Width["I32"], Value(ins.arg1, ins.ty))
    /\ SavePC => ReadBack(Index(ins.arg0), Width["I64"], pc + 1)
    /\ Return =>
         \A j, m, x :
             j = ResultIndex /\ m = ins.arg1.off /\ m > 0 /\ x = Load(Index(ins.arg0), m)
               => Load(j, m)' = x

(***************************************************************************)
(* Memory is one array of bytes that every instruction casts as it likes   *)
(* (vm.cpp's *(C_TYPE * ) of addresses).  Still each instruction leaves the*)
(* number it computed, of the size it computed, at its first operand, and  *)
(* changes no other number: the pc that SavePC saved is the one a jump     *)
(* will read, and a Return leaves in the caller's frame the number that it *)
(* found in the callee's.                                                  *)
(***************************************************************************)
ValuesStored == [][LeavesValue]_vars

LEMMA StoreReadsBack ==
    ASSUME stack \in [Cells -> Bytes], NEW k \in Nat, NEW n \in Nat, NEW v \in Int,
           k + n <= MaxStack, Store(k, n, v)
    PROVE  ReadBack(k, n, v)
<1>1. Load(k, n)' = v % Modulus(n)
    BY LoadOfStore
<1>2. -Modulus(n) <= 2 * v /\ 2 * v < Modulus(n) => Signed(v % Modulus(n), n) = v
    BY SignedRight
<1>3. \A i, l \in Nat :
        i + l <= MaxStack /\ (i + l <= k \/ k + n <= i) => Load(i, l)' = Load(i, l)
    BY LoadElsewhere
<1> QED BY <1>1, <1>2, <1>3, Zenon DEF ReadBack

(* Each instruction that stores a number, with the place, the size and the *)
(* number it stores                                                        *)
LEMMA InstructionReadsBack ==
    ASSUME TypeOK, pc \in 0 .. Len(program) - 1, ~Faulty,
           NEW n \in Nat \ {0}, NEW v \in Int, <<ins.arg0, n>> \in Operands,
           Store(Index(ins.arg0), n, v)
    PROVE  ReadBack(Index(ins.arg0), n, v)
<1>1. ins.arg0 \in Address
    BY InsType DEF TypeOK, Instruction
<1>2. Accessible(ins.arg0, n)
    BY OperandsAccessible
<1>3. PICK k : k = Index(ins.arg0)
    OBVIOUS
<1>4. k \in Nat /\ k + n <= MaxStack /\ n \in Nat
    BY <1>1, <1>2, <1>3 DEF TypeOK, FrameTypeOK, Index, Address, Accessible
<1>5. Store(k, n, v)
    BY <1>3
<1>6. ReadBack(k, n, v)
    BY <1>4, <1>5, StoreReadsBack DEF TypeOK
<1> QED BY <1>3, <1>6

(* A Return copies the bytes of the result, so it copies the number. *)
LEMMA ReturnCopies ==
    ASSUME TypeOK, TypeOK', Return,
           NEW k, NEW j, NEW m, k = Index(ins.arg0), j = ResultIndex,
           m = ins.arg1.off, m > 0
    PROVE  Load(j, m)' = Load(k, m)
<1>1. /\ pc \in 0 .. Len(program) - 1 /\ ~Faulty /\ ins.op = "Return"
      /\ call_stack # <<>>
    BY DEF Return, Fetch
<1>2. ins.arg0 \in Address /\ m \in Nat /\ Caller \in CallPoint
    BY <1>1, InsType, CallerType DEF TypeOK, Instruction, Address
<1>3. k \in Nat /\ j \in Nat
    <2>1. k \in Nat
        BY <1>2 DEF TypeOK, FrameTypeOK, Index, Address
    <2>2. ResultIndex \in Nat
        BY <1>2 DEF ResultIndex, CallPoint, Address
    <2> QED BY <2>1, <2>2
<1>4. k + m <= MaxStack /\ j + m <= MaxStack
    <2>1. Accessible(ins.arg0, m)
        BY <1>1, WhatIsAccessible
    <2>2. j + m <= MaxStack
        <3>1. ~BadResult
            BY <1>1 DEF Faulty
        <3>2. ~(ResultIndex + ins.arg1.off > MaxStack)
            BY <1>1, <3>1 DEF BadResult
        <3> QED BY <1>2, <1>3, <3>2, VMAssumption
    <2> QED BY <2>1, <2>2 DEF Accessible
<1>5. stack' = [c \in Cells |-> IF j <= c /\ c < j + m THEN stack[k + (c - j)]
                                ELSE stack[c]]
    BY DEF Return
<1>6. SameBytes(stack', j, stack, k, m)
    <2>1. ASSUME NEW i \in 0 .. m - 1 PROVE stack'[j + i] = stack[k + i]
        <3>1. m \in Nat /\ i \in Nat /\ i < m
            BY <1>2
        <3>2. j <= j + i /\ j + i < j + m /\ k + ((j + i) - j) = k + i
            BY <1>3, <3>1
        <3>3. j + i \in Cells
            BY <1>3, <1>4, <3>1, <3>2, VMAssumption DEF Cells
        <3> QED BY <1>5, <3>2, <3>3
    <2> QED BY <2>1 DEF SameBytes
<1>7. ByteSum(stack', j, m)[m] = ByteSum(stack, k, m)[m]
    BY <1>2, <1>3, <1>4, <1>6, SumsAgree DEF TypeOK
<1> QED BY <1>7 DEF Load, ByteSum

LEMMA ValuesStep ==
    ASSUME TypeOK, TypeOK' PROVE LeavesValue
<1> DEFINE stores == Set \/ Arith \/ ArithD \/ ToI32 \/ SavePC
<1>1. ASSUME stores
      PROVE  /\ pc \in 0 .. Len(program) - 1 /\ ~Faulty
             /\ ins.arg0 \in Address /\ ins.arg1 \in Address /\ ins.arg2 \in Address
             /\ ins.ty \in Types /\ pc \in Nat
    <2>1. pc \in 0 .. Len(program) - 1 /\ ~Faulty
        BY <1>1 DEF Set, Arith, ArithD, ToI32, SavePC, Fetch
    <2> QED BY <2>1, InsType DEF TypeOK, Instruction
<1>2. \A ty \in Types : Width[ty] \in Nat \ {0}
    BY VMAssumption
<1>3. Set => ReadBack(Index(ins.arg0), Width[ins.ty], ins.arg1.off)
    <2> DEFINE n == Width[ins.ty]
               v == ins.arg1.off
    <2> SUFFICES ASSUME Set PROVE ReadBack(Index(ins.arg0), n, v)
        OBVIOUS
    <2>1. n \in Nat \ {0} /\ v \in Int /\ Store(Index(ins.arg0), n, v)
        BY <1>1, <1>2 DEF Set, Address
    <2>2. <<ins.arg0, n>> \in Operands
        BY DEF Set, Fetch, Operands, arithmetic, immediate, jumps
    <2> HIDE DEF n, v
    <2> QED BY <1>1, <2>1, <2>2, InstructionReadsBack
<1>4. Arith =>
        ReadBack(Index(ins.arg0), Width[ins.ty],
                 Apply(ins.op, Value(ins.arg1, ins.ty), Value(ins.arg2, ins.ty)))
    <2> DEFINE n == Width[ins.ty]
               v == Apply(ins.op, Value(ins.arg1, ins.ty), Value(ins.arg2, ins.ty))
    <2> SUFFICES ASSUME Arith PROVE ReadBack(Index(ins.arg0), n, v)
        OBVIOUS
    <2>1. n \in Nat \ {0} /\ v \in Int /\ Store(Index(ins.arg0), n, v)
        <3>1. /\ ins.op \in arithmetic
              /\ Accessible(ins.arg1, Width[ins.ty])
              /\ Accessible(ins.arg2, Width[ins.ty])
            BY <1>1, WhatIsAccessible DEF Arith, Fetch
        <3>2. Value(ins.arg1, ins.ty) \in Int /\ Value(ins.arg2, ins.ty) \in Int
            BY <1>1, <3>1, ValueType
        <3>3. ins.op = "Div" => Value(ins.arg2, ins.ty) # 0
            BY <1>1 DEF Faulty, BadDivision, Traps
        <3>4. v \in Int
            BY <3>1, <3>2, <3>3, ApplyType
        <3> QED BY <1>1, <1>2, <3>4 DEF Arith
    <2>2. <<ins.arg0, n>> \in Operands
        BY DEF Arith, Fetch, Operands, arithmetic, immediate, jumps
    <2> HIDE DEF n, v
    <2> QED BY <1>1, <2>1, <2>2, InstructionReadsBack
<1>5. ArithD =>
        ReadBack(Index(ins.arg0), Width[ins.ty],
                 Apply(Operator[ins.op], Value(ins.arg0, ins.ty),
                       Immediate(ins.arg1, ins.ty)))
    <2> DEFINE n == Width[ins.ty]
               v == Apply(Operator[ins.op], Value(ins.arg0, ins.ty),
                          Immediate(ins.arg1, ins.ty))
    <2> SUFFICES ASSUME ArithD PROVE ReadBack(Index(ins.arg0), n, v)
        OBVIOUS
    <2>1. n \in Nat \ {0} /\ v \in Int /\ Store(Index(ins.arg0), n, v)
        <3>1. ins.op \in immediate /\ Accessible(ins.arg0, Width[ins.ty])
            BY <1>1, WhatIsAccessible DEF ArithD, Fetch
        <3>2. Value(ins.arg0, ins.ty) \in Int /\ Immediate(ins.arg1, ins.ty) \in Int
            BY <1>1, <3>1, ValueType, ImmediateType
        <3>3. ins.op = "DivD" => Immediate(ins.arg1, ins.ty) # 0
            BY <1>1 DEF Faulty, BadDivision, Traps
        <3>4. /\ Operator[ins.op] \in arithmetic
              /\ Operator[ins.op] = "Div" => ins.op = "DivD"
            BY <3>1 DEF Operator, immediate, arithmetic
        <3>5. v \in Int
            BY <3>2, <3>3, <3>4, ApplyType
        <3>6. Store(Index(ins.arg0), n, v)
            BY DEF ArithD, Operator
        <3> QED BY <1>1, <1>2, <3>5, <3>6
    <2>2. <<ins.arg0, n>> \in Operands
        BY DEF ArithD, Fetch, Operands, arithmetic, immediate, jumps
    <2> HIDE DEF n, v
    <2> QED BY <1>1, <2>1, <2>2, InstructionReadsBack
<1>6. ToI32 => ReadBack(Index(ins.arg0), Width["I32"], Value(ins.arg1, ins.ty))
    <2> DEFINE n == Width["I32"]
               v == Value(ins.arg1, ins.ty)
    <2> SUFFICES ASSUME ToI32 PROVE ReadBack(Index(ins.arg0), n, v)
        OBVIOUS
    <2>1. n \in Nat \ {0} /\ v \in Int /\ Store(Index(ins.arg0), n, v)
        <3>1. Accessible(ins.arg1, Width[ins.ty])
            BY <1>1, WhatIsAccessible DEF ToI32, Fetch
        <3>2. v \in Int
            BY <1>1, <3>1, ValueType
        <3> QED BY <1>2, <3>2 DEF ToI32, Types
    <2>2. <<ins.arg0, n>> \in Operands
        BY DEF ToI32, Fetch, Operands, arithmetic, immediate, jumps
    <2> HIDE DEF n, v
    <2> QED BY <1>1, <2>1, <2>2, InstructionReadsBack
<1>7. SavePC => ReadBack(Index(ins.arg0), Width["I64"], pc + 1)
    <2> DEFINE n == Width["I64"]
               v == pc + 1
    <2> SUFFICES ASSUME SavePC PROVE ReadBack(Index(ins.arg0), n, v)
        OBVIOUS
    <2>1. n \in Nat \ {0} /\ v \in Int /\ Store(Index(ins.arg0), n, v)
        BY <1>1, <1>2 DEF SavePC, Types
    <2>2. <<ins.arg0, n>> \in Operands
        BY DEF SavePC, Fetch, Operands, arithmetic, immediate, jumps
    <2> HIDE DEF n, v
    <2> QED BY <1>1, <2>1, <2>2, InstructionReadsBack
<1>8. ASSUME Return, NEW j, NEW m, NEW x, j = ResultIndex, m = ins.arg1.off, m > 0,
             x = Load(Index(ins.arg0), m)
      PROVE  Load(j, m)' = x
    <2>1. PICK k : k = Index(ins.arg0)
        OBVIOUS
    <2>2. Load(j, m)' = Load(k, m)
        BY <1>8, <2>1, ReturnCopies
    <2> QED BY <1>8, <2>1, <2>2
<1> QED BY <1>3, <1>4, <1>5, <1>6, <1>7, <1>8, Zenon DEF LeavesValue

(***************************************************************************)
(* For every program, byte and word size: what an instruction computes is  *)
(* what the next one reads there.                                          *)
(***************************************************************************)
THEOREM ValuesAreStored == Spec => ValuesStored
<1>1. TypeOK /\ TypeOK' /\ [Next]_vars => [LeavesValue]_vars
    BY ValuesStep
<1> QED BY <1>1, TypeCorrect, PTL DEF Spec, ValuesStored
=============================================================================
