----------------------------- MODULE FlagProofs -----------------------------
(***************************************************************************)
(* What instructions can do to the two copies of the status register, the  *)
(* set cpu.flags and the byte cpu.p, for every program.  Each handler is   *)
(* shown to pass Finish, Reading, or Storing a processor that either keeps *)
(* the flags or follows from the current one by the setters alone.         *)
(***************************************************************************)
EXTENDS CpuProofs

Settable == {"Negative", "Overflow", "InterruptDisable", "Zero", "Carry"}

HasStatus(c) == {"flags", "p"} \subseteq DOMAIN c

(* c is the current processor after any number of flag setters *)
Follows(c) == /\ HasStatus(c) /\ c.p = cpu.p
              /\ cpu.flags \ c.flags \subseteq {"Negative"}
              /\ c.flags \ cpu.flags \subseteq Settable

(* c has the flags of the current processor, and perhaps another p *)
Keeps(c) == HasStatus(c) /\ c.flags = cpu.flags

StatusStep(c) == Follows(c) \/ Keeps(c)

LEMMA CpuFollows == ASSUME TypeOK PROVE Follows(cpu) /\ Keeps(cpu)
<1>1. HasStatus(cpu)
  BY SMT DEF HasStatus, TypeOK, CPU
<1> QED
  BY <1>1, Zenon DEF Follows, Keeps

-----------------------------------------------------------------------------
(* Assignments to other registers *)

SameStatus(c, d) == HasStatus(d) /\ d.flags = c.flags /\ d.p = c.p

LEMMA OtherRegisters ==
  ASSUME NEW c, HasStatus(c), NEW v
  PROVE  /\ SameStatus(c, [c EXCEPT !.a = v]) /\ SameStatus(c, [c EXCEPT !.x = v])
         /\ SameStatus(c, [c EXCEPT !.sp = v]) /\ SameStatus(c, [c EXCEPT !.pc = v])
  BY SMT DEF HasStatus, SameStatus

LEMMA SameStatusSteps ==
  ASSUME NEW c, NEW d, SameStatus(c, d)
  PROVE  (Follows(c) => Follows(d)) /\ (Keeps(c) => Keeps(d))
  BY SMT DEF SameStatus, Follows, Keeps

LEMMA FollowsAssign ==
  ASSUME NEW c, Follows(c), NEW v
  PROVE  /\ Follows([c EXCEPT !.a = v]) /\ Follows([c EXCEPT !.x = v])
         /\ Follows([c EXCEPT !.sp = v]) /\ Follows([c EXCEPT !.pc = v])
<1>1. HasStatus(c)
  BY Zenon DEF Follows
<1> QED
  BY <1>1, OtherRegisters, SameStatusSteps, Zenon

LEMMA KeepsAssign ==
  ASSUME NEW c, Keeps(c), NEW v
  PROVE  /\ Keeps([c EXCEPT !.a = v]) /\ Keeps([c EXCEPT !.x = v])
         /\ Keeps([c EXCEPT !.sp = v]) /\ Keeps([c EXCEPT !.pc = v])
         /\ Keeps([c EXCEPT !.p = v])
<1>1. HasStatus(c)
  BY Zenon DEF Keeps
<1>2. Keeps([c EXCEPT !.p = v])
  BY SMT DEF Keeps, HasStatus
<1> QED
  BY <1>1, <1>2, OtherRegisters, SameStatusSteps, Zenon

-----------------------------------------------------------------------------
(* Setters *)

LEMMA SettersFollow ==
  ASSUME NEW c, Follows(c), NEW v
  PROVE  /\ Follows(set_negative(c, v)) /\ Follows(set_overflow(c, v))
         /\ Follows(set_zero(c, v)) /\ Follows(set_carry(c, v))
         /\ Follows(set_interrupt_disable(c, TRUE)) /\ Follows(set_decimal(c, FALSE))
<1>1. ASSUME NEW f \in Settable PROVE Follows(Insert(c, f))
  BY <1>1, SMT DEF Insert, Follows, HasStatus
<1>2. Follows(Remove(c, "Negative"))
  BY SMT DEF Remove, Follows, HasStatus
<1>3. {"Negative", "Overflow", "InterruptDisable", "Zero", "Carry"} \subseteq Settable
  BY Zenon DEF Settable
<1> QED
  BY <1>1, <1>2, <1>3, Zenon DEF set_negative, set_overflow, set_zero, set_carry,
     set_interrupt_disable, set_decimal

LEMMA UpdatesFollow ==
  ASSUME NEW c, Follows(c), NEW v
  PROVE  /\ Follows(update_register(c, v)) /\ Follows(ResultFlags(c, v))
         /\ Follows(ShiftFlags(c, v))
<1>1. \A d, w : Follows(d) => Follows(ResultFlags(d, w))
  BY SettersFollow, Zenon DEF ResultFlags
<1> QED
  BY <1>1, SettersFollow, Zenon DEF update_register, ShiftFlags

-----------------------------------------------------------------------------
(* Ways a call ends *)

LEMMA FinishStatus ==
  ASSUME NEW c, StatusStep(c), NEW m, Finish(c, m) PROVE StatusStep(cpu')
<1>1. \A w : StatusStep([c EXCEPT !.pc = w])
  BY FollowsAssign, KeepsAssign, Zenon DEF StatusStep
<1> QED
  BY <1>1, Zenon DEF Finish, Return, Ends

LEMMA ReadingStatus ==
  ASSUME TypeOK, NEW c, StatusStep(c), NEW addr, Reading(addr, c) PROVE StatusStep(cpu')
  BY CpuFollows, FinishStatus, Zenon DEF Reading, Return, Ends, StatusStep

LEMMA StoringStatus ==
  ASSUME TypeOK, NEW c, StatusStep(c), NEW addr, NEW v, Storing(addr, v, c)
  PROVE  StatusStep(cpu')
  BY CpuFollows, FinishStatus, Zenon DEF Storing, Return, Ends, StatusStep

LEMMA OraStatus == ASSUME TypeOK, NEW addr, Ora(addr) PROVE StatusStep(cpu')
  BY CpuFollows, FollowsAssign, UpdatesFollow, ReadingStatus, Zenon DEF Ora, StatusStep

LEMMA AslStatus == ASSUME TypeOK, NEW addr, Asl(addr) PROVE StatusStep(cpu')
  BY CpuFollows, UpdatesFollow, StoringStatus, Zenon DEF Asl, Return, Ends, StatusStep

LEMMA BitStatus == ASSUME TypeOK, NEW addr, Bit(addr) PROVE StatusStep(cpu')
<1>1. \A v, w, z : Follows(set_overflow(set_negative(set_zero(cpu, v), w), z))
  BY CpuFollows, SettersFollow, Zenon
<1> QED
  BY <1>1, ReadingStatus, Zenon DEF Bit, StatusStep

-----------------------------------------------------------------------------
(* Every call but a reset and BRK *)
LEMMA InstructionStatus ==
  ASSUME TypeOK, [Next]_vars, ~ Reset, ~ brk_implied PROVE StatusStep(cpu')
<1>1. Follows(cpu) /\ Keeps(cpu)
  BY CpuFollows
<1>2. \A r : /\ Follows(update_register([cpu EXCEPT !.a = r], r))
             /\ Follows(update_register([cpu EXCEPT !.x = r], r))
             /\ Follows(update_register([cpu EXCEPT !.sp = r], r))
  BY <1>1, FollowsAssign, UpdatesFollow, Zenon
<1>3. CASE LoadsAndStores
  BY <1>1, <1>2, <1>3, FinishStatus, ReadingStatus, StoringStatus, Zenon
     DEF LoadsAndStores, StatusStep, lda_immediate, ldx_immediate, lda_absolute,
     lda_absolute_ix, sta_absolute, sta_absolute_ix, txs_implied, txa_implied
<1>4. CASE Arithmetic
  <2>1. CASE inx_implied \/ dex_implied
    BY <1>2, <2>1, FinishStatus, Zenon DEF inx_implied, dex_implied, SetX, StatusStep
  <2>2. CASE cmp_absolute_ix
    <3>1. \A v, w, z : Follows(set_negative(set_zero(set_carry(cpu, v), w), z))
      BY <1>1, SettersFollow, Zenon
    <3> QED
      BY <2>2, <3>1, ReadingStatus, Zenon DEF cmp_absolute_ix, StatusStep
  <2>3. CASE ora_zero_page \/ ora_absolute \/ ora_zp_x \/ ora_absolute_y \/ ora_indirect_y
    BY <2>3, OraStatus, Zenon DEF ora_zero_page, ora_absolute, ora_zp_x,
       ora_absolute_y, ora_indirect_y
  <2>4. CASE ora_indirect_x
    BY <1>1, <2>4, OraStatus, Zenon DEF ora_indirect_x, Return, Ends, StatusStep
  <2>5. CASE asl_zero_page \/ asl_absolute
    BY <2>5, AslStatus, Zenon DEF asl_zero_page, asl_absolute
  <2>6. CASE asl_accumulator
    <3>1. \A v, w : Follows(ShiftFlags([cpu EXCEPT !.a = v], w))
      BY <1>1, FollowsAssign, UpdatesFollow, Zenon
    <3> QED
      BY <2>6, <3>1, FinishStatus, Zenon DEF asl_accumulator, StatusStep
  <2>7. CASE bit_zero_page \/ bit_absolute
    BY <2>7, BitStatus, Zenon DEF bit_zero_page, bit_absolute
  <2> QED
    BY <1>4, <2>1, <2>2, <2>3, <2>4, <2>5, <2>6, <2>7, Zenon DEF Arithmetic
<1>5. CASE Branches
  <2>1. \A w : Follows([cpu EXCEPT !.pc = w])
    BY <1>1, FollowsAssign, Zenon
  <2> QED
    BY <1>1, <1>5, <2>1, FinishStatus, Zenon DEF Branches, bpl_relative, bmi_relative,
       bne_relative, beq_relative, Branched, Return, Ends, StatusStep
<1>6. CASE FlagChanges
  BY <1>1, <1>6, SettersFollow, FinishStatus, Zenon DEF FlagChanges, sei_implied,
     cld_implied, clc_implied, sec_implied, StatusStep
<1>7. CASE StackMoves
  <2>1. \A v, w, z : /\ Keeps([cpu EXCEPT !.sp = v])
                     /\ Keeps([cpu EXCEPT !.sp = v, !.p = w])
                     /\ Keeps([cpu EXCEPT !.sp = v, !.pc = w])
                     /\ Keeps([cpu EXCEPT !.sp = v, !.p = w, !.pc = z])
    BY <1>1, KeepsAssign, Zenon
  <2>2. \A v, w : Follows(update_register([cpu EXCEPT !.sp = v, !.a = w], w))
    BY <1>1, FollowsAssign, UpdatesFollow, Zenon
  <2> QED
    BY <1>7, <2>1, <2>2, FinishStatus, Zenon DEF StackMoves, php_implied, plp_implied,
       pha_implied, pla_implied, jsr_absolute, rti_implied, rts_implied, StatusStep
<1>8. CASE nop_immediate \/ ins_nullfunc \/ FetchFails
  BY <1>1, <1>8, FinishStatus, Zenon DEF nop_immediate, ins_nullfunc, FetchFails,
     Return, Ends, StatusStep
<1>9. CASE Panicked \/ UNCHANGED vars
  BY <1>1, <1>9, Zenon DEF Panicked, vars, StatusStep
<1> QED
  BY <1>3, <1>4, <1>5, <1>6, <1>7, <1>8, <1>9, Zenon DEF Next, Execute

(* A reset, BRK, and the flags they leave *)
Leaves(d, fs) == HasStatus(d) /\ d.flags = fs /\ d.p = cpu.p

LEMMA WholesaleStatus ==
  ASSUME TypeOK, Reset \/ brk_implied
  PROVE  /\ \/ Reset /\ cpu'.flags \in {cpu.flags, {"InterruptDisable"}}
            \/ brk_implied /\ cpu'.flags = {}
         /\ cpu'.p = cpu.p
<1>1. HasStatus(cpu)
  BY CpuFollows, Zenon DEF Keeps
<1>2. BrkFlags = {}
  BY SMT DEF BrkFlags
<1>3. /\ \A v, fs : Leaves([cpu EXCEPT !.sp = v, !.flags = fs], fs)
      /\ \A v, fs, w : Leaves([cpu EXCEPT !.sp = v, !.flags = fs, !.pc = w], fs)
  BY <1>1, SMT DEF HasStatus, Leaves
<1>4. \A d, fs, w : Leaves(d, fs) => Leaves([d EXCEPT !.pc = w], fs)
  BY SMT DEF HasStatus, Leaves
<1>5. CASE Reset
  <2>1. \/ \E v, w : cpu' = [cpu EXCEPT !.sp = v, !.flags = {"InterruptDisable"},
                                       !.pc = w]
        \/ cpu' = cpu
    BY <1>5, Zenon DEF Reset, Ends
  <2>2. ASSUME NEW v, NEW w,
               cpu' = [cpu EXCEPT !.sp = v, !.flags = {"InterruptDisable"}, !.pc = w]
        PROVE  Leaves(cpu', {"InterruptDisable"})
    <3>1. Leaves([cpu EXCEPT !.sp = v, !.flags = {"InterruptDisable"}, !.pc = w],
                 {"InterruptDisable"})
      BY <1>3, Zenon
    <3> QED
      BY <2>2, <3>1, SMT
  <2> QED
    BY <1>5, <2>1, <2>2, Zenon DEF Leaves
<1>6. CASE brk_implied
  <2>1. Leaves(cpu', {})
    <3> DEFINE after == [cpu EXCEPT !.sp = Below(3), !.flags = BrkFlags]
    <3>1. Leaves(after, {}) /\ \A w : Leaves([after EXCEPT !.pc = w], {})
      BY <1>2, <1>3, <1>4, Zenon
    <3> HIDE DEF after
    <3>2. \A w, v : Leaves([[after EXCEPT !.pc = w] EXCEPT !.pc = v], {})
      BY <1>4, <3>1, Zenon
    <3> QED
      BY <1>6, <3>1, <3>2, Zenon DEF brk_implied, after, Finish, Return, Ends
  <2> QED
    BY <1>6, <2>1, Zenon DEF Leaves
<1> QED
  BY <1>5, <1>6, Zenon

-----------------------------------------------------------------------------
(* Flags other than Negative outlive every instruction but BRK, which, like *)
(* a reset, leaves nothing of what instructions have set.                  *)
THEOREM FlagsAreSticky == Spec => FlagsStayUntilBrk
<1>1. ASSUME TypeOK, [Next]_vars
      PROVE  \/ cpu.flags \ {"Negative"} \subseteq cpu'.flags
             \/ brk_implied /\ cpu'.flags = {}
             \/ Reset /\ cpu'.flags = {"InterruptDisable"}
  <2>1. CASE Reset \/ brk_implied
    <3>1. cpu.flags \ {"Negative"} \subseteq cpu.flags
      OBVIOUS
    <3> QED
      BY <1>1, <2>1, <3>1, WholesaleStatus, Zenon
  <2>2. CASE ~ Reset /\ ~ brk_implied
    BY <1>1, <2>2, InstructionStatus, Zenon DEF StatusStep, Follows, Keeps
  <2> QED
    BY <2>1, <2>2
<1>2. TypeOK /\ [Next]_vars =>
        [\/ cpu.flags \ {"Negative"} \subseteq cpu'.flags
         \/ brk_implied /\ cpu'.flags = {}
         \/ Reset /\ cpu'.flags = {"InterruptDisable"}]_vars
  BY <1>1, Zenon
<1> QED
  BY <1>2, TypesHold, PTL DEF Spec, FlagsStayUntilBrk

(* Break, Decimal, and Reserved are out of the reach of every program *)
THEOREM UnusedFlags == Spec => []UnusedFlagsStayClear
<1>1. Init => UnusedFlagsStayClear
  BY SMT DEF Init, NewCpu, UnusedFlagsStayClear
<1>2. TypeOK /\ UnusedFlagsStayClear /\ [Next]_vars => UnusedFlagsStayClear'
  <2> SUFFICES ASSUME TypeOK, UnusedFlagsStayClear, [Next]_vars
               PROVE  UnusedFlagsStayClear'
    OBVIOUS
  <2>1. CASE Reset \/ brk_implied
    BY <2>1, WholesaleStatus, SMT DEF UnusedFlagsStayClear
  <2>2. CASE ~ Reset /\ ~ brk_implied
    BY <2>2, InstructionStatus, SMT DEF UnusedFlagsStayClear, StatusStep, Follows,
       Keeps, Settable
  <2> QED
    BY <2>1, <2>2
<1> QED
  BY <1>1, <1>2, TypesHold, PTL DEF Spec

(* No call that changes p changes the flags *)
THEOREM StatusCopies == Spec => StatusCopiesNeverMeet
<1>1. TypeOK /\ [Next]_vars => [cpu'.p # cpu.p => cpu'.flags = cpu.flags]_vars
  BY InstructionStatus, WholesaleStatus, Zenon DEF StatusStep, Follows, Keeps
<1> QED
  BY <1>1, TypesHold, PTL DEF Spec, StatusCopiesNeverMeet
=============================================================================
