----------------------------- MODULE CallProofs -----------------------------
(***************************************************************************)
(* The stack discipline of CallStack, for every program: the frames of the *)
(* pending calls and interrupts stay intact, and a return leads where its  *)
(* call decided.                                                           *)
(***************************************************************************)
EXTENDS CallStack, InstructionProofs, SequenceTheorems

-----------------------------------------------------------------------------
(* Arithmetic of sp and of return addresses *)

LEMMA SpArithmetic ==
  ASSUME NEW s \in Byte
  PROVE  /\ s >= 3 => Wrap8(s - 1) = s - 1 /\ Wrap8(s - 2) = s - 2 /\ Wrap8(s - 3) = s - 3
         /\ s + 1 <= 255 => Wrap8(s + 1) = s + 1
         /\ s + 2 <= 255 => Wrap8(s + 2) = s + 2
         /\ s + 3 <= 255 => Wrap8(s + 3) = s + 3
  BY SMT DEF Wrap8, Byte

LEMMA AtMostThrough ==
  ASSUME NEW a \in Int, NEW b \in Int, NEW c \in Int, NEW d \in Int, a <= b, b < c, c <= d
  PROVE  a <= d
  BY SMT

LEMMA ByteBounds ==
  /\ \A s \in Byte, b \in Int : s <= b => 0 <= b
  /\ \A s \in Byte : s <= \hFF
  BY SMT DEF Byte

LEMMA JoinHalves == ASSUME NEW w \in Word PROVE Join(HighByte(w), LowByte(w)) = w
  BY SMTT(30) DEF Join, HighByte, LowByte, Word

(* The "- 2" of JSR, the "+ 1" of RTS and the length of RTS cancel out *)
LEMMA ReturnAddress ==
  ASSUME NEW at \in Word PROVE Wrap16(Wrap16(Wrap16(at - 2) + 1) + 1) = at
  BY SMTT(30) DEF Wrap16, Word

-----------------------------------------------------------------------------
(* Sequences of frames *)

LEMMA AppendFrame ==
  ASSUME NEW s \in Seq(Frame), NEW f \in Frame
  PROVE  /\ Append(s, f) \in Seq(Frame) /\ Len(Append(s, f)) = Len(s) + 1
         /\ \A i \in 1 .. Len(s) : Append(s, f)[i] = s[i]
         /\ Append(s, f)[Len(s) + 1] = f
  BY SMT

LEMMA DropFrame ==
  ASSUME NEW s \in Seq(Frame), s # <<>>
  PROVE  /\ SubSeq(s, 1, Len(s) - 1) \in Seq(Frame)
         /\ Len(SubSeq(s, 1, Len(s) - 1)) = Len(s) - 1
         /\ \A i \in 1 .. Len(s) - 1 : SubSeq(s, 1, Len(s) - 1)[i] = s[i]
<1> DEFINE n == Len(s) - 1
<1>1. n \in Nat /\ Len(s) = n + 1
  <2>1. Len(s) \in Nat \ {0}
    BY EmptySeq, Zenon
  <2> QED
    BY <2>1, SMT
<1>2. \A i \in 1 .. n : s[i] \in Frame
  BY <1>1, SMT
<1> HIDE DEF n
<1>3. /\ SubSeq(s, 1, n) \in Seq(Frame)
      /\ Len(SubSeq(s, 1, n)) = IF 1 <= n THEN n - 1 + 1 ELSE 0
      /\ \A i \in 1 .. n - 1 + 1 : SubSeq(s, 1, n)[i] = s[1 + i - 1]
  BY <1>1, <1>2, SubSeqProperties, SMT
<1> QED
  BY <1>1, <1>3, SMT DEF n

LEMMA FrameTypes ==
  ASSUME NEW f \in Frame
  PROVE  /\ f.sp \in Byte /\ f.at \in Word /\ f.p \in Byte /\ f.kind \in {"jsr", "brk"}
         /\ f.kind = "jsr" => Bottom(f) = f.sp - 2
         /\ f.kind = "brk" => Bottom(f) = f.sp - 3
         /\ Bottom(f) \in Int /\ Bottom(f) < f.sp
<1>1. f.sp \in Byte /\ f.at \in Word /\ f.p \in Byte /\ f.kind \in {"jsr", "brk"}
  BY SMT DEF Frame
<1>2. /\ f.kind = "jsr" => Bottom(f) = f.sp - 2
      /\ f.kind = "brk" => Bottom(f) = f.sp - 3
  BY Zenon DEF Bottom, FrameSize
<1> QED
  BY <1>1, <1>2, SMT DEF Byte

-----------------------------------------------------------------------------
(* What memory m holds of frame f, and the inductive form of FramesIntact:  *)
(* frames fs in memory m with stack pointer sp, where every frame, not only *)
(* the top one, lies above sp, and below every frame that encloses it      *)

HeldIn(m, f) ==
  LET pushed == IF f.kind = "jsr" THEN Wrap16(f.at - 2) ELSE f.at
  IN /\ Fetch(m, f.sp) = HighByte(pushed)
     /\ Fetch(m, f.sp - 1) = LowByte(pushed)
     /\ f.kind = "brk" => Fetch(m, f.sp - 2) = f.p

Stacked(fs, sp, m) ==
  \A i \in 1 .. Len(fs) :
    /\ sp <= Bottom(fs[i])
    /\ HeldIn(m, fs[i])
    /\ \A j \in 1 .. i - 1 : fs[i].sp <= Bottom(fs[j])

(* Memories m and n agree on the cells above sp *)
AgreeAbove(sp, m, n) == \A c \in sp + 1 .. 255 : Fetch(n, c) = Fetch(m, c)

LEMMA HeldStays ==
  ASSUME NEW f \in Frame, NEW m, NEW n, NEW sp \in Byte, sp <= Bottom(f),
         AgreeAbove(sp, m, n), HeldIn(m, f)
  PROVE  HeldIn(n, f)
<1>1. f.sp \in sp + 1 .. 255 /\ f.sp - 1 \in sp + 1 .. 255
  BY FrameTypes, SMT DEF Byte
<1>2. f.kind = "brk" => f.sp - 2 \in sp + 1 .. 255
  BY FrameTypes, SMT DEF Byte
<1> QED
  BY <1>1, <1>2, Zenon DEF AgreeAbove, HeldIn

(* The stack grows by data, or a store leaves the frames alone *)
LEMMA StackedStays ==
  ASSUME NEW fs \in Seq(Frame), NEW sp \in Byte, NEW t \in Byte, t <= sp,
         NEW m, NEW n, AgreeAbove(sp, m, n), Stacked(fs, sp, m)
  PROVE  Stacked(fs, t, n)
<1> SUFFICES ASSUME NEW i \in 1 .. Len(fs)
             PROVE  /\ t <= Bottom(fs[i]) /\ HeldIn(n, fs[i])
                    /\ \A j \in 1 .. i - 1 : fs[i].sp <= Bottom(fs[j])
  BY Zenon DEF Stacked
<1>1. fs[i] \in Frame
  BY ElementOfSeq, Zenon
<1>2. /\ sp <= Bottom(fs[i]) /\ HeldIn(m, fs[i])
      /\ \A j \in 1 .. i - 1 : fs[i].sp <= Bottom(fs[j])
  BY Zenon DEF Stacked
<1>3. HeldIn(n, fs[i])
  BY <1>1, <1>2, HeldStays, Zenon
<1>4. t <= Bottom(fs[i])
  BY <1>1, <1>2, FrameTypes, SMT DEF Byte
<1> QED
  BY <1>2, <1>3, <1>4

(* Data is popped, down to the top frame at most *)
LEMMA StackedPops ==
  ASSUME NEW fs \in Seq(Frame), NEW sp \in Byte, NEW m, Stacked(fs, sp, m),
         NEW t \in Byte, fs # <<>> => t <= Bottom(fs[Len(fs)])
  PROVE  Stacked(fs, t, m)
<1> SUFFICES ASSUME NEW i \in 1 .. Len(fs) PROVE t <= Bottom(fs[i])
  BY Zenon DEF Stacked
<1>1. Len(fs) \in 1 .. Len(fs) /\ fs # <<>>
  BY SMT
<1>2. fs[i] \in Frame /\ fs[Len(fs)] \in Frame
  BY <1>1, ElementOfSeq, Zenon
<1>3. CASE i = Len(fs)
  BY <1>1, <1>3, Zenon
<1>4. CASE i # Len(fs)
  <2>1. i \in 1 .. Len(fs) - 1
    BY <1>4, SMT
  <2>2. fs[Len(fs)].sp <= Bottom(fs[i])
    BY <1>1, <2>1, Zenon DEF Stacked
  <2>3. /\ Bottom(fs[Len(fs)]) \in Int /\ Bottom(fs[i]) \in Int /\ t \in Int
        /\ fs[Len(fs)].sp \in Int /\ Bottom(fs[Len(fs)]) < fs[Len(fs)].sp
    BY <1>2, FrameTypes, ByteIsInt, Zenon
  <2> QED
    BY <1>1, <2>2, <2>3, AtMostThrough, Zenon
<1> QED
  BY <1>3, <1>4

(* A call or an interrupt pushes frame f *)
LEMMA StackedOpens ==
  ASSUME NEW fs \in Seq(Frame), NEW sp \in Byte, NEW m, NEW n, Stacked(fs, sp, m),
         AgreeAbove(sp, m, n), NEW f \in Frame, f.sp = sp, Bottom(f) \in Byte, HeldIn(n, f)
  PROVE  Stacked(Append(fs, f), Bottom(f), n)
<1> DEFINE gs == Append(fs, f)
           t == Bottom(f)
<1>1. t < sp /\ t \in Byte /\ t \in Int /\ sp \in Int
  BY FrameTypes, ByteIsInt, Zenon
<1> HIDE DEF t
<1>2. Stacked(fs, t, n)
  <2>1. t <= sp
    BY <1>1, SMT
  <2> QED
    BY <1>1, <2>1, StackedStays, SMT
<1>3. Len(fs) \in Nat /\ Len(gs) = Len(fs) + 1 /\ gs[Len(fs) + 1] = f
      /\ \A i \in 1 .. Len(fs) : gs[i] = fs[i]
  BY AppendFrame, LenProperties, Zenon
<1> HIDE DEF gs
<1> SUFFICES ASSUME NEW i \in 1 .. Len(gs)
             PROVE  /\ t <= Bottom(gs[i]) /\ HeldIn(n, gs[i])
                    /\ \A j \in 1 .. i - 1 : gs[i].sp <= Bottom(gs[j])
  BY Zenon DEF Stacked, gs, t
<1>4. CASE i \in 1 .. Len(fs)
  <2>1. \A j \in 1 .. i - 1 : j \in 1 .. Len(fs)
    BY <1>3, <1>4, SMT
  <2> QED
    BY <1>2, <1>3, <1>4, <2>1, Zenon DEF Stacked
<1>5. CASE i = Len(fs) + 1
  <2>1. gs[i] = f /\ t <= Bottom(gs[i])
    BY <1>1, <1>3, <1>5, SMT DEF t
  <2>2. \A j \in 1 .. i - 1 : j \in 1 .. Len(fs)
    BY <1>3, <1>5, SMT
  <2>3. \A j \in 1 .. Len(fs) : sp <= Bottom(fs[j])
    BY Zenon DEF Stacked
  <2> QED
    BY <1>3, <2>1, <2>2, <2>3, Zenon
<1> QED
  BY <1>3, <1>4, <1>5, SMT

(* A return pops the top frame *)
LEMMA StackedCloses ==
  ASSUME NEW fs \in Seq(Frame), fs # <<>>, NEW sp \in Byte, NEW m, Stacked(fs, sp, m)
  PROVE  Stacked(SubSeq(fs, 1, Len(fs) - 1), fs[Len(fs)].sp, m)
<1> DEFINE gs == SubSeq(fs, 1, Len(fs) - 1)
<1>1. Len(fs) \in Nat \ {0}
  BY EmptySeq, Zenon
<1>2. Len(gs) = Len(fs) - 1 /\ \A i \in 1 .. Len(fs) - 1 : gs[i] = fs[i]
  BY DropFrame, Zenon
<1>3. Len(fs) \in 1 .. Len(fs)
  BY <1>1, SMT
<1> HIDE DEF gs
<1> SUFFICES ASSUME NEW i \in 1 .. Len(fs) - 1
             PROVE  /\ fs[Len(fs)].sp <= Bottom(gs[i]) /\ HeldIn(m, gs[i])
                    /\ \A j \in 1 .. i - 1 : gs[i].sp <= Bottom(gs[j])
  BY <1>2, Zenon DEF Stacked, gs
<1>4. i \in 1 .. Len(fs) /\ \A j \in 1 .. i - 1 : j \in 1 .. Len(fs) - 1
  BY <1>1, SMT
<1> QED
  BY <1>2, <1>3, <1>4, Zenon DEF Stacked

-----------------------------------------------------------------------------
(* What instructions do to sp.  Assignments to other registers and the      *)
(* flag setters leave it alone.                                            *)

SpIs(c, n) == "sp" \in DOMAIN c /\ c.sp = n

LEMMA CpuSp == ASSUME TypeOK PROVE SpIs(cpu, cpu.sp)
  BY SMT DEF SpIs, TypeOK, CPU

LEMMA SpKept ==
  ASSUME NEW c, NEW n, SpIs(c, n), NEW v
  PROVE  /\ SpIs([c EXCEPT !.a = v], n) /\ SpIs([c EXCEPT !.x = v], n)
         /\ SpIs([c EXCEPT !.p = v], n) /\ SpIs([c EXCEPT !.pc = v], n)
         /\ SpIs([c EXCEPT !.flags = v], n)
  BY SMT DEF SpIs

LEMMA SpAssigned ==
  ASSUME NEW c, NEW k, SpIs(c, k), NEW n PROVE SpIs([c EXCEPT !.sp = n], n)
  BY SMT DEF SpIs

LEMMA SetterSp ==
  ASSUME NEW c, NEW n, SpIs(c, n), NEW v
  PROVE  /\ SpIs(set_negative(c, v), n) /\ SpIs(set_overflow(c, v), n)
         /\ SpIs(set_decimal(c, v), n) /\ SpIs(set_interrupt_disable(c, v), n)
         /\ SpIs(set_zero(c, v), n) /\ SpIs(set_carry(c, v), n)
<1>1. \A f : SpIs(Insert(c, f), n) /\ SpIs(Remove(c, f), n)
  BY SMT DEF Insert, Remove, SpIs
<1> QED
  BY <1>1, Zenon DEF set_negative, set_overflow, set_decimal, set_interrupt_disable,
     set_zero, set_carry

LEMMA UpdateSp ==
  ASSUME NEW c, NEW n, SpIs(c, n), NEW v
  PROVE  /\ SpIs(update_register(c, v), n) /\ SpIs(ResultFlags(c, v), n)
         /\ SpIs(ShiftFlags(c, v), n)
<1>1. \A d, w : SpIs(d, n) => SpIs(ResultFlags(d, w), n)
  BY SetterSp, Zenon DEF ResultFlags
<1> QED
  BY <1>1, SetterSp, Zenon DEF update_register, ShiftFlags

LEMMA FinishSp ==
  ASSUME NEW c, NEW n, SpIs(c, n), NEW m, Finish(c, m) PROVE SpIs(cpu', n)
<1>1. \A w : SpIs([c EXCEPT !.pc = w], n)
  BY SpKept, Zenon
<1> QED
  BY <1>1, Zenon DEF Finish, Return, Ends

LEMMA ReadingSp ==
  ASSUME TypeOK, NEW c, SpIs(c, cpu.sp), NEW addr, Reading(addr, c)
  PROVE  SpIs(cpu', cpu.sp)
  BY CpuSp, FinishSp, Zenon DEF Reading, Return, Ends

LEMMA StoringSp ==
  ASSUME TypeOK, NEW c, SpIs(c, cpu.sp), NEW addr, NEW v, Storing(addr, v, c)
  PROVE  SpIs(cpu', cpu.sp)
  BY CpuSp, FinishSp, Zenon DEF Storing, Return, Ends

LEMMA LoadSp ==
  ASSUME TypeOK, NEW addr, Ora(addr) \/ Asl(addr) \/ Bit(addr) PROVE SpIs(cpu', cpu.sp)
<1>1. SpIs(cpu, cpu.sp)
  BY CpuSp
<1>2. CASE Ora(addr)
  BY <1>1, <1>2, SpKept, UpdateSp, ReadingSp, Zenon DEF Ora
<1>3. CASE Asl(addr)
  BY <1>1, <1>3, UpdateSp, StoringSp, Zenon DEF Asl, Return, Ends
<1>4. CASE Bit(addr)
  <2>1. \A v, w, z : SpIs(set_overflow(set_negative(set_zero(cpu, v), w), z), cpu.sp)
    BY <1>1, SetterSp, Zenon
  <2> QED
    BY <1>4, <2>1, ReadingSp, Zenon DEF Bit
<1> QED
  BY <1>2, <1>3, <1>4, Zenon

(* The instructions that are neither TXS nor moves of the stack *)
Returning == {"rts_implied", "rti_implied"}
Calling   == {"jsr_absolute", "brk_implied"}
Pushes    == Calling \cup {"php_implied", "pha_implied"}

LEMMA OthersKeepSp ==
  ASSUME TypeOK, Execute, ~ StackMoves, Handler(Opcode) # "txs_implied", outcome' = "ok"
  PROVE  cpu'.sp = cpu.sp /\ Handler(Opcode) \notin Returning \cup Calling
<1> DEFINE Other(h) == h \notin Returning \cup Calling
<1>1. SpIs(cpu, cpu.sp)
  BY CpuSp
<1>2. \A r : /\ SpIs(update_register([cpu EXCEPT !.a = r], r), cpu.sp)
             /\ SpIs(update_register([cpu EXCEPT !.x = r], r), cpu.sp)
  BY <1>1, SpKept, UpdateSp, Zenon
<1>3. CASE LoadsAndStores
  <2>1. SpIs(cpu', cpu.sp)
    BY <1>1, <1>2, <1>3, FinishSp, ReadingSp, StoringSp, Zenon DEF LoadsAndStores,
       lda_immediate, ldx_immediate, lda_absolute, lda_absolute_ix, sta_absolute,
       sta_absolute_ix, txs_implied, txa_implied, Executes
  <2>2. Other(Handler(Opcode))
    BY <1>3, Zenon DEF LoadsAndStores, lda_immediate, ldx_immediate, lda_absolute,
       lda_absolute_ix, sta_absolute, sta_absolute_ix, txs_implied, txa_implied,
       Executes, Returning, Calling
  <2> QED
    BY <2>1, <2>2, Zenon DEF SpIs
<1>4. CASE Arithmetic
  <2>1. CASE inx_implied \/ dex_implied
    BY <1>2, <2>1, FinishSp, Zenon DEF inx_implied, dex_implied, SetX, SpIs, Executes,
       Returning, Calling
  <2>2. CASE cmp_absolute_ix
    <3>1. \A v, w, z : SpIs(set_negative(set_zero(set_carry(cpu, v), w), z), cpu.sp)
      BY <1>1, SetterSp, Zenon
    <3> QED
      BY <2>2, <3>1, ReadingSp, Zenon DEF cmp_absolute_ix, SpIs, Executes, Returning,
         Calling
  <2>3. CASE ora_zero_page \/ ora_absolute \/ ora_zp_x \/ ora_absolute_y \/ ora_indirect_y
    BY <2>3, LoadSp, Zenon DEF ora_zero_page, ora_absolute, ora_zp_x, ora_absolute_y,
       ora_indirect_y, SpIs, Executes, Returning, Calling
  <2>4. CASE ora_indirect_x
    BY <2>4, IndirectXPanics, Zenon
  <2>5. CASE asl_zero_page \/ asl_absolute \/ bit_zero_page \/ bit_absolute
    BY <2>5, LoadSp, Zenon DEF asl_zero_page, asl_absolute, bit_zero_page, bit_absolute,
       SpIs, Executes, Returning, Calling
  <2>6. CASE asl_accumulator
    <3>1. \A v, w : SpIs(ShiftFlags([cpu EXCEPT !.a = v], w), cpu.sp)
      BY <1>1, SpKept, UpdateSp, Zenon
    <3> QED
      BY <2>6, <3>1, FinishSp, Zenon DEF asl_accumulator, SpIs, Executes, Returning,
         Calling
  <2> QED
    BY <1>4, <2>1, <2>2, <2>3, <2>4, <2>5, <2>6, Zenon DEF Arithmetic
<1>5. CASE Branches
  <2>1. \A w : SpIs([cpu EXCEPT !.pc = w], cpu.sp)
    BY <1>1, SpKept, Zenon
  <2> QED
    BY <1>1, <1>5, <2>1, FinishSp, Zenon DEF Branches, bpl_relative, bmi_relative,
       bne_relative, beq_relative, Branched, Return, Ends, SpIs, Executes, Returning,
       Calling
<1>6. CASE FlagChanges
  <2>1. SpIs(cpu', cpu.sp)
    BY <1>1, <1>6, SetterSp, FinishSp, Zenon DEF FlagChanges, sei_implied, cld_implied,
       clc_implied, sec_implied
  <2> QED
    BY <1>6, <2>1, Zenon DEF FlagChanges, sei_implied, cld_implied, clc_implied,
       sec_implied, SpIs, Executes, Returning, Calling
<1>7. CASE nop_immediate \/ ins_nullfunc \/ FetchFails
  BY <1>1, <1>7, FinishSp, Zenon DEF nop_immediate, ins_nullfunc, FetchFails, Return,
     Ends, SpIs, Executes, Returning, Calling
<1> QED
  BY <1>3, <1>4, <1>5, <1>6, <1>7, Zenon DEF Execute

(* The moves of the stack *)
LEMMA StackMoveSp ==
  ASSUME TypeOK, outcome' = "ok"
  PROVE  /\ php_implied \/ pha_implied => cpu'.sp = Below(1)
         /\ plp_implied \/ pla_implied => cpu'.sp = Above(1)
         /\ jsr_absolute => cpu'.sp = Below(2)
         /\ brk_implied  => cpu'.sp = Below(3)
         /\ rts_implied  => cpu'.sp = Above(2)
         /\ rti_implied  => cpu'.sp = Above(3)
<1>1. \A n : SpIs([cpu EXCEPT !.sp = n], n)
  BY CpuSp, SpAssigned, Zenon
<1>2. \A n, v, w : /\ SpIs([cpu EXCEPT !.sp = n, !.p = v], n)
                   /\ SpIs([cpu EXCEPT !.sp = n, !.pc = w], n)
                   /\ SpIs([cpu EXCEPT !.sp = n, !.p = v, !.pc = w], n)
                   /\ SpIs(update_register([cpu EXCEPT !.sp = n, !.a = v], v), n)
                   /\ SpIs([cpu EXCEPT !.sp = n, !.flags = v], n)
  BY <1>1, SpKept, UpdateSp, Zenon
<1>3. php_implied \/ pha_implied => SpIs(cpu', Below(1))
  BY <1>1, FinishSp, Zenon DEF php_implied, pha_implied
<1>4. plp_implied \/ pla_implied => SpIs(cpu', Above(1))
  BY <1>2, FinishSp, Zenon DEF plp_implied, pla_implied
<1>5. jsr_absolute => SpIs(cpu', Below(2))
  BY <1>2, FinishSp, Zenon DEF jsr_absolute
<1>6. brk_implied => SpIs(cpu', Below(3))
  <2> DEFINE after == [cpu EXCEPT !.sp = Below(3), !.flags = BrkFlags]
  <2>1. SpIs(after, Below(3))
    BY <1>2, Zenon
  <2> HIDE DEF after
  <2>2. \A w : SpIs([after EXCEPT !.pc = w], Below(3))
    BY <2>1, SpKept, Zenon
  <2> QED
    BY <2>1, <2>2, FinishSp, Zenon DEF brk_implied, after, Return, Ends
<1>7. rts_implied => SpIs(cpu', Above(2))
  BY <1>2, FinishSp, Zenon DEF rts_implied
<1>8. rti_implied => SpIs(cpu', Above(3))
  BY <1>2, FinishSp, Zenon DEF rti_implied
<1> QED
  BY <1>3, <1>4, <1>5, <1>6, <1>7, <1>8, Zenon DEF SpIs

(* A disciplined instruction leaves the cells above sp alone *)
LEMMA DisciplineAgrees ==
  ASSUME TypeOK, Execute, KeepsDiscipline PROVE AgreeAbove(cpu.sp, mem, mem')
<1> SUFFICES ASSUME NEW c \in cpu.sp + 1 .. 255, Fetch(mem', c) # Fetch(mem, c)
             PROVE  FALSE
  BY Zenon DEF AgreeAbove
<1>1. Aimed(c)
  BY StepStoresLand, Zenon DEF StoresLand, Next
<1>2. cpu.sp \in Byte
  BY RegisterTypes, Zenon DEF TypeOK
<1>3. c \in Live
  BY SMT DEF Live
<1>4. ASSUME NEW n \in 0 .. BytesPushed(Handler(Opcode)) - 1, c = Below(n) PROVE FALSE
  <2>1. BytesPushed(Handler(Opcode)) # 0
    BY <1>4, SMT
  <2>2. BytesPushed(Handler(Opcode)) \in {0, 1, 2, 3}
    BY Zenon DEF BytesPushed
  <2>3. Handler(Opcode) \in Pushes
    BY <2>1, Zenon DEF BytesPushed, Pushes, Calling
  <2>4. cpu.sp >= 3
    BY <2>3, Zenon DEF KeepsDiscipline, Pushes, Calling
  <2>5. n \in {0, 1, 2}
    BY <1>4, <2>2, SMT
  <2>6. Wrap8(cpu.sp - n) <= cpu.sp
    BY <1>2, <2>4, <2>5, SMT DEF Wrap8, Byte
  <2> QED
    BY <1>2, <1>4, <2>6, SMT DEF Below, Byte
<1>5. ASSUME Handler(Opcode) = "asl_zero_page", c = Byte1 PROVE FALSE
  BY <1>3, <1>5, Zenon DEF KeepsDiscipline, StoresOffStack
<1>6. ASSUME Handler(Opcode) \in {"sta_absolute", "asl_absolute"}, c = Cell(Operand)
      PROVE  FALSE
  BY <1>3, <1>6, Zenon DEF KeepsDiscipline, StoresOffStack
<1>7. ASSUME Handler(Opcode) = "sta_absolute_ix", c = Cell(Wrap16(Operand + cpu.x))
      PROVE  FALSE
  BY <1>3, <1>7, Zenon DEF KeepsDiscipline, StoresOffStack
<1> QED
  BY <1>1, <1>4, <1>5, <1>6, <1>7, Zenon DEF Aimed

(* What a push leaves *)
LEMMA PushHolds ==
  ASSUME NEW m, IsMemory(m), NEW sp \in Byte, NEW v, NEW c
  PROVE  /\ Fetch(Push(m, sp, v), sp) = v
         /\ c # sp => Fetch(Push(m, sp, v), c) = Fetch(m, c)
<1>1. Push(m, sp, v) = Store(m, sp, v)
  BY ZeroPageCell, Zenon DEF Push, Written
<1> QED
  BY <1>1, StoreCells, SMT

LEMMA PushTwice ==
  ASSUME NEW m, IsMemory(m), NEW s \in Byte, NEW t \in Byte, s # t, NEW v \in Byte, NEW w
  PROVE  LET n == Push(Push(m, s, v), t, w)
         IN  Fetch(n, s) = v /\ Fetch(n, t) = w
<1>1. IsMemory(Push(m, s, v))
  BY ByteIsInt, WrittenType, Zenon DEF Push
<1>2. Fetch(Push(m, s, v), s) = v
  BY PushHolds, SMT
<1> QED
  BY <1>1, <1>2, PushHolds, SMT

LEMMA JsrHolds ==
  ASSUME TypeOK, jsr_absolute, cpu.sp >= 3
  PROVE  HeldIn(mem', NewFrame("jsr"))
<1> DEFINE ra == Wrap16(cpu.pc - 2)
<1>1. cpu.sp \in Byte /\ cpu.pc \in Word /\ IsMemory(mem)
  BY RegisterTypes, Zenon DEF TypeOK
<1>2. ra \in Word
  BY <1>1, SumTypes, WrapTypes, Zenon
<1>3. HighByte(ra) \in Byte
  BY <1>2, HalvesAreBytes, Zenon
<1>4. Below(1) = cpu.sp - 1 /\ Below(1) \in Byte /\ Below(1) # cpu.sp
  <2>1. Below(1) = cpu.sp - 1
    BY <1>1, SpArithmetic, Zenon DEF Below
  <2> QED
    BY <1>1, <2>1, SMT DEF Byte
<1>5. mem' = Push(Push(mem, cpu.sp, HighByte(ra)), Below(1), LowByte(ra))
  BY FinishStores, Zenon DEF jsr_absolute
<1>6. Fetch(mem', cpu.sp) = HighByte(ra) /\ Fetch(mem', Below(1)) = LowByte(ra)
  BY <1>1, <1>3, <1>4, <1>5, PushTwice, SMT
<1>7. /\ NewFrame("jsr").kind = "jsr" /\ NewFrame("jsr").at = cpu.pc
      /\ NewFrame("jsr").sp = cpu.sp
  BY SMT DEF NewFrame
<1> QED
  BY <1>4, <1>6, <1>7, Zenon DEF HeldIn

LEMMA PushThrice ==
  ASSUME NEW m, IsMemory(m), NEW s \in Byte, NEW t \in Byte, NEW r \in Byte,
         s # t, s # r, t # r, NEW v \in Byte, NEW w \in Byte, NEW z
  PROVE  LET n == Push(Push(Push(m, s, v), t, w), r, z)
         IN  Fetch(n, s) = v /\ Fetch(n, t) = w /\ Fetch(n, r) = z
<1> DEFINE k == Push(Push(m, s, v), t, w)
<1>1. IsMemory(k)
  BY ByteIsInt, WrittenType, Zenon DEF Push
<1>2. Fetch(k, s) = v /\ Fetch(k, t) = w
  BY PushTwice, SMT
<1> HIDE DEF k
<1>3. /\ Fetch(Push(k, r, z), r) = z
      /\ Fetch(Push(k, r, z), s) = Fetch(k, s)
      /\ Fetch(Push(k, r, z), t) = Fetch(k, t)
  BY <1>1, PushHolds, SMT
<1> QED
  BY <1>2, <1>3, Zenon DEF k

LEMMA BrkHolds ==
  ASSUME TypeOK, brk_implied, cpu.sp >= 3
  PROVE  HeldIn(mem', NewFrame("brk"))
<1>1. cpu.sp \in Byte /\ cpu.pc \in Word /\ cpu.p \in Byte /\ IsMemory(mem)
  BY RegisterTypes, Zenon DEF TypeOK
<1>2. HighByte(cpu.pc) \in Byte /\ LowByte(cpu.pc) \in Byte
  BY <1>1, HalvesAreBytes, Zenon
<1>3. Below(1) = cpu.sp - 1 /\ Below(2) = cpu.sp - 2
  BY <1>1, SpArithmetic, Zenon DEF Below
<1>4. /\ Below(1) \in Byte /\ Below(2) \in Byte
      /\ cpu.sp # Below(1) /\ cpu.sp # Below(2) /\ Below(1) # Below(2)
  BY <1>1, <1>3, SMT DEF Byte
<1>5. mem' = Push(Push(Push(mem, cpu.sp, HighByte(cpu.pc)), Below(1), LowByte(cpu.pc)),
                  Below(2), cpu.p)
  BY FinishStores, Zenon DEF brk_implied, Return, Ends
<1>6. /\ Fetch(mem', cpu.sp) = HighByte(cpu.pc) /\ Fetch(mem', Below(1)) = LowByte(cpu.pc)
      /\ Fetch(mem', Below(2)) = cpu.p
  BY <1>1, <1>2, <1>4, <1>5, PushThrice, SMT
<1>7. /\ NewFrame("brk").kind = "brk" /\ NewFrame("brk").at = cpu.pc
      /\ NewFrame("brk").sp = cpu.sp /\ NewFrame("brk").p = cpu.p
  BY SMT DEF NewFrame
<1> QED
  BY <1>3, <1>6, <1>7, Zenon DEF HeldIn

(* The frame a call or an interrupt opens *)
LEMMA OpenedFrame ==
  ASSUME TypeOK, NEW kind \in {"jsr", "brk"}
  PROVE  /\ NewFrame(kind) \in Frame /\ NewFrame(kind).sp = cpu.sp
         /\ cpu.sp >= 3 => /\ Bottom(NewFrame(kind)) \in Byte
                           /\ kind = "jsr" => Bottom(NewFrame(kind)) = Below(2)
                           /\ kind = "brk" => Bottom(NewFrame(kind)) = Below(3)
<1>1. cpu.sp \in Byte /\ cpu.pc \in Word /\ cpu.p \in Byte
  BY RegisterTypes, Zenon DEF TypeOK
<1>2. /\ NewFrame(kind) \in Frame /\ NewFrame(kind).sp = cpu.sp
      /\ NewFrame(kind).kind = kind
  BY <1>1, SMT DEF NewFrame, Frame
<1>3. /\ kind = "jsr" => Bottom(NewFrame(kind)) = cpu.sp - 2
      /\ kind = "brk" => Bottom(NewFrame(kind)) = cpu.sp - 3
  BY <1>2, FrameTypes, Zenon
<1>4. ASSUME cpu.sp >= 3
      PROVE  /\ cpu.sp - 2 \in Byte /\ cpu.sp - 3 \in Byte
             /\ Below(2) = cpu.sp - 2 /\ Below(3) = cpu.sp - 3
  BY <1>1, <1>4, SMT DEF Byte, Below, Wrap8
<1> QED
  BY <1>2, <1>3, <1>4, Zenon

-----------------------------------------------------------------------------
(* Only NES::reset counts in resets *)

LEMMA ExecuteKeepsResets == ASSUME Execute PROVE resets' = resets
<1> DEFINE R == resets' = resets
<1>1. \A o, c, m : Return(o, c, m) => R
  BY Zenon DEF Return
<1>2. \A c, m : Finish(c, m) => R
  BY <1>1, Zenon DEF Finish
<1>3. \A addr, c : Reading(addr, c) => R
  BY <1>1, <1>2, Zenon DEF Reading
<1>4. \A addr, v, c : Storing(addr, v, c) => R
  BY <1>1, <1>2, Zenon DEF Storing
<1>5. \A addr : Ora(addr) \/ Asl(addr) \/ Bit(addr) => R
  BY <1>1, <1>3, <1>4, Zenon DEF Ora, Asl, Bit
<1> HIDE DEF R
<1>6. LoadsAndStores => R
  BY <1>2, <1>3, <1>4, Zenon DEF LoadsAndStores, lda_immediate, ldx_immediate,
     lda_absolute, lda_absolute_ix, sta_absolute, sta_absolute_ix, txs_implied,
     txa_implied
<1>7. Arithmetic => R
  BY <1>1, <1>2, <1>3, <1>5, Zenon DEF Arithmetic, inx_implied, dex_implied, SetX,
     cmp_absolute_ix, ora_zero_page, ora_absolute, ora_zp_x, ora_absolute_y,
     ora_indirect_y, ora_indirect_x, asl_zero_page, asl_absolute, asl_accumulator,
     bit_zero_page, bit_absolute
<1>8. Branches => R
  BY <1>1, <1>2, Zenon DEF Branches, bpl_relative, bmi_relative, bne_relative,
     beq_relative
<1>9. FlagChanges => R
  BY <1>2, Zenon DEF FlagChanges, sei_implied, cld_implied, clc_implied, sec_implied
<1>10. StackMoves => R
  BY <1>1, <1>2, Zenon DEF StackMoves, php_implied, plp_implied, pha_implied,
     pla_implied, brk_implied, jsr_absolute, rti_implied, rts_implied
<1>11. FetchFails \/ nop_immediate \/ ins_nullfunc => R
  BY <1>1, <1>2, Zenon DEF FetchFails, nop_immediate, ins_nullfunc
<1> QED
  BY <1>6, <1>7, <1>8, <1>9, <1>10, <1>11, Zenon DEF Execute, R

LEMMA ResetCounts == ASSUME TypeOK, Reset PROVE resets' # resets
<1>1. resets \in Nat /\ resets' = resets + 1
  BY Zenon DEF TypeOK, Reset
<1> QED
  BY <1>1, SMT

LEMMA ExecuteRuns == ASSUME Execute PROVE Running
<1> DEFINE E == \E h : Executes(h)
<1>1. E => Running
  BY Zenon DEF Executes
<1>2. LoadsAndStores \/ Branches \/ FlagChanges => E
  BY Zenon DEF LoadsAndStores, lda_immediate, ldx_immediate, lda_absolute,
     lda_absolute_ix, sta_absolute, sta_absolute_ix, txs_implied, txa_implied, Branches,
     bpl_relative, bmi_relative, bne_relative, beq_relative, FlagChanges, sei_implied,
     cld_implied, clc_implied, sec_implied
<1>3. Arithmetic => E
  BY Zenon DEF Arithmetic, inx_implied, dex_implied, cmp_absolute_ix, ora_zero_page,
     ora_absolute, ora_zp_x, ora_absolute_y, ora_indirect_y, ora_indirect_x,
     asl_zero_page, asl_absolute, asl_accumulator, bit_zero_page, bit_absolute
<1>4. StackMoves => E
  BY Zenon DEF StackMoves, php_implied, plp_implied, pha_implied, pla_implied,
     brk_implied, jsr_absolute, rti_implied, rts_implied
<1>5. nop_immediate \/ ins_nullfunc => E
  BY Zenon DEF nop_immediate, ins_nullfunc
<1>6. FetchFails => Running
  BY Zenon DEF FetchFails
<1> HIDE DEF E
<1> QED
  BY <1>1, <1>2, <1>3, <1>4, <1>5, <1>6, Zenon DEF Execute

-----------------------------------------------------------------------------
(* How Track follows a call of the emulator *)

Keeps == disciplined /\ KeepsDiscipline

LEMMA Tracked ==
  ASSUME CallTypeOK, Track, resets' = resets
  PROVE  /\ disciplined' = Keeps
         /\ ~ Keeps => frames' = <<>>
         /\ Keeps /\ outcome' # "ok" => frames' = frames
         /\ Keeps /\ outcome' = "ok" =>
              /\ Handler(Opcode) = "jsr_absolute" => frames' = Append(frames, NewFrame("jsr"))
              /\ Handler(Opcode) = "brk_implied"  => frames' = Append(frames, NewFrame("brk"))
              /\ Handler(Opcode) \in Returning =>
                   frames' = SubSeq(frames, 1, Len(frames) - 1)
              /\ Handler(Opcode) \notin Calling \cup Returning => frames' = frames
<1>1. CASE ~ Keeps
  BY <1>1, Zenon DEF Track, Keeps
<1>2. CASE Keeps /\ outcome' # "ok"
  BY <1>2, Zenon DEF Track, Keeps
<1>3. CASE Keeps /\ outcome' = "ok"
  <2>1. Handler(Opcode) = "rts_implied" => TopIs("jsr")
    BY <1>3, Zenon DEF Keeps, KeepsDiscipline
  <2>2. Handler(Opcode) = "rti_implied" => TopIs("brk")
    BY <1>3, Zenon DEF Keeps, KeepsDiscipline
  <2>3. disciplined' = Keeps
    BY Zenon DEF Track, Keeps
  <2>4. frames' = IF Handler(Opcode) = "jsr_absolute" THEN Append(frames, NewFrame("jsr"))
                  ELSE IF Handler(Opcode) = "brk_implied" THEN Append(frames, NewFrame("brk"))
                  ELSE IF \/ Handler(Opcode) = "rts_implied" /\ TopIs("jsr")
                          \/ Handler(Opcode) = "rti_implied" /\ TopIs("brk")
                    THEN SubSeq(frames, 1, Len(frames) - 1)
                  ELSE frames
    BY <1>3, Zenon DEF Track, Keeps
  <2> QED
    BY <1>3, <2>1, <2>2, <2>3, <2>4, Zenon DEF Returning, Calling
<1> QED
  BY <1>1, <1>2, <1>3

LEMMA TopFrame ==
  ASSUME CallTypeOK, frames # <<>> PROVE Top \in Frame /\ Len(frames) \in 1 .. Len(frames)
<1>1. frames \in Seq(Frame)
  BY Zenon DEF CallTypeOK
<1>2. Len(frames) \in 1 .. Len(frames)
  BY <1>1, SMT
<1> QED
  BY <1>1, <1>2, ElementOfSeq, Zenon DEF Top

LEMMA CallInitType == CallInit => CallTypeOK
<1>1. <<>> \in Seq(Frame)
  BY EmptySeq, Zenon
<1> QED
  BY <1>1, InitType, Zenon DEF CallInit, CallTypeOK

LEMMA CallNextType == ASSUME CallTypeOK, [CallNext]_callVars PROVE CallTypeOK'
<1>1. TypeOK /\ frames \in Seq(Frame) /\ disciplined \in BOOLEAN
  BY Zenon DEF CallTypeOK
<1>2. TypeOK'
  BY <1>1, NextType, Zenon DEF CallNext, callVars
<1>3. <<>> \in Seq(Frame)
  BY EmptySeq, Zenon
<1>4. CASE UNCHANGED callVars
  BY <1>1, <1>2, <1>4, Zenon DEF callVars, CallTypeOK
<1>5. CASE CallNext /\ resets' # resets
  BY <1>2, <1>3, <1>5, Zenon DEF CallNext, Track, CallTypeOK
<1>6. CASE CallNext /\ resets' = resets
  <2>1. disciplined' \in BOOLEAN
    BY <1>6, Tracked, Zenon DEF CallNext, Keeps
  <2>2. \A kind \in {"jsr", "brk"} : Append(frames, NewFrame(kind)) \in Seq(Frame)
    BY <1>1, OpenedFrame, AppendFrame, Zenon
  <2>3. CASE Keeps /\ outcome' = "ok" /\ Handler(Opcode) \in Returning
    <3>1. frames # <<>>
      BY <2>3, Zenon DEF Keeps, KeepsDiscipline, Returning, TopIs
    <3>2. SubSeq(frames, 1, Len(frames) - 1) \in Seq(Frame)
      BY <1>1, <3>1, DropFrame, Zenon
    <3> QED
      BY <1>2, <1>6, <2>1, <2>3, <3>2, Tracked, Zenon DEF CallNext, CallTypeOK
  <2>4. CASE ~ (Keeps /\ outcome' = "ok" /\ Handler(Opcode) \in Returning)
    BY <1>1, <1>2, <1>3, <1>6, <2>1, <2>2, <2>4, Tracked, Zenon DEF CallNext,
       CallTypeOK, Calling
  <2> QED
    BY <2>3, <2>4
<1> QED
  BY <1>4, <1>5, <1>6

(* In every reachable state the registers keep their widths, the memory     *)
(* has only cells that exist, and the history is a sequence of frames.      *)
THEOREM CallTypes == CallSpec => []CallTypeOK
<1>1. CallInit => CallTypeOK
  BY CallInitType
<1>2. CallTypeOK /\ [CallNext]_callVars => CallTypeOK'
  BY CallNextType
<1> QED
  BY <1>1, <1>2, PTL DEF CallSpec

(* A disciplined return leaves sp where its call found it *)
LEMMA ReturnSp ==
  ASSUME CallTypeOK, outcome' = "ok", KeepsDiscipline, rts_implied \/ rti_implied
  PROVE  cpu'.sp = Top.sp
<1>1. TypeOK
  BY Zenon DEF CallTypeOK
<1>2. \/ rts_implied /\ TopIs("jsr") /\ cpu'.sp = Above(2)
      \/ rti_implied /\ TopIs("brk") /\ cpu'.sp = Above(3)
  BY <1>1, StackMoveSp, Zenon DEF KeepsDiscipline, rts_implied, rti_implied, Executes
<1>3. frames # <<>> /\ cpu.sp = Bottom(Top) /\ Top \in Frame
  BY <1>2, TopFrame, Zenon DEF TopIs
<1>4. Top.sp \in Byte
  BY <1>3, FrameTypes, Zenon
<1>5. CASE TopIs("jsr") /\ cpu'.sp = Above(2)
  <2>1. cpu.sp = Top.sp - 2
    BY <1>3, <1>5, FrameTypes, Zenon DEF TopIs
  <2>2. Above(2) = Top.sp
    BY <1>4, <2>1, SMT DEF Above, Wrap8, Byte
  <2> QED
    BY <1>5, <2>2
<1>6. CASE TopIs("brk") /\ cpu'.sp = Above(3)
  <2>1. cpu.sp = Top.sp - 3
    BY <1>3, <1>6, FrameTypes, Zenon DEF TopIs
  <2>2. Above(3) = Top.sp
    BY <1>4, <2>1, SMT DEF Above, Wrap8, Byte
  <2> QED
    BY <1>6, <2>2
<1> QED
  BY <1>2, <1>5, <1>6, Zenon

-----------------------------------------------------------------------------
(* The frames stay intact *)

CallInv == Running /\ disciplined => Stacked(frames, cpu.sp, mem)

LEMMA NothingStacked == ASSUME NEW sp, NEW m PROVE Stacked(<<>>, sp, m)
<1>1. 1 .. Len(<<>>) = {}
  BY SMT
<1> QED
  BY <1>1, Zenon DEF Stacked

(* An instruction that completes, one case per effect on the stack *)
LEMMA CompletedStacks ==
  ASSUME CallTypeOK, CallInv, Execute, Track, resets' = resets, Keeps, outcome' = "ok"
  PROVE  Stacked(frames', cpu'.sp, mem')
<1>1. TypeOK /\ frames \in Seq(Frame) /\ KeepsDiscipline /\ cpu.sp \in Byte
  BY RegisterTypes, Zenon DEF CallTypeOK, Keeps, TypeOK
<1>sp. cpu.sp \in Byte
  BY <1>1
<1>2. Stacked(frames, cpu.sp, mem) /\ AgreeAbove(cpu.sp, mem, mem')
  BY <1>1, ExecuteRuns, DisciplineAgrees, Zenon DEF CallInv, Keeps
<1>3. Stacked(frames, cpu.sp, mem')
  <2>1. cpu.sp <= cpu.sp
    BY <1>sp, SMT DEF Byte
  <2> QED
    BY <1>1, <1>2, <2>1, StackedStays, SMT
<1>4. /\ frames' = IF Handler(Opcode) = "jsr_absolute" THEN Append(frames, NewFrame("jsr"))
                   ELSE IF Handler(Opcode) = "brk_implied"
                     THEN Append(frames, NewFrame("brk"))
                   ELSE IF Handler(Opcode) \in Returning
                     THEN SubSeq(frames, 1, Len(frames) - 1)
                   ELSE frames
  BY Tracked, Zenon DEF Calling, Returning
<1>5. CASE ~ StackMoves
  <2>1. Handler(Opcode) # "txs_implied"
    BY <1>1, Zenon DEF KeepsDiscipline
  <2>2. cpu'.sp = cpu.sp /\ frames' = frames
    BY <1>1, <1>4, <1>5, <2>1, OthersKeepSp, Zenon DEF Calling
  <2> QED
    BY <1>3, <2>2
<1>6. CASE php_implied \/ pha_implied
  <2>1. /\ Handler(Opcode) \in {"php_implied", "pha_implied"}
    BY <1>6, Zenon DEF php_implied, pha_implied, Executes
  <2>2. cpu.sp >= 3 /\ frames' = frames
    BY <1>1, <1>4, <2>1, Zenon DEF KeepsDiscipline, Returning
  <2>3. cpu'.sp = Below(1)
    BY <1>1, <1>6, StackMoveSp, Zenon
  <2>4. Below(1) \in Byte /\ Below(1) <= cpu.sp
    <3>1. cpu.sp >= 3
      BY <2>2
    <3> QED
      BY <1>sp, <3>1, SMT DEF Below, Wrap8, Byte
  <2>5. Stacked(frames, Below(1), mem')
    BY <1>1, <1>2, <2>4, StackedStays, SMT
  <2> QED
    BY <2>2, <2>3, <2>5
<1>7. CASE plp_implied \/ pla_implied
  <2>1. Handler(Opcode) \in {"plp_implied", "pla_implied"}
    BY <1>7, Zenon DEF plp_implied, pla_implied, Executes
  <2>2. cpu.sp < Floor /\ frames' = frames
    BY <1>1, <1>4, <2>1, Zenon DEF KeepsDiscipline, Returning
  <2>3. cpu'.sp = Above(1)
    BY <1>1, <1>7, StackMoveSp, Zenon
  <2>4. Above(1) \in Byte
    BY <1>1, StackTypes, SMT
  <2>5. ASSUME frames # <<>> PROVE Above(1) <= Bottom(frames[Len(frames)])
    <3>1. Floor = Bottom(Top) /\ Bottom(Top) \in Int /\ Top \in Frame
      BY <2>5, TopFrame, FrameTypes, Zenon DEF Floor
    <3>2. Top.sp \in Byte /\ Bottom(Top) < Top.sp
      BY <3>1, FrameTypes, Zenon
    <3>3. cpu.sp < Bottom(Top)
      BY <2>2, <3>1, Zenon
    <3>4. Above(1) <= Bottom(Top)
      <4> DEFINE b == Bottom(Top)
                 k == Top.sp
      <4>1. b \in Int /\ k \in Byte /\ b < k /\ cpu.sp < b
        BY <3>1, <3>2, <3>3, Zenon
      <4> HIDE DEF b, k
      <4>2. Above(1) <= b
        BY <1>sp, <4>1, SMT DEF Above, Wrap8, Byte
      <4> QED
        BY <4>2, Zenon DEF b
    <3> QED
      BY <3>4, Zenon DEF Top
  <2>6. Stacked(frames, Above(1), mem')
    BY <1>1, <1>3, <2>4, <2>5, StackedPops, Zenon
  <2> QED
    BY <2>2, <2>3, <2>6
<1>8. CASE jsr_absolute
  <2>1. Handler(Opcode) = "jsr_absolute"
    BY <1>8, Zenon DEF jsr_absolute, Executes
  <2>2. cpu.sp >= 3 /\ frames' = Append(frames, NewFrame("jsr"))
    BY <1>1, <1>4, <2>1, Zenon DEF KeepsDiscipline
  <2>3. cpu'.sp = Bottom(NewFrame("jsr")) /\ Bottom(NewFrame("jsr")) \in Byte
    BY <1>1, <1>8, <2>2, StackMoveSp, OpenedFrame, Zenon
  <2>4. HeldIn(mem', NewFrame("jsr"))
    BY <1>1, <1>8, <2>2, JsrHolds, Zenon
  <2>5. NewFrame("jsr") \in Frame /\ NewFrame("jsr").sp = cpu.sp
    BY <1>1, OpenedFrame, Zenon
  <2>6. Stacked(Append(frames, NewFrame("jsr")), Bottom(NewFrame("jsr")), mem')
    BY <1>1, <1>2, <2>3, <2>4, <2>5, StackedOpens, Zenon
  <2> QED
    BY <2>2, <2>3, <2>6
<1>9. CASE brk_implied
  <2>1. Handler(Opcode) = "brk_implied"
    BY <1>9, Zenon DEF brk_implied, Executes
  <2>2. cpu.sp >= 3 /\ frames' = Append(frames, NewFrame("brk"))
    BY <1>1, <1>4, <2>1, Zenon DEF KeepsDiscipline
  <2>3. cpu'.sp = Bottom(NewFrame("brk")) /\ Bottom(NewFrame("brk")) \in Byte
    BY <1>1, <1>9, <2>2, StackMoveSp, OpenedFrame, Zenon
  <2>4. HeldIn(mem', NewFrame("brk"))
    BY <1>1, <1>9, <2>2, BrkHolds, Zenon
  <2>5. NewFrame("brk") \in Frame /\ NewFrame("brk").sp = cpu.sp
    BY <1>1, OpenedFrame, Zenon
  <2>6. Stacked(Append(frames, NewFrame("brk")), Bottom(NewFrame("brk")), mem')
    BY <1>1, <1>2, <2>3, <2>4, <2>5, StackedOpens, Zenon
  <2> QED
    BY <2>2, <2>3, <2>6
<1>10. CASE rts_implied \/ rti_implied
  <2>1. Handler(Opcode) \in Returning
    BY <1>10, Zenon DEF rts_implied, rti_implied, Executes, Returning
  <2>2. frames # <<>> /\ frames' = SubSeq(frames, 1, Len(frames) - 1)
    BY <1>1, <1>4, <2>1, Zenon DEF KeepsDiscipline, Returning, TopIs
  <2>3. cpu'.sp = Top.sp
    BY <1>1, <1>10, ReturnSp, Zenon
  <2>4. Stacked(SubSeq(frames, 1, Len(frames) - 1), Top.sp, mem')
    BY <1>1, <1>3, <2>2, StackedCloses, Zenon DEF Top
  <2> QED
    BY <2>2, <2>3, <2>4
<1> QED
  BY <1>5, <1>6, <1>7, <1>8, <1>9, <1>10, Zenon DEF StackMoves

LEMMA CallInvStep == ASSUME CallTypeOK, CallInv, [CallNext]_callVars PROVE CallInv'
<1>1. TypeOK
  BY Zenon DEF CallTypeOK
<1>2. CASE UNCHANGED callVars
  BY <1>2, Zenon DEF callVars, vars, CallInv, Running
<1>3. CASE CallNext /\ Reset
  <2>1. frames' = <<>>
    BY <1>1, <1>3, ResetCounts, Zenon DEF CallNext, Track
  <2> QED
    BY <2>1, NothingStacked, Zenon DEF CallInv
<1>4. CASE CallNext /\ Panicked
  BY <1>4, Zenon DEF Panicked, vars, Running, CallInv
<1>5. CASE CallNext /\ Execute
  <2>1. resets' = resets /\ Track /\ Running
    BY <1>5, ExecuteKeepsResets, ExecuteRuns, Zenon DEF CallNext
  <2>2. CASE ~ Keeps
    BY <2>1, <2>2, Tracked, Zenon DEF CallInv
  <2>3. CASE Keeps /\ outcome' = "ok"
    BY <1>5, <2>1, <2>3, CompletedStacks, Zenon DEF CallInv
  <2>4. CASE Keeps /\ outcome' = "err"
    <3>1. cpu' = cpu /\ mem' = mem
      BY <1>5, <2>4, ErrorsChangeNothing, Zenon DEF Next, vars
    <3>2. frames' = frames
      BY <2>1, <2>4, Tracked, Zenon
    <3> QED
      BY <2>1, <2>4, <3>1, <3>2, Zenon DEF CallInv, Keeps
  <2>5. CASE outcome' = "panic"
    BY <2>5, Zenon DEF CallInv, Running
  <2>6. outcome' \in {"ok", "err", "panic"}
    BY <1>1, <1>5, NextType, Zenon DEF Next, TypeOK, Outcomes
  <2> QED
    BY <2>2, <2>3, <2>4, <2>5, <2>6, Zenon
<1> QED
  BY <1>2, <1>3, <1>4, <1>5, Zenon DEF CallNext, Next

LEMMA StackedIsIntact == ASSUME CallTypeOK, CallInv PROVE FramesIntact
<1> SUFFICES ASSUME Running, disciplined
             PROVE  /\ cpu.sp <= Floor
                    /\ \A i \in 1 .. Len(frames) :
                         /\ 0 <= Bottom(frames[i])
                         /\ frames[i].sp <= IF i = 1 THEN \hFF ELSE Bottom(frames[i - 1])
                         /\ Holds(frames[i])
  BY Zenon DEF FramesIntact
<1>1. cpu.sp \in Byte /\ frames \in Seq(Frame) /\ Stacked(frames, cpu.sp, mem)
  BY RegisterTypes, Zenon DEF CallTypeOK, TypeOK, CallInv
<1>2. CASE frames = <<>>
  <2>1. cpu.sp <= Floor
    <3>1. cpu.sp \in Byte /\ Floor = \hFF
      BY <1>1, <1>2, Zenon DEF Floor
    <3> QED
      BY <3>1, SMT DEF Byte
  <2>2. 1 .. Len(frames) = {}
    BY <1>2, SMT
  <2> QED
    BY <2>1, <2>2, Zenon
<1>3. CASE frames # <<>>
  <2>1. cpu.sp <= Floor
    BY <1>1, <1>3, TopFrame, Zenon DEF Floor, Stacked, Top
  <2>2. ASSUME NEW i \in 1 .. Len(frames)
        PROVE  /\ 0 <= Bottom(frames[i])
               /\ frames[i].sp <= IF i = 1 THEN \hFF ELSE Bottom(frames[i - 1])
               /\ Holds(frames[i])
    <3>1. /\ frames[i] \in Frame /\ cpu.sp <= Bottom(frames[i]) /\ HeldIn(mem, frames[i])
          /\ \A j \in 1 .. i - 1 : frames[i].sp <= Bottom(frames[j])
      BY <1>1, ElementOfSeq, Zenon DEF Stacked
    <3>2. Bottom(frames[i]) \in Int /\ frames[i].sp \in Byte
      BY <3>1, FrameTypes, Zenon
    <3>3. 0 <= Bottom(frames[i]) /\ frames[i].sp <= \hFF
      BY <1>1, <3>1, <3>2, ByteBounds, Zenon
    <3>4. i # 1 => i - 1 \in 1 .. i - 1
      BY SMT
    <3> QED
      BY <3>1, <3>3, <3>4, Zenon DEF Holds, HeldIn
  <2> QED
    BY <2>1, <2>2, Zenon
<1> QED
  BY <1>2, <1>3

LEMMA CallInvHolds == CallSpec => []CallInv
<1>1. CallInit => CallInv
  BY NothingStacked, Zenon DEF CallInit, CallInv
<1>2. CallTypeOK /\ CallInv /\ [CallNext]_callVars => CallInv'
  BY CallInvStep
<1> QED
  BY <1>1, <1>2, CallTypes, PTL DEF CallSpec

(* As long as the program runs and keeps to the stack discipline, the      *)
(* pending frames lie one below the other above sp, and each still holds   *)
(* the return address (and p) its JSR or BRK pushed.                       *)
THEOREM FramesStayIntact == CallSpec => []FramesIntact
<1>1. CallTypeOK /\ CallInv => FramesIntact
  BY StackedIsIntact
<1> QED
  BY <1>1, CallTypes, CallInvHolds, PTL

-----------------------------------------------------------------------------
(* Where returns lead *)

LEMMA PullFetches == ASSUME TypeOK, NEW n \in Int PROVE Pull(n) = Fetch(mem, Above(n))
  BY StackTypes, ZeroPageCell, SMT DEF Pull, Read8

LEMMA ReturnLengths ==
  Handler(Opcode) \in Returning => Length = 1
<1>1. ASSUME Handler(Opcode) \in Returning PROVE Length = 1
  <2>1. Handler(Opcode) \notin Unchecked /\ OperandBytes(Handler(Opcode)) = 0
    BY <1>1, Zenon DEF Returning, Unchecked, OperandBytes, OneOperandByte,
       TwoOperandBytes
  <2>2. Length = 1 + OperandBytes(Handler(Opcode))
    BY <2>1, TablesAgree, Zenon DEF Length
  <2> QED
    BY <2>1, <2>2, SMT
<1> QED
  BY <1>1

(* pc after an instruction that sets it and completes *)
LEMMA FinishPc ==
  ASSUME NEW c, "pc" \in DOMAIN c, NEW m, Finish(c, m), outcome' = "ok"
  PROVE  cpu'.pc = Wrap16(c.pc + Length)
<1>1. \A w : [c EXCEPT !.pc = w].pc = w
  BY SMT
<1>2. cpu' = [c EXCEPT !.pc = Wrap16(c.pc + Length)]
  BY Zenon DEF Finish, Return, Ends
<1> QED
  BY <1>1, <1>2, Zenon

(* What a return finds on the stack *)
LEMMA ReturnFinds ==
  ASSUME CallTypeOK, CallInv, Running, disciplined, NEW kind, TopIs(kind)
  PROVE  /\ Top \in Frame
         /\ kind = "jsr" => /\ Above(2) = Top.sp
                            /\ Join(Pull(2), Pull(1)) = Wrap16(Top.at - 2)
         /\ kind = "brk" => /\ Above(3) = Top.sp
                            /\ Join(Pull(3), Pull(2)) = Top.at /\ Pull(1) = Top.p
<1>1. frames # <<>> /\ Top.kind = kind /\ cpu.sp = Bottom(Top) /\ TypeOK
  BY Zenon DEF TopIs, CallTypeOK
<1>2. Top \in Frame /\ HeldIn(mem, Top)
  BY <1>1, TopFrame, Zenon DEF CallInv, Stacked, Top
<1>3. Top.sp \in Byte /\ Top.at \in Word /\ cpu.sp \in Byte
  BY <1>1, <1>2, FrameTypes, RegisterTypes, Zenon DEF TypeOK
<1>4. /\ Pull(1) = Fetch(mem, Above(1)) /\ Pull(2) = Fetch(mem, Above(2))
      /\ Pull(3) = Fetch(mem, Above(3))
  BY <1>1, PullFetches, SMT
<1>5. ASSUME kind = "jsr"
      PROVE  Above(2) = Top.sp /\ Join(Pull(2), Pull(1)) = Wrap16(Top.at - 2)
  <2>1. cpu.sp = Top.sp - 2
    BY <1>1, <1>2, <1>5, FrameTypes, Zenon
  <2>2. Above(1) = Top.sp - 1 /\ Above(2) = Top.sp
    BY <1>3, <2>1, SMT DEF Above, Wrap8, Byte
  <2>3. Wrap16(Top.at - 2) \in Word
    BY <1>3, SumTypes, WrapTypes, Zenon
  <2>4. Pull(2) = HighByte(Wrap16(Top.at - 2)) /\ Pull(1) = LowByte(Wrap16(Top.at - 2))
    BY <1>1, <1>2, <1>4, <1>5, <2>2, Zenon DEF HeldIn
  <2> QED
    BY <2>2, <2>3, <2>4, JoinHalves, Zenon
<1>6. ASSUME kind = "brk"
      PROVE  /\ Above(3) = Top.sp
             /\ Join(Pull(3), Pull(2)) = Top.at /\ Pull(1) = Top.p
  <2>1. cpu.sp = Top.sp - 3
    BY <1>1, <1>2, <1>6, FrameTypes, Zenon
  <2>2. Above(1) = Top.sp - 2 /\ Above(2) = Top.sp - 1 /\ Above(3) = Top.sp
    BY <1>3, <2>1, SMT DEF Above, Wrap8, Byte
  <2>3. Pull(3) = HighByte(Top.at) /\ Pull(2) = LowByte(Top.at) /\ Pull(1) = Top.p
    BY <1>1, <1>2, <1>4, <1>6, <2>2, Zenon DEF HeldIn
  <2> QED
    BY <1>3, <2>2, <2>3, JoinHalves, Zenon
<1> QED
  BY <1>2, <1>5, <1>6, Zenon

LEMMA RtsRepeats ==
  ASSUME CallTypeOK, CallInv, disciplined, rts_implied, TopIs("jsr"), outcome' = "ok"
  PROVE  cpu'.pc = Top.at /\ cpu'.sp = Top.sp
<1> DEFINE w == Wrap16(Join(Pull(2), Pull(1)) + 1)
           c == [cpu EXCEPT !.sp = Above(2), !.pc = w]
<1>1. Running /\ TypeOK /\ Length = 1 /\ Finish(c, mem)
  BY ReturnLengths, Zenon DEF rts_implied, Executes, Returning, CallTypeOK
<1>2. /\ Top \in Frame /\ Above(2) = Top.sp /\ Top.at \in Word
      /\ Join(Pull(2), Pull(1)) = Wrap16(Top.at - 2)
  BY <1>1, ReturnFinds, FrameTypes, Zenon
<1>3. c.pc = w /\ "pc" \in DOMAIN c
  <2>1. "pc" \in DOMAIN cpu
    BY <1>1, SMT DEF TypeOK, CPU
  <2> QED
    BY <2>1, SMT
<1>4. w = Wrap16(Wrap16(Top.at - 2) + 1)
  BY <1>2, Zenon
<1>5. cpu'.sp = Above(2)
  BY <1>1, StackMoveSp, Zenon
<1> HIDE DEF c, w
<1>6. cpu'.pc = Wrap16(w + 1)
  BY <1>1, <1>3, FinishPc, Zenon
<1> QED
  BY <1>2, <1>4, <1>5, <1>6, ReturnAddress, Zenon

LEMMA RtiResumes ==
  ASSUME CallTypeOK, CallInv, disciplined, rti_implied, TopIs("brk"), outcome' = "ok"
  PROVE  /\ cpu'.pc = Wrap16(Top.at + 1) /\ cpu'.sp = Top.sp /\ cpu'.p = Top.p
         /\ cpu'.flags = cpu.flags
<1> DEFINE w == Join(Pull(3), Pull(2))
           c == [cpu EXCEPT !.sp = Above(3), !.p = Pull(1), !.pc = w]
<1>1. Running /\ TypeOK /\ Length = 1 /\ Finish(c, mem)
  BY ReturnLengths, Zenon DEF rti_implied, Executes, Returning, CallTypeOK
<1>2. Top \in Frame /\ Above(3) = Top.sp /\ w = Top.at /\ Pull(1) = Top.p
  BY <1>1, ReturnFinds, Zenon
<1>3. /\ c.pc = w /\ c.p = Pull(1) /\ c.flags = cpu.flags
      /\ {"pc", "p", "flags"} \subseteq DOMAIN c
  <2>1. {"pc", "p", "flags", "sp"} \subseteq DOMAIN cpu
    BY <1>1, SMT DEF TypeOK, CPU
  <2> QED
    BY <2>1, SMT
<1>4. cpu'.sp = Above(3)
  BY <1>1, StackMoveSp, Zenon
<1> HIDE DEF c, w
<1>5. cpu' = [c EXCEPT !.pc = Wrap16(c.pc + Length)]
  BY <1>1, Zenon DEF Finish, Return, Ends
<1>6. cpu'.p = c.p /\ cpu'.flags = c.flags
  BY <1>5, SMT
<1>7. cpu'.pc = Wrap16(w + 1)
  BY <1>1, <1>3, FinishPc, Zenon
<1> QED
  BY <1>2, <1>3, <1>4, <1>6, <1>7, Zenon

(* Returning from a call lands on the JSR itself, with sp as it was before *)
(* the call: JSR's "pc - 2", RTS's "+ 1" and the length of RTS cancel out. *)
THEOREM ReturnsRepeat == CallSpec => ReturnRepeatsTheCall
<1>1. CallTypeOK /\ CallInv /\ [CallNext]_callVars =>
        [disciplined /\ rts_implied /\ TopIs("jsr") /\ outcome' = "ok"
           => cpu'.pc = Top.at /\ cpu'.sp = Top.sp]_callVars
  BY RtsRepeats, Zenon
<1> QED
  BY <1>1, CallTypes, CallInvHolds, PTL DEF CallSpec, ReturnRepeatsTheCall

(* Returning from an interrupt resumes behind the BRK with sp and p as they *)
(* were before it, and with the flags the handler left.                    *)
THEOREM InterruptsResume == CallSpec => InterruptResumesBehindBrk
<1>1. CallTypeOK /\ CallInv /\ [CallNext]_callVars =>
        [disciplined /\ rti_implied /\ TopIs("brk") /\ outcome' = "ok"
           => /\ cpu'.pc = Wrap16(Top.at + 1) /\ cpu'.sp = Top.sp /\ cpu'.p = Top.p
              /\ cpu'.flags = cpu.flags]_callVars
  BY RtiResumes, Zenon
<1> QED
  BY <1>1, CallTypes, CallInvHolds, PTL DEF CallSpec, InterruptResumesBehindBrk
=============================================================================
