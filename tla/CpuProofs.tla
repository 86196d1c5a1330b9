----------------------------- MODULE CpuProofs -----------------------------
(***************************************************************************)
(* Proofs about Cpu, for every build, every cartridge image and every      *)
(* number of resets.                                                       *)
(***************************************************************************)
EXTENDS Cpu, MemoryProofs

-----------------------------------------------------------------------------
(* Types of the values an instruction is made of *)

LEMMA LengthType == ASSUME NEW op PROVE Size(op) \in {1, 2, 3}
  BY Zenon DEF Size

LEMMA FetchedTypes ==
  ASSUME TypeOK
  PROVE  /\ Opcode \in Byte /\ Length \in {1, 2, 3}
         /\ Byte1 \in Byte /\ Byte2 \in Byte /\ Operand \in Word
<1>1. \A i : ByteAt(i) \in Byte
  BY ReadTypes, Zenon DEF ByteAt, TypeOK
<1>2. 0 \in Byte
  BY SMT DEF Byte
<1>3. Byte1 \in Byte /\ Byte2 \in Byte
  BY <1>1, <1>2, Zenon DEF Byte1, Byte2
<1> QED
  BY <1>1, <1>3, LengthType, JoinType, Zenon DEF Opcode, Length, Operand

LEMMA SetterTypes ==
  ASSUME NEW c \in CPU, NEW v
  PROVE  /\ set_negative(c, v) \in CPU /\ set_overflow(c, v) \in CPU
         /\ set_decimal(c, v) \in CPU /\ set_interrupt_disable(c, v) \in CPU
         /\ set_zero(c, v) \in CPU /\ set_carry(c, v) \in CPU
<1>1. \A f \in Flags : Insert(c, f) \in CPU /\ Remove(c, f) \in CPU
  BY SMT DEF Insert, Remove, CPU
<1>2. {"Negative", "Overflow", "Decimal", "InterruptDisable", "Zero", "Carry"}
        \subseteq Flags
  BY Zenon DEF Flags
<1> QED
  BY <1>1, <1>2, Zenon DEF set_negative, set_overflow, set_decimal,
     set_interrupt_disable, set_zero, set_carry

LEMMA FlagUpdateTypes ==
  ASSUME NEW c \in CPU, NEW v
  PROVE  /\ update_register(c, v) \in CPU /\ ResultFlags(c, v) \in CPU
         /\ ShiftFlags(c, v) \in CPU
<1>1. \A w : ResultFlags(c, w) \in CPU
  BY SetterTypes, Zenon DEF ResultFlags
<1>2. \A w, d : d \in CPU => ResultFlags(d, w) \in CPU
  BY SetterTypes, Zenon DEF ResultFlags
<1> QED
  BY <1>1, <1>2, SetterTypes, Zenon DEF update_register, ShiftFlags

LEMMA AssignTypes ==
  ASSUME NEW c \in CPU, NEW b \in Byte, NEW w \in Word, NEW fs \in SUBSET Flags
  PROVE  /\ [c EXCEPT !.a = b] \in CPU /\ [c EXCEPT !.x = b] \in CPU
         /\ [c EXCEPT !.sp = b] \in CPU /\ [c EXCEPT !.p = b] \in CPU
         /\ [c EXCEPT !.pc = w] \in CPU /\ [c EXCEPT !.flags = fs] \in CPU
  BY SMT DEF CPU

LEMMA AssignSeveralTypes ==
  ASSUME NEW c \in CPU, NEW b \in Byte, NEW d \in Byte, NEW w \in Word,
         NEW fs \in SUBSET Flags
  PROVE  /\ [c EXCEPT !.sp = b, !.a = d] \in CPU
         /\ [c EXCEPT !.sp = b, !.p = d] \in CPU
         /\ [c EXCEPT !.sp = b, !.pc = w] \in CPU
         /\ [c EXCEPT !.sp = b, !.p = d, !.pc = w] \in CPU
         /\ [c EXCEPT !.sp = b, !.flags = fs] \in CPU
         /\ [c EXCEPT !.sp = b, !.flags = fs, !.pc = w] \in CPU
<1>1. [c EXCEPT !.sp = b] \in CPU
  BY AssignTypes, Zenon
<1>2. /\ [c EXCEPT !.sp = b, !.a = d] \in CPU
      /\ [c EXCEPT !.sp = b, !.p = d] \in CPU
      /\ [c EXCEPT !.sp = b, !.pc = w] \in CPU
      /\ [c EXCEPT !.sp = b, !.flags = fs] \in CPU
  BY <1>1, AssignTypes, Zenon
<1> QED
  BY <1>2, AssignTypes, Zenon

LEMMA RegisterTypes ==
  ASSUME NEW c \in CPU
  PROVE  /\ c.a \in Byte /\ c.x \in Byte /\ c.y \in Byte /\ c.p \in Byte
         /\ c.sp \in Byte /\ c.pc \in Word /\ c.flags \subseteq Flags
  BY SMT DEF CPU

LEMMA ByteIsInt ==
  /\ \A b \in Byte : b \in Int /\ b \in Word
  /\ \A w \in Word : w \in Int
<1>1. \A b \in Byte : b \in Int /\ b \in Word
  BY SMT DEF Byte, Word
<1>2. \A w \in Word : w \in Int
  BY SMT DEF Word
<1> QED
  BY <1>1, <1>2, Zenon

LEMMA SumTypes ==
  /\ \A b \in Byte : /\ b + 1 \in Int /\ b - 1 \in Int
                     /\ \A c \in Byte : c + b \in Int
                     /\ \A w \in Word : w + b \in Int
  /\ \A w \in Word : w + 1 \in Int /\ w - 2 \in Int
<1>1. \A b \in Byte : b + 1 \in Int /\ b - 1 \in Int
  BY SMT DEF Byte
<1>2. \A b \in Byte, c \in Byte : c + b \in Int
  BY SMT DEF Byte
<1>3. \A b \in Byte, w \in Word : w + b \in Int
  BY SMT DEF Byte, Word
<1>4. \A w \in Word : w + 1 \in Int /\ w - 2 \in Int
  BY SMT DEF Word
<1> QED
  BY <1>1, <1>2, <1>3, <1>4, Zenon

LEMMA StackTypes ==
  ASSUME TypeOK, NEW n \in Int
  PROVE  /\ Below(n) \in Byte /\ Above(n) \in Byte /\ Pull(n) \in Byte
         /\ \A m, v : IsMemory(m) /\ v \in Byte =>
              IsMemory(Push(m, cpu.sp, v)) /\ IsMemory(Push(m, Below(n), v))
<1>1. cpu.sp \in Byte /\ cpu.sp - n \in Int /\ cpu.sp + n \in Int
  BY RegisterTypes, ByteIsInt, SMT DEF TypeOK
<1>2. Below(n) \in Byte /\ Above(n) \in Byte
  BY <1>1, WrapTypes, Zenon DEF Below, Above
<1>3. Pull(n) \in Byte
  BY ReadTypes, Zenon DEF Pull, TypeOK
<1> QED
  BY <1>1, <1>2, <1>3, ByteIsInt, WrittenType, Zenon DEF Push

-----------------------------------------------------------------------------
(* Every way a call ends leaves a well-typed state *)

LEMMA ReturnType ==
  ASSUME TypeOK, NEW c \in CPU, NEW m, IsMemory(m), NEW o \in Outcomes,
         Return(o, c, m)
  PROVE  TypeOK'
  BY Zenon DEF TypeOK, Return, Ends

LEMMA FinishType ==
  ASSUME TypeOK, NEW c \in CPU, NEW m, IsMemory(m), Finish(c, m)
  PROVE  TypeOK'
<1>1. c.pc + Length \in Int
  <2>1. c.pc \in Int
    BY RegisterTypes, ByteIsInt, Zenon
  <2>2. Length \in Int
    BY FetchedTypes, SMT
  <2> QED
    BY <2>1, <2>2, SMT
<1>2. [c EXCEPT !.pc = Wrap16(c.pc + Length)] \in CPU
  BY <1>1, WrapTypes, AssignTypes, RegisterTypes, Zenon
<1>3. {"ok", "panic"} \subseteq Outcomes
  BY Zenon DEF Outcomes
<1> QED
  BY <1>2, <1>3, ReturnType, Zenon DEF Finish

LEMMA OutcomesOfReads == ASSUME NEW addr, NEW size PROVE ReadOutcome(addr, size) \in Outcomes
  BY OutcomeTypes, Zenon DEF Outcomes

LEMMA ReadingType ==
  ASSUME TypeOK, NEW c \in CPU, NEW addr, Reading(addr, c)
  PROVE  TypeOK'
<1>1. CASE ReadOutcome(addr, 1) = "ok"
  BY <1>1, FinishType, Zenon DEF Reading, TypeOK
<1>2. CASE ReadOutcome(addr, 1) # "ok"
  BY <1>2, OutcomesOfReads, ReturnType, Zenon DEF Reading, TypeOK
<1> QED
  BY <1>1, <1>2, Zenon

LEMMA StoringType ==
  ASSUME TypeOK, NEW c \in CPU, NEW addr \in Word, NEW v \in Byte,
         Storing(addr, v, c)
  PROVE  TypeOK'
<1>1. IsMemory(Written(mem, addr, v))
  BY WrittenType, Zenon DEF TypeOK
<1>2. CASE WriteOutcome(addr) = "ok"
  BY <1>1, <1>2, FinishType, Zenon DEF Storing
<1>3. CASE WriteOutcome(addr) # "ok"
  BY <1>1, <1>3, OutcomeTypes, ReturnType, Zenon DEF Storing, TypeOK, Outcomes
<1> QED
  BY <1>2, <1>3, Zenon

LEMMA OraType == ASSUME TypeOK, NEW addr, Ora(addr) PROVE TypeOK'
<1> DEFINE result == BitOr(cpu.a, Read8(mem, addr))
<1>1. [cpu EXCEPT !.a = result] \in CPU
  BY BitOrType, AssignTypes, RegisterTypes, Zenon DEF TypeOK
<1>2. ResultFlags([cpu EXCEPT !.a = result], result) \in CPU
  BY <1>1, FlagUpdateTypes, Zenon
<1> QED
  BY <1>2, ReadingType, Zenon DEF Ora

LEMMA ShiftLeftType == ASSUME NEW b \in Byte PROVE ShiftLeft(b) \in Byte
  BY SMT DEF ShiftLeft, Wrap8, Byte

LEMMA AslType == ASSUME TypeOK, NEW addr \in Word, Asl(addr) PROVE TypeOK'
<1> DEFINE v == Read8(mem, addr)
<1>1. ShiftLeft(v) \in Byte
  BY ReadTypes, ShiftLeftType, Zenon DEF TypeOK
<1>2. ShiftFlags(cpu, v) \in CPU
  BY FlagUpdateTypes, Zenon DEF TypeOK
<1>3. CASE ReadOutcome(addr, 1) # "ok"
  BY <1>3, OutcomesOfReads, ReturnType, Zenon DEF Asl, TypeOK
<1>4. CASE ReadOutcome(addr, 1) = "ok"
  BY <1>1, <1>2, <1>4, StoringType, Zenon DEF Asl
<1> QED
  BY <1>3, <1>4, Zenon

LEMMA BitType == ASSUME TypeOK, NEW addr, Bit(addr) PROVE TypeOK'
<1> DEFINE v == Read8(mem, addr)
           c == set_negative(set_zero(cpu, AndIsZero(cpu.a, v)), HasBit(v, 128))
<1>1. set_zero(cpu, AndIsZero(cpu.a, v)) \in CPU
  BY SetterTypes, Zenon DEF TypeOK
<1>2. c \in CPU
  BY <1>1, SetterTypes, Zenon
<1>3. set_overflow(c, HasBit(v, 64)) \in CPU
  BY <1>2, SetterTypes, Zenon
<1> QED
  BY <1>3, ReadingType, Zenon DEF Bit

-----------------------------------------------------------------------------
(* One lemma per group of handlers *)

LEMMA LoadsAndStoresType == ASSUME TypeOK, LoadsAndStores PROVE TypeOK'
<1>1. cpu \in CPU /\ IsMemory(mem) /\ Byte1 \in Byte /\ Operand \in Word
  BY FetchedTypes, Zenon DEF TypeOK
<1>2. cpu.a \in Byte /\ cpu.x \in Byte /\ cpu.pc \in Word
  BY <1>1, RegisterTypes, Zenon
<1>3. \A b \in Byte : /\ update_register([cpu EXCEPT !.a = b], b) \in CPU
                      /\ update_register([cpu EXCEPT !.x = b], b) \in CPU
                      /\ update_register([cpu EXCEPT !.sp = b], b) \in CPU
  BY <1>1, <1>2, AssignTypes, FlagUpdateTypes, Zenon
<1>4. CASE lda_immediate
  BY <1>1, <1>3, <1>4, FinishType, Zenon DEF lda_immediate
<1>5. CASE ldx_immediate
  BY <1>1, <1>3, <1>5, FinishType, Zenon DEF ldx_immediate
<1>6. CASE lda_absolute
  <2>1. Read8(mem, Operand) \in Byte
    BY <1>1, ReadTypes, Zenon
  <2> QED
    BY <1>3, <1>6, <2>1, ReadingType, Zenon DEF lda_absolute
<1>7. CASE lda_absolute_ix
  <2>1. Read8(mem, Operand) + cpu.x \in Int
    BY <1>1, <1>2, ReadTypes, SumTypes, Zenon
  <2>2. IndexedValue \in Byte
    BY <2>1, WrapTypes, Zenon DEF IndexedValue
  <2> QED
    BY <1>3, <1>7, <2>2, ReadingType, Zenon DEF lda_absolute_ix
<1>8. CASE sta_absolute
  BY <1>1, <1>2, <1>8, StoringType, Zenon DEF sta_absolute
<1>9. CASE sta_absolute_ix
  <2>1. Operand + cpu.x \in Int
    BY <1>1, <1>2, SumTypes, Zenon
  <2> QED
    BY <1>1, <1>2, <1>9, <2>1, WrapTypes, StoringType, Zenon DEF sta_absolute_ix
<1>10. CASE txs_implied
  BY <1>1, <1>2, <1>3, <1>10, FinishType, Zenon DEF txs_implied
<1>11. CASE txa_implied
  BY <1>1, <1>2, <1>3, <1>11, FinishType, Zenon DEF txa_implied
<1> QED
  BY <1>4, <1>5, <1>6, <1>7, <1>8, <1>9, <1>10, <1>11, Zenon DEF LoadsAndStores

LEMMA ArithmeticType == ASSUME TypeOK, Arithmetic PROVE TypeOK'
<1>1. cpu \in CPU /\ IsMemory(mem) /\ Byte1 \in Byte /\ Operand \in Word
  BY FetchedTypes, Zenon DEF TypeOK
<1>2. cpu.a \in Byte /\ cpu.x \in Byte /\ cpu.pc \in Word
  BY <1>1, RegisterTypes, Zenon
<1>3. ASSUME NEW n \in Int, SetX(Wrap8(n)) PROVE TypeOK'
  <2>1. update_register([cpu EXCEPT !.x = Wrap8(n)], Wrap8(n)) \in CPU
    BY <1>1, <1>2, WrapTypes, AssignTypes, FlagUpdateTypes, Zenon
  <2> QED
    BY <1>1, <1>3, <2>1, FinishType, Zenon DEF SetX
<1>4. cpu.x + 1 \in Int /\ cpu.x - 1 \in Int
  BY <1>2, SumTypes, Zenon
<1>5. CASE inx_implied
  BY <1>3, <1>4, <1>5, Zenon DEF inx_implied
<1>6. CASE dex_implied
  BY <1>3, <1>4, <1>6, Zenon DEF dex_implied
<1>7. CASE cmp_absolute_ix
  <2> DEFINE compared == set_zero(set_carry(cpu, IndexedValue >= cpu.a),
                                  IndexedValue = cpu.a)
  <2>1. set_carry(cpu, IndexedValue >= cpu.a) \in CPU
    BY <1>1, SetterTypes, Zenon
  <2>2. compared \in CPU
    BY <2>1, SetterTypes, Zenon
  <2>3. set_negative(compared, SignBit(Wrap8(IndexedValue - cpu.a))) \in CPU
    BY <2>2, SetterTypes, Zenon
  <2> QED
    BY <1>7, <2>3, ReadingType, Zenon DEF cmp_absolute_ix
<1>8. CASE ora_zero_page \/ ora_absolute \/ ora_zp_x \/ ora_absolute_y \/ ora_indirect_y
  BY <1>8, OraType, Zenon DEF ora_zero_page, ora_absolute, ora_zp_x, ora_absolute_y,
     ora_indirect_y
<1>9. CASE ora_indirect_x
  BY <1>1, <1>9, OutcomesOfReads, ReturnType, OraType, Zenon DEF ora_indirect_x
<1>10. CASE asl_zero_page
  BY <1>1, <1>10, ByteIsInt, AslType, Zenon DEF asl_zero_page
<1>11. CASE asl_absolute
  BY <1>1, <1>11, AslType, Zenon DEF asl_absolute
<1>12. CASE asl_accumulator
  <2>1. [cpu EXCEPT !.a = ShiftLeft(cpu.a)] \in CPU
    BY <1>1, <1>2, ShiftLeftType, AssignTypes, Zenon
  <2>2. ShiftFlags([cpu EXCEPT !.a = ShiftLeft(cpu.a)], cpu.a) \in CPU
    BY <2>1, FlagUpdateTypes, Zenon
  <2> QED
    BY <1>1, <1>12, <2>2, FinishType, Zenon DEF asl_accumulator
<1>13. CASE bit_zero_page \/ bit_absolute
  BY <1>13, BitType, Zenon DEF bit_zero_page, bit_absolute
<1> QED
  BY <1>5, <1>6, <1>7, <1>8, <1>9, <1>10, <1>11, <1>12, <1>13, Zenon DEF Arithmetic

LEMMA BranchesType == ASSUME TypeOK, Branches PROVE TypeOK'
<1>1. cpu \in CPU /\ IsMemory(mem) /\ Byte1 \in Byte /\ cpu.pc \in Word
  BY FetchedTypes, RegisterTypes, Zenon DEF TypeOK
<1>2. \A w : w \in Int => [cpu EXCEPT !.pc = Wrap16(w)] \in CPU
  BY <1>1, RegisterTypes, WrapTypes, AssignTypes, Zenon
<1>3. Branched \in CPU
  <2>1. SignExtend(Byte1) \in Int /\ cpu.pc \in Int
    BY <1>1, SignExtendType, ByteIsInt, Zenon
  <2>2. cpu.pc + SignExtend(Byte1) \in Int
    BY <2>1, SMT
  <2> QED
    BY <1>2, <2>2, Zenon DEF Branched
<1>4. CASE bpl_relative \/ bmi_relative \/ bne_relative
  BY <1>1, <1>3, <1>4, FinishType, Zenon DEF bpl_relative, bmi_relative, bne_relative
<1>5. CASE beq_relative
  <2>1. [cpu EXCEPT !.pc = Wrap16(@ + Byte1)] \in CPU
    BY <1>1, <1>2, SumTypes, Zenon
  <2>2. "panic" \in Outcomes
    BY Zenon DEF Outcomes
  <2> QED
    BY <1>1, <1>5, <2>1, <2>2, FinishType, ReturnType, Zenon DEF beq_relative
<1> QED
  BY <1>4, <1>5, Zenon DEF Branches

LEMMA FlagChangesType == ASSUME TypeOK, FlagChanges PROVE TypeOK'
<1>1. cpu \in CPU /\ IsMemory(mem)
  BY Zenon DEF TypeOK
<1> QED
  BY <1>1, SetterTypes, FinishType, Zenon DEF FlagChanges, sei_implied, cld_implied,
     clc_implied, sec_implied

LEMMA StackMovesType == ASSUME TypeOK, StackMoves PROVE TypeOK'
<1>1. cpu \in CPU /\ IsMemory(mem) /\ Operand \in Word /\ cpu.pc \in Word
  BY FetchedTypes, RegisterTypes, Zenon DEF TypeOK
<1>2. cpu.a \in Byte /\ cpu.p \in Byte
  BY <1>1, RegisterTypes, Zenon
<1>3. 1 \in Int /\ 2 \in Int /\ 3 \in Int
  BY SMT
<1>4. ASSUME NEW n \in {1, 2, 3}
      PROVE  /\ Below(n) \in Byte /\ Above(n) \in Byte /\ Pull(n) \in Byte
             /\ [cpu EXCEPT !.sp = Below(n)] \in CPU
             /\ [cpu EXCEPT !.sp = Above(n)] \in CPU
             /\ \A m, v : IsMemory(m) /\ v \in Byte =>
                  IsMemory(Push(m, cpu.sp, v)) /\ IsMemory(Push(m, Below(n), v))
  BY <1>1, <1>3, StackTypes, AssignTypes, RegisterTypes, Zenon
<1>5. CASE php_implied
  BY <1>1, <1>2, <1>4, <1>5, FinishType, Zenon DEF php_implied
<1>6. CASE plp_implied
  <2>1. [cpu EXCEPT !.sp = Above(1), !.p = Pull(1)] \in CPU
    BY <1>1, <1>4, AssignSeveralTypes, RegisterTypes, Zenon
  <2> QED
    BY <1>1, <1>6, <2>1, FinishType, Zenon DEF plp_implied
<1>7. CASE pha_implied
  BY <1>1, <1>2, <1>4, <1>7, FinishType, Zenon DEF pha_implied
<1>8. CASE pla_implied
  <2>1. [cpu EXCEPT !.sp = Above(1), !.a = Pull(1)] \in CPU
    BY <1>1, <1>4, AssignSeveralTypes, RegisterTypes, Zenon
  <2> QED
    BY <1>1, <1>8, <2>1, FlagUpdateTypes, FinishType, Zenon DEF pla_implied
<1>9. CASE brk_implied
  <2> DEFINE pushed == Push(Push(Push(mem, cpu.sp, HighByte(cpu.pc)),
                                 Below(1), LowByte(cpu.pc)), Below(2), cpu.p)
             after  == [cpu EXCEPT !.sp = Below(3), !.flags = BrkFlags]
  <2>1. IsMemory(pushed)
    BY <1>1, <1>2, <1>4, HalvesAreBytes, Zenon
  <2>2. BrkFlags \in SUBSET Flags
    BY <1>1, RegisterTypes, Zenon DEF BrkFlags
  <2>3. after \in CPU
    BY <1>1, <1>4, <2>2, AssignSeveralTypes, RegisterTypes, Zenon
  <2>4. [after EXCEPT !.pc = Read16(pushed, BrkVector)] \in CPU
    BY <1>2, <2>1, <2>3, ReadTypes, AssignTypes, Zenon
  <2> QED
    BY <1>9, <2>1, <2>3, <2>4, OutcomesOfReads, FinishType, ReturnType, Zenon
       DEF brk_implied
<1>10. CASE jsr_absolute
  <2> DEFINE return_addr == Wrap16(cpu.pc - 2)
  <2>1. return_addr \in Word
    BY <1>1, SumTypes, WrapTypes, Zenon
  <2>2. IsMemory(Push(Push(mem, cpu.sp, HighByte(return_addr)),
                      Below(1), LowByte(return_addr)))
    BY <1>1, <1>4, <2>1, HalvesAreBytes, Zenon
  <2>3. [cpu EXCEPT !.sp = Below(2), !.pc = Operand] \in CPU
    BY <1>1, <1>4, AssignSeveralTypes, RegisterTypes, Zenon
  <2> QED
    BY <1>10, <2>2, <2>3, FinishType, Zenon DEF jsr_absolute
<1>11. CASE rti_implied
  <2>1. Join(Pull(3), Pull(2)) \in Word
    BY <1>4, JoinType, Zenon
  <2>2. [cpu EXCEPT !.sp = Above(3), !.p = Pull(1),
                    !.pc = Join(Pull(3), Pull(2))] \in CPU
    BY <1>1, <1>4, <2>1, AssignSeveralTypes, RegisterTypes, Zenon
  <2> QED
    BY <1>1, <1>11, <2>2, FinishType, Zenon DEF rti_implied
<1>12. CASE rts_implied
  <2>1. Join(Pull(2), Pull(1)) \in Word
    BY <1>4, JoinType, Zenon
  <2>2. Wrap16(Join(Pull(2), Pull(1)) + 1) \in Word
    BY <2>1, SumTypes, WrapTypes, Zenon
  <2>3. [cpu EXCEPT !.sp = Above(2),
                    !.pc = Wrap16(Join(Pull(2), Pull(1)) + 1)] \in CPU
    BY <1>1, <1>4, <2>2, AssignSeveralTypes, RegisterTypes, Zenon
  <2> QED
    BY <1>1, <1>12, <2>3, FinishType, Zenon DEF rts_implied
<1> QED
  BY <1>5, <1>6, <1>7, <1>8, <1>9, <1>10, <1>11, <1>12, Zenon DEF StackMoves

-----------------------------------------------------------------------------
LEMMA InitType == Init => TypeOK
<1>1. NewCpu \in CPU
  BY SMT DEF NewCpu, CPU, Byte, Word
<1>2. "ok" \in Outcomes /\ 0 \in Nat
  BY SMT DEF Outcomes
<1> QED
  BY <1>1, <1>2, ImagesAssumption, Zenon DEF Init, TypeOK

LEMMA ResetType == ASSUME TypeOK, Reset PROVE TypeOK'
<1> DEFINE start == [cpu EXCEPT !.sp = \hFF, !.flags = {"InterruptDisable"},
                                !.pc = Read16(mem, ResetVector)]
<1>1. resets' \in Nat
  BY SMT DEF TypeOK, Reset
<1>2. start \in CPU
  <2>1. \hFF \in Byte /\ {"InterruptDisable"} \in SUBSET Flags
    BY SMT DEF Byte, Flags
  <2>2. cpu \in CPU /\ Read16(mem, ResetVector) \in Word
    BY ReadTypes, Zenon DEF TypeOK
  <2>3. \A b \in Byte :
          [cpu EXCEPT !.sp = b, !.flags = {"InterruptDisable"},
                      !.pc = Read16(mem, ResetVector)] \in CPU
    BY <2>1, <2>2, AssignSeveralTypes, Zenon
  <2> QED
    BY <2>1, <2>3
<1>3. \/ Ends("ok", start, mem)
      \/ Ends(ReadOutcome(ResetVector, 2), cpu, mem)
  BY Zenon DEF Reset
<1>4. "ok" \in Outcomes
  BY Zenon DEF Outcomes
<1> QED
  BY <1>1, <1>2, <1>3, <1>4, OutcomesOfReads, Zenon DEF Ends, TypeOK

LEMMA NextType == ASSUME TypeOK, [Next]_vars PROVE TypeOK'
<1>1. CASE Reset
  BY <1>1, ResetType
<1>2. CASE FetchFails
  <2>1. FetchOutcome \in Outcomes
    BY OutcomesOfReads, Zenon DEF FetchOutcome, ByteOutcome, Outcomes
  <2> QED
    BY <1>2, <2>1, ReturnType, Zenon DEF FetchFails, TypeOK
<1>3. CASE nop_immediate
  BY <1>3, FinishType, Zenon DEF nop_immediate, TypeOK
<1>4. CASE ins_nullfunc
  BY <1>4, ReturnType, Zenon DEF ins_nullfunc, TypeOK, Outcomes
<1>5. CASE LoadsAndStores \/ Arithmetic \/ Branches \/ FlagChanges \/ StackMoves
  BY <1>5, LoadsAndStoresType, ArithmeticType, BranchesType, FlagChangesType,
     StackMovesType, Zenon
<1>6. CASE Panicked \/ UNCHANGED vars
  BY <1>6, Zenon DEF Panicked, vars, TypeOK
<1> QED
  BY <1>1, <1>2, <1>3, <1>4, <1>5, <1>6, Zenon DEF Next, Execute

(* Every register keeps its width and every byte its cell, in every build, *)
(* for every cartridge and any sequence of resets and instructions.        *)
THEOREM TypesHold == Spec => []TypeOK
<1>1. Init => TypeOK
  BY InitType
<1>2. TypeOK /\ [Next]_vars => TypeOK'
  BY NextType
<1> QED
  BY <1>1, <1>2, PTL DEF Spec

-----------------------------------------------------------------------------
(* Failed calls *)

LEMMA FinishIsNoError == ASSUME NEW c, NEW m, Finish(c, m) PROVE outcome' # "err"
  BY Zenon DEF Finish, Return, Ends

LEMMA ReadingErrors ==
  ASSUME NEW addr, NEW c, Reading(addr, c), outcome' = "err"
  PROVE  cpu' = cpu /\ mem' = mem
  BY FinishIsNoError, Zenon DEF Reading, Return, Ends

LEMMA StoringIsNoError ==
  ASSUME NEW addr, NEW v, NEW c, Storing(addr, v, c) PROVE outcome' # "err"
<1>1. WriteOutcome(addr) # "err"
  BY OutcomeTypes, Zenon
<1> QED
  BY <1>1, FinishIsNoError, Zenon DEF Storing, Return, Ends

LEMMA BrkVectorIsNoError == ReadOutcome(BrkVector, 2) # "err"
<1>1. BrkVector \in Int /\ \h4020 <= BrkVector /\ BrkVector + 2 <= \h10000
  BY SMT DEF BrkVector
<1> QED
  BY <1>1, CartridgeWords, SMT

LEMMA ErrorsChangeNothing ==
  ASSUME [Next]_vars, outcome' = "err", outcome' # outcome \/ ~ UNCHANGED vars
  PROVE  cpu' = cpu /\ mem' = mem
<1>1. CASE Reset
  BY <1>1, Zenon DEF Reset, Ends
<1>2. CASE FetchFails
  BY <1>2, Zenon DEF FetchFails, Return, Ends
<1>3. CASE LoadsAndStores
  BY <1>3, FinishIsNoError, ReadingErrors, StoringIsNoError, Zenon DEF LoadsAndStores,
     lda_immediate, ldx_immediate, lda_absolute, lda_absolute_ix, sta_absolute,
     sta_absolute_ix, txs_implied, txa_implied
<1>4. CASE Arithmetic
  <2>1. CASE inx_implied \/ dex_implied \/ asl_accumulator
    BY <2>1, FinishIsNoError, Zenon DEF inx_implied, dex_implied, SetX, asl_accumulator
  <2>2. CASE cmp_absolute_ix \/ bit_zero_page \/ bit_absolute
    BY <2>2, ReadingErrors, Zenon DEF cmp_absolute_ix, bit_zero_page, bit_absolute, Bit
  <2>3. CASE ora_zero_page \/ ora_absolute \/ ora_zp_x \/ ora_absolute_y \/ ora_indirect_y
    BY <2>3, ReadingErrors, Zenon DEF ora_zero_page, ora_absolute, ora_zp_x,
       ora_absolute_y, ora_indirect_y, Ora
  <2>4. CASE ora_indirect_x
    BY <2>4, ReadingErrors, Zenon DEF ora_indirect_x, Ora, Return, Ends
  <2>5. CASE asl_zero_page \/ asl_absolute
    BY <2>5, StoringIsNoError, Zenon DEF asl_zero_page, asl_absolute, Asl, Return, Ends
  <2> QED
    BY <1>4, <2>1, <2>2, <2>3, <2>4, <2>5, Zenon DEF Arithmetic
<1>5. CASE Branches
  BY <1>5, FinishIsNoError, Zenon DEF Branches, bpl_relative, bmi_relative,
     bne_relative, beq_relative, Return, Ends
<1>6. CASE FlagChanges
  BY <1>6, FinishIsNoError, Zenon DEF FlagChanges, sei_implied, cld_implied,
     clc_implied, sec_implied
<1>7. CASE StackMoves
  BY <1>7, FinishIsNoError, BrkVectorIsNoError, Zenon DEF StackMoves, php_implied,
     plp_implied, pha_implied, pla_implied, brk_implied, jsr_absolute, rti_implied,
     rts_implied, Return, Ends
<1>8. CASE nop_immediate \/ ins_nullfunc
  BY <1>8, FinishIsNoError, Zenon DEF nop_immediate, ins_nullfunc, Return, Ends
<1>9. CASE Panicked \/ UNCHANGED vars
  BY <1>9, Zenon DEF Panicked, vars
<1> QED
  BY <1>1, <1>2, <1>3, <1>4, <1>5, <1>6, <1>7, <1>8, <1>9, Zenon DEF Next, Execute

(* An Err from reset or execute leaves every register and every byte as it *)
(* was, for all programs: each handler reads before it changes anything,   *)
(* writes never return Err, and BRK's read of its vector cannot.           *)
THEOREM FailureIsAtomic == Spec => FailedCallChangesNothing
<1>1. [Next]_vars => [outcome' = "err" => UNCHANGED <<cpu, mem>>]_vars
  BY ErrorsChangeNothing, Zenon
<1> QED
  BY <1>1, PTL DEF Spec, FailedCallChangesNothing

-----------------------------------------------------------------------------
(* The handler of opcode 0x01 reads two neighbouring u16 values in the zero *)
(* page, so one of the two reads panics.                                   *)
LEMMA IndirectXPanics == ASSUME TypeOK, ora_indirect_x PROVE outcome' = "panic"
<1> DEFINE zp == Wrap8(Byte1 + cpu.x)
           next == Wrap8(zp + 1)
<1>1. Byte1 + cpu.x \in Int
  BY FetchedTypes, RegisterTypes, SumTypes, Zenon DEF TypeOK
<1>2. zp \in Byte
  BY <1>1, WrapTypes, Zenon
<1>3. ReadOutcome(zp, 2) = "panic" \/ ReadOutcome(next, 2) = "panic"
  BY <1>2, NeighbouringWordsMisaligned, Zenon
<1>4. next \in Byte
  BY <1>2, SumTypes, WrapTypes, Zenon
<1>5. ReadOutcome(zp, 2) \in {"ok", "panic"}
  BY <1>2, ZeroPageWords, OutcomeTypes, Zenon
<1> QED
  BY <1>3, <1>5, Zenon DEF ora_indirect_x, Return, Ends

(* Opcode 0x01 panics whatever the build, the index and the operand are *)
THEOREM IndirectXAlwaysPanics == Spec => OraIndirectXNeverCompletes
<1>1. TypeOK /\ [Next]_vars => [~ (ora_indirect_x /\ outcome' # "panic")]_vars
  BY IndirectXPanics, Zenon
<1> QED
  BY <1>1, TypesHold, PTL DEF Spec, OraIndirectXNeverCompletes
=============================================================================
