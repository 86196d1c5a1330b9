-------------------------------- MODULE Cpu --------------------------------
(***************************************************************************)
(* The processor of nesse_lib as its callers see it: NES::reset and        *)
(* NES::execute (nes.rs), with one action per instruction handler          *)
(* (opcodes.rs).  An action is the whole of one execute() call: fetching   *)
(* the instruction, running the handler, and advancing pc afterwards.      *)
(*                                                                         *)
(* "outcome" is how the last call ended: it returned Ok or Err, or it      *)
(* panicked, which ends the program.                                       *)
(***************************************************************************)
EXTENDS Memory, OpcodeTable

CONSTANTS
  Images,    \* memories a cartridge can leave behind before the first call
  MaxResets  \* bound on the calls of reset in one behaviour

ASSUME ImagesAssumption == \A image \in Images : IsMemory(image)
ASSUME ResetsAssumption == MaxResets \in Nat

VARIABLES
  cpu,      \* struct CPU
  mem,      \* bus.memory
  outcome,  \* how the last call of reset or execute ended
  resets    \* calls of reset so far, counted only to bound them

vars == <<cpu, mem, outcome, resets>>

Flags == {"Negative", "Overflow", "Reserved", "Break", "Decimal",
          "InterruptDisable", "Zero", "Carry"}

(* The flags are a set of their own; the byte p is a second, separate copy *)
(* of the status that only PHP, PLP, BRK and RTI move around.              *)
CPU == [a : Byte, x : Byte, y : Byte, p : Byte, pc : Word, sp : Byte,
        flags : SUBSET Flags]

Outcomes == {"ok", "err", "panic"}

(* CPU::new *)
NewCpu == [a |-> 0, x |-> 0, y |-> 0, p |-> 0, pc |-> \hFFFC, sp |-> \hFF,
           flags |-> {}]

Init == cpu = NewCpu /\ mem \in Images /\ outcome = "ok" /\ resets = 0

-----------------------------------------------------------------------------
(* The flag getters the branches use *)
negative(c) == "Negative" \in c.flags
zero(c)     == "Zero" \in c.flags

(* The flag setters.  Only two of them can clear what they set. *)
Insert(c, f) == [c EXCEPT !.flags = @ \cup {f}]
Remove(c, f) == [c EXCEPT !.flags = @ \ {f}]

set_negative(c, v) == IF v THEN Insert(c, "Negative") ELSE Remove(c, "Negative")
set_overflow(c, v) == IF v THEN Insert(c, "Overflow") ELSE c
set_decimal(c, v)  == IF v THEN Insert(c, "Decimal") ELSE c
set_interrupt_disable(c, v) ==
  IF v THEN Insert(c, "InterruptDisable") ELSE Remove(c, "InterruptDisable")

(* Faulty variant: clears the flag when the value is not zero *)
set_zero_both_ways(c, v) == IF v THEN Insert(c, "Zero") ELSE Remove(c, "Zero")
set_zero(c, v)  == IF v THEN Insert(c, "Zero") ELSE c
set_carry(c, v) == IF v THEN Insert(c, "Carry") ELSE c

(* update_register!, for a CPU c whose register has just become v: both     *)
(* flags are set from the comparison with zero.                             *)
(* Faulty variant: negative is the sign bit.                                *)
update_register_signed(c, v) == set_negative(set_zero(c, v = 0), SignBit(v))
update_register(c, v) == set_negative(set_zero(c, v = 0), v = 0)

(* The flag updates spelled out in ORA and ASL: negative is the sign bit *)
ResultFlags(c, v) == set_negative(set_zero(c, v = 0), SignBit(v))

-----------------------------------------------------------------------------
(* get_instruction_at: the opcode, then the operand bytes at "addr + i" *)
ByteOutcome(i) ==
  IF cpu.pc + i \notin Word /\ OverflowChecks THEN "panic"
  ELSE ReadOutcome(Wrap16(cpu.pc + i), 1)
ByteAt(i) == Read8(mem, Wrap16(cpu.pc + i))

Opcode == ByteAt(0)
Length == Size(Opcode)

FetchOutcome ==
  IF ByteOutcome(0) # "ok" THEN ByteOutcome(0)
  ELSE IF Length > 1 /\ ByteOutcome(1) # "ok" THEN ByteOutcome(1)
  ELSE IF Length > 2 THEN ByteOutcome(2)
  ELSE "ok"

(* byte1 and byte2 of execute, 0 where the instruction is too short *)
Byte1   == IF Length > 1 THEN ByteAt(1) ELSE 0
Byte2   == IF Length > 2 THEN ByteAt(2) ELSE 0
Operand == Join(Byte2, Byte1)

-----------------------------------------------------------------------------
(* How a call ends *)
Ends(o, c, m)   == outcome' = o /\ cpu' = c /\ mem' = m
Return(o, c, m) == Ends(o, c, m) /\ UNCHANGED resets

(* Ok from the handler, then "pc += len" on the pc the handler left: an     *)
(* overflow panics in a debug build and wraps in a release build            *)
FinishUnchecked(c, m) == Return("ok", [c EXCEPT !.pc = c.pc + Length], m)
Finish(c, m) ==
  IF c.pc + Length \notin Word /\ OverflowChecks
    THEN Return("panic", c, m)
    ELSE Return("ok", [c EXCEPT !.pc = Wrap16(c.pc + Length)], m)

(* A handler that reads a byte and only then changes the CPU to c.          *)
(* Faulty variant: pc has moved on before the read fails.                   *)
ReadingLate(addr, c) ==
  IF ReadOutcome(addr, 1) = "ok" THEN Finish(c, mem)
  ELSE Return(ReadOutcome(addr, 1), [cpu EXCEPT !.pc = Wrap16(@ + Length)], mem)
Reading(addr, c) ==
  IF ReadOutcome(addr, 1) = "ok" THEN Finish(c, mem)
  ELSE Return(ReadOutcome(addr, 1), cpu, mem)

(* A handler that writes a byte and only then changes the CPU to c *)
Storing(addr, v, c) ==
  IF WriteOutcome(addr) = "ok" THEN Finish(c, Written(mem, addr, v))
  ELSE Return(WriteOutcome(addr), cpu, Written(mem, addr, v))

(* The stack is addressed by "sp as u16", so it lives in the zero page.     *)
(* Faulty variants: sp does not wrap; sp stops at 0; a 6502's stack page.   *)
BelowUnwrapped(n) == cpu.sp - n
BelowSaturating(n) == IF n > cpu.sp THEN 0 ELSE cpu.sp - n
Below(n) == Wrap8(cpu.sp - n)
Above(n) == Wrap8(cpu.sp + n)
PushPageOne(m, sp, v) == Written(m, \h100 + sp, v)
Push(m, sp, v) == Written(m, sp, v)
Pull(n)        == Read8(mem, Above(n))

(* PC with the branch displacement added *)
Branched == [cpu EXCEPT !.pc = Wrap16(@ + SignExtend(Byte1))]

Running == outcome # "panic"

(* execute has fetched an instruction whose handler is h *)
Executes(h) == Running /\ FetchOutcome = "ok" /\ Handler(Opcode) = h

-----------------------------------------------------------------------------
(* Where the cartridge keeps the address to start at, and BRK's *)
ResetVector == \hFFFC
BrkVector   == \hFFFE

(* NES::reset *)
Reset ==
  /\ Running /\ resets < MaxResets
  /\ resets' = resets + 1
  /\ IF ReadOutcome(ResetVector, 2) = "ok"
       THEN Ends("ok", [cpu EXCEPT !.sp = \hFF, !.flags = {"InterruptDisable"},
                                   !.pc = Read16(mem, ResetVector)], mem)
       ELSE Ends(ReadOutcome(ResetVector, 2), cpu, mem)

(* execute when get_instruction does not return an instruction.             *)
(* Faulty variant: the unreadable byte is skipped.                          *)
FetchFailsSkipping ==
  /\ Running /\ FetchOutcome # "ok"
  /\ Return(FetchOutcome, [cpu EXCEPT !.pc = Wrap16(@ + 1)], mem)
FetchFails == Running /\ FetchOutcome # "ok" /\ Return(FetchOutcome, cpu, mem)

(* brk_implied: the pushes come first, then the flags, then the vector.     *)
(* Faulty variants: the two flags are added; only the second "&=" is there. *)
BrkFlagsMasked == cpu.flags \cap {"InterruptDisable"}
BrkFlagsSet == cpu.flags \cup {"Break", "InterruptDisable"}
BrkFlags    == (cpu.flags \cap {"Break"}) \cap {"InterruptDisable"}
brk_implied ==
  /\ Executes("brk_implied")
  /\ LET pushed == Push(Push(Push(mem, cpu.sp, HighByte(cpu.pc)),
                             Below(1), LowByte(cpu.pc)), Below(2), cpu.p)
         after  == [cpu EXCEPT !.sp = Below(3), !.flags = BrkFlags]
     IN IF ReadOutcome(BrkVector, 2) = "ok"
          THEN Finish([after EXCEPT !.pc = Read16(pushed, BrkVector)], pushed)
          ELSE Return(ReadOutcome(BrkVector, 2), after, pushed)

lda_immediate ==
  /\ Executes("lda_immediate")
  /\ Finish(update_register([cpu EXCEPT !.a = Byte1], Byte1), mem)

ldx_immediate ==
  /\ Executes("ldx_immediate")
  /\ Finish(update_register([cpu EXCEPT !.x = Byte1], Byte1), mem)

sta_absolute == Executes("sta_absolute") /\ Storing(Operand, cpu.a, cpu)

sta_absolute_ix ==
  Executes("sta_absolute_ix") /\ Storing(Wrap16(Operand + cpu.x), cpu.a, cpu)

lda_absolute ==
  /\ Executes("lda_absolute")
  /\ LET v == Read8(mem, Operand)
     IN Reading(Operand, update_register([cpu EXCEPT !.a = v], v))

(* The index is added to the value read, not to the address *)
IndexedValue == Wrap8(Read8(mem, Operand) + cpu.x)

lda_absolute_ix ==
  /\ Executes("lda_absolute_ix")
  /\ Reading(Operand,
       update_register([cpu EXCEPT !.a = IndexedValue], IndexedValue))

cmp_absolute_ix ==
  /\ Executes("cmp_absolute_ix")
  /\ LET compared == set_zero(set_carry(cpu, IndexedValue >= cpu.a),
                              IndexedValue = cpu.a)
     IN Reading(Operand,
          set_negative(compared, SignBit(Wrap8(IndexedValue - cpu.a))))

bpl_relative ==
  /\ Executes("bpl_relative")
  /\ Finish(IF negative(cpu) THEN cpu ELSE Branched, mem)

bmi_relative ==
  /\ Executes("bmi_relative")
  /\ Finish(IF negative(cpu) THEN Branched ELSE cpu, mem)

bne_relative ==
  /\ Executes("bne_relative")
  /\ Finish(IF zero(cpu) THEN cpu ELSE Branched, mem)

(* Unlike the other branches, an unsigned displacement and a checked "+" *)
beq_relative ==
  /\ Executes("beq_relative")
  /\ IF "Zero" \notin cpu.flags THEN Finish(cpu, mem)
     ELSE IF cpu.pc + Byte1 \notin Word /\ OverflowChecks
       THEN Return("panic", cpu, mem)
       ELSE Finish([cpu EXCEPT !.pc = Wrap16(@ + Byte1)], mem)

sei_implied ==
  Executes("sei_implied") /\ Finish(set_interrupt_disable(cpu, TRUE), mem)
cld_implied == Executes("cld_implied") /\ Finish(set_decimal(cpu, FALSE), mem)
clc_implied == Executes("clc_implied") /\ Finish(set_carry(cpu, FALSE), mem)
sec_implied == Executes("sec_implied") /\ Finish(set_carry(cpu, TRUE), mem)

txs_implied ==
  /\ Executes("txs_implied")
  /\ Finish(update_register([cpu EXCEPT !.sp = cpu.x], cpu.x), mem)

txa_implied ==
  /\ Executes("txa_implied")
  /\ Finish(update_register([cpu EXCEPT !.a = cpu.x], cpu.x), mem)

SetX(v) == Finish(update_register([cpu EXCEPT !.x = v], v), mem)
inx_implied == Executes("inx_implied") /\ SetX(Wrap8(cpu.x + 1))
dex_implied == Executes("dex_implied") /\ SetX(Wrap8(cpu.x - 1))

(* JSR pushes pc - 2 of its own address, and pc += 3 follows the jump.      *)
(* Faulty variant: the low byte is pushed first.                            *)
jsr_low_byte_first ==
  /\ Executes("jsr_absolute")
  /\ LET return_addr == Wrap16(cpu.pc - 2)
     IN Finish([cpu EXCEPT !.sp = Below(2), !.pc = Operand],
               Push(Push(mem, cpu.sp, LowByte(return_addr)),
                    Below(1), HighByte(return_addr)))
jsr_absolute ==
  /\ Executes("jsr_absolute")
  /\ LET return_addr == Wrap16(cpu.pc - 2)
     IN Finish([cpu EXCEPT !.sp = Below(2), !.pc = Operand],
               Push(Push(mem, cpu.sp, HighByte(return_addr)),
                    Below(1), LowByte(return_addr)))

(* Ordinary and undocumented NOPs *)
nop_immediate == Executes("nop_immediate") /\ Finish(cpu, mem)

(* The ORA family: a | byte at addr *)
Ora(addr) ==
  LET result == BitOr(cpu.a, Read8(mem, addr))
  IN Reading(addr, ResultFlags([cpu EXCEPT !.a = result], result))

ora_zero_page  == Executes("ora_zero_page") /\ Ora(Byte1)
ora_absolute   == Executes("ora_absolute") /\ Ora(Operand)
ora_zp_x       == Executes("ora_zp_x") /\ Ora(Wrap8(Byte1 + cpu.x))
ora_absolute_y == Executes("ora_absolute_y") /\ Ora(Wrap16(Operand + cpu.y))

(* The base address is the single byte at byte1 *)
ora_indirect_y ==
  Executes("ora_indirect_y") /\ Ora(Wrap16(Read8(mem, Byte1) + cpu.y))

(* Two u16 reads, at zp and at zp + 1; the address is (high << 8) | low.    *)
(* Faulty variant: the two bytes of the pointer are read as bytes.          *)
ora_indirect_x_of_bytes ==
  /\ Executes("ora_indirect_x")
  /\ LET zp == Wrap8(Byte1 + cpu.x)
     IN Ora(Join(Read8(mem, Wrap8(zp + 1)), Read8(mem, zp)))
ora_indirect_x ==
  /\ Executes("ora_indirect_x")
  /\ LET zp   == Wrap8(Byte1 + cpu.x)
         next == Wrap8(zp + 1)
         low  == Read16(mem, zp)
         high == Read16(mem, next)
     IN IF ReadOutcome(zp, 2) # "ok" THEN Return(ReadOutcome(zp, 2), cpu, mem)
        ELSE IF ReadOutcome(next, 2) # "ok"
          THEN Return(ReadOutcome(next, 2), cpu, mem)
        ELSE Ora(Join(BitOr(LowByte(high), HighByte(low)), LowByte(low)))

(* Written for opcode 0x1D, but in no entry of OPCODES: no action runs it   *)
ora_absolute_x == Ora(Wrap16(Operand + cpu.x))

(* The ASL family *)
ShiftFlags(c, v) == ResultFlags(set_carry(c, SignBit(v)), ShiftLeft(v))

Asl(addr) ==
  LET v == Read8(mem, addr)
  IN IF ReadOutcome(addr, 1) # "ok" THEN Return(ReadOutcome(addr, 1), cpu, mem)
     ELSE Storing(addr, ShiftLeft(v), ShiftFlags(cpu, v))

asl_zero_page == Executes("asl_zero_page") /\ Asl(Byte1)
asl_absolute  == Executes("asl_absolute") /\ Asl(Operand)
(* Written for opcode 0x1E, but in no entry of OPCODES: no action runs it   *)
asl_absolute_x == Asl(Wrap16(Operand + cpu.x))
asl_accumulator ==
  /\ Executes("asl_accumulator")
  /\ Finish(ShiftFlags([cpu EXCEPT !.a = ShiftLeft(cpu.a)], cpu.a), mem)

(* PHP and PLP move p; the flags take no part.                              *)
(* Faulty variant: PLP reloads the flags.                                   *)
php_implied ==
  /\ Executes("php_implied")
  /\ Finish([cpu EXCEPT !.sp = Below(1)], Push(mem, cpu.sp, cpu.p))
plp_with_flags ==
  /\ Executes("plp_implied")
  /\ Finish([cpu EXCEPT !.sp = Above(1), !.p = Pull(1), !.flags = {}], mem)
plp_implied ==
  /\ Executes("plp_implied")
  /\ Finish([cpu EXCEPT !.sp = Above(1), !.p = Pull(1)], mem)

pha_implied ==
  /\ Executes("pha_implied")
  /\ Finish([cpu EXCEPT !.sp = Below(1)], Push(mem, cpu.sp, cpu.a))
pla_implied ==
  /\ Executes("pla_implied")
  /\ Finish(update_register([cpu EXCEPT !.sp = Above(1), !.a = Pull(1)], Pull(1)),
            mem)

(* BIT: a & byte decides zero, bits 7 and 6 of the byte go to N and V.      *)
(* Faulty variant: negative is set for a zero, as by update_register.       *)
BitZeroIsNegative(addr) ==
  LET v == Read8(mem, addr)
  IN Reading(addr,
       set_overflow(set_negative(set_zero(cpu, AndIsZero(cpu.a, v)), v = 0),
                    HasBit(v, 64)))
Bit(addr) ==
  LET v == Read8(mem, addr)
  IN Reading(addr,
       set_overflow(set_negative(set_zero(cpu, AndIsZero(cpu.a, v)),
                                 HasBit(v, 128)), HasBit(v, 64)))

bit_zero_page == Executes("bit_zero_page") /\ Bit(Byte1)
bit_absolute  == Executes("bit_absolute") /\ Bit(Operand)

(* Faulty variants: RTI takes the high byte of pc first, RTS does not add 1 *)
rti_high_byte_first ==
  /\ Executes("rti_implied")
  /\ Finish([cpu EXCEPT !.sp = Above(3), !.p = Pull(1),
                        !.pc = Join(Pull(2), Pull(3))], mem)
rti_implied ==
  /\ Executes("rti_implied")
  /\ Finish([cpu EXCEPT !.sp = Above(3), !.p = Pull(1),
                        !.pc = Join(Pull(3), Pull(2))], mem)

rts_as_pulled ==
  /\ Executes("rts_implied")
  /\ Finish([cpu EXCEPT !.sp = Above(2), !.pc = Join(Pull(2), Pull(1))], mem)
rts_implied ==
  /\ Executes("rts_implied")
  /\ Finish([cpu EXCEPT !.sp = Above(2),
                        !.pc = Wrap16(Join(Pull(2), Pull(1)) + 1)], mem)

ins_nullfunc == Executes("ins_nullfunc") /\ Return("panic", cpu, mem)

(* A panic has ended the program *)
Panicked == ~ Running /\ UNCHANGED vars

-----------------------------------------------------------------------------
LoadsAndStores ==
  \/ lda_immediate \/ ldx_immediate \/ lda_absolute \/ lda_absolute_ix
  \/ sta_absolute \/ sta_absolute_ix \/ txs_implied \/ txa_implied
Arithmetic ==
  \/ inx_implied \/ dex_implied \/ cmp_absolute_ix
  \/ ora_zero_page \/ ora_absolute \/ ora_zp_x \/ ora_absolute_y
  \/ ora_indirect_y \/ ora_indirect_x
  \/ asl_zero_page \/ asl_absolute \/ asl_accumulator
  \/ bit_zero_page \/ bit_absolute
Branches == bpl_relative \/ bmi_relative \/ bne_relative \/ beq_relative
FlagChanges == sei_implied \/ cld_implied \/ clc_implied \/ sec_implied
StackMoves ==
  \/ php_implied \/ plp_implied \/ pha_implied \/ pla_implied
  \/ brk_implied \/ jsr_absolute \/ rti_implied \/ rts_implied

(* NES::execute *)
Execute ==
  \/ FetchFails \/ LoadsAndStores \/ Arithmetic \/ Branches \/ FlagChanges
  \/ StackMoves \/ nop_immediate \/ ins_nullfunc

Next == Reset \/ Execute \/ Panicked

Spec == Init /\ [][Next]_vars

-----------------------------------------------------------------------------
(* Types: every register keeps its width, and only cells that exist are    *)
(* ever written.                                                           *)
TypeOK == cpu \in CPU /\ IsMemory(mem) /\ outcome \in Outcomes /\ resets \in Nat

(* A call that returns Err has changed nothing: reset and execute fail     *)
(* before the first register or byte is touched, so the error leaves no    *)
(* half-executed instruction behind.                                       *)
FailedCallChangesNothing == [][outcome' = "err" => UNCHANGED <<cpu, mem>>]_vars

(* Executing again after an Err cannot get past it: the same fetch or read *)
(* fails again, and only a reset leads anywhere else.                      *)
RetryFailsAgain == [][outcome = "err" /\ ~ Reset => outcome' = "err"]_vars

(* Of all flags only Negative is ever cleared alone.  The others, once set, *)
(* outlive every instruction, CLC and BIT included, until BRK wipes all    *)
(* flags, the InterruptDisable it is about to need with them, or a reset   *)
(* leaves just that one.                                                   *)
FlagsStayUntilBrk ==
  [][\/ cpu.flags \ {"Negative"} \subseteq cpu'.flags
     \/ brk_implied /\ cpu'.flags = {}
     \/ Reset /\ cpu'.flags = {"InterruptDisable"}]_vars

(* No sequence of calls sets Break, Decimal or Reserved, although BRK and  *)
(* the setters name the first two.                                         *)
UnusedFlagsStayClear == cpu.flags \cap {"Break", "Decimal", "Reserved"} = {}

(* The two copies of the status register never meet: no call that changes  *)
(* p changes the flags, whichever of PLP, RTI, BRK or the setters it runs. *)
StatusCopiesNeverMeet == [][cpu'.p # cpu.p => cpu'.flags = cpu.flags]_vars

(* Memory changes only where the instruction aims: a push changes the      *)
(* cells at sp and below it, wrapping inside the zero page, and any other  *)
(* changed cell is the one the operand of STA or ASL selects.              *)
BytesPushed(h) == CASE h \in {"php_implied", "pha_implied"} -> 1
                    [] h = "jsr_absolute" -> 2
                    [] h = "brk_implied"  -> 3
                    [] OTHER -> 0
StoresLandWhereAimed ==
  [][\A c \in DOMAIN mem' : Fetch(mem', c) # Fetch(mem, c) =>
       \/ c \in {Below(n) : n \in 0 .. BytesPushed(Handler(Opcode)) - 1}
       \/ Handler(Opcode) = "asl_zero_page" /\ c = Byte1
       \/ Handler(Opcode) \in {"sta_absolute", "asl_absolute"} /\ c = Cell(Operand)
       \/ Handler(Opcode) = "sta_absolute_ix"
            /\ c = Cell(Wrap16(Operand + cpu.x))]_vars

(* ORA (indirect,X) never completes: it reads two u16 values one address   *)
(* apart, and whichever way Memory is aligned one of them is misaligned.   *)
OraIndirectXNeverCompletes ==
  [][~ (ora_indirect_x /\ outcome' # "panic")]_vars

(* No handler runs on an operand that was never fetched.  The lengths come *)
(* from another table than the handlers, and execute passes 0 for a byte   *)
(* the instruction is too short to have; yet whichever instruction is next, *)
(* it is exactly as long as a handler that uses its operand needs.         *)
OperandBytes(h) ==
  CASE h \in {"lda_immediate", "ldx_immediate", "bpl_relative", "bmi_relative",
              "bne_relative", "beq_relative", "ora_zero_page", "ora_zp_x",
              "ora_indirect_x", "ora_indirect_y", "asl_zero_page",
              "bit_zero_page"} -> 1
    [] h \in {"sta_absolute", "sta_absolute_ix", "lda_absolute", "lda_absolute_ix",
              "cmp_absolute_ix", "ora_absolute", "ora_absolute_y", "asl_absolute",
              "bit_absolute", "jsr_absolute"} -> 2
    [] OTHER -> 0
HandlersGetTheirOperands ==
  Running /\ FetchOutcome = "ok" /\ Handler(Opcode) \notin {"nop_immediate", "ins_nullfunc"}
    => Length = 1 + OperandBytes(Handler(Opcode))

-----------------------------------------------------------------------------
(* What comments in opcodes.rs say, and the code does not do *)

(* "Pull PC from stack, then PC++" is the doc of RTS.  The handler does so, *)
(* but execute advances pc over RTS once more.                             *)
RtsPullsPcThenIncrements ==
  [][rts_implied /\ outcome' = "ok"
       => cpu'.pc = Wrap16(Join(Pull(2), Pull(1)) + 1)]_vars

(* "CLC (Clear Carry)" is the doc of CLC, and "For BIT, bits 7 and 6 of    *)
(* `value` get copied into N and V flags".  Both call a setter for a flag  *)
(* to be cleared, and set_carry and set_overflow leave a set flag alone.   *)
ClcClearsCarry == clc_implied => "Carry" \notin cpu'.flags
BitCopiesBit6(addr) ==
  outcome' = "ok" => ("Overflow" \in cpu'.flags <=> HasBit(Read8(mem, addr), 64))
FlagsAreClearedAsDocumented ==
  [][/\ ClcClearsCarry
     /\ bit_zero_page => BitCopiesBit6(Byte1)
     /\ bit_absolute => BitCopiesBit6(Operand)]_vars

(* "ORA Absolute,X - opcode 0x1D" and "ASL Absolute,X - opcode 0x1E" head   *)
(* two handlers, but the table has the unimplemented one at both opcodes.  *)
Fetched(op) == Running /\ FetchOutcome = "ok" /\ Opcode = op
IndexedHandlersAreReached ==
  [][~ Reset => /\ Fetched(\h1D) => ora_absolute_x
                /\ Fetched(\h1E) => asl_absolute_x]_vars

(* "Reads from (byte1 + X) & 0xFF in zero page to get a 16-bit address,     *)
(* then ORs that value with A" is the doc of ORA (indirect,X).  Where the  *)
(* byte at that address can be read, the handler nevertheless panics.      *)
Pointee == LET zp == Wrap8(Byte1 + cpu.x)
           IN Join(Read8(mem, Wrap8(zp + 1)), Read8(mem, zp))
OraIndirectXOrsThePointee ==
  [][ora_indirect_x /\ ReadOutcome(Pointee, 1) = "ok"
       => cpu'.a = BitOr(cpu.a, Read8(mem, Pointee))]_vars
=============================================================================
