-------------------------- MODULE InstructionProofs --------------------------
(***************************************************************************)
(* What one execute() does, for every program: the handler it reaches has  *)
(* its operands, the bytes it stores lie where it aims, and an instruction *)
(* that failed once fails again.                                           *)
(***************************************************************************)
EXTENDS CpuProofs

-----------------------------------------------------------------------------
(* The two tables.  Handlers by the operand bytes they use, and the        *)
(* opcodes OPCODES has them at.                                            *)

Unchecked == {"nop_immediate", "ins_nullfunc"}

OneOperandByte ==
  {"lda_immediate", "ldx_immediate", "bpl_relative", "bmi_relative",
   "bne_relative", "beq_relative", "ora_zero_page", "ora_zp_x",
   "ora_indirect_x", "ora_indirect_y", "asl_zero_page", "bit_zero_page"}
TwoOperandBytes ==
  {"sta_absolute", "sta_absolute_ix", "lda_absolute", "lda_absolute_ix",
   "cmp_absolute_ix", "ora_absolute", "ora_absolute_y", "asl_absolute",
   "bit_absolute", "jsr_absolute"}

OpcodesOfTwo   == {\h01, \h05, \h06, \h10, \h11, \h15, \h24, \h30, \hA2, \hA9, \hD0, \hF0}
OpcodesOfThree == {\h0D, \h0E, \h19, \h20, \h2C, \h8D, \h9D, \hAD, \hBD, \hDD}
OpcodesOfOne   == {\h00, \h08, \h0A, \h18, \h28, \h38, \h40, \h48, \h60, \h68,
                   \h78, \h8A, \h9A, \hCA, \hD8, \hE8}

LEMMA LowOpcodes ==
  ASSUME NEW op
  PROVE  /\ LowHandler(op) \in OneOperandByte => op \in OpcodesOfTwo
         /\ LowHandler(op) \in TwoOperandBytes => op \in OpcodesOfThree
         /\ LowHandler(op) \notin OneOperandByte \cup TwoOperandBytes \cup Unchecked
              => op \in OpcodesOfOne
<1>1. LowHandler(op) \in OneOperandByte => op \in OpcodesOfTwo
  BY ZenonT(60) DEF LowHandler, OneOperandByte, OpcodesOfTwo
<1>2. LowHandler(op) \in TwoOperandBytes => op \in OpcodesOfThree
  BY ZenonT(60) DEF LowHandler, TwoOperandBytes, OpcodesOfThree
<1>3. LowHandler(op) \notin OneOperandByte \cup TwoOperandBytes \cup Unchecked
        => op \in OpcodesOfOne
  BY ZenonT(60) DEF LowHandler, OneOperandByte, TwoOperandBytes, Unchecked, OpcodesOfOne
<1> QED
  BY <1>1, <1>2, <1>3

LEMMA HighOpcodes ==
  ASSUME NEW op
  PROVE  /\ HighHandler(op) \in OneOperandByte => op \in OpcodesOfTwo
         /\ HighHandler(op) \in TwoOperandBytes => op \in OpcodesOfThree
         /\ HighHandler(op) \notin OneOperandByte \cup TwoOperandBytes \cup Unchecked
              => op \in OpcodesOfOne
<1>1. ASSUME op \notin OpcodesOfTwo PROVE HighHandler(op) \notin OneOperandByte
  <2>1. op \notin {\hA2, \hA9, \hD0, \hF0}
    BY <1>1, Zenon DEF OpcodesOfTwo
  <2>2. HighHandler(op) \in {"txa_implied", "sta_absolute", "txs_implied",
          "sta_absolute_ix", "lda_absolute", "lda_absolute_ix", "dex_implied",
          "cld_implied", "cmp_absolute_ix", "inx_implied", "nop_immediate",
          "ins_nullfunc"}
    BY <2>1, ZenonT(60) DEF HighHandler
  <2> QED
    BY <2>2, Zenon DEF OneOperandByte
<1>2. HighHandler(op) \in TwoOperandBytes => op \in OpcodesOfThree
  BY ZenonT(60) DEF HighHandler, TwoOperandBytes, OpcodesOfThree
<1>3. HighHandler(op) \notin OneOperandByte \cup TwoOperandBytes \cup Unchecked
        => op \in OpcodesOfOne
  BY ZenonT(60) DEF HighHandler, OneOperandByte, TwoOperandBytes, Unchecked, OpcodesOfOne
<1> QED
  BY <1>1, <1>2, <1>3, Zenon

(* What MNEMONICS gives for the length of those opcodes *)
LEMMA Sizes ==
  /\ \A op \in OpcodesOfOne : Size(op) = 1
  /\ \A op \in OpcodesOfTwo : Size(op) = 2
  /\ \A op \in OpcodesOfThree : Size(op) = 3
<1>1. \A op \in OpcodesOfOne : Size(op) = 1
  BY SMTT(30) DEF OpcodesOfOne, Size, LowTwoByte, LowThreeByte, HighTwoByte,
     HighThreeByte, InColumn
<1>2. \A op \in OpcodesOfTwo : Size(op) = 2
  BY SMTT(30) DEF OpcodesOfTwo, Size, LowTwoByte, LowThreeByte, HighTwoByte,
     HighThreeByte, InColumn
<1>3. \A op \in OpcodesOfThree : Size(op) = 3
  BY SMTT(30) DEF OpcodesOfThree, Size, LowTwoByte, LowThreeByte, HighTwoByte,
     HighThreeByte, InColumn
<1> QED
  BY <1>1, <1>2, <1>3

(* The tables agree at every opcode whose handler is checked *)
LEMMA TablesAgree ==
  ASSUME NEW op, Handler(op) \notin Unchecked
  PROVE  Size(op) = 1 + OperandBytes(Handler(op))
<1> DEFINE h == Handler(op)
<1>1. OperandBytes(h) = IF h \in OneOperandByte THEN 1
                        ELSE IF h \in TwoOperandBytes THEN 2 ELSE 0
  BY Zenon DEF OperandBytes, OneOperandByte, TwoOperandBytes
<1>2. /\ h \in OneOperandByte => Size(op) = 2
      /\ h \in TwoOperandBytes => Size(op) = 3
      /\ h \notin OneOperandByte \cup TwoOperandBytes => Size(op) = 1
  BY LowOpcodes, HighOpcodes, Sizes, Zenon DEF Handler
<1>3. 1 + 1 = 2 /\ 1 + 2 = 3 /\ 1 + 0 = 1
  BY SMT
<1> QED
  BY <1>1, <1>2, <1>3, Zenon

(* Whatever program runs, and wherever it jumps, no handler but a NOP runs  *)
(* on an operand that execute did not fetch                                *)
THEOREM OperandsAreFetched == Spec => []HandlersGetTheirOperands
<1>1. TypeOK => HandlersGetTheirOperands
  BY TablesAgree, Zenon DEF HandlersGetTheirOperands, Length, Unchecked
<1> QED
  BY <1>1, TypesHold, PTL

-----------------------------------------------------------------------------
(* Where bytes are stored *)

LEMMA FinishStores == ASSUME NEW c, NEW m, Finish(c, m) PROVE mem' = m
  BY Zenon DEF Finish, Return, Ends

LEMMA ReadingStores == ASSUME NEW addr, NEW c, Reading(addr, c) PROVE mem' = mem
  BY FinishStores, Zenon DEF Reading, Return, Ends

LEMMA StoringStores ==
  ASSUME NEW addr, NEW v, NEW c, Storing(addr, v, c)
  PROVE  mem' = Written(mem, addr, v)
  BY FinishStores, Zenon DEF Storing, Return, Ends

LEMMA WrittenCell ==
  ASSUME NEW m, IsMemory(m), NEW addr, NEW v, NEW c,
         Fetch(Written(m, addr, v), c) # Fetch(m, c)
  PROVE  c = Cell(addr)
<1>1. Fetch(Store(m, Cell(addr), v), c) # Fetch(m, c)
  BY Zenon DEF Written
<1> QED
  BY <1>1, StoreCells, SMT

(* In the zero page every address is a cell of its own *)
LEMMA ZeroPageCell == ASSUME NEW b \in Byte PROVE Cell(b) = b /\ Mapped(b) /\ b \in Cells
<1>1. b \in Int /\ 0 <= b /\ b <= 255
  BY SMT DEF Byte
<1>2. b \notin Mirror /\ ~ Hole(b)
  BY <1>1, Regions, SMT DEF Hole
<1>3. b \in Cells
  BY <1>1, SMT DEF Cells, Ram, RamSize
<1> QED
  BY <1>2, <1>3, CellCases, Zenon DEF Mapped, BeyondRam

LEMMA PushedCell ==
  ASSUME NEW m, IsMemory(m), NEW sp \in Byte, NEW v, NEW c,
         Fetch(Push(m, sp, v), c) # Fetch(m, c)
  PROVE  c = sp
<1>1. c = Cell(sp)
  BY WrittenCell, SMT DEF Push
<1> QED
  BY <1>1, ZeroPageCell, Zenon

(* The step of StoresLandWhereAimed, also for cells not stored to before or *)
(* after it                                                                *)
Aimed(c) ==
  \/ c \in {Below(n) : n \in 0 .. BytesPushed(Handler(Opcode)) - 1}
  \/ Handler(Opcode) = "asl_zero_page" /\ c = Byte1
  \/ Handler(Opcode) \in {"sta_absolute", "asl_absolute"} /\ c = Cell(Operand)
  \/ Handler(Opcode) = "sta_absolute_ix" /\ c = Cell(Wrap16(Operand + cpu.x))
StoresLand == \A c : Fetch(mem', c) # Fetch(mem, c) => Aimed(c)

LEMMA PushesAim ==
  ASSUME TypeOK, NEW k \in {1, 2, 3}, BytesPushed(Handler(Opcode)) = k, NEW n \in {0, 1, 2}, n < k
  PROVE  Aimed(Below(n)) /\ (n = 0 => Below(n) = cpu.sp)
<1>1. n \in 0 .. k - 1
  BY SMT
<1>2. cpu.sp \in Byte
  BY RegisterTypes, Zenon DEF TypeOK
<1>3. n = 0 => Wrap8(cpu.sp - n) = cpu.sp
  BY <1>2, SMT DEF Wrap8, Byte
<1> QED
  BY <1>1, <1>3, Zenon DEF Aimed, Below

LEMMA StoringLands ==
  ASSUME TypeOK, NEW addr, NEW v, NEW c, Storing(addr, v, c), Aimed(Cell(addr))
  PROVE  StoresLand
<1>1. IsMemory(mem) /\ mem' = Written(mem, addr, v)
  BY StoringStores, Zenon DEF TypeOK
<1>2. ASSUME NEW d, Fetch(mem', d) # Fetch(mem, d) PROVE d = Cell(addr)
  BY <1>1, <1>2, WrittenCell, SMT
<1> QED
  BY <1>2, Zenon DEF StoresLand

LEMMA AslLands ==
  ASSUME TypeOK, NEW addr, Asl(addr), Aimed(Cell(addr)) PROVE StoresLand
  BY StoringLands, Zenon DEF Asl, Return, Ends, StoresLand

LEMMA LoadsAndStoresLand == ASSUME TypeOK, LoadsAndStores PROVE StoresLand
<1>1. CASE sta_absolute
  <2>1. Aimed(Cell(Operand))
    BY <1>1, Zenon DEF sta_absolute, Executes, Aimed
  <2> QED
    BY <1>1, <2>1, StoringLands, Zenon DEF sta_absolute
<1>2. CASE sta_absolute_ix
  <2>1. Aimed(Cell(Wrap16(Operand + cpu.x)))
    BY <1>2, Zenon DEF sta_absolute_ix, Executes, Aimed
  <2> QED
    BY <1>2, <2>1, StoringLands, Zenon DEF sta_absolute_ix
<1>3. CASE lda_immediate \/ ldx_immediate \/ lda_absolute \/ lda_absolute_ix
             \/ txs_implied \/ txa_implied
  BY <1>3, FinishStores, ReadingStores, Zenon DEF lda_immediate, ldx_immediate,
     lda_absolute, lda_absolute_ix, txs_implied, txa_implied, StoresLand
<1> QED
  BY <1>1, <1>2, <1>3, Zenon DEF LoadsAndStores

LEMMA ArithmeticLands == ASSUME TypeOK, Arithmetic PROVE StoresLand
<1>1. CASE asl_zero_page
  <2>1. Cell(Byte1) = Byte1
    BY FetchedTypes, ZeroPageCell, Zenon
  <2>2. Aimed(Cell(Byte1))
    BY <1>1, <2>1, Zenon DEF asl_zero_page, Executes, Aimed
  <2> QED
    BY <1>1, <2>2, AslLands, Zenon DEF asl_zero_page
<1>2. CASE asl_absolute
  <2>1. Aimed(Cell(Operand))
    BY <1>2, Zenon DEF asl_absolute, Executes, Aimed
  <2> QED
    BY <1>2, <2>1, AslLands, Zenon DEF asl_absolute
<1>3. CASE inx_implied \/ dex_implied \/ asl_accumulator
  BY <1>3, FinishStores, Zenon DEF inx_implied, dex_implied, SetX, asl_accumulator,
     StoresLand
<1>4. CASE cmp_absolute_ix \/ bit_zero_page \/ bit_absolute
  BY <1>4, ReadingStores, Zenon DEF cmp_absolute_ix, bit_zero_page, bit_absolute, Bit,
     StoresLand
<1>5. CASE ora_zero_page \/ ora_absolute \/ ora_zp_x \/ ora_absolute_y
             \/ ora_indirect_y \/ ora_indirect_x
  <2>1. \A addr : Ora(addr) => mem' = mem
    BY ReadingStores, Zenon DEF Ora
  <2> QED
    BY <1>5, <2>1, Zenon DEF ora_zero_page, ora_absolute, ora_zp_x, ora_absolute_y,
       ora_indirect_y, ora_indirect_x, Return, Ends, StoresLand
<1> QED
  BY <1>1, <1>2, <1>3, <1>4, <1>5, Zenon DEF Arithmetic

LEMMA StackMovesLand == ASSUME TypeOK, StackMoves PROVE StoresLand
<1>1. cpu.sp \in Byte /\ Below(1) \in Byte /\ Below(2) \in Byte
  <2>1. 1 \in Int /\ 2 \in Int
    BY SMT
  <2> QED
    BY <2>1, StackTypes, RegisterTypes, Zenon DEF TypeOK
<1>2. 0 \in {0, 1, 2} /\ 0 < 1 /\ 0 < 2 /\ 0 < 3 /\ 1 < 2 /\ 1 < 3 /\ 2 < 3
  BY SMT
<1>3. CASE php_implied \/ pha_implied
  <2>1. BytesPushed(Handler(Opcode)) = 1
    BY <1>3, Zenon DEF php_implied, pha_implied, Executes, BytesPushed
  <2>2. Aimed(cpu.sp)
    BY <1>2, <2>1, PushesAim, Zenon
  <2>3. PICK v : mem' = Push(mem, cpu.sp, v)
    BY <1>3, FinishStores, Zenon DEF php_implied, pha_implied
  <2>4. ASSUME NEW c, Fetch(mem', c) # Fetch(mem, c) PROVE c = cpu.sp
    BY <1>1, <2>3, <2>4, PushedCell, SMT DEF TypeOK
  <2> QED
    BY <2>2, <2>4, Zenon DEF StoresLand
<1>4. CASE jsr_absolute
  <2>1. BytesPushed(Handler(Opcode)) = 2
    BY <1>4, Zenon DEF jsr_absolute, Executes, BytesPushed
  <2>2. Aimed(cpu.sp) /\ Aimed(Below(1))
    BY <1>2, <2>1, PushesAim, Zenon
  <2>3. PICK v \in Byte, w \in Byte : mem' = Push(Push(mem, cpu.sp, v), Below(1), w)
    <3>1. Wrap16(cpu.pc - 2) \in Word
      BY RegisterTypes, SumTypes, WrapTypes, Zenon DEF TypeOK
    <3> QED
      BY <1>4, <3>1, HalvesAreBytes, FinishStores, Zenon DEF jsr_absolute
  <2>4. IsMemory(mem) /\ IsMemory(Push(mem, cpu.sp, v))
    BY <1>1, ByteIsInt, WrittenType, Zenon DEF TypeOK, Push
  <2>5. ASSUME NEW c, Fetch(mem', c) # Fetch(mem, c) PROVE c \in {cpu.sp, Below(1)}
    BY <1>1, <2>3, <2>4, <2>5, PushedCell, SMT
  <2> QED
    BY <2>2, <2>5, Zenon DEF StoresLand
<1>5. CASE brk_implied
  <2>1. BytesPushed(Handler(Opcode)) = 3
    BY <1>5, Zenon DEF brk_implied, Executes, BytesPushed
  <2>2. Aimed(cpu.sp) /\ Aimed(Below(1)) /\ Aimed(Below(2))
    BY <1>2, <2>1, PushesAim, Zenon
  <2>3. PICK v \in Byte, w \in Byte, z \in Byte :
          mem' = Push(Push(Push(mem, cpu.sp, v), Below(1), w), Below(2), z)
    <3>1. cpu.pc \in Word /\ cpu.p \in Byte
      BY RegisterTypes, Zenon DEF TypeOK
    <3> QED
      BY <1>5, <3>1, HalvesAreBytes, FinishStores, Zenon DEF brk_implied, Return, Ends
  <2>4. /\ IsMemory(mem) /\ IsMemory(Push(mem, cpu.sp, v))
        /\ IsMemory(Push(Push(mem, cpu.sp, v), Below(1), w))
    BY <1>1, ByteIsInt, WrittenType, Zenon DEF TypeOK, Push
  <2>5. ASSUME NEW c, Fetch(mem', c) # Fetch(mem, c)
        PROVE  c \in {cpu.sp, Below(1), Below(2)}
    BY <1>1, <2>3, <2>4, <2>5, PushedCell, SMT
  <2> QED
    BY <2>2, <2>5, Zenon DEF StoresLand
<1>6. CASE plp_implied \/ pla_implied \/ rti_implied \/ rts_implied
  BY <1>6, FinishStores, Zenon DEF plp_implied, pla_implied, rti_implied, rts_implied,
     StoresLand
<1> QED
  BY <1>3, <1>4, <1>5, <1>6, Zenon DEF StackMoves

LEMMA StepStoresLand == ASSUME TypeOK, [Next]_vars PROVE StoresLand
<1>1. CASE Reset \/ FetchFails \/ ins_nullfunc \/ Panicked \/ UNCHANGED vars
  BY <1>1, Zenon DEF Reset, FetchFails, ins_nullfunc, Return, Ends, Panicked, vars,
     StoresLand
<1>2. CASE nop_immediate
  BY <1>2, FinishStores, Zenon DEF nop_immediate, StoresLand
<1>3. CASE Branches
  BY <1>3, FinishStores, Zenon DEF Branches, bpl_relative, bmi_relative, bne_relative,
     beq_relative, Return, Ends, StoresLand
<1>4. CASE FlagChanges
  BY <1>4, FinishStores, Zenon DEF FlagChanges, sei_implied, cld_implied, clc_implied,
     sec_implied, StoresLand
<1> QED
  BY <1>1, <1>2, <1>3, <1>4, LoadsAndStoresLand, ArithmeticLands, StackMovesLand, Zenon
     DEF Next, Execute

(* An instruction changes the bytes it pushes and the byte its operand      *)
(* aims at, and no other, in every state of every program                  *)
THEOREM StoresAreAimed == Spec => StoresLandWhereAimed
<1>1. TypeOK /\ [Next]_vars =>
        [\A c \in DOMAIN mem' : Fetch(mem', c) # Fetch(mem, c) =>
           \/ c \in {Below(n) : n \in 0 .. BytesPushed(Handler(Opcode)) - 1}
           \/ Handler(Opcode) = "asl_zero_page" /\ c = Byte1
           \/ Handler(Opcode) \in {"sta_absolute", "asl_absolute"} /\ c = Cell(Operand)
           \/ Handler(Opcode) = "sta_absolute_ix"
                /\ c = Cell(Wrap16(Operand + cpu.x))]_vars
  BY StepStoresLand, Zenon DEF StoresLand, Aimed
<1> QED
  BY <1>1, TypesHold, PTL DEF Spec, StoresLandWhereAimed

-----------------------------------------------------------------------------
(* Failing again.  An instruction fails with Err when a byte of it cannot   *)
(* be fetched, or when its handler loads from an address it cannot read;   *)
(* which of the two is decided by registers and memory alone.              *)

LoadsOperand == {"lda_absolute", "lda_absolute_ix", "cmp_absolute_ix",
                 "ora_absolute", "asl_absolute", "bit_absolute"}
LoadsByte1 == {"ora_zero_page", "asl_zero_page", "bit_zero_page"}

LoadAddress(h) == CASE h \in LoadsOperand    -> Operand
                    [] h \in LoadsByte1      -> Byte1
                    [] h = "ora_zp_x"        -> Wrap8(Byte1 + cpu.x)
                    [] h = "ora_absolute_y"  -> Wrap16(Operand + cpu.y)
                    [] h = "ora_indirect_y"  -> Wrap16(Read8(mem, Byte1) + cpu.y)
Loads == LoadsOperand \cup LoadsByte1
           \cup {"ora_zp_x", "ora_absolute_y", "ora_indirect_y"}

Stuck ==
  \/ FetchOutcome = "err"
  \/ /\ FetchOutcome = "ok" /\ Handler(Opcode) \in Loads
     /\ ReadOutcome(LoadAddress(Handler(Opcode)), 1) = "err"

ErrInv == outcome = "err" => Stuck

(* A load from addr that fails exactly as the read of addr does *)
LoadEnds(addr) == /\ ReadOutcome(addr, 1) = "err" => outcome' = "err"
                  /\ outcome' = "err" => ReadOutcome(addr, 1) = "err"

LEMMA ReadingEnds == ASSUME NEW addr, NEW c, Reading(addr, c) PROVE LoadEnds(addr)
  BY FinishIsNoError, Zenon DEF Reading, Return, Ends, LoadEnds

LEMMA OraEnds == ASSUME NEW addr, Ora(addr) PROVE LoadEnds(addr)
  BY ReadingEnds, Zenon DEF Ora

LEMMA AslEnds == ASSUME NEW addr, Asl(addr) PROVE LoadEnds(addr)
  BY StoringIsNoError, Zenon DEF Asl, Return, Ends, LoadEnds

LEMMA BitEnds == ASSUME NEW addr, Bit(addr) PROVE LoadEnds(addr)
  BY ReadingEnds, Zenon DEF Bit

(* Every handler either loads, and ends as its load does, or never fails *)
LEMMA HandlerEnds ==
  ASSUME TypeOK, Execute, FetchOutcome = "ok"
  PROVE  \/ /\ Handler(Opcode) \in Loads
            /\ LoadEnds(LoadAddress(Handler(Opcode)))
         \/ Handler(Opcode) \notin Loads /\ outcome' # "err"
<1> DEFINE h == Handler(Opcode)
           Loading(addr) == h \in Loads /\ LoadAddress(h) = addr /\ LoadEnds(addr)
           NoError == h \notin Loads /\ outcome' # "err"
<1>1. CASE LoadsAndStores
  <2>1. CASE lda_absolute \/ lda_absolute_ix
    <3>1. h \in LoadsOperand /\ LoadAddress(h) = Operand
      BY <2>1, Zenon DEF lda_absolute, lda_absolute_ix, Executes, LoadAddress,
         LoadsOperand, LoadsByte1
    <3> QED
      BY <2>1, <3>1, ReadingEnds, Zenon DEF lda_absolute, lda_absolute_ix, Loads
  <2>2. CASE sta_absolute \/ sta_absolute_ix
    BY <2>2, StoringIsNoError, Zenon DEF sta_absolute, sta_absolute_ix, Executes, Loads,
       LoadsOperand, LoadsByte1
  <2>3. CASE lda_immediate \/ ldx_immediate \/ txs_implied \/ txa_implied
    BY <2>3, FinishIsNoError, Zenon DEF lda_immediate, ldx_immediate, txs_implied,
       txa_implied, Executes, Loads, LoadsOperand, LoadsByte1
  <2> QED
    BY <1>1, <2>1, <2>2, <2>3, Zenon DEF LoadsAndStores
<1>2. CASE Arithmetic
  <2>1. CASE cmp_absolute_ix \/ ora_absolute \/ asl_absolute \/ bit_absolute
    <3>1. h \in LoadsOperand /\ LoadAddress(h) = Operand
      BY <2>1, Zenon DEF cmp_absolute_ix, ora_absolute, asl_absolute, bit_absolute,
         Executes, LoadAddress, LoadsOperand, LoadsByte1
    <3> QED
      BY <2>1, <3>1, ReadingEnds, OraEnds, AslEnds, BitEnds, Zenon DEF cmp_absolute_ix,
         ora_absolute, asl_absolute, bit_absolute, Loads
  <2>2. CASE ora_zero_page \/ asl_zero_page \/ bit_zero_page
    <3>1. h \in LoadsByte1 /\ LoadAddress(h) = Byte1
      BY <2>2, Zenon DEF ora_zero_page, asl_zero_page, bit_zero_page, Executes,
         LoadAddress, LoadsOperand, LoadsByte1
    <3> QED
      BY <2>2, <3>1, OraEnds, AslEnds, BitEnds, Zenon DEF ora_zero_page, asl_zero_page,
         bit_zero_page, Loads
  <2>3. CASE ora_zp_x
    <3>1. h \in Loads /\ LoadAddress(h) = Wrap8(Byte1 + cpu.x)
      BY <2>3, Zenon DEF ora_zp_x, Executes, LoadAddress, Loads, LoadsOperand, LoadsByte1
    <3> QED
      BY <2>3, <3>1, OraEnds, Zenon DEF ora_zp_x
  <2>4. CASE ora_absolute_y
    <3>1. h \in Loads /\ LoadAddress(h) = Wrap16(Operand + cpu.y)
      BY <2>4, Zenon DEF ora_absolute_y, Executes, LoadAddress, Loads, LoadsOperand,
         LoadsByte1
    <3> QED
      BY <2>4, <3>1, OraEnds, Zenon DEF ora_absolute_y
  <2>5. CASE ora_indirect_y
    <3>1. h \in Loads /\ LoadAddress(h) = Wrap16(Read8(mem, Byte1) + cpu.y)
      BY <2>5, Zenon DEF ora_indirect_y, Executes, LoadAddress, Loads, LoadsOperand,
         LoadsByte1
    <3> QED
      BY <2>5, <3>1, OraEnds, Zenon DEF ora_indirect_y
  <2>6. CASE ora_indirect_x
    BY <2>6, IndirectXPanics, Zenon DEF ora_indirect_x, Executes, Loads, LoadsOperand,
       LoadsByte1
  <2>7. CASE inx_implied \/ dex_implied \/ asl_accumulator
    BY <2>7, FinishIsNoError, Zenon DEF inx_implied, dex_implied, SetX, asl_accumulator,
       Executes, Loads, LoadsOperand, LoadsByte1
  <2> QED
    BY <1>2, <2>1, <2>2, <2>3, <2>4, <2>5, <2>6, <2>7, Zenon DEF Arithmetic
<1>3. CASE Branches
  BY <1>3, FinishIsNoError, Zenon DEF Branches, bpl_relative, bmi_relative,
     bne_relative, beq_relative, Return, Ends, Executes, Loads, LoadsOperand, LoadsByte1
<1>4. CASE FlagChanges
  BY <1>4, FinishIsNoError, Zenon DEF FlagChanges, sei_implied, cld_implied,
     clc_implied, sec_implied, Executes, Loads, LoadsOperand, LoadsByte1
<1>5. CASE StackMoves
  BY <1>5, FinishIsNoError, BrkVectorIsNoError, Zenon DEF StackMoves, php_implied,
     plp_implied, pha_implied, pla_implied, brk_implied, jsr_absolute, rti_implied,
     rts_implied, Return, Ends, Executes, Loads, LoadsOperand, LoadsByte1
<1>6. CASE nop_immediate \/ ins_nullfunc
  BY <1>6, FinishIsNoError, Zenon DEF nop_immediate, ins_nullfunc, Return, Ends,
     Executes, Loads, LoadsOperand, LoadsByte1
<1> QED
  BY <1>1, <1>2, <1>3, <1>4, <1>5, <1>6, Zenon DEF Execute, FetchFails

LEMMA ExecutesOnlyWhatIsFetched ==
  ASSUME Execute, FetchOutcome # "ok" PROVE outcome' = FetchOutcome
  BY Zenon DEF Execute, FetchFails, Return, Ends, LoadsAndStores, Arithmetic, Branches,
     FlagChanges, StackMoves, Executes, nop_immediate, ins_nullfunc, lda_immediate,
     ldx_immediate, lda_absolute, lda_absolute_ix, sta_absolute, sta_absolute_ix,
     txs_implied, txa_implied, inx_implied, dex_implied, cmp_absolute_ix, ora_zero_page,
     ora_absolute, ora_zp_x, ora_absolute_y, ora_indirect_y, ora_indirect_x,
     asl_zero_page, asl_absolute, asl_accumulator, bit_zero_page, bit_absolute,
     bpl_relative, bmi_relative, bne_relative, beq_relative, sei_implied, cld_implied,
     clc_implied, sec_implied, php_implied, plp_implied, pha_implied, pla_implied,
     brk_implied, jsr_absolute, rti_implied, rts_implied

(* execute fails with Err in exactly the stuck states *)
LEMMA StuckFails ==
  ASSUME TypeOK, Execute PROVE (Stuck => outcome' = "err") /\ (outcome' = "err" => Stuck)
  BY HandlerEnds, ExecutesOnlyWhatIsFetched, Zenon DEF Stuck, LoadEnds

LEMMA StuckStays == ASSUME Stuck, cpu' = cpu, mem' = mem PROVE Stuck'
<1>1. Opcode' = Opcode /\ Length' = Length
  BY SMT DEF Opcode, Length, ByteAt
<1>2. Byte1' = Byte1 /\ Byte2' = Byte2
  BY <1>1, SMT DEF Byte1, Byte2, ByteAt
<1>3. Operand' = Operand
  BY <1>2, SMT DEF Operand
<1>4. FetchOutcome' = FetchOutcome
  BY <1>1, SMT DEF FetchOutcome, ByteOutcome
<1>5. LoadAddress(Handler(Opcode))' = LoadAddress(Handler(Opcode))
  BY <1>1, <1>2, <1>3, Zenon DEF LoadAddress
<1> QED
  BY <1>1, <1>4, <1>5, Zenon DEF Stuck

LEMMA ResetIsNoError == ASSUME Reset PROVE outcome' # "err"
<1>1. ResetVector \in Int /\ \h4020 <= ResetVector /\ ResetVector + 2 <= \h10000
  BY SMT DEF ResetVector
<1>2. ReadOutcome(ResetVector, 2) # "err"
  BY <1>1, CartridgeWords, SMT
<1> QED
  BY <1>2, Zenon DEF Reset, Ends

LEMMA ErrInvStep == ASSUME TypeOK, ErrInv, [Next]_vars PROVE ErrInv'
<1>1. CASE Reset
  BY <1>1, ResetIsNoError, Zenon DEF ErrInv
<1>2. CASE Execute
  <2> SUFFICES ASSUME outcome' = "err" PROVE Stuck'
    BY Zenon DEF ErrInv
  <2>1. Stuck
    BY <1>2, StuckFails, Zenon
  <2>2. cpu' = cpu /\ mem' = mem
    BY <1>2, ErrorsChangeNothing, Zenon DEF Next, vars
  <2> QED
    BY <2>1, <2>2, StuckStays, Zenon
<1>3. CASE Panicked \/ UNCHANGED vars
  <2>1. cpu' = cpu /\ mem' = mem /\ outcome' = outcome
    BY <1>3, Zenon DEF Panicked, vars
  <2> QED
    BY <2>1, StuckStays, Zenon DEF ErrInv
<1> QED
  BY <1>1, <1>2, <1>3, Zenon DEF Next

(* After an Err, executing again ends in an Err again, as often as it is    *)
(* tried: the failed call has changed nothing that decides how it ends.    *)
THEOREM RetriesFail == Spec => RetryFailsAgain
<1>1. Init => ErrInv
  BY Zenon DEF Init, ErrInv
<1>2. TypeOK /\ ErrInv /\ [Next]_vars => ErrInv'
  BY ErrInvStep
<1>3. TypeOK /\ ErrInv /\ [Next]_vars =>
        [outcome = "err" /\ ~ Reset => outcome' = "err"]_vars
  BY StuckFails, Zenon DEF ErrInv, Next, Panicked, Running
<1> QED
  BY <1>1, <1>2, <1>3, TypesHold, PTL DEF Spec, RetryFailsAgain
=============================================================================
