--------------------------- MODULE ConsoleProofs ---------------------------
(***************************************************************************)
(* Theorems about Console, for every program and every sequence of calls.  *)
(* What instructions do is taken from the theorems about Cpu: a turn of a  *)
(* loop is one of its steps.                                               *)
(***************************************************************************)
EXTENDS Console, CpuProofs

(* A frame in progress has all its cycles left, since execute returns 0 *)
FrameInv == call = "frame" => cycles_left = CYCLES_PER_FRAME_NTSC

IInv == ConsoleTypeOK /\ FrameInv

LEMMA FrameCycles ==
  /\ CYCLES_PER_FRAME_NTSC \in Word /\ CYCLES_PER_FRAME_NTSC > 0
  /\ Wrap16(CYCLES_PER_FRAME_NTSC - CyclesReturned) = CYCLES_PER_FRAME_NTSC
  BY SMT DEF CYCLES_PER_FRAME_NTSC, CPU_TICK_COUNT, Wrap16, Word, CyclesReturned

LEMMA CalledType ==
  ASSUME calls \in 0 .. MaxCalls, Called PROVE calls' \in 0 .. MaxCalls
  BY ConsoleAssumption, SMT DEF Called

(* A cartridge's PRG data takes the place of all memory from 0xC000 on *)
LEMMA LoadedType ==
  ASSUME NEW m, IsMemory(m), NEW q, IsMemory(q), DOMAIN q \subseteq PrgArea
  PROVE  IsMemory(WithPrg(m, q))
<1>1. \A c \in DOMAIN m : c \in Cells /\ m[c] \in Byte
  BY SMT DEF IsMemory
<1>2. \A c \in DOMAIN q : c \in Cells /\ q[c] \in Byte
  BY SMT DEF IsMemory
<1>3. \A c \in (DOMAIN m \ PrgArea) \cup DOMAIN q :
         c \in Cells /\ (IF c \in PrgArea THEN q[c] ELSE m[c]) \in Byte
  BY <1>1, <1>2, SMT
<1> QED
  BY <1>3, SMT DEF IsMemory, WithPrg

LEMMA CpuStepType ==
  ASSUME TypeOK, Reset \/ Execute PROVE TypeOK'
  BY NextType, Zenon DEF Next

LEMMA InsertType ==
  ASSUME ConsoleTypeOK, insert_rom PROVE TypeOK' /\ prg' \in Paths \cup {NoCartridge}
<1>1. PICK p \in Paths :
        /\ mem' = (IF StoresPrg(p) THEN WithPrg(mem, Prg[p]) ELSE mem)
        /\ prg' = (IF StoresPrg(p) THEN p ELSE prg)
        /\ outcome' = Answer(p)
  BY Zenon DEF insert_rom
<1>2. IsMemory(mem')
  <2>1. CASE StoresPrg(p)
    <3>1. p \in DOMAIN Disk
      BY <2>1, Zenon DEF StoresPrg, PrgFits, Accepted
    <3>2. IsMemory(Prg[p]) /\ DOMAIN Prg[p] \subseteq PrgArea
      BY <3>1, ConsoleAssumption, SMT
    <3>3. IsMemory(mem)
      BY Zenon DEF ConsoleTypeOK, TypeOK
    <3>4. mem' = WithPrg(mem, Prg[p])
      BY <1>1, <2>1, Zenon
    <3> QED
      BY <3>2, <3>3, <3>4, LoadedType, SMT
  <2>2. CASE ~ StoresPrg(p)
    BY <1>1, <2>2, Zenon DEF ConsoleTypeOK, TypeOK
  <2> QED
    BY <2>1, <2>2
<1>3. outcome' \in Outcomes
  BY <1>1, Zenon DEF Answer, Outcomes
<1> QED
  BY <1>1, <1>2, <1>3, Zenon DEF insert_rom, ConsoleTypeOK, TypeOK

LEMMA ConsoleInitInv == ConsoleInit => IInv
<1>1. ConsoleInit => TypeOK
  BY InitType, Zenon DEF ConsoleInit
<1> QED
  BY <1>1, ConsoleAssumption, SMT DEF ConsoleInit, IInv, ConsoleTypeOK, FrameInv, Word

LEMMA ConsoleNextInv == ASSUME IInv, [ConsoleNext]_consoleVars PROVE IInv'
<1> USE DEF IInv
<1>1. CASE insert_rom
  BY <1>1, InsertType, CalledType, SMT DEF insert_rom, Called, ConsoleTypeOK, FrameInv
<1>2. CASE reset \/ execute
  BY <1>2, CpuStepType, CalledType, SMT DEF reset, execute, Called, ConsoleTypeOK, FrameInv
<1>3. CASE run
  BY <1>3, CpuStepType, CalledType, SMT DEF run, Called, ConsoleTypeOK, FrameInv
<1>4. CASE run_loop
  BY <1>4, CpuStepType, SMT DEF run_loop, ConsoleTypeOK, FrameInv
<1>5. CASE next_frame
  <2>1. TypeOK'
    BY <1>5, Zenon DEF next_frame, vars, TypeOK, ConsoleTypeOK
  <2> QED
    BY <1>5, <2>1, FrameCycles, CalledType, SMT DEF next_frame, ConsoleTypeOK, FrameInv
<1>6. CASE frame_loop
  <2>1. cycles_left = CYCLES_PER_FRAME_NTSC
    BY <1>6, SMT DEF frame_loop, FrameInv
  <2>2. cycles_left' = CYCLES_PER_FRAME_NTSC
    BY <1>6, <2>1, FrameCycles, Zenon DEF frame_loop
  <2> QED
    BY <1>6, <2>2, FrameCycles, CpuStepType, SMT DEF frame_loop, ConsoleTypeOK, FrameInv
<1>7. CASE Ended \/ Done \/ UNCHANGED consoleVars
  BY <1>7, Zenon DEF Ended, Done, consoleVars, vars, ConsoleTypeOK, TypeOK, FrameInv
<1> QED
  BY <1>1, <1>2, <1>3, <1>4, <1>5, <1>6, <1>7, Zenon DEF ConsoleNext

LEMMA ConsoleInvHolds == ConsoleSpec => []IInv
<1>1. IInv /\ [ConsoleNext]_consoleVars => IInv'
  BY ConsoleNextInv, Zenon
<1> QED
  BY <1>1, ConsoleInitInv, PTL DEF ConsoleSpec

-----------------------------------------------------------------------------
(* A console that loads cartridges, runs, and is reset in any order keeps  *)
(* its types; in particular PRG data only ever lands in existing cells.    *)
THEOREM ConsoleTypes == ConsoleSpec => []ConsoleTypeOK
<1>1. IInv => ConsoleTypeOK
  BY Zenon DEF IInv
<1> QED
  BY <1>1, ConsoleInvHolds, PTL

(* No program makes run or next_frame return Ok: next_frame would have to  *)
(* use up cycles, and execute never reports any.                           *)
THEOREM LoopsOnlyFail == ConsoleSpec => LoopsEndOnlyInFailure
<1>1. ASSUME IInv, [ConsoleNext]_consoleVars, call # "idle", call' = "idle"
      PROVE  outcome' # "ok"
  <2>1. CASE run_loop
    BY <1>1, <2>1, Zenon DEF run_loop
  <2>2. CASE frame_loop
    <3>1. outcome' = "ok" => cycles_left' = CYCLES_PER_FRAME_NTSC
      BY <1>1, <2>2, FrameCycles, Zenon DEF frame_loop, IInv, FrameInv
    <3> QED
      BY <1>1, <2>2, <3>1, FrameCycles, Zenon DEF frame_loop
  <2> QED
    BY <1>1, <2>1, <2>2, SMT DEF ConsoleNext, insert_rom, reset, execute, run,
       next_frame, Called, Ended, Done, consoleVars
<1>2. IInv /\ [ConsoleNext]_consoleVars =>
        [call # "idle" /\ call' = "idle" => outcome' # "ok"]_consoleVars
  BY <1>1, Zenon
<1> QED
  BY <1>2, ConsoleInvHolds, PTL DEF ConsoleSpec, LoopsEndOnlyInFailure
=============================================================================
