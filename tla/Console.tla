------------------------------ MODULE Console ------------------------------
(***************************************************************************)
(* A NES value and the program that uses it: NES::new, insert_rom, reset,  *)
(* execute, and the two loops run and next_frame, composed of the          *)
(* processor of Cpu and the loading of CartridgeFile.                      *)
(*                                                                         *)
(* There is one thread.  While run or next_frame loops, nothing else is    *)
(* called, and each turn of the loop is one execute.                       *)
(***************************************************************************)
EXTENDS Cpu, CartridgeFile

CONSTANTS
  Prg,      \* the PRG data of each file as the memory it is copied to
  MaxCalls  \* bound on the calls the using program makes

PrgArea == \hC000 .. \hFFFF

ASSUME ConsoleAssumption ==
  /\ \A image \in Images : \A c \in DOMAIN image : image[c] = 0
  /\ MaxCalls \in 0 .. MaxResets
  /\ \A p \in DOMAIN Disk : IsMemory(Prg[p]) /\ DOMAIN Prg[p] \subseteq PrgArea

VARIABLES
  call,        \* the loop the console is in, or "idle"
  cycles_left, \* struct NES
  prg,         \* path of the file whose PRG data was stored last
  calls        \* calls so far, counted only to bound them

consoleVars == <<vars, call, cycles_left, prg, calls>>

NoCartridge == "none"

CPU_TICK_COUNT == 1789773
CYCLES_PER_FRAME_NTSC == Wrap16(CPU_TICK_COUNT \div 60)

(* What execute returns.  Faulty variant: what most instructions take.      *)
ThreeCycles == 3
CyclesReturned == 0

(* NES::new *)
ConsoleInit == /\ Init /\ call = "idle" /\ cycles_left = 0
               /\ prg = NoCartridge /\ calls = 0

-----------------------------------------------------------------------------
(* The console is not in a loop, and the program makes another call *)
Called == Running /\ call = "idle" /\ calls < MaxCalls /\ calls' = calls + 1

(* Memory m after write_slice(0xC000, ..) of one unit of PRG data q *)
WithPrg(m, q) == [c \in (DOMAIN m \ PrgArea) \cup DOMAIN q |->
                    IF c \in PrgArea THEN q[c] ELSE m[c]]

(* NES::insert_rom.  The processor is left as it was. *)
insert_rom ==
  /\ Called
  /\ \E p \in Paths :
       /\ mem' = IF StoresPrg(p) THEN WithPrg(mem, Prg[p]) ELSE mem
       /\ prg' = IF StoresPrg(p) THEN p ELSE prg
       /\ outcome' = Answer(p)
  /\ UNCHANGED <<cpu, resets, call, cycles_left>>

reset   == Called /\ Reset /\ UNCHANGED <<call, cycles_left, prg>>
execute == Called /\ Execute /\ UNCHANGED <<call, cycles_left, prg>>

(* NES::run: an error of reset ends it before the loop *)
run ==
  /\ Called /\ Reset
  /\ call' = IF outcome' = "ok" THEN "run" ELSE "idle"
  /\ UNCHANGED <<cycles_left, prg>>

run_loop ==
  /\ call = "run" /\ Execute
  /\ call' = IF outcome' = "ok" THEN "run" ELSE "idle"
  /\ UNCHANGED <<cycles_left, prg, calls>>

(* NES::next_frame up to its loop, and the loop: it ends when execute       *)
(* fails, or when the cycles are used up                                   *)
next_frame ==
  /\ Called
  /\ cycles_left' = CYCLES_PER_FRAME_NTSC
  /\ call' = IF cycles_left' > 0 THEN "frame" ELSE "idle"
  /\ UNCHANGED <<vars, prg>>

frame_loop ==
  /\ call = "frame" /\ Execute
  /\ cycles_left' = IF outcome' = "ok" THEN Wrap16(cycles_left - CyclesReturned)
                    ELSE cycles_left
  /\ call' = IF outcome' = "ok" /\ cycles_left' > 0 THEN "frame" ELSE "idle"
  /\ UNCHANGED <<prg, calls>>

(* The program has ended, by a panic or after its last call *)
Ended == ~ Running /\ UNCHANGED consoleVars
Done  == call = "idle" /\ calls = MaxCalls /\ UNCHANGED consoleVars

ConsoleNext ==
  insert_rom \/ reset \/ execute \/ run \/ next_frame
    \/ run_loop \/ frame_loop \/ Ended \/ Done

(* The thread in a loop goes on.  Whether a call is made is up to the       *)
(* program.                                                                *)
Fairness == WF_consoleVars(run_loop) /\ WF_consoleVars(frame_loop)

ConsoleSpec == ConsoleInit /\ [][ConsoleNext]_consoleVars /\ Fairness
-----------------------------------------------------------------------------
ConsoleTypeOK ==
  /\ TypeOK
  /\ call \in {"idle", "run", "frame"} /\ cycles_left \in Word
  /\ prg \in Paths \cup {NoCartridge} /\ calls \in 0 .. MaxCalls

(* run and next_frame give control back only with an error: the frame that *)
(* next_frame counts down never comes to its end, however long it runs.    *)
LoopsEndOnlyInFailure ==
  [][call # "idle" /\ call' = "idle" => outcome' # "ok"]_consoleVars
=============================================================================
