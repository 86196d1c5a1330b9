----------------------------- MODULE MCConsole -----------------------------
(***************************************************************************)
(* Cartridges for Console whose programs wait: for the PPU, by reading its *)
(* status register until the sign bit is set, and for time to pass, by     *)
(* counting X down.  Each then reads an address that is mapped to nothing, *)
(* so that run returns an error and the console can be used again.         *)
(***************************************************************************)
EXTENDS Console, Sequences

Status  == \h2002
Failing == <<\hAD, \h00, \h30>>

Programs ==
  [load_poll |-> <<\hAD, \h02, \h20, \h10, \hFB>> \o Failing,
   bit_poll  |-> <<\h2C, \h02, \h20, \h10, \hFB>> \o Failing,
   count     |-> <<\hA2, \h03, \hCA, \hD0, \hFD, \hA2, \h02, \hCA, \hD0, \hFD>>
                   \o Failing,
   refused   |-> <<\hA9, \h05, \h8D, \h02, \h20>> \o Failing,
   raise     |-> <<\hA9, \h80, \h8D, \h02, \h20>> \o Failing,
   blank     |-> <<>>,
   headless  |-> <<>>]

(* The program at 0xC000, where the reset vector points *)
Laid(code) ==
  [c \in {\hC000 + i - 1 : i \in 1 .. Len(code)} \cup {\hFFFD} |->
     IF c = \hFFFD THEN \hC0 ELSE code[c - \hC000 + 1]]

ProgramPrg == [p \in DOMAIN Programs |->
                 IF p \in {"blank", "headless"} THEN ZeroMemory ELSE Laid(Programs[p])]

(* One unit of PRG data each, but none in "headless"; too much CHR data in  *)
(* "refused"                                                               *)
Content(p) == [valid    |-> TRUE,
               prg_size |-> IF p = "headless" THEN 0 ELSE 1,
               chr_size |-> IF p = "refused" THEN 2 ELSE 1,
               length   |-> 40000]
ProgramDisk  == [p \in DOMAIN Programs |-> Content(p)]
ProgramPaths == DOMAIN Programs \cup {"missing"}

(* A new memory, with the zero page spelled out, where the stack will grow *)
NewMemory == {[c \in 0 .. 255 |-> 0]}

-----------------------------------------------------------------------------
(* Waiting comes to an end: a countdown of X does, the second as well as   *)
(* the first, and so does LDA $2002 with BPL as long as the status is 0.   *)
(* It takes two things to be so: update_register sets Negative for a zero, *)
(* and the flags a countdown tests keep what earlier ones left.            *)
WaitsEnd ==
  (call = "run" /\ prg \in {"count", "load_poll"}
      /\ (prg = "load_poll" => Read8(mem, Status) = 0))
    ~> call = "idle"

(* The same wait with BIT never ends, since BIT takes Negative from the    *)
(* sign bit and nothing but the program changes the status register.       *)
BitPollNeverEnds ==
  [][call = "run" /\ prg = "bit_poll" /\ ~ SignBit(Read8(mem, Status))
       => call' = "run"]_consoleVars

(* Without PRG data the console runs BRK at address 1 until its stack, in  *)
(* the same page, has wrapped often enough to put another opcode there; a  *)
(* run of it therefore ends, in a panic.                                   *)
EmptyConsoleEnds == (call = "run" /\ prg = NoCartridge) ~> ~ Running
=============================================================================
