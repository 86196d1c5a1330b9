----------------------------- MODULE CallStack -----------------------------
(***************************************************************************)
(* Calls and interrupts across the instructions of Cpu.  Two history       *)
(* variables record which JSR and BRK are still to be returned from and    *)
(* whether the program has kept to the usual stack discipline; they only   *)
(* observe Cpu and never restrict it.                                      *)
(*                                                                         *)
(* The stack shares the zero page with the program's data and wraps there, *)
(* so whether a return finds what its call pushed depends on every         *)
(* instruction between the two.                                            *)
(***************************************************************************)
EXTENDS Cpu, Sequences

VARIABLES
  frames,      \* calls and interrupts not yet returned from, outermost first
  disciplined  \* the program has treated the stack as a stack so far

callVars == <<vars, frames, disciplined>>

(* A frame: what pushed it, the address of that instruction, and sp and p  *)
(* as they were before it                                                  *)
Frame == [kind : {"jsr", "brk"}, at : Word, sp : Byte, p : Byte]
NewFrame(kind) == [kind |-> kind, at |-> cpu.pc, sp |-> cpu.sp, p |-> cpu.p]

FrameSize(f) == IF f.kind = "jsr" THEN 2 ELSE 3
Bottom(f)    == f.sp - FrameSize(f)

Top == frames[Len(frames)]
TopIs(kind) == frames # <<>> /\ Top.kind = kind /\ cpu.sp = Bottom(Top)

(* Lowest sp the stack may be popped to without entering the top frame *)
Floor == IF frames = <<>> THEN \hFF ELSE Bottom(Top)

(* Zero page cells in use by the stack *)
Live == cpu.sp + 1 .. \hFF

-----------------------------------------------------------------------------
(* The instruction about to run keeps the discipline: stores stay off the  *)
(* live stack, pushes do not wrap, pops take only what was pushed as data, *)
(* and a return is executed on a frame of its kind.                        *)
StoresOffStack ==
  CASE Handler(Opcode) \in {"sta_absolute", "asl_absolute"} -> Cell(Operand) \notin Live
    [] Handler(Opcode) = "sta_absolute_ix" -> Cell(Wrap16(Operand + cpu.x)) \notin Live
    [] Handler(Opcode) = "asl_zero_page"   -> Byte1 \notin Live
    [] OTHER -> TRUE

KeepsDiscipline ==
  /\ StoresOffStack
  /\ Handler(Opcode) # "txs_implied"
  /\ Handler(Opcode) \in {"pha_implied", "php_implied", "jsr_absolute", "brk_implied"}
       => cpu.sp >= 3
  /\ Handler(Opcode) \in {"pla_implied", "plp_implied"} => cpu.sp < Floor
  /\ Handler(Opcode) = "rts_implied" => TopIs("jsr")
  /\ Handler(Opcode) = "rti_implied" => TopIs("brk")

(* What one call of the emulator does to the frames; without discipline     *)
(* there is nothing to say about them                                      *)
Track ==
  LET keeps == disciplined /\ KeepsDiscipline
      opens(kind) == Append(frames, NewFrame(kind))
      closes(h, kind) == Handler(Opcode) = h /\ TopIs(kind)
  IN \/ resets' # resets /\ disciplined' = TRUE /\ frames' = <<>>
     \/ /\ resets' = resets
        /\ disciplined' = keeps
        /\ frames' = CASE ~ keeps -> <<>>
                       [] keeps /\ outcome' # "ok" -> frames
                       [] keeps /\ outcome' = "ok" ->
                            IF Handler(Opcode) = "jsr_absolute" THEN opens("jsr")
                            ELSE IF Handler(Opcode) = "brk_implied" THEN opens("brk")
                            ELSE IF closes("rts_implied", "jsr")
                                      \/ closes("rti_implied", "brk")
                              THEN SubSeq(frames, 1, Len(frames) - 1)
                            ELSE frames

CallInit == Init /\ frames = <<>> /\ disciplined = TRUE
CallNext == Next /\ Track
CallSpec == CallInit /\ [][CallNext]_callVars

-----------------------------------------------------------------------------
(* What JSR and BRK left on the stack for f *)
Holds(f) ==
  LET pushed == IF f.kind = "jsr" THEN Wrap16(f.at - 2) ELSE f.at
  IN /\ Fetch(mem, f.sp) = HighByte(pushed)
     /\ Fetch(mem, f.sp - 1) = LowByte(pushed)
     /\ f.kind = "brk" => Fetch(mem, f.sp - 2) = f.p

CallTypeOK == TypeOK /\ frames \in Seq(Frame) /\ disciplined \in BOOLEAN

(* As long as the program runs and keeps to the discipline, the pending    *)
(* frames lie one below the other, all of them above sp, and each still    *)
(* holds what its JSR or BRK pushed, although the stack shares its page    *)
(* with data.  (A return that panics when execute advances pc has popped   *)
(* its frame already.)                                                     *)
FramesIntact ==
  Running /\ disciplined =>
    /\ cpu.sp <= Floor
    /\ \A i \in 1 .. Len(frames) :
         /\ 0 <= Bottom(frames[i])
         /\ frames[i].sp <= IF i = 1 THEN \hFF ELSE Bottom(frames[i - 1])
         /\ Holds(frames[i])

(* Returning from a call lands on the JSR itself, so that a disciplined    *)
(* program calls the routine over and over: JSR pushes pc - 2, and the     *)
(* "+ 1" of RTS and the length of RTS make up for exactly those two.       *)
ReturnRepeatsTheCall ==
  [][disciplined /\ rts_implied /\ TopIs("jsr") /\ outcome' = "ok"
       => cpu'.pc = Top.at /\ cpu'.sp = Top.sp]_callVars

(* Returning from an interrupt resumes behind the BRK with sp and p as     *)
(* they were, and with the flags the handler left, not those before it.    *)
InterruptResumesBehindBrk ==
  [][disciplined /\ rti_implied /\ TopIs("brk") /\ outcome' = "ok"
       => /\ cpu'.pc = Wrap16(Top.at + 1) /\ cpu'.sp = Top.sp /\ cpu'.p = Top.p
          /\ cpu'.flags = cpu.flags]_callVars
=============================================================================
