------------------------------- MODULE MCCpu -------------------------------
(***************************************************************************)
(* Cartridges for checking Cpu with TLC: every program made of one         *)
(* preparing instruction and two arbitrary ones, together with a routine   *)
(* to call and an interrupt handler.                                       *)
(***************************************************************************)
EXTENDS Cpu, Sequences, TLC

(* Bytes laid out from an address on *)
Bytes(first, s) == [c \in first .. first + Len(s) - 1 |-> s[c - first + 1]]
Overlay(f, g) == [c \in DOMAIN f \cup DOMAIN g |->
                    IF c \in DOMAIN f THEN f[c] ELSE g[c]]

(* A cartridge: code at 0xC000 that runs into an unimplemented opcode, a    *)
(* routine at 0xC013 (JSR $C010 lands there), an interrupt handler at       *)
(* 0xC0F1 (where BRK lands), and the two vectors                            *)
Image(code, handler) ==
  Overlay(Bytes(\hC000, code \o <<\hFF>>),
  Overlay(Bytes(\hC013, <<\h60, \hFF>>),
  Overlay(Bytes(\hC0F1, handler), Bytes(\hFFFC, <<\h00, \hC0, \hF0, \hC0>>))))

-----------------------------------------------------------------------------
Prepare == {<<\hA9, \hC1>>, <<\hA2, \h00>>, <<\hA2, \hFF>>}

Registers == {<<\hA9, \h00>>, <<\hE8>>, <<\hCA>>,
              <<\h9A>>, <<\h8A>>, <<\h0A>>, <<\hEA>>, <<\h04>>, <<\h78>>,
              <<\hD8>>, <<\h18>>, <<\h38>>}

(* Stores and loads in RAM, its mirror, both kinds of hole, the part of the *)
(* mirror beyond the array, and the program itself                          *)
Accesses == {<<\h8D, \h10, \h00>>, <<\h8D, \h12, \h08>>, <<\h8D, \h00, \h30>>,
             <<\h8D, \h34, \h12>>, <<\h8D, \hFF, \hFF>>, <<\h9D, \hFF, \h07>>,
             <<\hAD, \h10, \h00>>, <<\hAD, \h18, \h40>>, <<\hBD, \h00, \hC0>>,
             <<\hDD, \h01, \hC0>>, <<\h05, \h10>>, <<\h0D, \h01, \hC0>>,
             <<\h15, \h11>>, <<\h19, \h08, \h20>>, <<\h11, \h10>>, <<\h01, \h10>>,
             <<\h06, \h10>>, <<\h0E, \h00, \hC0>>, <<\h24, \h10>>,
             <<\h2C, \h01, \hC0>>}

Jumps == {<<\h10, \h01>>, <<\h30, \h01>>, <<\hD0, \h01>>, <<\hF0, \h01>>,
          <<\h08>>, <<\h28>>, <<\h48>>, <<\h68>>, <<\h00>>, <<\h40>>, <<\h60>>,
          <<\h20, \h10, \hC0>>, <<\h20, \h00, \h30>>, <<\h20, \h00, \h10>>}

Instructions == Registers \cup Accesses \cup Jumps

ProgramImages ==
  {Image(first \o second \o third, <<\h68, \hFF>>) :
     first \in Prepare, second \in Instructions, third \in Instructions}
    \cup {Image(<<\hA2, n, \hCA, \h48, \hD0, \hFC>>, <<\h68, \hFF>>) : n \in 1 .. 5}

(* The two indexed instructions whose handlers no opcode reaches *)
IndexedImages ==
  {Image(<<\hA2, \h04, op, \h00, \hC0>>, <<\h68, \hFF>>) : op \in {\h1D, \h1E}}

-----------------------------------------------------------------------------
(* Programs at the end of the address space.  JSR $FFFB lands on the        *)
(* interrupt vector, whose two bytes are then executed: NOPs, a branch, an  *)
(* instruction whose operand lies past 0xFFFF, BEQ across the end.  Behind  *)
(* the end is zeroed RAM, hence BRK, which goes through the same two bytes. *)
EndOfSpace(code, last) ==
  LET landing == Join(last[2], last[1]) + 1
  IN Overlay(Bytes(\hFFFE, last),
     Overlay(IF landing \in Cartridge THEN landing :> \hFF ELSE ZeroMemory,
             Image(code, <<\h68, \hFF>>)))
Enter == {<<\hA9, \h30>>, <<\hA9, \h31>>}
LastBytes == {<<\hEA, \hEA>>, <<\hF0, \h7F>>, <<\h10, \h10>>, <<\hEA, \hA9>>,
              <<\hEA, \hAD>>, <<\h48, \h20>>, <<\hAD, \hFF>>}

EdgeImages ==
  {EndOfSpace(first \o second \o third \o <<\h20, \hFB, \hFF>>, last) :
     first \in Enter, second \in {<<\hE8>>, <<\h8D, \hFF, \hFF>>},
     third \in {<<\h48>>, <<\hA2, \h00>>}, last \in LastBytes}

DebugImages == ProgramImages \cup EdgeImages
=============================================================================
