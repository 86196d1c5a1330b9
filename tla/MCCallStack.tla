---------------------------- MODULE MCCallStack ----------------------------
(***************************************************************************)
(* Programs that call, interrupt and misuse the stack, for CallStack.      *)
(***************************************************************************)
EXTENDS CallStack, TLC

Bytes(first, s) == [c \in first .. first + Len(s) - 1 |-> s[c - first + 1]]

(* Main program at 0xC000, a routine JSR $C010 reaches at 0xC013, an         *)
(* interrupt handler at 0xC0F1, and the vectors                             *)
StackImage(main, routine, handler) ==
  Bytes(\hC000, main \o <<\hFF>>) @@ Bytes(\hC013, routine \o <<\hFF>>)
    @@ Bytes(\hC0F1, handler \o <<\hFF>>)
    @@ Bytes(\hFFFC, <<\h00, \hC0, \hF0, \hC0>>)

(* JSR, BRK, PHA, PLP, ASL $FE and STA $08FD (both on the live stack after  *)
(* a call), TXS                                                             *)
Steps == {<<\h20, \h10, \hC0>>, <<\h00>>, <<\h48>>, <<\h28>>, <<\h06, \hFE>>,
          <<\h8D, \hFD, \h08>>, <<\h9A>>}

(* Routines: return at once; balanced and unbalanced pushes; an interrupt    *)
(* inside; overwriting the return address                                   *)
Routines == {<<\h60>>, <<\h48, \h68, \h60>>, <<\h48, \h60>>, <<\h68, \h60>>,
             <<\h00, \h60>>, <<\h06, \hFE, \h60>>}

(* Unlimited recursion, of calls with a pushed byte and of interrupts *)
Recursion == {<<\h48, \h20, \h10, \hC0>>, <<\h08, \h00>>}

(* Handlers: return at once; balanced pushes; a call inside; an RTS; a pop   *)
Handlers == {<<\h40>>, <<\h48, \h28, \h40>>, <<\h20, \h10, \hC0>>, <<\h60>>,
             <<\h68, \h40>>}

StackImages ==
  {StackImage(<<\hA9, \h47>> \o first \o second, routine, handler) :
     first \in Steps, second \in Steps, routine \in Routines, handler \in Handlers}
    \cup {StackImage(<<\h20, \h10, \hC0>>, routine, <<\h20, \h10, \hC0>>) :
            routine \in Recursion}

(* Nothing is claimed once the discipline is lost: those states are checked *)
(* but not explored further                                                 *)
WhileDisciplined == disciplined
=============================================================================
