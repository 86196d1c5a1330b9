----------------------------- MODULE MemoryApi -----------------------------
(***************************************************************************)
(* The operations of struct Memory as a state machine: write::<u8>,        *)
(* write::<u16>, write_slice, read::<u8> and read::<u16>, in any order and *)
(* at any address, with every way they fail.                               *)
(***************************************************************************)
EXTENDS Memory, Sequences, FiniteSetsExt

CONSTANTS
  Addresses,  \* addresses the calls are made with
  Values,     \* values given to write, each with its size of one or two bytes
  Slices      \* byte slices given to write_slice

ASSUME ApiAssumption ==
  /\ Addresses \subseteq Word
  /\ \A v \in Values : v.size \in {1, 2} /\ v.value \in (IF v.size = 1 THEN Byte ELSE Word)
  /\ Slices \subseteq Seq(Byte)

VARIABLES
  mem,   \* the four arrays
  reply, \* answer to the last call; for a read its value, and the bytes it
         \* found in address order
  last   \* the last call made: its operation, address and data

apiVars == <<mem, reply, last>>

Running == reply.answer # "panic"

Init == /\ mem = ZeroMemory
        /\ reply = [answer |-> "ok", bytes |-> <<>>, value |-> 0]
        /\ last = [op |-> "new", addr |-> 0, data |-> <<>>]

(* A value is written high byte first, and read in the byte order of the    *)
(* machine, which is taken to be little-endian.                             *)
(* Faulty variant: the byte order of the machine in both.                   *)
to_le_bytes(v) == IF v.size = 1 THEN <<v.value>>
                  ELSE <<LowByte(v.value), HighByte(v.value)>>
to_be_bytes(v) == IF v.size = 1 THEN <<v.value>>
                  ELSE <<HighByte(v.value), LowByte(v.value)>>
from_bytes(b)  == IF Len(b) = 2 THEN Join(b[2], b[1]) ELSE b[1]

Returns(op, addr, data, answer, bytes) ==
  /\ reply' = [answer |-> answer, bytes |-> bytes,
               value |-> IF bytes = <<>> THEN 0 ELSE from_bytes(bytes)]
  /\ last' = [op |-> op, addr |-> addr, data |-> data]

(* Bounds check shared by the three operations *)
OutOfBounds(addr, size) == addr + size > \h10000

(* The loop over the bytes has stored the first n of them.  Data that       *)
(* reaches from RAM into its mirror meets a cell twice: the later byte stays *)
StoredFirst(addr, data, n) ==
  LET stored == {i \in 1 .. n : Mapped(addr + i - 1)}
      at(c)  == {i \in stored : Cell(addr + i - 1) = c}
  IN [c \in DOMAIN mem \cup {Cell(addr + i - 1) : i \in stored} |->
        IF at(c) = {} THEN mem[c] ELSE data[Max(at(c))]]

(* Bytes the loop gets through before one whose index i fails the test *)
Before(data, fails(_)) ==
  LET failing == {i \in 1 .. Len(data) : fails(i)}
  IN IF failing = {} THEN Len(data) ELSE Min(failing) - 1

(* Faulty variant: the bounds are checked byte by byte *)
write_unchecked(addr, v) ==
  LET bytes == to_be_bytes(v)
      fits  == {i \in 1 .. v.size : addr + i - 1 \in Word}
  IN /\ mem' = StoredFirst(addr, bytes, Cardinality(fits))
     /\ Returns("write", addr, v,
          IF OutOfBounds(addr, v.size) THEN "err" ELSE "ok", <<>>)

(* dst += 1 behind a byte, the last one too *)
DstOverflows(dst) == OverflowChecks /\ dst = \h10000

(* write: holes are skipped, a mirror address from 0x1000 on panics, and in *)
(* a debug build so does advancing dst past 0xFFFF                          *)
write(addr, v) ==
  LET bytes     == to_be_bytes(v)
      panics(i) == BeyondRam(addr + i - 1)
      n         == Before(bytes, panics)
  IN IF OutOfBounds(addr, v.size)
       THEN UNCHANGED mem /\ Returns("write", addr, v, "err", <<>>)
       ELSE /\ mem' = StoredFirst(addr, bytes, n)
            /\ Returns("write", addr, v,
                 IF n < v.size \/ DstOverflows(addr + n) THEN "panic" ELSE "ok", <<>>)

(* write_slice: a hole ends it with an error, behind the bytes before it.   *)
(* Faulty variant: the bytes behind the hole are stored before it is told.  *)
write_slice_past_holes(addr, slice) ==
  IF OutOfBounds(addr, Len(slice))
    THEN UNCHANGED mem /\ Returns("write_slice", addr, slice, "err", <<>>)
    ELSE /\ mem' = StoredFirst(addr, slice, Len(slice))
         /\ Returns("write_slice", addr, slice,
              IF \E i \in 1 .. Len(slice) : Hole(addr + i - 1) THEN "err" ELSE "ok",
              <<>>)
write_slice(addr, slice) ==
  LET stops(i) == ~ Mapped(addr + i - 1)
      n == Before(slice, stops)
  IN IF OutOfBounds(addr, Len(slice))
       THEN UNCHANGED mem /\ Returns("write_slice", addr, slice, "err", <<>>)
       ELSE /\ mem' = StoredFirst(addr, slice, n)
            /\ Returns("write_slice", addr, slice,
                 IF n = Len(slice) THEN "ok"
                 ELSE IF Hole(addr + n) THEN "err" ELSE "panic", <<>>)

(* read: the bytes of the array slice, reinterpreted in place *)
read(addr, size) ==
  /\ UNCHANGED mem
  /\ Returns("read", addr, <<>>, ReadOutcome(addr, size),
       IF ReadOutcome(addr, size) = "ok"
         THEN [i \in 1 .. size |-> Fetch(mem, Cell(addr) + i - 1)] ELSE <<>>)

Write      == Running /\ \E addr \in Addresses, v \in Values : write(addr, v)
WriteSlice == Running /\ \E addr \in Addresses, s \in Slices : write_slice(addr, s)
Read       == Running /\ \E addr \in Addresses, size \in {1, 2} : read(addr, size)
Panicked   == ~ Running /\ UNCHANGED apiVars

Next == Write \/ WriteSlice \/ Read \/ Panicked

Spec == Init /\ [][Next]_apiVars

-----------------------------------------------------------------------------
ApiTypeOK == IsMemory(mem) /\ reply.answer \in {"ok", "err", "panic"}

(* Memory implements the byte store: an Ok from write has stored all its   *)
(* bytes at the locations the mirror folds their addresses onto, a failed  *)
(* call has stored a prefix at most, and a read answered Ok gives exactly  *)
(* the bytes stored last, through whichever alias.                         *)
Promised == INSTANCE ByteStore
              WITH store <- mem, Data <- {to_be_bytes(v) : v \in Values} \cup Slices,
                   reply <- [answer |-> reply.answer, bytes |-> reply.bytes]
ImplementsByteStore == Promised!Spec

(* Err from write, unlike Err from write_slice, means nothing was stored:  *)
(* the only error is the bounds check before the first byte.               *)
WriteErrorStoresNothing ==
  [][last'.op = "write" /\ reply'.answer = "err" => UNCHANGED mem]_apiVars

(* A u16 written and read back at the same address comes back with its two *)
(* bytes exchanged, wherever both calls succeed.                           *)
WordWritten  == last.op = "write" /\ last.data.size = 2 /\ reply.answer = "ok"
ReadBackNext == /\ last'.op = "read" /\ last'.addr = last.addr
                /\ reply'.answer = "ok" /\ Len(reply'.bytes) = 2
WordsComeBackSwapped ==
  [][WordWritten /\ ReadBackNext =>
       reply'.value = Join(LowByte(last.data.value), HighByte(last.data.value))]_apiVars

(* The comment on the ram array: 0x0000 - 0x07FF is mirrored up to 0x1FFF,  *)
(* so writing a byte anywhere below 0x2000 works.                          *)
RamIsMirroredTo1FFF ==
  last.op = "write" /\ last.data.size = 1 /\ last.addr < \h2000
    => reply.answer # "panic"
=============================================================================
