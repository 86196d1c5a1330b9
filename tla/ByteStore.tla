----------------------------- MODULE ByteStore -----------------------------
(***************************************************************************)
(* What the memory promises its callers, stated on locations: an address   *)
(* below 0x2000 names one of 0x800 RAM locations, every other address      *)
(* names itself.  A write that is answered Ok has stored every byte that   *)
(* has a location; a call that fails has stored some first bytes of its    *)
(* data and nothing else; a read changes nothing, and one that is answered *)
(* Ok gives the bytes stored last.                                         *)
(***************************************************************************)
EXTENDS Integers, Sequences, FiniteSetsExt

CONSTANTS
  Addresses,   \* addresses of calls
  Data         \* byte sequences written in one call

VARIABLES
  store,  \* partial function from locations to the byte stored last
  reply   \* answer to the last call, with the bytes of a read

Location(addr) == IF addr < \h2000 THEN addr % \h800 ELSE addr
HasLocation(addr) ==
  \/ addr < \h2008 \/ addr \in \h4000 .. \h4017 \/ addr \in \h4020 .. \hFFFF

Failures == {"err", "panic"}

(* Bytes i of data whose address has a location, among the first n, and     *)
(* those of them whose location is l                                       *)
Placed(addr, n) == {i \in 1 .. n : HasLocation(addr + i - 1)}
PlacedAt(l, addr, n) == {i \in Placed(addr, n) : Location(addr + i - 1) = l}

(* A location met twice keeps the later byte *)
StoredFirst(addr, data, n) ==
  [l \in DOMAIN store \cup {Location(addr + i - 1) : i \in Placed(addr, n)} |->
     IF PlacedAt(l, addr, n) = {} THEN store[l] ELSE data[Max(PlacedAt(l, addr, n))]]

Byte(addr) == IF Location(addr) \in DOMAIN store THEN store[Location(addr)] ELSE 0

Init == store = [l \in {} |-> 0] /\ reply = [answer |-> "ok", bytes |-> <<>>]

Answer(answer, bytes) == reply' = [answer |-> answer, bytes |-> bytes]

Write == \E addr \in Addresses, data \in Data :
           store' = StoredFirst(addr, data, Len(data)) /\ Answer("ok", <<>>)

FailedWrite == \E addr \in Addresses, data \in Data, failure \in Failures :
                 \E n \in 0 .. Len(data) :
                   store' = StoredFirst(addr, data, n) /\ Answer(failure, <<>>)

Read == \E addr \in Addresses, size \in 1 .. 2 :
          /\ \A i \in 0 .. size - 1 : HasLocation(addr + i)
          /\ Answer("ok", [i \in 1 .. size |-> Byte(addr + i - 1)])
          /\ UNCHANGED store

FailedRead == \E failure \in Failures : Answer(failure, <<>>) /\ UNCHANGED store

Next == Write \/ FailedWrite \/ Read \/ FailedRead

Spec == Init /\ [][Next]_<<store, reply>>
=============================================================================
