-------------------------- MODULE MemoryApiProofs --------------------------
(***************************************************************************)
(* Theorems about MemoryApi, for every set of addresses, values and        *)
(* slices: its types, what its calls store and when, and the refinement of *)
(* ByteStore.                                                              *)
(***************************************************************************)
EXTENDS MemoryApi, MemoryProofs, SequenceTheorems, WellFoundedInduction

-----------------------------------------------------------------------------
(* How far the loop over the bytes gets: up to the first one that fails *)

(* The loop stops before the first index in "failing" *)
StopsAt(n, data, failing) ==
  /\ n \in 0 .. Len(data)
  /\ \A i \in 1 .. n : i \notin failing
  /\ n < Len(data) => n + 1 \in failing

LEMMA SmallestOf == ASSUME NEW S \in SUBSET Nat, S # {} PROVE \E i \in S : \A j \in S : i <= j
<1> DEFINE R == OpToRel(<, Nat)
<1>1. IsWellFoundedOn(R, Nat)
  BY NatLessThanWellFounded
<1>2. \A i, j \in Nat : j < i => <<j, i>> \in R
  BY SMT DEF OpToRel
<1> HIDE DEF R
<1>3. PICK i \in S : \A j \in S : ~ (<<j, i>> \in R)
  BY <1>1, WFMin, Zenon
<1>4. ASSUME NEW j \in S PROVE i <= j
  <2>1. i \in Nat /\ j \in Nat /\ ~ (j < i)
    BY <1>2, <1>3, Zenon
  <2> QED
    BY <2>1, SMT
<1> QED
  BY <1>4

LEMMA FirstOf ==
  ASSUME NEW k \in Nat, NEW S \in SUBSET (1 .. k), S # {}
  PROVE  Min(S) \in S /\ \A j \in S : Min(S) <= j
<1>1. S \subseteq Nat
  BY SMT
<1>2. \E i \in S : \A j \in S : i <= j
  BY <1>1, SmallestOf, Zenon
<1> QED
  BY <1>2, Zenon DEF Min

LEMMA LastOf ==
  ASSUME NEW k \in Nat, NEW S \in SUBSET (1 .. k), S # {}
  PROVE  Max(S) \in S /\ \A j \in S : j <= Max(S)
<1> DEFINE T == {k - i : i \in S}
<1>1. \A i \in S : k - i \in Nat
  BY SMT
<1>2. T \in SUBSET Nat /\ T # {}
  BY <1>1, Zenon
<1>3. PICK i \in S : \A t \in T : k - i <= t
  BY <1>2, SmallestOf, Zenon
<1>4. ASSUME NEW j \in S PROVE i >= j /\ (\A m \in S : m >= j <=> j <= m)
  <2>1. k - i <= k - j
    BY <1>3
  <2> QED
    BY <2>1, SMT
<1>5. Max(S) \in S /\ \A j \in S : Max(S) >= j
  BY <1>4, Zenon DEF Max
<1> QED
  BY <1>4, <1>5, Zenon

LEMMA LoopStops ==
  ASSUME NEW data \in Seq(Byte), NEW failing \in SUBSET (1 .. Len(data))
  PROVE  StopsAt(IF failing = {} THEN Len(data) ELSE Min(failing) - 1, data, failing)
<1> DEFINE first == Min(failing)
<1>1. Len(data) \in Nat
  BY LenProperties, Zenon
<1>2. CASE failing = {}
  BY <1>1, <1>2, SMT DEF StopsAt
<1>3. CASE failing # {}
  <2>1. first \in failing /\ \A j \in failing : first <= j
    BY <1>1, <1>3, FirstOf, Zenon
  <2> HIDE DEF first
  <2>2. StopsAt(first - 1, data, failing)
    BY <1>1, <2>1, SMT DEF StopsAt
  <2> QED
    BY <1>3, <2>2, Zenon DEF first
<1> QED
  BY <1>2, <1>3

(* The two loops: write stops where it panics, write_slice also at a hole *)
LEMMA WriteStops ==
  ASSUME NEW data \in Seq(Byte), NEW addr
  PROVE  LET panics(i) == BeyondRam(addr + i - 1)
         IN  StopsAt(Before(data, panics), data,
                     {i \in 1 .. Len(data) : BeyondRam(addr + i - 1)})
  BY LoopStops, Zenon DEF Before

LEMMA WriteSliceStops ==
  ASSUME NEW data \in Seq(Byte), NEW addr
  PROVE  LET stops(i) == ~ Mapped(addr + i - 1)
         IN  StopsAt(Before(data, stops), data,
                     {i \in 1 .. Len(data) : ~ Mapped(addr + i - 1)})
  BY LoopStops, Zenon DEF Before

-----------------------------------------------------------------------------
(* What a loop over n bytes stores *)

Within(addr, n) == addr + n <= \h10000

(* The loop stays below the end of the address space *)
Reaches(addr, data, n) ==
  addr \in Word /\ data \in Seq(Byte) /\ n \in 0 .. Len(data) /\ Within(addr, n)

(* Indices of the bytes that are stored, and of those stored to cell c *)
Stored(addr, n) == {i \in 1 .. n : Mapped(addr + i - 1)}
StoredAt(c, addr, n) == {i \in Stored(addr, n) : Cell(addr + i - 1) = c}

LEMMA LoopArithmetic ==
  ASSUME NEW addr \in Word, NEW k \in Nat, NEW n \in 0 .. k,
         Within(addr, n), NEW i \in 1 .. n
  PROVE  addr + i - 1 \in Word /\ i \in 1 .. k
  BY SMT DEF Word, Within

LEMMA ReachedAddresses ==
  ASSUME NEW addr, NEW data, NEW n, Reaches(addr, data, n), NEW i \in 1 .. n
  PROVE  addr + i - 1 \in Word /\ i \in 1 .. Len(data) /\ data[i] \in Byte
<1>1. /\ addr \in Word /\ data \in Seq(Byte) /\ n \in 0 .. Len(data)
      /\ Within(addr, n) /\ Len(data) \in Nat
  BY LenProperties, Zenon DEF Reaches
<1>2. addr + i - 1 \in Word /\ i \in 1 .. Len(data)
  BY <1>1, LoopArithmetic, Zenon
<1> QED
  BY <1>1, <1>2, ElementOfSeq, Zenon

(* What a cell holds behind the loop: its last byte, if it has any *)
LEMMA LastByte ==
  ASSUME NEW addr, NEW data, NEW n, Reaches(addr, data, n), NEW c,
         StoredAt(c, addr, n) # {}
  PROVE  Max(StoredAt(c, addr, n)) \in StoredAt(c, addr, n)
<1>1. n \in Nat
  <2>1. Len(data) \in Nat /\ n \in 0 .. Len(data)
    BY LenProperties, Zenon DEF Reaches
  <2> QED
    BY <2>1, SMT
<1>2. StoredAt(c, addr, n) \in SUBSET (1 .. n)
  BY Zenon DEF StoredAt, Stored
<1> QED
  BY <1>1, <1>2, LastOf, Zenon

LEMMA StoredType ==
  ASSUME IsMemory(mem), NEW addr, NEW data, NEW n, Reaches(addr, data, n)
  PROVE  IsMemory(StoredFirst(addr, data, n))
<1> DEFINE D == DOMAIN mem \cup {Cell(addr + i - 1) : i \in Stored(addr, n)}
           byte(c) == IF StoredAt(c, addr, n) = {} THEN mem[c]
                      ELSE data[Max(StoredAt(c, addr, n))]
<1>1. \A i \in Stored(addr, n) : Cell(addr + i - 1) \in Cells /\ data[i] \in Byte
  <2> SUFFICES ASSUME NEW i \in Stored(addr, n)
               PROVE  Cell(addr + i - 1) \in Cells /\ data[i] \in Byte
    OBVIOUS
  <2>1. i \in 1 .. n /\ Mapped(addr + i - 1)
    BY Zenon DEF Stored
  <2>2. addr + i - 1 \in Word /\ data[i] \in Byte
    BY <2>1, ReachedAddresses, Zenon
  <2> QED
    BY <2>1, <2>2, CellExists, Zenon
<1>2. DOMAIN mem \subseteq Cells /\ \A c \in DOMAIN mem : mem[c] \in Byte
  BY Zenon DEF IsMemory
<1>3. D \subseteq Cells
  BY <1>1, <1>2, Zenon
<1>4. ASSUME NEW c \in D PROVE byte(c) \in Byte
  <2>1. CASE StoredAt(c, addr, n) = {}
    <3>1. c \in DOMAIN mem
      BY <2>1, Zenon DEF StoredAt
    <3> QED
      BY <1>2, <2>1, <3>1, Zenon
  <2>2. CASE StoredAt(c, addr, n) # {}
    BY <1>1, <2>2, LastByte, Zenon DEF StoredAt
  <2> QED
    BY <2>1, <2>2
<1>5. StoredFirst(addr, data, n) = [c \in D |-> byte(c)]
  BY Zenon DEF StoredFirst, Stored, StoredAt
<1> HIDE DEF D, byte
<1>6. StoredFirst(addr, data, n) \in [D -> Byte] /\ DOMAIN StoredFirst(addr, data, n) = D
  BY <1>4, <1>5, SMT
<1> QED
  BY <1>3, <1>6, Zenon DEF IsMemory

-----------------------------------------------------------------------------
(* What a call of write or write_slice does: it stores some first bytes of  *)
(* the data, none of them beyond RAM, and all of them if it answers Ok      *)
Effect(op, addr, data, bytes) ==
  \E n \in 0 .. Len(bytes), answer \in {"ok", "err", "panic"} :
    /\ Returns(op, addr, data, answer, <<>>)
    /\ Reaches(addr, bytes, n) /\ mem' = StoredFirst(addr, bytes, n)
    /\ \A i \in 1 .. n : ~ BeyondRam(addr + i - 1)
    /\ answer = "ok" => n = Len(bytes)

LEMMA NothingStored ==
  ASSUME IsMemory(mem), NEW addr, NEW data PROVE StoredFirst(addr, data, 0) = mem
<1>1. mem = [c \in DOMAIN mem |-> mem[c]]
  BY Zenon DEF IsMemory
<1>2. {i \in 1 .. 0 : Mapped(addr + i - 1)} = {}
  BY SMT
<1> QED
  BY <1>1, <1>2, SMT DEF StoredFirst

LEMMA ValueBytes ==
  ASSUME NEW v \in Values
  PROVE  /\ to_be_bytes(v) \in Seq(Byte) /\ v.size \in {1, 2}
         /\ Len(to_be_bytes(v)) = v.size
<1>1. v.size \in {1, 2} /\ v.value \in (IF v.size = 1 THEN Byte ELSE Word)
  BY ApiAssumption, Zenon
<1>2. CASE v.size = 1
  <2>1. to_be_bytes(v) = <<v.value>> /\ v.value \in Byte
    BY <1>1, <1>2, Zenon DEF to_be_bytes
  <2> QED
    BY <1>2, <2>1, SMT
<1>3. CASE v.size # 1
  <2>1. to_be_bytes(v) = <<HighByte(v.value), LowByte(v.value)>> /\ v.size = 2
        /\ HighByte(v.value) \in Byte /\ LowByte(v.value) \in Byte
    BY <1>1, <1>3, HalvesAreBytes, Zenon DEF to_be_bytes
  <2> QED
    BY <2>1, SMT
<1> QED
  BY <1>2, <1>3

LEMMA WithinBounds ==
  ASSUME NEW addr \in Word, NEW k \in Nat, NEW n \in 0 .. k,
         n = 0 \/ ~ OutOfBounds(addr, k)
  PROVE  Within(addr, n)
  BY SMT DEF Within, OutOfBounds, Word

LEMMA AddressIsWord == ASSUME NEW addr \in Addresses PROVE addr \in Word
  BY ApiAssumption, Zenon

(* A call that is out of bounds, or any other that stores nothing *)
LEMMA RefusedEffect ==
  ASSUME IsMemory(mem), NEW op, NEW addr \in Addresses, NEW data, NEW bytes \in Seq(Byte),
         UNCHANGED mem, Returns(op, addr, data, "err", <<>>)
  PROVE  Effect(op, addr, data, bytes)
<1>1. addr \in Word /\ Len(bytes) \in Nat
  BY AddressIsWord, LenProperties, Zenon
<1>2. 0 \in 0 .. Len(bytes) /\ \A i \in 1 .. 0 : ~ BeyondRam(addr + i - 1)
  BY <1>1, SMT
<1>3. Within(addr, 0)
  BY <1>1, <1>2, WithinBounds, SMT
<1>4. Reaches(addr, bytes, 0) /\ mem' = StoredFirst(addr, bytes, 0)
  BY <1>1, <1>2, <1>3, NothingStored, Zenon DEF Reaches
<1> QED
  BY <1>2, <1>4, Zenon DEF Effect

LEMMA WriteEffect ==
  ASSUME IsMemory(mem), NEW addr \in Addresses, NEW v \in Values, write(addr, v)
  PROVE  Effect("write", addr, v, to_be_bytes(v))
<1> DEFINE bytes == to_be_bytes(v)
           panics(i) == BeyondRam(addr + i - 1)
           n == Before(bytes, panics)
<1>1. bytes \in Seq(Byte) /\ Len(bytes) = v.size /\ addr \in Word
  BY ValueBytes, AddressIsWord, Zenon
<1>2. CASE OutOfBounds(addr, v.size)
  BY <1>1, <1>2, RefusedEffect, Zenon DEF write
<1>3. CASE ~ OutOfBounds(addr, v.size)
  <2>1. StopsAt(n, bytes, {i \in 1 .. Len(bytes) : BeyondRam(addr + i - 1)})
    BY <1>1, WriteStops, Zenon
  <2>2. PICK answer \in {"ok", "panic"} :
          /\ Returns("write", addr, v, answer, <<>>)
          /\ answer = "ok" => ~ (n < v.size)
    BY <1>3, Zenon DEF write
  <2>3. mem' = StoredFirst(addr, bytes, n)
    BY <1>3, Zenon DEF write
  <2> HIDE DEF n, bytes
  <2>4. Len(bytes) \in Nat /\ n \in 0 .. Len(bytes)
    BY <1>1, <2>1, LenProperties, Zenon DEF StopsAt
  <2>5. Within(addr, n)
    BY <1>1, <1>3, <2>4, WithinBounds, Zenon
  <2>6. \A i \in 1 .. n : i \in 1 .. Len(bytes)
    BY <2>4, SMT
  <2>7. \A i \in 1 .. n : ~ BeyondRam(addr + i - 1)
    BY <2>1, <2>6, Zenon DEF StopsAt
  <2>8. answer = "ok" => n = Len(bytes)
    <3>1. ~ (n < v.size) => n = Len(bytes)
      BY <1>1, <2>4, SMT
    <3> QED
      BY <2>2, <3>1, Zenon
  <2>9. Reaches(addr, bytes, n)
    BY <1>1, <2>4, <2>5, Zenon DEF Reaches
  <2> QED
    BY <2>2, <2>3, <2>4, <2>7, <2>8, <2>9, Zenon DEF Effect, bytes
<1> QED
  BY <1>2, <1>3

LEMMA SliceEffect ==
  ASSUME IsMemory(mem), NEW addr \in Addresses, NEW s \in Slices, write_slice(addr, s)
  PROVE  Effect("write_slice", addr, s, s)
<1> DEFINE stops(i) == ~ Mapped(addr + i - 1)
           n == Before(s, stops)
<1>1. s \in Seq(Byte) /\ addr \in Word
  BY ApiAssumption, AddressIsWord, Zenon
<1>2. CASE OutOfBounds(addr, Len(s))
  BY <1>1, <1>2, RefusedEffect, Zenon DEF write_slice
<1>3. CASE ~ OutOfBounds(addr, Len(s))
  <2>1. StopsAt(n, s, {i \in 1 .. Len(s) : ~ Mapped(addr + i - 1)})
    BY <1>1, WriteSliceStops, Zenon
  <2>2. PICK answer \in {"ok", "err", "panic"} :
          /\ Returns("write_slice", addr, s, answer, <<>>)
          /\ answer = "ok" => n = Len(s)
    BY <1>3, Zenon DEF write_slice
  <2>3. mem' = StoredFirst(addr, s, n)
    BY <1>3, Zenon DEF write_slice
  <2> HIDE DEF n
  <2>4. Len(s) \in Nat /\ n \in 0 .. Len(s)
    BY <1>1, <2>1, LenProperties, Zenon DEF StopsAt
  <2>5. Within(addr, n)
    BY <1>1, <1>3, <2>4, WithinBounds, Zenon
  <2>6. \A i \in 1 .. n : i \in 1 .. Len(s)
    BY <2>4, SMT
  <2>7. \A i \in 1 .. n : ~ BeyondRam(addr + i - 1)
    BY <2>1, <2>6, Zenon DEF StopsAt, Mapped
  <2>8. Reaches(addr, s, n)
    BY <1>1, <2>4, <2>5, Zenon DEF Reaches
  <2> QED
    BY <2>2, <2>3, <2>4, <2>7, <2>8, Zenon DEF Effect
<1> QED
  BY <1>2, <1>3

LEMMA EffectType ==
  ASSUME IsMemory(mem), NEW op, NEW addr, NEW data, NEW bytes, Effect(op, addr, data, bytes)
  PROVE  ApiTypeOK'
<1>1. PICK n \in 0 .. Len(bytes), answer \in {"ok", "err", "panic"} :
        /\ Returns(op, addr, data, answer, <<>>)
        /\ Reaches(addr, bytes, n) /\ mem' = StoredFirst(addr, bytes, n)
  BY Zenon DEF Effect
<1>2. reply'.answer = answer
  BY <1>1, SMT DEF Returns
<1>3. IsMemory(mem')
  BY <1>1, StoredType, SMT
<1> QED
  BY <1>2, <1>3, Zenon DEF ApiTypeOK

LEMMA ReadType ==
  ASSUME IsMemory(mem), NEW addr, NEW size, read(addr, size) PROVE ApiTypeOK'
<1>1. reply'.answer = ReadOutcome(addr, size)
  BY SMT DEF read, Returns
<1>2. mem' = mem /\ ReadOutcome(addr, size) \in {"ok", "err", "panic"}
  BY OutcomeTypes, Zenon DEF read
<1> QED
  BY <1>1, <1>2, Zenon DEF ApiTypeOK

LEMMA ApiNextType == ASSUME ApiTypeOK, [Next]_apiVars PROVE ApiTypeOK'
<1>1. IsMemory(mem)
  BY Zenon DEF ApiTypeOK
<1>2. CASE Write
  BY <1>1, <1>2, WriteEffect, EffectType, Zenon DEF Write
<1>3. CASE WriteSlice
  BY <1>1, <1>3, SliceEffect, EffectType, Zenon DEF WriteSlice
<1>4. CASE Read
  BY <1>1, <1>4, ReadType, Zenon DEF Read
<1>5. CASE UNCHANGED apiVars
  BY <1>5, Zenon DEF apiVars, ApiTypeOK
<1> QED
  BY <1>2, <1>3, <1>4, <1>5, Zenon DEF Next, Panicked

LEMMA ApiInitType == Init => ApiTypeOK
<1>1. IsMemory(ZeroMemory)
  BY SMT DEF IsMemory, ZeroMemory
<1> QED
  BY <1>1, SMT DEF Init, ApiTypeOK

(* Whatever is called, only cells that exist are ever written, with bytes,  *)
(* and every call is answered Ok or Err or panics.                         *)
THEOREM ApiTypes == Spec => []ApiTypeOK
<1>1. ApiTypeOK /\ [Next]_apiVars => ApiTypeOK'
  BY ApiNextType
<1> QED
  BY <1>1, ApiInitType, PTL DEF Spec

(* An Err from write, unlike an Err from write_slice, means that nothing    *)
(* was stored: its only error is the bounds check before the first byte.   *)
THEOREM WriteErrors == Spec => WriteErrorStoresNothing
<1>1. ASSUME [Next]_apiVars, last'.op = "write", reply'.answer = "err"
      PROVE  UNCHANGED mem
  <2>1. \A op, addr, data, answer, bytes : Returns(op, addr, data, answer, bytes) =>
          last'.op = op /\ reply'.answer = answer
    BY SMT DEF Returns
  <2>2. CASE Write
    <3>1. PICK addr \in Addresses, v \in Values : write(addr, v)
      BY <2>2, Zenon DEF Write
    <3>2. CASE OutOfBounds(addr, v.size)
      BY <3>1, <3>2, Zenon DEF write
    <3>3. CASE ~ OutOfBounds(addr, v.size)
      <4>1. \E answer \in {"ok", "panic"} : Returns("write", addr, v, answer, <<>>)
        BY <3>1, <3>3, Zenon DEF write
      <4> QED
        BY <1>1, <2>1, <4>1, Zenon
    <3> QED
      BY <3>2, <3>3
  <2>3. CASE WriteSlice
    <3>1. \E addr, s, answer : Returns("write_slice", addr, s, answer, <<>>)
      BY <2>3, Zenon DEF WriteSlice, write_slice
    <3> QED
      BY <1>1, <2>1, <3>1, Zenon
  <2>4. CASE Read
    BY <2>4, Zenon DEF Read, read
  <2>5. CASE UNCHANGED apiVars
    BY <2>5, Zenon DEF apiVars
  <2> QED
    BY <1>1, <2>2, <2>3, <2>4, <2>5, Zenon DEF Next, Panicked
<1>2. [Next]_apiVars => [last'.op = "write" /\ reply'.answer = "err" => UNCHANGED mem]_apiVars
  BY <1>1, Zenon
<1> QED
  BY <1>2, PTL DEF Spec, WriteErrorStoresNothing

-----------------------------------------------------------------------------
(* The refinement of ByteStore: cells are locations *)

(* The arrays and the holes as bounds *)
LEMMA ArrayBounds ==
  ASSUME NEW a \in Word
  PROVE  /\ a \in Ram <=> a < \h800
         /\ a \in Mirror <=> \h800 <= a /\ a < \h2000
         /\ a \in Ppu <=> \h2000 <= a /\ a < \h2008
         /\ a \in ApuIo <=> \h4000 <= a /\ a < \h4018
         /\ Hole(a) <=> (\h2008 <= a /\ a < \h4000) \/ (\h4018 <= a /\ a < \h4020)
<1>1. a \in Int /\ 0 <= a /\ a <= 65535
  BY SMT DEF Word
<1>2. a \in Ram <=> a < \h800
  BY <1>1, SMT DEF Ram, RamSize
<1>3. a \in Mirror <=> \h800 <= a /\ a < \h2000
  BY <1>1, Regions, SMT
<1>4. a \in Ppu <=> \h2000 <= a /\ a < \h2008
  BY <1>1, SMT DEF Ppu
<1>5. a \in ApuIo <=> \h4000 <= a /\ a < \h4018
  BY <1>1, SMT DEF ApuIo
<1>6. Hole(a) <=> (\h2008 <= a /\ a < \h4000) \/ (\h4018 <= a /\ a < \h4020)
  <2> DEFINE low  == a \in \h2008 .. \h3FFF
             high == a \in \h4018 .. \h401F
  <2>1. Hole(a) <=> low \/ high
    BY SMT DEF Hole
  <2>2. low <=> \h2008 <= a /\ a < \h4000
    BY <1>1, SMT
  <2>3. high <=> \h4018 <= a /\ a < \h4020
    BY <1>1, SMT
  <2> HIDE DEF low, high
  <2> QED
    BY <1>1, <2>1, <2>2, <2>3, SMT
<1> QED
  BY <1>2, <1>3, <1>4, <1>5, <1>6, SMT

LEMMA Locations ==
  ASSUME NEW a \in Word, ~ BeyondRam(a)
  PROVE  /\ Mapped(a) <=> Promised!HasLocation(a)
         /\ Cell(a) = Promised!Location(a)
<1>1. a \in Int /\ 0 <= a /\ a <= 65535
  BY SMT DEF Word
<1>2. Mapped(a) <=> ~ Hole(a)
  BY Zenon DEF Mapped
<1>3. Mapped(a) <=> Promised!HasLocation(a)
  <2>1. a \in \h4000 .. \h4017 <=> \h4000 <= a /\ a < \h4018
    BY <1>1, SMT
  <2>2. a \in \h4020 .. \hFFFF <=> \h4020 <= a
    <3> DEFINE low  == \h4020
               high == \hFFFF
    <3>1. ASSUME low <= a PROVE a \in low .. high
      <4>1. low \in Int /\ high \in Int /\ a <= high
        BY <1>1, SMT
      <4> HIDE DEF low, high
      <4> QED
        BY <1>1, <3>1, <4>1, SMT
    <3>2. ASSUME a \in \h4020 .. \hFFFF PROVE \h4020 <= a
      BY <3>2, SMT
    <3> QED
      BY <3>1, <3>2
  <2>3. Promised!HasLocation(a) <=>
          a < \h2008 \/ (\h4000 <= a /\ a < \h4018) \/ \h4020 <= a
    BY <2>1, <2>2, SMT DEF Promised!HasLocation
  <2> QED
    BY <1>1, <1>2, <2>3, ArrayBounds, SMT
<1>4. CASE a \in Mirror
  <2>1. a - RamSize \in Ram /\ Cell(a) = a - RamSize
    BY <1>4, CellCases, Zenon DEF BeyondRam
  <2>2. \h800 <= a /\ a <= \h1FFF
    BY <1>1, <1>4, Regions, SMT
  <2>3. a < \h2000 /\ a % \h800 = a - RamSize
    BY <1>1, <2>1, <2>2, SMT DEF Ram, RamSize
  <2>4. Promised!Location(a) = a % \h800
    BY <2>3, SMT DEF Promised!Location
  <2>5. Cell(a) = Promised!Location(a)
    BY <2>1, <2>3, <2>4, SMT
  <2> QED
    BY <1>3, <2>5
<1>5. CASE a \notin Mirror
  <2>1. Cell(a) = a
    BY <1>5, CellCases, Zenon
  <2>2. a < \h2000 => a % \h800 = a
    BY <1>1, <1>5, Regions, SMT
  <2>3. Promised!Location(a) = a
    BY <2>2, SMT DEF Promised!Location
  <2>4. Cell(a) = Promised!Location(a)
    BY <2>1, <2>3, SMT
  <2> QED
    BY <1>3, <2>4
<1> QED
  BY <1>4, <1>5

(* Where the loop does not get beyond RAM, it stores by location *)
LEMMA StoredByLocation ==
  ASSUME NEW addr, NEW data, NEW n, Reaches(addr, data, n),
         \A i \in 1 .. n : ~ BeyondRam(addr + i - 1)
  PROVE  StoredFirst(addr, data, n) = Promised!StoredFirst(addr, data, n)
<1>1. \A i \in 1 .. n :
        /\ Mapped(addr + i - 1) <=> Promised!HasLocation(addr + i - 1)
        /\ Cell(addr + i - 1) = Promised!Location(addr + i - 1)
  BY ReachedAddresses, Locations, Zenon
<1>2. Promised!Placed(addr, n) = Stored(addr, n)
  BY <1>1, Zenon DEF Promised!Placed, Stored
<1>3. \A i \in Stored(addr, n) : Cell(addr + i - 1) = Promised!Location(addr + i - 1)
  BY <1>1, Zenon DEF Stored
<1>4. \A c : Promised!PlacedAt(c, addr, n) = StoredAt(c, addr, n)
  BY <1>2, <1>3, Zenon DEF Promised!PlacedAt, StoredAt
<1>5. {Promised!Location(addr + i - 1) : i \in Stored(addr, n)}
        = {Cell(addr + i - 1) : i \in Stored(addr, n)}
  BY <1>3, Zenon
<1> QED
  <2> DEFINE D == DOMAIN mem \cup {Cell(addr + i - 1) : i \in Stored(addr, n)}
             byte(c) == IF StoredAt(c, addr, n) = {} THEN mem[c]
                        ELSE data[Max(StoredAt(c, addr, n))]
             promised(l) == IF Promised!PlacedAt(l, addr, n) = {} THEN mem[l]
                            ELSE data[Promised!Max(Promised!PlacedAt(l, addr, n))]
  <2>1. StoredFirst(addr, data, n) = [c \in D |-> byte(c)]
    BY Zenon DEF StoredFirst, Stored, StoredAt
  <2>2. D = DOMAIN mem \cup {Promised!Location(addr + i - 1) : i \in Promised!Placed(addr, n)}
    BY <1>2, <1>5
  <2>3. Promised!StoredFirst(addr, data, n) = [l \in D |-> promised(l)]
    BY <2>2, Zenon DEF Promised!StoredFirst
  <2>4. ASSUME NEW c PROVE byte(c) = promised(c)
    <3>1. \A T : Promised!Max(T) = Max(T)
      BY Zenon DEF Max, Promised!Max
    <3>2. Promised!Max(Promised!PlacedAt(c, addr, n)) = Max(StoredAt(c, addr, n))
      BY <1>4, <3>1, Zenon
    <3> QED
      BY <1>4, <3>2, Zenon
  <2> HIDE DEF D, byte, promised
  <2> QED
    BY <2>1, <2>3, <2>4, Zenon

(* A call that writes is a write of the byte store, or a failed one *)
LEMMA EffectIsPromised ==
  ASSUME NEW op, NEW addr \in Addresses, NEW data,
         NEW bytes \in {to_be_bytes(v) : v \in Values} \cup Slices,
         Effect(op, addr, data, bytes)
  PROVE  Promised!Next
<1>1. PICK n \in 0 .. Len(bytes), answer \in {"ok", "err", "panic"} :
        /\ Returns(op, addr, data, answer, <<>>)
        /\ Reaches(addr, bytes, n) /\ mem' = StoredFirst(addr, bytes, n)
        /\ \A i \in 1 .. n : ~ BeyondRam(addr + i - 1)
        /\ answer = "ok" => n = Len(bytes)
  BY Zenon DEF Effect
<1>2. mem' = Promised!StoredFirst(addr, bytes, n)
  BY <1>1, StoredByLocation, Zenon
<1>3. reply'.answer = answer /\ reply'.bytes = <<>>
  BY <1>1, SMT DEF Returns
<1>4. Promised!Answer(answer, <<>>)
  BY <1>3, Zenon DEF Promised!Answer
<1>5. CASE answer = "ok"
  BY <1>1, <1>2, <1>4, <1>5, Zenon DEF Promised!Next, Promised!Write
<1>6. CASE answer # "ok"
  BY <1>1, <1>2, <1>4, <1>6, Zenon DEF Promised!Next, Promised!FailedWrite,
     Promised!Failures
<1> QED
  BY <1>5, <1>6

-----------------------------------------------------------------------------
(* Reads *)

LEMMA ArrayCells ==
  ASSUME NEW a \in Word
  PROVE  /\ a < \h800 \/ \h2000 <= a => Cell(a) = a /\ ~ BeyondRam(a)
         /\ \h800 <= a /\ a < \h1000 => Cell(a) = a - RamSize /\ ~ BeyondRam(a)
<1>1. a \in Int /\ 0 <= a
  BY SMT DEF Word
<1>2. ASSUME a < \h800 \/ \h2000 <= a PROVE a \notin Mirror
  BY <1>1, <1>2, ArrayBounds, SMT
<1>3. ASSUME \h800 <= a, a < \h1000 PROVE a \in Mirror /\ a - RamSize \in Ram
  <2>1. a \in Mirror
    BY <1>1, <1>3, ArrayBounds, SMT
  <2>2. a - RamSize \in Ram
    BY <1>1, <1>3, SMT DEF Ram, RamSize
  <2> QED
    BY <2>1, <2>2
<1>4. a \notin Mirror => Cell(a) = a /\ ~ BeyondRam(a)
  BY CellCases, Zenon DEF BeyondRam
<1>5. a \in Mirror /\ a - RamSize \in Ram => Cell(a) = a - RamSize /\ ~ BeyondRam(a)
  BY CellCases, Zenon DEF BeyondRam
<1> QED
  BY <1>2, <1>3, <1>4, <1>5, SMT

LEMMA ArrayEnds ==
  ASSUME NEW a \in Word, ~ Hole(a)
  PROVE  \/ a < \h800 /\ ArrayEnd(a) = \h7FF
         \/ \h800 <= a /\ a < \h2000 /\ ArrayEnd(a) = \hFFF
         \/ \h2000 <= a /\ a < \h2008 /\ ArrayEnd(a) = \h2007
         \/ \h4000 <= a /\ a < \h4018 /\ ArrayEnd(a) = \h4017
         \/ \h4020 <= a /\ ArrayEnd(a) = \hFFFF
<1>1. a \in Int /\ RamSize - 1 = \h7FF /\ 2 * RamSize - 1 = \hFFF
  BY SMT DEF Word, RamSize
<1>2. ArrayEnd(a) = IF a \in Ram THEN \h7FF ELSE IF a \in Mirror THEN \hFFF
         ELSE IF a \in Ppu THEN \h2007 ELSE IF a \in ApuIo THEN \h4017 ELSE \hFFFF
  BY <1>1, SMT DEF ArrayEnd
<1> QED
  BY <1>1, <1>2, ArrayBounds, SMT

(* A read that succeeds stays within one array *)
LEMMA ReadStaysWithin ==
  ASSUME NEW addr, NEW size, ReadOutcome(addr, size) = "ok"
  PROVE  ~ Hole(addr) /\ ~ (addr + size - 1 > ArrayEnd(addr))
<1>1. ReadOutcome(addr, size) =
        IF OutOfBounds(addr, size) \/ Hole(addr) THEN "err"
        ELSE IF addr + size - 1 > ArrayEnd(addr) \/ Misaligned(addr, size) THEN "panic"
        ELSE "ok"
  BY SMT DEF ReadOutcome, OutOfBounds
<1> QED
  BY <1>1, Zenon

LEMMA WithinArray ==
  ASSUME NEW addr \in Word, NEW k \in {0, 1}, ~ Hole(addr),
         ~ (addr + k > ArrayEnd(addr))
  PROVE  /\ addr + k \in Word /\ Mapped(addr + k) /\ ~ BeyondRam(addr + k)
         /\ Cell(addr + k) = Cell(addr) + k
<1> DEFINE b == addr + k
<1>1. /\ addr \in Int /\ b \in Int /\ addr <= b /\ b <= addr + 1
      /\ 0 <= addr /\ addr <= 65535
  BY SMT DEF Word
<1>2. \/ b < \h800
      \/ \h800 <= addr /\ b < \h1000
      \/ \h2000 <= addr /\ b < \h2008
      \/ \h4000 <= addr /\ b < \h4018
      \/ \h4020 <= addr /\ b <= \hFFFF
  BY <1>1, ArrayEnds, SMT
<1>3. b \in Word
  BY <1>1, <1>2, SMT DEF Word
<1>4. ~ Hole(b)
  BY <1>1, <1>2, <1>3, ArrayBounds, SMT
<1>5. Cell(b) = Cell(addr) + k /\ ~ BeyondRam(b)
  BY <1>1, <1>2, <1>3, ArrayCells, SMT DEF RamSize
<1> QED
  BY <1>3, <1>4, <1>5, Zenon DEF Mapped

(* Byte k of a read that succeeds is the byte at its location *)
LEMMA ReadLocation ==
  ASSUME NEW addr \in Word, NEW size \in {1, 2}, ReadOutcome(addr, size) = "ok",
         NEW k \in 0 .. size - 1
  PROVE  /\ Promised!HasLocation(addr + k)
         /\ Fetch(mem, Cell(addr) + k) = Promised!Byte(addr + k)
<1>1. k \in {0, 1} /\ k <= size - 1 /\ addr \in Int
  BY SMT DEF Word
<1>2. ~ Hole(addr) /\ ~ (addr + size - 1 > ArrayEnd(addr))
  BY ReadStaysWithin, Zenon
<1>3. ~ (addr + k > ArrayEnd(addr))
  <2>1. ArrayEnd(addr) \in Int
    BY <1>2, ArrayEnds, SMT
  <2> QED
    BY <1>1, <1>2, <2>1, SMT
<1>4. /\ addr + k \in Word /\ Mapped(addr + k) /\ ~ BeyondRam(addr + k)
      /\ Cell(addr + k) = Cell(addr) + k
  BY <1>1, <1>2, <1>3, WithinArray, SMT
<1>5. Promised!HasLocation(addr + k) /\ Cell(addr + k) = Promised!Location(addr + k)
  BY <1>4, Locations, Zenon
<1> QED
  BY <1>4, <1>5, Zenon DEF Fetch, Promised!Byte

LEMMA ReadIsPromised ==
  ASSUME NEW addr \in Addresses, NEW size \in {1, 2}, read(addr, size)
  PROVE  Promised!Next
<1>1. mem' = mem /\ addr \in Word
  BY AddressIsWord, Zenon DEF read
<1>2. CASE ReadOutcome(addr, size) = "ok"
  <2> DEFINE found == [i \in 1 .. size |-> Fetch(mem, Cell(addr) + i - 1)]
             stored == [i \in 1 .. size |-> Promised!Byte(addr + i - 1)]
  <2>1. Returns("read", addr, <<>>, "ok", found)
    BY <1>2, Zenon DEF read
  <2>2. \A k \in 0 .. size - 1 :
          /\ Promised!HasLocation(addr + k)
          /\ Fetch(mem, Cell(addr) + k) = Promised!Byte(addr + k)
    BY <1>1, <1>2, ReadLocation, Zenon
  <2>3. found = stored
    <3>1. ASSUME NEW i \in 1 .. size
          PROVE  Fetch(mem, Cell(addr) + i - 1) = Promised!Byte(addr + i - 1)
      <4>1. i - 1 \in 0 .. size - 1 /\ addr + i - 1 = addr + (i - 1)
        BY <1>1, SMT DEF Word
      <4>2. Cell(addr) + i - 1 = Cell(addr) + (i - 1)
        <5>1. Cell(addr) \in Int
          BY <1>1, SMT DEF Cell, Word, RamSize
        <5> QED
          BY <5>1, SMT
      <4> QED
        BY <2>2, <4>1, <4>2, Zenon
    <3> QED
      BY <3>1, Zenon
  <2> HIDE DEF found, stored
  <2>4. reply'.answer = "ok" /\ reply'.bytes = stored
    BY <2>1, <2>3, SMT DEF Returns
  <2>5. size \in 1 .. 2
    BY SMT
  <2>6. Promised!Answer("ok", stored)
    BY <2>4, Zenon DEF Promised!Answer
  <2> QED
    BY <1>1, <2>2, <2>5, <2>6, Zenon DEF Promised!Next, Promised!Read, stored
<1>3. CASE ReadOutcome(addr, size) # "ok"
  <2>1. Returns("read", addr, <<>>, ReadOutcome(addr, size), <<>>)
    BY <1>3, Zenon DEF read
  <2>2. reply'.answer = ReadOutcome(addr, size) /\ reply'.bytes = <<>>
    BY <2>1, SMT DEF Returns
  <2>3. Promised!Answer(ReadOutcome(addr, size), <<>>)
    BY <2>2, Zenon DEF Promised!Answer
  <2>4. ReadOutcome(addr, size) \in Promised!Failures
    BY <1>3, OutcomeTypes, Zenon DEF Promised!Failures
  <2> QED
    BY <1>1, <2>3, <2>4, Zenon DEF Promised!Next, Promised!FailedRead
<1> QED
  BY <1>2, <1>3

(* Memory implements the byte store, for every set of addresses, values and *)
(* slices: each call is one step of ByteStore, whose locations are Memory's *)
(* cells.                                                                  *)
THEOREM MemoryImplementsByteStore == Spec => ImplementsByteStore
<1>1. Init => Promised!Init
  BY SMT DEF Init, Promised!Init, ZeroMemory
<1>2. ApiTypeOK /\ [Next]_apiVars =>
        [Promised!Next]_<<mem, [answer |-> reply.answer, bytes |-> reply.bytes]>>
  <2> SUFFICES ASSUME ApiTypeOK, [Next]_apiVars
               PROVE  [Promised!Next]_<<mem, [answer |-> reply.answer, bytes |-> reply.bytes]>>
    OBVIOUS
  <2>1. IsMemory(mem)
    BY Zenon DEF ApiTypeOK
  <2>2. CASE Write
    BY <2>1, <2>2, WriteEffect, EffectIsPromised, Zenon DEF Write
  <2>3. CASE WriteSlice
    BY <2>1, <2>3, SliceEffect, EffectIsPromised, Zenon DEF WriteSlice
  <2>4. CASE Read
    BY <2>4, ReadIsPromised, Zenon DEF Read
  <2>5. CASE UNCHANGED apiVars
    BY <2>5, Zenon DEF apiVars
  <2> QED
    BY <2>2, <2>3, <2>4, <2>5, Zenon DEF Next, Panicked
<1> QED
  BY <1>1, <1>2, ApiTypes, PTL DEF Spec, ImplementsByteStore, Promised!Spec

-----------------------------------------------------------------------------
(* A word written and read back *)

(* Behind a word that was written, its address leads to its bytes, the high *)
(* one first, wherever it has a cell                                       *)
WordInv ==
  WordWritten =>
    /\ last.addr \in Addresses /\ last.data \in Values
    /\ \A i \in {1, 2} : Mapped(last.addr + i - 1) =>
         Fetch(mem, Cell(last.addr + i - 1)) = to_be_bytes(last.data)[i]

LEMMA CallAnswered ==
  ASSUME NEW op, NEW addr, NEW data, NEW answer, NEW bytes,
         Returns(op, addr, data, answer, bytes)
  PROVE  /\ last'.op = op /\ last'.addr = addr /\ last'.data = data
         /\ reply'.answer = answer /\ reply'.bytes = bytes
         /\ reply'.value = IF bytes = <<>> THEN 0 ELSE from_bytes(bytes)
  BY SMT DEF Returns

(* The two bytes of a word are in different cells *)
LEMMA TwoCells ==
  ASSUME NEW addr, NEW data, Reaches(addr, data, 2),
         NEW i \in Stored(addr, 2), NEW j \in Stored(addr, 2),
         Cell(addr + i - 1) = Cell(addr + j - 1)
  PROVE  i = j
<1>1. /\ addr + i - 1 \in Word /\ Mapped(addr + i - 1) /\ i \in 1 .. 2
      /\ addr + j - 1 \in Word /\ Mapped(addr + j - 1) /\ j \in 1 .. 2
  BY ReachedAddresses, Zenon DEF Stored
<1>2. addr \in Int
  BY SMT DEF Reaches, Word
<1>3. /\ i # j => (addr + i - 1) < (addr + j - 1) \/ (addr + j - 1) < (addr + i - 1)
      /\ (addr + i - 1) # (addr + j - 1) + RamSize
      /\ (addr + j - 1) # (addr + i - 1) + RamSize
  BY <1>1, <1>2, SMT DEF RamSize
<1> QED
  BY <1>1, <1>3, MirrorIsTheOnlyAlias, Zenon

LEMMA WordStored ==
  ASSUME IsMemory(mem), NEW addr \in Addresses, NEW v \in Values, write(addr, v)
  PROVE  WordInv'
<1> DEFINE bytes == to_be_bytes(v)
<1>1. PICK n \in 0 .. Len(bytes), answer \in {"ok", "err", "panic"} :
        /\ Returns("write", addr, v, answer, <<>>)
        /\ Reaches(addr, bytes, n) /\ mem' = StoredFirst(addr, bytes, n)
        /\ answer = "ok" => n = Len(bytes)
  BY WriteEffect, Zenon DEF Effect
<1>2. last'.addr = addr /\ last'.data = v /\ reply'.answer = answer
  BY <1>1, CallAnswered, SMT
<1>3. ASSUME v.size = 2, answer = "ok", NEW i \in {1, 2}, Mapped(addr + i - 1)
      PROVE  Fetch(mem', Cell(addr + i - 1)) = bytes[i]
  <2> DEFINE c == Cell(addr + i - 1)
  <2>1. n = 2
    BY <1>1, <1>3, ValueBytes, Zenon
  <2>2. i \in StoredAt(c, addr, n) /\ i \in Stored(addr, n)
    <3>1. i \in 1 .. n
      BY <2>1, SMT
    <3> QED
      BY <1>3, <3>1, Zenon DEF Stored, StoredAt
  <2>3. Max(StoredAt(c, addr, n)) = i
    <3>1. Max(StoredAt(c, addr, n)) \in StoredAt(c, addr, n)
      BY <1>1, <2>2, LastByte, Zenon
    <3> QED
      BY <1>1, <2>1, <2>2, <3>1, TwoCells, Zenon DEF StoredAt
  <2>4. c \in DOMAIN mem' /\ mem'[c] = bytes[i]
    <3>1. mem' = [d \in DOMAIN mem \cup {Cell(addr + j - 1) : j \in Stored(addr, n)} |->
             IF StoredAt(d, addr, n) = {} THEN mem[d] ELSE bytes[Max(StoredAt(d, addr, n))]]
      BY <1>1, Zenon DEF StoredFirst, Stored, StoredAt
    <3>2. c \in {Cell(addr + j - 1) : j \in Stored(addr, n)}
      BY <2>2, Zenon
    <3> HIDE DEF c
    <3> QED
      BY <2>2, <2>3, <3>1, <3>2, Zenon
  <2> QED
    BY <2>4, Zenon DEF Fetch
<1> QED
  BY <1>2, <1>3, Zenon DEF WordInv, WordWritten

LEMMA BothBytesWithin ==
  ASSUME NEW addr \in Word, ~ Hole(addr), ~ (addr + 2 - 1 > ArrayEnd(addr))
  PROVE  /\ Mapped(addr) /\ Mapped(addr + 1) /\ Cell(addr + 1) = Cell(addr) + 1
         /\ addr + 1 - 1 = addr /\ addr + 2 - 1 = addr + 1
<1>1. addr \in Int /\ addr + 2 - 1 = addr + 1 /\ addr + 1 - 1 = addr /\ addr + 0 = addr
  BY SMT DEF Word
<1> DEFINE end == ArrayEnd(addr)
           next == addr + 2 - 1
<1>2. end \in Int
  BY ArrayEnds, SMT
<1>3. ~ (next > end) /\ next = addr + 1
  BY <1>1, Zenon
<1> HIDE DEF end, next
<1>4. ~ (addr + 1 > end) /\ ~ (addr + 0 > end)
  BY <1>1, <1>2, <1>3, SMT
<1>5. Mapped(addr + 1) /\ Cell(addr + 1) = Cell(addr) + 1
  BY <1>4, WithinArray, SMT DEF end
<1>6. Mapped(addr + 0)
  <2>1. 0 \in {0, 1}
    OBVIOUS
  <2> QED
    BY <1>4, <2>1, WithinArray, Zenon DEF end
<1> QED
  BY <1>1, <1>5, <1>6, Zenon

(* Reading back: both bytes of the read are in one array, so the second one *)
(* is in the cell of the next address                                      *)
LEMMA WordReadBack ==
  ASSUME WordInv, WordWritten, NEW addr, NEW size \in {1, 2}, read(addr, size),
         ReadBackNext
  PROVE  reply'.value = Join(LowByte(last.data.value), HighByte(last.data.value))
<1> DEFINE found == [i \in 1 .. size |-> Fetch(mem, Cell(addr) + i - 1)]
           value == last.data.value
<1>1. ReadOutcome(addr, size) = "ok"
  <2>1. \E bytes : Returns("read", addr, <<>>, ReadOutcome(addr, size), bytes)
    BY Zenon DEF read
  <2> QED
    BY <2>1, CallAnswered, SMT DEF ReadBackNext
<1>2. Returns("read", addr, <<>>, "ok", found)
  BY <1>1, Zenon DEF read
<1>3. /\ addr = last.addr /\ Len(found) = 2
      /\ reply'.value = IF found = <<>> THEN 0 ELSE from_bytes(found)
  <2> HIDE DEF found
  <2> QED
    BY <1>2, CallAnswered, SMT DEF ReadBackNext
<1>4. size = 2
  <2>1. Len(found) = size
    BY SMT
  <2> QED
    BY <1>3, <2>1
<1>5. /\ addr \in Word /\ last.data \in Values /\ last.data.size = 2
      /\ \A i \in {1, 2} : Mapped(addr + i - 1) =>
           Fetch(mem, Cell(addr + i - 1)) = to_be_bytes(last.data)[i]
  BY <1>3, AddressIsWord, Zenon DEF WordInv, WordWritten
<1>6. ~ Hole(addr) /\ ~ (addr + 2 - 1 > ArrayEnd(addr))
  BY <1>1, <1>4, ReadStaysWithin, Zenon
<1>7. /\ Mapped(addr) /\ Mapped(addr + 1) /\ Cell(addr + 1) = Cell(addr) + 1
      /\ addr + 1 - 1 = addr /\ addr + 2 - 1 = addr + 1
  BY <1>5, <1>6, BothBytesWithin, Zenon
<1>8. to_be_bytes(last.data) = <<HighByte(value), LowByte(value)>>
  BY <1>5, SMT DEF to_be_bytes
<1>9. found[1] = HighByte(value)
  <2>1. found[1] = Fetch(mem, Cell(addr))
    <3>1. Cell(addr) + 1 - 1 = Cell(addr)
      BY <1>5, SMT DEF Cell, Word, RamSize
    <3>2. 1 \in 1 .. size
      BY <1>4, SMT
    <3> QED
      BY <3>1, <3>2, Zenon
  <2>2. Fetch(mem, Cell(addr)) = to_be_bytes(last.data)[1]
    BY <1>5, <1>7, Zenon
  <2> QED
    BY <1>8, <2>1, <2>2, SMT
<1>10. found[2] = LowByte(value)
  <2>1. found[2] = Fetch(mem, Cell(addr) + 1)
    <3>1. Cell(addr) + 2 - 1 = Cell(addr) + 1
      BY <1>5, SMT DEF Cell, Word, RamSize
    <3>2. 2 \in 1 .. size
      BY <1>4, SMT
    <3> QED
      BY <3>1, <3>2, Zenon
  <2>2. Fetch(mem, Cell(addr) + 1) = to_be_bytes(last.data)[2]
    BY <1>5, <1>7, Zenon
  <2> QED
    BY <1>8, <2>1, <2>2, SMT
<1> HIDE DEF found
<1>11. found # <<>>
  BY <1>3, SMT
<1>12. from_bytes(found) = Join(LowByte(value), HighByte(value))
  BY <1>3, <1>9, <1>10, Zenon DEF from_bytes
<1> QED
  BY <1>3, <1>11, <1>12, Zenon

LEMMA WordNext == ASSUME ApiTypeOK, WordInv, [Next]_apiVars PROVE WordInv'
<1>1. IsMemory(mem)
  BY Zenon DEF ApiTypeOK
<1>2. CASE Write
  BY <1>1, <1>2, WordStored, Zenon DEF Write
<1>3. CASE WriteSlice
  <2>1. \E addr, s, answer : Returns("write_slice", addr, s, answer, <<>>)
    BY <1>3, Zenon DEF WriteSlice, write_slice
  <2>2. last'.op = "write_slice"
    BY <2>1, CallAnswered, SMT
  <2> QED
    BY <2>2, Zenon DEF WordInv, WordWritten
<1>4. CASE Read
  <2>1. \E addr, answer, bytes : Returns("read", addr, <<>>, answer, bytes)
    BY <1>4, Zenon DEF Read, read
  <2>2. last'.op = "read"
    BY <2>1, CallAnswered, SMT
  <2> QED
    BY <2>2, Zenon DEF WordInv, WordWritten
<1>5. CASE UNCHANGED apiVars
  BY <1>5, Zenon DEF apiVars, WordInv, WordWritten
<1> QED
  BY <1>2, <1>3, <1>4, <1>5, Zenon DEF Next, Panicked

(* A u16 written and read back at the same address, both calls with an Ok,  *)
(* comes back with its bytes exchanged, for every address and every value. *)
THEOREM WordsSwap == Spec => WordsComeBackSwapped
<1>1. Init => WordInv
  BY SMT DEF Init, WordInv, WordWritten
<1>2. ApiTypeOK /\ WordInv /\ [Next]_apiVars => WordInv'
  BY WordNext
<1>3. WordInv /\ [Next]_apiVars =>
        [WordWritten /\ ReadBackNext =>
           reply'.value = Join(LowByte(last.data.value), HighByte(last.data.value))]_apiVars
  <2> SUFFICES ASSUME WordInv, [Next]_apiVars, WordWritten, ReadBackNext, ~ UNCHANGED apiVars
               PROVE  reply'.value = Join(LowByte(last.data.value), HighByte(last.data.value))
    OBVIOUS
  <2>1. \A op, addr, data, answer, bytes : Returns(op, addr, data, answer, bytes) =>
          op = "read"
    BY CallAnswered, SMT DEF ReadBackNext
  <2>2. ~ Write
    BY <2>1, Zenon DEF Write, write
  <2>3. ~ WriteSlice
    BY <2>1, Zenon DEF WriteSlice, write_slice
  <2>4. CASE Read
    BY <2>4, WordReadBack, Zenon DEF Read
  <2> QED
    BY <2>2, <2>3, <2>4, Zenon DEF Next, Panicked
<1> QED
  BY <1>1, <1>2, <1>3, ApiTypes, PTL DEF Spec, WordsComeBackSwapped

-----------------------------------------------------------------------------
(* Loading: what write_slice stores above the registers *)

InCartridge(addr) == addr \in Word /\ \h4020 <= addr

LEMMA CartridgeCell ==
  ASSUME NEW b, InCartridge(b) PROVE Mapped(b) /\ Cell(b) = b
<1>1. b \in Word /\ b \in Int /\ \h4020 <= b
  BY SMT DEF InCartridge, Word
<1>2. ~ Hole(b)
  BY <1>1, ArrayBounds, SMT
<1>3. Cell(b) = b /\ ~ BeyondRam(b)
  BY <1>1, ArrayCells, SMT
<1> QED
  BY <1>2, <1>3 DEF Mapped

LEMMA CartridgeCells ==
  ASSUME NEW addr, InCartridge(addr), NEW k \in Nat, ~ OutOfBounds(addr, k),
         NEW i \in 1 .. k
  PROVE  /\ Mapped(addr + i - 1) /\ Cell(addr + i - 1) = addr + i - 1
         /\ \A j \in 1 .. k : addr + j - 1 = addr + i - 1 => j = i
<1> DEFINE b == addr + i - 1
<1>1. Within(addr, k) /\ addr \in Word
  BY WithinBounds, SMT DEF InCartridge
<1>2. b \in Word
  BY <1>1, LoopArithmetic, SMT
<1>3. InCartridge(b)
  <2>1. addr \in Int /\ i \in Int /\ 1 <= i /\ \h4020 <= addr
    BY <1>1, SMT DEF InCartridge, Word
  <2>2. \h4020 <= b
    BY <2>1, SMT
  <2> QED
    BY <1>2, <2>2 DEF InCartridge
<1>4. \A j \in 1 .. k : addr + j - 1 = b => j = i
  BY SMT DEF InCartridge, Word
<1> HIDE DEF b
<1> QED
  BY <1>3, <1>4, CartridgeCell DEF b

(* A slice that fits between 0x4020 and the end of the address space, such  *)
(* as the PRG data the loader copies to 0xC000, is stored whole: it can be *)
(* read back byte by byte, and nothing else has changed.                   *)
THEOREM SliceReadsBack ==
  ASSUME NEW addr, InCartridge(addr), NEW s \in Seq(Byte),
         ~ OutOfBounds(addr, Len(s)), write_slice(addr, s)
  PROVE  /\ reply'.answer = "ok"
         /\ \A i \in 1 .. Len(s) : Read8(mem', addr + i - 1) = s[i]
         /\ \A c : (\A i \in 1 .. Len(s) : addr + i - 1 # c)
              => Fetch(mem', c) = Fetch(mem, c)
<1> DEFINE stops(i) == ~ Mapped(addr + i - 1)
           n == Before(s, stops)
           latest(c) == Max(StoredAt(c, addr, Len(s)))
<1>1. Len(s) \in Nat /\ addr \in Word
  BY SMT DEF InCartridge
<1>2. \A i \in 1 .. Len(s) :
        /\ Mapped(addr + i - 1) /\ Cell(addr + i - 1) = addr + i - 1
        /\ \A j \in 1 .. Len(s) : addr + j - 1 = addr + i - 1 => j = i
  BY <1>1, CartridgeCells, Zenon
<1>3. StopsAt(n, s, {i \in 1 .. Len(s) : ~ Mapped(addr + i - 1)})
  BY WriteSliceStops, Zenon
<1>4. mem' = StoredFirst(addr, s, n)
      /\ (n = Len(s) => Returns("write_slice", addr, s, "ok", <<>>))
  BY Zenon DEF write_slice
<1> HIDE DEF n
<1>5. n = Len(s)
  <2>1. n \in 0 .. Len(s) /\ ~ (n < Len(s))
    <3>1. n < Len(s) /\ n \in 0 .. Len(s) => n + 1 \in 1 .. Len(s)
      BY <1>1, SMT
    <3> QED
      BY <1>2, <1>3, <3>1, Zenon DEF StopsAt
  <2> QED
    BY <1>1, <2>1, SMT
<1>6. reply'.answer = "ok"
  BY <1>4, <1>5, CallAnswered, SMT
<1>7. mem' = [c \in DOMAIN mem \cup {Cell(addr + i - 1) : i \in Stored(addr, Len(s))} |->
                IF StoredAt(c, addr, Len(s)) = {} THEN mem[c] ELSE s[latest(c)]]
  BY <1>4, <1>5, Zenon DEF StoredFirst, Stored, StoredAt
<1>8. Reaches(addr, s, Len(s))
  <2>1. Len(s) \in 0 .. Len(s)
    BY <1>1, SMT
  <2> QED
    BY <1>1, <2>1, WithinBounds, Zenon DEF Reaches
<1>9. ASSUME NEW i \in 1 .. Len(s) PROVE Read8(mem', addr + i - 1) = s[i]
  <2> DEFINE c == addr + i - 1
  <2>1. i \in StoredAt(c, addr, Len(s)) /\ i \in Stored(addr, Len(s)) /\ Cell(c) = c
    BY <1>2, Zenon DEF StoredAt, Stored
  <2>2. latest(c) = i
    <3>1. latest(c) \in StoredAt(c, addr, Len(s))
      BY <1>8, <2>1, LastByte, Zenon
    <3>2. latest(c) \in 1 .. Len(s) /\ Cell(addr + latest(c) - 1) = c
      BY <3>1, Zenon DEF StoredAt, Stored
    <3> QED
      BY <1>2, <3>2, Zenon
  <2>3. c \in {Cell(addr + j - 1) : j \in Stored(addr, Len(s))}
    BY <2>1, Zenon
  <2> HIDE DEF c, latest
  <2>4. c \in DOMAIN mem' /\ mem'[c] = s[i]
    BY <1>7, <2>1, <2>2, <2>3, Zenon
  <2>5. Read8(mem', c) = s[i]
    BY <2>1, <2>4, Zenon DEF Read8, Fetch
  <2> QED
    BY <2>5 DEF c
<1>10. ASSUME NEW c, \A i \in 1 .. Len(s) : addr + i - 1 # c
       PROVE  Fetch(mem', c) = Fetch(mem, c)
  <2>1. \A i \in Stored(addr, Len(s)) : Cell(addr + i - 1) # c
    BY <1>2, <1>10, Zenon DEF Stored
  <2>2. StoredAt(c, addr, Len(s)) = {}
    BY <2>1, Zenon DEF StoredAt
  <2>3. c \in DOMAIN mem' <=> c \in DOMAIN mem
    BY <1>7, <2>1, Zenon
  <2>4. c \in DOMAIN mem => mem'[c] = mem[c]
    BY <1>7, <2>2, Zenon
  <2> QED
    BY <2>3, <2>4, Zenon DEF Fetch
<1> QED
  BY <1>6, <1>9, <1>10
=============================================================================
