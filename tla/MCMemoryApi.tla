---------------------------- MODULE MCMemoryApi ----------------------------
(***************************************************************************)
(* Calls of MemoryApi on both sides of every boundary between the arrays.  *)
(***************************************************************************)
EXTENDS MemoryApi

BoundaryAddresses == {\h07FE, \h07FF, \h0FFF, \h1000, \h2007, \h2008, \hFFFE, \hFFFF}
OneOrTwoBytes == {[size |-> 1, value |-> 1], [size |-> 2, value |-> \h0102]}
ShortSlices   == {<<>>, <<2, 1>>}
=============================================================================
