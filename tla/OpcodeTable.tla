---------------------------- MODULE OpcodeTable ----------------------------
(***************************************************************************)
(* The two 256-entry tables an instruction is looked up in:                *)
(* OPCODES (opcodes.rs), which names the handler, and MNEMONICS            *)
(* (mnemonics.rs), whose addressing mode gives the length through          *)
(* get_opcode_size (cpu.rs).  They are separate tables, and the code       *)
(* checks nowhere that they agree.                                         *)
(***************************************************************************)
EXTENDS Integers

(* OPCODES[0x00 .. 0x7F].0 *)
LowHandler(op) ==
  CASE op = \h00 -> "brk_implied"       [] op = \h01 -> "ora_indirect_x"
    [] op = \h05 -> "ora_zero_page"     [] op = \h06 -> "asl_zero_page"
    [] op = \h08 -> "php_implied"       [] op = \h0A -> "asl_accumulator"
    [] op = \h0D -> "ora_absolute"      [] op = \h0E -> "asl_absolute"
    [] op = \h10 -> "bpl_relative"      [] op = \h11 -> "ora_indirect_y"
    [] op = \h15 -> "ora_zp_x"          [] op = \h18 -> "clc_implied"
    [] op = \h19 -> "ora_absolute_y"    [] op = \h20 -> "jsr_absolute"
    [] op = \h24 -> "bit_zero_page"     [] op = \h28 -> "plp_implied"
    [] op = \h2C -> "bit_absolute"      [] op = \h30 -> "bmi_relative"
    [] op = \h38 -> "sec_implied"       [] op = \h40 -> "rti_implied"
    [] op = \h48 -> "pha_implied"       [] op = \h60 -> "rts_implied"
    [] op = \h68 -> "pla_implied"       [] op = \h78 -> "sei_implied"
    [] op \in {\h04, \h0C, \h14, \h1A, \h1C, \h34, \h3A, \h3C, \h44, \h54,
               \h5A, \h5C, \h64, \h74, \h7A, \h7C} -> "nop_immediate"
    [] OTHER -> "ins_nullfunc"

(* OPCODES[0x80 .. 0xFF].0 *)
HighHandler(op) ==
  CASE op = \h8A -> "txa_implied"       [] op = \h8D -> "sta_absolute"
    [] op = \h9A -> "txs_implied"       [] op = \h9D -> "sta_absolute_ix"
    [] op = \hA2 -> "ldx_immediate"     [] op = \hA9 -> "lda_immediate"
    [] op = \hAD -> "lda_absolute"      [] op = \hBD -> "lda_absolute_ix"
    [] op = \hCA -> "dex_implied"       [] op = \hD0 -> "bne_relative"
    [] op = \hD8 -> "cld_implied"       [] op = \hDD -> "cmp_absolute_ix"
    [] op = \hE8 -> "inx_implied"       [] op = \hF0 -> "beq_relative"
    [] op \in {\h80, \h82, \h89, \hC2, \hD4, \hDA, \hDC, \hE2, \hEA, \hF4,
               \hFA, \hFC} -> "nop_immediate"
    [] OTHER -> "ins_nullfunc"

Handler(op) == IF op < \h80 THEN LowHandler(op) ELSE HighHandler(op)

-----------------------------------------------------------------------------
(* Opcodes of one column of the 16 x 16 table *)
InColumn(column, rows) == {16 * row + column : row \in rows}

(* MNEMONICS[0x00 .. 0x7F].1: modes of two bytes (immediate, relative and   *)
(* every zero page mode) and of three (absolute, indexed and indirect)      *)
LowTwoByte ==
  InColumn(0, {1, 3, 5, 7}) \cup InColumn(1, 0 .. 7) \cup {\h24}
    \cup InColumn(5, 0 .. 7) \cup InColumn(6, 0 .. 7) \cup InColumn(9, {0, 2, 4, 6})
(* Faulty variant: the absolute modes of column 13 are missing *)
LowThreeByteGap ==
  {\h20} \cup InColumn(9, {1, 3, 5, 7}) \cup InColumn(12, {2, 4, 6})
    \cup InColumn(14, 0 .. 7)
LowThreeByte ==
  {\h20} \cup InColumn(9, {1, 3, 5, 7}) \cup InColumn(12, {2, 4, 6})
    \cup InColumn(13, 0 .. 7) \cup InColumn(14, 0 .. 7)

(* MNEMONICS[0x80 .. 0xFF].1 *)
HighTwoByte ==
  InColumn(0, {9, 10, 11, 12, 13, 14, 15}) \cup InColumn(1, 8 .. 15) \cup {\hA2}
    \cup InColumn(4, {8, 9, 10, 11, 12, 14}) \cup InColumn(5, 8 .. 15)
    \cup InColumn(6, 8 .. 15) \cup InColumn(9, {10, 12, 14})
HighThreeByte ==
  InColumn(9, {9, 11, 13, 15}) \cup InColumn(12, {8, 10, 11, 12, 14})
    \cup InColumn(13, 8 .. 15) \cup InColumn(14, {8, 10, 11, 12, 13, 14, 15})

(* get_opcode_size: EMPTY and the implied modes are one byte *)
Size(op) == IF op \in LowThreeByte \cup HighThreeByte THEN 3
            ELSE IF op \in LowTwoByte \cup HighTwoByte THEN 2
            ELSE 1
=============================================================================
