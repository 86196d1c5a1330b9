--------------------------- MODULE CartridgeFile ---------------------------
(***************************************************************************)
(* Cartridge files, and what loading one may come to, in whole units of    *)
(* PRG and CHR data.  A file's content is a record: its length in bytes,   *)
(* whether the magic number is right, and the two sizes of its header.     *)
(***************************************************************************)
EXTENDS Integers

CONSTANTS
  Paths,  \* paths insert_rom may be given
  Disk    \* content of the file at each path where there is one

HeaderSize == 16
PrgUnit    == 16384
ChrUnit    == 8192

IsContent(f) == /\ f.length \in Nat /\ f.valid \in BOOLEAN
                /\ f.prg_size \in 0 .. 255 /\ f.chr_size \in 0 .. 255

ASSUME DiskAssumption ==
  DOMAIN Disk \subseteq Paths /\ \A p \in DOMAIN Disk : IsContent(Disk[p])

(* Loading goes past NESFile::new and is_valid *)
Accepted(p) ==
  /\ p \in DOMAIN Disk /\ Disk[p].valid
  /\ Disk[p].length >= HeaderSize + PrgUnit * Disk[p].prg_size
                                  + ChrUnit * Disk[p].chr_size

(* There is room for one unit of each kind.  PRG goes first: when it does   *)
(* not fit, nothing is stored, and when CHR does not fit, PRG stays.        *)
PrgFits(p) == Accepted(p) /\ Disk[p].prg_size <= 1
ChrFits(p) == PrgFits(p) /\ Disk[p].chr_size <= 1

(* The load replaces the PRG, the CHR data.  A size of 0 replaces nothing.  *)
StoresPrg(p) == PrgFits(p) /\ Disk[p].prg_size = 1
StoresChr(p) == ChrFits(p) /\ Disk[p].chr_size = 1
Answer(p)    == IF ChrFits(p) THEN "ok" ELSE "err"
=============================================================================
