-------------------------------- MODULE NeFile --------------------------------
(***************************************************************************)
(* An NE file as the readers of new-executable see it: bytes behind        *)
(* bounds-checked reads, a header that is validated before anything else,  *)
(* and table offsets that the accessors turn into file offsets.            *)
(***************************************************************************)
EXTENDS Integers, Sequences, SequencesExt, FiniteSets, Utf8

CONSTANTS
  Files,      \* the files that may be read
  WordSize    \* the number of values of a u16

(***************************************************************************)
(* A file is                                                               *)
(*   len       its length                                                  *)
(*   bytes     the bytes that are not zero                                 *)
(*   mz, ne    whether the two signatures are there                        *)
(*   lfanew    where the NE header is said to be                           *)
(*   header    the fields used here: offsets of tables as stored, sizes    *)
(*   cut       the segment table runs past the end of the file             *)
(*   segments  [start, length, relocs]: the sector offset shifted, the     *)
(*             length as stored and the RELOC_DATA flag                    *)
(***************************************************************************)
Segment == [start : Nat, length : Nat, relocs : BOOLEAN]

Header ==
  [v5 : BOOLEAN, alignment : Nat, entries : Nat, entry_size : Nat, resources : Nat,
   resource_count : Nat, resident : Nat, modules : Nat, module_count : Nat,
   imports : Nat, names : Nat, names_size : Nat]

FileOK(f) ==
  /\ f.len \in Nat /\ f.lfanew \in Nat
  /\ DOMAIN f.bytes \subseteq 0 .. f.len - 1
  /\ \A p \in DOMAIN f.bytes : f.bytes[p] \in 1 .. 255
  /\ f.mz \in BOOLEAN /\ f.ne \in BOOLEAN /\ f.cut \in BOOLEAN
  /\ f.header \in Header /\ f.segments \in Seq(Segment)

ASSUME FilesAssumption == \A f \in Files : FileOK(f)
ASSUME WordAssumption == WordSize \in Nat \ {0}

VARIABLE file   \* the argument; it never changes
-----------------------------------------------------------------------------
Byte(p) == IF p \in DOMAIN file.bytes THEN file.bytes[p] ELSE 0

U16(p) == Byte(p) + 256 * Byte(p + 1)

(* get_slice: n bytes at p are in the file. *)
Holds(p, n) == p + n <= file.len

(* get_valid_ne_header: the two signatures, 60 bytes of a v4 header, and   *)
(* the 64 that are read whatever the version.                              *)
ValidHeader ==
  /\ Holds(0, 64) /\ file.mz
  /\ Holds(file.lfanew, 60) /\ file.ne /\ Holds(file.lfanew, 64)

(* The accessors of table offsets (ne_offset_to_file, cut to a u16).       *)
TableAt(rel) == IF rel = 0 THEN 0 ELSE (file.lfanew + rel) % WordSize

SegmentOf(n) == file.segments[n]
SegCount == Len(file.segments)

(* PascalString: a string that is readable and UTF-8 is known by the       *)
(* position of its length byte.                                            *)
Unnamed == -1

Text(p) == [i \in 1 .. Byte(p) |-> Byte(p + i)]

StringAt(p) ==
  IF Holds(p, 1) /\ Holds(p + 1, Byte(p)) /\ IsUtf8(Text(p)) THEN p ELSE Unnamed
=============================================================================
