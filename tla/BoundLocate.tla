----------------------------- MODULE BoundLocate -----------------------------
(***************************************************************************)
(* bound::locate of linear-executable: where in a file an LE/LX image      *)
(* lies, and which MZ header frames it.  An MZ header that a loader could  *)
(* use is trusted alone; behind any other first bytes the file is scanned  *)
(* for an image, and back from the image for the header that points at it. *)
(***************************************************************************)
EXTENDS Integers, FiniteSets, FiniteSetsExt

(* A file: its length, and its bytes at the positions that are not zero.   *)
FileOK(f) == f.len \in Nat /\ DOMAIN f.byte \subseteq 0 .. f.len - 1
             /\ \A p \in DOMAIN f.byte : f.byte[p] \in 1 .. 255

VARIABLES
  file,      \* the file; never changes
  location   \* [header_at, frame_at, found_by_scan] once the image is found

locateVars == <<file, location>>

DOS_SIGNATURE == 23117   \* "MZ"
LE_SIGNATURE == 17740
LX_SIGNATURE == 22604
W_SIGNATURES == {13143, 13399}   \* "W3" and "W4"
LE_HEADER_SIZE == 176
DOS_E_LFANEW_OFFSET == 60
DOS_RELOC_POINTER == 24
PAGE_SIZE_OFFSET == 40
-----------------------------------------------------------------------------
FileByte(p) == IF p \in DOMAIN file.byte THEN file.byte[p] ELSE 0
Word(p) == FileByte(p) + 256 * FileByte(p + 1)
Dword(p) == Word(p) + 65536 * Word(p + 2)
Holds(p, n) == p + n <= file.len

PowerOfTwo(p) ==   \* the double word at p
  \E k \in 0 .. 3 : /\ FileByte(p + k) \in {1, 2, 4, 8, 16, 32, 64, 128}
                    /\ \A j \in 0 .. 3 \ {k} : FileByte(p + j) = 0

IsImageAt(p) ==
  /\ Holds(p, LE_HEADER_SIZE) /\ Word(p) \in {LE_SIGNATURE, LX_SIGNATURE}
  /\ FileByte(p + 2) = 0 /\ FileByte(p + 3) = 0 /\ PowerOfTwo(p + PAGE_SIZE_OFFSET)

(* le-disasm's is_archive, which is asked first *)
IsArchive ==
  \/ Holds(0, 2) /\ Word(0) \in W_SIGNATURES
  \/ /\ Holds(DOS_E_LFANEW_OFFSET, 4) /\ Word(0) = DOS_SIGNATURE
     /\ Holds(Dword(DOS_E_LFANEW_OFFSET), 2)
     /\ Word(Dword(DOS_E_LFANEW_OFFSET)) \in W_SIGNATURES

(* trusted_dos_lfanew: a value whose low half is zero is not an offset *)
Lfanew == Dword(DOS_E_LFANEW_OFFSET)

TrustedDos ==
  /\ Holds(DOS_E_LFANEW_OFFSET, 4) /\ Word(0) = DOS_SIGNATURE /\ Word(DOS_RELOC_POINTER) = 64
  /\ Lfanew % 65536 # 0 /\ Lfanew > DOS_E_LFANEW_OFFSET /\ Lfanew < file.len

Images == {p \in 0 .. file.len - LE_HEADER_SIZE : p % 2 = 0 /\ IsImageAt(p)}

(* Mutation of Frames: e_lfanew counted from the start of the file. *)
FramesInFile(header_at) ==
  {p \in 0 .. header_at - DOS_E_LFANEW_OFFSET - 1 :
     Word(p) = DOS_SIGNATURE /\ Dword(p + DOS_E_LFANEW_OFFSET) = header_at}

(* The MZ headers that point at an image. *)
Frames(header_at) ==
  {p \in 0 .. header_at - DOS_E_LFANEW_OFFSET - 1 :
     Word(p) = DOS_SIGNATURE /\ p + Dword(p + DOS_E_LFANEW_OFFSET) = header_at}
-----------------------------------------------------------------------------
LocateInit == location = [header_at |-> 0, frame_at |-> 0, found_by_scan |-> FALSE]

Found(header_at, frame_at, by_scan) ==
  /\ location' = [header_at |-> header_at, frame_at |-> frame_at, found_by_scan |-> by_scan]
  /\ UNCHANGED file

LocateTrusted == TrustedDos /\ IsImageAt(Lfanew) /\ Found(Lfanew, 0, FALSE)

LocateAtStart == ~TrustedDos /\ IsImageAt(0) /\ Found(0, 0, FALSE)

IsFirstImage(p) == p \in Images /\ \A q \in Images : p <= q

(* The first image that is found, in its innermost frame. *)
LocateByScan ==
  /\ ~TrustedDos /\ ~IsImageAt(0)
  /\ \E header_at \in Images : \E frame_at \in Frames(header_at) :
       /\ IsFirstImage(header_at)
       /\ \A p \in Frames(header_at) : p <= frame_at
       /\ Found(header_at, frame_at, TRUE)

NoImage ==
  IF TrustedDos THEN ~IsImageAt(Lfanew)
  ELSE ~IsImageAt(0) /\ \A p \in Images : IsFirstImage(p) => Frames(p) = {}
-----------------------------------------------------------------------------
(* LE::header_offset of the buffer that starts at p; -1 when it refuses.   *)
HeaderOffset(p) ==
  IF ~Holds(p, 2) \/ Word(p) # DOS_SIGNATURE THEN 0
  ELSE LET lfanew == Dword(p + DOS_E_LFANEW_OFFSET)
       IN IF Holds(p + DOS_E_LFANEW_OFFSET, 4) /\ lfanew >= 64 /\ p + lfanew < file.len
            THEN lfanew ELSE -1
=============================================================================
