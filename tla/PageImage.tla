------------------------------ MODULE PageImage ------------------------------
(***************************************************************************)
(* LE::object_image of linear-executable: the object table and the object  *)
(* page table are read and checked, the pages of the object's block are    *)
(* read one after the other (read_page, with decode_iterated for iterated  *)
(* pages), and the result is cut or zero-extended to the virtual size.     *)
(***************************************************************************)
EXTENDS Integers, Sequences, SequencesExt, Descent

CONSTANTS
  Files,    \* the files that may be read
  Numbers   \* the object numbers that may be asked for

(***************************************************************************)
(* A file with a valid header, reduced to                                  *)
(*   lx, page_size, unit, last_bytes   the header's page geometry; unit is  *)
(*             1 << page_offset_shift, the shift below the width of usize  *)
(*   objects   [first, count, vsize], as stored                            *)
(*   pages     the module_pages entries of the page table: [slot, size,    *)
(*             flags]; slot is the LE page number or the LX data offset,   *)
(*             size the LX data size                                       *)
(*   cut       the tables that run past the end of the file                *)
(*   data      the file from data_pages on                                 *)
(***************************************************************************)
Byte == 0 .. 255

ObjectRecord == [first : Nat, count : Nat, vsize : Nat]
PageEntry == [slot : Nat, size : Nat, flags : Nat]

GeometryOK(f) ==
  /\ f.lx \in BOOLEAN /\ f.page_size \in Nat \ {0}
  /\ f.unit \in Nat /\ f.last_bytes \in Nat

ContentsOK(f) ==
  /\ f.objects \in Seq(ObjectRecord) /\ f.pages \in Seq(PageEntry)
  /\ f.cut \subseteq {"objects", "pages"}
  /\ f.data \in Seq(Byte)

ASSUME FilesAssumption == \A f \in Files : GeometryOK(f) /\ ContentsOK(f)
ASSUME NumbersAssumption == Numbers \subseteq Nat

VARIABLES
  file, number,  \* the arguments; they never change
  phase,         \* "start", "pages", "blocks", "repeat", "ok" or a failure
  done,          \* pages appended to the image
  image,         \* the image built so far
  src, p,        \* iterated page: the stored bytes and the read position
  block, left,   \* the block being repeated and the repetitions left
  page           \* the page decoded so far

decodeVars == <<src, p, block, left, page>>
vars == <<file, number, phase, done, image, decodeVars>>

Failures == {"TableOutOfBounds", "ObjectTableCorrupt", "ObjectNotFound",
             "PageNotFound", "PageDataCorrupt", "UnsupportedPageType", "panic"}
-----------------------------------------------------------------------------
PageSize == file.page_size
ModulePages == Len(file.pages)

Least(a, b) == IF a < b THEN a ELSE b

(* Vec::resize with zeros: cut or extended to n bytes. *)
Resize(s, n) == [i \in 1 .. n |-> IF i <= Len(s) THEN s[i] ELSE 0]

Object == file.objects[number]

(* Mutation of RecordOK: the block's last page number one too far. *)
RecordOKLoose(o) == o.first # 0 /\ o.first + o.count - 2 <= ModulePages

RecordOK(o) == o.first # 0 /\ o.first + o.count - 1 <= ModulePages

ObjectsOK ==
  "objects" \notin file.cut /\ \A k \in 1 .. Len(file.objects) : RecordOK(file.objects[k])

Init ==
  /\ file \in Files /\ number \in Numbers
  /\ phase = "start" /\ done = 0 /\ image = <<>>
  /\ src = <<>> /\ p = 0 /\ block = <<>> /\ left = 0 /\ page = <<>>

End(outcome) ==
  phase' = outcome /\ UNCHANGED <<file, number, done, image, decodeVars>>

(* get_object_table; every record is checked, whichever object is wanted. *)
RefuseObjects ==
  /\ phase = "start" /\ ~ObjectsOK
  /\ End(IF "objects" \in file.cut THEN "TableOutOfBounds" ELSE "ObjectTableCorrupt")

(* Object 0 is looked up at 0 - 1: a debug build panics, a release build   *)
(* wraps to an index no table has.                                         *)
NoSuchObject ==
  /\ phase = "start" /\ ObjectsOK
  /\ \/ number = 0 /\ End("panic")
     \/ number \notin 1 .. Len(file.objects) /\ End("ObjectNotFound")

FindObject ==
  /\ phase = "start" /\ ObjectsOK /\ number \in 1 .. Len(file.objects)
  /\ End("pages")
-----------------------------------------------------------------------------
(* read_page of the next page-table row of the block. *)

Row == Object.first - 1 + done
Entry == file.pages[Row + 1]
Type == Entry.flags % 4   \* PageType::from_flags

Found == "pages" \notin file.cut /\ Row < ModulePages

Offset == IF file.lx THEN Entry.slot * file.unit
                     ELSE (Entry.slot - 1) * PageSize

(* Mutation of OnDisk: the short page taken for the table's last row. *)
OnDiskLastRow ==
  IF file.lx THEN Entry.size
  ELSE IF Row + 1 = ModulePages THEN Least(file.last_bytes, PageSize)
  ELSE PageSize

(* The short LE page is the one stored in the module's last slot. *)
OnDisk ==
  IF file.lx THEN Entry.size
  ELSE IF Entry.slot = ModulePages THEN Least(file.last_bytes, PageSize)
  ELSE PageSize

Unnumbered == ~file.lx /\ Entry.slot = 0

Stored == Found /\ ~Unnumbered /\ Offset + OnDisk <= Len(file.data)

Raw == SubSeq(file.data, Offset + 1, Offset + OnDisk)

Reading == phase = "pages" /\ done < Object.count

(* Mutation of AddPage: a page that is already full-sized is not padded. *)
AddPageAsIs(bytes) ==
  /\ image' = image \o bytes
  /\ done' = done + 1 /\ phase' = "pages"
  /\ UNCHANGED <<file, number, decodeVars>>

AddPage(bytes) ==
  /\ image' = image \o Resize(bytes, PageSize)
  /\ done' = done + 1 /\ phase' = "pages"
  /\ UNCHANGED <<file, number, decodeVars>>

ZeroPage == Reading /\ Found /\ Type = 3 /\ AddPage(<<>>)

LegalPage == Reading /\ Found /\ Type = 0 /\ Stored /\ AddPage(Raw)

IteratedPage ==
  /\ Reading /\ Found /\ Type = 1 /\ Stored
  /\ src' = Raw /\ p' = 0 /\ block' = <<>> /\ left' = 0 /\ page' = <<>>
  /\ phase' = "blocks"
  /\ UNCHANGED <<file, number, done, image>>

RefusePage ==
  /\ Reading
  /\ \/ "pages" \in file.cut /\ End("TableOutOfBounds")
     \/ "pages" \notin file.cut /\ ~Found /\ End("PageNotFound")
     \/ Found /\ Type = 2 /\ End("UnsupportedPageType")
     \/ Found /\ Type \in {0, 1} /\ Unnumbered /\ End("PageDataCorrupt")
     \/ Found /\ Type \in {0, 1} /\ ~Unnumbered /\ ~Stored /\ End("TableOutOfBounds")
-----------------------------------------------------------------------------
(* decode_iterated: [iterations u16][length u16][length bytes] blocks. *)

WordOf(s, i) == s[i + 1] + 256 * s[i + 2]

Iterations == WordOf(src, p)
Length == WordOf(src, p + 2)

AtBlock == phase = "blocks" /\ p + 4 <= Len(src) /\ Len(page) < PageSize

BlockOK == Length # 0 /\ p + 4 + Length <= Len(src)

ReadBlock ==
  /\ AtBlock /\ Iterations # 0 /\ BlockOK
  /\ block' = SubSeq(src, p + 5, p + 4 + Length)
  /\ left' = Iterations
  /\ p' = p + 4 + Length
  /\ phase' = "repeat"
  /\ UNCHANGED <<file, number, done, image, src, page>>

CorruptBlock == AtBlock /\ Iterations # 0 /\ ~BlockOK /\ End("PageDataCorrupt")

(* Mutation of Repeat: repeated until the page is full. *)
RepeatUncounted ==
  /\ phase = "repeat"
  /\ IF Len(page) >= PageSize THEN phase' = "blocks" /\ UNCHANGED <<left, page>>
     ELSE /\ page' = page \o SubSeq(block, 1, Least(Len(block), PageSize - Len(page)))
          /\ left' = left - 1 /\ UNCHANGED phase
  /\ UNCHANGED <<file, number, done, image, src, p, block>>

Repeat ==
  /\ phase = "repeat"
  /\ IF left = 0 \/ Len(page) >= PageSize
       THEN phase' = "blocks" /\ UNCHANGED <<left, page>>
       ELSE /\ page' = page \o SubSeq(block, 1, Least(Len(block), PageSize - Len(page)))
            /\ left' = left - 1
            /\ UNCHANGED phase
  /\ UNCHANGED <<file, number, done, image, src, p, block>>

EndPage ==
  /\ phase = "blocks" /\ (AtBlock => Iterations = 0)
  /\ AddPage(page)
-----------------------------------------------------------------------------
CloseImage ==
  /\ phase = "pages" /\ done = Object.count
  /\ image' = Resize(image, Object.vsize)
  /\ phase' = "ok"
  /\ UNCHANGED <<file, number, done, decodeVars>>

Next == \/ RefuseObjects \/ NoSuchObject \/ FindObject
        \/ ZeroPage \/ LegalPage \/ IteratedPage \/ RefusePage
        \/ ReadBlock \/ CorruptBlock \/ Repeat \/ EndPage \/ CloseImage

Spec == Init /\ [][Next]_vars
-----------------------------------------------------------------------------
(* PROPERTIES *)

TypeOK ==
  /\ file \in Files /\ number \in Numbers
  /\ phase \in {"start", "pages", "blocks", "repeat", "ok"} \cup Failures
  /\ done \in Nat /\ image \in Seq(Byte)
  /\ src \in Seq(Byte) /\ block \in Seq(Byte) /\ page \in Seq(Byte)
  /\ p \in Nat /\ left \in Nat

(***************************************************************************)
(* "Each row reads to a full page_size, zero-padded when shorter", which   *)
(* is what build_fixup_maps computes with: after k pages the image holds   *)
(* exactly k pages of bytes, and a page being decoded is never longer.     *)
(***************************************************************************)
PageFrame ==
  phase \in {"pages", "blocks", "repeat"} =>
    Len(image) = done * PageSize /\ Len(page) <= PageSize

(***************************************************************************)
(* An object record that get_object_table accepts names rows that the page *)
(* table has: object_image never fails for want of a page.                 *)
(***************************************************************************)
RowsExist == phase # "PageNotFound"

(* The rows still to be read are rows of a checked object.                 *)
InBlock ==
  /\ phase \in {"pages", "blocks", "repeat"} =>
       ObjectsOK /\ number \in 1 .. Len(file.objects) /\ done <= Object.count
  /\ phase \in {"blocks", "repeat"} => done < Object.count
  /\ phase = "start" => done = 0 /\ image = <<>> /\ page = <<>>

IInv == TypeOK /\ InBlock /\ PageFrame /\ RowsExist

(***************************************************************************)
(* The image byte by byte, from the file: byte b of the block's page j is  *)
(* zero for a zero-filled page, byte b of the slot the entry names when    *)
(* the file stores that many bytes for it, and byte b of the expansion for *)
(* an iterated page.  The expansion is the blocks repeated in full.        *)
(***************************************************************************)
Rounds(b, n) == [j \in 1 .. n * Len(b) |-> b[((j - 1) % Len(b)) + 1]]

WholeBlock(s, i) ==
  /\ i + 4 <= Len(s) /\ WordOf(s, i) # 0 /\ WordOf(s, i + 2) # 0
  /\ i + 4 + WordOf(s, i + 2) <= Len(s)

BlockBytes(s, i) == SubSeq(s, i + 5, i + 4 + WordOf(s, i + 2))

ExpansionFrom(s, k) ==
  LET from[i \in 0 .. Len(s)] ==
        IF WholeBlock(s, i)
          THEN Rounds(BlockBytes(s, i), WordOf(s, i)) \o from[i + 4 + WordOf(s, i + 2)]
          ELSE <<>>
  IN from[k]

Expansion(s) == ExpansionFrom(s, 0)

SlotBytes(e) ==
  IF file.lx THEN SubSeq(file.data, e.slot * file.unit + 1,
                                    e.slot * file.unit + e.size)
  ELSE LET whole == SubSeq(file.data, (e.slot - 1) * PageSize + 1, e.slot * PageSize)
       IN IF e.slot < ModulePages \/ e.slot > ModulePages THEN whole
          ELSE SubSeq(file.data, (e.slot - 1) * PageSize + 1,
                                 (e.slot - 1) * PageSize + Least(file.last_bytes, PageSize))

PageBytes(e) ==
  CASE e.flags % 4 = 0 -> SlotBytes(e)
    [] e.flags % 4 = 1 -> Expansion(SlotBytes(e))
    [] OTHER           -> <<>>

(* Byte b of a page, zero behind the bytes it has. *)
ByteOf(bytes, b) == IF b >= Len(bytes) THEN 0 ELSE bytes[b + 1]

ImageIsPages ==
  phase = "ok" =>
    /\ Len(image) = Object.vsize
    /\ \A at \in 0 .. Object.vsize - 1 :
         LET j == at \div PageSize
         IN image[at + 1] =
              IF j >= Object.count THEN 0
              ELSE ByteOf(PageBytes(file.pages[Object.first + j]), at % PageSize)

(* The inductive invariant behind ImageIsPages: the pages appended so far, *)
(* and a page being decoded, with which its expansion begins; until it is  *)
(* full, the blocks not yet repeated hold all the rest.                    *)
PagesSoFar ==
  phase \in {"pages", "blocks", "repeat"} =>
    \A j \in 0 .. done - 1, b \in 0 .. PageSize - 1 :
      image[j * PageSize + b + 1] = ByteOf(PageBytes(file.pages[Object.first + j]), b)

Unread == ExpansionFrom(src, p)

DecodedSoFar ==
  phase \in {"blocks", "repeat"} =>
    /\ Type = 1 /\ src = SlotBytes(Entry) /\ p <= Len(src)
    /\ phase = "repeat" => block # <<>>
    /\ IF Len(page) < PageSize
         THEN Expansion(src) = page \o (IF phase = "repeat" THEN Rounds(block, left) \o Unread
                                                           ELSE Unread)
         ELSE IsPrefix(page, Expansion(src))

PageInv == IInv /\ PagesSoFar /\ DecodedSoFar /\ ImageIsPages

(***************************************************************************)
(* Each step leaves less to do, so no call of object_image steps forever:  *)
(* a page fewer, or within an iterated page fewer bytes of its source, or  *)
(* within a block fewer repetitions, of which a word counts 65535 at most. *)
(***************************************************************************)
WorkLeft ==
  CASE phase = "start"  -> <<2, 0, 0, 0>>
    [] phase = "pages"  -> <<1, 2 * (Object.count - done), 0, 0>>
    [] phase = "blocks" -> <<1, 2 * (Object.count - done) - 1, Len(src) - p, 0>>
    [] phase = "repeat" -> <<1, 2 * (Object.count - done) - 1, Len(src) - p, left + 1>>
    [] OTHER            -> <<0, 0, 0, 0>>

WorkShrinks == [][Descends(4, WorkLeft', WorkLeft)]_vars

(* "Type 4: range of pages [...] the parser must not silently ignore it";  *)
(* "other types yield UnsupportedPageType" (PageType, read_page).          *)
RangesRefused ==
  phase = "ok" =>
    \A j \in 0 .. Object.count - 1 : file.pages[Object.first + j].flags \notin {4, 5}
=============================================================================
