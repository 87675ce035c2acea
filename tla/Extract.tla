------------------------------- MODULE Extract -------------------------------
(***************************************************************************)
(* le-extract of linear-executable: a W3 body, whole or decompressed from  *)
(* a W4 container, is parsed member by member (W3Archive::parse_with_base);*)
(* the members asked for are named, the names compared, and each member's  *)
(* span is written, verbatim or behind a prefix with its two file-absolute *)
(* fields moved (member_span, member_standalone, write_members).           *)
(***************************************************************************)
EXTENDS Integers, Sequences, SequencesExt, FiniteSetsExt

CONSTANTS
  WordSize,    \* 2^32: offsets, sizes and fields are words of that size
  HeaderSize,  \* LE_HEADER_SIZE, 0xB0
  FieldsSize,  \* the bytes fields_of reads, 0x8C
  Stems,       \* the file names a member name may be cleaned to
  Numbered,    \* MEMBER1, MEMBER2, ...: for members whose name is cleaned away
  Files,       \* the containers
  Modes,       \* [raw, prefix]: --raw, or the length of the prefix
  Picks        \* the --member lists, empty for all members

Word == 0 .. WordSize - 1

(***************************************************************************)
(* A container, reduced to                                                 *)
(*   kind, at  "none", "w3" or "w4", and where its header sits             *)
(*   header    "ok", or what refuses it before the first member is read    *)
(*   len       the bytes of the W3 body (of the file, for a "w3")          *)
(*   members   the member table: [stem, file_offset, size]; the stem is    *)
(*             the name cleaned for the file system, "" if nothing is left *)
(*   image     what a body position holds, read as an image header         *)
(***************************************************************************)
Member == [stem : Stems \cup {""}, file_offset : Word, size : Word]
ImageHead == [le : BOOLEAN, data_pages : Word, non_resident_names : Word]

HeaderErrors == {"w4", "w3_header", "w3", "w3_members"}

FileOK(f) ==
  /\ f.kind \in {"none", "w3", "w4"} /\ f.at \in Word
  /\ f.header \in HeaderErrors \cup {"ok"} /\ f.len \in Word
  /\ f.members \in Seq(Member) /\ f.image \in [0 .. f.len -> ImageHead]

ASSUME SizesAssumption ==
  /\ WordSize \in Nat \ {0} /\ HeaderSize \in Nat
  /\ FieldsSize \in 0 .. HeaderSize
ASSUME ArgumentsAssumption ==
  /\ Numbered \in Seq(STRING)
  /\ \A f \in Files : FileOK(f) /\ Len(f.members) <= Len(Numbered)
  /\ \A mode \in Modes : mode.raw \in BOOLEAN /\ mode.prefix \in Word
  /\ \A pick \in Picks : pick \in Seq(Nat \ {0})

VARIABLES
  file, mode, pick,  \* the arguments; they never change
  phase,             \* "members", "select", "names", "write" or an outcome
  members,           \* the members accepted so far
  selected,          \* the numbers of the members to write, in order
  next,              \* how many of them have been written
  disk               \* what this run has written, by file name

vars == <<file, mode, pick, phase, members, selected, next, disk>>

args == <<file, mode, pick>>

Refusals == HeaderErrors \cup
  {"no_container", "w3_member_offset", "w3_member_size", "w3_member_data",
   "same_name", "w3_member_header", "InvalidSignature", "io"}

(* The process's exit code: main, usage_err and a panic of the runtime.    *)
ExitCode == [o \in Refusals \cup {"ok", "past_table", "panic"} |->
               CASE o = "ok" -> 0 [] o = "past_table" -> 3 [] o = "panic" -> 101
                 [] OTHER -> 1]

Outcomes == DOMAIN ExitCode
-----------------------------------------------------------------------------
Base == IF file.kind = "w4" THEN file.at ELSE 0   \* member_base

(* file_name: the member's number, counted from 1, where no name is left.  *)
FileName(i) ==
  IF members[i].stem = "" THEN Numbered[i] ELSE members[i].stem

Paths == Stems \cup ToSet(Numbered)

(* member_at and member_span: the smallest start behind this one.          *)
At(i) == members[i].file_offset - Base

(* Mutation of SpanStop: the next member of the table. *)
SpanStopNext(i) == IF i < Len(members) /\ At(i + 1) > At(i) THEN At(i + 1) ELSE file.len

SpanStop(i) ==
  Min({file.len} \cup {At(j) : j \in {k \in 1 .. Len(members) : At(k) > At(i)}})

SpanLen(i) == SpanStop(i) - At(i)
ImageAt(i) == file.image[At(i)]

(* Mutation of Shift: the member's position in the body. *)
ShiftInBody(i) == At(i) - mode.prefix

Shift(i) == members[i].file_offset - mode.prefix

Moved(i, field) == (field - Shift(i)) % WordSize

(* What is written for a member: a prefix, the bytes from At to SpanStop,  *)
(* and the two fields in them.                                             *)
Output(i) ==
  [complete |-> TRUE, prefix |-> IF mode.raw THEN 0 ELSE mode.prefix,
   from |-> At(i), to |-> SpanStop(i),
   data_pages |-> IF mode.raw THEN ImageAt(i).data_pages ELSE Moved(i, ImageAt(i).data_pages)]
-----------------------------------------------------------------------------
Init ==
  /\ file \in Files /\ mode \in Modes /\ pick \in Picks
  /\ phase = "members" /\ members = <<>> /\ selected = <<>> /\ next = 0
  /\ disk = [path \in {} |-> <<>>]

End(outcome) == phase' = outcome /\ UNCHANGED <<args, members, selected, next, disk>>

(* container_at, W4Archive and the header of the W3 body. *)
RefuseContainer ==
  /\ phase = "members" /\ members = <<>>
  /\ \/ file.kind = "none" /\ End("no_container")
     \/ file.kind # "none" /\ file.header # "ok" /\ End(file.header)

Parsing == phase = "members" /\ file.kind # "none" /\ file.header = "ok"

Entry == file.members[Len(members) + 1]

(* Mutation of InBody: the bound taken against the container's offset. *)
InBodyUnbased == Entry.file_offset >= Base /\ Entry.file_offset + Entry.size - Base - Base <= file.len

InBody == Entry.file_offset - Base + Entry.size <= file.len

(* One entry of the table; the start must not be negative, the end must be *)
(* a word, and the block must lie in the body.                             *)
ReadMember ==
  /\ Parsing /\ Len(members) < Len(file.members)
  /\ LET start == Entry.file_offset - Base
     IN \/ start < 0 /\ End("w3_member_offset")
        \/ start >= 0 /\ start + Entry.size >= WordSize /\ End("w3_member_size")
        \/ start >= 0 /\ start + Entry.size < WordSize /\ ~InBody /\ End("w3_member_data")
        \/ /\ start >= 0 /\ start + Entry.size < WordSize /\ InBody
           /\ members' = Append(members, Entry)
           /\ UNCHANGED <<args, phase, selected, next, disk>>

(* Every --member is looked at before any is taken. *)
Select ==
  /\ Parsing /\ Len(members) = Len(file.members)
  /\ IF \E k \in 1 .. Len(pick) : pick[k] > Len(members)
       THEN End("past_table")
       ELSE /\ selected' = IF pick = <<>> THEN [i \in 1 .. Len(members) |-> i] ELSE pick
            /\ phase' = "names"
            /\ UNCHANGED <<args, members, next, disk>>

(* Mutation of SameName: the names of the table compared. *)
SameNameInTable == \E j, k \in 1 .. Len(selected) :
  j < k /\ members[selected[j]].stem = members[selected[k]].stem
        /\ members[selected[j]].stem # ""

SameName == \E j, k \in 1 .. Len(selected) :
  j < k /\ FileName(selected[j]) = FileName(selected[k])

(* Mutation of CheckNames: a clash left to the file system. *)
CheckNamesLate == phase = "names" /\ phase' \in {"write", "io"}
                  /\ UNCHANGED <<args, members, selected, next, disk>>

(* The directory is created once the names are known to be apart. *)
CheckNames ==
  /\ phase = "names"
  /\ \/ SameName /\ End("same_name")
     \/ ~SameName /\ phase' \in {"write", "io"}
        /\ UNCHANGED <<args, members, selected, next, disk>>

Current == selected[next + 1]

Holding(output) ==
  [path \in DOMAIN disk \cup {FileName(Current)} |->
     IF path = FileName(Current) THEN output ELSE disk[path]]

Writing == phase = "write" /\ next < Len(selected)

(* fields_of reads the span before member_standalone has looked at it.     *)
RefuseMember ==
  /\ Writing /\ ~mode.raw
  /\ \/ SpanLen(Current) < FieldsSize /\ End("panic")
     \/ SpanLen(Current) \in FieldsSize .. HeaderSize - 1 /\ End("w3_member_header")
     \/ SpanLen(Current) >= HeaderSize /\ ~ImageAt(Current).le /\ End("InvalidSignature")

WriteMember ==
  /\ Writing
  /\ mode.raw \/ (SpanLen(Current) >= HeaderSize /\ ImageAt(Current).le)
  /\ \/ disk' = Holding(Output(Current)) /\ next' = next + 1 /\ UNCHANGED phase
     \/ disk' \in {disk, Holding([Output(Current) EXCEPT !.complete = FALSE])}
        /\ phase' = "io" /\ UNCHANGED next
  /\ UNCHANGED <<args, members, selected>>

Finish == phase = "write" /\ next = Len(selected) /\ End("ok")

Next == RefuseContainer \/ ReadMember \/ Select \/ CheckNames
        \/ RefuseMember \/ WriteMember \/ Finish

Spec == Init /\ [][Next]_vars
-----------------------------------------------------------------------------
(* PROPERTIES *)

OutputRecord == [complete : BOOLEAN, prefix : Word, from : 0 .. file.len,
                 to : 0 .. file.len, data_pages : Word]

TypeOK ==
  /\ file \in Files /\ mode \in Modes /\ pick \in Picks
  /\ phase \in {"members", "names", "write"} \cup Outcomes
  /\ members \in Seq(Member) /\ \A i \in 1 .. Len(members) : At(i) \in 0 .. file.len
  /\ selected \in Seq(1 .. Len(members))
  /\ next \in 0 .. Len(selected)
  /\ DOMAIN disk \subseteq Paths
  /\ \A path \in DOMAIN disk : disk[path] \in OutputRecord

(***************************************************************************)
(* The spans are a partition of the body behind the first member, however  *)
(* the table is sorted: two members that start apart share no byte, and    *)
(* every byte from the first start on belongs to a member (member_span).   *)
(***************************************************************************)
SpansApart ==
  phase = "write" =>
    /\ \A i, j \in 1 .. Len(members) : At(i) < At(j) => SpanStop(i) <= At(j)
    /\ \A b \in 0 .. file.len - 1 :
         (\E i \in 1 .. Len(members) : At(i) <= b)
           => \E i \in 1 .. Len(members) : At(i) <= b /\ b < SpanStop(i)

(***************************************************************************)
(* A rebased file finds its pages: the byte of the body that the stored    *)
(* data_pages named in the container's frame is the byte that the moved    *)
(* data_pages names in the file, wherever the pages lie in the span (the   *)
(* "same-length wrong answer" of member_standalone's doc).                 *)
(***************************************************************************)
PagesFollow ==
  \A path \in DOMAIN disk :
    LET written == disk[path]
        named == file.image[written.from].data_pages - Base
    IN ~mode.raw /\ named \in written.from .. written.to - 1 =>
         written.data_pages = written.prefix + (named - written.from)

(***************************************************************************)
(* "Two members may not be made to overwrite each other" (write_members):  *)
(* a file that was written completely is never written again.              *)
(***************************************************************************)
WrittenOnce == [][\A path \in DOMAIN disk :
                    disk[path].complete => disk'[path] = disk[path]]_vars

(***************************************************************************)
(* The files on disk are those of the members already done, in order, with *)
(* at most one more, cut short, if writing failed; and a selection that is *)
(* refused writes nothing.                                                 *)
(***************************************************************************)
PartialIsPrefix ==
  /\ {path \in DOMAIN disk : disk[path].complete} = {FileName(selected[k]) : k \in 1 .. next}
  /\ Cardinality({path \in DOMAIN disk : disk[path].complete}) = next
  /\ (\E path \in DOMAIN disk : ~disk[path].complete) => phase = "io"
  /\ phase = "ok" => next = Len(selected)
  /\ phase \in {"past_table", "same_name"} => DOMAIN disk = {}

(***************************************************************************)
(* The inductive invariant: the files on disk are those PartialIsPrefix    *)
(* describes because the names of the selection are known to be apart when *)
(* the first one is written, and nothing is written before.                *)
(***************************************************************************)
NamesApart == phase = "write" \/ next > 0 => ~SameName

Untouched ==
  /\ phase \in {"members", "names"} => disk = [path \in {} |-> <<>>] /\ next = 0
  /\ phase = "members" => selected = <<>>
  /\ Len(members) <= Len(file.members)

IInv == TypeOK /\ Untouched /\ NamesApart /\ PartialIsPrefix

(* "Exit codes: 0 = ok, 1 = parse error or an unwritable output, 3 = usage *)
(* error" (le-extract's module doc).                                       *)
ExitContract == phase \in Outcomes => ExitCode[phase] \in {0, 1, 3}
=============================================================================
