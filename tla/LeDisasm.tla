------------------------------- MODULE LeDisasm -------------------------------
(***************************************************************************)
(* The run of the le-disasm program: find the image in the file, take its  *)
(* entry point, build the fixup maps when asked, pick the listing targets  *)
(* from the options, and for each target build the object image and sweep  *)
(* its window.                                                             *)
(***************************************************************************)
EXTENDS ImportNames, FixupMaps, CodeSweep

CONSTANTS
  Inputs,  \* what may be run: [file, header, module, request]
  None

(* Options as main accepts them: --count is at least 1, object and offset  *)
(* are any u32.                                                            *)
RequestOK(r) ==
  /\ r.all \in BOOLEAN /\ r.fixups \in BOOLEAN
  /\ r.object \in Nat \cup {None} /\ r.offset \in Nat \cup {None}
  /\ r.count \in (Nat \ {0}) \cup {None}

(* A file, the fields of the image's header, and what the image's tables   *)
(* hold.  Object numbers are taken modulo 2^16 without loss.               *)
ASSUME InputsAssumption ==
  \A i \in Inputs :
    /\ FileOK(i.file) /\ HeaderOK(i.header) /\ RequestOK(i.request)
    /\ i.module \in Modules /\ Len(i.module.objects) < 65536

VARIABLES
  request,  \* the command line
  entry,    \* the entry point of the module: None or [object, offset, ordinal]
  phase,    \* "locate", "entry", "maps", "targets", "image", "sweep", "done"
            \* or a Failure
  targets,  \* listing targets: [object, offset]
  current,  \* index of the target being listed
  printed,  \* the notes of the listings completed so far, in order
  named     \* what each of them was shown to refer to

targetVars == <<targets, current, printed, named>>
runVars == <<request, entry, phase, targetVars>>

vars == <<locateVars, entryVars, mapVars, sweepVars, runVars>>

Failures == {"archive", "parse error", "usage error", "panic"}
-----------------------------------------------------------------------------
Init ==
  /\ \E i \in Inputs :
       file = i.file /\ header = i.header /\ module = i.module /\ request = i.request
  /\ LocateInit /\ EntryInit /\ MapsInit
  /\ start = 0 /\ length = 0 /\ off = 0 /\ lines = <<>>
  /\ notes = [at \in {} |-> <<>>]
  /\ entry = None
  /\ phase = "locate"
  /\ targets = <<>> /\ current = 1 /\ printed = <<>> /\ named = <<>>

Fail(f) == phase' = f /\ UNCHANGED <<request, entry, targetVars>>

Elsewhere == UNCHANGED <<locateVars, entryVars, mapVars, sweepVars>>

(* Nothing after the entry point is known. *)
Before == UNCHANGED <<mapVars, sweepVars, request, targetVars>>

RefuseFile ==
  /\ phase = "locate"
  /\ \/ IsArchive /\ Fail("archive")
     \/ ~IsArchive /\ NoImage /\ Fail("parse error")
  /\ Elsewhere

Locate ==
  /\ phase = "locate" /\ ~IsArchive
  /\ LocateTrusted \/ LocateAtStart \/ LocateByScan
  /\ phase' = "entry"
  /\ UNCHANGED <<entryVars, entry>> /\ Before

(* The parser finds a header where the view says it is, and objects. *)
Readable == Base >= 0 /\ "objects" \in module.decodable

EntryPhase == phase = "entry" /\ Readable

RefuseTables ==
  /\ phase = "entry" /\ ~Readable
  /\ Fail("parse error")
  /\ Elsewhere

AfterEntry(e) ==
  /\ entry' = e /\ phase' = IF request.fixups THEN "maps" ELSE "targets"
  /\ UNCHANGED <<locateVars, entryVars>> /\ Before

EntryFromHeader ==
  /\ EntryPhase /\ HeaderNames(module.objects)
  /\ AfterEntry([object |-> header.start_object, offset |-> header.eip, ordinal |-> None])

ReadEntryTable ==
  /\ EntryPhase /\ ~HeaderNames(module.objects)
  /\ EntryNext
  /\ UNCHANGED <<locateVars, phase, entry>> /\ Before

EntryFromTable ==
  /\ EntryPhase /\ verdict = "read" /\ ~HeaderNames(module.objects)
  /\ \E b \in 1 .. Len(bundles) : \E i \in 1 .. Len(bundles[b].entries) :
       FirstLoadable(module.objects, b, i) /\ AfterEntry(EntryOfBundle(b, i))

(* Also when the table cannot be walked: the error is dropped. *)
NoEntry ==
  /\ EntryPhase /\ ~HeaderNames(module.objects)
  /\ \/ verdict \in TableErrors
     \/ verdict = "read" /\ NoneLoadable(module.objects)
  /\ AfterEntry(None)

(* get_fixup_records fails. *)
MapsFail ==
  /\ phase = "maps" /\ "fixups" \notin module.decodable
  /\ Fail("parse error")
  /\ Elsewhere

BuildMaps ==
  /\ phase = "maps" /\ "fixups" \in module.decodable
  /\ MapsNext
  /\ UNCHANGED <<locateVars, entryVars, sweepVars, runVars>>

MapsBuilt ==
  /\ phase = "maps" /\ "fixups" \in module.decodable /\ ~Placing
  /\ phase' = "targets"
  /\ Elsewhere /\ UNCHANGED <<request, entry, targetVars>>

EntryOffset(k) == IF entry # None /\ entry.object = k THEN entry.offset ELSE 0

Vsize(k) == module.objects[k].vsize

PastEnd(k) == request.offset # None /\ request.offset >= Vsize(k)

Choose(ts) == phase' = "image" /\ targets' = ts
              /\ UNCHANGED <<request, entry, current, printed, named>>

ChooseAll ==
  /\ phase = "targets" /\ request.all
  /\ Choose([k \in Objects |-> [object |-> k, offset |-> EntryOffset(k)]])
  /\ Elsewhere

(* Object 0 is looked up at index 0 - 1: a debug build panics, a release   *)
(* build wraps to an index that no table has.                              *)
ChooseObject ==
  /\ phase = "targets" /\ ~request.all /\ request.object # None
  /\ LET k == request.object IN
       \/ k = 0 /\ Fail("panic")
       \/ k \notin Objects /\ Fail("usage error")
       \/ /\ k \in Objects
          /\ IF PastEnd(k) THEN Fail("usage error")
             ELSE Choose(<<[object |-> k,
                            offset |-> IF request.offset # None
                                         THEN request.offset
                                         ELSE EntryOffset(k)]>>)
  /\ Elsewhere

ChooseEntry ==
  /\ phase = "targets" /\ ~request.all /\ request.object = None
  /\ IF entry = None \/ PastEnd(entry.object) THEN Fail("usage error")
     ELSE Choose(<<[object |-> entry.object,
                    offset |-> IF request.offset # None THEN request.offset
                                                        ELSE entry.offset]>>)
  /\ Elsewhere

Target == targets[current]
Listing == phase = "image" /\ current <= Len(targets)

(* Mutations of WindowLength: the offset forgotten, and left unsaturated.  *)
WindowLengthWhole ==
  IF request.count # None /\ request.count < Vsize(Target.object)
    THEN request.count ELSE Vsize(Target.object)
WindowLengthSigned ==
  LET left == Vsize(Target.object) - Target.offset
  IN IF request.count # None /\ request.count < left THEN request.count ELSE left

(* The window: from the target's offset, at most count bytes, and nothing  *)
(* when an entry-table offset lies past the object's end.                  *)
WindowLength ==
  LET left == Vsize(Target.object) - Target.offset
  IN IF left <= 0 THEN 0
     ELSE IF request.count # None /\ request.count < left
       THEN request.count ELSE left

WindowStart == IF Target.offset < Vsize(Target.object)
                 THEN Target.offset ELSE Vsize(Target.object)

BeginListing ==
  /\ Listing /\ Target.object \notin module.broken
  /\ phase' = "sweep"
  /\ StartSweep(WindowStart, WindowLength,
                IF request.fixups THEN by_object[Target.object]
                                  ELSE [at \in {} |-> <<>>])
  /\ UNCHANGED <<locateVars, entryVars, mapVars, request, entry, targetVars>>

(* Mutation of ImageFails: the object is left out and the run goes on.     *)
ImageFailsSkip ==
  /\ Listing /\ Target.object \in module.broken
  /\ current' = current + 1
  /\ Elsewhere /\ UNCHANGED <<request, entry, phase, targets, printed, named>>

(* object_image fails: the objects before this one have been printed.      *)
ImageFails ==
  /\ Listing /\ Target.object \in module.broken
  /\ Fail("parse error")
  /\ Elsewhere

Sweep ==
  /\ phase = "sweep"
  /\ SweepNext
  /\ UNCHANGED <<locateVars, entryVars, mapVars, runVars>>

(* The lines are printed once all are there, each note with the names its  *)
(* target has.                                                             *)
TargetOf(note) == Record(note[1]).target

References(ns) == [i \in 1 .. Len(ns) |-> Reference(TargetOf(ns[i]))]

PrintingPanics ==
  /\ phase = "sweep" /\ Swept
  /\ \E i \in 1 .. Len(LineNotes) : ReferencePanics(TargetOf(LineNotes[i]))
  /\ Fail("panic")
  /\ Elsewhere

EndListing ==
  /\ phase = "sweep" /\ Swept
  /\ phase' = "image"
  /\ current' = current + 1
  /\ printed' = printed \o LineNotes
  /\ named' = named \o References(LineNotes)
  /\ Elsewhere /\ UNCHANGED <<request, entry, targets>>

Finish ==
  /\ phase = "image" /\ current > Len(targets)
  /\ phase' = "done"
  /\ Elsewhere /\ UNCHANGED <<request, entry, targetVars>>

Next == \/ RefuseFile \/ Locate \/ RefuseTables
        \/ EntryFromHeader \/ ReadEntryTable \/ EntryFromTable \/ NoEntry
        \/ MapsFail \/ BuildMaps \/ MapsBuilt
        \/ ChooseAll \/ ChooseObject \/ ChooseEntry
        \/ BeginListing \/ ImageFails \/ Sweep \/ PrintingPanics \/ EndListing
        \/ Finish

Spec == Init /\ [][Next]_vars
-----------------------------------------------------------------------------
(* PROPERTIES *)

EntryRecord == [object : Objects, offset : Nat, ordinal : (Nat \ {0}) \cup {None}]

TypeOK ==
  /\ FileOK(file) /\ HeaderOK(header) /\ RequestOK(request)
  /\ location.header_at \in Nat /\ location.frame_at \in 0 .. location.header_at
  /\ verdict \in {"unread", "walking", "read"} \cup TableErrors
  /\ pos \in Nat /\ next_ordinal \in Nat \ {0} /\ bundles \in Seq(BundleRecord)
  /\ entry \in EntryRecord \cup {None}
  /\ ModuleOK(module) /\ next \in 1 .. Len(module.records) + 1
  /\ slot \in Nat \ {0} /\ unmapped \in Nat
  /\ DOMAIN by_object = Objects /\ \A k \in Objects : NoteMap(by_object[k])
  /\ phase \in {"locate", "entry", "maps", "targets", "image", "sweep", "done"} \cup Failures
  /\ targets \in Seq([object : Objects, offset : Nat])
  /\ current \in 1 .. Len(targets) + 1 /\ printed \in Seq(Nat \X Nat)
  /\ Len(named) = Len(printed)
  /\ start \in Nat /\ length \in Nat /\ off \in 0 .. length /\ NoteMap(notes)

(* A sweep never leaves the object image it runs over. *)
WindowInsideImage ==
  phase = "sweep" => start + length <= Vsize(Target.object)

(***************************************************************************)
(* The header that the parser finds in Location::view is the one locate    *)
(* found: "so `header_offset()` lands on the image".  Two functions read   *)
(* e_lfanew, each with limits of its own, one of them relative to a frame. *)
(***************************************************************************)
Located == phase \notin {"locate", "archive", "parse error"}

ViewFindsImage ==
  Located => HeaderOffset(location.frame_at) = location.header_at - location.frame_at

(***************************************************************************)
(* "On the entry-table path the lowest exported entry is taken": an entry  *)
(* point carries the least ordinal of all exported code, counted over the  *)
(* whole table, the entries of unused bundles included.                    *)
(***************************************************************************)
Preceding(b) == {e \in (1 .. b - 1) \X (1 .. 255) : e[2] <= bundles[e[1]].count}

Ordinal(b, i) == i + Cardinality(Preceding(b))

EntryIsLowestExported ==
  entry # None /\ entry.ordinal # None =>
    LET exports == {e \in (1 .. Len(bundles)) \X (1 .. 255) :
                      /\ e[2] <= Len(bundles[e[1]].entries)
                      /\ Loadable(module.objects, e[1], e[2])}
    IN \E e \in exports :
         /\ entry = [object |-> bundles[e[1]].object, ordinal |-> Ordinal(e[1], e[2]),
                     offset |-> bundles[e[1]].entries[e[2]].offset]
         /\ \A f \in exports : entry.ordinal <= Ordinal(f[1], f[2])

(***************************************************************************)
(* The entry table has no length and is read as far as it can reach: no    *)
(* bundle runs into another table, the page area or behind the file, and a *)
(* table that was read ends where one of these begins or at a zero count   *)
(* (table_end, LE::get_entry_table).                                       *)
(***************************************************************************)
Bounds == {Base + rel : rel \in TablePointers \ {0}} \cup {header.data_pages, ViewEnd}

BundlesInTable ==
  /\ bundles # <<>> => \A b \in Bounds : b > Start => pos <= b
  /\ verdict = "read" /\ header.entry_table # 0 => pos \in Bounds \/ Count = 0

(***************************************************************************)
(* Imports are shown by the names the records refer to: module ordinals    *)
(* count the names of the module table from its start, one behind the      *)
(* other; a procedure name lies at the record's offset, counted from the   *)
(* null entry, no two of them share a byte, and a name that begins where a *)
(* shown one ends is found too.                                            *)
(***************************************************************************)
Shown(i) == named[i].resolved /\ named[i].module # Unnamed

ModulesByOrdinal ==
  \A i, j \in 1 .. Len(named) : Shown(i) =>
    LET m == TargetOf(printed[i]).module
        p == named[i].module
    IN /\ m = 1 => p = ModulesStart
       /\ Shown(j) /\ TargetOf(printed[j]).module = m + 1 => named[j].module = After(p)

Called(i) == named[i].resolved /\ named[i].procedure # Unnamed

ProceduresByOffset ==
  \A i, j \in 1 .. Len(named) : Called(i) =>
    LET p == named[i].procedure
        o == TargetOf(printed[j])
    IN /\ TargetOf(printed[i]).kind = "name" /\ p = ProceduresStart + TargetOf(printed[i]).value
       /\ CharLen(p) # 0 /\ After(p) <= ProceduresEnd
       /\ Called(j) /\ named[j].procedure > p => named[j].procedure >= After(p)
       /\ named[j].resolved /\ o.kind = "name" /\ ProceduresStart + o.value = After(p)
            /\ NameAt(After(p), ProceduresEnd) => named[j].procedure = Text(After(p))

FirstProcedure ==
  \A i \in 1 .. Len(named) :
    LET o == TargetOf(printed[i])
    IN named[i].resolved /\ o.kind = "name" /\ HasProcedures =>
         /\ o.value = 0 /\ ByteAt(ProceduresStart) = 0 => named[i].procedure = Unnamed
         /\ o.value = 1 /\ ByteAt(ProceduresStart) = 0 /\ NameAt(ProceduresStart + 1, ProceduresEnd)
              => named[i].procedure = Text(ProceduresStart + 1)

ImportsNamed == ModulesByOrdinal /\ ProceduresByOffset /\ FirstProcedure

(***************************************************************************)
(* End to end: when --all --fixups has listed every object in full, each   *)
(* source offset of each fixup record was printed exactly once, or counted *)
(* as lying outside every image; overlapping objects, instruction          *)
(* boundaries and slots patched twice change nothing about that.  When an  *)
(* image fails on the way, what is missing is the notes on that object and *)
(* on those behind it, and nothing of the objects in front.                *)
(***************************************************************************)
InFull ==
  /\ request.all /\ request.fixups /\ request.count = None
  /\ \A i \in 1 .. Len(targets) : targets[i].offset = 0

Unlisted == UNION {NotesOn(k) : k \in current .. Len(targets)}

EverySlotReported ==
  (phase = "done" \/ (phase = "parse error" /\ targets # <<>>)) /\ InFull =>
    /\ IsInjective(printed) /\ ToSet(printed) \cap Unlisted = {}
    /\ Len(printed) + Cardinality(Unlisted) + unmapped = Cardinality(AllSlots)
-----------------------------------------------------------------------------
(***************************************************************************)
(* The inductive invariant, a part for each stage of the run.              *)
(*                                                                         *)
(* The image and the entry point: bundles are numbered by the entries in   *)
(* front of them, the walk stays between the table's start and end, and    *)
(* nothing is an entry point before it is done.                            *)
(***************************************************************************)
InputOK ==
  /\ module \in Modules /\ Len(module.objects) < 65536
  /\ FileOK(file) /\ HeaderOK(header) /\ RequestOK(request)

LocationOK ==
  location.header_at \in Nat /\ location.frame_at \in 0 .. location.header_at

BundlesNumbered ==
  /\ next_ordinal = 1 + Cardinality(Preceding(Len(bundles) + 1))
  /\ \A b \in 1 .. Len(bundles) :
       /\ bundles[b].first_ordinal = 1 + Cardinality(Preceding(b))
       /\ bundles[b].count <= 255 /\ Len(bundles[b].entries) <= bundles[b].count

TableOK ==
  /\ verdict \in {"unread", "walking", "read"} \cup TableErrors
  /\ pos \in Nat /\ next_ordinal \in Nat \ {0} /\ bundles \in Seq(BundleRecord)
  /\ BundlesNumbered

WalkInTable ==
  /\ phase = "locate" => verdict = "unread"
  /\ verdict = "unread" => bundles = <<>>
  /\ verdict # "unread" => Base >= 0
  /\ bundles # <<>> \/ verdict = "walking" => pos <= End
  /\ verdict = "read" /\ header.entry_table # 0 => pos = End \/ Count = 0

EntryOK ==
  /\ entry \in EntryRecord \cup {None} /\ EntryIsLowestExported
  /\ phase \in {"locate", "entry"} => entry = None

FrontInv ==
  /\ InputOK /\ LocationOK /\ ViewFindsImage /\ TableOK /\ WalkInTable /\ EntryOK

(***************************************************************************)
(* The targets name objects that exist, all of them with --all, and a      *)
(* listing finds the maps complete.                                        *)
(***************************************************************************)
Chosen == phase \in {"image", "sweep", "done"} \/ targets # <<>>

TargetsOK ==
  /\ targets \in Seq([object : Objects, offset : Nat])
  /\ current \in 1 .. Len(targets) + 1
  /\ phase = "sweep" => current <= Len(targets)
  /\ phase = "done" => current = Len(targets) + 1
  /\ phase \in {"locate", "entry", "maps", "targets"} => targets = <<>> /\ current = 1
  /\ Chosen /\ request.all =>
       Len(targets) = Len(module.objects) /\ \A k \in Objects : targets[k].object = k
  /\ (Chosen \/ phase = "targets") /\ request.fixups => ~Placing

(* The sweep is the one of the current target, over that object's notes.   *)
WindowOK ==
  /\ NoteMap(notes)
  /\ \A at \in DOMAIN notes : ToSet(notes[at]) \subseteq AllSlots
  /\ phase = "sweep" =>
       /\ start = WindowStart /\ length = WindowLength
       /\ request.fixups => notes = by_object[Target.object]

(* What was printed, and in full the notes of the objects done so far.     *)
PrintedOK ==
  /\ printed \in Seq(AllSlots) /\ named = References(printed)
  /\ printed # <<>> => Base >= 0
  /\ phase \in {"locate", "entry", "maps", "targets"} => printed = <<>>
  /\ Chosen /\ InFull =>
       /\ IsInjective(printed)
       /\ ToSet(printed) = UNION {NotesOn(k) : k \in 1 .. current - 1}

IInv ==
  /\ phase \in {"locate", "entry", "maps", "targets", "image", "sweep", "done"} \cup Failures
  /\ FrontInv /\ MapsInv /\ TargetsOK /\ SweepInv /\ WindowOK /\ PrintedOK
=============================================================================
