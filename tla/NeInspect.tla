------------------------------ MODULE NeInspect -------------------------------
(***************************************************************************)
(* The programs on NE files: dump_relocs and the three formats of          *)
(* ne-inspect. Each reads the tables it needs, in an order of its own, and *)
(* goes on with an empty table where one is refused; the relocation lines  *)
(* name what an entry imports, through dump_relocs' 1-based lookup or      *)
(* ne-inspect's 0-based cache of module names.                             *)
(***************************************************************************)
EXTENDS RelocDump, NeTables

Tools == {"dump_relocs", "winedump", "detailed", "json"}

CONSTANT Jobs   \* the runs: [tool, file]

ASSUME JobsAssumption == Jobs \subseteq [tool : Tools, file : Files]

VARIABLES
  tool,    \* the program and format; it never changes
  step,    \* the table or listing it is at, by its number in Report
  lines,   \* the relocation lines: [entry, module, proc], names by position
  counts   \* the imports section: [index, procs] of each cached module

reportVars == <<tool, step, lines, counts>>
vars == <<dumpVars, tableVars, reportVars>>

(* What a program reads and lists. A table that is parsed again later is   *)
(* read here once, at its first use.                                       *)
Report ==
  [dump_relocs |-> <<"relocations", "modules", "lines">>,
   winedump    |-> <<"resident", "nonresident", "resources", "exports",
                     "relocations", "modules", "lines">>,
   detailed    |-> <<"exports", "resident", "nonresident", "modules", "relocations",
                     "imports", "resources", "lines">>,
   json        |-> <<"exports", "modules", "resources">>]

Init ==
  /\ \E job \in Jobs : tool = job.tool /\ file = job.file
  /\ phase = "header" /\ seg = 0 /\ pos = 0 /\ left = 0
  /\ entries = <<>> /\ chains = <<>>
  /\ TablesInit
  /\ step = 1 /\ lines = <<>> /\ counts = {}
-----------------------------------------------------------------------------
(* An alignment that is too much for the shifts that are printed, whatever *)
(* the segments: a debug build panics, a release build masks it.           *)
Overshift ==
  \/ tool \in {"dump_relocs", "winedump"} /\ file.header.alignment >= 32
  \/ tool = "json" /\ file.header.v5 /\ file.header.alignment >= 16

RefuseHeader ==
  /\ phase = "header" /\ ~ValidHeader /\ End("not_ne")
  /\ UNCHANGED <<tableVars, reportVars>>

ShiftPanics ==
  /\ phase = "header" /\ ValidHeader /\ Overshift /\ End("panic")
  /\ UNCHANGED <<tableVars, reportVars>>

AcceptHeader ==
  /\ phase = "header" /\ ValidHeader
  /\ phase' = "locate"
  /\ UNCHANGED <<file, seg, pos, left, entries, chains, tableVars, reportVars>>

Doing(name) ==
  /\ phase \in Phases \ {"header"}
  /\ step \in DOMAIN Report[tool] /\ Report[tool][step] = name

Done(name) == Doing(name) /\ step' = step + 1 /\ UNCHANGED <<tool, lines, counts>>
-----------------------------------------------------------------------------
(* A slot that is an export; the other slots are ordinals without one.     *)
HasExports == \E k \in 1 .. Len(content["exports"]) : Byte(content["exports"][k] + 1) # 0

(* winedump looks at the first byte of the entry table before it parses    *)
(* it; detailed looks for names only if there are exports.                 *)
Wanted(t) ==
  /\ tool = "winedump" /\ t = "exports" =>
       file.header.entry_size # 0 /\ Holds(Start(t), 1) /\ Byte(Start(t)) # 0
  /\ tool = "detailed" /\ t = "nonresident" => HasExports

BeginTable(t) ==
  /\ Doing(t) /\ Wanted(t)
  /\ SkipTable(t) \/ RefuseTable(t) \/ OpenTable(t)
  /\ UNCHANGED <<dumpVars, reportVars>>

WalkTable ==
  /\ phase \in Phases
  /\ ReadItem \/ FailItem \/ CloseTable
  /\ UNCHANGED <<dumpVars, reportVars>>

WalkPanics == phase \in Phases /\ RecordPanics /\ End("panic") /\ UNCHANGED <<tableVars, reportVars>>

EndTable(t) ==
  /\ Done(t) /\ table = "none" /\ (~Wanted(t) \/ verdict[t] # "unread")
  /\ UNCHANGED <<dumpVars, tableVars>>
-----------------------------------------------------------------------------
(* The relocation table: dump_relocs stops where ne-inspect goes on.       *)
ParseRelocations ==
  /\ Doing("relocations")
  /\ \/ tool = "dump_relocs" /\ (RefuseFile \/ Locate \/ RefuseEntry)
     \/ tool # "dump_relocs" /\ (StartTable \/ DropTable)
     \/ SkipSegment \/ OpenBlock \/ ReadEntry \/ CloseBlock
  /\ UNCHANGED <<tableVars, reportVars>>

(* The shift of a segment's offset in RelocationTable::parse, in 64 bits:  *)
(* the detailed report shifts nothing before, and a debug build panics.    *)
BlockPanics ==
  /\ Doing("relocations") /\ phase = "segments" /\ tool = "detailed"
  /\ seg < SegCount /\ SegmentOf(seg + 1).relocs /\ file.header.alignment >= 64
  /\ End("panic") /\ UNCHANGED <<tableVars, reportVars>>

EndRelocations ==
  /\ Done("relocations")
  /\ \/ StartPrint
     \/ phase = "no_table" /\ UNCHANGED dumpVars
  /\ UNCHANGED tableVars
-----------------------------------------------------------------------------
(* A relocation entry: its type, and for an import the module's 1-based    *)
(* index and the ordinal or the offset of the procedure's name.            *)
Kind(k) == Byte(entries[k].at + 1) % 4
Imports(k) == Kind(k) \in {1, 2}
Target1(k) == U16(entries[k].at + 4)
Target2(k) == U16(entries[k].at + 6)

NamesAt == TableAt(file.header.imports)

(* ModuleRefTable::get_name, 0-based. *)
ModuleString(i) == StringAt(NamesAt + U16(content["modules"][i + 1]))

(* build_module_cache: the 0-based indices of the modules with a name.     *)
Cache == {i \in 0 .. Len(content["modules"]) - 1 : ModuleString(i) # Unnamed}

(* resolve_import_ordinal_name: the index is 1-based. *)
DumpModule(index) ==
  IF index \in 1 .. Len(content["modules"]) THEN ModuleString(index - 1) ELSE Unnamed

(* Mutation of InspectModule: the cache looked up with the 1-based index. *)
InspectModuleRaw(index) == IF index \in Cache THEN ModuleString(index) ELSE Unnamed

(* module_name_str; index 0 becomes an index no cache has. *)
InspectModule(index) == IF index - 1 \in Cache THEN ModuleString(index - 1) ELSE Unnamed

ModuleName(index) ==
  IF tool = "dump_relocs" THEN DumpModule(index) ELSE InspectModule(index)

Line(k) ==
  [entry  |-> k,
   module |-> IF Imports(k) THEN ModuleName(Target1(k)) ELSE Unnamed,
   proc   |-> IF Kind(k) = 2 THEN StringAt(NamesAt + Target2(k)) ELSE Unnamed]

(* `index - 1` on index 0: a debug build panics.                           *)
IndexPanics(k) == tool # "dump_relocs" /\ Imports(k) /\ Target1(k) = 0

(* Mutation of Names: the index of the entry taken for one of the cache. *)
NamesRaw(k, i) ==
  /\ Imports(k) /\ Target1(k) \in Cache
  /\ Text(ModuleString(Target1(k))) = Text(ModuleString(i))

(* Entry k imports from a module with the name of the i-th.                *)
Names(k, i) ==
  /\ Imports(k) /\ Target1(k) - 1 \in Cache
  /\ Text(ModuleString(Target1(k) - 1)) = Text(ModuleString(i))

ImportPanics == Cache # {} /\ \E k \in 1 .. Len(entries) : IndexPanics(k)

(* print_imports_section, of the modules that have a name. *)
CountImports ==
  /\ Doing("imports")
  /\ step' = step + 1
  /\ counts' = {[index |-> i, procs |-> Cardinality({k \in 1 .. Len(entries) : Names(k, i)})] :
                 i \in Cache}
  /\ UNCHANGED <<dumpVars, tableVars, tool, lines>>

(***************************************************************************)
(* The order of the lines: winedump lists segment by segment, those with   *)
(* the RELOC_DATA flag, and the table's entries of the segment; the other  *)
(* programs list the table as it is.                                       *)
(***************************************************************************)
Listed(k) == tool = "winedump" => SegmentOf(entries[k].segment).relocs

Before(j, k) ==
  LET s == entries[j].segment
      t == entries[k].segment
  IN IF tool = "winedump" THEN s < t \/ (s = t /\ j < k) ELSE j < k

Pending ==
  {k \in 1 .. Len(entries) :
     Listed(k) /\ (lines = <<>> \/ Before(lines[Len(lines)].entry, k))}

NextLine(k) == k \in Pending /\ \A j \in Pending \ {k} : Before(k, j)

PrintLine ==
  /\ Doing("lines")
  /\ \E k \in 1 .. Len(entries) : NextLine(k) /\ lines' = Append(lines, Line(k))
  /\ IF tool = "dump_relocs" THEN PrintEntry ELSE UNCHANGED dumpVars
  /\ UNCHANGED <<tableVars, tool, step, counts>>

LinePanics ==
  \/ Doing("imports") /\ ImportPanics
  \/ Doing("lines") /\ \E k \in 1 .. Len(entries) : NextLine(k) /\ IndexPanics(k)

PanicIndex == LinePanics /\ End("panic") /\ UNCHANGED <<tableVars, reportVars>>

EndLines ==
  /\ Done("lines") /\ Pending = {}
  /\ UNCHANGED <<dumpVars, tableVars>>

Finish ==
  /\ phase \in Phases \ {"header"} /\ step \notin DOMAIN Report[tool]
  /\ End(IF phase = "print" THEN "ok" ELSE "reported")
  /\ UNCHANGED <<tableVars, reportVars>>

Next ==
  \/ RefuseHeader \/ ShiftPanics \/ AcceptHeader
  \/ \E t \in Tables : BeginTable(t) \/ EndTable(t)
  \/ WalkTable \/ WalkPanics
  \/ ParseRelocations \/ BlockPanics \/ EndRelocations
  \/ CountImports \/ PrintLine \/ PanicIndex \/ EndLines
  \/ Finish

Spec == Init /\ [][Next]_vars
-----------------------------------------------------------------------------
(* PROPERTIES *)

LineOK == [entry : Nat, module : Nat \cup {Unnamed}, proc : Nat \cup {Unnamed}]

TypeOK ==
  /\ DumpTypeOK /\ TablesTypeOK
  /\ tool \in Tools /\ step \in 1 .. Len(Report[tool]) + 1
  /\ lines \in Seq(LineOK) /\ counts \subseteq [index : Nat, procs : Nat]

(* The name of the module with a 1-based index, as the file has it: no     *)
(* module has one if the table of module references leaves the file.       *)
ReferencedModule(index) ==
  LET start == TableAt(file.header.modules)
      count == file.header.module_count
  IN IF start # 0 /\ Holds(start, 2 * count) /\ index \in 1 .. count
       THEN StringAt(NamesAt + U16(start + 2 * (index - 1)))
       ELSE Unnamed

(* The line of an entry as the file has its names.                         *)
ReferencedLine(k) ==
  [entry  |-> k,
   module |-> IF Imports(k) THEN ReferencedModule(Target1(k)) ELSE Unnamed,
   proc   |-> IF Kind(k) = 2 THEN StringAt(NamesAt + Target2(k)) ELSE Unnamed]

(***************************************************************************)
(* Whatever program lists the relocation table, it lists the entries in    *)
(* the table's order, each once, winedump's listing by segments too, and   *)
(* an import is named by the index-th module reference of the file and by  *)
(* the string at its offset (target_str of dump_relocs, wine_reloc_target  *)
(* and print_relocations_section of ne-inspect).                           *)
(***************************************************************************)
NamedByReference ==
  /\ \A k \in 1 .. Len(lines) : lines[k] = ReferencedLine(k)
  /\ phase = "ok" => Len(lines) = Len(entries)

(***************************************************************************)
(* Two sections of one detailed report agree: the number of procedures     *)
(* shown for a module in IMPORTS is the number of lines in RELOCATIONS     *)
(* that name this module (print_imports_section,                           *)
(* print_relocations_section).                                             *)
(***************************************************************************)
ImportsCounted ==
  phase = "ok" =>
    \A c \in counts :
      c.procs = Cardinality({k \in 1 .. Len(lines) :
                  /\ lines[k].module # Unnamed
                  /\ Text(lines[k].module) = Text(ModuleString(c.index))})

(* The table or listing was reached and left.                              *)
After(name) == \E i \in 1 .. step - 1 : Report[tool][i] = name

(* The course of a report: what is listed depends on what was read.        *)
Course ==
  /\ ~After("relocations") =>
       lines = <<>> /\ counts = {} /\ phase \notin {"print", "ok"}
  /\ After("relocations") => phase \notin {"header", "locate", "segments", "entries"}
  /\ phase \in {"header", "locate"} /\ tool # "dump_relocs" => seg = 0
  /\ After("modules") => verdict["modules"] # "unread"
  /\ lines # <<>> \/ counts # {} => After("modules")
  /\ After("lines") /\ phase \in {"print", "ok"} => Len(lines) = Len(entries)
  /\ phase = "ok" => After("lines")

Lined ==
  /\ Len(lines) <= Len(entries)
  /\ \A k \in 1 .. Len(lines) : lines[k] = ReferencedLine(k)
  /\ \A c \in counts :
       c.index \in Cache /\ c.procs = Cardinality({k \in 1 .. Len(entries) : Names(k, c.index)})

IInv == TypeOK /\ FromBlocks /\ OwnBytes /\ Filling /\ Walking /\ ModulesWalk /\ Course /\ Lined
=============================================================================
