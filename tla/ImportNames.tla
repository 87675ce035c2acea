----------------------------- MODULE ImportNames -----------------------------
(***************************************************************************)
(* The names behind an import fixup: the import module and procedure       *)
(* tables of an LE module, and disasm::import_reference, which counts the  *)
(* modules from 1 and finds a procedure by its byte offset in the table.   *)
(* A name is known by the position of its length byte in the view.         *)
(***************************************************************************)
EXTENDS EntryTable, SequencesExt, Utf8

Unnamed == -1

-----------------------------------------------------------------------------
(* Walking a table *)

(* Bit 7 of a length byte is an overload mark. *)
CharLen(p) == ByteAt(p) % 128

After(p) == p + 1 + CharLen(p)

(* A zero length ends a table, and so does a name that is cut off. *)
NameAt(p, limit) == p < limit /\ CharLen(p) # 0 /\ After(p) <= limit

Names(first, limit) ==
  LET from[p \in Nat] == IF NameAt(p, limit) THEN <<p>> \o from[After(p)] ELSE <<>>
  IN from[first]

(* as_str *)
Text(p) == IF IsUtf8([i \in 1 .. CharLen(p) |-> ByteAt(p + i)]) THEN p ELSE Unnamed
-----------------------------------------------------------------------------
(* The two tables *)

ModulesStart == Base + header.import_modules

HasModules == header.import_modules # 0 /\ header.import_module_count # 0

ModulesUnreadable == HasModules /\ ModulesStart >= TableEnd(ModulesStart)

ImportModules ==
  IF HasModules THEN Names(ModulesStart, TableEnd(ModulesStart)) ELSE <<>>

ProceduresStart == Base + header.import_procedures

(* A module table of its own, which a VxD does not have, where names are. *)
HasProcedures ==
  /\ header.import_procedures \notin {0, header.import_modules}
  /\ header.import_module_count # 0

(* The names end where the fixup section does, if its extent is usable: a  *)
(* sum that overflows the field also leaves the file.                      *)
ProceduresEnd ==
  LET section == Base + header.fixup_page_table + header.fixup_size
  IN IF header.fixup_page_table # 0 /\ section <= ViewEnd
       THEN section ELSE TableEnd(ProceduresStart)

(* The null entry in front is skipped. *)
FirstName == ProceduresStart + (IF ByteAt(ProceduresStart) = 0 THEN 1 ELSE 0)

ImportProcedures == IF HasProcedures THEN Names(FirstName, ProceduresEnd) ELSE <<>>

ProceduresUnreadable == header.import_procedures # 0 /\ ProceduresStart >= ViewEnd
-----------------------------------------------------------------------------
(* import_reference *)

Stored == [resolved |-> FALSE]   \* shown as the numbers of the record

ModuleOf(t) ==
  IF t.module \in DOMAIN ImportModules THEN Text(ImportModules[t.module]) ELSE Unnamed

(* Mutation of ProcedureOf: the offset taken for an index from 1. *)
ProcedureByIndex(t) ==
  IF t.kind = "name" /\ t.value \in DOMAIN ImportProcedures
    THEN Text(ImportProcedures[t.value]) ELSE Unnamed

(* import_procedure_at *)
ProcedureOf(t) ==
  IF t.kind = "name" /\ ProceduresStart + t.value \in ToSet(ImportProcedures)
    THEN Text(ProceduresStart + t.value) ELSE Unnamed

Reference(t) ==
  IF t.kind = "internal" \/ ModulesUnreadable \/ (t.kind = "name" /\ ProceduresUnreadable)
    THEN Stored
    ELSE [resolved |-> TRUE, module |-> ModuleOf(t), procedure |-> ProcedureOf(t)]

(* Ordinal 0 is looked up at index 0 - 1, which a debug build refuses; a   *)
(* release build finds nothing there.                                      *)
ReferencePanics(t) == t.kind # "internal" /\ ~ModulesUnreadable /\ t.module = 0
=============================================================================
