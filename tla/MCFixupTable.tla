---------------------------- MODULE MCFixupTable ----------------------------
(***************************************************************************)
(* Fixup tables for TLC: record tables of up to two records taken from the *)
(* forms below (one per source form, target form and optional field) with  *)
(* every fixup page table of up to two pages whose entries are offsets     *)
(* into them, so spans that dip, overlap, stop inside a record or start    *)
(* inside one all occur.                                                   *)
(***************************************************************************)
EXTENDS FixupTable

CONSTANT Offsets   \* the page-table entries tried

Selector  == <<2, 0, 4, 0, 1>>                     \* internal, no target offset
Entry     == <<7, 3, 8, 0, 9>>                     \* entry-table target
ByOrdinal == <<8, 129, 1, 0, 1, 2>>                \* import, one-byte ordinal
Additive  == <<5, 7, 2, 0, 9, 1, 0>>               \* entry table plus additive
WideName  == <<7, 82, 2, 0, 1, 0, 3, 0, 0, 0>>     \* word module, dword name
List      == <<35, 0, 1, 7, 3, 0, 5, 0>>           \* one source offset, listed
EmptyList == <<34, 0, 0, 1>>                       \* a list of none
LongList  == <<34, 0, 6, 1>> \o [i \in 1 .. 12 |-> i % 2]
Undefined == <<1, 0>>                              \* source type 1

Forms == {Selector, Entry, ByOrdinal, Additive, WideName, List, EmptyList,
          LongList, Undefined}

\* The file may go on after the record table.
Slack == <<0, 0, 0>>

ByteTables == {f \o g \o Slack : f, g \in Forms} \cup {f : f \in Forms}

Intact(bytes, pages, rows) ==
  [page_table |-> "present", record_table |-> TRUE, rows |-> rows,
   pages |-> pages, bytes |-> bytes]

\* Headers that name no table, a cut one, or a page table without records.
Headers ==
  {[page_table |-> p, record_table |-> r, rows |-> 1,
    pages |-> [i \in 0 .. 1 |-> 5 * i], bytes |-> Selector] :
     p \in {"absent", "cut", "present"}, r \in BOOLEAN}

MCImages ==
  Headers \cup
  {Intact(b, p, 0) : b \in ByteTables, p \in [0 .. 0 -> {0, 5}]} \cup
  {Intact(b, p, 1) : b \in ByteTables, p \in [0 .. 1 -> Offsets]} \cup
  {Intact(b, p, 2) : b \in ByteTables, p \in [0 .. 2 -> Offsets]}
=============================================================================
