----------------------------- MODULE MCLeDisasm ------------------------------
(***************************************************************************)
(* Four sets of inputs.  Listings: modules of up to two objects over      *)
(* three pages of two bytes, with blocks that are disjoint, overlap, leave *)
(* a row to nobody or hold no page, and sizes below, at and above the      *)
(* pages' bytes; up to two records with in-page, cross-page and            *)
(* out-of-image source offsets; ten command lines.  Tables: an unframed   *)
(* and a framed image whose entry table is any three bundles of a menu,    *)
(* cut short in four ways.  Files: where a file may hide an image.         *)
(* Imports: module and procedure tables of every shape under fixups that   *)
(* name each module and each offset.                                       *)
(***************************************************************************)
EXTENDS LeDisasm

(* Files put together from byte strings at their positions. *)
At(at, bytes) == [p \in at .. at + Len(bytes) - 1 |-> bytes[p - at + 1]]

File(len, f) ==
  [len |-> len, byte |-> [p \in {q \in DOMAIN f : q < len /\ f[q] # 0} |-> f[p]]]

Image(at) == At(at, <<76, 69>>) @@ At(at + 40, <<1>>)
MZ(at, lfanew) == At(at, <<77, 90>>) @@ At(at + 60, <<lfanew>>)

Bare == File(176, Image(0))

Header(object, eip, table, pointers, pages) ==
  [start_object |-> object, eip |-> eip, entry_table |-> table,
   pointers |-> pointers, data_pages |-> pages,
   import_modules |-> 0, import_module_count |-> 0, import_procedures |-> 0,
   fixup_page_table |-> 0, fixup_size |-> 0]

NoEntries == Header(0, 0, 0, {}, 0)

Input(f, h, m, r) == [file |-> f, header |-> h, module |-> m, request |-> r]
-----------------------------------------------------------------------------
(* Listings *)

Obj(f, c, v) == [first |-> f, count |-> c, vsize |-> v]

Module(t, r, b, d) ==
  [page_size |-> 2, pages |-> 3, objects |-> t, records |-> r, broken |-> b,
   decodable |-> d]

Tables == {
  <<Obj(1, 2, 4), Obj(3, 1, 3)>>,   \* disjoint; the second one zero-extended
  <<Obj(2, 1, 1), Obj(1, 2, 4)>>,   \* overlap on row 1; first truncated
  <<Obj(2, 2, 4)>>,                 \* row 0 belongs to no object
  <<Obj(4, 0, 2), Obj(3, 1, 2)>> }  \* an object without pages

SourceLists == {<<>>, <<0>>, <<3>>, <<5, 1>>, <<2, 2>>}

To(kind, m, v) == [kind |-> kind, module |-> m, value |-> v]

Here == To("internal", 0, 0)

Recs == [page : 0 .. 2, sources : SourceLists, target : {Here}]

Again == [page : {0, 1}, sources : {<<2, 0>>}, target : {Here}]

On(page) == [page |-> page, sources |-> <<0>>, target |-> Here]
One == <<On(2)>>

ListedModules ==
  {Module(t, r, {}, {"objects", "fixups"}) :
     t \in Tables, r \in {<<a>> : a \in Recs} \cup {<<a, b>> : a \in Recs, b \in Again}}
  \cup {Module(t, One, {1}, {"objects", "fixups"}) : t \in Tables}
  \cup {Module(t, <<On(2), On(0)>>, {Len(t)}, {"objects", "fixups"}) : t \in Tables}
  \cup {Module(t, One, {}, d) : t \in Tables, d \in {{}, {"objects"}}}

Req(a, k, o, c, f) ==
  [all |-> a, object |-> k, offset |-> o, count |-> c, fixups |-> f]

Requests == {
  Req(TRUE, None, None, None, TRUE), Req(TRUE, None, None, None, FALSE),
  Req(TRUE, None, None, 1, TRUE),
  Req(FALSE, 2, None, 3, TRUE), Req(FALSE, 1, None, None, TRUE),
  Req(FALSE, 1, 1, None, TRUE), Req(FALSE, 0, None, None, FALSE),
  Req(FALSE, 9, None, None, FALSE), Req(FALSE, None, None, 1, TRUE),
  Req(FALSE, None, 4, None, TRUE) }

(* An entry past its object, 6, can only come from an entry table. *)
EntryAt6 == File(183, Image(0) @@ At(176, <<1, 1, 1, 0, 1, 6, 0>>))

Listings ==
  {Input(i[1], i[2], m, r) :
     i \in {<<Bare, NoEntries>>, <<Bare, Header(1, 1, 0, {}, 0)>>,
            <<EntryAt6, Header(1, 6, 176, {}, 0)>>},
     m \in ListedModules, r \in Requests}
-----------------------------------------------------------------------------
(* Tables *)

Bundles == {
  <<2, 0>>,                             \* unused: two ordinals, no bytes
  <<1, 1, 1, 0, 1, 5, 0>>,              \* exported
  <<2, 1, 1, 0, 0, 1, 0, 1, 2, 0>>,     \* the second one is exported
  <<1, 3, 1, 0, 1, 3, 0, 0, 0>>,        \* 32 bits wide
  <<1, 2, 1, 0, 0, 1, 0, 7, 0>>,        \* a call gate, not exported
  <<1, 4, 1, 0, 1, 1, 0, 9, 0, 0, 0>>,  \* a forwarder
  <<1, 1, 9, 0, 1, 0, 0>>,              \* of an object that does not exist
  <<1, 128>>,                           \* of no kind the format defines
  <<0>> }                               \* the terminator

TableBytes == {<<b>> : b \in Bundles} \cup Bundles \X Bundles \cup Bundles \X Bundles \X Bundles

Small == Module(<<Obj(1, 1, 2)>>, <<>>, {}, {"objects", "fixups"})
First == Req(FALSE, None, None, 1, FALSE)

Unframed(t) == LET b == FlattenSeq(t) IN File(176 + Len(b), Image(0) @@ At(176, b))
Framed(t) ==
  LET b == FlattenSeq(t) IN File(242 + Len(b), MZ(2, 64) @@ Image(66) @@ At(242, b))

TableInputs ==
  {Input(Unframed(t), Header(0, 0, 176, {}, 0), Small, First) : t \in TableBytes}
  \cup
  {Input(Framed(t), h, Small, First) :
     t \in Bundles \X Bundles,
     h \in {Header(9, 0, 176, {176, 183}, 0),  \* another table begins in this one
            Header(1, 2, 176, {0}, 243),       \* the page area does
            Header(0, 0, 300, {}, 0),          \* the table is past the file
            Header(1, 0, 176, {}, 0)}}         \* not needed: the header names the entry
  \cup
  {Input(File(177, Image(0) @@ At(176, <<1>>)), Header(0, 0, 176, {}, 0), Small, First)}
-----------------------------------------------------------------------------
(* Files *)

Stub == At(0, <<77, 90>>) @@ At(24, <<64>>)

Files == {
  File(300, Stub @@ At(60, <<80>>) @@ Image(80)),          \* a loadable MZ header
  File(300, Stub @@ At(60, <<82>>) @@ Image(80)),          \* and nothing where it points
  File(300, Stub @@ At(60, <<0, 0, 1>>) @@ MZ(70, 64) @@ Image(134)),  \* points nowhere
  File(276, MZ(0, 100) @@ Image(100)),                     \* flush with the end
  File(275, MZ(0, 100) @@ Image(100)),                     \* cut short
  File(400, MZ(0, 101) @@ Image(101)),                     \* at an odd offset
  File(400, MZ(0, 200) @@ MZ(100, 100) @@ Image(200)),     \* two frames
  File(400, MZ(100, 100) @@ Image(200)),                   \* one, within the file
  File(400, MZ(100, 200) @@ Image(200)),                   \* counts from the file's start
  File(400, MZ(139, 61) @@ Image(200)),                    \* overlaps the image it names
  File(400, Image(200)),                                   \* no frame
  File(400, MZ(0, 100) @@ At(100, <<76, 69>>) @@ MZ(110, 90) @@ Image(200)),  \* a magic alone
  File(400, MZ(0, 100) @@ At(140, <<3>>) @@ At(100, <<76, 88>>)),  \* a page size of 3
  File(400, At(0, <<87, 51>>)),                            \* an archive
  File(400, MZ(0, 100) @@ At(100, <<87, 52>>)),            \* behind its stub
  File(40, At(0, <<77, 90>>)), File(0, At(1, <<>>)) }

FileInputs == {Input(f, Header(1, 0, 0, {}, 0), Small, First) : f \in Files}
-----------------------------------------------------------------------------
(* Imports: the module names from 176 on, the procedure names behind them. *)

ModuleTables == {
  <<1, 65, 2, 66, 67, 0>>,    \* two names
  <<129, 65, 1, 200, 1, 66>>, \* an overload mark, a name that is not a text, no end
  <<2, 195, 164, 2, 195, 65, 0>>,  \* a character of two bytes, and half of one
  <<2, 65, 66, 5, 67>>,       \* the second one is cut off
  <<0>> }

ProcedureTables == {
  <<0, 1, 68, 2, 69, 70, 0>>,
  <<0, 2, 1, 69, 1, 70>>,    \* a name that holds another one's look
  <<1, 68, 1, 200>>,         \* no null entry
  <<0, 3, 226, 130, 172, 1, 70>>,  \* a character of three bytes
  <<0, 1, 68, 9>>,           \* the second one is cut off
  <<0>> }

Imported(h, modules, count, procedures, table, size) ==
  [h EXCEPT !.import_modules = modules, !.import_module_count = count,
            !.import_procedures = procedures, !.fixup_page_table = table, !.fixup_size = size]

ImportFile(m, p) ==
  File(176 + Len(m) + Len(p), Image(0) @@ At(176, m) @@ At(176 + Len(m), p))

ImportHeaders(m, p) ==
  LET at == 176 + Len(m)
      len == Len(p)
  IN {Imported(Header(1, 0, 0, {}, 0), 176, 1, at, t[1], t[2]) :
        t \in {<<0, 0>>,            \* up to the end of the file
               <<100, at + 1 - 100>>, <<100, at + 3 - 100>>, <<100, at + len - 100>>,
               <<100, at - 100>>,    \* the section ends where the names begin
               <<100, 1000>>}}       \* and outside the file
     \cup {Imported(Header(1, 0, 0, {}, at + 2), 176, 1, at, 0, 0),
           Imported(Header(1, 0, 0, {at + 3}, 0), 176, 1, at, 0, 0),
           Imported(Header(1, 0, 0, {}, 0), 176, 0, at, 0, 0),
           Imported(Header(1, 0, 0, {}, 0), 176, 1, 176, 0, 0),
           Imported(Header(1, 0, 0, {}, 0), 176, 1, 0, 0, 0),
           Imported(Header(1, 0, 0, {}, 0), 176, 1, 400, 0, 0),
           Imported(Header(1, 0, 0, {}, 0), 400, 1, at, 0, 0)}

Fixing(ts) ==
  Module(<<Obj(1, 1, 1)>>,
         [i \in 1 .. Len(ts) |->
            [page |-> 0, sources |-> <<0>>, target |-> ts[i]]],
         {}, {"objects", "fixups"})

ImportModuleSet == {
  Fixing(<<To("ordinal", 1, 7), To("ordinal", 2, 7), To("ordinal", 3, 7), Here>>),
  Fixing([o \in 1 .. 7 |-> To("name", 1, o - 1)]),
  Fixing(<<Here, To("ordinal", 0, 1), To("name", 2, 1)>>) }

ImportInputs ==
  UNION {{Input(ImportFile(t[1], t[2]), h, m, Req(TRUE, None, None, None, TRUE)) :
            h \in ImportHeaders(t[1], t[2]), m \in ImportModuleSet} :
         t \in ModuleTables \X ProcedureTables}
-----------------------------------------------------------------------------
MCInputs == Listings \cup TableInputs \cup FileInputs \cup ImportInputs

MCModules == ListedModules \cup {Small} \cup ImportModuleSet
=============================================================================
