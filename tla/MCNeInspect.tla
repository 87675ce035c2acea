----------------------------- MODULE MCNeInspect ------------------------------
(***************************************************************************)
(* Files of up to 200 bytes with the NE header at 64 and the tables from   *)
(* 128 on, one family for each table, one for the segments, one for the    *)
(* imports and one for files that are refused.                             *)
(***************************************************************************)
EXTENDS NeInspect

MCWordSize == 256

(* The bytes of a sequence laid down at p. *)
Laid(s, p) == [q \in {p + i - 1 : i \in {j \in 1 .. Len(s) : s[j] # 0}} |-> s[q - p + 1]]

NoTables ==
  [v5 |-> TRUE, alignment |-> 4, entries |-> 0, entry_size |-> 0, resources |-> 0,
   resource_count |-> 0, resident |-> 0, modules |-> 0, module_count |-> 0,
   imports |-> 0, names |-> 0, names_size |-> 0]

NE(header, bytes, segments, len) ==
  [len |-> len, lfanew |-> 64, mz |-> TRUE, ne |-> TRUE, cut |-> FALSE,
   header |-> header, segments |-> segments,
   bytes |-> [p \in DOMAIN bytes \cap (0 .. len - 1) |-> bytes[p]]]

Run(tools, files) == [tool : tools, file : files]
-----------------------------------------------------------------------------
(* Segments, empty or not, at the start of the data, inside, at the very   *)
(* end or behind it, with blocks that announce up to two entries, or far   *)
(* too many, and fit, are cut off or overlap.                              *)
Segments(starts, lengths) == [start : starts, length : lengths, relocs : BOOLEAN]

Blocks == {132 :> 1 @@ 134 :> 2 @@ 138 :> 1 @@ 150 :> 1 @@ 154 :> 2,
           129 :> 2 @@ 135 :> 1 @@ 138 :> 2 @@ 151 :> 1 @@ 158 :> 1}

SegmentFiles(segs) ==
  {NE(NoTables, b, s, 160) : b \in Blocks, s \in UNION {[1 .. n -> segs] : n \in 0 .. 2}}

SegmentRuns ==
  Run({"dump_relocs"}, SegmentFiles(Segments({128, 134, 150, 158, 159, 161}, {0, 1, 4})))
  \cup Run(Tools, SegmentFiles(Segments({134, 150}, {0, 1})))
-----------------------------------------------------------------------------
(* Names that are empty, fit, or leave the file or the table's size.       *)
NameRuns ==
  Run({"winedump"},
      {NE([NoTables EXCEPT !.resident = 64, !.names = abs, !.names_size = size],
          Laid(<<n, 65, 7, 0, m, 66, 67, 8>>, 128), <<>>, len) :
         abs \in {0, 128, 132, 200}, size \in {0, 1, 4, 12},
         n \in {0, 1, 3, 100}, m \in {0, 2}, len \in {128, 131, 136, 140}})

(* Two records of the entry table, of every kind of slot, in tables of     *)
(* every size up to their end and beyond.                                  *)
Record(count, type) ==
  <<count, type>> \o [i \in 1 .. count * SlotSize(type) |-> 0]

ExportTables ==
  {Record(c, t) \o Record(d, u) \o <<3>> : c \in 0 .. 2, t \in {0, 1, 255}, d \in 0 .. 1, u \in {0, 254}}
  \cup {Record(193, 0) \o Record(c, 0) : c \in {62, 63}}

ExportRuns ==
  Run({"json"},
      {NE([NoTables EXCEPT !.entries = rel, !.entry_size = size], Laid(e, 128), <<>>, len) :
         rel \in {64, 192}, size \in 0 .. 18, e \in ExportTables, len \in {136, 160}})
  \cup Run({"winedump", "detailed"},
      {NE([NoTables EXCEPT !.entries = 64, !.entry_size = size, !.names = 140, !.names_size = 5],
          Laid(e, 128), <<>>, 160) : size \in {0, 2, 5}, e \in ExportTables})

(* A resource table with up to two types of up to one resource, ended by   *)
(* its terminator, by the resident names or by the end of the file.        *)
ResourceType(type, records) ==
  <<type % 256, type \div 256, Len(records), 0, 0, 0, 0, 0>>
    \o FlattenSeq([i \in 1 .. Len(records) |->
         <<1, 0, 1, 0, 0, 0, records[i] % 256, records[i] \div 256, 0, 0, 0, 0>>])

ResourceTables ==
  {<<shift, 0>> \o ResourceType(a, r) \o ResourceType(b, <<>>) :
     shift \in {4, 16, 17}, a \in {0, 32769, 40, 90}, b \in {0, 32770},
     r \in {<<>>, <<32769>>, <<41>>, <<90>>}}

ResourceRuns ==
  Run({"json"},
      {NE([NoTables EXCEPT !.resources = rel, !.resource_count = 1, !.resident = res],
          Laid(t, 128), <<>>, len) :
         rel \in {0, 64}, res \in {0, 50, 74, 94}, t \in ResourceTables, len \in {129, 140, 170}})
-----------------------------------------------------------------------------
(* Two segments with three entries: internal, OS and import entries, of    *)
(* modules that exist or do not; two modules of one name and one whose     *)
(* name is not UTF-8 or is a character of two bytes, a table of module     *)
(* references that leaves the file.                                        *)
RelocEntry(kind, target1, target2) == <<5, kind, 0, 0, target1, 0, target2, 0>>

Some == {RelocEntry(0, 1, 2), RelocEntry(3, 1, 0), RelocEntry(1, 0, 9), RelocEntry(1, 1, 9),
         RelocEntry(1, 2, 9), RelocEntry(2, 3, 1), RelocEntry(2, 4, 90)}

ImportFile(e, f, g, count, last) ==
  NE([NoTables EXCEPT !.modules = 98, !.module_count = count, !.imports = 106],
     Laid(<<2, 0>> \o e \o f, 132) @@ Laid(<<1, 0>> \o g, 152)
       @@ Laid(<<1, 0, 3, 0, 5, 0, 0, 0>>, 162)
       @@ Laid(<<0, 1, 65, 1, 65>> \o last, 170),
     <<[start |-> 128, length |-> 4, relocs |-> TRUE],
       [start |-> 150, length |-> 2, relocs |-> TRUE]>>, 175 + Len(last))

ImportRuns ==
  Run({"dump_relocs", "winedump", "detailed"},
      {ImportFile(e, f, g, count, last) :
         e \in Some, f \in Some, g \in {RelocEntry(1, 1, 9), RelocEntry(2, 2, 3)},
         count \in {0, 3, 4, 20}, last \in {<<1, 255>>, <<2, 195, 164>>}})
-----------------------------------------------------------------------------
Plain == NE(NoTables, <<>>, <<>>, 160)

RefusedRuns ==
  Run(Tools,
      {[Plain EXCEPT !.len = len, !.mz = mz, !.ne = ne, !.lfanew = lf] :
         len \in {63, 124, 126, 160}, mz \in BOOLEAN, ne \in BOOLEAN, lf \in {64, 120}}
      \cup {[Plain EXCEPT !.cut = TRUE]}
      \cup {[Plain EXCEPT !.header.alignment = n, !.header.v5 = v] : n \in {16, 32}, v \in BOOLEAN}
      \cup {NE([NoTables EXCEPT !.alignment = 64], b, s, 160) :
              b \in Blocks, s \in [1 .. 2 -> Segments({134, 150}, {1})]})

MCJobs ==
  SegmentRuns \cup NameRuns \cup ExportRuns \cup ResourceRuns \cup ImportRuns \cup RefusedRuns

MCFiles == {job.file : job \in MCJobs}
=============================================================================
