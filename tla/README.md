# A TLA+ verification of blujewel

blujewel is a Rust workspace of two parsers for the executables of the 16/32-bit
transition, `linear-executable` (LE and LX modules, VxD archives of them) and
`new-executable` (NE modules), with the command-line programs built on them:
`le-disasm`, `le-extract`, `le-inspect`, `ne-inspect` and `dump-relocs`. Everything
it reads is a file somebody else wrote; every table in such a file may be cut off,
disordered, self-overlapping or wrong. The programs are sequential. What is hard
about them is not interleaving but *long sequences of legal steps over inconsistent
tables*: two functions that must agree on the same frame of reference, a cursor that
must mean the same before and after a record, a bound that is tested in one place and
relied on in another, a partial result that is already on the screen or on the disk
when a later step fails.

The project models the walks that carry this logic, model-checks them with TLC on
small files, and proves the invariants that matter with TLAPS for every file.

    tlc -workers 2 -config MCFixupTable.cfg MCFixupTable.tla    # one run
    tlapm FixupTable_proofs.tla                                 # one proof module

## 1. Inventory of the system

| Component | Code | State it keeps | Operations | Modelled by |
|---|---|---|---|---|
| Fixup records | `le.rs` `get_fixup_page_table`, `get_fixup_records`, `read_fixup_record` | the page-table row, the cursor, the records decoded | open, decode, refuse, next row | `FixupTable`, abstractly `RecordStream` |
| Object images | `le.rs` `get_object_table`, `get_page_table`, `read_page`, `decode_iterated`, `object_image` | the image, the page being decoded, the block being repeated | check the tables, add a page, expand a block, close | `PageImage` |
| Fixup maps | `disasm.rs` `build_fixup_maps` | object -> image offset -> notes, unmapped count | place a source offset, skip a record | `FixupMaps` |
| Listing | `disasm.rs` `list_code`, `notes_in` | the bytes swept, the lines | instruction, data byte | `CodeSweep` |
| le-disasm | `bin/le-disasm.rs` `run`, `print_line` | entry point, targets, the listing under way, what is printed | locate, take the entry point, build maps, choose targets, list each | `LeDisasm` |
| NE chains | `types.rs` `resolve_chain` | the link, the links so far | follow, end, refuse | `RelocChain` |
| NE relocation table, dump-relocs | `types.rs` `RelocationTable::parse`, `ne.rs` `logical_to_offset`, `get_segment_data`, `bin/dump_relocs.rs` | segment, cursor, entries left, table | locate, open a block, read an entry, print | `RelocDump`, `NeInspect` |
| NE entry, name, module, resource tables | `types.rs` `EntryTable`, `ResidentNameTable`, `NonResidentNameTable`, `ModuleRefTable`, `ResourceTable`, their `parse` | the table being read, a cursor, the items so far | open, read an item, fail, close | `NeTables` |
| ne-inspect | `bin/ne-inspect.rs` | the format, the step of the report, lines, import counts | read a table, name a line, count imports | `NeInspect` |
| W4 archive, DS codec | `w4.rs` | accepted chunk offsets, bit cursor, output | parse an offset, open a chunk, decode a token, copy a byte | `DsBlock`, abstractly `LzStream` |
| W3 archive, le-extract | `w3.rs`, `bin/le-extract.rs` | accepted members, selection, the files written | read a member, select, compare names, write | `Extract` |
| Bound images | `bound.rs` `locate`, `le.rs` `header_offset` | where the image and its frame are | archive test, trusted header, scan, frame | `BoundLocate` |
| LE entry table, entry point | `le.rs` `get_entry_table`, `table_end`, `disasm.rs` `entry_point` | cursor, next ordinal, bundles | open, read a bundle, refuse, pick an entry | `EntryTable` |
| LE import names | `le.rs` `get_import_modules`, `get_import_procedures`, `disasm.rs` `import_reference` | none beyond a cursor | walk a table, look a name up | `ImportNames` |
| LE resident, non-resident names | `le.rs` `walk_name_entries` | none beyond a cursor | table walks | not modelled |
| Headers, accessors | `headers.rs`, `lib.rs` | none | field reads, bit flags | assumptions on files |
| le-inspect | `bin/le-inspect.rs` | none | call the parsers, format | not modelled |

How they interact. The programs own a byte buffer and call the parsers on it; the
parsers share no mutable state and call nothing back. The couplings are conventions:

* `build_fixup_maps` takes the records of the fixup walk and turns a *row and an
  offset in a page* into an *offset in an object's image*. That offset means
  something only if `object_image` lays out the pages in exactly that way
  (`PatchedByte`, `PageFrame`, `ImageIsPages`).
* `locate` hands the parser a view of the file, and the parser looks for the header in
  it once more, with limits of its own (`ViewFindsImage`).
* `entry_point` numbers entries by what `get_entry_table` says of the bundles before
  them (`EntryIsLowestExported`), in a table whose end `table_end` infers from where the
  other tables begin (`BundlesInTable`).
* `import_reference` counts offsets along names that `get_import_procedures` returned,
  and modules from 1 where the walk counts from 0 (`ImportsNamed`).
* `ne-inspect` and `dump-relocs` keep module names in a table of their own, each with its
  own convention for the 1-based index, and list relocations in two different orders
  (`NamedByReference`, `ImportsCounted`).
* The NE tables have no common shape of an end: a count, a terminator or a bound. What a
  report shows of a table whose end is not reached is up to each caller (`WholeTables`).
* `list_code` looks the notes up by image offset while it moves in steps the
  instruction decoder chooses (`NotesListedOnce`, `EverySlotReported`).
* `member_standalone` moves fields that count from the container's start, in bytes
  that were cut out relative to the body's start (`PagesFollow`).
* `decompress` subtracts neighbouring chunk offsets because `parse` has put them in
  order (`SpansExist`).
* `print_entry` falls back to the start of the file because it does not know that
  an entry it prints comes from a segment that was located (`OwnBytes`).

Hard behaviours: cursors over inconsistent tables (fixup table, chunk table, member
table), loops whose end depends on file contents (relocation chains, sector breaks,
iterated blocks), the same byte addressed in two frames, the failure of a later step
after an earlier one has had an effect (le-disasm's printed objects, le-extract's
files), and 0-based against 1-based numbers everywhere. There is no shared-memory
concurrency, no persistence to recover and no network, so interleaving, crash recovery
and message loss have no counterpart here.

## 2. How the modules model the code

Every module takes the set of *files* (or segments, modules, containers) it may be
given as a CONSTANT with a named ASSUME that says what such a file is. A file is
reduced to what the walk reads: a field that is only passed through is not there; a
header that is refused is one value. The choice of file in `Init` is the only input;
from there each action is one iteration of the code's loop (or one early return), in
the code's order. A decoded record, byte or token that the code derives from the file
is derived by an operator with the code's arithmetic.

**FixupTable** (`image, outcome, row, pos, records`). `Open` is everything up to the
loops, `Decode` and `Refuse` the body of the inner loop with the whole of
`read_fixup_record` behind it, `NextRow` the outer loop. Record bytes are real bytes:
`FixedSize`, `ListSize` and `Fits` are the sizes and the two bounds of the code. The
contents of the target are left out, the widths that decide the record's length are
not. `RecordStream` is what the table *is*: one stream of records, each starting where
the last ended, on pages that never go back. `FixupTable` implements it for
`WellFormed` images (spans begin at 0, never dip and start on record boundaries).

**PageImage** (`file, number, phase, done, image, src, p, block, left, page`). The
page loop of `object_image`, one action per page kind, and inside an iterated page
the two loops of `decode_iterated`. `unit` is `1 << page_offset_shift`.

**BoundLocate** (`file, location`). A file is its length and its bytes. `locate` has no
state of its own; each way of finding the image is an action, the scans are sets of
positions (`Images`, `Frames`) and the one that is taken is the first or the last of
them. `HeaderOffset` is the parser's own reading of `e_lfanew` in the view.

**EntryTable** (`header, verdict, pos, next_ordinal, bundles`). `get_entry_table` bundle
by bundle over the file's bytes, and `entry_point`'s choice. The header is the fields
that are read, as numbers: the two entry fields, the table offsets, the page area.

**ImportNames**. The import tables and what `import_reference` makes of a target: pure
definitions over `EntryTable`'s file and header, the walk as a recursive function. A name
is the position of its length byte; whether its bytes are a text is **Utf8**, what
`core::str::from_utf8` accepts. `Reference` is what `print_line` shows.

**FixupMaps**, **CodeSweep**, **LeDisasm**. `LeDisasm` EXTENDS these two and the three
above and is the program: it adds the command line, the entry point, the targets and
what has been printed. The objects are those that `PageImage` accepts and the records
those that `FixupTable` yields, *decoded* (`decodable` says which of the two tables can
be read at all). A note stands for its
record and the source offset that placed it, which is what lets a property say
"printed exactly once"; `named` is what each printed note was shown to refer to. Module
ordinal 0 makes `import_reference` compute 0 - 1: `PrintingPanics` is a debug build, an
unnamed module a release build. The decoder is external (iced-x86): any instruction length up to
`MaxInstruction`, or none, at every offset. `broken` names the objects whose
`object_image` fails, so that the run ends with earlier objects printed.

**RelocChain** (`data, pos, links, outcome`). The loop of `resolve_chain`, with the
segment's bytes.

**NeFile** (`file`). The NE file the following three read: header fields, segment records
and bytes, with the two functions that find a table (`TableAt`, which cuts its offset to
16 bits) and a string (`StringAt`: in the file, and UTF-8 by the definition of `Utf8`). Its
bytes are arbitrary. `WordSize` stands for 2^16, and is 256 in the run, so that
an offset wraps and a count of ordinals overflows in small files.

**RelocDump** (`phase, seg, pos, left, entries, chains`). The file side of `dump_file`:
`Locate` is the listing of segments (with the underflow of an empty segment that starts
behind the end of the file, as a panic), then `RelocationTable::parse` segment by segment
and entry by entry, then one step per entry with the bytes its chain is walked in; the walk
itself is `RelocChain`.

**NeTables** (`table, at, content, verdict`). The `parse` functions of the five other tables
as one walk: `OpenTable` or `RefuseTable`, `ReadItem` or `FailItem`, `CloseTable`. What
differs, the bound, the size of an item, the terminator and the error, is one operator per
idea with a case per table. A record of the entry table whose head straddles the table's end
makes `end - pos` underflow: `RecordPanics` in a debug build, a record read from behind the
table in a release build (finding 2).

**NeInspect** (`tool, step, lines, counts`). EXTENDS the two and runs one of four jobs, `dump_relocs` and
the three formats of `ne-inspect`, over a file of `Jobs`: `Report` is the order in which each
reads its tables and prints, and a table that is refused leaves the report without it. `NextLine` picks the entry that is printed next, in table order or, for winedump,
segment by segment; `Line` is what that program names of the target; `CountImports` is the
grouping of the IMPORTS section. Each program's own use of the 1-based module index is
modelled apart (`DumpModule`, `InspectModule`, `Names`). An alignment that is too much for a
shift panics a debug build where a report shifts by it first: winedump's 32-bit shifts at 32
(`ShiftPanics`), the 64-bit one in `RelocationTable::parse` at 64 (`BlockPanics`).

**DsBlock** (`file, phase, chunk_offsets, index, out, block_start, position, distance,
length, copied`). `W4Archive::parse` entry by entry, `decompress` chunk by chunk,
`ds_decompress` token by token and a match byte by byte, over the bits of the stored
chunk, which read as zero behind its end. **LzStream** knows neither bits nor stored
chunks: literals, periodic matches, raw chunks, one verdict. `DsBlock` implements it,
a match counting when it is complete.

**Extract** (`file, mode, pick, phase, members, selected, next, disk`). The member
table is accepted entry by entry; `Select` and `CheckNames` are the tests made before
anything is written; `WriteMember` is one iteration of `write_members` and may fail,
leaving nothing or a torn file. `ExitCode` is `main`'s. The name of a member is what
`file_name` makes of it, an image head is the three facts `member_standalone` uses.
Of the two fields that are moved `data_pages` is recorded; the other is moved by the
same operator. Words have `WordSize` values, so a wrong base wraps as in the code.

Abstractions common to all modules: error values are reduced to their constructor
(and table name where that tells two apart); text, layout, logging and the argument
parser are left out; `usize` is unbounded, except where the code works in `u32`.

## 3. What the runs check

Bounds are the constants of the .cfg files and the sets of the MC modules. They are
chosen by *shape*, not by size: every branch of the code and every way in which two
neighbouring entries can relate is there at least once, and the proofs of section 5
remove the bounds from the invariants they cover.

| Run | Instance | What it shows |
|---|---|---|
| `fixup_table` | every table of at most two records from nine forms (each source form, target form and optional field), with every page table of at most two rows over seven offsets, so that spans dip, overlap, stop or start inside a record | the records of a row tile its span (`SpansTiled`), a row with bytes has a record (`NoRowSkipped`), a record ends in the file and at most ten bytes behind the sentinel (`OverrunBounded`), a well-formed table is read as one stream (`ImplementsStream`) |
| `fixup_bound` | the same | finding 1 |
| `page_image` | LE files with pages of eight bytes, LX files with pages of four, three page entries of every kind in every slot, iterated blocks that repeat, overrun, are cut off or empty; six object tables | whole pages and no page too long (`PageFrame`), no accepted object lacks a row (`RowsExist`), the image is byte for byte what the tables describe, against a definition that does not use the walk (`ImageIsPages`) |
| `page_types` | the same | finding 3 |
| `le_disasm` | two objects over three pages (disjoint, overlapping, empty, short, long), up to two records with in-page, cross-page and outlying offsets, the image of one object failing, also behind one that was listed, ten command lines, three entry points, every decoder with instructions of up to three bytes; every entry table of up to three bundles of nine kinds, in a bare file and in one behind a stub, cut by another table, by the page area and by the end of the file; seventeen files that hide, frame or lack an image; five import module tables and six procedure tables (with names of one-byte and several-byte characters and some that are not texts), each under thirteen headers (bounded by the fixup section, another table, the page area or the file; missing, shared or outside), with fixups to every module and every offset | the parser lands on the image that was located (`ViewFindsImage`), the entry point is the lowest exported one of the whole table (`EntryIsLowestExported`), no bundle runs into another table, the page area or behind the view (`BundlesInTable`), slots are noted or unmapped and never both (`EverySlotCounted`), notes sit on the byte `object_image` puts there, also when the offset leads into the next row or the zeros behind the last (`PatchedByte`), each listed byte is on one line (`EachByteOnOneLine`), notes are listed once whatever the instruction boundaries (`NotesListedOnce`), windows stay in the image, `--all --fixups` without `--count` reports every slot, and when an image fails on the way, every slot of the objects in front of it (`EverySlotReported`), an import is shown by the name its ordinal or offset selects, and no other byte of the table passes for a name (`ImportsNamed`) |
| `reloc_chain` | every segment of up to five bytes over six byte values, from every start | a chain that meets itself is reported (`RepeatIsCorrupt`), links are a chain of the segment (`LinksAreChain`), work is bounded, every walk ends |
| `chain_cycle` | the same | finding 4 |
| `reloc_dump` | segments before, at and behind the end of small NE files, empty or not, with blocks that fit, are cut off or overlap; resident and non-resident name, entry, module and resource tables that end by terminator, count or bound, early, or in the middle of an item; imports by ordinal and by name of every module index from 0 on; module names that are texts of one-byte and two-byte characters and one that is not a text; alignments of 16, 32 and 64; read by dump-relocs and in the three formats of ne-inspect | a chain is walked in its own segment's bytes (`OwnBytes`), a printed relocation table is complete and in order (`TableComplete`), every other table is whole or dropped (`WholeTables`), each program names the module the file refers to (`NamedByReference`), IMPORTS counts what RELOCATIONS lists (`ImportsCounted`) |
| `export_bound` | the same | finding 2 |
| `ds_block` | every sequence of up to three tokens of ten kinds, with and without a history, whole and truncated; two-chunk archives whose matches try to reach the first chunk; raw chunks; far distances; refused tables | spans of a parsed archive exist (`SpansExist`), a block never goes on more than eight bits behind its chunk (`OverrunBounded`; eight is exact, seven fails), the output is the promised LZ stream (`ImplementsLz`), every call returns |
| `extract` | bodies of twelve bytes, up to three members in any order and on top of each other, names that clash only when cleaned or numbered, W3 and W4 bases, raw and rebased modes, four `--member` lists, failing writes | spans partition the body (`SpansApart`), a rebased file finds its pages (`PagesFollow`), no complete file is written twice (`WrittenOnce`), what a failure leaves is a prefix of the selection and one torn file at most (`PartialIsPrefix`) |
| `short_member` | the same | finding 5 |

`CHECK_DEADLOCK FALSE` is set because every model ends: the call returns or the
process exits. `Terminates` says that it does, and is checked where the end depends on
what the file says (`reloc_chain`, `ds_block`), not where a loop counts to a length. The
only fairness assumed is weak fairness of the whole next-state relation
(`WF_vars(Next)`): the code is a nest of loops in one thread, and a thread that can take
its next step takes it. `Terminates` is therefore a statement about the loops, not about
a scheduler: each mutant that breaks it is a loop that no longer advances.

## 4. Findings

1. `fixup_bound` (documentation). A source list is tested against the bound as if it
   followed the count byte, and read from behind the target. A record can end up to
   ten bytes behind the sentinel; the doc says "never past `bound`".
2. `export_bound` (code). `EntryTable::parse` reads both bytes of a record's head when only
   one of them is in the table, and then compares with `end - pos`, which underflows: a
   panic, or in a release build a record whose exports are read from behind the table. The
   doc says the table is "bounded by `ne_cbenttab` bytes".
3. `page_types` (documentation). `from_flags` masks two bits, so types 4 and 5, which
   "the parser must not silently ignore", are read as 0 and 1.
4. `chain_cycle` (documentation). The chain guard counts links, so a chain whose
   words overlap is called cyclic although no position repeats.
5. `short_member` (code). In rebased mode a member shorter than 0x8C bytes ends
   `le-extract` in a panic (exit code 101) instead of the documented exit code 1.

Two more disagreements are plain in the models and have no run of their own.
`ChooseObject`: `--object N` without `--offset` starts at the entry point when the entry
point is in N (`le-disasm.rs:305-308`); the usage text says 0 (`le-disasm.rs:33-34`).
`PrintingPanics`: a fixup that imports from module ordinal 0 makes `import_reference`
compute 0 - 1 (`disasm.rs:397`), which panics a debug build; the crate's doc says that
malformed input yields "an [`Error`], never a panic" (`lib.rs:29-30`). The other panics that
are outcomes of the models (object 0, an empty segment behind the end of a file, the shifts)
come of calls or files no doc makes a promise about.

## 5. What is proved

`*_proofs` modules EXTEND their component and `SequenceFacts` or the library's theorem
modules. They use only the named assumptions on the constants, so each theorem holds for
*every* file of the shape described there, of any length. Each proof has the same
outline: an inductive invariant defined beside the properties, in named parts (and
checked with TLC before it was proved), one lemma per action that disturbs it, one per
part, `Spec => []IInv` by PTL, and the theorems as projections. A refinement is proved
from the invariant: the initial states map to initial states, and one lemma per action
shows which abstract step it is, or that it is a stutter.

| Module | Theorems | Why the invariant is what it is |
|---|---|---|
| `SequenceFacts` | `NoEndlessDescent`; lemmas for the rows below | The facts the library does not state: induction on a natural number for one set (`NatInduction` of the library takes an operator, which no installed prover can instantiate), division and words, concatenation and `FlattenSeq`, and what a function defined by recursion on `0 .. N` satisfies when it calls itself further up (`Upward`), which is the shape of every walk along a table. `NoEndlessDescent`: the measures of `Descent` do not descend forever. |
| `FixupTable_proofs` | `TypeCorrect`, `RecordsTileSpans`, `EveryRowRead`, `OverrunIsBounded`, `WalksTheStream`, `WalkShrinks` | The tiling is not inductive without what the cursor means: it is the end of the row's last record, or the row's page-table entry (`Cursor`); without knowing that no record belongs to a later row (`RowsReached`); and that an open table lies inside the file (`Opened`). The size lemmas (`FieldSizes`, `RecordSizes`) bound the fields of a record by ten bytes for every pair of leading bytes. That the walk implements `RecordStream` (`ImplementsStream`) needs that it is always at a boundary of the one stream, and never past its row's span (`OnStream`). The boundaries are the range of a recursive function; the proof shows that they are one chain, so that no boundary lies strictly inside a record, and a record that begins before the end of a well-formed span also ends there. |
| `PageImage_proofs` | `TypeCorrect`, `WholePages`, `NoMissingRow`, `ImageOfObject`, `DecodingShrinks` | `RowsExist` needs the row under the cursor to belong to an accepted object with pages left (`InBlock`); then `RowInTable` is the arithmetic on 1-based numbers. `PageFrame` is inductive with `InBlock`. `ImageIsPages` compares the walk with a definition that does not use it: the image is what the rows so far describe (`PagesSoFar`), and a page being decoded is the beginning of its expansion (`DecodedSoFar`), the rest of which is the block being repeated and the blocks not yet read (`Unread`), until the page is full and the code drops what is left of it. |
| `LeDisasm_proofs` | `TypeCorrect`, `ViewIsTheImage`, `LowestExport`, `BundlesEndInTable`, `SlotsAccountedFor`, `NotesOnPatchedBytes`, `BytesOnOneLine`, `NotesOnLines`, `SweepsInsideImage`, `NoSlotLost`, `ImportsShownByName` | `IInv` has a part per stage, and each needs the one before it. *Image*: `bound.rs` accepts an `e_lfanew` above 0x3C, the parser one of at least 0x40; `FrameAgrees` shows that the three values between are impossible, because the image's "L" would have to lie on a byte of the field that is zero. *Entry point*: bundles carry the number of entries in front of them (`BundlesNumbered`), which orders the entries of different bundles; the walk is never behind the inferred end and stops there or at a zero count (`WalkInTable`), and that end is the least bound behind the start. *Maps*: a note lies where its record and offset say (`NotesPlaced`), every slot with such a place has its note there (`MappedNoted`), the others are those counted (`UnmappedCounted`); the counts are cardinalities of sets of slots, so no sum has to be reasoned about. An image is known byte by byte (`ImageShape`), so that a place and an image offset are compared by quotient and remainder of the page size (`NotesPatch`). *Listing*: a line keeps what has been swept (`SweepInv`), its notes included, only if its window is in the image, which needs the targets to name existing objects (`TargetsOK`) and the notes to be those of the target (`WindowOK`). *Output*: what was printed in full is the notes of the objects done (`PrintedOK`), and each note has one object (`NotedOnce`); so the notes of the objects still to come are what a listing that fails has left out (`NoSlotLost`). Names are compared by what the walk of `ImportNames`, a recursive function, says from each position on. The decoder is arbitrary. |
| `RelocChain_proofs` | `RepeatReported`, `ChainFollowed`, `WorkIsBounded`, `WalkShrinks` | That a chain which repeats can only end as corrupt is not inductive: it needs that after a repetition the rest of the walk is *periodic* with that distance (`Periodic`), so that the terminator and the outside of the segment, which are not among the links, are never reached. |
| `NeInspect_proofs` | `NeInspectTypeOK`, `ChainsInOwnBytes`, `RelocationsComplete`, `TablesWhole`, `LinesNamedByReference`, `ImportsCountedAlike` | `IInv` has a part per module: `DumpIInv` with `Filling` (the entries read so far are those the blocks up to the cursor announce, in their order; entries stem from readable blocks, `FromBlocks`, and a readable block lies behind a located segment, `BlockMeansLocated`), `TablesIInv` (the items read so far tile the table up to the cursor, and what was closed is whole), and the report's part (the lines are a prefix of the listing, each named by reference). `RelocationsComplete` compares a walk with a definition of its result without induction over data: the entries are described by their places (segment and index), and each step adds the next place. `LinesNamedByReference` needs that the segment-by-segment listing of winedump visits each entry once and in table order, which follows from the entries being in the order of their segments. |
| `Extract_proofs` | `TypeCorrect`, `PrefixOnDisk`, `SpansPartition`, `NoFileTwice`, `PagesFound` | That no whole file is replaced rests on the selection's names being different from the first write on (`NamesApart`), on nothing being written before that (`Untouched`), and on the files on disk being exactly those of the members done (`PartialIsPrefix`). The spans are minima of sets of starts: `SpanFacts` and `Covered` need a least and a greatest start, which `Smallest` gets from the well-foundedness of inclusion on finite sets. `PagesFound` assumes that an output is smaller than a word can count (`OutputsFit`; the run's instance satisfies it). |
| `DsBlock_proofs` | `TypeCorrect`, `SpansAlwaysExist`, `OverrunAlwaysBounded`, `DecodesLz`, `DecodingShrinks` | Neighbouring offsets can be subtracted because the accepted ones do not decrease (`Ascending`), lie in the data (`TypeOK`), and an open block belongs to one of them (`InChunk`). The bit lemmas (`PeekFacts`, `RunFacts`, `TokenFacts`) bound what a token can say for every bit pattern. A token of zero bits only ends the block or fails; one that goes on has a set bit, which lies in the chunk, and so bounds the overrun whatever the token's length. That the decoder implements `LzStream` (`ImplementsLz`) needs what a match under way has copied to repeat the bytes in front of it (`Copying`), a copy that reads what it has itself written included; the match is one abstract step, taken with its last byte. |

**Work that shrinks.** `Descent` compares measures of n natural numbers place by place,
the outermost loop first. In `FixupTable`, `PageImage`, `RelocChain` and `DsBlock`,
`WorkLeft` is such a measure of what the loops have left to do: rows, then bytes of a
span; pages, then bytes of the source, then repetitions; what the chain guard leaves;
offsets, then chunks, bits and bytes of a match. `StepShrinks` says that every action
lowers it, so that none is taken without effect, and `WalkShrinks` or `DecodingShrinks`
say it of every behaviour (`WorkShrinks`). With `NoEndlessDescent` it follows that no call
makes infinitely many iterations, for every file. The measures are natural numbers only
because of the invariants: the cursor of a block is at most eight bits behind its chunk
(`OverrunBounded`), a chunk being decoded is one of the table (`InChunk`), an object has
pages left while one is being expanded (`InBlock`), a chain is never longer than its guard
(`WorkBounded`). `WorkShrinks` was also checked on the instances of the four runs before
it was proved.

Only model-checked is the liveness property `Terminates` of `RelocChain` and `DsBlock`.
Half of it is the result above. The other half, that a call can take a next step until it
returns, is about `ENABLED` and fairness, which the prover does not handle. Every other
property of a passing run is proved, and the findings' violations are TLC
counterexamples.

## 6. What is not modelled

* Header structs and accessors: straight-line field reads. Where a check in them
  matters it is an assumption on the file or an outcome of the walk that makes it.
* The LE resident and non-resident names: two walks only `le-inspect` calls.
* `le-inspect`: it calls the parsers once and formats the result. Of `ne-inspect` the
  formatting, the header and segment fields, and the export names of the winedump format
  (`wine_export_name` and the ordinal map it reads).
* `ImportedNamesTable::parse`: no program calls it; names are found by offset.
* The text of names: a name is where it is stored, two names are compared byte by byte, and
  a module literally called `??(n)` is not taken for the placeholder `ne-inspect` prints when
  it has no name.
* `PtrNE`: `VecNE` over a raw pointer; its contract is about memory, not values.
* A stored `page_offset_shift` as wide as the word (the shift would overflow): `unit`
  is an unbounded number.

## 7. Plan

Order: what the other parts rest on first. Done: `FixupTable`/`RecordStream`,
`BoundLocate` + `EntryTable` + `Utf8` + `ImportNames` + `FixupMaps` + `CodeSweep` = `LeDisasm`,
`RelocChain`, `PageImage`, `DsBlock`/`LzStream`, `Extract`,
`Utf8` + `NeFile` + `RelocDump` + `NeTables` = `NeInspect`, and the seven proof modules
with `SequenceFacts`.

Proved: every invariant, action property and refinement that a passing run checks, and
for four of the walks whose length depends on the file's contents that they make finitely
many steps.

Next, the model: the resident and non-resident names of an LE module, and the export
names of the winedump format, which join the entry table with both name tables.
