------------------------------- MODULE DsBlock -------------------------------
(***************************************************************************)
(* The compressed VxD archive (W4) of linear-executable: W4Archive::parse  *)
(* validates the chunk table entry by entry, W4Archive::decompress goes    *)
(* through the chunks, and ds_decompress decodes the tokens of one chunk,  *)
(* a match byte by byte.                                                   *)
(***************************************************************************)
EXTENDS Integers, Sequences, SequencesExt, Descent

CONSTANT Files   \* the files that may be read

(***************************************************************************)
(* A file with an archive, reduced to                                      *)
(*   header  "ok", or what parse_header or the table's bound refuses       *)
(*   ds      the codec id is "DS"                                          *)
(*   size    the header's chunk_size                                       *)
(*   table   the chunk offsets as stored, counted from the table's end     *)
(*   data    the file from the end of the chunk table on                   *)
(***************************************************************************)
Byte == 0 .. 255

HeaderErrors == {"w4_header", "w4", "w4_chunks"}

FileOK(f) ==
  /\ f.header \in HeaderErrors \cup {"ok"} /\ f.ds \in BOOLEAN
  /\ f.size \in Nat /\ f.table \in Seq(Int) /\ f.data \in Seq(Byte)

ASSUME FilesAssumption == \A f \in Files : FileOK(f)

VARIABLES
  file,           \* the argument; it never changes
  phase,          \* "parse", "chunks", "block", "copy", "ok" or a failure
  chunk_offsets,  \* the offsets accepted by parse
  index,          \* decompress: the chunk, counted from 0
  out,            \* the decompressed body so far
  block_start,    \* Len(out) when the block was opened
  position,       \* the bit cursor of the chunk
  distance, length, copied  \* the match being copied

cursorVars == <<block_start, position, distance, length, copied>>
vars == <<file, phase, chunk_offsets, index, out, cursorVars>>

Failures == HeaderErrors \cup
  {"w4_chunk_data", "w4_chunk_order", "UnsupportedCodec", "w4_chunk_size",
   "negative_span", "chunk_slice",
   "elias_gamma_decode", "ds_underflow", "ds_chunk_overflow"}

DS_SECTOR_BREAK == 4415
-----------------------------------------------------------------------------
Init ==
  /\ file \in Files
  /\ phase = "parse" /\ chunk_offsets = <<>> /\ index = 0 /\ out = <<>>
  /\ block_start = 0 /\ position = 0 /\ distance = 0 /\ length = 0 /\ copied = 0

Fail(reason) ==
  phase' = reason /\ UNCHANGED <<file, chunk_offsets, index, out, cursorVars>>

(* W4Archive::parse *)
RefuseHeader == phase = "parse" /\ file.header # "ok" /\ Fail(file.header)

Parsing == phase = "parse" /\ file.header = "ok"
Raw == file.table[Len(chunk_offsets) + 1]   \* the entry that is read

(* Mutation of InData: offsets before the end of the table allowed. *)
InDataLoose == Raw <= Len(file.data)

InData == Raw \in 0 .. Len(file.data)

(* Mutation of InOrder: the order not checked. *)
InOrderUnchecked == TRUE

InOrder == chunk_offsets # <<>> => chunk_offsets[Len(chunk_offsets)] <= Raw

ReadOffset ==
  /\ Parsing /\ Len(chunk_offsets) < Len(file.table)
  /\ \/ InData /\ InOrder
        /\ chunk_offsets' = Append(chunk_offsets, Raw)
        /\ UNCHANGED <<file, phase, index, out, cursorVars>>
     \/ ~InData /\ Fail("w4_chunk_data")
     \/ InData /\ ~InOrder /\ Fail("w4_chunk_order")

(* The two tests decompress makes before its loop. *)
StartBody ==
  /\ Parsing /\ chunk_offsets = file.table
  /\ Fail(CASE ~file.ds              -> "UnsupportedCodec"
            [] file.ds /\ file.size = 0 -> "w4_chunk_size"
            [] OTHER                 -> "chunks")
-----------------------------------------------------------------------------
(* decompress: one chunk after the other *)

Start == chunk_offsets[index + 1]

Stop == IF index + 1 < Len(chunk_offsets) THEN chunk_offsets[index + 2]
                                          ELSE Len(file.data)
Span == Stop - Start   \* stored_chunk_size
Stored == SubSeq(file.data, Start + 1, Stop)

InFile == 0 <= Start /\ Stop <= Len(file.data)

AtChunk == phase = "chunks" /\ index < Len(chunk_offsets)

(* Stored raw when the span is as long as the decoded chunk.  The errors   *)
(* of stored_chunk_size and get_slice come first.                          *)
OpenChunk ==
  /\ AtChunk
  /\ \/ Span < 0 /\ Fail("negative_span")
     \/ Span >= 0 /\ ~InFile /\ Fail("chunk_slice")
     \/ /\ Span >= 0 /\ InFile /\ Span = file.size
        /\ out' = out \o Stored /\ index' = index + 1
        /\ UNCHANGED <<file, phase, chunk_offsets, cursorVars>>
     \/ /\ Span >= 0 /\ InFile /\ Span # file.size
        /\ block_start' = Len(out) /\ position' = 0 /\ phase' = "block"
        /\ UNCHANGED <<file, chunk_offsets, index, out, distance, length, copied>>

Finish == phase = "chunks" /\ index = Len(chunk_offsets) /\ Fail("ok")
-----------------------------------------------------------------------------
(* The bits of a chunk: low bit first, and zero past its end *)

Pow2 == <<1, 2, 4, 8, 16, 32, 64, 128, 256, 512, 1024, 2048, 4096>>

(* Mutation of ByteOf: the byte behind the chunk read instead of zero. *)
ByteOfFile(k) == IF Start + k < Len(file.data) THEN file.data[Start + k + 1] ELSE 0

ByteOf(k) == IF k < Span THEN file.data[Start + k + 1] ELSE 0

(* peek: `count' bits from bit p on, at most twelve. *)
Peek(p, count) ==
  LET k == p \div 8
      loaded == ByteOf(k) + 256 * ByteOf(k + 1) + 65536 * ByteOf(k + 2)
  IN (loaded \div Pow2[(p % 8) + 1]) % Pow2[count + 1]

-----------------------------------------------------------------------------
(* ds_decompress: one token *)

Produced == Len(out) - block_start
AtToken == phase = "block" /\ Produced < file.size

Tag == Peek(position, 2)
IsLiteral == Tag \in {1, 2}
Far == Peek(position + 2, 1) = 1   \* the third bit of the long forms

TokenBits == CASE IsLiteral -> 9 [] Tag = 0 -> 8 [] Tag = 3 /\ ~Far -> 11 [] OTHER -> 15

Distance == CASE Tag = 0           -> Peek(position + 2, 6)
              [] Tag = 3 /\ ~Far   -> 64 + Peek(position + 3, 8)
              [] OTHER             -> 320 + Peek(position + 3, 12)

Literal ==
  /\ AtToken /\ IsLiteral
  /\ out' = Append(out, (IF Tag = 1 THEN 128 ELSE 0) + Peek(position + 2, 7))
  /\ position' = position + TokenBits
  /\ UNCHANGED <<file, phase, chunk_offsets, index, block_start, distance, length, copied>>

EndBlock ==
  /\ position' = IF AtToken THEN position + TokenBits ELSE position
  /\ index' = index + 1 /\ phase' = "chunks"
  /\ UNCHANGED <<file, chunk_offsets, out, block_start, distance, length, copied>>

EndMarker == AtToken /\ ~IsLiteral /\ Distance = 0 /\ EndBlock

ChunkFull == phase = "block" /\ ~AtToken /\ EndBlock

(* Mutation of SectorBreak: the token looked at and not consumed. *)
SectorBreakUnread == AtToken /\ ~IsLiteral /\ Distance = DS_SECTOR_BREAK /\ UNCHANGED vars

SectorBreak ==
  /\ AtToken /\ ~IsLiteral /\ Distance = DS_SECTOR_BREAK
  /\ position' = position + TokenBits
  /\ UNCHANGED <<file, phase, chunk_offsets, index, out, block_start, distance, length, copied>>

(* elias_gamma_decode, from bit p on *)
Zeroes(p) == CHOOSE z \in 0 .. 9 : /\ z < 9 => Peek(p + z, 1) = 1
                                   /\ \A y \in 0 .. z - 1 : Peek(p + y, 1) = 0

GammaStart == position + TokenBits
Run == Zeroes(GammaStart)
MatchLength == Pow2[Run + 1] + Peek(GammaStart + Run + 1, Run) + 1

AtMatch == AtToken /\ ~IsLiteral /\ Distance \notin {0, DS_SECTOR_BREAK}

Underflow == Distance > Produced

Overflow == Produced + MatchLength > file.size

CorruptMatch ==
  /\ AtMatch
  /\ \/ Run = 9 /\ Fail("elias_gamma_decode")
     \/ Run < 9 /\ Underflow /\ Fail("ds_underflow")
     \/ Run < 9 /\ ~Underflow /\ Overflow /\ Fail("ds_chunk_overflow")

StartMatch ==
  /\ AtMatch /\ Run < 9 /\ ~Underflow /\ ~Overflow
  /\ distance' = Distance /\ length' = MatchLength /\ copied' = 0
  /\ position' = GammaStart + 2 * Run + 1
  /\ phase' = "copy"
  /\ UNCHANGED <<file, chunk_offsets, index, out, block_start>>

(* Mutation of Source: the byte the match began with, again and again. *)
SourceOnce == out[Len(out) - copied - distance + 1]

Source == out[Len(out) - distance + 1]

CopyByte ==
  /\ phase = "copy" /\ copied < length
  /\ out' = Append(out, Source)
  /\ copied' = copied + 1
  /\ UNCHANGED <<file, phase, chunk_offsets, index, block_start, position, distance, length>>

EndMatch ==
  /\ phase = "copy" /\ copied = length
  /\ phase' = "block" /\ distance' = 0 /\ length' = 0 /\ copied' = 0
  /\ UNCHANGED <<file, chunk_offsets, index, out, block_start, position>>

Next == \/ RefuseHeader \/ ReadOffset \/ StartBody
        \/ OpenChunk \/ Finish
        \/ Literal \/ EndMarker \/ ChunkFull \/ SectorBreak
        \/ CorruptMatch \/ StartMatch \/ CopyByte \/ EndMatch

Spec == Init /\ [][Next]_vars

(* A nest of loops in one thread: while it can step, it steps. *)
FairSpec == Spec /\ WF_vars(Next)
-----------------------------------------------------------------------------
(* PROPERTIES *)

TypeOK ==
  /\ file \in Files
  /\ phase \in {"parse", "chunks", "block", "copy", "ok"} \cup Failures
  /\ chunk_offsets \in Seq(0 .. Len(file.data)) /\ index \in 0 .. Len(chunk_offsets)
  /\ out \in Seq(Byte) /\ block_start \in 0 .. Len(out) /\ position \in Nat
  /\ distance \in Nat /\ length \in 0 .. 512 /\ copied \in 0 .. length

(***************************************************************************)
(* What parse accepts, decompress can take apart: "without that check a    *)
(* stored span is computed by subtraction and a bogus offset silently      *)
(* yields a negative (i.e. huge) span" (W4Archive::parse).  The spans of a *)
(* parsed archive exist and lie inside the file.                           *)
(***************************************************************************)
SpansExist == phase \notin {"negative_span", "chunk_slice"}

(***************************************************************************)
(* Zero bits behind the chunk end a block: a token that does not has a set *)
(* bit inside the chunk, and at most the eight low-order bits of a match   *)
(* length, or the rest of a literal, follow behind it.  The cursor of a    *)
(* block that goes on is never further out (BitStream).                    *)
(***************************************************************************)
MaxOverrun == 8

OverrunBounded ==
  phase \in {"block", "copy"} => position <= 8 * Span + MaxOverrun

(***************************************************************************)
(* Bytes appear as literals and periodic matches of one chunk, chunks stay *)
(* within the chunk size, raw ones fill it.  A match under way counts only *)
(* when it is complete.                                                    *)
(***************************************************************************)
Promise ==
  INSTANCE LzStream WITH
    size <- file.size,
    out <- SubSeq(out, 1, Len(out) - copied),
    start <- IF phase \in {"block", "copy"} THEN block_start ELSE Len(out),
    verdict <- CASE phase = "ok" -> "done" [] phase \in Failures -> "failed"
                 [] OTHER -> "decoding"

ImplementsLz == Promise!LzSpec

(***************************************************************************)
(* The inductive invariant: the accepted offsets lie in the file and do    *)
(* not decrease, so neighbours can be subtracted; a block belongs to one   *)
(* of them, and a match being copied reaches back into the output.         *)
(***************************************************************************)
Ascending ==
  \A i, j \in 1 .. Len(chunk_offsets) : i < j => chunk_offsets[i] <= chunk_offsets[j]

InChunk ==
  /\ phase = "parse" => index = 0 /\ Len(chunk_offsets) <= Len(file.table)
  /\ phase \in {"block", "copy"} => index < Len(chunk_offsets)
  /\ phase = "copy" => distance \in 1 .. Len(out)

IInv == TypeOK /\ Ascending /\ InChunk /\ SpansExist

(***************************************************************************)
(* What the match under way has copied so far repeats the `distance' bytes *)
(* of its chunk in front of it, and the whole of it fits into the chunk.   *)
(***************************************************************************)
MatchBegan == Len(out) - copied

Copying ==
  /\ phase # "copy" => copied = 0
  /\ phase = "copy" =>
       /\ length \in 2 .. 512
       /\ distance \in 1 .. MatchBegan - block_start
       /\ MatchBegan - block_start + length <= file.size
       /\ \A j \in 1 .. copied :
            out[MatchBegan + j] = out[MatchBegan - distance + 1 + ((j - 1) % distance)]

LzInv == IInv /\ OverrunBounded /\ Copying

(***************************************************************************)
(* Each step leaves less to do, so no call steps forever: an offset fewer  *)
(* to read, a chunk fewer, or within a chunk fewer bits, of which there    *)
(* are eight behind its bytes, or within a match fewer bytes to copy.      *)
(***************************************************************************)
ChunksLeft == Len(chunk_offsets) - index

BitsLeft == 8 * Span + MaxOverrun - position

WorkLeft ==
  CASE phase = "parse"  -> <<2, Len(file.table) - Len(chunk_offsets), 0, 0>>
    [] phase = "chunks" -> <<1, 2 * ChunksLeft, 0, 0>>
    [] phase = "block"  -> <<1, 2 * ChunksLeft - 1, BitsLeft, 0>>
    [] phase = "copy"   -> <<1, 2 * ChunksLeft - 1, BitsLeft, length - copied + 1>>
    [] OTHER            -> <<0, 0, 0, 0>>

WorkShrinks == [][Descends(4, WorkLeft', WorkLeft)]_vars

(* Every call returns. *)
Terminates == <>(phase \in {"ok"} \cup Failures)
=============================================================================
