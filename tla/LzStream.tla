------------------------------ MODULE LzStream ------------------------------
(***************************************************************************)
(* What W4Archive::decompress promises, without bits or stored chunks: an  *)
(* output that only grows, chunk by chunk, none longer than the chunk      *)
(* size; within a chunk by literals and by matches that repeat the last    *)
(* `distance' bytes of that same chunk periodically; and one verdict.      *)
(***************************************************************************)
EXTENDS Integers, Sequences, SequencesExt

VARIABLES
  size,    \* the chunk size; it never changes
  out,     \* the bytes decoded so far
  start,   \* where the current chunk begins in out
  verdict  \* "decoding", "done" or "failed"

lzVars == <<size, out, start, verdict>>

MinMatch == 2
MaxMatch == 512

Produced == Len(out) - start

Periodic(distance, length) ==
  [j \in 1 .. length |-> out[Len(out) - distance + 1 + ((j - 1) % distance)]]

LzInit == out = <<>> /\ start = 0 /\ verdict = "decoding"

Grow(bytes) ==
  /\ verdict = "decoding" /\ Produced + Len(bytes) <= size
  /\ out' = out \o bytes
  /\ UNCHANGED <<size, start, verdict>>

Literal == \E byte \in 0 .. 255 : Grow(<<byte>>)

Match == LET length == Len(out') - Len(out)
         IN /\ length \in MinMatch .. MaxMatch
            /\ \E distance \in 1 .. Produced : Grow(Periodic(distance, length))

(* A chunk that is stored raw is complete at once and fills a chunk.       *)
RawChunk ==
  /\ verdict = "decoding" /\ Produced = 0
  /\ IsPrefix(out, out') /\ Len(out') = Len(out) + size
  /\ start' = Len(out')
  /\ UNCHANGED <<size, verdict>>

CloseChunk == verdict = "decoding" /\ start' = Len(out) /\ UNCHANGED <<size, out, verdict>>

GiveVerdict ==
  /\ verdict = "decoding" /\ verdict' \in {"done", "failed"}
  /\ start' = Len(out)
  /\ UNCHANGED <<size, out>>

LzNext == Literal \/ Match \/ RawChunk \/ CloseChunk \/ GiveVerdict

LzSpec == LzInit /\ [][LzNext]_lzVars
=============================================================================
