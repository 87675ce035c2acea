----------------------------- MODULE RelocChain ------------------------------
(***************************************************************************)
(* RelocationEntry::resolve_chain of new-executable.  A relocation chain   *)
(* is threaded through the segment's own bytes: the word stored at a link  *)
(* is the next link, 0xFFFF ends the chain.  The walk follows words of an  *)
(* untrusted file, so the chain may run out of the segment, overlap its    *)
(* own words or run in a circle.                                           *)
(***************************************************************************)
EXTENDS Integers, Sequences, Descent

CONSTANTS
  Segments,  \* the segment data the walk may be given
  Starts     \* the `offset` fields a relocation entry may hold

Byte == 0 .. 255
LastLink == 65535   \* 0xFFFF terminates the chain
Offset == 0 .. LastLink
Link == 0 .. LastLink - 1

ASSUME SegmentsAssumption == Segments \subseteq Seq(Byte)
ASSUME StartsAssumption == Starts \subseteq Offset

VARIABLES
  data,    \* segment_data
  pos,     \* the next link
  links,   \* the links visited so far
  outcome  \* "walking", "ok" or the error returned

chainVars == <<data, pos, links, outcome>>

Errors == {"RelocationChainCorrupt", "TableOutOfBounds"}
-----------------------------------------------------------------------------
WordAt(p) == data[p + 1] + 256 * data[p + 2]

Inside(p) == p + 2 <= Len(data)

(* Mutation of Runaway: the guard counts bytes instead of words.           *)
RunawayLate == Len(links) > Len(data)

(* "Cycle/runaway guard: a chain can touch at most len/2 words." *)
Runaway == Len(links) * 2 > Len(data)

Init ==
  /\ data \in Segments /\ pos \in Starts
  /\ links = <<>> /\ outcome = "walking"

Done ==
  /\ outcome = "walking" /\ pos = LastLink
  /\ outcome' = "ok"
  /\ UNCHANGED <<data, pos, links>>

(* Mutation of Corrupt: = for >, which an even length steps over. *)
CorruptExactly ==
  /\ outcome = "walking" /\ pos # LastLink
  /\ Len(links) * 2 = Len(data) + 1
  /\ outcome' = "RelocationChainCorrupt"
  /\ UNCHANGED <<data, pos, links>>

Corrupt ==
  /\ outcome = "walking" /\ pos # LastLink
  /\ Runaway
  /\ outcome' = "RelocationChainCorrupt"
  /\ UNCHANGED <<data, pos, links>>

OutOfBounds ==
  /\ outcome = "walking" /\ pos # LastLink
  /\ ~Runaway /\ ~Inside(pos)
  /\ outcome' = "TableOutOfBounds"
  /\ UNCHANGED <<data, pos, links>>

(* Mutations of Follow: the word pushed in place of its position, and a    *)
(* chain that meets itself taken to be finished.                           *)
FollowEager ==
  /\ outcome = "walking" /\ pos # LastLink
  /\ ~Runaway /\ Inside(pos)
  /\ links' = Append(links, WordAt(pos))
  /\ pos' = WordAt(pos)
  /\ UNCHANGED <<data, outcome>>
FollowOnce ==
  /\ outcome = "walking" /\ pos # LastLink
  /\ ~Runaway /\ Inside(pos)
  /\ links' = Append(links, pos)
  /\ pos' = IF \E i \in 1 .. Len(links) : links[i] = WordAt(pos)
              THEN LastLink ELSE WordAt(pos)
  /\ UNCHANGED <<data, outcome>>

Follow ==
  /\ outcome = "walking" /\ pos # LastLink
  /\ ~Runaway /\ Inside(pos)
  /\ links' = Append(links, pos)
  /\ pos' = WordAt(pos)
  /\ UNCHANGED <<data, outcome>>

Next == Done \/ Corrupt \/ OutOfBounds \/ Follow

Spec == Init /\ [][Next]_chainVars

(* A loop of one thread: while it can step, it steps. *)
FairSpec == Spec /\ WF_chainVars(Next)
-----------------------------------------------------------------------------
(* PROPERTIES *)

TypeOK ==
  /\ data \in Seq(Byte) /\ pos \in Offset
  /\ links \in Seq(Link)
  /\ outcome \in {"walking", "ok"} \cup Errors

Distinct(s) == \A i, j \in 1 .. Len(s) : s[i] = s[j] => i = j

(***************************************************************************)
(* A chain that visits a position twice is reported as corrupt: the walk   *)
(* neither returns it as a list of links nor calls it out of bounds.  So   *)
(* the links that resolve_chain returns are distinct and no place of the   *)
(* segment is patched twice by one entry.                                  *)
(***************************************************************************)
RepeatIsCorrupt ==
  ~Distinct(links) => outcome \in {"walking", "RelocationChainCorrupt"}

(***************************************************************************)
(* What the walk returns or gives up on is a chain of the segment: every   *)
(* link lies inside it and holds the next one.                             *)
(***************************************************************************)
LinksAreChain ==
  \A i \in 1 .. Len(links) :
    /\ Inside(links[i])
    /\ WordAt(links[i]) = IF i = Len(links) THEN pos ELSE links[i + 1]

(* The walk stops at half the segment: one link more than len/2 at most.   *)
WorkBounded == 2 * Len(links) <= Len(data) + 2

(***************************************************************************)
(* Why RepeatIsCorrupt is inductive: once two links are equal the rest of  *)
(* the walk repeats with their distance as its period.                     *)
(***************************************************************************)
Periodic ==
  \A i, j \in 1 .. Len(links) :
    i < j /\ links[i] = links[j] => pos = links[Len(links) + 1 - (j - i)]

IInv == TypeOK /\ LinksAreChain /\ WorkBounded /\ Periodic /\ RepeatIsCorrupt

(***************************************************************************)
(* Each step leaves less to do, so no walk steps forever, whatever the     *)
(* words of the segment say: a link takes a word's worth of the guard.     *)
(***************************************************************************)
WorkLeft == <<IF outcome = "walking" THEN Len(data) + 3 - 2 * Len(links) ELSE 0>>

WorkShrinks == [][Descends(1, WorkLeft', WorkLeft)]_chainVars

(* "A relocation chain contains a cycle (a link points back to an          *)
(* already-visited position within the segment)" (Error, lib.rs).          *)
CorruptMeansCycle ==
  outcome = "RelocationChainCorrupt" => \E i \in 1 .. Len(links) : links[i] = pos

(* Every walk ends, cycles included. *)
Terminates == <>(outcome # "walking")
=============================================================================
