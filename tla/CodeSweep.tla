------------------------------ MODULE CodeSweep ------------------------------
(***************************************************************************)
(* disasm::list_code and notes_in of linear-executable: a linear sweep of  *)
(* one window of an object image.  The decoder (iced-x86) is external: at  *)
(* each offset it yields an instruction of 1 to MaxInstruction bytes or    *)
(* nothing usable.  An instruction that the window cuts short, or no       *)
(* instruction, becomes a one-byte data line, and the sweep goes on.       *)
(***************************************************************************)
EXTENDS Integers, Sequences, SequencesExt

CONSTANT MaxInstruction

ASSUME MaxInstructionAssumption == MaxInstruction \in Nat \ {0}

VARIABLES
  start,   \* image offset of the window's first byte
  length,  \* bytes in the window
  notes,   \* image offset -> fixup notes; empty without a map
  off,     \* bytes of the window swept so far
  lines    \* [offset, len, data, notes]

sweepVars == <<start, length, notes, off, lines>>

(* Mutation of NotesIn: the range closed at both ends. *)
NotesInInclusive(offset, len) ==
  FlattenSeq([i \in 1 .. len + 1 |->
    IF offset + i - 1 \in DOMAIN notes THEN notes[offset + i - 1] ELSE <<>>])

(* The notes in [offset, offset + len), in offset order. *)
NotesIn(offset, len) ==
  FlattenSeq([i \in 1 .. len |->
    IF offset + i - 1 \in DOMAIN notes THEN notes[offset + i - 1] ELSE <<>>])

Line(len, data) ==
  [offset |-> start + off, len |-> len, data |-> data,
   notes |-> NotesIn(start + off, len)]

Swept == off >= length

StartSweep(first, len, map) ==
  /\ start' = first
  /\ length' = len
  /\ notes' = map
  /\ off' = 0
  /\ lines' = <<>>

(* Mutation of Instruction: the decoder may look past the window's end. *)
InstructionUncut(len) ==
  /\ ~Swept
  /\ lines' = Append(lines, Line(len, FALSE))
  /\ off' = off + len
  /\ UNCHANGED <<start, length, notes>>

Instruction(len) ==
  /\ ~Swept
  /\ len <= length - off
  /\ lines' = Append(lines, Line(len, FALSE))
  /\ off' = off + len
  /\ UNCHANGED <<start, length, notes>>

DataByte ==
  /\ ~Swept
  /\ lines' = Append(lines, Line(1, TRUE))
  /\ off' = off + 1
  /\ UNCHANGED <<start, length, notes>>

SweepNext == DataByte \/ \E len \in 1 .. MaxInstruction : Instruction(len)
-----------------------------------------------------------------------------
(* PROPERTIES *)

(* Line i lists the image byte at a. *)
Lists(i, a) == lines[i].offset <= a /\ a < lines[i].offset + lines[i].len

(***************************************************************************)
(* "covered_bytes: always the window length": every byte swept is on one   *)
(* line and on no other, and no line lists a byte outside the window.      *)
(***************************************************************************)
EachByteOnOneLine ==
  /\ \A a \in start .. start + off - 1 :
       \E i \in 1 .. Len(lines) :
         /\ Lists(i, a)
         /\ \A j \in 1 .. Len(lines) : Lists(j, a) => j = i
  /\ \A i \in 1 .. Len(lines) :
       /\ start <= lines[i].offset
       /\ lines[i].offset + lines[i].len <= start + length

(* The inductive form of the same: what is on a line is what was swept.    *)
LineOK(line) ==
  /\ line.offset \in Nat /\ line.len \in 1 .. MaxInstruction
  /\ line.notes \in Seq(Nat \X Nat)
  /\ start <= line.offset /\ line.offset + line.len <= start + off

SweepTyped == start \in Nat /\ length \in Nat /\ off \in 0 .. length

(* The notes of the lines, one behind the other. *)
LineNotes == FlattenSeq([i \in 1 .. Len(lines) |-> lines[i].notes])

SweepInv ==
  /\ SweepTyped
  /\ lines \in Seq(ToSet(lines))
  /\ \A i \in 1 .. Len(lines) : LineOK(lines[i])
  /\ EachByteOnOneLine
  /\ LineNotes = NotesIn(start, off)

(***************************************************************************)
(* When the sweep ends, the lines carry every note of the window, each     *)
(* once and in offset order, wherever the instruction boundaries fell.     *)
(***************************************************************************)
NotesListedOnce ==
  Swept => LineNotes = NotesIn(start, length)
=============================================================================
