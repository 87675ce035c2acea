---------------------------- MODULE MCRelocChain -----------------------------
(***************************************************************************)
(* Every segment of at most MaxLen bytes over a few byte values: small     *)
(* ones, which thread links through it, even and odd and overlapping, and  *)
(* 255, which ends the chain or leads out of the segment.                  *)
(***************************************************************************)
EXTENDS RelocChain

CONSTANTS Bytes, MaxLen

MCSegments == UNION {[1 .. n -> Bytes] : n \in 0 .. MaxLen}

MCStarts == 0 .. MaxLen \cup {300, 65535}
=============================================================================
