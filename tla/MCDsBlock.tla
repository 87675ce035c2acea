------------------------------ MODULE MCDsBlock ------------------------------
(***************************************************************************)
(* Every archive with one compressed chunk of up to three tokens, or two   *)
(* literals and three tokens, whole or with its last byte missing;         *)
(* archives of two chunks, the second with a history that must not reach   *)
(* into the first; one long chunk in which the far distances point into    *)
(* the history; and the chunk tables and headers that parse refuses.       *)
(***************************************************************************)
EXTENDS DsBlock

(* The low `count' bits of a number, low bit first. *)
BitsOf(n, count) == [i \in 1 .. count |-> (n \div Pow2[i]) % 2]

Lit(byte) == (IF byte < 128 THEN <<0, 1>> ELSE <<1, 0>>) \o BitsOf(byte, 7)
EndMark == BitsOf(0, 8)
Near(d) == <<0, 0>> \o BitsOf(d, 6)
Middle(d) == <<1, 1, 0>> \o BitsOf(d - 64, 8)
Distant(d) == <<1, 1, 1>> \o BitsOf(d - 320, 12)

(* The length prefix of n = 2^k + value + 1. *)
Gamma(n) ==
  LET k == CHOOSE i \in 0 .. 8 : Pow2[i + 1] <= n - 1 /\ n - 1 < Pow2[i + 2]
  IN [i \in 1 .. k |-> 0] \o <<1>> \o BitsOf(n - 1, k)

Packed(bits) ==
  [i \in 1 .. (Len(bits) + 7) \div 8 |->
     LET bit(j) == IF 8 * (i - 1) + j <= Len(bits) THEN bits[8 * (i - 1) + j] ELSE 0
     IN bit(1) + 2 * bit(2) + 4 * bit(3) + 8 * bit(4) + 16 * bit(5)
          + 32 * bit(6) + 64 * bit(7) + 128 * bit(8)]

Tokens == {Lit(65), Lit(193), EndMark, Distant(DS_SECTOR_BREAK),
           Near(1) \o Gamma(2), Near(1) \o Gamma(4), Near(2) \o Gamma(3),
           Near(1) \o BitsOf(0, 9), Middle(64) \o Gamma(2), Distant(4414) \o Gamma(2)}

Streams == {Packed(p \o a \o b \o c) : p \in {<<>>, Lit(65) \o Lit(193)},
                                       a, b, c \in Tokens \cup {<<>>}}

Butlast(s) == IF s = <<>> THEN s ELSE SubSeq(s, 1, Len(s) - 1)

Archive(size, table, data) ==
  [header |-> "ok", ds |-> TRUE, size |-> size, table |-> table, data |-> data]

OneChunk == {Archive(7, <<0>>, s) : s \in Streams \cup {Butlast(s) : s \in Streams}}

(* "AB", a chunk stored raw, then matches that may reach too far back. *)
First == Packed(Lit(65) \o Lit(66))

TwoChunks ==
  {Archive(4, <<0, Len(First)>>, First \o Packed(Lit(67) \o Near(d) \o Gamma(n))) :
     d \in 1 .. 3, n \in 2 .. 4}
  \cup {Archive(3, <<0, 3, 6>>, First \o s \o First) :
          s \in {<<7, 8, 9>>, <<7>>, Packed(Near(2) \o Gamma(2))}}

Far3 == Packed(Lit(65) \o Lit(66) \o Near(2) \o Gamma(400) \o Middle(65) \o Gamma(7)
               \o Distant(321) \o Gamma(5) \o Distant(DS_SECTOR_BREAK) \o EndMark)

Refused ==
  {Archive(4, t, First) : t \in {<<>>, <<-1>>, <<4>>, <<2, 1>>, <<1, 1>>, <<3, 3>>, <<-1, 0>>}}
  \cup {[Archive(s, <<0>>, First) EXCEPT !.ds = d] : s \in {0, 4}, d \in BOOLEAN}
  \cup {[Archive(4, <<0>>, First) EXCEPT !.header = h] : h \in HeaderErrors}

MCFiles == OneChunk \cup TwoChunks \cup Refused \cup {Archive(500, <<0>>, Far3)}
=============================================================================
