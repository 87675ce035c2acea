--------------------------------- MODULE Utf8 ---------------------------------
(***************************************************************************)
(* What core::str::from_utf8 accepts, on which every as_str of a stored    *)
(* name rests: characters of one to four bytes, none of them longer than   *)
(* it must be, no surrogates and none above U+10FFFF.                      *)
(***************************************************************************)
EXTENDS Integers, Sequences

(* The bytes of the character that begins with b; none begins with a byte  *)
(* of width 0.                                                             *)
CharWidth(b) ==
  CASE b < 128        -> 1
    [] b \in 194..223 -> 2
    [] b \in 224..239 -> 3
    [] b \in 240..244 -> 4
    [] OTHER          -> 0

(* The bytes that may follow it. *)
SecondByte(b) ==
  CASE b = 224 -> 160 .. 191
    [] b = 237 -> 128 .. 159
    [] b = 240 -> 144 .. 191
    [] b = 244 -> 128 .. 143
    [] OTHER   -> 128 .. 191

CharAt(s, i) ==
  LET width == CharWidth(s[i])
  IN /\ width > 0 /\ i + width - 1 <= Len(s)
     /\ width > 1 => s[i + 1] \in SecondByte(s[i])
     /\ \A k \in i + 2 .. i + width - 1 : s[k] \in 128 .. 191

(* No byte both begins a character and continues one, so characters that   *)
(* cover a text tile it.                                                   *)
IsUtf8(s) ==
  \A i \in 1 .. Len(s) :
    \E j \in 1 .. i : CharAt(s, j) /\ i < j + CharWidth(s[j])
===============================================================================
