------------------------------- MODULE Descent -------------------------------
(***************************************************************************)
(* Measures of the work a walk has left: n natural numbers, the outermost  *)
(* loop first, compared place by place.  A step that descends lowers a     *)
(* place and keeps those in front of it; the ones behind it may start      *)
(* afresh, as an inner loop does.                                          *)
(***************************************************************************)
EXTENDS Integers

Measures(n) == [1 .. n -> Nat]

Below(n, a, b) ==
  \E i \in 1 .. n : a[i] < b[i] /\ \A k \in 1 .. i - 1 : a[k] = b[k]

Descends(n, a, b) == a \in Measures(n) /\ b \in Measures(n) /\ Below(n, a, b)
=============================================================================
