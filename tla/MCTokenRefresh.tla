--------------------------- MODULE MCTokenRefresh ---------------------------
(* Instances of TokenRefresh for TLC: process p1 runs two goroutines, p2   *)
(* one; the smaller instances drop some of the three.                      *)
EXTENDS TokenRefresh, TLC

CONSTANTS p1, p2, a1, a2, b1

MCProcs == {p1, p2}
TwoAndOne == (a1 :> p1) @@ (a2 :> p1) @@ (b1 :> p2)
BothInOne == (a1 :> p1) @@ (a2 :> p1)
OnlyOne == a1 :> p1
=============================================================================
