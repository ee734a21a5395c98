---------------------------- MODULE MCReusedToken ----------------------------
(* Values of expires_in for TLC: refused, absent, as short as           *)
(* expiryDelta, longer, and one that no Duration holds.                    *)
EXTENDS ReusedToken

CONSTANTS g1, g2

MCLifetimes == {-1, 0, 1, 3, 5}
=============================================================================
