---------------------------- MODULE MCTokenStore ----------------------------
(* Hosts for TLC.  Clients k1 and k2 are interchangeable only where every  *)
(* host uses both or neither.                                              *)
EXTENDS TokenStore, TLC

CONSTANTS c1, c2, k1, k2

Host(goos, dir, reaches, clients) ==
    [goos |-> goos, dir |-> dir, reach |-> reaches, clients |-> clients]

(* The hosts on which the store keeps its promises.                        *)
Mac == Host("darwin", TRUE, {"open", "locked"}, {k1, k2})
RefusingMac == Host("darwin", TRUE, {"open", "refusing"}, {k1})
Headless == Host("linux", TRUE, {"absent"}, {k1})
Homeless == Host("linux", FALSE, {"open", "absent"}, {k1})
SoundHosts == {Mac, RefusingMac, Headless, Homeless}

(* Two client ids in one file; a keyring that is there in some sessions;   *)
(* and one that refuses in some.                                           *)
SharedFile == {Host("linux", TRUE, {"absent"}, {k1, k2})}
SomeSessions == {Host("linux", TRUE, {"open", "absent"}, {k1})}
Refusing == {Host("linux", TRUE, {"open", "refusing"}, {k1})}

Symmetry == Permutations(Callers)
=============================================================================
