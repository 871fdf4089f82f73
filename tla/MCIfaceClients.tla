--------------------------- MODULE MCIfaceClients ---------------------------
(* Small instances of IfaceClients: two clients that compete for addresses.  *)
EXTENDS IfaceClients, TLC

CONSTANTS m1, m2, m3, p1, p2, q1, q2

AllKinds == {"eth", "wlan", "wan"}
OnlyWlan == {"wlan"}
NoWlan == {"eth", "wan"}
TwoMacs == {m1, m2}
TwoV4 == {p1, p2}
TwoV6 == {q1, q2}
ClientSymmetry == Permutations(TwoMacs) \cup Permutations(TwoV4) \cup Permutations(TwoV6)
=============================================================================
