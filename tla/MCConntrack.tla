----------------------------- MODULE MCConntrack -----------------------------
(* Small instances of ConntrackListener: a connection of a client to an STA   *)
(* client, and one of the device itself.                                      *)
EXTENDS ConntrackListener, TLC

CONSTANTS p1, p2, t1, t2, t3, x1, c1, c2, c3, c4

OneClient == {p1}
TheStaSubnet == {t1}
ThreeStaClients == {t1, t2, t3}

TwoConns == {c2, c3}

\* Public addresses above 2^16, as real ones are.
OneIp == {2^16 + 1}
TwoIps == {2^16 + 1, 2^16 + 2}

ThePrivateIp == c1 :> p1 @@ c2 :> p1 @@ c3 :> 2^16 + 1 @@ c4 :> p2
TheTargetIp == c1 :> x1 @@ c2 :> t1 @@ c3 :> x1 @@ c4 :> p1
==============================================================================
