--------------------------- MODULE MCEvtDispatcher ---------------------------
(* Small instances of EvtDispatcher: interfaces of the given kinds, and as many *)
(* message objects as may be under way.                                         *)
EXTENDS EvtDispatcher, TLC

CONSTANTS usb0, rmnet0, wlan0, m1, m2, m3, m4

LanAndWan == {usb0, rmnet0}
LanAndWanKinds == usb0 :> "lan" @@ rmnet0 :> "wan"
AccessPoint == {wlan0}
AccessPointKind == wlan0 :> "wlan"

ThreeMsgs == {m1, m2, m3}
FourMsgs == {m1, m2, m3, m4}
AllEvents == DispEvents
==============================================================================
