\* An access point whose link goes down and up again.
SPECIFICATION Spec
CONSTANTS
    usb0 = usb0
    rmnet0 = rmnet0
    wlan0 = wlan0
    m1 = m1
    m2 = m2
    m3 = m3
    m4 = m4
    NoMsg = NoMsg
    NoEvent = NoEvent
    Msgs <- FourMsgs
    Events <- AllEvents
    Ifaces <- AccessPoint
    Kind <- AccessPointKind
    MaxPosted = 3
INVARIANT KnownAccessPointHasInstance
