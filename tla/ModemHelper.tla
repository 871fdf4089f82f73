----------------------------- MODULE ModemHelper -----------------------------
(***************************************************************************)
(* The modem helper daemon (mdm-helper/mdm_helper.c and esoc/mdm9k): the   *)
(* thread that boots an external modem over its HSIC link, waits for the   *)
(* requests of the kernel's esoc driver, collects the memory of a modem    *)
(* that crashed and boots it again.                                        *)
(*                                                                         *)
(* The thread's steps end where it talks to the driver, to the link or to  *)
(* the kickstart program; hpc is where it stands inside an operation of    *)
(* mdm9k_ops.  The driver and the modem are external: they do what the     *)
(* helper's code counts on, and fail in the ways it checks for.  Private   *)
(* data exist (a 9x25 or 9x35 on HSIC; the helper serves no other), debug  *)
(* mode is off.                                                            *)
(***************************************************************************)
EXTENDS Integers, Sequences

CONSTANTS
    NUM_LINK_RETRIES,     \* attempts of configure_flashless_boot_dev (50)
    MAX_STATUS_UP_CHECKS, \* polls of the modem's status (60)
    MaxModemEvents        \* bound on crashes and shutdowns of the modem

ASSUME HelperAssumption == /\ NUM_LINK_RETRIES \in Nat \ {0}
                           /\ MAX_STATUS_UP_CHECKS \in Nat \ {0}
                           /\ MaxModemEvents \in Nat

VARIABLES
    hstate,    \* state of modem_state_machine
    hpc,       \* where the operation of that state stands
    required_action,
    power_on_count, \* 0, or 1 for any other value
    tries,     \* i of configure_flashless_boot_dev
    wait_count,     \* of the status polls
    rcode,     \* of configure_flashless_boot_dev: "unset", "ok" or "failed"
    warm,      \* is_warm_boot
    link,      \* the HSIC device is "bound" or "unbound"
    modem,     \* external: what the modem does
    reqs,      \* external: requests the driver has queued
    events     \* crashes and shutdowns so far

helperVars == <<hstate, hpc, required_action, power_on_count, tries, wait_count,
                rcode, warm>>
driverVars == <<modem, reqs, events>>
modemVars == <<helperVars, link, driverVars>>

ModemRequests == {"IMG", "DEBUG", "SHUTDOWN"}
Actions == {"NONE", "RAMDUMPS", "NORMAL_BOOT", "SHUTDOWN"}
States == {"POWERUP", "POST_POWERUP", "RAMDUMP", "SHUTDOWN", "FAIL", "REBOOT"}

\* Where each operation starts.
EntryOf(s) ==
    CASE s = "POWERUP" -> IF power_on_count = 0 THEN "register" ELSE "notify_retry"
      [] s = "RAMDUMP" -> "notify_retry"
      [] s = "SHUTDOWN" -> "unbind"
      [] s = "POST_POWERUP" -> "monitor"
      [] OTHER -> "stopped"

HelperInit ==
    /\ hstate = "POWERUP"
    /\ hpc = "register"
    /\ required_action = "NONE"
    /\ power_on_count = 0
    /\ tries = 0
    /\ wait_count = 0
    /\ rcode = "unset"
    /\ warm \in BOOLEAN
    /\ link \in {"bound", "unbound"}
    /\ modem = "off"
    /\ reqs = <<>>
    /\ events = 0

(***************************************************************************)
(* External: the driver and the modem.                                     *)
(*   off      not powered, or shut down       booting  runs its images     *)
(*   rom      asks for its images             up       reports that it runs*)
(*   stumble  to be booted, offers its memory dead     told that it failed *)
(*   dump     crashed, offers its memory                                   *)
(***************************************************************************)
Notified(m, rs) == modem' = m /\ reqs' = reqs \o rs /\ UNCHANGED events

\* Opening /dev/subsys_<node> powers the modem: the proxy process does it, and the
\* override thread of a warm boot.
modem_proxy_routine ==
    /\ modem = "off"
    /\ Notified("rom", <<"IMG">>)
    /\ UNCHANGED <<helperVars, link>>

BootFinishes ==
    /\ modem = "booting"
    /\ \E m \in {"up", "dead"} : Notified(m, <<>>)
    /\ UNCHANGED <<helperVars, link>>

\* A running modem crashes, and the driver asks for its memory to be collected or at
\* once for a boot; or it is shut down, which is reported when it has powered down.
ModemEvent ==
    /\ modem = "up"
    /\ events < MaxModemEvents
    /\ events' = events + 1
    /\ \E e \in {<<"dump", "DEBUG">>, <<"rom", "IMG">>, <<"off", "SHUTDOWN">>} :
        modem' = e[1] /\ reqs' = Append(reqs, e[2])
    /\ UNCHANGED <<helperVars, link>>

\* ESOC_NOTIFY with IMG_XFER_RETRY resets the modem, which asks again.
NotifiedRetry ==
    \/ modem \in {"rom", "stumble"} /\ Notified("rom", <<"IMG">>)
    \/ modem \in {"rom", "stumble"} /\ Notified("stumble", <<"DEBUG">>)
    \/ modem = "dump" /\ \E r \in {"IMG", "DEBUG"} : Notified("dump", <<r>>)
    \/ modem \in {"off", "booting", "up", "dead"} /\ Notified(modem, <<>>)

(***************************************************************************)
(* The link.  Callers ignore what mdm_hsic_peripheral_cmd returns.         *)
(***************************************************************************)
mdm_hsic_peripheral_cmd(to) == link' \in {link, to}

\* Unbind, then bind; either may fail.
peripheral_reset == link' \in {"bound", "unbound"}

\* WaitForCOMport: the node of the boot device is there when the link is bound and
\* the modem is in its boot loader, that of the EFS device when the modem runs.
BootPort == link = "bound" /\ modem \in {"rom", "stumble", "dump"}
EfsPort == link = "bound" /\ modem = "up"

(***************************************************************************)
(* The state machine: what follows an operation.                           *)
(***************************************************************************)
\* The required_action that an operation starts with: mdm9k_ramdump_collect sets it,
\* the state machine has reset it before every other.
ActionIn(s) == IF s = "RAMDUMP" THEN "RAMDUMPS" ELSE "NONE"

\* modem_state_machine moves to s.
Goto(s) ==
    /\ hstate' = s
    /\ hpc' = EntryOf(s)
    /\ tries' = 0
    /\ wait_count' = 0
    /\ rcode' = "unset"
    /\ UNCHANGED warm

Stay(p) ==
    /\ hpc' = p
    /\ UNCHANGED <<hstate, required_action, power_on_count, tries, wait_count, rcode,
                   warm>>

\* The operation failed: the state machine cleans up and its thread returns.
Fail == Goto("FAIL") /\ UNCHANGED <<required_action, power_on_count>>

\* The error exits of mdm9k_powerup and mdm9k_ramdump_collect tell the driver of the
\* failure; that call may fail too.
FailTold == Fail /\ UNCHANGED events /\ modem' \in {modem, "dead"}

\* A call to the driver fails where the helper checks for it.
IoctlFails ==
    \/ /\ hpc \in {"register", "notify_retry", "wait_request", "notify_done", "poll"}
       /\ FailTold
       /\ UNCHANGED reqs
       /\ IF hpc = "notify_retry" THEN mdm_hsic_peripheral_cmd("unbound")
          ELSE UNCHANGED link
    \/ /\ hpc \in {"boot_done", "monitor"}
       /\ Fail
       /\ UNCHANGED <<driverVars, link>>

(***************************************************************************)
(* configure_flashless_boot_dev in boot and in ramdump mode.               *)
(***************************************************************************)
NotifyRetry ==
    /\ hpc = "notify_retry"
    /\ mdm_hsic_peripheral_cmd("unbound")
    /\ Stay("wait_request")
    /\ NotifiedRetry

\* Mutant of NextAttempt: the next attempt waits without asking for a retry.
NextAttempt_NoRetry(rc) ==
    \/ /\ tries + 1 < NUM_LINK_RETRIES
       /\ hpc' = "wait_request"
       /\ tries' = tries + 1
       /\ rcode' = rc
       /\ UNCHANGED <<hstate, required_action, power_on_count, wait_count, warm, modem,
                      events>>
    \/ tries + 1 = NUM_LINK_RETRIES /\ FailTold

\* An attempt ended without the port, with rc in rcode: another one, or the end of
\* the loop, where an rcode that was never set may be anything.
NextAttempt(rc) ==
    \/ /\ tries + 1 < NUM_LINK_RETRIES
       /\ hpc' = "notify_retry"
       /\ tries' = tries + 1
       /\ rcode' = rc
       /\ UNCHANGED <<hstate, required_action, power_on_count, wait_count, warm, modem,
                      events>>
    \/ tries + 1 = NUM_LINK_RETRIES /\ FailTold
    \/ /\ tries + 1 = NUM_LINK_RETRIES /\ rc = "unset"
       /\ Stay("sahara") /\ UNCHANGED <<modem, events>>

\* A request other than for the images is dropped, unless a dump is collected.
WaitRequest ==
    /\ hpc = "wait_request"
    /\ reqs # <<>>
    /\ reqs' = Tail(reqs)
    /\ \/ /\ Head(reqs) # "IMG" /\ hstate # "RAMDUMP"
          /\ NextAttempt(rcode)
          /\ UNCHANGED link
       \/ /\ Head(reqs) = "IMG" \/ hstate = "RAMDUMP"
          /\ mdm_hsic_peripheral_cmd("bound")
          /\ Stay("wait_port")
          /\ UNCHANGED <<modem, events>>

WaitBootPort ==
    /\ hpc = "wait_port"
    /\ \/ /\ BootPort
          /\ hpc' = "sahara"
          /\ rcode' = "ok"
          /\ UNCHANGED <<hstate, required_action, power_on_count, tries, wait_count,
                         warm, modem, events>>
       \/ NextAttempt("failed")
    /\ UNCHANGED <<link, reqs>>

(***************************************************************************)
(* mdm9k_powerup.                                                          *)
(***************************************************************************)
\* The first time: open the port, register as the request engine, and wait for the
\* request for the images.
Register ==
    /\ hpc = "register"
    /\ reqs # <<>>
    /\ reqs' = Tail(reqs)
    /\ \/ Head(reqs) = "IMG" /\ Stay("notify_retry") /\ UNCHANGED <<modem, events>>
       \/ Head(reqs) # "IMG" /\ FailTold
    /\ UNCHANGED link

\* LoadSahara runs the kickstart program, which sends the images or, with -m,
\* collects the memory.  The first boot after a warm start ends with a restart of
\* the whole system.
LoadSahara ==
    /\ hpc = "sahara"
    /\ \/ /\ BootPort
          /\ IF hstate = "POWERUP" /\ power_on_count = 0 /\ warm
             THEN Goto("REBOOT") /\ UNCHANGED <<required_action, power_on_count>>
             ELSE Stay("notify_done")
          /\ UNCHANGED <<modem, events>>
       \/ FailTold
    /\ UNCHANGED <<link, reqs>>

\* The driver hears that the images are there.
NotifyImagesDone ==
    /\ hpc = "notify_done" /\ hstate = "POWERUP"
    /\ Notified(IF modem = "rom" THEN "booting" ELSE modem, <<>>)
    /\ Stay("poll")
    /\ UNCHANGED link

\* One round of the status loop.  A modem that reports up in the last round finds
\* the limit reached, and the boot counts as failed.
PollStatus ==
    /\ hpc = "poll"
    /\ \/ /\ modem = "up" /\ wait_count < MAX_STATUS_UP_CHECKS
          /\ Stay("runtime")
          /\ UNCHANGED <<modem, events>>
       \/ /\ modem # "up" /\ wait_count < MAX_STATUS_UP_CHECKS
          /\ wait_count' = wait_count + 1
          /\ UNCHANGED <<hstate, hpc, required_action, power_on_count, tries, rcode,
                         warm, modem, events>>
       \/ wait_count = MAX_STATUS_UP_CHECKS /\ FailTold
    /\ UNCHANGED <<link, reqs>>

\* configure_flashless_boot_dev in runtime mode: reset the link, tell the HSIC driver.
ConfigureRuntime ==
    /\ hpc = "runtime"
    /\ peripheral_reset
    /\ \/ Stay("efs_port") /\ UNCHANGED <<modem, events>>
       \/ FailTold
    /\ UNCHANGED reqs

\* Wait for the EFS device and start the kickstart program on it.
WaitEfsPort ==
    /\ hpc = "efs_port"
    /\ \/ EfsPort /\ Stay("boot_done") /\ UNCHANGED <<modem, events>>
       \/ FailTold
    /\ UNCHANGED <<link, reqs>>

\* ESOC_BOOT_DONE is sent; the state machine looks for a dump to be collected and
\* then waits for requests.
BootDone ==
    /\ hpc = "boot_done"
    /\ power_on_count' = 1
    /\ LET s == IF required_action = "RAMDUMPS" THEN "RAMDUMP" ELSE "POST_POWERUP"
       IN  /\ Goto(s)
           /\ required_action' = IF s = "RAMDUMP" THEN ActionIn(s) ELSE required_action
    /\ UNCHANGED <<driverVars, link>>

(***************************************************************************)
(* mdm9k_ramdump_collect, mdm9k_shutdown and mdm9k_monitor.                *)
(***************************************************************************)
\* The driver boots the modem whose memory has been collected, or leaves it off.
NotifyDumpDone ==
    /\ hpc = "notify_done" /\ hstate = "RAMDUMP"
    /\ Notified("rom", <<"IMG">>) \/ Notified("off", <<"SHUTDOWN">>)
    /\ Stay("monitor")
    /\ UNCHANGED link

ShutdownUnbind ==
    /\ hpc = "unbind"
    /\ mdm_hsic_peripheral_cmd("unbound")
    /\ Stay("monitor")
    /\ UNCHANGED driverVars

\* The required_action that a request leads to.
ActionOf(r) == CASE r = "DEBUG" -> "RAMDUMPS"
                 [] r = "IMG" -> "NORMAL_BOOT"
                 [] r = "SHUTDOWN" -> "SHUTDOWN"

\* Mutant of AfterMonitor: a dump request of a running modem leads to a boot.
AfterMonitor_BootFirst(a) ==
    CASE hstate = "RAMDUMP" -> IF a = "SHUTDOWN" THEN "SHUTDOWN" ELSE "POWERUP"
      [] hstate = "SHUTDOWN" -> IF a = "NORMAL_BOOT" THEN "POWERUP" ELSE "FAIL"
      [] a = "SHUTDOWN" -> "SHUTDOWN"
      [] OTHER -> "POWERUP"

\* Where modem_state_machine goes when an operation ended with a monitor that set
\* required_action to a.
AfterMonitor(a) ==
    CASE hstate = "RAMDUMP" -> IF a = "SHUTDOWN" THEN "SHUTDOWN" ELSE "POWERUP"
      [] hstate = "SHUTDOWN" -> IF a = "NORMAL_BOOT" THEN "POWERUP" ELSE "FAIL"
      [] a = "RAMDUMPS" -> "RAMDUMP"
      [] a = "NORMAL_BOOT" -> "POWERUP"
      [] a = "SHUTDOWN" -> "SHUTDOWN"

\* Waits for a request; the state machine acts on it and resets required_action.
mdm9k_monitor ==
    /\ hpc = "monitor"
    /\ reqs # <<>>
    /\ reqs' = Tail(reqs)
    /\ LET a == ActionOf(Head(reqs))
           s == AfterMonitor(a)
       IN  /\ Goto(s)
           /\ required_action' = IF s = "FAIL" THEN a ELSE ActionIn(s)
    /\ UNCHANGED <<power_on_count, link, modem, events>>

HelperStep ==
    \/ Register \/ NotifyRetry \/ WaitRequest \/ WaitBootPort \/ LoadSahara
    \/ NotifyImagesDone \/ PollStatus \/ ConfigureRuntime \/ WaitEfsPort \/ BootDone
    \/ NotifyDumpDone \/ ShutdownUnbind \/ mdm9k_monitor

DriverStep == modem_proxy_routine \/ BootFinishes \/ ModemEvent

HelperNext == HelperStep \/ IoctlFails \/ DriverStep

HelperSpec == HelperInit /\ [][HelperNext]_modemVars

(***************************************************************************)
(* Properties.                                                             *)
(***************************************************************************)
HelperTypeOK ==
    /\ hstate \in States
    /\ required_action \in Actions
    /\ power_on_count \in 0 .. 1
    /\ tries \in 0 .. NUM_LINK_RETRIES - 1
    /\ wait_count \in 0 .. MAX_STATUS_UP_CHECKS
    /\ rcode \in {"unset", "ok", "failed"}
    /\ warm \in BOOLEAN
    /\ link \in {"bound", "unbound"}
    /\ modem \in {"off", "rom", "stumble", "dump", "booting", "up", "dead"}
    /\ reqs \in Seq(ModemRequests)

\* When LoadSahara has succeeded, the images went to a modem that asked for them, and
\* the memory was read from one that crashed: requests, retries and required_action
\* never get out of step with the modem.  The exception is a configuration loop that
\* ran out of attempts without ever waiting for the port: it leaves rcode unset.
RightTransfer ==
    hpc = "notify_done" /\ rcode = "ok" =>
        modem = IF hstate = "POWERUP" THEN "rom" ELSE "dump"

\* While the helper waits for the requests of a modem it has booted, the link is
\* bound, although bind and unbind may fail unnoticed: the wait for the EFS device
\* finds out.
LinkBoundWhenUp == hstate = "POST_POWERUP" => link = "bound"

\* What the helper believes of the modem (required_action, rcode, its state) never
\* runs ahead of the modem: RightTransfer and LinkBoundWhenUp.
HelperInStep == HelperTypeOK /\ RightTransfer /\ LinkBoundWhenUp

\* A modem that waits to be booted or collected, or is on its way up, comes up again or
\* is shut down, or the helper gives up on it or restarts the system: no lost or
\* dropped request leaves both waiting for each other.
ModemServed ==
    []<>(modem \in {"up", "off"} \/ hstate \in {"FAIL", "REBOOT"})
==============================================================================
