------------------------------- MODULE Transport -------------------------------
(***************************************************************************)
(* How a command reaches the programmer of the modem: the scan for a USB   *)
(* device in EDL mode with the switch from DIAG mode (src/usb.c,           *)
(* src/diag_switch.c), the MHI device of Linux and the COM port of Windows *)
(* (src/pcie.c), and the Sahara upload with its close-and-reopen retries   *)
(* (src/qdl.c).  The Sahara dialogue itself is the module Sahara; here it  *)
(* succeeds or fails.                                                      *)
(*                                                                         *)
(* bus says which mode the modem is in: "diag", "edl", "programmer" once   *)
(* the programmer runs, or "off" while it is not there.  handle is the     *)
(* pointer (or descriptor) of the transport: "freed" is a pointer that     *)
(* usb_close() released and did not clear.                                 *)
(***************************************************************************)
EXTENDS QdlState

CONSTANTS
    EdlWrites,      \* the writes pcie_switch_to_edl() tries (30 in the code)
    Attempts        \* the Sahara attempts of sahara_run_with_retry() (3)

VARIABLES
    bus, handle,
    tries,          \* Sahara attempts made, or writes left on the DIAG port
    asked           \* has this scan tried the switch from DIAG mode?

linkVars == << bus, handle, tries, asked >>
linkConst == << setup, tries, asked >>

\* The three transports; `com` is also what usb_open() falls back to (-2).
Usb == setup.link = "usb"
Mhi == setup.link = "mhi"

LinkInit ==
    /\ bus = setup.bus /\ handle = "null" /\ asked = FALSE
    /\ tries = IF Mhi THEN EdlWrites ELSE 0

\* qdl_open() or pcie_prepare(), once qdl_init() has chosen the transport.
FirstPc == IF Usb THEN "scan" ELSE "prepare"

\* The operator plugs the modem in or puts it in EDL mode by hand, which is
\* what usb_open() and diag2edl wait for.
Plug ==
    /\ pc = "scan" /\ (bus = "off" \/ (bus = "diag" /\ asked))
    /\ bus' = (IF setup.cmd = "diag2edl" THEN "diag" ELSE "edl")
    /\ UNCHANGED << qdlVars, handle, tries, asked >>

\* usb_try_open(): a device that is claimed sets the handle, but the result is
\* `!!qdl->usb_handle`.  A device in EDL mode that has another serial number,
\* first on the bus when setup.other holds, is taken for the one that was open.
StaleFound == setup.other /\ handle # "null"

ScanOther ==
    /\ pc = "scan" /\ StaleFound
    /\ Goto("sahara")
    /\ UNCHANGED << setup, faults, linkVars >>

ScanClaims ==
    /\ pc = "scan" /\ ~StaleFound /\ bus = "edl"
    /\ handle' = "open"
    /\ Goto("sahara")
    /\ UNCHANGED << setup, faults, bus, tries, asked >>

\* A device that cannot be claimed leaves the scan with the pointer it had.
ScanCannotClaim ==
    /\ pc = "scan" /\ ~StaleFound /\ bus = "edl" /\ Fault
    /\ Goto(IF handle = "null" THEN "scan" ELSE "sahara")
    /\ UNCHANGED << setup, linkVars >>

\* diag_switch_to_edl(): the port that is found gets the command and must echo
\* it within 5 seconds.
Echoed(next) == bus' = "edl" /\ NoFault /\ Goto(next)

\* usb_open() asks once in a scan, and goes on scanning in either case.
DiagSwitch ==
    /\ pc = "scan" /\ ~StaleFound /\ bus = "diag" /\ ~asked
    /\ asked' = TRUE
    /\ Goto("scan")
    /\ \/ Echoed("scan")
       \/ UNCHANGED bus /\ Fault
    /\ UNCHANGED << setup, handle, tries >>

\* pcie_switch_to_edl() writes the command once a second until the port is
\* gone, 30 times at most.
PcieWrite ==
    /\ pc = "prepare" /\ Mhi /\ bus = "diag" /\ tries > 0
    /\ tries' = tries - 1
    /\ bus' \in {"diag", "edl"}
    /\ IF bus' = "diag" THEN Fault ELSE NoFault
    /\ Goto("prepare")
    /\ UNCHANGED << setup, handle, asked >>

\* A port that is gone after the last write is a timeout too.
PcieTimesOut == Mhi /\ setup.bus = "diag" /\ tries = 0

\* pcie_upload_programmer(): the programmer goes through BHI to a device that
\* says it is in EDL mode.
PcieUploads ==
    /\ pc = "prepare" /\ Mhi /\ bus = "edl" /\ ~PcieTimesOut
    /\ bus' = "programmer" /\ NoFault /\ Goto("open")
    /\ UNCHANGED << linkConst, handle >>

\* failed: what the caller does with a negative result.
PcieFails(failed) ==
    /\ pc = "prepare" /\ Mhi
    /\ \/ PcieTimesOut /\ NoFault
       \/ ~PcieTimesOut /\ (bus = "diag" => tries = EdlWrites)
            /\ (IF bus = "off" THEN NoFault ELSE Fault)
    /\ failed
    /\ UNCHANGED << setup, linkVars >>

\* Windows: the switch is tried, 3 seconds pass, and Sahara is still needed.
ComPrepare ==
    /\ pc = "prepare" /\ ~Mhi
    /\ Goto("open")
    /\ \/ bus \in {"diag", "edl"} /\ bus' = "edl" /\ NoFault
       \/ bus = "diag" /\ UNCHANGED bus /\ Fault
       \/ bus = "off" /\ UNCHANGED << bus, faults >>
    /\ UNCHANGED << linkConst, handle >>

\* pcie_open(): the EDL port is there within 10 seconds, or not.  A COM port
\* still needs the Sahara upload.
PcieOpens ==
    /\ pc = "open" /\ bus \in {"edl", "programmer"}
    /\ NoFault /\ handle' = "open"
    /\ Goto(IF Mhi THEN "configure" ELSE "sahara")
    /\ UNCHANGED << linkConst, bus >>

OpenFails(failed) ==
    /\ pc = "open" /\ (IF bus \in {"edl", "programmer"} THEN Fault ELSE NoFault)
    /\ failed
    /\ UNCHANGED << setup, linkVars >>

\* sahara_run() succeeds: the modem runs the programmer (or gave its dump).
SaharaRuns(next) ==
    /\ pc = "sahara" /\ handle = "open" /\ bus = "edl"
    /\ bus' = "programmer" /\ NoFault
    /\ Goto(next)
    /\ UNCHANGED << linkConst, handle >>

\* usb_close() frees the handle and keeps the pointer; pcie_close() clears it.
Closed(h) == IF h # "null" /\ Usb THEN "freed" ELSE "null"

\* Mutant: the attempts are not counted.
SaharaFailsUncounted(failed) ==
    /\ pc = "sahara" /\ (IF handle = "open" /\ bus = "edl" THEN Fault ELSE NoFault)
    /\ bus' \in {bus, "off"} /\ asked' = FALSE
    /\ Goto(IF Usb THEN "scan" ELSE "open")
    /\ handle' = Closed(handle)
    /\ UNCHANGED << setup, tries >>

\* sahara_run() fails: close, wait, open again, until the attempts are used up.
\* The modem may have left EDL mode.
SaharaFails(failed) ==
    /\ pc = "sahara" /\ (IF handle = "open" /\ bus = "edl" THEN Fault ELSE NoFault)
    /\ bus' \in {bus, "off"}
    /\ tries' = tries + 1 /\ asked' = FALSE
    /\ IF tries + 1 >= Attempts
       THEN failed
       ELSE Goto(IF Usb THEN "scan" ELSE "open")
    /\ handle' = Closed(handle)
    /\ UNCHANGED setup

\* diag2edl: waits for a DIAG port, switches it, and is done.
DiagToEdl ==
    /\ pc = "scan" /\ setup.cmd = "diag2edl" /\ bus = "diag"
    /\ \/ Echoed("exit")
       \/ UNCHANGED bus /\ Fault /\ Fails("exit")
    /\ UNCHANGED << linkConst, handle >>
=============================================================================
