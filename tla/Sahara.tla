------------------------------- MODULE Sahara -------------------------------
(***************************************************************************)
(* The Sahara protocol (src/sahara.c): the device's boot ROM asks the host *)
(* for the images it boots from, or offers the host its memory after a     *)
(* crash, and the host answers packet by packet; when nothing is heard for *)
(* a second the host sends a reset, and after a failure the port is closed *)
(* and opened again (sahara_run_with_retry() in src/qdl.c).                *)
(*                                                                         *)
(* The device is external, modelled from what sahara.c expects of it.  A   *)
(* packet is one unit on the wire over USB and two over a COM port, where  *)
(* reads cut the stream anywhere; a unit of image or memory stands for the *)
(* bytes of one request.                                                   *)
(***************************************************************************)
EXTENDS Naturals, Sequences, SequencesExt

CONSTANTS
    Setups,     \* the circumstances of a handshake, see Setup
    Programmer, \* SAHARA_ID_EHOSTDL_IMG
    Wanted,     \* the units the device asks for of each image
    Attempts    \* 3 in the code, 1 for `qfenix ks`

(* The circumstances of a handshake:                                       *)
(*   images   the units of each image given, by id; none for a ramdump     *)
(*   ramdump  `qfenix ramdump`: a path, and no images?                     *)
(*   device   its mode, "image" or "dump", and the images it needs to boot *)
(*   regions  its memory: [size, skip], where skip says that the filter    *)
(*            excludes the region                                          *)
(*   serial   a COM port?                                                  *)
(*   slow     may the device take more than a second?                      *)
(*   lost     may its first HELLO be sent before the port is open?         *)
(*   pending  does it report PENDING even after the last image?            *)
(*   faults   what may go wrong                                            *)
IsSetup(c) ==
    /\ {c.ramdump, c.serial, c.slow, c.lost, c.pending} \subseteq BOOLEAN
    /\ c.device.mode \in {"image", "dump"}
    /\ c.device.mode = "image" => c.device.needs \in Seq(DOMAIN Wanted) \ {<< >>}
    /\ c.regions \in Seq([size : Nat, skip : BOOLEAN])
    /\ c.faults \subseteq {"link", "image", "disk"}

ASSUME SaharaConstants ==
    /\ \A c \in Setups : IsSetup(c)
    /\ Attempts \in Nat \ {0}

VARIABLES
    hpc,        \* where the host is in sahara_run()
    buf,        \* what was read and not yet consumed
    retries,    \* reads left for the current packet
    sent_reset, \* was a reset sent since the last packet?
    got_hello,
    attempt,    \* of sahara_run_with_retry()
    result,     \* what it returns
    entry,      \* index into the table of memory regions
    bound,      \* the number of entries, `n` in sahara_debug64()
    chunk,      \* units of the region asked for so far
    files,      \* what was written of each region
    dumped,     \* the regions reported as "dumped successfully"
    up,         \* is the link up?
    tx, rx,     \* units on their way to the device and to the host
    setup,      \* the circumstances, which do not change
    dev,        \* what it is doing
    current,    \* index in its needs of the image being asked for
    taken,      \* units of it received
    loaded,     \* images received since the last reset
    mixed       \* did the device get something it was not waiting for?

dumpVars == <<entry, bound, chunk, files, dumped>>
waitVars == <<buf, retries, sent_reset>>
hostVars == <<hpc, waitVars, got_hello, attempt, result, dumpVars>>
devVars == <<setup, dev, current, taken, loaded, mixed>>
wireVars == <<up, tx, rx>>
vars == <<hostVars, devVars, wireVars>>

Images == setup.images
Regions == setup.regions
Needs == setup.device.needs

RETRIES == 15
PENDING == 0
COMPLETE == 1

Pkt(cmd, arg) == [cmd |-> cmd, arg |-> arg]
Reset == Pkt("RESET", 0)

\* A packet on its way to the host, whole or cut by a COM port.
Whole(p) == [p |-> p, last |-> TRUE]
Wire(p) == IF setup.serial THEN << [p |-> p, last |-> FALSE], Whole(p) >>
                           ELSE << Whole(p) >>

Init ==
    /\ setup \in Setups
    /\ hpc = "wait" /\ buf = << >> /\ retries = RETRIES /\ sent_reset = FALSE
    /\ got_hello = FALSE /\ attempt = 1 /\ result = "none"
    /\ entry = 1 /\ bound = 0 /\ chunk = 0
    /\ files = [r \in 1..Len(Regions) |-> << >>] /\ dumped = {}
    /\ up = TRUE /\ tx = << >> /\ rx = << >>
    /\ dev \in {"boot"} \cup (IF setup.lost THEN {"hello", "deaf"} ELSE {})
    /\ current = 1 /\ taken = 0 /\ loaded = << >> /\ mixed = FALSE

-----------------------------------------------------------------------------
(* sahara_run(): waiting for a packet *)

Put(p) == tx' = IF up THEN Append(tx, p) ELSE tx

Busy == dev = "boot" \/ (tx # << >> /\ dev \notin {"deaf", "running"})

\* Nothing is heard for the time the host waits.
Silence == ~up \/ (rx = << >> /\ (Busy => setup.slow))

HasPacket == \E i \in 1..Len(buf) : buf[i].last

ReadSizes == IF setup.serial THEN 1..Len(rx) ELSE {1}

Accumulate ==
    /\ hpc = "wait" /\ ~HasPacket /\ retries > 0 /\ rx # << >>
    /\ \E n \in ReadSizes : /\ buf' = buf \o SubSeq(rx, 1, n)
                            /\ rx' = SubSeq(rx, n + 1, Len(rx))
    /\ retries' = retries - 1
    /\ UNCHANGED <<hpc, sent_reset, got_hello, attempt, result, dumpVars,
                   devVars, up, tx>>

\* Mutant: the reads are not counted.
ReadTimesOutForever ==
    /\ hpc = "wait" /\ ~HasPacket /\ retries > 0 /\ Silence
    /\ IF ~sent_reset THEN Put(Reset) ELSE UNCHANGED tx
    /\ sent_reset' = TRUE
    /\ UNCHANGED <<hpc, buf, retries, got_hello, attempt, result, dumpVars,
                   devVars, up, rx>>

\* A read of a second without data: a reset after the first one, and again
\* after six and ten.
ReadTimesOut ==
    /\ hpc = "wait" /\ ~HasPacket /\ retries > 0 /\ Silence
    /\ IF ~sent_reset \/ retries \in {9, 5} THEN Put(Reset) ELSE UNCHANGED tx
    /\ sent_reset' = TRUE
    /\ retries' = retries - 1
    /\ UNCHANGED <<hpc, buf, got_hello, attempt, result, dumpVars, devVars,
                   up, rx>>

AttemptFails ==
    IF attempt < Attempts THEN hpc' = "reopen" /\ UNCHANGED result
                          ELSE hpc' = "end" /\ result' = "failed"

\* "failed to read sahara request from device", or an incomplete packet.
NoPacket ==
    /\ hpc = "wait" /\ ~HasPacket /\ retries = 0
    /\ AttemptFails
    /\ UNCHANGED <<waitVars, got_hello, attempt, dumpVars, devVars, wireVars>>

\* sahara_run_with_retry(): the port is closed and opened again, which
\* makes a device that ignores resets send its HELLO; what was on its way
\* may be lost.
Reopen ==
    /\ hpc = "reopen"
    /\ \/ /\ up
          /\ hpc' = "wait" /\ attempt' = attempt + 1 /\ UNCHANGED result
          /\ rx' \in {rx, << >>} /\ tx' = << >>
          /\ dev' = IF dev = "deaf" THEN "boot" ELSE dev
       \/ /\ ~up
          /\ hpc' = "end" /\ result' = "failed"
          /\ UNCHANGED <<attempt, rx, tx, dev>>
    /\ buf' = << >> /\ retries' = RETRIES /\ sent_reset' = FALSE
    /\ got_hello' = FALSE
    /\ UNCHANGED <<dumpVars, up, setup, current, taken, loaded, mixed>>

-----------------------------------------------------------------------------
(* sahara_run(): the packets *)

\* A packet is handled and removed; bytes of the next one are kept.
Consume ==
    \E i \in 1..Len(buf) :
        /\ buf[i].last /\ \A j \in 1..(i - 1) : ~buf[j].last
        /\ buf' = SubSeq(buf, i + 1, Len(buf))

Handles(cmd) ==
    /\ hpc = "wait" /\ HasPacket /\ buf[1].p.cmd = cmd
    /\ Consume /\ retries' = RETRIES /\ sent_reset' = FALSE

Ends(value) == hpc' = "end" /\ result' = value

\* images is NULL for a ramdump, and is looked at all the same.
Crashes == setup.ramdump /\ Ends("crash")

\* Memory that is left in the stream is no packet: its length is invalid,
\* or it is printed and removed.
Garbage ==
    /\ hpc = "wait" /\ HasPacket /\ buf[1].p.cmd \in {"ENTRY", "MEM"}
    /\ \/ AttemptFails /\ UNCHANGED waitVars
       \/ Handles(buf[1].p.cmd) /\ UNCHANGED <<hpc, result>>
    /\ UNCHANGED <<got_hello, attempt, dumpVars, devVars, wireVars>>

Hello ==
    /\ Handles("HELLO")
    /\ Put(Pkt("HELLO_RESP", 0)) /\ got_hello' = TRUE
    /\ UNCHANGED <<hpc, attempt, result, dumpVars, devVars, up, rx>>

(* sahara_read() and sahara_read64(): an image that was not given makes    *)
(* the host send a reset, a range outside the image makes it send nothing, *)
(* and a write that fails ends the program.                                *)
ReadImage ==
    /\ Handles("READ_DATA")
    /\ LET id == buf[1].p.arg[1]
           unit == buf[1].p.arg[2]
       IN  \/ Crashes /\ UNCHANGED tx
           \/ /\ ~setup.ramdump /\ id \notin DOMAIN Images
              /\ Put(Reset) /\ UNCHANGED <<hpc, result>>
           \/ /\ ~setup.ramdump /\ id \in DOMAIN Images
              /\ unit > Images[id]
              /\ UNCHANGED <<hpc, result, tx>>
           \/ /\ ~setup.ramdump /\ id \in DOMAIN Images
              /\ unit <= Images[id]
              /\ Put(Pkt("DATA", <<id, unit>>))
              /\ IF up THEN UNCHANGED <<hpc, result>> ELSE Ends("exit")
    /\ UNCHANGED <<got_hello, attempt, dumpVars, devVars, up, rx>>

\* Mutant: the status of the image is ignored.
EndOfImageBlind ==
    /\ Handles("END_OF_IMAGE")
    /\ Put(Pkt("DONE", 0))
    /\ UNCHANGED <<hpc, got_hello, attempt, result, dumpVars, devVars, up, rx>>

EndOfImage ==
    /\ Handles("END_OF_IMAGE")
    /\ IF buf[1].p.arg = 0 THEN Put(Pkt("DONE", 0)) ELSE UNCHANGED tx
    /\ UNCHANGED <<hpc, got_hello, attempt, result, dumpVars, devVars, up, rx>>

\* sahara_has_done_pending_quirk(): only a programmer was given.
DonePendingQuirk == DOMAIN Images = {Programmer}

\* Mutant: PENDING is taken for COMPLETE.
DoneRespAlways ==
    /\ Handles("DONE_RESP")
    /\ Ends("ok")
    /\ UNCHANGED <<got_hello, attempt, dumpVars, devVars, wireVars>>

DoneResp ==
    /\ Handles("DONE_RESP")
    /\ \/ Crashes
       \/ /\ ~setup.ramdump
          /\ IF buf[1].p.arg = COMPLETE \/ DonePendingQuirk
             THEN Ends("ok") ELSE UNCHANGED <<hpc, result>>
    /\ UNCHANGED <<got_hello, attempt, dumpVars, devVars, wireVars>>

ResetResp ==
    /\ Handles("RESET_RESP")
    /\ IF setup.ramdump THEN Ends("ok") ELSE UNCHANGED <<hpc, result>>
    /\ UNCHANGED <<got_hello, attempt, dumpVars, devVars, wireVars>>

-----------------------------------------------------------------------------
(* sahara_debug64(): the memory of a crashed device *)

Fetch(r, n) == Put(Pkt("MEM_READ64", <<r, n>>))

\* The table of regions is asked for.
MemDebug ==
    /\ Handles("MEM_DEBUG64")
    /\ Fetch(0, 0)
    /\ IF up THEN hpc' = "table" ELSE UNCHANGED hpc
    /\ UNCHANGED <<got_hello, attempt, result, dumpVars, devVars, up, rx>>

\* One read, whatever it returns, is the table.
ReadTable ==
    /\ hpc = "table" /\ rx # << >>
    /\ \E n \in IF setup.serial THEN 1..Len(rx) ELSE {Len(rx)} :
          bound' = n /\ rx' = SubSeq(rx, n + 1, Len(rx))
    /\ hpc' = "region" /\ entry' = 1
    /\ UNCHANGED <<waitVars, got_hello, attempt, result, chunk, files, dumped,
                   devVars, up, tx>>

NoTable ==
    /\ hpc = "table" /\ Silence /\ rx = << >>
    /\ hpc' = "wait"
    /\ UNCHANGED <<waitVars, got_hello, attempt, result, dumpVars, devVars,
                   wireVars>>

\* The next region that the filter lets through; its file is opened, and not
\* truncated.  (A region is dumped again only over a COM port: here the file
\* then grows, while the code writes over what it has.)
NextRegion ==
    /\ hpc = "region" /\ entry <= bound
    /\ IF Regions[entry].skip
       THEN entry' = entry + 1 /\ UNCHANGED <<hpc, chunk>>
       ELSE hpc' = "block" /\ chunk' = 0 /\ UNCHANGED entry
    /\ UNCHANGED <<waitVars, got_hello, attempt, result, bound, files, dumped,
                   devVars, wireVars>>

\* Mutant: a ramdump does not wait for the answer to its reset.
DumpEndsAtOnce ==
    /\ \/ hpc = "region" /\ entry > bound
       \/ /\ hpc = "block" /\ chunk = 0
          /\ ~setup.ramdump \/ "disk" \in setup.faults
    /\ Put(Reset)
    /\ IF setup.ramdump THEN Ends("ok") ELSE hpc' = "wait" /\ UNCHANGED result
    /\ UNCHANGED <<waitVars, got_hello, attempt, dumpVars, devVars, up, rx>>

\* No more regions, or a file that cannot be opened, as when no directory
\* was given: the device is reset.
DumpEnds ==
    /\ \/ hpc = "region" /\ entry > bound
       \/ /\ hpc = "block" /\ chunk = 0
          /\ ~setup.ramdump \/ "disk" \in setup.faults
    /\ Put(Reset) /\ hpc' = "wait"
    /\ UNCHANGED <<waitVars, got_hello, attempt, result, dumpVars, devVars,
                   up, rx>>

\* Mutant: the blocks are counted from the wrong end.
FetchBlockStale ==
    /\ hpc = "block" /\ setup.ramdump /\ chunk < Regions[entry].size
    /\ Fetch(entry, Regions[entry].size - chunk)
    /\ hpc' = IF up THEN "answer" ELSE "close"
    /\ UNCHANGED <<waitVars, got_hello, attempt, result, dumpVars, devVars,
                   up, rx>>

FetchBlock ==
    /\ hpc = "block" /\ setup.ramdump /\ chunk < Regions[entry].size
    /\ Fetch(entry, chunk + 1)
    /\ hpc' = IF up THEN "answer" ELSE "close"
    /\ UNCHANGED <<waitVars, got_hello, attempt, result, dumpVars, devVars,
                   up, rx>>

\* Mutant: the last block is left out.
WriteBlockShort ==
    /\ hpc = "answer" /\ rx # << >>
    /\ files' = [files EXCEPT ![entry] = Append(@, Head(rx).p.arg)]
    /\ rx' = << >>
    /\ chunk' = chunk + 1
    /\ hpc' = IF chunk' + 1 >= Regions[entry].size THEN "close" ELSE "block"
    /\ UNCHANGED <<waitVars, got_hello, attempt, result, entry, bound, dumped,
                   devVars, up, tx>>

\* What is read is written, and what arrives within the next 10 ms dropped.
\* A write that fails returns -1, which the unsigned `written` makes a large
\* number: the block is lost and the next one asked for.
WriteBlock ==
    /\ hpc = "answer" /\ rx # << >>
    /\ \/ files' = [files EXCEPT ![entry] = Append(@, Head(rx).p.arg)]
       \/ "disk" \in setup.faults /\ UNCHANGED files
    /\ rx' = << >>
    /\ chunk' = chunk + 1
    /\ hpc' = "block"
    /\ UNCHANGED <<waitVars, got_hello, attempt, result, entry, bound, dumped,
                   devVars, up, tx>>

\* Thirty seconds without an answer: `goto out`.
NoBlock ==
    /\ hpc = "answer" /\ Silence /\ rx = << >>
    /\ hpc' = "close"
    /\ UNCHANGED <<waitVars, got_hello, attempt, result, dumpVars, devVars,
                   wireVars>>

\* sahara_debug64_one() returns 0, however it ended, and that 0 is now the
\* size of the table.
RegionDone ==
    /\ \/ hpc = "close"
       \/ hpc = "block" /\ setup.ramdump /\ chunk >= Regions[entry].size
    /\ dumped' = dumped \cup {entry}
    /\ bound' = 0 /\ entry' = entry + 1
    /\ hpc' = "region"
    /\ UNCHANGED <<waitVars, got_hello, attempt, result, chunk, files, devVars,
                   wireVars>>

HostNext ==
    \/ Accumulate \/ ReadTimesOut \/ NoPacket \/ Reopen
    \/ Garbage \/ Hello \/ ReadImage \/ EndOfImage \/ DoneResp \/ ResetResp
    \/ MemDebug \/ ReadTable \/ NoTable \/ NextRegion \/ DumpEnds
    \/ FetchBlock \/ WriteBlock \/ NoBlock \/ RegionDone

-----------------------------------------------------------------------------
(* The device and the link (external) *)

Emit(p) == rx' = IF up THEN rx \o Wire(p) ELSE rx

Ask(i, n) == Emit(Pkt("READ_DATA", <<Needs[i], n>>))

Awaits(p) == \/ dev = "hello" /\ p.cmd = "HELLO_RESP"
             \/ dev = "data" /\ p = Pkt("DATA", <<Needs[current], taken + 1>>)
             \/ dev = "done" /\ p.cmd = "DONE"
             \/ dev = "dump" /\ p.cmd = "MEM_READ64"

DevHello ==
    /\ dev = "boot" /\ dev' = "hello"
    /\ Emit(Pkt("HELLO", 0))
    /\ UNCHANGED <<hostVars, setup, current, taken, loaded, mixed, up, tx>>

Receives(cmd) == tx # << >> /\ Head(tx).cmd = cmd /\ tx' = Tail(tx)

DevHelloResp ==
    /\ dev = "hello" /\ Receives("HELLO_RESP")
    /\ IF setup.device.mode = "image"
       THEN dev' = "data" /\ taken' = 0 /\ Ask(current, 1)
       ELSE dev' = "dump" /\ Emit(Pkt("MEM_DEBUG64", 0)) /\ UNCHANGED taken
    /\ UNCHANGED <<hostVars, setup, current, loaded, mixed, up>>

DevData ==
    /\ dev = "data" /\ Receives("DATA") /\ Awaits(Head(tx))
    /\ IF taken + 1 < Wanted[Needs[current]]
       THEN taken' = taken + 1 /\ Ask(current, taken + 2) /\ UNCHANGED dev
       ELSE /\ taken' = 0
            /\ \/ dev' = "done" /\ Emit(Pkt("END_OF_IMAGE", 0))
               \/ /\ "image" \in setup.faults
                  /\ dev' = "refused" /\ Emit(Pkt("END_OF_IMAGE", 1))
    /\ UNCHANGED <<hostVars, setup, current, loaded, mixed, up>>

DevDone ==
    /\ dev = "done" /\ Receives("DONE")
    /\ loaded' = Append(loaded, Needs[current])
    /\ IF current < Len(Needs)
       THEN /\ current' = current + 1 /\ dev' = "boot"
            /\ Emit(Pkt("DONE_RESP", PENDING))
       ELSE /\ dev' = "running" /\ UNCHANGED current
            /\ Emit(Pkt("DONE_RESP", IF setup.pending THEN PENDING ELSE COMPLETE))
    /\ UNCHANGED <<hostVars, setup, taken, mixed, up>>

DevMemRead ==
    /\ dev = "dump" /\ Receives("MEM_READ64")
    /\ LET r == Head(tx).arg[1]
           sent == IF r = 0
                   THEN [i \in 1..Len(Regions) |-> Whole(Pkt("ENTRY", <<0, i>>))]
                   ELSE << Whole(Pkt("MEM", Head(tx).arg)) >>
       IN  rx' = IF up THEN rx \o sent ELSE rx
    /\ UNCHANGED <<hostVars, devVars, up>>

\* A reset is answered, and the device says HELLO again.
DevReset ==
    /\ dev \notin {"boot", "deaf", "running"} /\ Receives("RESET")
    /\ dev' = "boot" /\ current' = 1 /\ taken' = 0 /\ loaded' = << >>
    /\ Emit(Pkt("RESET_RESP", 0))
    /\ UNCHANGED <<hostVars, setup, mixed, up>>

\* Anything else is not understood; a running programmer and a device that
\* has given up its handshake ignore everything.
DevIgnores ==
    /\ tx # << >> /\ dev # "boot"
    /\ \/ dev \in {"deaf", "running"}
       \/ Head(tx) # Reset /\ ~Awaits(Head(tx))
    /\ mixed' = (mixed \/ dev \notin {"deaf", "running"})
    /\ tx' = Tail(tx)
    /\ UNCHANGED <<hostVars, setup, dev, current, taken, loaded, up, rx>>

Unplug ==
    /\ "link" \in setup.faults /\ up /\ hpc # "end"
    /\ up' = FALSE /\ rx' = << >>
    /\ UNCHANGED <<hostVars, devVars, tx>>

DevNext == \/ DevHello \/ DevHelloResp \/ DevData \/ DevDone
           \/ DevMemRead \/ DevReset \/ DevIgnores

Ended == hpc = "end" /\ UNCHANGED vars

Next == HostNext \/ DevNext \/ Unplug \/ Ended

Spec == Init /\ [][Next]_vars

\* Every read of the host has a timeout, and a device that is not setup.slow
\* answers within it.
FairSpec == Spec /\ WF_vars(HostNext) /\ WF_vars(DevNext)
-----------------------------------------------------------------------------
(* The types of the variables. *)
TypeOK ==
    /\ hpc \in {"wait", "reopen", "table", "region", "block", "answer",
                "close", "end"}
    /\ retries \in 0..RETRIES /\ attempt \in 1..Attempts
    /\ {sent_reset, got_hello, up, mixed} \subseteq BOOLEAN
    /\ result \in {"none", "ok", "failed", "exit", "crash"}
    /\ {entry, bound, chunk} \subseteq Nat
    /\ dumped \subseteq 1..Len(Regions)
    /\ dev \in {"boot", "hello", "deaf", "data", "done", "refused", "running",
                "dump"}

(* sahara_run() reports success only when the device has every image it    *)
(* boots from, complete and accepted, since its last reset; only the quirk *)
(* for devices that report PENDING after their one image excuses less.     *)
SuccessIsReal ==
    result = "ok" /\ ~setup.ramdump =>
        \/ loaded = Needs /\ dev = "running"
        \/ DonePendingQuirk /\ loaded # << >>

(* The device only ever receives what it waits for: resets and retries     *)
(* never put a stale answer into a later handshake.  (A device that takes  *)
(* longer than the host's timeouts is told what it no longer waits for.)   *)
InDialogue == ~mixed

(* What was written of a region over USB is its memory from the start, in  *)
(* order, also when the cable was pulled inside it.  Such a region is      *)
(* reported as dumped all the same, since sahara_debug64_one() returns 0,  *)
(* but then the ramdump does not succeed: every region reported is all on  *)
(* disk while the link is up, and in every run that ends well.  (The code  *)
(* does not notice a block that the disk refuses, and over a COM port it   *)
(* may take entries of the table for memory; like InDialogue, for a device *)
(* that answers in time.)                                                  *)
DumpIsReal ==
    ~setup.serial /\ "disk" \notin setup.faults =>
        /\ \A r \in 1..Len(Regions) :
             \A n \in 1..Len(files[r]) : files[r][n] = <<r, n>>
        /\ up \/ result = "ok" =>
             \A r \in dumped : Len(files[r]) = Regions[r].size

(* "Extract RAM dumps": a ramdump that succeeds has every region of the    *)
(* device that the filter lets through, complete.                          *)
DumpComplete ==
    result = "ok" /\ setup.ramdump =>
        \A r \in 1..Len(Regions) :
            Regions[r].skip \/ Len(files[r]) = Regions[r].size

\* The device gets what it asks for and does not refuse it.
Satisfied == /\ "image" \notin setup.faults
             /\ \/ setup.ramdump
                \/ \A i \in 1..Len(Needs) : /\ Needs[i] \in DOMAIN Images
                                            /\ Wanted[Needs[i]] <= Images[Needs[i]]

(* With the images it asks for, which the device accepts, the handshake    *)
(* ends, whatever is lost and whenever the cable is pulled; and so does a  *)
(* ramdump, whatever device it finds.                                      *)
SessionEnds == Satisfied => <>(hpc = "end")

(* "ensure that all Sahara images are provided": without them the program  *)
(* says so, and ends.                                                      *)
MissingImageEnds == <>(hpc = "end")
=============================================================================
