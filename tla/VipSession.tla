----------------------------- MODULE VipSession -----------------------------
(***************************************************************************)
(* A flash session with VIP tables (`qfenix flash --vip-table-path`).      *)
(* The host runs vip_transfer_handle_tables() before every frame it        *)
(* writes: when the device's table is used up it first sends the next one, *)
(* reads the device's answer to it, and only then writes the frame         *)
(* (firehose_write() and the chunk loop of firehose_program()).            *)
(*                                                                         *)
(* The device is external: from the way vip.c and firehose.c use it, it    *)
(* holds one table, accepts a chained table iff the last table it held     *)
(* ends with that table's hash, accepts a frame iff the next digest of its *)
(* table is that frame's, and answers NAK otherwise.                       *)
(*                                                                         *)
(* The frames are those of the dry run, 1..digest_num_written, except that *)
(* a device that proposes another payload size makes firehose_try_configure*)
(* send a second configure command, frame 0, which the simulated device    *)
(* never does.                                                             *)
(***************************************************************************)
EXTENDS VipGen

CONSTANTS
    MAX_CHAINED_FILES,      \* 32 in the code
    LinkMayFail             \* may a transfer or a status read fail?

ASSUME SessionConstants ==
    /\ MAX_CHAINED_FILES \in Nat
    /\ LinkMayFail \in BOOLEAN

VARIABLES
    hpc,                \* what the host does next
    vip_state,          \* vip_data.state
    opened,             \* vip_data.chained_num: tables opened for the session
    chained_cur,        \* vip_data.chained_cur
    frames_sent,        \* vip_data.frames_sent
    frames_left,        \* vip_data.frames_left
    fh_parse_status,    \* vip_data.fh_parse_status
    frame,              \* the frame to send
    size_differs,       \* does the device propose another payload size?
    dev_table,          \* the table the device holds
    dev_used,           \* digests of it already used
    dev_reply,          \* its answer to the last table
    dev_refused,        \* has it refused a table or a frame?
    why                 \* why the host gave up

hostVars == <<hpc, vip_state, opened, chained_cur, frames_sent, frames_left,
              fh_parse_status, frame, size_differs, why>>
devVars == <<dev_table, dev_used, dev_reply, dev_refused>>
vars == <<genVars, hostVars, devVars>>

Init ==
    /\ GenInit
    /\ hpc = "dryrun"
    /\ vip_state = "VIP_DISABLED"
    /\ opened = 0 /\ chained_cur = 0
    /\ frames_sent = 0 /\ frames_left = 0
    /\ fh_parse_status = FALSE
    /\ frame = 1
    /\ size_differs \in BOOLEAN
    /\ why = "none"
    /\ dev_table = NoTable /\ dev_used = 0
    /\ dev_reply = "none" /\ dev_refused = FALSE

-----------------------------------------------------------------------------
\* Mutant: a loop bound one too large, or one too small.
TransferInitWith(room) ==
    /\ hpc = "dryrun" /\ gpc \in {"done", "failed"}
    /\ opened' = Lesser(present, room)
    /\ vip_state' = "VIP_INIT"
    /\ chained_cur' = 0
    /\ hpc' = IF digest_num_written = 0 THEN "done" ELSE "frame"
    /\ UNCHANGED <<genVars, devVars, frames_sent, frames_left, fh_parse_status,
                   frame, size_differs, why>>
TransferInitOver == TransferInitWith(MAX_CHAINED_FILES + 1)
TransferInitUnder == TransferInitWith(MAX_CHAINED_FILES - 1)

(* vip_transfer_init(): opens the tables it finds, as many as it has room  *)
(* for.                                                                    *)
TransferInit ==
    /\ hpc = "dryrun" /\ gpc \in {"done", "failed"}
    /\ opened' = Lesser(present, MAX_CHAINED_FILES)
    /\ vip_state' = "VIP_INIT"
    /\ chained_cur' = 0
    /\ hpc' = IF digest_num_written = 0 THEN "done" ELSE "frame"
    /\ UNCHANGED <<genVars, devVars, frames_sent, frames_left, fh_parse_status,
                   frame, size_differs, why>>

\* Mutant: `>` for `>=` in the test for a used-up table.
CountFrameLate(sent, left, due) ==
    /\ frames_sent' = sent + 1
    /\ frames_left' = left
    /\ fh_parse_status' = due
    /\ vip_state' = IF sent + 1 > left THEN "VIP_SEND_NEXT_TABLE"
                                       ELSE "VIP_SEND_DATA"
    /\ hpc' = IF due THEN "status" ELSE "write"

\* Mutant: the status of the table is not read.
CountFrameBlind(sent, left, due) ==
    /\ frames_sent' = sent + 1
    /\ frames_left' = left
    /\ fh_parse_status' = due
    /\ vip_state' = IF sent + 1 >= left THEN "VIP_SEND_NEXT_TABLE"
                                        ELSE "VIP_SEND_DATA"
    /\ hpc' = "write"

\* The tail of vip_transfer_handle_tables(): one more frame of a table of
\* `left` frames, `sent` of them sent before; and what its callers do next,
\* which is to read a status first when one is due.
CountFrame(sent, left, due) ==
    /\ frames_sent' = sent + 1
    /\ frames_left' = left
    /\ fh_parse_status' = due
    /\ vip_state' = IF sent + 1 >= left THEN "VIP_SEND_NEXT_TABLE"
                                        ELSE "VIP_SEND_DATA"
    /\ hpc' = IF due THEN "status" ELSE "write"

(* The device takes a table: the first one is signed, a later one has to   *)
(* be the one whose hash ends the table before.                            *)
DeviceTakesTable(file, ok) ==
    /\ dev_reply' = IF ok THEN "ACK" ELSE "NAK"
    /\ dev_table' = IF ok THEN file ELSE dev_table
    /\ dev_used' = IF ok THEN 0 ELSE dev_used
    /\ dev_refused' = (dev_refused \/ ~ok)

SendSignedTable ==
    /\ hpc = "frame" /\ vip_state = "VIP_INIT"
    /\ DeviceTakesTable(tosign, TRUE)
    /\ CountFrame(0, MAX_DIGESTS_PER_SIGNED_TABLE, TRUE)
    /\ UNCHANGED <<genVars, opened, chained_cur, frame, size_differs, why>>

SendChainedTable ==
    /\ hpc = "frame" /\ vip_state = "VIP_SEND_NEXT_TABLE"
    /\ chained_cur < opened
    /\ LET file == chained[chained_cur + 1]
       IN  DeviceTakesTable(file, dev_table.next = <<file>>)
    /\ chained_cur' = chained_cur + 1
    /\ CountFrame(0, MAX_DIGESTS_PER_CHAINED_TABLE, TRUE)
    /\ UNCHANGED <<genVars, opened, frame, size_differs, why>>

NoTableNeeded ==
    /\ hpc = "frame" /\ vip_state = "VIP_SEND_DATA"
    /\ CountFrame(frames_sent, frames_left, fh_parse_status)
    /\ UNCHANGED <<genVars, devVars, opened, chained_cur, frame, size_differs,
                   why>>

GiveUp(reason) ==
    /\ hpc' = "failed" /\ why' = reason
    /\ UNCHANGED <<genVars, devVars, vip_state, opened, chained_cur,
                   frames_sent, frames_left, fh_parse_status, frame,
                   size_differs>>

(* "the required quantity of chained tables is missing" *)
TableMissing ==
    /\ hpc = "frame" /\ vip_state = "VIP_SEND_NEXT_TABLE"
    /\ chained_cur >= opened
    /\ GiveUp("missing")

(* The table's status is read with firehose_read(). *)
ReadStatus ==
    /\ hpc = "status"
    /\ \/ /\ dev_reply = "ACK"
          /\ hpc' = "write"
          /\ fh_parse_status' = FALSE
          /\ dev_reply' = "none"
          /\ UNCHANGED <<genVars, vip_state, opened, chained_cur, frames_sent,
                         frames_left, frame, size_differs, why, dev_table,
                         dev_used, dev_refused>>
       \/ dev_reply = "NAK" /\ GiveUp("refused")

\* Mutant: the second frame is skipped.
NextFrameSkips(f) == IF f < 2 THEN 3 ELSE f + 1

\* The frame after f: a device that proposes another payload size gets a
\* second configure command, frame 0, which the dry run never saw.  The rest of
\* the session is assumed to send the frames of the dry run: it looks up no
\* partition by its label, which a dry run skips (gpt.c:553), and erases not all.
NextFrame(f) ==
    IF f = 1 /\ size_differs THEN 0 ELSE IF f = 0 THEN 2 ELSE f + 1

(* The frame is written; the device compares its digest with its table. *)
WriteFrame ==
    /\ hpc = "write"
    /\ UNCHANGED <<genVars, vip_state, opened, chained_cur, frames_sent,
                   frames_left, fh_parse_status, size_differs, dev_table,
                   dev_reply>>
    /\ IF dev_used < dev_table.count /\ frame = dev_table.first + dev_used
       THEN /\ dev_used' = dev_used + 1
            /\ frame' = NextFrame(frame)
            /\ hpc' = IF NextFrame(frame) > digest_num_written THEN "done"
                                                               ELSE "frame"
            /\ UNCHANGED <<dev_refused, why>>
       ELSE /\ dev_refused' = TRUE
            /\ hpc' = "failed" /\ why' = "refused"
            /\ UNCHANGED <<dev_used, frame>>

(* A transfer fails, or the device stays silent for the 30 s of the read:  *)
(* the session ends, in the state the failing call left.                   *)
LinkFails ==
    /\ LinkMayFail
    /\ \/ hpc = "frame" /\ vip_state \in {"VIP_INIT", "VIP_SEND_NEXT_TABLE"}
       \/ hpc \in {"status", "write"}
    /\ GiveUp("link")

DryRun == hpc = "dryrun" /\ GenNext /\ UNCHANGED <<hostVars, devVars>>

Stopped == hpc \in {"done", "failed"} /\ UNCHANGED vars

Next ==
    \/ DryRun \/ TransferInit \/ SendSignedTable \/ SendChainedTable
    \/ NoTableNeeded \/ TableMissing \/ ReadStatus \/ WriteFrame
    \/ LinkFails \/ Stopped

Spec == Init /\ [][Next]_vars

\* The host is one process whose every wait has a timeout, and the dry run
\* has finitely many frames: it always takes its next step.  The link need
\* not fail.
FairSpec ==
    Spec /\ WF_vars(\/ DryRun \/ TransferInit \/ SendSignedTable
                    \/ SendChainedTable \/ NoTableNeeded \/ TableMissing
                    \/ ReadStatus \/ WriteFrame)
-----------------------------------------------------------------------------
Count == 0..(MAX_DIGESTS_PER_SIGNED_TABLE + MAX_DIGESTS_PER_CHAINED_TABLE)

(* The types of the variables; vip_transfer_init() opens no more tables    *)
(* than its array of descriptors holds.                                    *)
TypeOK ==
    /\ gpc \in {"record", "chain", "link", "done", "failed"}
    /\ digest_num_written \in Nat
    /\ remaining_digests \in Nat
    /\ present \in Nat /\ DOMAIN chained = 1..present
    /\ chained_num \in Nat /\ link \in Nat
    /\ hpc \in {"dryrun", "frame", "status", "write", "done", "failed"}
    /\ vip_state \in {"VIP_DISABLED", "VIP_INIT", "VIP_SEND_NEXT_TABLE",
                      "VIP_SEND_DATA"}
    /\ opened \in 0..MAX_CHAINED_FILES /\ chained_cur \in 0..opened
    /\ frames_sent \in Count /\ frames_left \in Count
    /\ fh_parse_status \in BOOLEAN
    /\ frame \in Nat
    /\ size_differs \in BOOLEAN
    /\ dev_used \in Nat
    /\ dev_reply \in {"none", "ACK", "NAK"}
    /\ dev_refused \in BOOLEAN
    /\ why \in {"none", "missing", "refused", "link"}

(* The device never refuses what the host sends, however the tables were   *)
(* split and whatever an earlier run left in the directory, unless the     *)
(* generator failed half-way or the device made the host send a configure  *)
(* command the dry run did not (vip_transfer_handle_tables() against       *)
(* create_chained_tables()).                                               *)
NoRefusal == dev_refused => gpc = "failed" \/ size_differs

(* Between two frames the host's count of the frames sent under the        *)
(* current table is the number of digests the device has used of it, and   *)
(* the host asks for the next table exactly when every digest a full table *)
(* holds is used: neither side can run ahead of the other.                 *)
InStep ==
    hpc = "frame" /\ vip_state # "VIP_INIT" =>
        /\ frames_sent = dev_used
        /\ vip_state = "VIP_SEND_NEXT_TABLE" <=> dev_used = frames_left

(* The host runs out of tables only when the generator wrote more of them  *)
(* than vip_transfer_init() has room for, or failed half-way, or when the  *)
(* device made the host send a frame the dry run did not.                  *)
MissingOnlyPastCapacity ==
    why = "missing" =>
        gpc = "failed" \/ size_differs \/ chained_num > MAX_CHAINED_FILES

(* The frames are never written before the table that covers them was      *)
(* acknowledged: when the host is about to write, no answer is unread.     *)
WriteAfterStatus == hpc = "write" => dev_reply = "none" /\ ~fh_parse_status

(* With a device that keeps the payload size, a complete dry run and a     *)
(* directory the tables fit in, every frame is accepted, unless the link   *)
(* fails (vip_transfer_handle_tables(), once per frame).                   *)
Completes ==
    []( hpc = "frame" /\ ~size_differs /\ chained_num <= MAX_CHAINED_FILES
          /\ gpc = "done"
        => <>(\/ why = "link"
              \/ hpc = "done" /\ frame = digest_num_written + 1) )
=============================================================================
