---------------------------- MODULE VipInvariant ----------------------------
(***************************************************************************)
(* The inductive invariant behind the safety properties of VipSession.  It *)
(* says what the files hold at each stage of the generator, and how far    *)
(* host and device are in them during the session.                         *)
(***************************************************************************)
EXTENDS VipSession

\* The digests a table holds when it is full and not the last one.
Full(cur) == IF cur = 0 THEN MAX_DIGESTS_PER_SIGNED_TABLE
                        ELSE MAX_DIGESTS_PER_CHAINED_TABLE

\* The first digest of table i: the one after the last of its predecessor.
FirstOf(i) == IF i = 1 THEN MAX_DIGESTS_PER_SIGNED_TABLE + 1
                       ELSE chained[i - 1].first + MAX_DIGESTS_PER_CHAINED_TABLE

\* The last digest in a table so far.
Covered == IF chained_num = 0 THEN tosign.count
           ELSE chained[chained_num].first + chained[chained_num].count - 1

(* What the tables written so far hold. *)
Split ==
    /\ tosign.first = 1
    /\ tosign.count = Lesser(digest_num_written, MAX_DIGESTS_PER_SIGNED_TABLE)
    /\ chained_num <= present
    /\ \A i \in 1..chained_num :
          /\ chained[i].first = FirstOf(i)
          /\ chained[i].first \in Nat /\ chained[i].count \in Nat
          /\ 1 <= chained[i].count
          /\ chained[i].count <= MAX_DIGESTS_PER_CHAINED_TABLE
          /\ i < chained_num => chained[i].count = MAX_DIGESTS_PER_CHAINED_TABLE
    /\ Covered + remaining_digests = digest_num_written

GenInv ==
    /\ gpc = "record" => chained_num = 0
    /\ gpc \in {"chain", "link", "done"} => Split
    /\ (gpc \in {"chain", "link"} \/ (gpc = "done" /\ chained_num > 0)) =>
          digest_num_written > MAX_DIGESTS_PER_SIGNED_TABLE
    /\ gpc = "chain" =>
          /\ remaining_digests > 0
          /\ chained_num > 0 =>
                chained[chained_num].count = MAX_DIGESTS_PER_CHAINED_TABLE
    /\ gpc \in {"link", "done"} =>
          /\ remaining_digests = 0
          /\ digest_num_written > MAX_DIGESTS_PER_SIGNED_TABLE =>
                chained_num >= 1
          /\ \A i \in 1..(chained_num - 1) :
                link <= i => chained[i].next = <<chained[i + 1]>>
    /\ gpc = "link" => link \in 1..chained_num
    /\ gpc = "done" /\ chained_num > 0 =>
          link = 0 /\ tosign.next = <<chained[1]>>

(* The counters of the host against the device, whatever the files hold. *)
CountInv ==
    /\ gpc \in {"record", "chain", "link"} => hpc = "dryrun"
    /\ hpc = "dryrun" => /\ frame = 1 /\ ~dev_refused /\ why = "none"
                         /\ ~fh_parse_status /\ dev_reply = "none"
                         /\ dev_used = 0 /\ chained_cur = 0
    /\ hpc # "dryrun" => opened = Lesser(present, MAX_CHAINED_FILES)
    /\ hpc \in {"frame", "status", "write"} =>
          /\ vip_state # "VIP_DISABLED" /\ why = "none"
          /\ vip_state = "VIP_INIT" =>
                /\ hpc = "frame" /\ frame = 1 /\ chained_cur = 0
          /\ vip_state # "VIP_INIT" =>
                /\ frames_left = Full(chained_cur)
                /\ dev_reply # "NAK" =>
                      frames_sent = IF hpc = "frame" THEN dev_used
                                                     ELSE dev_used + 1
                /\ frames_sent \in 1..frames_left
                /\ vip_state = "VIP_SEND_NEXT_TABLE" <=> frames_sent = frames_left
          /\ fh_parse_status <=> hpc = "status"
          /\ hpc # "status" => dev_reply = "none"
    /\ hpc = "status" => dev_reply # "none"

(* The device holds the table the host believes it holds, and the host is  *)
(* at the frame the device expects.                                        *)
TrackInv ==
    gpc = "done" /\ ~size_differs =>
        /\ ~dev_refused
        /\ why = "missing" => chained_num > MAX_CHAINED_FILES
        /\ hpc \in {"frame", "status", "write"} =>
              /\ frame <= digest_num_written
              /\ vip_state # "VIP_INIT" =>
                    /\ chained_cur <= chained_num
                    /\ dev_table = IF chained_cur = 0 THEN tosign
                                                      ELSE chained[chained_cur]
                    /\ frame = dev_table.first + dev_used
              /\ hpc = "status" => dev_reply = "ACK"

(* The last table of a chain has no successor. *)
ChainEnds ==
    /\ gpc \in {"link", "done"} /\ chained_num > 0 => chained[chained_num].next = << >>
    /\ gpc = "done" /\ chained_num = 0 => tosign.next = << >>

IInv == TypeOK /\ GenInv /\ CountInv /\ TrackInv
=============================================================================
