------------------------------ MODULE VipProofs ------------------------------
(***************************************************************************)
(* Proofs of the safety properties of VipSession, for every size of the    *)
(* tables, every number of frames and every number of tables the host has  *)
(* room for.                                                               *)
(***************************************************************************)
EXTENDS VipInvariant, WellFoundedInduction, TLAPS

(* The invariant holds before the dry run starts.                          *)
LEMMA InitIInv == Init => IInv
  <1> SUFFICES ASSUME Init PROVE IInv
    OBVIOUS
  <1> USE TableSizes, Bounds, SessionConstants DEF TableSizes, Bounds, SessionConstants, Init, GenInit
  <1>1. TypeOK
    <2>1. present \in Nat /\ DOMAIN chained = 1..present
      OBVIOUS
    <2>2. opened \in 0..MAX_CHAINED_FILES /\ chained_cur \in 0..opened
      OBVIOUS
    <2>3. frames_sent \in Count /\ frames_left \in Count
      BY DEF Count
    <2> QED BY <2>1, <2>2, <2>3 DEF TypeOK
  <1>2. GenInv
    BY DEF GenInv
  <1>3. CountInv
    BY DEF CountInv
  <1>4. TrackInv
    BY DEF TrackInv
  <1> QED BY <1>1, <1>2, <1>3, <1>4 DEF IInv

(* A step of the generator keeps what the files hold. *)
LEMMA GenNextGenInv ==
  ASSUME TypeOK, GenInv, GenNext PROVE GenInv'
  <1> USE TableSizes, Bounds DEF TableSizes, Bounds
  <1>1. CASE RecordChunk
    BY <1>1 DEF RecordChunk, GenInv, TypeOK
  <1>2. CASE WriteSigned
    BY <1>2 DEF WriteSigned, GenInv, TypeOK, Split, Covered, FirstOf, Lesser, Table
  <1>3. CASE WriteChained
    <2> DEFINE d == Lesser(remaining_digests, MAX_DIGESTS_PER_CHAINED_TABLE)
               new == Table(digest_num_written - remaining_digests + 1,
                            d, d = remaining_digests, << >>)
    <2>1. /\ gpc = "chain" /\ Split /\ remaining_digests > 0
          /\ digest_num_written > MAX_DIGESTS_PER_SIGNED_TABLE
          /\ chained_num \in Nat /\ present \in Nat
          /\ remaining_digests \in Nat /\ digest_num_written \in Nat
          /\ chained_num > 0 =>
                chained[chained_num].count = MAX_DIGESTS_PER_CHAINED_TABLE
      <3>1. gpc = "chain"
        BY <1>3 DEF WriteChained
      <3>2. Split
        BY <3>1 DEF GenInv
      <3>3. /\ remaining_digests > 0
            /\ digest_num_written > MAX_DIGESTS_PER_SIGNED_TABLE
            /\ chained_num > 0 =>
                  chained[chained_num].count = MAX_DIGESTS_PER_CHAINED_TABLE
        BY <3>1 DEF GenInv
      <3> QED BY <3>1, <3>2, <3>3 DEF TypeOK
    <2>2. d \in Nat /\ 1 <= d /\ d <= remaining_digests
             /\ d <= MAX_DIGESTS_PER_CHAINED_TABLE
             /\ (d # remaining_digests => d = MAX_DIGESTS_PER_CHAINED_TABLE)
      BY <2>1 DEF Lesser
    <2>3. /\ chained_num' = chained_num + 1
          /\ remaining_digests' = remaining_digests - d
          /\ UNCHANGED <<tosign, digest_num_written>>
          /\ IF d = remaining_digests THEN gpc' = "link" /\ link' = chained_num + 1
                                      ELSE gpc' = "chain" /\ link' = link
      BY <1>3 DEF WriteChained
    <2>4. /\ present' \in Nat /\ chained_num' <= present'
          /\ chained' = [i \in 1..present' |->
                           IF i = chained_num + 1 THEN new ELSE chained[i]]
      BY <1>3, <2>1 DEF WriteChained, WriteTable, Split
    <2>5. \A i \in 1..chained_num : chained'[i] = chained[i]
      BY <2>1, <2>3, <2>4
    <2>6. /\ chained'[chained_num + 1] = new
          /\ new.first = digest_num_written - remaining_digests + 1
          /\ new.count = d
      BY <2>1, <2>3, <2>4 DEF Table
    <2> HIDE DEF d, new
    <2>7. new.first = IF chained_num = 0 THEN MAX_DIGESTS_PER_SIGNED_TABLE + 1
                      ELSE chained[chained_num].first + MAX_DIGESTS_PER_CHAINED_TABLE
      <3>1. CASE chained_num = 0
        BY <2>1, <2>6, <3>1 DEF Split, Covered, Lesser
      <3>2. CASE chained_num # 0
        <4>1. chained_num \in 1..chained_num /\ chained[chained_num].first \in Nat
          BY <2>1, <3>2 DEF Split
        <4>2. Covered = chained[chained_num].first + MAX_DIGESTS_PER_CHAINED_TABLE - 1
          BY <2>1, <3>2 DEF Covered
        <4>3. Covered + remaining_digests = digest_num_written
          BY <2>1 DEF Split
        <4> QED BY <2>1, <2>6, <3>2, <4>1, <4>2, <4>3
      <3> QED BY <3>1, <3>2
    <2>8. new.first \in Nat
      BY <2>1, <2>7 DEF Split
    <2>9. Split'
      <3>1. ASSUME NEW i \in 1..chained_num'
            PROVE  /\ chained'[i].first = FirstOf(i)'
                   /\ chained'[i].first \in Nat /\ chained'[i].count \in Nat
                   /\ 1 <= chained'[i].count
                   /\ chained'[i].count <= MAX_DIGESTS_PER_CHAINED_TABLE
                   /\ i < chained_num' =>
                         chained'[i].count = MAX_DIGESTS_PER_CHAINED_TABLE
        <4>1. CASE i = chained_num + 1
          BY <2>1, <2>2, <2>3, <2>5, <2>6, <2>7, <2>8, <4>1 DEF FirstOf
        <4>2. CASE i \in 1..chained_num
          BY <2>1, <2>3, <2>5, <4>2 DEF FirstOf, Split
        <4> QED BY <2>1, <2>3, <4>1, <4>2
      <3>2. (Covered + remaining_digests = digest_num_written)'
        BY <2>1, <2>2, <2>3, <2>6, <2>8 DEF Covered
      <3> QED BY <2>1, <2>3, <2>4, <3>1, <3>2 DEF Split
    <2>10. chained'[chained_num'].count = d
      BY <2>3, <2>6
    <2> QED BY <2>1, <2>2, <2>3, <2>9, <2>10 DEF GenInv
  <1>4. CASE AppendHash
    <2>1. /\ gpc = "link" /\ Split /\ remaining_digests = 0
          /\ link \in 1..chained_num /\ chained_num \in Nat
          /\ present \in Nat /\ DOMAIN chained = 1..present
          /\ chained_num <= present
          /\ digest_num_written > MAX_DIGESTS_PER_SIGNED_TABLE
          /\ \A i \in 1..(chained_num - 1) :
                link <= i => chained[i].next = <<chained[i + 1]>>
      BY <1>4 DEF AppendHash, GenInv, TypeOK, Split
    <2>2. /\ link' = link - 1
          /\ UNCHANGED <<digest_num_written, present, chained_num, remaining_digests>>
      BY <1>4 DEF AppendHash
    <2>3. CASE link = 1
      <3>1. /\ tosign' = [tosign EXCEPT !.next = <<chained[1]>>]
            /\ gpc' = "done" /\ chained' = chained
        BY <1>4, <2>3 DEF AppendHash
      <3>2. tosign'.first = tosign.first /\ tosign'.count = tosign.count
        BY <3>1
      <3>3. Split'
        BY <2>1, <2>2, <3>1, <3>2 DEF Split, Covered, FirstOf
      <3> QED BY <2>1, <2>2, <2>3, <3>1, <3>3 DEF GenInv
    <2>4. CASE link # 1
      <3>1. /\ chained' = [chained EXCEPT ![link - 1].next = <<chained[link]>>]
            /\ gpc' = "link" /\ tosign' = tosign
        BY <1>4, <2>1, <2>4 DEF AppendHash
      <3>2. \A i \in 1..chained_num : i # link - 1 => chained'[i] = chained[i]
        BY <2>1, <3>1
      <3>3. /\ chained'[link - 1].first = chained[link - 1].first
            /\ chained'[link - 1].count = chained[link - 1].count
        BY <2>1, <2>4, <3>1
      <3>4. \A i \in 1..chained_num : /\ chained'[i].first = chained[i].first
                                     /\ chained'[i].count = chained[i].count
        BY <3>2, <3>3
      <3>5. Split'
        BY <2>1, <2>2, <3>1, <3>4 DEF Split, Covered, FirstOf
      <3> QED BY <2>1, <2>2, <2>4, <3>1, <3>2, <3>5 DEF GenInv
    <2> QED BY <2>3, <2>4
  <1>5. CASE GenFails
    BY <1>5 DEF GenFails, GenInv
  <1> QED BY <1>1, <1>2, <1>3, <1>4, <1>5 DEF GenNext

(* No step of the session touches the files: GenInv is kept by all steps.  *)
LEMMA NextGenInv ==
  ASSUME TypeOK, GenInv, [Next]_vars PROVE GenInv'
  <1>1. CASE DryRun
    BY <1>1, GenNextGenInv DEF DryRun
  <1>2. CASE UNCHANGED genVars
    BY <1>2 DEF genVars, GenInv, Split, Covered, FirstOf
  <1> QED BY <1>1, <1>2 DEF Next, vars, TransferInit, SendSignedTable,
        SendChainedTable, NoTableNeeded, TableMissing, ReadStatus, WriteFrame,
        LinkFails, Stopped, GiveUp

(* Every step keeps the counters of host and device in their relation.     *)
LEMMA NextCountInv ==
  ASSUME TypeOK, CountInv, [Next]_vars PROVE CountInv'
  <1> USE TableSizes, SessionConstants DEF TableSizes, SessionConstants
  <1>1. CASE DryRun
    BY <1>1 DEF DryRun, GenNext, RecordChunk, WriteSigned, WriteChained,
                AppendHash, GenFails, hostVars, devVars, CountInv, TypeOK
  <1>2. CASE TransferInit
    BY <1>2 DEF TransferInit, genVars, devVars, CountInv, TypeOK
  <1>3. CASE SendSignedTable
    BY <1>3 DEF SendSignedTable, DeviceTakesTable, CountFrame, genVars,
                CountInv, TypeOK, Full
  <1>4. CASE SendChainedTable
    BY <1>4 DEF SendChainedTable, DeviceTakesTable, CountFrame, genVars,
                CountInv, TypeOK, Full
  <1>5. CASE NoTableNeeded
    BY <1>5 DEF NoTableNeeded, CountFrame, genVars, devVars, CountInv, TypeOK,
                Full
  <1>6. CASE TableMissing \/ LinkFails
    BY <1>6 DEF TableMissing, LinkFails, GiveUp, genVars, devVars, CountInv,
                TypeOK
  <1>7. CASE ReadStatus
    BY <1>7 DEF ReadStatus, GiveUp, genVars, devVars, CountInv, TypeOK, Full
  <1>8. CASE WriteFrame
    BY <1>8 DEF WriteFrame, genVars, CountInv, TypeOK, Full
  <1>9. CASE UNCHANGED vars
    BY <1>9 DEF vars, genVars, hostVars, devVars, CountInv, Full
  <1> QED BY <1>1, <1>2, <1>3, <1>4, <1>5, <1>6, <1>7, <1>8, <1>9
          DEF Next, Stopped

(* Every step keeps the types: the open tables never exceed the array of   *)
(* vip_transfer_init(), and chained_cur never passes them.                 *)
LEMMA NextTypeOK ==
  ASSUME TypeOK, GenInv, CountInv, [Next]_vars PROVE TypeOK'
  <1> USE TableSizes, Bounds, SessionConstants
      DEF TableSizes, Bounds, SessionConstants, TypeOK, Count
  <1>1. CASE DryRun
    <2>1. UNCHANGED <<hostVars, devVars>>
      BY <1>1 DEF DryRun
    <2>2. CASE RecordChunk
      BY <2>1, <2>2 DEF RecordChunk, hostVars, devVars
    <2>3. CASE WriteSigned
      BY <2>1, <2>3 DEF WriteSigned, Lesser, hostVars, devVars
    <2>4. CASE WriteChained
      <3>1. present' \in Nat /\ DOMAIN chained' = 1..present'
        BY <2>4 DEF WriteChained, WriteTable
      <3>2. /\ remaining_digests' \in Nat /\ chained_num' \in Nat
            /\ link' \in Nat /\ gpc' \in {"chain", "link"}
            /\ digest_num_written' \in Nat
        BY <2>4 DEF WriteChained, Lesser
      <3> QED BY <2>1, <3>1, <3>2 DEF hostVars, devVars
    <2>5. CASE AppendHash
      BY <2>1, <2>5 DEF AppendHash, GenInv, Split, hostVars, devVars
    <2>6. CASE GenFails
      <3>1. present' \in Nat /\ DOMAIN chained' = 1..present'
        <4>1. ASSUME NEW t, WriteTable(chained_num, t)
              PROVE  present' \in Nat /\ DOMAIN chained' = 1..present'
          BY <4>1 DEF WriteTable
        <4>2. CASE UNCHANGED <<chained, present>>
          BY <4>2
        <4> QED BY <2>6, <4>1, <4>2 DEF GenFails
      <3>2. gpc' = "failed" /\ UNCHANGED <<digest_num_written, chained_num,
                                          remaining_digests, link>>
        BY <2>6 DEF GenFails
      <3> QED BY <2>1, <3>1, <3>2 DEF hostVars, devVars
    <2> QED BY <1>1, <2>2, <2>3, <2>4, <2>5, <2>6 DEF DryRun, GenNext
  <1>2. CASE TransferInit
    BY <1>2 DEF TransferInit, Lesser, genVars, devVars
  <1>3. CASE SendSignedTable
    BY <1>3 DEF SendSignedTable, DeviceTakesTable, CountFrame, genVars, CountInv
  <1>4. CASE SendChainedTable
    BY <1>4 DEF SendChainedTable, DeviceTakesTable, CountFrame, genVars, CountInv
  <1>5. CASE NoTableNeeded
    BY <1>5 DEF NoTableNeeded, CountFrame, genVars, devVars, CountInv, Full
  <1>6. CASE TableMissing \/ LinkFails
    BY <1>6 DEF TableMissing, LinkFails, GiveUp, genVars, devVars
  <1>7. CASE ReadStatus
    BY <1>7 DEF ReadStatus, GiveUp, genVars, devVars
  <1>8. CASE WriteFrame
    <2>1. NextFrame(frame) \in Nat
      BY DEF NextFrame
    <2>2. CASE dev_used < dev_table.count /\ frame = dev_table.first + dev_used
      BY <1>8, <2>1, <2>2 DEF WriteFrame, genVars
    <2>3. CASE ~(dev_used < dev_table.count /\ frame = dev_table.first + dev_used)
      BY <1>8, <2>3 DEF WriteFrame, genVars
    <2> QED BY <2>2, <2>3
  <1>9. CASE UNCHANGED vars
    BY <1>9 DEF vars, genVars, hostVars, devVars
  <1> QED BY <1>1, <1>2, <1>3, <1>4, <1>5, <1>6, <1>7, <1>8, <1>9
          DEF Next, Stopped

(* While the host is in a session that can succeed: the table it needs     *)
(* next was written, its hash ends the device's table, and it starts with  *)
(* the frame to send.                                                      *)
LEMMA NextTableFits ==
  ASSUME TypeOK, GenInv, CountInv, TrackInv, gpc = "done", ~size_differs,
         hpc = "frame", vip_state = "VIP_SEND_NEXT_TABLE"
  PROVE  /\ chained_cur < chained_num
         /\ dev_table.next = <<chained[chained_cur + 1]>>
         /\ frame = chained[chained_cur + 1].first
  <1> USE TableSizes DEF TableSizes
  <1>1. /\ dev_used = Full(chained_cur)
        /\ frame = dev_table.first + dev_used
        /\ frame <= digest_num_written
        /\ chained_cur <= chained_num
        /\ dev_table = IF chained_cur = 0 THEN tosign ELSE chained[chained_cur]
    BY DEF CountInv, TrackInv
  <1>2. /\ chained_cur \in Nat /\ chained_num \in Nat
        /\ digest_num_written \in Nat /\ link \in Nat
    BY SessionConstants DEF TypeOK, SessionConstants
  <1>3. Split /\ Covered = digest_num_written
    <2>1. Split /\ remaining_digests = 0
      BY DEF GenInv
    <2>2. Covered \in Int
      BY <1>2, <2>1 DEF Covered, Split, Lesser
    <2> QED BY <2>1, <2>2, <1>2 DEF Split
  <1>4. /\ chained_num > 0 => link = 0 /\ tosign.next = <<chained[1]>>
        /\ \A i \in 1..(chained_num - 1) :
              link <= i => chained[i].next = <<chained[i + 1]>>
    BY DEF GenInv
  <1>5. CASE chained_cur = 0
    <2>1. chained_num # 0
      BY <1>1, <1>2, <1>3, <1>5 DEF Full, Split, Covered, Lesser
    <2>2. chained[1].first = MAX_DIGESTS_PER_SIGNED_TABLE + 1 /\ tosign.first = 1
      BY <1>2, <1>3, <2>1 DEF Split, FirstOf
    <2> QED BY <1>1, <1>2, <1>4, <1>5, <2>1, <2>2 DEF Full
  <1>6. CASE chained_cur # 0
    <2>1. /\ chained_cur \in 1..chained_num
          /\ chained[chained_cur].first \in Nat /\ chained[chained_cur].count \in Nat
          /\ chained[chained_cur].count <= MAX_DIGESTS_PER_CHAINED_TABLE
      BY <1>1, <1>2, <1>3, <1>6 DEF Split
    <2>2. frame = chained[chained_cur].first + MAX_DIGESTS_PER_CHAINED_TABLE
      BY <1>1, <1>6 DEF Full
    <2>3. chained_cur # chained_num
      BY <1>1, <1>2, <1>3, <1>6, <2>1, <2>2 DEF Covered
    <2>4. chained[chained_cur + 1].first
             = chained[chained_cur].first + MAX_DIGESTS_PER_CHAINED_TABLE
      <3>1. chained_cur + 1 \in 1..chained_num /\ chained_cur + 1 # 1
              /\ (chained_cur + 1) - 1 = chained_cur
        BY <1>2, <2>1, <2>3
      <3>2. chained[chained_cur + 1].first = FirstOf(chained_cur + 1)
        BY <1>3, <3>1 DEF Split
      <3> QED BY <3>1, <3>2 DEF FirstOf
    <2>5. chained[chained_cur].next = <<chained[chained_cur + 1]>>
      BY <1>2, <1>4, <2>1, <2>3
    <2> QED BY <1>1, <1>2, <1>6, <2>1, <2>2, <2>3, <2>4, <2>5
  <1> QED BY <1>5, <1>6

(* The frame the host is about to write is the next one of the device's    *)
(* table.                                                                  *)
LEMMA FrameFits ==
  ASSUME TypeOK, GenInv, CountInv, TrackInv, gpc = "done", ~size_differs,
         hpc = "write"
  PROVE  /\ dev_used < dev_table.count
         /\ frame = dev_table.first + dev_used
         /\ dev_table.first \in Nat \ {0}
  <1> USE TableSizes DEF TableSizes
  <1>1. /\ dev_used + 1 <= Full(chained_cur)
        /\ frame = dev_table.first + dev_used
        /\ frame <= digest_num_written
        /\ chained_cur <= chained_num
        /\ dev_table = IF chained_cur = 0 THEN tosign ELSE chained[chained_cur]
    BY DEF CountInv, TrackInv, TypeOK
  <1>2. /\ chained_cur \in Nat /\ chained_num \in Nat /\ dev_used \in Nat
        /\ digest_num_written \in Nat
    BY SessionConstants DEF TypeOK, SessionConstants
  <1>3. Split /\ Covered = digest_num_written
    <2>1. Split /\ remaining_digests = 0
      BY DEF GenInv
    <2>2. Covered \in Int
      BY <1>2, <2>1 DEF Covered, Split, Lesser
    <2> QED BY <2>1, <2>2, <1>2 DEF Split
  <1>4. CASE chained_cur = 0
    <2>1. chained_num > 0 => digest_num_written > MAX_DIGESTS_PER_SIGNED_TABLE
      BY DEF GenInv
    <2>2. dev_table.first = 1
            /\ dev_table.count = Lesser(digest_num_written,
                                        MAX_DIGESTS_PER_SIGNED_TABLE)
      BY <1>1, <1>3, <1>4 DEF Split
    <2> QED BY <1>1, <1>2, <1>4, <2>2 DEF Full, Lesser
  <1>5. CASE chained_cur # 0
    <2>1. /\ chained_cur \in 1..chained_num
          /\ dev_table.first \in Nat /\ dev_table.count \in Nat
          /\ chained_cur < chained_num =>
                dev_table.count = MAX_DIGESTS_PER_CHAINED_TABLE
      BY <1>1, <1>2, <1>3, <1>5 DEF Split
    <2>2. chained_cur = chained_num =>
             dev_table.first + dev_table.count - 1 = digest_num_written
      BY <1>1, <1>3, <1>5 DEF Covered
    <2>3. dev_table.first >= 1
      <3>1. chained[chained_cur].first = FirstOf(chained_cur)
        BY <1>3, <2>1 DEF Split
      <3>2. chained_cur # 1 => chained_cur - 1 \in 1..chained_num
        BY <1>2, <2>1
      <3>3. chained_cur # 1 => chained[chained_cur - 1].first \in Nat
        BY <1>3, <3>2 DEF Split
      <3> QED BY <1>1, <1>5, <3>1, <3>3 DEF FirstOf
    <2> QED BY <1>1, <1>2, <1>5, <2>1, <2>2, <2>3 DEF Full
  <1> QED BY <1>4, <1>5

(* Every step keeps the device at the table and the frame the host is at.  *)
LEMMA NextTrackInv ==
  ASSUME IInv, [Next]_vars PROVE TrackInv'
  <1> SUFFICES ASSUME gpc' = "done", ~size_differs' PROVE
        /\ ~dev_refused'
        /\ why' = "missing" => chained_num' > MAX_CHAINED_FILES
        /\ hpc' \in {"frame", "status", "write"} =>
              /\ frame' <= digest_num_written'
              /\ vip_state' # "VIP_INIT" =>
                    /\ chained_cur' <= chained_num'
                    /\ dev_table' = IF chained_cur' = 0 THEN tosign'
                                     ELSE chained'[chained_cur']
                    /\ frame' = dev_table'.first + dev_used'
              /\ hpc' = "status" => dev_reply' = "ACK"
    BY DEF TrackInv
  <1> USE TableSizes, SessionConstants DEF TableSizes, SessionConstants
  <1>1. CASE DryRun
    BY <1>1 DEF DryRun, hostVars, devVars, IInv, CountInv
  <1> SUFFICES ASSUME ~DryRun PROVE TrackInv'
    BY <1>1 DEF TrackInv
  <1>0. gpc = "done" /\ ~size_differs /\ UNCHANGED genVars
    <2>1. UNCHANGED <<genVars, size_differs>>
      BY DEF Next, vars, TransferInit, SendSignedTable, SendChainedTable,
          NoTableNeeded, TableMissing, ReadStatus, WriteFrame, LinkFails,
          Stopped, GiveUp, hostVars
    <2> QED BY <2>1 DEF genVars
  <1> USE <1>0 DEF IInv
  <1>2. CASE TransferInit
    BY <1>2 DEF TransferInit, genVars, devVars, CountInv, TypeOK, TrackInv
  <1>3. CASE SendSignedTable
    BY <1>3 DEF SendSignedTable, DeviceTakesTable, CountFrame, genVars,
                CountInv, TypeOK, TrackInv, GenInv, Split
  <1>4. CASE SendChainedTable
    <2>1. /\ chained_cur < chained_num
          /\ dev_table.next = <<chained[chained_cur + 1]>>
          /\ frame = chained[chained_cur + 1].first
      BY <1>4, NextTableFits DEF SendChainedTable
    <2> QED BY <1>4, <2>1 DEF SendChainedTable, DeviceTakesTable, CountFrame,
                genVars, CountInv, TypeOK, TrackInv
  <1>5. CASE NoTableNeeded
    BY <1>5 DEF NoTableNeeded, CountFrame, genVars, devVars, CountInv, TrackInv
  <1>6. CASE TableMissing
    <2>1. chained_cur < chained_num /\ chained_num <= present
      BY <1>6, NextTableFits DEF TableMissing, GenInv, Split
    <2>2. chained_num > MAX_CHAINED_FILES
      BY <1>6, <2>1 DEF TableMissing, CountInv, TypeOK, Lesser
    <2> QED BY <1>6, <2>2 DEF TableMissing, GiveUp, genVars, devVars, TrackInv
  <1>7. CASE LinkFails
    BY <1>7 DEF LinkFails, GiveUp, genVars, devVars, CountInv, TrackInv
  <1>8. CASE ReadStatus
    BY <1>8 DEF ReadStatus, GiveUp, genVars, devVars, CountInv, TrackInv
  <1>9. CASE WriteFrame
    <2>1. /\ dev_used < dev_table.count
          /\ frame = dev_table.first + dev_used
          /\ dev_table.first \in Nat \ {0}
      BY <1>9, FrameFits DEF WriteFrame
    <2>2. NextFrame(frame) = frame + 1
      BY <2>1 DEF NextFrame, TypeOK
    <2>3. /\ frame' = frame + 1 /\ dev_used' = dev_used + 1
          /\ hpc' = IF frame + 1 > digest_num_written THEN "done" ELSE "frame"
          /\ UNCHANGED <<genVars, dev_table, vip_state, chained_cur, dev_reply,
                         dev_refused, why>>
      BY <1>9, <2>1, <2>2 DEF WriteFrame
    <2>4. vip_state # "VIP_INIT"
      BY <1>9 DEF WriteFrame, CountInv
    <2>5. /\ ~dev_refused /\ (why = "missing" => chained_num > MAX_CHAINED_FILES)
          /\ chained_cur <= chained_num
          /\ dev_table = IF chained_cur = 0 THEN tosign ELSE chained[chained_cur]
      BY <1>9, <2>4 DEF WriteFrame, TrackInv
    <2>6. frame' = dev_table'.first + dev_used'
      BY <2>1, <2>3 DEF TypeOK
    <2>7. hpc' = "frame" => frame' <= digest_num_written'
      BY <2>3 DEF TypeOK, genVars
    <2> QED BY <2>3, <2>5, <2>6, <2>7 DEF TrackInv, genVars
  <1>10. CASE UNCHANGED vars
    BY <1>10 DEF vars, genVars, hostVars, devVars, TrackInv
  <1> QED BY <1>2, <1>3, <1>4, <1>5, <1>6, <1>7, <1>8, <1>9, <1>10
          DEF Next, Stopped

(* Every step keeps the whole invariant.                                   *)
LEMMA NextIInv == IInv /\ [Next]_vars => IInv'
  BY NextTypeOK, NextGenInv, NextCountInv, NextTrackInv DEF IInv

(* The invariant holds in every reachable state.                           *)
LEMMA Invariance == Spec => []IInv
  BY InitIInv, NextIInv, PTL DEF Spec

(* Every variable keeps to its type, for every size of the tables.         *)
THEOREM TypeCorrect == Spec => []TypeOK
  BY Invariance, PTL DEF IInv

(* The device never refuses a table or a frame of a session whose tables   *)
(* were completely generated and whose frames are those of the dry run.    *)
THEOREM NeverRefused == Spec => []NoRefusal
  <1>1. IInv => NoRefusal
    BY DEF IInv, TrackInv, CountInv, NoRefusal, TypeOK
  <1> QED BY <1>1, Invariance, PTL

(* Host and device count the frames of a table alike.                      *)
THEOREM CountedAlike == Spec => []InStep
  <1>1. IInv => InStep
    BY DEF IInv, CountInv, InStep, TypeOK
  <1> QED BY <1>1, Invariance, PTL

(* Tables run out only past the capacity of the host's array.              *)
THEOREM MissingPastCapacity == Spec => []MissingOnlyPastCapacity
  <1>1. IInv => MissingOnlyPastCapacity
    BY DEF IInv, TrackInv, CountInv, MissingOnlyPastCapacity, TypeOK
  <1> QED BY <1>1, Invariance, PTL

(* No frame is written while the answer to a table is unread.              *)
THEOREM StatusReadFirst == Spec => []WriteAfterStatus
  <1>1. IInv => WriteAfterStatus
    BY DEF IInv, CountInv, WriteAfterStatus
  <1> QED BY <1>1, Invariance, PTL

-----------------------------------------------------------------------------
\* A set of natural numbers has a least one.
LEMMA Least ==
    ASSUME NEW T, T \subseteq Nat, T # {}
    PROVE  \E x \in T : \A y \in T : x <= y
<1>1. IsWellFoundedOn({p \in Nat \X Nat : p[1] < p[2]}, Nat)
  BY NatLessThanWellFounded DEF OpToRel
<1>2. PICK x \in T : \A y \in T : ~(<< y, x >> \in {p \in Nat \X Nat : p[1] < p[2]})
  BY <1>1, WFMin
<1>3. \A y \in T : ~(y < x)
  BY <1>2
<1> QED
  BY <1>3

\* Induction over the numbers, as a set.
LEMMA Induction ==
    ASSUME NEW S, 0 \in S, \A n \in Nat : n \in S => n + 1 \in S
    PROVE  Nat \subseteq S
<1> SUFFICES ASSUME Nat \ S # {} PROVE FALSE
  OBVIOUS
<1>1. PICK x \in Nat \ S : \A y \in Nat \ S : x <= y
  BY Least
<1>2. x - 1 \in Nat /\ x - 1 \in S
  BY <1>1
<1> QED
  BY <1>1, <1>2

\* Every step keeps the chain's end.
LEMMA NextChainEnds ==
    ASSUME TypeOK, GenInv, ChainEnds, [Next]_vars PROVE ChainEnds'
<1>1. CASE DryRun
  <2>1. CASE RecordChunk
    BY <2>1 DEF RecordChunk, ChainEnds
  <2>2. CASE WriteSigned
    BY <2>2 DEF WriteSigned, ChainEnds, GenInv, Table
  <2>3. CASE WriteChained
    <3>1. chained_num \in Nat /\ present \in Nat /\ Split
      BY <2>3 DEF WriteChained, TypeOK, GenInv
    <3>2. PICK t : t.next = << >> /\ WriteTable(chained_num, t) /\ chained_num' = chained_num + 1
      BY <2>3 DEF WriteChained, Table
    <3>3. chained_num + 1 \in 1..present'
      BY <3>1, <3>2 DEF WriteTable, Split
    <3>4. chained'[chained_num'] = t
      BY <3>1, <3>2, <3>3 DEF WriteTable
    <3>5. gpc' # "done" /\ chained_num' # 0
      BY <2>3, <3>1, <3>2 DEF WriteChained
    <3> QED
      BY <3>2, <3>4, <3>5 DEF ChainEnds
  <2>4. CASE AppendHash
    <3>1. gpc = "link" /\ link \in 1..chained_num /\ chained_num \in Nat /\ chained_num' = chained_num
          /\ chained_num <= present /\ DOMAIN chained = 1..present /\ present \in Nat
      BY <2>4 DEF AppendHash, GenInv, TypeOK, Split
    <3>2. chained[chained_num].next = << >>
      BY <3>1 DEF ChainEnds
    <3>3. chained'[chained_num].next = << >>
      BY <2>4, <3>1, <3>2 DEF AppendHash
    <3> QED
      BY <3>1, <3>3 DEF ChainEnds
  <2>5. CASE GenFails
    BY <2>5 DEF GenFails, ChainEnds
  <2> QED
    BY <1>1, <2>1, <2>2, <2>3, <2>4, <2>5 DEF DryRun, GenNext
<1>2. CASE UNCHANGED genVars
  BY <1>2 DEF genVars, ChainEnds
<1> QED
  BY <1>1, <1>2 DEF Next, vars, TransferInit, SendSignedTable, SendChainedTable, NoTableNeeded,
                    TableMissing, ReadStatus, WriteFrame, LinkFails, Stopped, GiveUp

-----------------------------------------------------------------------------
\* What following the hashes finds, once the chain is complete.
Chain == [k \in Nat |-> IF k = 0 THEN tosign ELSE IF k <= chained_num THEN chained[k] ELSE NoTable]

Complete == TypeOK /\ GenInv /\ ChainEnds /\ gpc = "done"

\* The tables follow each other.
LEMMA ChainFollows ==
    ASSUME Complete
    PROVE  \A k \in Nat : Chain[k] = IF k = 0 THEN tosign ELSE Successor(Chain[k - 1])
<1>1. chained_num \in Nat
  BY DEF Complete, TypeOK
<1>2. /\ chained_num > 0 => link = 0 /\ tosign.next = << chained[1] >>
      /\ chained_num = 0 => tosign.next = << >>
      /\ chained_num > 0 => chained[chained_num].next = << >>
  BY DEF Complete, GenInv, ChainEnds
<1>3. \A i \in 1..(chained_num - 1) : chained[i].next = << chained[i + 1] >>
  BY <1>1, <1>2 DEF Complete, GenInv
<1> SUFFICES ASSUME NEW k \in Nat, k # 0 PROVE Chain[k] = Successor(Chain[k - 1])
  BY DEF Chain
<1>4. \A t : << t >> # << >> /\ << t >>[1] = t
  OBVIOUS
<1>5. NoTable.next = << >>
  BY DEF NoTable, Table
<1>6. CASE k = 1
  BY <1>1, <1>2, <1>4, <1>6 DEF Chain, Successor
<1>7. CASE k > 1 /\ k <= chained_num
  <2>1. k - 1 \in 1..(chained_num - 1) /\ (k - 1) + 1 = k /\ k - 1 \in Nat /\ k - 1 # 0
    BY <1>1, <1>7
  <2>2. chained[k - 1].next = << chained[k] >>
    BY <1>3, <2>1
  <2>3. Chain[k] = chained[k] /\ Chain[k - 1] = chained[k - 1]
    BY <1>1, <1>7, <2>1 DEF Chain
  <2> QED
    BY <1>4, <2>2, <2>3 DEF Successor
<1>8. CASE k > 1 /\ k > chained_num
  <2>1. Chain[k] = NoTable /\ k - 1 \in Nat /\ k - 1 # 0
    BY <1>1, <1>8 DEF Chain
  <2>2. Chain[k - 1] = IF k - 1 = chained_num THEN chained[chained_num] ELSE NoTable
    BY <1>1, <1>8, <2>1 DEF Chain
  <2>3. Chain[k - 1].next = << >>
    BY <1>1, <1>2, <1>5, <1>8, <2>1, <2>2
  <2> QED
    BY <2>1, <2>3 DEF Successor
<1> QED
  BY <1>1, <1>6, <1>7, <1>8

\* Following the hashes finds the tables of the chain.
LEMMA FollowedIsChain ==
    ASSUME Complete
    PROVE  \A k \in Nat : Followed[k] = Chain[k]
<1> DEFINE Equation(f) == f = [k \in Nat |-> IF k = 0 THEN tosign ELSE Successor(f[k - 1])]
<1>1. Equation(Chain)
  BY ChainFollows DEF Chain
<1>2. Equation(Followed)
  BY <1>1 DEF Followed
<1>3. Followed[0] = tosign /\ \A k \in Nat \ {0} : Followed[k] = Successor(Followed[k - 1])
  BY <1>2
<1> DEFINE S == {k \in Nat : Followed[k] = Chain[k]}
<1>4. 0 \in S
  BY <1>3, ChainFollows
<1>5. ASSUME NEW n \in Nat, n \in S PROVE n + 1 \in S
  <2>1. (n + 1) - 1 = n /\ n + 1 \in Nat \ {0}
    OBVIOUS
  <2>2. Followed[n + 1] = Successor(Followed[n]) /\ Chain[n + 1] = Successor(Chain[n])
    BY <1>3, <2>1, ChainFollows
  <2> QED
    BY <1>5, <2>1, <2>2
<1>6. Nat \subseteq S
  BY <1>4, <1>5, Induction
<1> QED
  BY <1>6

-----------------------------------------------------------------------------
\* The digests up to table k, as the host split them.
Upto(k) == IF k = 0 THEN tosign.count
           ELSE IF k <= chained_num THEN chained[k].first + chained[k].count - 1
           ELSE digest_num_written
Whole == [k \in Nat |-> [i \in 1..Upto(k) |-> i]]

\* Each table goes on where the one before ended, and the last ends at the end.
LEMMA TablesAdjoin ==
    ASSUME Complete
    PROVE  /\ tosign.first = 1 /\ tosign.count \in Nat
           /\ \A k \in Nat : Upto(k) \in Nat
           /\ \A k \in Nat \ {0} :
                 /\ Chain[k].count \in Nat /\ Upto(k) = Upto(k - 1) + Chain[k].count
                 /\ Chain[k].count > 0 => Chain[k].first = Upto(k - 1) + 1
           /\ Upto(chained_num) = digest_num_written
<1> USE TableSizes DEF TableSizes
<1>1. /\ chained_num \in Nat /\ digest_num_written \in Nat /\ Split /\ remaining_digests = 0
      /\ digest_num_written > MAX_DIGESTS_PER_SIGNED_TABLE => chained_num >= 1
      /\ chained_num > 0 => digest_num_written > MAX_DIGESTS_PER_SIGNED_TABLE
  BY DEF Complete, TypeOK, GenInv
<1>2. /\ tosign.first = 1 /\ tosign.count \in Nat
      /\ chained_num > 0 => tosign.count = MAX_DIGESTS_PER_SIGNED_TABLE
  BY <1>1 DEF Split, Lesser
<1>3. \A k \in 1..chained_num :
         /\ chained[k].first \in Nat /\ chained[k].count \in Nat /\ 1 <= chained[k].count
         /\ k < chained_num => chained[k].count = MAX_DIGESTS_PER_CHAINED_TABLE
         /\ chained[k].first = IF k = 1 THEN MAX_DIGESTS_PER_SIGNED_TABLE + 1
                               ELSE chained[k - 1].first + MAX_DIGESTS_PER_CHAINED_TABLE
  BY <1>1 DEF Split, FirstOf
<1>4. Upto(chained_num) = digest_num_written
  <2>1. Covered = Upto(chained_num) /\ Covered \in Int
    BY <1>1, <1>2, <1>3 DEF Covered, Upto
  <2> QED
    BY <1>1, <2>1 DEF Split
<1>5. \A k \in Nat : Upto(k) \in Nat
  BY <1>1, <1>2, <1>3 DEF Upto
<1>6. ASSUME NEW k \in Nat \ {0}
      PROVE  /\ Chain[k].count \in Nat /\ Upto(k) = Upto(k - 1) + Chain[k].count
             /\ Chain[k].count > 0 => Chain[k].first = Upto(k - 1) + 1
  <2>1. CASE k = 1 /\ k <= chained_num
    BY <1>1, <1>2, <1>3, <2>1 DEF Chain, Upto
  <2>2. CASE k > 1 /\ k <= chained_num
    <3>1. k \in 1..chained_num /\ k - 1 \in 1..chained_num /\ k - 1 # 0 /\ k - 1 < chained_num
      BY <1>1, <2>2
    <3>2. Upto(k - 1) = chained[k - 1].first + chained[k - 1].count - 1
      BY <3>1 DEF Upto
    <3>3. Chain[k] = chained[k] /\ Upto(k) = chained[k].first + chained[k].count - 1
      BY <1>1, <2>2 DEF Chain, Upto
    <3> QED
      BY <1>3, <2>2, <3>1, <3>2, <3>3
  <2>3. CASE k > chained_num
    <3>1. Chain[k].count = 0 /\ Upto(k) = digest_num_written
      BY <1>1, <2>3 DEF Chain, NoTable, Table, Upto
    <3>2. Upto(k - 1) = digest_num_written
      <4>1. k - 1 \in Nat /\ (k - 1 = chained_num \/ k - 1 > chained_num)
        BY <1>1, <2>3
      <4> QED
        BY <1>1, <1>4, <4>1 DEF Upto
    <3> QED
      BY <1>1, <3>1, <3>2
  <2> QED
    BY <1>1, <2>1, <2>2, <2>3
<1> QED
  BY <1>2, <1>4, <1>5, <1>6

\* The numbers up to m, and those of a table after them.
LEMMA Concatenated ==
    ASSUME NEW m \in Nat, NEW t, t.count \in Nat, t.count > 0 => t.first = m + 1
    PROVE  [i \in 1..m |-> i] \o DigestsIn(t) = [i \in 1..(m + t.count) |-> i]
<1> DEFINE a == [i \in 1..m |-> i]
           b == [i \in 1..t.count |-> m + i]
<1>1. DigestsIn(t) = b
  <2>1. \A i \in 1..t.count : t.first + i - 1 = m + i
    OBVIOUS
  <2> QED
    BY <2>1 DEF DigestsIn
<1>2. a \in Seq(Nat) /\ Len(a) = m /\ b \in Seq(Nat) /\ Len(b) = t.count
  OBVIOUS
<1>3. a \o b = [i \in 1..(m + t.count) |-> IF i <= m THEN a[i] ELSE b[i - m]]
  BY <1>2
<1>4. \A i \in 1..(m + t.count) : (IF i <= m THEN a[i] ELSE b[i - m]) = i
  OBVIOUS
<1> QED
  BY <1>1, <1>3, <1>4

\* Following the hashes finds every digest, once and in order.
LEMMA DigestsAreWhole ==
    ASSUME Complete
    PROVE  \A k \in Nat : Digests[k] = Whole[k]
<1> DEFINE Equation(f) == f = [k \in Nat |-> IF k = 0 THEN DigestsIn(tosign)
                                            ELSE f[k - 1] \o DigestsIn(Followed[k])]
<1>1. Whole[0] = DigestsIn(tosign)
  BY TablesAdjoin DEF Whole, Upto, DigestsIn
<1>2. \A k \in Nat \ {0} : Whole[k] = Whole[k - 1] \o DigestsIn(Followed[k])
  <2> TAKE k \in Nat \ {0}
  <2> DEFINE m == Upto(k - 1)
             t == Chain[k]
  <2>1. k - 1 \in Nat /\ m \in Nat /\ Upto(k) = m + t.count
        /\ t.count \in Nat /\ (t.count > 0 => t.first = m + 1)
    <3>1. k - 1 \in Nat
      OBVIOUS
    <3>2. /\ Chain[k].count \in Nat /\ Upto(k) = Upto(k - 1) + Chain[k].count
          /\ Chain[k].count > 0 => Chain[k].first = Upto(k - 1) + 1
      BY TablesAdjoin
    <3>3. Upto(k - 1) \in Nat
      BY <3>1, TablesAdjoin
    <3> QED
      BY <3>1, <3>2, <3>3
  <2>2. Whole[k - 1] = [i \in 1..m |-> i] /\ Whole[k] = [i \in 1..Upto(k) |-> i]
    BY <2>1 DEF Whole
  <2>3. Followed[k] = t
    BY FollowedIsChain
  <2> HIDE DEF m, t
  <2>4. [i \in 1..m |-> i] \o DigestsIn(t) = [i \in 1..(m + t.count) |-> i]
    BY <2>1, Concatenated
  <2> QED
    BY <2>1, <2>2, <2>3, <2>4
<1>3. Equation(Whole)
  BY <1>1, <1>2 DEF Whole
<1>4. Equation(Digests)
  BY <1>3 DEF Digests
<1>5. Digests[0] = DigestsIn(tosign)
      /\ \A k \in Nat \ {0} : Digests[k] = Digests[k - 1] \o DigestsIn(Followed[k])
  BY <1>4
<1> DEFINE S == {k \in Nat : Digests[k] = Whole[k]}
<1>6. 0 \in S
  BY <1>1, <1>5
<1>7. ASSUME NEW n \in Nat, n \in S PROVE n + 1 \in S
  <2>1. (n + 1) - 1 = n /\ n + 1 \in Nat \ {0}
    OBVIOUS
  <2>2. Digests[n + 1] = Digests[n] \o DigestsIn(Followed[n + 1])
        /\ Whole[n + 1] = Whole[n] \o DigestsIn(Followed[n + 1])
    BY <1>2, <1>5, <2>1
  <2> QED
    BY <1>7, <2>1, <2>2
<1>8. Nat \subseteq S
  BY <1>6, <1>7, Induction
<1> QED
  BY <1>8

(* A generator that succeeds leaves a chain of tables that covers every    *)
(* frame, for all sizes of the tables and every number of frames.          *)
THEOREM TablesCoverFramesHolds == Spec => []TablesCoverFrames
<1>1. ASSUME Complete PROVE TablesCoverFrames
  <2>1. chained_num \in Nat
    BY <1>1 DEF Complete, TypeOK
  <2>2. Digests[chained_num] = [i \in 1..digest_num_written |-> i]
    BY <1>1, <2>1, DigestsAreWhole, TablesAdjoin DEF Whole
  <2>3. Followed[chained_num].next = << >>
    BY <1>1, <2>1, FollowedIsChain DEF Chain, Complete, ChainEnds
  <2> QED
    BY <2>2, <2>3 DEF TablesCoverFrames
<1>2. IInv /\ ChainEnds => TablesCoverFrames
  BY <1>1 DEF IInv, Complete, TablesCoverFrames
<1>3. Init => ChainEnds
  BY DEF Init, GenInit, ChainEnds
<1>4. IInv /\ ChainEnds /\ [Next]_vars => ChainEnds'
  BY NextChainEnds DEF IInv
<1> QED
  BY <1>2, <1>3, <1>4, Invariance, PTL DEF Spec
=============================================================================
