---------------------------- MODULE SaharaProofs ----------------------------
(***************************************************************************)
(* A handshake that succeeds has booted the device, for every device,      *)
(* every set of images, any number of attempts, a link that cuts, loses or *)
(* delays what it carries, and a device however slow.  With a device that  *)
(* answers in time the host and the device never lose each other's thread, *)
(* and a dump that ends well is the memory of the device.                  *)
(***************************************************************************)
EXTENDS Sahara, SequenceTheorems, TLAPS

-----------------------------------------------------------------------------
(* The inductive invariant.                                                *)

Booted == dev = "running" /\ loaded = Needs

\* A unit of the packet that says so.
SaysBooted(m) == m.p.cmd = "DONE_RESP" /\ m.p.arg = COMPLETE

\* What is on its way to the host, and what it has read, are sequences.
Streams == buf \in Seq(Range(buf)) /\ rx \in Seq(Range(rx))

\* The device has the images before the one it asks for.
Progress ==
    IF setup.device.mode = "image"
    THEN IF dev = "running" THEN loaded = Needs
         ELSE current \in 1..Len(Needs) /\ loaded = SubSeq(Needs, 1, current - 1)
    ELSE dev \notin {"data", "done", "refused", "running"}

\* Only a device that has booted is ever said to have, and it stays booted.
Told == \A m \in Range(rx) \cup Range(buf) : SaysBooted(m) => Booted

Success == result = "ok" /\ ~setup.ramdump /\ ~DonePendingQuirk => Booted

IInv == setup \in Setups /\ Streams /\ Progress /\ Told /\ Success

-----------------------------------------------------------------------------
(* Sequences.                                                              *)

\* A sequence is one over its elements.
LEMMA OverRange ==
    ASSUME NEW S, NEW s \in Seq(S)
    PROVE  /\ s \in Seq(Range(s)) /\ DOMAIN s = 1..Len(s) /\ Len(s) \in Nat
           /\ Range(s) \subseteq S
<1>1. Len(s) \in Nat /\ DOMAIN s = 1..Len(s) /\ s \in [1..Len(s) -> S]
  BY LenProperties
<1>2. s \in [1..Len(s) -> Range(s)]
  BY <1>1 DEF Range
<1>3. Range(s) \subseteq S
  BY <1>1 DEF Range
<1> QED
  BY <1>1, <1>2, <1>3, SeqDef

\* A part of a sequence has no other elements.
LEMMA PartOf ==
    ASSUME NEW s, s \in Seq(Range(s)), NEW a \in Nat \ {0}, NEW b \in Nat, b <= Len(s)
    PROVE  /\ SubSeq(s, a, b) \in Seq(Range(SubSeq(s, a, b)))
           /\ Range(SubSeq(s, a, b)) \subseteq Range(s)
<1>1. DOMAIN s = 1..Len(s) /\ Len(s) \in Nat
  BY OverRange
<1>2. \A i \in a..b : s[i] \in Range(s)
  BY <1>1 DEF Range
<1>3. SubSeq(s, a, b) \in Seq(Range(s))
  BY <1>2, SubSeqProperties
<1> QED
  BY <1>3, OverRange

\* Two sequences one after the other.
LEMMA Joined ==
    ASSUME NEW s, NEW t, s \in Seq(Range(s)), t \in Seq(Range(t))
    PROVE  s \o t \in Seq(Range(s \o t)) /\ Range(s \o t) \subseteq Range(s) \cup Range(t)
<1> DEFINE S == Range(s) \cup Range(t)
<1>1. s \in Seq(S) /\ t \in Seq(S)
  BY SeqMonotonic
<1> HIDE DEF S
<1>2. s \o t \in Seq(S)
  BY <1>1, ConcatProperties
<1> QED
  BY <1>2, OverRange DEF S

\* What a device sends is that packet, whole or in pieces.
LEMMA Wired ==
    ASSUME NEW p
    PROVE  Wire(p) \in Seq(Range(Wire(p))) /\ \A m \in Range(Wire(p)) : m.p = p
<1> DEFINE S == {Whole(p), [p |-> p, last |-> FALSE]}
<1>1. Wire(p) \in Seq(S)
  <2>1. \A a, b \in S : << a, b >> \in Seq(S) /\ << a >> \in Seq(S)
    OBVIOUS
  <2> QED
    BY <2>1 DEF Wire, Whole
<1>2. \A m \in S : m.p = p
  BY DEF Whole
<1> HIDE DEF S
<1> QED
  BY <1>1, <1>2, OverRange

-----------------------------------------------------------------------------
(* The steps.                                                              *)

\* The stream to the host is kept, lost or added to, and what the device says
\* of itself is so.
LEMMA Heard ==
    ASSUME IInv, NEW s, s \in Seq(Range(s)), \A m \in Range(s) : SaysBooted(m) => Booted',
           rx' \in {rx, << >>, rx \o s}, buf' \in {buf, << >>}, setup' = setup,
           Booted => Booted'
    PROVE  Streams' /\ Told'
<1>1. << >> \in Seq(Range(<< >>)) /\ Range(<< >>) = {}
  BY EmptySeq DEF Range
<1>2. rx \o s \in Seq(Range(rx \o s)) /\ Range(rx \o s) \subseteq Range(rx) \cup Range(s)
  BY Joined DEF IInv, Streams
<1>3. Streams'
  BY <1>1, <1>2 DEF IInv, Streams
<1>4. Range(rx') \subseteq Range(rx) \cup Range(s) /\ Range(buf') \subseteq Range(buf)
  BY <1>1, <1>2
<1>5. \A m \in Range(rx') \cup Range(buf') : SaysBooted(m) => Booted'
  BY <1>4 DEF IInv, Told
<1> QED
  BY <1>3, <1>5 DEF Told, SaysBooted

\* A packet is taken from the buffer.
LEMMA Handled ==
    ASSUME IInv, NEW cmd, Handles(cmd), UNCHANGED << rx, devVars >>
    PROVE  Streams' /\ Told' /\ (SaysBooted(buf[1]) => Booted)
<1>1. PICK i \in 1..Len(buf) : buf' = SubSeq(buf, i + 1, Len(buf))
  BY DEF Handles, Consume
<1>2. Len(buf) \in Nat /\ DOMAIN buf = 1..Len(buf)
  BY OverRange DEF IInv, Streams
<1>3. buf' \in Seq(Range(buf')) /\ Range(buf') \subseteq Range(buf)
  <2>1. i + 1 \in Nat \ {0} /\ Len(buf) \in Nat /\ Len(buf) <= Len(buf)
    BY <1>2
  <2>2. buf \in Seq(Range(buf))
    BY DEF IInv, Streams
  <2>3. /\ SubSeq(buf, i + 1, Len(buf)) \in Seq(Range(SubSeq(buf, i + 1, Len(buf))))
        /\ Range(SubSeq(buf, i + 1, Len(buf))) \subseteq Range(buf)
    BY <2>1, <2>2, PartOf
  <2> QED
    BY <1>1, <2>3
<1>4. buf[1] \in Range(buf)
  BY <1>1, <1>2 DEF Range
<1> QED
  BY <1>3, <1>4 DEF IInv, Streams, Told, SaysBooted, Booted, devVars, Needs

\* While nothing is known to be the end, the result is not a success.
LEMMA Kept ==
    ASSUME IInv, Streams', Told', UNCHANGED devVars,
           result' \in {result, "failed", "exit", "crash"} \/ setup.ramdump
    PROVE  IInv'
<1>1. UNCHANGED << Booted, Progress, DonePendingQuirk, setup >>
  BY DEF devVars, Booted, Progress, DonePendingQuirk, Needs, Images
<1> QED
  BY <1>1 DEF IInv, Success

\* What the host says or does not say changes nothing.
LEMMA Silent ==
    ASSUME IInv, UNCHANGED << rx, buf, devVars >>,
           result' \in {result, "failed", "exit", "crash"} \/ setup.ramdump
    PROVE  IInv'
  BY Kept DEF IInv, Streams, Told, SaysBooted, Booted, devVars, Needs

\* Reading from the stream.
LEMMA ReadingPreserves ==
    ASSUME IInv, Accumulate \/ ReadTable \/ WriteBlock
    PROVE  IInv'
<1>1. rx \in Seq(Range(rx)) /\ buf \in Seq(Range(buf)) /\ Len(rx) \in Nat
  BY OverRange DEF IInv, Streams
<1>2. ASSUME NEW n \in 1..Len(rx), rx' = SubSeq(rx, n + 1, Len(rx)),
             buf' \in {buf, buf \o SubSeq(rx, 1, n)}, UNCHANGED << devVars, result >>
      PROVE  IInv'
  <2>1. n + 1 \in Nat \ {0} /\ n \in Nat /\ n <= Len(rx) /\ 1 \in Nat \ {0}
    BY <1>1
  <2>2. rx' \in Seq(Range(rx')) /\ Range(rx') \subseteq Range(rx)
    BY <1>1, <1>2, <2>1, PartOf
  <2> DEFINE read == SubSeq(rx, 1, n)
  <2>3. read \in Seq(Range(read)) /\ Range(read) \subseteq Range(rx)
    BY <1>1, <2>1, PartOf
  <2> HIDE DEF read
  <2>4. /\ buf \o read \in Seq(Range(buf \o read))
        /\ Range(buf \o read) \subseteq Range(buf) \cup Range(rx)
    BY <1>1, <2>3, Joined
  <2>5. buf' \in Seq(Range(buf')) /\ Range(buf') \subseteq Range(buf) \cup Range(rx)
    BY <1>1, <1>2, <2>4 DEF read
  <2>6. Streams' /\ Told'
    BY <1>2, <2>2, <2>5 DEF IInv, Streams, Told, SaysBooted, Booted, devVars, Needs
  <2> QED
    BY <1>2, <2>6, Kept
<1>3. rx # << >> => 1 \in 1..Len(rx) /\ Len(rx) \in 1..Len(rx)
  BY <1>1, EmptySeq
<1>4. CASE Accumulate
  BY <1>2, <1>3, <1>4 DEF Accumulate, ReadSizes, dumpVars
<1>5. CASE ReadTable
  BY <1>2, <1>3, <1>5 DEF ReadTable, waitVars
<1>6. CASE WriteBlock
  <2>1. UNCHANGED << buf, devVars, result >> /\ rx' = << >>
    BY <1>6 DEF WriteBlock, waitVars
  <2>2. << >> \in Seq(Range(<< >>)) /\ Range(<< >>) = {}
    BY EmptySeq DEF Range
  <2>3. Streams' /\ Told'
    BY <2>1, <2>2 DEF IInv, Streams, Told, SaysBooted, Booted, devVars, Needs
  <2> QED
    BY <2>1, <2>3, Kept
<1> QED
  BY <1>4, <1>5, <1>6

\* Handling a packet.
LEMMA HandlingPreserves ==
    ASSUME IInv, Hello \/ ReadImage \/ EndOfImage \/ DoneResp \/ ResetResp \/ MemDebug
    PROVE  IInv'
<1>1. UNCHANGED << rx, devVars >>
  BY DEF Hello, ReadImage, EndOfImage, DoneResp, ResetResp, MemDebug, wireVars
<1>2. PICK cmd : Handles(cmd)
  BY DEF Hello, ReadImage, EndOfImage, DoneResp, ResetResp, MemDebug
<1>3. Streams' /\ Told' /\ (SaysBooted(buf[1]) => Booted)
  BY <1>1, <1>2, Handled
<1>4. CASE Hello \/ ReadImage \/ EndOfImage \/ ResetResp \/ MemDebug
  <2>1. result' \in {result, "failed", "exit", "crash"} \/ setup.ramdump
    BY <1>4 DEF Hello, ReadImage, EndOfImage, ResetResp, MemDebug, Ends, Crashes
  <2> QED
    BY <1>1, <1>3, <2>1, Kept
<1>5. CASE DoneResp
  <2>1. buf[1].p.cmd = "DONE_RESP"
    BY <1>5 DEF DoneResp, Handles
  <2>2. CASE result' \in {result, "crash"}
    BY <1>1, <1>3, <2>2, Kept
  <2>3. CASE result' = "ok" /\ (buf[1].p.arg = COMPLETE \/ DonePendingQuirk)
    <3>1. Booted \/ DonePendingQuirk
      BY <1>3, <2>1, <2>3 DEF SaysBooted
    <3>2. UNCHANGED << Booted, Progress, DonePendingQuirk, setup >>
      BY <1>1 DEF devVars, Booted, Progress, DonePendingQuirk, Needs, Images
    <3> QED
      BY <1>3, <3>1, <3>2 DEF IInv, Success
  <2> QED
    BY <1>5, <2>2, <2>3 DEF DoneResp, Crashes, Ends
<1> QED
  BY <1>4, <1>5

\* The other steps of the host.
LEMMA HostPreserves ==
    ASSUME IInv, HostNext
    PROVE  IInv'
<1>1. CASE \/ ReadTimesOut \/ NoPacket \/ NoTable \/ NextRegion \/ DumpEnds
           \/ FetchBlock \/ NoBlock \/ RegionDone
  <2>1. UNCHANGED << rx, buf, devVars >> /\ result' \in {result, "failed"}
    BY <1>1 DEF ReadTimesOut, NoPacket, NoTable, NextRegion, DumpEnds, FetchBlock, NoBlock,
                RegionDone, AttemptFails, waitVars, wireVars
  <2> QED
    BY <2>1, Silent
<1>2. CASE Garbage
  <2>1. UNCHANGED << rx, devVars >> /\ result' \in {result, "failed"}
    BY <1>2 DEF Garbage, AttemptFails, wireVars
  <2>2. CASE UNCHANGED buf
    BY <2>1, <2>2, Silent
  <2>3. CASE Handles(buf[1].p.cmd)
    BY <2>1, <2>3, Handled, Kept
  <2> QED
    BY <1>2, <2>2, <2>3 DEF Garbage, waitVars
<1>3. CASE Reopen
  <2>1. << >> \in Seq(Range(<< >>)) /\ Range(<< >>) = {}
    BY EmptySeq DEF Range
  <2>2. /\ rx' \in {rx, << >>} /\ buf' = << >> /\ UNCHANGED << setup, current, loaded >>
        /\ (dev' = dev) \/ (dev = "deaf" /\ dev' = "boot")
        /\ result' \in {result, "failed"}
    BY <1>3 DEF Reopen
  <2>3. Booted => Booted'
    BY <2>2 DEF Booted, Needs
  <2>4. Streams' /\ Told'
    BY <2>1, <2>2, <2>3, Heard
  <2>5. Progress'
    BY <2>2 DEF IInv, Progress, Needs
  <2> QED
    BY <2>2, <2>3, <2>4, <2>5 DEF IInv, Success, DonePendingQuirk, Images
<1> QED
  BY <1>1, <1>2, <1>3, ReadingPreserves, HandlingPreserves DEF HostNext

\* What a device sends that does not say it has booted, or says so truly.
LEMMA SendsPreserves ==
    ASSUME IInv, UNCHANGED << hostVars, setup >>, NEW p, Emit(p), Booted => Booted',
           p.cmd = "DONE_RESP" /\ p.arg = COMPLETE => Booted', Progress'
    PROVE  IInv'
<1>1. Wire(p) \in Seq(Range(Wire(p))) /\ \A m \in Range(Wire(p)) : SaysBooted(m) => Booted'
  BY Wired DEF SaysBooted
<1>2. rx' \in {rx, << >>, rx \o Wire(p)} /\ buf' \in {buf, << >>} /\ result' = result
  BY DEF Emit, hostVars, waitVars
<1>3. Streams' /\ Told'
  BY <1>1, <1>2, Heard
<1> QED
  BY <1>2, <1>3 DEF IInv, Success, DonePendingQuirk, Images

\* The device and the link.
LEMMA DevicePreserves ==
    ASSUME IInv, DevNext \/ Unplug
    PROVE  IInv'
<1>1. /\ setup.device.mode \in {"image", "dump"}
      /\ setup.device.mode = "image" => Needs \in Seq(DOMAIN Wanted) \ {<< >>}
      /\ Len(Regions) \in Nat
  BY SaharaConstants DEF SaharaConstants, IInv, IsSetup, Needs, Regions
<1>2. CASE DevHello
  <2>1. dev = "boot" /\ dev' = "hello" /\ UNCHANGED << hostVars, setup, current, loaded >>
        /\ Emit(Pkt("HELLO", 0))
    BY <1>2 DEF DevHello
  <2>2. Progress' /\ (Booted => Booted')
    BY <2>1 DEF IInv, Progress, Booted, Needs
  <2> QED
    BY <2>1, <2>2, SendsPreserves DEF Pkt
<1>3. CASE DevHelloResp
  <2>1. /\ dev = "hello" /\ UNCHANGED << hostVars, setup, current, loaded >>
        /\ IF setup.device.mode = "image" THEN dev' = "data" ELSE dev' = "dump"
        /\ \E p : Emit(p) /\ p.cmd # "DONE_RESP"
    BY <1>3 DEF DevHelloResp, Ask, Pkt
  <2>2. Progress' /\ (Booted => Booted')
    BY <2>1 DEF IInv, Progress, Booted, Needs
  <2> QED
    BY <2>1, <2>2, SendsPreserves
<1>4. CASE DevData
  <2>1. /\ dev = "data" /\ UNCHANGED << hostVars, setup, current, loaded >>
        /\ dev' \in {"data", "done", "refused"}
        /\ \E p : Emit(p) /\ p.cmd # "DONE_RESP"
    BY <1>4 DEF DevData, Ask, Pkt
  <2>2. Progress' /\ (Booted => Booted')
    BY <2>1 DEF IInv, Progress, Booted, Needs
  <2> QED
    BY <2>1, <2>2, SendsPreserves
<1>5. CASE DevDone
  <2>1. dev = "done" /\ UNCHANGED << hostVars, setup >> /\ loaded' = Append(loaded, Needs[current])
    BY <1>5 DEF DevDone
  <2>2. /\ setup.device.mode = "image" /\ Needs \in Seq(DOMAIN Wanted) /\ Len(Needs) \in Nat
        /\ current \in 1..Len(Needs) /\ loaded = SubSeq(Needs, 1, current - 1)
    BY <1>1, <2>1, LenProperties DEF IInv, Progress
  <2>3. loaded' = SubSeq(Needs, 1, current)
    <3>1. current \in 1..Len(Needs) /\ 1 \in 1..Len(Needs) /\ current \in 1..current
      BY <2>2
    <3>2. SubSeq(Needs, 1, current) = SubSeq(Needs, 1, current - 1) \o << Needs[current] >>
      BY <2>2, <3>1, SubSeqRecursiveSecond
    <3>3. \A i \in 1..(current - 1) : Needs[i] \in DOMAIN Wanted
      BY <2>2, ElementOfSeq
    <3>4. loaded \in Seq(DOMAIN Wanted) /\ Needs[current] \in DOMAIN Wanted
      BY <2>2, <3>3, ElementOfSeq, SubSeqProperties
    <3> QED
      BY <2>1, <2>2, <3>2, <3>4, AppendIsConcat
  <2>4. ~Booted
    BY <2>1 DEF Booted
  <2>5. CASE current < Len(Needs)
    <3>1. current' = current + 1 /\ dev' = "boot" /\ Emit(Pkt("DONE_RESP", PENDING))
      BY <1>5, <2>5 DEF DevDone
    <3>2. Progress'
      BY <2>1, <2>2, <2>3, <2>5, <3>1 DEF Progress, Needs
    <3> QED
      BY <2>1, <2>4, <3>1, <3>2, SendsPreserves DEF Pkt, PENDING, COMPLETE
  <2>6. CASE ~(current < Len(Needs))
    <3>1. dev' = "running"
          /\ Emit(Pkt("DONE_RESP", IF setup.pending THEN PENDING ELSE COMPLETE))
      BY <1>5, <2>6 DEF DevDone
    <3>2. loaded' = Needs
      BY <2>2, <2>3, <2>6, SubSeqFull
    <3>3. Progress' /\ Booted'
      BY <2>1, <2>2, <3>1, <3>2 DEF Progress, Booted, Needs
    <3> QED
      BY <2>1, <3>1, <3>3, SendsPreserves
  <2> QED
    BY <2>5, <2>6
<1>6. CASE DevMemRead
  <2> DEFINE Header == Whole(Pkt("MEM", Head(tx).arg))
             Entry(i) == Whole(Pkt("ENTRY", <<0, i>>))
             S == {Header} \cup {Entry(i) : i \in 1..Len(Regions)}
             table == [i \in 1..Len(Regions) |-> Entry(i)]
  <2>1. rx' \in {rx, rx \o table, rx \o << Header >>}
    BY <1>6 DEF DevMemRead
  <2>2. table \in Seq(S) /\ << Header >> \in Seq(S)
    <3>1. table \in [1..Len(Regions) -> S]
      OBVIOUS
    <3>2. Header \in S
      OBVIOUS
    <3>3. \A x \in S : << x >> \in Seq(S)
      OBVIOUS
    <3> HIDE DEF S, Header, table
    <3>4. table \in Seq(S)
      BY <1>1, <3>1, SeqDef
    <3> QED
      BY <3>2, <3>3, <3>4
  <2>3. \A m \in S : ~SaysBooted(m)
    BY DEF SaysBooted, Whole, Pkt
  <2>4. UNCHANGED << buf, devVars, result >>
    BY <1>6 DEF DevMemRead, hostVars, waitVars
  <2>5. Booted => Booted'
    BY <2>4 DEF devVars, Booted, Needs
  <2>6. Streams' /\ Told'
    <3>1. \A s \in Seq(S) : rx' \in {rx, rx \o s} => Streams' /\ Told'
      <4> SUFFICES ASSUME NEW s \in Seq(S), rx' \in {rx, rx \o s}
                   PROVE  Streams' /\ Told'
        OBVIOUS
      <4> HIDE DEF S
      <4>1. s \in Seq(Range(s)) /\ Range(s) \subseteq S
        BY OverRange
      <4>2. \A m \in Range(s) : SaysBooted(m) => Booted'
        BY <4>1, <2>3
      <4>3. setup' = setup /\ buf' \in {buf, << >>} /\ rx' \in {rx, << >>, rx \o s}
        BY <2>4 DEF devVars
      <4> QED
        BY <4>1, <4>2, <4>3, <2>5, Heard
    <3> HIDE DEF S, table, Header
    <3> QED
      BY <2>1, <2>2, <3>1
  <2> QED
    BY <2>4, <2>6, Kept
<1>7. CASE DevReset
  <2>1. /\ dev \notin {"boot", "deaf", "running"} /\ UNCHANGED << hostVars, setup >>
        /\ dev' = "boot" /\ current' = 1 /\ loaded' = << >> /\ Emit(Pkt("RESET_RESP", 0))
    BY <1>7 DEF DevReset
  <2>2. setup.device.mode = "image" => Len(Needs) \in Nat \ {0} /\ SubSeq(Needs, 1, 0) = << >>
    BY <1>1, EmptySeq, SubSeqEmpty
  <2>3. Progress' /\ ~Booted
    BY <2>1, <2>2 DEF Progress, Booted, Needs
  <2> QED
    BY <2>1, <2>3, SendsPreserves DEF Pkt
<1>8. CASE DevIgnores
  <2>1. UNCHANGED << hostVars, setup, dev, current, loaded, rx >>
    BY <1>8 DEF DevIgnores
  <2> QED
    BY <2>1 DEF IInv, Streams, Progress, Told, Success, SaysBooted, Booted, DonePendingQuirk,
                Needs, Images, hostVars, waitVars
<1>9. CASE Unplug
  <2>1. rx' = << >> /\ UNCHANGED << hostVars, devVars >>
    BY <1>9 DEF Unplug
  <2>2. << >> \in Seq(Range(<< >>)) /\ Range(<< >>) = {}
    BY EmptySeq DEF Range
  <2>3. Streams' /\ Told'
    BY <2>1, <2>2 DEF IInv, Streams, Told, SaysBooted, Booted, devVars, hostVars, waitVars, Needs
  <2> QED
    BY <2>1, <2>3, Kept DEF hostVars
<1> QED
  BY <1>2, <1>3, <1>4, <1>5, <1>6, <1>7, <1>8, <1>9 DEF DevNext

\* Nothing has been said at the start.
LEMMA InitHolds == Init => IInv
<1> SUFFICES ASSUME Init PROVE IInv
  OBVIOUS
<1>1. << >> \in Seq(Range(<< >>)) /\ Range(<< >>) = {}
  BY EmptySeq DEF Range
<1>2. setup \in Setups /\ (setup.device.mode = "image" => Needs \in Seq(DOMAIN Wanted) \ {<< >>})
  BY SaharaConstants DEF SaharaConstants, IsSetup, Needs, Init
<1>3. setup.device.mode = "image" => Len(Needs) \in Nat \ {0} /\ SubSeq(Needs, 1, 0) = << >>
  BY <1>2, EmptySeq, SubSeqEmpty
<1>4. Progress
  BY <1>3 DEF Init, Progress
<1> QED
  BY <1>1, <1>2, <1>4 DEF Init, IInv, Streams, Told, Success

\* Every step keeps the invariant.
LEMMA NextPreserves == IInv /\ [Next]_vars => IInv'
<1> SUFFICES ASSUME IInv, [Next]_vars PROVE IInv'
  OBVIOUS
<1>1. CASE UNCHANGED vars
  BY <1>1, Silent DEF vars, hostVars, waitVars, wireVars
<1> QED
  BY <1>1, HostPreserves, DevicePreserves DEF Next, Ended

\* The invariant holds in every reachable state.
THEOREM Invariant == Spec => []IInv
  BY InitHolds, NextPreserves, PTL DEF Spec

\* sahara_run() reports success only when the device runs with every image it
\* boots from, however slow it is, whatever the link cuts, drops or delays,
\* and however many attempts it takes.  (With the quirk that takes PENDING for
\* the end this is true only of a device that answers in time.)
THEOREM SuccessIsRealHolds == Spec => [](~DonePendingQuirk => SuccessIsReal)
<1>1. IInv => (~DonePendingQuirk => SuccessIsReal)
  BY DEF IInv, Success, SuccessIsReal, Booted
<1> QED
  BY <1>1, Invariant, PTL

-----------------------------------------------------------------------------
(* The dialogue.  Whose turn it is can be read from the line: the device   *)
(* waits for the answer to a question that is the last thing on its way to *)
(* the host, or for what the host has sent, or for a reset.                *)

IsSeq(s) == s \in Seq(Range(s))

\* Everything on its way to the host, with what it has read of it.
Stream == buf \o rx
Packets(s) == {s[i].p : i \in 1..Len(s)}

\* Where the host reads the memory of the device.
Dumping == {"table", "region", "block", "answer", "close"}

\* Packets that ask for no answer, and those the device now wants answered.
Says(p) == p.cmd \in {"DONE_RESP", "RESET_RESP", "ENTRY", "MEM"}
Asks(p) ==
    \/ dev = "hello" /\ p.cmd = "HELLO"
    \/ dev = "data" /\ p = Pkt("READ_DATA", <<Needs[current], taken + 1>>)
    \/ dev = "done" /\ p = Pkt("END_OF_IMAGE", 0)
    \/ dev = "refused" /\ p = Pkt("END_OF_IMAGE", 1)
    \/ dev = "dump" /\ p.cmd = "MEM_DEBUG64"

\* A question is the last packet of a stream, and a stream ends with a packet.
QuestionLast(s) ==
    \A i \in 1..Len(s) :
        Says(s[i].p) \/ /\ \A j \in i..Len(s) : s[j].p = s[i].p
                        /\ s[i].last => i = Len(s)
Ordered(s) == QuestionLast(s) /\ (s # << >> => s[Len(s)].last)

\* A question on its way is the one of now, and the host has not answered it.
Unanswered == tx = << >> /\ hpc \notin Dumping
Timely == \A p \in Packets(Stream) : Says(p) \/ (Asks(p) /\ Unanswered)

\* What is on its way to the device is what it awaits, or a reset.
MemReads(s) == \A i \in 1..Len(s) : s[i].cmd = "MEM_READ64"
Expected ==
    /\ dev \in {"boot", "hello", "deaf", "data", "done", "refused", "running", "dump"}
    /\ dev = "boot" => tx = << >>
    /\ dev \in {"hello", "data", "done", "refused"} =>
           tx = << >> \/ (Len(tx) = 1 /\ (tx[1] = Reset \/ Awaits(tx[1])))
    /\ dev = "dump" => \A i \in 1..Len(tx) : \/ tx[i].cmd = "MEM_READ64"
                                             \/ tx[i] = Reset /\ i = Len(tx)

\* While the host reads memory, so the device expects.
InDump == hpc \in Dumping => buf = << >> /\ (up => dev = "dump" /\ MemReads(tx))

Dialogue ==
    /\ ~mixed /\ IsSeq(tx) /\ taken \in Nat
    /\ Expected /\ InDump
    /\ IF up THEN Ordered(Stream) /\ Timely ELSE rx = << >>

DInv == ~setup.slow => Dialogue

-----------------------------------------------------------------------------
(* Sequences, element by element.                                          *)

\* What follows the first k elements.
IsTail(t, s) ==
    IsSeq(t) /\ \E k \in 0..Len(s) : /\ Len(t) = Len(s) - k
                                     /\ \A i \in 1..Len(t) : t[i] = s[i + k]

\* Nothing, and one element.
LEMMA Short ==
    /\ IsSeq(<< >>) /\ Len(<< >>) = 0
    /\ \A u : IsSeq(<< u >>) /\ Len(<< u >>) = 1 /\ << u >>[1] = u
<1>1. IsSeq(<< >>) /\ Len(<< >>) = 0
  BY EmptySeq DEF IsSeq
<1>2. ASSUME NEW u PROVE IsSeq(<< u >>) /\ Len(<< u >>) = 1 /\ << u >>[1] = u
  <2> DEFINE S == {u}
  <2>1. \A x \in S : << x >> \in Seq(S)
    OBVIOUS
  <2>2. << u >> \in Seq(S)
    BY <2>1
  <2> QED
    BY <2>2, OverRange DEF IsSeq
<1> QED
  BY <1>1, <1>2

\* The length of a sequence.
LEMMA Lengths ==
    ASSUME NEW s, IsSeq(s)
    PROVE  Len(s) \in Nat /\ (s = << >> <=> Len(s) = 0) /\ DOMAIN s = 1..Len(s)
  BY EmptySeq, OverRange DEF IsSeq

\* Two sequences one after the other.
LEMMA Concat ==
    ASSUME NEW s, NEW t, IsSeq(s), IsSeq(t)
    PROVE  /\ IsSeq(s \o t) /\ Len(s \o t) = Len(s) + Len(t)
           /\ \A i \in 1..Len(s) + Len(t) :
                 (s \o t)[i] = IF i <= Len(s) THEN s[i] ELSE t[i - Len(s)]
<1> DEFINE S == Range(s) \cup Range(t)
<1>1. s \in Seq(S) /\ t \in Seq(S)
  BY SeqMonotonic DEF IsSeq
<1> HIDE DEF S
<1>2. /\ s \o t \in Seq(S) /\ Len(s \o t) = Len(s) + Len(t)
      /\ \A i \in 1..Len(s) + Len(t) :
            (s \o t)[i] = IF i <= Len(s) THEN s[i] ELSE t[i - Len(s)]
  BY <1>1, ConcatProperties
<1> QED
  BY <1>2, OverRange DEF IsSeq

\* A part of a sequence.
LEMMA Part ==
    ASSUME NEW s, IsSeq(s), NEW a \in Nat \ {0}, NEW b \in Nat, b <= Len(s)
    PROVE  /\ IsSeq(SubSeq(s, a, b))
           /\ Len(SubSeq(s, a, b)) = IF a <= b THEN b - a + 1 ELSE 0
           /\ \A i \in 1..(b - a + 1) : SubSeq(s, a, b)[i] = s[a + i - 1]
<1>1. DOMAIN s = 1..Len(s) /\ Len(s) \in Nat
  BY Lengths
<1>2. \A i \in a..b : s[i] \in Range(s)
  BY <1>1 DEF Range
<1>3. /\ SubSeq(s, a, b) \in Seq(Range(s))
      /\ Len(SubSeq(s, a, b)) = IF a <= b THEN b - a + 1 ELSE 0
      /\ \A i \in 1..(b - a + 1) : SubSeq(s, a, b)[i] = s[a + i - 1]
  BY <1>2, SubSeqProperties
<1> QED
  BY <1>3, OverRange DEF IsSeq

\* What follows the first element.
LEMMA Rest ==
    ASSUME NEW s, IsSeq(s), s # << >>
    PROVE  /\ IsSeq(Tail(s)) /\ Len(Tail(s)) = Len(s) - 1 /\ Len(s) \in Nat \ {0}
           /\ Head(s) = s[1] /\ \A i \in 1..Len(Tail(s)) : Tail(s)[i] = s[i + 1]
<1>1. Len(s) \in Nat \ {0} /\ Head(s) = s[1]
  BY EmptySeq DEF IsSeq
<1>2. Len(Tail(s)) = Len(s) - 1 /\ \A i \in 1..Len(Tail(s)) : Tail(s)[i] = s[i + 1]
  BY HeadTailProperties DEF IsSeq
<1>3. IsSeq(Tail(s))
  BY HeadTailProperties, OverRange DEF IsSeq
<1> QED
  BY <1>1, <1>2, <1>3

\* One more element.
LEMMA OneMore ==
    ASSUME NEW s, IsSeq(s), NEW u
    PROVE  /\ IsSeq(Append(s, u)) /\ Len(Append(s, u)) = Len(s) + 1 /\ Len(s) \in Nat
           /\ \A i \in 1..Len(s) : Append(s, u)[i] = s[i]
           /\ Append(s, u)[Len(s) + 1] = u
           /\ s = << >> => Append(s, u) = << u >>
<1> DEFINE S == Range(s) \cup {u}
<1>1. s \in Seq(S) /\ u \in S
  BY SeqMonotonic DEF IsSeq
<1> HIDE DEF S
<1>2. /\ Append(s, u) \in Seq(S) /\ Len(Append(s, u)) = Len(s) + 1 /\ Len(s) \in Nat
      /\ \A i \in 1..Len(s) : Append(s, u)[i] = s[i]
      /\ Append(s, u)[Len(s) + 1] = u
  BY <1>1, AppendProperties, LenProperties
<1>3. s = << >> => Append(s, u) = << u >>
  OBVIOUS
<1> QED
  BY <1>2, <1>3, OverRange DEF IsSeq

\* A sequence is a tail of itself, as is nothing.
LEMMA Tails ==
    ASSUME NEW s, IsSeq(s)
    PROVE  IsTail(s, s) /\ IsTail(<< >>, s)
<1>1. Len(s) \in Nat
  BY Lengths
<1>2. Len(s) = Len(s) - 0 /\ (\A i \in 1..Len(s) : s[i] = s[i + 0]) /\ 0 \in 0..Len(s)
  BY <1>1
<1>3. Len(<< >>) = Len(s) - Len(s) /\ (\A i \in 1..Len(<< >>) : << >>[i] = s[i + Len(s)])
      /\ Len(s) \in 0..Len(s)
  BY <1>1, Short
<1> QED
  BY <1>2, <1>3, Short DEF IsTail

\* What is left when some of the first of two sequences is taken.
LEMMA Dropped ==
    ASSUME NEW s, NEW t, IsSeq(s), IsSeq(t), NEW k \in 0..Len(s)
    PROVE  IsTail(SubSeq(s, k + 1, Len(s)) \o t, s \o t)
<1> DEFINE r == SubSeq(s, k + 1, Len(s))
           u == s \o t
           v == r \o t
<1>1. Len(s) \in Nat /\ Len(t) \in Nat /\ k \in Nat /\ k <= Len(s)
  BY Lengths
<1>2. /\ IsSeq(r) /\ Len(r) = IF k + 1 <= Len(s) THEN Len(s) - (k + 1) + 1 ELSE 0
      /\ \A i \in 1..(Len(s) - (k + 1) + 1) : r[i] = s[(k + 1) + i - 1]
  <2>1. k + 1 \in Nat \ {0} /\ Len(s) \in Nat /\ Len(s) <= Len(s)
    BY <1>1
  <2> QED
    BY <2>1, Part
<1>3. /\ IsSeq(u) /\ Len(u) = Len(s) + Len(t)
      /\ \A i \in 1..Len(s) + Len(t) : u[i] = IF i <= Len(s) THEN s[i] ELSE t[i - Len(s)]
  BY Concat
<1> HIDE DEF r, u
<1>4. /\ IsSeq(v) /\ Len(v) = Len(r) + Len(t)
      /\ \A i \in 1..Len(r) + Len(t) : v[i] = IF i <= Len(r) THEN r[i] ELSE t[i - Len(r)]
  BY <1>2, Concat
<1> HIDE DEF v
<1>5. Len(r) = Len(s) - k /\ \A i \in 1..(Len(s) - k) : r[i] = s[k + i]
  <2>1. \A m \in Nat : k <= m => (IF k + 1 <= m THEN m - (k + 1) + 1 ELSE 0) = m - k
    BY <1>1
  <2>2. Len(r) = Len(s) - k
    BY <1>1, <1>2, <2>1
  <2>3. ASSUME NEW i \in 1..(Len(s) - k) PROVE r[i] = s[k + i]
    <3>1. i \in 1..(Len(s) - (k + 1) + 1) /\ (k + 1) + i - 1 = k + i
      BY <1>1
    <3> QED
      BY <1>2, <3>1
  <2> QED
    BY <2>2, <2>3
<1>6. ASSUME NEW i \in 1..Len(v) PROVE v[i] = u[i + k]
  <2>1. i \in 1..Len(r) + Len(t) /\ i + k \in 1..Len(s) + Len(t)
    BY <1>1, <1>4, <1>5
  <2>2. CASE i <= Len(r)
    <3>1. i \in 1..(Len(s) - k) /\ i + k <= Len(s) /\ i + k = k + i
      BY <1>1, <1>5, <2>1, <2>2
    <3> QED
      BY <1>3, <1>4, <1>5, <2>1, <2>2, <3>1
  <2>3. CASE ~(i <= Len(r))
    <3>1. ~(i + k <= Len(s)) /\ (i + k) - Len(s) = i - Len(r)
      BY <1>1, <1>5, <2>1, <2>3
    <3> QED
      BY <1>3, <1>4, <2>1, <2>3, <3>1
  <2> QED
    BY <2>2, <2>3
<1>7. Len(v) = Len(u) - k /\ k \in 0..Len(u)
  BY <1>1, <1>3, <1>4, <1>5
<1>8. IsTail(v, u)
  BY <1>4, <1>6, <1>7 DEF IsTail
<1> QED
  BY <1>8 DEF u, v, r

\* The second of two sequences is a tail.
LEMMA Second ==
    ASSUME NEW s, NEW t, IsSeq(s), IsSeq(t)
    PROVE  IsTail(t, s \o t)
<1>1. /\ Len(s) \in Nat /\ Len(t) \in Nat /\ Len(s \o t) = Len(s) + Len(t)
      /\ \A i \in 1..Len(s) + Len(t) :
            (s \o t)[i] = IF i <= Len(s) THEN s[i] ELSE t[i - Len(s)]
  BY Concat, Lengths
<1>2. ASSUME NEW i \in 1..Len(t) PROVE t[i] = (s \o t)[i + Len(s)]
  <2>1. /\ i + Len(s) \in 1..Len(s) + Len(t) /\ ~(i + Len(s) <= Len(s))
        /\ (i + Len(s)) - Len(s) = i
    BY <1>1
  <2> QED
    BY <1>1, <2>1
<1>3. Len(t) = Len(s \o t) - Len(s) /\ Len(s) \in 0..Len(s \o t)
  BY <1>1
<1> QED
  BY <1>2, <1>3 DEF IsTail

\* A tail of an ordered stream is one, and has no other packets.
LEMMA TailOrdered ==
    ASSUME NEW s, NEW t, IsSeq(s), IsTail(t, s)
    PROVE  (Ordered(s) => Ordered(t)) /\ Packets(t) \subseteq Packets(s)
<1>1. PICK k \in 0..Len(s) : Len(t) = Len(s) - k /\ \A i \in 1..Len(t) : t[i] = s[i + k]
  BY DEF IsTail
<1>2. Len(s) \in Nat /\ Len(t) \in Nat /\ k \in Nat /\ (t = << >> <=> Len(t) = 0)
      /\ (s = << >> <=> Len(s) = 0)
  BY <1>1, Lengths DEF IsTail
<1>3. ASSUME NEW i \in 1..Len(t) PROVE i + k \in 1..Len(s) /\ t[i] = s[i + k]
  BY <1>1, <1>2
<1>4. Packets(t) \subseteq Packets(s)
  BY <1>3 DEF Packets
<1>5. ASSUME Ordered(s) PROVE Ordered(t)
  <2>1. ASSUME NEW i \in 1..Len(t), ~Says(t[i].p)
        PROVE  /\ \A j \in i..Len(t) : t[j].p = t[i].p
               /\ t[i].last => i = Len(t)
    <3>1. /\ \A j \in (i + k)..Len(s) : s[j].p = s[i + k].p
          /\ s[i + k].last => i + k = Len(s)
      BY <1>3, <1>5, <2>1 DEF Ordered, QuestionLast
    <3>2. ASSUME NEW j \in i..Len(t) PROVE t[j].p = t[i].p
      <4>1. j \in 1..Len(t) /\ j + k \in (i + k)..Len(s)
        BY <1>1, <1>2
      <4> QED
        BY <1>3, <3>1, <4>1
    <3>3. t[i].last => i = Len(t)
      BY <1>1, <1>2, <1>3, <3>1
    <3> QED
      BY <3>2, <3>3
  <2>2. ASSUME t # << >> PROVE t[Len(t)].last
    <3>1. Len(t) \in 1..Len(t) /\ Len(t) + k = Len(s) /\ s # << >>
      BY <1>1, <1>2, <2>2
    <3> QED
      BY <1>3, <1>5, <3>1 DEF Ordered
  <2> QED
    BY <2>1, <2>2 DEF Ordered, QuestionLast
<1> QED
  BY <1>4, <1>5

\* Concatenation is associative.
LEMMA Associative ==
    ASSUME NEW s, NEW t, NEW u, IsSeq(s), IsSeq(t), IsSeq(u)
    PROVE  (s \o t) \o u = s \o (t \o u)
<1> DEFINE S == Range(s) \cup Range(t) \cup Range(u)
<1>1. s \in Seq(S) /\ t \in Seq(S) /\ u \in Seq(S)
  BY SeqMonotonic DEF IsSeq
<1> HIDE DEF S
<1> QED
  BY <1>1, ConcatAssociative

\* An ordered stream after one that asks nothing.
LEMMA Spoken ==
    ASSUME NEW s, NEW t, IsSeq(s), IsSeq(t), Ordered(s), Ordered(t),
           \A p \in Packets(s) : Says(p)
    PROVE  Ordered(s \o t) /\ Packets(s \o t) \subseteq Packets(s) \cup Packets(t)
<1> DEFINE u == s \o t
<1>1. /\ IsSeq(u) /\ Len(u) = Len(s) + Len(t)
      /\ \A i \in 1..Len(s) + Len(t) : u[i] = IF i <= Len(s) THEN s[i] ELSE t[i - Len(s)]
  BY Concat
<1>2. /\ Len(s) \in Nat /\ Len(t) \in Nat
      /\ (s = << >> <=> Len(s) = 0) /\ (t = << >> <=> Len(t) = 0) /\ (u = << >> <=> Len(u) = 0)
  BY <1>1, Lengths
<1> HIDE DEF u
<1>3. ASSUME NEW i \in 1..Len(u)
      PROVE  \/ i \in 1..Len(s) /\ u[i] = s[i]
             \/ i - Len(s) \in 1..Len(t) /\ u[i] = t[i - Len(s)] /\ ~(i <= Len(s))
  <2>1. CASE i <= Len(s)
    BY <1>1, <1>2, <2>1
  <2>2. CASE ~(i <= Len(s))
    BY <1>1, <1>2, <2>2
  <2> QED
    BY <2>1, <2>2
<1>4. Packets(u) \subseteq Packets(s) \cup Packets(t)
  BY <1>3 DEF Packets
<1>5. ASSUME NEW i \in 1..Len(u), ~Says(u[i].p)
      PROVE  /\ \A j \in i..Len(u) : u[j].p = u[i].p
             /\ u[i].last => i = Len(u)
  <2>1. i - Len(s) \in 1..Len(t) /\ u[i] = t[i - Len(s)] /\ ~(i <= Len(s))
    BY <1>3, <1>5 DEF Packets
  <2>2. /\ \A j \in (i - Len(s))..Len(t) : t[j].p = t[i - Len(s)].p
        /\ t[i - Len(s)].last => i - Len(s) = Len(t)
    BY <1>5, <2>1 DEF Ordered, QuestionLast
  <2>3. ASSUME NEW j \in i..Len(u) PROVE u[j].p = u[i].p
    <3>1. j \in 1..Len(u) /\ ~(j <= Len(s)) /\ j - Len(s) \in (i - Len(s))..Len(t)
      BY <1>1, <1>2, <2>1
    <3>2. u[j] = t[j - Len(s)]
      BY <1>3, <3>1
    <3> QED
      BY <2>1, <2>2, <3>1, <3>2
  <2>4. u[i].last => i = Len(u)
    BY <1>1, <1>2, <2>1, <2>2
  <2> QED
    BY <2>3, <2>4
<1>6. ASSUME u # << >> PROVE u[Len(u)].last
  <2>1. CASE t = << >>
    <3>1. Len(u) = Len(s) /\ Len(s) \in 1..Len(s) /\ s # << >> /\ Len(u) \in 1..Len(u)
      BY <1>1, <1>2, <1>6, <2>1
    <3>2. u[Len(u)] = s[Len(s)]
      BY <1>3, <1>2, <3>1
    <3> QED
      BY <3>1, <3>2 DEF Ordered
  <2>2. CASE t # << >>
    <3>1. ~(Len(u) <= Len(s)) /\ Len(u) - Len(s) = Len(t) /\ Len(u) \in 1..Len(u)
      BY <1>1, <1>2, <2>2
    <3>2. u[Len(u)] = t[Len(t)]
      BY <1>3, <3>1
    <3> QED
      BY <2>2, <3>2 DEF Ordered
  <2> QED
    BY <2>1, <2>2
<1>7. Ordered(u)
  BY <1>5, <1>6 DEF Ordered, QuestionLast
<1> QED
  BY <1>4, <1>7 DEF u

\* A packet on the wire.
LEMMA WireOrdered ==
    ASSUME NEW p
    PROVE  IsSeq(Wire(p)) /\ Ordered(Wire(p)) /\ Packets(Wire(p)) = {p}
<1>1. CASE setup.serial
  <2> DEFINE a == [p |-> p, last |-> FALSE]
             b == Whole(p)
             w == << a, b >>
  <2>1. Wire(p) = w
    BY <1>1 DEF Wire
  <2>2. Len(w) = 2 /\ w[1] = a /\ w[2] = b
    OBVIOUS
  <2>3. a.p = p /\ ~a.last /\ b.p = p /\ b.last
    BY DEF Whole
  <2> HIDE DEF a, b, w
  <2>4. \A i \in 1..2 : i = 1 \/ i = 2
    OBVIOUS
  <2>5. \A i \in 1..Len(w) : w[i].p = p /\ (w[i].last => i = Len(w))
    BY <2>2, <2>3, <2>4
  <2>6. Packets(w) = {p}
    <3>1. 1 \in 1..Len(w)
      BY <2>2
    <3> QED
      BY <2>5, <3>1 DEF Packets
  <2>7. w[Len(w)].last
    BY <2>2, <2>3
  <2>8. ASSUME NEW i \in 1..Len(w), NEW j \in i..Len(w) PROVE w[j].p = w[i].p
    <3>1. j \in 1..Len(w)
      BY <2>2
    <3> QED
      BY <2>5, <3>1
  <2>9. Ordered(w)
    BY <2>5, <2>7, <2>8 DEF Ordered, QuestionLast
  <2> QED
    BY <2>1, <2>6, <2>9, Wired DEF IsSeq
<1>2. CASE ~setup.serial
  <2> DEFINE b == Whole(p)
             w == << b >>
  <2>1. Wire(p) = w
    BY <1>2 DEF Wire
  <2>2. Len(w) = 1 /\ w[1] = b
    OBVIOUS
  <2>3. b.p = p /\ b.last
    BY DEF Whole
  <2> HIDE DEF b, w
  <2>4. \A i \in 1..Len(w) : i = 1
    BY <2>2
  <2>5. Packets(w) = {p}
    <3>1. 1 \in 1..Len(w)
      BY <2>2
    <3> QED
      BY <2>2, <2>3, <2>4, <3>1 DEF Packets
  <2>6. \A i \in 1..Len(w) : \A j \in i..Len(w) : i = 1 /\ j = 1
    BY <2>2
  <2>7. Ordered(w)
    BY <2>2, <2>3, <2>4, <2>6 DEF Ordered, QuestionLast
  <2> QED
    BY <2>1, <2>5, <2>7, Wired DEF IsSeq
<1> QED
  BY <1>1, <1>2

-----------------------------------------------------------------------------
(* The steps of the host.                                                  *)

\* The stream is a sequence.
LEMMA StreamIsSeq == ASSUME IInv PROVE IsSeq(buf) /\ IsSeq(rx) /\ IsSeq(Stream)
  BY Concat DEF IInv, Streams, IsSeq, Stream

\* Where an answer is on its way, or none is wanted, nothing asks.
LEMMA NothingAsked ==
    ASSUME Dialogue, up, tx # << >> \/ dev \in {"boot", "deaf", "running"} \/ hpc \in Dumping
    PROVE  \A p \in Packets(Stream) : Says(p)
  BY DEF Dialogue, Timely, Asks, Unanswered

\* The host listens, waits or gives up, and sends nothing.
LEMMA Listens ==
    ASSUME IInv, Dialogue, UNCHANGED << setup, dev, current, taken, mixed, up, tx >>,
           NEW t, t = Stream', IsTail(t, Stream),
           hpc \in Dumping \/ hpc' \notin Dumping, hpc' \in Dumping => buf' = buf,
           rx = << >> => rx' = << >>
    PROVE  Dialogue'
<1>1. Expected' /\ InDump' /\ ~mixed' /\ IsSeq(tx') /\ taken' \in Nat
  BY DEF Dialogue, Expected, InDump, Awaits, Needs, MemReads
<1>2. CASE up
  <2>1. Ordered(t) /\ Packets(t) \subseteq Packets(Stream)
    BY <1>2, TailOrdered, StreamIsSeq DEF Dialogue
  <2>2. ASSUME NEW p \in Packets(t), ~Says(p) PROVE Asks(p)' /\ Unanswered'
    <3>1. Asks(p) /\ Unanswered
      BY <1>2, <2>1, <2>2 DEF Dialogue, Timely
    <3> QED
      BY <3>1 DEF Asks, Unanswered, Needs
  <2>3. Timely'
    BY <2>2 DEF Timely
  <2> QED
    BY <1>1, <1>2, <2>1, <2>3 DEF Dialogue
<1>3. CASE ~up
  BY <1>1, <1>3 DEF Dialogue
<1> QED
  BY <1>2, <1>3

\* A packet taken from the buffer leaves a tail of the stream.
LEMMA Removed ==
    ASSUME IInv, NEW cmd, Handles(cmd), rx' = rx
    PROVE  IsTail(Stream', Stream)
<1>1. PICK i \in 1..Len(buf) : buf' = SubSeq(buf, i + 1, Len(buf))
  BY DEF Handles, Consume
<1>2. IsSeq(buf) /\ IsSeq(rx) /\ Len(buf) \in Nat
  BY StreamIsSeq, Lengths
<1>3. i \in 0..Len(buf)
  BY <1>2
<1>4. IsTail(SubSeq(buf, i + 1, Len(buf)) \o rx, buf \o rx)
  BY <1>2, <1>3, Dropped
<1> QED
  BY <1>1, <1>4 DEF Stream

\* A question that is handled was the only thing on its way, and is the one the
\* device waits to have answered.
LEMMA Answering ==
    ASSUME IInv, Dialogue, up, NEW cmd, Handles(cmd), rx' = rx,
           cmd \in {"HELLO", "READ_DATA", "END_OF_IMAGE", "MEM_DEBUG64"}
    PROVE  /\ buf' = << >> /\ rx = << >> /\ tx = << >> /\ hpc = "wait"
           /\ buf[1].p.cmd = cmd /\ Asks(buf[1].p)
<1>1. PICK i \in 1..Len(buf) : buf[i].last /\ buf' = SubSeq(buf, i + 1, Len(buf))
  BY DEF Handles, Consume
<1>2. /\ IsSeq(buf) /\ IsSeq(rx) /\ Len(buf) \in Nat /\ Len(rx) \in Nat
      /\ (rx = << >> <=> Len(rx) = 0)
  BY StreamIsSeq, Lengths
<1>3. /\ Len(Stream) = Len(buf) + Len(rx)
      /\ \A j \in 1..Len(buf) + Len(rx) :
            Stream[j] = IF j <= Len(buf) THEN buf[j] ELSE rx[j - Len(buf)]
  BY <1>2, Concat DEF Stream
<1>4. /\ 1 \in 1..Len(Stream) /\ i \in 1..Len(Stream) /\ Stream[1] = buf[1] /\ Stream[i] = buf[i]
  BY <1>2, <1>3
<1>5. ~Says(buf[1].p) /\ buf[1].p.cmd = cmd /\ hpc = "wait"
  BY DEF Handles, Says
<1>6. Ordered(Stream) /\ Timely
  BY DEF Dialogue
<1>7. Stream[i].p = Stream[1].p
  <2>1. i \in 1..Len(Stream) /\ \A j \in 1..Len(Stream) : Stream[j].p = Stream[1].p
    BY <1>4, <1>5, <1>6 DEF Ordered, QuestionLast
  <2> QED
    BY <2>1
<1>8. i = Len(Stream)
  BY <1>1, <1>4, <1>5, <1>6, <1>7 DEF Ordered, QuestionLast
<1>9. rx = << >> /\ i = Len(buf)
  BY <1>2, <1>3, <1>8
<1>10. buf' = << >>
  <2>1. buf' = SubSeq(buf, Len(buf) + 1, Len(buf))
    BY <1>1, <1>9
  <2>2. /\ IsSeq(SubSeq(buf, Len(buf) + 1, Len(buf)))
        /\ Len(SubSeq(buf, Len(buf) + 1, Len(buf)))
             = IF Len(buf) + 1 <= Len(buf) THEN Len(buf) - (Len(buf) + 1) + 1 ELSE 0
    <3>1. Len(buf) + 1 \in Nat \ {0} /\ Len(buf) <= Len(buf)
      BY <1>2
    <3> QED
      BY <1>2, <3>1, Part
  <2>3. \A n \in Nat : (IF n + 1 <= n THEN n - (n + 1) + 1 ELSE 0) = 0
    OBVIOUS
  <2>4. Len(SubSeq(buf, Len(buf) + 1, Len(buf))) = 0
    BY <1>2, <2>2, <2>3
  <2> QED
    BY <2>1, <2>2, <2>4, Lengths
<1>11. buf[1].p \in Packets(Stream)
  BY <1>4 DEF Packets
<1>12. Asks(buf[1].p) /\ tx = << >>
  BY <1>5, <1>6, <1>11 DEF Timely, Unanswered
<1> QED
  BY <1>5, <1>9, <1>10, <1>12

\* When nothing is heard from a device in time, nothing is on its way.
LEMMA Hushed ==
    ASSUME IInv, Dialogue, ~setup.slow, up, Silence, ~HasPacket
    PROVE  /\ buf = << >> /\ rx = << >> /\ dev # "boot"
           /\ tx = << >> \/ dev \in {"deaf", "running"}
<1>1. rx = << >> /\ ~Busy
  BY DEF Silence
<1>2. /\ IsSeq(buf) /\ IsSeq(rx) /\ Len(buf) \in Nat /\ Len(rx) = 0
      /\ (buf = << >> <=> Len(buf) = 0)
  BY <1>1, StreamIsSeq, Lengths
<1>3. /\ Len(Stream) = Len(buf) + Len(rx)
      /\ \A j \in 1..Len(buf) + Len(rx) :
            Stream[j] = IF j <= Len(buf) THEN buf[j] ELSE rx[j - Len(buf)]
  BY <1>2, Concat DEF Stream
<1>4. ASSUME buf # << >> PROVE FALSE
  <2>1. Len(Stream) = Len(buf) /\ Len(buf) \in 1..Len(buf) + Len(rx) /\ Len(buf) \in 1..Len(buf)
    BY <1>2, <1>3, <1>4
  <2>2. Stream # << >>
    BY <1>2, <1>4, <2>1, StreamIsSeq, Lengths
  <2>3. Stream[Len(Stream)].last
    BY <2>2 DEF Dialogue, Ordered
  <2>4. Stream[Len(Stream)] = buf[Len(buf)]
    BY <1>3, <2>1
  <2> QED
    BY <2>1, <2>3, <2>4 DEF HasPacket
<1> QED
  BY <1>1, <1>4 DEF Busy

\* What the host sends to a device that waits is what it awaits, or a reset.
LEMMA Sent ==
    ASSUME Dialogue, up, dev # "boot", tx = << >> \/ dev \in {"deaf", "running"},
           NEW p, Put(p), p = Reset \/ Awaits(p), UNCHANGED << setup, dev, current, taken >>
    PROVE  Expected' /\ IsSeq(tx')
<1>1. tx' = Append(tx, p)
  BY DEF Put
<1>2. IsSeq(Append(tx, p)) /\ (tx = << >> => Append(tx, p) = << p >>)
  BY OneMore DEF Dialogue
<1>3. CASE dev \in {"deaf", "running"}
  BY <1>1, <1>2, <1>3 DEF Expected
<1>4. CASE dev \notin {"deaf", "running"}
  <2>1. tx' = << p >> /\ Len(tx') = 1 /\ tx'[1] = p
    BY <1>1, <1>2, <1>4, Short
  <2>2. Awaits(p) => Awaits(p)'
    BY DEF Awaits, Needs
  <2>3. \A i \in 1..Len(tx') : i = 1
    BY <2>1
  <2>4. dev = "dump" => p = Reset \/ p.cmd = "MEM_READ64"
    BY DEF Awaits
  <2> QED
    BY <1>1, <1>2, <2>1, <2>2, <2>3, <2>4 DEF Dialogue, Expected, Awaits
<1> QED
  BY <1>3, <1>4

\* Nothing asks in the stream, and the host waits or reads memory.
LEMMA Speaks ==
    ASSUME IInv', Dialogue, up, UNCHANGED << up, taken, mixed >>, Expected', IsSeq(tx'), InDump',
           Ordered(Stream)', \A p \in Packets(Stream') : Says(p)
    PROVE  Dialogue'
<1>1. Timely'
  BY DEF Timely
<1> QED
  BY <1>1 DEF Dialogue

\* The same, of a stream that is empty.
LEMMA SpeaksOnly ==
    ASSUME IInv', Dialogue, up, UNCHANGED << up, taken, mixed >>, Expected', IsSeq(tx'), InDump',
           buf' = << >>, rx' = << >>
    PROVE  Dialogue'
<1>1. Stream' = << >>
  <2>1. << >> \o << >> = << >>
    OBVIOUS
  <2> QED
    BY <2>1 DEF Stream
<1>2. Ordered(<< >>) /\ Packets(<< >>) = {}
  BY Short DEF Ordered, QuestionLast, Packets
<1>3. Ordered(Stream)' /\ \A p \in Packets(Stream') : Says(p)
  BY <1>1, <1>2
<1> QED
  BY <1>3, Speaks

\* The host answers.
LEMMA Answers ==
    ASSUME IInv, IInv', Dialogue, ~setup.slow,
           Hello \/ ReadImage \/ EndOfImage \/ MemDebug
    PROVE  Dialogue'
<1>1. PICK cmd \in {"HELLO", "READ_DATA", "END_OF_IMAGE", "MEM_DEBUG64"} :
         /\ Handles(cmd)
         /\ (Hello /\ cmd = "HELLO") \/ (ReadImage /\ cmd = "READ_DATA")
            \/ (EndOfImage /\ cmd = "END_OF_IMAGE") \/ (MemDebug /\ cmd = "MEM_DEBUG64")
  BY DEF Hello, ReadImage, EndOfImage, MemDebug
<1>2. UNCHANGED << rx, up, devVars >> /\ hpc = "wait"
  BY <1>1 DEF Hello, ReadImage, EndOfImage, MemDebug, Handles
<1>3. UNCHANGED << setup, dev, current, taken, mixed >>
  BY <1>2 DEF devVars
<1>4. CASE UNCHANGED tx
  <2>1. IsTail(Stream', Stream)
    BY <1>1, <1>2, Removed
  <2>2. hpc' \notin Dumping
    <3>1. CASE ~MemDebug
      BY <1>1, <1>2, <3>1 DEF Hello, ReadImage, EndOfImage, Ends, Crashes, Dumping
    <3>2. CASE MemDebug /\ up
      <4>1. IsSeq(tx) /\ tx' = Append(tx, Pkt("MEM_READ64", << 0, 0 >>))
        BY <3>2 DEF MemDebug, Fetch, Put, Dialogue
      <4>2. Len(Append(tx, Pkt("MEM_READ64", << 0, 0 >>))) = Len(tx) + 1 /\ Len(tx) \in Nat
        BY <4>1, OneMore
      <4> QED
        BY <1>4, <4>1, <4>2
    <3>3. CASE MemDebug /\ ~up
      BY <1>2, <3>3 DEF MemDebug, Dumping
    <3> QED
      BY <3>1, <3>2, <3>3
  <2> QED
    BY <1>2, <1>3, <1>4, <2>1, <2>2, Listens
<1>5. CASE ~up
  <2>1. UNCHANGED tx
    BY <1>1, <1>5 DEF Hello, ReadImage, EndOfImage, MemDebug, Put, Fetch
  <2> QED
    BY <1>4, <2>1
<1>6. CASE up /\ tx' # tx
  <2>1. /\ buf' = << >> /\ rx' = << >> /\ tx = << >> /\ buf[1].p.cmd = cmd /\ Asks(buf[1].p)
    BY <1>1, <1>2, <1>6, Answering
  <2>2. dev # "boot"
    BY <2>1 DEF Asks
  <2>3. ASSUME NEW p, Put(p), p = Reset \/ Awaits(p),
               hpc' \in Dumping => dev = "dump" /\ p.cmd = "MEM_READ64"
        PROVE  Dialogue'
    <3>1. Expected' /\ IsSeq(tx')
      BY <1>3, <1>6, <2>1, <2>2, <2>3, Sent
    <3>2. tx' = << p >>
      BY <1>6, <2>1, <2>3 DEF Put
    <3>3. InDump'
      <4>1. p.cmd = "MEM_READ64" => MemReads(<< p >>)
        BY Short DEF MemReads
      <4> QED
        BY <1>3, <2>1, <2>3, <3>2, <4>1 DEF InDump
    <3> QED
      BY <1>2, <1>3, <1>6, <2>1, <3>1, <3>3, SpeaksOnly
  <2>4. CASE Hello /\ cmd = "HELLO"
    <3>1. Put(Pkt("HELLO_RESP", 0)) /\ hpc' = hpc
      BY <2>4 DEF Hello
    <3>2. Awaits(Pkt("HELLO_RESP", 0)) /\ hpc' \notin Dumping
      BY <1>2, <2>1, <2>4, <3>1 DEF Asks, Awaits, Pkt, Dumping
    <3> QED
      BY <2>3, <3>1, <3>2
  <2>5. CASE ReadImage /\ cmd = "READ_DATA"
    <3>1. hpc' \notin Dumping
      BY <1>2, <2>5 DEF ReadImage, Ends, Crashes, Dumping
    <3>2. Put(Reset) \/ Put(Pkt("DATA", << buf[1].p.arg[1], buf[1].p.arg[2] >>))
      BY <1>6, <2>5 DEF ReadImage
    <3>3. dev = "data" /\ buf[1].p = Pkt("READ_DATA", <<Needs[current], taken + 1>>)
      BY <2>1, <2>5 DEF Asks, Pkt
    <3>4. buf[1].p.arg[1] = Needs[current] /\ buf[1].p.arg[2] = taken + 1
      BY <3>3 DEF Pkt
    <3>5. Awaits(Pkt("DATA", << buf[1].p.arg[1], buf[1].p.arg[2] >>))
      BY <3>3, <3>4 DEF Awaits
    <3> QED
      BY <2>3, <3>1, <3>2, <3>5
  <2>6. CASE EndOfImage /\ cmd = "END_OF_IMAGE"
    <3>1. Put(Pkt("DONE", 0)) /\ buf[1].p.arg = 0 /\ hpc' = hpc
      BY <1>6, <2>6 DEF EndOfImage
    <3>2. Awaits(Pkt("DONE", 0)) /\ hpc' \notin Dumping
      BY <1>2, <2>1, <2>6, <3>1 DEF Asks, Awaits, Pkt, Dumping
    <3> QED
      BY <2>3, <3>1, <3>2
  <2>7. CASE MemDebug /\ cmd = "MEM_DEBUG64"
    <3>1. Put(Pkt("MEM_READ64", << 0, 0 >>)) /\ dev = "dump"
      BY <2>1, <2>7 DEF MemDebug, Fetch, Asks, Pkt
    <3>2. Awaits(Pkt("MEM_READ64", << 0, 0 >>)) /\ Pkt("MEM_READ64", << 0, 0 >>).cmd = "MEM_READ64"
      BY <3>1 DEF Awaits, Pkt
    <3> QED
      BY <2>3, <3>1, <3>2
  <2> QED
    BY <1>1, <2>4, <2>5, <2>6, <2>7
<1> QED
  BY <1>4, <1>5, <1>6

\* What the host sends while it reads memory.
LEMMA ReadsMemory ==
    ASSUME IInv, IInv', Dialogue, DumpEnds \/ FetchBlock
    PROVE  Dialogue'
<1>1. UNCHANGED << buf, rx, up, devVars >> /\ hpc \in Dumping
  BY DEF DumpEnds, FetchBlock, Dumping, waitVars
<1>2. UNCHANGED << setup, dev, current, taken, mixed >>
  BY <1>1 DEF devVars
<1>3. Stream' = Stream /\ IsTail(Stream, Stream)
  BY <1>1, StreamIsSeq, Tails DEF Stream
<1>4. CASE ~up
  <2>1. UNCHANGED tx /\ (hpc' \in Dumping => buf' = buf)
    BY <1>1, <1>4 DEF DumpEnds, FetchBlock, Put, Fetch
  <2> QED
    BY <1>1, <1>2, <1>3, <2>1, Listens
<1>5. CASE up
  <2>1. dev = "dump" /\ MemReads(tx) /\ IsSeq(tx) /\ buf = << >>
    BY <1>1, <1>5 DEF Dialogue, InDump
  <2>2. PICK p : /\ tx' = Append(tx, p)
                 /\ (p = Reset /\ hpc' = "wait") \/ p.cmd = "MEM_READ64"
    <3>1. CASE DumpEnds
      BY <1>5, <3>1 DEF DumpEnds, Put
    <3>2. CASE FetchBlock
      <4>1. /\ tx' = Append(tx, Pkt("MEM_READ64", << entry, chunk + 1 >>))
            /\ Pkt("MEM_READ64", << entry, chunk + 1 >>).cmd = "MEM_READ64"
        BY <1>5, <3>2 DEF FetchBlock, Fetch, Put, Pkt
      <4> QED
        BY <4>1
    <3> QED
      BY <3>1, <3>2
  <2>3. /\ IsSeq(tx') /\ Len(tx') = Len(tx) + 1 /\ Len(tx) \in Nat
        /\ \A i \in 1..Len(tx) : tx'[i] = tx[i]
        /\ tx'[Len(tx) + 1] = p
    <3>1. /\ IsSeq(Append(tx, p)) /\ Len(Append(tx, p)) = Len(tx) + 1 /\ Len(tx) \in Nat
          /\ \A i \in 1..Len(tx) : Append(tx, p)[i] = tx[i]
          /\ Append(tx, p)[Len(tx) + 1] = p
      BY <2>1, OneMore
    <3> QED
      BY <2>2, <3>1
  <2>4. \A i \in 1..Len(tx') : i \in 1..Len(tx) \/ i = Len(tx) + 1
    BY <2>3
  <2>5. \A i \in 1..Len(tx') : tx'[i].cmd = "MEM_READ64" \/ (tx'[i] = p /\ i = Len(tx'))
    BY <2>1, <2>3, <2>4 DEF MemReads
  <2>6. Expected'
    BY <1>2, <2>1, <2>2, <2>5 DEF Expected
  <2>7. InDump'
    <3>1. hpc' \in Dumping => p.cmd = "MEM_READ64"
      BY <2>2 DEF Dumping
    <3>2. hpc' \in Dumping => MemReads(tx')
      BY <2>5, <3>1 DEF MemReads
    <3> QED
      BY <1>1, <1>2, <2>1, <3>2 DEF InDump
  <2>8. Ordered(Stream)' /\ \A p_1 \in Packets(Stream') : Says(p_1)
    BY <1>1, <1>3, <1>5, NothingAsked DEF Dialogue
  <2> QED
    BY <1>1, <1>2, <1>5, <2>3, <2>6, <2>7, <2>8, Speaks
<1> QED
  BY <1>4, <1>5

\* The port is closed and opened again.
LEMMA Reopens ==
    ASSUME IInv, IInv', Dialogue, Reopen
    PROVE  Dialogue'
<1>1. /\ UNCHANGED << setup, current, taken, mixed, up >> /\ buf' = << >> /\ hpc' \notin Dumping
      /\ hpc = "reopen"
  BY DEF Reopen, Dumping
<1>2. CASE ~up
  <2>1. UNCHANGED << rx, tx, dev >>
    BY <1>2 DEF Reopen
  <2>2. Expected' /\ InDump'
    BY <1>1, <2>1 DEF Dialogue, Expected, InDump, Awaits, Needs
  <2> QED
    BY <1>1, <1>2, <2>1, <2>2 DEF Dialogue
<1>3. CASE up
  <2>1. /\ rx' \in {rx, << >>} /\ tx' = << >>
        /\ dev' = IF dev = "deaf" THEN "boot" ELSE dev
    BY <1>3 DEF Reopen
  <2>2. Expected' /\ InDump' /\ IsSeq(tx')
    BY <1>1, <2>1, Short DEF Dialogue, Expected, InDump
  <2>3. Stream' \in {rx, << >>}
    <3>1. IsSeq(rx)
      BY StreamIsSeq
    <3>2. << >> \o rx = rx /\ << >> \o << >> = << >>
      BY <3>1, ConcatEmptySeq DEF IsSeq
    <3> QED
      BY <1>1, <2>1, <3>2 DEF Stream
  <2>4. IsTail(rx, Stream) /\ IsTail(<< >>, Stream)
    BY StreamIsSeq, Second, Tails DEF Stream
  <2>5. Ordered(Stream)' /\ Packets(Stream') \subseteq Packets(Stream)
    <3>1. \A t \in {rx, << >>} : Ordered(t) /\ Packets(t) \subseteq Packets(Stream)
      BY <1>3, <2>4, StreamIsSeq, TailOrdered DEF Dialogue
    <3> QED
      BY <2>3, <3>1
  <2>6. ASSUME NEW p \in Packets(Stream'), ~Says(p) PROVE Asks(p)' /\ Unanswered'
    <3>1. Asks(p)
      BY <1>3, <2>5, <2>6 DEF Dialogue, Timely
    <3>2. dev' = dev
      BY <2>1, <3>1 DEF Asks
    <3> QED
      BY <1>1, <2>1, <3>1, <3>2 DEF Asks, Unanswered, Needs
  <2>7. Timely'
    BY <2>6 DEF Timely
  <2> QED
    BY <1>1, <1>3, <2>2, <2>5, <2>7 DEF Dialogue
<1> QED
  BY <1>2, <1>3

\* A second of silence.
LEMMA TimesOut ==
    ASSUME IInv, IInv', Dialogue, ~setup.slow, ReadTimesOut
    PROVE  Dialogue'
<1>1. /\ UNCHANGED << buf, rx, up, hpc, devVars >> /\ hpc = "wait" /\ ~HasPacket /\ Silence
      /\ Put(Reset) \/ UNCHANGED tx
  BY DEF ReadTimesOut
<1>2. UNCHANGED << setup, dev, current, taken, mixed >> /\ hpc' \notin Dumping
  BY <1>1 DEF devVars, Dumping
<1>3. CASE UNCHANGED tx
  <2>1. Stream' = Stream /\ IsTail(Stream, Stream)
    BY <1>1, StreamIsSeq, Tails DEF Stream
  <2> QED
    BY <1>1, <1>2, <1>3, <2>1, Listens
<1>4. CASE ~up
  BY <1>1, <1>3, <1>4 DEF Put
<1>5. CASE up /\ Put(Reset)
  <2>1. /\ buf = << >> /\ rx = << >> /\ dev # "boot"
        /\ tx = << >> \/ dev \in {"deaf", "running"}
    BY <1>1, <1>5, Hushed
  <2>2. Expected' /\ IsSeq(tx')
    BY <1>2, <1>5, <2>1, Sent
  <2>3. InDump'
    BY <1>2 DEF InDump
  <2> QED
    BY <1>1, <1>2, <1>5, <2>1, <2>2, <2>3, SpeaksOnly
<1> QED
  BY <1>1, <1>3, <1>4, <1>5

\* What the host reads stays in the stream.
LEMMA Accumulated ==
    ASSUME IInv, Accumulate
    PROVE  Stream' = Stream /\ buf' # << >>
<1>0. /\ IsSeq(buf) /\ IsSeq(rx) /\ Len(rx) \in Nat /\ Len(buf) \in Nat
      /\ (rx = << >> <=> Len(rx) = 0)
  BY StreamIsSeq, Lengths
<1>1. PICK n \in 1..Len(rx) : /\ buf' = buf \o SubSeq(rx, 1, n)
                              /\ rx' = SubSeq(rx, n + 1, Len(rx))
  <2>1. rx # << >> => 1 \in 1..Len(rx)
    BY <1>0
  <2> QED
    BY <2>1 DEF Accumulate, ReadSizes
<1>2. /\ IsSeq(SubSeq(rx, 1, n)) /\ IsSeq(SubSeq(rx, n + 1, Len(rx)))
      /\ SubSeq(rx, 1, n) \o SubSeq(rx, n + 1, Len(rx)) = rx
  <2>1. 1 \in Nat \ {0} /\ n \in Nat /\ n <= Len(rx) /\ n + 1 \in Nat \ {0} /\ Len(rx) <= Len(rx)
    BY <1>0
  <2>2. IsSeq(SubSeq(rx, 1, n)) /\ IsSeq(SubSeq(rx, n + 1, Len(rx)))
    BY <1>0, <2>1, Part
  <2>3. 1 \in 1..Len(rx) + 1 /\ n \in 1 - 1..Len(rx) /\ Len(rx) \in n..Len(rx)
    BY <1>0
  <2>4. SubSeq(rx, 1, n) \o SubSeq(rx, n + 1, Len(rx)) = SubSeq(rx, 1, Len(rx))
    BY <1>0, <2>3, ConcatAdjacentSubSeq DEF IsSeq
  <2>5. SubSeq(rx, 1, Len(rx)) = rx
    BY <1>0, SubSeqFull DEF IsSeq
  <2> QED
    BY <2>2, <2>4, <2>5
<1>3. PICK read, rest : /\ IsSeq(read) /\ IsSeq(rest) /\ read \o rest = rx /\ Len(read) = n
                        /\ buf' = buf \o read /\ rx' = rest
  <2>1. Len(SubSeq(rx, 1, n)) = IF 1 <= n THEN n - 1 + 1 ELSE 0
    <3>1. 1 \in Nat \ {0} /\ n \in Nat /\ n <= Len(rx)
      BY <1>0
    <3> QED
      BY <1>0, <3>1, Part
  <2>2. Len(SubSeq(rx, 1, n)) = n
    BY <1>0, <2>1
  <2> QED
    BY <1>1, <1>2, <2>2
<1>4. IsSeq(buf) /\ IsSeq(read) /\ IsSeq(rest)
  BY <1>0, <1>3
<1>5. (buf \o read) \o rest = buf \o (read \o rest)
  BY <1>4, Associative
<1>6. IsSeq(buf \o read) /\ Len(buf \o read) = Len(buf) + Len(read)
  BY <1>4, Concat
<1>7. buf' # << >>
  <2>1. Len(buf \o read) # 0
    BY <1>0, <1>3, <1>6
  <2> QED
    BY <1>3, <1>6, <2>1, Lengths
<1> QED
  BY <1>3, <1>5, <1>7 DEF Stream

\* Whatever the host does, what is on its way to it is what was not taken yet.
LEMMA Tailed ==
    ASSUME IInv, Dialogue, HostNext
    PROVE  IsTail(Stream', Stream)
<1>1. /\ IsSeq(buf) /\ IsSeq(rx) /\ IsSeq(Stream) /\ Len(rx) \in Nat
      /\ (rx = << >> <=> Len(rx) = 0) /\ IsTail(Stream, Stream) /\ IsTail(<< >>, Stream)
  BY StreamIsSeq, Lengths, Tails
<1>2. CASE Accumulate
  BY <1>1, <1>2, Accumulated
<1>3. CASE UNCHANGED << buf, rx >>
  BY <1>1, <1>3 DEF Stream
<1>4. CASE \E cmd : Handles(cmd) /\ rx' = rx
  BY <1>4, Removed
<1>5. CASE Reopen
  <2>1. << >> \o rx = rx /\ << >> \o << >> = << >>
    BY <1>1, ConcatEmptySeq DEF IsSeq
  <2>2. Stream' \in {rx, << >>}
    BY <1>5, <2>1 DEF Reopen, Stream
  <2>3. IsTail(rx, Stream)
    BY <1>1, Second DEF Stream
  <2> QED
    BY <1>1, <2>2, <2>3
<1>6. CASE WriteBlock
  <2>1. buf = << >> /\ buf' = buf /\ rx' = << >> /\ << >> \o << >> = << >>
    BY <1>6 DEF WriteBlock, waitVars, Dumping, Dialogue, InDump
  <2>2. Stream' = << >>
    BY <2>1 DEF Stream
  <2> QED
    BY <1>1, <2>2
<1>7. CASE ReadTable
  <2>1. buf = << >> /\ buf' = buf /\ rx # << >>
    BY <1>7 DEF ReadTable, waitVars, Dumping, Dialogue, InDump
  <2>2. PICK n \in 1..Len(rx) : rx' = SubSeq(rx, n + 1, Len(rx))
    <3>1. rx # << >> => Len(rx) \in 1..Len(rx)
      BY <1>1
    <3> QED
      BY <1>7, <2>1, <3>1 DEF ReadTable
  <2>3. n \in 0..Len(rx) /\ IsSeq(<< >>) /\ IsSeq(SubSeq(rx, n + 1, Len(rx)))
    <3>1. n + 1 \in Nat \ {0} /\ Len(rx) <= Len(rx) /\ n \in 0..Len(rx)
      BY <1>1
    <3> QED
      BY <1>1, <3>1, Part, Short
  <2>4. IsTail(SubSeq(rx, n + 1, Len(rx)) \o << >>, rx \o << >>)
    BY <1>1, <2>3, Dropped
  <2>5. /\ SubSeq(rx, n + 1, Len(rx)) \o << >> = SubSeq(rx, n + 1, Len(rx))
        /\ rx \o << >> = rx /\ << >> \o rx = rx
        /\ << >> \o SubSeq(rx, n + 1, Len(rx)) = SubSeq(rx, n + 1, Len(rx))
    BY <1>1, <2>3, ConcatEmptySeq DEF IsSeq
  <2>6. Stream' = SubSeq(rx, n + 1, Len(rx)) /\ Stream = rx
    BY <2>1, <2>2, <2>5 DEF Stream
  <2> QED
    BY <2>4, <2>5, <2>6
<1>8. CASE Garbage
  <2>1. rx' = rx /\ (buf' = buf \/ Handles(buf[1].p.cmd))
    BY <1>8 DEF Garbage, waitVars, wireVars
  <2> QED
    BY <1>3, <1>4, <2>1
<1>9. CASE Hello \/ ReadImage \/ EndOfImage \/ DoneResp \/ ResetResp \/ MemDebug
  <2>1. rx' = rx /\ \E cmd : Handles(cmd)
    BY <1>9 DEF Hello, ReadImage, EndOfImage, DoneResp, ResetResp, MemDebug, wireVars
  <2> QED
    BY <1>4, <2>1
<1>10. CASE \/ ReadTimesOut \/ NoPacket \/ NoTable \/ NextRegion \/ DumpEnds
            \/ FetchBlock \/ NoBlock \/ RegionDone
  <2>1. UNCHANGED << buf, rx >>
    BY <1>10 DEF ReadTimesOut, NoPacket, NoTable, NextRegion, DumpEnds, FetchBlock, NoBlock,
                 RegionDone, waitVars, wireVars
  <2> QED
    BY <1>3, <2>1
<1> QED
  BY <1>2, <1>5, <1>6, <1>7, <1>8, <1>9, <1>10 DEF HostNext

\* The other steps of the host only listen.
LEMMA OnlyListens ==
    ASSUME IInv, Dialogue,
           \/ Accumulate \/ NoPacket \/ Garbage \/ DoneResp \/ ResetResp
           \/ ReadTable \/ NoTable \/ NextRegion \/ WriteBlock \/ NoBlock \/ RegionDone
    PROVE  Dialogue'
<1>1. UNCHANGED << up, tx, devVars >>
  BY DEF Accumulate, NoPacket, Garbage, DoneResp, ResetResp, ReadTable, NoTable, NextRegion,
         WriteBlock, NoBlock, RegionDone, wireVars
<1>2. UNCHANGED << setup, dev, current, taken, mixed, up, tx >>
  BY <1>1 DEF devVars
<1>3. IsTail(Stream', Stream)
  <2>1. HostNext
    BY DEF HostNext
  <2> QED
    BY <2>1, Tailed
<1>4. /\ hpc \in Dumping \/ hpc' \notin Dumping
      /\ hpc' \in Dumping => buf' = buf
  BY DEF Accumulate, NoPacket, Garbage, DoneResp, ResetResp, ReadTable, NoTable, NextRegion,
         WriteBlock, NoBlock, RegionDone, AttemptFails, Handles, Ends, Crashes, waitVars, wireVars,
         Dumping
<1>5. rx = << >> => rx' = << >>
  BY DEF Accumulate, NoPacket, Garbage, DoneResp, ResetResp, ReadTable, NoTable, NextRegion,
         WriteBlock, NoBlock, RegionDone, wireVars
<1> QED
  BY <1>2, <1>3, <1>4, <1>5, Listens

\* Every step of the host.
LEMMA HostKeepsDialogue ==
    ASSUME IInv, IInv', Dialogue, ~setup.slow, HostNext
    PROVE  Dialogue'
  BY Answers, ReadsMemory, Reopens, TimesOut, OnlyListens DEF HostNext

-----------------------------------------------------------------------------
(* The steps of the device.                                                *)

\* The device puts something on the wire behind what asks nothing.
LEMMA PutsOnWire ==
    ASSUME IInv, IInv', Dialogue, UNCHANGED << buf, hpc, up, setup, mixed >>,
           NEW s, IsSeq(s), Ordered(s), rx' = IF up THEN rx \o s ELSE rx,
           up => \A p \in Packets(Stream) : Says(p),
           up => \A p \in Packets(s) : Says(p) \/ (Asks(p)' /\ Unanswered'),
           taken' \in Nat, IsSeq(tx'), Expected', InDump'
    PROVE  Dialogue'
<1>1. CASE ~up
  BY <1>1 DEF Dialogue
<1>2. CASE up
  <2>1. IsSeq(buf) /\ IsSeq(rx) /\ IsSeq(s)
    BY StreamIsSeq
  <2>2. (buf \o rx) \o s = buf \o (rx \o s)
    BY <2>1, Associative
  <2>3. Stream' = Stream \o s
    BY <1>2, <2>2 DEF Stream
  <2>4. Ordered(Stream) /\ IsSeq(Stream) /\ \A p \in Packets(Stream) : Says(p)
    BY <1>2, StreamIsSeq DEF Dialogue
  <2>5. Ordered(Stream \o s) /\ Packets(Stream \o s) \subseteq Packets(Stream) \cup Packets(s)
    BY <2>4, Spoken
  <2>6. Ordered(Stream)' /\ \A p \in Packets(Stream') : Says(p) \/ (Asks(p)' /\ Unanswered')
    BY <1>2, <2>3, <2>4, <2>5
  <2>7. Timely'
    BY <2>6 DEF Timely
  <2> QED
    BY <1>2, <2>6, <2>7 DEF Dialogue
<1> QED
  BY <1>1, <1>2

\* The same, of one packet.
LEMMA Emits ==
    ASSUME IInv, IInv', Dialogue, UNCHANGED << buf, hpc, up, setup, mixed >>,
           NEW p, Emit(p), up => \A q \in Packets(Stream) : Says(q),
           up => Says(p) \/ (Asks(p)' /\ Unanswered'),
           taken' \in Nat, IsSeq(tx'), Expected', InDump'
    PROVE  Dialogue'
<1> DEFINE w == Wire(p)
<1>1. IsSeq(w) /\ Ordered(w) /\ Packets(w) = {p}
  BY WireOrdered
<1>2. rx' = IF up THEN rx \o w ELSE rx
  BY DEF Emit
<1> HIDE DEF w
<1>3. \A q \in Packets(w) : q = p
  BY <1>1
<1>4. up => \A q \in Packets(w) : Says(q) \/ (Asks(q)' /\ Unanswered')
  BY <1>3
<1> QED
  BY <1>1, <1>2, <1>4, PutsOnWire

\* What the device takes leaves what follows it.
LEMMA Took ==
    ASSUME Dialogue, tx # << >>, tx' = Tail(tx)
    PROVE  /\ IsSeq(tx') /\ Len(tx') = Len(tx) - 1 /\ Len(tx) \in Nat \ {0} /\ Head(tx) = tx[1]
           /\ \A i \in 1..Len(tx') : tx'[i] = tx[i + 1] /\ i + 1 \in 1..Len(tx)
           /\ Len(tx) = 1 => tx' = << >>
           /\ MemReads(tx) => MemReads(tx')
<1>1. /\ IsSeq(Tail(tx)) /\ Len(Tail(tx)) = Len(tx) - 1 /\ Len(tx) \in Nat \ {0}
      /\ Head(tx) = tx[1] /\ \A i \in 1..Len(Tail(tx)) : Tail(tx)[i] = tx[i + 1]
  BY Rest DEF Dialogue
<1>2. /\ IsSeq(tx') /\ Len(tx') = Len(tx) - 1
      /\ \A i \in 1..Len(tx') : tx'[i] = tx[i + 1] /\ i + 1 \in 1..Len(tx)
  BY <1>1
<1>3. Len(tx) = 1 => tx' = << >>
  <2>1. IsSeq(tx') /\ (Len(tx) = 1 => Len(tx') = 0)
    BY <1>1, <1>2
  <2> QED
    BY <2>1, Lengths
<1>4. MemReads(tx) => MemReads(tx')
  BY <1>2 DEF MemReads
<1> QED
  BY <1>1, <1>2, <1>3, <1>4

\* While the host reads the memory of the device, nothing but that is asked.
LEMMA DumpTakesReads ==
    ASSUME Dialogue, up, hpc \in Dumping, tx # << >>
    PROVE  dev = "dump" /\ Head(tx).cmd = "MEM_READ64"
<1>1. dev = "dump" /\ MemReads(tx) /\ IsSeq(tx)
  BY DEF Dialogue, InDump
<1>2. Len(tx) \in Nat \ {0} /\ Head(tx) = tx[1]
  BY <1>1, Rest
<1>3. 1 \in 1..Len(tx)
  BY <1>2
<1> QED
  BY <1>1, <1>2, <1>3 DEF MemReads

\* The device gets what it awaits in one of the states with one answer.
LEMMA TakesAnswer ==
    ASSUME IInv, Dialogue, dev \in {"hello", "data", "done"}, tx # << >>, tx' = Tail(tx)
    PROVE  /\ tx' = << >> /\ IsSeq(tx')
           /\ up => (\A p \in Packets(Stream) : Says(p)) /\ hpc \notin Dumping
<1>1. Len(tx) = 1
  BY DEF Dialogue, Expected
<1>2. tx' = << >> /\ IsSeq(tx')
  BY <1>1, Took
<1>3. up => (\A p \in Packets(Stream) : Says(p)) /\ hpc \notin Dumping
  BY NothingAsked DEF Dialogue, InDump
<1> QED
  BY <1>2, <1>3

\* Every step of the device and of the link.
LEMMA DeviceKeepsDialogue ==
    ASSUME IInv, IInv', Dialogue, DevNext \/ Unplug
    PROVE  Dialogue'
<1>1. CASE Unplug
  <2>1. UNCHANGED << hpc, buf, setup, dev, current, taken, mixed, tx >> /\ up' = FALSE /\ rx' = << >>
    BY <1>1 DEF Unplug, hostVars, waitVars, devVars
  <2> QED
    BY <2>1 DEF Dialogue, Expected, InDump, Awaits, Needs
<1>2. ASSUME DevNext PROVE UNCHANGED << buf, hpc, up, setup >>
  BY <1>2 DEF DevNext, DevHello, DevHelloResp, DevData, DevDone, DevMemRead, DevReset, DevIgnores,
              hostVars, waitVars, devVars
<1>3. CASE DevHello
  <2>1. /\ dev = "boot" /\ dev' = "hello" /\ Emit(Pkt("HELLO", 0)) /\ UNCHANGED << taken, tx, mixed >>
    BY <1>3 DEF DevHello
  <2>2. UNCHANGED << buf, hpc, up, setup >>
    BY <1>2, <1>3 DEF DevNext
  <2>3. tx = << >> /\ IsSeq(tx') /\ taken' \in Nat
    BY <2>1 DEF Dialogue, Expected
  <2>4. Expected'
    BY <2>1, <2>3 DEF Expected
  <2>5. up => (\A p \in Packets(Stream) : Says(p)) /\ hpc \notin Dumping
    BY <2>1, NothingAsked DEF Dialogue, InDump
  <2>6. InDump'
    BY <2>1, <2>2, <2>5 DEF Dialogue, InDump
  <2>7. up => Asks(Pkt("HELLO", 0))' /\ Unanswered'
    BY <2>1, <2>2, <2>3, <2>5 DEF Asks, Unanswered, Pkt
  <2> QED
    BY <2>1, <2>2, <2>3, <2>4, <2>5, <2>6, <2>7, Emits
<1>4. CASE DevHelloResp \/ DevData \/ DevDone
  <2>1. /\ dev \in {"hello", "data", "done"} /\ tx # << >> /\ tx' = Tail(tx)
        /\ mixed' = mixed /\ dev' \in {"data", "dump", "done", "refused", "boot", "running"}
    BY <1>4 DEF DevHelloResp, DevData, DevDone, Receives
  <2>2. UNCHANGED << buf, hpc, up, setup >>
    BY <1>2, <1>4 DEF DevNext
  <2>3. /\ tx' = << >> /\ IsSeq(tx')
        /\ up => (\A p \in Packets(Stream) : Says(p)) /\ hpc \notin Dumping
    BY <2>1, TakesAnswer
  <2>4. Expected'
    <3>1. \A i \in 1..Len(<< >>) : FALSE
      BY Short
    <3> QED
      BY <2>1, <2>3, <3>1 DEF Expected
  <2>5. InDump'
    BY <2>2, <2>3 DEF Dialogue, InDump
  <2>6. up => Unanswered'
    BY <2>2, <2>3 DEF Unanswered
  <2>7. taken \in Nat
    BY DEF Dialogue
  <2>8. CASE DevHelloResp /\ setup.device.mode = "image"
    <3>1. /\ dev' = "data" /\ taken' = 0 /\ current' = current
          /\ Emit(Pkt("READ_DATA", << Needs[current], 1 >>))
      BY <2>8 DEF DevHelloResp, Ask
    <3>2. PICK p : p = Pkt("READ_DATA", << Needs[current], 1 >>) /\ Emit(p)
      BY <3>1
    <3>3. Asks(p)' /\ taken' \in Nat
      <4>1. taken' + 1 = 1 /\ taken' \in Nat
        BY <3>1
      <4> QED
        BY <2>2, <3>1, <3>2, <4>1 DEF Asks, Needs
    <3> QED
      BY <2>1, <2>2, <2>3, <2>4, <2>5, <2>6, <3>1, <3>2, <3>3, Emits
  <2>9. CASE DevHelloResp /\ setup.device.mode # "image"
    <3>1. dev' = "dump" /\ taken' = taken /\ Emit(Pkt("MEM_DEBUG64", 0))
      BY <2>9 DEF DevHelloResp
    <3>2. Asks(Pkt("MEM_DEBUG64", 0))'
      BY <3>1 DEF Asks, Pkt
    <3> QED
      BY <2>1, <2>2, <2>3, <2>4, <2>5, <2>6, <2>7, <3>1, <3>2, Emits
  <2>10. CASE DevData
    <3>1. CASE taken + 1 < Wanted[Needs[current]]
      <4>1. /\ dev' = "data" /\ taken' = taken + 1 /\ current' = current
            /\ Emit(Pkt("READ_DATA", << Needs[current], taken + 2 >>))
        BY <2>10, <3>1 DEF DevData, Ask
      <4>2. PICK p : p = Pkt("READ_DATA", << Needs[current], taken + 2 >>) /\ Emit(p)
        BY <4>1
      <4>3. Asks(p)' /\ taken' \in Nat
        <5>1. taken' + 1 = taken + 2 /\ taken' \in Nat
          BY <2>7, <4>1
        <5> QED
          BY <2>2, <4>1, <4>2, <5>1 DEF Asks, Needs
      <4> QED
        BY <2>1, <2>2, <2>3, <2>4, <2>5, <2>6, <4>2, <4>3, Emits
    <3>2. CASE ~(taken + 1 < Wanted[Needs[current]])
      <4>1. /\ taken' = 0
            /\ \/ dev' = "done" /\ Emit(Pkt("END_OF_IMAGE", 0))
               \/ dev' = "refused" /\ Emit(Pkt("END_OF_IMAGE", 1))
        BY <2>10, <3>2 DEF DevData
      <4>2. PICK p : Emit(p) /\ Asks(p)'
        BY <4>1 DEF Asks
      <4>3. taken' \in Nat
        BY <4>1
      <4> QED
        BY <2>1, <2>2, <2>3, <2>4, <2>5, <2>6, <4>2, <4>3, Emits
    <3> QED
      BY <3>1, <3>2
  <2>11. CASE DevDone
    <3>1. PICK arg : Emit(Pkt("DONE_RESP", arg)) /\ taken' = taken
      BY <2>11 DEF DevDone
    <3>2. Says(Pkt("DONE_RESP", arg))
      BY DEF Says, Pkt
    <3> QED
      BY <2>1, <2>2, <2>3, <2>4, <2>5, <2>7, <3>1, <3>2, Emits
  <2> QED
    BY <1>4, <2>8, <2>9, <2>10, <2>11
<1>5. CASE DevMemRead
  <2>1. dev = "dump" /\ tx # << >> /\ tx' = Tail(tx) /\ UNCHANGED devVars
    BY <1>5 DEF DevMemRead, Receives
  <2>2. UNCHANGED << buf, hpc, up, setup, mixed, dev, current, taken >>
    BY <1>2, <1>5, <2>1 DEF DevNext, devVars
  <2> DEFINE answer == Whole(Pkt("MEM", Head(tx).arg))
             Entry(i) == Whole(Pkt("ENTRY", <<0, i>>))
             table == [i \in 1..Len(Regions) |-> Entry(i)]
             S == {answer} \cup {Entry(i) : i \in 1..Len(Regions)}
  <2>3. Len(Regions) \in Nat
    BY SaharaConstants, LenProperties DEF SaharaConstants, IInv, IsSetup, Regions
  <2>4. \A m \in S : m.last /\ Says(m.p)
    BY DEF Whole, Pkt, Says
  <2>5. ASSUME NEW s, s \in Seq(S)
        PROVE  IsSeq(s) /\ Ordered(s) /\ \A p \in Packets(s) : Says(p)
    <3> HIDE DEF S
    <3>1. IsSeq(s) /\ Len(s) \in Nat /\ (s = << >> <=> Len(s) = 0)
      BY <2>5, OverRange, Lengths DEF IsSeq
    <3>2. \A i \in 1..Len(s) : s[i] \in S
      BY <2>5, ElementOfSeq
    <3>3. s # << >> => Len(s) \in 1..Len(s)
      BY <3>1
    <3> QED
      BY <2>4, <3>1, <3>2, <3>3 DEF Ordered, QuestionLast, Packets
  <2>6. table \in Seq(S) /\ << answer >> \in Seq(S)
    <3>1. table \in [1..Len(Regions) -> S]
      OBVIOUS
    <3>2. answer \in S
      OBVIOUS
    <3>3. \A x \in S : << x >> \in Seq(S)
      OBVIOUS
    <3> HIDE DEF S, answer, table
    <3>4. table \in Seq(S)
      BY <2>3, <3>1, SeqDef
    <3> QED
      BY <3>2, <3>3, <3>4
  <2>7. PICK s \in Seq(S) : rx' = IF up THEN rx \o s ELSE rx
    <3>1. rx' = (IF up THEN rx \o table ELSE rx) \/ rx' = (IF up THEN rx \o << answer >> ELSE rx)
      BY <1>5 DEF DevMemRead
    <3> HIDE DEF S, answer, table
    <3> QED
      BY <2>6, <3>1
  <2>8. IsSeq(s) /\ Ordered(s) /\ \A p \in Packets(s) : Says(p)
    BY <2>5, <2>7
  <2> HIDE DEF S, answer, table
  <2>9. up => \A p \in Packets(Stream) : Says(p)
    BY <2>1, NothingAsked
  <2>10. /\ IsSeq(tx') /\ Len(tx') = Len(tx) - 1 /\ Len(tx) \in Nat \ {0}
         /\ \A i \in 1..Len(tx') : tx'[i] = tx[i + 1] /\ i + 1 \in 1..Len(tx)
         /\ MemReads(tx) => MemReads(tx')
    BY <2>1, Took
  <2>11. Expected'
    <3>1. ASSUME NEW i \in 1..Len(tx')
          PROVE  tx'[i].cmd = "MEM_READ64" \/ (tx'[i] = Reset /\ i = Len(tx'))
      <4>1. \/ tx[i + 1].cmd = "MEM_READ64"
            \/ tx[i + 1] = Reset /\ i + 1 = Len(tx)
        BY <2>1, <2>10 DEF Dialogue, Expected
      <4>2. i + 1 = Len(tx) => i = Len(tx')
        BY <2>10
      <4> QED
        BY <2>10, <4>1, <4>2
    <3> QED
      BY <2>1, <2>2, <3>1 DEF Expected
  <2>12. InDump' /\ taken' \in Nat
    BY <2>1, <2>2, <2>10 DEF Dialogue, InDump
  <2> QED
    BY <2>2, <2>7, <2>8, <2>9, <2>10, <2>11, <2>12, PutsOnWire
<1>6. CASE DevReset
  <2>1. /\ tx # << >> /\ Head(tx).cmd = "RESET" /\ tx' = Tail(tx)
        /\ dev \notin {"boot", "deaf", "running"} /\ dev' = "boot" /\ taken' = 0
        /\ Emit(Pkt("RESET_RESP", 0)) /\ mixed' = mixed
    BY <1>6 DEF DevReset, Receives
  <2>2. UNCHANGED << buf, hpc, up, setup >>
    BY <1>2, <1>6 DEF DevNext
  <2>3. /\ IsSeq(tx') /\ Len(tx) \in Nat \ {0} /\ Head(tx) = tx[1]
        /\ Len(tx) = 1 => tx' = << >>
    BY <2>1, Took
  <2>4. Len(tx) = 1
    <3>1. dev = "dump" => tx[1] = Reset /\ 1 = Len(tx)
      <4>1. 1 \in 1..Len(tx)
        BY <2>3
      <4> QED
        BY <2>1, <2>3, <4>1 DEF Dialogue, Expected
    <3> QED
      BY <2>1, <3>1 DEF Dialogue, Expected
  <2>5. up => (\A p \in Packets(Stream) : Says(p)) /\ hpc \notin Dumping
    BY <2>1, NothingAsked, DumpTakesReads
  <2>6. Expected' /\ InDump' /\ taken' \in Nat
    BY <2>1, <2>2, <2>3, <2>4, <2>5 DEF Dialogue, Expected, InDump
  <2>7. Says(Pkt("RESET_RESP", 0))
    BY DEF Says, Pkt
  <2> QED
    BY <2>1, <2>2, <2>3, <2>5, <2>6, <2>7, Emits
<1>7. CASE DevIgnores
  <2>1. /\ tx # << >> /\ tx' = Tail(tx) /\ UNCHANGED << dev, current, taken, rx >> /\ dev # "boot"
        /\ dev \in {"deaf", "running"} \/ (Head(tx) # Reset /\ ~Awaits(Head(tx)))
        /\ mixed' = (mixed \/ dev \notin {"deaf", "running"})
    BY <1>7 DEF DevIgnores
  <2>2. UNCHANGED << buf, hpc, up, setup >>
    BY <1>2, <1>7 DEF DevNext
  <2>3. IsSeq(tx') /\ Len(tx) \in Nat \ {0} /\ Head(tx) = tx[1]
    BY <2>1, Took
  <2>4. dev \in {"deaf", "running"}
    <3>1. 1 \in 1..Len(tx)
      BY <2>3
    <3> QED
      BY <2>1, <2>3, <3>1 DEF Dialogue, Expected, Awaits
  <2>5. Expected' /\ InDump' /\ ~mixed' /\ taken' \in Nat
    BY <2>1, <2>2, <2>4 DEF Dialogue, Expected, InDump
  <2>6. up => Ordered(Stream)' /\ Timely'
    <3>1. up => \A p \in Packets(Stream) : Says(p)
      BY <2>1, NothingAsked
    <3>2. Stream' = Stream
      BY <2>1, <2>2 DEF Stream
    <3> QED
      BY <3>1, <3>2 DEF Dialogue, Timely
  <2> QED
    BY <2>1, <2>2, <2>3, <2>5, <2>6 DEF Dialogue
<1> QED
  BY <1>1, <1>3, <1>4, <1>5, <1>6, <1>7 DEF DevNext

-----------------------------------------------------------------------------
(* The memory of a crashed device, over USB, in time and with a disk that  *)
(* takes what is written: each request is answered before the next, and    *)
(* there is one dump, after which the device is reset.                     *)

Calm == ~setup.serial /\ ~setup.slow /\ "disk" \notin setup.faults

Size(r) == Regions[r].size

\* Success ends the run.
Finished == result = "ok" => hpc = "end"

\* The link is up, or what was heard while it was is still to be handled, or was
\* the success of the run: nothing has been broken off.
Unbroken == up \/ buf # << >> \/ result = "ok"

\* What is on the disk.
Written ==
    /\ DOMAIN files = 1..Len(Regions) /\ dumped \subseteq DOMAIN files
    /\ \A r \in DOMAIN files :
          IsSeq(files[r]) /\ \A n \in 1..Len(files[r]) : files[r][n] = <<r, n>>
    /\ Unbroken => \A r \in dumped : Len(files[r]) = Size(r)

\* Nothing has been dumped yet.
Fresh == dumped = {} /\ \A r \in DOMAIN files : files[r] = << >>

\* Over USB every unit is a packet.
Pieces == \A i \in 1..Len(Stream) : Stream[i].last

MemRead(r, n) == Pkt("MEM_READ64", <<r, n>>)
Still == tx = << >> /\ rx = << >>

\* The device has been told that the dump is over, and says so first.
Over ==
    /\ setup.ramdump /\ (buf = << >> => retries = RETRIES)
    /\ \/ tx = << Reset >> /\ dev = "dump" /\ buf = << >> /\ rx = << >>
       \/ tx = << >> /\ Stream # << >> /\ Stream[1].p.cmd = "RESET_RESP"

\* The region whose file is open.
Opened == /\ entry \in DOMAIN files /\ entry \notin dumped
          /\ chunk = Len(files[entry]) /\ chunk <= Size(entry)

AtWait == hpc = "wait" /\ up => Fresh \/ Over
AtReopen == hpc = "reopen" /\ up => Fresh
AtTable == hpc = "table" =>
    /\ Fresh
    /\ up => \/ tx = << MemRead(0, 0) >> /\ rx = << >>
             \/ tx = << >> /\ Len(rx) <= Len(Regions)
AtRegion == hpc = "region" =>
    /\ entry \in Nat \ {0} /\ bound \in Nat /\ bound <= Len(Regions)
    /\ entry <= bound => Fresh
    /\ up => Still
AtBlock == hpc = "block" => Opened /\ (up => Still)
AtAnswer == hpc = "answer" =>
    /\ Opened /\ chunk < Size(entry) /\ setup.ramdump
    /\ up => \/ tx = << MemRead(entry, chunk + 1) >> /\ rx = << >>
             \/ tx = << >> /\ rx = << Whole(Pkt("MEM", <<entry, chunk + 1>>)) >>
AtClose == hpc = "close" => ~up /\ setup.ramdump /\ entry \in DOMAIN files

Places == /\ hpc \in Dumping => retries = RETRIES
          /\ AtWait /\ AtReopen /\ AtTable /\ AtRegion /\ AtBlock /\ AtAnswer /\ AtClose

Memory == Written /\ Pieces /\ (Fresh \/ setup.ramdump) /\ Places

MInv == Calm => Memory

\* The sizes of the regions.
LEMMA RegionSizes ==
    ASSUME IInv
    PROVE  Len(Regions) \in Nat /\ \A r \in 1..Len(Regions) : Size(r) \in Nat
<1>1. Regions \in Seq([size : Nat, skip : BOOLEAN])
  BY SaharaConstants DEF SaharaConstants, IInv, IsSetup, Regions
<1>2. Len(Regions) \in Nat
  BY <1>1, LenProperties
<1>3. \A r \in 1..Len(Regions) : Regions[r] \in [size : Nat, skip : BOOLEAN]
  BY <1>1, ElementOfSeq
<1> QED
  BY <1>2, <1>3 DEF Size

\* The disk is left as it is.
LEMMA DiskKept ==
    ASSUME Written, UNCHANGED << files, dumped, setup >>, Unbroken' => Unbroken
    PROVE  Written' /\ (Fresh' <=> Fresh)
  BY DEF Written, Fresh, Size, Regions

\* Nothing starts with a packet that is not there.
LEMMA First ==
    ASSUME IInv
    PROVE  /\ buf # << >> => Stream # << >> /\ Stream[1] = buf[1] /\ buf[1] \in Range(buf)
           /\ buf = << >> => Stream = rx
           /\ rx # << >> => rx[1] \in Range(rx)
<1>1. /\ IsSeq(buf) /\ IsSeq(rx) /\ Len(buf) \in Nat /\ Len(rx) \in Nat
      /\ (buf = << >> <=> Len(buf) = 0) /\ DOMAIN buf = 1..Len(buf)
      /\ (rx = << >> <=> Len(rx) = 0) /\ DOMAIN rx = 1..Len(rx)
  BY StreamIsSeq, Lengths
<1>2. /\ IsSeq(Stream) /\ Len(Stream) = Len(buf) + Len(rx)
      /\ \A j \in 1..Len(buf) + Len(rx) :
            Stream[j] = IF j <= Len(buf) THEN buf[j] ELSE rx[j - Len(buf)]
  BY <1>1, Concat DEF Stream
<1>3. ASSUME buf # << >> PROVE Stream # << >> /\ Stream[1] = buf[1] /\ buf[1] \in Range(buf)
  <2>1. 1 \in 1..Len(buf) + Len(rx) /\ 1 <= Len(buf) /\ 1 \in DOMAIN buf
    BY <1>1, <1>3
  <2>2. Stream[1] = buf[1]
    BY <1>2, <2>1
  <2>3. Stream # << >>
    <3>1. Len(Stream) # 0
      BY <1>1, <1>2, <1>3
    <3> QED
      BY <1>2, <3>1, Lengths
  <2> QED
    BY <2>1, <2>2, <2>3 DEF Range
<1>4. buf = << >> => Stream = rx
  BY <1>1, ConcatEmptySeq DEF Stream, IsSeq
<1>5. rx # << >> => rx[1] \in Range(rx)
  <2>1. rx # << >> => 1 \in DOMAIN rx
    BY <1>1
  <2> QED
    BY <2>1 DEF Range
<1> QED
  BY <1>3, <1>4, <1>5

\* Over USB the host has a packet as soon as it has read anything.
LEMMA HasIt ==
    ASSUME IInv, Pieces, ~HasPacket
    PROVE  buf = << >>
<1> SUFFICES ASSUME buf # << >> PROVE FALSE
  OBVIOUS
<1>1. IsSeq(buf) /\ IsSeq(Stream) /\ Stream # << >> /\ Stream[1] = buf[1]
  BY First, StreamIsSeq
<1>2. Len(buf) \in Nat \ {0} /\ Len(Stream) \in Nat \ {0}
  BY <1>1, Lengths
<1>3. 1 \in 1..Len(buf) /\ 1 \in 1..Len(Stream)
  BY <1>2
<1> QED
  BY <1>1, <1>3 DEF HasPacket, Pieces

\* What was not taken yet is still in packets.
LEMMA TailPieces ==
    ASSUME IInv, Dialogue, Pieces, HostNext
    PROVE  Pieces'
<1>1. PICK k \in 0..Len(Stream) : /\ Len(Stream') = Len(Stream) - k
                                  /\ \A i \in 1..Len(Stream') : Stream'[i] = Stream[i + k]
  BY Tailed DEF IsTail
<1>2. Len(Stream) \in Nat
  BY StreamIsSeq, Lengths
<1>3. ASSUME NEW i \in 1..Len(Stream') PROVE Stream'[i].last
  <2>1. i + k \in 1..Len(Stream)
    BY <1>1, <1>2
  <2> QED
    BY <1>1, <2>1 DEF Pieces
<1> QED
  BY <1>3 DEF Pieces

\* After the dump the host hears only that the device is reset.
LEMMA OnlyReset ==
    ASSUME IInv, Dialogue, Memory, Calm, up, hpc = "wait", ~Fresh
    PROVE  /\ Over
           /\ ~HasPacket => buf = << >> /\ retries = RETRIES /\ ~Silence
           /\ HasPacket => buf # << >> /\ buf[1].p.cmd = "RESET_RESP"
<1>1. Over
  BY DEF Memory, Places, AtWait
<1>2. ASSUME ~HasPacket PROVE buf = << >> /\ retries = RETRIES /\ ~Silence
  <2>1. buf = << >> /\ retries = RETRIES
    BY <1>1, <1>2, HasIt DEF Memory, Over
  <2>2. CASE tx = << Reset >> /\ dev = "dump"
    <3>1. tx # << >>
      BY <2>2, Short, Lengths
    <3> QED
      BY <2>1, <2>2, <3>1 DEF Silence, Busy, Calm
  <2>3. CASE Stream # << >>
    <3>1. rx # << >>
      BY <2>1, <2>3, First
    <3> QED
      BY <2>1, <3>1 DEF Silence
  <2> QED
    BY <1>1, <2>2, <2>3 DEF Over
<1>3. ASSUME HasPacket PROVE buf # << >> /\ buf[1].p.cmd = "RESET_RESP"
  <2>1. buf # << >>
    <3>1. IsSeq(<< >>) /\ Len(<< >>) = 0
      BY Short
    <3> QED
      BY <1>3, <3>1 DEF HasPacket
  <2>2. Stream[1] = buf[1]
    BY <2>1, First
  <2> QED
    BY <1>1, <2>1, <2>2 DEF Over
<1> QED
  BY <1>1, <1>2, <1>3

\* What the host does while it waits for a packet.
LEMMA WaitKeepsMemory ==
    ASSUME IInv, IInv', Dialogue, Memory, Calm, HostNext, hpc = "wait"
    PROVE  Memory'
<1>1. \/ Accumulate \/ ReadTimesOut \/ NoPacket
      \/ Garbage \/ Hello \/ ReadImage \/ EndOfImage \/ DoneResp \/ ResetResp \/ MemDebug
  BY DEF HostNext, Reopen, ReadTable, NoTable, NextRegion, DumpEnds, FetchBlock, WriteBlock,
         NoBlock, RegionDone
<1>2. UNCHANGED << files, dumped, setup, up >>
  BY <1>1 DEF Accumulate, ReadTimesOut, NoPacket, Garbage, Hello, ReadImage, EndOfImage,
              DoneResp, ResetResp, MemDebug, dumpVars, devVars, wireVars
<1>8. Unbroken' => Unbroken
  <2>1. CASE Accumulate
    BY <2>1 DEF Accumulate, Dialogue, Unbroken
  <2>2. CASE ReadTimesOut
    BY <1>2, <2>2 DEF ReadTimesOut, Unbroken
  <2>3. CASE NoPacket
    BY <1>2, <2>3 DEF NoPacket, AttemptFails, Unbroken, waitVars
  <2>4. CASE HasPacket
    <3>1. IsSeq(<< >>) /\ Len(<< >>) = 0
      BY Short
    <3> QED
      BY <2>4, <3>1 DEF HasPacket, Unbroken
  <2> QED
    BY <1>1, <2>1, <2>2, <2>3, <2>4
       DEF Garbage, Hello, ReadImage, EndOfImage, DoneResp, ResetResp, MemDebug, Handles
<1>3. Written' /\ (Fresh' <=> Fresh) /\ Pieces' /\ (Fresh' \/ setup'.ramdump)
  BY <1>2, <1>8, DiskKept, TailPieces DEF Memory
<1>4. hpc' \in {"wait", "reopen", "end"} \/ (MemDebug /\ up /\ hpc' = "table")
  BY <1>1 DEF Accumulate, ReadTimesOut, NoPacket, Garbage, Hello, ReadImage, EndOfImage,
              DoneResp, ResetResp, MemDebug, AttemptFails, Handles, Ends, Crashes
<1>5. CASE hpc' \in {"wait", "reopen", "end"} /\ (Fresh \/ ~up)
  <2>1. Places'
    BY <1>2, <1>3, <1>5 DEF Places, AtWait, AtReopen, AtTable, AtRegion, AtBlock, AtAnswer,
                            AtClose, Dumping
  <2> QED
    BY <1>3, <2>1 DEF Memory
<1>6. CASE MemDebug /\ up /\ hpc' = "table"
  <2>1. /\ buf' = << >> /\ rx = << >> /\ tx = << >> /\ buf[1].p.cmd = "MEM_DEBUG64"
        /\ rx' = rx /\ retries' = RETRIES /\ HasPacket
    <3>1. Handles("MEM_DEBUG64") /\ rx' = rx
      BY <1>6 DEF MemDebug
    <3> QED
      BY <1>6, <3>1, Answering DEF Handles
  <2>2. Fresh
    BY <1>6, <2>1, OnlyReset
  <2>3. tx' = << MemRead(0, 0) >>
    <3>1. tx' = Append(tx, MemRead(0, 0)) /\ IsSeq(tx)
      BY <1>6 DEF MemDebug, Fetch, Put, MemRead, Dialogue
    <3> QED
      BY <2>1, <3>1, OneMore
  <2>4. Places'
    BY <1>3, <1>6, <2>1, <2>2, <2>3 DEF Places, AtWait, AtReopen, AtTable, AtRegion, AtBlock,
                                        AtAnswer, AtClose, MemRead
  <2> QED
    BY <1>3, <2>4 DEF Memory
<1>7. CASE ~Fresh /\ up /\ hpc' \in {"wait", "reopen", "end"}
  <2>1. /\ Over
        /\ ~HasPacket => buf = << >> /\ retries = RETRIES /\ ~Silence
        /\ HasPacket => buf # << >> /\ buf[1].p.cmd = "RESET_RESP"
    BY <1>7, OnlyReset
  <2>2. Accumulate \/ ResetResp
    <3>1. ~ReadTimesOut
      BY <2>1 DEF ReadTimesOut
    <3>2. ~NoPacket
      BY <2>1 DEF NoPacket, RETRIES
    <3>3. ~(Garbage \/ Hello \/ ReadImage \/ EndOfImage \/ DoneResp \/ MemDebug)
      BY <2>1 DEF Garbage, Hello, ReadImage, EndOfImage, DoneResp, MemDebug, Handles
    <3> QED
      BY <1>1, <3>1, <3>2, <3>3
  <2>3. CASE ResetResp
    <3>1. hpc' = "end"
      BY <2>1, <2>3 DEF ResetResp, Over, Ends
    <3>2. Places'
      BY <3>1 DEF Places, AtWait, AtReopen, AtTable, AtRegion, AtBlock, AtAnswer, AtClose, Dumping
    <3> QED
      BY <1>3, <3>2 DEF Memory
  <2>4. CASE Accumulate
    <3>1. Stream' = Stream /\ buf' # << >> /\ tx' = tx /\ hpc' = "wait" /\ rx # << >>
      BY <2>4, Accumulated DEF Accumulate
    <3>2. Over'
      BY <1>2, <2>1, <3>1 DEF Over
    <3>3. Places'
      BY <3>1, <3>2 DEF Places, AtWait, AtReopen, AtTable, AtRegion, AtBlock, AtAnswer, AtClose,
                        Dumping
    <3> QED
      BY <1>3, <3>3 DEF Memory
  <2> QED
    BY <2>2, <2>3, <2>4
<1> QED
  BY <1>4, <1>5, <1>6, <1>7

\* Around the dump: the table is read, a region chosen, and the device reset.
LEMMA RegionsKeepMemory ==
    ASSUME IInv, IInv', Dialogue, Memory, Calm,
           Reopen \/ ReadTable \/ NoTable \/ NextRegion \/ DumpEnds
    PROVE  Memory'
<1>1. UNCHANGED << files, dumped, setup, up >>
  BY DEF Reopen, ReadTable, NoTable, NextRegion, DumpEnds, dumpVars, devVars, wireVars
<1>2. Written' /\ (Fresh' <=> Fresh) /\ Pieces' /\ (Fresh' \/ setup'.ramdump)
  <2>1. HostNext
    BY DEF HostNext
  <2>2. Unbroken' => Unbroken
    BY <1>1 DEF Reopen, ReadTable, NoTable, NextRegion, DumpEnds, waitVars, Unbroken
  <2> QED
    BY <1>1, <2>1, <2>2, DiskKept, TailPieces DEF Memory
<1>3. hpc \in Dumping => retries = RETRIES /\ buf = << >> /\ (up => dev = "dump")
  BY DEF Memory, Places, Dialogue, InDump
<1>4. CASE Reopen
  <2>1. hpc' \in {"wait", "end"} /\ (up => Fresh)
    BY <1>4 DEF Reopen, Memory, Places, AtReopen
  <2>2. Places'
    BY <1>1, <1>2, <2>1 DEF Places, AtWait, AtReopen, AtTable, AtRegion, AtBlock, AtAnswer,
                            AtClose, Dumping
  <2> QED
    BY <1>2, <2>2 DEF Memory
<1>5. CASE ReadTable
  <2>1. /\ hpc = "table" /\ rx # << >> /\ Len(rx) \in Nat /\ IsSeq(rx) /\ ~setup.serial
        /\ bound' = Len(rx) /\ rx' = SubSeq(rx, Len(rx) + 1, Len(rx))
        /\ hpc' = "region" /\ entry' = 1 /\ UNCHANGED << tx, retries >>
    BY <1>5, StreamIsSeq, Lengths DEF ReadTable, Calm, waitVars
  <2>2. up /\ Fresh /\ tx = << >> /\ Len(rx) <= Len(Regions)
    BY <2>1 DEF Memory, Places, AtTable, Dialogue
  <2>3. rx' = << >>
    <3>1. /\ IsSeq(SubSeq(rx, Len(rx) + 1, Len(rx)))
          /\ Len(SubSeq(rx, Len(rx) + 1, Len(rx)))
               = IF Len(rx) + 1 <= Len(rx) THEN Len(rx) - (Len(rx) + 1) + 1 ELSE 0
      <4>1. Len(rx) + 1 \in Nat \ {0} /\ Len(rx) <= Len(rx)
        BY <2>1
      <4> QED
        BY <2>1, <4>1, Part
    <3>2. \A n \in Nat : (IF n + 1 <= n THEN n - (n + 1) + 1 ELSE 0) = 0
      OBVIOUS
    <3>3. Len(SubSeq(rx, Len(rx) + 1, Len(rx))) = 0
      BY <2>1, <3>1, <3>2
    <3> QED
      BY <2>1, <3>1, <3>3, Lengths
  <2>4. AtRegion'
    BY <1>1, <1>2, <2>1, <2>2, <2>3 DEF AtRegion, Still, Regions
  <2>5. Places'
    BY <1>3, <2>1, <2>4 DEF Places, AtWait, AtReopen, AtTable, AtBlock, AtAnswer, AtClose, Dumping
  <2> QED
    BY <1>2, <2>5 DEF Memory
<1>6. CASE NoTable
  <2>1. hpc' = "wait" /\ Fresh
    BY <1>6 DEF NoTable, Memory, Places, AtTable
  <2>2. Places'
    BY <1>2, <2>1 DEF Places, AtWait, AtReopen, AtTable, AtRegion, AtBlock, AtAnswer, AtClose,
                      Dumping
  <2> QED
    BY <1>2, <2>2 DEF Memory
<1>7. CASE NextRegion
  <2>1. /\ hpc = "region" /\ entry <= bound /\ UNCHANGED << bound, tx, rx, retries >>
        /\ entry \in Nat \ {0} /\ bound \in Nat /\ bound <= Len(Regions) /\ Fresh
        /\ up => Still
    BY <1>7 DEF NextRegion, Memory, Places, AtRegion, waitVars, wireVars
  <2>2. CASE hpc' = "region" /\ entry' = entry + 1
    <3>1. AtRegion'
      BY <1>1, <1>2, <2>1, <2>2 DEF AtRegion, Still, Regions
    <3>2. Places'
      BY <1>3, <2>1, <2>2, <3>1 DEF Places, AtWait, AtReopen, AtTable, AtBlock, AtAnswer, AtClose,
                                    Dumping
    <3> QED
      BY <1>2, <3>2 DEF Memory
  <2>3. CASE hpc' = "block" /\ chunk' = 0 /\ entry' = entry
    <3>1. entry \in 1..Len(Regions) /\ Size(entry) \in Nat
      BY <2>1, RegionSizes
    <3>2. entry \in DOMAIN files /\ files[entry] = << >> /\ entry \notin dumped
      BY <2>1, <3>1 DEF Memory, Written, Fresh
    <3>3. Opened'
      BY <1>1, <2>3, <3>1, <3>2, Short DEF Opened, Size, Regions
    <3>4. AtBlock'
      BY <1>1, <2>1, <3>3 DEF AtBlock, Still
    <3>5. Places'
      BY <1>3, <2>1, <2>3, <3>4 DEF Places, AtWait, AtReopen, AtTable, AtRegion, AtAnswer, AtClose,
                                    Dumping
    <3> QED
      BY <1>2, <3>5 DEF Memory
  <2> QED
    BY <1>7, <2>2, <2>3 DEF NextRegion
<1>8. CASE DumpEnds
  <2>1. /\ hpc \in {"region", "block"} /\ hpc' = "wait" /\ Put(Reset)
        /\ UNCHANGED << buf, rx, dev, retries >> /\ hpc \in Dumping
    BY <1>8 DEF DumpEnds, waitVars, devVars, Dumping
  <2>2. ASSUME up, ~Fresh PROVE Over'
    <3>1. tx = << >> /\ rx = << >>
      BY <2>1, <2>2 DEF Memory, Places, AtRegion, AtBlock, Still
    <3>2. tx' = << Reset >>
      <4>1. tx' = Append(tx, Reset) /\ IsSeq(tx)
        BY <2>1, <2>2 DEF Put, Dialogue
      <4> QED
        BY <3>1, <4>1, OneMore
    <3>3. setup.ramdump
      BY <2>2 DEF Memory
    <3> QED
      BY <1>1, <1>3, <2>1, <2>2, <3>1, <3>2, <3>3 DEF Over, Reset
  <2>3. Places'
    BY <1>1, <1>2, <2>1, <2>2 DEF Places, AtWait, AtReopen, AtTable, AtRegion, AtBlock, AtAnswer,
                                  AtClose, Dumping
  <2> QED
    BY <1>2, <2>3 DEF Memory
<1> QED
  BY <1>4, <1>5, <1>6, <1>7, <1>8

\* A region is read block by block.
LEMMA BlocksKeepMemory ==
    ASSUME IInv, IInv', Dialogue, Memory, Calm, Finished,
           FetchBlock \/ WriteBlock \/ NoBlock \/ RegionDone
    PROVE  Memory'
<1>1. UNCHANGED << setup, up, dev, retries, buf, result >> /\ hpc \in Dumping
  BY DEF FetchBlock, WriteBlock, NoBlock, RegionDone, waitVars, devVars, wireVars, Dumping
<1>2. Pieces'
  <2>1. HostNext
    BY DEF HostNext
  <2> QED
    BY <2>1, TailPieces DEF Memory
<1>3. retries = RETRIES /\ buf = << >> /\ (up => dev = "dump")
  BY <1>1 DEF Memory, Places, Dialogue, InDump
<1>8. (Unbroken <=> up) /\ (Unbroken' <=> up)
  BY <1>1, <1>3 DEF Unbroken, Finished, Dumping
<1>4. CASE FetchBlock
  <2>1. /\ hpc = "block" /\ setup.ramdump /\ chunk < Size(entry) /\ Put(MemRead(entry, chunk + 1))
        /\ hpc' = IF up THEN "answer" ELSE "close"
        /\ UNCHANGED << files, dumped, entry, chunk, rx >>
    BY <1>4 DEF FetchBlock, Fetch, MemRead, Size, dumpVars
  <2>2. Opened /\ (up => Still)
    BY <2>1 DEF Memory, Places, AtBlock
  <2>3. Written' /\ (Fresh' <=> Fresh)
    BY <1>1, <1>8, <2>1, DiskKept DEF Memory
  <2>4. CASE up
    <3>1. tx' = << MemRead(entry, chunk + 1) >> /\ rx' = << >>
      <4>1. tx' = Append(tx, MemRead(entry, chunk + 1)) /\ IsSeq(tx)
        BY <2>1, <2>4 DEF Put, Dialogue
      <4>2. \A u : Append(tx, u) = << u >>
        BY <2>2, <2>4, <4>1, OneMore DEF Still
      <4> QED
        BY <2>1, <2>2, <2>4, <4>1, <4>2 DEF Still
    <3>2. AtAnswer'
      BY <1>1, <2>1, <2>2, <3>1 DEF AtAnswer, Opened, Size, Regions, MemRead
    <3>3. Places'
      BY <1>1, <1>3, <2>1, <2>4, <3>2 DEF Places, AtWait, AtReopen, AtTable, AtRegion, AtBlock,
                                          AtClose, Dumping
    <3> QED
      BY <1>1, <1>2, <2>1, <2>3, <3>3 DEF Memory
  <2>5. CASE ~up
    <3>1. AtClose'
      BY <1>1, <2>1, <2>2, <2>5 DEF AtClose, Opened
    <3>2. Places'
      BY <1>1, <1>3, <2>1, <2>5, <3>1 DEF Places, AtWait, AtReopen, AtTable, AtRegion, AtBlock,
                                          AtAnswer, Dumping
    <3> QED
      BY <1>1, <1>2, <2>1, <2>3, <3>2 DEF Memory
  <2> QED
    BY <2>4, <2>5
<1>5. CASE WriteBlock
  <2>1. /\ hpc = "answer" /\ rx # << >> /\ hpc' = "block" /\ chunk' = chunk + 1 /\ rx' = << >>
        /\ files' = [files EXCEPT ![entry] = Append(@, Head(rx).p.arg)]
        /\ UNCHANGED << dumped, entry, tx >>
    BY <1>5 DEF WriteBlock, Calm
  <2>2. /\ up /\ Opened /\ chunk < Size(entry) /\ setup.ramdump /\ tx = << >>
        /\ rx = << Whole(Pkt("MEM", <<entry, chunk + 1>>)) >>
    BY <2>1 DEF Memory, Places, AtAnswer, Dialogue
  <2>3. Head(rx).p.arg = << entry, chunk + 1 >>
    <3>1. \A u : Head(<< u >>) = u
      OBVIOUS
    <3>2. Head(rx) = Whole(Pkt("MEM", <<entry, chunk + 1>>))
      BY <2>2, <3>1
    <3> QED
      BY <3>2 DEF Whole, Pkt
  <2>4. /\ entry \in DOMAIN files /\ entry \notin dumped /\ chunk = Len(files[entry])
        /\ IsSeq(files[entry]) /\ DOMAIN files = 1..Len(Regions) /\ dumped \subseteq DOMAIN files
        /\ \A n \in 1..Len(files[entry]) : files[entry][n] = << entry, n >>
        /\ Len(Regions) \in Nat /\ Size(entry) \in Nat
    BY <2>2, RegionSizes DEF Opened, Memory, Written
  <2>5. PICK file : file = Append(files[entry], << entry, chunk + 1 >>)
    OBVIOUS
  <2>6. /\ IsSeq(file) /\ Len(file) = chunk + 1 /\ chunk \in Nat
        /\ \A n \in 1..Len(file) : file[n] = << entry, n >>
    <3>1. /\ IsSeq(file) /\ Len(file) = Len(files[entry]) + 1 /\ Len(files[entry]) \in Nat
          /\ \A n \in 1..Len(files[entry]) : file[n] = files[entry][n]
          /\ file[Len(files[entry]) + 1] = << entry, chunk + 1 >>
      BY <2>4, <2>5, OneMore
    <3>2. \A n \in 1..Len(file) : n \in 1..Len(files[entry]) \/ n = Len(files[entry]) + 1
      BY <3>1
    <3>3. ASSUME NEW n \in 1..Len(file) PROVE file[n] = << entry, n >>
      <4>1. CASE n \in 1..Len(files[entry])
        BY <2>4, <3>1, <4>1
      <4>2. CASE n = Len(files[entry]) + 1
        BY <2>4, <3>1, <4>2
      <4> QED
        BY <3>2, <4>1, <4>2
    <3> QED
      BY <2>4, <3>1, <3>3
  <2>7. /\ DOMAIN files' = DOMAIN files /\ files'[entry] = file
        /\ \A r \in DOMAIN files : r # entry => files'[r] = files[r]
    BY <2>1, <2>3, <2>4, <2>5
  <2>8. Written'
    <3>1. ASSUME NEW r \in DOMAIN files
          PROVE  IsSeq(files'[r]) /\ \A n \in 1..Len(files'[r]) : files'[r][n] = <<r, n>>
      <4>1. CASE r = entry
        BY <2>6, <2>7, <4>1
      <4>2. CASE r # entry
        BY <2>7, <4>2 DEF Memory, Written
      <4> QED
        BY <4>1, <4>2
    <3>2. \A r \in dumped : Len(files'[r]) = Size(r)
      BY <1>8, <2>2, <2>4, <2>7 DEF Memory, Written
    <3> QED
      BY <1>1, <2>1, <2>4, <2>7, <3>1, <3>2 DEF Written, Size, Regions
  <2>9. Opened'
    <3>1. chunk + 1 <= Size(entry)
      BY <2>2, <2>4, <2>6
    <3> QED
      BY <1>1, <2>1, <2>4, <2>6, <2>7, <3>1 DEF Opened, Size, Regions
  <2>10. Places'
    BY <1>1, <1>3, <2>1, <2>2, <2>9 DEF Places, AtWait, AtReopen, AtTable, AtRegion, AtBlock,
                                        AtAnswer, AtClose, Dumping, Still
  <2> QED
    BY <1>1, <1>2, <2>2, <2>8, <2>10 DEF Memory
<1>6. CASE NoBlock
  <2>1. /\ hpc = "answer" /\ Silence /\ rx = << >> /\ hpc' = "close"
        /\ UNCHANGED << files, dumped, entry, chunk, rx, tx >>
    BY <1>6 DEF NoBlock, dumpVars, wireVars
  <2>2. Opened /\ setup.ramdump /\ (up => tx = << MemRead(entry, chunk + 1) >>)
    <3>1. \A u : << u >> # << >>
      BY Short, Lengths
    <3> QED
      BY <2>1, <3>1 DEF Memory, Places, AtAnswer
  <2>3. ~up
    <3>1. \A u : << u >> # << >>
      BY Short, Lengths
    <3> QED
      BY <1>3, <2>1, <2>2, <3>1 DEF Silence, Busy, Calm
  <2>4. Written' /\ (Fresh' <=> Fresh)
    BY <1>1, <1>8, <2>1, DiskKept DEF Memory
  <2>5. AtClose'
    BY <1>1, <2>1, <2>2, <2>3 DEF AtClose, Opened
  <2>6. Places'
    BY <1>1, <1>3, <2>1, <2>3, <2>5 DEF Places, AtWait, AtReopen, AtTable, AtRegion, AtBlock,
                                        AtAnswer, Dumping
  <2> QED
    BY <1>1, <1>2, <2>2, <2>4, <2>6 DEF Memory
<1>7. CASE RegionDone
  <2>1. /\ hpc = "close" \/ (hpc = "block" /\ setup.ramdump /\ chunk >= Size(entry))
        /\ dumped' = dumped \cup {entry} /\ bound' = 0 /\ entry' = entry + 1 /\ hpc' = "region"
        /\ UNCHANGED << files, rx, tx >>
    BY <1>7 DEF RegionDone, Size, wireVars
  <2>2. /\ entry \in DOMAIN files /\ setup.ramdump
        /\ hpc = "close" => ~up
        /\ hpc = "block" => chunk = Len(files[entry]) /\ chunk <= Size(entry) /\ (up => Still)
    BY <2>1 DEF Memory, Places, AtClose, AtBlock, Opened
  <2>3. /\ DOMAIN files = 1..Len(Regions) /\ Len(Regions) \in Nat
        /\ \A r \in 1..Len(Regions) : Size(r) \in Nat
        /\ \A r \in DOMAIN files : IsSeq(files[r])
    BY RegionSizes DEF Memory, Written
  <2>4. up => Len(files[entry]) = Size(entry)
    <3>1. Len(files[entry]) \in Nat /\ Size(entry) \in Nat
      BY <2>2, <2>3, Lengths
    <3> QED
      BY <2>1, <2>2, <3>1
  <2>5. Written'
    BY <1>1, <1>8, <2>1, <2>2, <2>4 DEF Memory, Written, Size, Regions
  <2>6. AtRegion'
    <3>1. entry \in Nat \ {0}
      BY <2>2, <2>3
    <3>2. entry + 1 \in Nat \ {0} /\ ~(entry + 1 <= 0) /\ 0 \in Nat /\ 0 <= Len(Regions)
      BY <2>3, <3>1
    <3> QED
      BY <1>1, <2>1, <2>2, <3>2 DEF AtRegion, Still, Regions
  <2>7. Places'
    BY <1>1, <1>3, <2>1, <2>6 DEF Places, AtWait, AtReopen, AtTable, AtBlock, AtAnswer, AtClose,
                                  Dumping
  <2> QED
    BY <1>1, <1>2, <2>2, <2>5, <2>7 DEF Memory
<1> QED
  BY <1>4, <1>5, <1>6, <1>7

\* Over USB a device sends whole packets.
LEMMA SendsWhole ==
    ASSUME IInv, ~setup.serial, DevNext
    PROVE  \E s : /\ IsSeq(s) /\ \A i \in 1..Len(s) : s[i].last
                  /\ rx' = IF up THEN rx \o s ELSE rx
<1>1. ASSUME NEW p, Emit(p)
      PROVE  \E s : /\ IsSeq(s) /\ \A i \in 1..Len(s) : s[i].last
                    /\ rx' = IF up THEN rx \o s ELSE rx
  <2>1. PICK u : u = Whole(p)
    OBVIOUS
  <2>2. rx' = IF up THEN rx \o << u >> ELSE rx
    BY <1>1, <2>1 DEF Emit, Wire
  <2>3. IsSeq(<< u >>) /\ Len(<< u >>) = 1 /\ << u >>[1] = u /\ u.last
    BY <2>1, Short DEF Whole
  <2>4. \A i \in 1..Len(<< u >>) : << u >>[i].last
    <3>1. \A i \in 1..1 : i = 1
      OBVIOUS
    <3> QED
      BY <2>3, <3>1
  <2> QED
    BY <2>2, <2>3, <2>4
<1>2. CASE DevIgnores
  <2>1. rx' = rx /\ IsSeq(rx) /\ IsSeq(<< >>) /\ Len(<< >>) = 0
    BY <1>2, StreamIsSeq, Short DEF DevIgnores
  <2>2. rx \o << >> = rx
    BY <2>1, ConcatEmptySeq DEF IsSeq
  <2>3. \A i \in 1..Len(<< >>) : << >>[i].last
    BY <2>1
  <2> QED
    BY <2>1, <2>2, <2>3
<1>3. CASE DevMemRead
  <2> DEFINE answer == Whole(Pkt("MEM", Head(tx).arg))
             Entry(i) == Whole(Pkt("ENTRY", <<0, i>>))
             table == [i \in 1..Len(Regions) |-> Entry(i)]
             S == {answer} \cup {Entry(i) : i \in 1..Len(Regions)}
  <2>1. Len(Regions) \in Nat
    BY RegionSizes
  <2>2. \A m \in S : m.last
    <3>1. \A p : Whole(p).last
      BY DEF Whole
    <3> HIDE DEF Whole
    <3>2. answer.last /\ \A i : Entry(i).last
      BY <3>1
    <3> QED
      BY <3>2
  <2>3. table \in Seq(S) /\ << answer >> \in Seq(S)
    <3>1. table \in [1..Len(Regions) -> S]
      OBVIOUS
    <3>2. answer \in S
      OBVIOUS
    <3>3. \A x \in S : << x >> \in Seq(S)
      OBVIOUS
    <3> HIDE DEF S, answer, table
    <3>4. table \in Seq(S)
      BY <2>1, <3>1, SeqDef
    <3> QED
      BY <3>2, <3>3, <3>4
  <2>4. PICK s \in Seq(S) : rx' = IF up THEN rx \o s ELSE rx
    <3>1. rx' = (IF up THEN rx \o table ELSE rx) \/ rx' = (IF up THEN rx \o << answer >> ELSE rx)
      BY <1>3 DEF DevMemRead
    <3> HIDE DEF S, answer, table
    <3> QED
      BY <2>3, <3>1
  <2> HIDE DEF S, answer, table
  <2>5. IsSeq(s) /\ \A i \in 1..Len(s) : s[i] \in S
    BY <2>4, OverRange, ElementOfSeq DEF IsSeq
  <2> QED
    BY <2>2, <2>4, <2>5
<1>4. CASE DevHello \/ DevHelloResp \/ DevData \/ DevDone \/ DevReset
  <2>1. \E p : Emit(p)
    BY <1>4 DEF DevHello, DevHelloResp, DevData, DevDone, DevReset, Ask
  <2> QED
    BY <1>1, <2>1
<1> QED
  BY <1>2, <1>3, <1>4 DEF DevNext

\* What the device sends is put behind the stream.
LEMMA StreamGrows ==
    ASSUME IInv, UNCHANGED buf, NEW s, IsSeq(s), rx' = IF up THEN rx \o s ELSE rx
    PROVE  /\ ~up => Stream' = Stream
           /\ up => Stream' = Stream \o s
           /\ Stream # << >> => Stream' # << >> /\ Stream'[1] = Stream[1]
<1>1. IsSeq(buf) /\ IsSeq(rx) /\ IsSeq(s)
  BY StreamIsSeq
<1>2. (buf \o rx) \o s = buf \o (rx \o s)
  BY <1>1, Associative
<1>3. /\ ~up => Stream' = Stream
      /\ up => Stream' = Stream \o s
  BY <1>2 DEF Stream
<1>4. ASSUME Stream # << >> PROVE Stream \o s # << >> /\ (Stream \o s)[1] = Stream[1]
  <2>1. IsSeq(Stream) /\ Len(Stream) \in Nat \ {0} /\ Len(s) \in Nat
    BY <1>1, <1>4, StreamIsSeq, Lengths
  <2>2. /\ IsSeq(Stream \o s) /\ Len(Stream \o s) = Len(Stream) + Len(s)
        /\ \A i \in 1..Len(Stream) + Len(s) :
              (Stream \o s)[i] = IF i <= Len(Stream) THEN Stream[i] ELSE s[i - Len(Stream)]
    BY <1>1, <2>1, Concat
  <2>3. 1 \in 1..Len(Stream) + Len(s) /\ 1 <= Len(Stream) /\ Len(Stream \o s) # 0
    BY <2>1, <2>2
  <2> QED
    BY <2>2, <2>3, Lengths
<1> QED
  BY <1>3, <1>4

\* While the host reads memory, the device does nothing else.
LEMMA OnlyReads ==
    ASSUME Dialogue, up, hpc \in Dumping, DevNext
    PROVE  DevMemRead /\ tx # << >>
<1>1. dev = "dump" /\ (tx # << >> => Head(tx).cmd = "MEM_READ64")
  BY DumpTakesReads DEF Dialogue, InDump
<1>2. ~(DevHello \/ DevHelloResp \/ DevData \/ DevDone)
  BY <1>1 DEF DevHello, DevHelloResp, DevData, DevDone
<1>3. ~DevReset
  BY <1>1 DEF DevReset, Receives
<1>4. ~DevIgnores
  BY <1>1 DEF DevIgnores, Awaits
<1>5. DevMemRead
  BY <1>2, <1>3, <1>4 DEF DevNext
<1> QED
  BY <1>5 DEF DevMemRead, Receives

\* The steps of the device.
LEMMA DeviceKeepsMemory ==
    ASSUME IInv, IInv', Dialogue, Memory, Calm, DevNext
    PROVE  Memory'
<1>1. UNCHANGED << hpc, buf, retries, entry, bound, chunk, files, dumped, setup, up, result >>
  BY DEF DevNext, DevHello, DevHelloResp, DevData, DevDone, DevMemRead, DevReset, DevIgnores,
         hostVars, waitVars, dumpVars, devVars
<1>2. Written' /\ (Fresh' <=> Fresh) /\ (Fresh' \/ setup'.ramdump)
  BY <1>1, DiskKept DEF Memory, Unbroken
<1>3. PICK s : /\ IsSeq(s) /\ \A i \in 1..Len(s) : s[i].last
               /\ rx' = IF up THEN rx \o s ELSE rx
  BY SendsWhole DEF Calm
<1>4. Pieces'
  <2>1. CASE ~up
    BY <1>1, <1>3, <2>1, StreamGrows DEF Memory, Pieces
  <2>2. CASE up
    <3>1. Stream' = Stream \o s /\ IsSeq(Stream)
      BY <1>1, <1>3, <2>2, StreamGrows, StreamIsSeq
    <3>2. /\ Len(Stream \o s) = Len(Stream) + Len(s) /\ Len(Stream) \in Nat /\ Len(s) \in Nat
          /\ \A i \in 1..Len(Stream) + Len(s) :
                (Stream \o s)[i] = IF i <= Len(Stream) THEN Stream[i] ELSE s[i - Len(Stream)]
      BY <1>3, <3>1, Concat, Lengths
    <3>3. ASSUME NEW i \in 1..Len(Stream) + Len(s) PROVE (Stream \o s)[i].last
      <4>1. CASE i <= Len(Stream)
        <5>1. i \in 1..Len(Stream)
          BY <3>2, <4>1
        <5> QED
          BY <3>2, <4>1, <5>1 DEF Memory, Pieces
      <4>2. CASE ~(i <= Len(Stream))
        <5>1. i - Len(Stream) \in 1..Len(s)
          BY <3>2, <4>2
        <5> QED
          BY <1>3, <3>2, <4>2, <5>1
      <4> QED
        BY <4>1, <4>2
    <3> QED
      BY <3>1, <3>2, <3>3 DEF Pieces
  <2> QED
    BY <2>1, <2>2
<1>5. ASSUME Places' PROVE Memory'
  BY <1>2, <1>4, <1>5 DEF Memory
<1>6. CASE ~up
  <2>1. Places'
    BY <1>1, <1>2, <1>6 DEF Memory, Places, AtWait, AtReopen, AtTable, AtRegion, AtBlock,
                            AtAnswer, AtClose, Opened, Size, Regions
  <2> QED
    BY <1>5, <2>1
<1>7. CASE up /\ hpc \notin Dumping /\ (Fresh \/ hpc # "wait")
  <2>1. Places'
    BY <1>1, <1>2, <1>7 DEF Memory, Places, AtWait, AtReopen, AtTable, AtRegion, AtBlock,
                            AtAnswer, AtClose, Dumping
  <2> QED
    BY <1>5, <2>1
<1>8. CASE up /\ hpc = "wait" /\ ~Fresh
  <2>1. Over
    BY <1>8 DEF Memory, Places, AtWait
  <2>2. Over'
    <3>1. CASE tx = << Reset >> /\ dev = "dump" /\ buf = << >> /\ rx = << >>
      <4>1. tx # << >> /\ Head(tx) = Reset /\ Tail(tx) = << >>
        <5>1. \A u : << u >> # << >> /\ Head(<< u >>) = u /\ Tail(<< u >>) = << >>
          BY Short, Lengths
        <5> QED
          BY <3>1, <5>1
      <4>2. DevReset
        BY <3>1, <4>1 DEF DevNext, DevHello, DevHelloResp, DevData, DevDone, DevMemRead,
                          DevIgnores, Receives, Reset, Pkt
      <4>3. PICK u : u = Whole(Pkt("RESET_RESP", 0))
        OBVIOUS
      <4>4. rx' = rx \o << u >> /\ tx' = << >>
        BY <1>8, <4>1, <4>2, <4>3 DEF DevReset, Receives, Emit, Wire, Calm
      <4>5. Stream' = << u >>
        <5>1. << >> \o << u >> = << u >> /\ << >> \o (<< >> \o << u >>) = << u >>
          BY Short, ConcatEmptySeq DEF IsSeq
        <5> QED
          BY <1>1, <3>1, <4>4, <5>1 DEF Stream
      <4>6. Stream' # << >> /\ Stream'[1] = u
        BY <4>5, Short, Lengths
      <4>7. u.p.cmd = "RESET_RESP"
        BY <4>3 DEF Whole, Pkt
      <4> QED
        BY <1>1, <2>1, <4>4, <4>6, <4>7 DEF Over
    <3>2. CASE tx = << >> /\ Stream # << >> /\ Stream[1].p.cmd = "RESET_RESP"
      <4>1. DevHello
        BY <3>2 DEF DevNext, DevHelloResp, DevData, DevDone, DevMemRead, DevReset, DevIgnores,
                    Receives
      <4>2. tx' = tx
        BY <4>1 DEF DevHello
      <4>3. Stream' # << >> /\ Stream'[1] = Stream[1]
        BY <1>1, <1>3, <3>2, StreamGrows
      <4> QED
        BY <1>1, <2>1, <3>2, <4>2, <4>3 DEF Over
    <3> QED
      BY <2>1, <3>1, <3>2 DEF Over
  <2>3. Places'
    BY <1>1, <1>8, <2>2 DEF Places, AtWait, AtReopen, AtTable, AtRegion, AtBlock, AtAnswer,
                            AtClose, Dumping
  <2> QED
    BY <1>5, <2>3
<1>9. CASE up /\ hpc \in Dumping
  <2>1. DevMemRead /\ tx # << >> /\ Receives("MEM_READ64")
    BY <1>9, OnlyReads DEF DevMemRead
  <2>2. hpc \in {"table", "answer"} /\ rx = << >>
    BY <1>9, <2>1 DEF Memory, Places, AtTable, AtRegion, AtBlock, AtAnswer, AtClose, Still, Dumping
  <2>3. PICK r, n : /\ tx = << MemRead(r, n) >>
                    /\ hpc = "table" => r = 0
                    /\ hpc = "answer" => r = entry /\ n = chunk + 1
    BY <1>9, <2>1, <2>2 DEF Memory, Places, AtTable, AtAnswer
  <2>4. Head(tx).arg[1] = r /\ Head(tx).arg = << r, n >> /\ tx' = << >>
    <3>1. \A u : Head(<< u >>) = u /\ Tail(<< u >>) = << >>
      OBVIOUS
    <3>2. Head(tx) = MemRead(r, n) /\ tx' = << >>
      BY <2>1, <2>3, <3>1 DEF Receives
    <3> QED
      BY <3>2 DEF MemRead, Pkt
  <2>5. CASE hpc = "table"
    <3>1. PICK entries : /\ entries = [i \in 1..Len(Regions) |-> Whole(Pkt("ENTRY", <<0, i>>))]
                         /\ rx' = rx \o entries
      BY <1>9, <2>1, <2>3, <2>4, <2>5 DEF DevMemRead
    <3>2. IsSeq(entries) /\ Len(entries) = Len(Regions) /\ Len(Regions) \in Nat
      <4> DEFINE Entry(i) == Whole(Pkt("ENTRY", <<0, i>>))
                 S == {Entry(i) : i \in 1..Len(Regions)}
      <4>1. Len(Regions) \in Nat /\ entries \in [1..Len(Regions) -> S]
        BY <3>1, RegionSizes
      <4> HIDE DEF S
      <4>2. entries \in Seq(S)
        BY <4>1, SeqDef
      <4>3. Len(entries) = Len(Regions)
        BY <4>1, <4>2, LenProperties
      <4> QED
        BY <4>1, <4>2, <4>3, OverRange DEF IsSeq
    <3>3. rx' = entries
      BY <2>2, <3>1, <3>2, ConcatEmptySeq DEF IsSeq
    <3>4. AtTable'
      <4>1. Len(rx') <= Len(Regions')
        BY <1>1, <3>2, <3>3 DEF Regions
      <4>2. Fresh'
        BY <1>2, <2>5 DEF Memory, Places, AtTable
      <4> QED
        BY <2>4, <4>1, <4>2 DEF AtTable
    <3>5. Places'
      BY <1>1, <1>9, <2>5, <3>4 DEF Memory, Places, AtWait, AtReopen, AtRegion, AtBlock, AtAnswer,
                                    AtClose
    <3> QED
      BY <1>5, <3>5
  <2>6. CASE hpc = "answer"
    <3>1. /\ Opened /\ chunk < Size(entry) /\ setup.ramdump /\ entry # 0
      <4>1. \A m \in Nat : 0 \notin 1..m
        OBVIOUS
      <4>2. Opened /\ chunk < Size(entry) /\ setup.ramdump /\ entry \in 1..Len(Regions)
        BY <2>6 DEF Memory, Written, Places, AtAnswer, Opened
      <4> QED
        BY <4>1, <4>2, RegionSizes
    <3>2. PICK u : u = Whole(Pkt("MEM", << entry, chunk + 1 >>))
      OBVIOUS
    <3>3. rx' = << u >>
      <4>1. rx' = rx \o << u >>
        BY <1>9, <2>1, <2>3, <2>4, <2>6, <3>1, <3>2 DEF DevMemRead
      <4> QED
        BY <2>2, <4>1, Short, ConcatEmptySeq DEF IsSeq
    <3>4. AtAnswer'
      BY <1>1, <2>4, <3>1, <3>2, <3>3 DEF AtAnswer, Opened, Size, Regions
    <3>5. Places'
      BY <1>1, <1>9, <2>6, <3>4 DEF Memory, Places, AtWait, AtReopen, AtTable, AtRegion, AtBlock,
                                    AtClose
    <3> QED
      BY <1>5, <3>5
  <2> QED
    BY <2>2, <2>5, <2>6
<1> QED
  BY <1>6, <1>7, <1>8, <1>9

\* Once the cable is pulled nothing more is written.
LEMMA UnplugKeepsMemory ==
    ASSUME IInv, IInv', Memory, Unplug
    PROVE  Memory'
<1>1. /\ UNCHANGED << hpc, buf, retries, entry, bound, chunk, files, dumped, setup >>
      /\ up' = FALSE /\ rx' = << >> /\ up
  BY DEF Unplug, hostVars, waitVars, dumpVars, devVars
<1>2. Written' /\ (Fresh' <=> Fresh)
  BY <1>1, DiskKept DEF Memory, Unbroken
<1>3. Pieces'
  <2>1. IsSeq(buf) /\ IsSeq(rx) /\ Len(buf) \in Nat /\ Len(rx) \in Nat
    BY StreamIsSeq, Lengths
  <2>2. Stream' = buf
    BY <1>1, <2>1, ConcatEmptySeq DEF Stream, IsSeq
  <2>3. /\ Len(Stream) = Len(buf) + Len(rx)
        /\ \A i \in 1..Len(buf) + Len(rx) :
              Stream[i] = IF i <= Len(buf) THEN buf[i] ELSE rx[i - Len(buf)]
    BY <2>1, Concat DEF Stream
  <2>4. \A i \in 1..Len(buf) : i \in 1..Len(buf) + Len(rx) /\ i <= Len(buf)
    BY <2>1
  <2>5. \A i \in 1..Len(buf) : buf[i].last
    BY <2>3, <2>4 DEF Memory, Pieces
  <2> QED
    BY <2>2, <2>5 DEF Pieces
<1>4. Places'
  BY <1>1, <1>2 DEF Memory, Places, AtWait, AtReopen, AtTable, AtRegion, AtBlock, AtAnswer,
                    AtClose, Opened, Size, Regions
<1> QED
  BY <1>1, <1>2, <1>3, <1>4 DEF Memory

-----------------------------------------------------------------------------
(* The theorems.                                                           *)

\* The strengthened invariant.
JInv == IInv /\ DInv /\ MInv /\ Finished

\* Nothing follows success.
LEMMA StaysFinished ==
    ASSUME Finished, [Next]_vars
    PROVE  Finished'
<1>1. CASE HostNext
  <2>1. hpc # "end" /\ result # "ok"
    BY <1>1 DEF Finished, HostNext, Accumulate, ReadTimesOut, NoPacket, Reopen, Garbage, Hello,
                ReadImage, EndOfImage, DoneResp, ResetResp, MemDebug, ReadTable, NoTable,
                NextRegion, DumpEnds, FetchBlock, WriteBlock, NoBlock, RegionDone, Handles
  <2>2. result' = result \/ hpc' = "end"
    BY <1>1 DEF HostNext, Accumulate, ReadTimesOut, NoPacket, Reopen, Garbage, Hello, ReadImage,
                EndOfImage, DoneResp, ResetResp, MemDebug, ReadTable, NoTable, NextRegion,
                DumpEnds, FetchBlock, WriteBlock, NoBlock, RegionDone, AttemptFails, Ends, Crashes
  <2> QED
    BY <2>1, <2>2 DEF Finished
<1>2. CASE DevNext \/ Unplug
  BY <1>2 DEF Finished, DevNext, DevHello, DevHelloResp, DevData, DevDone, DevMemRead, DevReset,
              DevIgnores, Unplug, hostVars
<1>3. CASE UNCHANGED vars
  BY <1>3 DEF Finished, vars, hostVars
<1> QED
  BY <1>1, <1>2, <1>3 DEF Next, Ended

\* Nothing has been said at the start.
LEMMA DialogueStarts == Init => JInv
<1> SUFFICES ASSUME Init PROVE JInv
  OBVIOUS
<1>1. IInv
  BY InitHolds
<1>2. /\ buf = << >> /\ rx = << >> /\ tx = << >> /\ Stream = << >>
      /\ hpc = "wait" /\ taken = 0 /\ ~mixed /\ dev \in {"boot", "hello", "deaf"} /\ up
      /\ dumped = {} /\ files = [r \in 1..Len(Regions) |-> << >>]
  <2>1. << >> \o << >> = << >>
    OBVIOUS
  <2> QED
    BY <2>1 DEF Init, Stream
<1>3. IsSeq(<< >>) /\ Len(<< >>) = 0
  BY Short
<1>4. Ordered(Stream) /\ Timely
  BY <1>2, <1>3 DEF Ordered, QuestionLast, Timely, Packets
<1>5. DInv
  BY <1>2, <1>3, <1>4 DEF DInv, Dialogue, Expected, InDump, Dumping
<1>6. Written /\ Fresh /\ Pieces
  BY <1>2, <1>3 DEF Written, Fresh, Pieces
<1>8. Finished
  BY DEF Init, Finished
<1>7. MInv
  BY <1>2, <1>6 DEF MInv, Memory, Places, AtWait, AtReopen, AtTable, AtRegion, AtBlock, AtAnswer,
                    AtClose, Dumping
<1> QED
  BY <1>1, <1>5, <1>7, <1>8 DEF JInv

\* Every step keeps it.
LEMMA DialogueGoesOn == JInv /\ [Next]_vars => JInv'
<1> SUFFICES ASSUME JInv, [Next]_vars PROVE JInv'
  OBVIOUS
<1>1. IInv /\ IInv' /\ Finished /\ Finished'
  BY NextPreserves, StaysFinished DEF JInv
<1>2. CASE UNCHANGED vars
  <2>1. UNCHANGED << hpc, buf, retries, entry, bound, chunk, files, dumped, up, tx, rx, setup, dev,
                     current, taken, mixed, result >>
    BY <1>2 DEF vars, hostVars, waitVars, dumpVars, devVars, wireVars
  <2>2. DInv'
    BY <2>1 DEF JInv, DInv, Dialogue, Expected, InDump, Awaits, Needs, Timely, Asks, Unanswered,
                Stream
  <2>3. MInv'
    BY <2>1 DEF JInv, MInv, Calm, Memory, Written, Fresh, Pieces, Places, AtWait, AtReopen, AtTable,
                AtRegion, AtBlock, AtAnswer, AtClose, Opened, Over, Still, Size, Regions, Stream,
                Unbroken
  <2> QED
    BY <1>1, <2>2, <2>3 DEF JInv
<1>3. CASE Next
  <2>1. setup' = setup
    BY <1>3 DEF Next, HostNext, Accumulate, ReadTimesOut, NoPacket, Reopen, Garbage, Hello,
                ReadImage, EndOfImage, DoneResp, ResetResp, MemDebug, ReadTable, NoTable,
                NextRegion, DumpEnds, FetchBlock, WriteBlock, NoBlock, RegionDone, DevNext,
                DevHello, DevHelloResp, DevData, DevDone, DevMemRead, DevReset, DevIgnores, Unplug,
                Ended, devVars, vars
  <2>2. CASE Ended
    BY <1>2, <2>2 DEF Ended
  <2>3. ASSUME ~setup.slow, ~Ended PROVE Dialogue'
    BY <1>1, <1>3, <2>3, HostKeepsDialogue, DeviceKeepsDialogue DEF JInv, DInv, Next
  <2>4. ASSUME Calm, ~Ended PROVE Memory'
    <3>1. Dialogue /\ Memory
      BY <2>4 DEF JInv, DInv, MInv, Calm
    <3>2. CASE HostNext
      <4>1. hpc = "wait" \/ ~(\/ Accumulate \/ ReadTimesOut \/ NoPacket \/ Garbage \/ Hello
                              \/ ReadImage \/ EndOfImage \/ DoneResp \/ ResetResp \/ MemDebug)
        BY DEF Accumulate, ReadTimesOut, NoPacket, Garbage, Hello, ReadImage, EndOfImage, DoneResp,
               ResetResp, MemDebug, Handles
      <4> QED
        BY <1>1, <2>4, <3>1, <3>2, <4>1, WaitKeepsMemory, RegionsKeepMemory, BlocksKeepMemory
           DEF HostNext
    <3> QED
      BY <1>1, <1>3, <2>4, <3>1, <3>2, DeviceKeepsMemory, UnplugKeepsMemory DEF Next
  <2> QED
    BY <1>1, <2>1, <2>2, <2>3, <2>4 DEF JInv, DInv, MInv, Calm
<1> QED
  BY <1>2, <1>3

\* The strengthened invariant holds in every reachable state.
THEOREM DialogueInvariant == Spec => []JInv
  BY DialogueStarts, DialogueGoesOn, PTL DEF Spec

\* A device that answers within a second only ever receives what it waits for, or
\* a reset: whatever is lost when the port is closed and opened, however a COM port
\* cuts the stream, and whenever the cable is pulled.
THEOREM InDialogueHolds == Spec => [](~setup.slow => InDialogue)
<1>1. JInv => (~setup.slow => InDialogue)
  BY DEF JInv, DInv, Dialogue, InDialogue
<1> QED
  BY <1>1, DialogueInvariant, PTL

\* With a device that answers in time, what is written of a region over USB is its
\* memory from the start, in order, and what is reported as dumped is complete while
\* the link is up and when the run ends well: a region that the pulled cable broke
\* off is reported too, but no success follows.
THEOREM DumpIsRealHolds == Spec => [](~setup.slow => DumpIsReal)
<1>1. JInv => (~setup.slow => DumpIsReal)
  BY DEF JInv, MInv, Calm, Memory, Written, DumpIsReal, Size, Unbroken
<1> QED
  BY <1>1, DialogueInvariant, PTL
=============================================================================
