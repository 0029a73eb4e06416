--------------------------- MODULE FirehoseProofs ---------------------------
(***************************************************************************)
(* A session with a programmer that answers in time credits no operation   *)
(* with the answer to another, sends no command into a payload, saves      *)
(* nothing but payloads, erases nothing before its backup, keeps the       *)
(* contract of a flash and fails only for a cause: for every plan, over    *)
(* USB and over a COM port that merges messages, with refusals, broken     *)
(* operations, any number of log messages and a link that is cut anywhere. *)
(***************************************************************************)
EXTENDS Firehose, SequenceTheorems, TLAPS

-----------------------------------------------------------------------------
(* The inductive invariant.                                                *)

\* The programmer answers before the host gives up, and every image of the
\* host can be read.
Prompt == setup.slow = {} /\ "file" \notin setup.faults

IsSeq(q) == q \in Seq(Range(q))
Types(q) == {q[i].type : i \in 1..Len(q)}

\* At most one unit of q is a rawmode response; it is the last one.
OneRaw(q) == \A i, j \in 1..Len(q) : q[i].type = "RAW" /\ q[j].type = "RAW" => i = j
RawLast(q) ==
    /\ q # << >> /\ Types(q) \subseteq {"log", "RAW"}
    /\ \A i \in 1..Len(q) : q[i].type = "RAW" <=> i = Len(q)

Typed ==
    /\ setup \in Setups /\ todo \in Seq(Operation)
    /\ IsSeq(tx) /\ IsSeq(rx) /\ IsSeq(done)
    /\ \A i \in 1..Len(tx) : tx[i].type = "cmd" => tx[i].op.size \in Nat
    /\ reading \in BOOLEAN /\ up \in BOOLEAN /\ (~up => rx = << >>)

\* Where an operation is under way.
Working == {"reply", "raw_out", "raw_sent", "raw_in", "read_close", "read_abort"}
Active == Working \cup {"configure", "configured", "reconfigured", "next", "bootable", "reset"}
Listening ==
    /\ reading => hpc \in {"configured", "reconfigured", "reply", "raw_sent",
                           "read_close", "read_abort", "bootable", "reset"}
    /\ hpc \in Working => todo # << >>

\* The programmer takes only data for data, and nothing follows the command
\* that announces it until it was answered.
InOrder ==
    /\ ~mixed
    /\ dev = "rawin" => Types(tx) \subseteq {"data"}
    /\ \A i \in 1..Len(tx) : tx[i].type = "cmd" /\ tx[i].op.kind = "program" => i = Len(tx)

\* Nothing is outstanding; op has been sent; whatever was sent is answered.
Quiet == tx = << >> /\ dev \notin {"boot", "rawin"} /\ Types(rx) \subseteq {"log"}
Sent(op) ==
    tx = << Cmd(op) >> /\ dev \notin {"boot", "rawin"} /\ Types(rx) \subseteq {"log"}
Served == tx = << >> /\ dev \notin {"boot", "rawin"}
NoRaw == "RAW" \notin Types(rx)

\* Several configures may be waiting for the programmer to boot.
Configuring ==
    /\ dev # "rawin" /\ \A i \in 1..Len(tx) : tx[i] = Cmd(Configure)
    /\ Types(rx) \subseteq {"log", "ACK"} /\ (dev = "boot" => rx = << >>)

\* The programmer waits for the whole payload of op.
Expecting(op) ==
    tx = << >> /\ op.kind = "program" /\ dev = "rawin" /\ devop = op /\ devleft = op.size

\* The reply to the command of op, while it is read and after.
Replied(op) ==
    \/ Sent(op) /\ resp = "none"
    \/ Expecting(op) /\ RawLast(rx) /\ resp = "none"
    \/ op.kind = "program" /\ Served /\ Types(rx) \subseteq {"log", "NAK"} /\ resp # "ACK"
    \/ op.kind \in {"read", "probe"} /\ Served /\ OneRaw(rx)
    \/ op.kind \in {"erase", "patch"} /\ Served /\ NoRaw
Answered(op) ==
    \/ Expecting(op) /\ rx = << >> /\ resp = "ACK"
    \/ op.kind \in {"read", "probe"} /\ Served /\ NoRaw /\ resp = "ACK"
    \/ Quiet /\ (resp = "ACK" => op.kind \in {"erase", "patch"})

\* The programmer expects what is on its way and `more' units.
Outstanding(op, more) ==
    /\ op.kind = "program" /\ dev # "boot" /\ NoRaw /\ Types(tx) \subseteq {"data"}
    /\ dev = "rawin" => devop = op /\ devleft = Len(tx) + more /\ devleft > 0

Phase ==
    /\ hpc = "configure" => Configuring
    /\ hpc = "configured" => Configuring /\ (resp = "ACK" => dev # "boot")
    /\ hpc = "reconfigured" => Configuring /\ dev # "boot"
    /\ hpc \in {"configured", "reconfigured"} => reading \/ resp # "ACK" \/ Quiet
    /\ hpc = "next" => Quiet
    /\ hpc = "reply" => IF reading THEN Replied(Current) ELSE Answered(Current)
    /\ hpc = "raw_out" => left \in Nat \ {0} /\ Outstanding(Current, left)
    /\ hpc = "raw_sent" => Outstanding(Current, 0)
    /\ hpc \in {"raw_in", "read_close", "read_abort"} => Served /\ NoRaw
    /\ hpc = "bootable" => Sent(Bootable) \/ (Served /\ NoRaw)
    /\ hpc = "reset" => Sent(Reset) \/ (Served /\ NoRaw)
    /\ hpc \in {"raw_sent", "read_close", "read_abort", "bootable", "reset"} => reading \/ Quiet

\* An ACK that is on its way, or was heard, is for the current operation, and
\* was given for it.
Acked ==
    \/ "ACK" \in Types(rx)
    \/ /\ resp = "ACK"
       /\ \/ hpc \in {"raw_sent", "read_close"}
          \/ hpc = "reply" /\ Current.kind \in {"erase", "patch"}
AcksAreTrue == hpc \in Working /\ Acked => Current.id \in DoneIds

Protocol == Listening /\ InOrder /\ (up => Phase) /\ AcksAreTrue /\ SuccessIsReal

IInv == Prompt => Typed /\ Protocol

-----------------------------------------------------------------------------
(* Sequences of units.                                                     *)

\* A sequence is one over its elements.
LEMMA OverRange ==
    ASSUME NEW S, NEW s \in Seq(S)
    PROVE  IsSeq(s) /\ DOMAIN s = 1..Len(s) /\ Len(s) \in Nat /\ Range(s) \subseteq S
<1>1. Len(s) \in Nat /\ DOMAIN s = 1..Len(s) /\ s \in [1..Len(s) -> S]
  BY LenProperties
<1>2. s \in [1..Len(s) -> Range(s)]
  BY <1>1 DEF Range
<1>3. Range(s) \subseteq S
  BY <1>1 DEF Range
<1> QED
  BY <1>1, <1>2, <1>3, SeqDef DEF IsSeq

\* Nothing, and one unit.
LEMMA Short ==
    /\ IsSeq(<< >>) /\ Types(<< >>) = {}
    /\ \A u : IsSeq(<< u >>) /\ Types(<< u >>) = {u.type} /\ Len(<< u >>) = 1
<1>1. IsSeq(<< >>) /\ Types(<< >>) = {}
  BY EmptySeq DEF IsSeq, Types
<1>2. ASSUME NEW u PROVE IsSeq(<< u >>) /\ Types(<< u >>) = {u.type} /\ Len(<< u >>) = 1
  <2> DEFINE S == {u}
  <2>1. \A x \in S : << x >> \in Seq(S)
    OBVIOUS
  <2>2. << u >> \in Seq(S) /\ Len(<< u >>) = 1 /\ << u >>[1] = u
    BY <2>1
  <2>3. IsSeq(<< u >>)
    BY <2>2, OverRange
  <2>4. Types(<< u >>) = {u.type}
    BY <2>2 DEF Types
  <2> QED
    BY <2>2, <2>3, <2>4
<1> QED
  BY <1>1, <1>2

\* Two sequences one after the other.
LEMMA Joined ==
    ASSUME NEW s, NEW t, IsSeq(s), IsSeq(t)
    PROVE  /\ IsSeq(s \o t) /\ Types(s \o t) = Types(s) \cup Types(t)
           /\ Len(s \o t) = Len(s) + Len(t) /\ Len(s) \in Nat /\ Len(t) \in Nat
           /\ \A i \in 1..Len(s) + Len(t) :
                 (s \o t)[i] = IF i <= Len(s) THEN s[i] ELSE t[i - Len(s)]
<1> DEFINE S == Range(s) \cup Range(t)
<1>1. s \in Seq(S) /\ t \in Seq(S)
  BY SeqMonotonic DEF IsSeq
<1> HIDE DEF S
<1>2. /\ s \o t \in Seq(S) /\ Len(s \o t) = Len(s) + Len(t)
      /\ Len(s) \in Nat /\ Len(t) \in Nat
      /\ \A i \in 1..Len(s) + Len(t) :
            (s \o t)[i] = IF i <= Len(s) THEN s[i] ELSE t[i - Len(s)]
  BY <1>1, ConcatProperties, LenProperties
<1>3. Types(s \o t) \subseteq Types(s) \cup Types(t)
  BY <1>2 DEF Types
<1>4. ASSUME NEW i \in 1..Len(s) PROVE s[i].type \in Types(s \o t)
  BY <1>2 DEF Types
<1>5. ASSUME NEW i \in 1..Len(t) PROVE t[i].type \in Types(s \o t)
  <2>1. Len(s) + i \in 1..Len(s) + Len(t) /\ ~(Len(s) + i <= Len(s)) /\ (Len(s) + i) - Len(s) = i
    BY <1>2
  <2>2. (s \o t)[Len(s) + i] = t[i]
    BY <1>2, <2>1
  <2> QED
    BY <1>2, <2>1, <2>2 DEF Types
<1>6. Types(s) \cup Types(t) \subseteq Types(s \o t)
  BY <1>4, <1>5 DEF Types
<1>7. IsSeq(s \o t)
  BY <1>2, OverRange
<1> QED
  BY <1>2, <1>3, <1>6, <1>7

\* A part of a sequence.
LEMMA PartOf ==
    ASSUME NEW s, IsSeq(s), NEW a \in Nat \ {0}, NEW b \in Nat, b <= Len(s)
    PROVE  /\ IsSeq(SubSeq(s, a, b)) /\ Types(SubSeq(s, a, b)) \subseteq Types(s)
           /\ Len(SubSeq(s, a, b)) = IF a <= b THEN b - a + 1 ELSE 0
           /\ \A i \in 1..(b - a + 1) : SubSeq(s, a, b)[i] = s[a + i - 1]
<1>1. DOMAIN s = 1..Len(s) /\ Len(s) \in Nat
  BY OverRange DEF IsSeq
<1>2. \A i \in a..b : s[i] \in Range(s)
  BY <1>1 DEF Range
<1>3. /\ SubSeq(s, a, b) \in Seq(Range(s))
      /\ Len(SubSeq(s, a, b)) = IF a <= b THEN b - a + 1 ELSE 0
      /\ \A i \in 1..(b - a + 1) : SubSeq(s, a, b)[i] = s[a + i - 1]
  BY <1>2, SubSeqProperties
<1>4. \A i \in 1..Len(SubSeq(s, a, b)) : a + i - 1 \in 1..Len(s) /\ i \in 1..(b - a + 1)
  BY <1>1, <1>3
<1>5. Types(SubSeq(s, a, b)) \subseteq Types(s)
  BY <1>3, <1>4 DEF Types
<1> QED
  BY <1>3, <1>5, OverRange

\* What follows the first unit.
LEMMA Rest ==
    ASSUME NEW s, IsSeq(s), s # << >>
    PROVE  /\ IsSeq(Tail(s)) /\ Len(Tail(s)) = Len(s) - 1 /\ Len(s) \in Nat \ {0}
           /\ Types(Tail(s)) \subseteq Types(s) /\ Head(s).type \in Types(s)
           /\ Head(s) = s[1] /\ \A i \in 1..Len(Tail(s)) : Tail(s)[i] = s[i + 1]
<1>1. Len(s) \in Nat \ {0} /\ Head(s) = s[1]
  BY EmptySeq DEF IsSeq
<1>2. Len(Tail(s)) = Len(s) - 1 /\ \A i \in 1..Len(Tail(s)) : Tail(s)[i] = s[i + 1]
  BY HeadTailProperties DEF IsSeq
<1>3. IsSeq(Tail(s))
  BY HeadTailProperties, OverRange DEF IsSeq
<1>4. Head(s).type \in Types(s)
  BY <1>1 DEF Types
<1>5. Types(Tail(s)) \subseteq Types(s)
  BY <1>1, <1>2 DEF Types
<1> QED
  BY <1>1, <1>2, <1>3, <1>4, <1>5

\* One more unit.
LEMMA Extended ==
    ASSUME NEW s, IsSeq(s), NEW u
    PROVE  /\ IsSeq(Append(s, u)) /\ Types(Append(s, u)) = Types(s) \cup {u.type}
           /\ Len(Append(s, u)) = Len(s) + 1 /\ Len(s) \in Nat
           /\ \A i \in 1..Len(s) : Append(s, u)[i] = s[i]
           /\ Append(s, u)[Len(s) + 1] = u
<1> DEFINE S == Range(s) \cup {u}
<1>1. s \in Seq(S) /\ u \in S
  BY SeqMonotonic DEF IsSeq
<1> HIDE DEF S
<1>2. /\ Append(s, u) \in Seq(S) /\ Len(Append(s, u)) = Len(s) + 1 /\ Len(s) \in Nat
      /\ \A i \in 1..Len(s) : Append(s, u)[i] = s[i]
      /\ Append(s, u)[Len(s) + 1] = u
  BY <1>1, AppendProperties, LenProperties
<1>3. Types(Append(s, u)) = Types(s) \cup {u.type}
  BY <1>2 DEF Types
<1> QED
  BY <1>2, <1>3, OverRange

\* The only rawmode response comes after what holds none.
LEMMA ComesLater ==
    ASSUME NEW s, NEW t, IsSeq(s), IsSeq(t), "RAW" \notin Types(s), OneRaw(t)
    PROVE  OneRaw(s \o t)
<1>1. /\ Len(s \o t) = Len(s) + Len(t) /\ Len(s) \in Nat /\ Len(t) \in Nat
      /\ \A i \in 1..Len(s) + Len(t) :
            (s \o t)[i] = IF i <= Len(s) THEN s[i] ELSE t[i - Len(s)]
  BY Joined
<1>2. ASSUME NEW i \in 1..Len(s) + Len(t), (s \o t)[i].type = "RAW"
      PROVE  i - Len(s) \in 1..Len(t) /\ t[i - Len(s)].type = "RAW"
  <2>1. ~(i <= Len(s))
    BY <1>1, <1>2 DEF Types
  <2> QED
    BY <1>1, <1>2, <2>1
<1>3. ASSUME NEW i \in 1..Len(s) + Len(t), NEW j \in 1..Len(s) + Len(t),
             (s \o t)[i].type = "RAW", (s \o t)[j].type = "RAW"
      PROVE  i = j
  <2>1. i - Len(s) = j - Len(s)
    BY <1>2, <1>3 DEF OneRaw
  <2> QED
    BY <1>1, <2>1
<1> QED
  BY <1>1, <1>3 DEF OneRaw

-----------------------------------------------------------------------------
(* Steps of the host.                                                      *)

\* A prompt programmer is silent only when it has nothing to do.
LEMMA Silence ==
    ASSUME Prompt, LineQuiet
    PROVE  up /\ rx = << >> /\ (dev # "boot" => tx = << >>)
  BY DEF Prompt, LineQuiet, Deliberates

\* The operation under way is one of the plan.
LEMMA CurrentIsOperation ==
    ASSUME Typed, Listening, hpc \in Working
    PROVE  /\ Current \in Operation /\ todo # << >> /\ Tail(todo) \in Seq(Operation)
  BY HeadTailProperties DEF Typed, Listening, Current

\* The plan is one of operations, none of them a probe.
LEMMA PlanIsTyped ==
    ASSUME setup \in Setups
    PROVE  /\ Probes \in Seq(Operation) /\ \A i \in 1..Len(Probes) : Probes[i].kind = "probe"
           /\ ThePlan \in Seq(Operation) /\ \A i \in 1..Len(ThePlan) : ThePlan[i].kind # "probe"
<1> DEFINE P == {op \in Operation : op.kind = "probe"}
           N == {op \in Operation : op.kind # "probe"}
<1>1. setup.erase_all \in BOOLEAN
  BY FirehoseConstants DEF FirehoseConstants, Setup
<1>2. Probes \in Seq(P) /\ ThePlan \in Seq(N)
  BY <1>1, FirehoseConstants DEF FirehoseConstants, ThePlan
<1>3. P \subseteq Operation /\ N \subseteq Operation
  OBVIOUS
<1>4. (\A op \in P : op.kind = "probe") /\ (\A op \in N : op.kind # "probe")
  OBVIOUS
<1> HIDE DEF P, N
<1>5. Probes \in Seq(Operation) /\ ThePlan \in Seq(Operation)
  BY <1>2, <1>3, SeqMonotonic
<1>6. (\A i \in 1..Len(Probes) : Probes[i] \in P) /\ (\A i \in 1..Len(ThePlan) : ThePlan[i] \in N)
  BY <1>2, ElementOfSeq
<1> QED
  BY <1>4, <1>5, <1>6

\* The elements of the pass.
LEMMA InRange ==
    /\ \A op \in Range(EraseAllOps) : \E k \in 1..Len(EraseAllOps) : op = EraseAllOps[k]
    /\ \A k \in 1..Len(EraseAllOps) : EraseAllOps[k] \in Range(EraseAllOps)
<1>1. EraseAllOps \in Seq({op \in Operation : op.kind = "erase"})
  BY FirehoseConstants DEF FirehoseConstants
<1>2. DOMAIN EraseAllOps = 1..Len(EraseAllOps)
  BY <1>1
<1> QED
  BY <1>2 DEF Range

\* The operations of the pass of --erase-all are erases.
LEMMA PassIsErases ==
    ASSUME NEW op \in Range(EraseAllOps)
    PROVE  op \in Operation /\ op.kind = "erase" /\ op.id \notin ProbeIds
<1> DEFINE S == {o \in Operation : o.kind = "erase"}
<1>1. EraseAllOps \in Seq(S)
  BY FirehoseConstants DEF FirehoseConstants
<1>2. \A o \in S : o \in Operation /\ o.kind = "erase" /\ o.id \notin ProbeIds
  BY DEF Operation
<1> HIDE DEF S
<1>3. \A i \in DOMAIN EraseAllOps : EraseAllOps[i] \in S
  BY <1>1
<1> QED
  BY <1>2, <1>3 DEF Range

\* The host goes on with the next operation, after one that was done.
LEMMA Succeeding ==
    ASSUME IInv, Prompt, OpSucceeds, hpc \in Working, ~reading, Current.id \in DoneIds,
           up => Quiet, UNCHANGED << reading, wireVars, devVars >>
    PROVE  IInv'
<1> USE DEF wireVars, linkVars, devVars
<1>1. Typed'
  BY CurrentIsOperation, PlanIsTyped DEF IInv, Typed, Protocol, OpSucceeds, Current
<1>2. hpc' = "next" /\ Listening'
  BY DEF OpSucceeds, Listening, Working
<1>3. InOrder'
  BY DEF IInv, Protocol, InOrder
<1>4. (up => Phase)'
  BY <1>2 DEF Phase, Quiet
<1>5. AcksAreTrue'
  BY <1>2 DEF AcksAreTrue, Working
<1>6. SuccessIsReal'
  BY DEF IInv, Protocol, SuccessIsReal, OpSucceeds, DoneIds
<1> QED
  BY <1>1, <1>2, <1>3, <1>4, <1>5, <1>6 DEF IInv, Protocol

\* The host goes on after a probe that failed, or ends.
LEMMA Failing ==
    ASSUME IInv, Prompt, OpFails, hpc \in Working, ~reading,
           up => Quiet, UNCHANGED << reading, wireVars, devVars >>
    PROVE  IInv'
<1> USE DEF wireVars, linkVars, devVars
<1>1. Typed'
  BY CurrentIsOperation DEF IInv, Typed, Protocol, OpFails, Current
<1>2. hpc' \in {"next", "end"} /\ Listening'
  BY DEF OpFails, Listening, Working
<1>3. InOrder'
  BY DEF IInv, Protocol, InOrder
<1>4. (up => Phase)'
  BY <1>2 DEF Phase, Quiet
<1>5. AcksAreTrue'
  BY <1>2 DEF AcksAreTrue, Working
<1>6. SuccessIsReal'
  BY DEF IInv, Protocol, SuccessIsReal, OpFails, DoneIds
<1> QED
  BY <1>1, <1>2, <1>3, <1>4, <1>5, <1>6 DEF IInv, Protocol

\* The host ends.
LEMMA Ending ==
    ASSUME IInv, Prompt, hpc' = "end", ~reading,
           UNCHANGED << reading, todo, succeeded, wireVars, devVars >>
    PROVE  IInv'
<1> USE DEF wireVars, linkVars, devVars
<1>1. Typed'
  BY DEF IInv, Typed
<1>2. Listening' /\ InOrder' /\ (up => Phase)' /\ AcksAreTrue' /\ SuccessIsReal'
  BY DEF IInv, Protocol, Listening, InOrder, Phase, AcksAreTrue, Working, SuccessIsReal, DoneIds
<1> QED
  BY <1>1, <1>2 DEF IInv, Protocol

\* A command is sent when nothing is outstanding.
LEMMA Sending ==
    ASSUME IInv, Prompt, NEW op, NEW pc, Send(op, pc), up => Quiet,
           UNCHANGED << todo, succeeded, devVars, linkVars, rx >>,
           \/ pc = "reply" /\ todo # << >> /\ op = Head(todo)
           \/ pc = "bootable" /\ op = Bootable
           \/ pc = "reset" /\ op = Reset
    PROVE  IInv'
<1> USE DEF linkVars, devVars
<1>1. hpc' = pc /\ reading' = TRUE /\ resp' = "none" /\ tx' = (IF up THEN Append(tx, Cmd(op)) ELSE tx)
  BY DEF Send, Await, Put
<1>2. Typed'
  <2>1. op.size \in Nat
    BY HeadTailProperties DEF IInv, Typed, Operation, Bootable, Reset, Op
  <2>2. Cmd(op).type = "cmd" /\ Cmd(op).op = op
    BY DEF Cmd
  <2>3. up => /\ IsSeq(tx') /\ Len(tx') = Len(tx) + 1 /\ Len(tx) \in Nat
              /\ \A i \in 1..Len(tx) : tx'[i] = tx[i]
              /\ tx'[Len(tx) + 1] = Cmd(op)
    <3>1. IsSeq(tx)
      BY DEF IInv, Typed
    <3>2. up => tx' = Append(tx, Cmd(op))
      BY <1>1
    <3>3. /\ IsSeq(Append(tx, Cmd(op))) /\ Len(Append(tx, Cmd(op))) = Len(tx) + 1 /\ Len(tx) \in Nat
          /\ \A i \in 1..Len(tx) : Append(tx, Cmd(op))[i] = tx[i]
          /\ Append(tx, Cmd(op))[Len(tx) + 1] = Cmd(op)
      BY <3>1, Extended
    <3> QED
      BY <3>2, <3>3
  <2>4. up => \A i \in 1..Len(tx') : tx'[i].type = "cmd" => tx'[i].op.size \in Nat
    BY <2>1, <2>2, <2>3 DEF IInv, Typed
  <2>5. CASE up
    BY <1>1, <2>3, <2>4, <2>5 DEF IInv, Typed
  <2>6. CASE ~up
    BY <1>1, <2>6 DEF IInv, Typed
  <2> QED
    BY <2>5, <2>6
<1>3. Listening'
  BY <1>1 DEF Listening, Working
<1>4. up => tx' = << Cmd(op) >>
  BY <1>1 DEF Quiet
<1>5. InOrder'
  <2>1. CASE up
    <3>1. Len(tx') = 1 /\ dev' # "rawin"
      BY <1>4, <2>1, Short DEF Quiet
    <3> QED
      BY <3>1 DEF IInv, Protocol, InOrder
  <2>2. CASE ~up
    BY <1>1, <2>2 DEF IInv, Protocol, InOrder
  <2> QED
    BY <2>1, <2>2
<1>6. up => Sent(op)'
  BY <1>4 DEF Sent, Quiet
<1>7. (up => Phase)'
  BY <1>1, <1>6 DEF Phase, Replied, Current, Sent, Bootable, Reset
<1>8. "ACK" \notin Types(rx)
  BY Short DEF IInv, Typed, Quiet
<1>9. AcksAreTrue'
  BY <1>1, <1>8 DEF AcksAreTrue, Acked
<1> QED
  BY <1>2, <1>3, <1>5, <1>7, <1>9 DEF IInv, Protocol, SuccessIsReal, DoneIds

\* The line is quiet, or cut: the host stops listening.
LEMMA ListeningEnds ==
    ASSUME IInv, Prompt, ReadTimesOut \/ ReadFails
    PROVE  IInv'
<1> USE DEF wireVars, linkVars, devVars, opVars
<1>1. /\ reading /\ reading' = FALSE
      /\ resp' = resp \/ (resp' # "ACK" /\ resp = "none")
      /\ UNCHANGED << hpc, todo, succeeded, wireVars, devVars >>
  BY DEF ReadTimesOut, ReadFails
<1>2. up => rx = << >> /\ (dev # "boot" => tx = << >>)
  BY Silence DEF ReadTimesOut, ReadFails
<1>3. resp' = "ACK" => resp = "ACK"
  BY <1>1
<1>4. Typed' /\ Listening' /\ InOrder'
  BY <1>1 DEF IInv, Typed, Protocol, Listening, InOrder
<1>5. AcksAreTrue'
  BY <1>1, <1>3 DEF IInv, Protocol, AcksAreTrue, Acked, Current, DoneIds
<1>6. ASSUME up PROVE Phase'
  <2>1. rx = << >> /\ Types(rx) = {} /\ (dev # "boot" => tx = << >>)
    BY <1>2, <1>6, Short
  <2>2. dev \notin {"boot", "rawin"} => Quiet'
    BY <1>1, <2>1 DEF Quiet
  <2>3. Phase
    BY <1>6 DEF IInv, Protocol
  <2>4. hpc \in {"configured", "reconfigured"} => Phase'
    BY <1>1, <1>3, <2>2, <2>3 DEF Phase, Configuring
  <2>5. ASSUME hpc = "reply" PROVE Phase'
    <3>1. Replied(Current)
      BY <1>1, <2>3, <2>5 DEF Phase
    <3>2. CASE Served
      <4>1. Quiet' /\ (resp' = "ACK" => Current.kind # "program")
        BY <1>1, <1>3, <2>1, <2>2, <3>1, <3>2 DEF Replied, Served, Sent, Expecting
      <4>2. Current \in Operation
        BY <2>5, CurrentIsOperation DEF IInv, Protocol, Working
      <4>3. Answered(Current)'
        BY <1>1, <2>1, <4>1, <4>2 DEF Answered, Operation, Served, NoRaw, Quiet, Current
      <4> QED
        BY <1>1, <2>5, <4>3 DEF Phase
    <3>3. ~Sent(Current) /\ ~(Expecting(Current) /\ RawLast(rx))
      BY <2>1 DEF Sent, RawLast
    <3> QED
      BY <3>1, <3>2, <3>3 DEF Replied
  <2>6. ASSUME hpc = "raw_sent" PROVE Phase'
    <3>1. tx = << >> /\ dev \notin {"boot", "rawin"}
      BY <2>1, <2>3, <2>6 DEF Phase, Outstanding
    <3>2. Outstanding(Current, 0)'
      BY <1>1, <2>3, <2>6, <3>1 DEF Phase, Outstanding, NoRaw, Current, Types
    <3> QED
      BY <1>1, <2>2, <2>6, <3>1, <3>2 DEF Phase
  <2>7. ASSUME hpc \in {"read_close", "read_abort", "bootable", "reset"} PROVE Phase'
    <3>1. Served
      BY <2>1, <2>3, <2>7 DEF Phase, Sent
    <3> QED
      BY <1>1, <2>1, <2>2, <2>7, <3>1 DEF Phase, Served, NoRaw
  <2> QED
    BY <1>1, <2>4, <2>5, <2>6, <2>7 DEF IInv, Protocol, Listening
<1> QED
  BY <1>1, <1>4, <1>5, <1>6 DEF IInv, Protocol, SuccessIsReal, DoneIds

\* What one read takes from the stream.
LEMMA Taken ==
    ASSUME Typed, ReadUnits
    PROVE  \E n \in 1..Len(rx) :
              /\ rx' = SubSeq(rx, n + 1, Len(rx))
              /\ \/ /\ \E i \in 1..n : rx[i].type = "RAW"
                    /\ reading' = FALSE /\ resp' = "ACK"
                 \/ /\ \A i \in 1..n : rx[i].type # "RAW"
                    /\ reading' = TRUE
                    /\ \/ resp' = resp
                       \/ \E i \in 1..n : rx[i].type \in {"ACK", "NAK"} /\ resp' = rx[i].type
<1>1. rx # << >> /\ reading
  BY DEF ReadUnits
<1>2. ReadSizes \subseteq 1..Len(rx)
  BY <1>1, Rest DEF Typed, ReadSizes
<1>3. PICK n \in ReadSizes :
        LET raws == {i \in 1..n : rx[i].type = "RAW"}
            answers == {i \in 1..n : IsResponse(rx[i])}
        IN  /\ rx' = SubSeq(rx, n + 1, Len(rx))
            /\ \/ (\E i \in raws : reading' = FALSE /\ resp' = "ACK")
               \/ /\ raws = {} /\ reading' = reading
                  /\ \/ resp' = resp
                     \/ \E i \in answers : resp' = rx[i].type
  BY DEF ReadUnits
<1> QED
  BY <1>1, <1>2, <1>3 DEF IsResponse

\* What the host hears, and what is left of the stream; a rawmode response
\* comes only with the reply to a command, and no ACK comes from nowhere.
LEMMA Heard ==
    ASSUME IInv, Prompt, ReadUnits
    PROVE  /\ reading /\ up /\ UNCHANGED << hpc, left, opVars, devVars, linkVars, tx >>
           /\ Len(rx) \in Nat \ {0} /\ IsSeq(rx) /\ Phase
           /\ NoRaw => /\ reading' = TRUE /\ NoRaw'
                       /\ \/ resp' = resp
                          \/ resp' \in Types(rx) /\ resp' \in {"ACK", "NAK"}
           /\ ~NoRaw => hpc = "reply" /\ Replied(Current)
           /\ hpc \in Working /\ Acked' => Acked
           /\ \E n \in 1..Len(rx) :
                 /\ \/ /\ \E i \in 1..n : rx[i].type = "RAW"
                       /\ reading' = FALSE /\ resp' = "ACK"
                    \/ /\ \A i \in 1..n : rx[i].type # "RAW"
                       /\ reading' = TRUE
                       /\ \/ resp' = resp
                          \/ \E i \in 1..n : rx[i].type \in {"ACK", "NAK"} /\ resp' = rx[i].type
                 /\ IsSeq(rx') /\ Types(rx') \subseteq Types(rx) /\ Len(rx') = Len(rx) - n
                 /\ \A i \in 1..Len(rx) - n : rx'[i] = rx[n + i]
                 /\ \A i \in 1..n : rx[i].type \in Types(rx)
<1> USE DEF linkVars, devVars, opVars
<1>1. rx # << >> /\ reading /\ UNCHANGED << hpc, left, opVars, devVars, linkVars, tx >>
  BY DEF ReadUnits
<1>2. PICK n \in 1..Len(rx) :
        /\ rx' = SubSeq(rx, n + 1, Len(rx))
        /\ \/ /\ \E i \in 1..n : rx[i].type = "RAW"
              /\ reading' = FALSE /\ resp' = "ACK"
           \/ /\ \A i \in 1..n : rx[i].type # "RAW"
              /\ reading' = TRUE
              /\ \/ resp' = resp
                 \/ \E i \in 1..n : rx[i].type \in {"ACK", "NAK"} /\ resp' = rx[i].type
  BY Taken DEF IInv
<1>3. Len(rx) \in Nat \ {0} /\ IsSeq(rx) /\ up
  BY <1>1, Rest DEF IInv, Typed
<1>4. /\ IsSeq(rx') /\ Types(rx') \subseteq Types(rx)
      /\ Len(rx') = Len(rx) - n
      /\ \A i \in 1..Len(rx) - n : rx'[i] = rx[n + i]
  <2>1. n + 1 \in Nat \ {0} /\ Len(rx) <= Len(rx) /\ Len(rx) - (n + 1) + 1 = Len(rx) - n
    BY <1>3
  <2>2. /\ IsSeq(rx') /\ Types(rx') \subseteq Types(rx)
        /\ Len(rx') = IF n + 1 <= Len(rx) THEN Len(rx) - (n + 1) + 1 ELSE 0
        /\ \A i \in 1..(Len(rx) - (n + 1) + 1) : rx'[i] = rx[(n + 1) + i - 1]
    <3>1. rx' = SubSeq(rx, n + 1, Len(rx)) /\ Len(rx) \in Nat
      BY <1>2, <1>3
    <3> QED
      BY <1>3, <2>1, <3>1, PartOf
  <2>3. Len(rx') = Len(rx) - n
    BY <1>3, <2>2
  <2>4. ASSUME NEW i \in 1..Len(rx) - n PROVE rx'[i] = rx[n + i]
    <3>1. i \in 1..(Len(rx) - (n + 1) + 1) /\ (n + 1) + i - 1 = n + i
      BY <1>3
    <3> QED
      BY <2>2, <3>1
  <2> QED
    BY <2>2, <2>3, <2>4
<1>5. \A i \in 1..n : rx[i].type \in Types(rx)
  BY <1>3 DEF Types
<1>7. Phase
  BY <1>3 DEF IInv, Protocol
<1>8. ASSUME NoRaw
      PROVE  /\ reading' = TRUE /\ NoRaw'
             /\ \/ resp' = resp
                \/ resp' \in Types(rx) /\ resp' \in {"ACK", "NAK"}
  BY <1>2, <1>4, <1>5, <1>8 DEF NoRaw
<1>9. ASSUME ~NoRaw PROVE hpc = "reply" /\ Replied(Current)
  <2>1. ~(Types(rx) \subseteq {"log", "ACK"}) /\ ~(Types(rx) \subseteq {"log"})
    BY <1>9 DEF NoRaw
  <2>2. hpc \notin {"configured", "reconfigured"}
    BY <1>7, <2>1 DEF Phase, Configuring
  <2>3. hpc \notin {"raw_sent", "read_close", "read_abort", "bootable", "reset"}
    BY <1>7, <1>9, <2>1 DEF Phase, Outstanding, Sent
  <2>4. hpc = "reply"
    BY <1>1, <2>2, <2>3 DEF IInv, Protocol, Listening
  <2> QED
    BY <1>1, <1>7, <2>4 DEF Phase
<1>10. ASSUME hpc \in Working, Acked' PROVE Acked
  <2>1. CASE "ACK" \in Types(rx')
    BY <1>4, <2>1 DEF Acked
  <2>2. CASE "ACK" \notin Types(rx')
    <3>1. /\ resp' = "ACK"
          /\ \/ hpc \in {"raw_sent", "read_close"}
             \/ hpc = "reply" /\ Current.kind \in {"erase", "patch"}
      BY <1>1, <1>10, <2>2 DEF Acked, Current
    <3>2. NoRaw
      BY <1>9, <3>1 DEF Replied, Sent, Expecting, NoRaw
    <3> QED
      BY <1>8, <3>1, <3>2 DEF Acked
  <2> QED
    BY <2>1, <2>2
<1>11. /\ reading /\ up /\ UNCHANGED << hpc, left, opVars, devVars, linkVars, tx >>
       /\ Len(rx) \in Nat \ {0} /\ IsSeq(rx) /\ Phase
  BY <1>1, <1>3, <1>7
<1> QED
  BY <1>2, <1>4, <1>5, <1>8, <1>9, <1>10, <1>11

\* The host takes what has arrived.
LEMMA Reading == ASSUME IInv, Prompt, ReadUnits PROVE IInv'
<1> USE DEF linkVars, devVars, opVars
<1>1. UNCHANGED << hpc, left, todo, succeeded, devVars, linkVars, tx >> /\ reading /\ rx # << >>
  BY Heard DEF ReadUnits
<1>3. Len(rx) \in Nat \ {0} /\ IsSeq(rx) /\ up
  BY Heard
<1>2. PICK n \in 1..Len(rx) :
        /\ \/ /\ \E i \in 1..n : rx[i].type = "RAW"
              /\ reading' = FALSE /\ resp' = "ACK"
           \/ /\ \A i \in 1..n : rx[i].type # "RAW"
              /\ reading' = TRUE
              /\ \/ resp' = resp
                 \/ \E i \in 1..n : rx[i].type \in {"ACK", "NAK"} /\ resp' = rx[i].type
        /\ IsSeq(rx') /\ Types(rx') \subseteq Types(rx) /\ Len(rx') = Len(rx) - n
        /\ \A i \in 1..Len(rx) - n : rx'[i] = rx[n + i]
        /\ \A i \in 1..n : rx[i].type \in Types(rx)
  BY Heard
<1>4. /\ IsSeq(rx') /\ Types(rx') \subseteq Types(rx)
      /\ Len(rx') = Len(rx) - n
      /\ \A i \in 1..Len(rx) - n : rx'[i] = rx[n + i]
  BY <1>2
<1>5. \A i \in 1..n : rx[i].type \in Types(rx)
  BY <1>2
<1>6. Typed' /\ Listening' /\ InOrder'
  BY <1>1, <1>2, <1>3, <1>4 DEF IInv, Typed, Protocol, Listening, InOrder
<1>7. Phase
  BY Heard
<1>8. ASSUME NoRaw
      PROVE  /\ reading' = TRUE /\ NoRaw'
             /\ \/ resp' = resp
                \/ resp' \in Types(rx) /\ resp' \in {"ACK", "NAK"}
  BY <1>8, Heard
<1>9. ASSUME ~NoRaw PROVE hpc = "reply" /\ Replied(Current)
  BY <1>9, Heard
<1>10. AcksAreTrue'
  BY <1>1, Heard DEF IInv, Protocol, AcksAreTrue, Current, DoneIds
<1>11. ASSUME NoRaw PROVE Phase'
  <2>1. hpc \in {"configured", "reconfigured"} => Phase'
    BY <1>1, <1>4, <1>7, <1>8, <1>11 DEF Phase, Configuring
  <2>2. ASSUME hpc = "reply" PROVE Phase'
    <3>1. Replied(Current)
      BY <1>1, <1>7, <2>2 DEF Phase
    <3>2. ~RawLast(rx)
      BY <1>3, <1>11 DEF RawLast, NoRaw, Types
    <3>3. OneRaw(rx')
      BY <1>8, <1>11 DEF OneRaw, NoRaw, Types
    <3>4. CASE Sent(Current) /\ resp = "none"
      <4>1. Types(rx') \subseteq {"log"} /\ resp' = "none"
        BY <1>4, <1>8, <1>11, <3>4 DEF Sent
      <4> QED
        BY <1>1, <1>8, <1>11, <2>2, <3>4, <4>1 DEF Phase, Replied, Sent, Current
    <3>5. CASE Current.kind = "program" /\ Served /\ Types(rx) \subseteq {"log", "NAK"} /\ resp # "ACK"
      <4>1. Types(rx') \subseteq {"log", "NAK"} /\ resp' # "ACK"
        BY <1>4, <1>8, <1>11, <3>5
      <4> QED
        BY <1>1, <1>8, <1>11, <2>2, <3>5, <4>1 DEF Phase, Replied, Served, Current
    <3>6. CASE Current.kind \in {"read", "probe", "erase", "patch"} /\ Served
      BY <1>1, <1>8, <1>11, <2>2, <3>3, <3>6 DEF Phase, Replied, Served, Current
    <3> QED
      BY <3>1, <3>2, <3>4, <3>5, <3>6 DEF Replied
  <2>3. hpc = "raw_sent" => Phase'
    BY <1>1, <1>7, <1>8, <1>11 DEF Phase, Outstanding, Current
  <2>4. hpc \in {"read_close", "read_abort"} => Phase'
    BY <1>1, <1>7, <1>8, <1>11 DEF Phase, Served
  <2>5. hpc \in {"bootable", "reset"} => Phase'
    BY <1>1, <1>4, <1>7, <1>8, <1>11 DEF Phase, Served, Sent
  <2> QED
    BY <1>1, <2>1, <2>2, <2>3, <2>4, <2>5 DEF IInv, Protocol, Listening
<1>12. ASSUME ~NoRaw PROVE Phase'
  <2>1. \/ Expecting(Current) /\ RawLast(rx) /\ resp = "none"
        \/ Current.kind \in {"read", "probe"} /\ Served /\ OneRaw(rx)
    BY <1>9, <1>12 DEF Replied, Sent, NoRaw
  <2>2. IF reading' THEN Replied(Current)' ELSE Answered(Current)'
    <3>1. CASE Expecting(Current) /\ RawLast(rx) /\ resp = "none"
      <4>1. ASSUME NEW i \in 1..n, rx[i].type = "RAW", reading' = FALSE, resp' = "ACK"
            PROVE  Answered(Current)'
        <5>1. n = Len(rx)
          BY <1>3, <3>1, <4>1 DEF RawLast
        <5>2. rx' = << >>
          BY <1>3, <1>4, <5>1, EmptySeq DEF IsSeq
        <5> QED
          BY <1>1, <3>1, <4>1, <5>2 DEF Answered, Expecting, Current
      <4>2. ASSUME \A i \in 1..n : rx[i].type # "RAW", reading' = TRUE,
                   \/ resp' = resp
                   \/ \E i \in 1..n : rx[i].type \in {"ACK", "NAK"} /\ resp' = rx[i].type
            PROVE  Replied(Current)'
        <5>1. n < Len(rx)
          BY <1>3, <3>1, <4>2 DEF RawLast
        <5>2. Types(rx') \subseteq {"log", "RAW"} /\ resp' = "none"
          BY <1>4, <1>5, <3>1, <4>2 DEF RawLast
        <5>3. rx' # << >> /\ Len(rx') = Len(rx) - n
          BY <1>3, <1>4, <5>1, EmptySeq
        <5>4. \A i \in 1..Len(rx') : rx'[i].type = "RAW" <=> i = Len(rx')
          BY <1>3, <1>4, <3>1, <5>3 DEF RawLast
        <5> QED
          BY <1>1, <3>1, <5>2, <5>3, <5>4 DEF Replied, Expecting, RawLast, Current
      <4> QED
        BY <1>2, <4>1, <4>2
    <3>2. CASE Current.kind \in {"read", "probe"} /\ Served /\ OneRaw(rx)
      <4>1. ASSUME NEW i \in 1..n, rx[i].type = "RAW", reading' = FALSE, resp' = "ACK"
            PROVE  Answered(Current)'
        <5>1. ASSUME NEW j \in 1..Len(rx) - n PROVE rx'[j].type # "RAW"
          <6>1. n + j \in 1..Len(rx) /\ i \in 1..Len(rx) /\ n + j # i /\ rx'[j] = rx[n + j]
            BY <1>3, <1>4
          <6> QED
            BY <3>2, <4>1, <6>1 DEF OneRaw
        <5>2. NoRaw'
          BY <1>4, <5>1 DEF NoRaw, Types
        <5> QED
          BY <1>1, <3>2, <4>1, <5>2 DEF Answered, Served, Current
      <4>2. OneRaw(rx')
        <5>1. ASSUME NEW i \in 1..Len(rx) - n, NEW j \in 1..Len(rx) - n,
                     rx'[i].type = "RAW", rx'[j].type = "RAW"
              PROVE  i = j
          <6>1. n + i \in 1..Len(rx) /\ n + j \in 1..Len(rx) /\ rx'[i] = rx[n + i] /\ rx'[j] = rx[n + j]
            BY <1>3, <1>4
          <6>2. n + i = n + j
            BY <3>2, <5>1, <6>1 DEF OneRaw
          <6> QED
            BY <1>3, <6>2
        <5> QED
          BY <1>4, <5>1 DEF OneRaw
      <4>3. reading' = TRUE => Replied(Current)'
        BY <1>1, <3>2, <4>2 DEF Replied, Served, Current
      <4> QED
        BY <1>2, <4>1, <4>3
    <3> QED
      BY <2>1, <3>1, <3>2
  <2> QED
    BY <1>1, <1>9, <1>12, <2>2 DEF Phase
<1> QED
  BY <1>1, <1>6, <1>10, <1>11, <1>12 DEF IInv, Protocol, SuccessIsReal, DoneIds

\* A configure is sent while none but configures are waiting.
LEMMA SendingConfigure ==
    ASSUME IInv, Prompt, NEW pc \in {"configured", "reconfigured"}, Send(Configure, pc),
           up => Configuring, up /\ pc = "reconfigured" => dev # "boot",
           UNCHANGED << todo, succeeded, devVars, linkVars, rx >>
    PROVE  IInv'
<1> USE DEF linkVars, devVars
<1>1. hpc' = pc /\ reading' = TRUE /\ resp' = "none" /\ tx' = (IF up THEN Append(tx, Cmd(Configure)) ELSE tx)
  BY DEF Send, Await, Put
<1>2. Cmd(Configure).type = "cmd" /\ Cmd(Configure).op.kind = "configure" /\ Cmd(Configure).op.size = 0
  BY DEF Cmd, Configure, Op
<1>a. up => /\ IsSeq(tx') /\ Len(tx') = Len(tx) + 1 /\ Len(tx) \in Nat
            /\ \A i \in 1..Len(tx) : tx'[i] = tx[i]
            /\ tx'[Len(tx) + 1] = Cmd(Configure)
  <2>1. IsSeq(tx)
    BY DEF IInv, Typed
  <2>2. /\ IsSeq(Append(tx, Cmd(Configure))) /\ Len(Append(tx, Cmd(Configure))) = Len(tx) + 1
        /\ Len(tx) \in Nat /\ \A i \in 1..Len(tx) : Append(tx, Cmd(Configure))[i] = tx[i]
        /\ Append(tx, Cmd(Configure))[Len(tx) + 1] = Cmd(Configure)
    BY <2>1, Extended
  <2> QED
    BY <1>1, <2>2
<1>b. up => \A i \in 1..Len(tx') : tx'[i].type = "cmd" => tx'[i].op.size \in Nat
  BY <1>2, <1>a DEF IInv, Typed
<1>3. Typed'
  <2>1. CASE up
    BY <1>1, <1>a, <1>b, <2>1 DEF IInv, Typed
  <2>2. CASE ~up
    BY <1>1, <2>2 DEF IInv, Typed
  <2> QED
    BY <2>1, <2>2
<1>4. Listening'
  BY <1>1 DEF Listening, Working
<1>5. up => Configuring'
  BY <1>a DEF Configuring
<1>6. InOrder'
  <2>1. CASE up
    BY <1>1, <1>2, <1>5, <2>1 DEF IInv, Protocol, InOrder, Configuring
  <2>2. CASE ~up
    BY <1>1, <2>2 DEF IInv, Protocol, InOrder
  <2> QED
    BY <2>1, <2>2
<1>7. (up => Phase)'
  BY <1>1, <1>5 DEF Phase
<1>8. AcksAreTrue'
  BY <1>1 DEF AcksAreTrue, Working
<1> QED
  BY <1>3, <1>4, <1>6, <1>7, <1>8 DEF IInv, Protocol, SuccessIsReal, DoneIds

\* The host leaves the configuration, or tries again.
LEMMA Resuming ==
    ASSUME IInv, Prompt, ~reading, UNCHANGED << reading, todo, succeeded, wireVars, devVars >>,
           \/ hpc' = "next" /\ (up => Quiet)
           \/ hpc' = "configure" /\ (up => Configuring)
    PROVE  IInv'
<1> USE DEF wireVars, linkVars, devVars
<1>1. Typed' /\ Listening' /\ InOrder' /\ AcksAreTrue' /\ SuccessIsReal'
  BY DEF IInv, Typed, Protocol, Listening, InOrder, AcksAreTrue, Working, SuccessIsReal, DoneIds
<1>2. (up => Phase)'
  BY DEF Phase, Quiet, Configuring
<1> QED
  BY <1>1, <1>2 DEF IInv, Protocol

\* The host configures the programmer.
LEMMA Configures ==
    ASSUME IInv, Prompt, SendConfigure \/ Configured \/ Reconfigured
    PROVE  IInv'
<1> USE DEF wireVars, linkVars, opVars, readVars
<1>1. up => Phase
  BY DEF IInv, Protocol
<1>2. CASE SendConfigure
  BY <1>1, <1>2, SendingConfigure DEF SendConfigure, Phase
<1>3. CASE Configured
  <2>1. hpc = "configured" /\ ~reading /\ UNCHANGED << devVars, linkVars, rx >>
    BY <1>3 DEF Configured
  <2>2. CASE resp = "ACK"
    <3>1. up => Quiet /\ Configuring /\ dev # "boot"
      BY <1>1, <2>1, <2>2 DEF Phase
    <3>2. CASE setup.renegotiates
      <4>1. Send(Configure, "reconfigured") /\ UNCHANGED << todo, succeeded >>
        BY <1>3, <2>2, <3>2 DEF Configured
      <4> QED
        BY <2>1, <3>1, <4>1, SendingConfigure
    <3>3. CASE ~setup.renegotiates
      <4>1. hpc' = "next" /\ UNCHANGED << reading, todo, succeeded, tx >>
        BY <1>3, <2>2, <3>3 DEF Configured
      <4> QED
        BY <2>1, <3>1, <4>1, Resuming
    <3> QED
      BY <3>2, <3>3
  <2>3. CASE resp = "ETIMEDOUT" /\ tries < MaxConfigure
    <3>1. hpc' \in {"configure", "end"} /\ UNCHANGED << reading, todo, succeeded, tx >>
      BY <1>3, <2>3 DEF Configured, Return
    <3>2. up => Configuring
      BY <1>1, <2>1 DEF Phase
    <3> QED
      BY <2>1, <3>1, <3>2, Resuming, Ending
  <2>4. CASE resp # "ACK" /\ ~(resp = "ETIMEDOUT" /\ tries < MaxConfigure)
    <3>1. hpc' = "end" /\ UNCHANGED << reading, todo, succeeded, tx >>
      BY <1>3, <2>4 DEF Configured, Return
    <3> QED
      BY <2>1, <3>1, Ending
  <2> QED
    BY <2>2, <2>3, <2>4
<1>4. CASE Reconfigured
  <2>1. hpc = "reconfigured" /\ ~reading /\ UNCHANGED << reading, devVars, wireVars >>
    BY <1>4 DEF Reconfigured
  <2>2. CASE resp = "ACK"
    <3>1. hpc' = "next" /\ UNCHANGED << todo, succeeded >>
      BY <1>4, <2>2 DEF Reconfigured
    <3>2. up => Quiet
      BY <1>1, <2>1, <2>2 DEF Phase
    <3> QED
      BY <2>1, <3>1, <3>2, Resuming
  <2>3. CASE resp # "ACK"
    <3>1. hpc' = "end" /\ UNCHANGED << todo, succeeded >>
      BY <1>4, <2>3 DEF Reconfigured, Return
    <3> QED
      BY <2>1, <3>1, Ending
  <2> QED
    BY <2>2, <2>3
<1> QED
  BY <1>2, <1>3, <1>4

\* The next operation is sent, or what ends the session.
LEMMA Commands == ASSUME IInv, Prompt, SendNext \/ Bootabled PROVE IInv'
<1> USE DEF linkVars, opVars
<1>1. up => Quiet
  BY DEF IInv, Protocol, Phase, SendNext, Bootabled
<1>2. UNCHANGED << todo, succeeded, devVars, linkVars, rx >>
  BY DEF SendNext, Bootabled
<1>3. \/ todo # << >> /\ Send(Head(todo), "reply")
      \/ Send(Bootable, "bootable")
      \/ Send(Reset, "reset")
  BY DEF SendNext, Bootabled
<1> QED
  BY <1>1, <1>2, <1>3, Sending

\* The reply to the command of an operation is acted on.
LEMMA Replies == ASSUME IInv, Prompt, SimpleReply \/ RawReply PROVE IInv'
<1> USE DEF wireVars, linkVars, devVars, opVars, readVars
<1>1. hpc = "reply" /\ ~reading /\ UNCHANGED << reading, resp, wireVars, devVars >>
  BY DEF SimpleReply, RawReply
<1>2. up => Answered(Current)
  BY <1>1 DEF IInv, Protocol, Phase
<1>3. hpc \in Working /\ Current \in Operation /\ Typed /\ Protocol
  BY <1>1, CurrentIsOperation DEF IInv, Protocol, Working
<1>4. ASSUME resp # "ACK" PROVE IInv'
  <2>1. OpFails /\ (up => Quiet)
    BY <1>2, <1>4 DEF SimpleReply, RawReply, Answered
  <2> QED
    BY <1>1, <1>3, <2>1, Failing
<1>5. ASSUME resp = "ACK", SimpleReply PROVE IInv'
  <2>1. OpSucceeds /\ Current.kind \in {"erase", "patch"}
    BY <1>5 DEF SimpleReply
  <2>2. Current.id \in DoneIds
    BY <1>1, <1>3, <1>5, <2>1 DEF Protocol, AcksAreTrue, Acked
  <2>3. up => Quiet
    BY <1>2, <2>1 DEF Answered, Expecting
  <2> QED
    BY <1>1, <1>3, <2>1, <2>2, <2>3, Succeeding
<1>6. ASSUME resp = "ACK", RawReply PROVE IInv'
  <2>1. /\ Current.kind \in {"program", "read", "probe"}
        /\ hpc' = IF Current.kind = "program" THEN "raw_out" ELSE "raw_in"
        /\ left' = Current.size /\ UNCHANGED << todo, succeeded >>
    BY <1>6 DEF RawReply
  <2>2. Typed' /\ InOrder' /\ SuccessIsReal'
    BY <1>1, <1>3, <2>1 DEF Typed, Protocol, InOrder, SuccessIsReal, DoneIds
  <2>3. Listening'
    BY <1>1, <1>3, <2>1 DEF Listening, Protocol
  <2>4. AcksAreTrue'
    BY <1>1, <1>3, <2>1 DEF Protocol, AcksAreTrue, Acked, Current, DoneIds
  <2>5. ASSUME up, Current.kind = "program" PROVE Phase'
    <3>1. Expecting(Current) /\ rx = << >>
      BY <1>2, <1>6, <2>5 DEF Answered
    <3>2. left' \in Nat \ {0}
      BY <1>3, <2>1, <2>5 DEF Operation
    <3>3. Types(rx) = {} /\ Types(tx) = {} /\ Len(tx) = 0
      BY <3>1, Short, EmptySeq DEF Expecting
    <3>4. Outstanding(Current, left)'
      BY <1>1, <2>1, <3>1, <3>2, <3>3 DEF Outstanding, Expecting, NoRaw, Types, Current
    <3> QED
      BY <2>1, <2>5, <3>2, <3>4 DEF Phase, Current
  <2>6. ASSUME up, Current.kind # "program" PROVE Phase'
    <3>1. Served /\ NoRaw
      BY <1>2, <1>6, <2>1, <2>6 DEF Answered, Expecting
    <3> QED
      BY <1>1, <2>1, <2>6, <3>1 DEF Phase, Served, NoRaw
  <2> QED
    BY <1>1, <2>2, <2>3, <2>4, <2>5, <2>6 DEF IInv, Protocol
<1> QED
  BY <1>4, <1>5, <1>6

\* The pass of --erase-all goes on, or ends.
LEMMA PassReplies == ASSUME IInv, Prompt, EraseAllReply PROVE IInv'
<1> USE DEF wireVars, linkVars, devVars, opVars, readVars
<1>1. /\ hpc = "reply" /\ ~reading /\ UNCHANGED << reading, resp, wireVars, devVars >>
      /\ succeeded' = IF resp = "ACK" THEN succeeded \cup {Current.id} ELSE succeeded
      /\ \/ hpc' = "next" /\ todo' = Tail(todo)
         \/ hpc' = "end" /\ todo' = todo
  BY DEF EraseAllReply
<1>2. Current.kind = "erase"
  BY PassIsErases DEF EraseAllReply, InPass
<1>3. hpc \in Working /\ Typed /\ Protocol /\ Tail(todo) \in Seq(Operation)
  BY <1>1, CurrentIsOperation DEF IInv, Protocol, Working
<1>4. up => Quiet
  BY <1>1, <1>2 DEF IInv, Protocol, Phase, Answered, Expecting
<1>5. Typed'
  BY <1>1, <1>3 DEF Typed
<1>6. Listening' /\ InOrder'
  BY <1>1, <1>3 DEF Protocol, Listening, Working, InOrder
<1>7. (up => Phase)'
  BY <1>1, <1>4 DEF Phase, Quiet
<1>8. AcksAreTrue'
  BY <1>1 DEF AcksAreTrue, Working
<1>9. SuccessIsReal'
  <2>1. resp = "ACK" => Current.id \in DoneIds
    BY <1>1, <1>2, <1>3 DEF Protocol, AcksAreTrue, Acked
  <2>2. DoneIds' = DoneIds
    BY <1>1 DEF DoneIds
  <2> QED
    BY <1>1, <1>3, <2>1, <2>2 DEF Protocol, SuccessIsReal
<1> QED
  BY <1>5, <1>6, <1>7, <1>8, <1>9 DEF IInv, Protocol

\* A payload is written, and the final response awaited.
LEMMA Writes == ASSUME IInv, Prompt, SendChunk \/ ChunkWriteFails PROVE IInv'
<1> USE DEF linkVars, devVars, opVars, readVars, wireVars, rawVars
<1>1. Typed /\ Protocol /\ hpc = "raw_out" /\ todo # << >>
  BY DEF IInv, Protocol, Listening, Working, SendChunk, ChunkWriteFails
<1>2. CASE SendChunk
  <2>1. /\ up /\ left > 0 /\ left' = left - 1 /\ UNCHANGED << todo, succeeded, devVars, linkVars, rx >>
        /\ tx' = Append(tx, Data(Current.id, Current.size - left + 1))
        /\ \/ left = 1 /\ hpc' = "raw_sent" /\ reading' = TRUE /\ resp' = "none"
           \/ left # 1 /\ UNCHANGED << hpc, reading, resp >>
    BY <1>2 DEF SendChunk, Put, Await
  <2>2. left \in Nat \ {0} /\ Outstanding(Current, left)
    BY <1>1, <2>1 DEF Protocol, Phase
  <2>3. /\ IsSeq(tx') /\ Types(tx') = Types(tx) \cup {"data"}
        /\ Len(tx') = Len(tx) + 1 /\ Len(tx) \in Nat
    <3> DEFINE d == Data(Current.id, Current.size - left + 1)
    <3>1. d.type = "data"
      BY DEF Data
    <3>2. /\ IsSeq(Append(tx, d)) /\ Types(Append(tx, d)) = Types(tx) \cup {d.type}
          /\ Len(Append(tx, d)) = Len(tx) + 1 /\ Len(tx) \in Nat
      BY <1>1, Extended DEF Typed
    <3> QED
      BY <2>1, <3>1, <3>2
  <2>4. \A i \in 1..Len(tx') : tx'[i].type = "data"
    BY <2>2, <2>3 DEF Outstanding, Types
  <2>5. Typed'
    BY <1>1, <2>1, <2>3, <2>4 DEF Typed
  <2>6. Listening' /\ SuccessIsReal'
    BY <1>1, <2>1 DEF Protocol, Listening, Working, SuccessIsReal, DoneIds
  <2>7. InOrder'
    BY <1>1, <2>1, <2>2, <2>3, <2>4 DEF Protocol, InOrder, Outstanding
  <2>8. AcksAreTrue'
    BY <1>1, <2>1 DEF Protocol, AcksAreTrue, Acked, Working, Current, DoneIds
  <2>9. Outstanding(Current, left)'
    <3>1. ASSUME dev = "rawin" PROVE devop = Current /\ devleft = Len(tx') + left' /\ devleft > 0
      BY <2>1, <2>2, <2>3, <3>1 DEF Outstanding
    <3> QED
      BY <2>1, <2>2, <2>3, <3>1 DEF Outstanding, NoRaw, Current
  <2>10. Phase'
    <3>1. CASE left = 1
      <4>1. left' = 0 /\ hpc' = "raw_sent" /\ reading' = TRUE
        BY <2>1, <3>1
      <4>2. Outstanding(Current, 0)'
        BY <2>9, <4>1
      <4> QED
        BY <4>1, <4>2 DEF Phase
    <3>2. CASE left # 1
      <4>1. left' \in Nat \ {0} /\ hpc' = "raw_out"
        BY <1>1, <2>1, <2>2, <3>2
      <4> QED
        BY <2>9, <4>1 DEF Phase
    <3> QED
      BY <3>1, <3>2
  <2> QED
    BY <2>5, <2>6, <2>7, <2>8, <2>10 DEF IInv, Protocol
<1>3. CASE ChunkWriteFails
  <2>1. ~up /\ hpc' = "raw_sent" /\ reading' = TRUE /\ resp' = "none" /\ UNCHANGED << todo, succeeded, wireVars, devVars >>
    BY <1>3 DEF ChunkWriteFails, Await
  <2>2. Typed' /\ InOrder' /\ SuccessIsReal' /\ Listening'
    BY <1>1, <2>1 DEF Typed, Protocol, InOrder, SuccessIsReal, DoneIds, Listening, Working
  <2>3. AcksAreTrue'
    BY <1>1, <2>1 DEF Protocol, AcksAreTrue, Acked, Working, Current, DoneIds
  <2> QED
    BY <2>1, <2>2, <2>3 DEF IInv, Protocol
<1> QED
  BY <1>2, <1>3

\* A payload is read: what follows the rawmode response holds no other.
LEMMA Takes ==
    ASSUME IInv, Prompt, DrainRemainder \/ RawIn \/ RawInFails
    PROVE  IInv'
<1> USE DEF linkVars, devVars, opVars, readVars, wireVars, rawVars
<1>1. /\ hpc = "raw_in" /\ UNCHANGED << todo, succeeded, devVars, linkVars, tx >>
      /\ rx' = rx \/ (rx # << >> /\ rx' = Tail(rx))
      /\ \/ UNCHANGED << hpc, reading, resp >>
         \/ hpc' \in {"read_close", "read_abort"} /\ reading' = TRUE /\ resp' = "none"
  <2>1. ASSUME NEW s, TakeUnits(s)
        PROVE  \/ UNCHANGED << hpc, reading, resp >>
               \/ hpc' \in {"read_close", "read_abort"} /\ reading' = TRUE /\ resp' = "none"
    BY <2>1 DEF TakeUnits, Await
  <2> QED
    BY <2>1 DEF DrainRemainder, RawIn, RawInFails, Await
<1>2. Typed /\ Protocol
  BY DEF IInv
<1>3. IsSeq(rx') /\ Types(rx') \subseteq Types(rx) /\ (~up => rx' = << >>)
  BY <1>1, <1>2, Rest DEF Typed
<1>4. Typed' /\ InOrder' /\ SuccessIsReal' /\ Listening'
  <2>1. Typed'
    BY <1>1, <1>2, <1>3 DEF Typed
  <2>2. InOrder' /\ SuccessIsReal'
    BY <1>1, <1>2 DEF Protocol, InOrder, SuccessIsReal, DoneIds
  <2>3. Listening'
    BY <1>1, <1>2 DEF Protocol, Listening, Working
  <2> QED
    BY <2>1, <2>2, <2>3
<1>5. AcksAreTrue'
  BY <1>1, <1>2, <1>3 DEF Protocol, AcksAreTrue, Acked, Working, Current, DoneIds
<1>6. (up => Phase)'
  BY <1>1, <1>2, <1>3 DEF Protocol, Phase, Served, NoRaw
<1> QED
  BY <1>4, <1>5, <1>6 DEF IInv, Protocol

\* The final response to a payload is acted on.
LEMMA Closes == ASSUME IInv, Prompt, Programmed \/ ReadDone PROVE IInv'
<1> USE DEF linkVars, devVars, readVars, wireVars
<1>1. /\ hpc \in {"raw_sent", "read_close", "read_abort"} /\ ~reading
      /\ UNCHANGED << reading, wireVars, devVars >>
      /\ (resp = "ACK" /\ hpc # "read_abort" /\ OpSucceeds) \/ OpFails
  BY DEF Programmed, ReadDone
<1>2. (up => Quiet) /\ hpc \in Working
  BY <1>1 DEF IInv, Protocol, Phase, Working
<1>3. resp = "ACK" /\ hpc # "read_abort" => Current.id \in DoneIds
  BY <1>1, <1>2 DEF IInv, Protocol, AcksAreTrue, Acked
<1> QED
  BY <1>1, <1>2, <1>3, Succeeding, Failing

\* Every step of the host keeps the invariant.
LEMMA HostStep == ASSUME IInv, Prompt, HostNext PROVE IInv'
<1>1. ~OpenFails /\ ~FileReadFails
  BY DEF Prompt, OpenFails, FileReadFails
<1>2. ASSUME Finished PROVE IInv'
  BY <1>2, Ending DEF Finished, Return, readVars
<1> QED
  BY <1>1, <1>2, Reading, ListeningEnds, Configures, Commands, Replies, PassReplies, Writes, Takes, Closes
     DEF HostNext

-----------------------------------------------------------------------------
(* Steps of the programmer and of the link.                                *)

\* A rawmode response stays the only one.
LEMMA StaysOne ==
    ASSUME NEW s, NEW t, IsSeq(s), IsSeq(t), OneRaw(s), "RAW" \notin Types(t)
    PROVE  OneRaw(s \o t)
<1>1. /\ Len(s \o t) = Len(s) + Len(t) /\ Len(s) \in Nat /\ Len(t) \in Nat
      /\ \A i \in 1..Len(s) + Len(t) :
            (s \o t)[i] = IF i <= Len(s) THEN s[i] ELSE t[i - Len(s)]
  BY Joined
<1>2. ASSUME NEW i \in 1..Len(s) + Len(t), (s \o t)[i].type = "RAW" PROVE i \in 1..Len(s) /\ s[i].type = "RAW"
  <2>1. CASE i <= Len(s)
    BY <1>1, <1>2, <2>1
  <2>2. CASE ~(i <= Len(s))
    <3>1. i - Len(s) \in 1..Len(t) /\ (s \o t)[i] = t[i - Len(s)]
      BY <1>1, <2>2
    <3> QED
      BY <1>2, <3>1 DEF Types
  <2> QED
    BY <2>1, <2>2
<1> QED
  BY <1>1, <1>2 DEF OneRaw

\* What the programmer has done stays done.
LEMMA DoneGrows ==
    ASSUME IsSeq(done), NEW op, Completes(op)
    PROVE  /\ IsSeq(done') /\ DoneIds \subseteq DoneIds'
           /\ op.kind \notin {"configure", "setbootable", "power"} => op.id \in DoneIds'
<1>1. /\ IsSeq(Append(done, op.id)) /\ Len(Append(done, op.id)) = Len(done) + 1 /\ Len(done) \in Nat
      /\ \A i \in 1..Len(done) : Append(done, op.id)[i] = done[i]
      /\ Append(done, op.id)[Len(done) + 1] = op.id
  BY Extended
<1>2. CASE op.kind \in {"configure", "probe", "setbootable", "power"}
  BY <1>2 DEF DoneIds, Completes
<1>3. CASE op.kind \notin {"configure", "probe", "setbootable", "power"}
  <2>a. done' = Append(done, op.id) /\ probed' = probed
    BY <1>3 DEF Completes
  <2>1. \A i \in 1..Len(done) : done'[i] = done[i] /\ i \in 1..Len(done')
    BY <1>1, <2>a
  <2>2. Len(done) + 1 \in 1..Len(done') /\ done'[Len(done) + 1] = op.id
    BY <1>1, <2>a
  <2> QED
    BY <1>1, <2>a, <2>1, <2>2 DEF DoneIds
<1> QED
  BY <1>2, <1>3

\* The payload of an operation is data only.
LEMMA PayloadIsData ==
    ASSUME NEW op, op.size \in Nat
    PROVE  IsSeq(Payload(op)) /\ Types(Payload(op)) \subseteq {"data"} /\ Len(Payload(op)) = op.size
<1>1. Payload(op) = [n \in 1..op.size |-> Data(op.id, n)]
  BY DEF Payload
<1> DEFINE S == {Data(op.id, n) : n \in 1..op.size}
<1>2. Payload(op) \in [1..op.size -> S]
  BY <1>1
<1>3. Payload(op) \in Seq(S)
  BY <1>2, SeqDef
<1>4. Len(Payload(op)) = op.size
  <2>1. DOMAIN Payload(op) = 1..op.size /\ DOMAIN Payload(op) = 1..Len(Payload(op)) /\ Len(Payload(op)) \in Nat
    BY <1>1, <1>3, LenProperties
  <2> QED
    BY <2>1
<1>5. Types(Payload(op)) \subseteq {"data"}
  BY <1>1, <1>4 DEF Types, Data
<1> HIDE DEF S
<1> QED
  BY <1>3, <1>4, <1>5, OverRange

\* A rawmode response after log messages only.
LEMMA RawIsLast ==
    ASSUME NEW s, IsSeq(s), Types(s) \subseteq {"log"}
    PROVE  RawLast(s \o << Msg("RAW") >>)
<1> DEFINE t == << Msg("RAW") >>
<1>1. IsSeq(t) /\ Len(t) = 1 /\ Types(t) = {"RAW"} /\ t[1].type = "RAW"
  <2>1. Msg("RAW").type = "RAW"
    BY DEF Msg
  <2>2. IsSeq(t) /\ Types(t) = {Msg("RAW").type} /\ Len(t) = 1
    BY Short
  <2> QED
    BY <2>1, <2>2 DEF Types
<1> HIDE DEF t
<1>2. /\ Len(s \o t) = Len(s) + 1 /\ Len(s) \in Nat /\ Types(s \o t) = Types(s) \cup {"RAW"}
      /\ \A i \in 1..Len(s) + 1 : (s \o t)[i] = IF i <= Len(s) THEN s[i] ELSE t[i - Len(s)]
  BY <1>1, Joined
<1>3. s \o t # << >>
  BY <1>2, Short, EmptySeq
<1>4. ASSUME NEW i \in 1..Len(s) + 1 PROVE (s \o t)[i].type = "RAW" <=> i = Len(s) + 1
  <2>1. CASE i <= Len(s)
    <3>1. s[i].type \in Types(s) /\ (s \o t)[i] = s[i]
      BY <1>2, <2>1 DEF Types
    <3> QED
      BY <1>2, <2>1, <3>1
  <2>2. CASE i = Len(s) + 1
    <3>1. i - Len(s) = 1 /\ ~(i <= Len(s))
      BY <1>2, <2>2
    <3> QED
      BY <1>1, <1>2, <2>2, <3>1
  <2> QED
    BY <1>2, <2>1, <2>2
<1> QED
  BY <1>2, <1>3, <1>4 DEF RawLast, t

\* What the host finds when the programmer has said something.
LEMMA Emitted ==
    ASSUME Typed, NEW s, IsSeq(s), Emit(s)
    PROVE  /\ IsSeq(rx') /\ (~up => rx' = rx)
           /\ up => rx' = rx \o s /\ Types(rx') = Types(rx) \cup Types(s)
  BY Joined DEF Typed, Emit

\* One message is a sequence.
LEMMA Said ==
    ASSUME NEW type
    PROVE  IsSeq(<< Msg(type) >>) /\ Types(<< Msg(type) >>) = {type}
<1>1. Msg(type).type = type
  BY DEF Msg
<1> QED
  BY <1>1, Short

\* An answer with a payload, and one without, hold one rawmode response at most.
LEMMA Burst ==
    ASSUME NEW q, NEW last \in {"ACK", "NAK"}, IsSeq(q), Types(q) \subseteq {"data"}
    PROVE  /\ IsSeq(<< Msg(last) >>) /\ Types(<< Msg(last) >>) = {last} /\ OneRaw(<< Msg(last) >>)
           /\ LET s == << Msg("RAW") >> \o q \o << Msg(last) >>
              IN  IsSeq(s) /\ Types(s) \subseteq {"RAW", "data", last} /\ OneRaw(s)
<1>1. IsSeq(<< Msg("RAW") >>) /\ Types(<< Msg("RAW") >>) = {"RAW"} /\ OneRaw(<< Msg("RAW") >>)
  BY Said, Short DEF OneRaw
<1>2. IsSeq(<< Msg(last) >>) /\ Types(<< Msg(last) >>) = {last}
  BY Said
<1> DEFINE a == << Msg("RAW") >>
           b == << Msg(last) >>
<1> HIDE DEF a, b
<1>3. IsSeq(a \o q) /\ Types(a \o q) \subseteq {"RAW", "data"} /\ OneRaw(a \o q)
  BY <1>1, Joined, StaysOne DEF a
<1>4. IsSeq((a \o q) \o b) /\ Types((a \o q) \o b) \subseteq {"RAW", "data", last} /\ OneRaw((a \o q) \o b)
  BY <1>2, <1>3, Joined, StaysOne DEF b
<1>5. OneRaw(b)
  BY Short DEF OneRaw, b
<1> QED
  BY <1>2, <1>4, <1>5 DEF a, b

\* What the programmer says when it refuses a command.
LEMMA Refused ==
    ASSUME DevRefuses, Head(tx).op.size \in Nat
    PROVE  \E s : /\ IsSeq(s) /\ Emit(s) /\ OneRaw(s) /\ Types(s) \subseteq {"RAW", "data", "NAK"}
                  /\ Head(tx).op.kind \notin {"read", "probe"} => Types(s) \subseteq {"NAK"}
<1> DEFINE op == Head(tx).op
<1>1. \/ Emit(<< Msg("NAK") >>)
      \/ /\ op.kind \in {"read", "probe"}
         /\ \E k \in 0..op.size :
               Emit(<< Msg("RAW") >> \o SubSeq(Payload(op), 1, k) \o << Msg("NAK") >>)
  BY DEF DevRefuses
<1>2. CASE Emit(<< Msg("NAK") >>)
  <2> DEFINE s == << Msg("NAK") >>
  <2>1. IsSeq(<< >>) /\ Types(<< >>) \subseteq {"data"}
    BY Short
  <2>2. IsSeq(s) /\ OneRaw(s) /\ Types(s) = {"NAK"}
    BY <2>1, Burst
  <2>3. Emit(s)
    BY <1>2
  <2> HIDE DEF s
  <2> QED
    BY <2>2, <2>3
<1>3. ASSUME NEW k \in 0..op.size, op.kind \in {"read", "probe"},
             Emit(<< Msg("RAW") >> \o SubSeq(Payload(op), 1, k) \o << Msg("NAK") >>)
      PROVE  \E s : /\ IsSeq(s) /\ Emit(s) /\ OneRaw(s) /\ Types(s) \subseteq {"RAW", "data", "NAK"}
                    /\ op.kind \notin {"read", "probe"} => Types(s) \subseteq {"NAK"}
  <2> DEFINE q == SubSeq(Payload(op), 1, k)
             s == << Msg("RAW") >> \o q \o << Msg("NAK") >>
  <2>1. IsSeq(q) /\ Types(q) \subseteq {"data"}
    <3>1. IsSeq(Payload(op)) /\ Types(Payload(op)) \subseteq {"data"} /\ Len(Payload(op)) = op.size
      BY PayloadIsData
    <3>2. 1 \in Nat \ {0} /\ k \in Nat /\ k <= op.size
      BY <1>3
    <3> QED
      BY <3>1, <3>2, PartOf
  <2> HIDE DEF q
  <2>2. IsSeq(s) /\ OneRaw(s) /\ Types(s) \subseteq {"RAW", "data", "NAK"}
    BY <2>1, Burst
  <2>3. Emit(s)
    BY <1>3 DEF q
  <2> HIDE DEF s
  <2> QED
    BY <1>3, <2>2, <2>3
<1> QED
  BY <1>1, <1>2, <1>3

\* Whose command the programmer is about to take.
LEMMA Whose ==
    ASSUME IInv, Prompt, up, dev = "cmd", tx # << >>, Head(tx).type = "cmd", hpc \in Active
    PROVE  \/ /\ hpc \in {"configure", "configured", "reconfigured"} /\ Configuring
              /\ Head(tx) = Cmd(Configure) /\ (hpc = "configure" \/ reading \/ resp # "ACK")
           \/ hpc = "reply" /\ reading /\ Sent(Current) /\ resp = "none" /\ Current \in Operation
           \/ hpc = "bootable" /\ reading /\ Sent(Bootable)
           \/ hpc = "reset" /\ reading /\ Sent(Reset)
<1>1. Typed /\ Protocol /\ Phase
  BY DEF IInv, Protocol
<1>2. /\ Len(tx) \in Nat \ {0} /\ Head(tx) = tx[1] /\ "cmd" \in Types(tx)
  BY <1>1, Rest DEF Typed
<1>3. ~Quiet /\ ~Served
  BY DEF Quiet, Served
<1>4. CASE hpc \in {"configure", "configured", "reconfigured"}
  <2>1. Configuring
    BY <1>1, <1>4 DEF Phase
  <2>2. Head(tx) = Cmd(Configure)
    BY <1>2, <2>1 DEF Configuring
  <2> QED
    BY <1>1, <1>3, <1>4, <2>1, <2>2 DEF Phase
<1>5. CASE hpc = "reply"
  <2>1. Current \in Operation
    BY <1>1, <1>5, CurrentIsOperation DEF Protocol, Working
  <2>2. reading /\ Replied(Current)
    BY <1>1, <1>3, <1>5 DEF Phase, Answered, Expecting
  <2> QED
    BY <1>3, <1>5, <2>1, <2>2 DEF Replied, Expecting
<1>6. hpc \notin {"next", "raw_out", "raw_sent", "raw_in", "read_close", "read_abort"}
  BY <1>1, <1>2, <1>3 DEF Phase, Outstanding
<1>7. CASE hpc \in {"bootable", "reset"}
  BY <1>1, <1>3, <1>7 DEF Phase
<1> QED
  BY <1>4, <1>5, <1>6, <1>7 DEF Active, Working

\* What a step of the programmer must not disturb.
LEMMA Answering ==
    ASSUME IInv, Prompt, UNCHANGED << hostVars, linkVars >>,
           tx' = tx \/ (tx # << >> /\ tx' = Tail(tx)),
           IsSeq(rx'), ~up => rx' = rx, IsSeq(done'), DoneIds \subseteq DoneIds', ~mixed',
           dev' = "rawin" => Types(tx') \subseteq {"data"},
           up /\ hpc \in Working /\ "ACK" \in Types(rx') /\ "ACK" \notin Types(rx)
               => Current.id \in DoneIds',
           up /\ hpc \in Active => Phase'
    PROVE  IInv'
<1> USE DEF hostVars, readVars, rawVars, opVars, linkVars
<1>1. Typed /\ Protocol
  BY DEF IInv
<1>2. IsSeq(tx') /\ Len(tx') \in Nat
      /\ \/ tx' = tx
         \/ Len(tx) = Len(tx') + 1 /\ \A i \in 1..Len(tx') : tx'[i] = tx[i + 1]
  <2>1. CASE tx' = tx
    BY <1>1, <2>1, OverRange DEF Typed, IsSeq
  <2>2. CASE tx # << >> /\ tx' = Tail(tx)
    BY <1>1, <2>2, Rest DEF Typed
  <2> QED
    BY <2>1, <2>2
<1>3. \A i \in 1..Len(tx') : tx'[i].type = "cmd" => tx'[i].op.size \in Nat
  BY <1>1, <1>2 DEF Typed
<1>4. Typed'
  BY <1>1, <1>2, <1>3 DEF Typed
<1>5. \A i \in 1..Len(tx') : tx'[i].type = "cmd" /\ tx'[i].op.kind = "program" => i = Len(tx')
  BY <1>1, <1>2 DEF Protocol, InOrder
<1>6. InOrder' /\ Listening' /\ SuccessIsReal'
  BY <1>1, <1>5 DEF InOrder, Protocol, Listening, SuccessIsReal
<1>7. AcksAreTrue'
  <2>1. ASSUME hpc \in Working, Acked' PROVE Acked \/ Current.id \in DoneIds'
    <3>1. CASE "ACK" \in Types(rx')
      BY <1>1, <2>1, <3>1 DEF Acked, Typed
    <3>2. CASE "ACK" \notin Types(rx')
      BY <2>1, <3>2 DEF Acked, Current
    <3> QED
      BY <3>1, <3>2
  <2> QED
    BY <1>1, <2>1 DEF Protocol, AcksAreTrue, Current
<1>8. (up => Phase)'
  <2>1. CASE hpc \in Active
    BY <2>1
  <2>2. CASE hpc \notin Active
    BY <2>2 DEF Phase, Active, Working
  <2> QED
    BY <2>1, <2>2
<1> QED
  BY <1>4, <1>6, <1>7, <1>8 DEF IInv, Protocol

\* The programmer starts, or logs.
LEMMA Idles == ASSUME IInv, Prompt, Boot \/ DevLog PROVE IInv'
<1> USE DEF wireVars, linkVars
<1>1. Typed /\ Protocol
  BY DEF IInv
<1>2. CASE Boot
  <2>1. /\ dev = "boot" /\ dev' = "cmd"
        /\ UNCHANGED << hostVars, linkVars, tx, rx, done, probed, mixed >>
    BY <1>2 DEF Boot
  <2>2. UNCHANGED << hpc, reading, resp, left, todo, up >>
    BY <2>1 DEF hostVars, readVars, rawVars, opVars
  <2>3. ASSUME up, hpc \in Active PROVE Phase'
    <3>1. ~Quiet /\ ~Served /\ \A op : ~Sent(op) /\ ~Expecting(op)
      BY <2>1 DEF Quiet, Served, Sent, Expecting
    <3>2. Phase
      BY <1>1, <2>3 DEF Protocol
    <3>3. hpc \in {"configure", "configured"}
      BY <2>1, <2>3, <3>1, <3>2 DEF Phase, Replied, Answered, Active, Working, Outstanding
    <3> QED
      BY <2>1, <2>2, <3>1, <3>2, <3>3 DEF Phase, Configuring
  <2> QED
    BY <1>1, <2>1, <2>3, Answering DEF Typed, Protocol, InOrder, DoneIds
<1>3. CASE DevLog
  <2>1. /\ dev = "cmd" /\ Emit(<< Msg("log") >>)
        /\ UNCHANGED << hostVars, linkVars, tx, dev, devop, devleft, done, probed, mixed >>
    BY <1>3 DEF DevLog
  <2>2. UNCHANGED << hpc, reading, resp, left, todo, up >>
    BY <2>1 DEF hostVars, readVars, rawVars, opVars
  <2>3. IsSeq(<< Msg("log") >>) /\ Types(<< Msg("log") >>) = {"log"}
    BY Said
  <2>4. /\ IsSeq(rx') /\ (~up => rx' = rx)
        /\ up => rx' = rx \o << Msg("log") >> /\ Types(rx') = Types(rx) \cup {"log"}
    BY <1>1, <2>1, <2>3, Emitted
  <2>5. ASSUME up, hpc \in Active PROVE Phase'
    <3>1. Phase
      BY <1>1, <2>5 DEF Protocol
    <3>2. Quiet => Quiet'
      BY <2>1, <2>4, <2>5 DEF Quiet
    <3>3. Configuring => Configuring'
      BY <2>1, <2>4, <2>5 DEF Configuring
    <3>4. \A op : Sent(op) => tx' = << Cmd(op) >> /\ dev' \notin {"boot", "rawin"} /\ Types(rx') \subseteq {"log"}
      BY <2>1, <2>4, <2>5 DEF Sent
    <3>5. (NoRaw => NoRaw') /\ (Served => Served')
      BY <2>1, <2>4, <2>5 DEF NoRaw, Served
    <3>6. OneRaw(rx) => OneRaw(rx')
      BY <1>1, <2>3, <2>4, <2>5, StaysOne DEF Typed
    <3>7. hpc \in {"configure", "configured", "reconfigured", "next"} => Phase'
      BY <2>1, <2>2, <3>1, <3>2, <3>3 DEF Phase
    <3>8. ASSUME hpc = "reply" PROVE Phase'
      <4>1. Replied(Current) => Replied(Current)'
        BY <2>1, <2>2, <2>4, <2>5, <3>4, <3>5, <3>6 DEF Replied, Sent, Expecting, Served, Current
      <4>2. Answered(Current) => Answered(Current)'
        BY <2>1, <2>2, <3>2, <3>5 DEF Answered, Expecting, Current
      <4> QED
        BY <2>2, <3>1, <3>8, <4>1, <4>2 DEF Phase
    <3>9. hpc \in {"raw_out", "raw_sent"} => Phase'
      BY <2>1, <2>2, <3>1, <3>2, <3>5 DEF Phase, Outstanding, Current
    <3>10. hpc \in {"raw_in", "read_close", "read_abort", "bootable", "reset"} => Phase'
      BY <2>2, <3>1, <3>2, <3>4, <3>5 DEF Phase, Sent
    <3> QED
      BY <2>5, <3>7, <3>8, <3>9, <3>10 DEF Active, Working
  <2> QED
    BY <1>1, <2>1, <2>4, <2>5, Answering DEF Typed, Protocol, InOrder, DoneIds
<1> QED
  BY <1>2, <1>3

\* The programmer answers a command that announces no payload for it.
LEMMA Answers ==
    ASSUME IInv, Prompt, dev = "cmd", tx # << >>, Head(tx).type = "cmd", tx' = Tail(tx),
           UNCHANGED << hostVars, linkVars, mixed >>, dev' \in {"cmd", "off"},
           NEW s, IsSeq(s), Emit(s), OneRaw(s), Types(s) \subseteq {"RAW", "data", "ACK", "NAK"},
           Head(tx).op.kind \notin {"read", "probe"} => Types(s) \subseteq {"ACK", "NAK"},
           Head(tx).op.kind = "configure" => Types(s) \subseteq {"ACK"},
           Head(tx).op.kind = "program" => Types(s) \subseteq {"NAK"},
           IsSeq(done'), DoneIds \subseteq DoneIds',
           "ACK" \in Types(s) /\ Head(tx).op.kind \notin {"configure", "setbootable", "power"}
               => Head(tx).op.id \in DoneIds'
    PROVE  IInv'
<1>1. Typed /\ Protocol
  BY DEF IInv
<1>2. UNCHANGED << hpc, reading, resp, left, todo, up >>
  BY DEF hostVars, readVars, rawVars, opVars, linkVars
<1>3. /\ IsSeq(rx') /\ (~up => rx' = rx)
      /\ up => rx' = rx \o s /\ Types(rx') = Types(rx) \cup Types(s)
  BY <1>1, Emitted
<1>4. \A op : tx = << Cmd(op) >> => tx' = << >> /\ Head(tx).op = op
  BY DEF Cmd
<1>5. up /\ hpc \in Working => hpc = "reply" /\ Sent(Current) /\ Head(tx).op = Current /\ Current \in Operation
  BY <1>4, Whose DEF Sent, Working, Active
<1>6. up /\ hpc \in Working /\ "ACK" \in Types(rx') /\ "ACK" \notin Types(rx) => Current.id \in DoneIds'
  <2>1. ASSUME up, hpc \in Working, "ACK" \in Types(s) PROVE Current.id \in DoneIds'
    BY <1>5, <2>1 DEF Operation
  <2> QED
    BY <1>3, <2>1
<1>7. ASSUME up, hpc \in Active PROVE Phase'
  <2>1. CASE /\ hpc \in {"configure", "configured", "reconfigured"} /\ Configuring
             /\ Head(tx) = Cmd(Configure) /\ (hpc = "configure" \/ reading \/ resp # "ACK")
    <3>1. Types(s) \subseteq {"ACK"}
      BY <2>1 DEF Cmd, Configure, Op
    <3>2. Len(Tail(tx)) = Len(tx) - 1 /\ Len(tx) \in Nat \ {0} /\ \A i \in 1..Len(Tail(tx)) : Tail(tx)[i] = tx[i + 1]
      BY <1>1, Rest DEF Typed
    <3>3. \A i \in 1..Len(tx') : tx'[i] = Cmd(Configure)
      BY <2>1, <3>2 DEF Configuring
    <3>4. Configuring' /\ dev' # "boot"
      BY <1>3, <1>7, <2>1, <3>1, <3>3 DEF Configuring
    <3> QED
      BY <1>2, <2>1, <3>4 DEF Phase
  <2>2. CASE hpc = "reply" /\ reading /\ Sent(Current) /\ resp = "none" /\ Current \in Operation
    <3>1. tx' = << >> /\ Head(tx).op = Current /\ Types(rx) \subseteq {"log"} /\ Served'
      BY <1>4, <2>2 DEF Sent, Served
    <3>2. Types(rx') = Types(rx) \cup Types(s) /\ rx' = rx \o s
      BY <1>3, <1>7
    <3>3. OneRaw(rx')
      BY <1>1, <3>1, <3>2, ComesLater DEF Typed
    <3>4. Current' = Current
      BY <1>2 DEF Current
    <3>5. CASE Current.kind = "program"
      <4>1. Types(rx') \subseteq {"log", "NAK"}
        BY <3>1, <3>2, <3>5
      <4> QED
        BY <1>2, <2>2, <3>1, <3>4, <3>5, <4>1 DEF Phase, Replied
    <3>6. CASE Current.kind \in {"read", "probe"}
      BY <1>2, <2>2, <3>1, <3>3, <3>4, <3>6 DEF Phase, Replied
    <3>7. CASE Current.kind \in {"erase", "patch"}
      <4>1. NoRaw'
        BY <3>1, <3>2, <3>7 DEF NoRaw
      <4> QED
        BY <1>2, <2>2, <3>1, <3>4, <3>7, <4>1 DEF Phase, Replied
    <3> QED
      BY <2>2, <3>5, <3>6, <3>7 DEF Operation
  <2>3. ASSUME NEW op \in {Bootable, Reset}, Sent(op), reading, hpc \in {"bootable", "reset"} PROVE Phase'
    <3>1. Types(s) \subseteq {"ACK", "NAK"}
      BY <1>4, <2>3 DEF Sent, Bootable, Reset, Op
    <3>2. Served' /\ NoRaw'
      BY <1>3, <1>4, <1>7, <2>3, <3>1 DEF Sent, Served, NoRaw
    <3> QED
      BY <1>2, <2>3, <3>2 DEF Phase
  <2> QED
    BY <1>7, <2>1, <2>2, <2>3, Whose
<1> QED
  BY <1>1, <1>3, <1>6, <1>7, Answering DEF Protocol, InOrder

\* The programmer takes a command, or refuses it.
LEMMA TakesCommand == ASSUME IInv, Prompt, DevCommand \/ DevRefuses PROVE IInv'
<1> DEFINE op == Head(tx).op
<1>1. Typed /\ Protocol
  BY DEF IInv
<1>2. /\ dev = "cmd" /\ tx # << >> /\ Head(tx).type = "cmd" /\ tx' = Tail(tx)
      /\ UNCHANGED << hostVars, linkVars, mixed >>
  BY DEF DevCommand, DevRefuses, devVars
<1>3. Len(tx) \in Nat \ {0} /\ Head(tx) = tx[1] /\ Len(Tail(tx)) = Len(tx) - 1 /\ op.size \in Nat
  BY <1>1, <1>2, Rest DEF Typed
<1>6. IsSeq(done) /\ DoneIds \subseteq DoneIds
  BY <1>1 DEF Typed
<1>7. CASE DevCommand /\ op.kind # "program"
  <2> DEFINE s == IF op.kind \in {"read", "probe"}
                  THEN << Msg("RAW") >> \o Payload(op) \o << Msg("ACK") >> ELSE << Msg("ACK") >>
  <2>1. Emit(s) /\ Completes(op) /\ dev' \in {"cmd", "off"}
    BY <1>7 DEF DevCommand
  <2>2. /\ IsSeq(s) /\ OneRaw(s) /\ Types(s) \subseteq {"RAW", "data", "ACK"}
        /\ op.kind \notin {"read", "probe"} => Types(s) \subseteq {"ACK"}
    <3>1. CASE op.kind \in {"read", "probe"}
      BY <1>3, <3>1, PayloadIsData, Burst
    <3>2. CASE op.kind \notin {"read", "probe"}
      BY <1>3, <3>2, PayloadIsData, Burst
    <3> QED
      BY <3>1, <3>2
  <2>3. /\ IsSeq(done') /\ DoneIds \subseteq DoneIds'
        /\ op.kind \notin {"configure", "setbootable", "power"} => op.id \in DoneIds'
    BY <1>6, <2>1, DoneGrows
  <2> HIDE DEF s
  <2> QED
    BY <1>2, <1>7, <2>1, <2>2, <2>3, Answers
<1>8. CASE DevRefuses
  <2>1. op.kind # "configure" /\ dev' = "cmd" /\ done' = done /\ probed' = probed
    BY <1>2, <1>8 DEF DevRefuses, devVars
  <2>2. PICK s : /\ IsSeq(s) /\ Emit(s) /\ OneRaw(s) /\ Types(s) \subseteq {"RAW", "data", "NAK"}
                 /\ op.kind \notin {"read", "probe"} => Types(s) \subseteq {"NAK"}
    BY <1>3, <1>8, Refused
  <2>3. DoneIds' = DoneIds /\ IsSeq(done')
    BY <1>6, <2>1 DEF DoneIds
  <2> QED
    BY <1>2, <2>1, <2>2, <2>3, Answers
<1>9. CASE DevCommand /\ op.kind = "program"
  <2>1. /\ Emit(<< Msg("RAW") >>) /\ dev' = "rawin" /\ devop' = op /\ devleft' = op.size
        /\ done' = done /\ probed' = probed
    BY <1>9 DEF DevCommand
  <2>2. Len(tx) = 1 /\ tx' = << >> /\ Types(tx') = {}
    <3>1. Len(tx) = 1
      <4>1. 1 \in 1..Len(tx) /\ tx[1].type = "cmd" /\ tx[1].op.kind = "program"
        BY <1>2, <1>3, <1>9
      <4>2. InOrder
        BY <1>1 DEF Protocol
      <4> HIDE DEF op
      <4> QED
        BY <4>1, <4>2 DEF InOrder
    <3>2. IsSeq(tx') /\ Len(tx') = 0
      BY <1>1, <1>2, <1>3, <3>1, Rest DEF Typed
    <3> QED
      BY <3>1, <3>2, EmptySeq, Short DEF IsSeq
  <2>3. /\ IsSeq(rx') /\ (~up => rx' = rx)
        /\ up => rx' = rx \o << Msg("RAW") >> /\ Types(rx') = Types(rx) \cup {"RAW"}
    BY <1>1, <2>1, Said, Emitted
  <2>4. ASSUME up, hpc \in Active PROVE Phase'
    <3>1. hpc = "reply" /\ reading /\ Sent(Current) /\ resp = "none"
      BY <1>2, <1>9, <2>4, Whose DEF Sent, Bootable, Reset, Configure, Cmd, Op
    <3>2. op = Current
      BY <3>1 DEF Sent, Cmd
    <3>3. RawLast(rx')
      BY <1>1, <2>3, <2>4, <3>1, RawIsLast DEF Sent, Typed
    <3>4. UNCHANGED << hpc, reading, resp, todo >>
      BY <1>2 DEF hostVars, readVars, rawVars, opVars
    <3> QED
      BY <1>9, <2>1, <2>2, <3>1, <3>2, <3>3, <3>4 DEF Phase, Replied, Expecting, Current
  <2> QED
    BY <1>1, <1>2, <2>1, <2>2, <2>3, <2>4, Answering DEF Protocol, InOrder, Typed, DoneIds
<1> QED
  BY <1>7, <1>8, <1>9 DEF DevCommand

\* While a payload is under way nothing else is.
LEMMA Streaming ==
    ASSUME IInv, Prompt, up, hpc \in Active, tx # << >>,
           dev = "rawin" \/ (dev = "cmd" /\ Head(tx).type # "cmd")
    PROVE  \/ hpc = "raw_out" /\ left \in Nat \ {0} /\ Outstanding(Current, left)
           \/ hpc = "raw_sent" /\ reading /\ Outstanding(Current, 0)
<1>1. Typed /\ Protocol /\ Phase
  BY DEF IInv, Protocol
<1>2. /\ Len(tx) \in Nat \ {0} /\ Head(tx) = tx[1]
  BY <1>1, Rest DEF Typed
<1>3. ~Quiet /\ ~Served /\ \A op : ~Expecting(op)
  BY DEF Quiet, Served, Expecting
<1>4. ~Configuring
  <2>1. dev = "cmd" => tx[1] # Cmd(Configure)
    BY <1>2 DEF Cmd
  <2> QED
    BY <1>2, <2>1 DEF Configuring
<1>5. \A op : ~Sent(op)
  BY DEF Sent, Cmd
<1>6. hpc \notin {"configure", "configured", "reconfigured", "next", "raw_in", "read_close", "read_abort", "bootable", "reset"}
  BY <1>1, <1>3, <1>4, <1>5 DEF Phase
<1>7. hpc # "reply"
  BY <1>1, <1>3, <1>5 DEF Phase, Replied, Answered
<1> QED
  BY <1>1, <1>3, <1>6, <1>7 DEF Phase, Active, Working

\* The programmer takes a unit of a payload, or throws it away.
LEMMA TakesUnit == ASSUME IInv, Prompt, DevRawIn \/ DevRawFails \/ DevGarbage PROVE IInv'
<1>1. Typed /\ Protocol
  BY DEF IInv
<1>2. /\ tx # << >> /\ tx' = Tail(tx) /\ UNCHANGED << hostVars, linkVars >>
      /\ dev = "rawin" \/ (dev = "cmd" /\ Head(tx).type # "cmd")
  BY DEF DevRawIn, DevRawFails, DevGarbage
<1>3. UNCHANGED << hpc, reading, resp, left, todo, up >>
  BY <1>2 DEF hostVars, readVars, rawVars, opVars, linkVars
<1>4. /\ Len(Tail(tx)) = Len(tx) - 1 /\ Len(tx) \in Nat \ {0}
      /\ Types(tx') \subseteq Types(tx) /\ Head(tx).type \in Types(tx)
  BY <1>1, <1>2, Rest DEF Typed
<1>5. ~mixed'
  BY <1>1, <1>4 DEF DevRawIn, DevRawFails, DevGarbage, devVars, Protocol, InOrder
<1>6. CASE DevRawIn /\ devleft > 1
  <2>1. UNCHANGED << dev, devop, rx, done, probed >> /\ dev = "rawin" /\ devleft' = devleft - 1
    BY <1>6 DEF DevRawIn
  <2>2. ASSUME up, hpc \in Active PROVE Phase'
    <3>1. ASSUME NEW more \in Nat, Outstanding(Current, more) PROVE Outstanding(Current, more)'
      BY <1>2, <1>3, <1>4, <1>6, <2>1, <3>1 DEF Outstanding, NoRaw, Current
    <3>2. CASE hpc = "raw_out" /\ left \in Nat \ {0} /\ Outstanding(Current, left)
      <4>1. (left \in Nat \ {0} /\ Outstanding(Current, left))'
        BY <1>2, <1>3, <1>4, <1>6, <2>1, <3>2 DEF Outstanding, NoRaw, Current
      <4> QED
        BY <1>3, <3>2, <4>1 DEF Phase
    <3>3. CASE hpc = "raw_sent" /\ reading /\ Outstanding(Current, 0)
      BY <1>3, <3>1, <3>3 DEF Phase
    <3> QED
      BY <1>2, <2>2, <3>2, <3>3, Streaming
  <2> QED
    BY <1>1, <1>2, <1>4, <1>5, <2>1, <2>2, Answering DEF Protocol, InOrder, Typed, DoneIds
<1>7. CASE ~(DevRawIn /\ devleft > 1)
  <2>1. PICK type \in {"ACK", "NAK"} :
          /\ Emit(<< Msg(type) >>) /\ dev' = "cmd"
          /\ \/ type = "NAK" /\ done' = done /\ probed' = probed
             \/ dev = "rawin" /\ Completes(devop) /\ ~(devleft > 1)
    BY <1>7 DEF DevRawIn, DevRawFails, DevGarbage, devVars
  <2>2. /\ IsSeq(rx') /\ (~up => rx' = rx)
        /\ up => Types(rx') = Types(rx) \cup {type}
    BY <1>1, <2>1, Said, Emitted
  <2>3. IsSeq(done') /\ DoneIds \subseteq DoneIds'
    BY <1>1, <2>1, DoneGrows DEF Typed, DoneIds
  <2>4. ASSUME up, hpc \in Working PROVE Current \in Operation /\ hpc \in Active
    BY <1>1, <2>4, CurrentIsOperation DEF Protocol, Active
  <2>5. ASSUME up, hpc \in Working, type # "NAK" PROVE Current.id \in DoneIds'
    <3>1. dev = "rawin" /\ Completes(devop)
      BY <2>1, <2>5
    <3>2. devop = Current
      BY <1>2, <2>4, <2>5, <3>1, Streaming DEF Outstanding
    <3> QED
      BY <1>1, <2>4, <2>5, <3>1, <3>2, DoneGrows DEF Operation, Typed
  <2>6. ASSUME up, hpc \in Active PROVE Phase'
    <3>1. NoRaw => NoRaw'
      BY <2>2, <2>6 DEF NoRaw
    <3>2. \A more : Outstanding(Current, more) => NoRaw' /\ Types(tx') \subseteq {"data"} /\ Current.kind = "program"
      BY <1>4, <3>1 DEF Outstanding
    <3>3. CASE hpc = "raw_out" /\ left \in Nat \ {0} /\ Outstanding(Current, left)
      BY <1>3, <2>1, <3>2, <3>3 DEF Phase, Outstanding, Current
    <3>4. CASE hpc = "raw_sent" /\ reading /\ Outstanding(Current, 0)
      BY <1>3, <2>1, <3>2, <3>4 DEF Phase, Outstanding, Current
    <3> QED
      BY <1>2, <2>6, <3>3, <3>4, Streaming
  <2> QED
    BY <1>2, <1>5, <2>1, <2>2, <2>3, <2>5, <2>6, Answering
<1> QED
  BY <1>6, <1>7

\* The link is cut.
LEMMA Cut == ASSUME IInv, Prompt, Unplug PROVE IInv'
<1>1. /\ up' = FALSE /\ rx' = << >> /\ UNCHANGED << hostVars, devVars, tx, setup >>
      /\ UNCHANGED << hpc, reading, resp, todo, succeeded, done, probed, dev, mixed >>
  BY DEF Unplug, hostVars, readVars, rawVars, opVars, devVars
<1>2. Typed /\ Protocol
  BY DEF IInv
<1>3. IsSeq(rx') /\ Types(rx') = {}
  BY <1>1, Short
<1>4. Typed' /\ Listening' /\ InOrder' /\ SuccessIsReal'
  BY <1>1, <1>2, <1>3 DEF Typed, Protocol, Listening, InOrder, SuccessIsReal, DoneIds
<1>5. AcksAreTrue'
  BY <1>1, <1>2, <1>3 DEF Protocol, AcksAreTrue, Acked, Current, DoneIds
<1> QED
  BY <1>1, <1>4, <1>5 DEF IInv, Protocol

-----------------------------------------------------------------------------
(* The theorems.                                                           *)

\* The session starts with nothing sent, and the programmer booting.
LEMMA InitHolds == Init => IInv
<1> SUFFICES ASSUME Init PROVE Typed /\ Protocol
  BY DEF IInv
<1>1. Probes \o ThePlan \in Seq(Operation)
  <2>1. Probes \in Seq(Operation) /\ ThePlan \in Seq(Operation)
    BY PlanIsTyped DEF Init
  <2> QED
    BY <2>1
<1>2. Typed
  <2>1. setup \in Setups /\ todo \in Seq(Operation) /\ reading = FALSE /\ up = TRUE
    BY <1>1 DEF Init
  <2>2. tx = << >> /\ rx = << >> /\ done = << >> /\ IsSeq(<< >>) /\ 1..Len(<< >>) = {}
    BY Short, EmptySeq DEF Init
  <2> QED
    BY <2>1, <2>2 DEF Typed
<1>3. Listening /\ InOrder /\ AcksAreTrue /\ SuccessIsReal
  BY DEF Init, Listening, InOrder, AcksAreTrue, Working, SuccessIsReal
<1>4. Phase
  BY Short DEF Init, Phase, Configuring
<1> QED
  BY <1>2, <1>3, <1>4 DEF Protocol

\* The circumstances do not change.
LEMMA SetupIsFixed == [Next]_vars => setup' = setup
  BY DEF Next, HostNext, DevNext, vars, wireVars, linkVars, Ended, Unplug, Boot, DevLog, DevCommand,
         DevRefuses, DevRawIn, DevRawFails, DevGarbage, ReadUnits, ReadTimesOut, ReadFails,
         SendConfigure, Configured, Reconfigured, SendNext, OpenFails, SimpleReply, EraseAllReply, RawReply,
         SendChunk, ChunkWriteFails, FileReadFails, Programmed, DrainRemainder, RawIn,
         RawInFails, ReadDone, Bootabled, Finished

\* Every step keeps it.
LEMMA NextPreserves == IInv /\ [Next]_vars => IInv'
<1> SUFFICES ASSUME IInv, [Next]_vars, Prompt' PROVE IInv'
  BY DEF IInv
<1>1. setup' = setup
  BY SetupIsFixed
<1>2. Prompt
  BY <1>1 DEF Prompt
<1>3. CASE UNCHANGED vars
  BY <1>3 DEF IInv, Prompt, vars, hostVars, readVars, rawVars, opVars, devVars, wireVars, linkVars,
              Typed, Protocol, Listening, InOrder, Phase, AcksAreTrue, Acked, SuccessIsReal, DoneIds,
              Current, Configuring, Quiet, Replied, Answered, Sent, Expecting, Served, NoRaw, Outstanding
<1> QED
  BY <1>2, <1>3, HostStep, Idles, TakesCommand, TakesUnit, Cut DEF Next, DevNext, Ended

\* The invariant holds throughout.
LEMMA Invariant == Spec => []IInv
  BY InitHolds, NextPreserves, PTL DEF Spec

(* With a programmer that answers in time, no operation is credited with   *)
(* the answer to another: what the host counts as done was done.           *)
THEOREM CreditIsDue == Spec => [](Prompt => SuccessIsReal)
<1>1. IInv => (Prompt => SuccessIsReal)
  BY DEF IInv, Protocol
<1> QED
  BY <1>1, Invariant, PTL

(* With a programmer that answers in time, no command is sent into a       *)
(* payload: the programmer never takes one for image data.                 *)
THEOREM PayloadsAreData == Spec => [](Prompt => NoCommandInPayload)
<1>1. IInv => (Prompt => NoCommandInPayload)
  BY DEF IInv, Protocol, InOrder, NoCommandInPayload
<1> QED
  BY <1>1, Invariant, PTL

-----------------------------------------------------------------------------
(* The operations are carried out in the order of the plan.                *)

\* The operations left are the end of the plan, after the probes left.
Probing == Len(todo) > Len(ThePlan)
Passed == IF Probing THEN 0 ELSE Len(ThePlan) - Len(todo)
Remaining ==
    \A i \in 1..Len(todo) :
        IF Len(ThePlan) + i > Len(todo)
        THEN todo[i] = ThePlan[Len(ThePlan) - Len(todo) + i]
        ELSE todo[i].kind = "probe"

\* Where the erases of --erase-all are in the plan.
PassAt(i) == InPass(ThePlan[i])

\* What the programmer has done are the operations the host has passed, and
\* perhaps the one under way.  Only erases of --erase-all may be missing, and
\* only for as long as the host is among them.
Performed ==
    /\ \A i \in 1..Len(ThePlan) : Executed(ThePlan[i]) =>
          i <= Passed \/ (i = Passed + 1 /\ ~Probing /\ hpc \in Working \cup {"end"})
    /\ \A i \in 1..Passed : Executed(ThePlan[i]) \/
          (PassAt(i) /\ Passed < Len(ThePlan) /\ PassAt(Passed + 1))

\* An erase of --erase-all that counts as done was done.
Credited == \A i \in 1..Len(ThePlan) :
    PassAt(i) /\ ThePlan[i].id \in succeeded => Executed(ThePlan[i])

\* The operation under way is one of the plan, and not done.
Pending == todo # << >> /\ ~Probing /\ ~Executed(Current)
IsPlanned(u) ==
    u.type = "cmd" /\ u.op.kind \notin {"configure", "probe", "setbootable", "power"}

\* An erase of --erase-all that was on its way when the link went down, while
\* the host has gone on to the next one.
Strayed(op) ==
    /\ ~up /\ InPass(op)
    /\ \E q \in 1..Passed : ThePlan[q] = op /\ \A j \in q..Len(ThePlan) : ~Executed(ThePlan[j])

\* Any other command of the plan on its way, and a payload expected, are those
\* of the operation under way.
Ordered ==
    /\ (hpc = "reply" /\ resp # "ACK") \/ hpc = "end"
    /\ Pending
Expected ==
    /\ hpc \in {"reply", "raw_out", "end"} \/ (hpc = "raw_sent" /\ resp # "ACK")
    /\ Pending /\ devop = Current /\ Current.kind = "program"
InFlight ==
    /\ \A i \in 1..Len(tx) : IsPlanned(tx[i]) =>
          i = Len(tx) /\ ((tx[i].op = Current /\ Ordered) \/ Strayed(tx[i].op))
    /\ dev = "rawin" => Expected

\* An ACK that counts was given for it.
Counted == hpc \in Working /\ Acked /\ ~Probing => Executed(Current)

Outcome ==
    /\ result \in {"none", "ok", "failed"} /\ (result = "none" <=> hpc # "end")
    /\ hpc \in {"bootable", "reset"} \/ result = "ok" => todo = << >>

\* An erase has no payload.
Apart == hpc \in Working \ {"reply"} => Current.kind # "erase"

Order == Remaining /\ Performed /\ Credited /\ InFlight /\ Counted /\ Outcome /\ Apart

\* The sizes, and the place of the current operation in the plan.
LEMMA Place ==
    ASSUME Typed, Remaining
    PROVE  /\ Len(ThePlan) \in Nat /\ Len(todo) \in Nat /\ Passed \in Nat
           /\ (todo = << >> <=> Len(todo) = 0)
           /\ todo # << >> => /\ Current = todo[1] /\ Current \in Operation
                              /\ (Probing <=> Current.kind = "probe")
                              /\ (Probing <=> Current.id \in ProbeIds)
           /\ todo # << >> /\ ~Probing =>
                 Passed + 1 \in 1..Len(ThePlan) /\ Current = ThePlan[Passed + 1]
<1>1. /\ ThePlan \in Seq(Operation) /\ todo \in Seq(Operation)
      /\ \A i \in 1..Len(ThePlan) : ThePlan[i].kind # "probe"
  BY PlanIsTyped DEF Typed
<1>2. Len(ThePlan) \in Nat /\ Len(todo) \in Nat
  BY <1>1, LenProperties
<1>3. todo = << >> <=> Len(todo) = 0
  BY <1>1, EmptySeq
<1>4. todo # << >> => Current = todo[1] /\ Current \in Operation
  BY <1>1, HeadTailProperties, ElementOfSeq DEF Current
<1>5. Passed \in Nat
  BY <1>2 DEF Passed, Probing
<1>6. ASSUME todo # << >>, Probing PROVE Current.kind = "probe"
  <2>1. 1 \in 1..Len(todo) /\ ~(Len(ThePlan) + 1 > Len(todo))
    BY <1>2, <1>3, <1>6 DEF Probing
  <2> QED
    BY <1>4, <1>6, <2>1 DEF Remaining
<1>7. ASSUME todo # << >>, ~Probing
      PROVE  Passed + 1 \in 1..Len(ThePlan) /\ Current = ThePlan[Passed + 1]
  <2>1. /\ 1 \in 1..Len(todo) /\ Len(ThePlan) + 1 > Len(todo)
        /\ Passed + 1 = Len(ThePlan) - Len(todo) + 1 /\ Passed + 1 \in 1..Len(ThePlan)
    BY <1>2, <1>3, <1>7 DEF Probing, Passed
  <2> QED
    BY <1>4, <1>7, <2>1 DEF Remaining
<1>8. todo # << >> => (Probing <=> Current.kind = "probe")
  BY <1>1, <1>6, <1>7
<1> QED
  BY <1>1, <1>2, <1>3, <1>4, <1>5, <1>7, <1>8 DEF Operation

\* The operations of the plan have identities of their own.
LEMMA Identities ==
    ASSUME Typed
    PROVE  \A i, j \in 1..Len(ThePlan) : ThePlan[i].id = ThePlan[j].id => i = j
<1>1. setup.erase_all \in BOOLEAN
  BY FirehoseConstants DEF Typed, FirehoseConstants, Setup
<1> QED
  BY <1>1, FirehoseConstants DEF FirehoseConstants, ThePlan

\* Where the operations of a session with --erase-all stand in the plan.
LEMMA EraseAllPlan ==
    ASSUME setup \in Setups, setup.erase_all
    PROVE  /\ Len(OfKind("read")) \in Nat /\ Len(EraseAllOps) \in Nat
           /\ Len(OfKind("read")) + Len(EraseAllOps) <= Len(ThePlan) /\ Len(ThePlan) \in Nat
           /\ \A i \in 1..Len(OfKind("read")) : ThePlan[i] = OfKind("read")[i] /\ ThePlan[i].kind = "read"
           /\ \A i \in 1..Len(EraseAllOps) : ThePlan[Len(OfKind("read")) + i] = EraseAllOps[i]
           /\ \A i, j \in 1..Len(ThePlan) : ThePlan[i].id = ThePlan[j].id => i = j
<1> DEFINE R == OfKind("read")
           P == OfKind("program")
           X == OfKind("patch")
<1>1. setup.erase_all = TRUE
  BY FirehoseConstants DEF FirehoseConstants, Setup
<1>2. ThePlan = ((R \o EraseAllOps) \o P) \o X
  BY <1>1 DEF ThePlan, Plan, Phased
<1>3. IsSeq(R) /\ IsSeq(EraseAllOps) /\ IsSeq(P) /\ IsSeq(X)
  BY FirehoseConstants, OverRange DEF FirehoseConstants
<1>4. \A i \in 1..Len(R) : R[i].kind = "read"
  <2> DEFINE S == {op \in Operation : op.kind = "read"}
  <2>1. R \in Seq(S)
    BY FirehoseConstants DEF FirehoseConstants
  <2>2. \A op \in S : op.kind = "read"
    OBVIOUS
  <2> HIDE DEF S, R
  <2> QED
    BY <2>1, <2>2, ElementOfSeq
<1>5. \A i, j \in 1..Len(ThePlan) : ThePlan[i].id = ThePlan[j].id => i = j
  BY <1>1, FirehoseConstants DEF FirehoseConstants, ThePlan
<1> HIDE DEF R, P, X
<1>6. /\ IsSeq(R \o EraseAllOps) /\ Len(R \o EraseAllOps) = Len(R) + Len(EraseAllOps)
      /\ Len(R) \in Nat /\ Len(EraseAllOps) \in Nat
      /\ \A i \in 1..Len(R) + Len(EraseAllOps) :
            (R \o EraseAllOps)[i] = IF i <= Len(R) THEN R[i] ELSE EraseAllOps[i - Len(R)]
  BY <1>3, Joined
<1> DEFINE A == R \o EraseAllOps
<1>7. IsSeq(A) /\ Len(A) = Len(R) + Len(EraseAllOps)
  BY <1>6
<1> HIDE DEF A
<1>8. /\ IsSeq(A \o P) /\ Len(A \o P) = Len(A) + Len(P) /\ Len(P) \in Nat
      /\ \A i \in 1..Len(A) + Len(P) : (A \o P)[i] = IF i <= Len(A) THEN A[i] ELSE P[i - Len(A)]
  BY <1>3, <1>7, Joined
<1> DEFINE B == A \o P
<1>9. IsSeq(B) /\ Len(B) = Len(A) + Len(P) /\ \A i \in 1..Len(A) : B[i] = A[i]
  BY <1>6, <1>7, <1>8
<1> HIDE DEF B
<1>10. /\ Len(B \o X) = Len(B) + Len(X) /\ Len(X) \in Nat
       /\ \A i \in 1..Len(B) + Len(X) : (B \o X)[i] = IF i <= Len(B) THEN B[i] ELSE X[i - Len(B)]
  BY <1>3, <1>9, Joined
<1>11. ThePlan = B \o X
  BY <1>2 DEF A, B
<1>12. \A i \in 1..Len(A) : ThePlan[i] = A[i]
  BY <1>6, <1>7, <1>8, <1>9, <1>10, <1>11
<1>13. ASSUME NEW i \in 1..Len(R) PROVE ThePlan[i] = R[i] /\ ThePlan[i].kind = "read"
  BY <1>4, <1>6, <1>7, <1>12 DEF A
<1>14. ASSUME NEW i \in 1..Len(EraseAllOps) PROVE ThePlan[Len(R) + i] = EraseAllOps[i]
  <2>1. Len(R) + i \in 1..Len(R) + Len(EraseAllOps) /\ ~(Len(R) + i <= Len(R)) /\ (Len(R) + i) - Len(R) = i
    BY <1>6
  <2> QED
    BY <1>6, <1>7, <1>12, <2>1 DEF A
<1>15. Len(R) + Len(EraseAllOps) <= Len(ThePlan) /\ Len(ThePlan) \in Nat
  BY <1>6, <1>7, <1>8, <1>9, <1>10, <1>11
<1> QED
  BY <1>5, <1>6, <1>13, <1>14, <1>15 DEF R

\* What the order speaks of: the plan and the host's place in it.
Places == << setup, todo, succeeded, result >>

\* A step that answers nothing that counts and sends nothing.
LEMMA Unmoved ==
    ASSUME Typed, Order, UNCHANGED << Places, done, hpc >>, up' => up,
           tx' = tx \/ (tx # << >> /\ tx' = Tail(tx)),
           dev' = "rawin" => dev = "rawin" /\ devop' = devop,
           resp' = "ACK" /\ resp # "ACK" =>
               (hpc = "reply" => tx = << >>) /\ (hpc = "raw_sent" => dev # "rawin"),
           hpc \in Working /\ Acked' => Acked
    PROVE  Order'
<1> USE DEF Places
<1>1. ThePlan' = ThePlan /\ Current' = Current /\ Probing' = Probing /\ Passed' = Passed
  BY DEF ThePlan, Current, Probing, Passed
<1>2. Remaining' /\ Outcome' /\ Counted' /\ Pending' = Pending
  BY <1>1 DEF Order, Remaining, Executed, Outcome, Counted, Pending
<1>6. Performed' /\ Credited' /\ Apart'
  BY <1>1 DEF Order, Performed, Credited, Apart, Executed, PassAt, InPass
<1>7. ASSUME NEW op, Strayed(op) PROVE Strayed(op)'
  BY <1>1, <1>7 DEF Strayed, InPass, Executed
<1>3. ASSUME NEW i \in 1..Len(tx'), NEW unit, unit = tx'[i], IsPlanned(unit)
      PROVE  i = Len(tx') /\ ((unit.op = Current' /\ Ordered') \/ Strayed(unit.op)')
  <2>1. PICK j \in 1..Len(tx) : unit = tx[j] /\ (j = Len(tx) => i = Len(tx')) /\ tx # << >>
    <3>1. CASE tx' = tx
      <4>1. tx # << >>
        BY <1>3, <3>1, EmptySeq DEF Typed
      <4> QED
        BY <1>3, <3>1, <4>1
    <3>2. CASE tx # << >> /\ tx' = Tail(tx)
      BY <1>3, <3>2, Rest DEF Typed
    <3> QED
      BY <3>1, <3>2
  <2>2. IsPlanned(tx[j])
    BY <1>3, <2>1
  <2>3. j = Len(tx) /\ ((tx[j].op = Current /\ Ordered) \/ Strayed(tx[j].op))
    BY <2>2 DEF Order, InFlight
  <2>4. Ordered => Ordered'
    BY <1>2, <2>1 DEF Ordered
  <2>5. j = Len(tx) /\ ((unit.op = Current /\ Ordered) \/ Strayed(unit.op))
    BY <2>1, <2>3
  <2>6. Strayed(unit.op) => Strayed(unit.op)'
    BY <1>7
  <2> QED
    BY <1>1, <2>1, <2>4, <2>5, <2>6
<1>4. dev' = "rawin" => Expected'
  BY <1>1, <1>2 DEF Order, InFlight, Expected
<1>5. InFlight'
  BY <1>1, <1>3, <1>4 DEF InFlight
<1> QED
  BY <1>2, <1>5, <1>6 DEF Order

\* Nothing of the plan is on its way, except what strays.
Straying(q) == \A i \in 1..Len(q) : IsPlanned(q[i]) => i = Len(q) /\ Strayed(q[i].op)
Clear == dev # "rawin" /\ Straying(tx)

\* It is not when the host is elsewhere, or when the operation was done.
LEMMA IsClear ==
    ASSUME Order,
           \/ hpc \in {"configure", "configured", "reconfigured", "next", "raw_in", "read_close",
                       "read_abort", "bootable", "reset"}
           \/ ~Pending
    PROVE  Clear
  BY DEF Order, InFlight, Ordered, Expected, Clear, Straying

\* What strays still does when the host moves on.
LEMMA StillStraying ==
    ASSUME Straying(tx), tx' = tx, setup' = setup, done' = done, up' => up,
           Passed \in Nat /\ Passed' \in Nat /\ (Passed <= Passed' \/ Passed = 0)
    PROVE  Straying(tx)'
<1>1. ThePlan' = ThePlan
  BY DEF ThePlan
<1>2. ASSUME NEW op, Strayed(op) PROVE Strayed(op)'
  <2>1. PICK q \in 1..Passed : ThePlan[q] = op /\ \A j \in q..Len(ThePlan) : ~Executed(ThePlan[j])
    BY <1>2 DEF Strayed
  <2>2. q \in 1..Passed'
    BY <2>1
  <2>3. (~up /\ InPass(op))'
    BY <1>2 DEF Strayed, InPass
  <2> QED
    BY <1>1, <2>1, <2>2, <2>3 DEF Strayed, Executed
<1> QED
  BY <1>2 DEF Straying, IsPlanned

\* It does so only while the host is among the erases of --erase-all.
LEMMA NothingStrays ==
    ASSUME Typed, Order, todo = << >> \/ Probing \/ ~InPass(Current)
    PROVE  \A op : ~Strayed(op)
<1> SUFFICES ASSUME NEW op, Strayed(op) PROVE FALSE
  OBVIOUS
<1>1. Len(ThePlan) \in Nat /\ Passed \in Nat /\ (todo = << >> <=> Len(todo) = 0) /\ Len(todo) \in Nat
  BY Place DEF Order
<1>2. PICK q \in 1..Passed : \A j \in q..Len(ThePlan) : ~Executed(ThePlan[j])
  BY DEF Strayed
<1>3. Passed <= Len(ThePlan)
  BY <1>1 DEF Passed, Probing
<1>4. ~Executed(ThePlan[q])
  BY <1>1, <1>2, <1>3
<1>5. Passed < Len(ThePlan) /\ PassAt(Passed + 1)
  BY <1>1, <1>2, <1>4 DEF Order, Performed
<1>6. ~Probing
  BY <1>1, <1>2 DEF Passed
<1>7. todo # << >>
  BY <1>1, <1>5, <1>6 DEF Passed, Probing
<1>8. Current = ThePlan[Passed + 1]
  BY <1>6, <1>7, Place DEF Order
<1> QED
  BY <1>5, <1>6, <1>7, <1>8 DEF PassAt

\* The host goes on to what is not an operation.
LEMMA Elsewhere ==
    ASSUME Typed, Order, Clear, UNCHANGED << setup, todo, succeeded, done, dev >>,
           hpc \notin Working \cup {"end"}, hpc' \notin Working, Outcome',
           up' = up,
           tx' = tx \/ \E op : /\ up /\ tx' = Append(tx, Cmd(op))
                              /\ op.kind \in {"configure", "setbootable", "power"}
    PROVE  Order'
<1>1. ThePlan' = ThePlan /\ Probing' = Probing /\ Passed' = Passed
  BY DEF ThePlan, Probing, Passed
<1>2. Remaining' /\ Performed' /\ Credited' /\ Counted'
  BY <1>1 DEF Order, Remaining, Performed, Credited, Executed, PassAt, InPass, Counted
<1>3. Straying(tx)'
  <2>1. CASE tx' = tx
    BY <1>1, <2>1, StillStraying, Place DEF Clear, Order
  <2>2. ASSUME NEW op, up, tx' = Append(tx, Cmd(op)), op.kind \in {"configure", "setbootable", "power"},
               NEW i \in 1..Len(tx')
        PROVE  ~IsPlanned(tx'[i])
    <3>1. /\ Len(Append(tx, Cmd(op))) = Len(tx) + 1 /\ Len(tx) \in Nat
          /\ \A k \in 1..Len(tx) : Append(tx, Cmd(op))[k] = tx[k]
          /\ Append(tx, Cmd(op))[Len(tx) + 1] = Cmd(op)
      BY Extended DEF Typed
    <3>2. i \in 1..Len(tx) \/ i = Len(tx) + 1
      BY <2>2, <3>1
    <3>3. ~IsPlanned(Cmd(op))
      BY <2>2 DEF IsPlanned, Cmd
    <3> QED
      BY <2>2, <3>1, <3>2, <3>3 DEF Clear, Straying, Strayed
  <2> QED
    BY <2>1, <2>2 DEF Straying
<1>4. InFlight'
  BY <1>3 DEF InFlight, Clear, Straying
<1> QED
  BY <1>2, <1>4 DEF Order, Apart

\* The host goes on with what is left after the current operation.
LEMMA Advances ==
    ASSUME Typed, Order, todo # << >>, setup' = setup, todo' = Tail(todo)
    PROVE  /\ ThePlan' = ThePlan /\ Remaining'
           /\ Probing => Passed = 0 /\ Passed' = 0
           /\ ~Probing => ~Probing' /\ Passed' = Passed + 1
<1>1. /\ Len(ThePlan) \in Nat /\ Len(todo) \in Nat \ {0}
      /\ Len(todo') = Len(todo) - 1 /\ \A i \in 1..Len(todo') : todo'[i] = todo[i + 1]
  BY Place, HeadTailProperties DEF Typed, Order
<1>2. ThePlan' = ThePlan
  BY DEF ThePlan
<1>3. Remaining'
  <2>1. ASSUME NEW i \in 1..Len(todo')
        PROVE  IF Len(ThePlan) + i > Len(todo') THEN todo'[i] = ThePlan[Len(ThePlan) - Len(todo') + i]
               ELSE todo'[i].kind = "probe"
    <3>1. i + 1 \in 1..Len(todo) /\ (Len(ThePlan) + (i + 1) > Len(todo) <=> Len(ThePlan) + i > Len(todo'))
          /\ Len(ThePlan) - Len(todo) + (i + 1) = Len(ThePlan) - Len(todo') + i
      BY <1>1
    <3> QED
      BY <1>1, <3>1 DEF Order, Remaining
  <2> QED
    BY <1>2, <2>1 DEF Remaining
<1>4. ASSUME Probing PROVE Passed = 0 /\ Passed' = 0
  <2>1. Passed = 0
    BY <1>4 DEF Passed
  <2>2. Len(todo) > Len(ThePlan)
    BY <1>4 DEF Probing
  <2>3. CASE Probing'
    BY <2>1, <2>3 DEF Passed
  <2>4. CASE ~Probing'
    <3>1. ~(Len(todo') > Len(ThePlan'))
      BY <2>4 DEF Probing
    <3>2. Len(todo') = Len(ThePlan')
      BY <1>1, <1>2, <2>2, <3>1
    <3>3. Passed' = Len(ThePlan') - Len(todo')
      BY <2>4 DEF Passed
    <3> QED
      BY <1>1, <1>2, <2>1, <3>2, <3>3
  <2> QED
    BY <2>3, <2>4
<1>5. ASSUME ~Probing PROVE ~Probing' /\ Passed' = Passed + 1
  <2>1. ~(Len(todo) > Len(ThePlan)) /\ Passed = Len(ThePlan) - Len(todo)
    BY <1>5 DEF Probing, Passed
  <2>2. ~(Len(todo') > Len(ThePlan'))
    BY <1>1, <1>2, <2>1
  <2>3. ~Probing'
    BY <2>2 DEF Probing
  <2>4. Passed' = Len(ThePlan') - Len(todo')
    BY <2>3 DEF Passed
  <2> QED
    BY <1>1, <1>2, <2>1, <2>3, <2>4
<1> QED
  BY <1>2, <1>3, <1>4, <1>5

\* Nothing is on its way once the operation under way was acknowledged.
LEMMA AckedIsClear ==
    ASSUME Order, hpc \in Working, Acked
    PROVE  Clear /\ (~Probing => Executed(Current))
<1>1. ~Probing => Executed(Current)
  BY DEF Order, Counted
<1> QED
  BY <1>1, IsClear DEF Pending

\* The host goes on with the next operation, after one that was done.
LEMMA CreditedInOrder ==
    ASSUME Typed, Listening, Order, OpSucceeds, hpc \in Working, Acked, ~InPass(Current),
           UNCHANGED << setup, done, tx, dev, up >>
    PROVE  Order'
<1>1. /\ hpc' = "next" /\ result' = result /\ todo # << >> /\ succeeded' = succeeded \cup {Current.id}
      /\ todo' = IF Current.kind = "probe" THEN ThePlan ELSE Tail(todo)
  BY DEF OpSucceeds, Listening
<1>2. /\ Len(ThePlan) \in Nat /\ Len(todo) \in Nat \ {0} /\ ThePlan \in Seq(Operation)
      /\ (Probing <=> Current.kind = "probe") /\ (Probing <=> Current.id \in ProbeIds)
  BY <1>1, Place, PlanIsTyped DEF Typed, Order
<1>3. ThePlan' = ThePlan
  BY DEF ThePlan
<1>4. Clear /\ (~Probing => Executed(Current))
  BY AckedIsClear
<1>5. Credited'
  <2>1. ASSUME NEW i \in 1..Len(ThePlan), PassAt(i), ThePlan[i].id = Current.id PROVE Executed(ThePlan[i])
    <3>1. ThePlan[i].id \notin ProbeIds
      BY <2>1, PassIsErases DEF PassAt, InPass
    <3>2. ~Probing
      BY <1>2, <2>1, <3>1
    <3> QED
      BY <1>4, <2>1, <3>2 DEF Executed
  <2> QED
    BY <1>1, <1>3, <2>1 DEF Order, Credited, Executed, PassAt, InPass
<1>6. InFlight' /\ Counted' /\ Outcome'
  <2>1. \A i \in 1..Len(tx) : ~IsPlanned(tx[i])
    BY <1>4, NothingStrays DEF Clear, Straying
  <2> QED
    BY <1>1, <1>4, <2>1 DEF Order, InFlight, Clear, Counted, Outcome, Working, IsPlanned
<1>7. CASE Probing
  <2>1. todo' = ThePlan /\ ~Probing' /\ Passed' = 0 /\ Passed = 0
    BY <1>1, <1>2, <1>3, <1>7 DEF Probing, Passed
  <2>2. Remaining'
    BY <1>2, <1>3, <2>1 DEF Remaining
  <2>3. Performed'
    BY <1>3, <1>7, <2>1 DEF Order, Performed, Executed
  <2> QED
    BY <1>1, <1>5, <1>6, <2>2, <2>3 DEF Order, Apart, Working
<1>8. CASE ~Probing
  <2>1. Remaining' /\ ~Probing' /\ Passed' = Passed + 1
    BY <1>1, <1>2, <1>8, Advances
  <2>2. Passed \in Nat /\ Passed + 1 \in 1..Len(ThePlan) /\ Current = ThePlan[Passed + 1]
    BY <1>1, <1>8, Place DEF Order
  <2>3. \A i \in 1..Passed + 1 : Executed(ThePlan[i])
    <3>1. \A i \in 1..Passed : Executed(ThePlan[i])
      BY <2>2 DEF Order, Performed, PassAt
    <3>2. Executed(ThePlan[Passed + 1])
      BY <1>4, <1>8, <2>2
    <3> QED
      BY <2>2, <3>1, <3>2
  <2>4. \A i \in 1..Len(ThePlan) : Executed(ThePlan[i]) => i <= Passed + 1
    BY <2>2 DEF Order, Performed
  <2>5. Performed'
    BY <1>3, <2>1, <2>3, <2>4 DEF Performed, Executed
  <2> QED
    BY <1>1, <1>5, <1>6, <2>1, <2>5 DEF Order, Apart, Working
<1> QED
  BY <1>7, <1>8

\* The host ends in an operation.
LEMMA EndedInOrder ==
    ASSUME Typed, Order, hpc \in Working, hpc' = "end", result' = "failed", Credited',
           UNCHANGED << setup, todo, done, tx, dev, devop, up >>
    PROVE  Order'
<1>1. ThePlan' = ThePlan /\ Passed' = Passed /\ Probing' = Probing /\ Current' = Current
  BY DEF ThePlan, Passed, Probing, Current
<1>2. Remaining' /\ Counted' /\ Outcome' /\ Pending' = Pending
  BY <1>1 DEF Order, Remaining, Executed, Pending, Counted, Outcome, Working
<1>3. Performed'
  BY <1>1 DEF Order, Performed, Executed, PassAt, InPass
<1>4. InFlight'
  <2>1. \A op : Strayed(op)' = Strayed(op)
    BY <1>1 DEF Strayed, InPass, Executed
  <2> QED
    BY <1>1, <1>2, <2>1 DEF Order, InFlight, Ordered, Expected, IsPlanned
<1> QED
  BY <1>2, <1>3, <1>4 DEF Order, Apart, Working

\* The host goes on after a probe that failed, or ends.
LEMMA FailedInOrder ==
    ASSUME Typed, Listening, Order, OpFails, hpc \in Working,
           UNCHANGED << setup, done, tx, dev, devop, up >>
    PROVE  Order'
<1>1. /\ todo # << >> /\ succeeded' = succeeded
      /\ IF Current.kind = "probe" THEN hpc' = "next" /\ todo' = Tail(todo) /\ result' = result
         ELSE hpc' = "end" /\ result' = "failed" /\ todo' = todo
  BY DEF OpFails, Listening
<1>2. Probing <=> Current.kind = "probe"
  BY <1>1, Place DEF Order
<1>3. ThePlan' = ThePlan
  BY DEF ThePlan
<1>4. Credited'
  BY <1>1, <1>3 DEF Order, Credited, Executed, PassAt, InPass
<1>5. CASE Probing
  <2>1. Remaining' /\ Passed = 0 /\ Passed' = 0
    BY <1>1, <1>2, <1>5, Advances
  <2>2. Clear
    BY <1>5, IsClear DEF Pending
  <2>3. Performed'
    BY <1>3, <1>5, <2>1 DEF Order, Performed, Executed
  <2>4. InFlight' /\ Counted' /\ Outcome'
    <3>1. \A i \in 1..Len(tx) : ~IsPlanned(tx[i])
      BY <1>5, <2>2, NothingStrays DEF Clear, Straying
    <3> QED
      BY <1>1, <1>2, <1>5, <2>2, <3>1 DEF Order, InFlight, Clear, Counted, Outcome, Working, IsPlanned
  <2> QED
    BY <1>1, <1>2, <1>4, <1>5, <2>1, <2>3, <2>4 DEF Order, Apart, Working
<1>6. CASE ~Probing
  BY <1>1, <1>2, <1>4, <1>6, EndedInOrder
<1> QED
  BY <1>5, <1>6

\* The host goes on with the pass of --erase-all, or ends after its last erase.
LEMMA PassInOrder ==
    ASSUME IInv, Prompt, Order, EraseAllReply
    PROVE  Order'
<1> USE DEF wireVars, linkVars, devVars
<1>1. /\ Typed /\ Listening /\ hpc = "reply" /\ ~reading /\ InPass(Current) /\ hpc \in Working
      /\ UNCHANGED << setup, done, tx, dev, devop, up, resp >>
      /\ succeeded' = IF resp = "ACK" THEN succeeded \cup {Current.id} ELSE succeeded
  BY DEF IInv, Protocol, EraseAllReply, Working, readVars
<1>2. /\ Len(ThePlan) \in Nat /\ Passed \in Nat /\ Passed + 1 \in 1..Len(ThePlan) /\ todo # << >> /\ ~Probing
      /\ Current = ThePlan[Passed + 1] /\ Current.kind = "erase"
  <2>1. Current.kind = "erase"
    BY <1>1, PassIsErases DEF InPass
  <2>2. todo # << >>
    BY <1>1 DEF Listening
  <2> QED
    BY <1>1, <2>1, <2>2, Place DEF Order
<1>3. ThePlan' = ThePlan
  BY <1>1 DEF ThePlan
<1>4. resp = "ACK" => Executed(Current)
  BY <1>1, <1>2, AckedIsClear DEF Acked
<1>5. Credited'
  BY <1>1, <1>3, <1>4 DEF Order, Credited, Executed, PassAt, InPass
<1>6. CASE hpc' = "end"
  BY <1>1, <1>5, <1>6, EndedInOrder DEF EraseAllReply
<1>7. CASE hpc' = "next"
  <2>1. /\ todo' = Tail(todo) /\ result' = result
        /\ \/ Current # EraseAllOps[Len(EraseAllOps)]
           \/ \A op \in Range(EraseAllOps) : op.id \in succeeded'
    BY <1>7 DEF EraseAllReply
  <2>2. Remaining' /\ ~Probing' /\ Passed' = Passed + 1
    BY <1>1, <1>2, <2>1, Advances
  <2>3. /\ \A i \in 1..Len(ThePlan) : Executed(ThePlan[i]) => i <= Passed + 1
        /\ \A i \in 1..Passed + 1 : Executed(ThePlan[i]) \/ PassAt(i)
    <3>1. \A i \in 1..Passed : Executed(ThePlan[i]) \/ PassAt(i)
      BY DEF Order, Performed
    <3>2. PassAt(Passed + 1)
      BY <1>1, <1>2 DEF PassAt
    <3>3. \A i \in 1..Passed + 1 : i \in 1..Passed \/ i = Passed + 1
      BY <1>2
    <3>4. \A i \in 1..Len(ThePlan) : Executed(ThePlan[i]) => i <= Passed + 1
      BY <1>2 DEF Order, Performed
    <3> QED
      BY <3>1, <3>2, <3>3, <3>4
  <2>4. \/ \A i \in 1..Passed + 1 : Executed(ThePlan[i])
        \/ Passed + 1 < Len(ThePlan) /\ PassAt(Passed + 1 + 1)
    <3>1. CASE \A op \in Range(EraseAllOps) : op.id \in succeeded'
      <4>1. ASSUME NEW i \in 1..Passed + 1, PassAt(i) PROVE Executed(ThePlan[i])
        <5>1. i \in 1..Len(ThePlan) /\ ThePlan[i].id \in succeeded'
          BY <1>2, <3>1, <4>1 DEF PassAt, InPass
        <5> QED
          BY <1>1, <1>3, <1>5, <4>1, <5>1 DEF Credited, Executed, PassAt, InPass
      <4> QED
        BY <2>3, <4>1
    <3>2. CASE Current # EraseAllOps[Len(EraseAllOps)]
      <4> DEFINE a == Len(OfKind("read"))
      <4>1. /\ setup \in Setups /\ setup.erase_all
        BY <1>1 DEF Typed, InPass
      <4>2. /\ a \in Nat /\ Len(EraseAllOps) \in Nat /\ a + Len(EraseAllOps) <= Len(ThePlan)
            /\ \A i \in 1..Len(EraseAllOps) : ThePlan[a + i] = EraseAllOps[i]
            /\ \A i, j \in 1..Len(ThePlan) : ThePlan[i].id = ThePlan[j].id => i = j
        BY <4>1, EraseAllPlan
      <4> HIDE DEF a
      <4>3. PICK k \in 1..Len(EraseAllOps) : Current = EraseAllOps[k]
        BY <1>1, InRange DEF InPass
      <4>4. a + k = Passed + 1 /\ k < Len(EraseAllOps)
        <5>1. a + k \in 1..Len(ThePlan) /\ ThePlan[a + k] = Current
          BY <1>2, <4>2, <4>3
        <5>2. a + k = Passed + 1
          BY <1>2, <4>2, <5>1
        <5>3. k # Len(EraseAllOps)
          BY <3>2, <4>3
        <5> QED
          BY <4>2, <5>2, <5>3
      <4>5. k + 1 \in 1..Len(EraseAllOps) /\ a + (k + 1) = Passed + 1 + 1
        BY <1>2, <4>2, <4>4
      <4>6. ThePlan[Passed + 1 + 1] = EraseAllOps[k + 1] /\ EraseAllOps[k + 1] \in Range(EraseAllOps)
        BY <4>2, <4>5, InRange
      <4> QED
        BY <1>2, <4>1, <4>2, <4>4, <4>6 DEF PassAt, InPass
    <3> QED
      BY <2>1, <3>1, <3>2
  <2>5. Performed'
    BY <1>1, <1>3, <2>2, <2>3, <2>4 DEF Performed, Executed, PassAt, InPass
  <2>6. Straying(tx)'
    <3>1. ASSUME NEW i \in 1..Len(tx), IsPlanned(tx[i]), ~Strayed(tx[i].op) PROVE i = Len(tx) /\ Strayed(tx[i].op)'
      <4>1. i = Len(tx) /\ tx[i].op = Current /\ ~Executed(Current)
        BY <3>1 DEF Order, InFlight, Ordered, Pending
      <4>2. ~up
        <5>1. up => Quiet
          BY <1>1, <1>2 DEF IInv, Protocol, Phase, Answered, Expecting
        <5> QED
          BY <3>1, <5>1, Short DEF Quiet
      <4>3. \A j \in Passed + 1..Len(ThePlan) : ~Executed(ThePlan[j])
        BY <1>2, <2>3, <4>1
      <4> QED
        BY <1>1, <1>2, <1>3, <2>2, <4>1, <4>2, <4>3 DEF Strayed, InPass, Executed
    <3>2. \A op : Strayed(op) => Strayed(op)'
      <4> SUFFICES ASSUME NEW op, Strayed(op) PROVE Strayed(op)'
        OBVIOUS
      <4>1. PICK q \in 1..Passed : ThePlan[q] = op /\ \A j \in q..Len(ThePlan) : ~Executed(ThePlan[j])
        BY DEF Strayed
      <4>2. q \in 1..Passed'
        BY <1>2, <2>2
      <4> QED
        BY <1>1, <1>3, <4>1, <4>2 DEF Strayed, InPass, Executed
    <3>3. \A i \in 1..Len(tx) : IsPlanned(tx[i]) => i = Len(tx)
      BY DEF Order, InFlight
    <3> QED
      BY <1>1, <3>1, <3>2, <3>3 DEF Straying, IsPlanned
  <2>7. InFlight'
    <3>1. dev' # "rawin"
      BY <1>1, <1>2 DEF Order, InFlight, Expected
    <3> QED
      BY <2>6, <3>1 DEF InFlight, Straying
  <2>8. Counted' /\ Outcome'
    BY <1>1, <1>7, <2>1 DEF Order, Counted, Outcome, Working
  <2> QED
    BY <1>5, <1>7, <2>2, <2>5, <2>7, <2>8 DEF Order, Apart, Working
<1> QED
  BY <1>6, <1>7 DEF EraseAllReply

\* The host moves on within an operation that was announced.
LEMMA Within ==
    ASSUME Typed, Order, UNCHANGED << Places, done, dev, devop >>, hpc \in Working, hpc' \in Working,
           hpc = "reply" /\ Current.kind = "erase" => hpc' = "reply",
           Straying(tx), up' = up, tx' = tx \/ \E u : up /\ tx' = Append(tx, u) /\ ~IsPlanned(u),
           dev = "rawin" => hpc' = "raw_out" \/ (hpc' = "raw_sent" /\ resp' # "ACK"),
           Acked' => Acked
    PROVE  Order'
<1> USE DEF Places
<1>1. ThePlan' = ThePlan /\ Current' = Current /\ Probing' = Probing /\ Passed' = Passed
  BY DEF ThePlan, Current, Probing, Passed
<1>2. Remaining' /\ Counted' /\ Pending' = Pending
  BY <1>1 DEF Order, Remaining, Executed, Counted, Pending
<1>6. Performed' /\ Credited' /\ Apart'
  BY <1>1 DEF Order, Performed, Credited, Apart, Executed, PassAt, InPass
<1>3. Outcome'
  BY DEF Order, Outcome, Working
<1>4. Straying(tx)'
  <2>1. CASE tx' = tx
    BY <1>1, <2>1, StillStraying, Place DEF Order
  <2>2. ASSUME NEW u, up, tx' = Append(tx, u), ~IsPlanned(u), NEW i \in 1..Len(tx') PROVE ~IsPlanned(tx'[i])
    <3>1. /\ Len(Append(tx, u)) = Len(tx) + 1 /\ Len(tx) \in Nat
          /\ \A k \in 1..Len(tx) : Append(tx, u)[k] = tx[k]
          /\ Append(tx, u)[Len(tx) + 1] = u
      BY Extended DEF Typed
    <3>2. i \in 1..Len(tx) \/ i = Len(tx) + 1
      BY <2>2, <3>1
    <3> QED
      BY <2>2, <3>1, <3>2 DEF Straying, Strayed
  <2> QED
    BY <2>1, <2>2 DEF Straying
<1>5. dev' = "rawin" => Expected'
  BY <1>1, <1>2 DEF Order, InFlight, Expected
<1> QED
  BY <1>2, <1>3, <1>4, <1>5, <1>6 DEF Order, InFlight, Straying

\* The next operation is sent.
LEMMA SentInOrder ==
    ASSUME Typed, Order, SendNext, todo # << >>, up => Quiet
    PROVE  Order'
<1> USE DEF Places, devVars, linkVars, opVars
<1>1. /\ hpc = "next" /\ hpc' = "reply" /\ resp' = "none" /\ tx' = (IF up THEN Append(tx, Cmd(Current)) ELSE tx)
      /\ UNCHANGED << Places, done, dev, devop, rx, up >>
  BY DEF SendNext, Send, Await, Put, Current
<1>2. ThePlan' = ThePlan /\ Current' = Current /\ Probing' = Probing /\ Passed' = Passed
  BY <1>1 DEF ThePlan, Current, Probing, Passed
<1>3. (~Probing => ~Executed(Current)) /\ Clear
  <2>1. ~Probing => /\ Passed \in Nat /\ Passed + 1 \in 1..Len(ThePlan) /\ Current = ThePlan[Passed + 1]
    BY Place DEF Order
  <2>2. ~Probing => ~Executed(Current)
    BY <1>1, <2>1 DEF Order, Performed, Working
  <2> QED
    BY <1>1, <2>2, IsClear
<1>4. Remaining' /\ Performed' /\ Credited'
  <2>1. Remaining' /\ Credited'
    BY <1>1, <1>2 DEF Order, Remaining, Credited, Executed, PassAt, InPass
  <2>2. \A op : Executed(op)' = Executed(op) /\ InPass(op)' = InPass(op)
    BY <1>1 DEF Executed, InPass
  <2>3. /\ \A i \in 1..Len(ThePlan) : Executed(ThePlan[i]) => i <= Passed
        /\ \A i \in 1..Passed : Executed(ThePlan[i]) \/
              (PassAt(i) /\ Passed < Len(ThePlan) /\ PassAt(Passed + 1))
    BY <1>1 DEF Order, Performed, Working
  <2> QED
    BY <1>2, <2>1, <2>2, <2>3 DEF Performed, PassAt
<1>5. Outcome'
  BY <1>1 DEF Order, Outcome
<1>6. Counted'
  BY <1>1, Short DEF Counted, Acked, Typed, Quiet
<1>7. InFlight'
  <2>1. CASE up
    <3>1. tx' = << Cmd(Current) >> /\ Len(tx') = 1 /\ tx'[1] = Cmd(Current)
      BY <1>1, <2>1, Short DEF Quiet
    <3>2. IsPlanned(Cmd(Current)) => ~Probing
      BY Place DEF Order, IsPlanned, Cmd
    <3>3. Probing \/ Pending'
      <4>1. todo' # << >> /\ Executed(Current)' = Executed(Current)
        BY <1>1, <1>2 DEF Executed
      <4> QED
        BY <1>2, <1>3, <4>1 DEF Pending
    <3>4. ASSUME NEW i \in 1..Len(tx'), NEW unit, unit = tx'[i], IsPlanned(unit)
          PROVE  i = Len(tx') /\ unit.op = Current' /\ Ordered'
      <4>1. i = 1 /\ unit = Cmd(Current)
        BY <3>1, <3>4
      <4>2. unit.op = Current
        BY <4>1 DEF Cmd
      <4>3. Ordered'
        BY <1>1, <3>2, <3>3, <3>4, <4>1 DEF Ordered
      <4> QED
        BY <1>2, <3>1, <4>1, <4>2, <4>3
    <3>5. dev' # "rawin"
      BY <1>1, <1>3 DEF Clear
    <3> QED
      BY <3>4, <3>5 DEF InFlight
  <2>2. CASE ~up
    <3>1. tx' = tx /\ dev' # "rawin" /\ Straying(tx) /\ setup' = setup /\ done' = done /\ up' = up
      BY <1>1, <1>3, <2>2 DEF Clear
    <3>2. ASSUME NEW op, Strayed(op) PROVE Strayed(op)'
      BY <1>2, <3>1, <3>2 DEF Strayed, InPass, Executed
    <3> QED
      BY <3>1, <3>2 DEF InFlight, Straying, IsPlanned
  <2> QED
    BY <2>1, <2>2
<1> QED
  BY <1>1, <1>4, <1>5, <1>6, <1>7 DEF Order, Apart

\* Every step of the host keeps the order.
LEMMA HostKeepsOrder == ASSUME IInv, Prompt, Order, HostNext PROVE Order'
<1> USE DEF Places, devVars, linkVars, opVars, wireVars, readVars, rawVars
<1>1. Typed /\ Listening /\ (up => Phase) /\ ~OpenFails /\ ~FileReadFails
  BY DEF IInv, Protocol, Prompt, OpenFails, FileReadFails
<1>2. CASE ReadUnits
  <2>1. /\ up /\ UNCHANGED << Places, done, hpc, tx, dev, devop, up >> /\ (hpc \in Working /\ Acked' => Acked)
    BY <1>2, Heard DEF ReadUnits
  <2>2. ASSUME resp' = "ACK", resp # "ACK", hpc = "reply" \/ (hpc = "raw_sent" /\ dev = "rawin")
        PROVE  ~Pending \/ (tx = << >> /\ hpc = "reply")
    <3>1. CASE "ACK" \in Types(rx)
      BY <2>2, <3>1, Place DEF Order, Counted, Acked, Working, Pending
    <3>2. CASE "ACK" \notin Types(rx)
      <4>1. hpc = "reply" /\ Replied(Current) /\ "RAW" \in Types(rx)
        BY <1>2, <2>2, <3>2, Heard DEF NoRaw
      <4> QED
        BY <4>1 DEF Replied, Sent, Expecting, Served
    <3> QED
      BY <3>1, <3>2
  <2>3. ~Pending => Clear
    BY IsClear
  <2>4. CASE tx = << >> \/ resp' # "ACK" \/ resp = "ACK" \/ hpc # "reply"
    <3>1. hpc = "raw_sent" /\ resp' = "ACK" /\ resp # "ACK" => dev # "rawin"
      BY <2>2, <2>3 DEF Clear
    <3> QED
      BY <1>1, <2>1, <2>4, <3>1, Unmoved
  <2>5. CASE tx # << >> /\ resp' = "ACK" /\ resp # "ACK" /\ hpc = "reply"
    <3>1. Clear
      BY <2>2, <2>3, <2>5
    <3> QED
      BY <1>1, <2>1, <2>5, <3>1, Within DEF Clear, Working
  <2> QED
    BY <2>4, <2>5
<1>3. CASE ReadTimesOut \/ ReadFails
  <2>1. /\ UNCHANGED << Places, done, hpc, tx, rx, dev, devop, up >>
        /\ (resp' = "ACK" => resp = "ACK")
    BY <1>3 DEF ReadTimesOut, ReadFails
  <2>2. Acked' => Acked
    BY <2>1 DEF Acked, Current
  <2> QED
    BY <1>1, <2>1, <2>2, Unmoved
<1>4. CASE SendConfigure \/ Configured \/ Reconfigured
  <2>1. hpc \in {"configure", "configured", "reconfigured"} /\ UNCHANGED << setup, todo, succeeded, done, dev, up >>
    BY <1>4 DEF SendConfigure, Configured, Reconfigured, Return
  <2>2. hpc' \in {"configure", "configured", "reconfigured", "next", "end"}
        /\ IF hpc' = "end" THEN result' = "failed" ELSE result' = result
    BY <1>4 DEF SendConfigure, Configured, Reconfigured, Return, Send
  <2>3. tx' = tx \/ (up /\ tx' = Append(tx, Cmd(Configure)))
    BY <1>4 DEF SendConfigure, Configured, Reconfigured, Send, Put
  <2>4. Configure.kind = "configure"
    BY DEF Configure, Op
  <2>5. Outcome'
    BY <2>1, <2>2 DEF Order, Outcome
  <2> QED
    BY <1>1, <2>1, <2>2, <2>3, <2>4, <2>5, IsClear, Elsewhere DEF Working
<1>5. CASE SendNext \/ Bootabled
  <2>1. CASE SendNext /\ todo # << >>
    BY <1>1, <2>1, SentInOrder DEF SendNext, Phase
  <2>2. CASE Bootabled \/ (SendNext /\ todo = << >>)
    <3>1. /\ hpc \in {"next", "bootable"} /\ hpc' \in {"bootable", "reset"} /\ UNCHANGED << Places, done, dev, up >>
          /\ \E op \in {Bootable, Reset} : tx' = (IF up THEN Append(tx, Cmd(op)) ELSE tx)
      BY <2>2 DEF SendNext, Bootabled, Send, Put
    <3>2. Bootable.kind = "setbootable" /\ Reset.kind = "power"
      BY DEF Bootable, Reset, Op
    <3>3. Outcome'
      BY <2>2, <3>1 DEF Order, Outcome, Bootabled
    <3> QED
      BY <1>1, <3>1, <3>2, <3>3, IsClear, Elsewhere DEF Working
  <2> QED
    BY <1>5, <2>1, <2>2
<1>6. CASE Finished
  <2>1. hpc = "reset" /\ hpc' = "end" /\ result' = "ok" /\ UNCHANGED << setup, todo, succeeded, done, tx, dev, up >>
    BY <1>6 DEF Finished, Return
  <2>2. Outcome'
    BY <2>1 DEF Order, Outcome
  <2> QED
    BY <1>1, <2>1, <2>2, IsClear, Elsewhere DEF Working
<1>7. CASE RawReply /\ resp = "ACK"
  <2>1. /\ hpc = "reply" /\ UNCHANGED << Places, done, tx, rx, dev, devop, resp, up >>
        /\ hpc' = (IF Current.kind = "program" THEN "raw_out" ELSE "raw_in") /\ Current.kind # "erase"
    BY <1>7 DEF RawReply
  <2>2. Straying(tx)
    BY <1>7, <2>1 DEF Order, InFlight, Ordered, Straying
  <2>3. dev = "rawin" => hpc' = "raw_out"
    BY <2>1 DEF Order, InFlight, Expected
  <2>4. Acked' => Acked
    BY <2>1 DEF Acked
  <2> QED
    BY <1>1, <2>1, <2>2, <2>3, <2>4, Within DEF Working
<1>8. CASE SimpleReply \/ (RawReply /\ resp # "ACK") \/ Programmed \/ ReadDone
  <2>1. /\ hpc \in Working /\ UNCHANGED << setup, done, tx, dev, devop, up >>
        /\ (OpSucceeds /\ Acked) \/ OpFails
    BY <1>8 DEF SimpleReply, RawReply, Programmed, ReadDone, Working, Acked
  <2>2. OpSucceeds => ~InPass(Current)
    BY <1>8, PassIsErases DEF SimpleReply, RawReply, Programmed, ReadDone, Order, Apart, Working, InPass
  <2> QED
    BY <1>1, <2>1, <2>2, CreditedInOrder, FailedInOrder
<1>9. CASE SendChunk \/ ChunkWriteFails
  <2>1. /\ hpc = "raw_out" /\ UNCHANGED << Places, done, rx, dev, devop, up >>
        /\ (hpc' = "raw_out" /\ resp' = resp) \/ (hpc' = "raw_sent" /\ resp' = "none")
        /\ tx' = tx \/ \E n : up /\ tx' = Append(tx, Data(Current.id, n))
    BY <1>9 DEF SendChunk, ChunkWriteFails, Put, Await
  <2>2. \A n : ~IsPlanned(Data(Current.id, n))
    BY DEF IsPlanned, Data
  <2>3. Straying(tx)
    BY <2>1 DEF Order, InFlight, Ordered, Straying
  <2>4. Acked' => Acked
    BY <2>1 DEF Acked
  <2> QED
    BY <1>1, <2>1, <2>2, <2>3, <2>4, Within DEF Working
<1>10. CASE DrainRemainder \/ RawIn \/ RawInFails
  <2>1. /\ hpc = "raw_in" /\ UNCHANGED << Places, done, dev, devop, tx, up >>
        /\ rx' = rx \/ (rx # << >> /\ rx' = Tail(rx))
        /\ \/ hpc' = "raw_in"
           \/ hpc' \in {"read_close", "read_abort"} /\ resp' = "none"
    BY <1>10 DEF DrainRemainder, RawIn, RawInFails, TakeUnits, Await
  <2>2. Types(rx') \subseteq Types(rx)
    BY <1>1, <2>1, Rest DEF Typed
  <2>3. Acked' => Acked
    BY <2>1, <2>2 DEF Acked
  <2>4. Clear
    BY <2>1, IsClear
  <2> QED
    BY <1>1, <2>1, <2>3, <2>4, Within DEF Working, Clear
<1>11. CASE EraseAllReply
  BY <1>11, PassInOrder
<1> QED
  BY <1>1, <1>2, <1>3, <1>4, <1>5, <1>6, <1>7, <1>8, <1>9, <1>10, <1>11 DEF HostNext

\* The contract allows the operation at q to be carried out.
Due(q) ==
    /\ \A i \in q..Len(ThePlan) : ~Executed(ThePlan[i])
    /\ \A i \in 1..q - 1 : Executed(ThePlan[i]) \/ (PassAt(i) /\ PassAt(q))

\* The operation under way is due, and so is an erase that strays.
LEMMA IsDue ==
    ASSUME Typed, Order
    PROVE  /\ Pending => Passed + 1 \in 1..Len(ThePlan) /\ Current = ThePlan[Passed + 1] /\ Due(Passed + 1)
           /\ \A op : Strayed(op) => \E q \in 1..Len(ThePlan) : q <= Passed /\ ThePlan[q] = op /\ Due(q)
<1>1. Len(ThePlan) \in Nat /\ Passed \in Nat /\ Len(todo) \in Nat
  BY Place DEF Order
<1>2. Passed <= Len(ThePlan)
  BY <1>1 DEF Passed, Probing
<1>3. ASSUME Pending PROVE Passed + 1 \in 1..Len(ThePlan) /\ Current = ThePlan[Passed + 1] /\ Due(Passed + 1)
  <2>1. Passed + 1 \in 1..Len(ThePlan) /\ Current = ThePlan[Passed + 1]
    BY <1>3, Place DEF Pending, Order
  <2>2. ASSUME NEW i \in Passed + 1..Len(ThePlan) PROVE ~Executed(ThePlan[i])
    BY <1>1, <1>3, <2>1 DEF Pending, Order, Performed
  <2>3. ASSUME NEW i \in 1..Passed PROVE Executed(ThePlan[i]) \/ (PassAt(i) /\ PassAt(Passed + 1))
    BY DEF Order, Performed
  <2> QED
    BY <1>1, <2>1, <2>2, <2>3 DEF Due
<1>4. ASSUME NEW op, Strayed(op)
      PROVE  \E q \in 1..Len(ThePlan) : q <= Passed /\ ThePlan[q] = op /\ Due(q)
  <2>1. PICK q \in 1..Passed : ThePlan[q] = op /\ \A i \in q..Len(ThePlan) : ~Executed(ThePlan[i])
    BY <1>4 DEF Strayed
  <2>2. PassAt(q)
    BY <1>4, <2>1 DEF Strayed, PassAt
  <2>3. ASSUME NEW i \in 1..q - 1 PROVE Executed(ThePlan[i]) \/ PassAt(i)
    <3>1. i \in 1..Passed
      BY <1>1, <2>1
    <3> QED
      BY <3>1 DEF Order, Performed
  <2> QED
    BY <1>1, <1>2, <2>1, <2>2, <2>3 DEF Due
<1> QED
  BY <1>3, <1>4

\* An operation that is due is done, once.
LEMMA DoneInOrder ==
    ASSUME Typed, Order, NEW q \in 1..Len(ThePlan), Due(q), done' = Append(done, ThePlan[q].id),
           \/ q <= Passed /\ (Acked' => Acked)
           \/ q = Passed + 1 /\ ~Probing /\ hpc \in Working \cup {"end"},
           UNCHANGED << Places, hpc >>, \A i \in 1..Len(tx') : ~IsPlanned(tx'[i]), dev' # "rawin"
    PROVE  Order'
<1> USE DEF Places
<1>1. /\ Len(ThePlan) \in Nat /\ Passed \in Nat
      /\ todo # << >> /\ ~Probing => Passed + 1 \in 1..Len(ThePlan) /\ Current = ThePlan[Passed + 1]
  BY Place DEF Order
<1>2. /\ Len(done') = Len(done) + 1 /\ Len(done) \in Nat
      /\ \A i \in 1..Len(done) : done'[i] = done[i]
      /\ done'[Len(done) + 1] = ThePlan[q].id
  <2>1. /\ Len(Append(done, ThePlan[q].id)) = Len(done) + 1 /\ Len(done) \in Nat
        /\ \A i \in 1..Len(done) : Append(done, ThePlan[q].id)[i] = done[i]
        /\ Append(done, ThePlan[q].id)[Len(done) + 1] = ThePlan[q].id
    BY Extended DEF Typed
  <2> QED
    BY <2>1
<1>3. ThePlan' = ThePlan /\ Probing' = Probing /\ Passed' = Passed /\ Current' = Current
  BY DEF ThePlan, Probing, Passed, Current
<1>4. \A op : Executed(op)' <=> Executed(op) \/ op.id = ThePlan[q].id
  <2>1. \A i \in 1..Len(done') : i \in 1..Len(done) \/ i = Len(done) + 1
    BY <1>2
  <2>2. \A i \in 1..Len(done) : i \in 1..Len(done')
    BY <1>2
  <2>3. Len(done) + 1 \in 1..Len(done')
    BY <1>2
  <2> QED
    BY <1>2, <2>1, <2>2, <2>3 DEF Executed
<1>5. Performed'
  <2>1. ASSUME NEW i \in 1..Len(ThePlan), Executed(ThePlan[i])'
        PROVE  i <= Passed \/ (i = Passed + 1 /\ ~Probing /\ hpc \in Working \cup {"end"})
    <3>1. Executed(ThePlan[i]) \/ i = q
      BY <1>3, <1>4, <2>1, Identities
    <3> QED
      BY <3>1 DEF Order, Performed
  <2>2. \A i \in 1..Passed : Executed(ThePlan[i])' \/ (PassAt(i) /\ Passed < Len(ThePlan) /\ PassAt(Passed + 1))
    BY <1>3, <1>4 DEF Order, Performed
  <2>3. \A i : PassAt(i)' = PassAt(i)
    BY <1>3 DEF PassAt, InPass
  <2>4. \A i : ThePlan'[i] = ThePlan[i]
    BY <1>3
  <2> QED
    BY <1>3, <2>1, <2>2, <2>3, <2>4 DEF Performed
<1>6. Credited'
  BY <1>3, <1>4 DEF Order, Credited, PassAt, InPass
<1>7. Counted'
  <2>1. CASE q <= Passed /\ (Acked' => Acked)
    BY <1>3, <1>4, <2>1 DEF Order, Counted
  <2>2. CASE q = Passed + 1 /\ ~Probing
    BY <1>1, <1>3, <1>4, <2>2 DEF Counted, Probing, Passed
  <2> QED
    BY <2>1, <2>2
<1>8. Remaining' /\ Outcome' /\ Apart'
  BY <1>3 DEF Order, Remaining, Outcome, Apart
<1>9. InFlight'
  BY DEF InFlight
<1> QED
  BY <1>5, <1>6, <1>7, <1>8, <1>9 DEF Order

\* Every step of the programmer and of the link keeps the order, and completes
\* nothing but the next operation of the plan.
LEMMA ProgrammerKeepsOrder ==
    ASSUME IInv, Prompt, Order, DevNext \/ Unplug
    PROVE  /\ Order' /\ UNCHANGED << Places >>
           /\ \/ done' = done
              \/ result # "ok" /\ \E q \in 1..Len(ThePlan) : Due(q) /\ done' = Append(done, ThePlan[q].id)
<1> USE DEF Places
<1> DEFINE op == Head(tx).op
<1>1. Typed /\ Protocol
  BY DEF IInv
<1>2. UNCHANGED << Places, hpc, resp >> /\ (up' => up)
  BY DEF DevNext, Boot, DevLog, DevCommand, DevRefuses, DevRawIn, DevRawFails, DevGarbage, Unplug,
         hostVars, readVars, opVars, wireVars, linkVars
<1>3. Current' = Current /\ (Acked' => Acked \/ (up /\ "ACK" \in Types(rx')) \/ ~up \/ ~up')
  BY <1>2 DEF Current, Acked
<1>4. tx # << >> => /\ Len(tx) \in Nat \ {0} /\ Head(tx) = tx[1]
                    /\ IsSeq(Tail(tx)) /\ Len(Tail(tx)) = Len(tx) - 1
  BY <1>1, Rest DEF Typed
<1>5. ASSUME tx # << >>, IsPlanned(Head(tx))
      PROVE  ((op = Current /\ Ordered) \/ Strayed(op)) /\ Tail(tx) = << >>
  <2>1. 1 \in 1..Len(tx) /\ IsPlanned(tx[1])
    BY <1>4, <1>5
  <2>2. 1 = Len(tx) /\ ((tx[1].op = Current /\ Ordered) \/ Strayed(tx[1].op))
    BY <2>1 DEF Order, InFlight
  <2>3. IsSeq(Tail(tx)) /\ Len(Tail(tx)) = 0
    BY <1>4, <1>5, <2>2
  <2>4. Tail(tx) = << >>
    BY <2>3, EmptySeq DEF IsSeq
  <2> QED
    BY <1>4, <1>5, <2>2, <2>4
<1>6. ASSUME NEW s, IsSeq(s), Emit(s), "ACK" \notin Types(s), UNCHANGED up PROVE Acked' => Acked
  BY <1>1, <1>2, <1>6, Emitted DEF Acked, Current, Typed
<1>7. CASE Unplug
  <2>1. UNCHANGED << done, tx, dev, devop >> /\ rx' = << >>
    BY <1>7 DEF Unplug, devVars
  <2>2. Acked' => Acked
    BY <1>2, <2>1, Short DEF Acked, Current
  <2> QED
    BY <1>1, <1>2, <2>1, <2>2, Unmoved
<1>8. CASE Boot \/ DevLog
  <2>1. /\ UNCHANGED << done, tx, devop >> /\ dev' # "rawin"
        /\ UNCHANGED rx \/ (Emit(<< Msg("log") >>) /\ UNCHANGED up)
    BY <1>8 DEF Boot, DevLog, wireVars, linkVars
  <2>2. Acked' => Acked
    BY <1>2, <1>6, <2>1, Said DEF Acked, Current
  <2> QED
    BY <1>1, <1>2, <2>1, <2>2, Unmoved
<1>9. CASE DevRefuses
  <2>1. /\ tx # << >> /\ tx' = Tail(tx) /\ UNCHANGED << done, dev, devop, up >> /\ dev = "cmd" /\ op.size \in Nat
    BY <1>1, <1>4, <1>9 DEF DevRefuses, devVars, linkVars, Typed
  <2>2. Acked' => Acked
    BY <1>6, <1>9, <2>1, Refused
  <2> QED
    BY <1>1, <1>2, <2>1, <2>2, Unmoved
<1>10. CASE DevRawFails \/ DevGarbage \/ (DevRawIn /\ devleft > 1)
  <2>1. /\ tx # << >> /\ tx' = Tail(tx) /\ UNCHANGED << done, devop, up >> /\ (dev' = "rawin" => dev = "rawin")
        /\ UNCHANGED rx \/ Emit(<< Msg("NAK") >>)
    BY <1>10 DEF DevRawFails, DevGarbage, DevRawIn, devVars, linkVars
  <2>2. Acked' => Acked
    BY <1>2, <1>6, <2>1, Said DEF Acked, Current
  <2> QED
    BY <1>1, <1>2, <2>1, <2>2, Unmoved
<1>11. CASE DevRawIn /\ ~(devleft > 1)
  <2>1. dev = "rawin" /\ tx # << >> /\ tx' = Tail(tx) /\ dev' = "cmd" /\ Completes(devop)
    BY <1>11 DEF DevRawIn
  <2>2. Expected
    BY <2>1 DEF Order, InFlight
  <2>3. \A i \in 1..Len(tx') : ~IsPlanned(tx'[i])
    <3>1. Types(tx') \subseteq {"data"}
      BY <1>1, <2>1, Rest DEF Protocol, InOrder, Typed
    <3> QED
      BY <3>1 DEF Types, IsPlanned
  <2>4. Pending /\ devop = Current /\ Current.kind = "program" /\ hpc \in Working \cup {"end"} /\ result # "ok"
    BY <2>2 DEF Expected, Working, Pending, Order, Outcome
  <2>5. Passed + 1 \in 1..Len(ThePlan) /\ Current = ThePlan[Passed + 1] /\ Due(Passed + 1) /\ ~Probing
    BY <1>1, <2>4, IsDue DEF Pending
  <2>6. done' = Append(done, ThePlan[Passed + 1].id)
    BY <2>1, <2>4, <2>5 DEF Completes
  <2> QED
    BY <1>1, <1>2, <2>1, <2>3, <2>4, <2>5, <2>6, DoneInOrder
<1>12. CASE DevCommand
  <2>1. /\ dev = "cmd" /\ tx # << >> /\ Head(tx).type = "cmd" /\ tx' = Tail(tx) /\ UNCHANGED up
        /\ IF op.kind = "program"
           THEN /\ Emit(<< Msg("RAW") >>) /\ dev' = "rawin" /\ devop' = op /\ done' = done
           ELSE /\ Completes(op) /\ dev' # "rawin"
    BY <1>12 DEF DevCommand, linkVars
  <2>2. CASE op.kind = "program"
    <3>1. op = Current /\ Ordered /\ tx' = << >>
      BY <1>5, <2>1, <2>2, PassIsErases DEF IsPlanned, Strayed, InPass
    <3>2. Acked' => Acked
      BY <1>6, <2>1, <2>2, Said
    <3>3. ThePlan' = ThePlan /\ Probing' = Probing /\ Passed' = Passed
      BY <1>2 DEF ThePlan, Probing, Passed
    <3>4. Remaining' /\ Outcome' /\ Counted' /\ Apart'
      BY <1>2, <1>3, <2>1, <2>2, <3>2, <3>3 DEF Order, Remaining, Outcome, Counted, Apart, Executed
    <3>5. Performed' /\ Credited'
      BY <1>2, <2>1, <2>2, <3>3 DEF Order, Performed, Credited, Executed, PassAt, InPass
    <3>6. Pending'
      BY <1>2, <1>3, <2>1, <2>2, <3>1, <3>3 DEF Ordered, Pending, Executed
    <3>7. InFlight'
      <4>1. hpc' \in {"reply", "end"} /\ devop' = Current' /\ Current'.kind = "program"
        BY <1>2, <1>3, <2>1, <2>2, <3>1 DEF Ordered
      <4>3. \A i : i \notin 1..Len(<< >>)
        OBVIOUS
      <4>2. \A i \in 1..Len(tx') : ~IsPlanned(tx'[i])
        BY <3>1, <4>3
      <4> QED
        BY <3>6, <4>1, <4>2 DEF InFlight, Expected
    <3> QED
      BY <1>2, <2>1, <2>2, <3>4, <3>5, <3>7 DEF Order
  <2>3. CASE op.kind # "program" /\ IsPlanned(Head(tx))
    <3>1. tx' = << >> /\ \A i \in 1..Len(tx') : ~IsPlanned(tx'[i])
      <4>1. tx' = << >>
        BY <1>5, <2>1, <2>3
      <4>2. \A i : i \notin 1..Len(<< >>)
        OBVIOUS
      <4> QED
        BY <4>1, <4>2
    <3>2. done' = Append(done, op.id) /\ dev' # "rawin"
      BY <2>1, <2>3 DEF Completes, IsPlanned
    <3>3. CASE op = Current /\ Ordered
      <4>1. Pending /\ hpc \in Working \cup {"end"} /\ result # "ok"
        BY <3>3 DEF Ordered, Working, Pending, Order, Outcome
      <4>2. Passed + 1 \in 1..Len(ThePlan) /\ Current = ThePlan[Passed + 1] /\ Due(Passed + 1) /\ ~Probing
        BY <1>1, <4>1, IsDue DEF Pending
      <4> QED
        BY <1>1, <1>2, <3>1, <3>2, <3>3, <4>1, <4>2, DoneInOrder
    <3>4. CASE Strayed(op)
      <4>1. PICK q \in 1..Len(ThePlan) : q <= Passed /\ ThePlan[q] = op /\ Due(q)
        BY <1>1, <3>4, IsDue
      <4>2. result # "ok"
        BY <1>1, <3>4, NothingStrays DEF Order, Outcome
      <4>3. ~up /\ rx' = rx
        BY <1>12, <2>1, <2>3, <3>4 DEF DevCommand, Emit, Strayed
      <4>4. Acked' => Acked
        BY <1>2, <4>3 DEF Acked, Current
      <4> QED
        BY <1>1, <1>2, <3>1, <3>2, <4>1, <4>2, <4>4, DoneInOrder
    <3> QED
      BY <1>5, <2>1, <2>3, <3>3, <3>4
  <2>4. CASE op.kind # "program" /\ ~IsPlanned(Head(tx))
    <3>1. op.kind \in {"configure", "probe", "setbootable", "power"} /\ done' = done
      BY <2>1, <2>4 DEF IsPlanned, Completes
    <3>2. hpc \in Working /\ up => Probing
      <4>1. ASSUME hpc \in Working, up PROVE Sent(Current) /\ Current \in Operation /\ todo # << >>
        BY <1>1, <2>1, <4>1, Whose DEF Active, Working, Protocol, Listening
      <4>2. \A x : Sent(x) => op = x
        BY DEF Sent, Cmd
      <4> QED
        BY <1>1, <3>1, <4>1, <4>2, Place DEF Operation, Order
    <3>3. ThePlan' = ThePlan /\ Probing' = Probing /\ Passed' = Passed
      BY <1>2 DEF ThePlan, Probing, Passed
    <3>4. Counted'
      <4>1. CASE up
        BY <1>2, <3>2, <3>3, <4>1 DEF Counted
      <4>2. CASE ~up
        <5>1. Acked' => Acked
          BY <1>1, <1>2, <1>12, <4>2 DEF Acked, Current, DevCommand, Emit
        <5> QED
          BY <1>2, <1>3, <3>1, <3>3, <5>1 DEF Order, Counted, Executed
      <4> QED
        BY <4>1, <4>2
    <3>5. Remaining' /\ Outcome' /\ Performed' /\ Credited' /\ Apart'
      BY <1>2, <1>3, <3>1, <3>3
      DEF Order, Remaining, Outcome, Performed, Credited, Apart, Executed, PassAt, InPass
    <3>6. \A i \in 1..Len(tx') : IsPlanned(tx'[i]) =>
            i = Len(tx') /\ ((tx'[i].op = Current /\ Ordered) \/ Strayed(tx'[i].op))
      <4>1. \A i \in 1..Len(tx') : tx'[i] = tx[i + 1] /\ i + 1 \in 1..Len(tx) /\ (i + 1 = Len(tx) <=> i = Len(tx'))
        BY <1>1, <1>4, <2>1, Rest DEF Typed
      <4> QED
        BY <4>1 DEF Order, InFlight
    <3>7. Ordered' = Ordered /\ \A x : Strayed(x)' = Strayed(x)
      BY <1>2, <1>3, <2>1, <3>1, <3>3 DEF Ordered, Pending, Strayed, Executed, InPass
    <3>8. InFlight'
      BY <1>3, <2>1, <2>4, <3>6, <3>7 DEF InFlight
    <3> QED
      BY <1>2, <3>1, <3>4, <3>5, <3>8 DEF Order
  <2> QED
    BY <2>2, <2>3, <2>4
<1> QED
  BY <1>7, <1>8, <1>9, <1>10, <1>11, <1>12 DEF DevNext

-----------------------------------------------------------------------------
(* The refinement.                                                         *)

\* The session starts at the head of the plan.
LEMMA InitInOrder == Init => Order /\ Contract!Init
<1> SUFFICES ASSUME Init PROVE Order /\ Contract!Init
  OBVIOUS
<1>1. /\ Probes \in Seq(Operation) /\ \A i \in 1..Len(Probes) : Probes[i].kind = "probe"
      /\ ThePlan \in Seq(Operation)
  BY PlanIsTyped DEF Init
<1>2. /\ Len(todo) = Len(Probes) + Len(ThePlan) /\ Len(Probes) \in Nat /\ Len(ThePlan) \in Nat
      /\ \A i \in 1..Len(Probes) + Len(ThePlan) :
            todo[i] = IF i <= Len(Probes) THEN Probes[i] ELSE ThePlan[i - Len(Probes)]
  BY <1>1, ConcatProperties, LenProperties DEF Init
<1>3. Remaining
  <2>1. ASSUME NEW i \in 1..Len(todo)
        PROVE  IF Len(ThePlan) + i > Len(todo) THEN todo[i] = ThePlan[Len(ThePlan) - Len(todo) + i]
               ELSE todo[i].kind = "probe"
    <3>1. CASE i <= Len(Probes)
      BY <1>1, <1>2, <3>1
    <3>2. CASE ~(i <= Len(Probes))
      <4>1. Len(ThePlan) + i > Len(todo) /\ Len(ThePlan) - Len(todo) + i = i - Len(Probes)
        BY <1>2, <3>2
      <4> QED
        BY <1>2, <3>2, <4>1
    <3> QED
      BY <3>1, <3>2
  <2> QED
    BY <2>1 DEF Remaining
<1>4. done = << >> /\ Len(done) = 0 /\ tx = << >> /\ Len(tx) = 0 /\ Passed = 0
  BY <1>2 DEF Init, Passed, Probing
<1>5. Performed /\ Credited
  BY <1>2, <1>4 DEF Init, Performed, Credited, Executed
<1>6. InFlight /\ Counted /\ Outcome /\ Apart /\ Contract!Init
  BY <1>4 DEF Init, InFlight, Counted, Working, Outcome, Apart, Contract!Init
<1> QED
  BY <1>3, <1>5, <1>6 DEF Order

\* The whole plan is done when the host has passed it.
LEMMA AllDone ==
    ASSUME Typed, Order, todo = << >>
    PROVE  \A i \in 1..Len(ThePlan) : Executed(ThePlan[i])
<1>1. Len(ThePlan) \in Nat /\ Len(todo) = 0
  BY Place DEF Order
<1>2. Passed = Len(ThePlan)
  BY <1>1 DEF Passed, Probing
<1> QED
  BY <1>1, <1>2 DEF Order, Performed

\* The length of the plan, and its operations.
LEMMA PlanLength ==
    ASSUME Typed
    PROVE  Len(PlanIds) = Len(ThePlan) /\ \A i \in 1..Len(ThePlan) : PlanIds[i] = ThePlan[i].id
<1>1. Len(ThePlan) \in Nat
  BY PlanIsTyped, LenProperties DEF Typed
<1> DEFINE S == {ThePlan[i].id : i \in 1..Len(ThePlan)}
<1>2. PlanIds \in [1..Len(ThePlan) -> S] /\ \A i \in 1..Len(ThePlan) : PlanIds[i] = ThePlan[i].id
  BY DEF PlanIds
<1>3. PlanIds \in Seq(S)
  BY <1>1, <1>2, SeqDef
<1>4. DOMAIN PlanIds = 1..Len(ThePlan) /\ DOMAIN PlanIds = 1..Len(PlanIds) /\ Len(PlanIds) \in Nat
  BY <1>2, <1>3, LenProperties
<1> QED
  BY <1>1, <1>2, <1>4

\* Every step keeps the order, and is one the contract allows.
LEMMA StepInOrder ==
    ASSUME IInv, Prompt, Order, [Next]_vars
    PROVE  Order' /\ Prompt' /\ [Contract!Next]_<<PlanIds, ErasePass, done, result>>
<1> USE DEF Places
<1>1. Typed /\ Listening
  BY DEF IInv, Protocol
<1>2. CASE HostNext
  <2>1. Order'
    BY <1>2, HostKeepsOrder
  <2>2. UNCHANGED << setup, done >>
    BY <1>2 DEF HostNext, ReadUnits, ReadTimesOut, ReadFails, SendConfigure, Configured, Reconfigured,
           SendNext, OpenFails, SimpleReply, EraseAllReply, RawReply, SendChunk, ChunkWriteFails, FileReadFails,
           Programmed, DrainRemainder, RawIn, RawInFails, ReadDone, Bootabled, Finished,
           wireVars, linkVars, devVars
  <2>3. PlanIds' = PlanIds /\ ErasePass' = ErasePass
    BY <2>2 DEF PlanIds, ThePlan, ErasePass
  <2>4. result' = result \/ (hpc # "end" /\ (result' = "failed" \/ (result' = "ok" /\ hpc = "reset")))
    BY <1>2 DEF HostNext, ReadUnits, ReadTimesOut, ReadFails, SendConfigure, Configured, Reconfigured,
           SendNext, OpenFails, SimpleReply, EraseAllReply, RawReply, SendChunk, ChunkWriteFails, FileReadFails,
           Programmed, DrainRemainder, RawIn, RawInFails, ReadDone, Bootabled, Finished, Return,
           OpSucceeds, OpFails, opVars
  <2>5. hpc = "reset" => \A k \in 1..Len(PlanIds) : Contract!Carried(k)
    BY <1>1, AllDone, PlanLength DEF Order, Outcome, Contract!Carried, Executed
  <2>6. hpc # "end" => result = "none"
    BY DEF Order, Outcome
  <2> QED
    BY <2>1, <2>2, <2>3, <2>4, <2>5, <2>6 DEF Prompt, Contract!Next, Contract!Succeed, Contract!GiveUp
<1>3. CASE DevNext \/ Unplug
  <2>1. /\ Order' /\ UNCHANGED << setup, result >>
        /\ \/ done' = done
           \/ result # "ok" /\ \E q \in 1..Len(ThePlan) : Due(q) /\ done' = Append(done, ThePlan[q].id)
    BY <1>3, ProgrammerKeepsOrder
  <2>2. PlanIds' = PlanIds /\ ErasePass' = ErasePass
    BY <2>1 DEF PlanIds, ThePlan, ErasePass
  <2>3. ASSUME NEW q \in 1..Len(ThePlan), Due(q), done' = Append(done, ThePlan[q].id)
        PROVE  q \in 1..Len(PlanIds) /\ Contract!CarryOut(q)
    <3>1. /\ Len(PlanIds) = Len(ThePlan) /\ Len(ThePlan) \in Nat
          /\ \A i \in 1..Len(ThePlan) : PlanIds[i] = ThePlan[i].id
      BY <1>1, PlanLength, Place DEF Order
    <3>2. \A i \in 1..Len(ThePlan) : Contract!Carried(i) <=> Executed(ThePlan[i])
      BY <3>1 DEF Contract!Carried, Executed
    <3>3. \A i \in 1..Len(ThePlan) : PassAt(i) => PlanIds[i] \in ErasePass
      BY <3>1 DEF PassAt, InPass, ErasePass
    <3>4. \A i \in 1..q - 1 : i \in 1..Len(ThePlan)
      BY <3>1
    <3>5. \A i \in 1..q - 1 : Contract!Carried(i) \/ (PlanIds[i] \in ErasePass /\ PlanIds[q] \in ErasePass)
      BY <2>3, <3>2, <3>3, <3>4 DEF Due
    <3>6. \A i \in q..Len(PlanIds) : ~Contract!Carried(i)
      <4>1. \A i \in q..Len(ThePlan) : i \in 1..Len(ThePlan)
        BY <3>1
      <4> QED
        BY <2>3, <3>1, <3>2, <4>1 DEF Due
    <3> QED
      BY <2>1, <2>2, <2>3, <3>1, <3>5, <3>6 DEF Contract!CarryOut
  <2>4. result \in {"none", "ok", "failed"}
    BY DEF Order, Outcome
  <2> QED
    BY <2>1, <2>2, <2>3, <2>4 DEF Prompt, Contract!Next, Contract!Execute, Contract!CompleteLate
<1>4. CASE UNCHANGED vars
  <2>1. UNCHANGED << Places, done, hpc, tx, rx, dev, devop, resp, up >>
    BY <1>4 DEF vars, hostVars, readVars, rawVars, opVars, devVars, wireVars, linkVars
  <2>2. Acked' => Acked
    BY <2>1 DEF Acked, Current
  <2>3. PlanIds' = PlanIds /\ ErasePass' = ErasePass
    BY <2>1 DEF PlanIds, ThePlan, ErasePass
  <2> QED
    BY <1>1, <2>1, <2>2, <2>3, Unmoved DEF Prompt
<1> QED
  BY <1>2, <1>3, <1>4 DEF Next, Ended

(* With a programmer that answers in time, a session implements the        *)
(* contract of a flash: the operations of the plan are carried out in      *)
(* order, each at most once, none after one that was not, except among the *)
(* erases of --erase-all, and success is reported only when all of them    *)
(* were.                                                                   *)
THEOREM KeepsItsContract == Spec => (Prompt => ImplementsContract)
<1>1. Init /\ Prompt => Order /\ Contract!Init
  BY InitInOrder
<1>2. Prompt /\ [Next]_vars => Prompt'
  BY SetupIsFixed DEF Prompt
<1>3. IInv /\ Prompt /\ Order /\ [Next]_vars => Order' /\ [Contract!Next]_<<PlanIds, ErasePass, done, result>>
  BY StepInOrder
<1> QED
  BY <1>1, <1>2, <1>3, Invariant, PTL DEF Spec, ImplementsContract, Contract!Spec

-----------------------------------------------------------------------------
(* What is saved of a read is its payload.                                 *)

\* The sequence p and then q begins with what follows the first k units of the
\* payload of op.
Begins(p, q, op, k) ==
    /\ op.size - k <= Len(p) + Len(q)
    /\ \A i \in 1..op.size - k :
          (IF i <= Len(p) THEN p[i] ELSE q[i - Len(p)]) = Data(op.id, k + i)

\* The payload follows a rawmode response of the stream.
Follows(q, op) ==
    \E r \in 1..Len(q) :
        /\ q[r].type = "RAW" /\ r + op.size <= Len(q)
        /\ \A i \in 1..op.size : q[r + i] = Data(op.id, i)

\* What was taken so far is the start of it.
Took(k) == Len(got) = k /\ IsSeq(got) /\ \A i \in 1..k : got[i] = Data(Current.id, i)

Reads == Current.kind \in {"read", "probe"}

\* No ACK will come, or the payload is there in full.
Content ==
    /\ IsSeq(remainder)
    /\ remainder # << >> => hpc = "raw_in" \/ (hpc = "reply" /\ Reads /\ ~reading /\ resp = "ACK")
    /\ hpc = "reply" => got = << >>
    /\ hpc = "reply" /\ Reads /\ reading /\ "ACK" \in Types(rx) => Follows(rx, Current)
    /\ hpc = "reply" /\ Reads /\ ~reading /\ resp = "ACK" /\ "ACK" \in Types(rx) =>
          Begins(remainder, rx, Current, 0)
    /\ hpc = "raw_in" => /\ Reads /\ left \in 1..Current.size
                         /\ "ACK" \in Types(rx) =>
                               /\ Took(Current.size - left)
                               /\ Begins(remainder, rx, Current, Current.size - left)
    /\ hpc = "read_close" /\ ("ACK" \in Types(rx) \/ resp = "ACK") => got = Payload(Current)

Clean == Content /\ IsSeq(saved) /\ ReadsAreClean

\* Nothing is read.
LEMMA Elsewise ==
    ASSUME Clean, UNCHANGED << saved, remainder >>, remainder = << >>,
           hpc' \notin {"reply", "raw_in", "read_close"}
    PROVE  Clean'
  BY DEF Clean, Content, ReadsAreClean

\* More arrives: an ACK only where the payload came with it.
LEMMA MoreArrives ==
    ASSUME Typed, Listening, Clean, UNCHANGED hostVars,
           NEW s, IsSeq(s), rx' = rx \o s,
           "ACK" \in Types(s) =>
               /\ hpc \notin {"raw_in", "read_close"}
               /\ hpc = "reply" /\ Reads => reading /\ Follows(rx', Current)
    PROVE  Clean'
<1> USE DEF hostVars, readVars, rawVars, opVars
<1>1. Current' = Current /\ Reads' = Reads
  BY DEF Current, Reads
<1>2. /\ Types(rx') = Types(rx) \cup Types(s) /\ Len(rx') = Len(rx) + Len(s)
      /\ Len(rx) \in Nat /\ Len(s) \in Nat
      /\ \A i \in 1..Len(rx) + Len(s) : rx'[i] = IF i <= Len(rx) THEN rx[i] ELSE s[i - Len(rx)]
  <2>1. /\ Types(rx \o s) = Types(rx) \cup Types(s) /\ Len(rx \o s) = Len(rx) + Len(s)
        /\ Len(rx) \in Nat /\ Len(s) \in Nat
        /\ \A i \in 1..Len(rx) + Len(s) : (rx \o s)[i] = IF i <= Len(rx) THEN rx[i] ELSE s[i - Len(rx)]
    BY Joined DEF Typed
  <2> QED
    BY <2>1
<1>3. /\ Len(rx) <= Len(rx') /\ Len(rx) \in Nat /\ Len(rx') \in Nat
      /\ \A i \in 1..Len(rx) : rx'[i] = rx[i]
  BY <1>2
<1>4. ASSUME NEW op, op.size \in Nat, Follows(rx, op) PROVE Follows(rx', op)
  <2>1. PICK r \in 1..Len(rx) :
          /\ rx[r].type = "RAW" /\ r + op.size <= Len(rx)
          /\ \A i \in 1..op.size : rx[r + i] = Data(op.id, i)
    BY <1>4 DEF Follows
  <2>2. \A i \in 1..op.size : r + i \in 1..Len(rx)
    BY <1>3, <1>4, <2>1
  <2> QED
    BY <1>3, <1>4, <2>1, <2>2 DEF Follows
<1>5. ASSUME NEW op, op.size \in Nat, NEW k \in Nat, Begins(remainder, rx, op, k)
      PROVE  Begins(remainder, rx', op, k)
  <2>1. Len(remainder) \in Nat
    BY OverRange DEF Clean, Content, IsSeq
  <2>3. op.size - k <= Len(remainder) + Len(rx) /\ op.size - k \in Int
    BY <1>5 DEF Begins
  <2>2. ASSUME NEW i \in 1..op.size - k, ~(i <= Len(remainder))
        PROVE  i - Len(remainder) \in 1..Len(rx)
    BY <1>3, <2>1, <2>2, <2>3
  <2>4. op.size - k <= Len(remainder) + Len(rx')
    BY <1>3, <2>1, <2>3
  <2>5. ASSUME NEW i \in 1..op.size - k
        PROVE  (IF i <= Len(remainder) THEN remainder[i] ELSE rx'[i - Len(remainder)])
                   = Data(op.id, k + i)
    BY <1>3, <1>5, <2>2 DEF Begins
  <2> QED
    BY <2>4, <2>5 DEF Begins
<1>6. hpc \in Working => Current.size \in Nat /\ Current \in Operation
  BY CurrentIsOperation DEF Operation
<1>7. \A k : Took(k)' = Took(k)
  BY <1>1 DEF Took
<1>8. hpc = "reply" /\ Reads /\ reading /\ "ACK" \in Types(rx') => Follows(rx', Current)
  BY <1>2, <1>4, <1>6 DEF Clean, Content, Working
<1>9. hpc = "reply" /\ Reads /\ ~reading /\ resp = "ACK" /\ "ACK" \in Types(rx') => Begins(remainder, rx', Current, 0)
  BY <1>2, <1>5, <1>6 DEF Clean, Content, Working
<1>10. hpc = "raw_in" => /\ Reads /\ left \in 1..Current.size
                         /\ "ACK" \in Types(rx') =>
                               /\ Took(Current.size - left)
                               /\ Begins(remainder, rx', Current, Current.size - left)
  <2>1. hpc = "raw_in" => Reads /\ left \in 1..Current.size
    BY DEF Clean, Content
  <2>2. hpc = "raw_in" => Current.size \in Nat /\ Current.size - left \in Nat
    BY <1>6, <2>1 DEF Working
  <2> QED
    BY <1>2, <1>5, <2>1, <2>2 DEF Clean, Content
<1>11. hpc = "read_close" /\ ("ACK" \in Types(rx') \/ resp = "ACK") => got = Payload(Current)
  BY <1>2 DEF Clean, Content
<1>12. Content'
  BY <1>1, <1>7, <1>8, <1>9, <1>10, <1>11 DEF Clean, Content
<1> QED
  BY <1>12 DEF Clean, ReadsAreClean

\* What the host keeps of a read that brought the rawmode response.
LEMMA Kept ==
    ASSUME Typed, ReadUnits
    PROVE  \E n \in 1..Len(rx) :
              /\ rx' = SubSeq(rx, n + 1, Len(rx))
              /\ \/ \E i \in 1..n :
                       /\ rx[i].type = "RAW" /\ reading' = FALSE /\ resp' = "ACK"
                       /\ remainder' = IF i < n THEN SubSeq(rx, i + 1, n) ELSE remainder
                 \/ /\ \A i \in 1..n : rx[i].type # "RAW"
                    /\ reading' = TRUE /\ remainder' = remainder
<1>1. rx # << >> /\ reading
  BY DEF ReadUnits
<1>2. ReadSizes \subseteq 1..Len(rx)
  BY <1>1, Rest DEF Typed, ReadSizes
<1>3. PICK n \in ReadSizes :
        LET raws == {i \in 1..n : rx[i].type = "RAW"}
        IN  /\ rx' = SubSeq(rx, n + 1, Len(rx))
            /\ \/ \E i \in raws :
                     /\ reading' = FALSE /\ resp' = "ACK"
                     /\ remainder' = IF i < n THEN SubSeq(rx, i + 1, n) ELSE remainder
               \/ raws = {} /\ reading' = reading /\ remainder' = remainder
  BY DEF ReadUnits
<1> QED
  BY <1>1, <1>2, <1>3

\* The payload stays behind the rawmode response, or comes after it.
LEMMA Gathers == ASSUME IInv, Prompt, Clean, ReadUnits PROVE Clean'
<1> USE DEF opVars
<1>1. /\ reading /\ up /\ UNCHANGED << hpc, left, todo, saved >> /\ got' = got
      /\ Len(rx) \in Nat \ {0} /\ IsSeq(rx) /\ Phase /\ Typed /\ Listening
  BY Heard DEF IInv, Protocol, ReadUnits
<1>2. PICK n \in 1..Len(rx) :
        /\ rx' = SubSeq(rx, n + 1, Len(rx))
        /\ \/ \E i \in 1..n :
                 /\ rx[i].type = "RAW" /\ reading' = FALSE /\ resp' = "ACK"
                 /\ remainder' = IF i < n THEN SubSeq(rx, i + 1, n) ELSE remainder
           \/ /\ \A i \in 1..n : rx[i].type # "RAW"
              /\ reading' = TRUE /\ remainder' = remainder
  BY <1>1, Kept
<1>3. remainder = << >> /\ IsSeq(remainder) /\ Len(remainder) = 0
  BY <1>1 DEF Clean, Content, Listening
<1>4. Current' = Current /\ Reads' = Reads
  BY <1>1 DEF Current, Reads
<1>5. /\ Types(rx') \subseteq Types(rx) /\ Len(rx') = Len(rx) - n
      /\ \A j \in 1..Len(rx) - n : rx'[j] = rx[n + j]
  <2>1. n + 1 \in Nat \ {0} /\ Len(rx) \in Nat /\ Len(rx) <= Len(rx) /\ Len(rx) - (n + 1) + 1 = Len(rx) - n
    BY <1>1
  <2>2. /\ Types(rx') \subseteq Types(rx)
        /\ Len(rx') = IF n + 1 <= Len(rx) THEN Len(rx) - (n + 1) + 1 ELSE 0
        /\ \A j \in 1..(Len(rx) - (n + 1) + 1) : rx'[j] = rx[(n + 1) + j - 1]
    BY <1>1, <1>2, <2>1, PartOf
  <2>3. Len(rx') = Len(rx) - n
    BY <1>1, <2>2
  <2>4. ASSUME NEW j \in 1..Len(rx) - n PROVE rx'[j] = rx[n + j]
    <3>1. j \in 1..(Len(rx) - (n + 1) + 1) /\ (n + 1) + j - 1 = n + j
      BY <1>1
    <3> QED
      BY <2>2, <3>1
  <2> QED
    BY <2>2, <2>3, <2>4
<1>6. IsSeq(saved) /\ ReadsAreClean'
  BY <1>1 DEF Clean, ReadsAreClean
<1>7. hpc # "raw_in"
  BY <1>1 DEF Listening
<1>8. ASSUME hpc = "read_close" PROVE Content'
  <2>1. NoRaw
    BY <1>1, <1>8 DEF Phase
  <2>2. (resp' = "ACK" => resp = "ACK" \/ "ACK" \in Types(rx)) /\ \A i \in 1..Len(rx) : rx[i].type # "RAW"
    BY <2>1, Heard DEF NoRaw, Types
  <2>3. remainder' = << >> /\ IsSeq(remainder')
    BY <1>2, <1>3, <2>2
  <2> QED
    BY <1>1, <1>4, <1>5, <1>8, <2>2, <2>3 DEF Clean, Content
<1>9. ASSUME hpc = "reply", Reads PROVE Content'
  <2>1. Current \in Operation /\ Current.size \in Nat \ {0}
    BY <1>1, <1>9, CurrentIsOperation DEF Operation, Working, Reads
  <2>2. Replied(Current)
    BY <1>1, <1>9 DEF Phase
  <2>3. OneRaw(rx) \/ "RAW" \notin Types(rx)
    BY <1>9, <2>2 DEF Replied, Sent, Expecting, Reads
  <2>4. CASE "ACK" \notin Types(rx')
    <3>1. IsSeq(remainder') /\ (remainder' # << >> => ~reading' /\ resp' = "ACK")
      <4>1. ASSUME NEW i \in 1..n, i < n PROVE IsSeq(SubSeq(rx, i + 1, n))
        <5>1. i + 1 \in Nat \ {0} /\ n \in Nat /\ n <= Len(rx)
          BY <1>1
        <5> QED
          BY <1>1, <5>1, PartOf
      <4> QED
        BY <1>2, <1>3, <4>1
    <3> QED
      BY <1>1, <1>4, <1>9, <2>4, <3>1 DEF Clean, Content
  <2>5. CASE "ACK" \in Types(rx')
    <3>1. PICK r \in 1..Len(rx) :
            /\ rx[r].type = "RAW" /\ r + Current.size <= Len(rx)
            /\ \A i \in 1..Current.size : rx[r + i] = Data(Current.id, i)
      BY <1>1, <1>5, <1>9, <2>5 DEF Clean, Content, Follows
    <3>2. ASSUME \A i \in 1..n : rx[i].type # "RAW", reading' = TRUE, remainder' = remainder
          PROVE  Content'
      <4>1. ~(r \in 1..n)
        BY <3>1, <3>2
      <4>2. r - n \in 1..Len(rx') /\ n + (r - n) = r
        BY <1>1, <1>5, <4>1
      <4>3. rx'[r - n].type = "RAW"
        BY <1>5, <3>1, <4>2
      <4>4. ASSUME NEW i \in 1..Current.size PROVE rx'[(r - n) + i] = Data(Current.id, i)
        <5>1. (r - n) + i \in 1..Len(rx) - n /\ n + ((r - n) + i) = r + i
          BY <1>1, <2>1, <3>1, <4>2
        <5> QED
          BY <1>5, <3>1, <5>1
      <4>5. (r - n) + Current.size <= Len(rx')
        BY <1>1, <1>5, <2>1, <3>1
      <4>6. Follows(rx', Current)
        BY <4>2, <4>3, <4>4, <4>5 DEF Follows
      <4> QED
        BY <1>1, <1>3, <1>4, <1>9, <3>2, <4>6 DEF Clean, Content
    <3>3. ASSUME NEW i \in 1..n, rx[i].type = "RAW", reading' = FALSE, resp' = "ACK",
                 remainder' = IF i < n THEN SubSeq(rx, i + 1, n) ELSE remainder
          PROVE  Content'
      <4>1. i = r
        <5>1. i \in 1..Len(rx) /\ "RAW" \in Types(rx)
          BY <1>1, <3>1 DEF Types
        <5> QED
          BY <2>3, <3>1, <3>3, <5>1 DEF OneRaw
      <4>2. IsSeq(remainder') /\ Len(remainder') = n - r /\ \A j \in 1..n - r : remainder'[j] = rx[r + j]
        <5>1. CASE i < n
          <6>1. /\ IsSeq(SubSeq(rx, i + 1, n)) /\ Len(SubSeq(rx, i + 1, n)) = IF i + 1 <= n THEN n - (i + 1) + 1 ELSE 0
                /\ \A j \in 1..(n - (i + 1) + 1) : SubSeq(rx, i + 1, n)[j] = rx[(i + 1) + j - 1]
            BY <1>1, <5>1, PartOf
          <6>2. n - (i + 1) + 1 = n - r /\ i + 1 <= n /\ \A j \in 1..n - r : (i + 1) + j - 1 = r + j
            BY <4>1, <5>1
          <6>3. remainder' = SubSeq(rx, i + 1, n)
            BY <3>3, <5>1
          <6> QED
            BY <6>1, <6>2, <6>3
        <5>2. CASE ~(i < n)
          <6>1. n - r = 0 /\ 1..n - r = {}
            BY <4>1, <5>2
          <6> QED
            BY <1>3, <3>3, <5>2, <6>1
        <5> QED
          BY <5>1, <5>2
      <4>3. Current.size - 0 <= Len(remainder') + Len(rx')
        BY <1>1, <1>5, <2>1, <3>1, <4>1, <4>2
      <4>4. ASSUME NEW j \in 1..Current.size - 0
            PROVE  (IF j <= Len(remainder') THEN remainder'[j] ELSE rx'[j - Len(remainder')]) = Data(Current.id, 0 + j)
        <5>1. CASE j <= Len(remainder')
          BY <2>1, <3>1, <4>2, <5>1
        <5>2. CASE ~(j <= Len(remainder'))
          <6>1. j - Len(remainder') \in 1..Len(rx) - n /\ n + (j - Len(remainder')) = r + j
            BY <1>1, <2>1, <3>1, <4>1, <4>2, <5>2
          <6>2. rx'[j - Len(remainder')] = rx[n + (j - Len(remainder'))]
            BY <1>5, <6>1
          <6>3. j \in 1..Current.size /\ 0 + j = j
            BY <2>1
          <6>4. rx[r + j] = Data(Current.id, j)
            BY <3>1, <6>3
          <6> QED
            BY <5>2, <6>1, <6>2, <6>3, <6>4
        <5> QED
          BY <5>1, <5>2
      <4>5. Begins(remainder', rx', Current, 0)
        BY <4>3, <4>4 DEF Begins
      <4> QED
        BY <1>1, <1>4, <1>9, <3>3, <4>2, <4>5 DEF Clean, Content
    <3> QED
      BY <1>2, <3>2, <3>3
  <2> QED
    BY <2>4, <2>5
<1>10. ASSUME hpc # "read_close", hpc # "reply" \/ ~Reads PROVE Content'
  <2>1. remainder' = << >>
    <3>1. CASE NoRaw
      <4>1. \A i \in 1..n : rx[i].type # "RAW"
        BY <1>1, <3>1 DEF NoRaw, Types
      <4> QED
        BY <1>2, <1>3, <4>1
    <3>2. CASE ~NoRaw
      <4>1. RawLast(rx)
        BY <1>10, <3>2, Heard DEF Replied, Sent, NoRaw, Reads
      <4>2. ASSUME NEW i \in 1..n, rx[i].type = "RAW" PROVE ~(i < n)
        BY <1>1, <4>1, <4>2 DEF RawLast
      <4> QED
        BY <1>2, <1>3, <4>2
    <3> QED
      BY <3>1, <3>2
  <2> QED
    BY <1>1, <1>3, <1>4, <1>7, <1>10, <2>1 DEF Clean, Content
<1> QED
  BY <1>6, <1>1, <1>8, <1>9, <1>10 DEF Clean

\* A whole payload was taken.
LEMMA Whole ==
    ASSUME NEW q, IsSeq(q), NEW op, op.size \in Nat, Len(q) = op.size,
           \A i \in 1..op.size : q[i] = Data(op.id, i)
    PROVE  q = Payload(op)
<1>1. DOMAIN q = 1..op.size
  BY OverRange DEF IsSeq
<1>2. q = [i \in DOMAIN q |-> q[i]]
  BY DEF IsSeq
<1>3. q = [i \in 1..op.size |-> Data(op.id, i)]
  BY <1>1, <1>2
<1> QED
  BY <1>3 DEF Payload

\* Units are taken: s comes next in the payload, if an ACK is still to come.
LEMMA Taking ==
    ASSUME Typed, Listening, Clean, hpc = "raw_in", UNCHANGED << todo, saved >>,
           NEW s, IsSeq(s), TakeUnits(s), Len(s) \in 1..left, IsSeq(remainder'),
           Len(s) = left => remainder' = << >>, IsSeq(rx'), Types(rx') \subseteq Types(rx),
           \A k \in Nat : k = Current.size - left /\ Begins(remainder, rx, Current, k) =>
              /\ \A i \in 1..Len(s) : s[i] = Data(Current.id, k + i)
              /\ Len(s) < left => Begins(remainder', rx', Current, k + Len(s))
    PROVE  Clean'
<1>1. Reads /\ left \in 1..Current.size /\ IsSeq(saved) /\ ReadsAreClean
  BY DEF Clean, Content
<1>2. Current' = Current /\ Reads' = Reads
  BY DEF Current, Reads
<1>3. Current.size \in Nat
  BY CurrentIsOperation DEF Working, Operation
<1>4. /\ got' = got \o s /\ left' = left - Len(s)
      /\ IF left = Len(s) THEN hpc' = "read_close" /\ resp' = "none"
         ELSE hpc' = hpc /\ resp' = resp /\ reading' = reading
  BY DEF TakeUnits, Await, readVars
<1>5. ASSUME "ACK" \in Types(rx')
      PROVE  /\ Took(Current.size - left)'
             /\ Len(s) < left => Begins(remainder', rx', Current, Current.size - left')
  <2>1. Took(Current.size - left) /\ Begins(remainder, rx, Current, Current.size - left)
    BY <1>5 DEF Clean, Content
  <2> DEFINE k == Current.size - left
  <2>2. k \in Nat /\ Current.size - left' = k + Len(s) /\ Len(s) \in Nat
    BY <1>1, <1>3, <1>4
  <2>3. Took(k) /\ Begins(remainder, rx, Current, k) /\ k = Current.size - left
    BY <2>1
  <2> HIDE DEF k
  <2>4. /\ \A i \in 1..Len(s) : s[i] = Data(Current.id, k + i)
        /\ Len(s) < left => Begins(remainder', rx', Current, k + Len(s))
    BY <2>2, <2>3
  <2>5. /\ IsSeq(got \o s) /\ Len(got \o s) = Len(got) + Len(s) /\ Len(got) = k
        /\ \A i \in 1..Len(got) + Len(s) : (got \o s)[i] = IF i <= Len(got) THEN got[i] ELSE s[i - Len(got)]
    BY <2>3, Joined DEF Took
  <2>6. ASSUME NEW i \in 1..k + Len(s) PROVE got'[i] = Data(Current.id, i)
    <3>1. CASE i <= k
      BY <1>4, <2>2, <2>3, <2>5, <2>6, <3>1 DEF Took
    <3>2. CASE ~(i <= k)
      <4>1. i - k \in 1..Len(s) /\ k + (i - k) = i
        BY <2>2, <2>6, <3>2
      <4>2. s[i - k] = Data(Current.id, i)
        BY <2>4, <4>1
      <4> QED
        BY <1>4, <2>5, <2>6, <3>2, <4>2
    <3> QED
      BY <3>1, <3>2
  <2>7. Len(got') = k + Len(s) /\ IsSeq(got')
    BY <1>4, <2>5
  <2> QED
    BY <1>2, <2>2, <2>4, <2>6, <2>7 DEF Took
<1>6. CASE left = Len(s)
  <2>1. ASSUME "ACK" \in Types(rx') PROVE got' = Payload(Current)
    <3>1. Current.size - left' = Current.size
      BY <1>1, <1>3, <1>4, <1>6
    <3>2. Took(Current.size)'
      <4>1. (Current.size - left)' = (Current.size)'
        BY <1>2, <3>1
      <4> QED
        BY <1>5, <2>1, <4>1 DEF Took
    <3> QED
      BY <1>2, <1>3, <3>2, Whole DEF Took
  <2> QED
    BY <1>1, <1>2, <1>4, <1>6, <2>1 DEF Clean, Content, ReadsAreClean
<1>7. CASE left # Len(s)
  <2>1. left' \in 1..Current.size /\ Len(s) < left
    BY <1>1, <1>3, <1>4, <1>7
  <2> QED
    BY <1>1, <1>2, <1>4, <1>5, <1>7, <2>1 DEF Clean, Content, ReadsAreClean
<1> QED
  BY <1>6, <1>7

\* The smaller of two numbers.
LEMMA Smaller ==
    ASSUME NEW a \in Nat, NEW b \in Nat
    PROVE  Min({a, b}) \in {a, b} /\ Min({a, b}) <= a /\ Min({a, b}) <= b
<1>1. \E x \in {a, b} : \A y \in {a, b} : x <= y
  <2>1. CASE a <= b
    BY <2>1
  <2>2. CASE b <= a
    BY <2>2
  <2> QED
    BY <2>1, <2>2
<1>2. Min({a, b}) \in {a, b} /\ \A y \in {a, b} : Min({a, b}) <= y
  BY <1>1 DEF Min
<1> QED
  BY <1>2

\* The remainder and the stream are taken from in order.
LEMMA Drains == ASSUME IInv, Prompt, Clean, DrainRemainder \/ RawIn PROVE Clean'
<1> USE DEF opVars, wireVars, linkVars
<1>1. /\ Typed /\ Listening /\ hpc = "raw_in" /\ UNCHANGED << todo, saved >> /\ IsSeq(remainder) /\ IsSeq(rx)
      /\ left \in 1..Current.size
  BY DEF IInv, Protocol, DrainRemainder, RawIn, Typed, Clean, Content
<1>2. Current.size \in Nat /\ left \in Nat \ {0}
  BY <1>1, CurrentIsOperation DEF Working, Operation
<1>3. CASE DrainRemainder
  <2>1. PICK n : /\ n = Min({Len(remainder), left}) /\ TakeUnits(SubSeq(remainder, 1, n)) /\ rx' = rx
                 /\ remainder' = IF n = left THEN << >> ELSE SubSeq(remainder, n + 1, Len(remainder))
    BY <1>3 DEF DrainRemainder
  <2>2. Len(remainder) \in Nat \ {0}
    BY <1>1, <1>3, Rest DEF DrainRemainder
  <2>3. n \in 1..left /\ n <= Len(remainder) /\ (n # left => n = Len(remainder))
    BY <1>2, <2>1, <2>2, Smaller
  <2> DEFINE s == SubSeq(remainder, 1, n)
  <2>4. IsSeq(s) /\ Len(s) = n /\ \A i \in 1..n : s[i] = remainder[i]
    <3>1. 1 \in Nat \ {0} /\ n \in Nat /\ n - 1 + 1 = n /\ 1 <= n /\ \A i \in 1..n : 1 + i - 1 = i
      BY <1>2, <2>3
    <3> QED
      BY <1>1, <2>3, <3>1, PartOf
  <2>5. IsSeq(remainder') /\ (n # left => Len(remainder') = 0)
    <3>1. CASE n = left
      BY <2>1, <3>1, Short
    <3>2. CASE n # left
      <4>1. n + 1 \in Nat \ {0} /\ Len(remainder) \in Nat /\ Len(remainder) <= Len(remainder) /\ ~(n + 1 <= Len(remainder))
        BY <2>2, <2>3, <3>2
      <4> QED
        BY <1>1, <2>1, <3>2, <4>1, PartOf
    <3> QED
      BY <3>1, <3>2
  <2>6. ASSUME NEW k \in Nat, k = Current.size - left, Begins(remainder, rx, Current, k)
        PROVE  /\ \A i \in 1..n : s[i] = Data(Current.id, k + i)
               /\ n < left => Begins(remainder', rx', Current, k + n)
    <3>0. Current.size - k = left
      BY <1>1, <1>2, <2>6
    <3>1. ASSUME NEW i \in 1..n PROVE s[i] = Data(Current.id, k + i)
      <4>1. i \in 1..left /\ i <= Len(remainder)
        BY <1>2, <2>2, <2>3
      <4> QED
        BY <2>4, <2>6, <3>0, <4>1 DEF Begins
    <3>2. ASSUME n < left PROVE Begins(remainder', rx', Current, k + n)
      <4>1. n = Len(remainder) /\ Len(remainder') = 0
        BY <1>2, <2>3, <2>5, <3>2
      <4>2. Current.size - (k + n) = left - n /\ left <= n + Len(rx) /\ Len(rx) \in Nat
        <5>1. Len(rx) \in Nat
          BY <1>1, OverRange DEF IsSeq
        <5>2. left <= Len(remainder) + Len(rx)
          BY <2>6, <3>0 DEF Begins
        <5> QED
          BY <1>1, <1>2, <2>3, <3>0, <4>1, <5>1, <5>2
      <4>3. ASSUME NEW i \in 1..left - n PROVE rx[i] = Data(Current.id, (k + n) + i)
        <5>1. n + i \in 1..left /\ ~(n + i <= Len(remainder)) /\ (n + i) - Len(remainder) = i /\ k + (n + i) = (k + n) + i
          BY <1>2, <2>3, <4>1
        <5> QED
          BY <2>6, <3>0, <5>1 DEF Begins
      <4>4. left - n <= 0 + Len(rx) /\ \A i \in 1..left - n : ~(i <= 0) /\ i - 0 = i
        BY <1>2, <2>3, <4>2
      <4> QED
        BY <2>1, <4>1, <4>2, <4>3, <4>4 DEF Begins
    <3> QED
      BY <3>1, <3>2
  <2>7. TakeUnits(s) /\ (n = left => remainder' = << >>)
    BY <2>1
  <2> HIDE DEF s
  <2> QED
    BY <1>1, <2>1, <2>3, <2>4, <2>5, <2>6, <2>7, Taking
<1>4. CASE RawIn
  <2>1. remainder = << >> /\ remainder' = << >> /\ rx # << >> /\ rx' = Tail(rx) /\ TakeUnits(<< Head(rx) >>)
    BY <1>4 DEF RawIn
  <2> DEFINE s == << Head(rx) >>
  <2>2. /\ IsSeq(rx') /\ Len(rx') = Len(rx) - 1 /\ Len(rx) \in Nat \ {0} /\ Types(rx') \subseteq Types(rx)
        /\ Head(rx) = rx[1] /\ \A i \in 1..Len(rx') : rx'[i] = rx[i + 1]
    BY <1>1, <2>1, Rest
  <2>3. IsSeq(s) /\ Len(s) = 1 /\ s[1] = rx[1]
    BY <2>2, Short
  <2>4. Len(remainder) = 0 /\ Len(remainder') = 0
    BY <2>1
  <2>5. ASSUME NEW k \in Nat, k = Current.size - left, Begins(remainder, rx, Current, k)
        PROVE  /\ s[1] = Data(Current.id, k + 1)
               /\ 1 < left => Begins(remainder', rx', Current, k + 1)
    <3>0. Current.size - k = left
      BY <1>1, <1>2, <2>5
    <3>1. left <= Len(rx) /\ \A i \in 1..left : rx[i] = Data(Current.id, k + i)
      BY <1>2, <2>2, <2>4, <2>5, <3>0 DEF Begins
    <3>2. Current.size - (k + 1) = left - 1 /\ left - 1 <= 0 + Len(rx')
      BY <1>1, <1>2, <2>2, <2>5, <3>1
    <3>3. ASSUME NEW i \in 1..left - 1 PROVE rx'[i] = Data(Current.id, (k + 1) + i)
      <4>1. i + 1 \in 1..left /\ k + (i + 1) = (k + 1) + i /\ i \in 1..Len(rx')
        BY <1>2, <2>2, <3>1
      <4> QED
        BY <2>2, <3>1, <4>1
    <3>4. \A i \in 1..left - 1 : ~(i <= 0) /\ i - 0 = i
      BY <1>2
    <3> QED
      BY <1>2, <2>3, <2>4, <3>1, <3>2, <3>3, <3>4 DEF Begins
  <2>6. IsSeq(remainder')
    BY <2>1, Short
  <2>7. TakeUnits(s)
    BY <2>1
  <2>8. \A k \in Nat : k = Current.size - left /\ Begins(remainder, rx, Current, k) =>
           /\ \A i \in 1..Len(s) : s[i] = Data(Current.id, k + i)
           /\ Len(s) < left => Begins(remainder', rx', Current, k + Len(s))
    BY <2>3, <2>5
  <2>9. IsSeq(s) /\ Len(s) \in 1..left /\ remainder' = << >> /\ IsSeq(rx') /\ Types(rx') \subseteq Types(rx)
    BY <1>2, <2>1, <2>2, <2>3
  <2> HIDE DEF s
  <2> QED
    BY <1>1, <2>6, <2>7, <2>8, <2>9, Taking
<1> QED
  BY <1>3, <1>4

\* Every step of the host keeps what is read clean.
LEMMA HostReadsClean == ASSUME IInv, Prompt, Clean, HostNext PROVE Clean'
<1> USE DEF devVars, linkVars, opVars, wireVars, readVars, rawVars
<1>1. Typed /\ Listening /\ (up => Phase) /\ ~OpenFails /\ ~FileReadFails
  BY DEF IInv, Protocol, Prompt, OpenFails, FileReadFails
<1>2. CASE ReadTimesOut \/ ReadFails
  <2>1. /\ UNCHANGED << todo, saved, hpc, rx, left, got, remainder >> /\ reading
        /\ (resp' = "ACK" => resp = "ACK") /\ rx = << >>
    BY <1>1, <1>2 DEF ReadTimesOut, ReadFails, LineQuiet, Typed
  <2>2. Types(rx) = {} /\ Current' = Current /\ Reads' = Reads /\ hpc # "raw_in"
    BY <1>1, <2>1, Short DEF Current, Reads, Listening
  <2> QED
    BY <2>1, <2>2 DEF Clean, Content, ReadsAreClean
<1>3. CASE SendConfigure \/ Configured \/ Reconfigured \/ Bootabled \/ Finished
  <2>1. /\ hpc \notin {"reply", "raw_in"} /\ hpc' \notin {"reply", "raw_in", "read_close"} /\ UNCHANGED << saved, remainder >>
    BY <1>3 DEF SendConfigure, Configured, Reconfigured, Bootabled, Finished, Send, Return
  <2> QED
    BY <2>1, Elsewise DEF Clean, Content
<1>4. CASE SendNext
  <2>1. /\ hpc = "next" /\ hpc' \in {"reply", "bootable", "reset"} /\ UNCHANGED << saved, remainder, rx >> /\ got' = << >>
        /\ resp' = "none"
    BY <1>4 DEF SendNext, Send, Await
  <2>2. "ACK" \notin Types(rx)
    BY <1>1, <2>1, Short DEF Phase, Quiet, Typed
  <2> QED
    BY <2>1, <2>2 DEF Clean, Content, ReadsAreClean
<1>5. CASE SimpleReply \/ EraseAllReply \/ (RawReply /\ (resp # "ACK" \/ ~Reads)) \/ Programmed \/ SendChunk \/ ChunkWriteFails \/ RawInFails
  <2>1. /\ hpc' \in {"next", "end", "raw_out", "raw_sent", "read_abort"} /\ UNCHANGED << saved, remainder >>
        /\ hpc \in {"reply", "raw_sent", "raw_out"} \/ remainder = << >>
        /\ hpc = "reply" => resp # "ACK" \/ ~Reads
    <3>1. InPass(Current) => ~Reads
      BY PassIsErases DEF InPass, Reads
    <3>2. remainder = << >> \/ hpc \in {"reply", "raw_sent", "raw_out"}
      BY <1>1, <1>5 DEF SimpleReply, EraseAllReply, RawReply, Programmed, SendChunk, ChunkWriteFails, RawInFails
    <3> QED
      BY <1>5, <3>1, <3>2 DEF SimpleReply, EraseAllReply, RawReply, Programmed, SendChunk, ChunkWriteFails, RawInFails, OpSucceeds, OpFails, Reads, Await
  <2> QED
    BY <2>1, Elsewise DEF Clean, Content
<1>6. CASE RawReply /\ resp = "ACK" /\ Reads
  <2>1. /\ hpc = "reply" /\ ~reading /\ hpc' = "raw_in" /\ left' = Current.size
        /\ UNCHANGED << todo, saved, rx, got, remainder >>
    BY <1>6 DEF RawReply, Reads
  <2>2. Current.size \in Nat \ {0} /\ Current.size - Current.size = 0
    BY <1>1, <1>6, <2>1, CurrentIsOperation DEF Working, Operation, Reads
  <2>3. Current' = Current /\ Reads' = Reads /\ got = << >> /\ IsSeq(<< >>) /\ Len(<< >>) = 0
    BY <2>1, Short DEF Current, Reads, Clean, Content
  <2>4. Took(0)'
    BY <2>1, <2>3 DEF Took
  <2>5. "ACK" \in Types(rx) => Begins(remainder, rx, Current, 0)
    BY <1>6, <2>1 DEF Clean, Content
  <2>6. ("ACK" \in Types(rx) => Took(Current.size - left) /\ Begins(remainder, rx, Current, Current.size - left))'
    BY <2>1, <2>2, <2>3, <2>4, <2>5 DEF Took
  <2> QED
    BY <1>6, <2>1, <2>2, <2>3, <2>6 DEF Clean, Content, ReadsAreClean
<1>7. CASE ReadDone
  <2>1. /\ hpc \in {"read_close", "read_abort"} /\ hpc' \in {"next", "end"} /\ UNCHANGED remainder
        /\ saved' = saved \/ (hpc = "read_close" /\ resp = "ACK" /\ saved' = Append(saved, << Current, got >>))
    BY <1>7 DEF ReadDone, OpSucceeds, OpFails
  <2>2. remainder = << >>
    BY <2>1 DEF Clean, Content
  <2>3. Content'
    BY <2>1, <2>2 DEF Clean, Content
  <2>4. CASE saved' = saved
    BY <2>3, <2>4 DEF Clean, ReadsAreClean
  <2>5. CASE hpc = "read_close" /\ resp = "ACK" /\ saved' = Append(saved, << Current, got >>)
    <3>1. got = Payload(Current)
      BY <2>5 DEF Clean, Content
    <3> DEFINE e == << Current, got >>
    <3>2. e[2] = Payload(e[1])
      BY <3>1
    <3> HIDE DEF e
    <3>3. /\ IsSeq(Append(saved, e)) /\ Len(Append(saved, e)) = Len(saved) + 1 /\ Len(saved) \in Nat
          /\ \A i \in 1..Len(saved) : Append(saved, e)[i] = saved[i]
          /\ Append(saved, e)[Len(saved) + 1] = e
      BY Extended DEF Clean
    <3>4. ASSUME NEW i \in 1..Len(saved) + 1 PROVE Append(saved, e)[i][2] = Payload(Append(saved, e)[i][1])
      <4>1. i \in 1..Len(saved) \/ i = Len(saved) + 1
        BY <3>3
      <4> QED
        BY <3>2, <3>3, <4>1 DEF Clean, ReadsAreClean
    <3>5. saved' = Append(saved, e)
      BY <2>5 DEF e
    <3>6. IsSeq(saved') /\ ReadsAreClean'
      BY <3>3, <3>4, <3>5 DEF ReadsAreClean
    <3> QED
      BY <2>3, <3>6 DEF Clean
  <2> QED
    BY <2>1, <2>4, <2>5
<1> QED
  BY <1>1, <1>2, <1>3, <1>4, <1>5, <1>6, <1>7, Gathers, Drains DEF HostNext

\* The answer to a read, when it is not refused, holds its payload.
LEMMA AnswerFollows ==
    ASSUME NEW q, IsSeq(q), "RAW" \notin Types(q), NEW op, op.size \in Nat
    PROVE  LET s == << Msg("RAW") >> \o Payload(op) \o << Msg("ACK") >>
           IN  IsSeq(s) /\ Follows(q \o s, op)
<1> DEFINE a == << Msg("RAW") >>
           b == << Msg("ACK") >>
           p == Payload(op)
<1>1. IsSeq(a) /\ Len(a) = 1 /\ a[1].type = "RAW" /\ IsSeq(b)
  BY Said, Short DEF Msg
<1>2. IsSeq(p) /\ Len(p) = op.size /\ \A i \in 1..op.size : p[i] = Data(op.id, i)
  BY PayloadIsData DEF Payload
<1> HIDE DEF a, b, p
<1>3. /\ IsSeq(a \o p) /\ Len(a \o p) = 1 + op.size
      /\ \A i \in 1..1 + op.size : (a \o p)[i] = IF i <= 1 THEN a[i] ELSE p[i - 1]
  <2>1. /\ IsSeq(a \o p) /\ Len(a \o p) = Len(a) + Len(p)
        /\ \A i \in 1..Len(a) + Len(p) : (a \o p)[i] = IF i <= Len(a) THEN a[i] ELSE p[i - Len(a)]
    BY <1>1, <1>2, Joined
  <2>2. Len(a) = 1 /\ Len(p) = op.size
    BY <1>1, <1>2
  <2> QED
    BY <2>1, <2>2
<1>4. /\ IsSeq((a \o p) \o b) /\ Len((a \o p) \o b) = (1 + op.size) + Len(b) /\ Len(b) \in Nat
      /\ \A i \in 1..(1 + op.size) + Len(b) :
            ((a \o p) \o b)[i] = IF i <= 1 + op.size THEN (a \o p)[i] ELSE b[i - (1 + op.size)]
  BY <1>1, <1>3, Joined
<1> DEFINE s == (a \o p) \o b
<1>5. s[1].type = "RAW" /\ \A i \in 1..op.size : s[1 + i] = Data(op.id, i)
  <2>1. s[1] = a[1]
    <3>1. 1 \in 1..(1 + op.size) + Len(b) /\ 1 <= 1 + op.size /\ 1 \in 1..1 + op.size /\ 1 <= 1
      BY <1>4
    <3> QED
      BY <1>3, <1>4, <3>1
  <2>2. ASSUME NEW i \in 1..op.size PROVE s[1 + i] = Data(op.id, i)
    <3>1. 1 + i \in 1..(1 + op.size) + Len(b) /\ 1 + i <= 1 + op.size /\ 1 + i \in 1..1 + op.size
          /\ ~(1 + i <= 1) /\ (1 + i) - 1 = i
      BY <1>4
    <3> QED
      BY <1>2, <1>3, <1>4, <3>1
  <2> QED
    BY <1>1, <2>1, <2>2
<1>6. IsSeq(s) /\ 1 + op.size <= Len(s) /\ Len(s) \in Nat
  BY <1>4
<1> HIDE DEF s
<1>7. /\ Len(q \o s) = Len(q) + Len(s) /\ Len(q) \in Nat
      /\ \A i \in 1..Len(q) + Len(s) : (q \o s)[i] = IF i <= Len(q) THEN q[i] ELSE s[i - Len(q)]
  BY <1>6, Joined
<1>8. ASSUME NEW i \in 1..Len(s) PROVE (q \o s)[Len(q) + i] = s[i]
  <2>1. Len(q) + i \in 1..Len(q) + Len(s) /\ ~(Len(q) + i <= Len(q)) /\ (Len(q) + i) - Len(q) = i
    BY <1>6, <1>7
  <2> QED
    BY <1>7, <2>1
<1>9. Follows(q \o s, op)
  <2> DEFINE r == Len(q) + 1
  <2>1. r \in 1..Len(q \o s) /\ r + op.size <= Len(q \o s) /\ 1 \in 1..Len(s)
    BY <1>6, <1>7
  <2>2. (q \o s)[r].type = "RAW"
    BY <1>5, <1>8, <2>1
  <2>3. ASSUME NEW i \in 1..op.size PROVE (q \o s)[r + i] = Data(op.id, i)
    <3>1. 1 + i \in 1..Len(s) /\ r + i = Len(q) + (1 + i)
      BY <1>6, <1>7
    <3> QED
      BY <1>5, <1>8, <3>1
  <2> QED
    BY <2>1, <2>2, <2>3 DEF Follows
<1> QED
  BY <1>6, <1>9 DEF s, a, b, p

\* Every step of the programmer and of the link keeps what is read clean.
LEMMA ProgrammerKeepsClean == ASSUME IInv, Prompt, Clean, DevNext \/ Unplug PROVE Clean'
<1> DEFINE op == Head(tx).op
<1>1. Typed /\ Protocol /\ Listening
  BY DEF IInv, Protocol
<1>2. UNCHANGED hostVars
  BY DEF DevNext, Boot, DevLog, DevCommand, DevRefuses, DevRawIn, DevRawFails, DevGarbage, Unplug
<1>3. UNCHANGED << hpc, todo, saved, reading, resp, left, got, remainder >>
  BY <1>2 DEF hostVars, readVars, rawVars, opVars
<1>4. Current' = Current /\ Reads' = Reads /\ \A k : Took(k)' = Took(k)
  BY <1>3 DEF Current, Reads, Took
<1>5. ASSUME rx' = rx PROVE Clean'
  BY <1>3, <1>4, <1>5 DEF Clean, Content, ReadsAreClean
<1>6. ASSUME rx' = << >> PROVE Clean'
  BY <1>3, <1>4, <1>6, Short DEF Clean, Content, ReadsAreClean
<1>7. ASSUME NEW s, IsSeq(s), Emit(s), "ACK" \notin Types(s) PROVE Clean'
  BY <1>1, <1>2, <1>5, <1>7, MoreArrives DEF Emit
<1>8. CASE Unplug
  BY <1>6, <1>8 DEF Unplug
<1>9. CASE Boot \/ DevLog
  <2>1. UNCHANGED rx \/ Emit(<< Msg("log") >>)
    BY <1>9 DEF Boot, DevLog, wireVars
  <2> QED
    BY <1>5, <1>7, <2>1, Said
<1>10. CASE DevRefuses
  <2>1. op.size \in Nat
    BY <1>1, <1>10, Rest DEF DevRefuses, Typed
  <2> QED
    BY <1>7, <1>10, <2>1, Refused
<1>11. CASE DevRawFails \/ DevGarbage \/ DevRawIn
  <2>1. CASE UNCHANGED rx \/ Emit(<< Msg("NAK") >>)
    BY <1>5, <1>7, <2>1, Said
  <2>2. CASE DevRawIn /\ Emit(<< Msg("ACK") >>)
    <3>1. dev = "rawin" /\ tx # << >>
      BY <2>2 DEF DevRawIn
    <3>2. up => hpc \notin {"raw_in", "read_close", "reply"}
      BY <1>1, <3>1, Streaming DEF Active, Working
    <3> QED
      BY <1>1, <1>2, <1>5, <2>2, <3>2, Said, MoreArrives DEF Emit
  <2> QED
    BY <1>11, <2>1, <2>2 DEF DevRawFails, DevGarbage, DevRawIn
<1>12. CASE DevCommand
  <2>1. dev = "cmd" /\ tx # << >> /\ Head(tx).type = "cmd" /\ op.size \in Nat
    BY <1>1, <1>12, Rest DEF DevCommand, Typed
  <2>2. CASE Emit(<< Msg("RAW") >>)
    BY <1>7, <2>2, Said
  <2>3. CASE op.kind \notin {"read", "probe"} /\ Emit(<< Msg("ACK") >>)
    <3>1. up /\ hpc = "reply" => Current = op
      BY <1>1, <2>1, Whose DEF Active, Working, Sent, Cmd
    <3>2. up => hpc \notin {"raw_in", "read_close"} /\ (hpc = "reply" => ~Reads)
      BY <1>1, <2>1, <2>3, <3>1, Whose DEF Active, Working, Reads
    <3> QED
      BY <1>1, <1>2, <1>5, <2>3, <3>2, Said, MoreArrives DEF Emit
  <2>4. CASE op.kind \in {"read", "probe"} /\ Emit(<< Msg("RAW") >> \o Payload(op) \o << Msg("ACK") >>)
    <3> DEFINE s == << Msg("RAW") >> \o Payload(op) \o << Msg("ACK") >>
    <3>1. IsSeq(s)
      BY <2>1, Short, AnswerFollows
    <3>2. ASSUME up, hpc = "reply" PROVE reading /\ Current = op /\ Follows(rx \o s, Current)
      <4>1. Sent(Current) /\ reading
        BY <1>1, <2>1, <3>2, Whose DEF Active, Working
      <4>2. Current = op /\ "RAW" \notin Types(rx) /\ IsSeq(rx)
        BY <1>1, <4>1 DEF Sent, Cmd, Typed
      <4> QED
        BY <2>1, <4>1, <4>2, AnswerFollows
    <3>3. up => hpc \notin {"raw_in", "read_close"}
      BY <1>1, <2>1, Whose DEF Active, Working
    <3>4. rx' = IF up THEN rx \o s ELSE rx
      BY <2>4 DEF Emit
    <3> HIDE DEF s
    <3> QED
      BY <1>1, <1>2, <1>5, <3>1, <3>2, <3>3, <3>4, MoreArrives
  <2> QED
    BY <1>12, <2>2, <2>3, <2>4 DEF DevCommand
<1> QED
  BY <1>8, <1>9, <1>10, <1>11, <1>12 DEF DevNext

\* Every step keeps what is read clean.
LEMMA StepKeepsClean == ASSUME IInv, Prompt, Clean, [Next]_vars PROVE Clean'
<1>1. CASE UNCHANGED vars
  BY <1>1 DEF vars, hostVars, readVars, rawVars, opVars, wireVars, Clean, Content, ReadsAreClean,
              Reads, Current, Took
<1> QED
  BY <1>1, HostReadsClean, ProgrammerKeepsClean DEF Next, Ended

\* Nothing has been read.
LEMMA InitIsClean == Init => Clean
<1> SUFFICES ASSUME Init PROVE Clean
  OBVIOUS
<1>1. IsSeq(<< >>) /\ Len(<< >>) = 0
  BY Short
<1> QED
  BY <1>1 DEF Init, Clean, Content, ReadsAreClean

(* With a programmer that answers in time, the file of a read that         *)
(* succeeded holds the payload of that read, complete and in order, for    *)
(* every cut the COM port makes in the stream.                             *)
THEOREM FilesAreClean == Spec => [](Prompt => ReadsAreClean)
<1>1. Init => (Prompt => Clean)
  BY InitIsClean
<1>2. Prompt' /\ [Next]_vars => Prompt
  BY SetupIsFixed DEF Prompt
<1>3. IInv /\ (Prompt => Clean) /\ [Next]_vars => (Prompt => Clean)'
  BY <1>2, StepKeepsClean
<1>4. (Prompt => Clean) => (Prompt => ReadsAreClean)
  BY DEF Clean
<1> QED
  BY <1>1, <1>3, <1>4, Invariant, PTL DEF Spec

-----------------------------------------------------------------------------
(* Nothing is erased before it was backed up.                              *)

\* At first no operation is passed.
LEMMA NonePassed == ASSUME Init PROVE Passed = 0
<1>1. /\ Probes \in Seq(Operation) /\ ThePlan \in Seq(Operation)
  BY PlanIsTyped DEF Init
<1>2. Len(todo) = Len(Probes) + Len(ThePlan) /\ Len(Probes) \in Nat /\ Len(ThePlan) \in Nat
  BY <1>1, ConcatProperties, LenProperties DEF Init
<1> QED
  BY <1>2 DEF Passed, Probing

\* Every read the host has passed was saved.
Backed ==
    /\ hpc \in {"raw_out", "raw_sent"} => Current.kind = "program"
    /\ \A p \in 1..Passed : ThePlan[p].kind = "read" => \E k \in 1..Len(saved) : saved[k][1] = ThePlan[p]

\* The host passes a read only when it saved it.
LEMMA HostKeepsBacked == ASSUME IInv, Prompt, Order, Clean, Backed, HostNext PROVE Backed'
<1> USE DEF devVars, linkVars, opVars, wireVars, readVars, rawVars
<1>1. Typed /\ Listening /\ ~OpenFails /\ ~FileReadFails /\ Remaining
  BY DEF IInv, Protocol, Prompt, OpenFails, FileReadFails, Order
<1>2. setup' = setup /\ ThePlan' = ThePlan
  BY SetupIsFixed DEF Next, ThePlan
<1>3. ASSUME todo' = todo, saved' = saved,
             hpc' \in {"raw_out", "raw_sent"} => hpc \in {"raw_out", "raw_sent"} \/ Current.kind = "program"
      PROVE  Backed'
  BY <1>2, <1>3 DEF Backed, Passed, Probing, Current
<1>4. ASSUME hpc \in Working, hpc' \in {"next", "end"}, todo' = ThePlan \/ Probing, saved' = saved \/ Probing,
             todo' = ThePlan \/ todo' = Tail(todo)
      PROVE  Backed'
  <2>1. Len(todo) \in Nat \ {0} /\ Len(ThePlan) \in Nat /\ (Probing <=> Current.kind = "probe")
    BY <1>1, <1>4, Place DEF Listening
  <2>2. Len(Tail(todo)) = Len(todo) - 1
    BY <1>1, <2>1, HeadTailProperties DEF Typed
  <2>3. Passed' = 0
    BY <1>2, <1>4, <2>1, <2>2 DEF Passed, Probing
  <2> QED
    BY <1>4, <2>3 DEF Backed
<1>5. ASSUME OpSucceeds, hpc \in Working, NEW e, saved' = saved \/ saved' = Append(saved, e),
             Current.kind = "read" => saved' = Append(saved, e) /\ e[1] = Current
      PROVE  Backed'
  <2>1. /\ todo # << >> /\ Len(todo) \in Nat \ {0} /\ Len(ThePlan) \in Nat /\ (Probing <=> Current.kind = "probe")
        /\ hpc' = "next" /\ todo' = IF Current.kind = "probe" THEN ThePlan ELSE Tail(todo)
    BY <1>1, <1>5, Place DEF Listening, OpSucceeds
  <2>2. CASE Probing
    <3>1. Passed' = 0
      BY <1>2, <2>1, <2>2 DEF Passed, Probing
    <3> QED
      BY <2>1, <3>1 DEF Backed
  <2>3. CASE ~Probing
    <3>1. Len(todo') = Len(todo) - 1
      BY <1>1, <2>1, <2>3, HeadTailProperties DEF Typed
    <3>2. Passed' = Passed + 1 /\ Passed \in Nat /\ Current = ThePlan[Passed + 1]
      BY <1>1, <1>2, <2>1, <2>3, <3>1, Place DEF Passed, Probing
    <3>3. /\ Len(saved) \in Nat
          /\ saved' = Append(saved, e) => Len(saved') = Len(saved) + 1 /\ saved'[Len(saved) + 1] = e
          /\ \A k \in 1..Len(saved) : saved'[k] = saved[k] /\ k \in 1..Len(saved')
      <4>1. /\ Len(Append(saved, e)) = Len(saved) + 1 /\ Len(saved) \in Nat
            /\ \A k \in 1..Len(saved) : Append(saved, e)[k] = saved[k]
            /\ Append(saved, e)[Len(saved) + 1] = e
        BY Extended DEF Clean
      <4> QED
        BY <1>5, <4>1
    <3>4. ASSUME NEW p \in 1..Passed + 1, ThePlan[p].kind = "read"
          PROVE  \E k \in 1..Len(saved') : saved'[k][1] = ThePlan[p]
      <4>1. CASE p \in 1..Passed
        BY <3>3, <3>4, <4>1 DEF Backed
      <4>2. CASE p = Passed + 1
        <5>1. Len(saved') = Len(saved) + 1 /\ saved'[Len(saved) + 1] = e /\ e[1] = ThePlan[p]
          BY <1>5, <3>2, <3>3, <3>4, <4>2
        <5>2. Len(saved) + 1 \in 1..Len(saved')
          BY <3>3, <5>1
        <5> QED
          BY <5>1, <5>2
      <4> QED
        BY <3>2, <4>1, <4>2
    <3> QED
      BY <1>2, <2>1, <3>2, <3>4 DEF Backed
  <2> QED
    BY <2>2, <2>3
<1>6. ASSUME OpFails, hpc \in Working, saved' = saved PROVE Backed'
  <2>1. Probing <=> Current.kind = "probe"
    BY <1>1, <1>6, Place DEF Listening
  <2>2. CASE Probing
    BY <1>4, <1>6, <2>1, <2>2 DEF OpFails
  <2>3. CASE ~Probing
    BY <1>3, <1>6, <2>1, <2>3 DEF OpFails
  <2> QED
    BY <2>2, <2>3
<1>7. CASE SimpleReply \/ Programmed \/ ReadDone \/ (RawReply /\ resp # "ACK")
  <2>1. hpc \in Working /\ (hpc = "raw_sent" => Current.kind = "program")
    BY <1>7 DEF SimpleReply, Programmed, ReadDone, RawReply, Working, Backed
  <2>2. \/ OpFails /\ saved' = saved
        \/ OpSucceeds /\ saved' = saved /\ Current.kind # "read"
        \/ OpSucceeds /\ saved' = Append(saved, << Current, got >>)
    BY <1>7, <2>1 DEF SimpleReply, Programmed, ReadDone, RawReply
  <2>3. << Current, got >>[1] = Current
    OBVIOUS
  <2> QED
    BY <1>5, <1>6, <2>1, <2>2, <2>3
<1>8. CASE RawReply /\ resp = "ACK"
  BY <1>3, <1>8 DEF RawReply
<1>9. CASE ReadUnits \/ ReadTimesOut \/ ReadFails
  BY <1>3, <1>9 DEF ReadUnits, ReadTimesOut, ReadFails
<1>10. CASE SendConfigure \/ Configured \/ Reconfigured
  BY <1>3, <1>10 DEF SendConfigure, Configured, Reconfigured, Send, Return
<1>11. CASE SendNext \/ Bootabled \/ Finished \/ SendChunk \/ ChunkWriteFails
  BY <1>3, <1>11 DEF SendNext, Bootabled, Finished, SendChunk, ChunkWriteFails, Send, Return
<1>12. CASE DrainRemainder \/ RawIn \/ RawInFails
  BY <1>3, <1>12 DEF DrainRemainder, RawIn, RawInFails, TakeUnits
<1>13. CASE EraseAllReply
  <2>1. hpc = "reply" /\ saved' = saved /\ Current.kind = "erase" /\ todo # << >>
    BY <1>1, <1>13, PassIsErases DEF EraseAllReply, InPass, Listening, Working
  <2>2. CASE hpc' = "end" /\ todo' = todo
    BY <1>3, <2>1, <2>2
  <2>3. CASE hpc' = "next" /\ todo' = Tail(todo)
    <3>1. ~Probing /\ Passed \in Nat /\ Current = ThePlan[Passed + 1]
      BY <1>1, <2>1, Place
    <3>2. Passed' = Passed + 1
      BY <1>1, <1>2, <2>1, <2>3, <3>1, Advances
    <3>3. ASSUME NEW p \in 1..Passed + 1, ThePlan[p].kind = "read" PROVE p \in 1..Passed
      BY <2>1, <3>1, <3>3
    <3> QED
      BY <1>2, <2>1, <2>3, <3>2, <3>3 DEF Backed
  <2> QED
    BY <1>13, <2>2, <2>3 DEF EraseAllReply
<1> QED
  BY <1>1, <1>7, <1>8, <1>9, <1>10, <1>11, <1>12, <1>13 DEF HostNext

\* No other step touches what was saved.
LEMMA StepKeepsBacked == ASSUME IInv, Prompt, Order, Clean, Backed, [Next]_vars PROVE Backed'
<1>1. ASSUME UNCHANGED << hpc, todo, saved >> PROVE Backed'
  <2>1. ThePlan' = ThePlan
    BY SetupIsFixed DEF ThePlan
  <2> QED
    BY <1>1, <2>1 DEF Backed, Passed, Probing, Current
<1>2. ASSUME UNCHANGED hostVars PROVE Backed'
  BY <1>1, <1>2 DEF hostVars, opVars
<1>3. CASE UNCHANGED vars
  BY <1>2, <1>3 DEF vars
<1>4. CASE DevNext \/ Unplug
  BY <1>2, <1>4 DEF DevNext, Boot, DevLog, DevCommand, DevRefuses, DevRawIn, DevRawFails, DevGarbage, Unplug
<1> QED
  BY <1>3, <1>4, HostKeepsBacked DEF Next, Ended

\* The invariant of the session with a programmer that answers in time.
Session == Prompt => Order /\ Clean /\ Backed

\* It holds throughout.
LEMMA SessionInvariant == Spec => [](IInv /\ Session)
<1>1. Init => Session
  <2>1. Init => Backed
    <3> SUFFICES ASSUME Init PROVE Backed
      OBVIOUS
    <3>1. Passed = 0
      BY NonePassed
    <3> QED
      BY <3>1 DEF Init, Backed
  <2> QED
    BY <2>1, InitInOrder, InitIsClean DEF Session
<1>2. Prompt' /\ [Next]_vars => Prompt
  BY SetupIsFixed DEF Prompt
<1>3. IInv /\ Session /\ [Next]_vars => Session'
  BY <1>2, StepInOrder, StepKeepsClean, StepKeepsBacked DEF Session
<1> QED
  BY <1>1, <1>3, Invariant, PTL DEF Spec

(* With a programmer that answers in time, no erase of --erase-all is      *)
(* carried out before every backup the documents ask for is on disk,       *)
(* complete.                                                               *)
THEOREM ErasesAfterBackup == Spec => [](Prompt => BackupBeforeErase)
<1>1. ASSUME IInv, Prompt, Order, Clean, Backed PROVE BackupBeforeErase
  <2> SUFFICES ASSUME NEW i \in 1..Len(EraseAllOps), setup.erase_all, Executed(EraseAllOps[i]),
                      NEW j \in 1..Len(OfKind("read"))
               PROVE  \E k \in 1..Len(saved) :
                         saved[k][1] = OfKind("read")[j] /\ saved[k][2] = Payload(saved[k][1])
    BY DEF BackupBeforeErase
  <2>1. Typed
    BY <1>1 DEF IInv
  <2>2. /\ Len(OfKind("read")) \in Nat /\ Len(EraseAllOps) \in Nat
        /\ Len(OfKind("read")) + Len(EraseAllOps) <= Len(ThePlan) /\ Len(ThePlan) \in Nat
        /\ ThePlan[j] = OfKind("read")[j] /\ ThePlan[j].kind = "read"
        /\ ThePlan[Len(OfKind("read")) + i] = EraseAllOps[i]
        /\ \A p, q \in 1..Len(ThePlan) : ThePlan[p].id = ThePlan[q].id => p = q
    BY <2>1, EraseAllPlan DEF Typed
  <2>3. Passed \in Nat
    BY <1>1, <2>1, Place DEF Order
  <2>4. Executed(ThePlan[Len(OfKind("read")) + i]) /\ Len(OfKind("read")) + i \in 1..Len(ThePlan)
    BY <2>2
  <2>5. Len(OfKind("read")) + i <= Passed + 1
    BY <1>1, <2>2, <2>3, <2>4 DEF Order, Performed
  <2>6. j \in 1..Passed
    BY <2>2, <2>3, <2>5
  <2>7. PICK k \in 1..Len(saved) : saved[k][1] = ThePlan[j]
    BY <1>1, <2>2, <2>6 DEF Backed
  <2> QED
    BY <1>1, <2>2, <2>7 DEF Clean, ReadsAreClean
<1>2. IInv /\ Session => (Prompt => BackupBeforeErase)
  BY <1>1 DEF Session
<1> QED
  BY <1>2, SessionInvariant, PTL

-----------------------------------------------------------------------------
(* Without a cause the session does not fail.                              *)

\* Nothing went wrong, and the host reads one message at a time.
Undisturbed == cause = {} /\ ~setup.serial

\* The answer to a command is on its way, or was heard; that to a read
\* command has its two responses in order.
Coming == tx # << >> \/ "ACK" \in Types(rx) \/ resp = "ACK"
BothComing ==
    \/ tx # << >>
    \/ \E r, a \in 1..Len(rx) : r < a /\ rx[r].type = "RAW" /\ rx[a].type = "ACK"

\* The host waits for no answer that is not on its way.
Punctual ==
    /\ up /\ "NAK" \notin Types(rx) /\ resp \notin {"NAK", "EIO"} /\ remainder = << >>
    /\ hpc = "reconfigured" => IF reading THEN Coming ELSE resp = "ACK"
    /\ hpc = "reply" /\ Current.kind \in {"erase", "patch"} =>
          IF reading THEN Coming ELSE resp = "ACK"
    /\ hpc = "reply" /\ Current.kind = "program" =>
          IF reading THEN tx # << >> \/ ~NoRaw ELSE resp = "ACK"
    /\ hpc = "reply" /\ Reads =>
          IF reading THEN BothComing ELSE resp = "ACK" /\ "ACK" \in Types(rx)
    /\ hpc = "raw_out" => dev = "rawin"
    /\ hpc = "raw_sent" =>
          IF reading THEN dev = "rawin" \/ (tx = << >> /\ Coming) ELSE resp = "ACK"
    /\ hpc = "raw_in" => "ACK" \in Types(rx)
    /\ hpc = "read_close" => IF reading THEN Coming ELSE resp = "ACK"
    /\ hpc # "read_abort"

\* The erases of --erase-all that the host has passed count as done.
Earned == \A i \in 1..Passed : PassAt(i) => ThePlan[i].id \in succeeded

FailsForCause ==
    /\ hpc \in Active \cup {"end"}
    /\ Undisturbed => result # "failed" /\ Earned /\ (hpc # "end" => Punctual)

\* Over USB the host takes the next message.
LEMMA OneUnit ==
    ASSUME Typed, ReadUnits, ~setup.serial
    PROVE  /\ rx # << >> /\ IsSeq(rx) /\ Len(rx) \in Nat \ {0} /\ Head(rx) = rx[1]
           /\ IsSeq(rx') /\ Len(rx') = Len(rx) - 1 /\ \A i \in 1..Len(rx) - 1 : rx'[i] = rx[i + 1]
           /\ reading /\ remainder' = remainder
           /\ UNCHANGED << hpc, todo, result, tx, dev, cause, setup, up >>
           /\ \/ rx[1].type = "RAW" /\ reading' = FALSE /\ resp' = "ACK"
              \/ /\ rx[1].type # "RAW" /\ reading' = TRUE
                 /\ resp' = IF rx[1].type \in {"ACK", "NAK"} THEN rx[1].type ELSE resp
<1>1. /\ rx # << >> /\ reading /\ ReadSizes = {1}
      /\ UNCHANGED << hpc, todo, result, tx, dev, cause, setup, up >>
  BY DEF ReadUnits, ReadSizes, opVars, devVars, linkVars
<1>2. IsSeq(rx) /\ Len(rx) \in Nat \ {0} /\ Head(rx) = rx[1]
  BY <1>1, Rest DEF Typed
<1>3. LET raws == {i \in 1..1 : rx[i].type = "RAW"}
          answers == {i \in 1..1 : IsResponse(rx[i])}
      IN  /\ rx' = SubSeq(rx, 1 + 1, Len(rx))
          /\ \/ \E i \in raws :
                   /\ \A j \in raws : i <= j
                   /\ reading' = FALSE /\ resp' = "ACK"
                   /\ remainder' = IF i < 1 THEN SubSeq(rx, i + 1, 1) ELSE remainder
             \/ /\ raws = {} /\ UNCHANGED << reading, remainder >>
                /\ \/ answers = {} /\ UNCHANGED resp
                   \/ \E i \in answers : (\A j \in answers : j <= i) /\ resp' = rx[i].type
  BY <1>1 DEF ReadUnits
<1>4. \A i \in 1..1 : i = 1
  OBVIOUS
<1>5. rx' = SubSeq(rx, 2, Len(rx))
  BY <1>3
<1>6. \/ rx[1].type = "RAW" /\ reading' = FALSE /\ resp' = "ACK" /\ remainder' = remainder
      \/ /\ rx[1].type # "RAW" /\ UNCHANGED << reading, remainder >>
         /\ resp' = IF rx[1].type \in {"ACK", "NAK"} THEN rx[1].type ELSE resp
  BY <1>3, <1>4 DEF IsResponse
<1>7. /\ IsSeq(rx') /\ Len(rx') = Len(rx) - 1
      /\ \A i \in 1..Len(rx) - 1 : rx'[i] = rx[i + 1]
  <2>1. PICK a \in Nat \ {0} : a = 2
    OBVIOUS
  <2>2. rx' = SubSeq(rx, a, Len(rx))
    BY <1>5, <2>1
  <2>3. /\ IsSeq(SubSeq(rx, a, Len(rx)))
        /\ Len(SubSeq(rx, a, Len(rx))) = IF a <= Len(rx) THEN Len(rx) - a + 1 ELSE 0
        /\ \A i \in 1..(Len(rx) - a + 1) : SubSeq(rx, a, Len(rx))[i] = rx[a + i - 1]
    <3>1. a \in Nat \ {0} /\ Len(rx) \in Nat /\ Len(rx) <= Len(rx) /\ IsSeq(rx)
      BY <1>2, <2>1
    <3> QED
      BY <3>1, PartOf
  <2>4. Len(rx') = Len(rx) - 1
    <3>1. Len(rx') = IF a <= Len(rx) THEN Len(rx) - a + 1 ELSE 0
      BY <2>2, <2>3
    <3>2. \A n \in Nat \ {0} : (IF a <= n THEN n - a + 1 ELSE 0) = n - 1
      BY <2>1
    <3> QED
      BY <1>2, <3>1, <3>2
  <2>5. ASSUME NEW i \in 1..Len(rx) - 1 PROVE rx'[i] = rx[i + 1]
    <3>1. i \in 1..(Len(rx) - a + 1) /\ a + i - 1 = i + 1
      BY <1>2, <2>1
    <3> QED
      BY <2>2, <2>3, <3>1
  <2> QED
    BY <2>2, <2>3, <2>4, <2>5
<1> QED
  BY <1>1, <1>2, <1>6, <1>7

\* What stays on its way when one unit is taken.
LEMMA StillComing ==
    ASSUME NEW q, IsSeq(q), NEW p, IsSeq(p), Len(q) \in Nat \ {0}, Len(p) = Len(q) - 1,
           \A i \in 1..Len(q) - 1 : p[i] = q[i + 1]
    PROVE  /\ Types(p) \subseteq Types(q)
           /\ \A type \in Types(q) : type = q[1].type \/ type \in Types(p)
           /\ q[1].type \in Types(q)
<1>1. Types(p) \subseteq Types(q)
  <2> SUFFICES ASSUME NEW i \in 1..Len(p) PROVE p[i].type \in Types(q)
    BY DEF Types
  <2>1. i + 1 \in 1..Len(q) /\ p[i] = q[i + 1]
    OBVIOUS
  <2> QED
    BY <2>1 DEF Types
<1>2. ASSUME NEW i \in 1..Len(q) PROVE q[i].type = q[1].type \/ q[i].type \in Types(p)
  <2>1. CASE i = 1
    BY <2>1
  <2>2. CASE i # 1
    <3>1. i - 1 \in 1..Len(p) /\ p[i - 1] = q[(i - 1) + 1] /\ (i - 1) + 1 = i
      BY <2>2
    <3> QED
      BY <3>1 DEF Types
  <2> QED
    BY <2>1, <2>2
<1>3. q[1].type \in Types(q)
  <2>1. 1 \in 1..Len(q)
    OBVIOUS
  <2> QED
    BY <2>1 DEF Types
<1>4. ASSUME NEW type \in Types(q) PROVE type = q[1].type \/ type \in Types(p)
  <2>1. PICK i \in 1..Len(q) : type = q[i].type
    BY <1>4 DEF Types
  <2> QED
    BY <1>2, <2>1
<1> QED
  BY <1>1, <1>3, <1>4

\* The host takes a message.
LEMMA ReadsInTime ==
    ASSUME IInv, Prompt, Punctual, ~setup.serial, hpc # "end", ReadUnits
    PROVE  result' = result /\ Punctual'
<1>1. /\ rx # << >> /\ IsSeq(rx) /\ Len(rx) \in Nat \ {0}
      /\ IsSeq(rx') /\ Len(rx') = Len(rx) - 1 /\ \A i \in 1..Len(rx) - 1 : rx'[i] = rx[i + 1]
      /\ reading /\ remainder' = remainder
      /\ UNCHANGED << hpc, todo, result, tx, dev, cause, setup, up >>
      /\ \/ rx[1].type = "RAW" /\ reading' = FALSE /\ resp' = "ACK"
         \/ /\ rx[1].type # "RAW" /\ reading' = TRUE
            /\ resp' = IF rx[1].type \in {"ACK", "NAK"} THEN rx[1].type ELSE resp
  BY OneUnit DEF IInv
<1>2. /\ Types(rx') \subseteq Types(rx)
      /\ \A type \in Types(rx) : type = rx[1].type \/ type \in Types(rx')
      /\ rx[1].type \in Types(rx)
  BY <1>1, StillComing
<1>3. rx[1].type # "NAK" /\ "NAK" \notin Types(rx') /\ resp' \in {"ACK", resp}
  BY <1>1, <1>2 DEF Punctual
<1>4. Typed /\ Listening /\ Phase /\ (~NoRaw => hpc = "reply" /\ Replied(Current))
  BY Heard DEF IInv, Protocol
<1>5. Current' = Current /\ Reads' = Reads
  BY <1>1 DEF Current, Reads
<1>6. hpc # "reply" => rx[1].type # "RAW" /\ reading' = TRUE
  BY <1>1, <1>2, <1>4 DEF NoRaw
<1>7. Coming => Coming'
  BY <1>1, <1>2, <1>3 DEF Coming
<1>8. ASSUME hpc = "reply" PROVE Punctual'
  <2>1. Replied(Current)
    BY <1>1, <1>4, <1>8 DEF Phase
  <2>2. Current \in Operation
    BY <1>4, <1>8, CurrentIsOperation DEF Working
  <2>3. CASE Current.kind \in {"erase", "patch"}
    <3>1. NoRaw
      BY <2>1, <2>3 DEF Replied, Sent, Expecting, NoRaw
    <3>2. reading' = TRUE
      BY <1>1, <1>2, <3>1 DEF NoRaw
    <3> QED
      BY <1>1, <1>3, <1>5, <1>7, <1>8, <2>3, <3>2 DEF Punctual, Reads
  <2>4. CASE Current.kind = "program"
    <3>1. reading' = TRUE => tx' # << >> \/ ~NoRaw'
      BY <1>1, <1>2, <1>8, <2>4 DEF Punctual, NoRaw
    <3>2. reading' = FALSE => resp' = "ACK"
      BY <1>1
    <3> QED
      BY <1>1, <1>3, <1>5, <1>8, <2>4, <3>1, <3>2 DEF Punctual, Reads
  <2>5. CASE Reads
    <3>1. BothComing
      BY <1>1, <1>8, <2>5 DEF Punctual
    <3>2. CASE tx # << >>
      <4>1. NoRaw
        BY <2>1, <2>5, <3>2 DEF Replied, Sent, Expecting, Served, NoRaw, Reads
      <4>2. reading' = TRUE
        BY <1>1, <1>2, <4>1 DEF NoRaw
      <4> QED
        BY <1>1, <1>3, <1>5, <1>8, <2>5, <3>2, <4>2 DEF Punctual, Reads, BothComing
    <3>3. CASE tx = << >>
      <4>1. PICK r, a \in 1..Len(rx) : r < a /\ rx[r].type = "RAW" /\ rx[a].type = "ACK"
        BY <3>1, <3>3 DEF BothComing
      <4>2. OneRaw(rx)
        BY <2>1, <2>5, <3>3 DEF Replied, Sent, Expecting, Reads
      <4>3. a - 1 \in 1..Len(rx') /\ rx'[a - 1] = rx[a]
        <5>1. a - 1 \in 1..Len(rx) - 1 /\ (a - 1) + 1 = a
          BY <1>1, <4>1
        <5> QED
          BY <1>1, <5>1
      <4>4. "ACK" \in Types(rx')
        BY <4>1, <4>3 DEF Types
      <4>5. CASE r = 1
        BY <1>1, <1>3, <1>5, <1>8, <2>5, <4>1, <4>4, <4>5 DEF Punctual, Reads
      <4>6. CASE r # 1
        <5>1. r - 1 \in 1..Len(rx') /\ rx'[r - 1] = rx[r] /\ r - 1 < a - 1
          <6>1. r - 1 \in 1..Len(rx) - 1 /\ (r - 1) + 1 = r
            BY <1>1, <4>1, <4>6
          <6> QED
            BY <1>1, <4>1, <6>1
        <5>2. BothComing'
          BY <4>1, <4>3, <5>1 DEF BothComing
        <5>3. rx[1].type # "RAW"
          BY <1>1, <4>1, <4>2, <4>6 DEF OneRaw
        <5> QED
          BY <1>1, <1>3, <1>5, <1>8, <2>5, <5>2, <5>3 DEF Punctual, Reads
      <4> QED
        BY <4>5, <4>6
    <3> QED
      BY <3>2, <3>3
  <2> QED
    BY <2>2, <2>3, <2>4, <2>5 DEF Operation, Reads
<1>9. ASSUME hpc # "reply" PROVE Punctual'
  <2>1. hpc \notin {"raw_in", "raw_out"}
    BY <1>1, <1>4 DEF Listening
  <2> QED
    BY <1>1, <1>3, <1>5, <1>6, <1>7, <1>9, <2>1 DEF Punctual
<1> QED
  BY <1>1, <1>8, <1>9

\* The host waits until the line is quiet, and has its answer then.
LEMMA QuietInTime ==
    ASSUME IInv, Prompt, Punctual, hpc # "end", ReadTimesOut
    PROVE  result' = result /\ Punctual'
<1>1. /\ reading /\ reading' = FALSE /\ resp' = (IF resp = "none" THEN "ETIMEDOUT" ELSE resp)
      /\ UNCHANGED << hpc, todo, result, remainder, rx, tx, dev, up >>
  BY DEF ReadTimesOut, rawVars, opVars, devVars, wireVars, linkVars
<1>2. up /\ rx = << >> /\ (dev # "boot" => tx = << >>) /\ Types(rx) = {}
  BY Silence, Short DEF ReadTimesOut
<1>3. Typed /\ Listening /\ Phase
  BY <1>2 DEF IInv, Protocol
<1>4. Current' = Current /\ Reads' = Reads
  BY <1>1 DEF Current, Reads
<1>5. tx = << >> \/ hpc \in {"configured", "bootable", "reset"}
  BY <1>1, <1>2, <1>3 DEF Listening, Phase, Replied, Sent, Expecting, Served, Outstanding
<1>6. Coming /\ tx = << >> => resp' = "ACK"
  BY <1>1, <1>2 DEF Coming
<1>7. hpc = "raw_sent" => dev # "rawin"
  <2> SUFFICES ASSUME hpc = "raw_sent", dev = "rawin" PROVE FALSE
    OBVIOUS
  <2>1. devleft = Len(tx) + 0 /\ devleft > 0 /\ tx = << >>
    BY <1>3, <1>5 DEF Phase, Outstanding
  <2> QED
    BY <2>1, EmptySeq
<1>8. hpc = "reply" => Current.kind \in {"erase", "patch"} /\ resp' = "ACK"
  <2> SUFFICES ASSUME hpc = "reply" PROVE Current.kind \in {"erase", "patch"} /\ resp' = "ACK"
    OBVIOUS
  <2>1. Current \in Operation
    BY <1>3, CurrentIsOperation DEF Working
  <2>2. ~BothComing /\ NoRaw
    BY <1>2, <1>5, EmptySeq DEF BothComing, NoRaw
  <2>3. Current.kind \in {"erase", "patch"}
    BY <1>1, <1>5, <2>1, <2>2 DEF Punctual, Reads, Operation
  <2> QED
    BY <1>1, <1>5, <1>6, <2>3 DEF Punctual
<1> QED
  BY <1>1, <1>2, <1>3, <1>4, <1>5, <1>6, <1>7, <1>8 DEF Punctual, Listening, Reads

\* The host sends a command, which is an answer on its way.
LEMMA SendsInTime ==
    ASSUME IInv, Prompt, Punctual, hpc # "end",
           SendConfigure \/ Configured \/ SendNext \/ Bootabled
    PROVE  cause' = {} => result' = result /\ Punctual'
<1>1. /\ up /\ Typed /\ Listening /\ Phase /\ IsSeq(tx) /\ IsSeq(rx)
      /\ UNCHANGED << up, rx, dev, remainder >>
  BY DEF IInv, Protocol, Typed, Punctual, SendConfigure, Configured, SendNext, Bootabled, rawVars, devVars, linkVars
<1>2. ASSUME NEW op, NEW pc, Send(op, pc)
      PROVE  hpc' = pc /\ reading' = TRUE /\ resp' = "none" /\ tx' # << >>
  <2>1. hpc' = pc /\ reading' = TRUE /\ resp' = "none" /\ tx' = Append(tx, Cmd(op))
    BY <1>1, <1>2 DEF Send, Put, Await
  <2>2. Len(Append(tx, Cmd(op))) = Len(tx) + 1 /\ Len(tx) \in Nat /\ IsSeq(Append(tx, Cmd(op)))
    BY <1>1, Extended
  <2> QED
    BY <2>1, <2>2, EmptySeq
<1>3. ASSUME NEW op, NEW pc, Send(op, pc),
             pc \in {"configured", "reconfigured", "reply", "bootable", "reset"}
      PROVE  Punctual'
  BY <1>1, <1>2, <1>3 DEF Punctual, Coming, BothComing
<1>4. CASE SendConfigure
  BY <1>3, <1>4 DEF SendConfigure, opVars
<1>5. CASE Configured
  <2>1. hpc = "configured"
    BY <1>5 DEF Configured
  <2>2. CASE \E op, pc : Send(op, pc) /\ pc = "reconfigured" /\ UNCHANGED opVars
    BY <1>3, <2>2 DEF opVars
  <2>3. CASE hpc' \in {"next", "configure"} /\ UNCHANGED << opVars, readVars >>
    BY <1>1, <2>3 DEF Punctual, opVars, readVars
  <2>4. CASE cause' = cause \cup {"silent"}
    BY <2>4
  <2> QED
    BY <1>5, <2>2, <2>3, <2>4 DEF Configured, Punctual
<1>6. CASE SendNext \/ Bootabled
  BY <1>3, <1>6 DEF SendNext, Bootabled, opVars
<1> QED
  BY <1>4, <1>5, <1>6

\* The pass of --erase-all goes on after an erase that was done, also after
\* its last one when the others were.
LEMMA PassGoesOn ==
    ASSUME Typed, Listening, Order, Earned, EraseAllReply, resp = "ACK"
    PROVE  hpc' = "next" /\ result' = result
<1> DEFINE a == Len(OfKind("read"))
<1>1. /\ setup \in Setups /\ setup.erase_all /\ InPass(Current) /\ succeeded' = succeeded \cup {Current.id}
      /\ todo # << >> /\ Current.kind = "erase"
  BY PassIsErases DEF Typed, EraseAllReply, InPass, Listening, Working
<1>2. /\ a \in Nat /\ Len(EraseAllOps) \in Nat /\ a + Len(EraseAllOps) <= Len(ThePlan)
      /\ \A i \in 1..Len(EraseAllOps) : ThePlan[a + i] = EraseAllOps[i]
      /\ \A i, j \in 1..Len(ThePlan) : ThePlan[i].id = ThePlan[j].id => i = j
  BY <1>1, EraseAllPlan
<1>3. /\ Len(ThePlan) \in Nat /\ Passed \in Nat /\ Passed + 1 \in 1..Len(ThePlan)
      /\ Current = ThePlan[Passed + 1]
  BY <1>1, Place DEF Order
<1> HIDE DEF a
<1>4. ASSUME Current = EraseAllOps[Len(EraseAllOps)], NEW op \in Range(EraseAllOps) PROVE op.id \in succeeded'
  <2>1. PICK k \in 1..Len(EraseAllOps) : op = EraseAllOps[k]
    BY InRange
  <2>2. /\ Len(EraseAllOps) \in 1..Len(EraseAllOps) /\ a + Len(EraseAllOps) \in 1..Len(ThePlan)
        /\ a + k \in 1..Len(ThePlan) /\ a + k <= a + Len(EraseAllOps)
    BY <1>2, <1>3, <2>1
  <2>3. a + Len(EraseAllOps) = Passed + 1
    BY <1>2, <1>3, <1>4, <2>2
  <2>4. a + k \in 1..Passed \/ a + k = Passed + 1
    BY <1>3, <2>2, <2>3
  <2>5. ThePlan[a + k] = op
    BY <1>2, <2>1
  <2>6. CASE a + k \in 1..Passed
    BY <1>1, <2>5, <2>6 DEF Earned, PassAt, InPass
  <2>7. CASE a + k = Passed + 1
    BY <1>1, <1>3, <2>5, <2>7
  <2> QED
    BY <2>4, <2>6, <2>7
<1> QED
  BY <1>4 DEF EraseAllReply

\* In time, an erase of --erase-all is acknowledged.
LEMMA ErasesInTime ==
    ASSUME Punctual, EraseAllReply
    PROVE  resp = "ACK"
  BY PassIsErases DEF Punctual, EraseAllReply, InPass

\* Every step keeps what the host has passed counted.
LEMMA EarnedStays ==
    ASSUME IInv, Prompt, Order, Earned, [Next]_vars, EraseAllReply => resp = "ACK"
    PROVE  Earned'
<1>1. Typed /\ Listening /\ setup' = setup /\ ThePlan' = ThePlan
  <2>1. setup' = setup
    BY SetupIsFixed
  <2>2. ThePlan' = ThePlan
    BY <2>1 DEF ThePlan
  <2>3. Typed /\ Listening
    BY DEF IInv, Protocol
  <2> QED
    BY <2>1, <2>2, <2>3
<1> USE DEF devVars, linkVars, opVars, wireVars, readVars, rawVars
<1>2. ASSUME UNCHANGED << todo, succeeded >> PROVE Earned'
  BY <1>1, <1>2 DEF Earned, Passed, Probing, PassAt, InPass
<1>3. ASSUME todo # << >>, todo' = Tail(todo), succeeded \subseteq succeeded',
             ~Probing => Current.id \in succeeded'
      PROVE  Earned'
  <2>1. CASE Probing
    <3>1. Passed' = 0
      BY <1>1, <1>3, <2>1, Advances
    <3> QED
      BY <3>1 DEF Earned
  <2>2. CASE ~Probing
    <3>1. Passed' = Passed + 1 /\ Passed \in Nat /\ Current = ThePlan[Passed + 1]
      BY <1>1, <1>3, <2>2, Advances, Place DEF Order
    <3>2. ASSUME NEW i \in 1..Passed + 1, PassAt(i) PROVE ThePlan[i].id \in succeeded'
      <4>1. i \in 1..Passed \/ i = Passed + 1
        BY <3>1
      <4> QED
        BY <1>3, <2>2, <3>1, <3>2, <4>1 DEF Earned
    <3> QED
      BY <1>1, <3>1, <3>2 DEF Earned, PassAt, InPass
  <2> QED
    BY <2>1, <2>2
<1>4. ASSUME OpSucceeds, hpc \in Working PROVE Earned'
  <2>1. todo # << >> /\ (Probing <=> Current.kind = "probe") /\ succeeded' = succeeded \cup {Current.id}
    BY <1>1, <1>4, Place DEF Listening, OpSucceeds, Order
  <2>2. CASE Probing
    <3>1. todo' = ThePlan /\ Len(ThePlan) \in Nat
      BY <1>1, <1>4, <2>1, <2>2, Place DEF OpSucceeds, Order
    <3>2. Passed' = 0
      BY <1>1, <3>1 DEF Passed, Probing
    <3> QED
      BY <3>2 DEF Earned
  <2>3. CASE ~Probing
    BY <1>3, <1>4, <2>1, <2>3 DEF OpSucceeds
  <2> QED
    BY <2>2, <2>3
<1>5. ASSUME OpFails, hpc \in Working PROVE Earned'
  <2>1. todo # << >> /\ (Probing <=> Current.kind = "probe")
    BY <1>1, <1>5, Place DEF Listening, Order
  <2> QED
    BY <1>2, <1>3, <1>5, <2>1 DEF OpFails
<1>6. CASE SimpleReply \/ RawReply \/ Programmed \/ ReadDone \/ FileReadFails
  <2>1. hpc \in Working
    BY <1>6 DEF SimpleReply, RawReply, Programmed, ReadDone, FileReadFails, Working
  <2> QED
    BY <1>2, <1>4, <1>5, <1>6, <2>1 DEF SimpleReply, RawReply, Programmed, ReadDone, FileReadFails
<1>7. CASE EraseAllReply
  <2>1. todo # << >> /\ succeeded' = succeeded \cup {Current.id} /\ resp = "ACK"
    BY <1>1, <1>7 DEF EraseAllReply, Listening, Working
  <2>2. CASE hpc' = "next"
    BY <1>3, <1>7, <2>1, <2>2 DEF EraseAllReply
  <2>3. CASE hpc' = "end"
    BY <1>1, <1>7, <2>1, <2>3, PassGoesOn
  <2> QED
    BY <1>7, <2>2, <2>3 DEF EraseAllReply
<1>8. CASE ReadUnits \/ ReadTimesOut \/ ReadFails \/ SendConfigure \/ Configured \/ Reconfigured \/ SendNext
           \/ OpenFails \/ SendChunk \/ ChunkWriteFails \/ DrainRemainder \/ RawIn \/ RawInFails \/ Bootabled
           \/ Finished
  BY <1>2, <1>8 DEF ReadUnits, ReadTimesOut, ReadFails, SendConfigure, Configured, Reconfigured, SendNext, OpenFails,
                    SendChunk, ChunkWriteFails, DrainRemainder, RawIn, RawInFails, Bootabled, Finished, Return
<1>9. CASE DevNext \/ Unplug \/ Ended \/ UNCHANGED vars
  BY <1>2, <1>9 DEF DevNext, Boot, DevLog, DevCommand, DevRefuses, DevRawIn, DevRawFails, DevGarbage, Unplug, Ended,
                    vars, hostVars
<1> QED
  BY <1>6, <1>7, <1>8, <1>9 DEF Next, HostNext

\* The host goes on with an answer that arrived, or ends.
LEMMA ActsInTime ==
    ASSUME IInv, Prompt, Order, Clean, Punctual, Earned, hpc # "end", result # "failed",
           \/ Reconfigured \/ SimpleReply \/ EraseAllReply \/ RawReply \/ SendChunk \/ ChunkWriteFails \/ Programmed
           \/ RawInFails \/ ReadDone \/ Finished
    PROVE  result' # "failed" /\ (hpc' # "end" => Punctual')
<1>1. /\ up /\ Typed /\ Listening /\ Phase
      /\ UNCHANGED << up, rx, dev, remainder >>
  BY DEF IInv, Protocol, Punctual, Reconfigured, SimpleReply, EraseAllReply, RawReply, SendChunk, ChunkWriteFails,
         Programmed, RawInFails, ReadDone, Finished, rawVars, devVars, wireVars, linkVars
<1>2. ~ChunkWriteFails
  BY <1>1 DEF ChunkWriteFails
<1>3. ~RawInFails
  <2>1. hpc = "raw_in" => rx # << >>
    BY Short DEF Punctual
  <2> QED
    BY <1>1, <2>1 DEF RawInFails, LineQuiet
<1>4. CASE \/ Reconfigured /\ resp = "ACK"
           \/ Finished
           \/ (SimpleReply \/ Programmed \/ ReadDone) /\ OpSucceeds
  <2>1. result' # "failed" /\ hpc' \in {"next", "end"} /\ resp' = resp
    BY <1>4 DEF Reconfigured, Finished, SimpleReply, Programmed, ReadDone, OpSucceeds, Return, opVars, readVars
  <2> QED
    BY <1>1, <2>1 DEF Punctual
<1>5. CASE RawReply
  <2>1. /\ hpc = "reply" /\ ~reading /\ Current.kind \in {"program", "read", "probe"} /\ Answered(Current)
        /\ UNCHANGED << reading, resp, tx >>
    BY <1>1, <1>5 DEF RawReply, Phase, readVars, wireVars
  <2>2. resp = "ACK" /\ (Reads => "ACK" \in Types(rx))
    BY <2>1 DEF Punctual, Reads
  <2>3. /\ hpc' = IF Current.kind = "program" THEN "raw_out" ELSE "raw_in"
        /\ result' = result
    BY <1>5, <2>2 DEF RawReply
  <2>4. Current.kind = "program" => dev = "rawin"
    BY <2>1, <2>2 DEF Answered, Expecting, Quiet
  <2> QED
    BY <1>1, <2>1, <2>2, <2>3, <2>4 DEF Punctual, Reads
<1>6. CASE SendChunk
  <2>1. /\ hpc = "raw_out" /\ dev = "rawin" /\ UNCHANGED << result, cause >>
        /\ \/ hpc' = "raw_out" /\ UNCHANGED << reading, resp >>
           \/ hpc' = "raw_sent" /\ reading' = TRUE /\ resp' = "none"
    BY <1>6 DEF SendChunk, Punctual, Await, readVars, opVars
  <2> QED
    BY <1>1, <2>1 DEF Punctual
<1>7. \/ Reconfigured => resp = "ACK"
      \/ ~Reconfigured
  BY DEF Reconfigured, Punctual
<1>8. (SimpleReply \/ Programmed) => OpSucceeds
  BY DEF SimpleReply, Programmed, Punctual
<1>9. ReadDone => OpSucceeds
  BY DEF ReadDone, Punctual
<1>10. CASE EraseAllReply
  <2>1. resp = "ACK" /\ resp' = resp
    BY <1>10, ErasesInTime DEF EraseAllReply, readVars
  <2>2. hpc' = "next" /\ result' = result
    BY <1>1, <1>10, <2>1, PassGoesOn
  <2> QED
    BY <1>1, <1>10, <2>1, <2>2 DEF Punctual
<1> QED
  BY <1>2, <1>3, <1>4, <1>5, <1>6, <1>7, <1>8, <1>9, <1>10

\* Units of a payload are taken, and the ACK stays behind them.
LEMMA TakesInTime ==
    ASSUME IInv, Prompt, Clean, Punctual, hpc # "end", DrainRemainder \/ RawIn
    PROVE  result' = result /\ Punctual'
<1>1. ~DrainRemainder
  BY DEF DrainRemainder, Punctual
<1>2. /\ hpc = "raw_in" /\ remainder = << >> /\ rx # << >> /\ rx' = Tail(rx)
      /\ UNCHANGED << up, dev, tx, remainder, result, cause >> /\ "ACK" \in Types(rx)
      /\ \/ hpc' = "read_close" /\ reading' = TRUE /\ resp' = "none"
         \/ hpc' = "raw_in" /\ UNCHANGED << reading, resp >>
  BY <1>1 DEF RawIn, TakeUnits, Punctual, Await, readVars, opVars, devVars, linkVars
<1>3. IsSeq(rx) /\ Len(rx) \in Nat \ {0} /\ IsSeq(Tail(rx)) /\ Len(Tail(rx)) = Len(rx) - 1
      /\ \A i \in 1..Len(Tail(rx)) : Tail(rx)[i] = rx[i + 1]
  BY <1>2, Rest DEF IInv, Typed
<1>4. /\ Types(Tail(rx)) \subseteq Types(rx)
      /\ \A type \in Types(rx) : type = rx[1].type \/ type \in Types(Tail(rx))
  <2>1. Len(Tail(rx)) = Len(rx) - 1 /\ \A i \in 1..Len(rx) - 1 : Tail(rx)[i] = rx[i + 1]
    BY <1>3
  <2> QED
    BY <1>3, <2>1, StillComing
<1>5. rx[1].type = "data"
  <2>1. left \in 1..Current.size /\ Begins(<< >>, rx, Current, Current.size - left)
    BY <1>2 DEF Clean, Content
  <2>2. Current.size \in Nat
    BY <1>2, CurrentIsOperation DEF IInv, Protocol, Working, Operation
  <2>3. 1 \in 1..Current.size - (Current.size - left) /\ ~(1 <= 0) /\ 1 - 0 = 1
    BY <2>1, <2>2
  <2>4. Len(<< >>) = 0
    BY EmptySeq
  <2>5. rx[1] = Data(Current.id, (Current.size - left) + 1)
    BY <2>1, <2>3, <2>4 DEF Begins
  <2> QED
    BY <2>5 DEF Data
<1> QED
  BY <1>2, <1>4, <1>5 DEF Punctual, Coming

\* The answer to a read that is not refused begins with a rawmode response and
\* ends with an ACK.
LEMMA AnswerHasBoth ==
    ASSUME NEW q, IsSeq(q), NEW p, IsSeq(p)
    PROVE  LET s == << Msg("RAW") >> \o p \o << Msg("ACK") >>
           IN  /\ IsSeq(s)
               /\ \E r, a \in 1..Len(q \o s) : r < a /\ (q \o s)[r].type = "RAW" /\ (q \o s)[a].type = "ACK"
<1> DEFINE a == << Msg("RAW") >>
           b == << Msg("ACK") >>
<1>1. IsSeq(a) /\ Len(a) = 1 /\ a[1].type = "RAW" /\ IsSeq(b) /\ Len(b) = 1 /\ b[1].type = "ACK"
  BY Said, Short DEF Msg
<1> HIDE DEF a, b
<1>2. /\ IsSeq(a \o p) /\ Len(a \o p) = Len(a) + Len(p) /\ Len(p) \in Nat
      /\ \A i \in 1..Len(a) + Len(p) : (a \o p)[i] = IF i <= Len(a) THEN a[i] ELSE p[i - Len(a)]
  BY <1>1, Joined
<1> DEFINE n == 1 + Len(p)
<1>3. n \in Nat \ {0} /\ Len(a \o p) = n /\ (a \o p)[1] = a[1]
  BY <1>1, <1>2
<1> HIDE DEF n
<1>4. /\ IsSeq((a \o p) \o b) /\ Len((a \o p) \o b) = n + Len(b)
      /\ \A i \in 1..n + Len(b) : ((a \o p) \o b)[i] = IF i <= n THEN (a \o p)[i] ELSE b[i - n]
  BY <1>1, <1>2, <1>3, Joined
<1> DEFINE s == (a \o p) \o b
<1>5. IsSeq(s) /\ Len(s) = n + 1 /\ s[1].type = "RAW" /\ s[n + 1].type = "ACK"
  <2>1. 1 \in 1..n + Len(b) /\ 1 <= n /\ n + 1 \in 1..n + Len(b) /\ ~(n + 1 <= n) /\ (n + 1) - n = 1
    BY <1>1, <1>3
  <2>2. Len((a \o p) \o b) = n + 1
    BY <1>1, <1>4
  <2> QED
    BY <1>1, <1>3, <1>4, <2>1, <2>2
<1> HIDE DEF s
<1>6. /\ Len(q \o s) = Len(q) + Len(s) /\ Len(q) \in Nat
      /\ \A i \in 1..Len(q) + Len(s) : (q \o s)[i] = IF i <= Len(q) THEN q[i] ELSE s[i - Len(q)]
  BY <1>5, Joined
<1> DEFINE m == Len(q)
<1>7. m \in Nat /\ Len(q \o s) = m + (n + 1)
  BY <1>5, <1>6
<1>8. \A i \in 1..m + (n + 1) : (q \o s)[i] = IF i <= m THEN q[i] ELSE s[i - m]
  BY <1>5, <1>6
<1> HIDE DEF m
<1>9. /\ m + 1 \in 1..m + (n + 1) /\ ~(m + 1 <= m) /\ (m + 1) - m = 1
      /\ m + (n + 1) \in 1..m + (n + 1) /\ ~(m + (n + 1) <= m) /\ (m + (n + 1)) - m = n + 1
      /\ m + 1 < m + (n + 1)
  BY <1>3, <1>7
<1>10. (q \o s)[m + 1].type = "RAW" /\ (q \o s)[m + (n + 1)].type = "ACK"
  BY <1>5, <1>8, <1>9
<1> QED
  BY <1>5, <1>7, <1>9, <1>10 DEF s, a, b

\* More comes from the programmer, and an answer with every command it takes.
LEMMA MoreInTime ==
    ASSUME Typed, Punctual, UNCHANGED hostVars, up' = up, NEW s, IsSeq(s), Emit(s), "NAK" \notin Types(s),
           hpc = "reply" /\ Reads /\ reading => tx' = tx \/ BothComing',
           hpc = "reply" /\ Current.kind = "program" => tx' = tx \/ "RAW" \in Types(s),
           hpc = "reply" /\ Current.kind \in {"erase", "patch"} => tx' = tx \/ "ACK" \in Types(s),
           hpc \in {"reconfigured", "read_close"} => tx' = tx \/ "ACK" \in Types(s),
           hpc = "raw_out" => dev' = dev,
           hpc = "raw_sent" => UNCHANGED << dev, tx >> \/ (tx' = << >> /\ "ACK" \in Types(s))
    PROVE  Punctual'
<1>1. Types(rx') = Types(rx) \cup Types(s) /\ up /\ rx' = rx \o s
  BY Emitted DEF Punctual
<1>2. UNCHANGED << hpc, todo, reading, resp, remainder, up >> /\ Current' = Current /\ Reads' = Reads
  BY DEF hostVars, readVars, rawVars, opVars, Current, Reads
<1>3. Coming /\ (tx' = tx \/ "ACK" \in Types(s)) => Coming'
  BY <1>1, <1>2 DEF Coming
<1>4. (tx # << >> \/ ~NoRaw) /\ (tx' = tx \/ "RAW" \in Types(s)) => tx' # << >> \/ ~NoRaw'
  BY <1>1 DEF NoRaw
<1>5. BothComing /\ tx' = tx => BothComing'
  <2> SUFFICES ASSUME tx' = tx, NEW r \in 1..Len(rx), NEW a \in 1..Len(rx), r < a,
                      rx[r].type = "RAW", rx[a].type = "ACK"
               PROVE  BothComing'
    BY DEF BothComing
  <2>1. /\ Len(rx \o s) = Len(rx) + Len(s) /\ Len(rx) \in Nat /\ Len(s) \in Nat
        /\ \A i \in 1..Len(rx) + Len(s) : (rx \o s)[i] = IF i <= Len(rx) THEN rx[i] ELSE s[i - Len(rx)]
    BY Joined DEF Typed
  <2>2. r \in 1..Len(rx \o s) /\ a \in 1..Len(rx \o s) /\ (rx \o s)[r] = rx[r] /\ (rx \o s)[a] = rx[a]
    BY <2>1
  <2> QED
    BY <1>1, <2>2 DEF BothComing
<1>6. hpc = "reply" => Punctual'
  BY <1>1, <1>2, <1>3, <1>4, <1>5 DEF Punctual
<1>7. hpc = "raw_sent" => Punctual'
  BY <1>1, <1>2, <1>3 DEF Punctual, Coming
<1>8. hpc \notin {"reply", "raw_sent"} => Punctual'
  BY <1>1, <1>2, <1>3 DEF Punctual
<1> QED
  BY <1>6, <1>7, <1>8

\* The programmer answers what it takes, unless something goes wrong.
LEMMA ProgrammerInTime ==
    ASSUME IInv, Prompt, Punctual, hpc \in Active, DevNext
    PROVE  result' = result /\ (cause' = {} => Punctual')
<1> DEFINE op == Head(tx).op
<1>1. Typed /\ Protocol /\ Listening /\ Phase /\ up
  BY DEF IInv, Protocol, Punctual
<1>2. UNCHANGED hostVars /\ up' = up /\ result' = result /\ hpc' = hpc
  BY DEF DevNext, Boot, DevLog, DevCommand, DevRefuses, DevRawIn, DevRawFails, DevGarbage, hostVars, opVars,
         wireVars, linkVars
<1>3. UNCHANGED << hpc, todo, reading, resp, remainder >> /\ Current' = Current /\ Reads' = Reads
  BY <1>2 DEF hostVars, readVars, rawVars, opVars, Current, Reads
<1>4. CASE DevRefuses \/ DevRawFails
  BY <1>2, <1>4 DEF DevRefuses, DevRawFails
<1>5. CASE Boot
  <2>1. dev = "boot" /\ dev' = "cmd" /\ UNCHANGED << tx, rx, up >>
    BY <1>5 DEF Boot, wireVars, linkVars
  <2> QED
    BY <1>2, <1>3, <2>1 DEF Punctual, Coming, BothComing, NoRaw
<1>6. CASE DevLog
  <2>1. Emit(<< Msg("log") >>) /\ UNCHANGED << tx, dev >>
    BY <1>6 DEF DevLog
  <2> QED
    BY <1>1, <1>2, <2>1, Said, MoreInTime
<1>7. CASE DevGarbage
  <2>1. tx # << >> /\ dev = "cmd" /\ Head(tx).type # "cmd"
    BY <1>7 DEF DevGarbage
  <2>2. \/ hpc = "raw_out" \/ (hpc = "raw_sent" /\ reading)
    BY <1>1, <2>1, Streaming
  <2> QED
    BY <2>1, <2>2 DEF Punctual
<1>8. CASE DevRawIn
  <2>1. tx # << >> /\ dev = "rawin" /\ tx' = Tail(tx)
    BY <1>8 DEF DevRawIn
  <2>2. \/ hpc = "raw_out" /\ left \in Nat \ {0} /\ Outstanding(Current, left)
        \/ hpc = "raw_sent" /\ reading /\ Outstanding(Current, 0)
    BY <1>1, <2>1, Streaming
  <2>3. Len(tx) \in Nat \ {0} /\ IsSeq(Tail(tx)) /\ Len(Tail(tx)) = Len(tx) - 1
    BY <1>1, <2>1, Rest DEF Typed
  <2>4. CASE devleft > 1
    <3>1. UNCHANGED << dev, rx >>
      BY <1>8, <2>4 DEF DevRawIn
    <3> QED
      BY <1>2, <1>3, <2>1, <2>2, <3>1 DEF Punctual
  <2>5. CASE ~(devleft > 1)
    <3>1. dev' = "cmd" /\ Emit(<< Msg("ACK") >>)
      BY <1>8, <2>5 DEF DevRawIn
    <3>2. hpc = "raw_sent" /\ Len(Tail(tx)) = 0
      BY <2>1, <2>2, <2>3, <2>5 DEF Outstanding
    <3>3. tx' = << >>
      BY <2>1, <2>3, <3>2, EmptySeq DEF IsSeq
    <3> QED
      BY <1>1, <1>2, <3>1, <3>2, <3>3, Said, MoreInTime
  <2> QED
    BY <2>4, <2>5
<1>9. CASE DevCommand
  <2>1. tx # << >> /\ dev = "cmd" /\ Head(tx).type = "cmd" /\ op.size \in Nat
    BY <1>1, <1>9, Rest DEF DevCommand, Typed
  <2>2. \/ hpc \in {"configure", "configured", "reconfigured"} /\ op = Configure
        \/ hpc = "reply" /\ op = Current /\ Current \in Operation
        \/ hpc = "bootable" /\ op = Bootable
        \/ hpc = "reset" /\ op = Reset
    BY <1>1, <2>1, Whose DEF Sent, Cmd
  <2>3. CASE op.kind = "program"
    <3>1. Emit(<< Msg("RAW") >>)
      BY <1>9, <2>3 DEF DevCommand
    <3>2. hpc = "reply" /\ Current.kind = "program"
      BY <2>2, <2>3 DEF Configure, Bootable, Reset, Op
    <3> QED
      BY <1>1, <1>2, <3>1, <3>2, Said, MoreInTime DEF Reads
  <2>4. CASE op.kind \in {"read", "probe"}
    <3> DEFINE p == Payload(op)
               s == << Msg("RAW") >> \o p \o << Msg("ACK") >>
    <3>1. Emit(s)
      BY <1>9, <2>4 DEF DevCommand
    <3>2. hpc = "reply" /\ Reads
      BY <2>2, <2>4 DEF Configure, Bootable, Reset, Op, Reads
    <3>3. IsSeq(p) /\ Types(p) \subseteq {"data"}
      BY <2>1, PayloadIsData
    <3> HIDE DEF p
    <3>4. IsSeq(s) /\ Types(s) \subseteq {"RAW", "data", "ACK"}
      BY <3>3, Burst
    <3>5. \E r, a \in 1..Len(rx \o s) : r < a /\ (rx \o s)[r].type = "RAW" /\ (rx \o s)[a].type = "ACK"
      <4>1. IsSeq(rx)
        BY <1>1 DEF Typed
      <4> QED
        BY <3>3, <4>1, AnswerHasBoth
    <3> HIDE DEF s
    <3>6. BothComing'
      BY <1>1, <3>1, <3>5 DEF BothComing, Emit
    <3> QED
      BY <1>1, <1>2, <3>1, <3>2, <3>4, <3>6, MoreInTime DEF Reads
  <2>5. CASE op.kind \notin {"program", "read", "probe"}
    <3>1. Emit(<< Msg("ACK") >>)
      BY <1>9, <2>5 DEF DevCommand
    <3>2. hpc = "reply" => ~Reads /\ Current.kind # "program"
      BY <2>2, <2>5 DEF Reads
    <3>3. hpc \notin {"raw_out", "raw_sent"}
      BY <2>2
    <3> QED
      BY <1>1, <1>2, <3>1, <3>2, <3>3, Said, MoreInTime
  <2> QED
    BY <2>3, <2>4, <2>5
<1> QED
  BY <1>4, <1>5, <1>6, <1>7, <1>8, <1>9 DEF DevNext

\* A cause stays.
LEMMA CausesStay ==
    ASSUME [Next]_vars, Undisturbed'
    PROVE  Undisturbed
<1>1. setup' = setup
  BY SetupIsFixed
<1>2. cause' = {} => cause = {}
  BY DEF Next, HostNext, DevNext, vars, Ended, Unplug, Boot, DevLog, DevCommand,
         DevRefuses, DevRawIn, DevRawFails, DevGarbage, ReadUnits, ReadTimesOut, ReadFails,
         SendConfigure, Configured, Reconfigured, SendNext, OpenFails, SimpleReply, EraseAllReply, RawReply,
         SendChunk, ChunkWriteFails, FileReadFails, Programmed, DrainRemainder, RawIn,
         RawInFails, ReadDone, Bootabled, Finished
<1> QED
  BY <1>1, <1>2 DEF Undisturbed

\* The places of the host.
LEMMA HostPlaces ==
    ASSUME [Next]_vars, hpc \in Active \cup {"end"}
    PROVE  hpc' \in Active \cup {"end"}
<1>1. CASE UNCHANGED vars \/ DevNext \/ Unplug \/ Ended
  <2>1. hpc' = hpc
    BY <1>1 DEF DevNext, vars, hostVars, Ended, Unplug, Boot, DevLog, DevCommand,
         DevRefuses, DevRawIn, DevRawFails, DevGarbage
  <2> QED
    BY <2>1
<1>2. CASE ReadUnits \/ ReadTimesOut \/ ReadFails
  BY <1>2 DEF ReadUnits, ReadTimesOut, ReadFails
<1>3. CASE SendConfigure \/ Configured \/ Reconfigured \/ SendNext \/ OpenFails
  <2>1. hpc' \in {"configured", "next", "reconfigured", "configure", "end", "reply", "bootable", "reset"}
    BY <1>3 DEF SendConfigure, Configured, Reconfigured, SendNext, OpenFails, Send, Return
  <2> QED
    BY <2>1 DEF Active, Working
<1>4. CASE SimpleReply \/ EraseAllReply \/ RawReply \/ ReadDone \/ Programmed \/ FileReadFails
  BY <1>4 DEF SimpleReply, EraseAllReply, RawReply, ReadDone, Programmed, FileReadFails, OpSucceeds, OpFails, Active, Working
<1>5. CASE SendChunk \/ ChunkWriteFails \/ DrainRemainder \/ RawIn \/ RawInFails \/ Bootabled \/ Finished
  BY <1>5 DEF SendChunk, ChunkWriteFails, DrainRemainder, RawIn, RawInFails, Bootabled, Finished, TakeUnits,
              Send, Return, Active, Working
<1> QED
  BY <1>1, <1>2, <1>3, <1>4, <1>5 DEF Next, HostNext

\* Every step keeps it.
LEMMA StepFailsForCause ==
    ASSUME IInv, Prompt, Order, Clean, FailsForCause, [Next]_vars
    PROVE  FailsForCause'
<1>1. hpc' \in Active \cup {"end"}
  BY HostPlaces DEF FailsForCause
<1> SUFFICES ASSUME Undisturbed' PROVE (result # "failed" /\ Earned /\ (hpc # "end" => Punctual))'
  BY <1>1 DEF FailsForCause
<1>2. Undisturbed /\ result # "failed" /\ Earned /\ (hpc # "end" => Punctual) /\ (hpc # "end" => hpc \in Active)
  BY CausesStay DEF FailsForCause
<1>9. Earned'
  <2>1. EraseAllReply => resp = "ACK"
    BY <1>2, ErasesInTime DEF EraseAllReply
  <2> QED
    BY <1>2, <2>1, EarnedStays
<1> SUFFICES (result # "failed" /\ (hpc # "end" => Punctual))'
  BY <1>9
<1>3. cause' = {} /\ ~setup.serial
  BY <1>2 DEF Undisturbed
<1>4. CASE UNCHANGED vars
  BY <1>2, <1>4 DEF vars, hostVars, readVars, rawVars, opVars, wireVars, linkVars, devVars, Punctual,
                    Coming, BothComing, NoRaw, Current, Reads
<1>5. CASE Unplug
  BY <1>3, <1>5 DEF Unplug
<1>6. CASE hpc = "end" /\ (HostNext \/ DevNext)
  <2>1. ~reading
    BY <1>6 DEF IInv, Protocol, Listening
  <2>2. ~HostNext
    BY <1>6, <2>1 DEF HostNext, ReadUnits, ReadTimesOut, ReadFails,
         SendConfigure, Configured, Reconfigured, SendNext, OpenFails, SimpleReply, EraseAllReply, RawReply,
         SendChunk, ChunkWriteFails, FileReadFails, Programmed, DrainRemainder, RawIn,
         RawInFails, ReadDone, Bootabled, Finished
  <2>3. UNCHANGED << hpc, result >>
    BY <1>6, <2>2 DEF DevNext, Boot, DevLog, DevCommand, DevRefuses, DevRawIn, DevRawFails, DevGarbage,
                      hostVars, opVars
  <2> QED
    BY <1>2, <1>6, <2>3
<1>7. CASE hpc # "end" /\ DevNext
  BY <1>2, <1>3, <1>7, ProgrammerInTime
<1>8. CASE hpc # "end" /\ HostNext
  <2>1. up /\ ~ReadFails /\ ~OpenFails /\ ~FileReadFails
    BY <1>2, <1>8 DEF Punctual, ReadFails, Prompt, OpenFails, FileReadFails
  <2>2. CASE ReadUnits \/ ReadTimesOut
    BY <1>2, <1>3, <1>8, <2>2, ReadsInTime, QuietInTime
  <2>3. CASE SendConfigure \/ Configured \/ SendNext \/ Bootabled
    BY <1>2, <1>3, <1>8, <2>3, SendsInTime
  <2>4. CASE DrainRemainder \/ RawIn
    BY <1>2, <1>3, <1>8, <2>4, TakesInTime
  <2>5. CASE \/ Reconfigured \/ SimpleReply \/ EraseAllReply \/ RawReply \/ SendChunk \/ ChunkWriteFails \/ Programmed
             \/ RawInFails \/ ReadDone \/ Finished
    BY <1>2, <1>3, <1>8, <2>5, ActsInTime
  <2> QED
    BY <1>8, <2>1, <2>2, <2>3, <2>4, <2>5 DEF HostNext
<1> QED
  BY <1>4, <1>5, <1>6, <1>7, <1>8 DEF Next, Ended

(* With a programmer that answers in time, a session over USB in which no  *)
(* command is refused, no file and no link fails, and the programmer comes *)
(* up in the time the host configures it, does not fail: the host waits    *)
(* for no answer that is not on its way.                                   *)
THEOREM FailsForCauseHolds == Spec => [](Prompt => FailsOnlyForCause)
<1>1. Init => FailsForCause
  <2> SUFFICES ASSUME Init PROVE FailsForCause
    OBVIOUS
  <2> QED
    <3>1. Earned
      BY NonePassed DEF Earned
    <3> QED
      BY <3>1, Short DEF Init, FailsForCause, Active, Punctual
<1>2. IInv /\ Session /\ (Prompt => FailsForCause) /\ [Next]_vars => (Prompt => FailsForCause)'
  BY SetupIsFixed, StepFailsForCause DEF Prompt, Session
<1>3. (Prompt => FailsForCause) => (Prompt => FailsOnlyForCause)
  BY DEF FailsForCause, FailsOnlyForCause, Undisturbed
<1> QED
  BY <1>1, <1>2, <1>3, SessionInvariant, PTL DEF Spec
=============================================================================
