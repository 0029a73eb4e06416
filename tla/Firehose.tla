------------------------------ MODULE Firehose ------------------------------
(***************************************************************************)
(* A flash session over the Firehose protocol (src/firehose.c,             *)
(* firehose_run()): the host configures the programmer, probes the sector  *)
(* size, executes the plan, marks the boot partition and resets.           *)
(*                                                                         *)
(* Host and programmer exchange messages over two byte streams, cut here   *)
(* into units: an XML document or one unit of raw image data each.  The    *)
(* host has no sequence numbers: a reply is taken for the answer to the    *)
(* last command because firehose_read() waits for one and then consumes    *)
(* everything until the line is quiet.                                     *)
(*                                                                         *)
(* The programmer is external.  It answers commands in order, may log at   *)
(* any time, may refuse a command or fail in the middle of one, and is     *)
(* still booting when the host starts to configure it.                     *)
(***************************************************************************)
EXTENDS FirehoseOps, FiniteSets

CONSTANTS
    Setups,         \* the circumstances of a session, see Setup
    Probes,         \* the sector-size probes, reads of one unit
    HasBootable,    \* program_find_bootable_partition() finds one?
    MaxConfigure,   \* configure attempts that fit in the five seconds
    MaxLogs         \* bound on the log messages of the programmer

Kinds == {"configure", "probe", "erase", "program", "read", "patch",
          "setbootable", "power"}

(* The circumstances of a session:                                         *)
(*   serial        a COM port, where one read can return several units?    *)
(*   erase_all     run with --erase-all?                                   *)
(*   renegotiates  does the programmer propose another payload size?       *)
(*   slow          what it may take longer over than the host waits        *)
(*   faults        what may go wrong                                       *)
Setup == [serial : BOOLEAN, erase_all : BOOLEAN, renegotiates : BOOLEAN,
          slow : SUBSET (Kinds \cup {"data"}), faults : SUBSET {"nak", "file", "link"}]

ProbeIds == {Probes[i].id : i \in 1..Len(Probes)}

\* An operation of the plan has a payload when its kind has one.
Operation ==
    {op \in [id : STRING, kind : {"probe", "erase", "program", "read", "patch"},
             size : Nat, live : BOOLEAN] :
        /\ op.kind \in {"probe", "program", "read"} => op.size > 0
        /\ op.kind = "probe" <=> op.id \in ProbeIds
        /\ op.id \notin {"configure", "bootable", "reset"}}

ASSUME FirehoseConstants ==
    /\ Setups \subseteq Setup /\ HasBootable \in BOOLEAN
    /\ Probes \in Seq({op \in Operation : op.kind = "probe"})
    /\ \A erase_all \in BOOLEAN :
          /\ Plan(erase_all) \in Seq({op \in Operation : op.kind # "probe"})
          /\ \A i, j \in 1..Len(Plan(erase_all)) :
                Plan(erase_all)[i].id = Plan(erase_all)[j].id => i = j
    /\ EraseAllOps \in Seq({op \in Operation : op.kind = "erase"})
    /\ \A kind \in {"read", "program", "patch"} :
          OfKind(kind) \in Seq({op \in Operation : op.kind = kind})
    /\ MaxConfigure \in Nat \ {0} /\ MaxLogs \in Nat

VARIABLES
    setup,      \* the circumstances, which do not change
    hpc,        \* the host's place in firehose_run()
    todo,       \* operations left, the current one first
    reading,    \* is firehose_read() waiting?
    resp,       \* its `resp`
    left,       \* units of the current payload left
    got,        \* what the host took for the payload of the current read
    remainder,  \* fh_remainder
    tries,      \* configure attempts
    succeeded,  \* operations whose function returned 0
    saved,      \* what a successful read wrote, by operation
    result,     \* what firehose_run() returns
    up,         \* is the link up?
    tx, rx,     \* units on their way to the device and to the host
    dev,        \* the programmer's mode
    devop,      \* the operation whose payload it expects
    devleft,    \* units of it still expected
    done,       \* operations of the plan it has completed, in order
    probed,     \* probes it has answered with data
    mixed,      \* did it take a command for image data?
    cause,      \* faults that happened
    logs        \* log messages sent

readVars == <<reading, resp>>
rawVars == <<left, got, remainder>>
opVars == <<todo, succeeded, saved, result>>
hostVars == <<hpc, tries, readVars, rawVars, opVars>>
devVars == <<dev, devop, devleft, done, probed, mixed, logs>>
linkVars == <<setup, up>>
wireVars == <<linkVars, tx, rx>>
vars == <<hostVars, devVars, wireVars, cause>>

ThePlan == Plan(setup.erase_all)

Configure == Op("configure", "configure", 0, TRUE)
Bootable == Op("bootable", "setbootable", 0, TRUE)
Reset == Op("reset", "power", 0, TRUE)

\* Units on the wire.
Cmd(op) == [type |-> "cmd", op |-> op]
Data(id, n) == [type |-> "data", id |-> id, n |-> n]
Msg(type) == [type |-> type]      \* "log", "ACK", "NAK", "RAW"
Payload(op) == [n \in 1..op.size |-> Data(op.id, n)]

Init ==
    /\ setup \in Setups
    /\ hpc = "configure" /\ todo = Probes \o ThePlan
    /\ reading = FALSE /\ resp = "none"
    /\ left = 0 /\ got = << >> /\ remainder = << >> /\ tries = 0
    /\ succeeded = {} /\ saved = << >> /\ result = "none"
    /\ up = TRUE /\ tx = << >> /\ rx = << >>
    /\ dev = "boot" /\ devop = Configure /\ devleft = 0
    /\ done = << >> /\ probed = {} /\ mixed = FALSE /\ logs = 0
    /\ cause = {}

-----------------------------------------------------------------------------
(* firehose_read() *)

\* Nothing arrives for as long as the host waits: the programmer is still
\* booting, has nothing to do, or is slow over what it does.
Deliberates ==
    \/ Head(tx).type = "data" /\ "data" \in setup.slow
    \/ Head(tx).type = "cmd" /\ Head(tx).op.kind \in setup.slow

LineQuiet ==
    /\ up /\ rx = << >>
    /\ dev # "boot" /\ tx # << >> => Deliberates

\* qdl_read() returns one message over USB, and any prefix of the stream
\* over a COM port.
ReadSizes == IF setup.serial THEN 1..Len(rx) ELSE {1}

IsResponse(unit) == unit.type \in {"ACK", "NAK"}

\* Mutant: returns as soon as a response is seen.
ReadUnitsEager ==
    /\ reading /\ rx # << >>
    /\ rx' = Tail(rx)
    /\ IF Head(rx).type \in {"RAW", "ACK", "NAK"}
       THEN /\ reading' = FALSE
            /\ resp' = IF Head(rx).type = "NAK" THEN "NAK" ELSE "ACK"
       ELSE UNCHANGED <<reading, resp>>
    /\ UNCHANGED <<hpc, tries, rawVars, opVars, devVars, linkVars, tx, cause>>

\* Mutant: a rawmode response does not end the call.
ReadUnitsIgnoresRawmode ==
    /\ reading /\ rx # << >>
    /\ rx' = Tail(rx)
    /\ resp' = IF Head(rx).type \in {"RAW", "ACK"} THEN "ACK"
               ELSE IF Head(rx).type = "NAK" THEN "NAK" ELSE resp
    /\ UNCHANGED <<hpc, tries, reading, rawVars, opVars, devVars, linkVars, tx, cause>>

\* One read: logs are printed, binary residue is skipped, the last response
\* counts, and a rawmode response ends the call and saves what follows it.
ReadUnits ==
    /\ reading /\ rx # << >>
    /\ \E n \in ReadSizes :
          LET raws == {i \in 1..n : rx[i].type = "RAW"}
              answers == {i \in 1..n : IsResponse(rx[i])}
          IN  /\ rx' = SubSeq(rx, n + 1, Len(rx))
              /\ \/ \E i \in raws :
                       /\ \A j \in raws : i <= j
                       /\ reading' = FALSE /\ resp' = "ACK"
                       /\ remainder' = IF i < n THEN SubSeq(rx, i + 1, n) ELSE remainder
                 \/ /\ raws = {} /\ UNCHANGED <<reading, remainder>>
                    /\ \/ answers = {} /\ UNCHANGED resp
                       \/ \E i \in answers : (\A j \in answers : j <= i) /\ resp' = rx[i].type
    /\ UNCHANGED <<hpc, tries, left, got, opVars, devVars, linkVars, tx, cause>>

\* 100 ms without a message after a response; or the whole timeout without
\* one.
ReadTimesOut ==
    /\ reading /\ LineQuiet
    /\ reading' = FALSE
    /\ resp' = IF resp = "none" THEN "ETIMEDOUT" ELSE resp
    /\ UNCHANGED <<hpc, tries, rawVars, opVars, devVars, wireVars, cause>>

\* -EIO ends the wait with what was heard so far.
ReadFails ==
    /\ reading /\ ~up
    /\ reading' = FALSE
    /\ resp' = IF resp = "none" THEN "EIO" ELSE resp
    /\ UNCHANGED <<hpc, tries, rawVars, opVars, devVars, wireVars, cause>>

-----------------------------------------------------------------------------
(* firehose_detect_and_configure() and the commands *)

Put(unit) == tx' = IF up THEN Append(tx, unit) ELSE tx

Await == reading' = TRUE /\ resp' = "none"

\* firehose_write() followed by firehose_read().
Send(op, pc) == Put(Cmd(op)) /\ hpc' = pc /\ Await

SendConfigure ==
    /\ hpc = "configure" /\ tries < MaxConfigure
    /\ Send(Configure, "configured")
    /\ tries' = tries + 1
    /\ UNCHANGED <<rawVars, opVars, devVars, linkVars, rx, cause>>

Return(value) ==
    /\ hpc' = "end" /\ result' = value
    /\ UNCHANGED <<todo, succeeded, saved>>

\* Mutant: the deadline is reset by every attempt.
ConfiguredForever ==
    /\ hpc = "configured" /\ ~reading
    /\ hpc' = IF resp = "ACK" THEN "next" ELSE "configure"
    /\ tries' = 0
    /\ UNCHANGED <<readVars, rawVars, opVars, devVars, wireVars, cause>>

\* The reply to a configure: only silence is a reason to try again, until
\* the five seconds are over.
Configured ==
    /\ hpc = "configured" /\ ~reading
    /\ \/ /\ resp = "ACK"
          /\ IF setup.renegotiates THEN Send(Configure, "reconfigured")
             ELSE hpc' = "next" /\ UNCHANGED <<readVars, tx>>
          /\ UNCHANGED <<opVars, cause>>
       \/ /\ resp = "ETIMEDOUT" /\ tries < MaxConfigure
          /\ hpc' = "configure"
          /\ UNCHANGED <<readVars, opVars, tx, cause>>
       \/ /\ resp = "ETIMEDOUT" /\ tries = MaxConfigure
          /\ Return("failed") /\ cause' = cause \cup {"silent"}
          /\ UNCHANGED <<readVars, tx>>
       \/ /\ resp \in {"NAK", "EIO"}
          /\ Return("failed") /\ UNCHANGED <<readVars, tx, cause>>
    /\ UNCHANGED <<tries, rawVars, devVars, linkVars, rx>>

\* The configure with the size the device proposed is sent once.
Reconfigured ==
    /\ hpc = "reconfigured" /\ ~reading
    /\ IF resp = "ACK" THEN hpc' = "next" /\ UNCHANGED opVars
                       ELSE Return("failed")
    /\ UNCHANGED <<tries, readVars, rawVars, devVars, wireVars, cause>>

\* The next operation of the plan, or what ends the session.
SendNext ==
    /\ hpc = "next"
    /\ IF todo # << >> THEN Send(Head(todo), "reply")
       ELSE IF HasBootable THEN Send(Bootable, "bootable")
       ELSE Send(Reset, "reset")
    /\ got' = << >>
    /\ UNCHANGED <<tries, left, remainder, opVars, devVars, linkVars, rx, cause>>

\* The file of a program or of a read cannot be opened.
OpenFails ==
    /\ hpc = "next" /\ todo # << >> /\ "file" \in setup.faults
    /\ Head(todo).kind \in {"program", "read"}
    /\ Return("failed")
    /\ cause' = cause \cup {"file"}
    /\ UNCHANGED <<tries, readVars, rawVars, devVars, wireVars>>

Current == Head(todo)

\* The current operation's function returns 0.  One probe that works is
\* enough.
OpSucceeds ==
    /\ succeeded' = succeeded \cup {Current.id}
    /\ hpc' = "next"
    /\ todo' = IF Current.kind = "probe"
               THEN ThePlan ELSE Tail(todo)
    /\ UNCHANGED result

\* Mutant: the loop over the operations goes on after a failure.
OpFailsGoesOn ==
    /\ UNCHANGED <<succeeded, result>>
    /\ hpc' = "next" /\ todo' = Tail(todo)

\* It fails: the first failure ends the session, except that of a probe.
OpFails ==
    /\ UNCHANGED succeeded
    /\ IF Current.kind = "probe"
       THEN hpc' = "next" /\ todo' = Tail(todo) /\ UNCHANGED result
       ELSE hpc' = "end" /\ result' = "failed" /\ UNCHANGED todo

\* The erases of --erase-all are one pass, gpt_erase_all_partitions().
InPass(op) == setup.erase_all /\ op \in Range(EraseAllOps)

\* The reply to a command: patch, or erase of a document.
SimpleReply ==
    /\ hpc = "reply" /\ ~reading
    /\ Current.kind \in {"erase", "patch"} /\ ~InPass(Current)
    /\ IF resp = "ACK" THEN OpSucceeds ELSE OpFails
    /\ UNCHANGED <<tries, readVars, rawVars, saved, devVars, wireVars, cause>>

\* Mutant: the pass returns 0 whatever was refused.
EraseAllReplyUncounted ==
    /\ hpc = "reply" /\ ~reading /\ InPass(Current)
    /\ succeeded' = IF resp = "ACK" THEN succeeded \cup {Current.id} ELSE succeeded
    /\ hpc' = "next" /\ todo' = Tail(todo)
    /\ UNCHANGED <<result, tries, readVars, rawVars, saved, devVars, wireVars, cause>>

\* The reply to an erase of the pass: a refused one is counted and the pass
\* goes on; it fails after its last erase if any was refused.
EraseAllReply ==
    /\ hpc = "reply" /\ ~reading /\ InPass(Current)
    /\ succeeded' = IF resp = "ACK" THEN succeeded \cup {Current.id} ELSE succeeded
    /\ \/ /\ \/ Current # EraseAllOps[Len(EraseAllOps)]
             \/ \A op \in Range(EraseAllOps) : op.id \in succeeded'
          /\ hpc' = "next" /\ todo' = Tail(todo) /\ UNCHANGED result
       \/ /\ Current = EraseAllOps[Len(EraseAllOps)]
          /\ \E op \in Range(EraseAllOps) : op.id \notin succeeded'
          /\ hpc' = "end" /\ result' = "failed" /\ UNCHANGED todo
    /\ UNCHANGED <<tries, readVars, rawVars, saved, devVars, wireVars, cause>>

\* Mutant: the rawmode response is taken for the final one.
RawReplyFinal ==
    /\ hpc = "reply" /\ ~reading
    /\ Current.kind \in {"program", "read", "probe"}
    /\ IF resp = "ACK" THEN OpSucceeds ELSE OpFails
    /\ UNCHANGED <<tries, readVars, rawVars, saved, devVars, wireVars, cause>>

\* The reply to a program or read command: the payload follows.
RawReply ==
    /\ hpc = "reply" /\ ~reading
    /\ Current.kind \in {"program", "read", "probe"}
    /\ \/ /\ resp = "ACK"
          /\ hpc' = IF Current.kind = "program" THEN "raw_out" ELSE "raw_in"
          /\ left' = Current.size
          /\ UNCHANGED <<todo, succeeded, result>>
       \/ resp # "ACK" /\ OpFails /\ UNCHANGED left
    /\ UNCHANGED <<tries, readVars, got, remainder, saved, devVars, wireVars,
                   cause>>

-----------------------------------------------------------------------------
(* The chunk loop of firehose_program() *)

SendChunk ==
    /\ hpc = "raw_out" /\ left > 0 /\ up
    /\ Put(Data(Current.id, Current.size - left + 1))
    /\ left' = left - 1
    /\ IF left = 1 THEN hpc' = "raw_sent" /\ Await
                   ELSE UNCHANGED <<hpc, readVars>>
    /\ UNCHANGED <<tries, got, remainder, opVars, devVars, linkVars, rx, cause>>

\* The USB write of a chunk fails: the reply read then decides.
ChunkWriteFails ==
    /\ hpc = "raw_out" /\ left > 0 /\ ~up
    /\ hpc' = "raw_sent" /\ Await
    /\ UNCHANGED <<tries, rawVars, opVars, devVars, wireVars, cause>>

\* read() of the image fails: `goto out`, with ret still 0.
FileReadFails ==
    /\ hpc = "raw_out" /\ left > 0 /\ "file" \in setup.faults
    /\ OpSucceeds
    /\ cause' = cause \cup {"file"}
    /\ UNCHANGED <<tries, readVars, rawVars, saved, devVars, wireVars>>

Programmed ==
    /\ hpc = "raw_sent" /\ ~reading
    /\ IF resp = "ACK" THEN OpSucceeds ELSE OpFails
    /\ UNCHANGED <<tries, readVars, rawVars, saved, devVars, wireVars, cause>>

-----------------------------------------------------------------------------
(* The payload loop of firehose_issue_read() *)

\* After the last unit the closing response is awaited.
TakeUnits(s) ==
    /\ got' = got \o s
    /\ left' = left - Len(s)
    /\ IF left = Len(s) THEN hpc' = "read_close" /\ Await
                        ELSE UNCHANGED <<hpc, readVars>>

\* The remainder is drained first; what is left of it after the last unit
\* is dropped.
DrainRemainder ==
    /\ hpc = "raw_in" /\ left > 0 /\ remainder # << >>
    /\ LET n == Min({Len(remainder), left})
       IN  /\ TakeUnits(SubSeq(remainder, 1, n))
           /\ remainder' = IF n = left THEN << >>
                           ELSE SubSeq(remainder, n + 1, Len(remainder))
    /\ UNCHANGED <<tries, opVars, devVars, wireVars, cause>>

RawIn ==
    /\ hpc = "raw_in" /\ left > 0 /\ remainder = << >> /\ rx # << >>
    /\ TakeUnits(<<Head(rx)>>) /\ rx' = Tail(rx)
    /\ UNCHANGED <<tries, remainder, opVars, devVars, linkVars, tx, cause>>

\* 30 s without data, or an I/O error: what arrives is discarded until the
\* line is quiet, and the operation fails whatever the closing response is.
RawInFails ==
    /\ hpc = "raw_in" /\ left > 0 /\ remainder = << >>
    /\ LineQuiet \/ ~up
    /\ hpc' = "read_abort" /\ Await
    /\ UNCHANGED <<tries, rawVars, opVars, devVars, wireVars, cause>>

\* Mutant: the closing response is not looked at.
ReadDoneUnchecked ==
    /\ hpc \in {"read_close", "read_abort"} /\ ~reading
    /\ IF hpc = "read_close"
       THEN OpSucceeds /\ saved' = Append(saved, <<Current, got>>)
       ELSE OpFails /\ UNCHANGED saved
    /\ UNCHANGED <<tries, readVars, rawVars, devVars, wireVars, cause>>

ReadDone ==
    /\ hpc \in {"read_close", "read_abort"} /\ ~reading
    /\ IF hpc = "read_close" /\ resp = "ACK"
       THEN OpSucceeds /\ saved' = Append(saved, <<Current, got>>)
       ELSE OpFails /\ UNCHANGED saved
    /\ UNCHANGED <<tries, readVars, rawVars, devVars, wireVars, cause>>

\* The results of setbootablestoragedrive and of the reset are ignored.
Bootabled ==
    /\ hpc = "bootable" /\ ~reading
    /\ Send(Reset, "reset")
    /\ UNCHANGED <<tries, rawVars, opVars, devVars, linkVars, rx, cause>>

Finished ==
    /\ hpc = "reset" /\ ~reading
    /\ Return("ok")
    /\ UNCHANGED <<tries, readVars, rawVars, devVars, wireVars, cause>>

HostNext ==
    \/ ReadUnits \/ ReadTimesOut \/ ReadFails
    \/ SendConfigure \/ Configured \/ Reconfigured
    \/ SendNext \/ OpenFails \/ SimpleReply \/ EraseAllReply \/ RawReply
    \/ SendChunk \/ ChunkWriteFails \/ FileReadFails \/ Programmed
    \/ DrainRemainder \/ RawIn \/ RawInFails \/ ReadDone
    \/ Bootabled \/ Finished

-----------------------------------------------------------------------------
(* The programmer and the link (external) *)

Emit(s) == rx' = IF up THEN rx \o s ELSE rx

\* The cable is pulled: nothing more gets through in either direction.
Unplug ==
    /\ "link" \in setup.faults /\ up /\ hpc # "end"
    /\ up' = FALSE /\ rx' = << >>
    /\ cause' = cause \cup {"link"}
    /\ UNCHANGED <<hostVars, devVars, tx, setup>>

Boot ==
    /\ dev = "boot" /\ dev' = "cmd"
    /\ UNCHANGED <<hostVars, devop, devleft, done, probed, mixed, logs, wireVars, cause>>

\* Log messages come before and after the responses.
DevLog ==
    /\ dev = "cmd" /\ logs < MaxLogs
    /\ Emit(<<Msg("log")>>) /\ logs' = logs + 1
    /\ UNCHANGED <<hostVars, dev, devop, devleft, done, probed, mixed, linkVars, tx, cause>>

\* What it has done: the commands outside the plan leave no trace.
Completes(op) ==
    /\ probed' = IF op.kind = "probe" THEN probed \cup {op.id} ELSE probed
    /\ done' = IF op.kind \in {"configure", "probe", "setbootable", "power"}
               THEN done ELSE Append(done, op.id)

DevCommand ==
    /\ dev = "cmd" /\ tx # << >> /\ Head(tx).type = "cmd"
    /\ LET op == Head(tx).op
       IN  IF op.kind = "program"
           THEN /\ Emit(<<Msg("RAW")>>)
                /\ dev' = "rawin" /\ devop' = op /\ devleft' = op.size
                /\ UNCHANGED <<done, probed>>
           ELSE /\ Emit(IF op.kind \in {"read", "probe"}
                        THEN <<Msg("RAW")>> \o Payload(op) \o <<Msg("ACK")>>
                        ELSE <<Msg("ACK")>>)
                /\ Completes(op)
                /\ dev' = IF op.kind = "power" THEN "off" ELSE "cmd"
                /\ UNCHANGED <<devop, devleft>>
    /\ tx' = Tail(tx)
    /\ UNCHANGED <<hostVars, mixed, logs, linkVars, cause>>

\* A refused command, or a read that fails after k units.
DevRefuses ==
    /\ "nak" \in setup.faults
    /\ dev = "cmd" /\ tx # << >> /\ Head(tx).type = "cmd"
    /\ LET op == Head(tx).op
       IN  /\ op.kind # "configure"
           /\ \/ Emit(<<Msg("NAK")>>)
              \/ /\ op.kind \in {"read", "probe"}
                 /\ \E k \in 0..op.size :
                       Emit(<<Msg("RAW")>> \o SubSeq(Payload(op), 1, k)
                                \o <<Msg("NAK")>>)
    /\ tx' = Tail(tx)
    /\ cause' = cause \cup {"nak"}
    /\ UNCHANGED <<hostVars, devVars, linkVars>>

\* Image data, or whatever else arrives while it is expected.
DevRawIn ==
    /\ dev = "rawin" /\ tx # << >>
    /\ tx' = Tail(tx)
    /\ mixed' = (mixed \/ Head(tx).type = "cmd")
    /\ devleft' = devleft - 1
    /\ IF devleft > 1
       THEN UNCHANGED <<dev, rx, done, probed>>
       ELSE dev' = "cmd" /\ Emit(<<Msg("ACK")>>) /\ Completes(devop)
    /\ UNCHANGED <<hostVars, devop, logs, linkVars, cause>>

\* A unit of the payload cannot be written to the storage.
DevRawFails ==
    /\ "nak" \in setup.faults
    /\ dev = "rawin" /\ tx # << >>
    /\ tx' = Tail(tx)
    /\ mixed' = (mixed \/ Head(tx).type = "cmd")
    /\ dev' = "cmd" /\ Emit(<<Msg("NAK")>>)
    /\ cause' = cause \cup {"nak"}
    /\ UNCHANGED <<hostVars, devop, devleft, done, probed, logs, linkVars>>

\* Raw data where a command is expected is answered with NAK.
DevGarbage ==
    /\ dev = "cmd" /\ tx # << >> /\ Head(tx).type = "data"
    /\ tx' = Tail(tx) /\ Emit(<<Msg("NAK")>>)
    /\ UNCHANGED <<hostVars, devVars, linkVars, cause>>

DevNext == \/ Boot \/ DevLog \/ DevCommand \/ DevRefuses
           \/ DevRawIn \/ DevRawFails \/ DevGarbage

Ended == hpc = "end" /\ UNCHANGED vars

Next == HostNext \/ DevNext \/ Unplug \/ Ended

Spec == Init /\ [][Next]_vars

\* Every wait of the host has a timeout.  Nothing is assumed of the
\* programmer, which may hang.
FairSpec == Spec /\ WF_vars(HostNext)
-----------------------------------------------------------------------------
AllOps == Probes \o ThePlan
Ids == {AllOps[i].id : i \in 1..Len(AllOps)}
PlanIds == [i \in 1..Len(ThePlan) |-> ThePlan[i].id]
ErasePass == IF setup.erase_all THEN {op.id : op \in Range(EraseAllOps)} ELSE {}
DoneIds == probed \cup {done[i] : i \in 1..Len(done)}
Executed(op) == \E i \in 1..Len(done) : done[i] = op.id

(* The types of the variables; no more units are taken than are wanted. *)
TypeOK ==
    /\ hpc \in {"configure", "configured", "reconfigured", "next", "reply",
                "raw_out", "raw_sent", "raw_in", "read_close", "read_abort",
                "bootable", "reset", "end"}
    /\ reading \in BOOLEAN
    /\ resp \in {"none", "ACK", "NAK", "ETIMEDOUT", "EIO"}
    /\ left \in Nat /\ tries \in 0..MaxConfigure
    /\ succeeded \subseteq Ids
    /\ result \in {"none", "ok", "failed"}
    /\ dev \in {"boot", "cmd", "rawin", "off"}
    /\ devleft \in Nat /\ mixed \in BOOLEAN /\ logs \in 0..MaxLogs
    /\ cause \subseteq setup.faults \cup {"silent"}

(* What the host reports as done the programmer has done: no function      *)
(* returns 0 for an operation on the strength of the answer to another.    *)
SuccessIsReal == succeeded \subseteq DoneIds

(* The file of a read that succeeded holds that read's payload, complete   *)
(* and in order, with no protocol text in it.                              *)
ReadsAreClean ==
    \A i \in 1..Len(saved) : saved[i][2] = Payload(saved[i][1])

(* The programmer never takes an XML command for image data: the host      *)
(* sends no command while a payload it announced is outstanding.           *)
NoCommandInPayload == ~mixed

(* The session fails only when something went wrong: a refusal, a link or  *)
(* file error, or a programmer that never answered the configure.  Over a  *)
(* COM port it may fail for nothing: the closing response is dropped when  *)
(* it came with the last data (firehose_issue_read()).                     *)
FailsOnlyForCause == result = "failed" => cause # {} \/ setup.serial

(* With --erase-all nothing is erased before every backup the documents    *)
(* ask for is on disk.                                                     *)
BackupBeforeErase ==
    \A i \in 1..Len(EraseAllOps) : setup.erase_all /\ Executed(EraseAllOps[i]) =>
        \A j \in 1..Len(OfKind("read")) :
            \E k \in 1..Len(saved) :
                /\ saved[k][1] = OfKind("read")[j]
                /\ saved[k][2] = Payload(saved[k][1])

(* The session ends, whatever the programmer and the link do. *)
SessionEnds == <>(hpc = "end")

\* What the programmer has done of the plan, and what the caller is told.
Contract == INSTANCE FlashContract
    WITH plan <- PlanIds, pass <- ErasePass, executed <- done, outcome <- result

(* The session implements the contract of a flash: the operations of the   *)
(* plan are carried out in order, each at most once, none after one that   *)
(* was not, and success is reported only when all of them were.  Only      *)
(* within the erases of --erase-all one that is refused does not stop the  *)
(* others; it still stops everything after them.                           *)
ImplementsContract == Contract!Spec
=============================================================================
