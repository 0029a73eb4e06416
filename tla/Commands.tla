-------------------------------- MODULE Commands --------------------------------
(***************************************************************************)
(* One run of the qfenix program on the storage of a modem (src/qdl.c):    *)
(* the subcommand loads its documents, reaches the programmer, does its    *)
(* work step by step, resets the modem, closes it and exits.               *)
(***************************************************************************)
EXTENDS Transport, ImageLists, Partitions

VARIABLES
    ufs             \* the modem's side of the provisioning: the tags it has
                    \* `staged`, those it `checked`, those it `applied`; and
                    \* the LUN it boots from, 0 if it was not told

vars == << qdlVars, bus, handle, tries, asked, listVars, partVars, ufs >>

Cmd == setup.cmd
Flash == Cmd = "flash"

Init ==
    /\ setup \in Setups
    /\ pc = "start" /\ ret = 0 /\ faults = MaxFaults /\ unsaid = {}
    /\ LinkInit /\ ListsInit /\ PartInit
    /\ ufs = [staged |-> << >>, checked |-> << >>, applied |-> << >>,
              boot |-> 0]
-----------------------------------------------------------------------------
(* What each subcommand does in its session.                               *)
Each(then, fails) == StepFor("each", "", then, fails)
Find(label, then, fails) == StepFor("find", label, then, fails)
OfLabels(then) == [n \in 1..Len(setup.labels) |-> Find(setup.labels[n], then, "count")]
XmlStep(fails) == Step("xml", << >>, fails)
CheckStep == Step("check", << >>, "stop")

PrintGpt ==
    << Step("print", << >>, "stop") >>
        \o (IF setup.xml THEN << XmlStep("stop") >> ELSE << >>)
ShowStorageInfo == << Step("info", << >>, "stop") >>
PartInfo == << Step("info", << >>, "ignore"), Step("print", << >>, "stop") >>
ResetModem == << StepFor("power", setup.mode, << >>, "stop") >>
GetSlot == << Step("slot", << >>, "stop") >>
SetSlotTo == << Step("setslot", << >>, "stop") >>
\* One label is read to a file, several to a directory, under names that show
\* what they seem to be.
ReadPartition ==
    OfLabels(IF Len(setup.labels) = 1 THEN << "read" >> ELSE << "probe", "read" >>)
\* The XML is written only if all was read, and its result is not looked at.
ReadAll == << Each(<< "probe", "read" >>, "negative"), CheckStep, XmlStep("ignore") >>
\* The whole storage; each LUN is one partition here.
ReadStorage ==
    IF Nand THEN << Step("info", << >>, "stop"), Step("read", << 1, 1 >>, "stop") >>
    ELSE << Step("info", << >>, "stop") >>
           \o FlattenSeq([l \in 1..Len(Disk) |-> << Step("lun", << l, 1 >>, "skip") >>])
           \o << Step("luns", << >>, "stop") >>
EraseLabels ==
    IF setup.raw THEN << Step("erase", << 1, 1 >>, "count") >>
    ELSE OfLabels(<< "erase" >>)
WritePartition == << Find(setup.labels[1], << "erase", "program" >>, "stop") >>
EraseAll == << Each(<< "erase" >>, "count") >>

\* firehose_provision(): a pass that only checks, then the real one.
Pass(ufsPass) == [n \in 1..Len(ufsdoc) |-> StepFor(ufsPass, ufsdoc[n], << >>, "stop")]

Provision == Pass("check ufs") \o Pass("commit ufs")

\* firehose_run(): the labels of the reads, then of the programs, then the
\* operations in the order of FirehoseOps.
Deferred(kinds) == {n \in 1..Len(queue) : queue[n].kind \in kinds /\ queue[n].gpt # ""}
ResolveStep(n) == [Step("resolve", << n >>, "stop") EXCEPT !.label = queue[n].gpt]
ResolveSteps(kinds) == Chosen([n \in 1..Len(queue) |-> ResolveStep(n)], Deferred(kinds))
FlashSteps ==
    IF Provisions THEN Provision
    ELSE ResolveSteps({"read"}) \o ResolveSteps({"program"}) \o << Step("plan", << >>, "stop") >>

Ordered == INSTANCE FirehoseOps WITH
    Ops <- queue,
    EraseAllOps <- << [kind |-> "all", live |-> TRUE, part |-> << >>] >>

\* The operations as steps.
OpSteps(op) ==
    CASE op.kind = "all"     -> << Each(<< "erase" >>, "count"), CheckStep >>
      [] op.kind = "read"    -> << Step("backup", op.part, "stop") >>
      [] op.kind = "erase"   -> << Step("erase", op.part, "stop") >>
      [] op.kind = "program" -> << Step("program", op.part, "stop") >>
      [] op.kind = "patch"   -> << Step("patch", op.part, "stop") >>
\* program_find_bootable_partition(): xbl before xbl_a before sbl1; that it
\* cannot be set is not a failure.
BootLabels == << "xbl", "xbl_a", "sbl1" >>
Bootable == {n \in 1..3 : Labelled(BootLabels[n]) # {}}
BootPart == queue[Min(Labelled(BootLabels[Min(Bootable)]))].part
BootSteps ==
    IF Bootable = {} THEN << >> ELSE << Step("bootable", BootPart, "ignore") >>
Planned ==
    LET ops == Ordered!Plan(setup.erase_all)
    IN  FlattenSeq([n \in 1..Len(ops) |-> OpSteps(ops[n])]) \o BootSteps

\* main(): the subcommand by its name.
Script ==
    CASE Cmd = "printgpt"    -> PrintGpt
      [] Cmd = "storageinfo" -> ShowStorageInfo
      [] Cmd = "partinfo"    -> PartInfo
      [] Cmd = "reset"       -> ResetModem
      [] Cmd = "getslot"     -> GetSlot
      [] Cmd = "setslot"     -> SetSlotTo
      [] Cmd = "read"        -> ReadPartition
      [] Cmd = "readall"     -> ReadAll
      [] Cmd = "dump"        -> ReadStorage
      [] Cmd = "erase"       -> EraseLabels
      [] Cmd = "write"       -> WritePartition
      [] Cmd = "eraseall"    -> EraseAll
      [] Cmd = "flash"       -> FlashSteps
-----------------------------------------------------------------------------
work == << partVars, ufs >>

\* The programmer is found (find_programmer_recursive(), decode_programmer())
\* or the command ends before it touches the modem.
Start ==
    /\ pc = "start"
    /\ IF setup.programmer THEN Goto(IF Flash THEN "load" ELSE FirstPc)
       ELSE Fails("exit")
    /\ UNCHANGED << setup, faults, linkVars, listVars, work >>

Load ==
    /\ LoadDocument \/ CheckFusing \/ VerifyMd5(FirstPc) \/ Hang
    /\ UNCHANGED << linkVars, work >>

\* Mutant: the session's failures are forgotten as well.
PrepareFailedForgotten == Goto("exit")

\* A negative pcie_prepare(): firehose_session_open() returns -1, qdl_flash()
\* goes to its cleanup with the `ret` of the MD5 check.
PrepareFailed ==
    IF Flash THEN pc' = "exit" /\ unsaid' = unsaid \cup {"pcie"} /\ UNCHANGED ret
    ELSE Fails("exit")

\* The dump of the memory is all that ramdump wants.
AfterSahara == IF Cmd = "ramdump" THEN "close" ELSE "configure"

Reach ==
    /\ \/ Cmd # "diag2edl" /\ (ScanOther \/ ScanClaims \/ ScanCannotClaim \/ DiagSwitch)
       \/ DiagToEdl
       \/ PcieWrite \/ PcieUploads \/ PcieFails(PrepareFailed) \/ ComPrepare
       \/ PcieOpens \/ OpenFails(Fails("exit"))
       \/ SaharaRuns(AfterSahara) \/ SaharaFails(Fails("exit"))
    /\ UNCHANGED << listVars, work >>

User == Plug /\ UNCHANGED << listVars, work >>

\* firehose_detect_and_configure(), the module Firehose.
Configure ==
    /\ pc = "configure"
    /\ \/ NoFault /\ Goto("work") /\ steps' = Script
          /\ UNCHANGED handle
       \/ Fault /\ Fails("exit") /\ handle' = Closed(handle) /\ UNCHANGED steps
    /\ UNCHANGED << setup, bus, tries, asked, listVars, tableVars, dataVars, ufs >>

\* A label of a read or write command gets its place.
Resolve ==
    /\ Busy("resolve") /\ loaded
    /\ IF Found(Do.label)
       THEN /\ queue' = [queue EXCEPT ![Do.part[1]].part = FoundPart(Do.label)]
            /\ Succeeds
       ELSE Misses(FALSE) /\ UNCHANGED queue
    /\ UNCHANGED << setup, faults, linkVars, docs, ufsdoc, cache, dataVars, ufs >>

\* A list that loops is walked for the labels, and the walk does not end.
PlanOps ==
    /\ Busy("plan")
    /\ IF Loops THEN Goto("stuck") /\ UNCHANGED << steps, lun, loaded >>
       ELSE Advance(Planned) /\ Goto("work")
    /\ UNCHANGED << setup, faults, linkVars, listVars, cache, dataVars, ufs >>

\* firehose_apply_ufs_common(), _body() and _epilogue(): the epilogue ends a
\* pass, and commits it when it says so.
SendUfs ==
    /\ Busy("check ufs") \/ Busy("commit ufs")
    /\ LET tag == Do.label  commit == Do.do = "commit ufs"
           staged == Append(ufs.staged, tag)
       IN  \/ /\ NoFault /\ Succeeds
              /\ ufs' = IF tag # "epilogue" THEN [ufs EXCEPT !.staged = staged]
                        ELSE IF commit THEN [ufs EXCEPT !.staged = << >>, !.applied = staged]
                        ELSE [ufs EXCEPT !.staged = << >>, !.checked = staged]
           \/ Fault /\ Misses(FALSE) /\ UNCHANGED ufs
    /\ UNCHANGED << setup, linkVars, listVars, cache, dataVars >>

\* firehose_set_bootable()
SetBootable ==
    /\ Busy("bootable")
    /\ \/ NoFault /\ Succeeds /\ ufs' = [ufs EXCEPT !.boot = Do.part[1]]
       \/ Fault /\ Misses(FALSE) /\ UNCHANGED ufs
    /\ UNCHANGED << setup, linkVars, listVars, cache, dataVars >>

\* gpt_read_full_storage(): the size of a LUN, and then its sectors.
LunInfo ==
    /\ Busy("lun")
    /\ \/ /\ NoFault
          /\ (IF Do.part \in Parts
              THEN Advance(<< Step("read", Do.part, "skip") >>) /\ Goto("work")
              ELSE Succeeds)
       \/ Fault /\ Misses(FALSE)
    /\ UNCHANGED << setup, linkVars, listVars, cache, dataVars, ufs >>

Work == PartitionStep /\ UNCHANGED << linkVars, listVars, ufs >>

Worked ==
    /\ pc = "work" /\ steps = << >>
    /\ Goto("close")
    /\ UNCHANGED << setup, faults, linkVars, listVars, work >>

\* firehose_session_close(): the reset is sent, its answer is not looked at.
\* Not after `reset`, a failed setslot or a flash that failed.
Resets ==
    /\ Cmd \notin {"reset", "ramdump"}
    /\ Cmd \in {"setslot", "flash"} => ret = 0 \/ (Flash /\ Provisions)
Close ==
    /\ pc = "close"
    /\ \/ NoFault /\ bus' = (IF Resets THEN "off" ELSE bus)
       \/ Resets /\ Fault /\ UNCHANGED bus
    /\ handle' = Closed(handle)
    /\ Goto("exit")
    /\ UNCHANGED << setup, tries, asked, listVars, work >>

\* What the program does, as opposed to its operator.
Run ==
    Start \/ Load \/ Reach \/ Configure \/ Resolve \/ PlanOps \/ SendUfs \/ SetBootable \/ LunInfo
    \/ Work \/ Worked \/ Close

Over == pc \in {"exit", "stuck"}
Next == Run \/ User \/ (Over /\ UNCHANGED vars)

Spec == Init /\ [][Next]_vars

\* The program takes its next step, every read of it having a timeout; the
\* operator plugs the modem in when it is waited for.
FairSpec == Spec /\ WF_vars(Run) /\ WF_vars(User)
-----------------------------------------------------------------------------
(* What the command line asks for.                                         *)
LabelOf(part) == Disk[part[1]].parts[part[2]].label
Called(label) == {part \in Parts : LabelOf(part) = label}
\* The first LUN that has the label counts, if it has it once; NAND takes the
\* first partition with it.
FirstLun(label) == {part \in Called(label) : \A q \in Called(label) : part[1] <= q[1]}
Foremost(parts) == CHOOSE part \in parts : \A q \in parts : part[2] <= q[2]
Place(label) ==
    IF Cardinality(FirstLun(label)) = 1 \/ (Nand /\ ~Flash /\ Called(label) # {})
    THEN Foremost(FirstLun(label)) ELSE << >>

Tags == FlattenSeq([d \in 1..Len(LoadOrder) |->
            IF LoadOrder[d].type = "ufs" THEN << >> ELSE LoadOrder[d].tags])
PlaceOf(tag) == IF tag.gpt = "" THEN tag.part ELSE Place(tag.gpt)

\* What the documents make of a partition: the last tag that applies; with
\* --erase-all the programs and patches come after the erase.
Result == [program |-> "new", erase |-> "erased", patch |-> "patched"]
Applies(tag, kinds, part) ==
    /\ tag.kind \in kinds /\ PlaceOf(tag) = part
    /\ ~tag.bad /\ ~tag.vendor /\ tag.file # "missing"
    /\ tag.kind = "patch" => tag.file = "ok"
Applying(kinds, part) == {n \in 1..Len(Tags) : Applies(Tags[n], kinds, part)}
LastOf(kinds, part) == IF Applying(kinds, part) = {} THEN 0 ELSE Max(Applying(kinds, part))
Asked(part) ==
    IF Cmd = "write" THEN IF part = Place(setup.labels[1]) THEN "new" ELSE "old"
    ELSE IF Cmd = "eraseall" THEN "erased"
    ELSE IF Cmd = "erase"
         THEN IF (IF setup.raw THEN part = << 1, 1 >>
                  ELSE \E n \in 1..Len(setup.labels) : part = Place(setup.labels[n]))
              THEN "erased" ELSE "old"
    ELSE LET kinds == IF setup.erase_all THEN {"program"} ELSE {"program", "erase", "patch"}
             n == IF setup.erase_all /\ LastOf({"patch"}, part) # 0
                  THEN LastOf({"patch"}, part) ELSE LastOf(kinds, part)
         IN  IF n = 0 THEN IF setup.erase_all THEN "erased" ELSE "old"
             ELSE Result[Tags[n].kind]

\* The partitions whose contents are asked for as files.
Wanted ==
    CASE Cmd = "read" -> {Place(setup.labels[n]) : n \in 1..Len(setup.labels)}
      [] Cmd = "readall" -> Parts
      [] Cmd = "dump" -> {part \in Parts : part[2] = 1}
      [] OTHER -> {}
-----------------------------------------------------------------------------
(* The types of the variables.                                             *)
TypeOK ==
    /\ pc \in {"start", "load", "fusing", "scan", "prepare", "open", "sahara",
               "configure", "work", "close", "exit", "stuck"}
    /\ ret \in {-1, 0, 1} /\ faults \in 0..MaxFaults
    /\ handle \in {"null", "open", "freed"}
    /\ lun \in 0..Len(Disk) /\ DOMAIN store = Parts

(* A command that exits with 0 has done what it was asked, all of it and   *)
(* nothing else: unless it is one of the omissions that no result of the   *)
(* code tells of (main(), the subcommands and all they call).  A flash     *)
(* with a provisioning does nothing with its other documents.              *)
ExitIsTrue ==
    pc = "exit" /\ ExitStatus = 0 /\ unsaid = {} =>
        /\ \A part \in Parts : store[part] = (IF Provisions THEN "old" ELSE Asked(part))
        /\ \A part \in Wanted : part \in DOMAIN saved /\ saved[part] = Image(part)
        /\ Provisions \/ \A n \in 1..Len(Tags) :
              Tags[n].kind = "read" => PlaceOf(Tags[n]) \in DOMAIN backups
        /\ Provisions => ufs.applied = ufsdoc
        /\ Cmd = "readall" => DOMAIN names.xml = Parts

(* Whatever fails, a partition that no label names and no document places  *)
(* keeps what it holds; and one of two on a LUN that share a label does,   *)
(* unless the tables were cut short by a failed read, so that the label    *)
(* seemed unambiguous (gpt_find_by_name(), gpt_load_tables()).             *)
Named == {part \in Parts : \E n \in 1..Len(setup.labels) : part \in Called(setup.labels[n])}
OthersKept ==
    \A part \in Parts :
        Asked(part) = "old" /\ (part \in Named => ret = 0) => store[part] = "old"

(* A label is one partition across all LUNs: a command that has changed    *)
(* the modem under a label that two of them have is not what the comment   *)
(* above parse_storage_address() says (gpt_find_by_name()).                *)
LabelIsUnique ==
    \A n \in 1..Len(setup.labels) : Cardinality(Called(setup.labels[n])) > 1 =>
        \A part \in Called(setup.labels[n]) : store[part] = "old"

(* Nothing is changed on the modem before all there is to check is         *)
(* checked: the documents are loaded, the MD5 sums of whole images hold,   *)
(* secdata is not on the list or was allowed, and a provisioning is        *)
(* committed as it was checked (qdl_flash(), ufs_provisioning_execute()).  *)
CheckedFirst ==
    /\ (\E part \in Parts : store[part] # "old") /\ Flash =>
        /\ docs = << >>
        /\ \A n \in 1..Len(Tags) :
              /\ Tags[n].kind = "program" /\ PlaceOf(Tags[n]) \in Parts /\ store[PlaceOf(Tags[n])] = "new"
              /\ Tags[n].sparse = "no" /\ Tags[n].file # "missing"
              => /\ setup.skip_md5 \/ ~(Tags[n].md5 /\ Tags[n].file = "altered")
                 /\ Tags[n].label = "secdata" => setup.allow_fusing
    /\ ufs.applied # << >> => ufs.applied = ufs.checked

(* A file that is read from a partition holds its sectors in place, while  *)
(* it is read and after, however often the read broke off and was resumed  *)
(* (firehose_read_to_file()).                                              *)
FileIsPrefix ==
    /\ file.open => file.data = SubSeq(Image(Do.part), 1, Len(file.data))
    /\ \A part \in DOMAIN saved : saved[part] = Image(part)

(* The command ends: it is never left waiting for an answer, and only for  *)
(* the modem that the operator has to plug in.  (Except when the program   *)
(* list loops.)                                                            *)
CommandEnds == <>(pc = "exit" \/ Loops)
=============================================================================
