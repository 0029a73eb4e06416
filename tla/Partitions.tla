------------------------------ MODULE Partitions ------------------------------
(***************************************************************************)
(* The work of a Firehose session on the partitions of the modem: loading  *)
(* the partition tables and finding labels in them (src/gpt.c), and the    *)
(* device commands that read, erase and program (src/firehose.c).          *)
(*                                                                         *)
(* A command is a sequence of steps.  A step says what is done with a      *)
(* label, a partition << lun, place >> or a LUN, with what steps it        *)
(* continues, and what a failure means:                                    *)
(*   stop     the command ends with it                                     *)
(*   count    the command goes on and fails at its end                     *)
(*   negative as count, but a positive result (a NAK) is not a failure     *)
(*   skip     as negative, but the command may still succeed               *)
(*   ignore   the result is not used                                       *)
(* The disk is a sequence of LUNs of kind "gpt", "blank" or "invalid",     *)
(* whose parts have a label and the A/B attribute; NAND has one.           *)
(***************************************************************************)
EXTENDS QdlState

CONSTANTS
    Sectors,        \* sectors of a partition
    Retries         \* retries of firehose_read_to_file(), 3 in the code

ASSUME PartitionConstants == Sectors \in Nat \ {0} /\ Retries \in Nat

VARIABLES
    steps,          \* what is still to be done
    cache,          \* gpt_partitions
    lun,            \* LUNs scanned so far in this call
    loaded,         \* has this step got its table?
    store,          \* what the partitions hold
    file,           \* the file that is being read
    saved,          \* the files firehose_read_to_file() has read, by partition
    backups,        \* those that the reads of a flash have saved
    names           \* ext: extension found for a partition; xml: those the
                    \* XML files name

partVars == << steps, cache, lun, loaded, store, file, saved, backups, names >>
tableVars == << cache, lun, loaded >>
dataVars == << store, file, saved, backups, names >>

\* A step on a part (<< >> when it has none), and one on a label.
Step(do, part, fails) ==
    [do |-> do, label |-> "", part |-> part, then |-> << >>, fails |-> fails]
StepFor(do, label, then, fails) ==
    [do |-> do, label |-> label, part |-> << >>, then |-> then, fails |-> fails]

Nand == setup.storage = "nand"
Disk == setup.disk
Parts == UNION {{<< l, p >> : p \in 1..Len(Disk[l].parts)} : l \in 1..Len(Disk)}
Rows(l) == [p \in 1..Len(Disk[l].parts) |->
               [label |-> Disk[l].parts[p].label, active |-> Disk[l].parts[p].active,
                part |-> << l, p >>]]
NoFile == [open |-> FALSE]
Put(f, part, value) ==
    [q \in {part} \cup DOMAIN f |-> IF q = part THEN value ELSE f[q]]

PartInit ==
    /\ steps = << >> /\ cache = << >> /\ lun = 0 /\ loaded = FALSE
    /\ store = [p \in Parts |-> "old"]
    /\ file = NoFile /\ saved = << >> /\ backups = << >>
    /\ names = [ext |-> << >>, xml |-> << >>]

Do == Head(steps)
Busy(do) == pc = "work" /\ steps # << >> /\ Do.do = do

Advance(more) == steps' = more \o Tail(steps) /\ lun' = 0 /\ loaded' = FALSE
Succeeds == Advance(<< >>) /\ Goto("work")

\* The step fails, with a NAK (positive) or with an error.
Misses(positive) ==
    LET silent == Do.fails \in {"skip", "ignore"} \/ (positive /\ Do.fails = "negative")
    IN  /\ lun' = 0 /\ loaded' = FALSE
        /\ steps' = (IF Do.fails = "stop" THEN << >> ELSE Tail(steps))
        /\ pc' = "work"
        /\ ret' = (IF silent THEN ret ELSE -1)
        /\ unsaid' = unsaid \cup (IF silent THEN {IF positive THEN "nak" ELSE Do.do} ELSE {})
-----------------------------------------------------------------------------
(* The tables.                                                             *)

\* gpt_find_by_name(), called for the flash command whatever the storage is,
\* and gpt_get_active_slot() look for a GPT; the other steps for what the
\* storage type says.
GptOnly == Do.do \in {"resolve", "slot"}
Tabled == pc = "work" /\ steps # << >> /\ ~loaded
              /\ Do.do \in {"find", "each", "xml", "resolve", "slot", "print"}
GptStep == Tabled /\ (GptOnly \/ ~Nand)
Printing == Do.do = "print"
KindOf(l) == IF Nand THEN "blank" ELSE Disk[l].kind

\* gpt_load_tables() when there is a list, complete or not.
UseCache ==
    /\ GptStep /\ ~Printing /\ lun = 0 /\ cache # << >>
    /\ loaded' = TRUE
    /\ UNCHANGED << qdlVars, steps, cache, lun, dataVars >>

Scans == GptStep /\ (Printing \/ lun > 0 \/ cache = << >>)

\* gpt_load_table_from_partition(): a header that cannot be read is taken for
\* the end of the disk.
HeaderUnread ==
    /\ Scans
    /\ IF lun < Len(Disk) THEN Fault ELSE NoFault
    /\ IF Printing THEN Advance(<< >>)
       ELSE UNCHANGED steps /\ lun' = 0 /\ loaded' = TRUE
    /\ unsaid' = unsaid \cup (IF lun < Len(Disk) THEN {"eof"} ELSE {})
    /\ UNCHANGED << setup, pc, ret, cache, dataVars >>

HeaderBlank ==
    /\ Scans /\ lun < Len(Disk) /\ KindOf(lun + 1) = "blank"
    /\ lun' = lun + 1
    /\ UNCHANGED << qdlVars, steps, cache, loaded, dataVars >>

HeaderInvalid ==
    /\ Scans /\ lun < Len(Disk) /\ KindOf(lun + 1) = "invalid"
    /\ Misses(FALSE)
    /\ UNCHANGED << setup, faults, cache, dataVars >>

EntriesRead ==
    /\ Scans /\ ~Printing /\ lun < Len(Disk) /\ KindOf(lun + 1) = "gpt"
    /\ lun' = lun + 1
    /\ cache' = cache \o Rows(lun + 1)
    /\ UNCHANGED << qdlVars, steps, loaded, dataVars >>

\* A sector of entries cannot be read; the list keeps those before it.
EntriesUnread ==
    /\ Scans /\ ~Printing /\ lun < Len(Disk) /\ KindOf(lun + 1) = "gpt" /\ Fault
    /\ \E n \in 0..(Len(Disk[lun + 1].parts) - 1) :
        cache' = cache \o SubSeq(Rows(lun + 1), 1, n)
    /\ Misses(FALSE)
    /\ UNCHANGED << setup, dataVars >>

\* gpt_print_table_from_partition() reads the same and keeps nothing.
EntriesPrinted ==
    /\ Scans /\ Printing /\ lun < Len(Disk) /\ KindOf(lun + 1) = "gpt"
    /\ \/ NoFault /\ lun' = lun + 1 /\ UNCHANGED << pc, ret, unsaid, steps, loaded >>
       \/ Fault /\ Misses(FALSE)
    /\ UNCHANGED << setup, cache, dataVars >>

\* nand_load_ptable() and its copies read the table again for every call.
NandCall == Tabled /\ Nand /\ ~GptOnly
NandTable ==
    /\ NandCall /\ ~Printing /\ Disk[1].kind = "gpt"
    /\ loaded' = TRUE
    /\ UNCHANGED << qdlVars, steps, cache, lun, dataVars >>

NandPrint ==
    /\ NandCall /\ Printing /\ Disk[1].kind = "gpt"
    /\ Succeeds
    /\ UNCHANGED << setup, faults, cache, dataVars >>

\* No block has the magic numbers of the MIBIB.
NandNoMibib ==
    /\ NandCall /\ Disk[1].kind # "gpt"
    /\ Misses(FALSE)
    /\ UNCHANGED << setup, faults, cache, dataVars >>

\* The page size, the table or the block size cannot be read.
NandUnread ==
    /\ NandCall /\ Disk[1].kind = "gpt" /\ Fault
    /\ Misses(FALSE)
    /\ UNCHANGED << setup, cache, dataVars >>

Table == IF Nand /\ ~GptOnly THEN Rows(1) ELSE cache
Bearing(label) == {n \in 1..Len(Table) : Table[n].label = label}

\* The first partition with the label fixes *phys_partition, so those on the
\* LUNs after it are not looked at.
Matches(label) ==
    {n \in Bearing(label) : Table[n].part[1] = Table[Min(Bearing(label))].part[1]}

\* Mutant: the first candidate of a LUN is taken.
FoundFirst(label) == Matches(label) # {}

\* gpt_find_by_name() refuses a label with two candidates; NAND takes the first.
Found(label) ==
    Cardinality(Matches(label)) = 1 \/ (Nand /\ ~GptOnly /\ Matches(label) # {})
FoundPart(label) == Table[Min(Matches(label))].part

StepsFor(part) == [n \in 1..Len(Do.then) |-> Step(Do.then[n], part, Do.fails)]

\* What a label leads to, and each partition of the table.
WithLabel(onNand, then) ==
    /\ Busy("find") /\ loaded /\ Nand = onNand /\ Do.then = then
    /\ IF Found(Do.label)
       THEN Advance(StepsFor(FoundPart(Do.label))) /\ Goto("work")
       ELSE Misses(FALSE)
    /\ UNCHANGED << setup, faults, cache, dataVars >>
ForEach(onNand, then) ==
    /\ Busy("each") /\ loaded /\ Nand = onNand /\ Do.then = then
    /\ Advance(FlattenSeq([n \in 1..Len(Table) |-> StepsFor(Table[n].part)]))
    /\ Goto("work")
    /\ UNCHANGED << setup, faults, cache, dataVars >>

GptReadPartition   == WithLabel(FALSE, << "read" >>)
GptReadToDir       == WithLabel(FALSE, << "probe", "read" >>)
GptErasePartition  == WithLabel(FALSE, << "erase" >>)
GptWritePartition  == WithLabel(FALSE, << "erase", "program" >>)
GptReadAll         == ForEach(FALSE, << "probe", "read" >>)
GptEraseAll        == ForEach(FALSE, << "erase" >>)
NandReadPartition  == WithLabel(TRUE, << "read" >>)
NandReadToDir      == WithLabel(TRUE, << "probe", "read" >>)
NandErasePartition == WithLabel(TRUE, << "erase" >>)
NandWritePartition == WithLabel(TRUE, << "erase", "program" >>)
NandReadAll        == ForEach(TRUE, << "probe", "read" >>)
NandEraseAll       == ForEach(TRUE, << "erase" >>)

\* The directory for all partitions cannot be made.
NoDirectory ==
    /\ Busy("each") /\ loaded /\ Do.then[1] = "probe" /\ Fault
    /\ Misses(FALSE)
    /\ UNCHANGED << setup, cache, dataVars >>

\* gpt_get_active_slot(): boot_a is looked at before boot_b.
ActiveSlot ==
    /\ Busy("slot") /\ loaded
    /\ IF \E n \in 1..Len(Table) : Table[n].label \in {"boot_a", "boot_b"} /\ Table[n].active
       THEN Succeeds ELSE Misses(FALSE)
    /\ UNCHANGED << setup, faults, cache, dataVars >>

\* `if (!ret)` or `if (ret) return`: the rest only when nothing failed so far.
Check ==
    /\ Busy("check")
    /\ IF ret # 0 THEN steps' = << >> /\ Goto("work") /\ UNCHANGED << lun, loaded >>
       ELSE Succeeds
    /\ UNCHANGED << setup, faults, cache, dataVars >>

\* gpt_set_active_slot() is not implemented.
SetSlot ==
    /\ Busy("setslot") /\ Misses(FALSE)
    /\ UNCHANGED << setup, faults, cache, dataVars >>
-----------------------------------------------------------------------------
(* The device commands.                                                    *)

\* firehose_getstorageinfo() for one LUN (0 is the device).
StorageInfo ==
    /\ Busy("info")
    /\ \/ NoFault /\ Succeeds
       \/ Fault /\ Misses(FALSE)
    /\ UNCHANGED << setup, cache, dataVars >>

\* gpt_read_full_storage(): what was not read is left out, unless it is all; a
\* LUN whose read got a NAK counts as read.
CountLuns ==
    /\ Busy("luns")
    /\ IF saved = << >> /\ "nak" \notin unsaid THEN Misses(FALSE) ELSE Succeeds
    /\ UNCHANGED << setup, faults, cache, dataVars >>

\* probe_partition_ext(): ".bin" when the first sector cannot be read.
Probed(part) == {"magic"} \cup (IF faults > 0 THEN {"bin"} ELSE {})
Probe ==
    /\ Busy("probe")
    /\ \E ext \in Probed(Do.part) :
        /\ IF ext = "bin" THEN Fault ELSE NoFault
        /\ names' = [names EXCEPT !.ext = Put(@, Do.part, ext)]
    /\ Succeeds
    /\ UNCHANGED << setup, cache, store, file, saved, backups >>

\* gpt_make_xml() probes the partitions again, one of which may seem another.
XmlFor(onNand) ==
    /\ Busy("xml") /\ loaded /\ Nand = onNand
    /\ LET listed == {Table[n].part : n \in 1..Len(Table)}
       IN  \/ /\ NoFault /\ Succeeds
              /\ names' = [names EXCEPT !.xml = [part \in listed |-> "magic"]]
           \/ /\ Fault /\ Misses(FALSE)
              /\ UNCHANGED names
           \/ /\ Fault /\ Succeeds
              /\ \E odd \in listed :
                    names' = [names EXCEPT !.xml =
                        [part \in listed |-> IF part = odd THEN "bin" ELSE "magic"]]
    /\ UNCHANGED << setup, cache, store, file, saved, backups >>
GptMakeXml  == XmlFor(FALSE)
NandMakeXml == XmlFor(TRUE)

\* firehose_read_to_file(): the file is opened before the first command.
OpenFile ==
    /\ Busy("read") /\ ~file.open
    /\ \/ /\ NoFault
          /\ file' = [open |-> TRUE, data |-> << >>, at |-> 0, done |-> 0, left |-> Retries]
          /\ UNCHANGED << pc, ret, unsaid, steps, lun, loaded >>
       \/ Fault /\ Misses(FALSE) /\ UNCHANGED file
    /\ UNCHANGED << setup, cache, store, saved, backups, names >>

\* The contents of a partition, in halves of sectors.
Image(part) == [k \in 1..(2 * Sectors) |-> << part, k >>]

\* n halves from sector `done` on are written at the offset of the file.
Written(f, part, n) ==
    [k \in 1..(IF f.at + n > Len(f.data) THEN f.at + n ELSE Len(f.data)) |->
        IF k > f.at /\ k <= f.at + n THEN Image(part)[2 * f.done + k - f.at]
        ELSE f.data[k]]

Left(f) == 2 * (Sectors - f.done)

\* firehose_issue_read() with its drain succeeds.
ReadSectors ==
    /\ Busy("read") /\ file.open
    /\ saved' = Put(saved, Do.part, Written(file, Do.part, Left(file)))
    /\ file' = NoFile
    /\ NoFault /\ Succeeds
    /\ UNCHANGED << setup, cache, store, backups, names >>

\* Mutant: the file is not set back to the boundary.
ResumedUnaligned(f, data, at) ==
    [f EXCEPT !.data = data, !.at = at, !.done = at \div 2, !.left = @ - 1]

\* After a failure the complete sectors are kept, and the rest is asked for
\* again from a sector boundary, as long as there was progress.
Resumed(f, data, at) ==
    [f EXCEPT !.data = data, !.at = 2 * (at \div 2), !.done = at \div 2, !.left = @ - 1]

\* The command is refused (a NAK, before any data), breaks off after n halves,
\* or ends with a NAK after all of them.
ReadBreaks ==
    /\ Busy("read") /\ file.open /\ Fault
    /\ \E n \in 0..Left(file), positive \in BOOLEAN :
        LET data == Written(file, Do.part, n)
            at == file.at + n
        IN  /\ positive => n = 0
            /\ IF file.left > 0 /\ at \div 2 > file.done
               THEN file' = Resumed(file, data, at)
                    /\ UNCHANGED << pc, ret, unsaid, steps, lun, loaded >>
               ELSE file' = NoFile /\ Misses(positive)
    /\ UNCHANGED << setup, cache, store, saved, backups, names >>

\* A write to the file fails: err(1).
HostDiskFull ==
    /\ Busy("read") /\ file.open /\ Fault
    /\ ret' = 1 /\ pc' = "exit" /\ UNCHANGED unsaid
    /\ file' = NoFile
    /\ UNCHANGED << setup, steps, tableVars, store, saved, backups, names >>

\* firehose_read_op(): one command, without the retries.
Backup ==
    /\ Busy("backup")
    /\ \/ NoFault /\ Succeeds /\ backups' = Put(backups, Do.part, store[Do.part])
       \/ Fault /\ Misses(FALSE) /\ UNCHANGED backups
    /\ UNCHANGED << setup, cache, store, file, saved, names >>

\* A command that changes a partition: it is done, or it fails before or after
\* (or half through) the change.
Changes(do, to, torn) ==
    /\ Busy(do)
    /\ \/ NoFault /\ Succeeds /\ store' = [store EXCEPT ![Do.part] = to]
       \/ /\ Fault /\ Misses(FALSE)
          /\ store' \in {store, [store EXCEPT ![Do.part] = torn]}
    /\ UNCHANGED << setup, cache, file, saved, backups, names >>

Erase == Changes("erase", "erased", "erased")
Patch == Changes("patch", "patched", "patched")

\* firehose_program() of an image that can be opened.
Program == setup.image = "ok" /\ Changes("program", "new", "torn")

\* firehose_program_file(): gpt_write_partition() has erased by then.
ImageMissing ==
    /\ Busy("program") /\ setup.image = "missing"
    /\ Misses(FALSE)
    /\ UNCHANGED << setup, faults, cache, dataVars >>

\* firehose_power(): reset and off are done whatever is answered.
Power ==
    /\ Busy("power")
    /\ \/ NoFault /\ Succeeds
       \/ Fault /\ Do.label = "edl" /\ Misses(FALSE)
       \/ Fault /\ Do.label # "edl" /\ Advance(<< >>) /\ pc' = pc
             /\ unsaid' = unsaid \cup {"power"} /\ UNCHANGED ret
    /\ UNCHANGED << setup, cache, dataVars >>

Tables ==
    \/ UseCache \/ HeaderUnread \/ HeaderBlank \/ HeaderInvalid
    \/ EntriesRead \/ EntriesUnread \/ EntriesPrinted
    \/ NandTable \/ NandPrint \/ NandNoMibib \/ NandUnread

PartitionStep ==
    \/ Tables
    \/ GptReadPartition \/ GptReadToDir \/ GptErasePartition \/ GptWritePartition
    \/ GptReadAll \/ GptEraseAll \/ GptMakeXml
    \/ NandReadPartition \/ NandReadToDir \/ NandErasePartition \/ NandWritePartition
    \/ NandReadAll \/ NandEraseAll \/ NandMakeXml \/ NoDirectory
    \/ ActiveSlot \/ SetSlot \/ Check
    \/ StorageInfo \/ CountLuns \/ Probe
    \/ OpenFile \/ ReadSectors \/ ReadBreaks \/ HostDiskFull
    \/ Backup \/ Erase \/ Patch \/ Program \/ ImageMissing \/ Power
=============================================================================
