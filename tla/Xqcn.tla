-------------------------------- MODULE Xqcn --------------------------------
(***************************************************************************)
(* The XQCN backup and restore (src/diag.c, diag_efs_backup_xqcn() and     *)
(* diag_efs_restore_xqcn()): the NV items of both subscriptions and the    *)
(* files of the modem go into an XML document of sections, and from there  *)
(* to a modem (the second session of the behaviour).                       *)
(*                                                                         *)
(* The circumstances add: probes, the paths asked for after the walk;      *)
(* target, the modem that is restored to; canCreate, whether the host can  *)
(* create the document.  The path_set's limit is that of EfsBackup, the    *)
(* way a file is written that of EfsRestore: here a write succeeds or      *)
(* fails.                                                                  *)
(***************************************************************************)
EXTENDS DiagCommands, Choices

CONSTANTS
    NvIds,          \* 0..NV_SCAN_MAX_ID
    Excluded,       \* nv_excluded_ids
    RfnvDir, RfcDir \* the directories that decide on a file's section

VARIABLES
    cursor,         \* the NV item, probe or record that is next
    def, sim1,      \* the records captured of the two subscriptions
    walk,           \* the directories of the tree walk
    file,           \* the file being added
    files,          \* the files added
    doc,            \* the document
    restored,       \* the files written to the target
    nvWritten, efsWritten   \* what the restore counts

xqcnVars == <<cursor, def, sim1, walk, file, files, doc, restored, nvWritten, efsWritten>>
restoreVars == <<doc, restored, nvWritten, efsWritten>>
sessionVars == <<method, job, stack, exit, printed>>

NoFile == [path |-> << >>, size |-> 0, fd |-> 0, body |-> << >>]
NoDoc == [def |-> << >>, sim1 |-> << >>, Prov |-> << >>, Backup |-> << >>, NvItems |-> << >>]

XqcnInit ==
    /\ cursor = 0 /\ def = << >> /\ sim1 = << >>
    /\ walk = << >> /\ file = NoFile /\ files = << >>
    /\ doc = NoDoc /\ restored = << >> /\ nvWritten = 0 /\ efsWritten = 0

\* Mutant: the scan ends before the last item.
LastIdLess == Max(NvIds) - 1

LastId == Max(NvIds)

WalkFrame(path) == [path |-> path, dirp |-> 0, seqno |-> 1, entries |-> << >>]

-----------------------------------------------------------------------------
(* The scan: each item in turn; no answer and no item are the same.        *)

\* Mutant: the records are kept under the number that was asked for.
CapturedAsAsked(class, records, a) ==
    IF IsRecord(class, a) /\ a.data # "none" /\ cursor \notin Excluded
    THEN Append(records, [id |-> cursor, data |-> a.data])
    ELSE records

\* The number is the one of the answer, the excluded one that of the request.
Captured(class, records, a) ==
    IF IsRecord(class, a) /\ a.data # "none" /\ cursor \notin Excluded
    THEN Append(records, [id |-> a.id, data |-> a.data])
    ELSE records

ScanNext(here, next) ==
    IF cursor = LastId THEN cursor' = 0 /\ Go(next) ELSE cursor' = cursor + 1 /\ Go(here)

Scan ==
    /\ pc = "xqcn"
    /\ \E o \in NvRead(cursor) : Take(o) /\ def' = Captured("nvread", def, o.answer)
    /\ ScanNext("xqcn", "scan_sim")
    /\ UNCHANGED <<sessionVars, sim1, walk, file, files, restoreVars>>

ScanSim ==
    /\ pc = "scan_sim"
    /\ \E o \in NvReadSub(cursor) : Take(o) /\ sim1' = Captured("subsys", sim1, o.answer)
    /\ ScanNext("scan_sim", "x_opendir")
    /\ walk' = IF cursor = LastId THEN << WalkFrame(<< >>) >> ELSE walk
    /\ UNCHANGED <<sessionVars, def, file, files, restoreVars>>

-----------------------------------------------------------------------------
(* The tree walk, xqcn_collect_tree(): a directory is read to its end and  *)
(* closed before its entries are visited.                                  *)
At == Last(walk)
Set(f) == walk' = Append(Front(walk), f)
WalkVars == <<sessionVars, cursor, def, sim1, files, restoreVars>>

WalkOpendir ==
    /\ pc = "x_opendir"
    /\ \E o \in Opendir(At.path) :
        /\ Take(o)
        /\ IF Opened(o.answer)
           THEN Set([At EXCEPT !.dirp = o.answer.w4]) /\ Go("x_readdir")
           ELSE Go("x_entry") /\ UNCHANGED walk
    /\ UNCHANGED <<file, WalkVars>>

WalkReaddir ==
    /\ pc = "x_readdir"
    /\ \E o \in Readdir(At.dirp, At.seqno) :
        /\ Take(o)
        /\ IF ~Entry(o.answer) THEN Go("x_closedir") /\ UNCHANGED <<walk, file>>
           ELSE IF Skipped(o.answer.name)
           THEN Set([At EXCEPT !.seqno = @ + 1]) /\ UNCHANGED <<pc, file>>
           ELSE /\ file' = [NoFile EXCEPT !.path = Append(At.path, o.answer.name)]
                /\ Go("x_stat") /\ UNCHANGED walk
    /\ UNCHANGED WalkVars

WalkStat ==
    /\ pc = "x_stat"
    /\ \E o \in Stat(file.path) :
        /\ Take(o)
        /\ LET found == [path |-> file.path, mode |-> o.answer.w8]
           IN  Set([At EXCEPT !.seqno = @ + 1,
                              !.entries = IF Statted(o.answer) THEN Append(@, found) ELSE @])
    /\ file' = NoFile
    /\ Go("x_readdir")
    /\ UNCHANGED WalkVars

WalkClosedir ==
    /\ pc = "x_closedir"
    /\ \E o \in Closedir(At.dirp) : Take(o)
    /\ Go("x_entry")
    /\ UNCHANGED <<walk, file, WalkVars>>

\* Links are left out; what is no directory and no link is added.
WalkEntry ==
    /\ pc = "x_entry"
    /\ IF At.entries = << >>
       THEN /\ walk' = Front(walk)
            /\ Go(IF Len(walk) = 1 THEN "probe" ELSE "x_entry")
            /\ UNCHANGED file
       ELSE LET e == Head(At.entries)
                rest == [At EXCEPT !.entries = Tail(@)]
            IN  IF e.mode = Mode("dir")
                THEN /\ walk' = Front(walk) \o << rest, WalkFrame(e.path) >>
                     /\ Go("x_opendir") /\ UNCHANGED file
                ELSE /\ Set(rest)
                     /\ IF e.mode = Mode("link") THEN UNCHANGED <<pc, file>>
                        ELSE Go("add") /\ file' = [NoFile EXCEPT !.path = e.path]
    /\ UNCHANGED <<link, WalkVars>>

\* The paths readdir does not show are asked for one by one.
Probe ==
    /\ pc = "probe"
    /\ IF cursor = Len(setup.probes)
       THEN Go("feature") /\ cursor' = 0 /\ UNCHANGED file
       ELSE /\ cursor' = cursor + 1 /\ Go("add")
            /\ file' = [NoFile EXCEPT !.path = setup.probes[cursor + 1]]
    /\ UNCHANGED <<link, sessionVars, def, sim1, walk, files, restoreVars>>

-----------------------------------------------------------------------------
(* xqcn_efs_add().                                                         *)
AddVars == <<sessionVars, cursor, def, sim1, walk, restoreVars>>
AddReturns == Go(IF walk # << >> THEN "x_entry" ELSE "probe") /\ file' = NoFile
Seen == {files[i].path : i \in DOMAIN files}

AddStat ==
    /\ pc = "add"
    /\ IF file.path \in Seen THEN AddReturns /\ UNCHANGED link
       ELSE \E o \in Stat(file.path) :
            /\ Take(o)
            /\ IF Statted(o.answer) /\ o.answer.w8 # Mode("dir")
               THEN Go("add_open") /\ file' = [file EXCEPT !.size = o.answer.w12]
               ELSE AddReturns
    /\ UNCHANGED <<files, AddVars>>

AddOpen ==
    /\ pc = "add_open"
    /\ \E o \in Open(file.path) :
        /\ Take(o)
        /\ IF Opened(o.answer) THEN file' = [file EXCEPT !.fd = o.answer.w4] /\ Go("add_read")
           ELSE AddReturns
    /\ UNCHANGED <<files, AddVars>>

\* A read that fails ends the file there.
AddRead ==
    /\ pc = "add_read"
    /\ IF Len(file.body) >= file.size THEN Go("add_close") /\ UNCHANGED <<link, file>>
       ELSE \E o \in Read(file.fd, Len(file.body)) :
            /\ Take(o)
            /\ IF BytesRead(o.answer) > 0
               THEN file' = [file EXCEPT !.body = Append(@, o.answer.src)] /\ UNCHANGED pc
               ELSE Go("add_close") /\ UNCHANGED file
    /\ UNCHANGED <<files, AddVars>>

AddClose ==
    /\ pc = "add_close"
    /\ \E o \in Close(file.fd) : Take(o)
    /\ files' = Append(files, [path |-> file.path, body |-> file.body])
    /\ AddReturns
    /\ UNCHANGED AddVars

-----------------------------------------------------------------------------
(* The document.                                                           *)
Metadata(here, next) ==
    /\ pc = here
    /\ \E o \in Send(here, Modem, Reply(here, 16, Done)) : Take(o)
    /\ Go(next)
    /\ UNCHANGED <<sessionVars, xqcnVars>>
FeatureQuery == Metadata("feature", "build")
BuildId == Metadata("build", "write")

Section(path) ==
    IF Len(path) > 1 /\ Head(path) = RfnvDir THEN "Backup"
    ELSE IF Len(path) > 1 /\ Head(path) = RfcDir THEN "NvItems" ELSE "Prov"
InSections(s) ==
    Chosen(files, {i \in 1..Len(files) : Section(files[i].path) \in s})

\* The document, the files of /rfc in two sections; or it cannot be created.
\* A second session then restores to the other modem.
WriteDocument ==
    /\ pc = "write"
    /\ IF setup.canCreate
       THEN /\ doc' = [def |-> def, sim1 |-> sim1,
                       Prov |-> InSections({"Prov"}),
                       Backup |-> InSections({"Backup", "NvItems"}),
                       NvItems |-> InSections({"NvItems"})]
            /\ link' = [link EXCEPT !.modem = setup.target, !.pending = << >>]
            /\ method' = "none" /\ job' = "xqcn_restore"
            /\ Go("spc") /\ UNCHANGED exit
       ELSE End(1) /\ UNCHANGED <<link, method, job, doc>>
    /\ UNCHANGED <<stack, printed, cursor, def, sim1, walk, file, files,
                   restored, nvWritten, efsWritten>>

-----------------------------------------------------------------------------
(* The restore.                                                            *)
Offline ==
    /\ pc = "xqcn_restore"
    /\ \E o \in Send("control", Modem, Reply("control", 3, Done)) : Take(o)
    /\ Go("nv")
    /\ UNCHANGED <<sessionVars, xqcnVars>>

\* Only the records of the default subscription are written.
RestoreNv ==
    /\ pc = "nv"
    /\ IF cursor = Len(doc.def)
       THEN Go("sync") /\ cursor' = 0 /\ UNCHANGED <<link, nvWritten>>
       ELSE LET r == doc.def[cursor + 1]
            IN  \E o \in NvWrite(r.id, r.data) :
                /\ Take(o)
                /\ nvWritten' = nvWritten + IF Written("nvwrite", o.answer) THEN 1 ELSE 0
                /\ cursor' = cursor + 1 /\ UNCHANGED pc
    /\ UNCHANGED <<sessionVars, def, sim1, walk, file, files, doc, restored, efsWritten>>

SyncAfterNv ==
    /\ pc = "sync"
    /\ \E o \in Sync : Take(o)
    /\ Go("Prov")
    /\ UNCHANGED <<sessionVars, xqcnVars>>

\* Mutant: an entry without data has no place among the data.
DatasCompact(section) == SelectSeq([i \in DOMAIN section |-> section[i].body],
                                   LAMBDA b : b # << >>)

\* The data streams by position; one without data is not restored, but has
\* its place.
Datas(section) == [i \in DOMAIN section |-> section[i].body]

NextSection(s) == CASE s = "Prov" -> "Backup" [] s = "Backup" -> "NvItems" [] s = "NvItems" -> "reset"

\* xqcn_restore_efs_section(), one entry: efs_write_file() may fail, and
\* leave a part of the file.  The journal is synced after two of the sections.
RestoreFile(s) ==
    /\ pc = s
    /\ IF cursor = Len(doc[s])
       THEN /\ IF s = "NvItems" THEN UNCHANGED link ELSE \E o \in Sync : Take(o)
            /\ Go(NextSection(s)) /\ cursor' = 0 /\ UNCHANGED <<restored, efsWritten>>
       ELSE LET i == cursor + 1
                path == doc[s][i].path
                datas == Datas(doc[s])
                body == IF i \in DOMAIN datas THEN datas[i] ELSE << >>
            IN  /\ cursor' = i /\ UNCHANGED pc
                /\ \/ /\ body = << >>
                      /\ UNCHANGED <<link, restored, efsWritten>>
                   \/ /\ body # << >>
                      /\ restored' = With(restored, path, body)
                      /\ efsWritten' = efsWritten + 1
                      /\ UNCHANGED link
                   \/ /\ body # << >> /\ link.faults < MaxFaults
                      /\ link' = [link EXCEPT !.faults = @ + 1]
                      /\ \/ UNCHANGED restored
                         \/ restored' = With(restored, path, Front(body))
                      /\ UNCHANGED efsWritten
    /\ UNCHANGED <<sessionVars, def, sim1, walk, file, files, doc, nvWritten>>

\* The modem reboots, or does not; the result is success.
Reset ==
    /\ pc = "reset"
    /\ \E o \in Send("control", Modem, Reply("control", 3, Done)) : Take(o)
    /\ End(0)
    /\ UNCHANGED <<method, job, stack, printed, xqcnVars>>

XqcnNext ==
    \/ Scan \/ ScanSim
    \/ WalkOpendir \/ WalkReaddir \/ WalkStat \/ WalkClosedir \/ WalkEntry \/ Probe
    \/ AddStat \/ AddOpen \/ AddRead \/ AddClose
    \/ FeatureQuery \/ BuildId \/ WriteDocument
    \/ Offline \/ RestoreNv \/ SyncAfterNv
    \/ \E s \in {"Prov", "Backup", "NvItems"} : RestoreFile(s)
    \/ Reset

=============================================================================
