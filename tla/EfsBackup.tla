------------------------------ MODULE EfsBackup ------------------------------
(***************************************************************************)
(* The TAR backup of the modem's file system (src/diag.c,                  *)
(* diag_efs_backup_enhanced() and, without the probes, diag_efs_backup()): *)
(* a recursive walk of the tree, then a list of paths that are probed      *)
(* because readdir does not show them.                                     *)
(*                                                                         *)
(* The recursion is a stack of the directories being walked.  What the     *)
(* modem answers is an outcome of the step that asks.                      *)
(***************************************************************************)
EXTENDS EfsTar

VARIABLES
    bpc,        \* where the backup is
    stack,      \* the directories entered, each with the names readdir has
                \* not returned yet and the entries collected
    handles,    \* directories open on the modem
    body,       \* the file being copied: path, size, units copied, ended?
    written,    \* the path_set
    probe,      \* paths left to probe
    full,       \* is the host's disk full?
    skipped     \* the paths the backup left out

backupVars == <<bpc, stack, handles, body, written, probe, full, skipped>>

NoBody == [path |-> Root, size |-> 0, got |-> 0, ended |-> FALSE]

Frame(p) == [path |-> p, listing |-> << >>, entries |-> << >>]
Top == Last(stack)
Replace(f) == stack' = Append(Front(stack), f)

BackupInit ==
    /\ stack = << Frame(Root) >> /\ handles = {} /\ body = NoBody
    /\ written = {} /\ probe = setup.probes
    /\ full = FALSE /\ skipped = {}
    /\ bpc = IF setup.nv = 0 THEN "opendir" ELSE "done"
    /\ archive = IF setup.nv = 0 THEN << >> ELSE Converted

\* write() to the archive; that it failed shows only where it is checked.
Write(units) == archive' = IF full THEN archive ELSE archive \o units

Track(p) ==
    written' = IF Cardinality(written) < setup.capacity THEN written \cup {p} ELSE written

\* What readdir shows of a directory.
Listed(d) == SetToSeq({p \in DOMAIN Tree : Front(p) = d /\ ~Tree[p].hidden})

Below(d) == {p \in DOMAIN Tree : IsPrefix(d, p)}

\* efs_backup_tree() returns to the directory above, or to its caller.
Return(then) ==
    /\ stack' = Front(stack)
    /\ bpc' = IF Len(stack) > 1 THEN "entry" ELSE then

-----------------------------------------------------------------------------
OpenDir ==
    /\ bpc = "opendir"
    /\ Cardinality(handles) < MaxHandles
    /\ handles' = handles \cup {Top.path}
    /\ Replace([Top EXCEPT !.listing = Listed(Top.path)])
    /\ bpc' = "readdir"
    /\ UNCHANGED <<body, written, probe, full, skipped, archive>>

OpenDirFails ==
    /\ bpc = "opendir"
    /\ Fault("errno") \/ Cardinality(handles) >= MaxHandles
    /\ skipped' = skipped \cup Below(Top.path)
    /\ Return("failed")
    /\ UNCHANGED <<handles, body, written, probe, full, archive>>

\* The next entry and its stat, which may fail.
ReadDir ==
    /\ bpc = "readdir" /\ Top.listing # << >>
    /\ LET p == Head(Top.listing)
           f == [Top EXCEPT !.listing = Tail(@)]
       IN  \/ /\ Replace([f EXCEPT !.entries = Append(@, p)])
              /\ UNCHANGED skipped
           \/ /\ Fault("errno") /\ Replace(f)
              /\ skipped' = skipped \cup Below(p)
    /\ UNCHANGED <<bpc, handles, body, written, probe, full, archive>>

\* The last entry was read, or an error ends the loop in the same way.
ReadDirEnds ==
    /\ bpc = "readdir"
    /\ Top.listing = << >> \/ Fault("errno")
    /\ skipped' = skipped \cup UNION {Below(p) : p \in Range(Top.listing)}
    /\ Replace([Top EXCEPT !.listing = << >>])
    /\ bpc' = "closedir"
    /\ UNCHANGED <<handles, body, written, probe, full, archive>>

\* Mutant: the directory stays open while its entries are visited.
CloseDirLate ==
    /\ bpc = "closedir"
    /\ IF Top.path = Root THEN UNCHANGED archive
       ELSE Write(Header(Top.path, "dir", 0))
    /\ bpc' = "entry"
    /\ UNCHANGED <<stack, handles, body, written, probe, full, skipped>>

\* The directory is closed before what it holds is visited; its header is
\* written unless its own stat fails.
CloseDir ==
    /\ bpc = "closedir"
    /\ handles' = handles \ {Top.path}
    /\ \/ /\ Top.path # Root
          /\ Write(Header(Top.path, "dir", 0))
          /\ UNCHANGED skipped
       \/ /\ Top.path = Root \/ Fault("errno")
          /\ skipped' = skipped \cup ({Top.path} \ {Root})
          /\ UNCHANGED archive
    /\ bpc' = "entry"
    /\ UNCHANGED <<stack, body, written, probe, full>>

NextEntry(kind) ==
    /\ bpc = "entry" /\ Top.entries # << >>
    /\ Tree[Head(Top.entries)].kind = kind

EnterDir ==
    /\ NextEntry("dir")
    /\ stack' = Front(stack) \o << [Top EXCEPT !.entries = Tail(@)],
                                   Frame(Head(Top.entries)) >>
    /\ bpc' = "opendir"
    /\ UNCHANGED <<handles, body, written, probe, full, skipped, archive>>

CopyLink ==
    /\ NextEntry("link")
    /\ LET p == Head(Top.entries)
       IN  Write(Header(p, "link", 0)) /\ Track(p)
    /\ Replace([Top EXCEPT !.entries = Tail(@)])
    /\ UNCHANGED <<bpc, handles, body, probe, full, skipped>>

\* The header promises the size that stat told.
StartCopy(p) ==
    /\ Write(Header(p, "file", Tree[p].size))
    /\ body' = [path |-> p, size |-> Tree[p].size, got |-> 0,
                ended |-> Tree[p].size = 0]

OpenFile ==
    /\ NextEntry("file")
    /\ StartCopy(Head(Top.entries))
    /\ Replace([Top EXCEPT !.entries = Tail(@)])
    /\ bpc' = "body"
    /\ UNCHANGED <<handles, written, probe, full, skipped>>

\* readlink or open fails: the entry is left out.
EntryFails ==
    /\ Fault("errno") /\ (NextEntry("link") \/ NextEntry("file"))
    /\ skipped' = skipped \cup {Head(Top.entries)}
    /\ Replace([Top EXCEPT !.entries = Tail(@)])
    /\ UNCHANGED <<bpc, handles, body, written, probe, full, archive>>

LeaveDir ==
    /\ bpc = "entry" /\ Top.entries = << >>
    /\ Return("probe")
    /\ UNCHANGED <<handles, body, written, probe, full, skipped, archive>>

\* One efs_read and the write of what it returned.
CopyUnits ==
    /\ bpc = "body" /\ ~body.ended
    /\ LET asked == Min({EFS_MAX_READ_REQ, body.size - body.got})
       IN  \E n \in 1..asked :
              /\ n = asked \/ Fault("short")
              /\ Write(SubSeq(Content(body.path, body.size), body.got + 1, body.got + n))
              /\ body' = [body EXCEPT !.got = @ + n,
                                      !.ended = full \/ body.got + n = body.size]
    /\ UNCHANGED <<bpc, stack, handles, written, probe, full, skipped>>

\* The read fails: what was copied stays, under a header that promises more.
CopyFails ==
    /\ Fault("read")
    /\ bpc = "body" /\ ~body.ended
    /\ body' = [body EXCEPT !.ended = TRUE]
    /\ UNCHANGED <<bpc, stack, handles, written, probe, full, skipped, archive>>

\* Mutant: the path of a captured file is not recorded.
FinishCopyUntracked ==
    /\ bpc = "body" /\ body.ended
    /\ Write(Padding(body.size))
    /\ body' = NoBody
    /\ bpc' = IF stack = << >> THEN "probe" ELSE "entry"
    /\ UNCHANGED <<stack, handles, written, probe, full, skipped>>

\* Mutant: the last block of a file is not filled up.
FinishCopyUnpadded ==
    /\ bpc = "body" /\ body.ended
    /\ Track(body.path)
    /\ body' = NoBody
    /\ bpc' = IF stack = << >> THEN "probe" ELSE "entry"
    /\ UNCHANGED <<stack, handles, probe, full, skipped, archive>>

FinishCopy ==
    /\ bpc = "body" /\ body.ended
    /\ Write(Padding(body.size))
    /\ Track(body.path)
    /\ body' = NoBody
    /\ bpc' = IF stack = << >> THEN "probe" ELSE "entry"
    /\ UNCHANGED <<stack, handles, probe, full, skipped>>

\* efs_probe_file(): what the walk has captured, what is not there and
\* directories are passed over.
Wanted(p) == p \notin written /\ p \in DOMAIN Tree /\ Tree[p].kind # "dir"

ProbeSkips ==
    /\ bpc = "probe" /\ probe # << >>
    /\ LET p == Head(probe)
       IN  \/ ~Wanted(p) /\ UNCHANGED skipped
           \/ /\ Fault("errno") /\ Wanted(p)
              /\ skipped' = skipped \cup {p}
    /\ probe' = Tail(probe)
    /\ UNCHANGED <<bpc, stack, handles, body, written, full, archive>>

ProbeFile ==
    /\ bpc = "probe" /\ probe # << >>
    /\ LET p == Head(probe)
       IN  Wanted(p) /\ StartCopy(p)
    /\ probe' = Tail(probe)
    /\ bpc' = "body"
    /\ UNCHANGED <<stack, handles, written, full, skipped>>

\* Two blocks of zeros end the archive.
EndArchive ==
    /\ bpc = "probe" /\ probe = << >>
    /\ Write(Zeros(2 * BLOCK))
    /\ bpc' = IF full THEN "failed" ELSE "done"
    /\ UNCHANGED <<stack, handles, body, written, probe, full, skipped>>

\* (External.)  The disk of the host runs full, and stays so.
DiskFills ==
    /\ Fault("disk") /\ ~full /\ bpc \notin {"done", "failed"}
    /\ full' = TRUE
    /\ UNCHANGED <<bpc, stack, handles, body, written, probe, skipped, archive>>

BackupNext ==
    \/ OpenDir \/ OpenDirFails \/ ReadDir \/ ReadDirEnds \/ CloseDir
    \/ EnterDir \/ CopyLink \/ OpenFile \/ EntryFails \/ LeaveDir
    \/ CopyUnits \/ CopyFails \/ FinishCopy
    \/ ProbeSkips \/ ProbeFile \/ EndArchive
=============================================================================
