----------------------------- MODULE EfsArchive -----------------------------
(***************************************************************************)
(* `efsbackup -t` and `efsrestore` one after the other (src/qdl.c): the    *)
(* archive that the backup reported as complete, or that xqcn2tar wrote,   *)
(* is restored to another modem or to the same one.                        *)
(***************************************************************************)
EXTENDS EfsBackup, EfsRestore

vars == <<setup, archive, backupVars, restoreVars>>

Init == setup \in Setups /\ BackupInit /\ RestoreInit

Backup == BackupNext /\ UNCHANGED <<setup, restoreVars>>

Disk == DiskFills /\ UNCHANGED <<setup, restoreVars>>

Restore == bpc = "done" /\ RestoreNext /\ UNCHANGED <<setup, archive, backupVars>>

\* (External.)  The archive is copied, and the copy is cut short.
Cut ==
    /\ Fault("cut") /\ bpc = "done" /\ rpc = "header" /\ pos = 0
    /\ \E n \in 0..(Len(archive) - 1) : archive' = SubSeq(archive, 1, n)
    /\ UNCHANGED <<setup, backupVars, restoreVars>>

Over == bpc = "failed" \/ rpc = "end"

Next == Backup \/ Disk \/ Cut \/ Restore \/ (Over /\ UNCHANGED vars)

Spec == Init /\ [][Next]_vars

\* The program always takes its next step; every call it makes of the modem
\* has a timeout.
FairSpec == Spec /\ WF_vars(Backup \/ Restore)
-----------------------------------------------------------------------------
(* The types of the variables; the journal is never overdrawn.             *)
TypeOK ==
    /\ bpc \in {"opendir", "readdir", "closedir", "entry", "body", "probe", "done",
                "failed"}
    /\ rpc \in {"header", "dir", "link", "nv", "file", "put", "open", "write", "large",
                "stream", "end"}
    /\ handles \subseteq {Root} \cup DOMAIN Tree
    /\ {written, skipped, files, warned} \subseteq SUBSET DOMAIN Tree
    /\ Cardinality(written) <= setup.capacity
    /\ pos \in 0..Len(archive) /\ offset \in 0..cur.size
    /\ ret \in {0, -1} /\ used \in 0..setup.journal

(* A backup that is reported as complete was written to the disk in full,  *)
(* although most writes are not looked at, and no path is archived twice:  *)
(* the probes leave out what the walk captured, unless the path_set had no *)
(* room to remember it.  However deep the tree is, nothing is left out     *)
(* because the few directory handles of the modem ran out                  *)
(* (diag_efs_backup_enhanced(), efs_probe_file(), efs_backup_tree()).      *)
ArchiveIsSound ==
    /\ bpc = "done" => ~full
    /\ \A i, j \in 1..Len(archive) :
            (/\ i # j /\ archive[i].type = "header" /\ archive[i].at = 1
             /\ archive[i] = archive[j])
            => Cardinality(written) = setup.capacity
    /\ ~Fault("errno") => skipped = {}

(* The archive gives the file system back.  When no read failed in the     *)
(* middle of a file and the archive is whole, a restore that succeeds      *)
(* leaves on the modem every node of the tree, with its contents, except   *)
(* what the backup left out, what the restore warned about, hidden files   *)
(* nobody probed, and two nodes that are lost in silence: a directory      *)
(* whose name the target has for something else, since mkdir succeeds; and *)
(* a link that the path_set had no room for, since a probe of it is        *)
(* restored over it as a file (diag_efs_restore(), efs_probe_file()).      *)
Unseen(p) == Tree[p].hidden /\ p \notin Range(setup.probes)
Occupied(p) == /\ Tree[p].kind = "dir" /\ p \in DOMAIN setup.target
               /\ setup.target[p].kind # "dir"
Forgotten(p) == /\ Tree[p].kind = "link" /\ p \in Range(setup.probes)
                /\ Cardinality(written) = setup.capacity
RoundTrip ==
    rpc = "end" /\ ret = 0 /\ {Fault("read"), Fault("cut")} = {FALSE} =>
        \A p \in DOMAIN Tree :
            \/ (p \in DOMAIN fs /\ fs[p] = Restored(p))
            \/ p \in skipped \cup warned
            \/ Unseen(p) \/ Occupied(p) \/ Forgotten(p)
            \/ setup.nv > 0 /\ Tree[p].kind # "file"

(* What is counted as restored is on the modem, complete, whatever was     *)
(* refused before and wherever the archive ends; unless a read failed      *)
(* during the backup, or a file was archived twice.  It is a file: a link  *)
(* that only the probe finds is archived as one (diag_efs_restore()).      *)
CountedIsWritten ==
    rpc \in {"header", "end"} /\ ~Fault("read") /\ Cardinality(written) < setup.capacity =>
        \A p \in files : fs[p] = [Restored(p) EXCEPT !.kind = "file"]

(* The restore loses no file for nothing.  A small file is lost only to a   *)
(* modem that refuses it: an exhausted journal costs an attempt, since the *)
(* sync makes room.  And the restore of a whole archive whose files were   *)
(* read to their ends gives up only over a large file the modem did not    *)
(* take: it never loses its place in the archive (efs_write_file(),        *)
(* diag_efs_restore()).                                                    *)
LosesOnlyForCause ==
    /\ {Fault("refuse"), Fault("sync")} = {FALSE} =>
        \A p \in warned : Tree[p].kind = "file" => Tree[p].size > SmallFile
    /\ ret = -1 /\ {Fault("read"), Fault("cut")} = {FALSE} =>
        rpc = "end" /\ cur.size > SmallFile

(* The backup ends, and so does the restore. *)
Ends == <>Over
=============================================================================
