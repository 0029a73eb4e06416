----------------------------- MODULE EfsRestore -----------------------------
(***************************************************************************)
(* The restore of a TAR archive to the modem's file system (src/diag.c,    *)
(* diag_efs_restore()): block after block, NV items through NV writes,     *)
(* small files at once with a retry after a sync, large ones piece by      *)
(* piece.                                                                  *)
(*                                                                         *)
(* The modem is external.  Its file system is log-structured: every change *)
(* takes an entry of a journal, and fails with ENOSPC when there is none   *)
(* left, until a sync has emptied it (comment on efs_sync()).              *)
(***************************************************************************)
EXTENDS EfsTar, Integers

VARIABLES
    rpc,        \* where the restore is
    pos,        \* units of the archive read
    cur,        \* the header being worked on: path, kind, size
    buffer,     \* the contents of a small file
    offset,     \* units of the file written
    try,        \* attempt of efs_write_file()
    nv_written, nv_synced,
    ret,        \* of diag_efs_restore()
    files,      \* the paths counted in files_restored
    warned,     \* the paths it warned about
    fs,         \* the modem's file system
    used        \* entries of its journal used

restoreVars == <<rpc, pos, cur, buffer, offset, try, nv_written, nv_synced, ret,
                 files, warned, fs, used>>

RestoreInit ==
    /\ rpc = "header" /\ pos = 0 /\ cur = [path |-> Root, kind |-> "none", size |-> 0]
    /\ buffer = << >> /\ offset = 0 /\ try = 1
    /\ nv_written = FALSE /\ nv_synced = FALSE /\ ret = 0
    /\ files = {} /\ warned = {}
    /\ fs = setup.target /\ used = 0

\* What the next read() of n units of the archive returns.
Ahead(n) == SubSeq(archive, pos + 1, Min({pos + n, Len(archive)}))
Blocks(size) == size + Len(Padding(size))

Room == used < setup.journal
Exists(p) == p = Root \/ p \in DOMAIN fs
Put(f, p, node) == [q \in DOMAIN f \cup {p} |-> IF q = p THEN node ELSE f[q]]

Missing(p) == {d \in Range(Ancestors(p)) : d \notin DOMAIN fs}
WithDirs(ds) == [q \in DOMAIN fs \cup ds |-> IF q \in ds THEN Empty("dir") ELSE fs[q]]

\* efs_mkdirp(): the directories above p, as far as the journal goes.
MakeDirs(p) ==
    LET above(d) == {e \in Missing(p) : Len(e) < Len(d)}
        made == {d \in Missing(p) : used + Cardinality(above(d)) < setup.journal}
    IN  [fs |-> WithDirs(made), used |-> used + Cardinality(made)]

\* The archive's side of a step that goes on to the next header.
NextHeader(skip) == rpc' = "header" /\ pos' = Min({pos + skip, Len(archive)})

-----------------------------------------------------------------------------
ReadHeader ==
    /\ rpc = "header"
    /\ LET b == Ahead(BLOCK)
       IN  /\ Len(b) = BLOCK /\ IsHeader(b)
           /\ cur' = [path |-> b[1].path, kind |-> b[1].kind, size |-> b[1].size]
           /\ rpc' = b[1].kind
    /\ pos' = pos + BLOCK /\ offset' = 0
    /\ UNCHANGED <<buffer, try, nv_written, nv_synced, ret, files, warned, fs, used>>

\* The archive ends, with a block of zeros or without; or the checksum of
\* the block is wrong.
NoHeader ==
    /\ rpc = "header"
    /\ LET b == Ahead(BLOCK)
       IN  IF Len(b) < BLOCK \/ b = Zeros(BLOCK)
           THEN UNCHANGED ret
           ELSE ~IsHeader(b) /\ ret' = -1
    /\ rpc' = "end"
    /\ UNCHANGED <<pos, cur, buffer, offset, try, nv_written, nv_synced, files, warned, fs, used>>

\* mkdir succeeds if the name is there already; if it fails that is no error.
MakeDir ==
    /\ rpc = "dir"
    /\ \/ /\ Exists(cur.path)
          /\ UNCHANGED <<fs, used, warned>>
       \/ /\ ~Exists(cur.path) /\ Exists(Front(cur.path)) /\ Room
          /\ fs' = Put(fs, cur.path, Empty("dir")) /\ used' = used + 1
          /\ UNCHANGED warned
       \/ /\ \/ Fault("refuse")
             \/ ~Exists(cur.path) /\ (~Exists(Front(cur.path)) \/ ~Room)
          /\ warned' = warned \cup {cur.path}
          /\ UNCHANGED <<fs, used>>
    /\ NextHeader(0)
    /\ UNCHANGED <<cur, buffer, offset, try, nv_written, nv_synced, ret, files>>

MakeLink ==
    /\ rpc = "link"
    /\ LET possible == ~Exists(cur.path) /\ Exists(Front(cur.path)) /\ Room
       IN  \/ /\ possible
              /\ fs' = Put(fs, cur.path, Empty("link")) /\ used' = used + 1
              /\ UNCHANGED warned
           \/ /\ ~possible \/ Fault("refuse")
              /\ warned' = warned \cup {cur.path}
              /\ UNCHANGED <<fs, used>>
    /\ NextHeader(0)
    /\ UNCHANGED <<cur, buffer, offset, try, nv_written, nv_synced, ret, files>>

\* diag_nv_write(); an item that cannot be written, or is excluded, is only
\* counted.  The archive may end in it.
WriteNv ==
    /\ rpc = "nv"
    /\ IF Ahead(1) = << >>
       THEN /\ ret' = -1 /\ rpc' = "end"
            /\ UNCHANGED <<pos, used, nv_written>>
       ELSE /\ NextHeader(Blocks(1))
            /\ \/ Room /\ used' = used + 1 /\ nv_written' = TRUE
               \/ UNCHANGED <<used, nv_written>>
            /\ UNCHANGED ret
    /\ UNCHANGED <<cur, buffer, offset, try, nv_synced, files, warned, fs>>

\* efs_sync() flushes the journal, or gives up after 30 seconds.
Sync(entries) == used' = 0 \/ (Fault("sync") /\ used' = entries)

\* A small file is read at once; the archive may end in it.
BeginFile ==
    /\ rpc = "file"
    /\ IF nv_written /\ ~nv_synced
       THEN Sync(used) /\ nv_synced' = TRUE
       ELSE UNCHANGED <<used, nv_synced>>
    /\ IF cur.size > SmallFile
       THEN rpc' = "large" /\ UNCHANGED <<buffer, ret, pos>>
       ELSE /\ buffer' = Ahead(cur.size)
            /\ pos' = pos + Len(buffer')
            /\ IF Len(buffer') < cur.size
               THEN rpc' = "end" /\ ret' = -1
               ELSE rpc' = "put" /\ UNCHANGED ret
    /\ try' = 1
    /\ UNCHANGED <<cur, offset, nv_written, files, warned, fs>>

-----------------------------------------------------------------------------
(* efs_write_file() *)

Written ==
    /\ files' = files \cup {cur.path}
    /\ NextHeader(Len(Padding(cur.size)))

\* PUT writes the file and the directories above it.
PutItem ==
    /\ rpc = "put"
    /\ Room /\ ~Fault("put")
    /\ fs' = Put(WithDirs(Missing(cur.path)), cur.path,
                 [kind |-> "file", data |-> buffer])
    /\ used' = used + 1
    /\ Written
    /\ UNCHANGED <<cur, buffer, offset, try, nv_written, nv_synced, ret, warned>>

PutFails ==
    /\ rpc = "put"
    /\ ~Room \/ Fault("put") \/ Fault("refuse")
    /\ rpc' = "open"
    /\ UNCHANGED <<pos, cur, buffer, offset, try, nv_written, nv_synced, ret, files,
                   warned, fs, used>>

\* Mutant: the second attempt is not preceded by a sync.
AttemptFailsUnsynced(entries) ==
    /\ used' = entries
    /\ \/ try = 1 /\ try' = 2 /\ rpc' = "put" /\ UNCHANGED <<pos, warned>>
       \/ /\ try = 2 /\ warned' = warned \cup {cur.path}
          /\ NextHeader(Len(Padding(cur.size)))
          /\ UNCHANGED try

\* Mutant: there is always another attempt.
AttemptFailsAgain(entries) ==
    /\ try' = 2 /\ rpc' = "put" /\ Sync(entries)
    /\ UNCHANGED <<pos, warned>>

\* The first attempt is followed by a sync and a second one.
AttemptFails(entries) ==
    \/ /\ try = 1 /\ try' = 2 /\ rpc' = "put" /\ Sync(entries)
       /\ UNCHANGED <<pos, warned>>
    \/ /\ try = 2 /\ warned' = warned \cup {cur.path} /\ used' = entries
       /\ NextHeader(Len(Padding(cur.size)))
       /\ UNCHANGED try

\* open() with O_TRUNC, after mkdir for each directory above.
Opens(made) ==
    /\ made.used < setup.journal
    /\ fs' = Put(made.fs, cur.path, Empty("file"))
    /\ used' = made.used + 1
    /\ offset' = 0

OpenRefused(made) == made.used >= setup.journal \/ Fault("refuse")

OpenSmall ==
    /\ rpc = "open" /\ Opens(MakeDirs(cur.path))
    /\ rpc' = "write"
    /\ UNCHANGED <<pos, cur, buffer, try, nv_written, nv_synced, ret, files, warned>>

OpenSmallFails ==
    /\ rpc = "open" /\ OpenRefused(MakeDirs(cur.path))
    /\ fs' = MakeDirs(cur.path).fs
    /\ AttemptFails(MakeDirs(cur.path).used)
    /\ UNCHANGED <<cur, buffer, offset, nv_written, nv_synced, ret, files>>

\* The modem takes the first n units of what it is sent.
Takes(units, n) ==
    /\ Room /\ used' = used + 1
    /\ n = Len(units) \/ Fault("short")
    /\ fs' = [fs EXCEPT ![cur.path].data =
                 SubSeq(@, 1, offset) \o SubSeq(units, 1, n)]
    /\ offset' = offset + n

Piece == Min({EFS_MAX_WRITE_REQ, cur.size - offset})

WriteSmall ==
    /\ rpc = "write" /\ offset < cur.size
    /\ \E n \in 1..Piece : Takes(SubSeq(buffer, offset + 1, offset + Piece), n)
    /\ UNCHANGED <<rpc, pos, cur, buffer, try, nv_written, nv_synced, ret, files, warned>>

WriteSmallFails ==
    /\ rpc = "write" /\ offset < cur.size
    /\ ~Room \/ Fault("refuse")
    /\ AttemptFails(used)
    /\ UNCHANGED <<cur, buffer, offset, nv_written, nv_synced, ret, files, fs>>

CloseSmall ==
    /\ rpc = "write" /\ offset = cur.size
    /\ Written
    /\ UNCHANGED <<cur, buffer, offset, try, nv_written, nv_synced, ret, warned, fs, used>>

-----------------------------------------------------------------------------
(* Large files *)

OpenLarge ==
    /\ rpc = "large" /\ Opens(MakeDirs(cur.path))
    /\ rpc' = "stream"
    /\ UNCHANGED <<pos, cur, buffer, try, nv_written, nv_synced, ret, files, warned>>

\* A file that cannot be created is passed over.
OpenLargeFails ==
    /\ rpc = "large" /\ OpenRefused(MakeDirs(cur.path))
    /\ fs' = MakeDirs(cur.path).fs /\ used' = MakeDirs(cur.path).used
    /\ warned' = warned \cup {cur.path}
    /\ NextHeader(Blocks(cur.size))
    /\ UNCHANGED <<cur, buffer, offset, try, nv_written, nv_synced, ret, files>>

\* Mutant: what the modem did not take is not read again.
StreamForward ==
    /\ rpc = "stream" /\ offset < cur.size
    /\ LET units == Ahead(Piece)
       IN  /\ units # << >>
           /\ \E n \in 1..Len(units) : Takes(units, n)
           /\ pos' = pos + Len(units)
    /\ UNCHANGED <<rpc, cur, buffer, try, nv_written, nv_synced, ret, files, warned>>

\* The archive is read on from what the modem did take.
Stream ==
    /\ rpc = "stream" /\ offset < cur.size
    /\ LET units == Ahead(Piece)
       IN  /\ units # << >>
           /\ \E n \in 1..Len(units) : Takes(units, n) /\ pos' = pos + n
    /\ UNCHANGED <<rpc, cur, buffer, try, nv_written, nv_synced, ret, files, warned>>

\* Mutant: the end of the archive is taken for the end of the file.
StreamEnds ==
    /\ rpc = "stream" /\ offset < cur.size
    /\ \/ Ahead(Piece) = << >> /\ Written /\ UNCHANGED ret
       \/ /\ ~Room \/ Fault("refuse")
          /\ ret' = -1 /\ rpc' = "end" /\ UNCHANGED <<files, pos>>
    /\ UNCHANGED <<cur, buffer, offset, try, nv_written, nv_synced, warned, fs, used>>

\* A large file that cannot be written, or read, ends the restore.
StreamFails ==
    /\ rpc = "stream" /\ offset < cur.size
    /\ Ahead(Piece) = << >> \/ ~Room \/ Fault("refuse")
    /\ ret' = -1 /\ rpc' = "end"
    /\ UNCHANGED <<pos, cur, buffer, offset, try, nv_written, nv_synced, files, warned,
                   fs, used>>

CloseLarge ==
    /\ rpc = "stream" /\ offset = cur.size
    /\ Written
    /\ UNCHANGED <<cur, buffer, offset, try, nv_written, nv_synced, ret, warned, fs, used>>

RestoreNext ==
    \/ ReadHeader \/ NoHeader \/ MakeDir \/ MakeLink \/ WriteNv \/ BeginFile
    \/ PutItem \/ PutFails \/ OpenSmall \/ OpenSmallFails
    \/ WriteSmall \/ WriteSmallFails \/ CloseSmall
    \/ OpenLarge \/ OpenLargeFails \/ Stream \/ StreamFails \/ CloseLarge
=============================================================================
