----------------------------- MODULE DiagCalls ------------------------------
(***************************************************************************)
(* The single requests of a DIAG session (src/diag.c): what each asks of   *)
(* the modem, what the modem answers, and how the answer is understood.    *)
(*                                                                         *)
(* The circumstances (setup): the command and its arguments, and a modem:  *)
(*   nv, sim   its NV items of the default and of the second subscription, *)
(*             "none" where an item is not active                          *)
(*   readonly  the items it refuses to write                               *)
(*   tree      its file system: kind, size and whether readdir shows it,   *)
(*             by path, a path being the sequence of its names             *)
(*   locked    the paths it refuses to remove                              *)
(*   methods   the EFS subsystems it has, "alt" and "std"                  *)
(*   dirs, fds its open directories and files                              *)
(***************************************************************************)
EXTENDS DiagLink

CONSTANTS
    MaxHandles      \* directories, and files, the modem keeps open

VARIABLES
    method          \* the EFS subsystem the session uses, "none" at first

Words(w4, w8, w12, w16) == <<w4, w8, w12, w16>>
Done == Words(0, 0, 0, 0)
Errno == Words(1, 1, 1, 1)

-----------------------------------------------------------------------------
(* NV items.                                                               *)
NvAnswer(class, size, id, value) ==
    [Reply(class, size, Words(id + 65536, 0, 0, 0)) EXCEPT !.id = id, !.data = value]

NvRead(id) == Send("nvread", Modem, NvAnswer("nvread", 133, id, Modem.nv[id]))
NvReadSub(id) == Send("subsys", Modem, NvAnswer("subsys", 138, id, Modem.sim[id]))

Writes(id) == id \notin Modem.readonly
Status(id) == IF Writes(id) THEN "done" ELSE "readonly"
NvWrite(id, value) ==
    Send("nvwrite", IF Writes(id) THEN [Modem EXCEPT !.nv[id] = value] ELSE Modem,
         NvAnswer("nvwrite", 133, id, Status(id)))
NvWriteSub(id, value) ==
    Send("subsys", IF Writes(id) THEN [Modem EXCEPT !.sim[id] = value] ELSE Modem,
         NvAnswer("subsys", 138, id, Status(id)))

\* diag_nv_read() and diag_nv_read_sub() take the item from the answer.
IsRecord(class, answer) ==
    answer.class = class /\ answer.size >= (IF class = "subsys" THEN 138 ELSE 133)

-----------------------------------------------------------------------------
(* The file system of the modem.                                           *)
\* The modem follows . and .. in a path.
Proper(path) == \A i \in DOMAIN path : path[i] \notin {".", ".."}
Resolve(path) ==
    IF Proper(path) THEN path
    ELSE FoldLeft(LAMBDA p, n : IF n = "." THEN p
                                ELSE IF n # ".." THEN Append(p, n)
                                ELSE IF p = << >> THEN p ELSE Front(p),
                  << >>, path)

Exists(p) == p = << >> \/ p \in DOMAIN Modem.tree
Kind(p) == IF p = << >> THEN "dir" ELSE Modem.tree[p].kind
IsDirectory(p) == Exists(p) /\ Kind(p) = "dir"
In(p) == {q \in DOMAIN Modem.tree : Front(q) = p}

\* readdir starts with the directory itself and the one above.
Listing(p) ==
    <<".", "..">> \o SetToSeq({Last(q) : q \in {r \in In(p) : ~Modem.tree[r].hidden}})

Mode(kind) == CASE kind = "file" -> 101 [] kind = "dir" -> 102 [] kind = "link" -> 103

Handles == 0..(MaxHandles - 1)
Free(table) == Handles \ DOMAIN table
Without(table, h) == Restrict(table, DOMAIN table \ {h})
With(table, h, x) == [k \in DOMAIN table \cup {h} |-> IF k = h THEN x ELSE table[k]]

Subsystem(m, modem, reply) ==
    IF m \in Modem.methods THEN Send("subsys", modem, reply)
    ELSE Send("subsys", Modem, ErrorReply)
Efs(modem, size, words) == Subsystem(method, modem, Reply("subsys", size, words))

Hello(m) == Subsystem(m, Modem, Reply("subsys", 44, Words(1, 1, 1, 1)))
Query == Efs(Modem, 32, Words(1, 1, 1, 1))
Sync == Efs(Modem, 12, Done)

\* A removed entry stays in the listing of a directory that is open, or the
\* ones after it move up.
Opendir(path) ==
    LET p == Resolve(path)
    IN  IF IsDirectory(p) /\ Free(Modem.dirs) # {}
        THEN LET h == Min(Free(Modem.dirs))
             IN  Efs([Modem EXCEPT !.dirs = With(@, h, [path |-> p, names |-> Listing(p)])],
                     12, Words(h, 0, 0, 0))
        ELSE Efs(Modem, 12, Words(0, 1, 0, 0))

Names(h) == IF setup.live THEN Listing(Modem.dirs[h].path) ELSE Modem.dirs[h].names
Readdir(h, seqno) ==
    IF h \notin DOMAIN Modem.dirs THEN Efs(Modem, 40, Words(h, seqno, 1, 0))
    ELSE IF seqno > Len(Names(h)) THEN Efs(Modem, 40, Words(h, seqno, 0, 0))
    ELSE Subsystem(method, Modem,
                   [Reply("subsys", 41, Words(h, seqno, 0, 1)) EXCEPT !.name = Names(h)[seqno]])

Closedir(h) == Efs([Modem EXCEPT !.dirs = Without(@, h)], 8, Done)

Stat(path) ==
    LET p == Resolve(path)
    IN  IF Exists(p)
        THEN Efs(Modem, 32, Words(0, Mode(Kind(p)), IF p = << >> THEN 0 ELSE Modem.tree[p].size, 1))
        ELSE Efs(Modem, 32, Errno)

Removal(p, possible) ==
    IF possible /\ p \notin Modem.locked
    THEN Efs([Modem EXCEPT !.tree = Without(@, p)], 8, Done)
    ELSE Efs(Modem, 8, Errno)
Unlink(path) ==
    LET p == Resolve(path) IN Removal(p, Exists(p) /\ Kind(p) # "dir")
Rmdir(path) ==
    LET p == Resolve(path) IN Removal(p, p # << >> /\ IsDirectory(p) /\ In(p) = {})

Open(path) ==
    IF Exists(path) /\ Kind(path) # "dir" /\ Free(Modem.fds) # {}
    THEN LET h == Min(Free(Modem.fds))
         IN  Efs([Modem EXCEPT !.fds = With(@, h, path)], 12, Words(h, 0, 0, 0))
    ELSE Efs(Modem, 12, Words(0, 1, 0, 0))

\* A read returns one unit, EFS_MAX_READ_REQ bytes.
Read(h, offset) ==
    IF h \notin DOMAIN Modem.fds THEN Efs(Modem, 20, Words(h, offset, 0, 1))
    ELSE IF offset >= Modem.tree[Modem.fds[h]].size THEN Efs(Modem, 20, Words(h, offset, 0, 0))
    ELSE Subsystem(method, Modem,
                   [Reply("subsys", 21, Words(h, offset, 1, 0)) EXCEPT !.src = Modem.fds[h]])

Close(h) == Efs([Modem EXCEPT !.fds = Without(@, h)], 8, Done)

-----------------------------------------------------------------------------
(* How the answers are understood.  Only sizes and words are looked at.    *)
Opened(a) == a.size >= 12 /\ a.w8 = 0
Entry(a) == a.size >= 40 /\ a.w12 = 0 /\ a.w16 # 0
Statted(a) == a.size >= 32 /\ a.w4 = 0
Removed(a) == a.size >= 8 /\ a.w4 = 0
BytesRead(a) == IF a.size >= 20 /\ a.w16 = 0 THEN a.w12 ELSE 0

=============================================================================
