------------------------------- MODULE EfsTar -------------------------------
(***************************************************************************)
(* What the backup and the restore of the modem's file system share        *)
(* (src/diag.c): the circumstances, and the TAR archive.                   *)
(*                                                                         *)
(* The archive is a sequence of units, half a block (256 bytes) each, so   *)
(* that a file may end within a block.  A unit of a file knows the file    *)
(* and its place in it; a zero byte of padding is the same as one of the   *)
(* end of the archive.  Headers carry nothing that says where they are: a  *)
(* reader that is out of step takes whatever comes.                        *)
(***************************************************************************)
EXTENDS Naturals, Sequences, SequencesExt, FiniteSets, FiniteSetsExt

CONSTANTS
    Setups,             \* the circumstances, see IsSetup
    EFS_MAX_READ_REQ,   \* units a read asks for, 4 in the code
    EFS_MAX_WRITE_REQ,  \* units a write sends, 4 in the code
    SmallFile,          \* units of a file that is restored at once, 8
    MaxHandles          \* directories the modem keeps open, "~4"

(* The circumstances:                                                      *)
(*   tree     the file system that is backed up: a node by path, a path    *)
(*            being the sequence of its names.  A hidden file can be       *)
(*            opened, but readdir does not show it.  There are finitely    *)
(*            many.                                                        *)
(*   probes   the paths probed after the walk                              *)
(*   capacity paths the path_set takes, 3072 in the code                  *)
(*   nv       NV items in the archive.  Only xqcn2tar puts them there, so  *)
(*            when there are any the archive is its output, not a backup.  *)
(*   target   the file system that is restored to, with no directory where *)
(*            the tree has a file or a link, and nothing but directories   *)
(*            above a node of it                                           *)
(*   journal  entries its journal has room for                             *)
(*   faults   what may go wrong: the modem refuses a call of the backup    *)
(*            ("errno") or the restore ("refuse"), reads or writes less    *)
(*            than asked ("short"), fails in the middle of a file          *)
(*            ("read"), has no PUT ("put") or no sync ("sync"); the disk   *)
(*            of the host runs full ("disk"), or the archive is cut short  *)
(*            between backup and restore ("cut")                           *)
Ancestors(p) == [k \in 1..(Len(p) - 1) |-> SubSeq(p, 1, k)]
Empty(kind) == [kind |-> kind, data |-> << >>]
Node == [kind : {"dir", "file", "link"}, size : Nat, hidden : BOOLEAN]
IsSetup(c) ==
    /\ << >> \notin DOMAIN c.tree /\ IsFiniteSet(DOMAIN c.tree)
    /\ \A p \in DOMAIN c.tree :
          /\ c.tree[p] \in Node /\ p \in Seq(Range(p))
          /\ c.tree[p].hidden => c.tree[p].kind = "file"
          /\ c.tree[p].kind # "file" => c.tree[p].size = 0
          /\ \A d \in Range(Ancestors(p)) :
                /\ d \in DOMAIN c.tree /\ c.tree[d].kind = "dir"
                /\ d \in DOMAIN c.target => c.target[d].kind = "dir"
          /\ p \in DOMAIN c.target /\ c.target[p].kind = "dir" =>
                c.tree[p].kind = "dir" /\ c.target[p] = Empty("dir")
    /\ c.probes \in Seq(Range(c.probes))
    /\ {c.capacity, c.nv, c.journal} \subseteq Nat
    /\ c.faults \subseteq {"errno", "refuse", "short", "read", "put", "sync",
                        "disk", "cut"}

ASSUME EfsConstants ==
    /\ {EFS_MAX_READ_REQ, EFS_MAX_WRITE_REQ, MaxHandles} \subseteq Nat \ {0}
    /\ SmallFile \in Nat
    /\ \A c \in Setups : IsSetup(c)

VARIABLES
    setup,      \* the circumstances, which do not change
    archive     \* the units of the TAR file

Tree == setup.tree
Fault(f) == f \in setup.faults

BLOCK == 2
Root == << >>

Zero == [type |-> "zero"]
Zeros(n) == [k \in 1..n |-> Zero]
Padding(size) == Zeros((BLOCK - (size % BLOCK)) % BLOCK)
Header(p, kind, size) ==
    [k \in 1..BLOCK |-> [type |-> "header", path |-> p, kind |-> kind,
                         size |-> size, at |-> k]]
Content(p, size) == [k \in 1..size |-> [type |-> "data", path |-> p, at |-> k]]
Member(p, kind, size) == Header(p, kind, size) \o Content(p, size) \o Padding(size)

\* A block whose checksum is right.
IsHeader(b) ==
    /\ b[1].type = "header"
    /\ b = Header(b[1].path, b[1].kind, b[1].size)

\* What a file, a link or a directory of the tree is, once restored.
Restored(p) == [kind |-> Tree[p].kind, data |-> Content(p, Tree[p].size)]

\* The archive that xqcn2tar makes of an XQCN file: the NV items, then the
\* files, without their directories.
Converted ==
    LET files == SetToSeq({p \in DOMAIN Tree : Tree[p].kind = "file"})
    IN  FlattenSeq([n \in 1..setup.nv |-> Member(<<"nv_items", n>>, "nv", 1)])
          \o FlattenSeq([i \in 1..Len(files) |->
                            Member(files[i], "file", Tree[files[i]].size)])
          \o Zeros(2 * BLOCK)
=============================================================================
