------------------------------- MODULE VipGen -------------------------------
(***************************************************************************)
(* The dry run of `qfenix --create-digests` (src/vip.c): one SHA256 digest *)
(* is recorded for every frame the simulated session writes, and at the    *)
(* end create_chained_tables() splits the digests into one table to be     *)
(* signed and a chain of further tables, then appends to every table the   *)
(* hash of its successor, backwards from the last one.                     *)
(*                                                                         *)
(* The digest of the k-th frame is the number k, and the hash of a file is *)
(* the file itself: two files have the same hash iff they are equal.       *)
(***************************************************************************)
EXTENDS Integers, Sequences

CONSTANTS
    MAX_DIGESTS_PER_SIGNED_TABLE,   \* 53 in the code
    MAX_DIGESTS_PER_CHAINED_TABLE,  \* 255 in the code
    MaxFrames,                      \* bound on the frames of a dry run
    MaxStale,                       \* bound on the tables an earlier run left
    GenMayFail                      \* may a write to the host's disk fail?

ASSUME TableSizes ==
    /\ MAX_DIGESTS_PER_SIGNED_TABLE \in Nat \ {0}
    /\ MAX_DIGESTS_PER_CHAINED_TABLE \in Nat \ {0}

ASSUME Bounds ==
    /\ MaxFrames \in Nat /\ MaxStale \in Nat
    /\ GenMayFail \in BOOLEAN

VARIABLES
    gpc,                 \* where vip_gen_* and create_chained_tables() are
    digest_num_written,  \* digests in DIGEST_TABLE.bin
    tosign,              \* DigestsToSign.bin
    chained,             \* ChainedTableOfDigests<i>.bin is chained[i + 1]
    present,             \* ... for i below this: the tables in the directory
    chained_num,         \* tables written by this run so far
    remaining_digests,   \* digests not yet in a table
    link                 \* the table whose hash is appended next, plus one

genVars == <<gpc, digest_num_written, tosign, chained, present,
             chained_num, remaining_digests, link>>

Lesser(a, b) == IF a < b THEN a ELSE b

(***************************************************************************)
(* A table file: `count` digests starting with that of frame `first`, the  *)
(* zero byte that closes the last table, and the appended hash, a sequence *)
(* that is empty or holds the file hashed.                                 *)
(***************************************************************************)
Table(first, count, pad, next) ==
    [first |-> first, count |-> count, pad |-> pad, next |-> next]

NoTable == Table(0, 0, FALSE, << >>)

\* A table of an earlier run: its digests are those of no frame of this one.
StaleTable == Table(MaxFrames + 1, MAX_DIGESTS_PER_CHAINED_TABLE, FALSE, << >>)

GenInit ==
    /\ gpc = "record"
    /\ digest_num_written = 0
    /\ tosign = NoTable
    /\ present \in 0..MaxStale
    /\ chained = [i \in 1..present |-> StaleTable]
    /\ chained_num = 0
    /\ remaining_digests = 0
    /\ link = 0

-----------------------------------------------------------------------------
(* vip_gen_chunk_init(), _update() and _store(): one frame of the dry run. *)
RecordChunk ==
    /\ gpc = "record"
    /\ digest_num_written < MaxFrames
    /\ digest_num_written' = digest_num_written + 1
    /\ UNCHANGED <<gpc, tosign, chained, present, chained_num,
                   remaining_digests, link>>

\* write_digests_to_table() and the byte added to the last table.  The first
\* write truncates what an earlier run left under the same name.
WriteTable(n, t) ==
    /\ present' = IF n < present THEN present ELSE n + 1
    /\ chained' = [i \in 1..present' |-> IF i = n + 1 THEN t ELSE chained[i]]

(* Step 1 of create_chained_tables(): the table to be signed. *)
WriteSigned ==
    LET tosign_count == Lesser(digest_num_written, MAX_DIGESTS_PER_SIGNED_TABLE)
    IN  /\ gpc = "record"
        /\ tosign' = Table(1, tosign_count, FALSE, << >>)
        /\ remaining_digests' = digest_num_written - tosign_count
        /\ gpc' = IF digest_num_written > MAX_DIGESTS_PER_SIGNED_TABLE
                  THEN "chain" ELSE "done"
        /\ UNCHANGED <<digest_num_written, chained, present, chained_num, link>>

(* Step 2: one round of the loop over the remaining digests. *)
WriteChained ==
    LET table_digests == Lesser(remaining_digests, MAX_DIGESTS_PER_CHAINED_TABLE)
        last == table_digests = remaining_digests
    IN  /\ gpc = "chain"
        /\ WriteTable(chained_num,
                      Table(digest_num_written - remaining_digests + 1,
                            table_digests, last, << >>))
        /\ remaining_digests' = remaining_digests - table_digests
        /\ chained_num' = chained_num + 1
        /\ IF last THEN gpc' = "link" /\ link' = chained_num + 1
                   ELSE UNCHANGED <<gpc, link>>
        /\ UNCHANGED <<digest_num_written, tosign>>

\* Mutant: the loop stops before the signed table gets its hash.
AppendHashShort ==
    /\ gpc = "link"
    /\ chained' = IF link = 1 THEN chained
                  ELSE [chained EXCEPT ![link - 1].next = <<chained[link]>>]
    /\ gpc' = IF link = 1 THEN "done" ELSE gpc
    /\ link' = link - 1
    /\ UNCHANGED <<tosign, digest_num_written, present, chained_num,
                   remaining_digests>>

(* Step 3: the hash of table link - 1 is appended to its predecessor. *)
AppendHash ==
    /\ gpc = "link"
    /\ IF link = 1
       THEN /\ tosign' = [tosign EXCEPT !.next = <<chained[1]>>]
            /\ gpc' = "done"
            /\ UNCHANGED chained
       ELSE /\ chained' = [chained EXCEPT ![link - 1].next = <<chained[link]>>]
            /\ UNCHANGED <<gpc, tosign>>
    /\ link' = link - 1
    /\ UNCHANGED <<digest_num_written, present, chained_num, remaining_digests>>

(***************************************************************************)
(* A read or a write of a table file fails: create_chained_tables()        *)
(* returns, vip_gen_finalize() only logs it, and the files stay as they    *)
(* are, the one being written possibly cut short.                          *)
(***************************************************************************)
GenFails ==
    /\ GenMayFail
    /\ gpc' = "failed"
    /\ \/ /\ gpc \in {"record", "chain", "link"}
          /\ UNCHANGED <<tosign, chained, present>>
       \/ /\ gpc = "record"
          /\ \E k \in 0..(Lesser(digest_num_written,
                                 MAX_DIGESTS_PER_SIGNED_TABLE) - 1) :
                tosign' = Table(1, k, FALSE, << >>)
          /\ UNCHANGED <<chained, present>>
       \/ /\ gpc = "chain"
          /\ \E k \in 0..(Lesser(remaining_digests,
                                 MAX_DIGESTS_PER_CHAINED_TABLE) - 1) :
                WriteTable(chained_num,
                           Table(digest_num_written - remaining_digests + 1,
                                 k, FALSE, << >>))
          /\ UNCHANGED tosign
    /\ UNCHANGED <<digest_num_written, chained_num, remaining_digests, link>>

GenNext == RecordChunk \/ WriteSigned \/ WriteChained \/ AppendHash \/ GenFails

GenSpec == GenInit /\ [][GenNext]_genVars

-----------------------------------------------------------------------------
\* The k-th table after the signed one, as its hashes lead to it.
Successor(t) == IF t.next = << >> THEN NoTable ELSE t.next[1]
Followed[k \in Nat] == IF k = 0 THEN tosign ELSE Successor(Followed[k - 1])

\* The digests of the signed table and of the k that follow it.
DigestsIn(t) == [i \in 1..t.count |-> t.first + i - 1]
Digests[k \in Nat] ==
    IF k = 0 THEN DigestsIn(tosign) ELSE Digests[k - 1] \o DigestsIn(Followed[k])

(* When create_chained_tables() succeeds, following the hashes from the    *)
(* signed table leads through the tables of this run, and no further, and  *)
(* finds the digest of every frame of the dry run, once and in order: no   *)
(* frame is lost between two tables and no table is left out of the chain. *)
TablesCoverFrames ==
    gpc = "done" =>
        /\ Digests[chained_num] = [i \in 1..digest_num_written |-> i]
        /\ Followed[chained_num].next = << >>
=============================================================================
