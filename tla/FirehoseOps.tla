----------------------------- MODULE FirehoseOps -----------------------------
(***************************************************************************)
(* The queue of operations read from the XML files (src/firehose_op.c) and *)
(* the two orders in which it is executed.                                 *)
(***************************************************************************)
EXTENDS Choices

CONSTANTS
    Ops,            \* the queued operations, in the order of the documents
    EraseAllOps     \* the erases gpt_erase_all_partitions() issues

(* An operation: `size` is the number of raw units of its payload; a       *)
(* program or a patch without a file to apply it to (a NULL filename, or   *)
(* one other than "DISK" for a patch) has live = FALSE.                    *)
Op(id, kind, size, live) == [id |-> id, kind |-> kind, size |-> size, live |-> live]

OfKind(kind) == Chosen(Ops, {n \in 1..Len(Ops) : Ops[n].kind = kind /\ Ops[n].live})

\* firehose_op_execute(): one pass over the queue.
DocumentOrder == Chosen(Ops, {n \in 1..Len(Ops) : Ops[n].live})

\* Mutant: the erase comes first.
PhasedEraseFirst ==
    EraseAllOps \o OfKind("read") \o OfKind("program") \o OfKind("patch")

\* firehose_op_execute_phased(): four passes; queued erases are superseded.
\* The second is a function of gpt.c, which goes on past a refused erase.
Phased == OfKind("read") \o EraseAllOps \o OfKind("program") \o OfKind("patch")

\* erase_all: is the session run with --erase-all?
Plan(erase_all) == IF erase_all THEN Phased ELSE DocumentOrder
=============================================================================
