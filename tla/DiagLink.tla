------------------------------ MODULE DiagLink ------------------------------
(***************************************************************************)
(* The DIAG link to the modem (src/diag.c, diag_send() and what it calls): *)
(* a request is framed and written, and frames are read until one has the  *)
(* first byte of the request, or is an error.  Nothing else ties an answer *)
(* to a request, so one that comes after its timeout is taken for the      *)
(* answer to the next request of the same class.                           *)
(*                                                                         *)
(* An answer is what the code can tell of it: its class (the first byte),  *)
(* its size in bytes, the words at the offsets 4, 8, 12 and 16, the name   *)
(* or the data behind them.  An answer read as another one is read by      *)
(* offset, as the code does.                                               *)
(***************************************************************************)
EXTENDS Naturals, Sequences, SequencesExt, FiniteSets, FiniteSetsExt, Functions, TLC

CONSTANTS
    Setups,         \* the circumstances, see DiagCalls
    MaxFaults       \* what goes wrong on the link in a behaviour

ASSUME MaxFaultsAssumption == MaxFaults \in Nat

VARIABLES
    setup,          \* the circumstances, which do not change
    link            \* modem: its state, see DiagCalls
                    \* pending: answers sent by the modem and not read yet
                    \* faults: what went wrong so far
                    \* late: did an answer miss its timeout?

Modem == link.modem

Nothing == [class |-> "none", size |-> 0, w4 |-> 0, w8 |-> 0, w12 |-> 0, w16 |-> 0,
            name |-> "", id |-> 0, data |-> "", src |-> << >>]

Reply(class, size, words) ==
    [Nothing EXCEPT !.class = class, !.size = size, !.w4 = words[1],
                    !.w8 = words[2], !.w12 = words[3], !.w16 = words[4]]

\* DIAG_BAD_CMD_F and its like, which every request accepts.
ErrorReply == Reply("error", 1, <<0, 0, 0, 0>>)

Connected(modem) == [modem |-> modem, pending |-> << >>, faults |-> 0, late |-> FALSE]

\* The answer has the first byte of the request, or is an error.
Accepts(class, answer) == answer.class \in {class, "error"}

(* What diag_send() may return, and what it leaves, when the modem comes    *)
(* to be `modem' and answers `reply'.  The frames that arrived are read in  *)
(* order; those of another class are skipped.  Frames that arrive together  *)
(* are decoded as one, which the checksum refuses.  What may go wrong: the  *)
(* write fails, a frame is damaged, or the answer is not there in time and  *)
(* comes later (ten skipped frames come to the same).                       *)
Send(class, modem, reply) ==
    LET box == Append(link.pending, reply)
        first == CHOOSE i \in DOMAIN box :
                    /\ Accepts(class, box[i])
                    /\ \A j \in 1..(i - 1) : ~ Accepts(class, box[j])
        Left(k, answer, cost, late) ==
            [answer |-> answer,
             link |-> [modem |-> modem, pending |-> SubSeq(box, k + 1, Len(box)),
                       faults |-> link.faults + cost, late |-> link.late \/ late]]
    IN  {Left(first, box[first], 0, FALSE)}
        \cup {Left(k, Nothing, 0, FALSE) : k \in 2..Len(box)}
        \cup IF link.faults = MaxFaults THEN {}
             ELSE {Left(k, Nothing, 1, FALSE) : k \in 1..first}
                  \cup {Left(k, Nothing, 1, TRUE) : k \in 0..(first - 1)}
                  \cup {[answer |-> Nothing, link |-> [link EXCEPT !.faults = @ + 1]]}

=============================================================================
