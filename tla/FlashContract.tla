--------------------------- MODULE FlashContract ---------------------------
(***************************************************************************)
(* What a flash session promises its caller: the operations of the plan    *)
(* are carried out in the order of the plan, each at most once, and none   *)
(* after one that was not; the session may give up at any point; it        *)
(* reports success only when all of them were carried out.  Some of the    *)
(* operations form a pass that tries all of its own, whatever becomes of   *)
(* each: one that is not carried out stops what follows the pass.          *)
(***************************************************************************)
EXTENDS Naturals, Sequences

VARIABLES plan,       \* the operations of the plan, in order
          pass,       \* those that do not stop each other
          executed,   \* those carried out
          outcome     \* "none" until the caller is told "ok" or "failed"

Carried(k) == \E i \in 1..Len(executed) : executed[i] = plan[k]

Init == executed = << >> /\ outcome = "none"

CarryOut(k) ==
    /\ \A j \in k..Len(plan) : ~Carried(j)
    /\ \A j \in 1..(k - 1) : Carried(j) \/ (plan[j] \in pass /\ plan[k] \in pass)
    /\ executed' = Append(executed, plan[k])
    /\ UNCHANGED <<plan, pass, outcome>>

Execute == outcome = "none" /\ \E k \in 1..Len(plan) : CarryOut(k)

Succeed ==
    /\ outcome = "none" /\ \A k \in 1..Len(plan) : Carried(k)
    /\ outcome' = "ok" /\ UNCHANGED <<plan, pass, executed>>

GiveUp ==
    /\ outcome = "none"
    /\ outcome' = "failed" /\ UNCHANGED <<plan, pass, executed>>

\* The operation under way when the session gives up may still complete.
CompleteLate == outcome = "failed" /\ \E k \in 1..Len(plan) : CarryOut(k)

Next == Execute \/ Succeed \/ GiveUp \/ CompleteLate

Spec == Init /\ [][Next]_<<plan, pass, executed, outcome>>
=============================================================================
