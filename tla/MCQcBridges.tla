----------------------------- MODULE MCQcBridges -----------------------------
(* Instances of QcBridges for TLC.  The interfaces are alike. *)
EXTENDS QcBridges, TLC

Symmetry == Permutations(Ifaces)

AllFaults == {{"read", "write", "exclusive", "detach"}}
ReadsWork == AllFaults \cup {{"write", "exclusive"}}
WritesFail == {{"write"}}
=============================================================================
