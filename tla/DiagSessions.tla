---------------------------- MODULE DiagSessions ----------------------------
(***************************************************************************)
(* The DIAG sessions of the command line together: one command each, on a  *)
(* modem of its own.                                                       *)
(***************************************************************************)
EXTENDS Xqcn

\* A path of the file system, as the user of efsrm gives it.
IsPath(p) == p \in Seq(Range(p)) /\ Proper(p)

ASSUME RemovalSetups ==
    \A s \in Setups : s.cmd = "rm" => IsPath(s.path) /\ "tree" \in DOMAIN s.modem

\* A file system: above a file or a directory there is a directory.
IsTree(tree) ==
    \A p \in DOMAIN tree :
        /\ IsPath(p) /\ p # << >> /\ tree[p].size \in Nat
        /\ Len(p) > 1 => Front(p) \in DOMAIN tree /\ tree[Front(p)].kind = "dir"

ASSUME SessionSetups ==
    /\ \E last \in NvIds : last \in Nat /\ NvIds = 0..last
    /\ \A s \in Setups :
          /\ s.cmd \in {"nvread", "nvwrite", "rm", "xqcn"}
          /\ {"nv", "sim"} \subseteq DOMAIN s.modem
          /\ s.cmd = "nvwrite" => s.id \in DOMAIN s.modem.nv \cap DOMAIN s.modem.sim
          /\ {"tree", "fds"} \subseteq DOMAIN s.modem /\ IsTree(s.modem.tree)
          /\ "nv" \in DOMAIN s.target /\ DOMAIN s.target.nv = NvIds

vars == <<setup, link, method, pc, job, stack, exit, printed, xqcnVars>>

Init ==
    /\ setup \in Setups
    /\ link = Connected(setup.modem)
    /\ CommandInit /\ XqcnInit

Ended == pc = "end" /\ UNCHANGED vars
Next ==
    \/ CommandNext /\ UNCHANGED <<setup, xqcnVars>>
    \/ XqcnNext /\ UNCHANGED setup
    \/ Ended
Spec == Init /\ [][Next]_vars

-----------------------------------------------------------------------------
TypeOK ==
    /\ link.faults \in 0..MaxFaults /\ link.late \in BOOLEAN
    /\ link.late => link.faults > 0
    /\ method \in {"none", "alt", "std"}
    /\ exit \in {-1, 0, 1} /\ (pc = "end") = (exit # -1)

Under(p) == {q \in DOMAIN setup.modem.tree : IsPrefix(p, q)}

\* A command that ends with status 0 has done what it says: the item has the
\* value, the value printed is that of the item, nothing is left of the tree
\* (src/diag.c, diag_nv_write(), efs_rm_recursive()), whichever requests
\* failed in between.  It takes that no answer came after its timeout.
ExitIsTrue ==
    exit = 0 /\ ~link.late =>
        LET table == IF setup.sim THEN Modem.sim ELSE Modem.nv
        IN  CASE setup.cmd = "nvwrite" -> table[setup.id] = setup.value
              [] setup.cmd = "nvread" -> \A r \in printed : r.data = table[r.id]
              [] setup.cmd = "rm" -> Under(setup.path) \cap DOMAIN Modem.tree = {}
              [] OTHER -> TRUE

\* efsrm -r removes nothing that is not below its path, also when answers are
\* taken for those of other requests (src/diag.c, efs_rm_recursive()).
OnlyBelow ==
    setup.cmd = "rm" =>
        DOMAIN setup.modem.tree \ Under(setup.path) \subseteq DOMAIN Modem.tree

\* What the scan captured is in the modem under that number, each at most
\* once, and no more items count as restored than are in the modem, also when
\* answers come late (src/diag.c, diag_nv_scan(), diag_efs_restore_xqcn()).
RecordsAreTrue ==
    /\ \A i \in DOMAIN def : def[i].data = setup.modem.nv[def[i].id]
    /\ \A i \in DOMAIN sim1 : sim1[i].data = setup.modem.sim[sim1[i].id]
    /\ IsInjective(def) /\ IsInjective(sim1)
    /\ job = "xqcn_restore" =>
         nvWritten <= Cardinality({i \in DOMAIN doc.def : Modem.nv[doc.def[i].id] = doc.def[i].data})

\* A file that is restored holds what was read from the file of that path,
\* perhaps not all of it, wherever it is in the document (src/diag.c,
\* xqcn_restore_efs_section()).
OwnContents ==
    ~link.late =>
        \A p \in DOMAIN restored :
            /\ Range(restored[p]) \subseteq {p}
            /\ Len(restored[p]) <= setup.modem.tree[p].size

\* When nothing fails, the backup and the restore bring back every item of the
\* default subscription that the target takes and every file that is not
\* empty, and nothing else (src/diag.c, diag_efs_backup_xqcn()).
RoundTrip ==
    exit = 0 /\ setup.cmd = "xqcn" /\ link.faults = 0 =>
        /\ \A i \in NvIds \ (Excluded \cup setup.target.readonly) : Modem.nv[i] = setup.modem.nv[i]
        /\ LET whole == {p \in DOMAIN setup.modem.tree :
                            setup.modem.tree[p].kind = "file" /\ setup.modem.tree[p].size > 0}
           IN  /\ DOMAIN restored = whole
               /\ \A p \in whole : Len(restored[p]) = setup.modem.tree[p].size

\* What src/diag.c:898 says of the excluded items: they are not in a backup.
ExcludedStaysOut == \A i \in DOMAIN def : def[i].id \notin Excluded

=============================================================================
