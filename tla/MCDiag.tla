------------------------------- MODULE MCDiag -------------------------------
(***************************************************************************)
(* The DIAG sessions on small modems.                                      *)
(***************************************************************************)
EXTENDS DiagSessions

File(size) == [kind |-> "file", size |-> size, hidden |-> FALSE]
Hidden(size) == [kind |-> "file", size |-> size, hidden |-> TRUE]
Directory == [kind |-> "dir", size |-> 0, hidden |-> FALSE]
Link == [kind |-> "link", size |-> 0, hidden |-> FALSE]

\* Two directories deep, with something beside what is removed.
Small == (<<"d">> :> Directory) @@ (<<"d", "a">> :> File(1)) @@ (<<"d", "s">> :> Directory)
         @@ (<<"d", "s", "b">> :> File(1)) @@ (<<"o">> :> File(1))
\* A file in each of the sections, one empty, one readdir does not show, a link.
Sections == (<<"rfc">> :> Directory) @@ (<<"rfc", "c">> :> File(2)) @@ (<<"rfc", "e">> :> File(0))
            @@ (<<"rfnv">> :> [Directory EXCEPT !.hidden = TRUE])
            @@ (<<"rfnv", "1">> :> Hidden(1)) @@ (<<"p">> :> File(1)) @@ (<<"l">> :> Link)

Nv == 0 :> "x" @@ 1 :> "u" @@ 2 :> "y"
Sim == 0 :> "none" @@ 1 :> "z" @@ 2 :> "y"
None == [i \in 0..2 |-> "none"]

Device(tree, locked, methods) ==
    [nv |-> Nv, sim |-> Sim, readonly |-> {1}, tree |-> tree, locked |-> locked,
     methods |-> methods, dirs |-> << >>, fds |-> << >>]
Target == [Device(<< >>, {}, {"std"}) EXCEPT !.nv = None, !.sim = None, !.readonly = {0}]

Plain == [cmd |-> "nvread", id |-> 0, sim |-> FALSE, value |-> "w", path |-> << >>,
          live |-> FALSE, probes |-> << >>, canCreate |-> TRUE,
          modem |-> Device(<< >>, {}, {"alt", "std"}), target |-> Target]

NvCommands == {[Plain EXCEPT !.cmd = c, !.id = i, !.sim = s] :
                c \in {"nvread", "nvwrite"}, i \in {0, 1}, s \in BOOLEAN}
Removals == {[Plain EXCEPT !.cmd = "rm", !.path = p, !.live = l, !.modem = Device(Small, k, m)] :
                p \in {<<"d">>, <<"o">>, <<"n">>}, l \in BOOLEAN,
                k \in {{}, {<<"d", "a">>}, {<<"d", "s", "b">>}},
                m \in {{"alt", "std"}, {"std"}, {}}}
Backups == {[Plain EXCEPT !.cmd = "xqcn", !.canCreate = c, !.modem = Device(Sections, {}, {"std"}),
                          !.probes = << <<"rfc", "c">>, <<"rfnv", "1">>, <<"n">> >>] :
                c \in BOOLEAN}
AllSetups == NvCommands \cup Removals \cup Backups

=============================================================================
