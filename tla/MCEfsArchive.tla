---------------------------- MODULE MCEfsArchive ----------------------------
(* Instances of EfsArchive for TLC. *)
EXTENDS EfsArchive, TLC

Dir == [kind |-> "dir", size |-> 0, hidden |-> FALSE]
Link == [Dir EXCEPT !.kind = "link"]
File(size) == [kind |-> "file", size |-> size, hidden |-> FALSE]
Hidden(size) == [File(size) EXCEPT !.hidden = TRUE]

\* Three levels; small files that fill their last block and that do not, one
\* that is empty, a large one, a link, and files readdir does not show.
Deep == (<<"a">> :> Dir) @@ (<<"a", "b">> :> Dir) @@ (<<"a", "b", "c">> :> Dir)
          @@ (<<"a", "b", "c", "x">> :> File(1)) @@ (<<"a", "e">> :> File(0))
          @@ (<<"l">> :> Link)
Wide == (<<"n">> :> Dir) @@ (<<"n", "s">> :> File(2)) @@ (<<"n", "h">> :> Hidden(1))
          @@ (<<"n", "u">> :> Hidden(1)) @@ (<<"y">> :> File(3)) @@ (<<"z">> :> File(5))
Probed == << <<"n", "s">>, <<"y">>, <<"n", "h">>, <<"n", "absent">>, <<"n">>, <<"z">> >>

\* A link and an empty directory.
Small == (<<"l">> :> Link) @@ (<<"d">> :> Dir) @@ (<<"e">> :> File(0))

Stale == (<<"a">> :> [kind |-> "dir", data |-> << >>])
           @@ (<<"l">> :> [kind |-> "link", data |-> << >>])
           @@ (<<"z">> :> [kind |-> "file", data |-> [k \in 1..6 |-> [type |-> "old"]]])

Plain == [tree |-> Deep, probes |-> << >>, capacity |-> 5, nv |-> 0,
          target |-> << >>, journal |-> 5, faults |-> {}]

MCSetups ==
    { [Plain EXCEPT !.probes = << <<"l">> >>, !.faults = {"errno", "put"}],
      [Plain EXCEPT !.target = Stale, !.faults = {"refuse", "disk", "cut"}],
      [Plain EXCEPT !.tree = Wide, !.probes = Probed, !.target = Stale,
                    !.faults = {"short", "put", "errno"}],
      [Plain EXCEPT !.tree = Wide, !.probes = Probed, !.capacity = 2,
                    !.faults = {"read", "disk"}],
      [Plain EXCEPT !.tree = Wide, !.nv = 4, !.faults = {"refuse", "sync", "short"}],
      [Plain EXCEPT !.tree = Wide, !.nv = 4, !.faults = {"put", "cut"}],
      [Plain EXCEPT !.tree = Small, !.probes = << <<"l">> >>, !.capacity = 1,
                    !.faults = {"refuse"}],
      [Plain EXCEPT !.tree = Small, !.target = <<"d">> :> [kind |-> "file", data |-> << >>],
                    !.faults = {"errno"}] }
=============================================================================
