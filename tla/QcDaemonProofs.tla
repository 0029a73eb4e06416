--------------------------- MODULE QcDaemonProofs ---------------------------
(***************************************************************************)
(* Starts, stops, clients and crashes, in any number and interleaving,     *)
(* leave one daemon at work, which the PID file names.                     *)
(***************************************************************************)
EXTENDS QcDaemon, FiniteSetTheorems, TLAPS

-----------------------------------------------------------------------------
(* The inductive invariant.                                                *)
StartSteps == {"pgrep", "term", "kill", "unlink", "links", "fork", "report"}
OtherSteps == {"read", "wait", "unpid", "stop_links", "ensure", "started", "appears", "fast", "poll"}

Process ==
    [command : {"", "start", "stop", "client"},
     pc : {"unused", "dead", "born"} \cup StartSteps \cup DaemonSteps \cup OtherSteps,
     listed : SUBSET Pids, other : Pids \cup {NONE},
     running : BOOLEAN, reported : BOOLEAN, code : Nat]

Typed ==
    /\ proc \in [Pids -> Process]
    /\ pidfile \in Pids \cup {NONE} /\ overtaken \subseteq {"start", "stop"}

\* A daemon, at work or not.
IsDaemon(x) == x.pc \in {"born"} \cup DaemonSteps
IsInstance(x) == x.command = "start"
Stopping == {"shutdown", "rm_pid", "rm_status"}

\* What a process p, in the state x, is by its place among the processes f.
Role(p, x, f) ==
    /\ IsInstance(x) <=> x.pc \in StartSteps \/ IsDaemon(x)
    /\ x.pc \in Stopping => ~x.running
    /\ p \notin x.listed
    /\ x.pc = "wait" => x.other \in Pids \ {p} /\ f[x.other].pc # "unused"
    /\ x.pc = "unpid" => x.other \in Pids /\ f[x.other].pc = "dead"
Roles == \A p \in Pids : Role(p, proc[p], proc)

\* A start that found none to end, or has ended all, and did not fork yet.
Cleared(x) == x.pc \in {"unlink", "links", "fork"} \/ (x.pc = "term" /\ x.listed = {})

\* x has still to look for p; or has it on its list.
WillEnd(x, p) == x.pc = "pgrep" \/ (x.pc = "term" /\ p \in x.listed)

\* x has still to look for the daemon p, will look again, or is its parent.
WillFind(x, p) ==
    \/ x.pc \in {"pgrep", "kill"}
    \/ x.pc = "term" /\ x.listed # {}
    \/ x.pc = "report" /\ x.other = p

Exclusive ==
    \A p, q \in Pids : p # q /\ IsInstance(proc[p]) /\ IsInstance(proc[q]) =>
        /\ Cleared(proc[p]) => WillEnd(proc[q], p)
        /\ IsDaemon(proc[p]) => WillFind(proc[q], p)

Named == \A p \in AtWork : pidfile = p

\* Who wrote the PID file is a daemon, or was one.
Begun(x) == x.pc \in DaemonSteps \cup {"dead"}
Written == pidfile # NONE => Begun(proc[pidfile])

IInv ==
    /\ Typed /\ Roles /\ Written
    /\ "start" \notin overtaken => Exclusive
    /\ overtaken = {} => Named

-----------------------------------------------------------------------------
(* How a step that changes one process, or ends some, keeps the invariant. *)

\* y is x, as far as the invariant asks, and may have been told to stop.
Same(x, y) ==
    /\ y.command = x.command /\ y.pc = x.pc /\ y.listed = x.listed /\ y.other = x.other
    /\ y.running => x.running
Over(y) == y.command = "" /\ y.pc = "dead" /\ y.listed = {}

\* What a step does to the processes that do not take it.
Left(x, y) == Same(x, y) \/ (x.pc # "unused" /\ Over(y))

\* y, after x, is no instance, or one that is not more and has not less to do.
Weaker(x, y) ==
    IsInstance(y) =>
        /\ IsInstance(x)
        /\ Cleared(y) => Cleared(x)
        /\ IsDaemon(y) => IsDaemon(x)
        /\ \A p \in Pids : (WillEnd(x, p) => WillEnd(y, p)) /\ (WillFind(x, p) => WillFind(y, p))

\* A process that does not begin to work, nor is no daemon any more.
Working(x) == x.pc \in DaemonSteps \ {"pid"} /\ x.running
Calm(x, y) == (Working(y) => Working(x)) /\ (Begun(x) => Begun(y))

\* A step that makes every process weaker keeps Exclusive.
LEMMA Weakening ==
    ASSUME Exclusive, \A q \in Pids : Weaker(proc[q], proc'[q])
    PROVE  Exclusive'
  BY DEF Exclusive, Weaker

\* A process that is left as it was is weaker, and does not begin to work.
LEMMA LeftWeaker ==
    ASSUME NEW x, NEW y, Left(x, y)
    PROVE  Weaker(x, y) /\ Calm(x, y) /\ (y.pc = "unused" => x.pc = "unused")
<1>1. Weaker(x, y)
    BY DEF Left, Same, Over, Weaker, IsInstance, Cleared, IsDaemon, WillEnd, WillFind
<1>2. Calm(x, y)
    BY DEF Left, Same, Over, Calm, Working, Begun, DaemonSteps
<1>3. y.pc = "unused" => x.pc = "unused"
    BY DEF Left, Same, Over
<1> QED  BY <1>1, <1>2, <1>3

\* The roles outlast a step of r that gives r a role and leaves the others.
LEMMA RolesKept ==
    ASSUME Typed, Roles, NEW r \in Pids,
           \A q \in Pids \ {r} : Left(proc[q], proc'[q]),
           proc'[r].pc # "unused",
           proc[r].pc = "dead" => proc'[r].pc = "dead",
           Role(r, proc'[r], proc')
    PROVE  Roles'
<1>1. \A q \in Pids : /\ proc[q].pc = "dead" => proc'[q].pc = "dead"
                      /\ proc[q].pc # "unused" => proc'[q].pc # "unused"
    BY DEF Left, Same, Over
<1> SUFFICES ASSUME NEW q \in Pids, q # r
             PROVE  Role(q, proc'[q], proc')
    BY DEF Roles
<1>2. Role(q, proc[q], proc)
    BY DEF Roles
<1>3. CASE Same(proc[q], proc'[q])
    BY <1>1, <1>2, <1>3 DEF Same, Role, IsInstance, IsDaemon, Stopping, DaemonSteps
<1>4. CASE Over(proc'[q])
    BY <1>4 DEF Over, Role, IsInstance, IsDaemon, Stopping, DaemonSteps, StartSteps
<1> QED  BY <1>3, <1>4 DEF Left

\* What the PID file says outlasts a step that lets nobody begin to work, and
\* keeps the file or, for Written, removes it.
LEMMA NamedKept ==
    ASSUME Named, pidfile' = pidfile, \A q \in Pids : Calm(proc[q], proc'[q])
    PROVE  Named'
  BY DEF Named, AtWork, Working, Calm
LEMMA WrittenKept ==
    ASSUME Typed, Written, pidfile' \in {pidfile, NONE}, \A q \in Pids : Calm(proc[q], proc'[q])
    PROVE  Written'
  BY DEF Typed, Written, Calm

\* What Ended() makes of a process.
LEMMA EndedIs ==
    ASSUME NEW p, proc[p] \in Process, NEW code \in Nat
    PROVE  Ended(p, code) \in Process /\ Over(Ended(p, code))
  BY DEF Process, Ended, NewProcess, NONE, Over

\* A signal leaves the processes it reaches, and those it does not.
LEMMA TermLeaves ==
    ASSUME Typed, NEW targets \in SUBSET Pids, \A q \in targets : Alive(q)
    PROVE  /\ AfterTerm(targets) \in [Pids -> Process]
           /\ \A q \in Pids : Left(proc[q], AfterTerm(targets)[q])
<1>1. \A q \in Pids : proc[q] \in Process
    BY DEF Typed
<1> DEFINE x(q) == AfterTerm(targets)[q]
<1>2. \A q \in Pids \ targets : x(q) = proc[q]
    BY DEF AfterTerm
<1>3. ASSUME NEW q \in targets, proc[q].pc \in DaemonSteps
      PROVE  x(q) \in Process /\ Same(proc[q], x(q)) /\ ~x(q).running
    <2>1. x(q) = [proc[q] EXCEPT !.running = FALSE] /\ proc[q] \in Process
        BY <1>1, <1>3 DEF AfterTerm
    <2> QED  BY <2>1 DEF Process, Same
<1>4. ASSUME NEW q \in targets, proc[q].pc \notin DaemonSteps
      PROVE  x(q) \in Process /\ Over(x(q)) /\ proc[q].pc # "unused"
    <2>1. x(q) = Ended(q, 1) /\ proc[q] \in Process
        BY <1>1, <1>4 DEF AfterTerm
    <2> QED  BY <2>1, EndedIs DEF Alive
<1>5. \A q \in Pids : x(q) \in Process /\ Left(proc[q], x(q))
    BY <1>1, <1>2, <1>3, <1>4 DEF Left, Same
<1>7. AfterTerm(targets) \in [Pids -> Process]
    BY <1>5 DEF AfterTerm
<1> QED  BY <1>5, <1>7

\* SIGKILL ends its targets.
LEMMA KillLeaves ==
    ASSUME Typed, NEW targets \in SUBSET Pids, \A q \in targets : Alive(q)
    PROVE  /\ AfterKill(targets) \in [Pids -> Process]
           /\ \A q \in Pids : Left(proc[q], AfterKill(targets)[q])
           /\ \A q \in targets : Over(AfterKill(targets)[q])
<1> DEFINE x(q) == AfterKill(targets)[q]
<1>1. \A q \in Pids : proc[q] \in Process
    BY DEF Typed
<1>2. \A q \in Pids \ targets : x(q) = proc[q]
    BY DEF AfterKill
<1>3. \A q \in targets : x(q) \in Process /\ Over(x(q)) /\ proc[q].pc # "unused"
    BY <1>1, EndedIs DEF AfterKill, Alive
<1>4. \A q \in Pids : x(q) \in Process /\ Left(proc[q], x(q))
    BY <1>1, <1>2, <1>3 DEF Left, Same
<1>5. AfterKill(targets) \in [Pids -> Process]
    BY <1>4 DEF AfterKill
<1> QED  BY <1>3, <1>4, <1>5

-----------------------------------------------------------------------------
(* Steps of one process.                                                   *)

\* The step of a process that stays in its role, does not begin to work, and
\* leaves the PID file alone.
LEMMA Moves ==
    ASSUME IInv, NEW r \in Pids, NEW u \in Process,
           proc' = [proc EXCEPT ![r] = u],
           pidfile' = pidfile, overtaken' = overtaken,
           u.pc # "unused", proc[r].pc # "dead", Role(r, u, proc'),
           Weaker(proc[r], u), Calm(proc[r], u)
    PROVE  IInv'
<1>1. /\ proc'[r] = u
      /\ \A q \in Pids \ {r} : proc'[q] = proc[q] /\ Left(proc[q], proc'[q])
    BY DEF IInv, Typed, Left, Same
<1>2. Typed'
    BY DEF IInv, Typed
<1>3. Roles'
    BY <1>1, RolesKept DEF IInv
<1>4. \A q \in Pids : Weaker(proc[q], proc'[q]) /\ Calm(proc[q], proc'[q])
    BY <1>1, LeftWeaker
<1>5. "start" \notin overtaken' => Exclusive'
    BY <1>4, Weakening DEF IInv
<1>6. (overtaken' = {} => Named') /\ Written'
    BY <1>4, NamedKept, WrittenKept DEF IInv
<1> QED  BY <1>2, <1>3, <1>5, <1>6 DEF IInv

\* The end of a process is such a step.
LEMMA Exits ==
    ASSUME IInv, NEW r \in Pids, NEW code \in Nat, proc[r].pc # "dead",
           proc' = Exit(r, code), pidfile' = pidfile, overtaken' = overtaken
    PROVE  IInv'
<1> DEFINE u == Ended(r, code)
<1>1. u \in Process /\ u.pc = "dead" /\ u.command = "" /\ u.listed = {}
    BY EndedIs DEF IInv, Typed, Over
<1>2. proc' = [proc EXCEPT ![r] = u]
    BY DEF Exit
<1> HIDE DEF u
<1>3. Role(r, u, proc')
    BY <1>1 DEF Role, IsInstance, IsDaemon, StartSteps, DaemonSteps, Stopping
<1>4. Weaker(proc[r], u) /\ Calm(proc[r], u)
    BY <1>1 DEF Weaker, IsInstance, Calm, Working, Begun, DaemonSteps
<1> QED  BY <1>1, <1>2, <1>3, <1>4, Moves

\* So is a step of a command that has no daemon, unless it goes for one.
LEMMA CommandGoes ==
    ASSUME IInv, NEW r \in Pids, NEW to \in OtherSteps \ {"wait", "unpid"},
           proc[r].pc \in OtherSteps,
           Go(r, to), pidfile' = pidfile, overtaken' = overtaken
    PROVE  IInv'
<1> DEFINE u == [proc[r] EXCEPT !.pc = to]
<1>1. proc[r] \in Process /\ Role(r, proc[r], proc)
    BY DEF IInv, Typed, Roles
<1>2. u \in Process /\ u.pc = to /\ u.command = proc[r].command /\ u.listed = proc[r].listed
    BY <1>1 DEF Process
<1>3. proc' = [proc EXCEPT ![r] = u]
    BY DEF Go
<1>4. ~IsInstance(u)
    BY <1>1, <1>2 DEF Role, IsInstance, IsDaemon, OtherSteps, StartSteps, DaemonSteps
<1> HIDE DEF u
<1>5. Role(r, u, proc')
    BY <1>1, <1>2, <1>4 DEF Role, IsDaemon, OtherSteps, StartSteps, DaemonSteps, Stopping
<1>6. Weaker(proc[r], u) /\ Calm(proc[r], u) /\ u.pc # "unused" /\ proc[r].pc # "dead"
    BY <1>2, <1>4 DEF Weaker, Calm, Working, Begun, OtherSteps, DaemonSteps
<1> QED  BY <1>2, <1>3, <1>5, <1>6, Moves

\* And a step of a daemon, which stops when it was told to, and whose first
\* steps are not work.
LEMMA DaemonGoes ==
    ASSUME IInv, NEW r \in Pids, NEW u \in Process,
           IsDaemon(proc[r]), IsDaemon(u),
           u.command = proc[r].command, u.listed = proc[r].listed, u.other = proc[r].other,
           u.pc \in Stopping => ~u.running,
           Calm(proc[r], u),
           proc' = [proc EXCEPT ![r] = u], pidfile' = pidfile, overtaken' = overtaken
    PROVE  IInv'
<1>1. proc[r] \in Process /\ Role(r, proc[r], proc)
    BY DEF IInv, Typed, Roles
<1>2. Role(r, u, proc')
    BY <1>1 DEF Role, IsInstance, IsDaemon, DaemonSteps
<1>3. Weaker(proc[r], u)
    BY DEF Weaker, IsInstance, IsDaemon, Cleared, WillEnd, WillFind, DaemonSteps
<1>4. u.pc # "unused" /\ proc[r].pc # "dead"
    BY DEF IsDaemon, DaemonSteps
<1> QED  BY <1>2, <1>3, <1>4, Moves

-----------------------------------------------------------------------------
(* The steps of a start.                                                   *)

\* Two facts of a process that is there.
LEMMA Facts ==
    ASSUME IInv, NEW p \in Pids
    PROVE  proc[p] \in Process /\ Role(p, proc[p], proc)
  BY DEF IInv, Typed, Roles

\* What pgrep lists are instances, and all of them but p.
LEMMA PgrepLists ==
    ASSUME IInv, NEW p \in Pids
    PROVE  /\ Pgrep(p) \in SUBSET Pids
           /\ p \notin Pgrep(p)
           /\ \A q \in Pids \ {p} : q \in Pgrep(p) <=> IsInstance(proc[q])
           /\ \A q \in Pgrep(p) : Alive(q)
<1>1. \A q \in Pids : IsInstance(proc[q]) => Alive(q)
    <2> SUFFICES ASSUME NEW q \in Pids, IsInstance(proc[q])
                 PROVE  Alive(q)
        OBVIOUS
    <2> QED  BY Facts DEF Role, IsDaemon, Alive, StartSteps, DaemonSteps
<1> QED  BY <1>1 DEF Pgrep, IsInstance

\* A start that lists the other instances has none of them behind it.
LEMMA StartListStep ==
    ASSUME IInv, NEW r \in Pids, StartList(r)
    PROVE  IInv'
<1> DEFINE u == [proc[r] EXCEPT !.listed = Pgrep(r), !.pc = "term"]
<1>1. proc[r] \in Process /\ Role(r, proc[r], proc) /\ proc[r].pc = "pgrep"
    BY Facts DEF StartList, At
<1>2. /\ u \in Process /\ u.pc = "term" /\ u.command = proc[r].command
      /\ u.listed = Pgrep(r)
    BY <1>1, PgrepLists DEF Process, StartSteps
<1>3. /\ proc' = [proc EXCEPT ![r] = u]
      /\ pidfile' = pidfile /\ overtaken' = overtaken
    BY DEF StartList, files
<1> HIDE DEF u
<1>4. /\ proc'[r] = u
      /\ \A q \in Pids \ {r} : proc'[q] = proc[q] /\ Left(proc[q], proc'[q])
    BY <1>3 DEF IInv, Typed, Left, Same
<1>5. Typed'
    BY <1>2, <1>3 DEF IInv, Typed
<1>6. Role(r, u, proc')
    BY <1>1, <1>2, PgrepLists DEF Role, IsInstance, IsDaemon, StartSteps, DaemonSteps, Stopping
<1>7. Roles'
    BY <1>1, <1>2, <1>4, <1>6, RolesKept DEF IInv
<1>8. ASSUME Exclusive
      PROVE  Exclusive'
    <2> SUFFICES ASSUME NEW p \in Pids, NEW q \in Pids, p # q,
                        IsInstance(proc'[p]), IsInstance(proc'[q])
                 PROVE  /\ Cleared(proc'[p]) => WillEnd(proc'[q], p)
                        /\ IsDaemon(proc'[p]) => WillFind(proc'[q], p)
        BY DEF Exclusive
    <2>1. CASE p = r
        <3>1. q \in Pgrep(r)
            BY <2>1, <1>4, PgrepLists
        <3> QED  BY <3>1, <2>1, <1>2, <1>4 DEF Cleared, IsDaemon, DaemonSteps
    <2>2. CASE q = r
        <3>1. p \in Pgrep(r)
            BY <2>2, <1>4, PgrepLists
        <3> QED  BY <3>1, <2>2, <1>2, <1>4 DEF WillEnd, WillFind
    <2>3. CASE p # r /\ q # r
        BY <2>3, <1>4, <1>8 DEF Exclusive
    <2> QED  BY <2>1, <2>2, <2>3
<1>9. \A q \in Pids : Calm(proc[q], proc'[q])
    BY <1>1, <1>2, <1>4 DEF Calm, Begun, Working, DaemonSteps
<1> QED  BY <1>3, <1>5, <1>7, <1>8, <1>9, NamedKept, WrittenKept DEF IInv

\* One that signals those on its list looks again if one of them was there;
\* if none was, another start has been faster.
LEMMA StartTermStep ==
    ASSUME IInv, NEW r \in Pids, StartTerm(r)
    PROVE  IInv'
<1> DEFINE hit == {q \in proc[r].listed : Alive(q)}
           to == IF hit = {} THEN "unlink" ELSE "kill"
           u == [AfterTerm(hit)[r] EXCEPT !.pc = to, !.listed = {}]
<1>1. /\ proc[r] \in Process /\ Role(r, proc[r], proc) /\ proc[r].pc = "term"
      /\ r \notin hit
    BY Facts DEF StartTerm, At, Role
<1>2. hit \in SUBSET Pids /\ \A q \in hit : Alive(q)
    BY DEF Alive
<1>3. /\ proc' = [AfterTerm(hit) EXCEPT ![r] = u]
      /\ pidfile' = pidfile
      /\ overtaken' = IF hit # {} \/ proc[r].listed = {} THEN overtaken
                      ELSE overtaken \cup {"start"}
    BY DEF StartTerm, AfterTerm
<1>4. AfterTerm(hit)[r] = proc[r]
    BY <1>1 DEF AfterTerm
<1>5. /\ u \in Process /\ u.pc = to /\ u.listed = {} /\ u.command = proc[r].command
    BY <1>1, <1>4 DEF Process, StartSteps
<1>6. \A q \in hit : proc[q].pc \notin DaemonSteps => Over(AfterTerm(hit)[q])
    BY <1>2 DEF AfterTerm, Ended, NewProcess, Over
<1> HIDE DEF u, hit
<1>7. /\ AfterTerm(hit) \in [Pids -> Process]
      /\ \A q \in Pids : Left(proc[q], AfterTerm(hit)[q])
    BY <1>2, TermLeaves DEF IInv
<1>8. /\ proc'[r] = u
      /\ \A q \in Pids \ {r} : proc'[q] = AfterTerm(hit)[q] /\ Left(proc[q], proc'[q])
    BY <1>3, <1>7
<1>9. Typed'
    BY <1>3, <1>5, <1>7 DEF IInv, Typed
<1>10. Role(r, u, proc')
    BY <1>1, <1>5 DEF Role, IsInstance, IsDaemon, StartSteps, DaemonSteps, Stopping
<1>11. Roles'
    BY <1>1, <1>5, <1>8, <1>10, RolesKept DEF IInv
<1>12. ASSUME Exclusive, "start" \notin overtaken'
       PROVE  Exclusive'
    <2>1. CASE hit = {}
        <3>1. proc[r].listed = {} /\ u.pc = "unlink"
            BY <2>1, <1>3, <1>5, <1>12
        <3>2. Weaker(proc[r], u)
            BY <3>1, <1>1, <1>5 DEF Weaker, IsInstance, Cleared, IsDaemon, DaemonSteps, WillEnd, WillFind
        <3>3. \A q \in Pids : Weaker(proc[q], proc'[q])
            BY <3>2, <1>8, LeftWeaker
        <3> QED  BY <3>3, <1>12, Weakening
    <2>2. CASE hit # {}
        <3>1. u.pc = "kill"
            BY <2>2, <1>5
        <3>2. ASSUME NEW p \in Pids, p # r, IsInstance(proc'[p]), IsInstance(proc[r])
              PROVE  ~Cleared(proc'[p])
            <4> SUFFICES ASSUME Cleared(proc'[p])
                         PROVE  FALSE
                OBVIOUS
            <4>1. Same(proc[p], proc'[p])
                BY <3>2, <1>8 DEF Left, Over, IsInstance
            <4>2. IsInstance(proc[p]) /\ Cleared(proc[p])
                BY <4>1, <3>2 DEF Same, IsInstance, Cleared
            <4>3. p \in proc[r].listed
                BY <4>2, <3>2, <1>1, <1>12 DEF Exclusive, WillEnd
            <4>4. Alive(p) /\ proc[p].pc \notin DaemonSteps
                BY <4>2 DEF Cleared, Alive, DaemonSteps
            <4>5. Over(proc'[p])
                BY <4>3, <4>4, <3>2, <1>6, <1>8 DEF hit
            <4> QED  BY <4>5, <3>2 DEF Over, IsInstance
        <3>3. ASSUME NEW p \in Pids, NEW q \in Pids, p # q,
                     IsInstance(proc'[p]), IsInstance(proc'[q])
              PROVE  /\ Cleared(proc'[p]) => WillEnd(proc'[q], p)
                     /\ IsDaemon(proc'[p]) => WillFind(proc'[q], p)
            <4>1. /\ Weaker(proc[p], proc'[p]) \/ p = r
                  /\ Weaker(proc[q], proc'[q]) \/ q = r
                BY <1>8, LeftWeaker
            <4>2. CASE p = r
                BY <4>2, <3>1, <1>8 DEF Cleared, IsDaemon, DaemonSteps
            <4>3. CASE q = r
                <5>1. IsInstance(proc[r])
                    BY <4>3, <3>3, <1>5, <1>8 DEF IsInstance
                <5> QED  BY <5>1, <4>3, <3>1, <3>2, <3>3, <1>8 DEF WillFind
            <4>4. CASE p # r /\ q # r
                BY <4>1, <4>4, <3>3, <1>12 DEF Exclusive, Weaker
            <4> QED  BY <4>2, <4>3, <4>4
        <3> QED  BY <3>3 DEF Exclusive
    <2> QED  BY <2>1, <2>2
<1>13. \A q \in Pids : Calm(proc[q], proc'[q])
    BY <1>1, <1>5, <1>8, LeftWeaker DEF Calm, Begun, Working, DaemonSteps
<1>14. ("start" \in overtaken => "start" \in overtaken') /\ (overtaken' = {} => overtaken = {})
    BY <1>3
<1>15. "start" \notin overtaken' => Exclusive'
    BY <1>12, <1>14 DEF IInv
<1>16. (overtaken' = {} => Named') /\ Written'
    BY <1>3, <1>13, <1>14, NamedKept, WrittenKept DEF IInv
<1> QED  BY <1>9, <1>11, <1>15, <1>16 DEF IInv

\* One that kills all the others is the only instance left.
LEMMA StartKillStep ==
    ASSUME IInv, NEW r \in Pids, StartKill(r)
    PROVE  IInv'
<1> DEFINE u == [proc[r] EXCEPT !.pc = "unlink"]
           others == Pgrep(r)
<1>1. proc[r] \in Process /\ Role(r, proc[r], proc) /\ proc[r].pc = "kill"
    BY Facts DEF StartKill, At
<1>2. /\ others \in SUBSET Pids /\ r \notin others
      /\ \A q \in Pids \ {r} : q \in others <=> IsInstance(proc[q])
      /\ \A q \in others : Alive(q)
    BY PgrepLists
<1>3. /\ proc' = [AfterKill(others) EXCEPT ![r] = u]
      /\ pidfile' = pidfile /\ overtaken' = overtaken
    BY <1>2 DEF StartKill, AfterKill
<1>4. /\ u \in Process /\ u.pc = "unlink" /\ u.listed = proc[r].listed /\ u.command = proc[r].command
    BY <1>1 DEF Process, StartSteps
<1> HIDE DEF u, others
<1>5. /\ AfterKill(others) \in [Pids -> Process]
      /\ \A q \in Pids : Left(proc[q], AfterKill(others)[q])
      /\ \A q \in others : Over(AfterKill(others)[q])
    BY <1>2, KillLeaves DEF IInv
<1>6. /\ proc'[r] = u
      /\ \A q \in Pids \ {r} : proc'[q] = AfterKill(others)[q] /\ Left(proc[q], proc'[q])
    BY <1>3, <1>5
<1>7. Typed'
    BY <1>3, <1>4, <1>5 DEF IInv, Typed
<1>8. Role(r, u, proc')
    BY <1>1, <1>4 DEF Role, IsInstance, IsDaemon, StartSteps, DaemonSteps, Stopping
<1>9. Roles'
    BY <1>1, <1>4, <1>6, <1>8, RolesKept DEF IInv
<1>10. \A q \in Pids \ {r} : ~IsInstance(proc'[q])
    <2> SUFFICES ASSUME NEW q \in Pids \ {r}, IsInstance(proc'[q])
                 PROVE  FALSE
        OBVIOUS
    <2>1. IsInstance(proc[q])
        BY <1>6, LeftWeaker DEF Weaker
    <2>2. Over(proc'[q])
        BY <2>1, <1>2, <1>5, <1>6
    <2> QED  BY <2>2 DEF Over, IsInstance
<1>11. Exclusive'
    BY <1>10 DEF Exclusive
<1>12. \A q \in Pids : Calm(proc[q], proc'[q])
    BY <1>1, <1>4, <1>6, LeftWeaker DEF Calm, Begun, Working, DaemonSteps
<1> QED  BY <1>3, <1>7, <1>9, <1>11, <1>12, NamedKept, WrittenKept DEF IInv

\* Nobody works while a start removes the PID file.
LEMMA StartUnlinkStep ==
    ASSUME IInv, NEW r \in Pids, StartUnlink(r)
    PROVE  IInv'
<1> DEFINE u == [proc[r] EXCEPT !.pc = "links"]
<1>1. proc[r] \in Process /\ Role(r, proc[r], proc) /\ proc[r].pc = "unlink"
    BY Facts DEF StartUnlink, At
<1>2. proc' = [proc EXCEPT ![r] = u] /\ pidfile' = NONE /\ overtaken' = overtaken
    BY DEF StartUnlink, Go
<1>3. /\ u \in Process /\ u.pc = "links" /\ u.listed = proc[r].listed /\ u.command = proc[r].command
    BY <1>1 DEF Process, StartSteps
<1> HIDE DEF u
<1>4. /\ proc'[r] = u
      /\ \A q \in Pids \ {r} : proc'[q] = proc[q] /\ Left(proc[q], proc'[q])
    BY <1>2 DEF IInv, Typed, Left, Same
<1>5. Typed'
    BY <1>2, <1>3 DEF IInv, Typed, NONE
<1>6. Role(r, u, proc')
    BY <1>1, <1>3 DEF Role, IsInstance, IsDaemon, StartSteps, DaemonSteps, Stopping
<1>7. Roles'
    BY <1>1, <1>3, <1>4, <1>6, RolesKept DEF IInv
<1>8. Weaker(proc[r], u)
    BY <1>1, <1>3 DEF Weaker, IsInstance, Cleared, IsDaemon, DaemonSteps, WillEnd, WillFind
<1>9. "start" \notin overtaken' => Exclusive'
    BY <1>2, <1>4, <1>8, LeftWeaker, Weakening DEF IInv
<1>10. ASSUME Exclusive, NEW q \in Pids, Working(proc'[q])
       PROVE  FALSE
    <2>1. q # r /\ proc'[q] = proc[q]
        BY <1>10, <1>3, <1>4 DEF Working, DaemonSteps
    <2>2. IsInstance(proc[q]) /\ IsInstance(proc[r]) /\ Cleared(proc[r])
        BY <2>1, <1>1, <1>10, Facts DEF Working, Role, IsDaemon, Cleared, StartSteps, DaemonSteps
    <2>3. WillEnd(proc[q], r)
        BY <2>1, <2>2, <1>10 DEF Exclusive
    <2> QED  BY <2>1, <2>3, <1>10 DEF Working, WillEnd, DaemonSteps
<1>11. overtaken' = {} => Named'
    BY <1>2, <1>10 DEF IInv, Named, AtWork, Working
<1> QED  BY <1>2, <1>5, <1>7, <1>9, <1>11 DEF IInv, Written

\* A start with nothing before it goes on.
LEMMA StartLinksStep ==
    ASSUME IInv, NEW r \in Pids, StartLinks(r)
    PROVE  IInv'
<1> DEFINE u == [proc[r] EXCEPT !.pc = "fork"]
<1>1. proc[r] \in Process /\ Role(r, proc[r], proc) /\ proc[r].pc = "links"
    BY Facts DEF StartLinks, At
<1>2. proc' = [proc EXCEPT ![r] = u] /\ pidfile' = pidfile /\ overtaken' = overtaken
    BY DEF StartLinks, Go
<1>3. /\ u \in Process /\ u.pc = "fork" /\ u.listed = proc[r].listed /\ u.command = proc[r].command
    BY <1>1 DEF Process, StartSteps
<1> HIDE DEF u
<1>4. Role(r, u, proc')
    BY <1>1, <1>3 DEF Role, IsInstance, IsDaemon, StartSteps, DaemonSteps, Stopping
<1>5. Weaker(proc[r], u)
    BY <1>1, <1>3 DEF Weaker, IsInstance, Cleared, IsDaemon, DaemonSteps, WillEnd, WillFind
<1> QED  BY <1>1, <1>2, <1>3, <1>4, <1>5, Moves DEF Calm, Working, Begun, DaemonSteps

\* The parent ends with the report.
LEMMA StartReportStep ==
    ASSUME IInv, NEW r \in Pids, StartReport(r)
    PROVE  IInv'
<1>1. proc[r].pc # "dead" /\ pidfile' = pidfile /\ overtaken' = overtaken
    BY DEF StartReport, At, files
<1>2. proc' = Exit(r, 0) \/ proc' = Exit(r, 1)
    BY DEF StartReport
<1> QED  BY <1>1, <1>2, Exits

-----------------------------------------------------------------------------
(* New processes.                                                          *)

\* A process that is new is in nobody's place.
LEMMA NewIs ==
    ASSUME NEW command \in {"", "start", "stop", "client"},
           NEW at \in {"born"} \cup StartSteps \cup OtherSteps
    PROVE  LET x == NewProcess(command, at)
           IN  /\ x \in Process /\ x.command = command /\ x.pc = at
               /\ x.listed = {} /\ x.running = TRUE
  BY DEF NewProcess, Process, NONE

\* The roles outlast the step of r that lets a process begin.
LEMMA RolesBegin ==
    ASSUME IInv, NEW r \in Pids, NEW child \in Pids, NEW x, NEW u,
           r # child,
           proc' = [proc EXCEPT ![child] = x, ![r] = u],
           proc[child].pc = "unused", proc[r].pc \notin {"dead", "unused"},
           x.pc # "unused", u.pc # "unused",
           Role(r, u, proc'), Role(child, x, proc')
    PROVE  Roles'
<1>1. /\ proc'[r] = u /\ proc'[child] = x
      /\ \A q \in Pids \ {r, child} : proc'[q] = proc[q]
    BY DEF IInv, Typed
<1>2. \A q \in Pids : /\ proc[q].pc = "dead" => proc'[q].pc = "dead"
                      /\ proc[q].pc # "unused" => proc'[q].pc # "unused"
    BY <1>1
<1>3. ASSUME NEW q \in Pids \ {r, child}
      PROVE  Role(q, proc'[q], proc')
    <2>1. Role(q, proc[q], proc) /\ proc'[q] = proc[q]
        BY <1>1, <1>3, Facts
    <2> QED  BY <2>1, <1>2 DEF Role
<1> QED  BY <1>1, <1>3 DEF Roles

\* A start forks a daemon when no other instance is behind the search: all
\* the others will find it.
LEMMA StartForkStep ==
    ASSUME IInv, NEW r \in Pids, StartFork(r)
    PROVE  IInv'
<1>1. PICK child \in Pids :
        /\ IsNext(child)
        /\ proc' = [proc EXCEPT ![child] = NewProcess(proc[r].command, "born"),
                                ![r].pc = "report", ![r].other = child]
    BY DEF StartFork
<1> DEFINE x == NewProcess(proc[r].command, "born")
           u == [proc[r] EXCEPT !.pc = "report", !.other = child]
<1>2. proc[r] \in Process /\ Role(r, proc[r], proc) /\ proc[r].pc = "fork"
    BY Facts DEF StartFork, At
<1>3. proc[child].pc = "unused" /\ child # r
    BY <1>1, <1>2 DEF IsNext, Unused
<1>4. /\ proc' = [proc EXCEPT ![child] = x, ![r] = u]
      /\ pidfile' = pidfile /\ overtaken' = overtaken
    BY <1>1, <1>3 DEF StartFork, files
<1>5. IsInstance(proc[r])
    BY <1>2 DEF Role, StartSteps
<1>6. /\ x \in Process /\ x.command = "start" /\ x.pc = "born"
      /\ x.listed = {}
    <2>1. x = NewProcess("start", "born")
        BY <1>5 DEF IsInstance
    <2> HIDE DEF x
    <2> QED  BY <2>1, NewIs
<1>7. /\ u \in Process /\ u.pc = "report" /\ u.listed = proc[r].listed
      /\ u.other = child /\ u.command = "start"
    BY <1>2, <1>5 DEF Process, StartSteps, IsInstance
<1> HIDE DEF x, u
<1>8. /\ proc'[r] = u /\ proc'[child] = x
      /\ \A q \in Pids \ {r, child} : proc'[q] = proc[q]
    BY <1>3, <1>4 DEF IInv, Typed
<1>9. Typed'
    BY <1>4, <1>6, <1>7 DEF IInv, Typed
<1>10. Role(r, u, proc')
    BY <1>2, <1>7 DEF Role, IsInstance, IsDaemon, StartSteps, DaemonSteps, Stopping
<1>11. Role(child, x, proc')
    BY <1>6 DEF Role, IsInstance, IsDaemon, StartSteps, DaemonSteps, Stopping
<1>12. Roles'
    BY <1>2, <1>3, <1>4, <1>6, <1>7, <1>10, <1>11, RolesBegin
<1>13. ASSUME Exclusive
       PROVE  Exclusive'
    <2>1. Cleared(proc[r])
        BY <1>2 DEF Cleared
    <2>2. \A q \in Pids \ {r, child} : IsInstance(proc'[q]) => WillEnd(proc[q], r)
        BY <1>5, <1>8, <1>13, <2>1 DEF Exclusive
    <2>3. ASSUME NEW q \in Pids \ {r, child}, IsInstance(proc'[q])
          PROVE  /\ ~Cleared(proc'[q]) /\ ~IsDaemon(proc'[q])
                 /\ WillFind(proc'[q], child)
        BY <1>8, <2>2, <2>3 DEF WillEnd, WillFind, Cleared, IsDaemon, DaemonSteps
    <2>4. /\ ~Cleared(u) /\ ~IsDaemon(u) /\ WillFind(u, child)
          /\ ~Cleared(x)
        BY <1>6, <1>7 DEF Cleared, IsDaemon, WillFind, DaemonSteps
    <2> SUFFICES ASSUME NEW p \in Pids, NEW q \in Pids, p # q,
                        IsInstance(proc'[p]), IsInstance(proc'[q])
                 PROVE  /\ Cleared(proc'[p]) => WillEnd(proc'[q], p)
                        /\ IsDaemon(proc'[p]) => WillFind(proc'[q], p)
        BY DEF Exclusive
    <2> QED  BY <1>8, <2>3, <2>4
<1>14. \A q \in Pids : Calm(proc[q], proc'[q])
    BY <1>2, <1>3, <1>6, <1>7, <1>8 DEF Calm, Begun, Working, DaemonSteps
<1> QED  BY <1>4, <1>9, <1>12, <1>13, <1>14, NamedKept, WrittenKept DEF IInv

\* A command that is new keeps all that was there in its place: it looks for
\* the other instances first.
LEMMA Begins ==
    ASSUME Exclusive, \A q \in Pids : \/ Weaker(proc[q], proc'[q])
                                     \/ proc'[q].pc = "pgrep"
    PROVE  Exclusive'
<1> SUFFICES ASSUME NEW p \in Pids, NEW q \in Pids, p # q,
                    IsInstance(proc'[p]), IsInstance(proc'[q])
             PROVE  /\ Cleared(proc'[p]) => WillEnd(proc'[q], p)
                    /\ IsDaemon(proc'[p]) => WillFind(proc'[q], p)
    BY DEF Exclusive
<1>1. CASE proc'[p].pc = "pgrep"
    BY <1>1 DEF Cleared, IsDaemon, DaemonSteps
<1>2. CASE proc'[q].pc = "pgrep"
    BY <1>2 DEF WillEnd, WillFind
<1>3. CASE Weaker(proc[p], proc'[p]) /\ Weaker(proc[q], proc'[q])
    BY <1>3 DEF Exclusive, Weaker
<1> QED  BY <1>1, <1>2, <1>3

\* A client forks a start if it finds no daemon.
LEMMA ClientEnsureStep ==
    ASSUME IInv, NEW r \in Pids, ClientEnsure(r)
    PROVE  IInv'
<1>1. /\ proc[r] \in Process /\ Role(r, proc[r], proc) /\ proc[r].pc = "ensure"
      /\ pidfile' = pidfile /\ overtaken' = overtaken
    BY Facts DEF ClientEnsure, At, files
<1>2. CASE IsRunning
    BY <1>1, <1>2, CommandGoes DEF ClientEnsure, OtherSteps
<1>3. CASE ~IsRunning
    <2>1. PICK child \in Pids :
            /\ IsNext(child)
            /\ proc' = [proc EXCEPT ![child] = NewProcess("start", "pgrep"),
                                    ![r].pc = "started", ![r].other = child]
        BY <1>3 DEF ClientEnsure
    <2> DEFINE x == NewProcess("start", "pgrep")
               u == [proc[r] EXCEPT !.pc = "started", !.other = child]
    <2>2. proc[child].pc = "unused" /\ child # r
        BY <1>1, <2>1 DEF IsNext, Unused
    <2>3. proc' = [proc EXCEPT ![child] = x, ![r] = u]
        BY <2>1, <2>2
    <2>4. /\ x \in Process /\ x.command = "start" /\ x.pc = "pgrep" /\ x.listed = {}
        BY NewIs DEF StartSteps
    <2>5. /\ u \in Process /\ u.pc = "started" /\ u.listed = proc[r].listed
          /\ u.command = proc[r].command
        BY <1>1 DEF Process, OtherSteps
    <2> HIDE DEF x, u
    <2>6. /\ proc'[r] = u /\ proc'[child] = x
          /\ \A q \in Pids \ {r, child} : proc'[q] = proc[q]
        BY <2>2, <2>3 DEF IInv, Typed
    <2>7. Typed'
        BY <1>1, <2>3, <2>4, <2>5 DEF IInv, Typed
    <2>8. ~IsInstance(u)
        BY <1>1, <2>5 DEF Role, IsInstance, IsDaemon, StartSteps, DaemonSteps
    <2>9. Role(r, u, proc')
        BY <1>1, <2>5, <2>8 DEF Role, IsDaemon, StartSteps, DaemonSteps, Stopping
    <2>10. Role(child, x, proc')
        BY <2>4 DEF Role, IsInstance, IsDaemon, StartSteps, DaemonSteps, Stopping
    <2>11. Roles'
        BY <1>1, <2>2, <2>3, <2>4, <2>5, <2>9, <2>10, RolesBegin
    <2>12. \A q \in Pids \ {r, child} : Left(proc[q], proc'[q])
        BY <2>6 DEF Left, Same
    <2>13. \A q \in Pids : Weaker(proc[q], proc'[q]) \/ proc'[q].pc = "pgrep"
        BY <2>4, <2>6, <2>8, <2>12, LeftWeaker DEF Weaker
    <2>14. \A q \in Pids : Calm(proc[q], proc'[q])
        BY <1>1, <2>2, <2>4, <2>5, <2>6 DEF Calm, Working, Begun, DaemonSteps
    <2> QED  BY <1>1, <2>7, <2>11, <2>13, <2>14, Begins, NamedKept, WrittenKept DEF IInv
<1> QED  BY <1>2, <1>3

\* The user runs a command; there is no "restart" here.
LEMMA RunStep ==
    ASSUME IInv, "restart" \notin Commands, NEW command \in Commands, Run(command)
    PROVE  IInv'
<1>1. command \in {"start", "stop", "client"}
    BY DaemonConstants DEF DaemonConstants
<1>2. PICK r \in Pids :
        IsNext(r) /\ proc' = [proc EXCEPT ![r] = NewProcess(command, FirstStep(command))]
    BY DEF Run
<1> DEFINE x == NewProcess(command, FirstStep(command))
<1>3. FirstStep(command) = IF command = "start" THEN "pgrep" ELSE IF command = "stop" THEN "read" ELSE "ensure"
    BY <1>1 DEF FirstStep
<1>4. /\ x \in Process /\ x.command = command /\ x.pc = FirstStep(command) /\ x.listed = {}
    <2>1. FirstStep(command) \in StartSteps \cup OtherSteps
        BY <1>1, <1>3 DEF StartSteps, OtherSteps
    <2>2. PICK at \in StartSteps \cup OtherSteps : at = FirstStep(command)
        BY <2>1
    <2>3. /\ NewProcess(command, at) \in Process
          /\ NewProcess(command, at).command = command /\ NewProcess(command, at).pc = at
          /\ NewProcess(command, at).listed = {}
        BY <1>1 DEF NewProcess, Process, NONE
    <2> QED  BY <2>2, <2>3
<1>5. proc[r].pc = "unused" /\ pidfile' = pidfile /\ overtaken' = overtaken
    BY <1>2 DEF IsNext, Unused, Run, files
<1>6. proc' = [proc EXCEPT ![r] = x]
    BY <1>2
<1> HIDE DEF x
<1>7. /\ proc'[r] = x
      /\ \A q \in Pids \ {r} : proc'[q] = proc[q] /\ Left(proc[q], proc'[q])
    BY <1>6 DEF IInv, Typed, Left, Same
<1>8. Typed'
    BY <1>4, <1>5, <1>6 DEF IInv, Typed
<1>9. Role(r, x, proc')
    BY <1>1, <1>3, <1>4 DEF Role, IsInstance, IsDaemon, StartSteps, DaemonSteps, Stopping
<1>10. Roles'
    BY <1>1, <1>3, <1>4, <1>5, <1>7, <1>9, RolesKept DEF IInv
<1>11. \A q \in Pids : Weaker(proc[q], proc'[q]) \/ proc'[q].pc = "pgrep"
    BY <1>1, <1>3, <1>4, <1>7, LeftWeaker DEF Weaker, IsInstance
<1>12. \A q \in Pids : Calm(proc[q], proc'[q])
    BY <1>1, <1>3, <1>4, <1>5, <1>7 DEF Calm, Begun, Working, DaemonSteps
<1> QED  BY <1>5, <1>8, <1>10, <1>11, <1>12, Begins, NamedKept, WrittenKept DEF IInv

-----------------------------------------------------------------------------
(* The steps of a daemon.                                                  *)

\* While two daemons exclude each other, nobody works beside a daemon.
LEMMA AloneAtWork ==
    ASSUME IInv, Exclusive, NEW p \in Pids, NEW q \in Pids, p # q,
           IsDaemon(proc[p]), Working(proc[q])
    PROVE  FALSE
<1>1. IsDaemon(proc[q])
    BY DEF Working, IsDaemon
<1>2. IsInstance(proc[p]) /\ IsInstance(proc[q])
    BY <1>1, Facts DEF Role
<1>3. WillFind(proc[q], p)
    BY <1>2 DEF Exclusive
<1> QED  BY <1>3, <1>1 DEF WillFind, IsDaemon, DaemonSteps

\* Most steps of a daemon leave the PID file alone.
LEMMA DaemonStep ==
    ASSUME IInv, NEW r \in Pids,
           \/ DaemonHandlers(r) \/ DaemonSetup(r) \/ DaemonProbe(r)
           \/ DaemonMonitor(r) \/ DaemonRescan(r) \/ DaemonShutdown(r)
    PROVE  IInv'
<1>1. proc[r] \in Process /\ Role(r, proc[r], proc)
    BY Facts
<1>2. pidfile' = pidfile /\ overtaken' = overtaken
    BY DEF DaemonHandlers, DaemonSetup, DaemonProbe, DaemonMonitor, DaemonRescan, DaemonShutdown, files
<1>3. CASE proc' = proc
    BY <1>2, <1>3 DEF IInv, Typed, Roles, Exclusive, Named, AtWork, Written
<1>4. ASSUME NEW to \in DaemonSteps, IsDaemon(proc[r]), Go(r, to),
             to \in Stopping => ~proc[r].running,
             to = "pid" \/ proc[r].pc \in DaemonSteps \ {"pid"}
      PROVE  IInv'
    <2> DEFINE u == [proc[r] EXCEPT !.pc = to]
    <2>1. /\ u \in Process /\ u.pc = to /\ u.command = proc[r].command
          /\ u.listed = proc[r].listed /\ u.other = proc[r].other /\ u.running = proc[r].running
        BY <1>1 DEF Process
    <2>2. proc' = [proc EXCEPT ![r] = u]
        BY <1>4 DEF Go
    <2> HIDE DEF u
    <2>3. IsDaemon(u) /\ Calm(proc[r], u)
        BY <1>4, <2>1 DEF IsDaemon, Calm, Working, Begun
    <2> QED  BY <1>2, <1>4, <2>1, <2>2, <2>3, DaemonGoes
<1>5. CASE DaemonHandlers(r)
    BY <1>4, <1>5 DEF DaemonHandlers, At, IsDaemon, DaemonSteps, Stopping
<1>6. CASE DaemonSetup(r)
    <2> DEFINE to == IF Possible THEN "probe" ELSE "monitor"
               u == [proc[r] EXCEPT !.reported = TRUE, !.pc = to]
    <2>1. /\ u \in Process /\ u.pc = to /\ u.command = proc[r].command
          /\ u.listed = proc[r].listed /\ u.other = proc[r].other /\ u.running = proc[r].running
        BY <1>1 DEF Process, DaemonSteps
    <2>2. proc' = [proc EXCEPT ![r] = u] /\ proc[r].pc = "setup"
        BY <1>6 DEF DaemonSetup, At
    <2> HIDE DEF u
    <2>3. IsDaemon(proc[r]) /\ IsDaemon(u) /\ Calm(proc[r], u) /\ u.pc \notin Stopping
        BY <2>1, <2>2 DEF IsDaemon, Calm, Working, Begun, DaemonSteps, Stopping
    <2> QED  BY <1>2, <2>1, <2>2, <2>3, DaemonGoes
<1>7. CASE DaemonProbe(r)
    BY <1>4, <1>7 DEF DaemonProbe, At, IsDaemon, DaemonSteps, Stopping
<1>8. CASE DaemonMonitor(r)
    <2>1. proc[r].pc = "monitor" /\ IsDaemon(proc[r]) /\ proc[r].pc \in DaemonSteps \ {"pid"}
        BY <1>8 DEF DaemonMonitor, At, IsDaemon, DaemonSteps
    <2>2. CASE ~proc[r].running
        <3>1. Go(r, "shutdown")
            BY <1>8, <2>2 DEF DaemonMonitor
        <3> QED  BY <1>4, <2>1, <2>2, <3>1 DEF DaemonSteps
    <2>3. CASE proc[r].running
        <3>1. proc' = proc \/ Go(r, "rescan")
            BY <1>8, <2>3 DEF DaemonMonitor
        <3> QED  BY <1>3, <1>4, <2>1, <3>1 DEF DaemonSteps, Stopping
    <2> QED  BY <2>2, <2>3
<1>9. CASE DaemonRescan(r)
    <2>1. proc[r].pc = "rescan" /\ IsDaemon(proc[r]) /\ proc[r].pc \in DaemonSteps \ {"pid"}
        BY <1>9 DEF DaemonRescan, At, IsDaemon, DaemonSteps
    <2>2. proc' = proc \/ Go(r, "monitor") \/ Go(r, "probe")
        BY <1>9 DEF DaemonRescan
    <2> QED  BY <1>3, <1>4, <2>1, <2>2 DEF DaemonSteps, Stopping
<1>10. CASE DaemonShutdown(r)
    <2>1. /\ proc[r].pc = "shutdown" /\ IsDaemon(proc[r]) /\ proc[r].pc \in DaemonSteps \ {"pid"}
          /\ ~proc[r].running
        BY <1>1, <1>10 DEF DaemonShutdown, At, IsDaemon, DaemonSteps, Role, Stopping
    <2> QED  BY <1>4, <1>10, <2>1 DEF DaemonShutdown, DaemonSteps
<1> QED  BY <1>5, <1>6, <1>7, <1>8, <1>9, <1>10

\* A daemon that begins to work writes its id; it is alone.
LEMMA DaemonPidStep ==
    ASSUME IInv, NEW r \in Pids, DaemonPid(r)
    PROVE  IInv'
<1> DEFINE u == [proc[r] EXCEPT !.pc = "setup"]
<1>1. proc[r] \in Process /\ Role(r, proc[r], proc) /\ proc[r].pc = "pid"
    BY Facts DEF DaemonPid, At
<1>2. proc' = [proc EXCEPT ![r] = u] /\ pidfile' = r /\ overtaken' = overtaken
    BY DEF DaemonPid, Go
<1>3. /\ u \in Process /\ u.pc = "setup" /\ u.command = proc[r].command
      /\ u.listed = proc[r].listed /\ u.other = proc[r].other
    BY <1>1 DEF Process, DaemonSteps
<1> HIDE DEF u
<1>4. /\ proc'[r] = u
      /\ \A q \in Pids \ {r} : proc'[q] = proc[q] /\ Left(proc[q], proc'[q])
    BY <1>2 DEF IInv, Typed, Left, Same
<1>5. Typed'
    BY <1>2, <1>3 DEF IInv, Typed
<1>6. Role(r, u, proc')
    BY <1>1, <1>3 DEF Role, IsInstance, IsDaemon, DaemonSteps, Stopping
<1>7. Roles'
    BY <1>1, <1>3, <1>4, <1>6, RolesKept DEF IInv
<1>8. IsDaemon(proc[r])
    BY <1>1 DEF IsDaemon, DaemonSteps
<1>9. Weaker(proc[r], u)
    BY <1>1, <1>3, <1>8 DEF Weaker, IsInstance, IsDaemon, Cleared, WillEnd, WillFind
<1>10. "start" \notin overtaken' => Exclusive'
    BY <1>2, <1>4, <1>9, LeftWeaker, Weakening DEF IInv
<1>11. ASSUME overtaken = {}, NEW q \in Pids, Working(proc'[q])
       PROVE  q = r
    BY <1>4, <1>8, <1>11, AloneAtWork DEF IInv
<1>12. overtaken' = {} => Named'
    BY <1>2, <1>11 DEF Named, AtWork, Working
<1>13. Written'
    BY <1>2, <1>3, <1>4 DEF Written, Begun, DaemonSteps
<1> QED  BY <1>5, <1>7, <1>10, <1>12, <1>13 DEF IInv

\* A daemon that removes the PID file was told to stop; it is alone.
LEMMA DaemonRemovePidStep ==
    ASSUME IInv, NEW r \in Pids, DaemonRemovePid(r)
    PROVE  IInv'
<1> DEFINE u == [proc[r] EXCEPT !.pc = "rm_status"]
<1>1. proc[r] \in Process /\ Role(r, proc[r], proc) /\ proc[r].pc = "rm_pid"
    BY Facts DEF DaemonRemovePid, At
<1>2. proc' = [proc EXCEPT ![r] = u] /\ pidfile' = NONE /\ overtaken' = overtaken
    BY DEF DaemonRemovePid, Go
<1>3. /\ u \in Process /\ u.pc = "rm_status" /\ u.command = proc[r].command
      /\ u.listed = proc[r].listed /\ u.other = proc[r].other /\ u.running = proc[r].running
    BY <1>1 DEF Process, DaemonSteps
<1>4. ~proc[r].running /\ IsDaemon(proc[r])
    BY <1>1 DEF Role, Stopping, IsDaemon, DaemonSteps
<1> HIDE DEF u
<1>5. /\ proc'[r] = u
      /\ \A q \in Pids \ {r} : proc'[q] = proc[q] /\ Left(proc[q], proc'[q])
    BY <1>2 DEF IInv, Typed, Left, Same
<1>6. Typed'
    BY <1>2, <1>3 DEF IInv, Typed, NONE
<1>7. Role(r, u, proc')
    BY <1>1, <1>3, <1>4 DEF Role, IsInstance, IsDaemon, DaemonSteps
<1>8. Roles'
    BY <1>1, <1>3, <1>5, <1>7, RolesKept DEF IInv
<1>9. Weaker(proc[r], u)
    BY <1>1, <1>3, <1>4 DEF Weaker, IsInstance, IsDaemon, Cleared, WillEnd, WillFind
<1>10. "start" \notin overtaken' => Exclusive'
    BY <1>2, <1>5, <1>9, LeftWeaker, Weakening DEF IInv
<1>11. ASSUME overtaken = {}, NEW q \in Pids, Working(proc'[q])
       PROVE  FALSE
    <2>1. q # r
        BY <1>3, <1>4, <1>5, <1>11 DEF Working
    <2> QED  BY <2>1, <1>4, <1>5, <1>11, AloneAtWork DEF IInv
<1>12. overtaken' = {} => Named'
    BY <1>2, <1>11 DEF Named, AtWork, Working
<1> QED  BY <1>2, <1>6, <1>8, <1>10, <1>12 DEF IInv, Written

\* A daemon ends, because it was told to or because nobody reads its report.
LEMMA DaemonEnds ==
    ASSUME IInv, NEW r \in Pids, DaemonUnheard(r) \/ DaemonExit(r)
    PROVE  IInv'
<1>1. /\ proc[r].pc # "dead" /\ pidfile' = pidfile /\ overtaken' = overtaken
      /\ proc' = Exit(r, 0) \/ proc' = Exit(r, 1)
    BY DEF DaemonUnheard, DaemonExit, At
<1> QED  BY <1>1, Exits

-----------------------------------------------------------------------------
(* The steps of a stop and of a client.                                    *)

\* A stop has no daemon, and is no instance.
LEMMA StopIs ==
    ASSUME IInv, NEW r \in Pids, proc[r].pc \in OtherSteps
    PROVE  /\ proc[r] \in Process /\ ~IsInstance(proc[r])
           /\ r \notin proc[r].listed
           /\ ~IsDaemon(proc[r]) /\ proc[r].pc \notin StartSteps
<1>1. proc[r] \in Process /\ Role(r, proc[r], proc)
    BY Facts
<1> QED  BY <1>1 DEF Role, IsDaemon, OtherSteps, StartSteps, DaemonSteps

\* What the step of a stop keeps: it signals some, or none, and goes on.
LEMMA StopGoes ==
    ASSUME IInv, NEW r \in Pids, NEW u \in Process, NEW f \in [Pids -> Process],
           proc[r].pc \in OtherSteps, u.pc \in OtherSteps,
           u.command = proc[r].command, u.listed = proc[r].listed,
           proc' = [f EXCEPT ![r] = u],
           \A q \in Pids \ {r} : Left(proc[q], f[q]),
           u.pc = "wait" => u.other \in Pids \ {r} /\ proc'[u.other].pc # "unused",
           u.pc = "unpid" => u.other \in Pids /\ proc'[u.other].pc = "dead",
           pidfile' \in Pids \cup {NONE}, overtaken' \in SUBSET {"start", "stop"},
           overtaken \subseteq overtaken'
    PROVE  /\ Typed' /\ Roles'
           /\ "start" \notin overtaken' => Exclusive'
           /\ \A q \in Pids : Calm(proc[q], proc'[q]) /\ (q = r => ~Working(proc'[q]))
<1>1. /\ proc'[r] = u
      /\ \A q \in Pids \ {r} : proc'[q] = f[q] /\ Left(proc[q], proc'[q])
    OBVIOUS
<1>2. Typed'
    BY DEF Typed
<1>3. proc[r] \in Process /\ ~IsInstance(proc[r]) /\ r \notin proc[r].listed
    BY StopIs
<1>4. ~IsInstance(u) /\ ~IsDaemon(u) /\ u.pc \notin StartSteps /\ u.pc \notin Stopping
    BY <1>3 DEF IsInstance, IsDaemon, OtherSteps, StartSteps, DaemonSteps, Stopping
<1>5. Role(r, u, proc')
    BY <1>3, <1>4 DEF Role
<1>6. u.pc # "unused" /\ proc[r].pc # "dead"
    BY DEF OtherSteps
<1>7. Roles'
    BY <1>1, <1>5, <1>6, RolesKept DEF IInv
<1>8. \A q \in Pids : Weaker(proc[q], proc'[q])
    BY <1>1, <1>4, LeftWeaker DEF Weaker
<1>9. "start" \notin overtaken' => Exclusive'
    BY <1>8, Weakening DEF IInv
<1>10. \A q \in Pids : Calm(proc[q], proc'[q]) /\ (q = r => ~Working(proc'[q]))
    BY <1>1, <1>4, <1>6, LeftWeaker DEF Calm, Working, Begun, IsDaemon, OtherSteps, DaemonSteps
<1> QED  BY <1>2, <1>7, <1>9, <1>10

\* A stop that finds the process of the PID file tells it to end; one that
\* does not removes the file, which names nobody at work.
LEMMA StopReadStep ==
    ASSUME IInv, NEW r \in Pids, StopRead(r)
    PROVE  IInv'
<1>1. proc[r] \in Process /\ proc[r].pc = "read" /\ proc[r].pc \in OtherSteps
    BY Facts DEF StopRead, At, OtherSteps
<1>2. overtaken' = overtaken /\ overtaken \in SUBSET {"start", "stop"}
    BY DEF StopRead, IInv, Typed
<1>3. CASE Alive(pidfile)
    <2> DEFINE f == AfterTerm({pidfile})
               u == [f[r] EXCEPT !.pc = "wait", !.other = pidfile]
    <2>1. pidfile \in Pids /\ pidfile' = pidfile /\ proc' = [f EXCEPT ![r] = u]
        BY <1>3 DEF StopRead, Alive, AfterTerm
    <2>2. /\ f \in [Pids -> Process]
          /\ \A q \in Pids : Left(proc[q], f[q])
        BY <1>3, <2>1, TermLeaves DEF IInv
    <2>3. pidfile # r
        BY <1>1, <2>1, DaemonConstants DEF DaemonConstants, IInv, Written, Begun, DaemonSteps, NONE
    <2>4. f[r] = proc[r]
        BY <2>1, <2>3 DEF AfterTerm
    <2>5. /\ u \in Process /\ u.pc = "wait" /\ u.other = pidfile
          /\ u.command = proc[r].command /\ u.listed = proc[r].listed
        BY <1>1, <2>1, <2>4 DEF Process, OtherSteps
    <2> HIDE DEF f, u
    <2>6. proc'[pidfile] = f[pidfile] /\ f[pidfile].pc # "unused"
        BY <1>3, <2>1, <2>2, <2>3 DEF Left, Same, Over, Alive
    <2>7. /\ Typed' /\ Roles'
          /\ "start" \notin overtaken' => Exclusive'
          /\ \A q \in Pids : Calm(proc[q], proc'[q]) /\ (q = r => ~Working(proc'[q]))
        BY <1>1, <1>2, <2>1, <2>2, <2>3, <2>5, <2>6, StopGoes DEF OtherSteps
    <2>8. (overtaken' = {} => Named') /\ Written'
        BY <1>2, <2>1, <2>7, NamedKept, WrittenKept DEF IInv
    <2> QED  BY <2>7, <2>8 DEF IInv
<1>4. CASE ~Alive(pidfile)
    <2> DEFINE u == [proc[r] EXCEPT !.pc = "stop_links"]
    <2>1. pidfile' = NONE /\ proc' = [proc EXCEPT ![r] = u]
        BY <1>4 DEF StopRead, Go
    <2>2. /\ u \in Process /\ u.pc = "stop_links"
          /\ u.command = proc[r].command /\ u.listed = proc[r].listed
        BY <1>1 DEF Process, OtherSteps
    <2>3. proc \in [Pids -> Process] /\ \A q \in Pids : Left(proc[q], proc[q])
        BY DEF IInv, Typed, Left, Same
    <2> HIDE DEF u
    <2>4. /\ Typed' /\ Roles'
          /\ "start" \notin overtaken' => Exclusive'
          /\ \A q \in Pids : Calm(proc[q], proc'[q]) /\ (q = r => ~Working(proc'[q]))
        BY <1>1, <1>2, <2>1, <2>2, <2>3, StopGoes DEF OtherSteps
    <2>5. overtaken = {} => \A q \in Pids : ~Working(proc[q])
        <3> SUFFICES ASSUME overtaken = {}, NEW q \in Pids, Working(proc[q])
                     PROVE  FALSE
            OBVIOUS
        <3>1. pidfile = q
            BY DEF IInv, Named, AtWork, Working
        <3> QED  BY <1>4, <3>1 DEF Working, Alive, DaemonSteps
    <2>6. overtaken' = {} => Named'
        BY <1>2, <2>4, <2>5 DEF Calm, Named, AtWork, Working
    <2> QED  BY <2>1, <2>4, <2>6 DEF IInv, Written
<1> QED  BY <1>3, <1>4

\* The process a stop waits for has ended after it.
LEMMA StopWaitStep ==
    ASSUME IInv, NEW r \in Pids, StopWait(r)
    PROVE  IInv'
<1> DEFINE target == proc[r].other
           hit == {target} \cap {q \in Pids : Alive(q)}
           f == AfterKill(hit)
           u == [f[r] EXCEPT !.pc = "unpid"]
<1>1. /\ proc[r] \in Process /\ proc[r].pc = "wait" /\ proc[r].pc \in OtherSteps
      /\ target \in Pids /\ target # r /\ proc[target].pc # "unused"
    BY Facts DEF StopWait, At, OtherSteps, Role
<1>2. hit \in SUBSET Pids /\ \A q \in hit : Alive(q)
    OBVIOUS
<1>3. /\ proc' = [f EXCEPT ![r] = u] /\ pidfile' = pidfile /\ overtaken' = overtaken
    BY DEF StopWait, AfterKill
<1>4. /\ f \in [Pids -> Process]
      /\ \A q \in Pids : Left(proc[q], f[q])
      /\ \A q \in hit : Over(f[q])
    BY <1>2, KillLeaves DEF IInv
<1>5. f[target].pc = "dead"
    BY <1>1, <1>4 DEF Alive, Over, AfterKill
<1>6. f[r] = proc[r]
    BY <1>1 DEF AfterKill
<1> HIDE DEF f, hit
<1>7. /\ u \in Process /\ u.pc = "unpid" /\ u.other = target
      /\ u.command = proc[r].command /\ u.listed = proc[r].listed
    BY <1>1, <1>6 DEF Process, OtherSteps
<1>8. proc'[target].pc = "dead"
    BY <1>1, <1>3, <1>4, <1>5
<1>9. pidfile' \in Pids \cup {NONE} /\ overtaken' \in SUBSET {"start", "stop"}
    BY <1>3 DEF IInv, Typed
<1> HIDE DEF u, target
<1>10. /\ Typed' /\ Roles'
       /\ "start" \notin overtaken' => Exclusive'
       /\ \A q \in Pids : Calm(proc[q], proc'[q]) /\ (q = r => ~Working(proc'[q]))
    BY <1>1, <1>3, <1>4, <1>7, <1>8, <1>9, StopGoes DEF OtherSteps
<1>11. (overtaken' = {} => Named') /\ Written'
    BY <1>3, <1>10, NamedKept, WrittenKept DEF IInv
<1> QED  BY <1>10, <1>11 DEF IInv

\* The file a stop removes names the process it waited for, or another start
\* has been faster.
LEMMA StopUnpidStep ==
    ASSUME IInv, NEW r \in Pids, StopUnpid(r)
    PROVE  IInv'
<1> DEFINE u == [proc[r] EXCEPT !.pc = "stop_links"]
<1>1. /\ proc[r] \in Process /\ proc[r].pc = "unpid" /\ proc[r].pc \in OtherSteps
      /\ proc[r].other \in Pids /\ proc[proc[r].other].pc = "dead"
    BY Facts DEF StopUnpid, At, OtherSteps, Role
<1>2. /\ proc' = [proc EXCEPT ![r] = u] /\ pidfile' = NONE
      /\ overtaken' = IF pidfile \in {NONE, proc[r].other} THEN overtaken ELSE overtaken \cup {"stop"}
    BY DEF StopUnpid, Go
<1>3. /\ u \in Process /\ u.pc = "stop_links"
      /\ u.command = proc[r].command /\ u.listed = proc[r].listed
    BY <1>1 DEF Process, OtherSteps
<1>4. proc \in [Pids -> Process] /\ \A q \in Pids : Left(proc[q], proc[q])
    BY DEF IInv, Typed, Left, Same
<1>5. overtaken' \in SUBSET {"start", "stop"} /\ overtaken \subseteq overtaken'
    BY <1>2 DEF IInv, Typed
<1> HIDE DEF u
<1>6. /\ Typed' /\ Roles'
      /\ "start" \notin overtaken' => Exclusive'
      /\ \A q \in Pids : Calm(proc[q], proc'[q]) /\ (q = r => ~Working(proc'[q]))
    BY <1>1, <1>2, <1>3, <1>4, <1>5, StopGoes DEF OtherSteps
<1>7. ASSUME overtaken' = {}, NEW q \in Pids, Working(proc'[q])
      PROVE  FALSE
    <2>1. Working(proc[q]) /\ pidfile = q
        BY <1>5, <1>6, <1>7 DEF Calm, IInv, Named, AtWork, Working
    <2>2. q = NONE \/ q = proc[r].other
        BY <1>2, <1>7, <2>1
    <2> QED  BY <1>1, <2>1, <2>2, DaemonConstants DEF DaemonConstants, NONE, Working, DaemonSteps
<1>8. overtaken' = {} => Named'
    BY <1>7 DEF Named, AtWork, Working
<1> QED  BY <1>2, <1>6, <1>8 DEF IInv, Written

\* A stop ends; it is not the first half of a restart.
LEMMA StopLinksStep ==
    ASSUME IInv, NEW r \in Pids, StopLinks(r)
    PROVE  IInv'
<1>1. proc[r] \in Process /\ proc[r].pc = "stop_links"
    BY Facts DEF StopLinks, At
<1>2. StopThen(r) = "done"
    BY <1>1 DEF StopThen, Process
<1> QED  BY <1>1, <1>2, Exits DEF StopLinks

\* A client goes on or ends, and touches no file.
LEMMA ClientStep ==
    ASSUME IInv, NEW r \in Pids,
           ClientStarted(r) \/ ClientAppears(r) \/ ClientFast(r) \/ ClientPoll(r)
    PROVE  IInv'
<1>1. /\ proc[r].pc \in OtherSteps /\ proc[r].pc # "dead"
      /\ pidfile' = pidfile /\ overtaken' = overtaken
    BY DEF ClientStarted, ClientAppears, ClientFast, ClientPoll, At, OtherSteps, files
<1>2. \/ proc' = Exit(r, 0) \/ proc' = Exit(r, 1)
      \/ Go(r, "appears") \/ Go(r, "fast") \/ Go(r, "poll")
    BY DEF ClientStarted, ClientAppears, ClientFast, ClientPoll
<1> QED  BY <1>1, <1>2, Exits, CommandGoes DEF OtherSteps

\* A daemon that is killed from outside leaves its file behind.
LEMMA CrashStep ==
    ASSUME IInv, NEW r \in Pids, Crash(r)
    PROVE  IInv'
<1>1. /\ proc[r].pc # "dead" /\ pidfile' = pidfile /\ overtaken' = overtaken
      /\ proc' = Exit(r, 1)
    BY DEF Crash, AfterKill, Exit, DaemonSteps, IInv, Typed
<1> QED  BY <1>1, Exits

-----------------------------------------------------------------------------
(* The theorems.                                                           *)

\* The invariant holds at first: there is no process.
LEMMA InitHolds == Init => IInv
<1> SUFFICES ASSUME Init
             PROVE  IInv
    OBVIOUS
<1>1. \A p \in Pids : /\ proc[p] \in Process /\ proc[p].pc = "unused" /\ proc[p].command = ""
                      /\ proc[p].listed = {}
    BY DEF Init, NewProcess, Process, NONE
<1>2. Typed
    BY <1>1 DEF Init, Typed
<1>3. Roles
    BY <1>1 DEF Roles, Role, IsInstance, IsDaemon, StartSteps, DaemonSteps, Stopping
<1>4. Exclusive /\ Named /\ Written
    BY <1>1 DEF Init, Exclusive, IsInstance, Named, AtWork, DaemonSteps, Written
<1> QED  BY <1>2, <1>3, <1>4 DEF IInv

\* Every step keeps it, if there is no "restart".
LEMMA NextPreserves ==
    ASSUME "restart" \notin Commands
    PROVE  IInv /\ [Next]_vars => IInv'
<1> SUFFICES ASSUME IInv, [Next]_vars
             PROVE  IInv'
    OBVIOUS
<1>1. ASSUME NEW p \in Pids, ProcessStep(p)
      PROVE  IInv'
    <2>1. CASE StartList(p) \/ StartTerm(p) \/ StartKill(p) \/ StartUnlink(p) \/ StartLinks(p)
               \/ StartFork(p) \/ StartReport(p)
        BY <2>1, StartListStep, StartTermStep, StartKillStep, StartUnlinkStep, StartLinksStep,
           StartForkStep, StartReportStep
    <2>2. CASE DaemonHandlers(p) \/ DaemonSetup(p) \/ DaemonProbe(p) \/ DaemonMonitor(p)
               \/ DaemonRescan(p) \/ DaemonShutdown(p)
        BY <2>2, DaemonStep
    <2>3. CASE DaemonPid(p) \/ DaemonUnheard(p) \/ DaemonRemovePid(p) \/ DaemonExit(p)
        BY <2>3, DaemonPidStep, DaemonRemovePidStep, DaemonEnds
    <2>4. CASE StopRead(p) \/ StopWait(p) \/ StopUnpid(p) \/ StopLinks(p)
        BY <2>4, StopReadStep, StopWaitStep, StopUnpidStep, StopLinksStep
    <2>5. CASE ClientEnsure(p) \/ ClientStarted(p) \/ ClientAppears(p) \/ ClientFast(p) \/ ClientPoll(p)
        BY <2>5, ClientEnsureStep, ClientStep
    <2> QED  BY <1>1, <2>1, <2>2, <2>3, <2>4, <2>5 DEF ProcessStep
<1>2. CASE UNCHANGED <<proc, pidfile, overtaken>>
    BY <1>2 DEF IInv, Typed, Roles, Written, Exclusive, Named, AtWork
<1>3. ASSUME Plug \/ Unplug \/ UNCHANGED vars
      PROVE  IInv'
    BY <1>2, <1>3 DEF Plug, Unplug, files, vars
<1> QED  BY <1>1, <1>3, CrashStep, RunStep DEF Next

\* What the processes are, and that starts exclude each other, in every
\* behaviour, whatever the commands, unplugs and kills.
THEOREM Invariant ==
    ASSUME "restart" \notin Commands
    PROVE  Spec => []IInv
<1>1. Init => IInv
    BY InitHolds
<1>2. IInv /\ [Next]_vars => IInv'
    BY NextPreserves
<1> QED  BY <1>1, <1>2, PTL DEF Spec

\* Where no restart is run, there is one daemon at work, which the PID file
\* names, or a start or a stop was overtaken.  (A daemon that a restart forks
\* is none that pgrep lists.)
THEOREM OneDaemonHolds ==
    ASSUME "restart" \notin Commands
    PROVE  Spec => []OneDaemon
<1>1. IInv => OneDaemon
    <2> SUFFICES ASSUME IInv
                 PROVE  OneDaemon
        OBVIOUS
    <2>1. ASSUME Exclusive
          PROVE  Cardinality(AtWork) <= 1
        <3>1. \A p, q \in AtWork : p = q
            BY <2>1, AloneAtWork DEF AtWork, Working, IsDaemon
        <3>2. CASE AtWork = {}
            BY <3>2, FS_EmptySet
        <3>3. CASE AtWork # {}
            <4>1. PICK p \in AtWork : AtWork = {p}
                BY <3>1, <3>3
            <4> QED  BY <4>1, FS_Singleton
        <3> QED  BY <3>2, <3>3
    <2>2. overtaken = {} => AtWork \subseteq {pidfile}
        BY DEF IInv, Named
    <2> QED  BY <2>1, <2>2 DEF IInv, OneDaemon
<1> QED  BY <1>1, Invariant, PTL
=============================================================================
