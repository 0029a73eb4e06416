------------------------------ MODULE QcDaemon ------------------------------
(***************************************************************************)
(* The qcseriald daemon and the commands that control and use it           *)
(* (src/qcseriald.c, cmd_start(), cmd_stop(), qcseriald_wait_for_port()).  *)
(* They are processes that know of each other by the process table, the    *)
(* PID file, the status file and the symbolic link of a port alone, each   *)
(* read and written at a different time.  What the daemon does with a      *)
(* modem is in QcBridges; here it has one port or none.                    *)
(***************************************************************************)
EXTENDS Naturals, FiniteSets

CONSTANTS
    Pids,           \* process ids, taken in order
    Commands,       \* what is run: "start", "restart", "stop", "client"
    MaxEvents       \* commands run, modems unplugged and daemons killed
                    \* from outside, all together

ASSUME DaemonConstants ==
    /\ Pids \subseteq Nat \ {0} /\ IsFiniteSet(Pids)
    /\ Commands \subseteq {"start", "restart", "stop", "client"}
    /\ MaxEvents \in Nat

VARIABLES
    proc,       \* the processes, see NewProcess
    pidfile,    \* the process the PID file names, 0 if there is none
    status,     \* the status file: is there one, and does it have the port?
    link,       \* the daemon whose terminal the link of the port names, or 0
    claim,      \* the daemon that has the USB interface, or 0
    plugged,    \* is the modem there?
    events,     \* commands, unplugs and kills so far
    overtaken   \* the commands another start was faster than: a "stop" that
                \* removed a new daemon's PID file, a "start" that did not
                \* see a daemon forked after it had listed its parent

vars == <<proc, pidfile, status, link, claim, plugged, events, overtaken>>
files == <<pidfile, status, link, claim, overtaken>>
world == <<plugged, events>>

NONE == 0

\* command: the name in the process table.  listed: the processes pgrep
\* found.  other: the process waited for or stopped.  running: g_running.
NewProcess(command, at) ==
    [command |-> command, pc |-> at, listed |-> {}, other |-> NONE,
     running |-> TRUE, reported |-> FALSE, code |-> 0]

Unused == {p \in Pids : proc[p].pc = "unused"}
IsNext(p) == p \in Unused /\ \A q \in Unused : p <= q
Alive(p) == p \in Pids /\ proc[p].pc \notin {"unused", "dead"}
At(p, pc) == proc[p].pc = pc
Ended(p, code) == [NewProcess("", "dead") EXCEPT !.reported = proc[p].reported, !.code = code]
Exit(p, code) == [proc EXCEPT ![p] = Ended(p, code)]
Go(p, to) == proc' = [proc EXCEPT ![p].pc = to]

DaemonSteps == {"pid", "setup", "probe", "monitor", "rescan", "shutdown", "rm_pid", "rm_status"}

Init ==
    /\ proc = [p \in Pids |-> NewProcess("", "unused")]
    /\ pidfile = NONE /\ status = [there |-> FALSE, port |-> FALSE]
    /\ link = NONE /\ claim = NONE
    /\ plugged = FALSE
    /\ events = 0
    /\ overtaken = {}

-----------------------------------------------------------------------------
(* Signals.  A daemon handles SIGTERM once its handlers are installed; any *)
(* other process, and every one on SIGKILL, ends at once.  What a dead     *)
(* process had open is closed; its files and links stay.                   *)
AfterTerm(targets) ==
    [p \in Pids |-> IF p \notin targets THEN proc[p]
                    ELSE IF proc[p].pc \in DaemonSteps THEN [proc[p] EXCEPT !.running = FALSE]
                    ELSE Ended(p, 1)]
AfterKill(targets) ==
    [p \in Pids |-> IF p \in targets THEN Ended(p, 1) ELSE proc[p]]
Released(targets) == claim' = IF claim \in targets THEN NONE ELSE claim

\* cleanup_stale_symlinks(): links to terminals that are gone.
CleanedLink == IF Alive(link) THEN link ELSE NONE

-----------------------------------------------------------------------------
(* start.                                                                  *)

\* Mutant: only the process the PID file names is taken for an instance.
PgrepPidFile(p) == {q \in Pids \ {p} : Alive(q) /\ q = pidfile}

\* pgrep -f 'qcseriald (start|start --foreground)', without the caller.
Pgrep(p) == {q \in Pids \ {p} : Alive(q) /\ proc[q].command = "start"}

StartList(p) ==
    /\ At(p, "pgrep")
    /\ proc' = [proc EXCEPT ![p].listed = Pgrep(p), ![p].pc = "term"]
    /\ UNCHANGED <<files, world>>

\* SIGTERM to what was listed, and half a second if any of it was there.
StartTerm(p) ==
    /\ At(p, "term")
    /\ LET hit == {q \in proc[p].listed : Alive(q)}
       IN  proc' = [AfterTerm(hit) EXCEPT ![p].pc = IF hit = {} THEN "unlink" ELSE "kill",
                                          ![p].listed = {}]
          /\ overtaken' = IF hit # {} \/ proc[p].listed = {} THEN overtaken
                          ELSE overtaken \cup {"start"}
    /\ UNCHANGED <<pidfile, status, link, claim, world>>

\* Mutant: what outlived the SIGTERM, or was forked meanwhile, stays.
StartKillNone(p) ==
    /\ At(p, "kill")
    /\ Go(p, "unlink")
    /\ UNCHANGED <<files, world>>

\* Whatever pgrep lists now.
StartKill(p) ==
    /\ At(p, "kill")
    /\ proc' = [AfterKill(Pgrep(p)) EXCEPT ![p].pc = "unlink"]
    /\ Released(Pgrep(p))
    /\ UNCHANGED <<pidfile, status, link, overtaken, world>>

StartUnlink(p) ==
    /\ At(p, "unlink")
    /\ pidfile' = NONE
    /\ Go(p, "links")
    /\ UNCHANGED <<status, link, claim, overtaken, world>>

StartLinks(p) ==
    /\ At(p, "links")
    /\ link' = CleanedLink
    /\ Go(p, "fork")
    /\ UNCHANGED <<pidfile, status, claim, overtaken, world>>

\* The daemon is forked, with the command line of its parent, which waits
\* for its report.
StartFork(p) ==
    /\ At(p, "fork")
    /\ \E child \in Pids :
          /\ IsNext(child)
          /\ proc' = [proc EXCEPT ![child] = NewProcess(proc[p].command, "born"),
                                  ![p].pc = "report", ![p].other = child]
    /\ UNCHANGED <<files, world>>

StartReport(p) ==
    /\ At(p, "report")
    /\ LET child == proc[p].other
       IN  \/ proc[child].reported /\ proc' = Exit(p, 0)
           \/ ~proc[child].reported /\ ~Alive(child) /\ proc' = Exit(p, 1)
    /\ UNCHANGED <<files, world>>

-----------------------------------------------------------------------------
(* The daemon.                                                             *)
DaemonHandlers(p) ==
    /\ At(p, "born")
    /\ Go(p, "pid")
    /\ UNCHANGED <<files, world>>

DaemonPid(p) ==
    /\ At(p, "pid")
    /\ pidfile' = p
    /\ Go(p, "setup")
    /\ UNCHANGED <<status, link, claim, overtaken, world>>

\* setup_bridges(): the modem is there and no one else has the interface.
SetUp(p) == claim' = p /\ link' = p
Possible == plugged /\ claim = NONE

\* The parent that waits for the report of p may have been killed.
Heard(p) == \E q \in Pids : At(q, "report") /\ proc[q].other = p

DaemonSetup(p) ==
    /\ At(p, "setup") /\ Heard(p)
    /\ proc' = [proc EXCEPT ![p].reported = TRUE,
                            ![p].pc = IF Possible THEN "probe" ELSE "monitor"]
    /\ IF Possible THEN SetUp(p) ELSE UNCHANGED <<link, claim>>
    /\ UNCHANGED <<pidfile, status, overtaken, world>>

\* The report goes into a pipe nobody reads: SIGPIPE.
DaemonUnheard(p) ==
    /\ At(p, "setup") /\ ~Heard(p)
    /\ proc' = Exit(p, 1)
    /\ link' = IF Possible THEN p ELSE link
    /\ UNCHANGED <<pidfile, status, claim, overtaken, world>>

\* write_status_file(): a new file takes the place of the old one.
WriteStatus(port) == status' = [there |-> TRUE, port |-> port]

DaemonProbe(p) ==
    /\ At(p, "probe")
    /\ WriteStatus(TRUE)
    /\ Go(p, "monitor")
    /\ UNCHANGED <<pidfile, link, claim, overtaken, world>>

\* shutdown_bridges(): the link goes by its name, whoever made it last.
ShutDown(p) ==
    IF claim = p THEN claim' = NONE /\ link' = NONE ELSE UNCHANGED <<claim, link>>

\* A round of run_monitor_loop().  A modem that is gone ends its bridges.
DaemonMonitor(p) ==
    /\ At(p, "monitor")
    /\ IF ~proc[p].running
       THEN Go(p, "shutdown") /\ UNCHANGED <<status, link, claim>>
       ELSE IF claim = p /\ plugged
       THEN WriteStatus(TRUE) /\ UNCHANGED <<proc, link, claim>>
       ELSE WriteStatus(FALSE) /\ ShutDown(p) /\ Go(p, "rescan")
    /\ UNCHANGED <<pidfile, overtaken, world>>

\* Mutant: the modem is not looked for again.
DaemonRescanNever(p) ==
    /\ At(p, "rescan")
    /\ IF ~proc[p].running THEN Go(p, "monitor") ELSE UNCHANGED proc
    /\ UNCHANGED <<files, world>>

DaemonRescan(p) ==
    /\ At(p, "rescan")
    /\ IF ~proc[p].running THEN Go(p, "monitor") /\ UNCHANGED <<status, link, claim>>
       ELSE IF Possible THEN SetUp(p) /\ Go(p, "probe") /\ UNCHANGED status
       ELSE WriteStatus(FALSE) /\ UNCHANGED <<proc, link, claim>>
    /\ UNCHANGED <<pidfile, overtaken, world>>

DaemonShutdown(p) ==
    /\ At(p, "shutdown")
    /\ ShutDown(p)
    /\ Go(p, "rm_pid")
    /\ UNCHANGED <<pidfile, status, overtaken, world>>

DaemonRemovePid(p) ==
    /\ At(p, "rm_pid")
    /\ pidfile' = NONE
    /\ Go(p, "rm_status")
    /\ UNCHANGED <<status, link, claim, overtaken, world>>

DaemonExit(p) ==
    /\ At(p, "rm_status")
    /\ status' = [there |-> FALSE, port |-> FALSE]
    /\ proc' = Exit(p, 0)
    /\ UNCHANGED <<pidfile, link, claim, overtaken, world>>

-----------------------------------------------------------------------------
(* stop, and the stop that begins a restart.                               *)
StopThen(p) == IF proc[p].command = "restart" THEN "pgrep" ELSE "done"

StopRead(p) ==
    /\ At(p, "read")
    /\ IF Alive(pidfile)
       THEN /\ proc' = [AfterTerm({pidfile}) EXCEPT ![p].pc = "wait", ![p].other = pidfile]
            /\ UNCHANGED pidfile
       ELSE Go(p, "stop_links") /\ pidfile' = NONE
    /\ UNCHANGED <<status, link, claim, overtaken, world>>

\* The process is gone, or five seconds have passed and it is killed.
StopWait(p) ==
    /\ At(p, "wait")
    /\ LET target == proc[p].other
       IN  /\ proc' = [AfterKill({target} \cap {q \in Pids : Alive(q)}) EXCEPT ![p].pc = "unpid"]
           /\ Released({target})
    /\ UNCHANGED <<pidfile, status, link, overtaken, world>>

\* The PID file is removed by its name, whoever wrote it meanwhile.
StopUnpid(p) ==
    /\ At(p, "unpid")
    /\ overtaken' = IF pidfile \in {NONE, proc[p].other} THEN overtaken ELSE overtaken \cup {"stop"}
    /\ pidfile' = NONE
    /\ Go(p, "stop_links")
    /\ UNCHANGED <<status, link, claim, world>>

StopLinks(p) ==
    /\ At(p, "stop_links")
    /\ link' = CleanedLink
    /\ proc' = IF StopThen(p) = "done" THEN Exit(p, 0) ELSE [proc EXCEPT ![p].pc = "pgrep"]
    /\ UNCHANGED <<pidfile, status, claim, overtaken, world>>

-----------------------------------------------------------------------------
(* A command that needs a port: qcseriald_wait_for_port().                 *)
IsRunning == Alive(pidfile)
\* read_status_port(): the line is there and the link leads somewhere.
PortThere == status.there /\ status.port /\ Alive(link)

\* qcseriald_ensure_running(): a start is forked when there is no daemon.
ClientEnsure(p) ==
    /\ At(p, "ensure")
    /\ IF IsRunning THEN Go(p, "fast")
       ELSE \E child \in Pids :
              /\ IsNext(child)
              /\ proc' = [proc EXCEPT ![child] = NewProcess("start", "pgrep"),
                                      ![p].pc = "started", ![p].other = child]
    /\ UNCHANGED <<files, world>>

ClientStarted(p) ==
    /\ At(p, "started")
    /\ ~Alive(proc[p].other)
    /\ IF proc[proc[p].other].code = 0 THEN Go(p, "appears") ELSE proc' = Exit(p, 1)
    /\ UNCHANGED <<files, world>>

\* Five seconds for the PID file.
ClientAppears(p) ==
    /\ At(p, "appears")
    /\ IF IsRunning THEN Go(p, "fast") ELSE proc' = Exit(p, 1)
    /\ UNCHANGED <<files, world>>

ClientFast(p) ==
    /\ At(p, "fast")
    /\ IF PortThere THEN proc' = Exit(p, 0) ELSE Go(p, "poll")
    /\ UNCHANGED <<files, world>>

ClientPoll(p) ==
    /\ At(p, "poll")
    /\ \/ ~IsRunning /\ proc' = Exit(p, 1)
       \/ IsRunning /\ PortThere /\ proc' = Exit(p, 0)
    /\ UNCHANGED <<files, world>>

-----------------------------------------------------------------------------
(* The users and the modem.                                                *)
FirstStep(command) ==
    CASE command = "start" -> "pgrep" [] command \in {"stop", "restart"} -> "read"
      [] command = "client" -> "ensure"
NeedsPids(command) == CASE command = "stop" -> 1 [] command = "client" -> 3 [] OTHER -> 2
\* Pids are not run out of by what is under way.
Promised == Cardinality({p \in Pids : Alive(p) /\ proc[p].command \in {"start", "restart"}
                                      /\ proc[p].pc \notin DaemonSteps \cup {"born", "report"}})
            + 2 * Cardinality({p \in Pids : At(p, "ensure")})

Run(command) ==
    /\ events < MaxEvents
    /\ Cardinality(Unused) >= NeedsPids(command) + Promised
    /\ \E p \in Pids :
          IsNext(p) /\ proc' = [proc EXCEPT ![p] = NewProcess(command, FirstStep(command))]
    /\ events' = events + 1
    /\ UNCHANGED <<files, plugged>>

Plug ==
    /\ ~plugged /\ plugged' = TRUE
    /\ UNCHANGED <<proc, files, events>>

\* What the daemon does when its modem goes is DaemonMonitor.
Unplug ==
    /\ plugged /\ events < MaxEvents
    /\ plugged' = FALSE
    /\ events' = events + 1
    /\ UNCHANGED <<proc, files>>

Crash(p) ==
    /\ proc[p].pc \in DaemonSteps /\ events < MaxEvents
    /\ proc' = AfterKill({p}) /\ Released({p})
    /\ events' = events + 1
    /\ UNCHANGED <<pidfile, status, link, overtaken, plugged>>

ProcessStep(p) ==
    \/ StartList(p) \/ StartTerm(p) \/ StartKill(p) \/ StartUnlink(p) \/ StartLinks(p)
    \/ StartFork(p) \/ StartReport(p)
    \/ DaemonHandlers(p) \/ DaemonPid(p) \/ DaemonSetup(p) \/ DaemonUnheard(p) \/ DaemonProbe(p)
    \/ DaemonMonitor(p) \/ DaemonRescan(p)
    \/ DaemonShutdown(p) \/ DaemonRemovePid(p) \/ DaemonExit(p)
    \/ StopRead(p) \/ StopWait(p) \/ StopUnpid(p) \/ StopLinks(p)
    \/ ClientEnsure(p) \/ ClientStarted(p) \/ ClientAppears(p) \/ ClientFast(p) \/ ClientPoll(p)

Next ==
    \/ \E p \in Pids : ProcessStep(p) \/ Crash(p)
    \/ \E c \in Commands : Run(c)
    \/ Plug \/ Unplug

Spec == Init /\ [][Next]_vars

\* The operating system runs every process; the modem is plugged in again.
FairSpec == Spec /\ WF_vars(Plug) /\ \A p \in Pids : WF_vars(ProcessStep(p))

-----------------------------------------------------------------------------
TypeOK ==
    /\ {pidfile, link, claim} \subseteq Pids \cup {NONE}
    /\ \A p \in Pids : proc[p].other \in Pids \cup {NONE} /\ proc[p].listed \subseteq Pids
    /\ plugged \in BOOLEAN /\ overtaken \subseteq {"start", "stop"}

\* However starts, stops, clients and crashes overlap, the PID file names the
\* one daemon that is at work and was not told to stop, so that stop, status
\* and the clients find it.  Two daemons are at work together only after a
\* start listed another one that forked its daemon and was gone before the
\* signal came, so that nothing was killed and nothing looked for again; and
\* the file is lost only then or when a stop removed it after a start had
\* written it (src/qcseriald.c, kill_stale_instances(), pid_file_remove()).
AtWork == {p \in Pids : proc[p].pc \in DaemonSteps \ {"pid"} /\ proc[p].running}
OneDaemon ==
    /\ "start" \notin overtaken => Cardinality(AtWork) <= 1
    /\ overtaken = {} => AtWork \subseteq {pidfile}

\* Every command ends: a start has its report, a stop its daemon's end, a
\* client its port or the news that the daemon is gone, if the modem is
\* plugged in again and there are not two daemons that write the status file in
\* turn (src/qcseriald.c, qcseriald_wait_for_port()).
CommandsEnd ==
    \A p \in Pids :
        proc[p].pc # "unused" /\ proc[p].pc \notin DaemonSteps \cup {"born"}
            ~> proc[p].pc \in DaemonSteps \cup {"dead"} \/ "start" \in overtaken

=============================================================================
