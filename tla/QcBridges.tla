------------------------------ MODULE QcBridges ------------------------------
(***************************************************************************)
(* The bridges of the qcseriald daemon (src/qcseriald.c, macOS): for every *)
(* serial interface of the modem a pseudo-terminal and two threads, one    *)
(* that copies from USB to the terminal and one that copies back.  The     *)
(* main thread creates the bridges, watches them, tears all of them down   *)
(* when the modem is gone or a thread has died, and creates them again.    *)
(*                                                                         *)
(* The threads share the bridge_t records without a lock: they read the    *)
(* state, the terminal and the USB interface that shutdown_bridges()       *)
(* changes under them.                                                     *)
(*                                                                         *)
(* Time: the waits of the main thread, three seconds for the threads and   *)
(* five before a rescan, are long against the 100 ms a thread may sleep.   *)
(* They end only when no thread can take a step.                           *)
(***************************************************************************)
EXTENDS Naturals, FiniteSets

CONSTANTS
    Ifaces,         \* the serial interfaces of the modem; their bridges
    MaxSessions,    \* bound on the times the modem is attached
    MaxPartial,     \* 5 in the code
    FaultSets       \* sets of what may go wrong: reads, writes, exclusive
                    \* access, a modem that is unplugged

ASSUME QcConstants ==
    /\ MaxSessions \in Nat \ {0} /\ MaxPartial \in Nat
    /\ FaultSets \subseteq SUBSET {"read", "write", "exclusive", "detach"}

VARIABLES
    main,           \* where the main thread is
    after,          \* where shutdown_bridges() returns to; "none" while the
                    \* daemon starts
    g_running,
    bridges,        \* g_bridges[0 .. g_bridge_count - 1]
    g_session_id,
    retries,        \* retries_with_partial
    state,          \* of each bridge
    master,         \* its terminal: "open" or "closed"
    iface,          \* the session its USB interface belongs to, 0 when NULL
    alive,          \* usb_to_pty_alive and pty_to_usb_alive
    pc,             \* where its two threads are
    client,         \* who has the terminal open
    session,        \* the modem's session, 0 when it is not attached
    sessions,       \* sessions so far
    faults,         \* what may go wrong, which does not change
    crashed         \* was a NULL interface used?

mainVars == <<main, after, bridges, g_session_id, retries>>
bridgeVars == <<state, master, iface>>
threadVars == <<alive, pc>>
worldVars == <<client, session, sessions, faults>>
vars == <<mainVars, g_running, bridgeVars, threadVars, worldVars, crashed>>

Dirs == {"in", "out"}      \* usb_to_pty() and pty_to_usb()

Init ==
    /\ main = "scan" /\ after = "none" /\ g_running = TRUE
    /\ bridges = {} /\ g_session_id = 0 /\ retries = 0
    /\ state = [i \in Ifaces |-> "IDLE"]
    /\ master = [i \in Ifaces |-> "closed"]
    /\ iface = [i \in Ifaces |-> 0]
    /\ alive = [i \in Ifaces |-> [d \in Dirs |-> FALSE]]
    /\ pc = [i \in Ifaces |-> [d \in Dirs |-> "none"]]
    /\ client = [i \in Ifaces |-> "none"]
    /\ session \in {0, 1} /\ sessions = session /\ faults \in FaultSets
    /\ crashed = FALSE

-----------------------------------------------------------------------------
(* The two threads of a bridge *)

Go(i, d, next) ==
    /\ pc' = [pc EXCEPT ![i][d] = next]
    /\ UNCHANGED <<alive, crashed>>

Wanted(i) == g_running /\ state[i] = "RUNNING"

Start(i, d) ==
    /\ pc[i][d] = "start"
    /\ alive' = [alive EXCEPT ![i][d] = TRUE]
    /\ pc' = [pc EXCEPT ![i][d] = "test"]
    /\ UNCHANGED crashed

Exit(i, d) ==
    /\ pc[i][d] = "exit"
    /\ alive' = [alive EXCEPT ![i][d] = FALSE]
    /\ pc' = [pc EXCEPT ![i][d] = "none"]
    /\ UNCHANGED crashed

\* The interface is used through b->iface, which may be NULL by now.
Uses(i, d, next) ==
    IF iface[i] = 0 THEN crashed' = TRUE /\ UNCHANGED threadVars
                    ELSE Go(i, d, next)

Gone(i) == iface[i] # session

\* The loop of usb_to_pty(): no read while nobody has the terminal open,
\* except that a closed terminal does not look unused.
TestIn(i) ==
    /\ pc[i]["in"] = "test"
    /\ \/ ~Wanted(i) /\ Go(i, "in", "exit")
       \/ /\ Wanted(i) /\ (client[i] # "none" \/ master[i] = "closed")
          /\ Go(i, "in", "read")

Read(i) ==
    /\ pc[i]["in"] = "read"
    /\ Uses(i, "in", IF Gone(i) THEN "stall" ELSE "reading")

\* ReadPipe() returns: data, or the modem does not respond.
ReadReturns(i) ==
    /\ pc[i]["in"] = "reading"
    /\ \/ ~Gone(i) /\ Go(i, "in", "write")
       \/ (Gone(i) \/ "read" \in faults) /\ Go(i, "in", "stall")

\* The stall is cleared and the read tried again, for 5 or 15 seconds.
Stall(i) ==
    /\ pc[i]["in"] = "stall"
    /\ \E next \in {"test", "exit"} : Uses(i, "in", next)

\* What was read is written until all is written, whatever the state is by
\* then: a client that does not read holds the thread here.
Write(i) ==
    /\ pc[i]["in"] = "write"
    /\ \/ master[i] = "closed" /\ Go(i, "in", "exit")
       \/ master[i] = "open" /\ client[i] # "stuck" /\ Go(i, "in", "test")

TestOut(i) ==
    /\ pc[i]["out"] = "test"
    /\ \/ ~Wanted(i) /\ Go(i, "out", "exit")
       \/ Wanted(i) /\ master[i] = "closed" /\ Go(i, "out", "exit")
       \/ Wanted(i) /\ client[i] = "open" /\ Go(i, "out", "got")

\* The client's bytes are dropped when the bridge is being stopped.
Got(i) ==
    /\ pc[i]["out"] = "got"
    /\ IF Wanted(i) THEN Go(i, "out", "send") ELSE Go(i, "out", "exit")

Send(i) ==
    /\ pc[i]["out"] = "send"
    /\ Uses(i, "out", IF Gone(i) THEN "exit" ELSE "sending")

\* WritePipe() returns; a modem that does not respond ends the thread.
SendReturns(i) ==
    /\ pc[i]["out"] = "sending"
    /\ \/ ~Gone(i) /\ Go(i, "out", "test")
       \/ (Gone(i) \/ "write" \in faults) /\ Go(i, "out", "exit")

Thread(i, d) ==
    /\ \/ Start(i, d) \/ Exit(i, d)
       \/ d = "in" /\ (TestIn(i) \/ Read(i) \/ ReadReturns(i) \/ Stall(i) \/ Write(i))
       \/ d = "out" /\ (TestOut(i) \/ Got(i) \/ Send(i) \/ SendReturns(i))
    /\ UNCHANGED <<mainVars, g_running, bridgeVars, worldVars>>

\* Can a thread take a step of its own, not waiting for modem or client?
Moves(i, d) ==
    \/ pc[i][d] \in {"start", "exit", "read", "stall", "got", "send"}
    \/ /\ pc[i][d] = "test"
       /\ ~Wanted(i) \/ master[i] = "closed" \/ (d = "in" /\ client[i] # "none")
    \/ pc[i][d] = "write" /\ (master[i] = "closed" \/ client[i] # "stuck")
    \/ pc[i][d] \in {"reading", "sending"} /\ Gone(i)

Settled == \A i \in Ifaces, d \in Dirs : ~Moves(i, d)

-----------------------------------------------------------------------------
(* The main thread *)

Go2(next) == main' = next /\ UNCHANGED <<g_running, crashed, worldVars>>

\* setup_bridges(): the first device with a known vendor is matched and its
\* session remembered; its pipes need two seconds.
Match ==
    /\ main = "scan"
    /\ session # 0
    /\ g_session_id' = session
    /\ Go2("setup")
    /\ UNCHANGED <<after, bridges, retries, bridgeVars, threadVars>>

NoModem ==
    /\ main = "scan" /\ session = 0
    /\ Go2("wait") /\ after' = "wait"
    /\ UNCHANGED <<bridges, g_session_id, retries, bridgeVars, threadVars>>

\* A bridge for every interface that can be opened.
Create(opened) ==
    /\ bridges' = opened
    /\ state' = [i \in Ifaces |-> IF i \in opened THEN "RUNNING" ELSE state[i]]
    /\ master' = [i \in Ifaces |-> IF i \in opened THEN "open" ELSE master[i]]
    /\ iface' = [i \in Ifaces |-> IF i \in opened THEN session ELSE iface[i]]
    /\ alive' = [i \in Ifaces |-> IF i \in opened THEN [d \in Dirs |-> FALSE]
                                                  ELSE alive[i]]
    /\ pc' = [i \in Ifaces |-> IF i \in opened THEN [d \in Dirs |-> "start"]
                                               ELSE pc[i]]

\* run_monitor_loop() gives a setup that lacks some of the interfaces another
\* try, a few times; the daemon's first setup is used as it is.
Partial(opened) ==
    opened # Ifaces /\ after # "none" /\ retries < MaxPartial

\* The rest of setup_bridges(), and what its callers do with the bridges.
Setup ==
    /\ main = "setup" /\ session = g_session_id
    /\ \E opened \in SUBSET Ifaces :
          /\ opened # Ifaces => "exclusive" \in faults
          /\ opened # {}
          /\ Create(opened)
          /\ IF Partial(opened)
             THEN Go2("stop") /\ after' = "wait" /\ retries' = retries + 1
             ELSE Go2("probe") /\ UNCHANGED <<after, retries>>
    /\ UNCHANGED g_session_id

SetupFails ==
    /\ main = "setup"
    /\ session # g_session_id \/ "exclusive" \in faults
    /\ Go2("wait") /\ after' = "wait"
    /\ UNCHANGED <<bridges, g_session_id, retries, bridgeVars, threadVars>>

\* probe_ports() opens the terminals it does not know, asks "AT", and
\* closes them again.
Probe ==
    /\ main = "probe"
    /\ main' = "check" /\ retries' = 0
    /\ UNCHANGED <<after, bridges, g_session_id, g_running, bridgeVars,
                   threadVars, worldVars, crashed>>

TearDown(next) ==
    /\ Go2("stop") /\ after' = next
    /\ UNCHANGED <<bridges, g_session_id, retries, bridgeVars, threadVars>>

AllReading == \A i \in bridges : alive[i]["in"]

\* Mutant: the session is not compared.
CheckAliveOnly ==
    /\ main = "check" /\ g_running
    /\ IF ~AllReading THEN TearDown("wait")
       ELSE /\ Go2("sleep")
            /\ UNCHANGED <<after, bridges, g_session_id, retries, bridgeVars,
                           threadVars>>

\* Mutant: the threads are not counted.
CheckSessionOnly ==
    /\ main = "check" /\ g_running
    /\ IF session # g_session_id THEN TearDown("wait")
       ELSE /\ Go2("sleep")
            /\ UNCHANGED <<after, bridges, g_session_id, retries, bridgeVars,
                           threadVars>>

\* A round of run_monitor_loop().
Check ==
    /\ main = "check" /\ g_running
    /\ IF ~AllReading \/ session # g_session_id THEN TearDown("wait")
       ELSE /\ Go2("sleep")
            /\ UNCHANGED <<after, bridges, g_session_id, retries, bridgeVars,
                           threadVars>>

Sleep ==
    /\ main = "sleep" /\ Go2("check")
    /\ UNCHANGED <<after, bridges, g_session_id, retries, bridgeVars, threadVars>>

\* RESCAN_INTERVAL.
Wait ==
    /\ main = "wait" /\ g_running /\ Settled
    /\ Go2("scan")
    /\ UNCHANGED <<after, bridges, g_session_id, retries, bridgeVars, threadVars>>

\* The loops end when g_running is cleared.
Leave ==
    /\ ~g_running /\ main \in {"check", "wait", "sleep", "scan"}
    /\ TearDown("done")

(* shutdown_bridges() *)
Stop ==
    /\ main = "stop"
    /\ state' = [i \in Ifaces |-> IF i \in bridges THEN "STOPPING" ELSE state[i]]
    /\ Go2("close")
    /\ UNCHANGED <<after, bridges, g_session_id, retries, master, iface, threadVars>>

\* Mutant: the terminals are not closed.
CloseNone ==
    /\ main = "close"
    /\ Go2("abort")
    /\ UNCHANGED <<after, bridges, g_session_id, retries, bridgeVars, threadVars>>

\* The terminals are closed, and hung up.
Close ==
    /\ main = "close"
    /\ master' = [i \in Ifaces |-> IF i \in bridges THEN "closed" ELSE master[i]]
    /\ client' = [i \in Ifaces |-> IF i \in bridges THEN "none" ELSE client[i]]
    /\ main' = "abort"
    /\ UNCHANGED <<after, bridges, g_session_id, retries, g_running, state,
                   iface, threadVars, session, sessions, faults, crashed>>

\* A transfer that is under way returns kIOReturnAborted.
Aborted(i) == [d \in Dirs |-> IF i \in bridges /\ pc[i][d] \in {"reading", "sending"}
                              THEN "exit" ELSE pc[i][d]]

Abort ==
    /\ main = "abort"
    /\ pc' = [i \in Ifaces |-> Aborted(i)]
    /\ Go2("join")
    /\ UNCHANGED <<after, bridges, g_session_id, retries, bridgeVars, alive>>

\* Mutant: the wait for the threads is left out.
JoinNot ==
    /\ main = "join"
    /\ Go2("release")
    /\ UNCHANGED <<after, bridges, g_session_id, retries, bridgeVars, threadVars>>

\* Mutant: the threads are waited for without a deadline.
JoinForever ==
    /\ main = "join"
    /\ \A i \in bridges, d \in Dirs : ~alive[i][d]
    /\ Go2("release")
    /\ UNCHANGED <<after, bridges, g_session_id, retries, bridgeVars, threadVars>>

\* Every thread is done, or three seconds have passed.
Join ==
    /\ main = "join"
    /\ \/ \A i \in bridges, d \in Dirs : ~alive[i][d]
       \/ Settled
    /\ Go2("release")
    /\ UNCHANGED <<after, bridges, g_session_id, retries, bridgeVars, threadVars>>

\* The interfaces are closed, which aborts what still uses them.
Release ==
    /\ main = "release"
    /\ state' = [i \in Ifaces |-> IF i \in bridges THEN "STOPPED" ELSE state[i]]
    /\ iface' = [i \in Ifaces |-> IF i \in bridges THEN 0 ELSE iface[i]]
    /\ pc' = [i \in Ifaces |-> Aborted(i)]
    /\ bridges' = {}
    /\ Go2(after)
    /\ UNCHANGED <<after, g_session_id, retries, master, alive>>

Main ==
    \/ Match \/ NoModem \/ Setup \/ SetupFails \/ Probe \/ Check \/ Sleep \/ Wait \/ Leave
    \/ Stop \/ Close \/ Abort \/ Join \/ Release

-----------------------------------------------------------------------------
(* The modem, the clients and the signal (external) *)

Attach ==
    /\ session = 0 /\ sessions < MaxSessions
    /\ session' = sessions + 1 /\ sessions' = sessions + 1
    /\ UNCHANGED <<mainVars, g_running, bridgeVars, threadVars, client, faults,
                   crashed>>

Detach ==
    /\ "detach" \in faults
    /\ session # 0 /\ session' = 0
    /\ UNCHANGED <<mainVars, g_running, bridgeVars, threadVars, client, sessions,
                   faults, crashed>>

\* A client opens the terminal, stops or goes on reading it, or closes it.
Client(i) ==
    /\ master[i] = "open"
    /\ \E c \in {"none", "open", "stuck"} :
          client' = [client EXCEPT ![i] = c]
    /\ UNCHANGED <<mainVars, g_running, bridgeVars, threadVars, session, sessions,
                   faults, crashed>>

Signal ==
    /\ g_running /\ g_running' = FALSE
    /\ UNCHANGED <<mainVars, bridgeVars, threadVars, worldVars, crashed>>

World == Attach \/ Detach \/ Signal \/ \E i \in Ifaces : Client(i)

Done == main = "done" /\ UNCHANGED vars

Next == \/ Main \/ World \/ Done
        \/ \E i \in Ifaces, d \in Dirs : Thread(i, d)

Spec == Init /\ [][Next]_vars

\* The main thread and every bridge thread is scheduled again and again; the
\* modem may be silent, and the clients may do nothing.
FairSpec ==
    /\ Spec /\ WF_vars(Main)
    /\ \A i \in Ifaces, d \in Dirs : WF_vars(Moves(i, d) /\ Thread(i, d))
-----------------------------------------------------------------------------
(* The types of the variables. *)
TypeOK ==
    /\ main \in {"scan", "setup", "probe", "check", "sleep", "wait", "stop",
                 "close", "abort", "join", "release", "done"}
    /\ after \in {"none", "wait", "done"}
    /\ bridges \subseteq Ifaces
    /\ state \in [Ifaces -> {"IDLE", "RUNNING", "STOPPING", "STOPPED"}]
    /\ master \in [Ifaces -> {"open", "closed"}]
    /\ iface \in [Ifaces -> 0..MaxSessions]
    /\ alive \in [Ifaces -> [Dirs -> BOOLEAN]]
    /\ session \in 0..MaxSessions /\ retries \in 0..MaxPartial

(* While no read fails and the modem stays attached, no thread uses the    *)
(* USB interface of a bridge after shutdown_bridges() has released it,     *)
(* although the record holds no lock and no count of its users.            *)
NoUseAfterRelease == crashed => faults \cap {"read", "detach"} # {}

(* A bridge_t is not filled in anew while a thread of the bridge it held   *)
(* before is still there: setup_bridges() would set the state back to      *)
(* RUNNING under that thread, and two threads would serve one terminal.    *)
NoThreadLeft ==
    main \in {"scan", "setup"} => \A i \in Ifaces, d \in Dirs : pc[i][d] = "none"

Dead(i, d) == i \in bridges /\ pc[i][d] = "none"

(* "Health monitor + auto-restart loop": a bridge whose reading thread has *)
(* died does not stay in service; it is torn down, to be made again.       *)
RestartsReader == \A i \in Ifaces : Dead(i, "in") ~> ~Dead(i, "in")

(* The same of the writing thread.                                         *)
RestartsWriter == \A i \in Ifaces : Dead(i, "out") ~> ~Dead(i, "out")

(* A bridge never outlives the session of the modem it was made for: the   *)
(* monitor notices a modem that was plugged out and in again.              *)
FollowsModem ==
    (bridges # {} /\ g_session_id # session) ~>
        (bridges = {} \/ g_session_id = session)

(* SIGTERM ends the daemon, with every interface released, whatever its    *)
(* threads and clients do.                                                 *)
Stops == ~g_running ~> (main = "done" /\ \A i \in Ifaces : iface[i] = 0)
=============================================================================
