--------------------------- MODULE QcBridgesProofs ---------------------------
(***************************************************************************)
(* What QcBridges promises for any number of interfaces and of sessions:   *)
(* no thread outlives its bridge into the next setup, and none uses an     *)
(* interface that was released while reads work and the modem stays.       *)
(***************************************************************************)
EXTENDS QcBridges, TLAPS

-----------------------------------------------------------------------------
(* The inductive invariant.                                                *)

Places == {"none", "start", "test", "read", "reading", "stall", "write",
           "got", "send", "sending", "exit"}

Types ==
    /\ TypeOK
    /\ pc \in [Ifaces -> [Dirs -> Places]]
    /\ sessions \in 0..MaxSessions

\* What is not a bridge is not in use, and only the stages from the setup to
\* the release have bridges.
Idle ==
    /\ \A i \in Ifaces \ bridges :
          state[i] # "RUNNING" /\ iface[i] = 0 /\ master[i] = "closed"
    /\ \A i \in bridges : iface[i] # 0
    /\ main \in {"scan", "setup", "wait", "done"} => bridges = {}
    /\ main = "setup" => g_session_id # 0

\* What shutdown_bridges() has done by its stages.
Stages ==
    /\ main \in {"stop", "close", "abort", "join", "release"} => after # "none"
    /\ main \in {"close", "abort", "join", "release"} =>
          \A i \in bridges : state[i] # "RUNNING"
    /\ main \in {"abort", "join", "release"} =>
          \A i \in bridges : master[i] = "closed"

\* A transfer is under way only through an interface, and a thread that has
\* begun counts as alive.
Threads ==
    \A i \in Ifaces, d \in Dirs :
        /\ pc[i][d] \in {"reading", "sending"} => iface[i] # 0
        /\ pc[i][d] \notin {"none", "start"} => alive[i][d]

\* The wait for the threads let none through that is about to use its
\* interface.
Caught ==
    main = "release" =>
        \A i \in bridges, d \in Dirs : pc[i][d] \notin {"read", "send"}

\* While reads work and the modem stays, a thread that may still use its
\* interface has one, and it is that of the modem that is there.
Safe ==
    faults \cap {"read", "detach"} = {} =>
        /\ ~crashed
        /\ \A i \in Ifaces : iface[i] # 0 => iface[i] = session
        /\ \A i \in Ifaces : pc[i]["in"] # "stall"
        /\ \A i \in Ifaces, d \in Dirs : iface[i] = 0 => pc[i][d] \notin {"read", "send"}

IInv == Types /\ Idle /\ Stages /\ NoThreadLeft /\ Threads /\ Caught /\ Safe

-----------------------------------------------------------------------------
(* What the operators of the module do.                                    *)

\* Inside the stages that have no bridges, a thread that is still there can
\* take a step by itself.
LEMMA LeftThreadMoves ==
    ASSUME IInv, bridges = {}, NEW i \in Ifaces, NEW d \in Dirs, pc[i][d] # "none"
    PROVE  Moves(i, d)
<1>1. pc[i][d] \in Places /\ state[i] # "RUNNING" /\ iface[i] = 0 /\ master[i] = "closed"
  BY DEF IInv, Types, Idle
<1>2. pc[i][d] \notin {"reading", "sending"}
  BY <1>1 DEF IInv, Threads
<1> QED
  BY <1>1, <1>2 DEF Moves, Wanted, Places

\* What a step of a thread changes.
Effect(i, d) ==
    /\ pc' \in [Ifaces -> [Dirs -> Places]] /\ alive' \in [Ifaces -> [Dirs -> BOOLEAN]]
    /\ \A j \in Ifaces, e \in Dirs : <<j, e>> # <<i, d>> =>
          pc'[j][e] = pc[j][e] /\ alive'[j][e] = alive[j][e]
    /\ pc[i][d] # "none"
    /\ pc'[i][d] \in {"reading", "sending"} => iface[i] # 0
    /\ pc'[i][d] \notin {"none", "start"} => alive'[i][d]
    /\ pc'[i][d] \in {"read", "send"} => state[i] = "RUNNING" \/ pc'[i][d] = pc[i][d]
    /\ faults \cap {"read", "detach"} = {} =>
          ~crashed' /\ (d = "in" => pc'[i][d] # "stall")

LEMMA ThreadEffect ==
    ASSUME IInv, NEW i \in Ifaces, NEW d \in Dirs, Thread(i, d)
    PROVE  Effect(i, d)
<1> USE DEF Dirs, Places
<1>1. /\ pc \in [Ifaces -> [Dirs -> Places]]
      /\ alive \in [Ifaces -> [Dirs -> BOOLEAN]]
      /\ pc[i][d] \notin {"none", "start"} => alive[i][d]
      /\ faults \cap {"read", "detach"} = {} =>
            /\ ~crashed /\ pc[i]["in"] # "stall"
            /\ iface[i] # 0 => iface[i] = session
            /\ iface[i] = 0 => pc[i][d] \notin {"read", "send"}
      /\ pc[i][d] \in {"reading", "sending"} => iface[i] # 0
  BY DEF IInv, Types, TypeOK, Threads, Safe
<1>2. CASE Start(i, d)
  BY <1>1, <1>2 DEF Start, Effect
<1>3. CASE Exit(i, d)
  BY <1>1, <1>3 DEF Exit, Effect
<1>4. CASE d = "in" /\ TestIn(i)
  BY <1>1, <1>4 DEF TestIn, Go, Wanted, Effect
<1>5. CASE d = "in" /\ Read(i)
  BY <1>1, <1>5 DEF Read, Uses, Go, Gone, threadVars, Effect
<1>6. CASE d = "in" /\ ReadReturns(i)
  BY <1>1, <1>6 DEF ReadReturns, Go, Gone, Effect
<1>7. CASE d = "in" /\ Stall(i)
  BY <1>1, <1>7 DEF Stall, Uses, Go, threadVars, Effect
<1>8. CASE d = "in" /\ Write(i)
  BY <1>1, <1>8 DEF Write, Go, Effect
<1>9. CASE d = "out" /\ TestOut(i)
  BY <1>1, <1>9 DEF TestOut, Go, Effect
<1>10. CASE d = "out" /\ Got(i)
  BY <1>1, <1>10 DEF Got, Go, Wanted, Effect
<1>11. CASE d = "out" /\ Send(i)
  BY <1>1, <1>11 DEF Send, Uses, Go, threadVars, Effect
<1>12. CASE d = "out" /\ SendReturns(i)
  BY <1>1, <1>12 DEF SendReturns, Go, Gone, Effect
<1> QED
  BY <1>2, <1>3, <1>4, <1>5, <1>6, <1>7, <1>8, <1>9, <1>10, <1>11, <1>12 DEF Thread

\* A step of a thread keeps the invariant.
LEMMA ThreadPreserves ==
    ASSUME IInv, NEW i \in Ifaces, NEW d \in Dirs, Thread(i, d)
    PROVE  IInv'
<1>1. Effect(i, d)
  BY ThreadEffect
<1>2. UNCHANGED <<main, after, bridges, g_session_id, retries, g_running, state,
                  master, iface, client, session, sessions, faults>>
  BY DEF Thread, mainVars, bridgeVars, worldVars
<1>3. Types'
  BY <1>1, <1>2 DEF IInv, Types, TypeOK, Effect
<1>4. Idle' /\ Stages'
  BY <1>2 DEF IInv, Idle, Stages
<1>5. NoThreadLeft'
  BY <1>1, <1>2 DEF IInv, NoThreadLeft, Effect
<1>6. Threads'
  BY <1>1, <1>2 DEF IInv, Threads, Effect
<1>7. state[i] = "RUNNING" => i \in bridges /\ iface[i] # 0 /\ main # "release"
  BY DEF IInv, Idle, Stages
<1>8. Caught'
  <2> SUFFICES ASSUME main = "release", NEW j \in bridges, NEW e \in Dirs
               PROVE  pc'[j][e] \notin {"read", "send"}
    BY <1>2 DEF Caught
  <2>1. j \in Ifaces /\ pc[j][e] \notin {"read", "send"} /\ state[i] # "RUNNING"
    BY <1>7 DEF IInv, Types, TypeOK, Caught
  <2>2. CASE j = i /\ e = d
    BY <1>1, <2>1, <2>2 DEF Effect
  <2>3. CASE <<j, e>> # <<i, d>>
    BY <1>1, <2>1, <2>3 DEF Effect
  <2> QED
    BY <2>2, <2>3
<1>9. Safe'
  BY <1>1, <1>2, <1>7 DEF IInv, Safe, Effect, Dirs
<1> QED
  BY <1>3, <1>4, <1>5, <1>6, <1>8, <1>9 DEF IInv

-----------------------------------------------------------------------------
(* The main thread.                                                        *)

\* Steps that move the main thread only.
LEMMA MainMoves ==
    ASSUME IInv, Match \/ NoModem \/ SetupFails \/ Probe \/ Check \/ Sleep \/ Wait
                 \/ Leave \/ Join
    PROVE  IInv'
<1> USE DEF IInv
<1>1. UNCHANGED <<bridges, g_running, bridgeVars, threadVars, worldVars, crashed>>
  BY DEF Match, NoModem, SetupFails, Probe, Check, Sleep, Wait, Leave, Join,
         TearDown, Go2
<1>2. Threads' /\ Safe'
  BY <1>1 DEF Threads, Safe, bridgeVars, threadVars, worldVars
<1>3. Types' /\ Idle' /\ Stages' /\ NoThreadLeft' /\ Caught'
  <2> USE <1>1 DEF bridgeVars, threadVars, worldVars, Types, TypeOK, Idle, Stages,
                   NoThreadLeft, Caught
  <2>1. CASE Match
    BY <2>1 DEF Match, Go2
  <2>2. CASE NoModem
    BY <2>2 DEF NoModem, Go2
  <2>3. CASE SetupFails
    BY <2>3 DEF SetupFails, Go2
  <2>4. CASE Probe
    BY <2>4, QcConstants DEF Probe, QcConstants
  <2>5. CASE Check
    BY <2>5 DEF Check, TearDown, Go2
  <2>6. CASE Sleep
    BY <2>6 DEF Sleep, Go2
  <2>7. CASE Wait
    <3>1. \A i \in Ifaces, d \in Dirs : pc[i][d] = "none"
      BY <2>7, LeftThreadMoves DEF Wait, Settled
    <3> QED
      BY <2>7, <3>1 DEF Wait, Go2
  <2>8. CASE Leave
    BY <2>8 DEF Leave, TearDown, Go2
  <2>9. CASE Join
    <3>1. \A i \in bridges, d \in Dirs : pc[i][d] \notin {"read", "send"}
      BY <2>9 DEF Join, Settled, Moves, Threads
    <3> QED
      BY <2>9, <3>1 DEF Join, Go2
  <2> QED
    BY <2>1, <2>2, <2>3, <2>4, <2>5, <2>6, <2>7, <2>8, <2>9
<1> QED
  BY <1>2, <1>3

\* The bridges that setup_bridges() makes.
LEMMA SetupPreserves ==
    ASSUME IInv, Setup
    PROVE  IInv'
<1>1. PICK opened \in SUBSET Ifaces :
         /\ opened # {} /\ Create(opened)
         /\ IF Partial(opened)
            THEN Go2("stop") /\ after' = "wait" /\ retries' = retries + 1
            ELSE Go2("probe") /\ UNCHANGED <<after, retries>>
  BY DEF Setup
<1>2. /\ main = "setup" /\ session = g_session_id /\ g_session_id # 0
      /\ bridges = {} /\ session \in 0..MaxSessions
      /\ \A i \in Ifaces, d \in Dirs : pc[i][d] = "none"
      /\ UNCHANGED <<g_session_id, g_running, worldVars, crashed>>
      /\ main' \in {"stop", "probe"} /\ after' \in {after, "wait"}
  BY <1>1 DEF Setup, IInv, Types, TypeOK, Idle, NoThreadLeft, Go2
<1>3. main' = "stop" => after' # "none"
  BY <1>1 DEF Go2
<1>4. retries' \in 0..MaxPartial
  BY <1>1, QcConstants DEF QcConstants, IInv, Types, TypeOK, Partial
<1>5. Types'
  BY <1>1, <1>2, <1>4 DEF IInv, Types, TypeOK, Create, Places, worldVars
<1>6. Idle' /\ Stages' /\ NoThreadLeft' /\ Caught'
  BY <1>1, <1>2, <1>3 DEF IInv, Types, TypeOK, Create, Idle, Stages, NoThreadLeft, Caught
<1>7. Threads' /\ Safe'
  BY <1>1, <1>2 DEF IInv, Types, TypeOK, Create, Threads, Safe, worldVars, Dirs
<1> QED
  BY <1>5, <1>6, <1>7 DEF IInv

\* The steps of shutdown_bridges() but the wait for the threads.
LEMMA ShutdownPreserves ==
    ASSUME IInv, Stop \/ Close \/ Abort \/ Release
    PROVE  IInv'
<1> USE DEF IInv
<1>1. CASE Stop
  <2> USE <1>1 DEF Stop, Go2, threadVars, worldVars
  <2>1. Types' /\ Idle' /\ Stages' /\ NoThreadLeft' /\ Caught'
    BY DEF Types, TypeOK, Idle, Stages, NoThreadLeft, Caught
  <2>2. Threads' /\ Safe'
    BY DEF Threads, Safe
  <2> QED
    BY <2>1, <2>2
<1>2. CASE Close
  <2> USE <1>2 DEF Close, threadVars
  <2>1. Types' /\ Idle' /\ Stages' /\ NoThreadLeft' /\ Caught'
    BY DEF Types, TypeOK, Idle, Stages, NoThreadLeft, Caught
  <2>2. Threads' /\ Safe'
    BY DEF Threads, Safe
  <2> QED
    BY <2>1, <2>2
<1>3. ASSUME pc' = [i \in Ifaces |-> Aborted(i)]
      PROVE  /\ pc' \in [Ifaces -> [Dirs -> Places]]
             /\ \A i \in Ifaces, d \in Dirs :
                   /\ \/ pc'[i][d] = pc[i][d]
                      \/ pc[i][d] \in {"reading", "sending"} /\ pc'[i][d] = "exit"
                   /\ i \in bridges => pc'[i][d] \notin {"reading", "sending"}
  BY <1>3 DEF Types, Aborted, Places
<1>4. CASE Abort
  <2> USE <1>3, <1>4 DEF Abort, Go2, bridgeVars, worldVars
  <2>1. Types' /\ Idle' /\ Stages' /\ NoThreadLeft' /\ Caught'
    BY DEF Types, TypeOK, Idle, Stages, NoThreadLeft, Caught
  <2>2. Threads' /\ Safe'
    BY DEF Threads, Safe, Dirs
  <2> QED
    BY <2>1, <2>2
<1>5. CASE Release
  <2> USE <1>3, <1>5 DEF Release, Go2, worldVars
  <2>1. main' \in {"wait", "done"}
    BY DEF Types, TypeOK, Stages
  <2>2. Stages' /\ NoThreadLeft' /\ Caught'
    BY <2>1 DEF Stages, NoThreadLeft, Caught
  <2>3. Types'
    BY <2>1, QcConstants DEF QcConstants, Types, TypeOK
  <2>4. \A i \in Ifaces : state'[i] # "RUNNING" /\ iface'[i] = 0 /\ master'[i] = "closed"
    BY DEF Types, TypeOK, Idle, Stages
  <2>5. Idle'
    BY <2>1, <2>4 DEF Idle
  <2>6. Threads'
    BY DEF Threads
  <2>7. Safe'
    BY DEF Safe, Dirs, Caught, Idle
  <2> QED
    BY <2>2, <2>3, <2>5, <2>6, <2>7
<1> QED
  BY <1>1, <1>2, <1>4, <1>5

-----------------------------------------------------------------------------
(* The modem, the clients and the signal.                                  *)

\* The world keeps the invariant: a modem that appears finds no interface of
\* an earlier one, unless one was unplugged.
LEMMA WorldPreserves ==
    ASSUME IInv, World
    PROVE  IInv'
<1> USE DEF IInv
<1>1. UNCHANGED <<main, after, bridges, g_session_id, retries, state, master, iface,
                  alive, pc, faults, crashed>>
  BY DEF World, Attach, Detach, Signal, Client, mainVars, bridgeVars, threadVars,
         worldVars
<1>2. session' \in 0..MaxSessions /\ sessions' \in 0..MaxSessions
  BY QcConstants DEF QcConstants, World, Attach, Detach, Signal, Client, worldVars,
                     Types, TypeOK
<1>3. Types' /\ Idle' /\ Stages' /\ NoThreadLeft' /\ Caught' /\ Threads'
  BY <1>1, <1>2 DEF Types, TypeOK, Idle, Stages, NoThreadLeft, Caught, Threads
<1>4. Safe'
  BY <1>1 DEF Safe, World, Attach, Detach, Signal, Client, worldVars
<1> QED
  BY <1>3, <1>4

-----------------------------------------------------------------------------
(* The theorems.                                                           *)

\* The daemon starts with no bridge and no thread.
LEMMA InitHolds == Init => IInv
<1> SUFFICES ASSUME Init PROVE IInv
  OBVIOUS
<1> USE QcConstants DEF QcConstants, Init
<1>1. Types
  BY DEF Types, TypeOK, Places
<1>2. Idle /\ Stages /\ NoThreadLeft /\ Threads /\ Caught
  BY DEF Idle, Stages, NoThreadLeft, Threads, Caught
<1>3. Safe
  BY DEF Safe, Dirs
<1> QED
  BY <1>1, <1>2, <1>3 DEF IInv

\* Every step keeps the invariant.
LEMMA NextPreserves == IInv /\ [Next]_vars => IInv'
<1> SUFFICES ASSUME IInv, [Next]_vars PROVE IInv'
  OBVIOUS
<1>1. CASE Main
  BY <1>1, MainMoves, SetupPreserves, ShutdownPreserves DEF Main
<1>2. CASE World
  BY <1>2, WorldPreserves
<1>3. CASE UNCHANGED vars
  BY <1>3 DEF vars, mainVars, bridgeVars, threadVars, worldVars, IInv, Types, TypeOK,
              Idle, Stages, NoThreadLeft, Threads, Caught, Safe
<1>4. CASE \E i \in Ifaces, d \in Dirs : Thread(i, d)
  BY <1>4, ThreadPreserves
<1> QED
  BY <1>1, <1>2, <1>3, <1>4 DEF Next, Done

\* The invariant holds throughout: it carries what setup_bridges(), the
\* threads and shutdown_bridges() rely on from one stage to the next.
THEOREM Invariant == Spec => []IInv
  BY InitHolds, NextPreserves, PTL DEF Spec

\* The variables keep their types: a bridge's record and its threads are only
\* ever in the states the code names.
THEOREM TypeCorrect == Spec => []TypeOK
<1>1. IInv => TypeOK
  BY DEF IInv, Types
<1> QED
  BY <1>1, Invariant, PTL

\* No thread is left when the records of the bridges are filled in anew,
\* however many interfaces there are and whatever fails: the five seconds
\* before a rescan are enough for all of them to end.
THEOREM NoThreadLeftHolds == Spec => []NoThreadLeft
<1>1. IInv => NoThreadLeft
  BY DEF IInv
<1> QED
  BY <1>1, Invariant, PTL

\* No thread uses an interface that shutdown_bridges() has released, while
\* reads do not fail and the modem stays.
THEOREM NoUseAfterReleaseHolds == Spec => []NoUseAfterRelease
<1>1. IInv => NoUseAfterRelease
  BY DEF IInv, Safe, NoUseAfterRelease
<1> QED
  BY <1>1, Invariant, PTL

=============================================================================
