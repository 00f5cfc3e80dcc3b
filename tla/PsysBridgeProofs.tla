-------------------------- MODULE PsysBridgeProofs --------------------------
(***************************************************************************)
(* Proofs about the front bridge, for any number of attempts, clients and  *)
(* signals, and for producers that obey SIGINT as well as for those that   *)
(* do not.                                                                 *)
(***************************************************************************)
EXTENDS PsysBridge, TLAPS

\* A pending event is the device's present client count.
EventIsNewest == event # NoEvent => subscribed /\ event = clients

\* From the serve loop on, the daemon hears of every change.
Hearing == pc \in Session \cup {"wait"} => subscribed

\* gone_since lives in run_session, and with nothing left to collect it is the
\* truth about the clients.
GoneInSession == gone => pc \in Session /\ (event = NoEvent => clients = 0)

\* Why a daemon is on its way out, and with which children it may get there.
WayOut ==
    /\ pc \in {"except", "finally"} => signals >= 1 \/ outlasted
    /\ pc = "exited" /\ registered /\ Alive => outlasted \/ signals >= 2

\* The driver is recycled only while another attempt is left.
AttemptLeft == pc \in {"unload", "load"} => attempt < MAX_ATTEMPTS

\* Why a session is being ended; for want of clients only with gone_since set.
OverReason == pc = "stopOver" => over # "none" /\ (over = "clientsGone" => gone)

Inv ==
    /\ DataOK /\ NoStrayProducer
    /\ EventIsNewest /\ Hearing /\ GoneInSession
    /\ WayOut /\ AttemptLeft /\ OverReason

USE AttemptsAssumption, ClientsAssumption, SignalsAssumption, StubbornAssumption

-----------------------------------------------------------------------------
\* The initial states satisfy the inductive invariant: no child, no client, and
\* nothing to hear yet.
LEMMA InitInv == Init => Inv
  BY DEF Init, Inv, DataOK, NoStrayProducer, EventIsNewest, Hearing, GoneInSession,
         WayOut, AttemptLeft, OverReason, Alive, NoEvent, PC, Startup, Session, Looping, Stopping, Closing,
         Childless

\* The daemon's, the producer's and the device's flags start as Booleans.
LEMMA FlagsInit == Init => FlagsOK
  BY Zenon DEF Init, FlagsOK

\* No step of the daemon or its environment gives a flag another value.
LEMMA FlagsNext == FlagsOK /\ [Next]_vars => FlagsOK'
<1> SUFFICES ASSUME FlagsOK, [Next]_vars PROVE FlagsOK'
  OBVIOUS
<1> USE DEF FlagsOK, daemonVars, timerVars, childVars, loopbackVars, machineVars
<1>1. CASE OpenLoopback
  <2>1. CASE Exit BY <1>1, <2>1 DEF OpenLoopback, Exit, DropLocals
  <2>2. CASE ~Exit BY <1>1, <2>2 DEF OpenLoopback
  <2> QED BY <2>1, <2>2
<1>2. CASE Advertise BY <1>2 DEF Advertise
<1>3. CASE Subscribe BY <1>3 DEF Subscribe
<1>4. CASE Serve BY <1>4 DEF Serve, poll_client_count, Wanted
<1>5. CASE CheckOthers BY <1>5 DEF CheckOthers
<1>6. CASE Refuse BY <1>6 DEF Refuse, poll_client_count, Return, DropLocals
<1>7. CASE Spawn BY <1>7 DEF Spawn
<1>8. CASE Register BY <1>8 DEF Register
<1>9. CASE Relay
  <2>1. first_frame' \in BOOLEAN /\ pipe' \in BOOLEAN
    BY <1>9 DEF Relay
  <2>2. UNCHANGED <<gone, registered, late, graceUp, flowing, outlasted, subscribed, capture,
                    others, present>>
    BY <1>9 DEF Relay
  <2> QED BY <2>1, <2>2
<1>10. CASE PollClients
  <2>1. gone' \in BOOLEAN /\ graceUp' \in {graceUp, FALSE}
    BY <1>10 DEF PollClients, GoneAfter
  <2>2. UNCHANGED <<first_frame, registered, late, flowing, pipe, outlasted, subscribed,
                    capture, others, present>>
    BY <1>10 DEF PollClients
  <2> QED BY <2>1, <2>2
<1>11. CASE SessionStopped BY <1>11 DEF SessionStopped, Return, DropLocals
<1>12. CASE Respawn BY <1>12 DEF Respawn
<1>13. CASE StuckStopped BY <1>13 DEF StuckStopped
<1>14. CASE Unload BY <1>14 DEF Unload
<1>15. CASE Load BY <1>15 DEF Load
<1>16. CASE GiveUp BY <1>16 DEF GiveUp, Return, DropLocals
<1>17. CASE StopFails BY <1>17 DEF StopFails, Return, DropLocals
<1>18. CASE LeaveExcept BY <1>18 DEF LeaveExcept
<1>19. CASE IgnoreSignals BY <1>19 DEF IgnoreSignals
<1>20. CASE Teardown
  <2>1. CASE Exit BY <1>20, <2>1 DEF Teardown, Exit, DropLocals
  <2>2. CASE ~Exit BY <1>20, <2>2 DEF Teardown
  <2> QED BY <2>1, <2>2
<1>21. CASE ExitStopped BY <1>21 DEF ExitStopped, Exit, DropLocals
<1>22. CASE Signal BY <1>22 DEF Signal, Exit, Return, DropLocals
<1>23. CASE SystemdRestart BY <1>23 DEF SystemdRestart
<1>24. CASE Produce BY <1>24 DEF Produce
<1>25. CASE Crash BY <1>25 DEF Crash
<1>26. CASE Obey BY <1>26 DEF Obey
<1>27. CASE StartTimeout BY <1>27 DEF StartTimeout
<1>28. CASE GraceElapses BY <1>28 DEF GraceElapses
<1>29. CASE ClientOpens BY <1>29 DEF ClientOpens, SetClients
<1>30. CASE ClientCloses BY <1>30 DEF ClientCloses, SetClients
<1>31. CASE OthersChange BY <1>31 DEF OthersChange
<1>32. CASE DevicesAppear BY <1>32 DEF DevicesAppear
<1>33. CASE UNCHANGED vars BY <1>33 DEF vars
<1> QED
  BY <1>1, <1>2, <1>3, <1>4, <1>5, <1>6, <1>7, <1>8, <1>9, <1>10, <1>11, <1>12,
     <1>13, <1>14, <1>15, <1>16, <1>17, <1>18, <1>19, <1>20, <1>21, <1>22, <1>23,
     <1>24, <1>25, <1>26, <1>27, <1>28, <1>29, <1>30, <1>31, <1>32, <1>33
  DEF Next, Daemon, Environment

\* Every step of the daemon, the producer, the clients and systemd keeps it.
LEMMA NextInv == Inv /\ [Next]_vars => Inv'
<1> SUFFICES ASSUME Inv, [Next]_vars PROVE Inv'
  OBVIOUS
<1> USE DEF Inv, DataOK, NoStrayProducer, EventIsNewest, Hearing, GoneInSession, WayOut,
            AttemptLeft, OverReason, Alive, NoEvent, PC, Startup, Session, Looping, Stopping, Closing, Childless,
            daemonVars, timerVars, childVars, loopbackVars, machineVars
<1>1. CASE OpenLoopback BY <1>1 DEF OpenLoopback, Exit, DropLocals
<1>2. CASE Advertise BY <1>2 DEF Advertise
<1>3. CASE Subscribe BY <1>3 DEF Subscribe
<1>4. CASE Serve BY <1>4 DEF Serve, poll_client_count, Wanted
<1>5. CASE CheckOthers BY <1>5 DEF CheckOthers
<1>6. CASE Refuse BY <1>6 DEF Refuse, poll_client_count, Return, DropLocals
<1>7. CASE Spawn BY <1>7 DEF Spawn
<1>8. CASE Register BY <1>8 DEF Register
<1>9. CASE Relay BY <1>9 DEF Relay, BreakStuck, RaiseSessionOver, Interrupted, Overdue
<1>10. CASE PollClients
  <2>1. PICK count \in 0..NoEvent :
           /\ poll_client_count(count)
           /\ \/ /\ count # NoEvent
                 /\ gone' = GoneAfter(count) /\ graceUp' = FALSE
                 /\ pc' = "relay" /\ UNCHANGED <<over, child>>
              \/ /\ count = NoEvent
                 /\ UNCHANGED <<gone, graceUp>>
                 /\ \/ gone /\ graceUp /\ RaiseSessionOver("clientsGone")
                    \/ ~(gone /\ graceUp) /\ pc' = "relay" /\ UNCHANGED <<over, child>>
    BY <1>10, Zenon DEF PollClients
  <2>2. gone' = (count = 0) => (gone' <=> count = 0)
    BY Zenon
  <2>3. \/ count = NoEvent /\ UNCHANGED gone
        \/ count # NoEvent /\ (gone' <=> count = 0)
    BY <2>1, <2>2, Zenon DEF GoneAfter
  <2>4. /\ pc = "poll" /\ count = event /\ event' = NoEvent
        /\ UNCHANGED <<attempt, registered, signals, outlasted, clients, subscribed,
                       driver, isys>>
    BY <1>10, <2>1 DEF PollClients, poll_client_count
  <2>5. /\ \/ pc' = "relay" /\ over' = over
           \/ pc' = "stopOver" /\ over' = "clientsGone" /\ count = NoEvent /\ gone
        /\ child' \in {child, Interrupted}
    BY <2>1, Zenon DEF RaiseSessionOver
  <2>6. QED BY <2>3, <2>4, <2>5 DEF Interrupted
<1>11. CASE SessionStopped BY <1>11 DEF SessionStopped, Return, DropLocals
<1>12. CASE Respawn BY <1>12 DEF Respawn
<1>13. CASE StuckStopped BY <1>13 DEF StuckStopped
<1>14. CASE Unload BY <1>14 DEF Unload
<1>15. CASE Load BY <1>15 DEF Load
<1>16. CASE GiveUp BY <1>16 DEF GiveUp, Return, DropLocals
<1>17. CASE StopFails BY <1>17 DEF StopFails, Return, DropLocals
<1>18. CASE LeaveExcept BY <1>18 DEF LeaveExcept
<1>19. CASE IgnoreSignals BY <1>19 DEF IgnoreSignals
<1>20. CASE Teardown BY <1>20 DEF Teardown, Exit, DropLocals, Interrupted
<1>21. CASE ExitStopped BY <1>21 DEF ExitStopped, Exit, DropLocals
<1>22. CASE Signal BY <1>22 DEF Signal, Exit, Return, DropLocals
<1>23. CASE SystemdRestart BY <1>23 DEF SystemdRestart
<1>24. CASE Produce BY <1>24 DEF Produce
<1>25. CASE Crash BY <1>25 DEF Crash
<1>26. CASE Obey BY <1>26 DEF Obey
<1>27. CASE StartTimeout BY <1>27 DEF StartTimeout
<1>28. CASE GraceElapses BY <1>28 DEF GraceElapses
<1>29. CASE ClientOpens BY <1>29 DEF ClientOpens, SetClients
<1>30. CASE ClientCloses BY <1>30 DEF ClientCloses, SetClients
<1>31. CASE OthersChange BY <1>31 DEF OthersChange
<1>32. CASE DevicesAppear BY <1>32 DEF DevicesAppear
<1>33. CASE UNCHANGED vars BY <1>33 DEF vars
<1> QED
  BY <1>1, <1>2, <1>3, <1>4, <1>5, <1>6, <1>7, <1>8, <1>9, <1>10, <1>11, <1>12,
     <1>13, <1>14, <1>15, <1>16, <1>17, <1>18, <1>19, <1>20, <1>21, <1>22, <1>23,
     <1>24, <1>25, <1>26, <1>27, <1>28, <1>29, <1>30, <1>31, <1>32, <1>33
  DEF Next, Daemon, Environment

-----------------------------------------------------------------------------
\* The inductive invariant holds in every reachable state.
LEMMA Invariance == Spec => [](FlagsOK /\ Inv)
<1>1. Init => FlagsOK /\ Inv
  BY FlagsInit, InitInv
<1>2. (FlagsOK /\ Inv) /\ [Next]_vars => (FlagsOK /\ Inv)'
  BY FlagsNext, NextInv
<1>3. QED BY <1>1, <1>2, PTL DEF Spec

\* Every variable of the front bridge always has its type.
THEOREM TypeCorrect == Spec => []TypeOK
<1>1. FlagsOK /\ Inv => TypeOK
  BY DEF Inv, TypeOK
<1>2. QED BY <1>1, Invariance, PTL

\* run_session and main never spawn, recycle the driver or go idle over a live
\* child of their own.
THEOREM NoStray == Spec => []NoStrayProducer
<1>1. FlagsOK /\ Inv => NoStrayProducer
  BY DEF Inv
<1>2. QED BY <1>1, Invariance, PTL

\* main's finally clause leaves systemd no registered, obedient producer to kill.
THEOREM CleanExit == Spec => []RegisteredProducerIsStopped
<1>1. FlagsOK /\ Inv => RegisteredProducerIsStopped
  BY DEF Inv, DataOK, WayOut, RegisteredProducerIsStopped
<1>2. QED BY <1>1, Invariance, PTL

\* The grace period of run_session never runs out under an attached client.
THEOREM NoWatcherDropped == Spec => []GoneMeansNobody
<1>1. FlagsOK /\ Inv => GoneMeansNobody
  BY DEF Inv, GoneInSession, GoneMeansNobody
<1>2. QED BY <1>1, Invariance, PTL

\* Only these steps bring the daemon back to the idle state.
LEMMA WaysBack ==
    ASSUME Inv, [Next]_vars, pc' = "wait", pc # "wait"
    PROVE  Subscribe \/ Refuse \/ SessionStopped \/ GiveUp
  BY DEF Next, Daemon, Environment, vars, daemonVars, OpenLoopback, Advertise, Serve, CheckOthers,
         Spawn, Register, Relay, PollClients, Respawn, StuckStopped, Unload, Load, StopFails,
         LeaveExcept, IgnoreSignals, Teardown, ExitStopped, Signal, SystemdRestart, Produce,
         Crash, Obey, StartTimeout, GraceElapses, ClientOpens, ClientCloses, OthersChange,
         DevicesAppear, Exit, Return, RaiseSessionOver, BreakStuck

\* What can change while the daemon is idle.
LEMMA WhileIdle ==
    ASSUME Inv, [Next]_vars, pc' = "wait", pc = "wait"
    PROVE  Serve \/ ClientOpens \/ ClientCloses \/ UNCHANGED <<event, clients>>
  BY DEF Next, Daemon, Environment, vars, daemonVars, loopbackVars, OpenLoopback, Advertise,
         Subscribe, CheckOthers, Refuse, Spawn, Register, Relay, PollClients, SessionStopped,
         Respawn, StuckStopped, Unload, Load, GiveUp, StopFails,
         LeaveExcept, IgnoreSignals, Teardown, ExitStopped, Signal, SystemdRestart, Produce,
         Crash, Obey, StartTimeout, GraceElapses, OthersChange, DevicesAppear,
         Exit, Return, RaiseSessionOver, BreakStuck, Stopping

\* A count that was collected was the present one, and the daemon does not go
\* idle on a positive one.
LEMMA StrandingStep ==
    ASSUME Inv, [Next]_vars, Stranded'
    PROVE  Stranded \/ pc \in {"giveup", "subscribe"} \/ over = "writeFailed"
<1> USE DEF Inv, DataOK, EventIsNewest, Hearing, GoneInSession, OverReason, Stranded, NoEvent
<1>1. CASE pc # "wait"
  <2>1. Subscribe \/ Refuse \/ SessionStopped \/ GiveUp
    BY <1>1, WaysBack
  <2>2. CASE Subscribe \/ GiveUp
    BY <2>2 DEF Subscribe, GiveUp
  <2>3. CASE Refuse
    BY <2>3 DEF Refuse, poll_client_count, Return
  <2>4. CASE SessionStopped
    BY <2>4 DEF SessionStopped, Return, loopbackVars, PC, Session
  <2> QED BY <2>1, <2>2, <2>3, <2>4
<1>2. CASE pc = "wait"
  <2>1. Serve \/ ClientOpens \/ ClientCloses \/ UNCHANGED <<event, clients>>
    BY <1>2, WhileIdle
  <2>2. CASE Serve
    BY <2>2 DEF Serve, poll_client_count, Wanted
  <2>3. CASE ClientOpens \/ ClientCloses
    <3>1. subscribed
      BY <1>2, Zenon
    <3>2. PICK n \in 0..MaxClients : SetClients(n)
      BY <2>3 DEF ClientOpens, ClientCloses
    <3>3. event' = n
      BY <3>1, <3>2, Zenon DEF SetClients
    <3> QED BY <3>3
  <2>4. CASE UNCHANGED <<event, clients>>
    BY <1>2, <2>4
  <2> QED BY <2>1, <2>2, <2>3, <2>4
<1> QED BY <1>1, <1>2

\* Every way back to the idle state leaves nobody behind or leaves an event to
\* collect, however clients came and went since the last poll; apart from the
\* exceptions the code makes.
THEOREM NobodyStranded == Spec => NeverStrandsWatchers
<1>1. ASSUME Inv, [Next]_vars
      PROVE  [Stranded' => Stranded \/ pc \in {"giveup", "subscribe"} \/ over = "writeFailed"]_vars
  BY <1>1, StrandingStep
<1> QED BY <1>1, Invariance, PTL DEF Spec, NeverStrandsWatchers

-----------------------------------------------------------------------------
\* A step of the abstract camera that starts nothing: d and p are session and
\* power before it, e and q after it.
LEMMA Quiet ==
  ASSUME NEW d \in BOOLEAN, NEW e \in BOOLEAN, NEW p \in BOOLEAN, NEW q \in BOOLEAN,
         p => d, q => e, q => p, e => d
  PROVE  \/ p /\ q = FALSE /\ e \in {d, FALSE}
         \/ d /\ ~p /\ e = FALSE /\ q = p
         \/ e = d /\ q = p
<1>1. (d = TRUE \/ d = FALSE) /\ (e = TRUE \/ e = FALSE)
  BY Zenon
<1>2. (p = TRUE \/ p = FALSE) /\ (q = TRUE \/ q = FALSE)
  BY Zenon
<1>3. QED BY <1>1, <1>2, Zenon

\* One step of the bridge is one step of the abstract camera, or none: a child
\* is only spawned inside a session, and a session only begins while a client
\* has the loopback open, since the count that begins it is the present one.
LEMMA StepImplements == Inv /\ [Next]_vars => [Abstract!Next]_(Abstract!vars)
<1> SUFFICES ASSUME Inv, [Next]_vars PROVE [Abstract!Next]_(Abstract!vars)
  OBVIOUS
<1> DEFINE w == clients > 0
           s == pc \in Session \/ Alive
<1>1. CASE Spawn
  <2>1. s /\ ~Alive /\ Alive' /\ s' /\ clients' = clients
    BY <1>1 DEF Spawn, Inv, NoStrayProducer, Childless, Alive, Session, loopbackVars
  <2>2. s' = s /\ Alive' = TRUE /\ w' = w
    BY <2>1, Zenon DEF Alive
  <2>3. QED BY <2>1, <2>2, Zenon DEF Abstract!Next, Abstract!PowerOn
<1>2. CASE ClientOpens \/ ClientCloses
  <2>1. child' = child /\ pc' = pc
    BY <1>2 DEF ClientOpens, ClientCloses, childVars, daemonVars
  <2>2. Alive' = Alive /\ s' = s
    BY <2>1, Zenon DEF Alive
  <2>3. \/ w /\ w' = FALSE
        \/ ~w /\ w' = TRUE
        \/ w' = w
    OBVIOUS
  <2>4. QED
    BY <2>2, <2>3, Zenon DEF Abstract!Next, Abstract!Open, Abstract!Close, Abstract!vars
<1>3. ASSUME Alive' => Alive, s' => s, w' = w PROVE [Abstract!Next]_(Abstract!vars)
  <2>1. /\ s \in BOOLEAN /\ s' \in BOOLEAN /\ Alive \in BOOLEAN /\ Alive' \in BOOLEAN
        /\ (Alive => s) /\ (Alive' => s')
    BY DEF Alive
  <2>2. \/ Alive /\ Alive' = FALSE /\ s' \in {s, FALSE}
        \/ s /\ ~Alive /\ s' = FALSE /\ Alive' = Alive
        \/ s' = s /\ Alive' = Alive
    <3> HIDE DEF s
    <3> QED BY <1>3, <2>1, Quiet, Zenon
  <2>3. QED
    BY <1>3, <2>2, Zenon DEF Abstract!Next, Abstract!PowerOff, Abstract!End, Abstract!vars
<1>4. CASE Serve
  <2>1. UNCHANGED <<child, clients>> /\ pc = "wait"
    BY <1>4 DEF Serve, childVars
  <2>2. Alive' = Alive /\ w' = w
    BY <2>1, Zenon DEF Alive
  <2>3. CASE pc' = "wait"
    <3>1. s' => s
      BY <2>1, <2>3 DEF Alive
    <3>2. QED BY <2>2, <3>1, <1>3, Zenon
  <2>4. CASE pc' = "check"
    <3>1. w /\ ~s
      BY <1>4, <2>1, <2>4 DEF Serve, poll_client_count, Wanted, Inv, DataOK, EventIsNewest,
         NoEvent, NoStrayProducer, Childless, Session, Looping, Stopping
    <3>2. s' = TRUE
      BY <2>4 DEF Session
    <3>3. QED BY <2>2, <3>1, <3>2, Zenon DEF Abstract!Next, Abstract!Begin
  <2>5. QED BY <1>4, <2>3, <2>4 DEF Serve
<1>5. CASE /\ Next /\ ~Spawn /\ ~ClientOpens /\ ~ClientCloses /\ ~Serve
  <2>1. (Alive' => Alive) /\ clients' = clients
    BY <1>5
    DEF Next, Daemon, Environment, Inv, DataOK, Alive, Interrupted, childVars, loopbackVars,
        OpenLoopback, Advertise, Subscribe, CheckOthers, Refuse, Register, Relay,
        PollClients, SessionStopped, Respawn, StuckStopped, Unload, Load, GiveUp, StopFails,
        LeaveExcept, IgnoreSignals, Teardown, ExitStopped, Signal, SystemdRestart, Produce,
        Crash, Obey, StartTimeout, GraceElapses, OthersChange, DevicesAppear,
        Exit, RaiseSessionOver, BreakStuck
  <2>2. pc' \in Session => pc \in Session
    BY <1>5
    DEF Next, Daemon, Environment, daemonVars, Session, Looping, Stopping, Startup,
        OpenLoopback, Advertise, Subscribe, CheckOthers, Refuse, Register, Relay,
        PollClients, SessionStopped, Respawn, StuckStopped, Unload, Load, GiveUp, StopFails,
        LeaveExcept, IgnoreSignals, Teardown, ExitStopped, Signal, SystemdRestart, Produce,
        Crash, Obey, StartTimeout, GraceElapses, OthersChange, DevicesAppear,
        Exit, Return
  <2>3. (s' => s) /\ w' = w
    BY <2>1, <2>2
  <2>4. QED BY <2>1, <2>3, <1>3
<1>6. CASE UNCHANGED vars
  <2>1. child' = child /\ pc' = pc /\ clients' = clients
    BY <1>6 DEF vars, childVars, daemonVars, loopbackVars
  <2>2. Alive' = Alive /\ s' = s /\ w' = w
    BY <2>1, Zenon DEF Alive
  <2>3. QED BY <2>2, <1>3, Zenon
<1> QED BY <1>1, <1>2, <1>4, <1>5, <1>6

\* The front bridge implements the abstract on-demand camera: its producer never
\* runs without an application having opened the loopback.
THEOREM Implements == Spec => ImplementsOnDemand
<1>1. Init => Abstract!Init
  <2>1. ASSUME Init PROVE ~(clients > 0) /\ ~(pc \in Session \/ Alive)
    BY <2>1 DEF Init, Alive, Session, Looping, Stopping
  <2>2. QED BY <2>1 DEF Abstract!Init, Alive
<1>2. QED
  BY <1>1, Invariance, StepImplements, PTL DEF Spec, ImplementsOnDemand, Abstract!Spec
=============================================================================
