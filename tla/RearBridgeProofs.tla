-------------------------- MODULE RearBridgeProofs --------------------------
(***************************************************************************)
(* Proofs about the rear bridge, for every setting of its timeouts, sleeps *)
(* and limits that leaves the stop budget below TimeoutStopSec, for any    *)
(* number of clients and signals, and for producers that ignore SIGINT.    *)
(***************************************************************************)
EXTENDS RearBridge, FiniteSetTheorems, SequenceTheorems, TLAPS

\* The places where the daemon relies on having no live child.
Childless == Startup \cup {"wait", "backoff", "check", "refuse", "spawn", "respawn", "retry",
                           "giveup"}
NoStrayProducer == pc \in Childless => ~Alive

\* The daemon hears of every change, and a pending event is the present count.
Hearing == pc \in Session \cup {"wait", "backoff"} => subscribed
EventIsNewest == event # NoEvent => subscribed /\ event = clients

\* With nothing left to collect gone_since is no older than the client's absence.
GoneIsEmpty ==
    pc = "relay" /\ gone_since # None /\ event = NoEvent => clients = 0 /\ empty >= gone_since

AttemptLeft == pc = "retry" => attempt < MAX_ATTEMPTS

\* A signalled daemon is on its way out, and the only time that passes there is
\* that of the stop_gst of the finally clause.
StopClock ==
    /\ signals > 0 => pc \in Closing \cup {"exited"}
    /\ signals = 0 => termAge = 0
    /\ pc \in {"except", "finally", "teardown"} => termAge = 0
    /\ pc = "stopExit" => termAge <= stopAge
    /\ termAge <= STOP_BUDGET

\* A child in a stop_gst has had SIGINT for as long as the stop_gst lasts, and the
\* way out without a signal leads through a stop_gst that used up its budget.
Patience ==
    /\ pc \in Stopping \cup {"stopExit"} =>
          child # "running" /\ (child = "interrupted" => patience >= stopAge)
    /\ pc = "except" => signals >= 1
    /\ pc \in {"finally", "teardown"} /\ signals = 0 /\ Alive => patience >= STOP_BUDGET

Inv ==
    /\ DataOK /\ NoStrayProducer /\ Hearing /\ EventIsNewest /\ GoneIsEmpty /\ AttemptLeft
    /\ StopClock /\ Patience /\ KilledOnlyAfterBudget

\* What is assumed of the constants, one by one.
LEMMA ConstantTypes ==
    /\ MAX_ATTEMPTS \in Nat \ {0} /\ FIRST_FRAME_TIMEOUT \in Nat \ {0}
    /\ STOP_BUDGET \in Nat \ {0} /\ MINUTE \in Nat \ {0}
    /\ REFUSE_SLEEP \in Nat /\ RESPAWN_SLEEP \in Nat /\ RETRY_SLEEP \in Nat
    /\ GIVEUP_SLEEP \in Nat /\ BACKOFF_SLEEP \in Nat /\ RestartSec \in Nat
    /\ TimeoutStopSec \in Nat /\ MaxClients \in Nat \ {0}
    /\ CLIENT_GRACE \in Nat /\ MAX_RESTARTS_PER_MIN \in Nat /\ MaxSignals \in Nat
    /\ STOP_BUDGET < TimeoutStopSec
  BY ConstantsAssumption, BudgetAssumption

-----------------------------------------------------------------------------
\* No child, no client, no signal, and nothing to hear yet.
LEMMA InitInv == Init => Inv
  BY ConstantTypes
  DEF Init, Inv, DataOK, NoStrayProducer, Hearing, EventIsNewest, GoneIsEmpty, AttemptLeft,
      StopClock, Patience, KilledOnlyAfterBudget, Childless, Alive, NoEvent, None, PC, Startup,
      Stopping, Session, Closing

\* Every step of the daemon, the producer, the clients, systemd and time keeps it.
LEMMA NextInv == Inv /\ [Next]_vars => Inv'
<1> SUFFICES ASSUME Inv, [Next]_vars PROVE Inv'
  OBVIOUS
<1> USE ConstantTypes
<1> USE DEF Inv, DataOK, NoStrayProducer, Hearing, EventIsNewest, GoneIsEmpty, AttemptLeft,
            StopClock, Patience, KilledOnlyAfterBudget, Childless, Alive, NoEvent, None, PC,
            Startup, Stopping, Session, Closing,
            daemonVars, clockVars, machineVars, loopbackVars, Go, DropLocals
<1>1. CASE OpenLoopback BY <1>1 DEF OpenLoopback, Exit
<1>2. CASE Advertise BY <1>2 DEF Advertise
<1>3. CASE Subscribe BY <1>3 DEF Subscribe
<1>4. CASE Serve BY <1>4 DEF Serve, poll_client_count, Wanted
<1>5. CASE CheckOthers BY <1>5 DEF CheckOthers
<1>6. CASE Refuse BY <1>6 DEF Refuse, poll_client_count, Restart
<1>7. CASE Backoff BY <1>7 DEF Backoff
<1>8. CASE Spawn BY <1>8 DEF Spawn
<1>9. CASE Register BY <1>9 DEF Register
<1>10. CASE Relay BY <1>10 DEF Relay, BeginStop, Interrupted, poll_client_count, GoneAfter
<1>11. CASE SessionStopped BY <1>11 DEF SessionStopped
<1>12. CASE Respawn BY <1>12 DEF Respawn, Restart
<1>13. CASE StuckStopped BY <1>13 DEF StuckStopped, LastAttempt
<1>14. CASE Retry BY <1>14 DEF Retry
<1>15. CASE GiveUp BY <1>15 DEF GiveUp
<1>16. CASE StopFails BY <1>16 DEF StopFails
<1>17. CASE LeaveExcept BY <1>17 DEF LeaveExcept
<1>18. CASE IgnoreSignals BY <1>18 DEF IgnoreSignals
<1>19. CASE Teardown
  <2>1. CASE registered /\ Alive
    <3>1. /\ pc = "teardown" /\ pc' = "stopExit" /\ child' = Interrupted /\ stopAge' = 0
          /\ UNCHANGED <<attempt, first_frame, gone_since, over, restarts, registered, spawnAge,
                         sleep, polled, loopbackVars, signals, termAge, pipe, others, patience>>
      BY <1>19, <2>1, Zenon DEF Teardown, BeginStop
    <3>2. child' = "interrupted" /\ patience' >= stopAge'
      BY <2>1, <3>1 DEF Interrupted
    <3> QED BY <3>1, <3>2
  <2>2. CASE ~(registered /\ Alive) BY <1>19, <2>2 DEF Teardown, Exit
  <2> QED BY <2>1, <2>2
<1>20. CASE ExitStopped BY <1>20 DEF ExitStopped, StopOver, Exit
<1>21. CASE Signal BY <1>21 DEF Signal, Exit
<1>22. CASE SystemdKill BY <1>22 DEF SystemdKill
<1>23. CASE SystemdRestart BY <1>23 DEF SystemdRestart
<1>24. CASE Tick BY <1>24 DEF Tick, Busy, StopOver, Older
<1>25. CASE Produce BY <1>25 DEF Produce
<1>26. CASE Crash BY <1>26 DEF Crash
<1>27. CASE Obey BY <1>27 DEF Obey
<1>28. CASE ClientOpens BY <1>28 DEF ClientOpens, SetClients
<1>29. CASE ClientCloses BY <1>29 DEF ClientCloses, SetClients
<1>30. CASE OthersChange BY <1>30 DEF OthersChange
<1>31. CASE UNCHANGED vars BY <1>31 DEF vars
<1> QED
  BY <1>1, <1>2, <1>3, <1>4, <1>5, <1>6, <1>7, <1>8, <1>9, <1>10, <1>11, <1>12,
     <1>13, <1>14, <1>15, <1>16, <1>17, <1>18, <1>19, <1>20, <1>21, <1>22, <1>23,
     <1>24, <1>25, <1>26, <1>27, <1>28, <1>29, <1>30, <1>31
  DEF Next, Daemon, World, TickOrObey
\* The inductive invariant holds in every reachable state.
LEMMA Invariance == Spec => []Inv
  BY InitInv, NextInv, PTL DEF Spec

\* A signalled daemon is gone before systemd's TimeoutStopSec, wherever the signal
\* hit it: the only time that passes is that of one stop_gst.
THEOREM InTime == Spec => []StopsInTime
<1>1. Inv => StopsInTime
  BY ConstantTypes DEF Inv, DataOK, StopClock, StopsInTime
<1> QED BY <1>1, Invariance, PTL

\* systemd only kills a child that has had the whole stop budget to die of SIGINT.
THEOREM KilledLate == Spec => []KilledOnlyAfterBudget
<1>1. Inv => KilledOnlyAfterBudget
  BY DEF Inv
<1> QED BY <1>1, Invariance, PTL

-----------------------------------------------------------------------------
(* The grace period.                                                       *)

\* Only the relay loop ends a session for want of clients, and only with a
\* gone_since older than the grace period and nothing left to collect.
LEMMA LingerStep ==
    ASSUME Inv, [Next]_vars, over = "none", over' = "clientsGone"
    PROVE  clients = 0 /\ empty > CLIENT_GRACE
<1>1. Relay
  BY DEF Next, Daemon, World, TickOrObey, vars, daemonVars, clockVars, machineVars,
         loopbackVars, DropLocals,
         OpenLoopback, Exit, Advertise, Subscribe, Serve, CheckOthers, Refuse, Backoff, Spawn,
         Register, SessionStopped, Respawn, StuckStopped, Retry, GiveUp, StopFails, LeaveExcept,
         IgnoreSignals, Teardown, ExitStopped, Signal, SystemdKill, SystemdRestart, Tick,
         Produce, Crash, Obey, ClientOpens, ClientCloses, OthersChange
<1>2. PICK count \in 0..NoEvent : poll_client_count(count) /\ GraceOver(GoneAfter(count))
  BY <1>1 DEF Relay
<1>3. GoneAfter(count) > CLIENT_GRACE /\ GoneAfter(count) # None
  BY <1>2 DEF GraceOver
<1>4. event = NoEvent /\ gone_since # None /\ gone_since > CLIENT_GRACE
  BY <1>2, <1>3, ConstantTypes DEF GoneAfter, poll_client_count
<1>5. clients = 0 /\ empty >= gone_since
  BY <1>1, <1>4 DEF Inv, GoneIsEmpty, Relay
<1> QED BY <1>4, <1>5, ConstantTypes DEF Inv, DataOK, None

\* A session is only ended for want of clients when the device has been without one
\* for the whole grace period, however clients came and went between two polls.
THEOREM LingerIsKept == Spec => LingerRespected
<1>1. ASSUME Inv, [Next]_vars
      PROVE  [over = "none" /\ over' = "clientsGone" => clients = 0 /\ empty > CLIENT_GRACE]_vars
  BY <1>1, LingerStep
<1> QED BY <1>1, Invariance, PTL DEF Spec, LingerRespected

-----------------------------------------------------------------------------
(* The daemon's list of restarts: in order, and of bounded length.         *)

Ages == 0..MINUTE
OldestFirst(list) == \A i, j \in 1..Len(list) : i <= j => list[i] >= list[j]

RestartsInv ==
    restarts \in Seq(Ages) /\ OldestFirst(restarts) /\ Len(restarts) <= MAX_RESTARTS_PER_MIN

\* What dropping the restarts of more than a minute ago leaves.
LEMMA RecentFacts ==
    ASSUME restarts \in Seq(Ages), OldestFirst(restarts)
    PROVE  /\ Cardinality(Recent) \in Nat /\ Cardinality(Recent) <= Len(restarts)
           /\ RecentRestarts \in Seq(Ages) /\ OldestFirst(RecentRestarts)
<1>1. Len(restarts) \in Nat /\ DOMAIN restarts = 1..Len(restarts)
      /\ \A i \in 1..Len(restarts) : restarts[i] \in Ages
  OBVIOUS
<1>2. IsFiniteSet(1..Len(restarts)) /\ Cardinality(1..Len(restarts)) = Len(restarts)
  <2>1. \A n \in Nat : IsFiniteSet(1..n) /\ Cardinality(1..n) = n
    BY FS_Interval
  <2> QED BY <1>1, <2>1
<1>3. Recent \in SUBSET (1..Len(restarts))
  BY <1>1 DEF Recent
<1>4. Cardinality(Recent) \in Nat /\ Cardinality(Recent) <= Len(restarts)
  BY <1>2, <1>3, FS_Subset, FS_CardinalityType
<1> DEFINE n == Len(restarts)
           k == n + 1 - Cardinality(Recent)
<1>5. n \in Nat /\ k \in Int /\ 1 <= k
  BY <1>1, <1>4
<1>6. RecentRestarts = SubSeq(restarts, k, n)
  BY DEF RecentRestarts
<1> HIDE DEF n, k
<1>7. \A i \in k..n : restarts[i] \in Ages
  BY <1>1, <1>5 DEF n
<1>8. /\ SubSeq(restarts, k, n) \in Seq(Ages)
      /\ Len(SubSeq(restarts, k, n)) = IF k <= n THEN n - k + 1 ELSE 0
      /\ \A i \in 1..n - k + 1 : SubSeq(restarts, k, n)[i] = restarts[k + i - 1]
  BY <1>5, <1>7, SubSeqProperties
<1>9. ASSUME NEW i \in 1..Len(RecentRestarts), NEW j \in 1..Len(RecentRestarts), i <= j
      PROVE  RecentRestarts[i] >= RecentRestarts[j]
  <2>1. k <= n /\ i \in 1..n - k + 1 /\ j \in 1..n - k + 1
    BY <1>5, <1>6, <1>8, <1>9
  <2>2. RecentRestarts[i] = restarts[k + i - 1] /\ RecentRestarts[j] = restarts[k + j - 1]
    BY <1>6, <1>8, <2>1
  <2>3. k + i - 1 \in 1..Len(restarts) /\ k + j - 1 \in 1..Len(restarts) /\ k + i - 1 <= k + j - 1
    BY <1>5, <1>9, <2>1 DEF n
  <2> QED BY <2>2, <2>3 DEF OldestFirst
<1> QED BY <1>4, <1>6, <1>8, <1>9 DEF OldestFirst

\* A restart that just happened goes to the end of the list.
LEMMA AppendFacts ==
    ASSUME NEW s \in Seq(Ages), OldestFirst(s)
    PROVE  Append(s, 0) \in Seq(Ages) /\ OldestFirst(Append(s, 0))
<1>1. Len(s) \in Nat /\ \A i \in 1..Len(s) : s[i] \in Nat
  BY ConstantTypes DEF Ages
<1>2. 0 \in Ages
  BY ConstantTypes DEF Ages
<1>3. /\ Append(s, 0) \in Seq(Ages) /\ Len(Append(s, 0)) = Len(s) + 1
      /\ Append(s, 0)[Len(s) + 1] = 0 /\ \A i \in 1..Len(s) : Append(s, 0)[i] = s[i]
  BY <1>2
<1>4. ASSUME NEW i \in 1..Len(s) + 1, NEW j \in 1..Len(s) + 1, i <= j
      PROVE  Append(s, 0)[i] >= Append(s, 0)[j]
  <2>1. CASE j = Len(s) + 1
    <3>1. Append(s, 0)[i] \in Nat
      BY <1>1, <1>3
    <3> QED BY <1>3, <2>1, <3>1
  <2>2. CASE j # Len(s) + 1
    <3>1. i \in 1..Len(s) /\ j \in 1..Len(s)
      BY <1>1, <1>4, <2>2
    <3> QED BY <1>3, <1>4, <3>1 DEF OldestFirst
  <2> QED BY <2>1, <2>2
<1> QED BY <1>3, <1>4 DEF OldestFirst

\* The serve loop after a session that wants another one.
LEMMA RestartFacts == ASSUME RestartsInv, Restart PROVE RestartsInv'
<1> DEFINE list == Append(RecentRestarts, 0)
<1>1. list \in Seq(Ages) /\ OldestFirst(list)
  BY RecentFacts, AppendFacts DEF RestartsInv
<1>2. Len(list) \in Nat
  BY <1>1
<1>3. (restarts' = list /\ ~(Len(list) > MAX_RESTARTS_PER_MIN)) \/ restarts' = <<>>
  BY DEF Restart, TooMany
<1> HIDE DEF list
<1>4. CASE restarts' = list /\ ~(Len(list) > MAX_RESTARTS_PER_MIN)
  BY <1>1, <1>2, <1>4, ConstantTypes DEF RestartsInv, OldestFirst
<1>5. CASE restarts' = <<>>
  BY <1>5, ConstantTypes DEF RestartsInv, OldestFirst
<1> QED BY <1>3, <1>4, <1>5

\* A tick makes every restart older, and keeps their order.
LEMMA TickFacts == ASSUME RestartsInv, Tick PROVE RestartsInv'
<1>1. restarts \in Seq(Ages) /\ Len(restarts) \in Nat /\ DOMAIN restarts = 1..Len(restarts)
  BY DEF RestartsInv
<1>2. \A i \in 1..Len(restarts) : restarts[i] \in 0..MINUTE
  <2>1. \A i \in 1..Len(restarts) : restarts[i] \in Ages
    BY <1>1
  <2> QED BY <2>1 DEF Ages
<1>3. restarts' = [i \in 1..Len(restarts) |-> Older(restarts[i], MINUTE)]
  BY <1>1 DEF Tick
<1>4. \A i \in 1..Len(restarts) : Older(restarts[i], MINUTE) \in Ages
  BY <1>2, ConstantTypes DEF Older, Ages
<1>5. restarts' \in Seq(Ages) /\ Len(restarts') = Len(restarts)
  BY <1>1, <1>3, <1>4
<1>6. ASSUME NEW i \in 1..Len(restarts), NEW j \in 1..Len(restarts), i <= j
      PROVE  restarts'[i] >= restarts'[j]
  <2>1. restarts[i] >= restarts[j] /\ restarts[i] \in 0..MINUTE /\ restarts[j] \in 0..MINUTE
    BY <1>2, <1>6 DEF RestartsInv, OldestFirst
  <2>2. restarts'[i] = Older(restarts[i], MINUTE) /\ restarts'[j] = Older(restarts[j], MINUTE)
    BY <1>3
  <2> QED BY <2>1, <2>2, ConstantTypes DEF Older
<1> QED BY <1>5, <1>6 DEF RestartsInv, OldestFirst

\* The list of restarts stays in order and within its limit.
LEMMA RestartsNext == ASSUME RestartsInv, [Next]_vars PROVE RestartsInv'
<1>1. CASE Refuse \/ Respawn
  <2>1. Restart \/ restarts' = <<>>
    BY <1>1 DEF Refuse, Respawn
  <2>2. CASE restarts' = <<>>
    BY <2>2, ConstantTypes DEF RestartsInv, OldestFirst
  <2> QED BY <2>1, <2>2, RestartFacts
<1>2. CASE Tick
  BY <1>2, TickFacts
<1>3. CASE restarts' = <<>> \/ restarts' = restarts
  <2>1. CASE restarts' = <<>>
    BY <2>1, ConstantTypes DEF RestartsInv, OldestFirst
  <2>2. CASE restarts' = restarts
    BY <2>2 DEF RestartsInv, OldestFirst
  <2> QED BY <1>3, <2>1, <2>2
<1>4. \/ Refuse \/ Respawn \/ Tick
      \/ restarts' = <<>> \/ restarts' = restarts
  BY DEF Next, Daemon, World, TickOrObey, vars, daemonVars,
         OpenLoopback, Exit, Advertise, Subscribe, Serve, CheckOthers, Backoff, Spawn,
         Register, Relay, SessionStopped, StuckStopped, Retry, GiveUp, StopFails, LeaveExcept,
         IgnoreSignals, Teardown, ExitStopped, Signal, SystemdKill, SystemdRestart,
         Produce, Crash, Obey, ClientOpens, ClientCloses, OthersChange
<1> QED BY <1>1, <1>2, <1>3, <1>4

\* It starts empty.
LEMMA RestartsInit == Init => RestartsInv
  BY ConstantTypes DEF Init, RestartsInv, OldestFirst

-----------------------------------------------------------------------------
(* Types.                                                                  *)

\* The flags start as Booleans.
LEMMA FlagsInit == Init => FlagsOK
  BY Zenon DEF Init, FlagsOK

\* No step of the daemon or its environment gives a flag another value.
LEMMA FlagsNext == FlagsOK /\ [Next]_vars => FlagsOK'
<1> SUFFICES ASSUME FlagsOK, [Next]_vars PROVE FlagsOK'
  OBVIOUS
<1> USE DEF FlagsOK, daemonVars, clockVars, machineVars, loopbackVars
<1>1. CASE OpenLoopback BY <1>1, Zenon DEF OpenLoopback, Exit, DropLocals
<1>2. CASE Advertise BY <1>2, Zenon DEF Advertise
<1>3. CASE Subscribe BY <1>3, Zenon DEF Subscribe
<1>4. CASE Serve BY <1>4, Zenon DEF Serve
<1>5. CASE CheckOthers BY <1>5, Zenon DEF CheckOthers
<1>6. CASE Refuse BY <1>6, Zenon DEF Refuse, DropLocals
<1>7. CASE Backoff BY <1>7, Zenon DEF Backoff
<1>8. CASE Spawn BY <1>8, Zenon DEF Spawn
<1>9. CASE Register BY <1>9, Zenon DEF Register
<1>10. CASE Relay
  <2>1. first_frame' \in {first_frame, TRUE, first_frame \/ pipe} /\ pipe' \in {pipe, FALSE}
    BY <1>10, Zenon DEF Relay
  <2>2. (first_frame \/ pipe) \in BOOLEAN
    OBVIOUS
  <2>3. first_frame' \in BOOLEAN /\ pipe' \in BOOLEAN
    BY <2>1, <2>2, Zenon
  <2> QED BY <1>10, <2>3, Zenon DEF Relay
<1>11. CASE SessionStopped BY <1>11, Zenon DEF SessionStopped, DropLocals
<1>12. CASE Respawn BY <1>12, Zenon DEF Respawn
<1>13. CASE StuckStopped BY <1>13, Zenon DEF StuckStopped
<1>14. CASE Retry BY <1>14, Zenon DEF Retry
<1>15. CASE GiveUp BY <1>15, Zenon DEF GiveUp, DropLocals
<1>16. CASE StopFails BY <1>16, Zenon DEF StopFails, DropLocals
<1>17. CASE LeaveExcept BY <1>17, Zenon DEF LeaveExcept
<1>18. CASE IgnoreSignals BY <1>18, Zenon DEF IgnoreSignals
<1>19. CASE Teardown BY <1>19, Zenon DEF Teardown, Exit, DropLocals
<1>20. CASE ExitStopped BY <1>20, Zenon DEF ExitStopped, Exit, DropLocals
<1>21. CASE Signal BY <1>21, Zenon DEF Signal, Exit, DropLocals
<1>22. CASE SystemdKill BY <1>22, Zenon DEF SystemdKill
<1>23. CASE SystemdRestart BY <1>23, Zenon DEF SystemdRestart
<1>24. CASE Tick BY <1>24, Zenon DEF Tick
<1>25. CASE Produce BY <1>25, Zenon DEF Produce
<1>26. CASE Crash BY <1>26, Zenon DEF Crash
<1>27. CASE Obey BY <1>27, Zenon DEF Obey
<1>28. CASE ClientOpens BY <1>28, Zenon DEF ClientOpens
<1>29. CASE ClientCloses BY <1>29, Zenon DEF ClientCloses
<1>30. CASE OthersChange BY <1>30, Zenon DEF OthersChange
<1>31. CASE UNCHANGED vars BY <1>31, Zenon DEF vars
<1> QED
  BY <1>1, <1>2, <1>3, <1>4, <1>5, <1>6, <1>7, <1>8, <1>9, <1>10, <1>11, <1>12,
     <1>13, <1>14, <1>15, <1>16, <1>17, <1>18, <1>19, <1>20, <1>21, <1>22, <1>23,
     <1>24, <1>25, <1>26, <1>27, <1>28, <1>29, <1>30, <1>31
  DEF Next, Daemon, World, TickOrObey

\* Every variable of the rear bridge always has its type: no age runs past its cap,
\* no attempt past the last one, and the restarts stay in their order.
THEOREM TypeCorrect == Spec => []TypeOK
<1>1. ASSUME FlagsOK, Inv, RestartsInv PROVE TypeOK
  <2>1. DOMAIN restarts = 1..Len(restarts)
    BY <1>1 DEF RestartsInv
  <2>2. RestartsOK
    BY <1>1, <2>1 DEF RestartsInv, RestartsOK, OldestFirst, Ages
  <2> QED BY <1>1, <2>2 DEF Inv, TypeOK
<1> QED
  BY <1>1, FlagsInit, FlagsNext, RestartsInit, RestartsNext, Invariance, PTL DEF Spec

-----------------------------------------------------------------------------
(* The abstract camera.                                                    *)

\* A step of the abstract camera that starts nothing: d and p are session and
\* power before it, e and q after it.
LEMMA Quiet ==
  ASSUME NEW d \in BOOLEAN, NEW e \in BOOLEAN, NEW p \in BOOLEAN, NEW q \in BOOLEAN,
         p => d, q => e, q => p, e => d
  PROVE  \/ p /\ q = FALSE /\ e \in {d, FALSE}
         \/ d /\ ~p /\ e = FALSE /\ q = p
         \/ e = d /\ q = p
<1>1. (d = TRUE \/ d = FALSE) /\ (e = TRUE \/ e = FALSE)
  BY Zenon
<1>2. (p = TRUE \/ p = FALSE) /\ (q = TRUE \/ q = FALSE)
  BY Zenon
<1> QED BY <1>1, <1>2, Zenon

\* Nothing but Spawn brings a child to life.
LEMMA ChildSteps ==
    ASSUME Inv, [Next]_vars, ~Spawn
    PROVE  Alive' => Alive
  BY DEF Next, Daemon, World, TickOrObey, vars, machineVars, Inv, DataOK, Alive, Interrupted,
         BeginStop, OpenLoopback, Advertise, Subscribe, Serve, CheckOthers, Refuse, Backoff,
         Register, Relay, SessionStopped, Respawn, StuckStopped, Retry, GiveUp, StopFails,
         LeaveExcept, IgnoreSignals, Teardown, ExitStopped, Signal, SystemdKill, SystemdRestart,
         Tick, Produce, Crash, Obey, ClientOpens, ClientCloses, OthersChange

\* Nothing but Serve begins a session.
LEMMA SessionSteps ==
    ASSUME Inv, [Next]_vars, ~Serve, pc' \in Session
    PROVE  pc \in Session
  BY DEF Next, Daemon, World, TickOrObey, vars, daemonVars, Session, Stopping, Startup,
         Go, Exit, Restart, BeginStop,
         OpenLoopback, Advertise, Subscribe, CheckOthers, Refuse, Backoff, Spawn,
         Register, Relay, SessionStopped, Respawn, StuckStopped, Retry, GiveUp, StopFails,
         LeaveExcept, IgnoreSignals, Teardown, ExitStopped, Signal, SystemdKill, SystemdRestart,
         Tick, Produce, Crash, Obey, ClientOpens, ClientCloses, OthersChange

\* Clients come and go by themselves.
LEMMA ClientSteps ==
    ASSUME [Next]_vars, ~ClientOpens, ~ClientCloses
    PROVE  clients' = clients
  BY DEF Next, Daemon, World, TickOrObey, vars, loopbackVars, Exit,
         OpenLoopback, Advertise, Subscribe, Serve, CheckOthers, Refuse, Backoff, Spawn,
         Register, Relay, SessionStopped, Respawn, StuckStopped, Retry, GiveUp, StopFails,
         LeaveExcept, IgnoreSignals, Teardown, ExitStopped, Signal, SystemdKill, SystemdRestart,
         Tick, Produce, Crash, Obey, OthersChange

\* One step of the bridge is one step of the abstract camera, or none.
LEMMA StepImplements == Inv /\ [Next]_vars => [Abstract!Next]_(Abstract!vars)
<1> SUFFICES ASSUME Inv, [Next]_vars PROVE [Abstract!Next]_(Abstract!vars)
  OBVIOUS
<1> DEFINE w == clients > 0
           s == pc \in Session \/ Alive
<1>1. CASE Spawn
  <2>1. s /\ ~Alive /\ Alive' /\ s' /\ clients' = clients
    BY <1>1 DEF Spawn, Inv, NoStrayProducer, Childless, Alive, Session, loopbackVars
  <2>2. s' = s /\ Alive' = TRUE /\ w' = w
    BY <2>1, Zenon DEF Alive
  <2> QED BY <2>1, <2>2, Zenon DEF Abstract!Next, Abstract!PowerOn
<1>2. CASE ClientOpens \/ ClientCloses
  <2>1. child' = child /\ pc' = pc
    BY <1>2 DEF ClientOpens, ClientCloses, machineVars, daemonVars
  <2>2. Alive' = Alive /\ s' = s
    BY <2>1, Zenon DEF Alive
  <2>3. \/ w /\ w' = FALSE
        \/ ~w /\ w' = TRUE
        \/ w' = w
    OBVIOUS
  <2> QED
    BY <2>2, <2>3, Zenon DEF Abstract!Next, Abstract!Open, Abstract!Close, Abstract!vars
<1>3. ASSUME Alive' => Alive, s' => s, w' = w PROVE [Abstract!Next]_(Abstract!vars)
  <2>1. /\ s \in BOOLEAN /\ s' \in BOOLEAN /\ Alive \in BOOLEAN /\ Alive' \in BOOLEAN
        /\ (Alive => s) /\ (Alive' => s')
    BY DEF Alive
  <2>2. \/ Alive /\ Alive' = FALSE /\ s' \in {s, FALSE}
        \/ s /\ ~Alive /\ s' = FALSE /\ Alive' = Alive
        \/ s' = s /\ Alive' = Alive
    <3> HIDE DEF s
    <3> QED BY <1>3, <2>1, Quiet, Zenon
  <2> QED
    BY <1>3, <2>2, Zenon DEF Abstract!Next, Abstract!PowerOff, Abstract!End, Abstract!vars
<1>4. CASE Serve
  <2>1. UNCHANGED <<child, clients>> /\ pc = "wait"
    BY <1>4 DEF Serve, machineVars
  <2>2. Alive' = Alive /\ w' = w
    BY <2>1, Zenon DEF Alive
  <2>3. CASE pc' = "wait"
    <3>1. s' => s
      BY <2>1, <2>3 DEF Alive
    <3> QED BY <2>2, <3>1, <1>3, Zenon
  <2>4. CASE pc' = "check"
    <3>1. w /\ ~s
      BY <1>4, <2>1, <2>4 DEF Serve, poll_client_count, Wanted, Inv, DataOK, EventIsNewest,
         NoEvent, NoStrayProducer, Childless, Session, Stopping
    <3>2. s' = TRUE
      BY <2>4 DEF Session
    <3> QED BY <2>2, <3>1, <3>2, Zenon DEF Abstract!Next, Abstract!Begin
  <2> QED BY <1>4, <2>3, <2>4 DEF Serve
<1>5. CASE ~Spawn /\ ~ClientOpens /\ ~ClientCloses /\ ~Serve
  <2>1. (Alive' => Alive) /\ clients' = clients
    BY <1>5, ChildSteps, ClientSteps
  <2>2. pc' \in Session => pc \in Session
    BY <1>5, SessionSteps
  <2>3. (s' => s) /\ w' = w
    BY <2>1, <2>2
  <2> QED BY <2>1, <2>3, <1>3
<1> QED BY <1>1, <1>2, <1>4, <1>5

\* The rear bridge implements the abstract on-demand camera: its producer never
\* runs without an application having opened the loopback, and no session begins
\* with nobody there.
THEOREM Implements == Spec => ImplementsOnDemand
<1>1. Init => Abstract!Init
  <2>1. ASSUME Init PROVE ~(clients > 0) /\ ~(pc \in Session \/ Alive)
    BY <2>1 DEF Init, Alive, Session, Stopping
  <2> QED BY <2>1 DEF Abstract!Init, Alive
<1> QED BY <1>1, Invariance, StepImplements, PTL DEF Spec, ImplementsOnDemand, Abstract!Spec

=============================================================================
