----------------------------- MODULE RearBridge -----------------------------
(***************************************************************************)
(* The rear-camera bridge, src/bridges/surface-rear-bridge, with its clock.*)
(* It has the shape of the front bridge (PsysBridge), with a pause instead *)
(* of the driver recycle and a limit on restarts per minute; this module   *)
(* keeps the time that PsysBridge leaves out: the first-frame watchdog,    *)
(* the grace period, the stop budget, the sleeps, the one-minute window of *)
(* the restart limit, and systemd's TimeoutStopSec.                        *)
(*                                                                         *)
(* Time is a count of ticks.  Every deadline is kept as an age, the ticks  *)
(* since it was armed.  The daemon's own statements take no time: a Tick   *)
(* happens only when the daemon sleeps or has finished an iteration of its *)
(* loop since the last one.                                                *)
(***************************************************************************)
EXTENDS Naturals, Sequences, FiniteSets

CONSTANTS
    MAX_ATTEMPTS, FIRST_FRAME_TIMEOUT, CLIENT_GRACE, STOP_BUDGET,
    MAX_RESTARTS_PER_MIN,
    MINUTE,                \* the window of the restart limit
    REFUSE_SLEEP, RESPAWN_SLEEP, RETRY_SLEEP, GIVEUP_SLEEP, BACKOFF_SLEEP,
    RestartSec, TimeoutStopSec,   \* of the systemd unit
    MaxClients,            \* bound: clients that can hold the loopback at once
    MaxSignals,            \* bound: signals sent to one run of the daemon
    Stubborn               \* may a producer ignore SIGINT?

ASSUME ConstantsAssumption ==
    /\ {MAX_ATTEMPTS, FIRST_FRAME_TIMEOUT, STOP_BUDGET, MINUTE, REFUSE_SLEEP, RESPAWN_SLEEP,
        RETRY_SLEEP, GIVEUP_SLEEP, BACKOFF_SLEEP, RestartSec, TimeoutStopSec,
        MaxClients} \subseteq Nat \ {0}
    /\ {CLIENT_GRACE, MAX_RESTARTS_PER_MIN, MaxSignals} \subseteq Nat
    /\ Stubborn \in BOOLEAN

\* The unit leaves the daemon more time to stop than a whole stop_gst takes.
ASSUME BudgetAssumption == STOP_BUDGET < TimeoutStopSec

VARIABLES
    \* the daemon
    pc,
    attempt,      \* the loop variable of run_session
    first_frame,  \* first_frame_t is not None
    gone_since,   \* its age, None when unset
    over,         \* the text of the SessionOver being handled, or "none"
    restarts,     \* the ages of the restarts the serve loop remembers
    registered,   \* CURRENT_PROC[0] is the youngest child
    signals,      \* signals delivered to this run of the daemon
    \* ages
    spawnAge,     \* since spawn_t
    stopAge,      \* since stop_gst began
    sleep,        \* ticks left of the sleep the daemon is in
    polled,       \* the loop has run since the last tick
    termAge,      \* since the first signal
    \* the producer and the machine
    child, pipe, others,
    patience,     \* ticks since the producer was sent SIGINT, capped
    \* the loopback device
    clients, event, subscribed, capture,
    empty         \* ticks since the device had a client, capped

daemonVars == <<pc, attempt, first_frame, gone_since, over, restarts, registered, signals>>
clockVars == <<spawnAge, stopAge, sleep, polled, termAge>>
machineVars == <<child, pipe, others, patience>>
loopbackVars == <<clients, event, subscribed, capture, empty>>
vars == <<daemonVars, clockVars, machineVars, loopbackVars>>

-----------------------------------------------------------------------------
NoEvent == MaxClients + 1
None == CLIENT_GRACE + 2           \* gone_since is not set
Older(age, cap) == IF age < cap THEN age + 1 ELSE age

Startup == {"start", "advertise", "subscribe"}
Stopping == {"stopOver", "stopStuck"}
Session == {"check", "refuse", "spawn", "register", "relay", "respawn", "retry",
            "giveup"} \cup Stopping
Closing == {"except", "finally", "teardown", "stopExit"}
Sleeping == {"refuse", "respawn", "retry", "giveup", "backoff", "exited"}
PC == Startup \cup {"wait", "backoff", "exited"} \cup Session \cup Closing

Alive == child \in {"running", "interrupted"}
Interrupted == IF child = "running" THEN "interrupted" ELSE child

FlagsOK ==
    /\ first_frame \in BOOLEAN /\ registered \in BOOLEAN /\ polled \in BOOLEAN
    /\ pipe \in BOOLEAN /\ others \in BOOLEAN
    /\ subscribed \in BOOLEAN /\ capture \in BOOLEAN

DataOK ==
    /\ pc \in PC /\ attempt \in 0..MAX_ATTEMPTS /\ gone_since \in 0..None
    /\ over \in {"none", "producerExited", "writeFailed", "clientsGone"}
    /\ signals \in 0..MaxSignals
    /\ spawnAge \in 0..FIRST_FRAME_TIMEOUT + 1 /\ stopAge \in 0..STOP_BUDGET
    /\ sleep \in Nat /\ termAge \in 0..TimeoutStopSec
    /\ child \in {"none", "running", "interrupted", "dead"} /\ patience \in 0..STOP_BUDGET
    /\ clients \in 0..MaxClients /\ event \in 0..NoEvent
    /\ empty \in 0..CLIENT_GRACE + 2

\* The restarts are remembered in their order, the oldest first.
RestartsOK ==
    /\ restarts \in Seq(0..MINUTE)
    /\ \A i, j \in DOMAIN restarts : i <= j => restarts[i] >= restarts[j]

TypeOK == FlagsOK /\ DataOK /\ RestartsOK

Init ==
    /\ pc = "start" /\ attempt = 0 /\ first_frame = FALSE /\ gone_since = None
    /\ over = "none" /\ restarts = <<>> /\ registered = FALSE /\ signals = 0
    /\ spawnAge = 0 /\ stopAge = 0 /\ sleep = 0 /\ polled = FALSE /\ termAge = 0
    /\ child = "none" /\ pipe = FALSE /\ others \in BOOLEAN /\ patience = 0
    /\ clients = 0 /\ event = NoEvent /\ subscribed = FALSE /\ capture = FALSE
    /\ empty = CLIENT_GRACE + 2

\* Control passes to next; a place where the daemon sleeps starts its sleep.
Go(next, ticks) == pc' = next /\ sleep' = ticks

\* The locals of run_session cease to exist.
DropLocals ==
    /\ attempt' = 0 /\ first_frame' = FALSE /\ gone_since' = None /\ over' = "none"
    /\ spawnAge' = 0 /\ stopAge' = 0 /\ polled' = FALSE

\* The process ends, and with it its loopback descriptor; systemd waits
\* RestartSec before it starts the next one.
Exit ==
    /\ Go("exited", RestartSec) /\ DropLocals /\ restarts' = <<>>
    /\ event' = NoEvent /\ subscribed' = FALSE /\ capture' = FALSE
    /\ UNCHANGED <<registered, clients, empty>>

-----------------------------------------------------------------------------
(* main() and run_session.                                                 *)

\* The process ends if there is no loopback with the label, or if S_FMT fails
\* with EBUSY, as it does while a client holds the loopback.
OpenLoopback ==
    /\ pc = "start"
    /\ \/ /\ clients = 0 /\ Go("advertise", 0)
          /\ UNCHANGED <<attempt, first_frame, gone_since, over, restarts, registered,
                         spawnAge, stopAge, polled, loopbackVars>>
       \/ Exit
    /\ UNCHANGED <<signals, termAge, machineVars>>

Advertise ==
    /\ pc = "advertise" /\ pc' = "subscribe" /\ capture' = TRUE
    /\ UNCHANGED <<attempt, first_frame, gone_since, over, restarts, registered, signals,
                   clockVars, machineVars, clients, event, subscribed, empty>>

Subscribe ==
    /\ pc = "subscribe" /\ pc' = "wait" /\ subscribed' = TRUE
    /\ UNCHANGED <<attempt, first_frame, gone_since, over, restarts, registered, signals,
                   clockVars, machineVars, clients, event, capture, empty>>

\* The newest client count, None when the device has told nothing new.
poll_client_count(count) == count = event /\ event' = NoEvent

\* Mutant: a session for any event.
Wanted_AnyEvent(count) == count >= 0

\* The count that starts a session.
Wanted(count) == count > 0

\* A session begins with an empty list of restarts.
Serve ==
    /\ pc = "wait" /\ event # NoEvent
    /\ \E count \in 0..NoEvent :
          /\ poll_client_count(count)
          /\ pc' = IF Wanted(count) THEN "check" ELSE "wait"
    /\ restarts' = <<>>
    /\ UNCHANGED <<attempt, first_frame, gone_since, over, registered, signals,
                   clockVars, machineVars, clients, subscribed, capture, empty>>

\* Another libcamera producer or a v4l2-relayd is running: sleep, then retry.
CheckOthers ==
    /\ pc = "check"
    /\ \/ others /\ Go("refuse", REFUSE_SLEEP) /\ UNCHANGED attempt
       \/ ~others /\ Go("spawn", 0) /\ attempt' = 1
    /\ UNCHANGED <<first_frame, gone_since, over, restarts, registered, signals, spawnAge,
                   stopAge, polled, termAge, machineVars, loopbackVars>>

\* The restarts the limit counts ...
Recent == {i \in DOMAIN restarts : restarts[i] < MINUTE}

\* ... are the end of the list, which is in their order.
RecentRestarts == SubSeq(restarts, Len(restarts) + 1 - Cardinality(Recent), Len(restarts))

\* A producer that keeps dying under a client must not spin.
TooMany(list) == Len(list) > MAX_RESTARTS_PER_MIN

\* run_session returned True: another session, unless there were too many in
\* the last minute, and then a pause and back to waiting for an event.
Restart ==
    LET list == Append(RecentRestarts, 0)
    IN  \/ ~TooMany(list) /\ restarts' = list /\ Go("check", 0)
        \/ TooMany(list) /\ restarts' = <<>> /\ Go("backoff", BACKOFF_SLEEP)

Refuse ==
    /\ pc = "refuse" /\ sleep = 0
    /\ \E count \in 0..NoEvent :
          /\ poll_client_count(count)
          /\ \/ (count = NoEvent \/ count > 0) /\ Restart
             \/ count = 0 /\ Go("wait", 0) /\ restarts' = <<>>
    /\ DropLocals
    /\ UNCHANGED <<registered, signals, termAge, machineVars, clients, subscribed, capture,
                   empty>>

Backoff ==
    /\ pc = "backoff" /\ sleep = 0 /\ pc' = "wait"
    /\ UNCHANGED <<attempt, first_frame, gone_since, over, restarts, registered, signals,
                   clockVars, machineVars, loopbackVars>>

\* Popen; CURRENT_PROC does not know the child yet.
Spawn ==
    /\ pc = "spawn" /\ pc' = "register"
    /\ child' = "running" /\ pipe' = FALSE /\ registered' = FALSE /\ patience' = 0
    /\ UNCHANGED <<attempt, first_frame, gone_since, over, restarts, signals, clockVars,
                   others, loopbackVars>>

Register ==
    /\ pc = "register" /\ pc' = "relay" /\ registered' = TRUE
    /\ first_frame' = FALSE /\ gone_since' = None
    /\ spawnAge' = 0 /\ polled' = FALSE
    /\ UNCHANGED <<attempt, over, restarts, signals, stopAge, sleep, termAge, machineVars,
                   loopbackVars>>

\* Mutant: gone_since keeps the time of the first zero count.
GoneAfter_First(count) ==
    IF count = NoEvent THEN gone_since
    ELSE IF count > 0 THEN None
    ELSE IF gone_since = None THEN 0 ELSE gone_since

\* gone_since after a poll: None while somebody captures, else the last time
\* the device reported nobody.
GoneAfter(count) ==
    IF count = NoEvent THEN gone_since ELSE IF count > 0 THEN None ELSE 0

\* Every client has been gone for longer than the grace period.
GraceOver(since) == since # None /\ since > CLIENT_GRACE

\* The watchdog: no first frame in time.
Overdue == ~first_frame /\ spawnAge > FIRST_FRAME_TIMEOUT

\* stop_gst begins: SIGINT, unless the child is gone already.
BeginStop(where) == pc' = where /\ child' = Interrupted /\ stopAge' = 0

\* One iteration of the relay loop: watchdog, pipe, client count, grace.
Relay ==
    /\ pc = "relay" /\ polled' = TRUE
    /\ \/ /\ Overdue \/ (~pipe /\ child = "dead" /\ ~first_frame)
          /\ BeginStop("stopStuck")
          /\ UNCHANGED <<over, first_frame, pipe, gone_since, event>>
       \/ /\ ~Overdue /\ ~pipe /\ child = "dead" /\ first_frame
          /\ BeginStop("stopOver") /\ over' = "producerExited"
          /\ UNCHANGED <<first_frame, pipe, gone_since, event>>
       \/ /\ ~Overdue /\ pipe
          /\ BeginStop("stopOver") /\ over' = "writeFailed"
          /\ first_frame' = TRUE /\ pipe' = FALSE
          /\ UNCHANGED <<gone_since, event>>
       \/ /\ ~Overdue /\ (pipe \/ child # "dead")
          /\ first_frame' = (first_frame \/ pipe) /\ pipe' = FALSE
          /\ \E count \in 0..NoEvent :
                /\ poll_client_count(count) /\ gone_since' = GoneAfter(count)
                /\ \/ /\ GraceOver(GoneAfter(count))
                      /\ BeginStop("stopOver") /\ over' = "clientsGone"
                   \/ /\ ~GraceOver(GoneAfter(count))
                      /\ UNCHANGED <<pc, over, child, stopAge>>
    /\ UNCHANGED <<attempt, restarts, registered, signals, spawnAge, sleep, termAge, others,
                   patience, clients, subscribed, capture, empty>>

\* stop_gst returned True in the SessionOver handler.
SessionStopped ==
    /\ pc = "stopOver" /\ child = "dead"
    /\ \/ /\ over = "producerExited" /\ gone_since = None
          /\ Go("respawn", RESPAWN_SLEEP) /\ UNCHANGED restarts
       \/ /\ ~(over = "producerExited" /\ gone_since = None)
          /\ Go("wait", 0) /\ restarts' = <<>>
    /\ DropLocals
    /\ UNCHANGED <<registered, signals, termAge, machineVars, loopbackVars>>

Respawn ==
    /\ pc = "respawn" /\ sleep = 0 /\ Restart
    /\ UNCHANGED <<attempt, first_frame, gone_since, over, registered, signals, spawnAge,
                   stopAge, polled, termAge, machineVars, loopbackVars>>

\* Mutant: one attempt too many.
LastAttempt_OffByOne == attempt > MAX_ATTEMPTS

\* The attempts are used up.
LastAttempt == attempt >= MAX_ATTEMPTS

\* stop_gst returned True after a start that never delivered.
StuckStopped ==
    /\ pc = "stopStuck" /\ child = "dead"
    /\ \/ ~LastAttempt /\ Go("retry", RETRY_SLEEP)
       \/ LastAttempt /\ Go("giveup", GIVEUP_SLEEP)
    /\ UNCHANGED <<attempt, first_frame, gone_since, over, restarts, registered, signals,
                   spawnAge, stopAge, polled, termAge, machineVars, loopbackVars>>

Retry ==
    /\ pc = "retry" /\ sleep = 0
    /\ pc' = "spawn" /\ attempt' = attempt + 1
    /\ UNCHANGED <<first_frame, gone_since, over, restarts, registered, signals, clockVars,
                   machineVars, loopbackVars>>

GiveUp ==
    /\ pc = "giveup" /\ sleep = 0
    /\ Go("wait", 0) /\ DropLocals /\ restarts' = <<>>
    /\ UNCHANGED <<registered, signals, termAge, machineVars, loopbackVars>>

\* stop_gst returned False: sys.exit(1), which runs main's finally.
StopFails ==
    /\ pc \in Stopping /\ Alive /\ stopAge >= STOP_BUDGET
    /\ Go("finally", 0) /\ DropLocals /\ restarts' = <<>>
    /\ UNCHANGED <<registered, signals, termAge, machineVars, loopbackVars>>

-----------------------------------------------------------------------------
(* The way out.                                                            *)

\* SIGTERM or SIGINT, as in PsysBridge; a sleep is cut short, and systemd's
\* stop clock runs even when the daemon already ignores signals.
Signal ==
    /\ signals < MaxSignals /\ signals' = signals + 1
    /\ \/ pc \in Startup \cup {"finally"} /\ Exit
       \/ /\ pc \in Session \cup {"wait", "backoff"}
          /\ Go("except", 0) /\ DropLocals /\ restarts' = <<>>
          /\ UNCHANGED <<registered, loopbackVars>>
       \/ /\ pc = "except"
          /\ Go("finally", 0) /\ DropLocals /\ restarts' = <<>>
          /\ UNCHANGED <<registered, loopbackVars>>
       \/ /\ pc \in {"teardown", "stopExit"}
          /\ UNCHANGED <<pc, attempt, first_frame, gone_since, over, restarts, registered,
                         spawnAge, stopAge, sleep, polled, loopbackVars>>
    /\ UNCHANGED <<termAge, machineVars>>

LeaveExcept ==
    /\ pc = "except" /\ pc' = "finally"
    /\ UNCHANGED <<attempt, first_frame, gone_since, over, restarts, registered, signals,
                   clockVars, machineVars, loopbackVars>>

IgnoreSignals ==
    /\ pc = "finally" /\ pc' = "teardown"
    /\ UNCHANGED <<attempt, first_frame, gone_since, over, restarts, registered, signals,
                   clockVars, machineVars, loopbackVars>>

\* The finally clause: one more stop_gst for the child CURRENT_PROC names.
Teardown ==
    /\ pc = "teardown"
    /\ \/ /\ registered /\ Alive /\ BeginStop("stopExit")
          /\ UNCHANGED <<attempt, first_frame, gone_since, over, restarts, registered,
                         spawnAge, sleep, polled, loopbackVars>>
       \/ ~(registered /\ Alive) /\ Exit /\ UNCHANGED child
    /\ UNCHANGED <<signals, termAge, pipe, others, patience>>

\* Mutant: the budget starts over once before the teardown gives up.
StopOver_Twice == child = "dead" \/ (stopAge >= STOP_BUDGET /\ termAge >= 2 * STOP_BUDGET)

\* Mutant: the budget is one tick short.
StopOver_Short == child = "dead" \/ stopAge + 1 >= STOP_BUDGET

\* stop_gst returns: the child is gone, or the budget is.
StopOver == child = "dead" \/ stopAge >= STOP_BUDGET

ExitStopped ==
    /\ pc = "stopExit" /\ StopOver /\ Exit
    /\ UNCHANGED <<signals, termAge, machineVars>>

\* systemd kills what is left of the cgroup as soon as the main process is
\* gone, whatever RestartSec says ...
SystemdKill ==
    /\ pc = "exited" /\ Alive
    /\ child' = "dead"
    /\ UNCHANGED <<daemonVars, clockVars, pipe, others, patience, loopbackVars>>

\* ... and starts the unit again.
SystemdRestart ==
    /\ pc = "exited" /\ ~Alive /\ sleep = 0
    /\ pc' = "start" /\ signals' = 0 /\ registered' = FALSE /\ termAge' = 0
    /\ child' = "none" /\ pipe' = FALSE /\ patience' = 0
    /\ UNCHANGED <<attempt, first_frame, gone_since, over, restarts, spawnAge, stopAge, sleep,
                   polled, others, loopbackVars>>

-----------------------------------------------------------------------------
(* Time, the producer, the clients.                                        *)

\* The daemon or systemd has something to do before time goes on.
Busy ==
    \/ pc \in Startup \cup {"check", "spawn", "register", "except", "finally", "teardown"}
    \/ pc \in Sleeping /\ sleep = 0
    \/ pc = "wait" /\ event # NoEvent
    \/ pc = "relay" /\ ~polled
    \/ pc \in Stopping \cup {"stopExit"} /\ StopOver
    \/ pc = "exited" /\ Alive

Tick ==
    /\ ~Busy
    /\ sleep' = IF sleep > 0 THEN sleep - 1 ELSE 0
    /\ spawnAge' = IF pc = "relay" THEN Older(spawnAge, FIRST_FRAME_TIMEOUT + 1) ELSE spawnAge
    /\ gone_since' = IF pc = "relay" /\ gone_since # None
                     THEN Older(gone_since, CLIENT_GRACE + 1) ELSE gone_since
    /\ stopAge' = IF pc \in Stopping \cup {"stopExit"} THEN Older(stopAge, STOP_BUDGET)
                  ELSE stopAge
    /\ restarts' = [i \in DOMAIN restarts |-> Older(restarts[i], MINUTE)]
    /\ termAge' = IF signals > 0 /\ pc # "exited" THEN Older(termAge, TimeoutStopSec)
                  ELSE termAge
    /\ empty' = IF clients = 0 THEN Older(empty, CLIENT_GRACE + 2) ELSE 0
    /\ patience' = IF child = "interrupted" THEN Older(patience, STOP_BUDGET) ELSE patience
    /\ polled' = FALSE
    /\ UNCHANGED <<pc, attempt, first_frame, over, registered, signals, child, pipe, others,
                   clients, event, subscribed, capture>>

Produce ==
    /\ child = "running" /\ ~pipe /\ pipe' = TRUE
    /\ UNCHANGED <<daemonVars, clockVars, child, others, patience, loopbackVars>>

Crash ==
    /\ child = "running" /\ child' = "dead"
    /\ UNCHANGED <<daemonVars, clockVars, pipe, others, patience, loopbackVars>>

\* A producer dies of SIGINT, at the latest within the budget if not stubborn.
Obey ==
    /\ child = "interrupted" /\ child' = "dead" /\ patience' = 0
    /\ UNCHANGED <<daemonVars, clockVars, pipe, others, loopbackVars>>

SetClients(n) ==
    /\ clients' = n
    /\ event' = IF subscribed THEN n ELSE event
    /\ empty' = 0

ClientOpens ==
    /\ capture /\ clients < MaxClients /\ SetClients(clients + 1)
    /\ UNCHANGED <<daemonVars, clockVars, machineVars, subscribed, capture>>

ClientCloses ==
    /\ clients > 0 /\ SetClients(clients - 1)
    /\ UNCHANGED <<daemonVars, clockVars, machineVars, subscribed, capture>>

OthersChange ==
    /\ others' = ~others
    /\ UNCHANGED <<daemonVars, clockVars, child, pipe, patience, loopbackVars>>

-----------------------------------------------------------------------------
Daemon ==
    \/ OpenLoopback \/ Advertise \/ Subscribe \/ Serve \/ CheckOthers \/ Refuse \/ Backoff
    \/ Spawn \/ Register \/ Relay \/ SessionStopped \/ Respawn \/ StuckStopped \/ Retry
    \/ GiveUp \/ StopFails \/ LeaveExcept \/ IgnoreSignals \/ Teardown \/ ExitStopped

\* Time does not pass a producer that will obey SIGINT by.
TickOrObey == Tick /\ (Stubborn \/ child # "interrupted" \/ stopAge + 1 < STOP_BUDGET)

World ==
    \/ Signal \/ SystemdKill \/ SystemdRestart
    \/ Produce \/ Crash \/ Obey \/ ClientOpens \/ ClientCloses \/ OthersChange

Next == Daemon \/ World \/ TickOrObey

(* The daemon is scheduled, systemd does its work, time passes, and a      *)
(* producer that is not stubborn dies of SIGINT.                           *)
Fairness ==
    /\ WF_vars(Daemon) /\ WF_vars(TickOrObey)
    /\ WF_vars(SystemdKill) /\ WF_vars(SystemdRestart)
    /\ ~Stubborn => WF_vars(Obey)

Spec == Init /\ [][Next]_vars
FairSpec == Spec /\ Fairness

-----------------------------------------------------------------------------
(* Correctness.                                                            *)

\* After a signal the daemon is gone before systemd's TimeoutStopSec, wherever
\* the signal hit it (also in the middle of a stop_gst, whose budget the
\* finally clause then starts over), so that systemd never has to kill it.
StopsInTime == termAge < TimeoutStopSec

\* "Never TERM/KILL on a live IPU6 stream": KillMode=mixed kills what outlives
\* the daemon, so the daemon leaves a child behind only when that child has had
\* the whole stop budget to die of SIGINT, wherever a signal hit the daemon and
\* whichever stop_gst it cut short.  Not covered: a child that CURRENT_PROC does
\* not name yet, and a second signal before signals are ignored.
KilledOnlyAfterBudget ==
    pc = "exited" /\ Alive => patience >= STOP_BUDGET \/ ~registered \/ signals > 1

\* "A reopen inside the grace reuses the running pipeline": a session is only
\* ended for want of clients when the device has been without one for the
\* whole grace period, however clients came and went between two polls.
LingerRespected ==
    [][over = "none" /\ over' = "clientsGone" => clients = 0 /\ empty > CLIENT_GRACE]_vars

\* src/bridges/surface-rear-bridge: "REFUSING to start: ... retry in 5 s".  As
\* long as the client waits, a refusal is followed by another look.
RefusalIsRetried ==
    (pc = "refuse") ~> (pc = "check" \/ clients = 0 \/ pc \in Closing)

Abstract == INSTANCE OnDemand WITH
    watched <- clients > 0,
    session <- pc \in Session \/ Alive,
    power <- Alive

\* "Nothing streams until an application opens the device": the rear bridge
\* implements the abstract on-demand camera.
ImplementsOnDemand == Abstract!Spec
=============================================================================
