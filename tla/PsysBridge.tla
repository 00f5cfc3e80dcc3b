----------------------------- MODULE PsysBridge -----------------------------
(***************************************************************************)
(* The front-camera bridge, src/bridges/surface-psys-bridge: a daemon that *)
(* owns the producer side of a v4l2loopback device, waits for the device's *)
(* client-usage event, runs gst-launch/icamerasrc as a child while         *)
(* somebody watches, and stops it with SIGINT, never SIGKILL.              *)
(*                                                                         *)
(* Modelled with it, from the way the daemon uses them: the loopback       *)
(* device, the gst child, the ov5693 driver module, systemd (which kills   *)
(* what is left in the cgroup once the main process is gone and restarts   *)
(* the unit), and the signals it sends, which Python turns into a          *)
(* KeyboardInterrupt at any point of the program.                          *)
(*                                                                         *)
(* Frames are not modelled, only whether a whole one is waiting in the     *)
(* pipe.  The clock is not modelled either: a deadline is a flag that the  *)
(* environment raises at an arbitrary moment after the timer was armed.    *)
(***************************************************************************)
EXTENDS Naturals

CONSTANTS
    MAX_ATTEMPTS,   \* producer starts tried per session
    MaxClients,     \* bound: clients that can hold the loopback at once
    MaxSignals,     \* bound: signals sent to one run of the daemon
    Stubborn        \* may a producer outlive SIGINT for STOP_BUDGET seconds?

ASSUME AttemptsAssumption == MAX_ATTEMPTS \in Nat \ {0}
ASSUME ClientsAssumption == MaxClients \in Nat \ {0}
ASSUME SignalsAssumption == MaxSignals \in Nat
ASSUME StubbornAssumption == Stubborn \in BOOLEAN

VARIABLES
    \* the daemon
    pc,           \* where the daemon is
    attempt,      \* the loop variable of run_session
    first_frame,  \* first_frame_t is not None
    gone,         \* gone_since is not None
    over,         \* the text of the SessionOver being handled, or "none"
    registered,   \* CURRENT_PROC[0] is the youngest child
    signals,      \* signals delivered to this run of the daemon
    \* its timers
    late,         \* FIRST_FRAME_TIMEOUT has passed since the spawn
    graceUp,      \* CLIENT_GRACE has passed since gone_since
    \* the producer
    child,        \* the youngest gst child
    flowing,      \* ... and whether it has delivered frames
    pipe,         \* a whole frame waits in its pipe
    outlasted,    \* a stop_gst of this run returned False
    \* the loopback device
    clients,      \* clients capturing from it
    event,        \* the pending client-usage event, NoEvent when there is none
    subscribed,   \* the daemon is subscribed to the event
    capture,      \* the device advertises CAPTURE
    \* the machine
    driver,       \* the ov5693 module
    isys,         \* the IPU6 ISYS firmware
    others,       \* somebody else runs an icamerasrc
    present       \* the loopback and /dev/ipu-psys0 exist

daemonVars == <<pc, attempt, first_frame, gone, over, registered, signals>>
timerVars == <<late, graceUp>>
childVars == <<child, flowing, pipe, outlasted>>
loopbackVars == <<clients, event, subscribed, capture>>
machineVars == <<driver, isys, others, present>>
vars == <<daemonVars, timerVars, childVars, loopbackVars, machineVars>>

-----------------------------------------------------------------------------
NoEvent == MaxClients + 1

Startup == {"start", "advertise", "subscribe"}
Looping == {"relay", "poll"}
Stopping == {"stopOver", "stopStuck"}
Session == {"check", "refuse", "spawn", "register"} \cup Looping \cup Stopping
             \cup {"respawn", "unload", "load", "giveup"}
Closing == {"except", "finally", "teardown", "stopExit"}
PC == Startup \cup {"wait"} \cup Session \cup Closing \cup {"exited"}

Alive == child \in {"running", "interrupted"}

\* poll(): the child is left alone if it is gone, else SIGINT is sent.
Interrupted == IF child = "running" THEN "interrupted" ELSE child

FlagsOK ==
    /\ first_frame \in BOOLEAN /\ gone \in BOOLEAN /\ registered \in BOOLEAN
    /\ late \in BOOLEAN /\ graceUp \in BOOLEAN
    /\ flowing \in BOOLEAN /\ pipe \in BOOLEAN /\ outlasted \in BOOLEAN
    /\ subscribed \in BOOLEAN /\ capture \in BOOLEAN
    /\ others \in BOOLEAN /\ present \in BOOLEAN

DataOK ==
    /\ pc \in PC
    /\ attempt \in 0..MAX_ATTEMPTS
    /\ over \in {"none", "producerExited", "writeFailed", "clientsGone"}
    /\ signals \in 0..MaxSignals
    /\ child \in {"none", "running", "interrupted", "dead"}
    /\ clients \in 0..MaxClients
    /\ event \in 0..NoEvent
    /\ driver \in {"loaded", "unloaded"}
    /\ isys \in {"ok", "wedged"}

TypeOK == FlagsOK /\ DataOK

Init ==
    /\ pc = "start"
    /\ attempt = 0 /\ first_frame = FALSE /\ gone = FALSE
    /\ over = "none" /\ registered = FALSE /\ signals = 0
    /\ late = FALSE /\ graceUp = FALSE
    /\ child = "none" /\ flowing = FALSE /\ pipe = FALSE /\ outlasted = FALSE
    /\ clients = 0 /\ event = NoEvent /\ subscribed = FALSE /\ capture = FALSE
    /\ driver = "loaded" /\ isys = "ok"
    /\ others \in BOOLEAN /\ present \in BOOLEAN

\* The locals of run_session cease to exist: it returned, or the process did.
DropLocals ==
    /\ attempt' = 0 /\ first_frame' = FALSE /\ gone' = FALSE /\ over' = "none"
    /\ late' = FALSE /\ graceUp' = FALSE

\* run_session returns; its caller continues at next.
Return(next) == pc' = next /\ DropLocals

\* The process ends: its loopback descriptor closes, and the event
\* subscription and the CAPTURE capability go with it.
Exit ==
    /\ pc' = "exited" /\ DropLocals
    /\ event' = NoEvent /\ subscribed' = FALSE /\ capture' = FALSE
    /\ UNCHANGED <<clients, registered>>

-----------------------------------------------------------------------------
(* main() up to the serve loop.                                            *)

\* The devices are looked up and the format set; a missing device ends the
\* process, and so does S_FMT, with EBUSY, while a client holds the loopback.
OpenLoopback ==
    /\ pc = "start"
    /\ \/ /\ present /\ clients = 0
          /\ pc' = "advertise"
          /\ UNCHANGED <<attempt, first_frame, gone, over, registered, timerVars,
                         loopbackVars>>
       \/ ~(present /\ clients = 0) /\ Exit
    /\ UNCHANGED <<signals, childVars, machineVars>>

\* The first black frame makes the device advertise CAPTURE.
Advertise ==
    /\ pc = "advertise"
    /\ pc' = "subscribe" /\ capture' = TRUE
    /\ UNCHANGED <<attempt, first_frame, gone, over, registered, signals,
                   timerVars, childVars, clients, event, subscribed, machineVars>>

\* VIDIOC_SUBSCRIBE_EVENT, without an initial event.
Subscribe ==
    /\ pc = "subscribe"
    /\ pc' = "wait" /\ subscribed' = TRUE
    /\ UNCHANGED <<attempt, first_frame, gone, over, registered, signals,
                   timerVars, childVars, clients, event, capture, machineVars>>

-----------------------------------------------------------------------------
(* The serve loop and run_session.                                         *)

\* poll_client_count drains the device's queue: the newest count, or None.
poll_client_count(count) == count = event /\ event' = NoEvent

\* Mutant: a session for any event ("is not None" instead of truth).
Wanted_AnyEvent(count) == count >= 0

\* The count that starts a session.
Wanted(count) == count > 0

\* select() returned: a session begins if the newest count is positive.
Serve ==
    /\ pc = "wait" /\ event # NoEvent
    /\ \E count \in 0..NoEvent :
          /\ poll_client_count(count)
          /\ pc' = IF Wanted(count) THEN "check" ELSE "wait"
    /\ UNCHANGED <<attempt, first_frame, gone, over, registered, signals,
                   timerVars, childVars, clients, subscribed, capture, machineVars>>

\* run_session first looks for somebody else's icamerasrc ...
CheckOthers ==
    /\ pc = "check"
    /\ \/ others /\ pc' = "refuse" /\ UNCHANGED attempt
       \/ ~others /\ pc' = "spawn" /\ attempt' = 1
    /\ UNCHANGED <<first_frame, gone, over, registered, signals,
                   timerVars, childVars, loopbackVars, machineVars>>

\* ... and, having found one, sleeps and tries again while a client waits.
Refuse ==
    /\ pc = "refuse"
    /\ \E count \in 0..NoEvent :
          /\ poll_client_count(count)
          /\ Return(IF count = NoEvent \/ count > 0 THEN "check" ELSE "wait")
    /\ UNCHANGED <<registered, signals, childVars, clients, subscribed, capture,
                   machineVars>>

\* Popen: from here on the child lives, but CURRENT_PROC does not know it yet.
Spawn ==
    /\ pc = "spawn"
    /\ pc' = "register"
    /\ child' = "running" /\ flowing' = FALSE /\ pipe' = FALSE
    /\ registered' = FALSE
    /\ UNCHANGED <<attempt, first_frame, gone, over, signals, timerVars, outlasted,
                   loopbackVars, machineVars>>

\* CURRENT_PROC[0] = proc, and the locals of this attempt are set afresh.
Register ==
    /\ pc = "register"
    /\ pc' = "relay" /\ registered' = TRUE
    /\ first_frame' = FALSE /\ gone' = FALSE
    /\ late' = FALSE /\ graceUp' = FALSE
    /\ UNCHANGED <<attempt, over, signals, childVars, loopbackVars, machineVars>>

\* SessionOver(why) is raised; its handler begins with stop_gst.
RaiseSessionOver(why) == pc' = "stopOver" /\ over' = why /\ child' = Interrupted

\* The while loop is left by break; stop_gst comes next.
BreakStuck == pc' = "stopStuck" /\ child' = Interrupted /\ UNCHANGED over

\* Mutant: the watchdog never fires.
Overdue_Never == FALSE

\* The watchdog: no first frame in time is the known stuck start.
Overdue == ~first_frame /\ late

\* The first half of an iteration: watchdog, splash, and what the pipe holds.
Relay ==
    /\ pc = "relay"
    /\ \/ Overdue /\ BreakStuck /\ UNCHANGED <<first_frame, pipe>>
       \/ /\ ~Overdue
          /\ \/ /\ pipe                                   \* a whole frame
                /\ pipe' = FALSE /\ first_frame' = TRUE
                /\ \/ pc' = "poll" /\ UNCHANGED <<over, child>>
                   \/ RaiseSessionOver("writeFailed")
             \/ /\ ~pipe /\ child = "dead"                \* end of file
                /\ \/ ~first_frame /\ BreakStuck
                   \/ first_frame /\ RaiseSessionOver("producerExited")
                /\ UNCHANGED <<first_frame, pipe>>
             \/ /\ ~pipe /\ child # "dead"                \* nothing to read
                /\ pc' = "poll"
                /\ UNCHANGED <<over, child, first_frame, pipe>>
    /\ UNCHANGED <<attempt, gone, registered, signals, timerVars, flowing,
                   outlasted, loopbackVars, machineVars>>

\* Mutant: gone_since is not cleared when a client comes back.
GoneAfter_Sticky(count) == gone \/ count = 0

\* Mutant: "if count" instead of "if count is not None".
GoneAfter_IfCount(count) == gone /\ count = 0

\* gone_since after a count: cleared by any client, else set to now.
GoneAfter(count) == count = 0

\* The second half: the client count and the grace period.
PollClients ==
    /\ pc = "poll"
    /\ \E count \in 0..NoEvent :
          /\ poll_client_count(count)
          /\ \/ /\ count # NoEvent
                /\ gone' = GoneAfter(count) /\ graceUp' = FALSE
                /\ pc' = "relay" /\ UNCHANGED <<over, child>>
             \/ /\ count = NoEvent
                /\ UNCHANGED <<gone, graceUp>>
                /\ \/ gone /\ graceUp /\ RaiseSessionOver("clientsGone")
                   \/ ~(gone /\ graceUp) /\ pc' = "relay" /\ UNCHANGED <<over, child>>
    /\ UNCHANGED <<attempt, first_frame, registered, signals, late, flowing, pipe,
                   outlasted, clients, subscribed, capture, machineVars>>

\* Mutant: the result of stop_gst is not looked at.
SessionStopped_Unchecked ==
    /\ pc = "stopOver"
    /\ Return(IF over = "producerExited" /\ ~gone THEN "respawn" ELSE "wait")
    /\ UNCHANGED <<registered, signals, childVars, loopbackVars, machineVars>>

\* Mutant: a producer that died under its clients ends the session too.
SessionStopped_NoRespawn ==
    /\ pc = "stopOver" /\ child = "dead"
    /\ Return("wait")
    /\ UNCHANGED <<registered, signals, childVars, loopbackVars, machineVars>>

\* stop_gst returned True in the SessionOver handler: another session at once
\* (after a second) if the producer died under its clients, else idle.
SessionStopped ==
    /\ pc = "stopOver" /\ child = "dead"
    /\ Return(IF over = "producerExited" /\ ~gone THEN "respawn" ELSE "wait")
    /\ UNCHANGED <<registered, signals, childVars, loopbackVars, machineVars>>

Respawn ==
    /\ pc = "respawn"
    /\ pc' = "check"
    /\ UNCHANGED <<attempt, first_frame, gone, over, registered, signals,
                   timerVars, childVars, loopbackVars, machineVars>>

\* Mutant: one recycle too many.
StuckStopped_OffByOne ==
    /\ pc = "stopStuck" /\ child = "dead"
    /\ pc' = IF attempt <= MAX_ATTEMPTS THEN "unload" ELSE "giveup"
    /\ UNCHANGED <<attempt, first_frame, gone, over, registered, signals,
                   timerVars, childVars, loopbackVars, machineVars>>

\* stop_gst returned True after a stuck start: recycle the driver, or give up.
StuckStopped ==
    /\ pc = "stopStuck" /\ child = "dead"
    /\ pc' = IF attempt < MAX_ATTEMPTS THEN "unload" ELSE "giveup"
    /\ UNCHANGED <<attempt, first_frame, gone, over, registered, signals,
                   timerVars, childVars, loopbackVars, machineVars>>

\* recycle_sensor: modprobe -r, modprobe; neither exit status is looked at.
Unload ==
    /\ pc = "unload"
    /\ pc' = "load" /\ driver' \in {driver, "unloaded"}
    /\ UNCHANGED <<attempt, first_frame, gone, over, registered, signals,
                   timerVars, childVars, loopbackVars, isys, others, present>>

Load ==
    /\ pc = "load"
    /\ pc' = "spawn" /\ driver' \in {driver, "loaded"}
    /\ attempt' = attempt + 1
    /\ UNCHANGED <<first_frame, gone, over, registered, signals,
                   timerVars, childVars, loopbackVars, isys, others, present>>

GiveUp ==
    /\ pc = "giveup"
    /\ Return("wait")
    /\ UNCHANGED <<registered, signals, childVars, loopbackVars, machineVars>>

\* stop_gst ran out of its budget: sys.exit(1), which runs main's finally.
StopFails ==
    /\ pc \in Stopping /\ child = "interrupted" /\ Stubborn
    /\ Return("finally") /\ outlasted' = TRUE
    /\ UNCHANGED <<registered, signals, child, flowing, pipe, loopbackVars, machineVars>>

-----------------------------------------------------------------------------
(* Signals and the way out.                                                *)

\* SIGTERM or SIGINT: KeyboardInterrupt where the daemon happens to be.  Before
\* the try it ends the process; inside, the except clause runs, and then the
\* finally clause; a second one leaves either clause; once they are ignored
\* ("teardown" and later) signals have no effect.
Signal ==
    /\ signals < MaxSignals
    /\ signals' = signals + 1
    /\ \/ pc \in Startup \cup {"finally"} /\ Exit
       \/ /\ pc \in Session \cup {"wait"} /\ Return("except")
          /\ UNCHANGED <<registered, loopbackVars>>
       \/ /\ pc = "except" /\ Return("finally")
          /\ UNCHANGED <<registered, loopbackVars>>
    /\ UNCHANGED <<childVars, machineVars>>

LeaveExcept ==
    /\ pc = "except"
    /\ pc' = "finally"
    /\ UNCHANGED <<attempt, first_frame, gone, over, registered, signals,
                   timerVars, childVars, loopbackVars, machineVars>>

IgnoreSignals ==
    /\ pc = "finally"
    /\ pc' = "teardown"
    /\ UNCHANGED <<attempt, first_frame, gone, over, registered, signals,
                   timerVars, childVars, loopbackVars, machineVars>>

\* Mutant: the process ends without stopping its child.
Teardown_NoStop ==
    /\ pc = "teardown" /\ Exit
    /\ UNCHANGED <<signals, childVars, machineVars>>

\* The finally clause stops the child that CURRENT_PROC names, if it is alive.
Teardown ==
    /\ pc = "teardown"
    /\ \/ /\ registered /\ Alive
          /\ pc' = "stopExit" /\ child' = Interrupted
          /\ UNCHANGED <<attempt, first_frame, gone, over, registered, timerVars,
                         loopbackVars>>
       \/ ~(registered /\ Alive) /\ Exit /\ UNCHANGED child
    /\ UNCHANGED <<signals, flowing, pipe, outlasted, machineVars>>

ExitStopped ==
    /\ pc = "stopExit"
    /\ \/ child = "dead" /\ UNCHANGED outlasted
       \/ child = "interrupted" /\ Stubborn /\ outlasted' = TRUE
    /\ Exit
    /\ UNCHANGED <<signals, child, flowing, pipe, machineVars>>

\* Mutant: the unit waits for what is left of its cgroup (KillMode=none).
SystemdRestart_NoKill ==
    /\ pc = "exited" /\ ~Alive
    /\ pc' = "start"
    /\ child' = "none" /\ flowing' = FALSE /\ pipe' = FALSE /\ outlasted' = FALSE
    /\ signals' = 0 /\ registered' = FALSE
    /\ UNCHANGED <<attempt, first_frame, gone, over, timerVars, loopbackVars, machineVars>>

\* systemd: whatever is left of the unit's cgroup is killed, and after
\* RestartSec the daemon is started again (Restart=always).  Killing a
\* streaming icamerasrc wedges the ISYS until reboot.
SystemdRestart ==
    /\ pc = "exited"
    /\ pc' = "start"
    /\ isys' = IF Alive /\ flowing THEN "wedged" ELSE isys
    /\ child' = "none" /\ flowing' = FALSE /\ pipe' = FALSE /\ outlasted' = FALSE
    /\ signals' = 0 /\ registered' = FALSE
    /\ UNCHANGED <<attempt, first_frame, gone, over, timerVars, loopbackVars,
                   driver, others, present>>

-----------------------------------------------------------------------------
(* The producer, the timers, the clients and the rest of the machine.      *)

\* A producer delivers only through a loaded driver and a working ISYS.
Produce ==
    /\ child = "running" /\ driver = "loaded" /\ isys = "ok"
    /\ flowing' = TRUE /\ pipe' = TRUE
    /\ UNCHANGED <<daemonVars, timerVars, child, outlasted, loopbackVars, machineVars>>

\* It may die by itself at any time ...
Crash ==
    /\ child = "running"
    /\ child' = "dead" /\ flowing' = FALSE
    /\ UNCHANGED <<daemonVars, timerVars, pipe, outlasted, loopbackVars, machineVars>>

\* ... and it dies of SIGINT.
Obey ==
    /\ child = "interrupted"
    /\ child' = "dead" /\ flowing' = FALSE
    /\ UNCHANGED <<daemonVars, timerVars, pipe, outlasted, loopbackVars, machineVars>>

StartTimeout ==
    /\ pc \in Looping /\ ~first_frame /\ ~late
    /\ late' = TRUE
    /\ UNCHANGED <<daemonVars, graceUp, childVars, loopbackVars, machineVars>>

GraceElapses ==
    /\ pc \in Looping /\ gone /\ ~graceUp
    /\ graceUp' = TRUE
    /\ UNCHANGED <<daemonVars, late, childVars, loopbackVars, machineVars>>

\* The device tells its subscriber every new number of capturing clients; a
\* newer number replaces one that was not collected yet.
SetClients(n) ==
    /\ clients' = n
    /\ event' = IF subscribed THEN n ELSE event

ClientOpens ==
    /\ capture /\ clients < MaxClients /\ SetClients(clients + 1)
    /\ UNCHANGED <<daemonVars, timerVars, childVars, subscribed, capture, machineVars>>

ClientCloses ==
    /\ clients > 0 /\ SetClients(clients - 1)
    /\ UNCHANGED <<daemonVars, timerVars, childVars, subscribed, capture, machineVars>>

OthersChange ==
    /\ others' = ~others
    /\ UNCHANGED <<daemonVars, timerVars, childVars, loopbackVars, driver, isys, present>>

DevicesAppear ==
    /\ ~present /\ present' = TRUE
    /\ UNCHANGED <<daemonVars, timerVars, childVars, loopbackVars, driver, isys, others>>

-----------------------------------------------------------------------------
Daemon ==
    \/ OpenLoopback \/ Advertise \/ Subscribe
    \/ Serve \/ CheckOthers \/ Refuse \/ Spawn \/ Register \/ Relay \/ PollClients
    \/ SessionStopped \/ Respawn \/ StuckStopped \/ Unload \/ Load \/ GiveUp
    \/ StopFails
    \/ LeaveExcept \/ IgnoreSignals \/ Teardown \/ ExitStopped

Environment ==
    \/ Signal \/ SystemdRestart
    \/ Produce \/ Crash \/ Obey
    \/ StartTimeout \/ GraceElapses
    \/ ClientOpens \/ ClientCloses \/ OthersChange \/ DevicesAppear

Next == Daemon \/ Environment

(* The daemon is scheduled, systemd restarts the unit, time passes, and a  *)
(* producer that is not stubborn dies of SIGINT.  Nothing obliges clients  *)
(* to come or go, a producer to deliver, or signals to arrive.             *)
Fairness ==
    /\ WF_vars(Daemon)
    /\ WF_vars(SystemdRestart)
    /\ WF_vars(StartTimeout) /\ WF_vars(GraceElapses)
    /\ WF_vars(DevicesAppear)
    /\ ~Stubborn => WF_vars(Obey)

Spec == Init /\ [][Next]_vars
FairSpec == Spec /\ Fairness

-----------------------------------------------------------------------------
(* Correctness.                                                            *)

\* The places of the program where the daemon relies on having no live child:
\* idle, starting up, about to spawn, and while the driver is recycled.
Childless == Startup \cup {"wait", "check", "refuse", "spawn", "respawn", "unload",
                           "load", "giveup"}

\* "Only ONE icamerasrc instance at a time" and "reload under a live stream
\* wedges the ISYS": the daemon never spawns a producer, touches the driver or
\* goes idle while an earlier child of its own is still alive.
NoStrayProducer == pc \in Childless => ~Alive

\* A producer that CURRENT_PROC names and that obeys SIGINT is stopped before
\* the process ends, wherever a signal hit the daemon: systemd finds nothing
\* to kill.  A second signal can still break this, so at most one is assumed.
RegisteredProducerIsStopped ==
    pc = "exited" /\ registered /\ ~outlasted /\ signals <= 1 => ~Alive

\* A session is only ever ended for want of clients when there are none: with
\* no event left to collect, gone_since is set only while nobody captures, so
\* the grace period never runs out under a client that is there.
GoneMeansNobody ==
    pc \in Looping /\ gone /\ event = NoEvent => clients = 0

\* Somebody captures, and nothing will wake the idle daemon.
Stranded == pc = "wait" /\ event = NoEvent /\ clients > 0

\* "No new client-usage event will fire -- ask the serve loop to start a fresh
\* session": every way back to the idle state either leaves nobody behind or
\* leaves an event to collect, however clients came and went since the last
\* poll.  The exceptions are the code's own: it gave up, the loopback refused a
\* frame, or the client opened the device before the daemon subscribed.
NeverStrandsWatchers ==
    [][Stranded' => Stranded \/ pc \in {"giveup", "subscribe"} \/ over = "writeFailed"]_vars

\* Restart=always: however often the daemon died, and although it cannot start
\* while a client holds the loopback, it ends up serving once the clients have
\* left and no more signals come, with a producer that ignores SIGINT too.
RecoversOnceFree ==
    <>[](clients = 0 /\ signals = 0) => <>[]subscribed

\* A client whose arrival the idle daemon was told of is attended: frames come,
\* or the daemon gives up after its attempts; unless the client leaves first,
\* somebody else holds the HAL, or the daemon is told to stop.
Attended ==
    (pc = "wait" /\ event \in 1..MaxClients)
       ~> \/ first_frame \/ pc = "giveup"
          \/ clients = 0 \/ others \/ pc \in Closing \cup {"exited"}

\* src/README.md: "the sensor powers down a few seconds after the last client
\* leaves", in whatever attempt the session is.
CameraReleased == []<>(clients > 0 \/ ~Alive)

\* It holds as long as no start is ever retried: the grace period of a first
\* attempt always runs its course.
ReleasedUnlessRetried == [](attempt <= 1) => CameraReleased

\* src/README.md: "nothing streams until an application opens the device".
Abstract == INSTANCE OnDemand WITH
    watched <- clients > 0,
    session <- pc \in Session \/ Alive,
    power <- Alive

\* The bridge implements the abstract on-demand camera.
ImplementsOnDemand == Abstract!Spec
=============================================================================
