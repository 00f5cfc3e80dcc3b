------------------------------ MODULE IrBridge ------------------------------
(***************************************************************************)
(* The infrared bridge, src/bridges/surface-ir-bridge: a daemon that owns  *)
(* the producer side of a loopback device and, while somebody captures     *)
(* from it, streams the OV7251 (whose illuminator is lit while it streams) *)
(* from the ISYS capture node.  A start that comes up wedged is detected   *)
(* on its first frames and restarted, at last with the stock blanking.     *)
(*                                                                         *)
(* Composed with the sensor's controls (Ov7251Controls), which outlive the *)
(* daemon, and with the media graph, the capture node, the loopback and    *)
(* systemd, modelled from the way the daemon uses them.  Of a frame only   *)
(* the signature the probe looks for is kept.  The exposure loop is the    *)
(* module IrExposure; here it moves the exposure between its bounds, and   *)
(* leaves the gain, which no range moves, alone.                           *)
(*                                                                         *)
(* The daemon sets up the graph and the controls through media-ctl and     *)
(* v4l2-ctl and looks at the result of neither (check=False): each setting *)
(* may be taken or not.  Two history variables tell the runs and sessions  *)
(* apart in which everything was: misread and refused.                     *)
(***************************************************************************)
EXTENDS Ov7251Controls

CONSTANTS
    WEDGE_RETRIES, FALLBACK_RETRIES,
    WEDGE_PROBE_FRAMES,
    VBLANK_STOCK,
    EXPOSURE_START, GAIN_START,   \* what every session begins with
    ToolsFail,        \* media-ctl and v4l2-ctl may fail
    MaxClients,       \* bound: clients that can hold the loopback at once
    MaxSignals        \* bound: signals sent to one run of the daemon

ASSUME BridgeAssumption ==
    /\ {WEDGE_RETRIES, FALLBACK_RETRIES, MaxClients} \subseteq Nat \ {0}
    /\ WEDGE_PROBE_FRAMES \in Nat /\ WEDGE_PROBE_FRAMES >= 2
    /\ {VBLANK_STOCK, EXPOSURE_START} \subseteq Nat \ {0} /\ VBLANK_STOCK <= TIMING_MAX_VTS - HEIGHT
    /\ EXPOSURE_START <= TIMING_MAX_VTS
    /\ {GAIN_START, MaxSignals} \subseteq Nat /\ ToolsFail \in BOOLEAN

VARIABLES
    \* the daemon
    pc,
    attempt,       \* the index i of start_capture's loop
    seen,          \* frames the probe has taken
    pending,       \* probed frames still to be forwarded
    gone, graceUp, \* gone_since is set; CLIENT_GRACE has passed since
    exposure,      \* the exposure loop's idea of the exposure
    exposure_max,  \* its ceiling in this session
    refused,       \* history: what the driver has not taken of the attempt's settings
    EXPOSURE_MAX,  \* the ceiling read off the driver at start-up
    VBLANK_DEF,    \* the blanking read off the driver at start-up
    misread,       \* history: neither could be read
    signals,
    \* the capture node and the sensor
    fd,            \* this process holds the capture node
    lit,           \* the sensor streams, and the illuminator is on
    kind,          \* what the stream came up as
    abandoned,     \* history: an exception went past the code that stops the stream
    ctl,           \* the sensor's controls
    linked,        \* the receiver is linked to the capture node
    \* the loopback device
    clients, event, subscribed, capture

sessionVars == <<attempt, seen, pending, gone, graceUp, exposure, exposure_max, refused>>
timingVars == <<EXPOSURE_MAX, VBLANK_DEF, misread>>
sensorVars == <<fd, lit, kind, abandoned, ctl, linked>>
loopbackVars == <<clients, event, subscribed, capture>>
vars == <<pc, sessionVars, timingVars, signals, sensorVars, loopbackVars>>

-----------------------------------------------------------------------------
NoEvent == MaxClients + 1

Startup == {"start", "graph0", "advertise", "subscribe"}
Starting == {"graph", "configure", "open", "probe", "closeProbe"}
Session == Starting \cup {"stream", "close", "closeFailed", "failed"}
Closing == {"closeExit", "except"}
PC == Startup \cup {"wait"} \cup Session \cup Closing \cup {"exited"}

\* The ceiling when the driver's cannot be read.  The blanking is then 1244, which
\* is also VBLANK_STOCK, so that there is nothing to fall back to.
EXPOSURE_STOCK == 1704

\* The minimum of the driver's range, or the constant in its place.
EXPOSURE_MIN == IF misread THEN 2 ELSE 1

\* Is there a longer timing to fall back from?
HasFallback == VBLANK_STOCK < VBLANK_DEF

\* The number of attempts, and the blanking and the ceiling of each.
Attempts == WEDGE_RETRIES + (IF HasFallback THEN FALLBACK_RETRIES ELSE 0)

AttemptVblank(i) == IF i < WEDGE_RETRIES THEN VBLANK_DEF ELSE VBLANK_STOCK

Lesser(a, b) == IF a < b THEN a ELSE b
Greater(a, b) == IF a > b THEN a ELSE b

\* At least one line more than the shortest exposure.
AttemptMax(i) ==
    LET moved == EXPOSURE_MAX - (VBLANK_DEF - VBLANK_STOCK)
    IN  IF i < WEDGE_RETRIES THEN EXPOSURE_MAX ELSE Greater(moved, EXPOSURE_MIN + 1)

FlagsOK ==
    /\ gone \in BOOLEAN /\ graceUp \in BOOLEAN
    /\ fd \in BOOLEAN /\ lit \in BOOLEAN /\ abandoned \in BOOLEAN /\ linked \in BOOLEAN
    /\ subscribed \in BOOLEAN /\ capture \in BOOLEAN /\ misread \in BOOLEAN
    /\ refused \subseteq {"blanking", "exposure"}

DataOK ==
    /\ pc \in PC
    /\ attempt \in 0..WEDGE_RETRIES + FALLBACK_RETRIES - 1
    /\ seen \in 0..WEDGE_PROBE_FRAMES /\ pending \in 0..WEDGE_PROBE_FRAMES
    /\ signals \in 0..MaxSignals
    /\ kind \in {"none", "clean", "rows", "timing"}
    /\ clients \in 0..MaxClients /\ event \in 0..NoEvent

\* The blanking is the driver's default or the fallback.
KnobsOK ==
    /\ {exposure, exposure_max, EXPOSURE_MAX, VBLANK_DEF} \subseteq Nat
    /\ exposure <= TIMING_MAX_VTS /\ exposure_max <= TIMING_MAX_VTS
    /\ EXPOSURE_MAX <= TIMING_MAX_VTS /\ VBLANK_DEF <= TIMING_MAX_VTS
    /\ ControlsOK(ctl) /\ ctl.mode = 1
    /\ ctl.vblank \in {VBLANK_STOCK, ctl.vdef}

TypeOK == FlagsOK /\ DataOK /\ KnobsOK

Init ==
    /\ pc = "start" /\ attempt = 0 /\ seen = 0 /\ pending = 0
    /\ gone = FALSE /\ graceUp = FALSE /\ exposure = 0 /\ exposure_max = 0
    /\ EXPOSURE_MAX = 0 /\ VBLANK_DEF = 0 /\ misread = FALSE /\ refused = {} /\ signals = 0
    /\ fd = FALSE /\ lit = FALSE /\ kind = "none" /\ abandoned = FALSE
    /\ linked \in BOOLEAN
    /\ ctl = SetFormat(FreshControls)
    /\ clients = 0 /\ event = NoEvent /\ subscribed = FALSE /\ capture = FALSE

\* run_session ended, or the process did.
DropLocals ==
    /\ attempt' = 0 /\ seen' = 0 /\ pending' = 0 /\ gone' = FALSE /\ graceUp' = FALSE
    /\ exposure' = 0 /\ exposure_max' = 0 /\ refused' = {}

\* The process ends and its descriptors close.  If a stream was still on, it
\* may stop with them, or stay lit (the comment of _terminate).
Exit ==
    /\ pc' = "exited" /\ DropLocals
    /\ fd' = FALSE /\ kind' = "none"
    /\ lit' \in {FALSE, lit} /\ abandoned' = (abandoned /\ lit')
    /\ event' = NoEvent /\ subscribed' = FALSE /\ capture' = FALSE
    /\ UNCHANGED <<timingVars, ctl, linked, clients>>

-----------------------------------------------------------------------------
(* main() up to the serve loop.                                            *)

\* The devices are found, and query_sensor_timing reads the current exposure
\* range and the default blanking, or falls back on constants; a missing device
\* ends the process.
QueryTiming ==
    /\ pc = "start"
    /\ \/ /\ pc' = "graph0" /\ misread' = FALSE
          /\ EXPOSURE_MAX' = ctl.emax /\ VBLANK_DEF' = ctl.vdef
       \/ /\ ToolsFail /\ pc' = "graph0" /\ misread' = TRUE
          /\ EXPOSURE_MAX' = EXPOSURE_STOCK /\ VBLANK_DEF' = VBLANK_STOCK
       \/ pc' = "exited" /\ UNCHANGED timingVars
    /\ UNCHANGED <<sessionVars, signals, sensorVars, loopbackVars>>

\* A setting that would make the controls c is not taken.  On a sensor that streams
\* its range may have moved all the same, with the exposure or without.
NotTaken(c) ==
    {ctl} \cup {[ctl EXCEPT !.emax = c.emax, !.exposure = e] :
                  e \in IF lit THEN {ctl.exposure, Clamp(ctl.exposure, 1, c.emax), c.exposure}
                       ELSE {}}

\* setup_graph: the link is made and the sensor's format set, or not.
SetupGraph ==
    /\ linked' = TRUE \/ (ToolsFail /\ linked' = linked)
    /\ ctl' = SetFormat(ctl) \/ (ToolsFail /\ ctl' \in NotTaken(SetFormat(ctl)))

\* The first graph; then S_FMT on the loopback, which a client that holds it
\* makes fail with EBUSY.
OpenLoopback ==
    /\ pc = "graph0"
    /\ \/ SetupGraph /\ pc' = IF clients = 0 THEN "advertise" ELSE "exited"
       \/ pc' = "exited" /\ UNCHANGED <<linked, ctl>>
    /\ UNCHANGED <<sessionVars, timingVars, signals, fd, lit, kind, abandoned, loopbackVars>>

\* The black frame makes the device advertise CAPTURE.
Advertise ==
    /\ pc = "advertise" /\ pc' = "subscribe" /\ capture' = TRUE
    /\ UNCHANGED <<sessionVars, timingVars, signals, sensorVars, clients, event,
                   subscribed>>

Subscribe ==
    /\ pc = "subscribe" /\ pc' = "wait" /\ subscribed' = TRUE
    /\ UNCHANGED <<sessionVars, timingVars, signals, sensorVars, clients, event, capture>>

-----------------------------------------------------------------------------
(* serve() and start_capture().                                            *)

poll_client_count(count) == count = event /\ event' = NoEvent

\* Mutant: a session for any event.
Wanted_AnyEvent(count) == count >= 0

\* The count that starts a session.
Wanted(count) == count > 0

\* A session begins at the first attempt, with the starting exposure.
Serve ==
    /\ pc = "wait" /\ event # NoEvent
    /\ \E count \in 0..NoEvent :
          /\ poll_client_count(count)
          /\ \/ Wanted(count) /\ pc' = "graph" /\ exposure' = EXPOSURE_START
             \/ ~Wanted(count) /\ UNCHANGED <<pc, exposure>>
    /\ UNCHANGED <<attempt, seen, pending, gone, graceUp, exposure_max, refused, timingVars,
                   signals, sensorVars, clients, subscribed, capture>>

\* setup_graph of an attempt; RuntimeError if the graph is not as expected.
Graph ==
    /\ pc = "graph"
    /\ \/ pc' = "configure" /\ SetupGraph
       \/ pc' = "failed" /\ UNCHANGED <<linked, ctl>>
    /\ UNCHANGED <<sessionVars, timingVars, signals, fd, lit, kind, abandoned, loopbackVars>>

\* Mutant: the blanking is only written when falling back.
Blanked_FallbackOnly(i) == IF i < WEDGE_RETRIES THEN {ctl} ELSE {SetVblank(ctl, AttemptVblank(i))}

\* set_vblank, taken.  A sensor that streams may not take the exposure with it.
Blanked(i) ==
    LET c == SetVblank(ctl, AttemptVblank(i))
    IN  {c} \cup (IF lit THEN {Uncompensated(c, ctl)} ELSE {})

\* set_ctrls, taken.
Exposed(c, i) == SetGain(SetExposure(c, Lesser(EXPOSURE_START, AttemptMax(i))), GAIN_START)

\* set_vblank, then set_ctrls; a tool that cannot be run ends the session.
Configure ==
    /\ pc = "configure" /\ pc' \in {"open", "failed"}
    /\ refused' \in IF ToolsFail THEN SUBSET {"blanking", "exposure"} ELSE {{}}
    /\ \E c \in IF "blanking" \in refused' THEN NotTaken(SetVblank(ctl, AttemptVblank(attempt)))
                ELSE Blanked(attempt) :
          ctl' = IF "exposure" \in refused' THEN c ELSE Exposed(c, attempt)
    /\ UNCHANGED <<attempt, seen, pending, gone, graceUp, exposure, exposure_max, timingVars,
                   signals, fd, lit, kind, abandoned, linked, loopbackVars>>

\* start_capture returns; run_session goes on with what the probe has taken.
Started(frames) ==
    /\ pc' = "stream" /\ pending' = frames
    /\ exposure_max' = AttemptMax(attempt)
    /\ exposure' = Lesser(exposure, AttemptMax(attempt))

\* Mutant: an off-by-one, no attempt is the last.
IsLast_OffByOne(i) == i = Attempts

\* The last attempt is served as it is.
IsLast(i) == i = Attempts - 1

\* The driver's handler setup at the start of a stream, whose last write, that of
\* the exposure brought into its range, it does not look at.
AfterSetup == {HandlerSetup(ctl), Uncompensated(HandlerSetup(ctl), ctl)}

\* Capture(node): REQBUFS fails with EBUSY while a descriptor leaked earlier
\* still streams, STREAMON with ENOLINK when the link was severed, and either may
\* fail otherwise; what was opened is closed.  Else the sensor streams, in one of
\* three shapes.
OpenCapture ==
    /\ pc = "open"
    /\ \/ /\ pc' = "failed"
          /\ \/ UNCHANGED ctl
             \/ ~fd /\ linked /\ ctl' \in AfterSetup
          /\ UNCHANGED <<seen, pending, exposure, exposure_max, fd, lit, kind, abandoned>>
       \/ /\ ~fd /\ linked
          /\ fd' = TRUE /\ lit' = TRUE /\ abandoned' = FALSE
          /\ kind' \in {"clean", "rows", "timing"}
          /\ ctl' \in AfterSetup /\ seen' = 0
          /\ \/ IsLast(attempt) /\ Started(0)
             \/ /\ ~IsLast(attempt) /\ pc' = "probe"
                /\ UNCHANGED <<pending, exposure, exposure_max>>
    /\ UNCHANGED <<attempt, gone, graceUp, refused, timingVars, signals, linked, loopbackVars>>

\* Mutant: every inspected frame has to be pinned.
Wedged_Unanimous(n) == kind \in {"rows", "timing"} /\ n = WEDGE_PROBE_FRAMES

\* The verdict of wedge_probe on n frames: two pinned, or two short periods.
Wedged(n) == (kind = "rows" /\ n >= 2) \/ (kind = "timing" /\ n >= 3)

\* One turn of wedge_probe: a frame, or none for two seconds, which ends the
\* probe; the verdict follows the last frame.
Probe ==
    /\ pc = "probe"
    /\ \E n \in {seen, seen + 1} :
          /\ n <= WEDGE_PROBE_FRAMES /\ seen' = n
          /\ \/ /\ n > seen /\ n < WEDGE_PROBE_FRAMES
                /\ UNCHANGED <<pc, pending, exposure, exposure_max>>
             \/ /\ n = seen \/ n = WEDGE_PROBE_FRAMES
                /\ \/ ~Wedged(n) /\ Started(n)
                   \/ Wedged(n) /\ pc' = "closeProbe"
                      /\ UNCHANGED <<pending, exposure, exposure_max>>
    /\ UNCHANGED <<attempt, gone, graceUp, refused, timingVars, signals, sensorVars,
                   loopbackVars>>

\* DQBUF fails in the probe: the exception leaves start_capture, where nothing
\* closes the capture.
ProbeFails ==
    /\ pc = "probe" /\ pc' = "failed" /\ abandoned' = TRUE
    /\ UNCHANGED <<sessionVars, timingVars, signals, fd, lit, kind, ctl, linked, loopbackVars>>

\* cap.close(): STREAMOFF, and the node is released.
CloseCapture ==
    /\ fd' = FALSE /\ lit' = FALSE /\ kind' = "none" /\ abandoned' = FALSE
    /\ UNCHANGED <<ctl, linked>>

\* The loop goes on to the next attempt.
NextAttempt(i) == i + 1

Retry ==
    /\ pc = "closeProbe" /\ CloseCapture
    /\ pc' = "graph" /\ attempt' = NextAttempt(attempt)
    /\ UNCHANGED <<seen, pending, gone, graceUp, exposure, exposure_max, refused, timingVars,
                   signals, loopbackVars>>

-----------------------------------------------------------------------------
(* The loop of run_session.                                                *)

\* The exposure loop may leave the exposure, or move it to a bound.  set_ctrls hands
\* it to the driver, a new one always, the old one again with a new gain; the loop
\* goes on from the new one also when the driver has not taken it.
AutoExposure ==
    \E e \in {exposure, EXPOSURE_MIN, exposure_max} :
        /\ exposure' = e
        /\ \/ ctl' = SetExposure(ctl, e) /\ refused' = refused \ {"exposure"}
           \/ e = exposure /\ UNCHANGED <<ctl, refused>>
           \/ ToolsFail /\ ctl' = ctl /\ refused' = refused \cup {"exposure"}

\* Mutant: "if count" instead of "if count is not None".
GoneAfter_IfCount(count) == gone /\ count \in {0, NoEvent}

\* gone_since after a poll.
GoneAfter(count) == IF count = NoEvent THEN gone ELSE count = 0

\* A frame, probed before or new: it is written, the exposure adjusted, and the
\* client count looked at.  The grace period may only end the session when the
\* count has not just been set.
Forward ==
    /\ pc = "stream"
    /\ pending' = IF pending > 0 THEN pending - 1 ELSE 0
    /\ AutoExposure
    /\ \E count \in 0..NoEvent :
          /\ poll_client_count(count)
          /\ gone' = GoneAfter(count)
          /\ graceUp' = (graceUp /\ count = NoEvent)
          /\ pc' = IF gone /\ graceUp /\ count = NoEvent THEN "close" ELSE "stream"
    /\ UNCHANGED <<attempt, seen, exposure_max, timingVars, signals, fd, lit, kind, abandoned,
                   linked, clients, subscribed, capture>>

\* No frame for two seconds, or the write breaks: the loop is left, and the
\* finally clause closes; DQBUF or a write that fails otherwise raises first.
StreamEnds ==
    /\ pc = "stream"
    /\ pc' \in {"close", "closeFailed"}
    /\ UNCHANGED <<sessionVars, timingVars, signals, sensorVars, loopbackVars>>

\* Mutant: no finally clause.
CloseSession_Leak ==
    /\ pc \in {"close", "closeFailed"} /\ UNCHANGED <<sensorVars>>
    /\ \/ pc = "close" /\ pc' = "wait" /\ DropLocals
       \/ pc = "closeFailed" /\ pc' = "failed" /\ UNCHANGED sessionVars
    /\ UNCHANGED <<timingVars, signals, loopbackVars>>

\* The finally clause of run_session.
CloseSession ==
    /\ pc \in {"close", "closeFailed"} /\ CloseCapture
    /\ \/ pc = "close" /\ pc' = "wait" /\ DropLocals
       \/ pc = "closeFailed" /\ pc' = "failed" /\ UNCHANGED sessionVars
    /\ UNCHANGED <<timingVars, signals, loopbackVars>>

\* serve() reports the failure, sleeps two seconds and waits for an event.
Failed ==
    /\ pc = "failed" /\ pc' = "wait" /\ DropLocals
    /\ UNCHANGED <<timingVars, signals, sensorVars, loopbackVars>>

-----------------------------------------------------------------------------
(* Signals and the environment.                                            *)

\* An interrupt here goes past the code that would stop the stream: start_capture
\* has no handler, and a close is cut short.
Uncovered == {"probe", "closeProbe", "close", "closeFailed", "closeExit"}

\* KeyboardInterrupt where the daemon is: in the streaming loop it passes the
\* finally clause, elsewhere in a session nothing closes the capture.
Signal ==
    /\ signals < MaxSignals /\ signals' = signals + 1
    /\ \/ pc \in Startup \cup {"except"} /\ Exit
       \/ /\ pc \in Session \cup {"wait", "closeExit"}
          /\ pc' = IF pc = "stream" THEN "closeExit" ELSE "except"
          /\ abandoned' = (abandoned \/ (lit /\ pc \in Uncovered))
          /\ UNCHANGED <<sessionVars, timingVars, fd, lit, kind, ctl, linked, loopbackVars>>

\* The finally clause on the way out.
CloseOnExit ==
    /\ pc = "closeExit" /\ CloseCapture /\ pc' = "except"
    /\ UNCHANGED <<sessionVars, timingVars, signals, loopbackVars>>

Stop ==
    /\ pc = "except" /\ Exit /\ UNCHANGED signals

SystemdRestart ==
    /\ pc = "exited" /\ pc' = "start" /\ signals' = 0
    /\ UNCHANGED <<sessionVars, timingVars, sensorVars, loopbackVars>>

GraceElapses ==
    /\ pc = "stream" /\ gone /\ ~graceUp /\ graceUp' = TRUE
    /\ UNCHANGED <<pc, attempt, seen, pending, gone, exposure, exposure_max, refused,
                   timingVars, signals, sensorVars, loopbackVars>>

\* Another user of the media device takes the link; not while it streams.
Sever ==
    /\ linked /\ ~lit /\ linked' = FALSE
    /\ UNCHANGED <<pc, sessionVars, timingVars, signals, fd, lit, kind, abandoned, ctl,
                   loopbackVars>>

SetClients(n) ==
    /\ clients' = n
    /\ event' = IF subscribed THEN n ELSE event
    /\ UNCHANGED <<pc, sessionVars, timingVars, signals, sensorVars, subscribed, capture>>

ClientOpens == capture /\ clients < MaxClients /\ SetClients(clients + 1)

ClientCloses == clients > 0 /\ SetClients(clients - 1)

-----------------------------------------------------------------------------
Daemon ==
    \/ QueryTiming \/ OpenLoopback \/ Advertise \/ Subscribe
    \/ Serve \/ Graph \/ Configure \/ OpenCapture \/ Probe \/ Retry
    \/ Forward \/ CloseSession \/ Failed \/ CloseOnExit \/ Stop

Environment ==
    \/ ProbeFails \/ StreamEnds \/ Signal \/ SystemdRestart \/ GraceElapses \/ Sever
    \/ ClientOpens \/ ClientCloses

Next == Daemon \/ Environment

(* The daemon is scheduled, systemd restarts it, time passes.  Frames may  *)
(* always fail to come: the two seconds' timeout is a step of the daemon.  *)
Fairness == WF_vars(Daemon) /\ WF_vars(SystemdRestart) /\ WF_vars(GraceElapses)

Spec == Init /\ [][Next]_vars
FairSpec == Spec /\ Fairness

-----------------------------------------------------------------------------
(* Correctness.                                                            *)

\* A start the probe has seen two pinned frames or three hurried ones of is
\* served only when every attempt, the fallback included, has been used up.
WedgedOnlyAsLastResort ==
    pc = "stream" /\ attempt < Attempts - 1
       => ~(kind = "rows" /\ seen >= 2) /\ ~(kind = "timing" /\ seen >= 3)

\* The exposure the exposure loop reckons with is the one the driver has, and its
\* ceiling is never above the driver's, whatever sequence of formats, blankings and
\* stream starts moved the driver's range: in a run that could read the range, as
\* long as the driver took the blanking of this attempt and the last exposure.
\* What earlier attempts, sessions and runs left in the driver, refused settings
\* included, does not matter.
KnobMatchesSensor ==
    pc = "stream" /\ ~misread /\ refused = {}
       => exposure = ctl.exposure /\ exposure_max <= ctl.emax

\* "the IR illuminator is lit for as long as the sensor streams": when the daemon
\* idles or is gone the illuminator is off, on every way out of a session (a
\* timeout, a broken write, a wedged start, ENOLINK, the clients' departure, a
\* signal in the streaming loop) but those that abandon the stream: an exception in
\* the probe, and a signal in the probe or in a close.
DarkWhenIdle == pc \in {"wait", "exited"} /\ ~abandoned => ~lit

\* "Leaking the fd here would make every later session fail with EBUSY on this
\* node, forever": the idle daemon holds no capture.
IdleMeansDark == pc = "wait" => ~fd /\ ~lit

\* "exposure_max = height + vblank - margin, so it moves 1:1 with vblank": the
\* ceiling of the exposure loop is the one that belongs to the blanking in use, when
\* the range was read and the driver took the settings.
CeilingMatchesBlanking ==
    pc = "stream" /\ ~misread /\ refused = {} => exposure_max = HEIGHT + ctl.vblank - Margin

\* The illuminator does not stay lit without clients.
ReleasedUnlessAbandoned == [](~abandoned) => []<>(clients > 0 \/ ~lit)

Abstract == INSTANCE OnDemand WITH
    watched <- clients > 0,
    session <- pc \in Session \/ lit,
    power <- lit

\* "Streaming is started only while an application has the loopback device
\* open": the bridge implements the abstract on-demand camera.
ImplementsOnDemand == Abstract!Spec
=============================================================================
