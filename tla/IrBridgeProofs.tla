--------------------------- MODULE IrBridgeProofs ---------------------------
(***************************************************************************)
(* Proofs about the infrared bridge, for every number of attempts and of   *)
(* probed frames, every stock blanking and starting exposure, any number of*)
(* clients and signals, and every value of the driver's parameters (for    *)
(* KnobMatchesSensor: every value the driver honours).                     *)
(***************************************************************************)
EXTENDS IrBridge, Ov7251ControlsProofs

\* A session's attempts are counted from 0, the last one is not probed, and only the
\* first can find a stream that an earlier session left on.
Attempting ==
    /\ attempt \in Nat /\ attempt <= Attempts - 1
    /\ pc \in Startup \cup {"wait", "exited"} => attempt = 0
    /\ pc \in {"probe", "closeProbe"} => attempt < Attempts - 1
    /\ pc \in {"graph", "configure"} /\ lit => attempt = 0

\* A pending event is the present number of clients.
EventIsNewest == event # NoEvent => subscribed /\ event = clients

\* A stream that some code is still going to stop.
LitIsHeld ==
    lit /\ ~abandoned =>
        fd /\ pc \in {"probe", "closeProbe", "stream", "close", "closeFailed", "closeExit"}

FlowInv ==
    DataOK /\ Attempting /\ EventIsNewest /\ LitIsHeld /\ WedgedOnlyAsLastResort

\* What is assumed of the constants, one by one.
LEMMA ConstantTypes ==
    /\ WEDGE_RETRIES \in Nat \ {0} /\ FALLBACK_RETRIES \in Nat \ {0} /\ MaxClients \in Nat \ {0}
    /\ WEDGE_PROBE_FRAMES \in Nat /\ WEDGE_PROBE_FRAMES >= 2
    /\ VBLANK_STOCK \in Nat \ {0} /\ EXPOSURE_START \in Nat \ {0}
    /\ EXPOSURE_START <= TIMING_MAX_VTS /\ VBLANK_STOCK <= TIMING_MAX_VTS - HEIGHT
    /\ GAIN_START \in Nat /\ MaxSignals \in Nat
  BY BridgeAssumption, Zenon

-----------------------------------------------------------------------------
(* Sessions, attempts and the capture node.                                *)

LEMMA FlowInit == Init => FlowInv
  BY ConstantTypes
  DEF Init, FlowInv, DataOK, Attempting, EventIsNewest, LitIsHeld, WedgedOnlyAsLastResort,
      NoEvent, PC, Startup, Starting, Session, Closing, Attempts

\* A process that ends with a stream on has abandoned it before.
LEMMA ExitAbandons ==
    ASSUME LitIsHeld, Exit, pc \in Startup \cup {"except"}
    PROVE  lit' => abandoned'
<1>1. lit' => lit
  BY Zenon DEF Exit
<1>2. lit => abandoned
  BY DEF LitIsHeld, Startup
<1> QED BY <1>1, <1>2, Zenon DEF Exit

LEMMA ExitKeeps ==
    ASSUME FlowInv, Exit, signals' \in 0..MaxSignals, pc \in Startup \cup {"except"}
    PROVE  FlowInv'
<1>1. LitIsHeld'
  BY ExitAbandons, Zenon DEF FlowInv, LitIsHeld
<1>2. /\ pc' = "exited" /\ DropLocals /\ kind' = "none" /\ event' = NoEvent
      /\ UNCHANGED <<EXPOSURE_MAX, VBLANK_DEF, clients>>
  BY DEF Exit, timingVars
<1>3. DataOK' /\ EventIsNewest'
  BY <1>2, ConstantTypes DEF FlowInv, DataOK, DropLocals, EventIsNewest, NoEvent, PC
<1>4. Attempting' /\ WedgedOnlyAsLastResort'
  BY <1>2, ConstantTypes
  DEF Attempting, DropLocals, WedgedOnlyAsLastResort, Attempts, Startup
<1> QED BY <1>1, <1>3, <1>4 DEF FlowInv

\* Every step of the daemon, the sensor, the clients and systemd keeps it.
LEMMA FlowNext == FlowInv /\ [Next]_vars => FlowInv'
<1> SUFFICES ASSUME FlowInv, [Next]_vars PROVE FlowInv'
  OBVIOUS
<1> USE ConstantTypes
<1> USE DEF FlowInv, DataOK, Attempting, EventIsNewest, LitIsHeld, WedgedOnlyAsLastResort,
            NoEvent, PC, Startup, Starting, Session, Closing, Attempts, HasFallback,
            sessionVars, timingVars, sensorVars, loopbackVars, DropLocals, CloseCapture,
            Uncovered
<1>1. CASE QueryTiming BY <1>1 DEF QueryTiming
<1>2. CASE OpenLoopback BY <1>2 DEF OpenLoopback
<1>3. CASE Advertise BY <1>3 DEF Advertise
<1>4. CASE Subscribe BY <1>4 DEF Subscribe
<1>5. CASE Serve BY <1>5 DEF Serve, poll_client_count, Wanted
<1>6. CASE Graph BY <1>6 DEF Graph
<1>7. CASE Configure BY <1>7 DEF Configure
<1>8. CASE OpenCapture BY <1>8 DEF OpenCapture, IsLast, Started
<1>9. CASE Probe BY <1>9 DEF Probe, Wedged, Started
<1>10. CASE Retry BY <1>10 DEF Retry, NextAttempt
<1>11. CASE Forward BY <1>11 DEF Forward, poll_client_count
<1>12. CASE CloseSession BY <1>12 DEF CloseSession
<1>13. CASE Failed BY <1>13 DEF Failed
<1>14. CASE CloseOnExit BY <1>14 DEF CloseOnExit
<1>15. CASE Stop
  <2>1. Exit /\ signals' \in 0..MaxSignals /\ pc \in Startup \cup {"except"}
    BY <1>15 DEF Stop
  <2> QED BY ONLY FlowInv, <2>1, ExitKeeps
<1>16. CASE ProbeFails BY <1>16 DEF ProbeFails
<1>17. CASE StreamEnds BY <1>17 DEF StreamEnds
<1>18. CASE Signal
  <2>1. CASE pc \in Startup \cup {"except"} /\ Exit
    <3>1. signals' \in 0..MaxSignals /\ pc \in Startup \cup {"except"}
      BY <1>18, <2>1 DEF Signal
    <3> QED BY ONLY FlowInv, <2>1, <3>1, ExitKeeps
  <2>2. CASE /\ pc \in Session \cup {"wait", "closeExit"}
             /\ pc' = IF pc = "stream" THEN "closeExit" ELSE "except"
             /\ abandoned' = (abandoned \/ (lit /\ pc \in Uncovered))
             /\ UNCHANGED <<sessionVars, timingVars, fd, lit, kind, ctl, linked, loopbackVars>>
    <3>1. LitIsHeld'
      <4>0. SUFFICES ASSUME lit, ~abandoned' PROVE fd /\ pc' = "closeExit"
        BY <2>2, Zenon DEF LitIsHeld
      <4>1. ~abandoned /\ pc \notin Uncovered
        BY ONLY <2>2, <4>0, Zenon
      <4> QED BY ONLY FlowInv, <2>2, <4>0, <4>1, Zenon DEF FlowInv, LitIsHeld, Uncovered
    <3>2. DataOK' /\ Attempting' /\ EventIsNewest' /\ WedgedOnlyAsLastResort'
      BY <1>18, <2>2 DEF Signal
    <3> QED BY <3>1, <3>2
  <2> QED BY <1>18, <2>1, <2>2 DEF Signal
<1>19. CASE SystemdRestart BY <1>19 DEF SystemdRestart
<1>20. CASE GraceElapses BY <1>20 DEF GraceElapses
<1>21. CASE Sever BY <1>21 DEF Sever
<1>22. CASE ClientOpens BY <1>22 DEF ClientOpens, SetClients
<1>23. CASE ClientCloses BY <1>23 DEF ClientCloses, SetClients
<1>24. CASE UNCHANGED vars BY <1>24 DEF vars
<1> QED
  BY <1>1, <1>2, <1>3, <1>4, <1>5, <1>6, <1>7, <1>8, <1>9, <1>10, <1>11, <1>12, <1>13, <1>14,
     <1>15, <1>16, <1>17, <1>18, <1>19, <1>20, <1>21, <1>22, <1>23, <1>24
  DEF Next, Daemon, Environment

LEMMA FlowInvariance == Spec => []FlowInv
  BY FlowInit, FlowNext, PTL DEF Spec

\* A start the probe found wedged is served only when every attempt, the fallback
\* included, has been used up.
THEOREM WedgedIsLastResort == Spec => []WedgedOnlyAsLastResort
<1>1. FlowInv => WedgedOnlyAsLastResort
  BY DEF FlowInv
<1> QED BY <1>1, FlowInvariance, PTL

\* When the daemon idles or is gone the illuminator is off, on every way out of a
\* session but those where an exception goes past the code that stops the stream.
THEOREM IsDarkWhenIdle == Spec => []DarkWhenIdle
<1>1. FlowInv => DarkWhenIdle
  BY DEF FlowInv, LitIsHeld, DarkWhenIdle
<1> QED BY <1>1, FlowInvariance, PTL

-----------------------------------------------------------------------------
(* The flags.                                                              *)

LEMMA FlagsInit == Init => FlagsOK
  BY Zenon DEF Init, FlagsOK

\* No step of the daemon or its environment gives a flag another value.
LEMMA FlagsNext == FlagsOK /\ [Next]_vars => FlagsOK'
<1> SUFFICES ASSUME FlagsOK, [Next]_vars PROVE FlagsOK'
  OBVIOUS
<1> USE DEF FlagsOK, sessionVars, timingVars, sensorVars, loopbackVars
<1>0. ASSUME Exit PROVE FlagsOK'
  <2>1. lit' \in BOOLEAN
    BY <1>0, Zenon DEF Exit
  <2> QED BY <1>0, <2>1, Zenon DEF Exit, DropLocals
<1>1. CASE QueryTiming BY <1>1, Zenon DEF QueryTiming
<1>2. CASE OpenLoopback BY <1>2, Zenon DEF OpenLoopback, SetupGraph
<1>3. CASE Advertise BY <1>3, Zenon DEF Advertise
<1>4. CASE Subscribe BY <1>4, Zenon DEF Subscribe
<1>5. CASE Serve BY <1>5, Zenon DEF Serve
<1>6. CASE Graph BY <1>6, Zenon DEF Graph, SetupGraph
<1>7. CASE Configure BY <1>7, Zenon DEF Configure
<1>8. CASE OpenCapture BY <1>8, Zenon DEF OpenCapture
<1>9. CASE Probe BY <1>9, Zenon DEF Probe
<1>10. CASE Retry BY <1>10, Zenon DEF Retry, CloseCapture
<1>11. CASE Forward
  <2>1. PICK count \in 0..NoEvent :
           gone' = GoneAfter(count) /\ graceUp' = (graceUp /\ count = NoEvent)
    BY <1>11 DEF Forward
  <2>2. gone' \in BOOLEAN
    BY <2>1, Zenon DEF GoneAfter
  <2>3. graceUp' \in BOOLEAN
    BY <2>1, Zenon
  <2>4. refused' \subseteq {"blanking", "exposure"}
    <3>1. refused' \in {refused, refused \ {"exposure"}, refused \cup {"exposure"}}
      BY <1>11, Zenon DEF Forward, AutoExposure
    <3>2. refused \subseteq {"blanking", "exposure"}
      OBVIOUS
    <3> QED BY <3>1, <3>2, SMT DEF vars
  <2> QED BY <1>11, <2>2, <2>3, <2>4, Zenon DEF Forward
<1>12. CASE CloseSession BY <1>12, Zenon DEF CloseSession, CloseCapture, DropLocals
<1>13. CASE Failed BY <1>13, Zenon DEF Failed, DropLocals
<1>14. CASE CloseOnExit BY <1>14, Zenon DEF CloseOnExit, CloseCapture
<1>15. CASE Stop BY <1>0, <1>15, Zenon DEF Stop
<1>16. CASE ProbeFails BY <1>16, Zenon DEF ProbeFails
<1>17. CASE StreamEnds BY <1>17, Zenon DEF StreamEnds
<1>18. CASE Signal BY <1>0, <1>18, Zenon DEF Signal
<1>19. CASE SystemdRestart BY <1>19, Zenon DEF SystemdRestart
<1>20. CASE GraceElapses BY <1>20, Zenon DEF GraceElapses
<1>21. CASE Sever BY <1>21, Zenon DEF Sever
<1>22. CASE ClientOpens BY <1>22, Zenon DEF ClientOpens, SetClients
<1>23. CASE ClientCloses BY <1>23, Zenon DEF ClientCloses, SetClients
<1>24. CASE UNCHANGED vars BY <1>24, Zenon DEF vars
<1> QED
  BY <1>1, <1>2, <1>3, <1>4, <1>5, <1>6, <1>7, <1>8, <1>9, <1>10, <1>11, <1>12, <1>13, <1>14,
     <1>15, <1>16, <1>17, <1>18, <1>19, <1>20, <1>21, <1>22, <1>23, <1>24
  DEF Next, Daemon, Environment

-----------------------------------------------------------------------------
(* The abstract on-demand camera.                                          *)

\* A session and its producer that only ever end together, or the producer first,
\* are steps of the abstract camera, or none.
LEMMA Quiet ==
  ASSUME NEW d \in BOOLEAN, NEW e \in BOOLEAN, NEW p \in BOOLEAN, NEW q \in BOOLEAN,
         p => d, q => e, q => p, e => d
  PROVE  \/ p /\ q = FALSE /\ e \in {d, FALSE}
         \/ d /\ ~p /\ e = FALSE /\ q = p
         \/ e = d /\ q = p
<1>1. (d = TRUE \/ d = FALSE) /\ (e = TRUE \/ e = FALSE)
  BY Zenon
<1>2. (p = TRUE \/ p = FALSE) /\ (q = TRUE \/ q = FALSE)
  BY Zenon
<1> QED BY <1>1, <1>2, Zenon

\* Nothing but OpenCapture switches the sensor on.
LEMMA LitSteps == ASSUME [Next]_vars, ~OpenCapture PROVE lit' => lit
<1>1. ASSUME Exit PROVE lit' => lit
  BY <1>1, Zenon DEF Exit
<1> QED
  BY <1>1, Zenon
  DEF Next, Daemon, Environment, vars, sensorVars, CloseCapture,
      QueryTiming, OpenLoopback, Advertise, Subscribe, Serve, Graph, Configure, Probe, Retry,
      Forward, CloseSession, Failed, CloseOnExit, Stop, ProbeFails, StreamEnds, Signal,
      SystemdRestart, GraceElapses, Sever, ClientOpens, ClientCloses, SetClients

\* Nothing but Serve begins a session.
LEMMA SessionSteps == ASSUME [Next]_vars, ~Serve, pc' \in Session PROVE pc \in Session
  BY DEF Next, Daemon, Environment, vars, Session, Starting, Startup, Exit, Started,
      QueryTiming, OpenLoopback, Advertise, Subscribe, Graph, Configure, OpenCapture, Probe,
      Retry, Forward, CloseSession, Failed, CloseOnExit, Stop, ProbeFails, StreamEnds, Signal,
      SystemdRestart, GraceElapses, Sever, ClientOpens, ClientCloses, SetClients

\* Clients come and go by themselves.
LEMMA ClientSteps == ASSUME [Next]_vars, ~ClientOpens, ~ClientCloses PROVE clients' = clients
  BY DEF Next, Daemon, Environment, vars, loopbackVars, Exit,
      QueryTiming, OpenLoopback, Advertise, Subscribe, Serve, Graph, Configure, OpenCapture,
      Probe, Retry, Forward, CloseSession, Failed, CloseOnExit, Stop, ProbeFails, StreamEnds,
      Signal, SystemdRestart, GraceElapses, Sever

\* One step of the bridge is one step of the abstract camera, or none.
LEMMA StepImplements == FlowInv /\ FlagsOK /\ FlagsOK' /\ [Next]_vars => [Abstract!Next]_(Abstract!vars)
<1> SUFFICES ASSUME FlowInv, FlagsOK, FlagsOK', [Next]_vars PROVE [Abstract!Next]_(Abstract!vars)
  OBVIOUS
<1> DEFINE w == clients > 0
           s == pc \in Session \/ lit
<1>0. lit \in BOOLEAN /\ lit' \in BOOLEAN /\ s \in BOOLEAN /\ s' \in BOOLEAN
      /\ (lit => s) /\ (lit' => s')
  BY Zenon DEF FlagsOK
<1>1. CASE OpenCapture
  <2>1. pc \in Session /\ pc' \in Session /\ clients' = clients
    BY <1>1 DEF OpenCapture, Session, Starting, Started, loopbackVars
  <2>2. s /\ s' = s /\ w' = w
    BY <2>1, Zenon
  <2>3. lit' = lit \/ lit' = TRUE
    BY <1>1, Zenon DEF OpenCapture
  <2>4. lit' = lit \/ (~lit /\ lit' = TRUE)
    BY <1>0, <2>3, Zenon
  <2> QED BY <2>2, <2>4, Zenon DEF Abstract!Next, Abstract!PowerOn, Abstract!vars
<1>2. CASE ClientOpens \/ ClientCloses
  <2>1. lit' = lit /\ pc' = pc
    BY <1>2 DEF ClientOpens, ClientCloses, SetClients, sensorVars
  <2>2. s' = s
    BY <2>1, Zenon
  <2>3. \/ w /\ w' = FALSE
        \/ ~w /\ w' = TRUE
        \/ w' = w
    OBVIOUS
  <2> QED
    BY <2>1, <2>2, <2>3, Zenon DEF Abstract!Next, Abstract!Open, Abstract!Close, Abstract!vars
<1>3. ASSUME lit' => lit, s' => s, w' = w PROVE [Abstract!Next]_(Abstract!vars)
  <2>1. \/ lit /\ lit' = FALSE /\ s' \in {s, FALSE}
        \/ s /\ ~lit /\ s' = FALSE /\ lit' = lit
        \/ s' = s /\ lit' = lit
    <3> HIDE DEF s
    <3> QED BY <1>0, <1>3, Quiet, Zenon
  <2> QED
    BY <1>3, <2>1, Zenon DEF Abstract!Next, Abstract!PowerOff, Abstract!End, Abstract!vars
<1>4. CASE Serve
  <2>1. UNCHANGED <<lit, clients>> /\ pc = "wait"
    BY <1>4 DEF Serve, sensorVars
  <2>2. lit' = lit /\ w' = w
    BY <2>1, Zenon
  <2>3. CASE pc' = "wait" \/ lit
    <3>1. s' => s
      BY <2>1, <2>3
    <3> QED BY <2>2, <3>1, <1>3, Zenon
  <2>4. CASE pc' = "graph" /\ ~lit
    <3>1. w /\ ~s
      BY <1>4, <2>1, <2>4 DEF Serve, poll_client_count, Wanted, FlowInv, DataOK, EventIsNewest,
         NoEvent, Session, Starting
    <3>2. s' = TRUE
      BY <2>4 DEF Session, Starting
    <3> QED BY <2>2, <3>1, <3>2, Zenon DEF Abstract!Next, Abstract!Begin
  <2> QED BY <1>4, <2>3, <2>4 DEF Serve
<1>5. CASE ~OpenCapture /\ ~ClientOpens /\ ~ClientCloses /\ ~Serve
  <2>1. (lit' => lit) /\ clients' = clients
    BY <1>5, LitSteps, ClientSteps
  <2>2. pc' \in Session => pc \in Session
    BY <1>5, SessionSteps
  <2>3. (s' => s) /\ w' = w
    BY <2>1, <2>2
  <2> QED BY <2>1, <2>3, <1>3
<1> QED BY <1>1, <1>2, <1>4, <1>5

\* The infrared bridge implements the abstract on-demand camera: the sensor, and
\* with it the illuminator, never comes on without an application having opened the
\* loopback, and no session begins with nobody there.
THEOREM Implements == Spec => ImplementsOnDemand
<1>1. Init => Abstract!Init
  <2> SUFFICES ASSUME Init PROVE Abstract!Init
    OBVIOUS
  <2>1. ~(clients > 0) /\ pc \notin Session /\ lit = FALSE
    BY DEF Init, Session, Starting
  <2>2. (clients > 0) = FALSE
    BY <2>1
  <2>3. (pc \in Session \/ lit) = FALSE
    <3> DEFINE p == pc \in Session
    <3>1. p \in BOOLEAN /\ ~p
      BY <2>1
    <3> HIDE DEF p
    <3>2. (p \/ FALSE) = FALSE
      BY <3>1, Zenon
    <3> QED BY <2>1, <3>2, Zenon DEF p
  <2> QED BY <2>1, <2>2, <2>3, Zenon DEF Abstract!Init
<1> QED
  BY <1>1, FlowInvariance, FlagsInit, FlagsNext, StepImplements, PTL
  DEF Spec, ImplementsOnDemand, Abstract!Spec

-----------------------------------------------------------------------------
(* The blanking and the exposure.                                          *)

\* The blanking of the driver's default mode, and the range that goes with it.
DefaultBlanking == Modes[1].vts - HEIGHT
DefaultRange == Modes[1].vts - Margin

\* The parameters do what they say: a boost the driver's probe rejects as out of
\* range still makes its s_ctrl use the boost's margin.
ParametersHonoured == win_timing \/ vts_boost = 0 \/ Boosted

\* The constants a run goes by that cannot read the driver's never lengthen its frame.
StockIsShorter == ToolsFail => VBLANK_STOCK <= DefaultBlanking

Orderly == ParametersHonoured /\ StockIsShorter

\* The controls at any time: the default mode, and the blanking the default or the
\* stock one.
Sound(c) ==
    ControlsOK(c) /\ c.mode = 1 /\ 2 <= c.emax /\ c.vblank \in {VBLANK_STOCK, DefaultBlanking}

\* ... and a range that is never wider than the default one, and that the ceiling
\* read at start-up fits: moved by as much as the blanking has moved since.
Fits(c) ==
    /\ c.vblank <= DefaultBlanking /\ c.emax <= DefaultRange
    /\ ~misread => EXPOSURE_MAX - (DefaultBlanking - c.vblank) <= c.emax

Allowed(c) == Sound(c) /\ (Orderly => Fits(c))

Numbers ==
    /\ exposure \in Nat /\ exposure <= TIMING_MAX_VTS
    /\ exposure_max \in Nat /\ exposure_max <= TIMING_MAX_VTS
    /\ EXPOSURE_MAX \in Nat /\ EXPOSURE_MAX <= TIMING_MAX_VTS
    /\ VBLANK_DEF \in Nat /\ VBLANK_DEF <= TIMING_MAX_VTS

\* What was read at start-up, ...
Reading ==
    /\ misread => ToolsFail
    /\ Orderly /\ ~misread => EXPOSURE_MAX <= DefaultRange

\* ... once it has been read.
TimingRead ==
    /\ EXPOSURE_MAX >= 2
    /\ VBLANK_DEF = IF misread THEN VBLANK_STOCK ELSE DefaultBlanking

BlankingInUse ==
    pc \in {"open", "probe", "stream"} /\ "blanking" \notin refused
        => ctl.vblank = AttemptVblank(attempt)

SessionExposure ==
    /\ pc \in Starting => exposure = EXPOSURE_START
    /\ pc = "stream" => /\ 1 <= exposure /\ exposure <= exposure_max
                        /\ exposure_max = AttemptMax(attempt)

\* From its configuration on a session has the exposure the driver has.
SameExposure ==
    /\ pc \in {"open", "probe"} /\ refused = {}
          => ctl.exposure = Lesser(EXPOSURE_START, AttemptMax(attempt))
    /\ pc = "stream" /\ refused = {} => exposure = ctl.exposure

KnobInv ==
    /\ Numbers /\ Allowed(ctl) /\ Reading
    /\ pc \notin {"start", "exited"} => TimingRead
    /\ BlankingInUse /\ SessionExposure
    /\ Orderly /\ ~misread => SameExposure

LEMMA DefaultsFacts ==
    /\ DefaultBlanking \in Int /\ 1 <= DefaultBlanking /\ DefaultBlanking <= TIMING_MAX_VTS - HEIGHT
    /\ DefaultRange \in Int /\ DefaultRange = HEIGHT + DefaultBlanking - Margin
    /\ 32 <= DefaultRange /\ DefaultRange <= TIMING_MAX_VTS
    /\ ParametersHonoured => Modes[1].exposure_max = DefaultRange
<1>1. /\ Modes[1].vts \in Int /\ HEIGHT < Modes[1].vts /\ Modes[1].vts <= TIMING_MAX_VTS
      /\ Margin \in {20, 256}
  BY ModeFacts, MarginFact
<1>2. ASSUME ParametersHonoured PROVE Modes[1].exposure_max = DefaultRange
  <2>1. CASE win_timing
    BY <2>1, MarginFact DEF Modes, StockModes, WinMode, DefaultRange
  <2>2. CASE ~win_timing /\ Boosted
    <3>1. Modes[1] = BoostMode
      BY <2>2 DEF Modes, StockModes
    <3>2. BoostMode.vts = vts_boost /\ BoostMode.exposure_max = vts_boost - 256
      BY DEF BoostMode, BOOST_INTEGRATION_MARGIN
    <3> QED BY <2>2, <3>1, <3>2, MarginFact DEF DefaultRange
  <2>3. CASE ~win_timing /\ vts_boost = 0
    <3>1. Margin = 20
      BY <2>3 DEF Margin, INTEGRATION_MARGIN
    <3>2. ~Boosted
      BY <2>3 DEF Boosted
    <3>3. Modes[1].vts = 1724 /\ Modes[1].exposure_max = 1704
      BY <2>3, <3>2 DEF Modes, StockModes
    <3> QED BY <3>1, <3>3 DEF DefaultRange
  <2> QED BY <1>2, <2>1, <2>2, <2>3 DEF ParametersHonoured
<1> QED BY <1>1, <1>2 DEF DefaultBlanking, DefaultRange, HEIGHT, TIMING_MAX_VTS

\* The constants in the place of what cannot be read.
LEMMA StockFacts == EXPOSURE_STOCK \in Nat /\ 2 <= EXPOSURE_STOCK /\ EXPOSURE_STOCK <= TIMING_MAX_VTS
  BY DEF EXPOSURE_STOCK, TIMING_MAX_VTS

\* The numbers in the controls.
LEMMA SoundFields ==
    ASSUME NEW c, Sound(c)
    PROVE  /\ ControlsOK(c) /\ c.exposure \in Int /\ c.emax \in Int /\ c.vblank \in Int
           /\ 1 <= c.exposure /\ c.exposure <= TIMING_MAX_VTS
           /\ 2 <= c.emax /\ c.emax <= TIMING_MAX_VTS
           /\ c.vdef = DefaultBlanking /\ 1 <= c.vblank
<1>1. /\ c.exposure \in Int /\ c.emax \in Int /\ c.vblank \in Int
      /\ RangesOK(c.exposure, c.emax, c.gain, c.vblank) /\ c.vdef = Modes[1].vts - HEIGHT
  BY ControlFields DEF Sound
<1> QED BY <1>1 DEF Sound, RangesOK, DefaultBlanking, TIMING_MIN_VTS

\* Only the range and the blanking decide whether the controls are allowed.
LEMMA SameRange ==
    ASSUME NEW c, Allowed(c), NEW d, ControlsOK(d), d.mode = 1, d.emax = c.emax,
           d.vblank = c.vblank
    PROVE  Allowed(d)
  BY Zenon DEF Allowed, Sound, Fits

\* The range that belongs to the blanking is allowed.
LEMMA RangeAllowed ==
    ASSUME Numbers, Reading, NEW d, Sound(d), d.emax = HEIGHT + d.vblank - Margin,
           Orderly => d.vblank <= DefaultBlanking
    PROVE  Allowed(d)
<1>1. d.vblank \in Int /\ EXPOSURE_MAX \in Int /\ Margin \in {20, 256}
  BY SoundFields, MarginFact DEF Numbers
<1>2. Orderly => Fits(d)
  BY <1>1, DefaultsFacts DEF Fits, Reading, HEIGHT
<1> QED BY <1>2 DEF Allowed

\* A range moved to the default one, or to another while the ceiling is not the
\* driver's.
LEMMA MovedAllowed ==
    ASSUME Numbers, Reading, NEW c, Allowed(c), NEW x \in Int, NEW e \in Int,
           2 <= x, x <= TIMING_MAX_VTS, 1 <= e, e <= TIMING_MAX_VTS,
           Orderly => x <= DefaultRange, Orderly /\ ~misread => x \in {DefaultRange, c.emax}
    PROVE  Allowed([c EXCEPT !.emax = x, !.exposure = e])
<1> DEFINE d == [c EXCEPT !.emax = x, !.exposure = e]
<1>0. ControlsOK(c)
  BY DEF Allowed, Sound
<1>1. 1 <= x
  OBVIOUS
<1>2. ControlsOK(d) /\ d.emax = x /\ d.vblank = c.vblank /\ d.mode = c.mode
  <2>1. ControlsOK(d)
    BY <1>0, <1>1, MovedFacts
  <2>2. d.emax = x
    <3>1. c \in ControlType
      BY <1>0, ControlFields
    <3> QED BY <3>1 DEF ControlType
  <2>3. d.vblank = c.vblank
    BY <1>0, <1>1, MovedFacts
  <2>4. d.mode = c.mode
    BY <1>0, <1>1, MovedFacts
  <2> QED BY <2>1, <2>2, <2>3, <2>4
<1> HIDE DEF d
<1>3. Sound(d)
  BY <1>2 DEF Allowed, Sound
<1>4. ASSUME Orderly PROVE Fits(d)
  <2>1. /\ c.vblank \in Int /\ c.vblank <= DefaultBlanking /\ DefaultBlanking \in Int
        /\ DefaultRange \in Int /\ EXPOSURE_MAX \in Int
        /\ ~misread => EXPOSURE_MAX <= DefaultRange
    BY <1>4, SoundFields, DefaultsFacts DEF Allowed, Fits, Numbers, Reading
  <2>2. ASSUME ~misread PROVE EXPOSURE_MAX - (DefaultBlanking - c.vblank) <= x
    <3>1. CASE x = DefaultRange
      BY <2>1, <2>2, <3>1
    <3>2. CASE x = c.emax
      BY <1>4, <2>2, <3>2 DEF Allowed, Fits
    <3> QED BY <1>4, <2>2, <3>1, <3>2
  <2> QED BY <1>2, <1>4, <2>1, <2>2 DEF Fits
<1> QED BY <1>3, <1>4 DEF Allowed, d

\* The format brings the full range back, and leaves the blanking alone.
LEMMA FormatAllowed ==
    ASSUME Numbers, Reading, NEW c, Allowed(c)
    PROVE  /\ Allowed(SetFormat(c)) /\ SetFormat(c).vblank = c.vblank
           /\ Orderly => SetFormat(c).emax \in {DefaultRange, c.emax}
<1> DEFINE d == SetFormat(c)
<1>1. /\ ControlsOK(d) /\ d.vblank = c.vblank /\ d.mode = 1
      /\ d = c \/ d.emax = Modes[1].exposure_max
  BY SetFormatFacts DEF Allowed, Sound
<1>2. 2 <= Modes[1].exposure_max
  BY ModeFacts
<1>3. Orderly => Modes[1].exposure_max = DefaultRange
  BY DefaultsFacts DEF Orderly
<1> HIDE DEF d
<1>4. Sound(d)
  BY <1>1, <1>2 DEF Allowed, Sound
<1>5. ASSUME Orderly, d.emax = DefaultRange PROVE Fits(d)
  <2>1. /\ c.vblank \in Int /\ c.vblank <= DefaultBlanking /\ DefaultBlanking \in Int
        /\ DefaultRange \in Int /\ EXPOSURE_MAX \in Int
        /\ ~misread => EXPOSURE_MAX <= DefaultRange
    BY <1>5, SoundFields, DefaultsFacts DEF Allowed, Fits, Numbers, Reading
  <2> QED BY <1>1, <1>5, <2>1 DEF Fits
<1>6. Orderly => d.emax = DefaultRange \/ d = c
  BY <1>1, <1>3
<1>7. Orderly => Fits(d)
  BY <1>5, <1>6 DEF Allowed
<1> QED BY <1>1, <1>4, <1>6, <1>7 DEF Allowed, d

\* A setting that is not taken.
LEMMA NotTakenAllowed ==
    ASSUME Numbers, Reading, Allowed(ctl), NEW d, Sound(d), NEW k \in NotTaken(d),
           Orderly => d.emax <= DefaultRange,
           Orderly /\ ~misread /\ lit => d.emax \in {DefaultRange, ctl.emax}
    PROVE  Allowed(k)
<1>1. CASE k = ctl
  BY <1>1
<1>2. CASE lit /\ \E e \in {ctl.exposure, Clamp(ctl.exposure, 1, d.emax), d.exposure} :
                     k = [ctl EXCEPT !.emax = d.emax, !.exposure = e]
  <2>1. PICK e \in {ctl.exposure, Clamp(ctl.exposure, 1, d.emax), d.exposure} :
                     k = [ctl EXCEPT !.emax = d.emax, !.exposure = e]
    BY <1>2
  <2> DEFINE x == d.emax
             f == ctl.exposure
             g == d.exposure
  <2>2. /\ x \in Int /\ 2 <= x /\ x <= TIMING_MAX_VTS
        /\ g \in Int /\ 1 <= g /\ g <= TIMING_MAX_VTS
    BY SoundFields
  <2>3. f \in Int /\ 1 <= f /\ f <= TIMING_MAX_VTS
    BY SoundFields DEF Allowed
  <2>4. e \in {f, Clamp(f, 1, x), g}
    BY <2>1
  <2>5. k = [ctl EXCEPT !.emax = x, !.exposure = e]
    BY <2>1
  <2>6. (Orderly => x <= DefaultRange) /\ (Orderly /\ ~misread => x \in {DefaultRange, ctl.emax})
    BY <1>2
  <2> HIDE DEF x, f, g
  <2>7. e \in Int /\ 1 <= e /\ e <= TIMING_MAX_VTS
    BY <2>2, <2>3, <2>4 DEF Clamp
  <2> QED BY <2>2, <2>5, <2>6, <2>7, MovedAllowed
<1> QED BY <1>1, <1>2 DEF NotTaken

\* What an attempt runs with: the default blanking with the ceiling read from the
\* driver, or the stock one with a ceiling as much lower.
LEMMA AttemptFacts ==
    ASSUME Attempting, Numbers, Reading, TimingRead
    PROVE  /\ AttemptVblank(attempt) \in {VBLANK_STOCK, DefaultBlanking}
           /\ Orderly => AttemptVblank(attempt) <= DefaultBlanking
           /\ AttemptMax(attempt) \in Nat /\ 1 <= AttemptMax(attempt)
           /\ EXPOSURE_MIN \in Nat /\ 1 <= EXPOSURE_MIN /\ EXPOSURE_MIN <= AttemptMax(attempt)
           /\ AttemptMax(attempt) <= TIMING_MAX_VTS
           /\ \A c : Allowed(c) /\ Orderly /\ ~misread /\ c.vblank = AttemptVblank(attempt)
                        => AttemptMax(attempt) <= c.emax
<1>1. /\ attempt \in Nat /\ EXPOSURE_MAX \in Nat /\ EXPOSURE_MAX <= TIMING_MAX_VTS
      /\ 2 <= EXPOSURE_MAX
      /\ VBLANK_STOCK \in Nat /\ DefaultBlanking \in Int /\ WEDGE_RETRIES \in Nat
  BY ConstantTypes, DefaultsFacts DEF Numbers, Attempting, TimingRead
<1>2. attempt >= WEDGE_RETRIES => VBLANK_STOCK < VBLANK_DEF
  BY <1>1, ConstantTypes DEF Attempting, Attempts, HasFallback
<1>3. EXPOSURE_MIN \in {1, 2} /\ (~misread => EXPOSURE_MIN = 1)
  BY Zenon DEF EXPOSURE_MIN
<1>4. Orderly /\ misread => VBLANK_STOCK <= DefaultBlanking
  BY Zenon DEF Orderly, StockIsShorter, Reading
<1>5. VBLANK_DEF \in {VBLANK_STOCK, DefaultBlanking} /\ (misread => VBLANK_DEF = VBLANK_STOCK)
      /\ (~misread => VBLANK_DEF = DefaultBlanking)
  BY DEF TimingRead
<1>6. CASE attempt < WEDGE_RETRIES
  <2>1. AttemptVblank(attempt) = VBLANK_DEF /\ AttemptMax(attempt) = EXPOSURE_MAX
    BY <1>6 DEF AttemptVblank, AttemptMax
  <2>2. ASSUME NEW c, Allowed(c), Orderly, ~misread, c.vblank = DefaultBlanking
        PROVE  EXPOSURE_MAX <= c.emax
    <3>1. c.emax \in Int /\ EXPOSURE_MAX - (DefaultBlanking - c.vblank) <= c.emax
      BY <2>2, SoundFields DEF Allowed, Fits
    <3> QED BY <1>1, <2>2, <3>1
  <2>3. Orderly => VBLANK_DEF <= DefaultBlanking
    BY <1>1, <1>4, <1>5
  <2> QED BY <1>1, <1>3, <1>5, <2>1, <2>2, <2>3
<1>7. CASE ~(attempt < WEDGE_RETRIES)
  <2> DEFINE moved == EXPOSURE_MAX - (VBLANK_DEF - VBLANK_STOCK)
             max == Greater(moved, EXPOSURE_MIN + 1)
  <2>1. AttemptVblank(attempt) = VBLANK_STOCK /\ AttemptMax(attempt) = max
    BY <1>7 DEF AttemptVblank, AttemptMax
  <2>2. VBLANK_STOCK < DefaultBlanking /\ VBLANK_DEF = DefaultBlanking
    BY <1>1, <1>2, <1>5, <1>7
  <2>3. max \in Nat /\ EXPOSURE_MIN <= max /\ max <= TIMING_MAX_VTS
    BY <1>1, <1>3, <2>2 DEF TIMING_MAX_VTS, Greater
  <2>4. ASSUME NEW c, Allowed(c), Orderly, ~misread, c.vblank = VBLANK_STOCK
        PROVE  max <= c.emax
    <3>1. /\ c.emax \in Int /\ 2 <= c.emax
          /\ EXPOSURE_MAX - (DefaultBlanking - c.vblank) <= c.emax
      BY <2>4, SoundFields DEF Allowed, Fits
    <3> QED BY <1>1, <1>3, <2>2, <2>4, <3>1 DEF Greater
  <2> HIDE DEF max
  <2>5. VBLANK_STOCK <= DefaultBlanking
    BY <1>1, <2>2
  <2> QED BY <1>3, <2>1, <2>3, <2>4, <2>5
<1> QED BY <1>6, <1>7

\* set_vblank: the driver has the blanking of the attempt, and the range that goes
\* with it, unless it had that blanking before.
LEMMA VblankAllowed ==
    ASSUME Attempting, Numbers, Reading, TimingRead, Allowed(ctl)
    PROVE  /\ Allowed(SetVblank(ctl, AttemptVblank(attempt)))
           /\ SetVblank(ctl, AttemptVblank(attempt)).vblank = AttemptVblank(attempt)
           /\ Orderly /\ ~misread /\ attempt = 0
                 => SetVblank(ctl, AttemptVblank(attempt)).emax \in {DefaultRange, ctl.emax}
<1> DEFINE v == AttemptVblank(attempt)
           d == SetVblank(ctl, v)
<1>1. v \in {VBLANK_STOCK, DefaultBlanking} /\ (Orderly => v <= DefaultBlanking)
  BY AttemptFacts
<1>2. attempt = 0 /\ ~misread => v = DefaultBlanking
  BY ConstantTypes DEF AttemptVblank, TimingRead
<1> HIDE DEF v
<1>3. v \in Int /\ TIMING_MIN_VTS <= v /\ v <= TIMING_MAX_VTS - HEIGHT
  BY <1>1, DefaultsFacts, ConstantTypes DEF TIMING_MIN_VTS
<1>4. /\ ControlsOK(d) /\ d.vblank = v /\ d.mode = 1
      /\ d = ctl \/ d.emax = HEIGHT + d.vblank - Margin
  BY <1>3, SetVblankFacts DEF Allowed, Sound
<1> HIDE DEF d
<1>5. CASE d = ctl
  BY <1>4, <1>5 DEF v, d
<1>6. CASE d.emax = HEIGHT + d.vblank - Margin
  <2>1. 2 <= d.emax
    BY <1>3, <1>4, <1>6, MarginFact DEF HEIGHT, TIMING_MIN_VTS
  <2>2. Sound(d)
    BY <1>1, <1>4, <2>1 DEF Sound
  <2>3. Allowed(d)
    BY <1>1, <1>4, <1>6, <2>2, RangeAllowed
  <2>4. attempt = 0 /\ ~misread => d.emax = DefaultRange
    BY <1>2, <1>4, <1>6, DefaultsFacts
  <2> QED BY <1>4, <2>3, <2>4 DEF v, d
<1> QED BY <1>4, <1>5, <1>6

LEMMA BlankedAllowed ==
    ASSUME Attempting, Numbers, Reading, TimingRead, Allowed(ctl), NEW k \in Blanked(attempt)
    PROVE  Allowed(k) /\ k.vblank = AttemptVblank(attempt)
<1> DEFINE d == SetVblank(ctl, AttemptVblank(attempt))
<1>1. Allowed(d) /\ d.vblank = AttemptVblank(attempt)
  BY VblankAllowed
<1>2. k = d \/ k = Uncompensated(d, ctl)
  BY DEF Blanked
<1> HIDE DEF d
<1>3. CASE k = Uncompensated(d, ctl)
  <2>1. ControlsOK(d) /\ d.mode = 1 /\ ControlsOK(ctl)
    BY <1>1 DEF Allowed, Sound
  <2>2. ControlsOK(k) /\ k.mode = 1 /\ k.emax = d.emax /\ k.vblank = d.vblank
    BY <1>3, <2>1, UncompensatedFacts, Zenon
  <2> QED BY <1>1, <2>2, SameRange
<1> QED BY <1>1, <1>2, <1>3

\* set_ctrls: the driver takes the exposure of the attempt as it is.
LEMMA ExposedAllowed ==
    ASSUME Attempting, Numbers, Reading, TimingRead, NEW c, Allowed(c)
    PROVE  /\ Allowed(Exposed(c, attempt)) /\ Exposed(c, attempt).vblank = c.vblank
           /\ Orderly /\ ~misread /\ c.vblank = AttemptVblank(attempt)
                 => Exposed(c, attempt).exposure = Lesser(EXPOSURE_START, AttemptMax(attempt))
<1> DEFINE x == AttemptMax(attempt)
           e == Lesser(EXPOSURE_START, x)
           c2 == SetExposure(c, e)
           c3 == SetGain(c2, GAIN_START)
<1>1. /\ x \in Nat /\ 1 <= x
      /\ Orderly /\ ~misread /\ c.vblank = AttemptVblank(attempt) => x <= c.emax
  BY AttemptFacts
<1> HIDE DEF x
<1>2. e \in Int /\ 1 <= e /\ e <= x
  BY <1>1, ConstantTypes DEF Lesser
<1> HIDE DEF e
<1>3. ControlsOK(c) /\ c.mode = 1 /\ c.emax \in Int
  BY SoundFields DEF Allowed, Sound
<1>4. /\ ControlsOK(c2) /\ c2.emax = c.emax /\ c2.vblank = c.vblank /\ c2.mode = 1
      /\ e <= c.emax => c2.exposure = e
  BY <1>2, <1>3, SetExposureFacts
<1> HIDE DEF c2
<1>5. /\ ControlsOK(c3) /\ c3.exposure = c2.exposure /\ c3.emax = c2.emax
      /\ c3.vblank = c2.vblank /\ c3.mode = c2.mode
  <2>1. GAIN_START \in Int
    BY ConstantTypes
  <2> QED BY <1>4, <2>1, SetGainFacts, Zenon
<1>6. Exposed(c, attempt) = c3
  BY DEF Exposed, c2, e, x
<1> HIDE DEF c3
<1>7. Allowed(c3)
  BY <1>4, <1>5, SameRange
<1>8. Orderly /\ ~misread /\ c.vblank = AttemptVblank(attempt) => c3.exposure = e
  BY <1>1, <1>2, <1>3, <1>4, <1>5
<1> QED BY <1>4, <1>5, <1>6, <1>7, <1>8 DEF e, x

\* The start of a stream makes the range that of the blanking, and leaves an
\* exposure that fits it alone.
LEMMA SetupAllowed ==
    ASSUME Numbers, Reading, Allowed(ctl), NEW k \in AfterSetup
    PROVE  /\ Allowed(k) /\ k.vblank = ctl.vblank
           /\ ctl.exposure <= k.emax => k.exposure = ctl.exposure
<1> DEFINE d == HandlerSetup(ctl)
<1>0. ControlsOK(ctl) /\ ctl.mode = 1 /\ ctl.vblank \in {VBLANK_STOCK, DefaultBlanking}
  BY DEF Allowed, Sound
<1>1. /\ ControlsOK(d) /\ d.emax = HEIGHT + ctl.vblank - Margin
      /\ d.vblank = ctl.vblank /\ d.mode = 1
      /\ ctl.exposure <= d.emax => d.exposure = ctl.exposure
  BY <1>0, CompensatedFacts DEF HandlerSetup
<1>2. k = d \/ k = Uncompensated(d, ctl)
  BY DEF AfterSetup
<1> HIDE DEF d
<1>3. Allowed(d)
  <2>1. 2 <= d.emax
    BY <1>1, SoundFields, MarginFact DEF HEIGHT, Allowed
  <2>2. Sound(d)
    BY <1>0, <1>1, <2>1 DEF Sound
  <2>3. Orderly => d.vblank <= DefaultBlanking
    BY <1>1 DEF Allowed, Fits
  <2> QED BY <1>1, <2>2, <2>3, RangeAllowed
<1>4. CASE k = Uncompensated(d, ctl)
  <2>1. /\ ControlsOK(k) /\ k.mode = 1 /\ k.emax = d.emax /\ k.vblank = d.vblank
        /\ k.exposure = ctl.exposure
    BY <1>0, <1>1, <1>4, UncompensatedFacts, Zenon
  <2> QED BY <1>1, <1>3, <2>1, SameRange
<1>5. CASE k = d
  BY <1>1, <1>3, <1>5, Zenon
<1> QED BY <1>2, <1>4, <1>5

\* start_capture returns: the exposure loop starts from the driver's exposure.
LEMMA StartedFacts ==
    ASSUME Attempting, Numbers, Reading, TimingRead, exposure = EXPOSURE_START,
           exposure_max' = AttemptMax(attempt), exposure' = Lesser(exposure, AttemptMax(attempt))
    PROVE  /\ exposure' \in Nat /\ exposure' <= TIMING_MAX_VTS /\ 1 <= exposure'
           /\ exposure_max' \in Nat /\ exposure_max' <= TIMING_MAX_VTS
           /\ exposure' <= exposure_max'
           /\ exposure' = Lesser(EXPOSURE_START, AttemptMax(attempt))
<1> DEFINE x == AttemptMax(attempt)
<1>1. x \in Nat /\ 1 <= x /\ x <= TIMING_MAX_VTS
  BY AttemptFacts
<1> HIDE DEF x
<1>2. exposure_max' = x /\ exposure' = Lesser(EXPOSURE_START, x)
  BY DEF x
<1>3. Lesser(EXPOSURE_START, x) \in Nat /\ Lesser(EXPOSURE_START, x) <= x
      /\ 1 <= Lesser(EXPOSURE_START, x) /\ Lesser(EXPOSURE_START, x) <= TIMING_MAX_VTS
  BY <1>1, ConstantTypes DEF Lesser, TIMING_MAX_VTS
<1> QED BY <1>1, <1>2, <1>3 DEF x

LEMMA KnobInit == Init => KnobInv
<1> SUFFICES ASSUME Init PROVE KnobInv
  OBVIOUS
<1> DEFINE f == FreshControls
<1>1. Sound(f) /\ f.emax = 32 /\ f.vblank = DefaultBlanking
  BY FreshFacts, DefaultsFacts DEF Sound, DefaultBlanking
<1> HIDE DEF f
<1>2. /\ pc = "start" /\ exposure = 0 /\ exposure_max = 0 /\ EXPOSURE_MAX = 0 /\ VBLANK_DEF = 0
      /\ misread = FALSE /\ refused = {}
  BY DEF Init
<1>3. Numbers /\ Reading
  BY <1>2, DefaultsFacts DEF Numbers, Reading, TIMING_MAX_VTS
<1>4. Allowed(f)
  BY <1>1, <1>2, DefaultsFacts DEF Allowed, Fits
<1>5. Allowed(ctl)
  <2>1. ctl = SetFormat(f)
    BY DEF Init, f
  <2> QED BY <1>3, <1>4, <2>1, FormatAllowed
<1> QED
  BY <1>2, <1>3, <1>5
  DEF KnobInv, BlankingInUse, SessionExposure, SameExposure, Starting

\* A step that leaves the controls and what was read from the driver alone, and either
\* leaves the session where it is, or ends it, or is before its configuration.
LEMMA KnobKept ==
    ASSUME KnobInv, UNCHANGED <<ctl, EXPOSURE_MAX, VBLANK_DEF, misread>>,
           \/ UNCHANGED <<exposure, exposure_max, refused>>
           \/ exposure' = 0 /\ exposure_max' = 0 /\ refused' = {}
              /\ pc' \notin Starting \cup {"stream"},
           pc' \in {"start", "exited"} \/ pc \notin {"start", "exited"},
           pc' \in Starting => pc \in Starting,
           pc' \in {"open", "probe"} => pc' = pc /\ attempt' = attempt,
           pc' = "stream" => pc = "stream" /\ attempt' = attempt
    PROVE  KnobInv'
<1>0. EXPOSURE_MIN' = EXPOSURE_MIN
  BY DEF EXPOSURE_MIN
<1>1. attempt' = attempt =>
         AttemptVblank(attempt)' = AttemptVblank(attempt) /\ AttemptMax(attempt)' = AttemptMax(attempt)
  BY <1>0 DEF AttemptVblank, AttemptMax
<1>2. 0 <= TIMING_MAX_VTS
  BY DEF TIMING_MAX_VTS
<1>3. Allowed(ctl)'
  BY DEF KnobInv, Allowed, Sound, Fits
<1>4. Numbers'
  BY <1>2 DEF KnobInv, Numbers
<1>7. Reading' /\ (TimingRead => TimingRead')
  BY DEF KnobInv, Reading, TimingRead
<1>5. SessionExposure'
  BY <1>1 DEF KnobInv, SessionExposure, Starting
<1>6. (SameExposure => SameExposure') /\ BlankingInUse'
  BY <1>1 DEF KnobInv, SameExposure, BlankingInUse, Starting
<1> QED BY <1>3, <1>4, <1>5, <1>6, <1>7 DEF KnobInv

\* Reading the timing at start-up, or the constants in its place.
LEMMA QueryKeeps == ASSUME KnobInv, QueryTiming PROVE KnobInv'
<1>1. CASE pc' = "exited" /\ UNCHANGED timingVars
  <2>1. UNCHANGED <<ctl, EXPOSURE_MAX, VBLANK_DEF, misread, exposure, exposure_max, refused>>
    BY <1>1 DEF QueryTiming, timingVars, sensorVars, sessionVars
  <2> QED BY <1>1, <2>1, KnobKept DEF Starting
<1>2. ASSUME pc' = "graph0",
             \/ misread' = FALSE /\ EXPOSURE_MAX' = ctl.emax /\ VBLANK_DEF' = ctl.vdef
             \/ /\ ToolsFail /\ misread' = TRUE
                /\ EXPOSURE_MAX' = EXPOSURE_STOCK /\ VBLANK_DEF' = VBLANK_STOCK
      PROVE  KnobInv'
  <2>1. UNCHANGED <<ctl, exposure, exposure_max, refused>>
    BY DEF QueryTiming, sensorVars, sessionVars
  <2>2. /\ Sound(ctl) /\ ctl.emax \in Int /\ 2 <= ctl.emax /\ ctl.emax <= TIMING_MAX_VTS
        /\ ctl.vdef = DefaultBlanking /\ ctl.vblank \in Int /\ DefaultBlanking \in Int
        /\ Orderly => ctl.vblank <= DefaultBlanking /\ ctl.emax <= DefaultRange
    BY SoundFields, DefaultsFacts DEF KnobInv, Allowed, Fits
  <2>3. /\ 1 <= DefaultBlanking /\ DefaultBlanking <= TIMING_MAX_VTS
        /\ VBLANK_STOCK \in Nat /\ VBLANK_STOCK <= TIMING_MAX_VTS
    BY DefaultsFacts, ConstantTypes DEF HEIGHT, TIMING_MAX_VTS
  <2>4. /\ EXPOSURE_MAX' \in Nat /\ 2 <= EXPOSURE_MAX' /\ EXPOSURE_MAX' <= TIMING_MAX_VTS
        /\ VBLANK_DEF' \in Nat /\ VBLANK_DEF' <= TIMING_MAX_VTS
    BY <1>2, <2>2, <2>3, StockFacts
  <2>8. Numbers' /\ TimingRead'
    BY <1>2, <2>1, <2>2, <2>4 DEF KnobInv, Numbers, TimingRead
  <2>5. BlankingInUse' /\ SessionExposure' /\ SameExposure'
    BY <1>2 DEF BlankingInUse, SessionExposure, SameExposure, Starting
  <2>6. Reading'
    BY <1>2, <2>2 DEF Reading
  <2>7. Allowed(ctl)'
    <3>1. Sound(ctl)'
      BY <2>1, <2>2 DEF Sound
    <3>2. ASSUME Orderly PROVE Fits(ctl)'
      BY <1>2, <2>1, <2>2, <3>2 DEF Fits
    <3> QED BY <3>1, <3>2 DEF Allowed
  <2> QED BY <2>5, <2>6, <2>7, <2>8 DEF KnobInv
<1> QED BY <1>1, <1>2 DEF QueryTiming

\* What a step that writes the controls has to show.
LEMMA KnobMoved ==
    ASSUME KnobInv, UNCHANGED <<EXPOSURE_MAX, VBLANK_DEF, misread>>, Allowed(ctl'), Numbers',
           pc \notin {"start", "exited"}, BlankingInUse', SessionExposure',
           Orderly /\ ~misread => SameExposure'
    PROVE  KnobInv'
<1>1. Allowed(ctl)' /\ Reading' /\ TimingRead'
  BY DEF KnobInv, Reading, TimingRead, Allowed, Sound, Fits
<1> QED BY <1>1 DEF KnobInv

\* The format, before a session and in every attempt.
LEMMA GraphKeeps == ASSUME KnobInv, OpenLoopback \/ Graph PROVE KnobInv'
<1>1. UNCHANGED <<EXPOSURE_MAX, VBLANK_DEF, misread, exposure, exposure_max, refused>>
  BY DEF OpenLoopback, Graph, timingVars, sessionVars
<1>2. /\ pc \in {"graph0", "graph"} /\ pc' \in {"advertise", "exited", "configure", "failed"}
      /\ pc' = "configure" => pc = "graph"
  BY DEF OpenLoopback, Graph
<1>3. CASE ctl' = ctl
  BY <1>1, <1>2, <1>3, KnobKept DEF Starting
<1>4. CASE ctl' \in {SetFormat(ctl)} \cup NotTaken(SetFormat(ctl))
  <2>1. Numbers /\ Reading /\ Allowed(ctl)
    BY DEF KnobInv
  <2> DEFINE d == SetFormat(ctl)
  <2>2. Allowed(d) /\ (Orderly => d.emax \in {DefaultRange, ctl.emax})
    BY <2>1, FormatAllowed
  <2> HIDE DEF d
  <2>3. Sound(d) /\ (Orderly => d.emax <= DefaultRange)
    BY <2>2 DEF Allowed, Fits
  <2>4. \A k \in NotTaken(d) : Allowed(k)
    BY <2>1, <2>2, <2>3, NotTakenAllowed
  <2>5. Allowed(ctl')
    BY <1>4, <2>2, <2>4 DEF d
  <2>6. Numbers' /\ BlankingInUse' /\ SessionExposure' /\ SameExposure'
    BY <1>1, <1>2 DEF KnobInv, Numbers, BlankingInUse, SessionExposure, SameExposure, Starting
  <2> QED BY <1>1, <1>2, <2>5, <2>6, KnobMoved
<1> QED BY <1>3, <1>4 DEF OpenLoopback, Graph, SetupGraph

\* The blanking and the exposure of an attempt, each taken or not.
LEMMA ConfigureKeeps == ASSUME KnobInv, Attempting, Configure PROVE KnobInv'
<1>1. /\ UNCHANGED <<EXPOSURE_MAX, VBLANK_DEF, misread, exposure, exposure_max, attempt>>
      /\ pc = "configure" /\ pc' \in {"open", "failed"}
      /\ refused' \subseteq {"blanking", "exposure"}
  BY DEF Configure, timingVars
<1>2. PICK c \in IF "blanking" \in refused' THEN NotTaken(SetVblank(ctl, AttemptVblank(attempt)))
                 ELSE Blanked(attempt) :
          ctl' = IF "exposure" \in refused' THEN c ELSE Exposed(c, attempt)
  BY DEF Configure
<1>3. Numbers /\ Reading /\ TimingRead /\ Allowed(ctl) /\ (lit => attempt = 0)
  BY <1>1 DEF KnobInv, Attempting
<1>4. Allowed(c) /\ ("blanking" \notin refused' => c.vblank = AttemptVblank(attempt))
  <2>1. CASE "blanking" \in refused'
    <3> DEFINE d == SetVblank(ctl, AttemptVblank(attempt))
    <3>1. Allowed(d) /\ (Orderly /\ ~misread /\ attempt = 0 => d.emax \in {DefaultRange, ctl.emax})
      BY <1>3, VblankAllowed
    <3>2. c \in NotTaken(d)
      BY <1>2, <2>1
    <3> HIDE DEF d
    <3>3. /\ Sound(d) /\ (Orderly => d.emax <= DefaultRange)
          /\ Orderly /\ ~misread /\ lit => d.emax \in {DefaultRange, ctl.emax}
      BY <1>3, <3>1 DEF Allowed, Fits
    <3> QED BY <1>3, <2>1, <3>2, <3>3, NotTakenAllowed
  <2>2. CASE "blanking" \notin refused'
    BY <1>2, <1>3, <2>2, BlankedAllowed
  <2> QED BY <2>1, <2>2
<1>5. /\ Allowed(ctl') /\ ctl'.vblank = c.vblank
      /\ Orderly /\ ~misread /\ refused' = {}
            => ctl'.exposure = Lesser(EXPOSURE_START, AttemptMax(attempt))
  <2>1. CASE "exposure" \in refused'
    BY <1>2, <1>4, <2>1
  <2>2. CASE "exposure" \notin refused'
    BY <1>2, <1>3, <1>4, <2>2, ExposedAllowed
  <2> QED BY <2>1, <2>2
<1>6. AttemptVblank(attempt)' = AttemptVblank(attempt) /\ AttemptMax(attempt)' = AttemptMax(attempt)
  BY <1>1 DEF AttemptVblank, AttemptMax, EXPOSURE_MIN
<1>7. Numbers' /\ BlankingInUse' /\ SessionExposure'
  BY <1>1, <1>4, <1>5, <1>6 DEF KnobInv, Numbers, BlankingInUse, SessionExposure, Starting
<1>8. Orderly /\ ~misread => SameExposure'
  BY <1>1, <1>5, <1>6 DEF SameExposure
<1> QED BY <1>1, <1>5, <1>7, <1>8, KnobMoved

\* The capture opens: the driver's range becomes that of the blanking, which takes
\* nothing from the exposure of the attempt.
LEMMA OpenKeeps == ASSUME KnobInv, Attempting, OpenCapture PROVE KnobInv'
<1>1. UNCHANGED <<EXPOSURE_MAX, VBLANK_DEF, misread, attempt, refused>> /\ pc = "open"
  BY DEF OpenCapture, timingVars
<1>2. /\ Numbers /\ Reading /\ TimingRead /\ Allowed(ctl) /\ exposure = EXPOSURE_START
      /\ "blanking" \notin refused => ctl.vblank = AttemptVblank(attempt)
  BY <1>1 DEF KnobInv, BlankingInUse, SessionExposure, Starting
<1>3. AttemptVblank(attempt)' = AttemptVblank(attempt) /\ AttemptMax(attempt)' = AttemptMax(attempt)
  BY <1>1 DEF AttemptVblank, AttemptMax, EXPOSURE_MIN
<1>4. CASE pc' = "failed" /\ UNCHANGED <<exposure, exposure_max, ctl>>
  BY <1>1, <1>4, KnobKept DEF Starting
<1>5. ASSUME ctl' \in AfterSetup
      PROVE  /\ Allowed(ctl') /\ ctl'.vblank = ctl.vblank
             /\ Orderly /\ ~misread /\ refused = {}
                   => ctl'.exposure = Lesser(EXPOSURE_START, AttemptMax(attempt))
  <2> DEFINE x == AttemptMax(attempt)
             e == Lesser(EXPOSURE_START, x)
  <2>1. /\ Allowed(ctl') /\ ctl'.vblank = ctl.vblank
        /\ ctl.exposure <= ctl'.emax => ctl'.exposure = ctl.exposure
    BY <1>2, <1>5, SetupAllowed
  <2>2. ASSUME Orderly, ~misread, refused = {} PROVE ctl'.exposure = e
    <3>1. ctl.exposure = e /\ ctl'.vblank = AttemptVblank(attempt)
      BY <1>1, <1>2, <2>1, <2>2 DEF KnobInv, SameExposure
    <3>2. x \in Nat /\ x <= ctl'.emax
      BY <1>2, <2>1, <2>2, <3>1, AttemptFacts
    <3> HIDE DEF x
    <3>3. ctl'.emax \in Int
      BY <2>1, SoundFields DEF Allowed
    <3>4. e <= ctl'.emax
      BY <3>2, <3>3, ConstantTypes DEF Lesser
    <3> QED BY <2>1, <3>1, <3>4
  <2> QED BY <2>1, <2>2
<1>6. CASE pc' = "failed" /\ UNCHANGED <<exposure, exposure_max>> /\ ctl' \in AfterSetup
  <2>1. Numbers' /\ BlankingInUse' /\ SessionExposure' /\ SameExposure'
    BY <1>1, <1>6 DEF KnobInv, Numbers, BlankingInUse, SessionExposure, SameExposure, Starting
  <2> QED BY <1>1, <1>5, <1>6, <2>1, KnobMoved
<1>7. CASE pc' = "probe" /\ UNCHANGED <<exposure, exposure_max>> /\ ctl' \in AfterSetup
  <2>1. Numbers' /\ BlankingInUse' /\ SessionExposure'
    BY <1>1, <1>2, <1>3, <1>5, <1>7 DEF Numbers, BlankingInUse, SessionExposure, Starting
  <2>2. Orderly /\ ~misread => SameExposure'
    BY <1>1, <1>3, <1>5, <1>7 DEF SameExposure
  <2> QED BY <1>1, <1>5, <1>7, <2>1, <2>2, KnobMoved
<1>8. CASE Started(0) /\ ctl' \in AfterSetup
  <2>1. /\ pc' = "stream" /\ exposure_max' = AttemptMax(attempt)
        /\ exposure' = Lesser(exposure, AttemptMax(attempt))
    BY <1>8 DEF Started
  <2>2. /\ exposure' \in Nat /\ exposure' <= TIMING_MAX_VTS /\ 1 <= exposure'
        /\ exposure_max' \in Nat /\ exposure_max' <= TIMING_MAX_VTS
        /\ exposure' <= exposure_max' /\ exposure' = Lesser(EXPOSURE_START, AttemptMax(attempt))
    BY <1>2, <2>1, StartedFacts
  <2>3. Numbers' /\ BlankingInUse' /\ SessionExposure'
    BY <1>1, <1>2, <1>3, <1>5, <1>8, <2>1, <2>2
    DEF Numbers, BlankingInUse, SessionExposure, Starting
  <2>4. Orderly /\ ~misread => SameExposure'
    BY <1>1, <1>3, <1>5, <1>8, <2>1, <2>2 DEF SameExposure
  <2> QED BY <1>1, <1>5, <1>8, <2>3, <2>4, KnobMoved
<1>9. \/ pc' = "failed" /\ UNCHANGED <<exposure, exposure_max, ctl>>
      \/ /\ ctl' \in AfterSetup
         /\ \/ Started(0)
            \/ pc' \in {"probe", "failed"} /\ UNCHANGED <<exposure, exposure_max>>
  BY DEF OpenCapture
<1> QED BY <1>4, <1>6, <1>7, <1>8, <1>9

\* The probe's verdict, or one more frame of it.
LEMMA ProbeKeeps == ASSUME KnobInv, Attempting, Probe PROVE KnobInv'
<1>1. /\ UNCHANGED <<EXPOSURE_MAX, VBLANK_DEF, misread, attempt, refused, ctl>> /\ pc = "probe"
      /\ \/ pc' \in {"probe", "closeProbe"} /\ UNCHANGED <<exposure, exposure_max>>
         \/ \E n : Started(n)
  BY DEF Probe, timingVars, sensorVars
<1>2. CASE pc' \in {"probe", "closeProbe"} /\ UNCHANGED <<exposure, exposure_max>>
  BY <1>1, <1>2, KnobKept DEF Starting
<1>3. CASE \E n : Started(n)
  <2>1. /\ pc' = "stream" /\ exposure_max' = AttemptMax(attempt)
        /\ exposure' = Lesser(exposure, AttemptMax(attempt))
    BY <1>3 DEF Started
  <2>2. /\ Numbers /\ Reading /\ TimingRead /\ Allowed(ctl) /\ exposure = EXPOSURE_START
        /\ "blanking" \notin refused => ctl.vblank = AttemptVblank(attempt)
    BY <1>1 DEF KnobInv, BlankingInUse, SessionExposure, Starting
  <2>3. AttemptVblank(attempt)' = AttemptVblank(attempt) /\ AttemptMax(attempt)' = AttemptMax(attempt)
    BY <1>1 DEF AttemptVblank, AttemptMax, EXPOSURE_MIN
  <2>4. /\ exposure' \in Nat /\ exposure' <= TIMING_MAX_VTS /\ 1 <= exposure'
        /\ exposure_max' \in Nat /\ exposure_max' <= TIMING_MAX_VTS
        /\ exposure' <= exposure_max' /\ exposure' = Lesser(EXPOSURE_START, AttemptMax(attempt))
    BY <2>1, <2>2, StartedFacts
  <2>5. Numbers' /\ BlankingInUse' /\ SessionExposure'
    BY <1>1, <2>1, <2>2, <2>3, <2>4 DEF Numbers, BlankingInUse, SessionExposure, Starting
  <2>6. Orderly /\ ~misread => SameExposure'
    BY <1>1, <2>1, <2>3, <2>4 DEF KnobInv, SameExposure
  <2> QED BY <1>1, <2>2, <2>5, <2>6, KnobMoved
<1> QED BY <1>1, <1>2, <1>3

\* A session begins with the starting exposure.
LEMMA ServeKeeps == ASSUME KnobInv, Serve PROVE KnobInv'
<1>1. /\ UNCHANGED <<EXPOSURE_MAX, VBLANK_DEF, misread, exposure_max, refused, attempt, ctl>>
      /\ pc = "wait"
      /\ \/ UNCHANGED <<pc, exposure>>
         \/ pc' = "graph" /\ exposure' = EXPOSURE_START
  BY DEF Serve, timingVars, sensorVars
<1>2. CASE UNCHANGED <<pc, exposure>>
  BY <1>1, <1>2, KnobKept
<1>3. CASE pc' = "graph" /\ exposure' = EXPOSURE_START
  <2>1. Numbers' /\ BlankingInUse' /\ SessionExposure' /\ SameExposure'
    BY <1>1, <1>3, ConstantTypes
    DEF KnobInv, Numbers, BlankingInUse, SessionExposure, SameExposure, Starting
  <2>2. Allowed(ctl')
    BY <1>1 DEF KnobInv
  <2> QED BY <1>1, <2>1, <2>2, KnobMoved
<1> QED BY <1>1, <1>2, <1>3

\* The exposure loop stays under its ceiling, and the driver takes what it sets, or
\* keeps what it has.
LEMMA ForwardKeeps == ASSUME KnobInv, Attempting, Forward PROVE KnobInv'
<1>1. /\ UNCHANGED <<EXPOSURE_MAX, VBLANK_DEF, misread, exposure_max, attempt>>
      /\ pc = "stream" /\ pc' \in {"stream", "close"} /\ AutoExposure
  BY DEF Forward, timingVars
<1>2. PICK e \in {exposure, EXPOSURE_MIN, exposure_max} :
         /\ exposure' = e
         /\ \/ ctl' = SetExposure(ctl, e) /\ refused' = refused \ {"exposure"}
            \/ e = exposure /\ UNCHANGED <<ctl, refused>>
            \/ ctl' = ctl /\ refused' = refused \cup {"exposure"}
  BY <1>1 DEF AutoExposure
<1>3. /\ Numbers /\ Reading /\ TimingRead /\ Allowed(ctl) /\ 1 <= exposure
      /\ exposure <= exposure_max /\ exposure_max = AttemptMax(attempt) /\ exposure_max \in Nat
      /\ "blanking" \notin refused => ctl.vblank = AttemptVblank(attempt)
  BY <1>1 DEF KnobInv, BlankingInUse, SessionExposure, Numbers
<1>4. e \in Int /\ 1 <= e /\ e <= exposure_max
  BY <1>3, AttemptFacts DEF Numbers
<1>5. AttemptVblank(attempt)' = AttemptVblank(attempt) /\ AttemptMax(attempt)' = AttemptMax(attempt)
  BY <1>1 DEF AttemptVblank, AttemptMax, EXPOSURE_MIN
<1>6. /\ Allowed(ctl') /\ ctl'.vblank = ctl.vblank
      /\ ctl' = SetExposure(ctl, e) /\ e <= ctl.emax => ctl'.exposure = e
  <2> DEFINE d == SetExposure(ctl, e)
  <2>0. ControlsOK(ctl) /\ ctl.mode = 1
    BY <1>3 DEF Allowed, Sound
  <2>1. /\ ControlsOK(d) /\ d.emax = ctl.emax /\ d.vblank = ctl.vblank /\ d.mode = 1
        /\ e <= ctl.emax => d.exposure = e
    BY <1>4, <2>0, SetExposureFacts
  <2>2. ctl' = d \/ ctl' = ctl
    BY <1>2
  <2> HIDE DEF d
  <2>3. Allowed(d)
    BY <1>3, <2>1, SameRange
  <2> QED BY <1>3, <2>1, <2>2, <2>3 DEF d
<1>7. Numbers' /\ BlankingInUse' /\ SessionExposure'
  BY <1>1, <1>2, <1>3, <1>4, <1>5, <1>6
  DEF Numbers, BlankingInUse, SessionExposure, Starting, TIMING_MAX_VTS
<1>8. ASSUME Orderly, ~misread, refused' = {} PROVE exposure' = ctl'.exposure
  <2>1. CASE ctl' = SetExposure(ctl, e) /\ refused' = refused \ {"exposure"}
    <3>1. "blanking" \notin refused
      BY <1>8, <2>1
    <3>2. exposure_max <= ctl.emax /\ ctl.emax \in Int
      BY <1>3, <1>8, <3>1, AttemptFacts, SoundFields DEF Allowed
    <3> QED BY <1>2, <1>3, <1>4, <1>6, <2>1, <3>2
  <2>2. CASE e = exposure /\ UNCHANGED <<ctl, refused>>
    BY <1>1, <1>2, <1>8, <2>2 DEF KnobInv, SameExposure
  <2> QED BY <1>2, <1>8, <2>1, <2>2
<1>9. Orderly /\ ~misread => SameExposure'
  BY <1>1, <1>8 DEF SameExposure
<1> QED BY <1>1, <1>6, <1>7, <1>9, KnobMoved

\* Every other step leaves the controls alone.
LEMMA KnobNext == KnobInv /\ FlowInv /\ [Next]_vars => KnobInv'
<1> SUFFICES ASSUME KnobInv, FlowInv, [Next]_vars PROVE KnobInv'
  OBVIOUS
<1>0. Attempting /\ pc \in PC
  BY DEF FlowInv, DataOK
<1> USE DEF sessionVars, timingVars, sensorVars, loopbackVars, PC, Startup, Starting, Session,
            Closing
<1>1. CASE QueryTiming BY <1>1, QueryKeeps
<1>2. CASE OpenLoopback BY <1>2, GraphKeeps
<1>3. CASE Advertise BY <1>3, KnobKept DEF Advertise
<1>4. CASE Subscribe BY <1>4, KnobKept DEF Subscribe
<1>5. CASE Serve BY <1>5, ServeKeeps
<1>6. CASE Graph BY <1>6, GraphKeeps
<1>7. CASE Configure BY <1>0, <1>7, ConfigureKeeps
<1>8. CASE OpenCapture BY <1>0, <1>8, OpenKeeps
<1>9. CASE Probe BY <1>0, <1>9, ProbeKeeps
<1>10. CASE Retry BY <1>10, KnobKept DEF Retry, CloseCapture
<1>11. CASE Forward BY <1>0, <1>11, ForwardKeeps
<1>12. CASE CloseSession BY <1>12, KnobKept DEF CloseSession, CloseCapture, DropLocals
<1>13. CASE Failed BY <1>13, KnobKept DEF Failed, DropLocals
<1>14. CASE CloseOnExit BY <1>14, KnobKept DEF CloseOnExit, CloseCapture
<1>15. ASSUME Exit PROVE KnobInv'
  BY <1>15, KnobKept DEF Exit, DropLocals
<1>16. CASE Stop BY <1>15, <1>16 DEF Stop
<1>17. CASE ProbeFails BY <1>17, KnobKept DEF ProbeFails
<1>18. CASE StreamEnds BY <1>18, KnobKept DEF StreamEnds
<1>19. CASE Signal
  <2>1. CASE pc \in Session \cup {"wait", "closeExit"}
             /\ pc' = (IF pc = "stream" THEN "closeExit" ELSE "except")
             /\ UNCHANGED <<sessionVars, timingVars, ctl>>
    BY <2>1, KnobKept
  <2> QED BY <1>15, <1>19, <2>1 DEF Signal
<1>20. CASE SystemdRestart BY <1>20, KnobKept DEF SystemdRestart
<1>21. CASE GraceElapses BY <1>21, KnobKept DEF GraceElapses
<1>22. CASE Sever BY <1>0, <1>22, KnobKept DEF Sever
<1>23. CASE ClientOpens BY <1>0, <1>23, KnobKept DEF ClientOpens, SetClients
<1>24. CASE ClientCloses BY <1>0, <1>24, KnobKept DEF ClientCloses, SetClients
<1>25. CASE UNCHANGED vars BY <1>0, <1>25, KnobKept DEF vars
<1> QED
  BY <1>1, <1>2, <1>3, <1>4, <1>5, <1>6, <1>7, <1>8, <1>9, <1>10, <1>11, <1>12, <1>13, <1>14,
     <1>16, <1>17, <1>18, <1>19, <1>20, <1>21, <1>22, <1>23, <1>24, <1>25
  DEF Next, Daemon, Environment

LEMMA KnobInvariance == Spec => []KnobInv
  BY KnobInit, KnobNext, FlowInvariance, PTL DEF Spec

-----------------------------------------------------------------------------
(* The theorems about the controls.                                        *)

\* Where the parameters do what they say, and the constants are those of a shorter
\* frame than the driver's: the exposure the exposure loop reckons with is the one the
\* driver has, and its ceiling is never above the driver's, as long as the range was
\* read and the driver took the attempt's blanking and the last exposure; whatever it
\* refused in earlier attempts, sessions or runs.
THEOREM KnobFollows == Orderly => (Spec => []KnobMatchesSensor)
<1> SUFFICES ASSUME Orderly PROVE Spec => []KnobMatchesSensor
  OBVIOUS
<1>1. ASSUME KnobInv, FlowInv, pc = "stream", ~misread, refused = {}
      PROVE  exposure = ctl.exposure /\ exposure_max <= ctl.emax
  <2>1. /\ exposure = ctl.exposure /\ exposure_max = AttemptMax(attempt) /\ Allowed(ctl)
        /\ ctl.vblank = AttemptVblank(attempt) /\ Numbers /\ Reading /\ TimingRead
    BY <1>1 DEF KnobInv, SameExposure, BlankingInUse, SessionExposure
  <2>2. Attempting
    BY <1>1 DEF FlowInv
  <2> QED BY <1>1, <2>1, <2>2, AttemptFacts
<1>2. KnobInv /\ FlowInv => KnobMatchesSensor
  BY <1>1 DEF KnobMatchesSensor
<1> QED BY <1>2, KnobInvariance, FlowInvariance, PTL

\* The state stays in its type: in particular every ceiling and every exposure, read,
\* computed or set, is a number of lines the register can hold.
THEOREM TypeCorrect == Spec => []TypeOK
<1>1. KnobInv => KnobsOK
  <2> SUFFICES ASSUME KnobInv PROVE KnobsOK
    OBVIOUS
  <2>1. Numbers /\ Sound(ctl)
    BY DEF KnobInv, Allowed
  <2>2. {exposure, exposure_max, EXPOSURE_MAX, VBLANK_DEF} \subseteq Nat
    BY <2>1 DEF Numbers
  <2>3. ctl.vblank \in {VBLANK_STOCK, ctl.vdef}
    BY <2>1, SoundFields DEF Sound
  <2> QED BY <2>1, <2>2, <2>3, Zenon DEF KnobsOK, Numbers, Sound
<1>2. FlowInv /\ FlagsOK /\ KnobInv => TypeOK
  BY <1>1 DEF TypeOK, FlowInv
<1> QED BY <1>2, FlagsInit, FlagsNext, FlowInvariance, KnobInvariance, PTL DEF Spec

=============================================================================
