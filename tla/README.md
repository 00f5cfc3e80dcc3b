# A TLA+ model of the Surface IPU6 cameras

The repository makes three cameras of a Surface work under Linux.  For each of
them a Python daemon (a *bridge*) owns the producer side of a v4l2loopback device
and streams only while an application captures from it; the sensors are driven by
patched kernel drivers (`src/dkms`).  What is hard here is seldom computation: it
is a client that leaves in the wrong second, a signal in the middle of a stop, a
supply that fails half way up, a control that outlives the process that set it.
The project models those parts, checks them with TLC on small instances, and
proves the safety of every one of them with TLAPS for every value of its constants.

    tlc -config MCPsysBridge.cfg MCPsysBridge      # a run
    tlapm PsysBridgeProofs.tla                     # the proofs of a module

## 1. Inventory

| Component | State | Operations | Talks to |
|---|---|---|---|
| front bridge `bridges/surface-psys-bridge` | place in `main`/`run_session`, `attempt`, `first_frame_t`, `gone_since`, `CURRENT_PROC` | open and advertise the loopback, subscribe, serve, spawn gst, relay frames, watch first frame and grace, `stop_gst`, `recycle_sensor`, tear down | loopback (client-usage events), gst child (pipe, SIGINT), `modprobe`, systemd |
| rear bridge `bridges/surface-rear-bridge` | the same, and `restarts`, the list of the last minute's restarts | the same; pauses instead of recycling, limits restarts | loopback, gst/libcamera, other producers, systemd |
| infrared bridge `bridges/surface-ir-bridge` | attempt of `start_capture`, frames of the probe, `exposure`, `exposure_max`, `EXPOSURE_MAX`, `VBLANK_DEF`, capture descriptor | `query_sensor_timing`, `setup_graph`, `set_vblank`, `set_ctrls`, `Capture`, `wedge_probe`, forward frames, exposure loop | loopback, media graph, OV7251 controls, systemd |
| exposure loop (in the infrared bridge) | exposure, analogue gain, digital gain | one correction per turn | the sensor, the scene |
| OV7251 driver `dkms/ov7251-surface/ov7251.c` | supplies, clock, enable line, runtime PM, controls, mode, registers | probe, remove, power on/off, resume/suspend, `s_stream`, `s_ctrl`, format, frame interval | regulators, clock, I2C, V4L2 core, runtime PM |
| OV5693 driver `dkms/ov5693-surface/ov5693.c` | the like, and crop, binning and flips | the like, and `set_selection` | the like |
| INT3472 glue `dkms/int3472-surface/*` | place in the walk over `_CRS`, lookup table, clock, LEDs, regulators, and the GPIO descriptors they own | probe (name a line, get it, register what it is for), unwind, defer, remove; clock, LED and supply on and off | ACPI (`_CRS`, `_DSM`), GPIO, clock and regulator cores, the sensor drivers |
| systemd units, udev rule | unit state | stop (SIGTERM, TimeoutStopSec, KillMode=mixed), restart | the bridges |
| loopback creation, relayd launcher, PSYS package, tuning tools, documents | none, or files | one-shot scripts | |

What is hard, and where the properties aim:

- **Interleaving.** Clients come and go between two polls, and only the newest
  count survives; signals become a `KeyboardInterrupt` at any statement; the
  producer's death races frames, watchdog and grace period; controls are set while
  the sensor resumes, idles or streams.
- **Stale state.** `gone_since` belongs to one attempt; `EXPOSURE_MAX` is read once;
  vertical blanking and the exposure range outlive sessions and daemons.
- **Partial failure.** `stop_gst` runs out of its budget, `modprobe`, `media-ctl` and
  `v4l2-ctl` fail unseen, DQBUF fails inside the probe, one write of several is refused, any supply, the clock, the bus or a registration
  fails in a sensor's driver, any line or registration in the middle of the glue's
  walk.
- **Timeouts and retries.** First-frame watchdog, grace, stop budget against
  TimeoutStopSec, restart limit, wedged starts and the fallback timing.
- **Progress.** A client is served or given up; the camera is released; the
  illuminator goes dark; the exposure loop settles.

`PROJECT.json` lists each hazard at its line, with the properties that cover it or
the reason why none does.

What makes each component correct:

- *bridges*: never two producers of one's own and never a driver reload under a
  live one; every registered producer stopped before the process ends; sessions
  ended only when nobody captures, and always then; every announced client
  attended; streaming only on demand.
- *rear bridge, in time*: stops within TimeoutStopSec, kills no producer before its
  stop budget is over, honours the whole grace period.
- *infrared bridge*: a wedged start is served only as the last resort; loop
  and driver agree on the exposure whenever the last settings were taken, whatever the
  tools refused before; dark when idle.
- *exposure loop*: comes to rest, in the band or at its limits, cheap knobs first.
- *sensor drivers*: references balanced on every error path, supplies in order, the
  chip never written unpowered and always what the controls report.
- *power glue*: every descriptor has one owner on every error path; a line is at its
  "on" level exactly while the sensor has it on; a sensor that binds finds every line
  its board wires to it under the name it asks for.

## 2. Modules

    OnDemand                     what every bridge promises
      ^ implemented by
    PsysBridge   RearBridge   IrBridge        IrExposure
                                 | extends
                              Ov7251Controls <-- Ov7251      Ov5693      Int3472

Each `XProofs` extends `X` and holds its theorems (section 4); IrBridgeProofs and
Ov7251Proofs also extend Ov7251ControlsProofs, the lemmas about the controls.

`MC*` modules give the constants of a run; those that only extend their component
exist so that a configuration has a module of its own.  A definition called
`X_Something` is a plausible bug in `X`, defined next to it; no specification uses
it, it is there to show that a property notices the bug.

**OnDemand** is the abstract specification: *watched* (an application has the device
open), *session* (the bridge is busy with the camera) and *power* (the producer
runs).  A session begins only while the device is watched, power comes on only in a
session, and a session ends only with the power off.

**PsysBridge**, the front bridge.  `pc` is the place in the program; a step is what
lies between two points where a signal, a client or the child can make a
difference.  `OpenLoopback`, `Advertise`, `Subscribe` are `main` up to the loop,
`Serve` the loop, `CheckOthers` to `GiveUp` are `run_session`, `Unload`/`Load` are
`recycle_sensor`, `SessionStopped`, `StuckStopped`, `StopFails` and `ExitStopped`
the outcomes of `stop_gst`, `Signal`, `LeaveExcept`, `IgnoreSignals`, `Teardown`
the way through `except` and `finally`.  `Spawn` and `Register` are two steps, as a
signal between `Popen` and the assignment to `CURRENT_PROC` loses the child.
Child, timers, driver module, ISYS firmware, other HAL users and systemd are
environment.  A deadline is a flag the environment raises at any moment after it
was armed, so every relative speed is covered.  Of a frame only "one waits in the
pipe" is kept.

**RearBridge** is the same shape with a clock: each deadline is an age in ticks, a
`Tick` happens only when the daemon sleeps or has finished an iteration since the
last one.  One iteration of the relay loop is one step here (`Relay`), the finer
interleaving being PsysBridge's subject.  `Restart` is the restart limiter,
`Backoff` its pause.

**Ov7251Controls** holds the sensor's controls as functions on a record: what
`S_FMT`, the frame interval, vertical blanking, and the handler setup at stream
start do to the exposure range.  Ov7251 and IrBridge share it, so the daemon is
checked against the driver's real behaviour.

**IrBridge** composes the daemon with those controls, which survive its restarts.
`Graph`, `Configure`, `OpenCapture`, `Probe`, `Retry` are `start_capture`;
`Forward`, `StreamEnds`, `CloseSession` the loop of `run_session` with its
`finally`; `ProbeFails` is an exception inside the probe.  A start comes up clean or
with one of the two signatures the probe looks for (pinned rows, short periods).
`media-ctl` and `v4l2-ctl` are run without a look at their result (`check=False`), so
with `ToolsFail` each of their settings may be taken or not (`SetupGraph`, `NotTaken`,
`Configure`, `AutoExposure`), and a range that cannot be read is replaced by the
constants of `query_sensor_timing` (`EXPOSURE_STOCK`, `EXPOSURE_MIN`).  Two variables
remember it: `misread`, which says where the daemon's numbers come from, and `refused`, a
history variable that no action depends on.  Another,
`abandoned`, is set only where an exception or a signal passes the code that would have
stopped the stream (`ProbeFails`, and `Signal` in the places of `Uncovered`).
`Exit` with such a stream still on lets it stop or stay lit: the code's own comment at
`_terminate` says that it may stay.  A signal in the four statements between the return
of `start_capture` and the `try` of `run_session` counts as one in the probe; after the
last attempt, which is not probed, it is left out.
The exposure loop is here reduced to moving the
exposure between its bounds (the gain, which no range moves, is set once, with the
exposure of an attempt); its arithmetic is

**IrExposure**, with the code's numbers and truncations.  The digital gain, a float,
is kept in thousandths.  The 0.4 clamp of the factor is modelled though an 8-bit
mean cannot reach it.  Only the scene is idealised: uniformly lit, level
proportional to exposure and gain up to saturation.

**Ov7251**, the driver.  The driver's lock makes each handler one step; switching
power is one step per resource (`Raise`, `RaiseFails`, `Lower`), because runtime
suspend runs outside that lock.  `StreamStarts`/`StreamFails` are the body of
`s_stream(1)`, where a failing bus leaves the chip in any of the intermediate
states (`InSetup` is the one inside the handler setup); `Apply`/`ApplyFails` are `s_ctrl`
behind each setter, `ModeFails` a change of mode.  The bus may fail for good or for one
write only: `s_ctrl` ignores the result of moving the exposure into its new range
(`ov7251.c:1262`), so the blanking may be set, and a stream start, with the exposure left
above its range (`Uncompensated`, `AfterSetup`).  `ChipAbsent` and
`RegistrationFails` are the two ways a probe ends after power came on; the second
leaves it on (`leaked`), which the invariants except.  `WriteParameter` changes the
illuminator's module parameter at any moment: start and stop each read it anew.  The
PLLs are kept as the index they were programmed for, and the two flips and the test
pattern, which take the same path, as one control, `flip`.

**Ov5693**, the driver of the front sensor.  Here not every handler is one step.
`StreamOn`, `Resume`, `SetupBegins` and `StreamStarts` are `s_stream`: it resumes before it
takes the lock, and its handler setup reads the format's height twice, for the range of
the exposure and for the frame length.  `SetFmtBegins` and `SetFmtEnds` are the two halves
of `set_fmt`, which changes the active format before it takes the lock; `SetSelection`
never takes it, so both can come between any two of these steps.  A rectangle may come
out empty, and then `set_fmt` divides by zero: the caller is killed (`Died`), in the
second half with the lock (`DiedLocked`), which nobody gets again (`LockFree`).
Power is switched in one step, as nothing can come between, but with the outcomes of
an error path that takes back more than was switched on (`PowerUpFailed`).  A failing
bus is part of `Apply`: any of the changed controls may stay as it was, with its range
already moved.  Of the register tables the chip keeps which readout they are for
(`Readout`, which is binned when either dimension is): a powered chip has none until it
is resumed.  Of the horizontal dimension only what the vertical one depends on is kept,
and chosen freely: whether it is binned (`Binned`), and whether a new rectangle has
another width (`wider`).

**Int3472**, the power glue of one sensor, with the firmware as its input: any list of
resources, each something else, a line without a `_DSM` entry, or a line with a type
and an "on" level.  The walk (`skl_int3472_handle_gpio_resources`) takes a resource at
a time: `SkipResource`, `SkipUnknown`, `MapToSensor`/`MapFails` for lines handed to the
sensor, `GetGpio`/`GetFails` and then a registration or `RegisterFails` for those the
glue keeps.  A clock, an LED, or a regulator refused before the regulator core is called
(`RefusedRegulator`) leaves the descriptor with the caller, who puts it; the regulator
core consumes it even when it fails, and the caller puts it again (`RegulatorCoreFails`,
remembered in `overput`).  Between `GetGpio` and the registration the line is *in hand*, owned by
nobody else.  `ParseDone` is the rest of the probe, `Unwind` its failure, after which it
may be tried again (deferred or not), `Remove` the driver's removal.  `held` counts the
references to each descriptor, `low` and `level` are the GPIO core's polarity and the
physical line.  The `_DSM` is asked by a number (`ngpios`) that counts the lines before
the present one (`GpiosBefore`), and stops counting at a line without an entry, as at one whose entry
could not be read this time (`SkipResource`; `missed` remembers that): the next line is
then given that entry.  The sensor's driver is environment, modelled by what it asks for:
`SensorProbe` takes the lines it finds, `EnableClk`, `LedSet`, `SupplySet`, `GpioSet`
switch them.

## 3. Runs

Each passing run checks a type invariant; the others:

| Run | Checks | Shows |
|---|---|---|
| `psys` | `NoStrayProducer`, `RegisteredProducerIsStopped`, `GoneMeansNobody`, `NeverStrandsWatchers`, `Attended`, `ReleasedUnlessRetried`, `RecoversOnceFree`, `ImplementsOnDemand` | one producer at a time and none under a driver reload; a clean exit for one signal anywhere; no watcher dropped, nor stranded when the producer dies; announced clients answered; the camera released when no start was retried; a daemon that cannot open a busy loopback serves again once it is free |
| `rear` | `StopsInTime`, `KilledOnlyAfterBudget`, `LingerRespected`, `ImplementsOnDemand` | the deadlines: systemd never kills the daemon, and a producer only after its whole stop budget; grace period |
| `ir` | `WedgedOnlyAsLastResort`, `KnobMatchesSensor`, `DarkWhenIdle`, `ReleasedUnlessAbandoned`, `ImplementsOnDemand` | retries and fallback across sessions and restarts, with tools that fail unseen at any call: loop and driver agree again as soon as the settings of an attempt are taken; the illuminator goes off but where a capture was abandoned |
| `ir_exposure` | `NoisyKnobsLast`, `RestsInBandOrAtLimit`, `Settles` | the loop settles, and where |
| `ov7251` | `PowerBalanced`, `ChipFollowsControls`, `DarkWhenUnused` | supplies, their order, references and registers on the failure paths (a failed registration is the exception); the illuminator goes dark, also when its parameter was changed under the stream |
| `ov5693` | `PowerBalanced`, `ChipFollowsControls`, `UnusedIsSuspended` | the same for the front sensor, with formats and crops set between any two steps |
| `int3472` | `DescriptorsBalanced`, `LinesFollowSensor`, `SensorFindsItsLines` | every firmware of up to three resources, every failure in the walk: no descriptor leaked or owned twice; as long as every `_DSM` entry that is there could be read, polarity right through renaming and inversion, and no sensor bound without its lines |

The remaining runs end in a counterexample: each states a sentence of the
repository that the code does not keep.

| Run | Property | Disagreement |
|---|---|---|
| `psys_release` | `CameraReleased` | `gone_since` is reset by each attempt: a client that leaves during a stuck start is forgotten and the camera streams on for nobody (`surface-psys-bridge:221`; `surface-rear-bridge:248` likewise) |
| `rear_refusal` | `RefusalIsRetried` | "retry in 5 s" ends after a few refusals, which count as restarts |
| `ir_leak` | `IdleMeansDark` | an OSError in `wedge_probe` leaves the capture streaming |
| `ir_ceiling` | `CeilingMatchesBlanking` | a restart after a fallback session pairs the short exposure range with the long default blanking |
| `ov5693_mode` | `StreamsInMode` | a stream started before the first autosuspend runs on a chip without register tables, or in the readout mode of an earlier format |

Other disagreements have no run of their own.  Five are stated at the end of their
modules; TLC refutes each within seconds when it takes the place of the properties of the
configuration named here (the action properties as `PROPERTY`):

| Property | Configuration | Disagreement |
|---|---|---|
| `StartsOutsideMargin` | `MCOv7251.cfg` | the write that brings the exposure into its range fails, its result is not looked at (`ov7251.c:1262`), the next one succeeds: a stream starts closer to the frame length than the comment at `ov7251.c:94-98` allows |
| `StartsWithinFrame` | `MCOv5693.cfg` | a format or rectangle set without the lock (`ov5693.c:1039-1040`, `1151-1157`) between the two reads of the height (`579`, `551`) of a start: the exposure is longer than the frame |
| `NobodyDies` | `MCOv5693.cfg` | a rectangle asked for at the far edge comes out empty (`ov5693.c:1142`), below the minimum of `ov5693.c:122`, and `set_fmt` divides by its height |
| `SizeMatchesBinning` | `MCOv5693.cfg` | a rectangle set after a binned format resets the size and not the binning (`ov5693.c:1147-1157`, against `1028-1029`) |
| `NothingPutTwice` | `MCInt3472.cfg` | `regulator_register()` consumes the descriptor whether or not it succeeds, and `discrete.c:432-433` puts it again; two lines with one supply name are enough |

`LinesFollowOwnEntry` (Int3472) without the `~missed` of `LinesFollowSensor` is refuted in
the same way, by a `_DSM` entry that could not be read.

The restart limit of the rear bridge ("must not spin", `surface-rear-bridge:85-86`) is no
limit per minute: `Serve` empties the list (line 370), so that after GIVING UP the next
client event opens a new one.  What remains, that the list itself stays short, would only
restate the guard of `Restart`.

"Shutdown by SIGINT, never SIGKILL" (`bridges/README.md:10-12`, and the comment at
`surface-rear-bridge:308-310`): the daemon does not kill a producer that ignores SIGINT,
but it exits, and KillMode=mixed (`surface-rear-bridge.service:18`) kills what is left of
the cgroup.  `KilledOnlyAfterBudget` states what does hold.

### Bounds

- *Clients* (`MaxClients = 2`): one can leave while another stays or comes, and the
  count can be 0, 1 or more, all the code tells apart.
- *Signals* (`MaxSignals = 2` per run of the daemon): a second one can hit the
  `except` or `finally` clause opened by the first; later ones are ignored by the
  code.
- *Attempts*: the code's value, 3, for the front and the rear bridge.  For the infrared
  bridge `FALLBACK_RETRIES` (3) and `WEDGE_PROBE_FRAMES` (3) are the code's, and
  `WEDGE_RETRIES` is 2 instead of 8: no step tells more of an attempt than whether it
  comes before the fallback and whether it is the last.  The proofs hold for any number.
- *Tools*: they fail at any call in `ir`; in `ir_leak` and `ir_ceiling` they do not, which
  keeps the two counterexamples to what they are about.
- *Rear bridge's time*: seconds are scaled down and keep their order (stop budget
  below TimeoutStopSec, sleeps below the limiter's minute, two restarts a minute),
  so every deadline can expire before and after every other one the code lets
  compete with it.
- *Infrared sensor*: the driver's real tables with `vts_boost=3448`, the value in
  `config/modprobe.d`.  Applications ask for the blankings of the modes and for
  exposures at both ends, where the ranges move and clamp.  The firmware lists both
  link frequencies, in the driver's order.
- *Front sensor*: the default rectangle, one that the array cuts to half its height and
  one that it cuts to nothing, each with the full and the binned size; the shortest
  blanking and the one a format brings, the longest exposure; one application inside
  `set_fmt` at a time (another one's crop, controls and stream come between its halves).
- *Power glue*: up to three resources of thirteen kinds, in every order, for the
  sensors of the infrared and the rear camera and for the one sensor whose powerdown
  line becomes a regulator; tables of two entries, so that each can overflow (the
  driver's own limits are larger and change nothing else); a name for POWER1 that fits
  and one that does not.
- *Exposure loop*: 84 ratios over six decades, from black at full gain to saturated
  at the shortest exposure, the three ceilings the bridge can have, and one change
  of scene, which finds the loop in every state of its approach.

Deadlock is checked except in `ir_exposure`, where a loop at rest has nothing to do.

### Fairness

- *Bridges*: the daemon is scheduled (`WF` of its steps; its `select` has a timeout,
  so every iteration ends), systemd restarts the unit (`Restart=always`), time
  passes.  A producer obeys SIGINT fairly only when `Stubborn` is false; otherwise
  the stop budget runs out.  No fairness for clients, frames, signals or other
  producers.
- *OV5693*: a start that began ends (`Resume`, `SetupBegins`, `StreamStarts` or their
  failures, as far as the lock is free), and runtime PM suspends an unused device.  None
  for applications: one that was killed with the lock leaves the start waiting for ever.
- *OV7251*: a power sequence or handler that began ends, and runtime PM suspends an
  unused device in the end (autosuspend).
- *Exposure loop*: it runs with the frames.
- *Rear bridge* (`rear`) and *power glue*: their properties are safety and need none.

## 4. Proofs

Every theorem is of the form `Spec => []Inv`, `Spec => [][A]_vars`, or `Spec =>
ImplementsOnDemand`, for all values of the constants the `ASSUME`s allow; two of them,
`KnobFollows` and `FindsItsLines`, under a hypothesis explained below.  What a property
excepts (`abandoned`, `leaked`, `misread`, `refused`, `missed`) is a variable of the
model, set in the actions named in section 2 and nowhere else.

| Module | Theorems | For every |
|---|---|---|
| `PsysBridgeProofs` | `TypeCorrect`, `NoStray`, `CleanExit`, `NoWatcherDropped`, `NobodyStranded`, `Implements` | number of attempts, clients, signals; stubborn producers or not |
| `RearBridgeProofs` | `TypeCorrect`, `InTime`, `KilledLate`, `LingerIsKept`, `Implements` | timeout, sleep and limit, with `STOP_BUDGET < TimeoutStopSec` |
| `IrBridgeProofs` | `TypeCorrect`, `WedgedIsLastResort`, `KnobFollows`, `IsDarkWhenIdle`, `Implements` | number of attempts, probed frames, clients, signals; stock blanking, starting exposure and gain; `vts_boost`, `win_timing`; tools that fail or not |
| `IrExposureProofs` | `TypeCorrect`, `NoiseComesLast`, `RestIsExplained` | scene, lower bound (up to the starting exposure) and ceiling |
| `Ov7251Proofs` | `TypeCorrect`, `PowerIsBalanced`, `ChipFollows` | `vts_boost`, `win_timing`, list of link frequencies, value set by an application |
| `Ov5693Proofs` | `TypeCorrect`, `PowerIsBalanced`, `ChipFollows` | format, crop (empty ones included), blanking, exposure, number of callers |
| `Int3472Proofs` | `TypeCorrect`, `DescriptorsAreBalanced`, `LinesFollow`, `FindsItsLines` | firmware of any length, table limits; `FindsItsLines` for the boards and names of `KnownBoards` |

No invariant but the simplest is inductive by itself; what each rests on:

- **Front bridge.**  `Inv` adds `EventIsNewest` (a pending event is the present count)
  and `Hearing` (the serving daemon is subscribed), which carry `GoneInSession`, the
  truth about `gone_since`; `WayOut` says why a daemon is on its way out and with which
  children it may get there; `AttemptLeft`, that a recycle is followed by an attempt,
  bounds `attempt`.  `NobodyStranded` looks at the only steps that end in `wait`.
- **Refinement** (the three bridges).  The only step that begins a session is `Serve`,
  where `EventIsNewest` makes the reported count the present one, so that the device is
  watched in that very step; only `Spawn` (`Respawn`, `OpenCapture`) turns the power on,
  in a session; clients move only *watched*; every other step starts nothing (`Quiet`).
- **Rear bridge.**  `StopClock`: a signalled daemon is on its way out, and its clock
  runs only in the `stop_gst` of the `finally` clause, so `termAge` stays within one
  stop budget.  `Patience`: a child in a `stop_gst` has had SIGINT for as long as that
  lasts, and the way out without a signal leads through a spent budget.
  `GoneIsEmpty`: with no event left to collect, `gone_since` is no older than the
  clients' absence, which is what makes the grace period real.
- **Infrared bridge.**  `FlowInv` ties the attempt and the stream to the place in the
  program: the last attempt is not probed, and a lit stream that was not abandoned has
  code ahead that will stop it.  `KnobInv` follows the controls through sessions, restarts
  and refused settings: what holds at every moment (`Allowed`) is that the blanking is the
  default or the stock one and, under the hypothesis below, that the range is never wider
  than the default one, nor narrower than the ceiling read at start-up, moved by as much
  as the blanking has moved since (`Fits`).  `S_FMT` (which restores the range and not the
  blanking), a new blanking, the handler setup, and any of them taken in part keep it.
  `BlankingInUse` and `SameExposure` add what is known once an attempt's settings were
  taken.
- **`Orderly`**, the hypothesis of `KnobFollows`, has two parts.  `ParametersHonoured`:
  `vts_boost` is 0, in the range `probe` accepts, or overridden by `win_timing`.  It is
  needed: a boost that `probe` rejects (500, say) still makes `s_ctrl` use the boost's
  margin (`ov7251.c:1259`) on the stock frame, the first handler setup then cuts the range
  below the ceiling the daemon has read, and TLC finds `KnobMatchesSensor` violated.
  `StockIsShorter`: where the tools may fail, the stock blanking a daemon falls back on
  without having read the driver's is not above the driver's default.  It holds for the
  shipped `vts_boost` and for the stock modes; under `win_timing` (a default of 42 lines)
  only with tools that do not fail.
- **Exposure loop.**  `Quotient` bounds the truncated division; `ScaledFacts` concludes
  that a correction of a frame outside the band moves every knob of more than two
  units, in the right direction.  The rest is a case per knob.
- **Controls** (`Ov7251ControlsProofs`, lemmas only): what each setter preserves
  (`ControlsOK`: values the registers can hold) and what it does to range, blanking and
  exposure.
- **OV7251.**  `Switching` says what is powered in the middle of a sequence: on the way
  up exactly what is not left to do, on the way down what is; `Phases` who may be
  switching, and when.  `ChipFollowsControls` rests on the write-through of `s_ctrl`
  while powered and on the handler setup before each start.
- **OV5693.**  `Phases` relates `s_stream`, runtime PM and the binding.  `Apply` writes
  through while the device is in use, and the last step of a start writes every control,
  so that exposure and flip follow although the height may be any.
- **INT3472.**  The lines clock, LEDs and regulators own are distinct and lie before
  the walk (`PassedLines`), so the next one is nobody's; `InSync` says that, unless
  an entry was missed, the index into the `_DSM` is that of the line being handled until a
  line without an entry stops it, and so that the polarity a line is given is its own (`LinesFollow`).
  For `FindsItsLines`, `WalkServes` says that every line the walk has passed and the
  board needs (`Due`) is reached by the sensor (`Served`), and `MadeOf` that the tables
  hold lines of the types they are for; `WiredNames` compares, board by board, the names
  of `int3472_gpio_map` and the defaults with those the sensors' drivers ask for, and
  finds that no two types of line of a board get the same GPIO name, which makes the
  line the first of its name in the lookup table.
- **`KnownBoards`**, the hypothesis of `FindsItsLines`: the sensor is one of the four
  whose driver's names are modelled, and `ov8865_pwr1_con_id`, which takes any string,
  is one of the supplies the OV8865's driver asks for (`dvdd` by default).  With another
  name POWER1 becomes a regulator that driver does not look up.

The proofs of the sensors keep the sizes of the chips folded (`HIDE DEF NATIVE_HEIGHT`)
or state one bound at a time: in an obligation that mentions a number of four digits
only SMT is of use, so each such leaf is made small enough for SMT to close it at once.

Only model-checked:

- every liveness property (`Attended`, `ReleasedUnlessRetried`, `RecoversOnceFree`,
  `ReleasedUnlessAbandoned`, `DarkWhenUnused`, `UnusedIsSuspended`, `Settles`): fairness
  and `ENABLED` are outside the prover's reach;
- the five runs that end in a counterexample, by their nature.

## 5. Abstractions and what is not modelled

- Frame contents, splash pictures, logging; the pixel conversion of the infrared
  bridge; partial frames (only whole ones are relayed by the code).
- A `Popen` that raises; a loopback that vanishes while a daemon runs.
- Producers that stall after their first frame: the code has no reaction to them.
- OV7251: the calls that enumerate or read.  A registration that fails leaves everything
  on for good (`leaked`), and no second probe is modelled after it.  `Remove` waits for
  the receiver to stop its stream, as the V4L2 core unbinds first.  `link_freq_idx` is a
  position in the firmware's list used as an index into the driver's table
  (`ov7251.c:1784`); `LinkAssumption` keeps it inside the table, and with a list in
  another order the PLLs are those of the index, as in the code.
- OV5693: the horizontal dimension and its flip (handled by the same statements as the
  vertical one; no other control depends on it), the gains, the test pattern, the TRY formats,
  the enumeration calls.  The handler setup reads the height twice; setting the blanking
  and the second half of `set_fmt` read it more than once as well and are one step here.  A
  resume that failed may be tried
  again, which runtime PM refuses until the error is cleared: the model has more
  behaviours than the system there.  The clock and regulator frameworks refuse to count
  below zero, which is what keeps the error path of the power-up harmless.
- OV7251: the exposure margin of the stock modes, which follows the module parameter
  and not the mode (`ov7251.c:1259`, against the comment at line 97), is in the model
  (`Margin`) and has no run of its own yet; `KnobFollows` says what follows from it.
- INT3472: the second sensor that a quirk of another machine gives `avdd` to, enable
  delays, names in logs and sysfs, the lifetime of the string behind
  `ov8865_pwr1_con_id`.  After a removal the sensor
  can no longer be looked up, so a second probe fails: `Probe` says so, and
  `docs/REBUILD.es.md` asks for a reboot there.
- systemd's `Conflicts=` and the udev rule, which start and stop whole units.
- `surface-camera-loopbacks` and `surface-camera-relayd`: a few commands in a row, no
  state of their own, and the second is superseded by the bridges.
- `src/tools`: one-shot scripts over tuning files.  Their logic is byte layout and
  checksums over inputs that a model would have to shrink to nothing.
- The IPU6 PSYS driver, of which only headers of the kernel are in the repository: they
  declare, and do nothing.

## 6. Plan

Done, in this order:

1. `OnDemand`, `PsysBridge`: the front bridge, its runs, its invariants proved, the
   refinement proved.
2. `RearBridge`: the clock, the restart limiter, TimeoutStopSec.
3. `Ov7251Controls`, `IrBridge`: the infrared bridge against the driver's controls.
4. `IrExposure`: the arithmetic of the loop.
5. `Ov7251`: power, runtime PM, streaming, every control, the module parameter.
6. `Ov5693`: the like for the front sensor, with crop, binning and the unlocked halves
   of `set_fmt`.
7. `Int3472`: lines mapped to consumers, the tables' limits, the unwinding, what the
   sensor then finds.
8. Proofs: every invariant and every safety action property the passing runs check, and
   the three refinements of `OnDemand`.

Further models: `Ov7251` over other values of `vts_boost` (523 to 759 make `S_FMT`
fail) and the margin of its stock modes, which follows the module parameter and not the
mode (`ov7251.c:1259`, against the comment at line 97); `Ov5693` composed with the driver
recycle of `PsysBridge`, which sleeps for exactly the autosuspend delay before it starts
the next producer.
