------------------------------- MODULE Ov7251 -------------------------------
(***************************************************************************)
(* The driver of the infrared sensor, src/dkms/ov7251-surface/ov7251.c: its*)
(* probe and remove, the order in which it switches supplies, clock and    *)
(* enable line (with the way back when one of them fails), runtime PM, the *)
(* start and stop of a stream with the illuminator, and the controls of    *)
(* Ov7251Controls, which it writes to the chip only while it is in use.    *)
(*                                                                         *)
(* The driver's lock makes each handler one step, except that switching    *)
(* the power is done resource by resource: runtime suspend runs without    *)
(* the lock, between the handlers.  Of the chip's registers those are kept *)
(* that a property needs; they are lost with the power.  Any single write  *)
(* of a handler may fail, the next one succeed.                            *)
(***************************************************************************)
EXTENDS Ov7251Controls

CONSTANTS
    LinkFrequencies,   \* the link frequencies the firmware lists, in kHz
    VblankChoices, ExposureChoices, GainChoices   \* what applications ask for

ASSUME ChoicesAssumption ==
    VblankChoices \cup ExposureChoices \cup GainChoices \subseteq Nat

VARIABLES
    bound,     \* probe succeeded, remove was not called yet
    ir_led,    \* has_ir_led: the module parameter, and for -1 the ACPI id
    leaked,    \* a probe failed and left the sensor powered
    wanted,    \* the receiver driver has started a stream and not stopped it
    usage,     \* the runtime PM usage count
    status,    \* the runtime PM status
    on,        \* resource -> how often it is enabled
    pm,        \* what is being done to the power, "idle" when nothing
    todo,      \* ... the resources still to be switched
    why,       \* ... and for whom
    ctl,       \* the controls
    chip       \* the chip's registers

powerVars == <<on, pm, todo, why>>
vars == <<bound, ir_led, leaked, wanted, usage, status, powerVars, ctl, chip>>

-----------------------------------------------------------------------------
link_freq == <<240000, 319200>>

\* check_hwcfg: the position, in the firmware's list, of the first frequency the
\* driver supports; it is then used as an index into link_freq.
FirstSupported ==
    CHOOSE i \in 1..Len(LinkFrequencies) :
       /\ LinkFrequencies[i] \in {link_freq[1], link_freq[2]}
       /\ \A j \in 1..i - 1 : LinkFrequencies[j] \notin {link_freq[1], link_freq[2]}

link_freq_idx == IF win_timing THEN 2 ELSE FirstSupported

\* The position is that of a table entry: one of the first two frequencies of the
\* list is supported.  (It need not be the entry of that frequency.)
ASSUME LinkAssumption ==
    /\ LinkFrequencies \in Seq(Nat)
    /\ \E i \in 1..2 :
          i <= Len(LinkFrequencies) /\ LinkFrequencies[i] \in {link_freq[1], link_freq[2]}

Resources == {"io", "analog", "core", "xclk", "enable"}

\* The order of set_power_on; "init" is the global register table.
OnSequence == <<"io", "analog", "core", "xclk", "enable", "init">>

\* The order of set_power_off.
OffSequence == <<"xclk", "enable", "core", "analog", "io">>

\* Mutant: the io supply is forgotten when the core supply fails.
Unwind_LeaksIo(r) == IF r = "core" THEN <<"analog">> ELSE OffSequence

\* What the error path switches off again when r could not be switched on.
Unwind(r) ==
    CASE r = "io" -> <<>>
      [] r = "analog" -> <<"io">>
      [] r = "core" -> <<"analog", "io">>
      [] r = "xclk" -> <<"core", "analog", "io">>
      [] OTHER -> <<"enable", "xclk", "core", "analog", "io">>

\* A chip after its reset, with no PLL set up.
Blank == [pll |-> 0, vts |-> 0, exposure |-> 0, gain |-> 0, flip |-> FALSE,
          streaming |-> FALSE, led |-> FALSE]

\* The lock is held for the whole of s_stream, the resume included.
Unlocked == ~(pm # "idle" /\ why = "stream")

\* pm_runtime_get_if_in_use
InUse == usage > 0 /\ status = "active"

FlagsOK ==
    bound \in BOOLEAN /\ ir_led \in BOOLEAN /\ leaked \in BOOLEAN /\ wanted \in BOOLEAN

PowerOK ==
    /\ usage \in 0..1 /\ status \in {"suspended", "active"}
    /\ on \in [Resources -> 0..1]
    /\ pm \in {"idle", "raise", "ready", "lower"}
    /\ why \in {"nobody", "probe", "stream", "suspend", "remove"}

ChipOK(c) ==
    /\ c \in [pll : 0..2, vts : Int, exposure : Int, gain : Int, flip : BOOLEAN,
              streaming : BOOLEAN, led : BOOLEAN]
    /\ 0 <= c.vts /\ c.vts <= TIMING_MAX_VTS
    /\ 0 <= c.exposure /\ c.exposure <= TIMING_MAX_VTS

TypeOK == FlagsOK /\ PowerOK /\ ControlsOK(ctl) /\ ChipOK(chip)

Init ==
    /\ bound = FALSE /\ ir_led \in BOOLEAN /\ leaked = FALSE /\ wanted = FALSE
    /\ usage = 0 /\ status = "suspended"
    /\ on = [r \in Resources |-> 0] /\ pm = "idle" /\ todo = <<>> /\ why = "nobody"
    /\ ctl = FreshControls /\ chip = Blank

-----------------------------------------------------------------------------
(* Power.                                                                  *)

BeginRaise(who) == pm' = "raise" /\ todo' = OnSequence /\ why' = who /\ UNCHANGED on
BeginLower(list, who) == pm' = "lower" /\ todo' = list /\ why' = who /\ UNCHANGED on
PowerDone == pm' = "idle" /\ todo' = <<>> /\ why' = "nobody"

\* set_power_on, one resource at a time; the table of "init" resets the chip.
Raise ==
    /\ pm = "raise" /\ todo # <<>>
    /\ \/ /\ Head(todo) \in Resources
          /\ on' = [on EXCEPT ![Head(todo)] = @ + 1]
          /\ UNCHANGED chip
       \/ Head(todo) = "init" /\ chip' = Blank /\ UNCHANGED on
    /\ todo' = Tail(todo)
    /\ pm' = IF Tail(todo) = <<>> THEN "ready" ELSE "raise"
    /\ UNCHANGED <<bound, ir_led, leaked, wanted, usage, status, why, ctl>>

\* Everything but the GPIO can fail; what was switched on is taken back.
RaiseFails ==
    /\ pm = "raise" /\ todo # <<>> /\ Head(todo) # "enable"
    /\ BeginLower(Unwind(Head(todo)), why)
    /\ UNCHANGED <<bound, ir_led, leaked, wanted, usage, status, ctl, chip>>

\* One resource is switched off; the chip forgets.
Lower ==
    /\ pm = "lower" /\ todo # <<>>
    /\ on' = [on EXCEPT ![Head(todo)] = @ - 1]
    /\ todo' = Tail(todo) /\ chip' = Blank
    /\ UNCHANGED <<bound, ir_led, leaked, wanted, usage, status, pm, why, ctl>>

\* The power is off: whoever asked for it goes on.
Lowered ==
    /\ pm = "lower" /\ todo = <<>> /\ PowerDone
    /\ status' = "suspended"
    /\ usage' = IF why = "stream" THEN usage - 1 ELSE usage
    /\ bound' = (bound /\ why # "remove")
    /\ UNCHANGED <<ir_led, leaked, wanted, on, ctl, chip>>

\* Runtime PM suspends an unused device, sooner or later (autosuspend).
Suspend ==
    /\ bound /\ pm = "idle" /\ usage = 0 /\ status = "active"
    /\ BeginLower(OffSequence, "suspend")
    /\ UNCHANGED <<bound, ir_led, leaked, wanted, usage, status, ctl, chip>>

-----------------------------------------------------------------------------
(* probe and remove.                                                       *)

Probe ==
    /\ ~bound /\ ~leaked /\ pm = "idle"
    /\ BeginRaise("probe") /\ ctl' = FreshControls
    /\ UNCHANGED <<bound, ir_led, leaked, wanted, usage, status, chip>>

\* The chip answers and the subdevice is registered; init_state sets a format.
ProbeSucceeds ==
    /\ pm = "ready" /\ why = "probe" /\ PowerDone
    /\ bound' = TRUE /\ status' = "active" /\ ctl' = SetFormat(ctl)
    /\ UNCHANGED <<ir_led, leaked, wanted, usage, on, chip>>

\* Mutant: a chip that does not answer is left powered.
ChipAbsent_NoPowerOff ==
    /\ pm = "ready" /\ why = "probe" /\ PowerDone
    /\ UNCHANGED <<bound, ir_led, leaked, wanted, usage, status, on, ctl, chip>>

\* The chip does not answer, or not with its id, or one of the registers the
\* driver caches cannot be read: power off.
ChipAbsent ==
    /\ pm = "ready" /\ why = "probe" /\ BeginLower(OffSequence, "probe")
    /\ UNCHANGED <<bound, ir_led, leaked, wanted, usage, status, ctl, chip>>

\* v4l2_async_register_subdev fails: free_entity is taken, past both the
\* power-off and pm_runtime_disable.
RegistrationFails ==
    /\ pm = "ready" /\ why = "probe" /\ PowerDone /\ leaked' = TRUE
    /\ UNCHANGED <<bound, ir_led, wanted, usage, status, on, ctl, chip>>

\* The receiver has let go of the stream; powered off unless suspended.
Remove ==
    /\ bound /\ ~wanted /\ pm = "idle"
    /\ \/ status = "active" /\ BeginLower(OffSequence, "remove") /\ UNCHANGED bound
       \/ status = "suspended" /\ bound' = FALSE /\ UNCHANGED powerVars
    /\ UNCHANGED <<ir_led, leaked, wanted, usage, status, ctl, chip>>

-----------------------------------------------------------------------------
(* s_stream.                                                               *)

\* s_stream(1) takes a usage reference, and resumes the device if need be.
StreamOn ==
    /\ bound /\ ~wanted /\ pm = "idle"
    /\ usage' = usage + 1
    /\ \/ status = "suspended" /\ BeginRaise("stream")
       \/ status = "active" /\ pm' = "ready" /\ why' = "stream" /\ UNCHANGED <<on, todo>>
    /\ UNCHANGED <<bound, ir_led, leaked, wanted, status, ctl, chip>>

\* The register tables: the frame length each was written for, whatever the
\* parameters say, and whether it drives the illuminator's pad.
setting_vga_30fps == [vts |-> 1724, led |-> FALSE]
setting_vga_win == [vts |-> 522, led |-> TRUE]
setting_vga_60fps == [vts |-> 860, led |-> FALSE]
setting_vga_90fps == [vts |-> 572, led |-> FALSE]

TableOf(m) ==
    IF m = 1 /\ win_timing THEN setting_vga_win
    ELSE <<setting_vga_30fps, setting_vga_60fps, setting_vga_90fps>>[m]

pll_configure == [chip EXCEPT !.pll = link_freq_idx]

\* What the table of mode m leaves in the chip.
ModeTable(m) ==
    [pll_configure EXCEPT !.vts = TableOf(m).vts, !.led = TableOf(m).led, !.flip = FALSE]

\* ... and the handler setup, before it comes to the blanking.
InSetup(c) ==
    [ModeTable(c.mode) EXCEPT !.exposure = c.exposure, !.gain = c.gain, !.flip = c.flip]

\* The registers that hold the controls, in a chip that streams or not.
Written(c, streams, lights) ==
    [pll |-> link_freq_idx, vts |-> (HEIGHT + c.vblank) % 2^16, exposure |-> c.exposure,
     gain |-> c.gain, flip |-> c.flip, streaming |-> streams, led |-> lights]

\* The controls after a handler setup, whose last write is the blanking's: with the
\* exposure brought down into its range, or with that write refused and ignored.
AfterSetup == {HandlerSetup(ctl), Uncompensated(HandlerSetup(ctl), ctl)}

\* PLLs, mode table, all controls, then streaming, then the illuminator.
StreamStarts ==
    /\ pm = "ready" /\ why = "stream" /\ PowerDone
    /\ status' = "active" /\ wanted' = TRUE
    /\ ctl' \in AfterSetup
    /\ chip' = Written(ctl', TRUE, ir_led \/ TableOf(ctl.mode).led)
    /\ UNCHANGED <<bound, ir_led, leaked, usage, on>>

\* Mutant: the usage reference is kept when a start fails.
StreamFails_KeepsUsage ==
    /\ pm = "ready" /\ why = "stream" /\ PowerDone
    /\ status' = "active"
    /\ ctl' = HandlerSetup(ctl)
    /\ \E lights \in BOOLEAN : chip' = Written(ctl', TRUE, lights)
    /\ UNCHANGED <<bound, ir_led, leaked, wanted, usage, on>>

\* A write fails: the reference is dropped and nothing else undone.  The chip may
\* be left as it was, with the PLLs or the mode's table, with the controls but for
\* the blanking, with all of them, or streaming, when the first of the illuminator's
\* two writes may have lit it.
StreamFails ==
    /\ pm = "ready" /\ why = "stream" /\ PowerDone
    /\ status' = "active" /\ usage' = usage - 1
    /\ \/ ctl' = ctl /\ chip' \in {chip, pll_configure, ModeTable(ctl.mode), InSetup(ctl)}
       \/ ctl' \in AfterSetup /\ chip' = InSetup(ctl')
       \/ /\ ctl' \in AfterSetup
          /\ \E lights \in BOOLEAN, streams \in BOOLEAN :
                /\ lights = TableOf(ctl.mode).led \/ (lights /\ streams /\ ir_led)
                /\ chip' = Written(ctl', chip.streaming \/ streams, lights)
    /\ UNCHANGED <<bound, ir_led, leaked, wanted, on>>

\* s_stream(0): illuminator off, standby, and the reference dropped; the result
\* of the first is not looked at, that of the second only returned.  The first
\* does nothing if the parameter has been cleared since the start.
StreamOff ==
    /\ bound /\ wanted /\ pm = "idle"
    /\ wanted' = FALSE /\ usage' = usage - 1
    /\ \E streams \in BOOLEAN, lights \in BOOLEAN :
          /\ IF ir_led THEN lights => streams ELSE lights = chip.led
          /\ chip' = [chip EXCEPT !.streaming = streams, !.led = lights]
    /\ UNCHANGED <<bound, ir_led, leaked, status, powerVars, ctl>>

-----------------------------------------------------------------------------
(* Controls, format and frame interval.                                    *)

\* Mutant: controls are cached until the next start.
ToChip_Never(c) == chip

\* s_ctrl writes only to a device in use.
ToChip(c) ==
    IF InUse THEN [chip EXCEPT !.vts = (HEIGHT + c.vblank) % 2^16, !.exposure = c.exposure,
                               !.gain = c.gain, !.flip = c.flip]
    ELSE chip

\* A handler changes the controls to c, and the chip with them.
Apply(c) ==
    /\ bound /\ Unlocked
    /\ ctl' = c /\ chip' = ToChip(c)
    /\ UNCHANGED <<bound, ir_led, leaked, wanted, usage, status, powerVars>>

\* ... or the bus fails under it: the exposure range, moved first, stays moved;
\* then the exposure is not taken over, or it is and the other control is not.
ApplyFails(c) ==
    /\ bound /\ Unlocked /\ InUse
    /\ \/ /\ c.exposure # ctl.exposure
          /\ ctl' = [ctl EXCEPT !.emax = c.emax] /\ UNCHANGED chip
       \/ /\ <<c.gain, c.vblank, c.flip>> # <<ctl.gain, ctl.vblank, ctl.flip>>
          /\ ctl' = [ctl EXCEPT !.emax = c.emax, !.exposure = c.exposure]
          /\ chip' = ToChip(ctl')
    /\ UNCHANGED <<bound, ir_led, leaked, wanted, usage, status, powerVars>>

\* ... or it fails once under a change of mode, whose new range has already moved
\* the exposure when its default is not taken over.
ModeFails(c) ==
    /\ bound /\ Unlocked /\ InUse /\ c # ctl
    /\ ctl' = [ctl EXCEPT !.emax = c.emax, !.exposure = Clamp(@, 1, c.emax)]
    /\ chip' = ToChip(ctl')
    /\ UNCHANGED <<bound, ir_led, leaked, wanted, usage, status, powerVars>>

SetControl ==
    \/ \E v \in VblankChoices :
          \/ Apply(SetVblank(ctl, v)) \/ ApplyFails(SetVblank(ctl, v))
          \/ InUse /\ Apply(Uncompensated(SetVblank(ctl, v), ctl))
    \/ \E e \in ExposureChoices :
          Apply(SetExposure(ctl, e)) \/ ApplyFails(SetExposure(ctl, e))
    \/ \E g \in GainChoices : Apply(SetGain(ctl, g)) \/ ApplyFails(SetGain(ctl, g))
    \/ \E b \in BOOLEAN : Apply(SetFlip(ctl, b)) \/ ApplyFails(SetFlip(ctl, b))

EntersMode(c) == Apply(c) \/ ApplyFails(c) \/ ModeFails(c)
SetActiveFormat == EntersMode(SetFormat(ctl))
SetFrameInterval == \E m \in 1..3 : EntersMode(SetInterval(ctl, m))

\* The parameter is writable while the module is loaded; no lock is taken.
WriteParameter ==
    /\ ir_led' = ~ir_led
    /\ UNCHANGED <<bound, leaked, wanted, usage, status, powerVars, ctl, chip>>

-----------------------------------------------------------------------------
Power == Raise \/ Lower \/ Lowered

Next ==
    \/ Power \/ RaiseFails \/ Suspend
    \/ Probe \/ ProbeSucceeds \/ ChipAbsent \/ RegistrationFails \/ Remove
    \/ StreamOn \/ StreamStarts \/ StreamFails \/ StreamOff
    \/ SetControl \/ SetActiveFormat \/ SetFrameInterval \/ WriteParameter

(* What was begun is carried through, and runtime PM suspends in the end.  *)
Fairness ==
    /\ WF_vars(Power) /\ WF_vars(Suspend)
    /\ WF_vars(ProbeSucceeds \/ ChipAbsent) /\ WF_vars(StreamStarts \/ StreamFails)

Spec == Init /\ [][Next]_vars
FairSpec == Spec /\ Fairness

-----------------------------------------------------------------------------
(* Correctness.                                                            *)

\* Supplies, clock and enable line: each is on once while the device is active,
\* and off while it is suspended or unbound.  The one path that loses them is a
\* registration that fails (leaked): it leaves every one of them on.
SuppliesBalanced ==
    pm = "idle" => on = [r \in Resources |-> IF status = "active" \/ leaked THEN 1 ELSE 0]

\* The runtime PM reference is held exactly by a running stream.
UsageBalanced == pm = "idle" => usage = (IF wanted THEN 1 ELSE 0)

\* "OV7251 power up sequence requires core regulator to be enabled not earlier
\* than io regulator": at no step of any sequence, up, down or unwinding.
CoreNeedsIo == on["core"] > 0 => on["io"] > 0

\* Power is balanced on the paths through probe, remove, streaming and runtime PM,
\* and on their error paths but that of v4l2_async_register_subdev: supplies,
\* clock, enable line and usage count, with core never on without io.
PowerBalanced == SuppliesBalanced /\ UsageBalanced /\ CoreNeedsIo

\* While a stream runs the chip has the PLLs of the link frequency the receiver
\* is told and the values the controls report, whether these were set before the
\* power came up, in the autosuspend window or during the stream, and in whatever
\* order; and a chip without power is never written.
ChipFollowsControls ==
    /\ wanted => /\ chip.streaming /\ chip.pll = link_freq_idx
                 /\ chip.vts = HEIGHT + ctl.vblank
                 /\ chip.exposure = ctl.exposure
                 /\ chip.gain = ctl.gain /\ chip.flip = ctl.flip
    /\ on["enable"] = 0 => chip = Blank

\* The illuminator and the stream do not outlast their user: after a stop, and
\* after a start that failed half way, the chip goes dark, also when ir_led was
\* cleared in between, unless the next start comes first.
DarkWhenUnused ==
    (~wanted) ~> (wanted \/ why = "stream" \/ (~chip.led /\ ~chip.streaming))

-----------------------------------------------------------------------------
(* What the repository says or relies on and the code does not keep.       *)

\* "starting a stream with exposure closer than ~250 lines to VTS intermittently
\* wedges the exposure engine ... use this safer margin for the long-integration
\* vts_boost mode": with the boosted timing no stream starts there.  (One does when
\* the write of the exposure in the handler setup fails and the others do not.)
StartsOutsideMargin ==
    [][~wanted /\ wanted' /\ Boosted => chip'.exposure + 250 <= chip'.vts]_vars
=============================================================================
