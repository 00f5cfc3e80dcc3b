------------------------------- MODULE Ov5693 -------------------------------
(***************************************************************************)
(* The driver of the front sensor, src/dkms/ov5693-surface/ov5693.c: probe *)
(* and remove, power with its error path, runtime PM, s_stream, the crop   *)
(* rectangle and the format with 2x2 binning, and the controls that depend *)
(* on them (vertical blanking, exposure, vertical flip).                   *)
(*                                                                         *)
(* What lies under the driver's lock is one step, but for the setup of the *)
(* controls in s_stream, which is two: it reads the format's height twice, *)
(* and the format is changed without the lock, by the first half of        *)
(* set_fmt and by set_selection.  (Setting the blanking and the second     *)
(* half of set_fmt also read it more than once; here they read it once.)   *)
(* s_stream resumes the sensor before it takes the lock.  The readout mode *)
(* reaches the chip only when it is resumed.                               *)
(*                                                                         *)
(* Of the horizontal dimension, whose crop, ratio and flip are made in the *)
(* same statements as the vertical ones, only what the vertical one        *)
(* depends on is here, and chosen freely: whether it is binned, and        *)
(* whether a new rectangle has another width.  The gains and the test      *)
(* pattern are left out.                                                   *)
(***************************************************************************)
EXTENDS Integers

CONSTANTS
    Callers,          \* bound: applications that can be inside set_fmt at once
    HeightChoices,    \* formats applications ask for
    CropChoices,      \* rectangles they ask for
    VblankChoices, ExposureChoices

ASSUME Ov5693Assumption ==
    /\ HeightChoices \cup VblankChoices \cup ExposureChoices \subseteq Nat
    /\ \A r \in CropChoices : r.top \in Int /\ r.height \in Nat

VARIABLES
    bound,     \* probe succeeded, remove was not called yet
    wanted,    \* the receiver driver has started a stream and not stopped it
    stage,     \* where s_stream(1) is, "idle" when nobody is in it; in "frame" it
               \* has the lock and moved the exposure's range, not written the frame
    usage,     \* the runtime PM usage count
    status,    \* the runtime PM status
    parked,    \* the last reference was dropped without asking for a suspend
    on,        \* resource -> how often it is enabled
    mode,      \* the active crop, format and binning
    call,      \* caller -> the ratio its set_fmt has computed, or NoCall, or how it died
    ctl,       \* the controls
    chip       \* the chip's registers

pmVars == <<stage, usage, status, parked, on>>
vars == <<bound, wanted, pmVars, mode, call, ctl, chip>>

-----------------------------------------------------------------------------
NATIVE_HEIGHT == 1956
FIXED_PPL == 2688
PIXEL_RATE == 167680000
TIMING_MIN_VTS == 4
TIMING_MAX_VTS == 65535
INTEGRATION_TIME_MARGIN == 8

Lesser(a, b) == IF a < b THEN a ELSE b
Greater(a, b) == IF a > b THEN a ELSE b
Clamp(v, lo, hi) == Lesser(Greater(v, lo), hi)
AlignUp(n) == 2 * ((n + 1) \div 2)

\* __ov5693_calc_vts: a frame length for a multiple of 30 fps, at most 30.
calc_vts(height) ==
    LET lines == PIXEL_RATE \div FIXED_PPL
        fps == Lesser(30 * ((lines \div height) \div 30), 30)
    IN  2 * ((lines \div fps) \div 2)

DefaultMode ==
    [crop |-> [top |-> 6, height |-> 1944], height |-> 1944, binning_x |-> FALSE,
     binning_y |-> FALSE]

\* The controls as init_controls makes them for the default mode.
DefaultControls ==
    LET vts == calc_vts(1944)
    IN  [exposure |-> vts - INTEGRATION_TIME_MARGIN, emax |-> vts - INTEGRATION_TIME_MARGIN,
         vblank |-> vts - 1944, vmax |-> TIMING_MAX_VTS - 1944,
         vflip |-> FALSE]

\* A chip that has power, and nothing written to it yet.
Blank == [readout |-> "none", vts |-> 0, exposure |-> 0, vflip |-> "none",
          streaming |-> FALSE]

Resources == {"xvclk", "supplies", "unreset"}
AllOff == [r \in Resources |-> 0]

NoCall == 0
Died == 3        \* in a division by zero: the kernel kills the caller
DiedLocked == 4  \* with the driver's lock, which nobody gets again

\* The driver's lock, which is also the one of the control handler.
LockFree == stage # "frame" /\ \A c \in Callers : call[c] # DiedLocked

\* pm_runtime_get_if_in_use
InUse == usage > 0 /\ status = "active"

FlagsOK == bound \in BOOLEAN /\ wanted \in BOOLEAN /\ parked \in BOOLEAN

PowerOK ==
    /\ stage \in {"idle", "resume", "setup", "frame"}
    /\ usage \in 0..1 /\ status \in {"suspended", "active"}
    /\ on \in [Resources -> 0..1]

\* The rectangle is inside the array.  It may be empty, as may the format.
ModeOK ==
    /\ mode \in [crop : [top : 0..NATIVE_HEIGHT, height : 0..NATIVE_HEIGHT],
                 height : 0..NATIVE_HEIGHT, binning_x : BOOLEAN, binning_y : BOOLEAN]
    /\ mode.crop.top + mode.crop.height <= NATIVE_HEIGHT
    /\ call \in [Callers -> NoCall..DiedLocked]

ControlsOK(c) ==
    /\ c \in [exposure : Int, emax : Int, vblank : Int, vmax : Int, vflip : BOOLEAN]
    /\ c.exposure >= 1 /\ c.emax >= 1
    /\ TIMING_MIN_VTS <= c.vblank /\ c.vblank <= TIMING_MAX_VTS
    /\ TIMING_MAX_VTS - NATIVE_HEIGHT <= c.vmax /\ c.vmax <= TIMING_MAX_VTS

ChipOK(c) ==
    /\ c \in [readout : {"none", "full", "binned"}, vts : Int, exposure : Int,
              vflip : {"none", "sensor", "both"}, streaming : BOOLEAN]
    /\ 0 <= c.vts /\ c.vts < 2^16 /\ 0 <= c.exposure /\ c.exposure < 2^16

TypeOK == FlagsOK /\ PowerOK /\ ModeOK /\ ControlsOK(ctl) /\ ChipOK(chip)

Init ==
    /\ bound = FALSE /\ wanted = FALSE /\ stage = "idle"
    /\ usage = 0 /\ status = "suspended" /\ parked = FALSE /\ on = AllOff
    /\ mode = DefaultMode /\ call = [c \in Callers |-> NoCall]
    /\ ctl = DefaultControls /\ chip = Blank

-----------------------------------------------------------------------------
(* Power.                                                                  *)

\* The clock and regulator frameworks refuse to count below zero.
Drop(n) == IF n > 0 THEN n - 1 ELSE 0

sensor_powerdown(o) ==
    [xvclk |-> Drop(o["xvclk"]), supplies |-> Drop(o["supplies"]), unreset |-> 0]

\* What sensor_powerup leaves behind when it succeeds ...
PoweredUp(o) == [xvclk |-> o["xvclk"] + 1, supplies |-> o["supplies"] + 1, unreset |-> 1]

\* Mutant: the error path leaves the clock on.
PowerUpFailed_KeepsClock(o) ==
    {sensor_powerdown(o), [o EXCEPT !["xvclk"] = @ + 1]}

\* ... and when the clock or a supply fails: in both cases the error path takes
\* back clock and supplies, also what was not switched on.
PowerUpFailed(o) ==
    {sensor_powerdown(o), sensor_powerdown([o EXCEPT !["xvclk"] = @ + 1])}

\* Probe powers the sensor up and reads its identity; it stays on, without its
\* register tables, until runtime PM suspends it.
Probe ==
    /\ ~bound
    /\ mode' = DefaultMode /\ ctl' = DefaultControls
    /\ \/ /\ bound' = TRUE /\ status' = "active" /\ parked' = FALSE
          /\ on' = PoweredUp(on) /\ chip' = Blank
       \/ /\ on' \in PowerUpFailed(on) \cup {sensor_powerdown(PoweredUp(on))}
          /\ UNCHANGED <<bound, status, parked, chip>>
    /\ UNCHANGED <<wanted, stage, usage, call>>

\* The receiver has let go of the stream and nobody is inside set_fmt; freeing the
\* controls takes the lock.
Remove ==
    /\ bound /\ ~wanted /\ stage = "idle" /\ \A c \in Callers : call[c] \in {NoCall, Died}
    /\ bound' = FALSE /\ status' = "suspended" /\ chip' = Blank
    /\ on' = IF status = "active" THEN sensor_powerdown(on) ELSE on
    /\ UNCHANGED <<wanted, stage, usage, parked, mode, call, ctl>>

\* Runtime PM suspends a device whose last user asked for it.
Suspend ==
    /\ bound /\ usage = 0 /\ status = "active" /\ ~parked
    /\ status' = "suspended" /\ on' = sensor_powerdown(on) /\ chip' = Blank
    /\ UNCHANGED <<bound, wanted, stage, usage, parked, mode, call, ctl>>

-----------------------------------------------------------------------------
(* The registers.                                                          *)

\* What mode_configure sets the chip to: of its registers, the tables with the
\* PLL and the analogue timing.
Readout == IF mode.binning_x \/ mode.binning_y THEN "binned" ELSE "full"

\* The bits of a vertical flip, which depend on the readout mode.
flip_vert_bits(enable) ==
    IF ~enable THEN "none" ELSE IF mode.binning_y THEN "sensor" ELSE "both"

Control == {"exposure", "vblank", "vflip"}

\* Mutant: controls are cached until the next start.
Written_Not(c, S) ==
    IF S # Control THEN chip
    ELSE [chip EXCEPT !.exposure = c.exposure, !.vts = mode.height + c.vblank,
                      !.vflip = flip_vert_bits(c.vflip)]

\* The chip after exposure_configure, vts_configure and flip_vert_configure, as
\* far as they are called: for the controls in S.
Written(c, S) ==
    [chip EXCEPT !.exposure = IF "exposure" \in S THEN c.exposure % 2^16 ELSE @,
                 !.vts = IF "vblank" \in S THEN (mode.height + c.vblank) % 2^16 ELSE @,
                 !.vflip = IF "vflip" \in S THEN flip_vert_bits(c.vflip) ELSE @]

\* What matters of the chip once s_stream is done with it: the registers of the
\* controls are all written again by the next start.
Left(streams) == [Blank EXCEPT !.readout = chip.readout, !.streaming = streams]

\* s_ctrl, VBLANK: the exposure range follows the frame length, and takes the
\* exposure with it; the core refuses an empty range.
Compensated(c) ==
    LET exposure_max == mode.height + c.vblank - INTEGRATION_TIME_MARGIN
    IN  IF exposure_max < 1 THEN c
        ELSE [c EXCEPT !.emax = exposure_max, !.exposure = Lesser(@, exposure_max)]

\* The controls change to c.  s_ctrl writes those that differ, unless the device
\* is not in use.  The ones outside S keep their value because the bus failed;
\* nobody looks at that, and the ranges have moved all the same.
Apply(c) ==
    LET changed == {f \in Control : c[f] # ctl[f]}
    IN  \E S \in SUBSET changed :
           /\ InUse \/ S = changed
           /\ ctl' = [f \in DOMAIN ctl |-> IF f \in changed \ S THEN ctl[f] ELSE c[f]]
           /\ chip' = IF InUse THEN Written(c, S) ELSE chip

-----------------------------------------------------------------------------
(* s_stream.                                                               *)

\* pm_runtime_resume_and_get: a suspended sensor is resumed first.
StreamOn ==
    /\ bound /\ ~wanted /\ stage = "idle"
    /\ usage' = usage + 1
    /\ stage' = IF status = "active" THEN "setup" ELSE "resume"
    /\ UNCHANGED <<bound, wanted, status, parked, on, mode, call, ctl, chip>>

\* The global table: the flip off, exposure and frame length not touched.
global_regs == [Blank EXCEPT !.vflip = "none"]

\* sensor_init after the reset: the global table, then the readout mode, which
\* writes the flip only when it is set.
sensor_init ==
    [global_regs EXCEPT !.readout = Readout,
                        !.vflip = IF ctl.vflip THEN flip_vert_bits(TRUE) ELSE @]

\* sensor_resume: power and sensor_init.
Resume ==
    /\ stage = "resume" /\ LockFree
    /\ stage' = "setup" /\ status' = "active" /\ on' = PoweredUp(on)
    /\ chip' = sensor_init
    /\ UNCHANGED <<bound, wanted, usage, parked, mode, call, ctl>>

\* Power or a table fails: what is on goes off, the reference is dropped.
ResumeFails ==
    /\ stage = "resume" /\ LockFree
    /\ stage' = "idle" /\ usage' = usage - 1
    /\ on' \in PowerUpFailed(on) \cup {sensor_powerdown(PoweredUp(on))}
    /\ UNCHANGED <<bound, wanted, status, parked, mode, call, ctl, chip>>

\* The controls after handler_setup: the exposure may not have followed its
\* range, as s_ctrl ignores the error of a bus that fails there.
HandlerSetup ==
    {Compensated(ctl), [Compensated(ctl) EXCEPT !.exposure = ctl.exposure]}

\* __v4l2_ctrl_handler_setup calls s_ctrl for every control; for the blanking it
\* moves the exposure's range to the height of now ...
SetupBegins ==
    /\ stage = "setup" /\ LockFree
    /\ stage' = "frame" /\ ctl' \in HandlerSetup
    /\ UNCHANGED <<bound, wanted, usage, status, parked, on, mode, call, chip>>

\* ... and then writes the frame length, from the height of now.  All controls
\* written, the stream is switched on.
StreamStarts ==
    /\ stage = "frame"
    /\ stage' = "idle" /\ wanted' = TRUE
    /\ chip' = [Written(ctl, Control) EXCEPT !.streaming = TRUE]
    /\ UNCHANGED <<bound, usage, status, parked, on, mode, call, ctl>>

\* A write fails, before the blanking or after: pm_runtime_put_noidle drops the
\* reference, and asks nobody to suspend the sensor.
StreamFails ==
    /\ (stage = "setup" /\ LockFree) \/ stage = "frame"
    /\ stage' = "idle" /\ usage' = usage - 1 /\ parked' = TRUE
    /\ chip' = Left(chip.streaming)
    /\ UNCHANGED <<bound, wanted, status, on, mode, call, ctl>>

\* Mutant: the reference is not dropped.
StreamOff_KeepsUsage ==
    /\ wanted /\ wanted' = FALSE
    /\ chip' = [chip EXCEPT !.streaming = FALSE]
    /\ UNCHANGED <<bound, pmVars, mode, call, ctl>>

\* s_stream(0): standby, and the reference goes; if the write fails, again
\* without asking for a suspend, and the sensor streams on.
StreamOff ==
    /\ wanted /\ LockFree
    /\ wanted' = FALSE /\ usage' = usage - 1
    /\ \/ parked' = FALSE /\ chip' = Left(FALSE)
       \/ parked' = TRUE /\ chip' = Left(chip.streaming)
    /\ UNCHANGED <<bound, stage, status, on, mode, call, ctl>>

-----------------------------------------------------------------------------
(* Controls.                                                               *)

SetVblank(v) ==
    LET new == Clamp(v, TIMING_MIN_VTS, ctl.vmax)
    IN  IF new = ctl.vblank THEN ctl ELSE Compensated([ctl EXCEPT !.vblank = new])

SetExposure(e) == [ctl EXCEPT !.exposure = Clamp(e, 1, ctl.emax)]

\* S_CTRL.
SetControl ==
    /\ bound /\ LockFree
    /\ \E c \in {SetVblank(v) : v \in VblankChoices}
                  \cup {SetExposure(e) : e \in ExposureChoices}
                  \cup {[ctl EXCEPT !.vflip = ~@]} : Apply(c)
    /\ UNCHANGED <<bound, wanted, pmVars, mode, call>>

-----------------------------------------------------------------------------
(* Format and crop.                                                        *)

\* How often the asked size goes into the crop's: once, or twice (binned).
Ratio(size, asked) ==
    LET s == Clamp(AlignUp(asked), 2, size)
    IN  Clamp((size + s \div 2) \div s, 1, 2)

\* set_fmt up to the lock: the active format is changed at once.  An empty
\* rectangle clamps the size to zero, which is then divided by.
SetFmtBegins(c) ==
    /\ bound /\ call[c] = NoCall
    /\ \/ /\ mode.crop.height = 0
          /\ call' = [call EXCEPT ![c] = Died] /\ mode' = mode
       \/ /\ mode.crop.height > 0
          /\ \E asked \in HeightChoices :
                LET vratio == Ratio(mode.crop.height, asked)
                IN  /\ call' = [call EXCEPT ![c] = vratio]
                    /\ mode' = [mode EXCEPT !.height = mode.crop.height \div vratio]
    /\ UNCHANGED <<bound, wanted, pmVars, ctl, chip>>

\* The blanking's range and value follow the height, then the exposure's range
\* the frame length.
FormatControls ==
    LET vts == calc_vts(mode.height)
        top == vts - INTEGRATION_TIME_MARGIN
        blank == vts - mode.height
        ranged == [ctl EXCEPT !.vmax = TIMING_MAX_VTS - mode.height]
        c == IF blank = ctl.vblank THEN ranged
             ELSE Compensated([ranged EXCEPT !.vblank = blank])
    IN  [c EXCEPT !.emax = top, !.exposure = Lesser(@, top)]

\* The binning set_fmt records: the vertical one is the ratio it computed.
Binned(vratio) ==
    {[mode EXCEPT !.binning_x = x, !.binning_y = vratio > 1] : x \in BOOLEAN}

\* The rest of set_fmt, under the lock.  The format may have become empty since:
\* calc_vts divides by its height.
SetFmtEnds(c) ==
    /\ call[c] \in 1..2 /\ LockFree
    /\ mode' \in Binned(call[c])
    /\ \/ /\ mode.height = 0
          /\ call' = [call EXCEPT ![c] = DiedLocked] /\ UNCHANGED <<ctl, chip>>
       \/ /\ mode.height > 0
          /\ call' = [call EXCEPT ![c] = NoCall] /\ Apply(FormatControls)
    /\ UNCHANGED <<bound, wanted, pmVars>>

\* Mutant: the rectangle may leave the array.
Rect_Unbounded(r) ==
    [top |-> Clamp(AlignUp(r.top), 0, NATIVE_HEIGHT),
     height |-> Clamp(AlignUp(r.height), 2, NATIVE_HEIGHT)]

\* The rectangle set_selection makes of r: even, and inside the array.
Rect(r) ==
    LET top == Clamp(AlignUp(r.top), 0, NATIVE_HEIGHT)
    IN  [top |-> top,
         height |-> Lesser(Clamp(AlignUp(r.height), 2, NATIVE_HEIGHT), NATIVE_HEIGHT - top)]

\* set_selection: a rectangle of another size, in either dimension, resets the
\* format's size.
SetSelection ==
    /\ bound
    /\ \E r \in {Rect(s) : s \in CropChoices}, wider \in BOOLEAN :
          mode' = IF r.height = mode.crop.height /\ ~wider THEN [mode EXCEPT !.crop = r]
                  ELSE [mode EXCEPT !.crop = r, !.height = r.height]
    /\ UNCHANGED <<bound, wanted, pmVars, call, ctl, chip>>

-----------------------------------------------------------------------------
Next ==
    \/ Probe \/ Remove \/ Suspend
    \/ StreamOn \/ Resume \/ ResumeFails
    \/ SetupBegins \/ StreamStarts \/ StreamFails \/ StreamOff
    \/ SetControl \/ SetSelection
    \/ \E c \in Callers : SetFmtBegins(c) \/ SetFmtEnds(c)

(* A start that was begun is carried through, and runtime PM suspends.     *)
Fairness ==
    /\ WF_vars(Suspend)
    /\ WF_vars(Resume \/ ResumeFails) /\ WF_vars(SetupBegins \/ StreamStarts \/ StreamFails)

Spec == Init /\ [][Next]_vars
FairSpec == Spec /\ Fairness

-----------------------------------------------------------------------------
(* Correctness.                                                            *)

\* Clock, supplies and reset line are balanced on every path: the sensor is
\* powered exactly while it is bound and active, although the error path of
\* sensor_powerup takes back more than was switched on.
SuppliesBalanced ==
    on = IF bound /\ status = "active" THEN [r \in Resources |-> 1] ELSE AllOff

\* The usage reference is held exactly by a running stream or its start.
UsageBalanced == usage = (IF wanted \/ stage # "idle" THEN 1 ELSE 0)

\* What powers the sensor is counted right on every path of probe, s_stream,
\* runtime PM and remove, the failing ones included.
PowerBalanced == SuppliesBalanced /\ UsageBalanced

\* While a stream runs the chip has the exposure and the flip the controls
\* report, whatever was set before, in the autosuspend window, between resume
\* and setup, or during the stream.
ChipFollowsControls ==
    wanted /\ chip.streaming =>
       /\ chip.exposure = ctl.exposure % 2^16
       /\ (chip.vflip # "none") = ctl.vflip

\* An unused sensor is suspended in the end, unless the last s_stream failed.
UnusedIsSuspended ==
    [](~parked) => []<>(wanted \/ stage # "idle" \/ ~bound \/ status = "suspended")

-----------------------------------------------------------------------------
(* What the repository says or relies on and the code does not keep.       *)

\* "this will leave the chip on, so that streaming will work" and "PLL and
\* analogue readout timing follow the readout mode": a stream starts on a chip
\* that has been set up, for the readout mode of the active format.
StreamsInMode ==
    [][~wanted /\ wanted' => chip'.readout = Readout]_vars

\* "Protect against concurrent changes to controls" and "If VBLANK is altered we
\* need to update exposure to compensate": a stream whose exposure is in the range
\* the control reports, and whose frame length is one the register holds, starts
\* with an exposure shorter than its frame.
StartsWithinFrame ==
    [][~wanted /\ wanted' /\ mode.height + ctl.vblank \in 9..TIMING_MAX_VTS
                          /\ ctl.exposure <= ctl.emax
       => chip'.exposure + INTEGRATION_TIME_MARGIN <= chip'.vts]_vars

\* "Clamp the boundaries of the crop rectangle", not below OV5693_MIN_CROP_HEIGHT:
\* no rectangle an application asks for kills the one that sets a format.
NobodyDies == \A c \in Callers : call[c] \notin {Died, DiedLocked}

\* "We can only support setting either the dimensions of the crop rect or those
\* dimensions binned": with nobody inside set_fmt, a stream starts with the output
\* size its binning makes of the rectangle.
SizeMatchesBinning ==
    [][~wanted /\ wanted' /\ (\A c \in Callers : call[c] = NoCall)
       => mode.height = mode.crop.height \div (IF mode.binning_y THEN 2 ELSE 1)]_vars
=============================================================================
