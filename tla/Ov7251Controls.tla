--------------------------- MODULE Ov7251Controls ---------------------------
(***************************************************************************)
(* The V4L2 controls of the OV7251 infrared sensor and how its driver,     *)
(* src/dkms/ov7251-surface/ov7251.c, moves them: the mode table with the   *)
(* module parameters applied, and what S_FMT, the frame interval, vertical *)
(* blanking and the start of a stream do to the exposure range.  These are *)
(* functions of the controls; Ov7251 is the driver that calls them and     *)
(* IrBridge the daemon that drives them through v4l2-ctl and media-ctl.    *)
(*                                                                         *)
(* Controls are a record: mode (index of current_mode), exposure, emax (the*)
(* maximum of its range), gain, vblank, vdef (the default of vblank), and  *)
(* flip, which stands for the three on-off controls: hflip, vflip and the  *)
(* test pattern.                                                           *)
(***************************************************************************)
EXTENDS Integers, Sequences

CONSTANTS
    vts_boost,    \* module parameter: frame length of the default mode, 0 = off
    win_timing    \* module parameter: the Windows timing for the default mode

ASSUME ParametersAssumption == vts_boost \in Int /\ win_timing \in BOOLEAN

HEIGHT == 480
TIMING_MIN_VTS == 1
TIMING_MAX_VTS == 65535
INTEGRATION_MARGIN == 20
BOOST_INTEGRATION_MARGIN == 256
GAIN_DEFAULT == 16

\* exposure_max and exposure_def are in lines, fps is 100 * frames per second.
StockModes ==
    << [vts |-> 1724, exposure_max |-> 1704, exposure_def |-> 504, fps |-> 3000],
       [vts |->  860, exposure_max |->  840, exposure_def |-> 504, fps |-> 6014],
       [vts |->  572, exposure_max |->  552, exposure_def |-> 504, fps |-> 9043] >>

WinMode == [vts |-> 522, exposure_max |-> 502, exposure_def |-> 400, fps |-> 13179]

\* The parameter takes effect only inside this range.
Boosted == ~win_timing /\ vts_boost > 522 /\ vts_boost <= TIMING_MAX_VTS

BoostMode ==
    [vts |-> vts_boost, exposure_max |-> vts_boost - BOOST_INTEGRATION_MARGIN,
     exposure_def |-> 504, fps |-> (3000 * 1724) \div vts_boost]

\* The mode table after probe has applied the parameters to entry 0.
Modes ==
    [StockModes EXCEPT ![1] = IF win_timing THEN WinMode
                              ELSE IF Boosted THEN BoostMode ELSE @]

\* Exposure, its range and the blanking stay where the registers can hold them, in
\* lines, and the blanking's default is that of the default mode.
ControlsOK(c) ==
    /\ c \in [mode : 1..3, exposure : Int, emax : Int, gain : Int, flip : BOOLEAN,
              vblank : Int, vdef : Int]
    /\ 1 <= c.exposure /\ c.exposure <= TIMING_MAX_VTS
    /\ 1 <= c.emax /\ c.emax <= TIMING_MAX_VTS
    /\ TIMING_MIN_VTS <= c.vblank /\ c.vblank <= TIMING_MAX_VTS - HEIGHT
    /\ 16 <= c.gain /\ c.gain <= 1023
    /\ c.vdef = Modes[1].vts - HEIGHT

-----------------------------------------------------------------------------
\* The V4L2 core rounds a value into a control's range.
Clamp(v, lo, hi) == IF v < lo THEN lo ELSE IF v > hi THEN hi ELSE v

\* ... and refuses a range whose default lies outside it.
RangeOK(mode) == Modes[mode].exposure_def <= Modes[mode].exposure_max

\* The controls of a driver that has just been probed, before init_state.
FreshControls ==
    [mode |-> 1, exposure |-> 32, emax |-> 32, gain |-> GAIN_DEFAULT, flip |-> FALSE,
     vblank |-> Modes[1].vts - HEIGHT, vdef |-> Modes[1].vts - HEIGHT]

\* The margin s_ctrl keeps between exposure and frame length.
Margin == IF vts_boost # 0 /\ ~win_timing THEN BOOST_INTEGRATION_MARGIN
          ELSE INTEGRATION_MARGIN

\* s_ctrl, VBLANK: the exposure range follows the blanking, and takes the
\* exposure down with it.
Compensated(c) ==
    LET max == HEIGHT + c.vblank - Margin
    IN  [c EXCEPT !.emax = max, !.exposure = Clamp(@, 1, max)]

\* Setting vertical_blanking; the core calls s_ctrl only for a new value.
SetVblank(c, v) ==
    LET new == Clamp(v, TIMING_MIN_VTS, TIMING_MAX_VTS - HEIGHT)
    IN  IF new = c.vblank THEN c ELSE Compensated([c EXCEPT !.vblank = new])

\* ... whose compensation writes the exposure to a sensor in use.  When the bus
\* refuses that, the exposure stays, its range has moved, and s_ctrl, which does
\* not look at the result, goes on to the blanking.
Uncompensated(new, old) == [new EXCEPT !.exposure = old.exposure]

SetExposure(c, e) == [c EXCEPT !.exposure = Clamp(e, 1, c.emax)]

SetGain(c, g) == [c EXCEPT !.gain = Clamp(g, 16, 1023)]

SetFlip(c, b) == [c EXCEPT !.flip = b]

\* The exposure range, the exposure and the gain of a mode that is selected.
EnterMode(c, m) ==
    [c EXCEPT !.mode = m, !.emax = Modes[m].exposure_max,
              !.exposure = Modes[m].exposure_def, !.gain = GAIN_DEFAULT]

\* S_FMT: every mode is 640x480, so the nearest size is always entry 0; the
\* default of the blanking follows, its value stays.
SetFormat(c) ==
    IF RangeOK(1) THEN [EnterMode(c, 1) EXCEPT !.vdef = Modes[1].vts - HEIGHT] ELSE c

\* S_FRAME_INTERVAL: another mode of the same size, the blanking stays.
SetInterval(c, m) ==
    IF m # c.mode /\ RangeOK(m) THEN EnterMode(c, m) ELSE c

\* __v4l2_ctrl_handler_setup: s_ctrl is called for every control, so that the
\* exposure range follows the blanking once more.
HandlerSetup(c) == Compensated(c)
=============================================================================
