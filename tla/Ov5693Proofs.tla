---------------------------- MODULE Ov5693Proofs ----------------------------
(***************************************************************************)
(* Proofs about the front sensor's driver, for any number of callers inside*)
(* set_fmt and for whatever formats, rectangles, blankings and exposures   *)
(* applications ask for.                                                   *)
(***************************************************************************)
EXTENDS Ov5693, TLAPS

\* Where s_stream, runtime PM and the binding are with respect to each other.
Phases ==
    /\ stage = "resume" => bound /\ status = "suspended"
    /\ stage \in {"setup", "frame"} => bound /\ status = "active"
    /\ wanted => bound /\ status = "active" /\ stage = "idle"
    /\ ~bound => status = "suspended"

PowerInv == PowerOK /\ Phases /\ PowerBalanced

-----------------------------------------------------------------------------
(* Power.                                                                  *)

\* What sensor_powerup and sensor_powerdown make of a sensor that is off, or on:
\* the error path takes back more than was switched on, and the counts still
\* end where they were.
LEMMA PowerSteps ==
    /\ PoweredUp(AllOff) = [r \in Resources |-> 1]
    /\ sensor_powerdown(PoweredUp(AllOff)) = AllOff
    /\ sensor_powerdown([r \in Resources |-> 1]) = AllOff
    /\ PowerUpFailed(AllOff) = {AllOff}
<1>1. PoweredUp(AllOff) = [r \in Resources |-> 1]
  BY DEF AllOff, Resources, PoweredUp
<1>2. sensor_powerdown([r \in Resources |-> 1]) = AllOff
  BY DEF AllOff, Resources, sensor_powerdown, Drop
<1>3. sensor_powerdown(AllOff) = AllOff
  BY DEF AllOff, Resources, sensor_powerdown, Drop
<1>4. sensor_powerdown([AllOff EXCEPT !["xvclk"] = @ + 1]) = AllOff
  BY DEF AllOff, Resources, sensor_powerdown, Drop
<1>5. PowerUpFailed(AllOff) = {AllOff}
  BY <1>3, <1>4 DEF PowerUpFailed
<1> QED BY <1>1, <1>2, <1>5

\* The error path of probe and resume leaves a sensor that was off, off.
LEMMA PowerFailures ==
    \A o : o \in PowerUpFailed(AllOff) \cup {sensor_powerdown(PoweredUp(AllOff))} => o = AllOff
  BY PowerSteps

\* Nothing else than these changes power or usage.
LEMMA PowerKept ==
    ASSUME PowerInv, UNCHANGED <<bound, wanted, stage, usage, status, on>>
    PROVE  PowerInv'
  BY DEF PowerInv, PowerOK, Phases, PowerBalanced, SuppliesBalanced, UsageBalanced

\* Power and usage stay balanced in every step.
LEMMA PowerNext == ASSUME PowerInv, [Next]_vars PROVE PowerInv'
<1> USE DEF PowerInv, PowerOK, Phases, PowerBalanced, UsageBalanced
<1>0. /\ [r \in Resources |-> 1] \in [Resources -> 0..1] /\ AllOff \in [Resources -> 0..1]
      /\ bound /\ status = "active" => on = [r \in Resources |-> 1]
      /\ ~(bound /\ status = "active") => on = AllOff
  BY DEF AllOff, SuppliesBalanced
<1>1. CASE Probe
  <2>1. on = AllOff
    BY <1>0, <1>1 DEF Probe
  <2> QED BY <1>0, <1>1, <2>1, PowerSteps, PowerFailures DEF Probe, SuppliesBalanced
<1>2. CASE Remove
  BY <1>0, <1>2, PowerSteps DEF Remove, SuppliesBalanced
<1>3. CASE Suspend
  BY <1>0, <1>3, PowerSteps DEF Suspend, SuppliesBalanced
<1>4. CASE StreamOn
  BY <1>4 DEF StreamOn, SuppliesBalanced
<1>5. CASE Resume
  BY <1>0, <1>5, PowerSteps DEF Resume, SuppliesBalanced
<1>6. CASE ResumeFails
  <2>1. on = AllOff
    BY <1>0, <1>6 DEF ResumeFails
  <2> QED BY <1>0, <1>6, <2>1, PowerFailures DEF ResumeFails, SuppliesBalanced
<1>7. CASE SetupBegins \/ StreamStarts
  BY <1>7 DEF SetupBegins, StreamStarts, SuppliesBalanced
<1>8. CASE StreamFails
  BY <1>8 DEF StreamFails, SuppliesBalanced
<1>9. CASE StreamOff
  BY <1>9 DEF StreamOff, SuppliesBalanced
<1>10. CASE SetControl \/ SetSelection
  BY <1>10, PowerKept DEF SetControl, SetSelection, pmVars
<1>11. ASSUME NEW c \in Callers, SetFmtBegins(c) \/ SetFmtEnds(c) PROVE PowerInv'
  BY <1>11, PowerKept DEF SetFmtBegins, SetFmtEnds, pmVars
<1>12. CASE UNCHANGED vars
  BY <1>12, PowerKept DEF vars, pmVars
<1> QED
  BY <1>1, <1>2, <1>3, <1>4, <1>5, <1>6, <1>7, <1>8, <1>9, <1>10, <1>11, <1>12 DEF Next

\* The sensor starts unbound and off.
LEMMA PowerInit == Init => PowerInv
  BY DEF Init, PowerInv, PowerOK, Phases, PowerBalanced, SuppliesBalanced, UsageBalanced,
         AllOff

\* Clock, supplies, reset line and usage count are balanced on every path of probe,
\* s_stream, runtime PM and remove, the failing ones included.
THEOREM PowerIsBalanced == Spec => []PowerBalanced
<1>1. PowerInv => PowerBalanced
  BY DEF PowerInv
<1> QED BY <1>1, PowerInit, PowerNext, PTL DEF Spec

-----------------------------------------------------------------------------
(* Format and crop.                                                        *)

USE DEF NATIVE_HEIGHT, TIMING_MIN_VTS, TIMING_MAX_VTS, INTEGRATION_TIME_MARGIN

\* __ov5693_calc_vts divides by the height and then by a multiple of 30 fps: for
\* every height the array has neither is zero, and the rate is always 30.
LEMMA FrameLength == ASSUME NEW height \in 1..NATIVE_HEIGHT PROVE calc_vts(height) = 2078
<1> DEFINE lines == PIXEL_RATE \div FIXED_PPL
           rate == (lines \div height) \div 30
<1> HIDE DEF NATIVE_HEIGHT
<1>0. height \in Int /\ 1 <= height /\ height <= 1956
  BY DEF NATIVE_HEIGHT
<1>1. lines = 62380
  BY DEF PIXEL_RATE, FIXED_PPL
<1>2. lines \div height >= 31 /\ lines \div height \in Nat
  BY <1>0, <1>1
<1>3. rate >= 1 /\ rate \in Nat
  BY <1>2
<1> HIDE DEF lines, rate
<1>4. Lesser(30 * rate, 30) = 30
  BY <1>3 DEF Lesser
<1>5. calc_vts(height) = 2 * ((lines \div Lesser(30 * rate, 30)) \div 2)
  BY DEF calc_vts, lines, rate
<1> QED BY <1>1, <1>4, <1>5

\* The rectangle set_selection makes of any request is inside the array.
LEMMA RectInside ==
    ASSUME NEW r, r.top \in Int, r.height \in Nat
    PROVE  /\ Rect(r) \in [top : 0..NATIVE_HEIGHT, height : 0..NATIVE_HEIGHT]
           /\ Rect(r).top + Rect(r).height <= NATIVE_HEIGHT
<1> HIDE DEF NATIVE_HEIGHT
<1>0. NATIVE_HEIGHT \in Int /\ NATIVE_HEIGHT >= 2
  BY DEF NATIVE_HEIGHT
<1>1. PICK t \in Int : t = r.top
  OBVIOUS
<1>2. PICK h \in Nat : h = r.height
  OBVIOUS
<1> DEFINE from == AlignUp(t)
           asked == AlignUp(h)
<1>3. from \in Int /\ asked \in Int
  BY DEF AlignUp
<1>4. Rect(r) = [top |-> Clamp(from, 0, NATIVE_HEIGHT),
                 height |-> Lesser(Clamp(asked, 2, NATIVE_HEIGHT),
                                   NATIVE_HEIGHT - Clamp(from, 0, NATIVE_HEIGHT))]
  BY <1>1, <1>2 DEF Rect
<1> HIDE DEF from, asked
<1>5. Clamp(from, 0, NATIVE_HEIGHT) \in 0..NATIVE_HEIGHT
      /\ Clamp(asked, 2, NATIVE_HEIGHT) \in 2..NATIVE_HEIGHT
  BY <1>0, <1>3 DEF Clamp, Lesser, Greater
<1>6. PICK height \in 2..NATIVE_HEIGHT : height = Clamp(asked, 2, NATIVE_HEIGHT)
  BY <1>5
<1>12. PICK top \in 0..NATIVE_HEIGHT : top = Clamp(from, 0, NATIVE_HEIGHT)
  BY <1>5
<1>7. Rect(r) = [top |-> top, height |-> Lesser(height, NATIVE_HEIGHT - top)]
  BY <1>4, <1>6, <1>12
<1>8. /\ Lesser(height, NATIVE_HEIGHT - top) \in 0..NATIVE_HEIGHT
      /\ top + Lesser(height, NATIVE_HEIGHT - top) <= NATIVE_HEIGHT
  BY <1>0, <1>6, <1>12 DEF Lesser
<1>10. PICK m \in 0..NATIVE_HEIGHT : m = Lesser(height, NATIVE_HEIGHT - top)
  BY <1>8
<1>11. Rect(r) = [top |-> top, height |-> m] /\ top + m <= NATIVE_HEIGHT
  BY <1>7, <1>8, <1>10
<1> QED BY <1>10, <1>11, <1>12

Rectangle == [top : 0..NATIVE_HEIGHT, height : 0..NATIVE_HEIGHT]
ModeType ==
    [crop : Rectangle, height : 0..NATIVE_HEIGHT, binning_x : BOOLEAN, binning_y : BOOLEAN]

\* What the callers may ask of set_selection and set_fmt.
LEMMA ChoicesTyped ==
    /\ HeightChoices \subseteq Nat
    /\ \A s \in CropChoices : s.top \in Int /\ s.height \in Nat
  BY Ov5693Assumption

\* The ratio of a crop that is not empty to the format asked for is one or two.
LEMMA RatioFacts ==
    ASSUME NEW size \in 1..NATIVE_HEIGHT, NEW asked \in Nat
    PROVE  Ratio(size, asked) \in 1..2 /\ size \div Ratio(size, asked) \in 0..NATIVE_HEIGHT
<1> HIDE DEF NATIVE_HEIGHT
<1>0. NATIVE_HEIGHT = 1956
  BY DEF NATIVE_HEIGHT
<1> DEFINE s == Clamp(AlignUp(asked), 2, size)
<1>1. s \in 1..size
  BY <1>0 DEF Clamp, Lesser, Greater, AlignUp
<1> HIDE DEF s
<1>2. (size + s \div 2) \div s \in Int
  BY <1>0, <1>1
<1>3. Ratio(size, asked) \in 1..2
  BY <1>2 DEF Ratio, Clamp, Lesser, Greater, s
<1> DEFINE ratio == Ratio(size, asked)
<1>4. ratio = 1 \/ ratio = 2
  BY <1>3
<1> HIDE DEF ratio
<1>5. size \in Int /\ 1 <= size /\ size <= NATIVE_HEIGHT
  BY <1>0
<1>6. CASE ratio = 1
  BY <1>0, <1>5, <1>6 DEF ratio
<1>7. CASE ratio = 2
  BY <1>0, <1>5, <1>7 DEF ratio
<1> QED BY <1>4, <1>6, <1>7

\* No rectangle leaves the array, whoever sets which, in whatever order, and however
\* many callers are inside set_fmt.
LEMMA ModeNext == ASSUME ModeOK, [Next]_vars PROVE ModeOK'
<1> HIDE DEF NATIVE_HEIGHT, TIMING_MIN_VTS, TIMING_MAX_VTS, INTEGRATION_TIME_MARGIN
<1>1. /\ mode \in ModeType /\ call \in [Callers -> NoCall..DiedLocked]
      /\ mode.crop.top + mode.crop.height <= NATIVE_HEIGHT
  BY DEF ModeOK, ModeType, Rectangle
<1>7. mode.crop \in Rectangle /\ mode.height \in 0..NATIVE_HEIGHT
  BY <1>1 DEF ModeType
<1>8. mode.crop.height \in 0..NATIVE_HEIGHT
  BY <1>7 DEF Rectangle
<1>9. ASSUME mode' \in ModeType, call' \in [Callers -> NoCall..DiedLocked],
             mode'.crop.top + mode'.crop.height <= NATIVE_HEIGHT
      PROVE  ModeOK'
  BY <1>9 DEF ModeOK, ModeType, Rectangle
<1>10. \A n \in 0..4 : n \in NoCall..DiedLocked
  BY DEF NoCall, DiedLocked
<1>2. CASE Probe
  <2>1. mode' = DefaultMode /\ call' = call
    BY <1>2 DEF Probe
  <2>2. DefaultMode \in ModeType /\ DefaultMode.crop.top + DefaultMode.crop.height <= NATIVE_HEIGHT
    BY DEF DefaultMode, ModeType, Rectangle, NATIVE_HEIGHT
  <2> QED BY <1>1, <1>9, <2>1, <2>2
<1>3. CASE SetSelection
  <2>1. PICK s \in CropChoices :
           mode' = [mode EXCEPT !.crop = Rect(s)]
           \/ mode' = [mode EXCEPT !.crop = Rect(s), !.height = Rect(s).height]
    BY <1>3, Zenon DEF SetSelection
  <2>2. Rect(s) \in Rectangle /\ Rect(s).top + Rect(s).height <= NATIVE_HEIGHT
    <3>1. s.top \in Int /\ s.height \in Nat
      BY ChoicesTyped
    <3> QED BY <3>1, RectInside, Zenon DEF Rectangle
  <2>3. Rect(s).height \in 0..NATIVE_HEIGHT
    BY <2>2 DEF Rectangle
  <2> DEFINE m == [mode EXCEPT !.crop = Rect(s)]
  <2>4. m \in ModeType /\ m.crop = Rect(s)
    BY <1>1, <2>2 DEF ModeType
  <2>5. mode' = m \/ mode' = [m EXCEPT !.height = Rect(s).height]
    BY <2>1, Zenon
  <2> HIDE DEF m
  <2>6. mode' \in ModeType /\ mode'.crop = Rect(s)
    BY <2>2, <2>3, <2>4, <2>5 DEF ModeType
  <2>7. mode'.crop.top + mode'.crop.height <= NATIVE_HEIGHT
    BY <2>2, <2>6 DEF Rectangle
  <2>8. call' = call
    BY <1>3 DEF SetSelection
  <2> QED BY <1>1, <1>9, <2>6, <2>7, <2>8
<1>4. ASSUME NEW c \in Callers, SetFmtBegins(c) PROVE ModeOK'
  <2>1. CASE mode.crop.height = 0
    <3>1. call' = [call EXCEPT ![c] = Died] /\ mode' = mode
      BY <1>4, <2>1 DEF SetFmtBegins
    <3>2. Died \in NoCall..DiedLocked
      BY <1>10 DEF Died
    <3>3. call' \in [Callers -> NoCall..DiedLocked]
      BY <1>1, <3>1, <3>2
    <3> QED BY <1>1, <1>9, <3>1, <3>3
  <2>2. CASE mode.crop.height # 0
    <3>1. PICK asked \in HeightChoices :
             /\ call' = [call EXCEPT ![c] = Ratio(mode.crop.height, asked)]
             /\ mode' = [mode EXCEPT !.height = mode.crop.height \div Ratio(mode.crop.height, asked)]
      BY <1>4, <2>2 DEF SetFmtBegins
    <3>2. PICK size \in 1..NATIVE_HEIGHT : size = mode.crop.height
      <4>1. NATIVE_HEIGHT \in Int
        BY DEF NATIVE_HEIGHT
      <4>2. \A n \in 0..NATIVE_HEIGHT : n # 0 => n \in 1..NATIVE_HEIGHT
        BY <4>1
      <4> QED BY <1>8, <2>2, <4>2
    <3>3. asked \in Nat
      BY ChoicesTyped
    <3> DEFINE ratio == Ratio(size, asked)
               height == size \div ratio
    <3>4. ratio \in 1..2 /\ height \in 0..NATIVE_HEIGHT
      BY <3>3, RatioFacts
    <3>5. call' = [call EXCEPT ![c] = ratio] /\ mode' = [mode EXCEPT !.height = height]
      BY <3>1, <3>2
    <3> HIDE DEF ratio, height
    <3>6. mode' \in ModeType /\ mode'.crop = mode.crop
      BY <1>1, <3>4, <3>5 DEF ModeType
    <3>9. ratio \in NoCall..DiedLocked
      BY <1>10, <3>4
    <3>7. call' \in [Callers -> NoCall..DiedLocked]
      BY <1>1, <3>5, <3>9
    <3>8. mode'.crop.top + mode'.crop.height <= NATIVE_HEIGHT
      BY <1>1, <3>6
    <3> QED BY <1>9, <3>6, <3>7, <3>8
  <2> QED BY <2>1, <2>2
<1>5. ASSUME NEW c \in Callers, SetFmtEnds(c) PROVE ModeOK'
  <2> DEFINE binned == call[c] > 1
  <2>1. PICK x \in BOOLEAN : mode' = [mode EXCEPT !.binning_x = x, !.binning_y = binned]
    BY <1>5 DEF SetFmtEnds, Binned
  <2>2. binned \in BOOLEAN
    OBVIOUS
  <2> HIDE DEF binned
  <2> DEFINE m == [mode EXCEPT !.binning_x = x]
  <2>3. m \in ModeType /\ m.crop = mode.crop /\ mode' = [m EXCEPT !.binning_y = binned]
    BY <1>1, <2>1 DEF ModeType
  <2> HIDE DEF m
  <2>4. mode' \in ModeType /\ mode'.crop = mode.crop
    BY <2>2, <2>3 DEF ModeType
  <2>5. call' = [call EXCEPT ![c] = NoCall] \/ call' = [call EXCEPT ![c] = DiedLocked]
    BY <1>5 DEF SetFmtEnds
  <2>7. NoCall \in NoCall..DiedLocked /\ DiedLocked \in NoCall..DiedLocked
    BY <1>10 DEF NoCall, DiedLocked
  <2>6. call' \in [Callers -> NoCall..DiedLocked]
    BY <1>1, <2>5, <2>7
  <2>9. mode'.crop.top + mode'.crop.height <= NATIVE_HEIGHT
    BY <1>1, <2>4
  <2> QED BY <1>9, <2>4, <2>6, <2>9
<1>6. CASE UNCHANGED <<mode, call>>
  BY <1>6 DEF ModeOK
<1> QED
  BY <1>2, <1>3, <1>4, <1>5, <1>6
  DEF Next, Remove, Suspend, StreamOn, Resume, ResumeFails, SetupBegins, StreamStarts, StreamFails,
      StreamOff, SetControl, vars

-----------------------------------------------------------------------------
(* The controls and the registers.                                         *)

ControlType == [exposure : Int, emax : Int, vblank : Int, vmax : Int, vflip : BOOLEAN]
ChipType ==
    [readout : {"none", "full", "binned"}, vts : Int, exposure : Int,
     vflip : {"none", "sensor", "both"}, streaming : BOOLEAN]

\* The height of the active format, as a number.
LEMMA HeightFact ==
    ASSUME ModeOK
    PROVE  /\ mode.height \in 0..NATIVE_HEIGHT
           /\ mode.height \in Int /\ 0 <= mode.height /\ mode.height <= NATIVE_HEIGHT
<1> HIDE DEF NATIVE_HEIGHT
<1>1. NATIVE_HEIGHT = 1956
  BY DEF NATIVE_HEIGHT
<1>2. mode.height \in 0..NATIVE_HEIGHT
  BY DEF ModeOK
<1>3. \A h \in 0..NATIVE_HEIGHT : h \in Int /\ 0 <= h /\ h <= NATIVE_HEIGHT
  BY <1>1
<1> QED BY <1>2, <1>3

\* s_ctrl, VBLANK: whatever the blanking, the ranges stay what the core accepts.
LEMMA CompensatedFacts ==
    ASSUME ModeOK, NEW c, ControlsOK(c)
    PROVE  /\ ControlsOK(Compensated(c))
           /\ Compensated(c).vblank = c.vblank /\ Compensated(c).vflip = c.vflip
           /\ mode.height + c.vblank - INTEGRATION_TIME_MARGIN >= 1 =>
                 Compensated(c).emax = mode.height + c.vblank - INTEGRATION_TIME_MARGIN
<1>1. mode.height \in Int
  BY HeightFact
<1>2. /\ c \in ControlType /\ c.vblank \in Int /\ c.exposure \in Int /\ c.exposure >= 1
      /\ c.vmax \in Int
  BY DEF ControlsOK, ControlType
<1> DEFINE top == mode.height + c.vblank - INTEGRATION_TIME_MARGIN
           less == Lesser(c.exposure, top)
           moved == [c EXCEPT !.emax = top, !.exposure = Lesser(@, top)]
<1>3. Compensated(c) = IF top < 1 THEN c ELSE moved
  BY DEF Compensated
<1>4. top \in Int
  BY <1>1, <1>2
<1>5. CASE top < 1
  <2>1. Compensated(c) = c
    BY <1>3, <1>5
  <2> QED BY <1>4, <1>5, <2>1
<1>6. CASE ~(top < 1)
  <2>1. less \in Int /\ less >= 1
    BY <1>2, <1>4, <1>6 DEF Lesser
  <2>2. top >= 1
    BY <1>4, <1>6
  <2> HIDE DEF top, less
  <2>3. moved = [c EXCEPT !.emax = top, !.exposure = less]
    BY <1>2 DEF less, ControlType
  <2> HIDE DEF moved
  <2>4. moved \in ControlType
    BY <1>2, <1>4, <2>1, <2>3 DEF ControlType
  <2>5. moved.exposure = less /\ moved.emax = top
    BY <1>2, <1>4, <2>1, <2>3 DEF ControlType
  <2>6. moved.vblank = c.vblank /\ moved.vflip = c.vflip /\ moved.vmax = c.vmax
    BY <1>2, <1>4, <2>1, <2>3 DEF ControlType
  <2>7. ControlsOK(moved)
    BY <2>1, <2>2, <2>4, <2>5, <2>6 DEF ControlsOK, ControlType
  <2> QED BY <1>3, <1>6, <2>5, <2>6, <2>7 DEF top
<1> QED BY <1>5, <1>6

\* S_CTRL of the blanking, the exposure and the flip.
LEMMA SetFacts ==
    ASSUME ModeOK, ControlsOK(ctl)
    PROVE  /\ \A v \in Nat : ControlsOK(SetVblank(v))
           /\ \A e \in Nat : ControlsOK(SetExposure(e))
           /\ ControlsOK([ctl EXCEPT !.vflip = ~@])
<1>1. /\ ctl \in ControlType /\ ctl.vmax \in Int /\ ctl.emax \in Int /\ ctl.vflip \in BOOLEAN
      /\ ctl.emax >= 1 /\ 63579 <= ctl.vmax /\ ctl.vmax <= 65535
  BY DEF ControlsOK, ControlType
<1>2. ASSUME NEW v \in Nat PROVE ControlsOK(SetVblank(v))
  <2> DEFINE new == Clamp(v, TIMING_MIN_VTS, ctl.vmax)
             c == [ctl EXCEPT !.vblank = new]
  <2>1. new \in Int /\ 4 <= new /\ new <= 65535
    BY <1>1 DEF Clamp, Lesser, Greater
  <2>2. SetVblank(v) = IF new = ctl.vblank THEN ctl ELSE Compensated(c)
    BY DEF SetVblank
  <2> HIDE DEF new
  <2>3. c \in ControlType /\ c.vblank = new /\ c.exposure = ctl.exposure /\ c.emax = ctl.emax
        /\ c.vmax = ctl.vmax
    BY <1>1, <2>1 DEF ControlType
  <2> HIDE DEF c
  <2>4. ControlsOK(c)
    BY <2>1, <2>3 DEF ControlsOK, ControlType
  <2> QED BY <2>2, <2>4, CompensatedFacts
<1>3. ASSUME NEW e \in Nat PROVE ControlsOK(SetExposure(e))
  <2> DEFINE new == Clamp(e, 1, ctl.emax)
             c == [ctl EXCEPT !.exposure = new]
  <2>1. new \in Int /\ 1 <= new
    BY <1>1 DEF Clamp, Lesser, Greater
  <2>2. SetExposure(e) = c
    BY DEF SetExposure
  <2> HIDE DEF new
  <2>3. c \in ControlType /\ c.vblank = ctl.vblank /\ c.exposure = new /\ c.emax = ctl.emax
        /\ c.vmax = ctl.vmax
    BY <1>1, <2>1 DEF ControlType
  <2> HIDE DEF c
  <2> QED BY <2>1, <2>2, <2>3 DEF ControlsOK, ControlType
<1>4. ControlsOK([ctl EXCEPT !.vflip = ~@])
  <2> DEFINE b == ~ctl.vflip
             c == [ctl EXCEPT !.vflip = b]
  <2>1. b \in BOOLEAN /\ c = [ctl EXCEPT !.vflip = ~@]
    BY <1>1
  <2> HIDE DEF b
  <2>2. c \in ControlType /\ c.vblank = ctl.vblank /\ c.exposure = ctl.exposure
        /\ c.emax = ctl.emax /\ c.vmax = ctl.vmax
    BY <1>1, <2>1 DEF ControlType
  <2> HIDE DEF c
  <2>3. ControlsOK(c)
    BY <2>2 DEF ControlsOK, ControlType
  <2> QED BY <2>1, <2>3, Zenon
<1> QED BY <1>2, <1>3, <1>4

\* The controls set_fmt makes of a format's height.
LEMMA FormatFacts ==
    ASSUME ModeOK, ControlsOK(ctl), mode.height > 0
    PROVE  ControlsOK(FormatControls)
<1>1. PICK h \in Int : h = mode.height /\ 1 <= h /\ h <= NATIVE_HEIGHT
  BY HeightFact
<1>2. calc_vts(mode.height) = 2078
  <2> HIDE DEF NATIVE_HEIGHT
  <2>1. NATIVE_HEIGHT \in Int
    BY DEF NATIVE_HEIGHT
  <2>2. h \in 1..NATIVE_HEIGHT
    BY <1>1, <2>1
  <2> QED BY <1>1, <2>2, FrameLength
<1> DEFINE blank == 2078 - mode.height
           range == TIMING_MAX_VTS - mode.height
           ranged == [ctl EXCEPT !.vmax = range]
           set == [ranged EXCEPT !.vblank = blank]
           c == IF blank = ctl.vblank THEN ranged ELSE Compensated(set)
           less == Lesser(c.exposure, 2070)
<1>3. FormatControls = [c EXCEPT !.emax = 2070, !.exposure = Lesser(@, 2070)]
  BY <1>2 DEF FormatControls
<1>4. /\ blank \in Int /\ 4 <= blank /\ blank <= 65535
      /\ range \in Int /\ 63579 <= range /\ range <= 65535
  <2>1. blank = 2078 - h /\ range = 65535 - h
    BY <1>1
  <2> HIDE DEF blank, range
  <2> QED BY <1>1, <2>1
<1> HIDE DEF blank, range
<1>5. ctl \in ControlType /\ ctl.exposure >= 1 /\ ctl.emax >= 1
  BY DEF ControlsOK, ControlType
<1>6. ControlsOK(ranged)
  <2>1. ranged \in ControlType /\ ranged.vmax = range /\ ranged.exposure = ctl.exposure
        /\ ranged.emax = ctl.emax /\ ranged.vblank = ctl.vblank
    BY <1>4, <1>5 DEF ControlType
  <2> HIDE DEF ranged
  <2> QED BY <1>4, <2>1 DEF ControlsOK, ControlType
<1> HIDE DEF ranged
<1>7. ControlsOK(set)
  <2>1. ranged \in ControlType
    BY <1>6 DEF ControlsOK, ControlType
  <2>2. set \in ControlType /\ set.vmax = ranged.vmax /\ set.exposure = ranged.exposure
        /\ set.emax = ranged.emax /\ set.vblank = blank
    BY <1>4, <2>1 DEF ControlType
  <2> HIDE DEF set
  <2> QED BY <1>4, <1>6, <2>2 DEF ControlsOK, ControlType
<1> HIDE DEF set
<1>8. ControlsOK(c)
  BY <1>6, <1>7, CompensatedFacts
<1> HIDE DEF c
<1>9. c \in ControlType /\ c.exposure \in Int /\ c.exposure >= 1
  BY <1>8 DEF ControlsOK, ControlType
<1>10. less \in Int /\ less >= 1
  BY <1>9 DEF Lesser
<1>11. FormatControls = [c EXCEPT !.emax = 2070, !.exposure = less]
  BY <1>3, <1>9 DEF ControlType
<1> HIDE DEF less
<1> DEFINE top == 2070
           final == [c EXCEPT !.emax = top, !.exposure = less]
<1>12. top \in Int /\ top = 2070
  OBVIOUS
<1> HIDE DEF top
<1>13. final \in ControlType
  <2> DEFINE e == [c EXCEPT !.emax = top]
  <2>1. e \in ControlType
    BY <1>9, <1>12 DEF ControlType
  <2>2. [e EXCEPT !.exposure = less] \in ControlType
    <3> HIDE DEF e
    <3> QED BY <1>10, <2>1 DEF ControlType
  <2>3. final = [e EXCEPT !.exposure = less]
    BY <1>9 DEF ControlType
  <2> QED BY <2>2, <2>3
<1>14. final.exposure = less /\ final.emax = top /\ final.vblank = c.vblank /\ final.vmax = c.vmax
  BY <1>9, <1>10, <1>12 DEF ControlType
<1> HIDE DEF final
<1>15. ControlsOK(final)
  BY <1>8, <1>10, <1>12, <1>14, <1>13 DEF ControlsOK, ControlType
<1> QED BY <1>11, <1>12, <1>15 DEF final

Names == {"exposure", "emax", "vblank", "vmax", "vflip"}

\* The registers of the controls in S take the controls' values, the others stay.
LEMMA WrittenFacts ==
    ASSUME ChipOK(chip), NEW c, ControlsOK(c), ModeOK, NEW S \in SUBSET Control
    PROVE  /\ ChipOK(Written(c, S))
           /\ Written(c, S).exposure = IF "exposure" \in S THEN c.exposure % 2^16 ELSE chip.exposure
           /\ Written(c, S).vflip = IF "vflip" \in S THEN flip_vert_bits(c.vflip) ELSE chip.vflip
           /\ Written(c, S).vts = IF "vblank" \in S THEN (mode.height + c.vblank) % 2^16
                                  ELSE chip.vts
           /\ Written(c, S).streaming = chip.streaming
<1>1. /\ chip \in ChipType /\ chip.exposure \in Int /\ chip.vts \in Int
      /\ 0 <= chip.exposure /\ chip.exposure < 65536 /\ 0 <= chip.vts /\ chip.vts < 65536
      /\ chip.vflip \in {"none", "sensor", "both"}
  BY DEF ChipOK, ChipType
<1>2. c.exposure \in Int /\ c.vblank \in Int
  BY DEF ControlsOK
<1>3. mode.height \in Int
  BY HeightFact
<1> DEFINE e == IF "exposure" \in S THEN c.exposure % 2^16 ELSE chip.exposure
           t == IF "vblank" \in S THEN (mode.height + c.vblank) % 2^16 ELSE chip.vts
           f == IF "vflip" \in S THEN flip_vert_bits(c.vflip) ELSE chip.vflip
           k == [chip EXCEPT !.exposure = e]
           l == [k EXCEPT !.vts = t]
           m == [l EXCEPT !.vflip = f]
<1>4. e \in Int /\ 0 <= e /\ e < 65536
  BY <1>1, <1>2
<1>5. t \in Int /\ 0 <= t /\ t < 65536
  BY <1>1, <1>2, <1>3
<1>6. f \in {"none", "sensor", "both"}
  BY <1>1 DEF flip_vert_bits
<1>7. Written(c, S) = m
  BY <1>1 DEF Written, ChipType
<1> HIDE DEF e, t, f
<1>8. k \in ChipType /\ k.exposure = e /\ k.vts = chip.vts /\ k.vflip = chip.vflip
      /\ k.streaming = chip.streaming
  BY <1>1, <1>4 DEF ChipType
<1> HIDE DEF k
<1>9. l \in ChipType /\ l.exposure = e /\ l.vts = t /\ l.vflip = chip.vflip
      /\ l.streaming = chip.streaming
  BY <1>5, <1>8 DEF ChipType
<1> HIDE DEF l
<1>10. m \in ChipType /\ m.exposure = e /\ m.vts = t /\ m.vflip = f /\ m.streaming = chip.streaming
  BY <1>6, <1>9 DEF ChipType
<1> HIDE DEF m
<1>11. ChipOK(m)
  BY <1>4, <1>5, <1>10 DEF ChipOK, ChipType
<1> QED BY <1>7, <1>10, <1>11 DEF e, t, f

\* The chip has the exposure and the flip the controls c report.
Follows(k, c) ==
    /\ k.exposure = c.exposure % 2^16
    /\ k.vflip # "none" <=> c.vflip = TRUE

\* A change of the controls, whichever of its writes fail: the controls stay in
\* range, and a chip in use that followed them still does.
LEMMA ApplyFacts ==
    ASSUME ModeOK, ControlsOK(ctl), ChipOK(chip), NEW c, ControlsOK(c), Apply(c)
    PROVE  /\ ControlsOK(ctl') /\ ChipOK(chip')
           /\ InUse /\ Follows(chip, ctl) => Follows(chip', ctl')
           /\ chip'.streaming = chip.streaming
<1> DEFINE changed == {f \in Control : c[f] # ctl[f]}
<1>1. PICK S \in SUBSET changed :
           /\ ctl' = [f \in DOMAIN ctl |-> IF f \in changed \ S THEN ctl[f] ELSE c[f]]
           /\ chip' = IF InUse THEN Written(c, S) ELSE chip
  BY DEF Apply
<1>2. S \in SUBSET Control
  OBVIOUS
<1>3. ctl \in ControlType /\ c \in ControlType /\ DOMAIN ctl = Names
  BY DEF ControlsOK, ControlType, Names
<1> DEFINE Val(f) == IF f \in changed \ S THEN ctl[f] ELSE c[f]
<1>4. ctl' = [f \in Names |-> Val(f)]
  BY <1>1, <1>3
<1>5. /\ Val("emax") = c.emax /\ Val("vmax") = c.vmax
      /\ Val("exposure") \in {ctl.exposure, c.exposure}
      /\ Val("vblank") \in {ctl.vblank, c.vblank}
      /\ Val("vflip") \in {ctl.vflip, c.vflip}
  BY DEF Control
<1>6. /\ "exposure" \in S => Val("exposure") = c.exposure
      /\ "exposure" \notin S => Val("exposure") = ctl.exposure
      /\ "vflip" \in S => Val("vflip") = c.vflip
      /\ "vflip" \notin S => Val("vflip") = ctl.vflip
  BY DEF Control
<1> HIDE DEF Val
<1>7. /\ ctl'.emax = Val("emax") /\ ctl'.vmax = Val("vmax") /\ ctl'.exposure = Val("exposure")
      /\ ctl'.vblank = Val("vblank") /\ ctl'.vflip = Val("vflip")
  BY <1>4 DEF Names
<1>8. /\ ctl'.emax = c.emax /\ ctl'.vmax = c.vmax
      /\ ctl'.exposure \in {ctl.exposure, c.exposure} /\ ctl'.vblank \in {ctl.vblank, c.vblank}
      /\ ctl'.vflip \in {ctl.vflip, c.vflip}
  BY <1>5, <1>7
<1>9. /\ ctl'.emax \in Int /\ ctl'.vmax \in Int /\ ctl'.exposure \in Int /\ ctl'.vblank \in Int
      /\ ctl'.vflip \in BOOLEAN
  BY <1>3, <1>8 DEF ControlType
<1>10. ctl' \in ControlType
  <2>1. ctl' = [exposure |-> ctl'.exposure, emax |-> ctl'.emax, vblank |-> ctl'.vblank,
                vmax |-> ctl'.vmax, vflip |-> ctl'.vflip]
    BY <1>4 DEF Names
  <2> QED BY <1>9, <2>1 DEF ControlType
<1>11. ControlsOK(ctl')
  BY <1>8, <1>9, <1>10 DEF ControlsOK, ControlType
<1>12. ChipOK(chip') /\ chip'.streaming = chip.streaming
  BY <1>1, <1>2, WrittenFacts
<1>13. InUse /\ Follows(chip, ctl) => Follows(chip', ctl')
  <2> SUFFICES ASSUME InUse, Follows(chip, ctl) PROVE Follows(chip', ctl')
    OBVIOUS
  <2>1. /\ chip'.exposure = IF "exposure" \in S THEN c.exposure % 2^16 ELSE chip.exposure
        /\ chip'.vflip = IF "vflip" \in S THEN flip_vert_bits(c.vflip) ELSE chip.vflip
    BY <1>1, <1>2, WrittenFacts
  <2>2. chip'.exposure = ctl'.exposure % 2^16
    BY <1>6, <1>7, <2>1 DEF Follows
  <2>3. c.vflip \in BOOLEAN
    BY <1>3 DEF ControlType
  <2>4. flip_vert_bits(c.vflip) # "none" <=> c.vflip = TRUE
    BY <2>3 DEF flip_vert_bits
  <2>5. chip'.vflip # "none" <=> ctl'.vflip = TRUE
    BY <1>6, <1>7, <2>1, <2>4 DEF Follows
  <2> QED BY <2>2, <2>5 DEF Follows
<1> QED BY <1>11, <1>12, <1>13

-----------------------------------------------------------------------------
(* The inductive invariant.                                                *)

RunningFollows == wanted /\ chip.streaming = TRUE => Follows(chip, ctl)

DriverInv == PowerInv /\ ModeOK /\ ControlsOK(ctl) /\ ChipOK(chip) /\ RunningFollows

\* What probe makes of the controls.
LEMMA DefaultsOK == ControlsOK(DefaultControls) /\ ChipOK(Blank)
<1>1. calc_vts(1944) = 2078
  BY FrameLength
<1> DEFINE e == calc_vts(1944) - INTEGRATION_TIME_MARGIN
           v == calc_vts(1944) - 1944
           m == TIMING_MAX_VTS - 1944
<1>2. e \in Int /\ e = 2070 /\ v \in Int /\ v = 134 /\ m \in Int /\ m = 63591
  BY <1>1
<1>3. DefaultControls = [exposure |-> e, emax |-> e, vblank |-> v, vmax |-> m, vflip |-> FALSE]
  BY DEF DefaultControls
<1> HIDE DEF e, v, m
<1>4. ControlsOK(DefaultControls)
  BY <1>2, <1>3 DEF ControlsOK
<1>5. ChipOK(Blank)
  BY DEF ChipOK, Blank
<1> QED BY <1>4, <1>5

\* The registers sensor_init writes, and the ones s_stream leaves behind.
LEMMA ChipSteps ==
    ASSUME ChipOK(chip)
    PROVE  /\ ChipOK(sensor_init) /\ ChipOK(Left(FALSE)) /\ ChipOK(Left(chip.streaming))
<1>1. chip.readout \in {"none", "full", "binned"} /\ chip.streaming \in BOOLEAN
  BY DEF ChipOK
<1> DEFINE r == Readout
           f == IF ctl.vflip THEN flip_vert_bits(TRUE) ELSE "none"
           g == [Blank EXCEPT !.vflip = "none"]
<1>2. r \in {"none", "full", "binned"} /\ f \in {"none", "sensor", "both"}
  BY DEF Readout, flip_vert_bits
<1>3. g = Blank
  BY DEF Blank
<1>4. sensor_init = [Blank EXCEPT !.readout = r, !.vflip = f]
  BY <1>3 DEF sensor_init, global_regs, Blank
<1> HIDE DEF r, f
<1>5. sensor_init = [readout |-> r, vts |-> 0, exposure |-> 0, vflip |-> f, streaming |-> FALSE]
  BY <1>4 DEF Blank
<1>6. ChipOK(sensor_init)
  BY <1>2, <1>5 DEF ChipOK
<1>7. ASSUME NEW b \in BOOLEAN PROVE ChipOK(Left(b))
  <2> DEFINE k == [Blank EXCEPT !.readout = chip.readout]
             l == [k EXCEPT !.streaming = b]
  <2>1. Blank \in ChipType /\ Blank.vts = 0 /\ Blank.exposure = 0
    BY DEF Blank, ChipType
  <2>2. Left(b) = l
    BY DEF Left, Blank
  <2>3. k \in ChipType /\ k.vts = 0 /\ k.exposure = 0
    BY <1>1, <2>1 DEF ChipType
  <2> HIDE DEF k
  <2>4. l \in ChipType /\ l.vts = 0 /\ l.exposure = 0
    BY <2>3 DEF ChipType
  <2> HIDE DEF l
  <2> QED BY <2>2, <2>4 DEF ChipOK, ChipType
<1> QED BY <1>1, <1>6, <1>7

\* What handler_setup makes of the controls.
LEMMA SetupFacts ==
    ASSUME ModeOK, ControlsOK(ctl), NEW c \in HandlerSetup
    PROVE  ControlsOK(c)
<1> DEFINE d == Compensated(ctl)
           e == [d EXCEPT !.exposure = ctl.exposure]
<1>1. ControlsOK(d)
  BY CompensatedFacts
<1>2. c = d \/ c = e
  BY DEF HandlerSetup
<1>3. ctl.exposure \in Int /\ ctl.exposure >= 1
  BY DEF ControlsOK
<1> HIDE DEF d
<1>4. d \in ControlType
  BY <1>1 DEF ControlsOK, ControlType
<1>5. e \in ControlType /\ e.exposure = ctl.exposure /\ e.emax = d.emax /\ e.vblank = d.vblank
      /\ e.vmax = d.vmax
  BY <1>3, <1>4 DEF ControlType
<1> HIDE DEF e
<1>6. ControlsOK(e)
  BY <1>1, <1>3, <1>5 DEF ControlsOK, ControlType
<1> QED BY <1>1, <1>2, <1>5, <1>6

\* The chip a stream starts with.
LEMMA StartFacts ==
    ASSUME ModeOK, ControlsOK(ctl), ChipOK(chip), StreamStarts
    PROVE  ctl' = ctl /\ ChipOK(chip') /\ Follows(chip', ctl')
<1> DEFINE w == Written(ctl, Control)
<1>1. ctl' = ctl /\ chip' = [w EXCEPT !.streaming = TRUE]
  BY DEF StreamStarts
<1>2. ctl.vflip \in BOOLEAN
  BY DEF ControlsOK
<1>3. ChipOK(w) /\ w.exposure = ctl.exposure % 2^16 /\ w.vflip = flip_vert_bits(ctl.vflip)
  BY WrittenFacts DEF Control
<1> HIDE DEF w
<1>4. w \in ChipType
  BY <1>3 DEF ChipOK, ChipType
<1>5. chip' \in ChipType /\ chip'.exposure = w.exposure /\ chip'.vts = w.vts /\ chip'.vflip = w.vflip
  BY <1>1, <1>4 DEF ChipType
<1>6. ChipOK(chip')
  BY <1>3, <1>5 DEF ChipOK, ChipType
<1>7. flip_vert_bits(ctl.vflip) # "none" <=> ctl.vflip = TRUE
  BY <1>2 DEF flip_vert_bits
<1> QED BY <1>1, <1>3, <1>5, <1>6, <1>7 DEF Follows

\* Every step keeps the controls in range, the registers within their width, and
\* the chip of a running stream in step with the controls.
LEMMA DriverNext == ASSUME DriverInv, [Next]_vars PROVE DriverInv'
<1>1. /\ PowerInv /\ ModeOK /\ ControlsOK(ctl) /\ ChipOK(chip) /\ RunningFollows
      /\ wanted => InUse /\ stage = "idle"
      /\ stage \in {"setup", "frame"} => ~wanted
  BY DEF DriverInv, PowerInv, PowerOK, Phases, PowerBalanced, UsageBalanced, InUse
<1>2. PowerInv' /\ ModeOK'
  BY <1>1, PowerNext, ModeNext
<1> SUFFICES ControlsOK(ctl') /\ ChipOK(chip') /\ (wanted' /\ chip'.streaming = TRUE => Follows(chip', ctl'))
  BY <1>2 DEF DriverInv, RunningFollows, ControlsOK, ChipOK, Follows
<1>3. CASE Probe
  <2>1. ~wanted' /\ ctl' = DefaultControls /\ (chip' = Blank \/ chip' = chip)
    BY <1>1, <1>3 DEF Probe, PowerInv, Phases
  <2> QED BY <1>1, <2>1, DefaultsOK
<1>4. CASE Remove \/ Suspend
  <2>1. chip' = Blank /\ ctl' = ctl
    BY <1>4 DEF Remove, Suspend
  <2>2. ~Blank.streaming
    BY DEF Blank
  <2> QED BY <1>1, <2>1, <2>2, DefaultsOK
<1>5. CASE StreamOn \/ ResumeFails
  BY <1>1, <1>5 DEF StreamOn, ResumeFails, RunningFollows
<1>6. CASE Resume
  <2>1. chip' = sensor_init /\ ctl' = ctl /\ ~wanted'
    BY <1>1, <1>6 DEF Resume
  <2> QED BY <1>1, <2>1, ChipSteps
<1>7. CASE StreamStarts
  BY <1>1, <1>7, StartFacts
<1>16. CASE SetupBegins
  <2>1. ctl' \in HandlerSetup /\ chip' = chip /\ ~wanted'
    BY <1>1, <1>16 DEF SetupBegins
  <2> QED BY <1>1, <2>1, SetupFacts
<1>8. CASE StreamFails
  <2>1. ctl' = ctl /\ chip' = Left(chip.streaming) /\ ~wanted'
    BY <1>1, <1>8 DEF StreamFails
  <2> QED BY <1>1, <2>1, ChipSteps
<1>9. CASE StreamOff
  <2>1. ctl' = ctl /\ (chip' = Left(FALSE) \/ chip' = Left(chip.streaming)) /\ ~wanted'
    BY <1>9 DEF StreamOff
  <2> QED BY <1>1, <2>1, ChipSteps
<1>10. ASSUME NEW c, ControlsOK(c), Apply(c), wanted' = wanted
       PROVE  ControlsOK(ctl') /\ ChipOK(chip') /\ (wanted' /\ chip'.streaming = TRUE => Follows(chip', ctl'))
  <2>1. /\ ControlsOK(ctl') /\ ChipOK(chip') /\ chip'.streaming = chip.streaming
        /\ InUse /\ Follows(chip, ctl) => Follows(chip', ctl')
    BY <1>1, <1>10, ApplyFacts
  <2> QED BY <1>1, <1>10, <2>1 DEF RunningFollows
<1>11. CASE SetControl
  <2>1. PICK c \in {SetVblank(v) : v \in VblankChoices}
                  \cup {SetExposure(e) : e \in ExposureChoices}
                  \cup {[ctl EXCEPT !.vflip = ~@]} : Apply(c)
    BY <1>11 DEF SetControl
  <2>2. wanted' = wanted
    BY <1>11 DEF SetControl
  <2>3. VblankChoices \subseteq Nat /\ ExposureChoices \subseteq Nat
    BY Ov5693Assumption
  <2>4. ControlsOK(c)
    BY <1>1, <2>3, SetFacts
  <2> QED BY <1>10, <2>1, <2>2, <2>4
<1>12. CASE SetSelection
  BY <1>1, <1>12 DEF SetSelection, RunningFollows
<1>13. ASSUME NEW c \in Callers, SetFmtBegins(c)
       PROVE  ControlsOK(ctl') /\ ChipOK(chip') /\ (wanted' /\ chip'.streaming = TRUE => Follows(chip', ctl'))
  BY <1>1, <1>13 DEF SetFmtBegins, RunningFollows
<1>14. ASSUME NEW c \in Callers, SetFmtEnds(c)
       PROVE  ControlsOK(ctl') /\ ChipOK(chip') /\ (wanted' /\ chip'.streaming = TRUE => Follows(chip', ctl'))
  <2>1. CASE mode.height = 0
    <3>1. ctl' = ctl /\ chip' = chip /\ wanted' = wanted
      BY <1>14, <2>1 DEF SetFmtEnds
    <3> QED BY <1>1, <3>1 DEF RunningFollows
  <2>2. CASE mode.height # 0
    <3>1. Apply(FormatControls) /\ wanted' = wanted /\ mode.height > 0
      BY <1>14, <2>2 DEF SetFmtEnds
    <3> QED BY <1>1, <1>10, <3>1, FormatFacts
  <2> QED BY <2>1, <2>2
<1>15. CASE UNCHANGED vars
  BY <1>1, <1>15 DEF vars, RunningFollows
<1> QED
  BY <1>3, <1>4, <1>5, <1>6, <1>7, <1>8, <1>9, <1>11, <1>12, <1>13, <1>14, <1>15, <1>16
  DEF Next

\* The driver starts with its defaults.
LEMMA DriverInit == Init => DriverInv
<1> SUFFICES ASSUME Init PROVE DriverInv
  OBVIOUS
<1>1. /\ ~wanted /\ mode = DefaultMode /\ call = [c \in Callers |-> 0]
      /\ ctl = DefaultControls /\ chip = Blank
  BY DEF Init, NoCall
<1>2. ModeOK
  BY <1>1 DEF ModeOK, DefaultMode, NoCall, DiedLocked
<1> QED BY <1>1, <1>2, PowerInit, DefaultsOK DEF DriverInv, RunningFollows

\* The invariant holds in every reachable state.
LEMMA DriverInvariant == Spec => []DriverInv
  BY DriverInit, DriverNext, PTL DEF Spec

\* The flags keep their type.
LEMMA FlagsNext == ASSUME FlagsOK, [Next]_vars PROVE FlagsOK'
  BY Zenon
  DEF FlagsOK, Next, Probe, Remove, Suspend, StreamOn, Resume, ResumeFails, SetupBegins,
      StreamStarts, StreamFails, StreamOff, SetControl, SetSelection, SetFmtBegins, SetFmtEnds, vars, pmVars

\* No rectangle leaves the array, the controls keep to their ranges and the
\* registers to their width, whatever applications ask for in whatever order.
THEOREM TypeCorrect == Spec => []TypeOK
<1>1. Init => FlagsOK
  BY DEF Init, FlagsOK
<1>2. DriverInv /\ FlagsOK => TypeOK
  BY DEF DriverInv, PowerInv, TypeOK
<1> QED BY <1>1, <1>2, FlagsNext, DriverInvariant, PTL DEF Spec

\* While a stream runs the chip has the exposure and the flip the controls report,
\* whenever they were set and whichever of the writes failed.
THEOREM ChipFollows == Spec => []ChipFollowsControls
<1>1. ASSUME DriverInv PROVE ChipFollowsControls
  <2> SUFFICES ASSUME wanted, chip.streaming
               PROVE  /\ chip.exposure = ctl.exposure % 2^16
                      /\ (chip.vflip # "none") = ctl.vflip
    BY DEF ChipFollowsControls
  <2>1. chip.streaming \in BOOLEAN /\ ctl.vflip \in BOOLEAN
    BY <1>1 DEF DriverInv, ChipOK, ControlsOK
  <2>2. Follows(chip, ctl)
    BY <1>1, <2>1 DEF DriverInv, RunningFollows
  <2>3. chip.exposure = ctl.exposure % 2^16 /\ (chip.vflip # "none" <=> ctl.vflip = TRUE)
    BY <2>2 DEF Follows
  <2>4. (chip.vflip # "none") = ctl.vflip
    BY <2>1, <2>3
  <2> QED BY <2>3, <2>4
<1> QED BY <1>1, DriverInvariant, PTL

=============================================================================
