------------------------ MODULE Ov7251ControlsProofs ------------------------
(***************************************************************************)
(* Lemmas about the controls of the infrared sensor, for every value of the*)
(* driver's parameters: what each operation makes of the ranges, and which *)
(* ones it leaves alone.  The proofs about the driver (Ov7251Proofs) and   *)
(* about the bridge (IrBridgeProofs) rest on them.                         *)
(***************************************************************************)
EXTENDS Ov7251Controls, TLAPS

ControlType ==
    [mode : 1..3, exposure : Int, emax : Int, gain : Int, flip : BOOLEAN, vblank : Int, vdef : Int]

\* The ranges, without the record they are fields of.
RangesOK(e, m, g, v) ==
    /\ 1 <= e /\ e <= TIMING_MAX_VTS
    /\ 1 <= m /\ m <= TIMING_MAX_VTS
    /\ TIMING_MIN_VTS <= v /\ v <= TIMING_MAX_VTS - HEIGHT
    /\ 16 <= g /\ g <= 1023

\* What the records are made of.
LEMMA ControlFields ==
    ASSUME NEW c, ControlsOK(c)
    PROVE  /\ c \in ControlType /\ c.mode \in 1..3 /\ c.exposure \in Int /\ c.emax \in Int
           /\ c.gain \in Int /\ c.flip \in BOOLEAN /\ c.vblank \in Int /\ c.vdef \in Int
           /\ RangesOK(c.exposure, c.emax, c.gain, c.vblank)
           /\ c.vdef = Modes[1].vts - HEIGHT
<1>1. c \in ControlType
  BY DEF ControlsOK, ControlType
<1>2. /\ c.mode \in 1..3 /\ c.exposure \in Int /\ c.emax \in Int /\ c.gain \in Int
      /\ c.flip \in BOOLEAN /\ c.vblank \in Int /\ c.vdef \in Int
  BY <1>1 DEF ControlType
<1> HIDE DEF ControlType
<1> QED BY <1>1, <1>2, Zenon DEF ControlsOK, RangesOK

LEMMA FieldsOK ==
    ASSUME NEW c \in ControlType, RangesOK(c.exposure, c.emax, c.gain, c.vblank),
           c.vdef = Modes[1].vts - HEIGHT
    PROVE  ControlsOK(c)
  BY Zenon DEF ControlsOK, ControlType, RangesOK

\* The margin is one of two.
LEMMA MarginFact ==
    Margin \in {20, 256} /\ (Boosted => Margin = 256) /\ (win_timing => Margin = 20)
  BY ParametersAssumption
  DEF Margin, Boosted, INTEGRATION_MARGIN, BOOST_INTEGRATION_MARGIN

\* The three modes of the table, whatever the parameters: no frame is longer than
\* the register holds or shorter than the picture, and no exposure longer than
\* its frame.
LEMMA ModeFacts ==
    ASSUME NEW m \in 1..3
    PROVE  /\ Modes[m].vts \in Int /\ Modes[m].exposure_max \in Int /\ Modes[m].exposure_def \in Int
           /\ HEIGHT < Modes[m].vts /\ Modes[m].vts <= TIMING_MAX_VTS
           /\ 1 <= Modes[m].exposure_def /\ 2 <= Modes[m].exposure_max
           /\ Modes[m].exposure_max < Modes[m].vts
<1> USE ParametersAssumption
        DEF HEIGHT, TIMING_MAX_VTS, BOOST_INTEGRATION_MARGIN
<1>1. CASE m = 1
  <2>1. CASE win_timing
    BY <1>1, <2>1 DEF Modes, StockModes, WinMode
  <2>2. CASE ~win_timing /\ Boosted
    <3>1. Modes[1] = BoostMode
      BY <2>2 DEF Modes, StockModes
    <3>2. BoostMode.vts = vts_boost /\ BoostMode.exposure_max = vts_boost - 256
          /\ BoostMode.exposure_def = 504
      BY DEF BoostMode
    <3>3. vts_boost \in Int /\ vts_boost > 522 /\ vts_boost <= 65535
      BY <2>2 DEF Boosted
    <3> QED BY <1>1, <3>1, <3>2, <3>3
  <2>3. CASE ~win_timing /\ ~Boosted
    BY <1>1, <2>3 DEF Modes, StockModes
  <2> QED BY <2>1, <2>2, <2>3
<1>2. CASE m = 2
  BY <1>2 DEF Modes, StockModes
<1>3. CASE m = 3
  BY <1>3 DEF Modes, StockModes
<1> QED BY <1>1, <1>2, <1>3

-----------------------------------------------------------------------------
(* The operations.                                                         *)

Names == {"mode", "exposure", "emax", "gain", "flip", "vblank", "vdef"}

\* Changing one field leaves the others alone.
LEMMA OneField ==
    ASSUME NEW c \in ControlType
    PROVE  /\ \A x \in 1..3 : [c EXCEPT !.mode = x] \in ControlType
           /\ \A x \in Int : [c EXCEPT !.exposure = x] \in ControlType
           /\ \A x \in Int : [c EXCEPT !.emax = x] \in ControlType
           /\ \A x \in Int : [c EXCEPT !.gain = x] \in ControlType
           /\ \A x \in BOOLEAN : [c EXCEPT !.flip = x] \in ControlType
           /\ \A x \in Int : [c EXCEPT !.vblank = x] \in ControlType
           /\ \A x \in Int : [c EXCEPT !.vdef = x] \in ControlType
           /\ DOMAIN c = Names
  BY DEF ControlType, Names

\* s_ctrl, VBLANK: the exposure range is that of the blanking, the exposure is held
\* inside it, and at most moved down.
LEMMA CompensatedFacts ==
    ASSUME NEW c, ControlsOK(c)
    PROVE  /\ ControlsOK(Compensated(c))
           /\ Compensated(c).emax = HEIGHT + c.vblank - Margin
           /\ Compensated(c).exposure <= Compensated(c).emax
           /\ c.exposure <= HEIGHT + c.vblank - Margin => Compensated(c).exposure = c.exposure
           /\ Compensated(c).vblank = c.vblank /\ Compensated(c).mode = c.mode
           /\ Compensated(c).gain = c.gain /\ Compensated(c).flip = c.flip
<1> DEFINE max == HEIGHT + c.vblank - Margin
           e == Clamp(c.exposure, 1, max)
           d == [c EXCEPT !.emax = max]
           k == [d EXCEPT !.exposure = e]
<1>1. /\ c \in ControlType /\ c.exposure \in Int /\ c.vblank \in Int
      /\ RangesOK(c.exposure, c.emax, c.gain, c.vblank) /\ c.vdef = Modes[1].vts - HEIGHT
  BY ControlFields
<1>2. max \in Int /\ 1 <= max /\ max <= TIMING_MAX_VTS
  BY <1>1, MarginFact DEF RangesOK, HEIGHT, TIMING_MAX_VTS, TIMING_MIN_VTS
<1>3. e \in Int /\ 1 <= e /\ e <= max /\ (c.exposure <= max => e = c.exposure)
  BY <1>1, <1>2 DEF Clamp, RangesOK
<1>4. e <= TIMING_MAX_VTS
  BY <1>2, <1>3 DEF TIMING_MAX_VTS
<1> HIDE DEF max, e
<1>5. Compensated(c) = k
  BY <1>1, OneField DEF Compensated, max, e, Names
<1>6. d \in ControlType /\ d.emax = max /\ d.mode = c.mode /\ d.gain = c.gain
      /\ d.flip = c.flip /\ d.vblank = c.vblank /\ d.vdef = c.vdef
  BY <1>1, <1>2 DEF ControlType
<1> HIDE DEF d
<1>7. k \in ControlType /\ k.emax = max /\ k.exposure = e /\ k.mode = c.mode /\ k.gain = c.gain
      /\ k.flip = c.flip /\ k.vblank = c.vblank /\ k.vdef = c.vdef
  BY <1>3, <1>6 DEF ControlType
<1> HIDE DEF k
<1>8. RangesOK(k.exposure, k.emax, k.gain, k.vblank)
  <2>1. RangesOK(e, max, c.gain, c.vblank)
    BY <1>1, <1>2, <1>3, <1>4 DEF RangesOK
  <2> QED BY <1>7, <2>1, Zenon
<1>9. ControlsOK(k)
  BY <1>1, <1>7, <1>8, FieldsOK
<1> QED BY <1>3, <1>5, <1>7, <1>9 DEF max

\* Setting the exposure: it is rounded into its range.
LEMMA SetExposureFacts ==
    ASSUME NEW c, ControlsOK(c), NEW e \in Int
    PROVE  /\ ControlsOK(SetExposure(c, e))
           /\ SetExposure(c, e).exposure <= c.emax
           /\ 1 <= e /\ e <= c.emax => SetExposure(c, e).exposure = e
           /\ SetExposure(c, e).emax = c.emax /\ SetExposure(c, e).vblank = c.vblank
           /\ SetExposure(c, e).mode = c.mode
<1> DEFINE x == Clamp(e, 1, c.emax)
           k == [c EXCEPT !.exposure = x]
<1>1. /\ c \in ControlType /\ c.emax \in Int /\ RangesOK(c.exposure, c.emax, c.gain, c.vblank)
      /\ c.vdef = Modes[1].vts - HEIGHT
  BY ControlFields
<1>2. 1 <= c.emax /\ c.emax <= TIMING_MAX_VTS
  BY <1>1 DEF RangesOK
<1>3. x \in Int /\ 1 <= x /\ x <= c.emax /\ (1 <= e /\ e <= c.emax => x = e)
  BY <1>1, <1>2 DEF Clamp
<1>4. x <= TIMING_MAX_VTS
  BY <1>1, <1>2, <1>3 DEF TIMING_MAX_VTS
<1>5. SetExposure(c, e) = k
  BY DEF SetExposure
<1> HIDE DEF x
<1>6. k \in ControlType /\ k.emax = c.emax /\ k.exposure = x /\ k.mode = c.mode
      /\ k.gain = c.gain /\ k.vblank = c.vblank /\ k.vdef = c.vdef
  BY <1>1, <1>3 DEF ControlType
<1> HIDE DEF k
<1>7. RangesOK(k.exposure, k.emax, k.gain, k.vblank)
  BY <1>1, <1>3, <1>4, <1>6 DEF RangesOK
<1>8. ControlsOK(k)
  BY <1>1, <1>6, <1>7, FieldsOK
<1> QED BY <1>3, <1>5, <1>6, <1>8

\* Setting the gain or the flip: nothing else moves.
LEMMA SetGainFacts ==
    ASSUME NEW c, ControlsOK(c), NEW g \in Int
    PROVE  /\ ControlsOK(SetGain(c, g))
           /\ SetGain(c, g).emax = c.emax /\ SetGain(c, g).vblank = c.vblank
           /\ SetGain(c, g).mode = c.mode /\ SetGain(c, g).exposure = c.exposure
<1> DEFINE x == Clamp(g, 16, 1023)
           k == [c EXCEPT !.gain = x]
<1>1. /\ c \in ControlType /\ RangesOK(c.exposure, c.emax, c.gain, c.vblank)
      /\ c.vdef = Modes[1].vts - HEIGHT
  BY ControlFields
<1>2. x \in Int /\ 16 <= x /\ x <= 1023
  BY DEF Clamp
<1>3. SetGain(c, g) = k
  BY DEF SetGain
<1> HIDE DEF x
<1>4. k \in ControlType /\ k.emax = c.emax /\ k.exposure = c.exposure /\ k.mode = c.mode
      /\ k.gain = x /\ k.vblank = c.vblank /\ k.vdef = c.vdef
  BY <1>1, <1>2 DEF ControlType
<1> HIDE DEF k
<1>5. ControlsOK(k)
  <2>1. RangesOK(k.exposure, k.emax, k.gain, k.vblank)
    BY <1>1, <1>2, <1>4 DEF RangesOK
  <2> QED BY <1>1, <1>4, <2>1, FieldsOK
<1> QED BY <1>3, <1>4, <1>5

LEMMA SetFlipFacts ==
    ASSUME NEW c, ControlsOK(c), NEW b \in BOOLEAN
    PROVE  ControlsOK(SetFlip(c, b))
<1> DEFINE k == [c EXCEPT !.flip = b]
<1>1. /\ c \in ControlType /\ RangesOK(c.exposure, c.emax, c.gain, c.vblank)
      /\ c.vdef = Modes[1].vts - HEIGHT
  BY ControlFields
<1>2. k \in ControlType /\ k.emax = c.emax /\ k.exposure = c.exposure
      /\ k.gain = c.gain /\ k.vblank = c.vblank /\ k.vdef = c.vdef
  BY <1>1 DEF ControlType
<1>3. SetFlip(c, b) = k
  BY DEF SetFlip
<1> HIDE DEF k
<1> QED BY <1>1, <1>2, <1>3, FieldsOK

\* Setting the blanking: the exposure range follows, unless it had that value.
LEMMA SetVblankFacts ==
    ASSUME NEW c, ControlsOK(c), NEW v \in Int
    PROVE  /\ ControlsOK(SetVblank(c, v))
           /\ TIMING_MIN_VTS <= v /\ v <= TIMING_MAX_VTS - HEIGHT => SetVblank(c, v).vblank = v
           /\ c.exposure <= c.emax => SetVblank(c, v).exposure <= SetVblank(c, v).emax
           /\ SetVblank(c, v).mode = c.mode
           /\ \/ SetVblank(c, v) = c
              \/ SetVblank(c, v).emax = HEIGHT + SetVblank(c, v).vblank - Margin
<1> DEFINE x == Clamp(v, TIMING_MIN_VTS, TIMING_MAX_VTS - HEIGHT)
           k == [c EXCEPT !.vblank = x]
<1>1. /\ c \in ControlType /\ RangesOK(c.exposure, c.emax, c.gain, c.vblank)
      /\ c.vdef = Modes[1].vts - HEIGHT
  BY ControlFields
<1>2. /\ x \in Int /\ TIMING_MIN_VTS <= x /\ x <= TIMING_MAX_VTS - HEIGHT
      /\ (TIMING_MIN_VTS <= v /\ v <= TIMING_MAX_VTS - HEIGHT => x = v)
  BY DEF Clamp, TIMING_MIN_VTS, TIMING_MAX_VTS, HEIGHT
<1>3. SetVblank(c, v) = IF x = c.vblank THEN c ELSE Compensated(k)
  BY DEF SetVblank
<1> HIDE DEF x
<1>4. k \in ControlType /\ k.emax = c.emax /\ k.exposure = c.exposure /\ k.mode = c.mode
      /\ k.gain = c.gain /\ k.vblank = x /\ k.vdef = c.vdef
  BY <1>1, <1>2 DEF ControlType
<1> HIDE DEF k
<1>5. ControlsOK(k)
  <2>1. RangesOK(k.exposure, k.emax, k.gain, k.vblank)
    BY <1>1, <1>2, <1>4 DEF RangesOK
  <2> QED BY <1>1, <1>4, <2>1, FieldsOK
<1>6. CASE x = c.vblank
  <2>1. SetVblank(c, v) = c
    BY <1>3, <1>6
  <2> QED BY <1>2, <1>6, <2>1
<1>7. CASE x # c.vblank
  <2>1. SetVblank(c, v) = Compensated(k)
    BY <1>3, <1>7
  <2> QED BY <1>2, <1>4, <1>5, <2>1, CompensatedFacts
<1> QED BY <1>6, <1>7

\* Moving the exposure and its range leaves the controls in range.
LEMMA MovedFacts ==
    ASSUME NEW c, ControlsOK(c), NEW x \in Int, NEW e \in Int,
           1 <= x, x <= TIMING_MAX_VTS, 1 <= e, e <= TIMING_MAX_VTS
    PROVE  /\ ControlsOK([c EXCEPT !.emax = x, !.exposure = e])
           /\ [c EXCEPT !.emax = x, !.exposure = e].emax = x
           /\ [c EXCEPT !.emax = x, !.exposure = e].vblank = c.vblank
           /\ [c EXCEPT !.emax = x, !.exposure = e].mode = c.mode
<1> DEFINE d == [c EXCEPT !.emax = x]
           k == [d EXCEPT !.exposure = e]
<1>1. /\ c \in ControlType /\ RangesOK(c.exposure, c.emax, c.gain, c.vblank)
      /\ c.vdef = Modes[1].vts - HEIGHT
  BY ControlFields
<1>2. [c EXCEPT !.emax = x, !.exposure = e] = k
  BY <1>1, OneField DEF Names
<1>3. d \in ControlType /\ d.emax = x /\ d.gain = c.gain /\ d.vblank = c.vblank
      /\ d.vdef = c.vdef /\ d.mode = c.mode
  BY <1>1 DEF ControlType
<1> HIDE DEF d
<1>4. k \in ControlType /\ k.emax = x /\ k.exposure = e /\ k.gain = c.gain
      /\ k.vblank = c.vblank /\ k.vdef = c.vdef /\ k.mode = c.mode
  BY <1>3 DEF ControlType
<1> HIDE DEF k
<1>5. RangesOK(k.exposure, k.emax, k.gain, k.vblank)
  <2>1. RangesOK(e, x, c.gain, c.vblank)
    BY <1>1 DEF RangesOK
  <2> QED BY <1>4, <2>1, Zenon
<1> QED BY <1>1, <1>2, <1>4, <1>5, FieldsOK

\* A compensation the bus refused: everything moves but the exposure.
LEMMA UncompensatedFacts ==
    ASSUME NEW c, ControlsOK(c), NEW d, ControlsOK(d)
    PROVE  /\ ControlsOK(Uncompensated(c, d))
           /\ Uncompensated(c, d).exposure = d.exposure /\ Uncompensated(c, d).emax = c.emax
           /\ Uncompensated(c, d).vblank = c.vblank /\ Uncompensated(c, d).mode = c.mode
           /\ Uncompensated(c, d).gain = c.gain /\ Uncompensated(c, d).flip = c.flip
<1> DEFINE e == d.exposure
           k == [c EXCEPT !.exposure = e]
<1>1. /\ c \in ControlType /\ RangesOK(c.exposure, c.emax, c.gain, c.vblank)
      /\ c.vdef = Modes[1].vts - HEIGHT
  BY ControlFields
<1>2. e \in Int /\ 1 <= e /\ e <= TIMING_MAX_VTS
  BY ControlFields DEF RangesOK
<1>3. Uncompensated(c, d) = k
  BY DEF Uncompensated
<1> HIDE DEF e
<1>4. k \in ControlType /\ k.emax = c.emax /\ k.exposure = e /\ k.gain = c.gain
      /\ k.vblank = c.vblank /\ k.vdef = c.vdef /\ k.mode = c.mode /\ k.flip = c.flip
  BY <1>1, <1>2 DEF ControlType
<1> HIDE DEF k
<1>5. RangesOK(k.exposure, k.emax, k.gain, k.vblank)
  <2>1. RangesOK(e, c.emax, c.gain, c.vblank)
    BY <1>1, <1>2 DEF RangesOK
  <2> QED BY <1>4, <2>1, Zenon
<1>6. ControlsOK(k)
  BY <1>1, <1>4, <1>5, FieldsOK
<1> QED BY <1>3, <1>4, <1>6 DEF e

\* What selecting a mode the core accepts makes of the controls.
LEMMA EnterModeFacts ==
    ASSUME NEW c, ControlsOK(c), NEW m \in 1..3, RangeOK(m)
    PROVE  /\ ControlsOK(EnterMode(c, m))
           /\ EnterMode(c, m).exposure <= EnterMode(c, m).emax
           /\ EnterMode(c, m).emax = Modes[m].exposure_max
           /\ EnterMode(c, m).vblank = c.vblank /\ EnterMode(c, m).mode = m
<1> DEFINE e == Modes[m].exposure_def
           x == Modes[m].exposure_max
           g == GAIN_DEFAULT
           k1 == [c EXCEPT !.mode = m]
           k2 == [k1 EXCEPT !.emax = x]
           k3 == [k2 EXCEPT !.exposure = e]
           k4 == [k3 EXCEPT !.gain = g]
<1>1. /\ c \in ControlType /\ RangesOK(c.exposure, c.emax, c.gain, c.vblank)
      /\ c.vdef = Modes[1].vts - HEIGHT
  BY ControlFields
<1>2. /\ e \in Int /\ x \in Int /\ g \in Int /\ 1 <= e /\ e <= x /\ 1 <= x
      /\ x <= TIMING_MAX_VTS /\ e <= TIMING_MAX_VTS /\ 16 <= g /\ g <= 1023
  BY ModeFacts DEF RangeOK, TIMING_MAX_VTS, GAIN_DEFAULT
<1>3. EnterMode(c, m) = k4
  BY <1>1 DEF EnterMode, ControlType
<1> HIDE DEF e, x, g
<1>4. k1 \in ControlType /\ k1.mode = m /\ k1.vblank = c.vblank /\ k1.vdef = c.vdef
  BY <1>1 DEF ControlType
<1> HIDE DEF k1
<1>5. k2 \in ControlType /\ k2.mode = m /\ k2.vblank = c.vblank /\ k2.vdef = c.vdef
      /\ k2.emax = x
  BY <1>2, <1>4 DEF ControlType
<1> HIDE DEF k2
<1>6. k3 \in ControlType /\ k3.mode = m /\ k3.vblank = c.vblank /\ k3.vdef = c.vdef
      /\ k3.emax = x /\ k3.exposure = e
  BY <1>2, <1>5 DEF ControlType
<1> HIDE DEF k3
<1>7. k4 \in ControlType /\ k4.mode = m /\ k4.vblank = c.vblank /\ k4.vdef = c.vdef
      /\ k4.emax = x /\ k4.exposure = e /\ k4.gain = g
  BY <1>2, <1>6 DEF ControlType
<1> HIDE DEF k4
<1>8. RangesOK(k4.exposure, k4.emax, k4.gain, k4.vblank)
  BY <1>1, <1>2, <1>7 DEF RangesOK
<1>9. ControlsOK(k4)
  BY <1>1, <1>7, <1>8, FieldsOK
<1> QED BY <1>2, <1>3, <1>7, <1>9 DEF x

\* S_FMT: the default mode, when the core takes its exposure range.
LEMMA SetFormatFacts ==
    ASSUME NEW c, ControlsOK(c)
    PROVE  /\ ControlsOK(SetFormat(c))
           /\ c.exposure <= c.emax => SetFormat(c).exposure <= SetFormat(c).emax
           /\ SetFormat(c).vblank = c.vblank
           /\ c.mode = 1 => SetFormat(c).mode = 1
           /\ SetFormat(c) = c \/ SetFormat(c).emax = Modes[1].exposure_max
<1>1. CASE RangeOK(1)
  <2> DEFINE d == EnterMode(c, 1)
             v == Modes[1].vts - HEIGHT
             k == [d EXCEPT !.vdef = v]
  <2>1. /\ ControlsOK(d) /\ d.exposure <= d.emax /\ d.emax = Modes[1].exposure_max
        /\ d.vblank = c.vblank /\ d.mode = 1
    BY <1>1, EnterModeFacts
  <2>2. SetFormat(c) = k
    BY <1>1 DEF SetFormat
  <2>3. v \in Int
    BY ModeFacts DEF HEIGHT
  <2> HIDE DEF d
  <2>4. d \in ControlType /\ RangesOK(d.exposure, d.emax, d.gain, d.vblank) /\ d.vdef = v
    BY <2>1, ControlFields
  <2>5. k = d
    <3> HIDE DEF v
    <3> QED BY <2>4 DEF ControlType
  <2> HIDE DEF k
  <2> QED BY <2>1, <2>2, <2>5
<1>2. CASE ~RangeOK(1)
  BY <1>2 DEF SetFormat
<1> QED BY <1>1, <1>2

\* S_FRAME_INTERVAL.
LEMMA SetIntervalFacts ==
    ASSUME NEW c, ControlsOK(c), NEW m \in 1..3
    PROVE  ControlsOK(SetInterval(c, m)) /\ SetInterval(c, m).vblank = c.vblank
  BY EnterModeFacts DEF SetInterval

\* What probe makes of the controls.
LEMMA FreshFacts ==
    /\ ControlsOK(FreshControls) /\ FreshControls.mode = 1
    /\ FreshControls.exposure <= FreshControls.emax
    /\ FreshControls.vblank = Modes[1].vts - HEIGHT
    /\ FreshControls.emax = 32
<1> DEFINE v == Modes[1].vts - HEIGHT
           k == [mode |-> 1, exposure |-> 32, emax |-> 32, gain |-> GAIN_DEFAULT, flip |-> FALSE,
                 vblank |-> v, vdef |-> v]
<1>1. v \in Int /\ TIMING_MIN_VTS <= v /\ v <= TIMING_MAX_VTS - HEIGHT
  BY ModeFacts DEF HEIGHT, TIMING_MIN_VTS, TIMING_MAX_VTS
<1>2. k \in ControlType /\ k.mode = 1 /\ k.exposure = 32 /\ k.emax = 32 /\ k.gain = 16
      /\ k.vblank = v /\ k.vdef = v
  <2> HIDE DEF v
  <2> QED BY <1>1 DEF ControlType, GAIN_DEFAULT
<1>3. FreshControls = k
  BY DEF FreshControls
<1> HIDE DEF k
<1>4. RangesOK(k.exposure, k.emax, k.gain, k.vblank)
  BY <1>1, <1>2 DEF RangesOK, TIMING_MAX_VTS
<1>5. ControlsOK(k)
  BY <1>2, <1>4, FieldsOK
<1> QED BY <1>2, <1>3, <1>5

=============================================================================
