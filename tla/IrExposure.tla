----------------------------- MODULE IrExposure -----------------------------
(***************************************************************************)
(* The exposure loop of the infrared bridge (run_session in                *)
(* src/bridges/surface-ir-bridge): a few times a second it compares the    *)
(* mean of the outgoing 8-bit frame with TARGET_MEAN and spends the        *)
(* correction on one of three knobs, exposure (lines), analogue gain, and  *)
(* a digital gain applied when 10 bits become 8.                           *)
(*                                                                         *)
(* The numbers are the code's own, with their truncations.  The digital    *)
(* gain, a float in the code, is kept in thousandths.  The scene is        *)
(* external: a uniformly lit one, whose 10-bit level is proportional to    *)
(* exposure and gain up to saturation, with the ratio scene = <<a, b>>.    *)
(***************************************************************************)
EXTENDS Integers

CONSTANTS
    EXPOSURE_MIN,       \* of the driver's range
    ExposureCeilings,   \* values exposure_max can have in a session
    Scenes,             \* pairs <<a, b>>: level = exposure * gain * a / b
    MaxChanges          \* bound: how often the scene changes

EXPOSURE_START == 800

\* A session can start at EXPOSURE_START; the driver's minimum is one line.
ASSUME ExposureAssumption ==
    /\ EXPOSURE_MIN \in Nat \ {0} /\ EXPOSURE_MIN <= EXPOSURE_START
    /\ MaxChanges \in Nat
    /\ \A max \in ExposureCeilings : max \in Nat /\ EXPOSURE_MIN < max
    /\ \A scene \in Scenes : scene[1] \in Nat /\ scene[2] \in Nat \ {0}

TARGET_MEAN == 110
GAIN_MIN == 16
GAIN_MAX == 1023
DIGITAL_ONE == 1000
DIGITAL_MAX == 6000
GAIN_START == 256

VARIABLES exposure, gain, digital, exposure_max, scene, changes

knobs == <<exposure, gain, digital>>
vars == <<knobs, exposure_max, scene, changes>>

Lesser(a, b) == IF a < b THEN a ELSE b
Greater(a, b) == IF a > b THEN a ELSE b

TypeOK ==
    /\ exposure \in EXPOSURE_MIN..exposure_max
    /\ gain \in GAIN_MIN..GAIN_MAX
    /\ digital \in DIGITAL_ONE..DIGITAL_MAX
    /\ exposure_max \in ExposureCeilings
    /\ scene \in Scenes
    /\ changes \in 0..MaxChanges

\* A session's first frame.
Init ==
    /\ exposure_max \in ExposureCeilings
    /\ exposure = Lesser(EXPOSURE_START, exposure_max)
    /\ gain = GAIN_START /\ digital = DIGITAL_ONE
    /\ scene \in Scenes /\ changes = 0

-----------------------------------------------------------------------------
\* What the sensor makes of the scene: 10 bits.
Level == Lesser(1023, (exposure * gain * scene[1]) \div scene[2])

\* The mean of the 8-bit frame.
mean == IF digital = DIGITAL_ONE THEN Level \div 4
        ELSE Lesser(255, (Level * digital) \div (4 * DIGITAL_ONE))

InBand == 4 * mean >= 3 * TARGET_MEAN /\ 10 * mean <= 13 * TARGET_MEAN

\* Mutant: a fixed step up or down.
Scaled_Coarse(n) == IF mean > TARGET_MEAN THEN (2 * n) \div 5 ELSE 2 * n

\* int(n * factor), factor being TARGET_MEAN / mean held between 0.4 and 2.
Scaled(n) ==
    IF 5 * TARGET_MEAN < 2 * mean THEN (2 * n) \div 5
    ELSE IF TARGET_MEAN > 2 * Greater(mean, 1) THEN 2 * n
    ELSE (n * TARGET_MEAN) \div Greater(mean, 1)

\* Mutant: gain is given back before the digital gain.
Darker_GainFirst ==
    <<exposure, IF gain > GAIN_MIN THEN Greater(Scaled(gain), GAIN_MIN) ELSE gain,
      IF gain > GAIN_MIN THEN digital ELSE Greater(Scaled(digital), DIGITAL_ONE)>>

\* factor < 1: digital gain first, then analogue gain, then exposure.
Darker ==
    IF digital > DIGITAL_ONE THEN <<exposure, gain, Greater(Scaled(digital), DIGITAL_ONE)>>
    ELSE IF gain > GAIN_MIN THEN <<exposure, Greater(Scaled(gain), GAIN_MIN), digital>>
    ELSE <<Greater(Scaled(exposure), EXPOSURE_MIN), gain, digital>>

\* Mutant: exposure is not held at its ceiling.
Brighter_Unclamped ==
    IF exposure < exposure_max THEN <<Scaled(exposure), gain, digital>>
    ELSE IF gain < GAIN_MAX THEN <<exposure, Lesser(Scaled(gain), GAIN_MAX), digital>>
    ELSE <<exposure, gain, Lesser(Scaled(digital), DIGITAL_MAX)>>

\* Mutant: the digital gain is forgotten.
Brighter_NoDigital ==
    IF exposure < exposure_max THEN <<Lesser(Scaled(exposure), exposure_max), gain, digital>>
    ELSE <<exposure, Lesser(Scaled(gain), GAIN_MAX), digital>>

\* factor >= 1: exposure first, then analogue gain, then digital gain.
Brighter ==
    IF exposure < exposure_max THEN <<Lesser(Scaled(exposure), exposure_max), gain, digital>>
    ELSE IF gain < GAIN_MAX THEN <<exposure, Lesser(Scaled(gain), GAIN_MAX), digital>>
    ELSE <<exposure, gain, Lesser(Scaled(digital), DIGITAL_MAX)>>

\* The knobs after a correction.
Corrected ==
    IF InBand THEN knobs ELSE IF mean > TARGET_MEAN THEN Darker ELSE Brighter

\* One turn of the exposure loop that moves a knob.
Adjust ==
    /\ Corrected # knobs
    /\ exposure' = Corrected[1] /\ gain' = Corrected[2] /\ digital' = Corrected[3]
    /\ UNCHANGED <<exposure_max, scene, changes>>

ChangeScene ==
    /\ changes < MaxChanges /\ changes' = changes + 1
    /\ scene' \in Scenes
    /\ UNCHANGED <<knobs, exposure_max>>

Next == Adjust \/ ChangeScene

(* The loop runs with every frame; nothing obliges the scene to change.    *)
Fairness == WF_vars(Adjust)

Spec == Init /\ [][Next]_vars /\ Fairness

-----------------------------------------------------------------------------
\* "last resort once the sensor is maxed out", "then analogue gain (noisiest)":
\* whatever scenes came before, digital gain is in use only with the sensor at
\* its limits, and more gain than a session starts with only at full exposure.
NoisyKnobsLast ==
    /\ digital > DIGITAL_ONE => gain = GAIN_MAX
    /\ gain > GAIN_START => exposure = exposure_max

\* When the loop has come to rest outside the band it has run out of knobs: all
\* at their upper or all at their lower limit.  The one other resting place is
\* an exposure of one or two lines, which int() never lets grow by less than a
\* whole line: the picture then stays too dark.
RestsInBandOrAtLimit ==
    Corrected = knobs =>
       \/ InBand
       \/ mean < TARGET_MEAN /\ knobs = <<exposure_max, GAIN_MAX, DIGITAL_MAX>>
       \/ mean > TARGET_MEAN /\ knobs = <<EXPOSURE_MIN, GAIN_MIN, DIGITAL_ONE>>
       \/ mean < TARGET_MEAN /\ exposure <= 2 /\ exposure < exposure_max

\* In a scene that has stopped changing the loop comes to rest: it does not
\* hunt between two settings.
Settles == <>[](Corrected = knobs)
=============================================================================
