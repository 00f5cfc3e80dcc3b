-------------------------- MODULE IrExposureProofs --------------------------
(***************************************************************************)
(* Proofs about the exposure loop of the infrared bridge, for every lower  *)
(* bound and every ceiling of the exposure, every scene and any number of  *)
(* changes of the scene.                                                   *)
(***************************************************************************)
EXTENDS IrExposure, TLAPS

\* The fields of the type, and what is assumed of the ceiling and the scene.
LEMMA TypeFacts ==
    ASSUME TypeOK
    PROVE  /\ exposure \in Int /\ gain \in Int /\ digital \in Int /\ exposure_max \in Int
           /\ EXPOSURE_MIN \in Int /\ 1 <= EXPOSURE_MIN /\ EXPOSURE_MIN < exposure_max
           /\ EXPOSURE_MIN <= exposure /\ exposure <= exposure_max
           /\ 16 <= gain /\ gain <= 1023 /\ 1000 <= digital /\ digital <= 6000
           /\ scene[1] \in Nat /\ scene[2] \in Nat \ {0}
<1>1. exposure_max \in Nat /\ EXPOSURE_MIN < exposure_max
  BY ExposureAssumption, Zenon DEF TypeOK
<1>2. EXPOSURE_MIN \in Nat \ {0}
  BY ExposureAssumption, Zenon
<1>3. scene \in Scenes
  BY DEF TypeOK
<1>4. scene[1] \in Nat /\ scene[2] \in Nat \ {0}
  BY ExposureAssumption, <1>3, Zenon
<1> QED BY <1>1, <1>2, <1>4 DEF TypeOK, GAIN_MIN, GAIN_MAX, DIGITAL_ONE, DIGITAL_MAX

\* The mean of a frame is a whole number.
LEMMA MeanIsInt == ASSUME TypeOK PROVE mean \in Int
<1>1. Level \in Int
  <2> DEFINE p == exposure * gain * scene[1]
  <2>1. p \in Int /\ scene[2] \in Nat \ {0}
    BY TypeFacts
  <2> HIDE DEF p
  <2>2. p \div scene[2] \in Int
    BY <2>1
  <2> QED BY <2>2 DEF Level, Lesser, p
<1>2. Level \div 4 \in Int
  BY <1>1
<1>3. (Level * digital) \div (4 * DIGITAL_ONE) \in Int
  <2>1. Level * digital \in Int
    BY <1>1, TypeFacts
  <2> QED BY <2>1 DEF DIGITAL_ONE
<1> QED BY <1>2, <1>3 DEF mean, Lesser

-----------------------------------------------------------------------------
(* The correction.                                                         *)

\* Dividing n * 110 by no more than 110 takes nothing away, and by at most 82 adds
\* at least one from 3 on; dividing it by more than 110 takes something away.
LEMMA Quotient ==
    ASSUME NEW n \in Nat, NEW d \in Nat \ {0}
    PROVE  LET q == (n * 110) \div d
           IN  /\ q \in Nat
               /\ d <= 110 => n <= q
               /\ d <= 82 /\ 2 < n => n < q
               /\ 110 <= d => q <= n
               /\ 110 < d /\ 0 < n => q < n
<1> DEFINE a == n * 110
           q == a \div d
<1>1. a \in Nat
  OBVIOUS
<1>2. q \in Nat /\ d * q <= a /\ a < d * q + d
  <2> HIDE DEF a
  <2> QED BY <1>1
<1> HIDE DEF q
<1>3. ASSUME NEW k \in Nat, k < q PROVE d * k + d <= a
  <2>1. k + 1 <= q
    BY <1>2, <1>3
  <2>2. d * (k + 1) <= d * q
    BY <1>2, <2>1
  <2>3. d * (k + 1) = d * k + d
    OBVIOUS
  <2> HIDE DEF a
  <2> QED BY <1>1, <1>2, <2>2, <2>3
<1>4. ASSUME NEW k \in Nat, q <= k PROVE a < d * k + d
  <2>1. d * q <= d * k
    BY <1>2, <1>4
  <2> HIDE DEF a
  <2> QED BY <1>1, <1>2, <2>1
<1>5. ASSUME d <= 110 PROVE n <= q
  <2> SUFFICES ASSUME q < n PROVE FALSE
    BY <1>2
  <2>1. n - 1 \in Nat /\ q <= n - 1
    BY <1>2
  <2>2. a < d * (n - 1) + d
    BY <1>4, <2>1
  <2>3. d * (n - 1) + d = d * n
    OBVIOUS
  <2>4. d * n <= 110 * n
    BY <1>5
  <2> QED BY <2>2, <2>3, <2>4
<1>6. ASSUME d <= 82, 2 < n PROVE n < q
  <2> SUFFICES ASSUME q <= n PROVE FALSE
    BY <1>2
  <2>1. a < d * n + d
    BY <1>4
  <2>2. d * n <= 82 * n
    BY <1>6
  <2> QED BY <1>6, <2>1, <2>2
<1>7. ASSUME 110 <= d PROVE q <= n
  <2> SUFFICES ASSUME n < q PROVE FALSE
    BY <1>2
  <2>1. d * n + d <= a
    BY <1>3
  <2>2. 110 * n <= d * n
    BY <1>7
  <2> QED BY <1>7, <2>1, <2>2
<1>8. ASSUME 110 < d, 0 < n PROVE q < n
  <2> SUFFICES ASSUME n <= q PROVE FALSE
    BY <1>2
  <2>1. d * n <= d * q
    BY <1>2
  <2>2. 111 * n <= d * n
    BY <1>8
  <2> QED BY <1>2, <1>8, <2>1, <2>2
<1> QED BY <1>2, <1>5, <1>6, <1>7, <1>8 DEF q

\* The factor is above one in a dark frame and below one in a bright one; outside the
\* band it moves every knob, but for an exposure of one or two lines.
LEMMA ScaledFacts ==
    ASSUME TypeOK, NEW n \in Nat, 1 <= n
    PROVE  /\ Scaled(n) \in Nat
           /\ mean <= TARGET_MEAN => n <= Scaled(n)
           /\ mean > TARGET_MEAN => Scaled(n) < n
           /\ mean <= 82 /\ 2 < n => n < Scaled(n)
<1> DEFINE m == mean
           d == Greater(m, 1)
<1>1. m \in Int
  BY MeanIsInt
<1>2. d \in Nat \ {0} /\ (m <= 110 => d <= 110) /\ (m <= 82 => d <= 82)
      /\ (m > 110 => d = m /\ 110 < d)
  <2> HIDE DEF m
  <2> QED BY <1>1 DEF Greater
<1>3. Scaled(n) = IF 550 < 2 * m THEN (2 * n) \div 5
                  ELSE IF 110 > 2 * d THEN 2 * n
                  ELSE (n * 110) \div d
  BY DEF Scaled, TARGET_MEAN
<1> HIDE DEF m
<1>4. CASE 550 < 2 * m
  <2>1. Scaled(n) = (2 * n) \div 5 /\ m > 110
    BY <1>1, <1>3, <1>4
  <2>2. (2 * n) \div 5 \in Nat /\ (2 * n) \div 5 < n
    OBVIOUS
  <2> QED BY <1>1, <2>1, <2>2 DEF m, TARGET_MEAN
<1>5. CASE ~(550 < 2 * m) /\ 110 > 2 * d
  <2>1. Scaled(n) = 2 * n /\ m <= 110
    BY <1>1, <1>2, <1>3, <1>5
  <2> QED BY <1>1, <2>1 DEF m, TARGET_MEAN
<1>6. CASE ~(550 < 2 * m) /\ ~(110 > 2 * d)
  <2>1. Scaled(n) = (n * 110) \div d
    BY <1>3, <1>6
  <2> HIDE DEF d
  <2>2. /\ (n * 110) \div d \in Nat
        /\ d <= 110 => n <= (n * 110) \div d
        /\ d <= 82 /\ 2 < n => n < (n * 110) \div d
        /\ 110 < d /\ 0 < n => (n * 110) \div d < n
    BY <1>2, Quotient
  <2> QED BY <1>1, <1>2, <2>1, <2>2 DEF m, TARGET_MEAN
<1> QED BY <1>4, <1>5, <1>6

-----------------------------------------------------------------------------
(* The knobs.                                                              *)

\* What holds of the knobs, whichever one a correction moves.
KnobsInRange(e, g, d) ==
    /\ e \in Int /\ g \in Int /\ d \in Int
    /\ EXPOSURE_MIN <= e /\ e <= exposure_max
    /\ GAIN_MIN <= g /\ g <= GAIN_MAX /\ DIGITAL_ONE <= d /\ d <= DIGITAL_MAX

InOrder(e, g, d) ==
    /\ d > DIGITAL_ONE => g = GAIN_MAX
    /\ g > GAIN_START => e = exposure_max

LEMMA BrighterKeeps ==
    ASSUME TypeOK, NoisyKnobsLast, mean <= TARGET_MEAN
    PROVE  /\ KnobsInRange(Brighter[1], Brighter[2], Brighter[3])
           /\ InOrder(Brighter[1], Brighter[2], Brighter[3])
<1> USE TypeFacts, ScaledFacts
    DEF NoisyKnobsLast, KnobsInRange, InOrder, Lesser, GAIN_MIN, GAIN_MAX, DIGITAL_ONE,
        DIGITAL_MAX, GAIN_START
<1>1. CASE exposure < exposure_max
  <2>1. Brighter = <<Lesser(Scaled(exposure), exposure_max), gain, digital>>
    BY <1>1 DEF Brighter
  <2>2. Scaled(exposure) \in Nat /\ exposure <= Scaled(exposure)
    OBVIOUS
  <2> QED BY <1>1, <2>1, <2>2
<1>2. CASE ~(exposure < exposure_max) /\ gain < GAIN_MAX
  <2>1. Brighter = <<exposure, Lesser(Scaled(gain), GAIN_MAX), digital>>
    BY <1>2 DEF Brighter
  <2>2. Scaled(gain) \in Nat /\ gain <= Scaled(gain)
    OBVIOUS
  <2> QED BY <1>2, <2>1, <2>2
<1>3. CASE ~(exposure < exposure_max) /\ ~(gain < GAIN_MAX)
  <2>1. Brighter = <<exposure, gain, Lesser(Scaled(digital), DIGITAL_MAX)>>
    BY <1>3 DEF Brighter
  <2>2. Scaled(digital) \in Nat /\ digital <= Scaled(digital)
    OBVIOUS
  <2> QED BY <1>3, <2>1, <2>2
<1> QED BY <1>1, <1>2, <1>3

LEMMA DarkerKeeps ==
    ASSUME TypeOK, NoisyKnobsLast, mean > TARGET_MEAN
    PROVE  /\ KnobsInRange(Darker[1], Darker[2], Darker[3])
           /\ InOrder(Darker[1], Darker[2], Darker[3])
<1> USE TypeFacts, ScaledFacts
    DEF NoisyKnobsLast, KnobsInRange, InOrder, Greater, GAIN_MIN, GAIN_MAX, DIGITAL_ONE,
        DIGITAL_MAX, GAIN_START
<1>1. CASE digital > DIGITAL_ONE
  <2>1. Darker = <<exposure, gain, Greater(Scaled(digital), DIGITAL_ONE)>>
    BY <1>1 DEF Darker
  <2>2. Scaled(digital) \in Nat /\ Scaled(digital) < digital
    OBVIOUS
  <2> QED BY <1>1, <2>1, <2>2
<1>2. CASE ~(digital > DIGITAL_ONE) /\ gain > GAIN_MIN
  <2>1. Darker = <<exposure, Greater(Scaled(gain), GAIN_MIN), digital>>
    BY <1>2 DEF Darker
  <2>2. Scaled(gain) \in Nat /\ Scaled(gain) < gain
    OBVIOUS
  <2> QED BY <1>2, <2>1, <2>2
<1>3. CASE ~(digital > DIGITAL_ONE) /\ ~(gain > GAIN_MIN)
  <2>1. Darker = <<Greater(Scaled(exposure), EXPOSURE_MIN), gain, digital>>
    BY <1>3 DEF Darker
  <2>2. Scaled(exposure) \in Nat /\ Scaled(exposure) < exposure
    OBVIOUS
  <2> QED BY <1>3, <2>1, <2>2
<1> QED BY <1>1, <1>2, <1>3

LEMMA KnobsInit == Init => TypeOK /\ NoisyKnobsLast
<1> SUFFICES ASSUME Init PROVE TypeOK /\ NoisyKnobsLast
  OBVIOUS
<1>1. exposure_max \in Nat /\ EXPOSURE_MIN < exposure_max /\ exposure_max \in ExposureCeilings
  BY ExposureAssumption DEF Init
<1>2. EXPOSURE_MIN \in Nat \ {0} /\ EXPOSURE_MIN <= 800 /\ MaxChanges \in Nat
  BY ExposureAssumption DEF EXPOSURE_START
<1>3. exposure = Lesser(EXPOSURE_START, exposure_max) /\ gain = 256 /\ digital = 1000
      /\ changes = 0 /\ scene \in Scenes
  BY DEF Init, GAIN_START, DIGITAL_ONE
<1> QED
  BY <1>1, <1>2, <1>3
  DEF TypeOK, NoisyKnobsLast, Lesser, EXPOSURE_START, GAIN_MIN, GAIN_MAX, DIGITAL_ONE, DIGITAL_MAX, GAIN_START

\* A correction spends the knobs in their order, and no change of the scene moves one.
LEMMA KnobsNext == TypeOK /\ NoisyKnobsLast /\ [Next]_vars => TypeOK' /\ NoisyKnobsLast'
<1> SUFFICES ASSUME TypeOK, NoisyKnobsLast, [Next]_vars PROVE TypeOK' /\ NoisyKnobsLast'
  OBVIOUS
<1>1. CASE Adjust
  <2>1. KnobsInRange(Corrected[1], Corrected[2], Corrected[3])
        /\ InOrder(Corrected[1], Corrected[2], Corrected[3])
    <3>1. CASE InBand
      <4>1. Corrected = <<exposure, gain, digital>>
        BY <3>1 DEF Corrected, knobs
      <4> QED
        BY <4>1, TypeFacts
        DEF KnobsInRange, InOrder, NoisyKnobsLast, GAIN_MIN, GAIN_MAX, DIGITAL_ONE, DIGITAL_MAX
    <3>2. CASE ~InBand /\ mean > TARGET_MEAN
      BY <3>2, DarkerKeeps DEF Corrected
    <3>3. CASE ~InBand /\ ~(mean > TARGET_MEAN)
      <4>1. mean <= TARGET_MEAN
        BY <3>3, MeanIsInt DEF TARGET_MEAN
      <4> QED BY <3>3, <4>1, BrighterKeeps DEF Corrected
    <3> QED BY <3>1, <3>2, <3>3
  <2>2. /\ exposure' = Corrected[1] /\ gain' = Corrected[2] /\ digital' = Corrected[3]
        /\ UNCHANGED <<exposure_max, scene, changes>>
    BY <1>1 DEF Adjust
  <2>3. /\ KnobsInRange(exposure', gain', digital') /\ InOrder(exposure', gain', digital')
        /\ exposure_max' = exposure_max
    BY <2>1, <2>2
  <2>4. /\ exposure' \in Int /\ EXPOSURE_MIN <= exposure' /\ exposure' <= exposure_max
        /\ gain' \in Int /\ GAIN_MIN <= gain' /\ gain' <= GAIN_MAX
        /\ digital' \in Int /\ DIGITAL_ONE <= digital' /\ digital' <= DIGITAL_MAX
    BY <2>3, Zenon DEF KnobsInRange
  <2>5. exposure' \in EXPOSURE_MIN..exposure_max'
    BY <2>3, <2>4, TypeFacts
  <2>6. gain' \in GAIN_MIN..GAIN_MAX /\ digital' \in DIGITAL_ONE..DIGITAL_MAX
    BY <2>4 DEF GAIN_MIN, GAIN_MAX, DIGITAL_ONE, DIGITAL_MAX
  <2>7. TypeOK'
    BY <2>2, <2>5, <2>6, Zenon DEF TypeOK
  <2>8. NoisyKnobsLast'
    BY <2>3, Zenon DEF NoisyKnobsLast, InOrder
  <2> QED BY <2>7, <2>8
<1>2. CASE ChangeScene
  <2>1. changes' \in 0..MaxChanges
    BY <1>2, ExposureAssumption DEF ChangeScene, TypeOK
  <2> QED BY <1>2, <2>1 DEF ChangeScene, knobs, TypeOK, NoisyKnobsLast
<1>3. CASE UNCHANGED vars
  BY <1>3 DEF vars, knobs, TypeOK, NoisyKnobsLast
<1> QED BY <1>1, <1>2, <1>3 DEF Next

\* The knobs stay in their ranges: no correction leaves a knob above its ceiling or
\* below its floor, whatever the frame.
THEOREM TypeCorrect == Spec => []TypeOK
  BY KnobsInit, KnobsNext, PTL DEF Spec

\* Whatever scenes came before, digital gain is in use only with the sensor's gain at
\* its limit, and more gain than a session starts with only at full exposure.
THEOREM NoiseComesLast == Spec => []NoisyKnobsLast
  BY KnobsInit, KnobsNext, PTL DEF Spec

-----------------------------------------------------------------------------
(* Where the loop rests.                                                   *)

\* Too dark: every knob is at its upper limit, or the exposure is a line or two.
LEMMA DarkRest ==
    ASSUME TypeOK, mean <= 82, Brighter = knobs
    PROVE  \/ knobs = <<exposure_max, GAIN_MAX, DIGITAL_MAX>>
           \/ exposure <= 2 /\ exposure < exposure_max
<1> USE TypeFacts, ScaledFacts
    DEF Lesser, GAIN_MIN, GAIN_MAX, DIGITAL_ONE, DIGITAL_MAX
<1>1. CASE exposure < exposure_max
  <2>1. Lesser(Scaled(exposure), exposure_max) = exposure
    BY <1>1 DEF Brighter, knobs
  <2>2. Scaled(exposure) \in Nat /\ (2 < exposure => exposure < Scaled(exposure))
    OBVIOUS
  <2> QED BY <1>1, <2>1, <2>2
<1>2. CASE ~(exposure < exposure_max) /\ gain < GAIN_MAX
  <2>1. Lesser(Scaled(gain), GAIN_MAX) = gain
    BY <1>2 DEF Brighter, knobs
  <2>2. Scaled(gain) \in Nat /\ gain < Scaled(gain)
    OBVIOUS
  <2> QED BY <1>2, <2>1, <2>2
<1>3. CASE ~(exposure < exposure_max) /\ ~(gain < GAIN_MAX)
  <2>1. Lesser(Scaled(digital), DIGITAL_MAX) = digital
    BY <1>3 DEF Brighter, knobs
  <2>2. Scaled(digital) \in Nat /\ digital < Scaled(digital)
    OBVIOUS
  <2>3. exposure = exposure_max /\ gain = 1023 /\ digital = 6000
    BY <1>3, <2>1, <2>2
  <2> QED BY <2>3 DEF knobs
<1> QED BY <1>1, <1>2, <1>3

\* Too bright: every knob is at its lower limit.
LEMMA BrightRest ==
    ASSUME TypeOK, mean > TARGET_MEAN, Darker = knobs
    PROVE  knobs = <<EXPOSURE_MIN, GAIN_MIN, DIGITAL_ONE>>
<1> USE TypeFacts, ScaledFacts
    DEF Greater, GAIN_MIN, GAIN_MAX, DIGITAL_ONE, DIGITAL_MAX
<1>1. CASE digital > DIGITAL_ONE
  <2>1. Greater(Scaled(digital), DIGITAL_ONE) = digital
    BY <1>1 DEF Darker, knobs
  <2>2. Scaled(digital) \in Nat /\ Scaled(digital) < digital
    OBVIOUS
  <2> QED BY <1>1, <2>1, <2>2
<1>2. CASE ~(digital > DIGITAL_ONE) /\ gain > GAIN_MIN
  <2>1. Greater(Scaled(gain), GAIN_MIN) = gain
    BY <1>2 DEF Darker, knobs
  <2>2. Scaled(gain) \in Nat /\ Scaled(gain) < gain
    OBVIOUS
  <2> QED BY <1>2, <2>1, <2>2
<1>3. CASE ~(digital > DIGITAL_ONE) /\ ~(gain > GAIN_MIN)
  <2>1. Greater(Scaled(exposure), EXPOSURE_MIN) = exposure
    BY <1>3 DEF Darker, knobs
  <2>2. Scaled(exposure) \in Nat /\ Scaled(exposure) < exposure
    OBVIOUS
  <2>3. exposure = EXPOSURE_MIN /\ gain = 16 /\ digital = 1000
    BY <1>3, <2>1, <2>2
  <2> QED BY <2>3 DEF knobs
<1> QED BY <1>1, <1>2, <1>3

\* When the loop rests outside the band it has run out of knobs, all at their upper or
\* all at their lower limit, or truncation holds the exposure at one or two lines.
THEOREM RestIsExplained == Spec => []RestsInBandOrAtLimit
<1>1. TypeOK => RestsInBandOrAtLimit
  <2> SUFFICES ASSUME TypeOK, Corrected = knobs, ~InBand
               PROVE  \/ mean < TARGET_MEAN /\ knobs = <<exposure_max, GAIN_MAX, DIGITAL_MAX>>
                      \/ mean > TARGET_MEAN /\ knobs = <<EXPOSURE_MIN, GAIN_MIN, DIGITAL_ONE>>
                      \/ mean < TARGET_MEAN /\ exposure <= 2 /\ exposure < exposure_max
    BY DEF RestsInBandOrAtLimit
  <2>1. mean \in Int /\ (mean <= TARGET_MEAN => mean <= 82 /\ mean < TARGET_MEAN)
    BY MeanIsInt DEF InBand, TARGET_MEAN
  <2>2. CASE mean > TARGET_MEAN
    BY <2>2, BrightRest DEF Corrected
  <2>3. CASE ~(mean > TARGET_MEAN)
    <3>1. mean <= 82 /\ mean < TARGET_MEAN
      BY <2>1, <2>3 DEF TARGET_MEAN
    <3> QED BY <2>3, <3>1, DarkRest DEF Corrected
  <2> QED BY <2>2, <2>3
<1> QED BY <1>1, TypeCorrect, PTL

=============================================================================
