---------------------------- MODULE Ov7251Proofs ----------------------------
(***************************************************************************)
(* Proofs about the infrared sensor's driver, for every value of its module*)
(* parameters, every list of link frequencies it accepts, and whatever     *)
(* blankings, exposures and gains applications ask for.                    *)
(***************************************************************************)
EXTENDS Ov7251, Ov7251ControlsProofs

\* What can be left to do on the way up, and on the way down or back.
Raising ==
    { <<"io", "analog", "core", "xclk", "enable", "init">>,
      <<"analog", "core", "xclk", "enable", "init">>, <<"core", "xclk", "enable", "init">>,
      <<"xclk", "enable", "init">>, <<"enable", "init">>, <<"init">> }

Lowering ==
    { <<"xclk", "enable", "core", "analog", "io">>, <<"enable", "xclk", "core", "analog", "io">>,
      <<"enable", "core", "analog", "io">>, <<"xclk", "core", "analog", "io">>,
      <<"core", "analog", "io">>, <<"analog", "io">>, <<"io">>, <<>> }

Left(list) == {list[i] : i \in 1..Len(list)}

\* What is on in the middle of a sequence: on the way up, what is not left to do;
\* on the way down, what is.
Switching ==
    /\ pm = "idle" => todo = <<>> /\ why = "nobody"
    /\ pm = "ready" => todo = <<>> /\ on = [r \in Resources |-> 1]
    /\ pm = "raise" => /\ todo \in Raising
                       /\ on = [r \in Resources |-> IF r \in Left(todo) THEN 0 ELSE 1]
    /\ pm = "lower" => /\ todo \in Lowering
                       /\ on = [r \in Resources |-> IF r \in Left(todo) THEN 1 ELSE 0]

\* Who can be switching the power, and when.
Phases ==
    /\ pm \in {"raise", "ready"} => why \in {"probe", "stream"}
    /\ pm = "lower" => why # "nobody"
    /\ why = "probe" => ~bound /\ ~leaked /\ status = "suspended"
    /\ why = "stream" => bound /\ usage = 1 /\ (pm # "ready" => status = "suspended")
    /\ why \in {"suspend", "remove"} => pm = "lower" /\ bound /\ status = "active"
    /\ why # "stream" /\ ~wanted => usage = 0
    /\ wanted => bound /\ pm = "idle" /\ usage = 1 /\ status = "active"
    /\ leaked => ~bound /\ pm = "idle" /\ on = [r \in Resources |-> 1]
    /\ ~bound => status = "suspended"

PowerInv == PowerOK /\ Switching /\ Phases /\ SuppliesBalanced

-----------------------------------------------------------------------------
(* Power.                                                                  *)

\* What is on each of these lists.
LEMMA Lists ==
    /\ Left(<<"io", "analog", "core", "xclk", "enable", "init">>)
          = {"io", "analog", "core", "xclk", "enable", "init"}
    /\ Left(<<"analog", "core", "xclk", "enable", "init">>)
          = {"analog", "core", "xclk", "enable", "init"}
    /\ Left(<<"core", "xclk", "enable", "init">>) = {"core", "xclk", "enable", "init"}
    /\ Left(<<"xclk", "enable", "init">>) = {"xclk", "enable", "init"}
    /\ Left(<<"enable", "init">>) = {"enable", "init"}
    /\ Left(<<"init">>) = {"init"}
    /\ Left(<<"xclk", "enable", "core", "analog", "io">>)
          = {"xclk", "enable", "core", "analog", "io"}
    /\ Left(<<"enable", "xclk", "core", "analog", "io">>)
          = {"enable", "xclk", "core", "analog", "io"}
    /\ Left(<<"enable", "core", "analog", "io">>) = {"enable", "core", "analog", "io"}
    /\ Left(<<"xclk", "core", "analog", "io">>) = {"xclk", "core", "analog", "io"}
    /\ Left(<<"core", "analog", "io">>) = {"core", "analog", "io"}
    /\ Left(<<"analog", "io">>) = {"analog", "io"}
    /\ Left(<<"io">>) = {"io"}
    /\ Left(<<>>) = {}
<1>1. /\ 1..0 = {} /\ 1..1 = {1} /\ 1..2 = {1, 2} /\ 1..3 = {1, 2, 3}
      /\ 1..4 = {1, 2, 3, 4} /\ 1..5 = {1, 2, 3, 4, 5} /\ 1..6 = {1, 2, 3, 4, 5, 6}
  OBVIOUS
<1>2. Left(<<"io", "analog", "core", "xclk", "enable", "init">>)
         = {"io", "analog", "core", "xclk", "enable", "init"}
  BY <1>1 DEF Left
<1>3. Left(<<"analog", "core", "xclk", "enable", "init">>)
         = {"analog", "core", "xclk", "enable", "init"}
  BY <1>1 DEF Left
<1>4. Left(<<"core", "xclk", "enable", "init">>)
         = {"core", "xclk", "enable", "init"}
  BY <1>1 DEF Left
<1>5. Left(<<"xclk", "enable", "init">>)
         = {"xclk", "enable", "init"}
  BY <1>1 DEF Left
<1>6. Left(<<"enable", "init">>)
         = {"enable", "init"}
  BY <1>1 DEF Left
<1>7. Left(<<"init">>)
         = {"init"}
  BY <1>1 DEF Left
<1>8. Left(<<"xclk", "enable", "core", "analog", "io">>)
         = {"xclk", "enable", "core", "analog", "io"}
  BY <1>1 DEF Left
<1>9. Left(<<"enable", "xclk", "core", "analog", "io">>)
         = {"enable", "xclk", "core", "analog", "io"}
  BY <1>1 DEF Left
<1>10. Left(<<"enable", "core", "analog", "io">>)
         = {"enable", "core", "analog", "io"}
  BY <1>1 DEF Left
<1>11. Left(<<"xclk", "core", "analog", "io">>)
         = {"xclk", "core", "analog", "io"}
  BY <1>1 DEF Left
<1>12. Left(<<"core", "analog", "io">>)
         = {"core", "analog", "io"}
  BY <1>1 DEF Left
<1>13. Left(<<"analog", "io">>)
         = {"analog", "io"}
  BY <1>1 DEF Left
<1>14. Left(<<"io">>)
         = {"io"}
  BY <1>1 DEF Left
<1>15. Left(<<>>)
         = {}
  BY <1>1 DEF Left
<1> QED
  BY <1>2, <1>3, <1>4, <1>5, <1>6, <1>7, <1>8, <1>9, <1>10, <1>11, <1>12, <1>13, <1>14, <1>15

\* One step of set_power_on: one resource more, or, last, the register table.
LEMMA RaiseFacts ==
    ASSUME NEW s \in Raising
    PROVE  /\ s # <<>> /\ Head(s) \in Resources \cup {"init"}
           /\ Head(s) # "init" => /\ Tail(s) \in Raising /\ Head(s) \notin Left(Tail(s))
                                  /\ Left(s) = Left(Tail(s)) \cup {Head(s)}
           /\ Head(s) = "init" => Tail(s) = <<>> /\ Left(s) = {"init"}
<1>1. CASE s = <<"io", "analog", "core", "xclk", "enable", "init">>
  <2>1. s # <<>> /\ Head(s) = "io" /\ Tail(s) = <<"analog", "core", "xclk", "enable", "init">>
    BY <1>1
  <2> QED BY <1>1, <2>1, Lists DEF Raising, Resources
<1>2. CASE s = <<"analog", "core", "xclk", "enable", "init">>
  <2>1. s # <<>> /\ Head(s) = "analog" /\ Tail(s) = <<"core", "xclk", "enable", "init">>
    BY <1>2
  <2> QED BY <1>2, <2>1, Lists DEF Raising, Resources
<1>3. CASE s = <<"core", "xclk", "enable", "init">>
  <2>1. s # <<>> /\ Head(s) = "core" /\ Tail(s) = <<"xclk", "enable", "init">>
    BY <1>3
  <2> QED BY <1>3, <2>1, Lists DEF Raising, Resources
<1>4. CASE s = <<"xclk", "enable", "init">>
  <2>1. s # <<>> /\ Head(s) = "xclk" /\ Tail(s) = <<"enable", "init">>
    BY <1>4
  <2> QED BY <1>4, <2>1, Lists DEF Raising, Resources
<1>5. CASE s = <<"enable", "init">>
  <2>1. s # <<>> /\ Head(s) = "enable" /\ Tail(s) = <<"init">>
    BY <1>5
  <2> QED BY <1>5, <2>1, Lists DEF Raising, Resources
<1>6. CASE s = <<"init">>
  <2>1. s # <<>> /\ Head(s) = "init" /\ Tail(s) = <<>>
    BY <1>6
  <2> QED BY <1>6, <2>1, Lists DEF Raising, Resources
<1> QED BY <1>1, <1>2, <1>3, <1>4, <1>5, <1>6 DEF Raising

\* One step of set_power_off, or of the way back: one resource less.
LEMMA LowerFacts ==
    ASSUME NEW s \in Lowering, s # <<>>
    PROVE  /\ Tail(s) \in Lowering /\ Head(s) \in Resources
           /\ Head(s) \notin Left(Tail(s)) /\ Left(s) = Left(Tail(s)) \cup {Head(s)}
<1>1. CASE s = <<"xclk", "enable", "core", "analog", "io">>
  <2>1. Head(s) = "xclk" /\ Tail(s) = <<"enable", "core", "analog", "io">>
    BY <1>1
  <2>2. Tail(s) \in Lowering /\ Head(s) \in Resources
    BY <2>1 DEF Lowering, Resources
  <2> QED BY <1>1, <2>1, <2>2, Lists
<1>2. CASE s = <<"enable", "xclk", "core", "analog", "io">>
  <2>1. Head(s) = "enable" /\ Tail(s) = <<"xclk", "core", "analog", "io">>
    BY <1>2
  <2>2. Tail(s) \in Lowering /\ Head(s) \in Resources
    BY <2>1 DEF Lowering, Resources
  <2> QED BY <1>2, <2>1, <2>2, Lists
<1>3. CASE s = <<"enable", "core", "analog", "io">>
  <2>1. Head(s) = "enable" /\ Tail(s) = <<"core", "analog", "io">>
    BY <1>3
  <2>2. Tail(s) \in Lowering /\ Head(s) \in Resources
    BY <2>1 DEF Lowering, Resources
  <2> QED BY <1>3, <2>1, <2>2, Lists
<1>4. CASE s = <<"xclk", "core", "analog", "io">>
  <2>1. Head(s) = "xclk" /\ Tail(s) = <<"core", "analog", "io">>
    BY <1>4
  <2>2. Tail(s) \in Lowering /\ Head(s) \in Resources
    BY <2>1 DEF Lowering, Resources
  <2> QED BY <1>4, <2>1, <2>2, Lists
<1>5. CASE s = <<"core", "analog", "io">>
  <2>1. Head(s) = "core" /\ Tail(s) = <<"analog", "io">>
    BY <1>5
  <2>2. Tail(s) \in Lowering /\ Head(s) \in Resources
    BY <2>1 DEF Lowering, Resources
  <2> QED BY <1>5, <2>1, <2>2, Lists
<1>6. CASE s = <<"analog", "io">>
  <2>1. Head(s) = "analog" /\ Tail(s) = <<"io">>
    BY <1>6
  <2>2. Tail(s) \in Lowering /\ Head(s) \in Resources
    BY <2>1 DEF Lowering, Resources
  <2> QED BY <1>6, <2>1, <2>2, Lists
<1>7. CASE s = <<"io">>
  <2>1. Head(s) = "io" /\ Tail(s) = <<>>
    BY <1>7
  <2>2. Tail(s) \in Lowering /\ Head(s) \in Resources
    BY <2>1 DEF Lowering, Resources
  <2> QED BY <1>7, <2>1, <2>2, Lists
<1> QED BY <1>1, <1>2, <1>3, <1>4, <1>5, <1>6, <1>7 DEF Lowering

\* The way back from a failure begins with what is on.
LEMMA UnwindFacts ==
    ASSUME NEW s \in Raising, Head(s) # "enable"
    PROVE  /\ Unwind(Head(s)) \in Lowering
           /\ Left(Unwind(Head(s))) = Resources \ Left(s)
<1>1. CASE s = <<"io", "analog", "core", "xclk", "enable", "init">>
  <2>1. Head(s) = "io"
    BY <1>1
  <2>2. Unwind(Head(s)) = <<>>
    BY <2>1 DEF Unwind
  <2> QED BY <1>1, <2>2, Lists DEF Lowering, Resources
<1>2. CASE s = <<"analog", "core", "xclk", "enable", "init">>
  <2>1. Head(s) = "analog"
    BY <1>2
  <2>2. Unwind(Head(s)) = <<"io">>
    BY <2>1 DEF Unwind
  <2> QED BY <1>2, <2>2, Lists DEF Lowering, Resources
<1>3. CASE s = <<"core", "xclk", "enable", "init">>
  <2>1. Head(s) = "core"
    BY <1>3
  <2>2. Unwind(Head(s)) = <<"analog", "io">>
    BY <2>1 DEF Unwind
  <2> QED BY <1>3, <2>2, Lists DEF Lowering, Resources
<1>4. CASE s = <<"xclk", "enable", "init">>
  <2>1. Head(s) = "xclk"
    BY <1>4
  <2>2. Unwind(Head(s)) = <<"core", "analog", "io">>
    BY <2>1 DEF Unwind
  <2> QED BY <1>4, <2>2, Lists DEF Lowering, Resources
<1>5. CASE s = <<"enable", "init">>
  BY <1>5
<1>6. CASE s = <<"init">>
  <2>1. Head(s) = "init"
    BY <1>6
  <2>2. Unwind(Head(s)) = <<"enable", "xclk", "core", "analog", "io">>
    BY <2>1 DEF Unwind
  <2> QED BY <1>6, <2>2, Lists DEF Lowering, Resources
<1> QED BY <1>1, <1>2, <1>3, <1>4, <1>5, <1>6 DEF Raising
\* The sensor off, and on.
AllAt(n) == [r \in Resources |-> n]

\* Where the sequences begin.
LEMMA Beginnings ==
    /\ OnSequence \in Raising /\ OffSequence \in Lowering /\ OnSequence # <<>>
    /\ [r \in Resources |-> IF r \in Left(OnSequence) THEN 0 ELSE 1] = AllAt(0)
    /\ [r \in Resources |-> IF r \in Left(OffSequence) THEN 1 ELSE 0] = AllAt(1)
    /\ [r \in Resources |-> IF r \in Left(<<>>) THEN 1 ELSE 0] = AllAt(0)
<1>1. OnSequence \in Raising /\ OffSequence \in Lowering /\ OnSequence # <<>>
  BY DEF OnSequence, OffSequence, Raising, Lowering
<1>2. Resources \subseteq Left(OnSequence) /\ Resources \subseteq Left(OffSequence)
      /\ Left(<<>>) = {}
  BY Lists DEF OnSequence, OffSequence, Resources
<1> QED BY <1>1, <1>2 DEF AllAt

\* Nothing but the steps below changes power or usage.
LEMMA PowerKept ==
    ASSUME PowerInv, UNCHANGED <<bound, leaked, wanted, usage, status, powerVars>>
    PROVE  PowerInv'
  BY DEF PowerInv, PowerOK, Switching, Phases, SuppliesBalanced, powerVars

LEMMA RaiseKeeps == ASSUME PowerInv, Raise PROVE PowerInv'
<1> DEFINE s == todo
<1>1. s \in Raising /\ on = [r \in Resources |-> IF r \in Left(s) THEN 0 ELSE 1]
  BY DEF PowerInv, Switching, Raise
<1>2. CASE Head(s) # "init"
  <2>1. /\ Head(s) \in Resources /\ Tail(s) \in Raising /\ Head(s) \notin Left(Tail(s))
        /\ Left(s) = Left(Tail(s)) \cup {Head(s)} /\ Tail(s) # <<>>
    BY <1>1, <1>2, RaiseFacts
  <2>2. on' = [on EXCEPT ![Head(s)] = @ + 1] /\ pm' = "raise" /\ todo' = Tail(s)
    BY <1>2, <2>1 DEF Raise
  <2> HIDE DEF s
  <2>3. on' = [r \in Resources |-> IF r \in Left(Tail(s)) THEN 0 ELSE 1]
    BY <1>1, <2>1, <2>2
  <2>4. on' \in [Resources -> 0..1]
    BY <2>3
  <2> QED
    BY <2>1, <2>2, <2>3, <2>4
    DEF Raise, PowerInv, PowerOK, Switching, Phases, SuppliesBalanced
<1>3. CASE Head(s) = "init"
  <2>1. Tail(s) = <<>> /\ Left(s) = {"init"} /\ "init" \notin Resources
    BY <1>1, <1>3, RaiseFacts DEF Resources
  <2>2. on' = on /\ pm' = "ready" /\ todo' = <<>>
    BY <1>3, <2>1 DEF Raise
  <2> HIDE DEF s
  <2>3. on = [r \in Resources |-> 1]
    BY <1>1, <2>1
  <2> QED
    BY <2>2, <2>3 DEF Raise, PowerInv, PowerOK, Switching, Phases, SuppliesBalanced
<1> QED BY <1>2, <1>3

LEMMA LowerKeeps == ASSUME PowerInv, Lower PROVE PowerInv'
<1> DEFINE s == todo
<1>1. s \in Lowering /\ s # <<>> /\ on = [r \in Resources |-> IF r \in Left(s) THEN 1 ELSE 0]
  BY DEF PowerInv, Switching, Lower
<1>2. /\ Head(s) \in Resources /\ Tail(s) \in Lowering /\ Head(s) \notin Left(Tail(s))
      /\ Left(s) = Left(Tail(s)) \cup {Head(s)}
  BY <1>1, LowerFacts
<1>3. on' = [on EXCEPT ![Head(s)] = @ - 1] /\ pm' = "lower" /\ todo' = Tail(s)
  BY DEF Lower
<1> HIDE DEF s
<1>4. on' = [r \in Resources |-> IF r \in Left(Tail(s)) THEN 1 ELSE 0]
  BY <1>1, <1>2, <1>3
<1>5. on' \in [Resources -> 0..1]
  BY <1>4
<1> QED
  BY <1>2, <1>3, <1>4, <1>5 DEF Lower, PowerInv, PowerOK, Switching, Phases, SuppliesBalanced

LEMMA RaiseFailsKeeps == ASSUME PowerInv, RaiseFails PROVE PowerInv'
<1> DEFINE s == todo
<1>1. /\ s \in Raising /\ on = [r \in Resources |-> IF r \in Left(s) THEN 0 ELSE 1]
      /\ Head(s) # "enable"
  BY DEF PowerInv, Switching, RaiseFails
<1>2. Unwind(Head(s)) \in Lowering /\ Left(Unwind(Head(s))) = Resources \ Left(s)
  BY <1>1, UnwindFacts
<1>3. on' = on /\ pm' = "lower" /\ todo' = Unwind(Head(s)) /\ why' = why
  BY DEF RaiseFails, BeginLower
<1> HIDE DEF s
<1>4. on' = [r \in Resources |-> IF r \in Left(Unwind(Head(s))) THEN 1 ELSE 0]
  BY <1>1, <1>2, <1>3
<1> QED
  BY <1>2, <1>3, <1>4 DEF RaiseFails, PowerInv, PowerOK, Switching, Phases, SuppliesBalanced

\* Power and usage stay balanced in every step.
LEMMA PowerNext == ASSUME PowerInv, [Next]_vars PROVE PowerInv'
<1> USE DEF PowerInv, PowerOK, Switching, Phases, SuppliesBalanced, PowerDone, BeginRaise,
            BeginLower, powerVars, AllAt
<1>1. CASE Raise \/ RaiseFails \/ Lower
  BY <1>1, RaiseKeeps, RaiseFailsKeeps, LowerKeeps
<1>2. CASE Lowered
  <2>1. on = AllAt(0)
    BY <1>2, Beginnings DEF Lowered
  <2> QED BY <1>2, <2>1 DEF Lowered
<1>3. CASE Suspend BY <1>3, Beginnings DEF Suspend
<1>4. CASE Probe BY <1>4, Beginnings DEF Probe
<1>5. CASE ProbeSucceeds BY <1>5 DEF ProbeSucceeds
<1>6. CASE ChipAbsent BY <1>6, Beginnings DEF ChipAbsent
<1>7. CASE RegistrationFails BY <1>7 DEF RegistrationFails
<1>8. CASE Remove BY <1>8, Beginnings DEF Remove
<1>9. CASE StreamOn BY <1>9, Beginnings DEF StreamOn
<1>10. CASE StreamStarts BY <1>10 DEF StreamStarts
<1>11. CASE StreamFails BY <1>11 DEF StreamFails
<1>12. CASE StreamOff BY <1>12 DEF StreamOff
<1>13. CASE SetControl \/ SetActiveFormat \/ SetFrameInterval
  BY <1>13, PowerKept
  DEF SetControl, SetActiveFormat, SetFrameInterval, EntersMode, Apply, ApplyFails, ModeFails
<1>14. CASE WriteParameter
  BY <1>14, PowerKept DEF WriteParameter
<1>15. CASE UNCHANGED vars
  BY <1>15, PowerKept DEF vars
<1> QED
  BY <1>1, <1>2, <1>3, <1>4, <1>5, <1>6, <1>7, <1>8, <1>9, <1>10, <1>11, <1>12, <1>13, <1>14,
     <1>15
  DEF Next, Power

\* The sensor starts unbound and off.
LEMMA PowerInit == Init => PowerInv
  BY DEF Init, PowerInv, PowerOK, Switching, Phases, SuppliesBalanced

LEMMA PowerInvariance == Spec => []PowerInv
  BY PowerInit, PowerNext, PTL DEF Spec

\* Core is never on without io: it comes up after it, and goes down before it.
LEMMA CoreAfterIo == PowerInv => CoreNeedsIo
<1> SUFFICES ASSUME PowerInv, on["core"] > 0 PROVE on["io"] > 0
  BY DEF CoreNeedsIo
<1>1. "core" \in Resources /\ "io" \in Resources
  BY DEF Resources
<1>2. CASE pm = "idle"
  <2>1. on["io"] = on["core"]
    BY <1>1, <1>2 DEF PowerInv, SuppliesBalanced
  <2> QED BY <2>1
<1>3. CASE pm = "raise"
  <2>1. "io" \in Left(todo) => "core" \in Left(todo)
    BY <1>3, Lists DEF PowerInv, Switching, Raising
  <2> QED BY <1>1, <1>3, <2>1 DEF PowerInv, Switching
<1>4. CASE pm = "ready"
  BY <1>1, <1>4 DEF PowerInv, Switching
<1>5. CASE pm = "lower"
  <2>1. "core" \in Left(todo) => "io" \in Left(todo)
    BY <1>5, Lists DEF PowerInv, Switching, Lowering
  <2> QED BY <1>1, <1>5, <2>1 DEF PowerInv, Switching
<1> QED BY <1>2, <1>3, <1>4, <1>5 DEF PowerInv, PowerOK

\* Supplies, clock, enable line and usage count are balanced on the paths through
\* probe, s_stream, runtime PM and remove, the failing ones included but for a
\* registration that fails, which leaves all of them on; and core is never on
\* without io, at no step of the way.
THEOREM PowerIsBalanced == Spec => []PowerBalanced
<1>1. PowerInv => PowerBalanced
  BY CoreAfterIo DEF PowerInv, Phases, Switching, PowerBalanced, UsageBalanced, SuppliesBalanced
<1> QED BY <1>1, PowerInvariance, PTL

-----------------------------------------------------------------------------
(* The chip and the controls.                                              *)

ChipType ==
    [pll : 0..2, vts : Int, exposure : Int, gain : Int, flip : BOOLEAN, streaming : BOOLEAN,
     led : BOOLEAN]

\* What the registers hold, without the record they are fields of.
RegistersOK(v, e) == 0 <= v /\ v <= TIMING_MAX_VTS /\ 0 <= e /\ e <= TIMING_MAX_VTS

LEMMA ChipFields ==
    ASSUME NEW k, ChipOK(k)
    PROVE  /\ k \in ChipType /\ k.pll \in 0..2 /\ k.vts \in Int /\ k.exposure \in Int
           /\ k.gain \in Int /\ k.flip \in BOOLEAN /\ k.streaming \in BOOLEAN /\ k.led \in BOOLEAN
           /\ RegistersOK(k.vts, k.exposure)
<1>1. k \in ChipType
  BY DEF ChipOK, ChipType
<1>2. /\ k.pll \in 0..2 /\ k.vts \in Int /\ k.exposure \in Int
      /\ k.gain \in Int /\ k.flip \in BOOLEAN /\ k.streaming \in BOOLEAN /\ k.led \in BOOLEAN
  BY <1>1 DEF ChipType
<1> HIDE DEF ChipType
<1> QED BY <1>1, <1>2, Zenon DEF ChipOK, RegistersOK

LEMMA ChipFieldsOK ==
    ASSUME NEW k \in ChipType, RegistersOK(k.vts, k.exposure)
    PROVE  ChipOK(k)
  BY Zenon DEF ChipOK, ChipType, RegistersOK

\* The chip has the values the controls report.
Follows(k, c) ==
    /\ k.vts = HEIGHT + c.vblank /\ k.exposure = c.exposure
    /\ k.gain = c.gain /\ k.flip = c.flip

\* check_hwcfg: the index is that of an entry of link_freq.
LEMMA LinkIndex == link_freq_idx \in 1..2
<1> DEFINE Good(i) == LinkFrequencies[i] \in {link_freq[1], link_freq[2]}
           First(i) == Good(i) /\ \A j \in 1..i - 1 : ~Good(j)
           n == Len(LinkFrequencies)
<1>1. n \in Nat
  BY LinkAssumption
<1>2. FirstSupported = CHOOSE i \in 1..n : First(i)
  BY DEF FirstSupported
<1>3. PICK g \in 1..2 : g <= n /\ Good(g)
  BY LinkAssumption
<1> HIDE DEF Good, n
<1>4. \E i \in 1..n : First(i)
  <2>1. CASE Good(1)
    BY <1>1, <1>3, <2>1
  <2>2. CASE ~Good(1)
    BY <1>1, <1>3, <2>2
  <2> QED BY <2>1, <2>2
<1>5. FirstSupported \in 1..n /\ First(FirstSupported)
  BY <1>2, <1>4
<1>6. FirstSupported <= g
  BY <1>1, <1>3, <1>5
<1>7. FirstSupported \in 1..2
  BY <1>1, <1>3, <1>5, <1>6
<1> QED BY <1>7 DEF link_freq_idx

\* The frame length of a control fits the register it goes to.
LEMMA FrameFits ==
    ASSUME NEW c, ControlsOK(c)
    PROVE  /\ (HEIGHT + c.vblank) % 2^16 = HEIGHT + c.vblank
           /\ HEIGHT + c.vblank \in Int
           /\ RegistersOK(HEIGHT + c.vblank, c.exposure)
<1>1. c.vblank \in Int /\ c.exposure \in Int /\ RangesOK(c.exposure, c.emax, c.gain, c.vblank)
  BY ControlFields
<1>2. PICK v \in Int : v = c.vblank
  BY <1>1
<1>3. TIMING_MIN_VTS <= v /\ v <= TIMING_MAX_VTS - HEIGHT
  BY <1>1, <1>2, Zenon DEF RangesOK
<1>4. 0 <= HEIGHT + v /\ HEIGHT + v <= TIMING_MAX_VTS /\ HEIGHT + v \in Int
  BY <1>3 DEF HEIGHT, TIMING_MIN_VTS, TIMING_MAX_VTS
<1>5. HEIGHT + v < 2^16
  BY <1>4 DEF TIMING_MAX_VTS
<1>6. (HEIGHT + v) % 2^16 = HEIGHT + v
  BY <1>4, <1>5
<1>7. 1 <= c.exposure /\ c.exposure <= TIMING_MAX_VTS
  BY <1>1, Zenon DEF RangesOK
<1>8. RegistersOK(HEIGHT + v, c.exposure)
  BY <1>1, <1>4, <1>7 DEF RegistersOK
<1> QED BY <1>2, <1>4, <1>6, <1>8

\* The registers that hold the controls, in a chip that is started.
LEMMA WrittenFacts ==
    ASSUME NEW c, ControlsOK(c), NEW streams \in BOOLEAN, NEW lights \in BOOLEAN
    PROVE  /\ ChipOK(Written(c, streams, lights)) /\ Follows(Written(c, streams, lights), c)
           /\ Written(c, streams, lights).streaming = streams
           /\ Written(c, streams, lights).pll = link_freq_idx
<1> DEFINE t == (HEIGHT + c.vblank) % 2^16
           i == link_freq_idx
           k == [pll |-> i, vts |-> t, exposure |-> c.exposure, gain |-> c.gain, flip |-> c.flip,
                 streaming |-> streams, led |-> lights]
<1>1. c.exposure \in Int /\ c.gain \in Int /\ c.flip \in BOOLEAN
  BY ControlFields
<1>2. t \in Int /\ t = HEIGHT + c.vblank /\ RegistersOK(t, c.exposure)
  BY FrameFits
<1>3. i \in 0..2
  BY LinkIndex
<1>4. Written(c, streams, lights) = k
  BY DEF Written
<1> HIDE DEF t, i
<1>5. k \in ChipType /\ k.vts = t /\ k.exposure = c.exposure /\ k.gain = c.gain /\ k.flip = c.flip
      /\ k.streaming = streams /\ k.pll = i
  BY <1>1, <1>2, <1>3 DEF ChipType
<1> HIDE DEF k
<1>6. ChipOK(k)
  BY <1>2, <1>5, ChipFieldsOK
<1> QED BY <1>2, <1>4, <1>5, <1>6 DEF Follows, i

\* s_ctrl of a control: only a device in use is written to, and the PLLs, the
\* streaming and the illuminator stay as they are.
LEMMA ToChipFacts ==
    ASSUME ChipOK(chip), NEW c, ControlsOK(c)
    PROVE  /\ ChipOK(ToChip(c)) /\ (InUse => Follows(ToChip(c), c)) /\ (~InUse => ToChip(c) = chip)
           /\ ToChip(c).streaming = chip.streaming /\ ToChip(c).pll = chip.pll
<1>1. CASE ~InUse
  BY <1>1 DEF ToChip
<1>2. CASE InUse
  <2> DEFINE t == (HEIGHT + c.vblank) % 2^16
             k1 == [chip EXCEPT !.vts = t]
             k2 == [k1 EXCEPT !.exposure = c.exposure]
             k3 == [k2 EXCEPT !.gain = c.gain]
             k == [k3 EXCEPT !.flip = c.flip]
  <2>1. chip \in ChipType
    BY ChipFields
  <2>2. c.exposure \in Int /\ c.gain \in Int /\ c.flip \in BOOLEAN
    BY ControlFields
  <2>3. t \in Int /\ t = HEIGHT + c.vblank /\ RegistersOK(t, c.exposure)
    BY FrameFits
  <2>4. ToChip(c) = k
    BY <1>2 DEF ToChip
  <2> HIDE DEF t
  <2>5. k1 \in ChipType /\ k1.vts = t /\ k1.streaming = chip.streaming /\ k1.pll = chip.pll
    BY <2>1, <2>3 DEF ChipType
  <2> HIDE DEF k1
  <2>6. k2 \in ChipType /\ k2.vts = t /\ k2.streaming = chip.streaming /\ k2.pll = chip.pll
        /\ k2.exposure = c.exposure
    BY <2>2, <2>5 DEF ChipType
  <2> HIDE DEF k2
  <2>7. k3 \in ChipType /\ k3.vts = t /\ k3.streaming = chip.streaming /\ k3.pll = chip.pll
        /\ k3.exposure = c.exposure /\ k3.gain = c.gain
    BY <2>2, <2>6 DEF ChipType
  <2> HIDE DEF k3
  <2>8. k \in ChipType /\ k.vts = t /\ k.streaming = chip.streaming /\ k.pll = chip.pll
        /\ k.exposure = c.exposure /\ k.gain = c.gain /\ k.flip = c.flip
    BY <2>2, <2>7 DEF ChipType
  <2> HIDE DEF k
  <2>9. ChipOK(k)
    BY <2>3, <2>8, ChipFieldsOK
  <2> QED BY <1>2, <2>3, <2>4, <2>8, <2>9 DEF Follows
<1> QED BY <1>1, <1>2

\* A change of the controls, whether the bus fails under it or not: they stay in
\* range, and a chip in use that followed them still does.
LEMMA ApplyFacts ==
    ASSUME ControlsOK(ctl), ChipOK(chip), NEW c, ControlsOK(c),
           Apply(c) \/ ApplyFails(c) \/ ModeFails(c)
    PROVE  /\ ControlsOK(ctl') /\ ChipOK(chip')
           /\ InUse /\ Follows(chip, ctl) => Follows(chip', ctl')
           /\ ~InUse => chip' = chip
           /\ chip'.streaming = chip.streaming /\ chip'.pll = chip.pll
<1> DEFINE x == c.emax
           e == c.exposure
           d == [ctl EXCEPT !.emax = x]
<1>1. /\ ctl \in ControlType /\ RangesOK(ctl.exposure, ctl.emax, ctl.gain, ctl.vblank)
      /\ ctl.vdef = Modes[1].vts - HEIGHT
  BY ControlFields
<1>2. x \in Int /\ e \in Int /\ RangesOK(e, x, c.gain, c.vblank)
  BY ControlFields
<1> HIDE DEF x, e
<1>3. d \in ControlType /\ d.emax = x /\ d.exposure = ctl.exposure /\ d.gain = ctl.gain
      /\ d.vblank = ctl.vblank /\ d.vdef = ctl.vdef /\ d.flip = ctl.flip
  BY <1>1, <1>2 DEF ControlType
<1>4. ControlsOK(d)
  <2>1. RangesOK(d.exposure, d.emax, d.gain, d.vblank)
    BY <1>1, <1>2, <1>3 DEF RangesOK
  <2> QED BY <1>1, <1>3, <2>1, FieldsOK
<1> HIDE DEF d
<1>5. 1 <= x /\ x <= TIMING_MAX_VTS /\ 1 <= e /\ e <= TIMING_MAX_VTS
  BY <1>2 DEF RangesOK
<1>6. ControlsOK([ctl EXCEPT !.emax = x, !.exposure = e])
  BY <1>2, <1>5, MovedFacts
<1>7. ControlsOK([ctl EXCEPT !.emax = x, !.exposure = Clamp(@, 1, x)])
  <2>1. ctl.exposure \in Int /\ 1 <= ctl.exposure /\ ctl.exposure <= TIMING_MAX_VTS
    BY ControlFields DEF RangesOK
  <2> DEFINE y == Clamp(ctl.exposure, 1, x)
  <2>2. y \in Int /\ 1 <= y /\ y <= TIMING_MAX_VTS
    BY <1>2, <1>5, <2>1 DEF Clamp, TIMING_MAX_VTS
  <2> HIDE DEF y
  <2>3. ControlsOK([ctl EXCEPT !.emax = x, !.exposure = y])
    BY <1>2, <1>5, <2>2, MovedFacts
  <2> QED BY <1>1, <2>3 DEF y, ControlType
<1>8. CASE Apply(c)
  BY <1>8, ToChipFacts DEF Apply
<1>9. CASE ApplyFails(c) /\ ctl' = d /\ chip' = chip
  BY <1>3, <1>4, <1>9 DEF ApplyFails, Follows
<1>10. CASE ControlsOK(ctl') /\ chip' = ToChip(ctl')
  BY <1>10, ToChipFacts
<1>11. ApplyFails(c) => (ctl' = d /\ chip' = chip) \/ (ControlsOK(ctl') /\ chip' = ToChip(ctl'))
  BY <1>6, Zenon DEF ApplyFails, d, x, e
<1>12. ModeFails(c) => ControlsOK(ctl') /\ chip' = ToChip(ctl')
  BY <1>7, Zenon DEF ModeFails, x
<1> QED BY <1>8, <1>9, <1>10, <1>11, <1>12

\* The flags start as Booleans and stay so.
LEMMA FlagsInit == Init => FlagsOK
  BY Zenon DEF Init, FlagsOK

LEMMA FlagsNext == ASSUME FlagsOK, [Next]_vars PROVE FlagsOK'
<1> USE DEF FlagsOK, powerVars
<1>1. CASE Raise BY <1>1, Zenon DEF Raise
<1>2. CASE Lower BY <1>2, Zenon DEF Lower
<1>3. CASE Lowered BY <1>3, Zenon DEF Lowered
<1>4. CASE RaiseFails BY <1>4, Zenon DEF RaiseFails
<1>5. CASE Suspend BY <1>5, Zenon DEF Suspend
<1>6. CASE Probe BY <1>6, Zenon DEF Probe
<1>7. CASE ProbeSucceeds BY <1>7, Zenon DEF ProbeSucceeds
<1>8. CASE ChipAbsent BY <1>8, Zenon DEF ChipAbsent
<1>9. CASE RegistrationFails BY <1>9, Zenon DEF RegistrationFails
<1>10. CASE Remove BY <1>10, Zenon DEF Remove
<1>11. CASE StreamOn BY <1>11, Zenon DEF StreamOn
<1>12. CASE StreamStarts BY <1>12, Zenon DEF StreamStarts
<1>13. CASE StreamFails BY <1>13, Zenon DEF StreamFails
<1>14. CASE StreamOff BY <1>14, Zenon DEF StreamOff
<1>15. CASE SetControl BY <1>15, Zenon DEF SetControl, Apply, ApplyFails
<1>16. CASE SetActiveFormat
  BY <1>16, Zenon DEF SetActiveFormat, EntersMode, Apply, ApplyFails, ModeFails
<1>17. CASE SetFrameInterval
  BY <1>17, Zenon DEF SetFrameInterval, EntersMode, Apply, ApplyFails, ModeFails
<1>18. CASE WriteParameter BY <1>18, Zenon DEF WriteParameter
<1>19. CASE UNCHANGED vars BY <1>19, Zenon DEF vars
<1> QED
  BY <1>1, <1>2, <1>3, <1>4, <1>5, <1>6, <1>7, <1>8, <1>9, <1>10, <1>11, <1>12, <1>13, <1>14,
     <1>15, <1>16, <1>17, <1>18, <1>19
  DEF Next, Power

\* Whoever writes to the chip has it powered: the handlers that look at the usage
\* count and the status, and the resumed s_stream.
LEMMA Powered ==
    ASSUME PowerInv
    PROVE  /\ pm = "ready" => on["enable"] = 1 /\ ~wanted
           /\ InUse /\ Unlocked => wanted
           /\ wanted => InUse /\ on["enable"] = 1
<1>1. "enable" \in Resources
  BY DEF Resources
<1>2. pm = "ready" => on["enable"] = 1 /\ ~wanted
  BY <1>1 DEF PowerInv, Switching, Phases
<1>3. InUse /\ Unlocked => wanted
  BY DEF PowerInv, PowerOK, Switching, Phases, InUse, Unlocked
<1>4. wanted => InUse /\ on["enable"] = 1
  <2>1. wanted => usage > 0 /\ status = "active" /\ pm = "idle" /\ ~leaked
    BY DEF PowerInv, Phases
  <2> QED BY <1>1, <2>1 DEF PowerInv, SuppliesBalanced, InUse
<1> QED BY <1>2, <1>3, <1>4

\* The tables fit the registers.
LEMMA TableFacts ==
    ASSUME NEW m \in 1..3
    PROVE  /\ TableOf(m).vts \in Int /\ 0 <= TableOf(m).vts /\ TableOf(m).vts <= TIMING_MAX_VTS
           /\ TableOf(m).led \in BOOLEAN
<1> DEFINE Fits(t) == t.vts \in Int /\ 0 <= t.vts /\ t.vts <= TIMING_MAX_VTS /\ t.led \in BOOLEAN
<1>1. Fits(setting_vga_30fps) /\ Fits(setting_vga_60fps) /\ Fits(setting_vga_90fps)
      /\ Fits(setting_vga_win)
  BY SMT DEF TIMING_MAX_VTS, setting_vga_30fps, setting_vga_60fps, setting_vga_90fps,
             setting_vga_win
<1>2. TableOf(m) \in {setting_vga_30fps, setting_vga_60fps, setting_vga_90fps, setting_vga_win}
  BY SMT DEF TableOf
<1> HIDE DEF Fits
<1>3. Fits(TableOf(m))
  BY <1>1, <1>2
<1> QED BY <1>3 DEF Fits

\* A start that failed before the controls were written.
LEMMA TablesWritten ==
    ASSUME ChipOK(chip), NEW m \in 1..3
    PROVE  ChipOK(pll_configure) /\ ChipOK(ModeTable(m))
<1> DEFINE i == link_freq_idx
           t == TableOf(m).vts
           l == TableOf(m).led
           p == [chip EXCEPT !.pll = i]
           k1 == [p EXCEPT !.vts = t]
           k2 == [k1 EXCEPT !.led = l]
           k == [k2 EXCEPT !.flip = FALSE]
<1>1. i \in 0..2
  BY LinkIndex
<1>2. t \in Int /\ 0 <= t /\ t <= TIMING_MAX_VTS /\ l \in BOOLEAN
  BY TableFacts
<1>3. chip \in ChipType /\ RegistersOK(chip.vts, chip.exposure)
  BY ChipFields
<1>4. pll_configure = p /\ ModeTable(m) = k
  BY <1>3 DEF pll_configure, ModeTable, ChipType
<1> HIDE DEF i, t, l
<1>5. p \in ChipType /\ p.vts = chip.vts /\ p.exposure = chip.exposure
  BY <1>1, <1>3 DEF ChipType
<1> HIDE DEF p
<1>6. ChipOK(p)
  BY <1>3, <1>5, ChipFieldsOK
<1>7. k1 \in ChipType /\ k1.vts = t /\ k1.exposure = chip.exposure
  BY <1>2, <1>5 DEF ChipType
<1> HIDE DEF k1
<1>8. k2 \in ChipType /\ k2.vts = t /\ k2.exposure = chip.exposure
  BY <1>2, <1>7 DEF ChipType
<1> HIDE DEF k2
<1>9. k \in ChipType /\ k.vts = t /\ k.exposure = chip.exposure
  BY <1>8 DEF ChipType
<1> HIDE DEF k
<1>10. ChipOK(k)
  BY <1>2, <1>3, <1>9, ChipFieldsOK DEF RegistersOK
<1> QED BY <1>4, <1>6, <1>10

\* ... or before the blanking was written.
LEMMA InSetupFacts ==
    ASSUME ChipOK(chip), NEW c, ControlsOK(c)
    PROVE  ChipOK(InSetup(c))
<1> DEFINE k0 == ModeTable(c.mode)
           k1 == [k0 EXCEPT !.exposure = c.exposure]
           k2 == [k1 EXCEPT !.gain = c.gain]
           k == [k2 EXCEPT !.flip = c.flip]
<1>1. /\ c.mode \in 1..3 /\ c.exposure \in Int /\ c.gain \in Int /\ c.flip \in BOOLEAN
      /\ 0 <= c.exposure /\ c.exposure <= TIMING_MAX_VTS
  BY ControlFields DEF RangesOK
<1>2. k0 \in ChipType /\ RegistersOK(k0.vts, k0.exposure)
  BY <1>1, TablesWritten, ChipFields
<1>3. InSetup(c) = k
  BY <1>2 DEF InSetup, ChipType
<1> HIDE DEF k0
<1>4. k1 \in ChipType /\ k1.vts = k0.vts /\ k1.exposure = c.exposure
  BY <1>1, <1>2 DEF ChipType
<1> HIDE DEF k1
<1>5. k2 \in ChipType /\ k2.vts = k0.vts /\ k2.exposure = c.exposure
  BY <1>1, <1>4 DEF ChipType
<1> HIDE DEF k2
<1>6. k \in ChipType /\ k.vts = k0.vts /\ k.exposure = c.exposure
  BY <1>1, <1>5 DEF ChipType
<1> HIDE DEF k
<1>7. RegistersOK(k.vts, k.exposure)
  BY <1>1, <1>2, <1>6 DEF RegistersOK
<1> QED BY <1>3, <1>6, <1>7, ChipFieldsOK

DriverInv ==
    PowerInv /\ FlagsOK /\ ControlsOK(ctl) /\ ChipOK(chip) /\ ChipFollowsControls

LEMMA BlankOK == ChipOK(Blank)
<1>1. Blank \in ChipType /\ Blank.vts = 0 /\ Blank.exposure = 0
  BY DEF Blank, ChipType
<1>2. RegistersOK(0, 0)
  BY DEF RegistersOK, TIMING_MAX_VTS
<1> QED BY <1>1, <1>2, ChipFieldsOK

\* Every control the driver offers keeps the controls in range.
LEMMA ChoicesFacts ==
    ASSUME ControlsOK(ctl), SetControl \/ SetActiveFormat \/ SetFrameInterval
    PROVE  \E c : ControlsOK(c) /\ (Apply(c) \/ ApplyFails(c) \/ ModeFails(c))
<1>1. CASE SetControl
  <2>1. CASE \E v \in VblankChoices :
                \/ Apply(SetVblank(ctl, v)) \/ ApplyFails(SetVblank(ctl, v))
                \/ InUse /\ Apply(Uncompensated(SetVblank(ctl, v), ctl))
    <3>1. PICK v \in VblankChoices :
             \/ Apply(SetVblank(ctl, v)) \/ ApplyFails(SetVblank(ctl, v))
             \/ InUse /\ Apply(Uncompensated(SetVblank(ctl, v), ctl))
      BY <2>1
    <3>2. v \in Int
      BY ChoicesAssumption
    <3>3. ControlsOK(SetVblank(ctl, v))
      BY <3>2, SetVblankFacts
    <3>4. ControlsOK(Uncompensated(SetVblank(ctl, v), ctl))
      BY <3>3, UncompensatedFacts
    <3> QED BY <3>1, <3>3, <3>4, Zenon
  <2>2. CASE \E e \in ExposureChoices :
                Apply(SetExposure(ctl, e)) \/ ApplyFails(SetExposure(ctl, e))
    <3>1. PICK e \in ExposureChoices :
             Apply(SetExposure(ctl, e)) \/ ApplyFails(SetExposure(ctl, e))
      BY <2>2
    <3>2. e \in Int
      BY ChoicesAssumption
    <3>3. ControlsOK(SetExposure(ctl, e))
      BY <3>2, SetExposureFacts
    <3> QED BY <3>1, <3>3, Zenon
  <2>3. CASE \E g \in GainChoices : Apply(SetGain(ctl, g)) \/ ApplyFails(SetGain(ctl, g))
    <3>1. PICK g \in GainChoices : Apply(SetGain(ctl, g)) \/ ApplyFails(SetGain(ctl, g))
      BY <2>3
    <3>2. g \in Int
      BY ChoicesAssumption
    <3>3. ControlsOK(SetGain(ctl, g))
      BY <3>2, SetGainFacts
    <3> QED BY <3>1, <3>3, Zenon
  <2>4. CASE \E b \in BOOLEAN : Apply(SetFlip(ctl, b)) \/ ApplyFails(SetFlip(ctl, b))
    <3>1. PICK b \in BOOLEAN : Apply(SetFlip(ctl, b)) \/ ApplyFails(SetFlip(ctl, b))
      BY <2>4
    <3>2. ControlsOK(SetFlip(ctl, b))
      BY SetFlipFacts
    <3> QED BY <3>1, <3>2, Zenon
  <2> QED BY <1>1, <2>1, <2>2, <2>3, <2>4, Zenon DEF SetControl
<1>2. CASE SetActiveFormat
  <2>1. ControlsOK(SetFormat(ctl))
    BY SetFormatFacts
  <2> QED BY <1>2, <2>1, Zenon DEF SetActiveFormat, EntersMode
<1>3. CASE SetFrameInterval
  <2>1. PICK m \in 1..3 : EntersMode(SetInterval(ctl, m))
    BY <1>3 DEF SetFrameInterval
  <2>2. ControlsOK(SetInterval(ctl, m))
    BY SetIntervalFacts
  <2> QED BY <2>1, <2>2, Zenon DEF EntersMode
<1> QED BY <1>1, <1>2, <1>3

\* The chip while it is used, in the terms of the lemmas above.
LEMMA FollowsForm ==
    ChipFollowsControls <=>
        /\ wanted => chip.streaming /\ chip.pll = link_freq_idx /\ Follows(chip, ctl)
        /\ on["enable"] = 0 => chip = Blank
  BY Zenon DEF ChipFollowsControls, Follows

\* A start of the stream, successful or not.
LEMMA StartFacts ==
    ASSUME PowerInv, FlagsOK, ControlsOK(ctl), ChipOK(chip), StreamStarts \/ StreamFails
    PROVE  /\ ControlsOK(ctl') /\ ChipOK(chip') /\ on' = on /\ on["enable"] = 1
           /\ wanted' => chip'.streaming /\ chip'.pll = link_freq_idx /\ Follows(chip', ctl')
<1>1. ctl.mode \in 1..3
  BY ControlFields
<1>2. \A c \in AfterSetup : ControlsOK(c) /\ c.mode \in 1..3
  <2>1. ControlsOK(HandlerSetup(ctl))
    BY CompensatedFacts DEF HandlerSetup
  <2>2. ControlsOK(Uncompensated(HandlerSetup(ctl), ctl))
    BY <2>1, UncompensatedFacts
  <2> QED BY <2>1, <2>2, ControlFields DEF AfterSetup
<1>3. TableOf(ctl.mode).led \in BOOLEAN
  BY <1>1, TableFacts
<1>4. ChipOK(pll_configure) /\ ChipOK(ModeTable(ctl.mode))
  BY <1>1, TablesWritten
<1>5. chip.streaming \in BOOLEAN
  BY ChipFields
<1>6. on["enable"] = 1 /\ ~wanted
  BY Powered DEF StreamStarts, StreamFails
<1>7. CASE StreamStarts
  <2> DEFINE l == ir_led \/ TableOf(ctl.mode).led
  <2>1. l \in BOOLEAN
    BY <1>3, Zenon DEF FlagsOK
  <2>2. ctl' \in AfterSetup /\ chip' = Written(ctl', TRUE, l) /\ on' = on
    BY <1>7, Zenon DEF StreamStarts
  <2> HIDE DEF l
  <2>3. PICK c \in AfterSetup : c = ctl'
    BY <2>2
  <2>4. ControlsOK(c) /\ chip' = Written(c, TRUE, l)
    BY <1>2, <2>2, <2>3
  <2>5. ChipOK(chip') /\ Follows(chip', c) /\ chip'.streaming = TRUE
        /\ chip'.pll = link_freq_idx
    BY <2>1, <2>4, WrittenFacts
  <2> QED BY <1>6, <2>2, <2>3, <2>4, <2>5
<1>8. CASE StreamFails
  <2>1. on' = on /\ wanted' = wanted
    BY <1>8 DEF StreamFails
  <2>2. CASE ctl' = ctl /\ chip' \in {chip, pll_configure, ModeTable(ctl.mode), InSetup(ctl)}
    <3>1. ChipOK(InSetup(ctl))
      BY <1>1, InSetupFacts
    <3> QED BY <1>4, <1>6, <2>1, <2>2, <3>1
  <2>3. CASE ctl' \in AfterSetup /\ chip' = InSetup(ctl')
    <3>1. PICK c \in AfterSetup : c = ctl'
      BY <2>3
    <3>2. ControlsOK(c) /\ ChipOK(InSetup(c))
      BY <1>2, InSetupFacts
    <3> QED BY <1>6, <2>1, <2>3, <3>1, <3>2
  <2>4. CASE /\ ctl' \in AfterSetup
             /\ \E lights \in BOOLEAN, streams \in BOOLEAN :
                   chip' = Written(ctl', chip.streaming \/ streams, lights)
    <3>1. PICK lights \in BOOLEAN, streams \in BOOLEAN :
             chip' = Written(ctl', chip.streaming \/ streams, lights)
      BY <2>4
    <3> DEFINE b == chip.streaming \/ streams
    <3>2. b \in BOOLEAN
      BY <1>5, Zenon
    <3>3. PICK c \in AfterSetup : c = ctl'
      BY <2>4
    <3>4. ControlsOK(c) /\ chip' = Written(c, b, lights)
      BY <1>2, <3>1, <3>3
    <3> HIDE DEF b
    <3>5. ChipOK(chip')
      BY <3>2, <3>4, WrittenFacts
    <3> QED BY <1>6, <2>1, <3>3, <3>4, <3>5
  <2> QED BY <1>8, <2>2, <2>3, <2>4, Zenon DEF StreamFails
<1> QED BY <1>7, <1>8

\* The chip and the controls keep up with each other in every step.
LEMMA DriverNext == ASSUME DriverInv, [Next]_vars PROVE DriverInv'
<1>1. PowerInv' /\ FlagsOK'
  BY PowerNext, FlagsNext DEF DriverInv
<1> DEFINE Goal == ControlsOK(ctl') /\ ChipOK(chip') /\ ChipFollowsControls'
<1>2. /\ PowerInv /\ FlagsOK /\ ControlsOK(ctl) /\ ChipOK(chip)
      /\ wanted => chip.streaming /\ chip.pll = link_freq_idx /\ Follows(chip, ctl)
      /\ on["enable"] = 0 => chip = Blank
  BY FollowsForm, Zenon DEF DriverInv
<1>3. SUFFICES /\ ControlsOK(ctl') /\ ChipOK(chip')
               /\ wanted' => chip'.streaming /\ chip'.pll = link_freq_idx /\ Follows(chip', ctl')
               /\ on'["enable"] = 0 => chip' = Blank
  BY <1>1, Zenon DEF DriverInv, ChipFollowsControls, Follows
<1>4. /\ pm = "ready" => on["enable"] = 1 /\ ~wanted
      /\ InUse /\ Unlocked => wanted
      /\ wanted => InUse /\ on["enable"] = 1
  BY <1>2, Powered
<1>5. pm # "idle" => ~wanted
  BY <1>2 DEF PowerInv, Phases
<1>6. "enable" \in Resources /\ on \in [Resources -> 0..1]
  BY <1>2 DEF Resources, PowerInv, PowerOK
<1>7. CASE Raise
  <2>1. CASE chip' = Blank
    BY <1>2, <1>5, <1>7, <2>1, BlankOK DEF Raise
  <2>2. CASE chip' = chip /\ Head(todo) \in Resources
    <3>1. on' = [on EXCEPT ![Head(todo)] = @ + 1] \/ on' = on
      BY <1>7 DEF Raise
    <3>2. on'["enable"] = 0 => on["enable"] = 0
      BY <1>6, <2>2, <3>1
    <3> QED BY <1>2, <1>5, <1>7, <2>2, <3>2 DEF Raise
  <2> QED BY <1>7, <2>1, <2>2 DEF Raise
<1>8. CASE Lower
  BY <1>2, <1>5, <1>8, BlankOK DEF Lower
<1>9. CASE UNCHANGED <<wanted, on, ctl, chip>>
  BY <1>2, <1>9
<1>10. CASE Probe
  BY <1>2, <1>5, <1>10, FreshFacts DEF Probe, BeginRaise, PowerInv, Phases
<1>11. CASE ProbeSucceeds
  BY <1>2, <1>4, <1>11, SetFormatFacts DEF ProbeSucceeds
<1>12. CASE StreamStarts \/ StreamFails
  BY <1>2, <1>12, StartFacts
<1>13. CASE StreamOff
  <2>1. PICK s \in BOOLEAN, l \in BOOLEAN : chip' = [chip EXCEPT !.streaming = s, !.led = l]
    BY <1>13 DEF StreamOff
  <2>2. ChipOK(chip')
    <3>1. chip \in ChipType /\ RegistersOK(chip.vts, chip.exposure)
      BY <1>2, ChipFields
    <3> DEFINE k1 == [chip EXCEPT !.streaming = s]
               k == [k1 EXCEPT !.led = l]
    <3>2. chip' = k
      BY <2>1, <3>1 DEF ChipType
    <3>3. k1 \in ChipType /\ k1.vts = chip.vts /\ k1.exposure = chip.exposure
      BY <3>1 DEF ChipType
    <3> HIDE DEF k1
    <3>4. k \in ChipType /\ k.vts = chip.vts /\ k.exposure = chip.exposure
      BY <3>3 DEF ChipType
    <3> HIDE DEF k
    <3> QED BY <3>1, <3>2, <3>4, ChipFieldsOK
  <2>3. ctl' = ctl /\ on' = on /\ ~wanted' /\ on["enable"] = 1
    BY <1>4, <1>13 DEF StreamOff, powerVars
  <2> QED BY <1>2, <2>2, <2>3
<1>14. CASE SetControl \/ SetActiveFormat \/ SetFrameInterval
  <2>1. PICK c : ControlsOK(c) /\ (Apply(c) \/ ApplyFails(c) \/ ModeFails(c))
    BY <1>2, <1>14, ChoicesFacts
  <2>2. /\ ControlsOK(ctl') /\ ChipOK(chip')
        /\ InUse /\ Follows(chip, ctl) => Follows(chip', ctl')
        /\ ~InUse => chip' = chip
        /\ chip'.streaming = chip.streaming /\ chip'.pll = chip.pll
    BY <1>2, <2>1, ApplyFacts
  <2>3. wanted' = wanted /\ on' = on /\ Unlocked
    BY <2>1 DEF Apply, ApplyFails, ModeFails, powerVars
  <2>4. on["enable"] = 0 => chip' = Blank
    BY <1>2, <1>4, <2>2, <2>3
  <2>5. wanted => chip'.streaming /\ chip'.pll = link_freq_idx /\ Follows(chip', ctl')
    BY <1>2, <1>4, <2>2, Zenon
  <2> QED BY <2>2, <2>3, <2>4, <2>5
<1> QED
  BY <1>7, <1>8, <1>9, <1>10, <1>11, <1>12, <1>13, <1>14
  DEF Next, Power, Lowered, RaiseFails, BeginLower, Suspend, ChipAbsent, RegistrationFails, Remove,
      StreamOn, BeginRaise, PowerDone, WriteParameter, vars, powerVars

LEMMA DriverInit == Init => DriverInv
<1> SUFFICES ASSUME Init PROVE DriverInv
  OBVIOUS
<1>1. PowerInv /\ FlagsOK
  BY PowerInit, FlagsInit
<1>2. ctl = FreshControls /\ chip = Blank /\ ~wanted
  BY DEF Init
<1>3. ControlsOK(ctl) /\ ChipOK(chip)
  BY <1>2, FreshFacts, BlankOK
<1> QED BY <1>1, <1>2, <1>3, Zenon DEF DriverInv, ChipFollowsControls

LEMMA DriverInvariance == Spec => []DriverInv
  BY DriverInit, DriverNext, PTL DEF Spec

\* The types of all variables: the exposure, its range and the frame length stay
\* what the chip's 16-bit registers hold.
THEOREM TypeCorrect == Spec => []TypeOK
<1>1. DriverInv => TypeOK
  BY Zenon DEF DriverInv, PowerInv, TypeOK
<1> QED BY <1>1, DriverInvariance, PTL

\* While a stream runs the chip has the link frequency and the values the controls
\* report, whatever was set before, between and while streams, and with writes
\* failing anywhere; and a chip without power is never written.
THEOREM ChipFollows == Spec => []ChipFollowsControls
<1>1. DriverInv => ChipFollowsControls
  BY DEF DriverInv
<1> QED BY <1>1, DriverInvariance, PTL

=============================================================================
