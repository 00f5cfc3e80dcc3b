---------------------------- MODULE Int3472Proofs ---------------------------
(***************************************************************************)
(* Proofs about the power glue, for every firmware: any resources in any   *)
(* order, any number of them, any table sizes.                             *)
(***************************************************************************)
EXTENDS Int3472, FiniteSetTheorems, WellFoundedInduction, TLAPS

InWalk == phase \in {"parsing", "holding"}

\* Before a probe and after a failed or undone one the structure is empty; the
\* lookup table lives while the device is bound; the sensor is enumerated when a
\* probe has succeeded, and uses lines only while its driver is bound.
LifeCycle ==
    /\ phase \in {"unbound", "failed", "deferred"} =>
          /\ gpios = <<>> /\ leds = <<>> /\ regulators = <<>>
          /\ ~clk /\ ena_gpio = 0
    /\ listed => phase = "bound"
    /\ enumerated => phase \in {"unbound", "failed", "bound"}
    /\ sensor = "bound" => enumerated
    /\ sensor = "unbound" => used = {}

\* The walk is inside _CRS, and a clock it has found has a line.
WalkInside ==
    /\ ngpios < pos /\ pos <= Len(fw.crs) + 1
    /\ phase = "holding" => pos <= Len(fw.crs)
    /\ InWalk => (clk <=> ena_gpio # 0)

\* What the driver made, it made of lines it has passed.
PassedLines ==
    /\ ena_gpio < pos
    /\ \A i \in 1..Len(leds) : leds[i] < pos /\ leds[i] # ena_gpio
    /\ \A i \in 1..Len(regulators) : regulators[i].line < pos /\ regulators[i].line # ena_gpio
    /\ \A i \in 1..Len(gpios) : gpios[i].line < pos

\* The index into the _DSM is that of a line the walk has reached: the one being
\* handled, until a line without an entry stops it, while no entry was missed.  A
\* line in hand has an entry.
InSync ==
    /\ phase = "holding" => HasEntry
    /\ InWalk => \E k \in 1..pos :
                    /\ ngpios = Cardinality(GpiosBefore(k))
                    /\ ~missed => k = pos \/ (fw.crs[k].gpio /\ fw.crs[k].type = "NONE")

Inv == DataOK /\ LifeCycle /\ WalkInside /\ PassedLines /\ InSync /\ DescriptorsBalanced

\* A line's polarity makes "on" the level the firmware gives for it: a descriptor's
\* its logical 1, a reset's or powerdown's its logical 0.
OnIsLow(l) == fw.crs[l].on = 0

OnIsActive ==
    /\ \A l \in Lines : held[l] > 0 => (low[l] <=> OnIsLow(l))
    /\ \A i \in 1..Len(gpios) :
          gpios[i].low <=> ~(gpios[i].con \in {"reset", "powerdown"} <=> OnIsLow(gpios[i].line))

\* ... as long as no entry was missed.
PolarityOK == ~missed => OnIsActive

USE LimitsAssumption, FirmwareAssumption

-----------------------------------------------------------------------------
(* What a line is for.                                                     *)

\* The resources the firmware lists are a sequence, no longer than the bound.
LEMMA FirmwareFacts ==
    fw \in Firmware =>
       /\ Len(fw.crs) \in 0..MaxResources /\ fw.pwr1 \in Pwr1Names
       /\ \A l \in 1..Len(fw.crs) : fw.crs[l] \in Resource
<1> SUFFICES ASSUME fw \in Firmware PROVE FirmwareFacts!2
  OBVIOUS
<1>1. PICK n \in 0..MaxResources : fw.crs \in [1..n -> Resources]
  BY DEF Firmware
<1>2. n \in Nat /\ Len(fw.crs) = n
  BY <1>1
<1> QED BY <1>1, <1>2 DEF Firmware

\* int3472_get_con_id_and_polarity: a line the driver keeps is active high, and a
\* regulator gets a supply's name; a line for the sensor is active low exactly
\* when its name says that it is asserted to keep the sensor off.
LEMMA ConIdAndPolarity ==
    ASSUME fw \in Firmware, NEW type \in Types
    PROVE  LET p == get_con_id_and_polarity(type)
           IN  /\ p = [type |-> p.type, con |-> p.con, low |-> p.low]
               /\ p.low \in BOOLEAN
               /\ p.type \in OwnTypes => p.low = FALSE
               /\ p.type \in RegulatorTypes => p.con \in SupplyNames
               /\ p.type \in SensorTypes => /\ p.con \in SensorNames
                                            /\ p.low <=> p.con \in {"reset", "powerdown"}
<1> DEFINE mapped == {e \in int3472_gpio_map : e.hid = fw.hid /\ e.from = type}
           p == get_con_id_and_polarity(type)
<1>1. CASE mapped # {}
  <2>1. PICK e \in int3472_gpio_map : p = [type |-> e.to, con |-> e.con, low |-> FALSE]
    BY <1>1 DEF get_con_id_and_polarity
  <2> QED
    BY <2>1 DEF int3472_gpio_map, OwnTypes, RegulatorTypes, SensorTypes, SensorNames, SupplyNames
<1>2. CASE mapped = {}
  <2> DEFINE assertedOff == type \in {"RESET", "POWERDOWN"}
  <2>1. assertedOff \in BOOLEAN
    OBVIOUS
  <2>2. assertedOff <=> type \in {"RESET", "POWERDOWN"}
    OBVIOUS
  <2>3. p = [type |-> type, con |-> default_con_id[type], low |-> assertedOff]
    BY <1>2 DEF get_con_id_and_polarity
  <2>4. /\ default_con_id["RESET"] = "reset" /\ default_con_id["POWERDOWN"] = "powerdown"
        /\ default_con_id["HOTPLUG_DETECT"] = "hpd"
        /\ default_con_id["POWER_ENABLE"] = "avdd" /\ default_con_id["POWER1"] = fw.pwr1
        /\ default_con_id["HANDSHAKE"] = "dvdd"
    BY DEF default_con_id
  <2>5. fw.pwr1 \in Pwr1Names
    BY FirmwareFacts
  <2> HIDE DEF assertedOff
  <2> QED
    BY <2>1, <2>2, <2>3, <2>4, <2>5
    DEF Types, OwnTypes, RegulatorTypes, SensorTypes, SensorNames, SupplyNames
<1> QED BY <1>1, <1>2

\* Lines have different numbers of lines before them, so an entry of the _DSM is
\* the entry of one line.
LEMMA EntryOfLine ==
    ASSUME fw \in Firmware, NEW k \in 1..Len(fw.crs), fw.crs[k].gpio
    PROVE  DsmEntry(Cardinality(GpiosBefore(k))) = fw.crs[k]
<1>1. \A l \in 1..Len(fw.crs) :
         IsFiniteSet(GpiosBefore(l)) /\ Cardinality(GpiosBefore(l)) \in Nat
  <2> TAKE l \in 1..Len(fw.crs)
  <2>1. IsFiniteSet(1..l - 1)
    BY FirmwareFacts, FS_Interval
  <2> QED BY <2>1, FS_Subset, FS_CardinalityType DEF GpiosBefore
<1>2. ASSUME NEW a \in 1..Len(fw.crs), NEW b \in 1..Len(fw.crs), a < b, fw.crs[a].gpio
      PROVE  Cardinality(GpiosBefore(a)) < Cardinality(GpiosBefore(b))
  <2>1. /\ a \in GpiosBefore(b) /\ a \notin GpiosBefore(a)
        /\ GpiosBefore(a) \subseteq GpiosBefore(b)
    BY <1>2, FirmwareFacts DEF GpiosBefore
  <2>2. Cardinality(GpiosBefore(a)) <= Cardinality(GpiosBefore(b))
        /\ (Cardinality(GpiosBefore(a)) = Cardinality(GpiosBefore(b))
              => GpiosBefore(a) = GpiosBefore(b))
    BY <1>1, <2>1, FS_Subset
  <2> QED BY <1>1, <2>1, <2>2
<1> DEFINE n == Cardinality(GpiosBefore(k))
           Is(l) == fw.crs[l].gpio /\ Cardinality(GpiosBefore(l)) = n
           c == CHOOSE l \in 1..Len(fw.crs) : Is(l)
<1>3. c \in 1..Len(fw.crs) /\ Is(c)
  OBVIOUS
<1>4. c = k
  BY <1>1, <1>2, <1>3, FirmwareFacts
<1> QED BY <1>4 DEF DsmEntry

\* One more line makes the next index.
LEMMA NextIndex ==
    ASSUME fw \in Firmware, NEW k \in 1..Len(fw.crs)
    PROVE  /\ Cardinality(GpiosBefore(k)) \in Nat
           /\ Cardinality(GpiosBefore(k + 1)) =
                 IF fw.crs[k].gpio THEN Cardinality(GpiosBefore(k)) + 1
                 ELSE Cardinality(GpiosBefore(k))
<1>1. IsFiniteSet(GpiosBefore(k))
  <2>1. IsFiniteSet(1..k - 1)
    BY FirmwareFacts, FS_Interval
  <2> QED BY <2>1, FS_Subset DEF GpiosBefore
<1>2. CASE fw.crs[k].gpio
  <2>1. GpiosBefore(k + 1) = GpiosBefore(k) \cup {k} /\ k \notin GpiosBefore(k)
    BY <1>2, FirmwareFacts DEF GpiosBefore
  <2> QED BY <1>1, <1>2, <2>1, FS_AddElement, FS_CardinalityType
<1>3. CASE ~fw.crs[k].gpio
  <2>1. GpiosBefore(k + 1) = GpiosBefore(k)
    BY <1>3, FirmwareFacts DEF GpiosBefore
  <2> QED BY <1>1, <1>3, <2>1, FS_CardinalityType
<1> QED BY <1>2, <1>3

\* A set of numbers has a least one.
LEMMA LeastNat ==
    ASSUME NEW T, T \subseteq Nat, T # {}
    PROVE  \E m \in T : \A n \in T : m <= n
<1> DEFINE R == {ss \in Nat \X Nat : ss[1] < ss[2]}
<1>1. IsWellFoundedOn(R, Nat)
  BY NatLessThanWellFounded DEF OpToRel
<1>2. PICK m \in T : \A n \in T : <<n, m>> \notin R
  <2> HIDE DEF R
  <2> QED BY <1>1, WFMin
<1>3. \A n \in T : ~(n < m)
  BY <1>2
<1> QED BY <1>3

\* The index of a resource the walk has reached is that of a line it has reached.
LEMMA AskedLine ==
    ASSUME fw \in Firmware, pos \in 1..Len(fw.crs), fw.crs[pos].gpio, NEW k \in 1..pos
    PROVE  \E m \in 1..pos : fw.crs[m].gpio /\ GpiosBefore(m) = GpiosBefore(k)
<1> DEFINE T == {l \in k..pos : fw.crs[l].gpio}
<1>1. pos \in T /\ T \subseteq Nat
  OBVIOUS
<1>2. PICK m \in T : \A n \in T : m <= n
  <2> HIDE DEF T
  <2> QED BY <1>1, LeastNat
<1>3. m \in k..pos /\ fw.crs[m].gpio
  BY <1>2
<1>4. \A l \in k..m - 1 : ~fw.crs[l].gpio
  BY <1>2, <1>3
<1>5. GpiosBefore(m) = GpiosBefore(k)
  BY <1>3, <1>4 DEF GpiosBefore
<1> QED BY <1>3, <1>5

\* The entry the driver acts on is that of a line the walk has reached ...
LEMMA EntryOfSome ==
    ASSUME DataOK, WalkInside, InSync, InWalk, pos <= Len(fw.crs), HasEntry
    PROVE  /\ fw.crs[pos].gpio /\ pos \in 1..Len(fw.crs) /\ Entry.type \in Types
           /\ \E m \in 1..pos : /\ fw.crs[m].gpio /\ Entry = fw.crs[m]
                                /\ ngpios = Cardinality(GpiosBefore(m))
<1>1. pos \in 1..Len(fw.crs) /\ fw \in Firmware /\ fw.crs[pos].gpio /\ Entry.type # "NONE"
  BY DEF DataOK, HasEntry
<1>2. PICK k \in 1..pos : ngpios = Cardinality(GpiosBefore(k))
  BY DEF InSync
<1>3. PICK m \in 1..pos : fw.crs[m].gpio /\ GpiosBefore(m) = GpiosBefore(k)
  BY <1>1, AskedLine
<1>4. m \in 1..Len(fw.crs) /\ ngpios = Cardinality(GpiosBefore(m))
  BY <1>1, <1>2, <1>3, FirmwareFacts
<1>5. Entry = fw.crs[m]
  BY <1>1, <1>3, <1>4, EntryOfLine DEF Entry
<1>6. Entry.type \in Types
  BY <1>1, <1>4, <1>5, FirmwareFacts DEF Resource
<1> QED BY <1>1, <1>3, <1>4, <1>5, <1>6

\* ... and, unless an entry was missed, of the line it then takes, whatever the
\* firmware lists.
LEMMA EntryIsOwn ==
    ASSUME DataOK, WalkInside, InSync, InWalk, pos <= Len(fw.crs), HasEntry, ~missed
    PROVE  /\ ngpios = Cardinality(GpiosBefore(pos)) /\ fw.crs[pos].gpio
           /\ Entry = fw.crs[pos] /\ fw.crs[pos].type \in Types
<1>1. pos \in 1..Len(fw.crs) /\ fw \in Firmware
  BY DEF DataOK
<1>2. PICK k \in 1..pos :
         /\ ngpios = Cardinality(GpiosBefore(k))
         /\ k = pos \/ (fw.crs[k].gpio /\ fw.crs[k].type = "NONE")
  BY DEF InSync
<1>3. fw.crs[pos].gpio /\ Entry.type # "NONE"
  BY DEF HasEntry
<1>4. k \in 1..Len(fw.crs)
  BY <1>1, FirmwareFacts
<1>5. fw.crs[k].gpio
  BY <1>2, <1>3
<1>6. Entry = fw.crs[k]
  BY <1>1, <1>2, <1>4, <1>5, EntryOfLine DEF Entry
<1>7. k = pos
  BY <1>2, <1>3, <1>6
<1> QED BY <1>1, <1>2, <1>3, <1>6, <1>7, FirmwareFacts DEF Resource

\* What the entry makes of the line: whatever it is, the driver gives it a name of
\* the right table.
LEMMA PurposeTypes ==
    ASSUME DataOK, WalkInside, InSync, InWalk, pos <= Len(fw.crs), HasEntry
    PROVE  LET p == get_con_id_and_polarity(Entry.type)
           IN  /\ Purpose.type = p.type /\ Purpose.con = p.con
               /\ Purpose.low \in BOOLEAN
               /\ Purpose.low <=> ~(p.low <=> Entry.on = 0)
               /\ Purpose.type \in OwnTypes => p.low = FALSE
               /\ Purpose.type \in RegulatorTypes => Purpose.con \in SupplyNames
               /\ Purpose.type \in SensorTypes =>
                     /\ Purpose.con \in SensorNames
                     /\ p.low <=> Purpose.con \in {"reset", "powerdown"}
<1> DEFINE p == get_con_id_and_polarity(Entry.type)
           flipped == p.low # (Entry.on = 0)
<1>1. Entry.type \in Types /\ fw \in Firmware
  BY EntryOfSome DEF DataOK
<1>2. Purpose = [p EXCEPT !.low = flipped]
  BY <1>1, Zenon DEF Purpose
<1>3. /\ p = [type |-> p.type, con |-> p.con, low |-> p.low]
      /\ p.low \in BOOLEAN
      /\ p.type \in OwnTypes => p.low = FALSE
      /\ p.type \in RegulatorTypes => p.con \in SupplyNames
      /\ p.type \in SensorTypes => /\ p.con \in SensorNames
                                   /\ p.low <=> p.con \in {"reset", "powerdown"}
  BY <1>1, ConIdAndPolarity
<1>4. flipped \in BOOLEAN /\ (flipped <=> ~(p.low <=> Entry.on = 0))
  BY <1>3
<1> HIDE DEF flipped, p
<1>5. Purpose.low = flipped /\ Purpose.type = p.type /\ Purpose.con = p.con
  BY <1>2, <1>3
<1>6. Purpose.low \in BOOLEAN /\ (Purpose.low <=> ~(p.low <=> Entry.on = 0))
  BY <1>4, <1>5
<1> QED BY <1>3, <1>5, <1>6 DEF p

LEMMA PurposeNames ==
    ASSUME DataOK, WalkInside, InSync, InWalk, pos <= Len(fw.crs), HasEntry
    PROVE  /\ Purpose.low \in BOOLEAN
           /\ Purpose.type \in RegulatorTypes => Purpose.con \in SupplyNames
           /\ Purpose.type \in SensorTypes => Purpose.con \in SensorNames
  BY PurposeTypes, Zenon

\* ... and the polarity makes the firmware's "on" level the one of an active supply,
\* clock or LED, or of a released reset, if the entry is the line's own.
LEMMA PurposeFacts ==
    ASSUME DataOK, WalkInside, InSync, InWalk, pos <= Len(fw.crs), HasEntry, ~missed
    PROVE  /\ Purpose.type = get_con_id_and_polarity(fw.crs[pos].type).type
           /\ Purpose.con = get_con_id_and_polarity(fw.crs[pos].type).con
           /\ Purpose.type \in OwnTypes => (Purpose.low <=> OnIsLow(pos))
           /\ Purpose.type \in SensorTypes =>
                 (Purpose.low <=> ~(Purpose.con \in {"reset", "powerdown"} <=> OnIsLow(pos)))
<1> DEFINE p == get_con_id_and_polarity(Entry.type)
<1>1. Entry = fw.crs[pos]
  BY EntryIsOwn
<1>2. /\ Purpose.type = p.type /\ Purpose.con = p.con
      /\ Purpose.low <=> ~(p.low <=> Entry.on = 0)
      /\ Purpose.type \in OwnTypes => p.low = FALSE
      /\ Purpose.type \in SensorTypes => (p.low <=> Purpose.con \in {"reset", "powerdown"})
  BY PurposeTypes
<1>3. p = get_con_id_and_polarity(fw.crs[pos].type) /\ (Entry.on = 0 <=> OnIsLow(pos))
  BY <1>1 DEF OnIsLow
<1> HIDE DEF p
<1> QED BY <1>2, <1>3

-----------------------------------------------------------------------------
(* The invariant.                                                          *)

\* Nothing is probed yet, no line taken, no sensor enumerated.
LEMMA InitInv == Init => Inv /\ FlagsOK
<1> SUFFICES ASSUME Init PROVE Inv /\ FlagsOK
  OBVIOUS
<1>1. FlagsOK
  BY Zenon DEF Init, FlagsOK
<1>2. DataOK
  BY DEF Init, DataOK, Lines, AsFirmwareLeft
<1>3. LifeCycle /\ WalkInside /\ PassedLines
  BY FirmwareFacts DEF Init, LifeCycle, WalkInside, PassedLines, InWalk
<1>4. InSync
  BY DEF Init, InSync, InWalk
<1>5. DescriptorsBalanced
  BY DEF Init, DescriptorsBalanced, OwnersDistinct, Released, ClockLine, LedLines, RegulatorLines
<1> QED BY <1>1, <1>2, <1>3, <1>4, <1>5 DEF Inv

\* No step of the driver, the sensor or the machine gives a flag another value.
LEMMA FlagsNext == FlagsOK /\ fw.dsmclk \in BOOLEAN /\ [Next]_vars => FlagsOK'
<1> SUFFICES ASSUME FlagsOK, fw.dsmclk \in BOOLEAN, [Next]_vars PROVE FlagsOK'
  OBVIOUS
<1> USE DEF FlagsOK, structVars, gpioVars, sensorVars, history
<1>1. CASE SkipResource
  <2>1. missed' \in BOOLEAN
    BY <1>1 DEF SkipResource
  <2> QED BY <1>1, <2>1, Zenon DEF SkipResource
<1>2. CASE SkipUnknown BY <1>2, Zenon DEF SkipUnknown
<1>3. CASE MapToSensor BY <1>3, Zenon DEF MapToSensor
<1>4. CASE MapFails BY <1>4, Zenon DEF MapFails
<1>5. CASE GetGpio BY <1>5, Zenon DEF GetGpio
<1>6. CASE GetFails BY <1>6, Zenon DEF GetFails
<1>7. CASE RegisterGpioClock BY <1>7, Zenon DEF RegisterGpioClock, Registered
<1>8. CASE RegisterLed BY <1>8, Zenon DEF RegisterLed, Registered
<1>9. CASE RegisterRegulator BY <1>9, Zenon DEF RegisterRegulator, Registered
<1>10. CASE RegisterFails \/ RegulatorCoreFails
  BY <1>10, Zenon DEF RegisterFails, RegulatorCoreFails
<1>11. CASE ParseDone
  <2>1. clk' \in BOOLEAN
    BY <1>11 DEF ParseDone
  <2> QED BY <1>11, <2>1, Zenon DEF ParseDone
<1>12. CASE DsmClockFails BY <1>12, Zenon DEF DsmClockFails
<1>13. CASE Unwind BY <1>13, Zenon DEF Unwind, Cleanup, Fresh
<1>14. CASE Probe BY <1>14, Zenon DEF Probe, Fresh
<1>15. CASE Remove BY <1>15, Zenon DEF Remove, Cleanup, Fresh
<1>16. CASE SensorProbe BY <1>16, Zenon DEF SensorProbe
<1>17. CASE SensorRemove BY <1>17, Zenon DEF SensorRemove
<1>18. CASE \E on \in BOOLEAN : EnableClk(on) BY <1>18, Zenon DEF EnableClk, Switch
<1>19. CASE \E on \in BOOLEAN : LedSet(on) BY <1>19, Zenon DEF LedSet, Switch
<1>20. CASE \E on \in BOOLEAN : SupplySet(on) BY <1>20, Zenon DEF SupplySet, Switch
<1>21. CASE \E on \in BOOLEAN : GpioSet(on) BY <1>21, Zenon DEF GpioSet, Switch
<1>22. CASE ControllerAppears BY <1>22, Zenon DEF ControllerAppears
<1>23. CASE UNCHANGED vars BY <1>23, Zenon DEF vars
<1> QED
  BY <1>1, <1>2, <1>3, <1>4, <1>5, <1>6, <1>7, <1>8, <1>9, <1>10, <1>11, <1>12, <1>13,
     <1>14, <1>15, <1>16, <1>17, <1>18, <1>19, <1>20, <1>21, <1>22, <1>23
  DEF Next, Walk, Sensor

\* Steps that leave the driver's structure and its descriptors alone.
LEMMA StructureKept ==
    ASSUME Inv, UNCHANGED <<fw, phase, structVars, held, history>>
    PROVE  WalkInside' /\ PassedLines' /\ InSync' /\ DescriptorsBalanced'
<1>1. WalkInside' /\ PassedLines'
  BY DEF Inv, WalkInside, PassedLines, InWalk, structVars
<1>2. \A k : GpiosBefore(k)' = GpiosBefore(k)
  BY DEF GpiosBefore
<1>3. HasEntry' <=> HasEntry
  BY Zenon DEF HasEntry, Entry, DsmEntry, GpiosBefore, structVars
<1>4. InSync'
  BY <1>2, <1>3 DEF Inv, InSync, InWalk, structVars, history
<1>5. DescriptorsBalanced'
  BY DEF Inv, DescriptorsBalanced, OwnersDistinct, Released, ClockLine, LedLines,
         RegulatorLines, structVars
<1> QED BY <1>1, <1>4, <1>5

\* A line with an entry has been dealt with: the walk goes on, in sync.
LEMMA AdvanceInSync ==
    ASSUME Inv, InWalk, pos <= Len(fw.crs), HasEntry, Advance, UNCHANGED <<fw, missed>>,
           phase' # "holding"
    PROVE  /\ pos' = pos + 1 /\ pos \in 1..Len(fw.crs) /\ Len(fw.crs) \in 0..MaxResources
           /\ pos' \in 1..MaxResources + 1 /\ ngpios' \in 0..MaxResources
           /\ ngpios' < pos' /\ pos' <= Len(fw'.crs) + 1
           /\ InSync'
<1>1. pos \in 1..Len(fw.crs) /\ Len(fw.crs) \in 0..MaxResources /\ fw \in Firmware
  BY FirmwareFacts DEF Inv, DataOK
<1>2. PICK m \in 1..pos : /\ fw.crs[m].gpio /\ ngpios = Cardinality(GpiosBefore(m))
                          /\ ~missed => m = pos
  <2>1. CASE missed
    BY <2>1, EntryOfSome DEF Inv
  <2>2. CASE ~missed
    BY <1>1, <2>2, EntryIsOwn DEF Inv
  <2> QED BY <2>1, <2>2
<1>6. pos' = pos + 1 /\ ngpios' = ngpios + 1
  BY DEF Advance
<1>3. /\ ngpios' = Cardinality(GpiosBefore(m + 1)) /\ m + 1 \in 1..pos'
      /\ ~missed => m + 1 = pos'
  <2>1. m \in 1..Len(fw.crs) /\ m + 1 \in 1..pos + 1
    BY <1>1
  <2>2. m = pos => m + 1 = pos'
    BY <1>6
  <2>3. Cardinality(GpiosBefore(m + 1)) = Cardinality(GpiosBefore(m)) + 1
    <3>1. fw.crs[m].gpio
      BY <1>2
    <3> QED BY <1>1, <2>1, <3>1, NextIndex
  <2>4. m + 1 \in 1..pos'
    BY <1>6, <2>1, Zenon
  <2>5. ngpios' = Cardinality(GpiosBefore(m + 1))
    BY <1>2, <1>6, <2>3, Zenon
  <2> QED BY <1>2, <2>2, <2>4, <2>5, Zenon
<1>4. \A k : GpiosBefore(k)' = GpiosBefore(k)
  BY DEF GpiosBefore
<1>5. InSync'
  BY <1>3, <1>4 DEF InSync
<1>7. /\ pos \in 1..MaxResources + 1 /\ ngpios \in 0..MaxResources /\ ngpios < pos
      /\ MaxResources \in Nat
  BY DEF Inv, WalkInside, DataOK
<1>8. pos' \in 1..MaxResources + 1 /\ ngpios' \in 0..MaxResources /\ ngpios' < pos'
  BY <1>1, <1>6, <1>7
<1> QED BY <1>1, <1>5, <1>6, <1>8

\* int3472_discrete_cleanup gives back exactly what is held, and leaves nothing.
LEMMA CleanupInv ==
    ASSUME Inv, Cleanup, UNCHANGED <<fw, used, sensor, enumerated, low, level>>,
           phase # "holding", phase' \in {"unbound", "deferred", "failed"},
           enumerated => phase' # "deferred", ret' \in {"ok", "defer", "error"}
    PROVE  Inv'
<1>1. DataOK'
  BY DEF Inv, DataOK, Cleanup, Fresh, DescriptorsBalanced, Lines
<1>2. LifeCycle' /\ PassedLines'
  BY DEF Inv, LifeCycle, PassedLines, Cleanup, Fresh
<1>3. WalkInside' /\ InSync'
  BY FirmwareFacts DEF Inv, DataOK, WalkInside, InSync, InWalk, Cleanup, Fresh
<1>4. held' = [l \in Lines |-> 0]
  BY DEF Inv, DataOK, DescriptorsBalanced, Cleanup
<1>5. DescriptorsBalanced'
  BY <1>4 DEF DescriptorsBalanced, OwnersDistinct, Released, ClockLine, LedLines,
              RegulatorLines, Cleanup, Fresh
<1> QED BY <1>1, <1>2, <1>3, <1>5 DEF Inv

\* The sensor's driver switches a line: only its level and its use change.
LEMMA SwitchInv ==
    ASSUME Inv, NEW l \in Lines, NEW on \in BOOLEAN, NEW value \in {0, 1}, NEW isLow,
           Switch(l, on, value, isLow)
    PROVE  Inv'
<1>1. WalkInside' /\ PassedLines' /\ InSync' /\ DescriptorsBalanced'
  BY StructureKept DEF Switch
<1>2. Level(value, isLow) \in {0, 1}
  BY DEF Level
<1>3. DataOK'
  BY <1>2 DEF Inv, DataOK, Switch, structVars, history
<1>4. LifeCycle'
  BY DEF Inv, LifeCycle, Switch, structVars
<1> QED BY <1>1, <1>3, <1>4 DEF Inv

\* What appending to a table does.
LEMMA AppendFacts ==
    ASSUME NEW S, NEW s \in Seq(S), NEW e \in S
    PROVE  /\ Append(s, e) \in Seq(S) /\ Len(s) \in Nat /\ Len(Append(s, e)) = Len(s) + 1
           /\ Append(s, e)[Len(s) + 1] = e
           /\ \A i \in 1..Len(s) : Append(s, e)[i] = s[i]
  OBVIOUS

SensorGpio == [line : Lines, con : SensorNames, low : BOOLEAN]
Regulator == [line : Lines, supply : SupplyNames]

\* The types of what the tables hold.
LEMMA TableTypes ==
    ASSUME DataOK
    PROVE  /\ gpios \in Seq(SensorGpio) /\ leds \in Seq(Lines) /\ regulators \in Seq(Regulator)
           /\ Len(gpios) \in Nat /\ Len(leds) \in Nat /\ Len(regulators) \in Nat
           /\ \A i \in 1..Len(gpios) : gpios[i] \in SensorGpio /\ gpios[i].line \in Int
           /\ \A i \in 1..Len(leds) : leds[i] \in Lines /\ leds[i] \in Int
           /\ \A i \in 1..Len(regulators) :
                 regulators[i] \in Regulator /\ regulators[i].line \in Int
<1>1. gpios \in Seq(SensorGpio) /\ leds \in Seq(Lines) /\ regulators \in Seq(Regulator)
  BY DEF DataOK, SensorGpio, Regulator
<1>2. /\ \A i \in 1..Len(gpios) : gpios[i] \in SensorGpio
      /\ \A i \in 1..Len(leds) : leds[i] \in Lines
      /\ \A i \in 1..Len(regulators) : regulators[i] \in Regulator
  BY <1>1
<1>3. /\ \A g \in SensorGpio : g.line \in Int
      /\ \A r \in Regulator : r.line \in Int
      /\ \A l \in Lines : l \in Int
  BY DEF SensorGpio, Regulator, Lines
<1> QED BY <1>1, <1>2, <1>3

\* The driver passes a line, which the sensor may get, and takes nothing of it.
LEMMA PassedInv ==
    ASSUME Inv, InWalk, pos <= Len(fw.crs), HasEntry, Advance, phase = "parsing",
           phase' \in {"parsing", "unwinding"}, ret' \in {"ok", "defer", "error"},
           UNCHANGED <<history, fw, clk, ena_gpio, leds, regulators, listed, gpioVars, enumerated,
                       sensorVars>>,
           \/ UNCHANGED gpios
           \/ /\ Len(gpios) < MAX_SENSOR_GPIOS /\ Purpose.con \in SensorNames
              /\ gpios' = Append(gpios, [line |-> pos, con |-> Purpose.con, low |-> Purpose.low])
    PROVE  Inv'
<1>1. /\ pos' = pos + 1 /\ pos \in 1..Len(fw.crs) /\ Len(fw.crs) \in 0..MaxResources
      /\ pos' \in 1..MaxResources + 1 /\ ngpios' \in 0..MaxResources
      /\ ngpios' < pos' /\ pos' <= Len(fw'.crs) + 1
      /\ InSync'
  BY AdvanceInSync DEF history
<1>2. DataOK /\ Len(gpios) <= MAX_SENSOR_GPIOS /\ ena_gpio \in Nat
  BY DEF Inv, DataOK
<1>3. \A i \in 1..Len(gpios) : gpios[i].line < pos
  BY DEF Inv, PassedLines
<1> DEFINE new == [line |-> pos, con |-> Purpose.con, low |-> Purpose.low]
<1>4. /\ gpios' \in Seq(SensorGpio) /\ Len(gpios') <= MAX_SENSOR_GPIOS
      /\ \A i \in 1..Len(gpios') : gpios'[i].line < pos'
  <2>1. CASE UNCHANGED gpios
    BY <1>1, <1>2, <1>3, <2>1, TableTypes
  <2>2. CASE Len(gpios) < MAX_SENSOR_GPIOS /\ Purpose.con \in SensorNames
             /\ gpios' = Append(gpios, new)
    <3>0. Purpose.low \in BOOLEAN /\ pos \in Lines
      <4>1. Purpose.low \in BOOLEAN
        BY PurposeNames DEF Inv
      <4> QED BY <1>1, <4>1 DEF Lines
    <3>1. new \in SensorGpio /\ new.line = pos
      BY <2>2, <3>0 DEF SensorGpio
    <3> HIDE DEF new
    <3>2. /\ gpios' \in Seq(SensorGpio) /\ Len(gpios) \in Nat
          /\ Len(gpios') = Len(gpios) + 1 /\ gpios'[Len(gpios) + 1] = new
          /\ \A i \in 1..Len(gpios) : gpios'[i] = gpios[i]
      BY <1>2, <2>2, <3>1, TableTypes, AppendFacts
    <3>3. \A i \in 1..Len(gpios') : gpios'[i].line < pos'
      <4>1. pos < pos' /\ \A n \in Int : n < pos => n < pos'
        BY <1>1
      <4>2. \A i \in 1..Len(gpios) : gpios[i].line < pos'
        BY <1>2, <1>3, <4>1, TableTypes, Zenon
      <4> QED BY <3>1, <3>2, <4>1, <4>2
    <3> QED BY <2>2, <3>2, <3>3
  <2> QED BY <2>1, <2>2
<1>5. DataOK'
  BY <1>1, <1>4 DEF Inv, DataOK, gpioVars, sensorVars, SensorGpio, history
<1>6. LifeCycle' /\ WalkInside'
  BY <1>1 DEF Inv, LifeCycle, WalkInside, InWalk, gpioVars, sensorVars
<1>7. PassedLines'
  <2>1. \A l \in Int : l < pos => l < pos'
    BY <1>1
  <2>2. /\ ena_gpio < pos'
        /\ \A i \in 1..Len(leds) : leds[i] < pos' /\ leds[i] # ena_gpio
        /\ \A i \in 1..Len(regulators) :
              regulators[i].line < pos' /\ regulators[i].line # ena_gpio
    <3>1. /\ \A i \in 1..Len(leds) : leds[i] \in Int
          /\ \A i \in 1..Len(regulators) : regulators[i].line \in Int
      BY <1>2, TableTypes, Zenon
    <3>2. PassedLines /\ ena_gpio \in Int
      BY <1>2 DEF Inv
    <3> QED BY <2>1, <3>1, <3>2, Zenon DEF PassedLines
  <2> QED BY <1>4, <2>2 DEF PassedLines
<1>8. DescriptorsBalanced'
  <2>1. OwnersDistinct' /\ Released' = Released
    BY DEF Inv, DescriptorsBalanced, OwnersDistinct, Released, ClockLine, LedLines, RegulatorLines
  <2>2. held' = held
    BY DEF gpioVars
  <2>3. phase # "holding" /\ phase' # "holding"
    OBVIOUS
  <2> QED BY <2>1, <2>2, <2>3 DEF Inv, DescriptorsBalanced
<1> QED BY <1>1, <1>5, <1>6, <1>7, <1>8 DEF Inv

\* The line in hand is one nothing was made of yet.
LEMMA InHand ==
    ASSUME Inv, phase = "holding"
    PROVE  /\ pos \in Lines /\ pos \in 1..Len(fw.crs) /\ held[pos] = 1 /\ ena_gpio < pos
           /\ \A i \in 1..Len(leds) : leds[i] # pos /\ leds[i] < pos + 1
           /\ \A i \in 1..Len(regulators) :
                 regulators[i].line # pos /\ regulators[i].line < pos + 1
           /\ \A l \in Lines \ {pos} : held[l] = IF l \in Released THEN 1 ELSE 0
           /\ pos \notin Released
<1>1. DataOK /\ pos \in 1..Len(fw.crs) /\ Len(fw.crs) \in 0..MaxResources /\ ena_gpio \in Nat
  BY FirmwareFacts DEF Inv, DataOK, WalkInside
<1>2. /\ ena_gpio < pos
      /\ \A i \in 1..Len(leds) : leds[i] < pos
      /\ \A i \in 1..Len(regulators) : regulators[i].line < pos
  BY DEF Inv, PassedLines
<1>3. /\ \A i \in 1..Len(leds) : leds[i] # pos /\ leds[i] < pos + 1
      /\ \A i \in 1..Len(regulators) :
            regulators[i].line # pos /\ regulators[i].line < pos + 1
  <2>1. /\ \A i \in 1..Len(leds) : leds[i] \in Int
        /\ \A i \in 1..Len(regulators) : regulators[i].line \in Int
        /\ pos \in Int
    BY <1>1, TableTypes
  <2>2. \A l \in Int : l < pos => l # pos /\ l < pos + 1
    BY <2>1
  <2> QED BY <1>2, <2>1, <2>2
<1>4. pos \notin Released
  BY <1>1, <1>2, <1>3 DEF Released, ClockLine, LedLines, RegulatorLines
<1> QED BY <1>1, <1>2, <1>3, <1>4 DEF Inv, DescriptorsBalanced, Lines

\* Once it has been made something of, or put back, the walk goes on or ends.
LEMMA HandledInv ==
    ASSUME Inv, phase = "holding", HasEntry, Advance,
           phase' \in {"parsing", "unwinding"}, ret' \in {"ok", "defer", "error"},
           UNCHANGED <<missed, fw, gpios, listed, low, level, enumerated, sensorVars>>,
           overput' \in {overput, pos},
           ena_gpio' \in {ena_gpio, pos}, held' \in [Lines -> 0..1],
           leds' \in Seq(Lines), Len(leds') <= MAX_LEDS,
           regulators' \in Seq(Regulator), Len(regulators') <= MAX_REGULATORS,
           \A i \in 1..Len(leds') : leds'[i] < pos' /\ leds'[i] # ena_gpio',
           \A i \in 1..Len(regulators') :
              regulators'[i].line < pos' /\ regulators'[i].line # ena_gpio',
           phase' = "parsing" => (clk' <=> ena_gpio' # 0),
           OwnersDistinct', \A l \in Lines : held'[l] = IF l \in Released' THEN 1 ELSE 0
    PROVE  Inv'
<1>1. /\ pos' = pos + 1 /\ pos \in 1..Len(fw.crs) /\ Len(fw.crs) \in 0..MaxResources
      /\ pos' \in 1..MaxResources + 1 /\ ngpios' \in 0..MaxResources
      /\ ngpios' < pos' /\ pos' <= Len(fw'.crs) + 1
      /\ InSync'
  BY AdvanceInSync, InHand DEF InWalk
<1>2. /\ DataOK /\ ena_gpio < pos /\ ena_gpio' \in 0..MaxResources
      /\ overput' \in 0..MaxResources
  <2>1. DataOK /\ ena_gpio \in 0..MaxResources /\ overput \in 0..MaxResources
    BY DEF Inv, DataOK
  <2> QED BY <1>1, <2>1, InHand
<1>3. DataOK'
  BY <1>1, <1>2 DEF DataOK, sensorVars, Regulator
<1>4. LifeCycle' /\ WalkInside'
  BY <1>1 DEF Inv, LifeCycle, WalkInside, InWalk, sensorVars
<1>5. PassedLines'
  <2>1. \A i \in 1..Len(gpios) : gpios[i].line < pos
    BY DEF Inv, PassedLines
  <2>2. ena_gpio' < pos'
    <3>1. ena_gpio' = ena_gpio \/ ena_gpio' = pos
      OBVIOUS
    <3>2. ena_gpio' < pos + 1
      BY <1>1, <1>2, <3>1
    <3> QED BY <1>1, <3>2, Zenon
  <2>3. \A i \in 1..Len(gpios) : gpios[i].line < pos + 1
    <3>1. \A n \in Int : n < pos => n < pos + 1
      BY <1>1
    <3> QED BY <1>2, <2>1, <3>1, TableTypes, Zenon
  <2> QED BY <1>1, <2>2, <2>3 DEF PassedLines
<1>6. DescriptorsBalanced'
  BY DEF DescriptorsBalanced
<1> QED BY <1>1, <1>3, <1>4, <1>5, <1>6 DEF Inv

\* skl_int3472_register_gpio_clock
LEMMA ClockInv == ASSUME Inv, RegisterGpioClock PROVE Inv'
<1>1. /\ phase = "holding" /\ HasEntry /\ ~clk /\ clk' = TRUE /\ ena_gpio' = pos
      /\ phase' = "parsing" /\ Advance
      /\ UNCHANGED <<history, fw, ret, gpios, leds, regulators, listed, held, low, level, enumerated,
                     sensorVars>>
  BY DEF RegisterGpioClock, Registered, IsFor, gpioVars
<1>2. DataOK
  BY DEF Inv
<1>3. OwnersDistinct'
  BY <1>1, InHand DEF Inv, DescriptorsBalanced, OwnersDistinct, ClockLine, LedLines, RegulatorLines
<1>4. Released' = Released \cup {pos}
  BY <1>1, InHand DEF Lines, Released, ClockLine, LedLines, RegulatorLines
<1>5. \A l \in Lines : held'[l] = IF l \in Released' THEN 1 ELSE 0
  BY <1>1, <1>4, InHand
<1>6. pos' = pos + 1
  BY <1>1 DEF Advance
<1>7. /\ \A i \in 1..Len(leds') : leds'[i] < pos' /\ leds'[i] # ena_gpio'
      /\ \A i \in 1..Len(regulators') :
            regulators'[i].line < pos' /\ regulators'[i].line # ena_gpio'
  BY <1>1, <1>2, <1>6, InHand, TableTypes DEF Lines
<1>8. /\ held' \in [Lines -> 0..1] /\ ret' \in {"ok", "defer", "error"}
      /\ leds' \in Seq(Lines) /\ Len(leds') <= MAX_LEDS
      /\ regulators' \in Seq(Regulator) /\ Len(regulators') <= MAX_REGULATORS
  BY <1>1, <1>2 DEF DataOK, Regulator
<1>9. clk' <=> ena_gpio' # 0
  BY <1>1, InHand DEF Lines
<1> QED BY <1>1, <1>3, <1>5, <1>7, <1>8, <1>9, HandledInv DEF history

\* skl_int3472_register_led
LEMMA LedInv == ASSUME Inv, RegisterLed PROVE Inv'
<1>1. /\ phase = "holding" /\ HasEntry /\ Len(leds) < MAX_LEDS /\ leds' = Append(leds, pos)
      /\ phase' = "parsing" /\ Advance
      /\ UNCHANGED <<history, fw, ret, gpios, clk, ena_gpio, regulators, listed, held, low, level,
                     enumerated, sensorVars>>
  BY DEF RegisterLed, Registered, IsFor, gpioVars
<1>2. DataOK /\ pos \in Lines
  BY InHand, <1>1 DEF Inv
<1>3. /\ leds' \in Seq(Lines) /\ Len(leds) \in Nat
      /\ Len(leds') = Len(leds) + 1 /\ leds'[Len(leds) + 1] = pos
      /\ \A i \in 1..Len(leds) : leds'[i] = leds[i]
  BY <1>1, <1>2, TableTypes, AppendFacts
<1>4. OwnersDistinct'
  <2>1. LedLines' = LedLines \cup {pos} /\ ClockLine' = ClockLine /\ RegulatorLines' = RegulatorLines
    BY <1>1, <1>3 DEF ClockLine, LedLines, RegulatorLines
  <2>2. OwnersDistinct /\ pos \notin ClockLine
    BY <1>1, InHand DEF Inv, DescriptorsBalanced, Released
  <2>3. ClockLine' \cap (LedLines' \cup RegulatorLines') = {}
    BY <2>1, <2>2 DEF OwnersDistinct
  <2>4. \A i, j \in 1..Len(leds') : leds'[i] = leds'[j] => i = j
    BY <1>1, <1>3, <2>2, InHand DEF OwnersDistinct
  <2>5. \A i \in 1..Len(leds'), j \in 1..Len(regulators') : leds'[i] # regulators'[j].line
    BY <1>1, <1>3, <2>2, InHand DEF OwnersDistinct
  <2> QED BY <1>1, <2>2, <2>3, <2>4, <2>5 DEF OwnersDistinct
<1>5. Released' = Released \cup {pos}
  <2>1. LedLines' = LedLines \cup {pos}
    BY <1>3 DEF LedLines
  <2>2. ClockLine' = ClockLine /\ RegulatorLines' = RegulatorLines
    BY <1>1, Zenon DEF ClockLine, RegulatorLines
  <2> QED BY <2>1, <2>2, Zenon DEF Released
<1>6. \A l \in Lines : held'[l] = IF l \in Released' THEN 1 ELSE 0
  BY <1>1, <1>5, InHand
<1>7. pos' = pos + 1
  BY <1>1 DEF Advance
<1>8. /\ \A i \in 1..Len(leds') : leds'[i] < pos' /\ leds'[i] # ena_gpio'
      /\ \A i \in 1..Len(regulators') :
            regulators'[i].line < pos' /\ regulators'[i].line # ena_gpio'
  <2>1. /\ \A i \in 1..Len(leds) : leds[i] # ena_gpio
        /\ \A i \in 1..Len(regulators) : regulators[i].line # ena_gpio
    BY DEF Inv, PassedLines
  <2>2. ena_gpio \in Int
    BY <1>2 DEF DataOK
  <2>3. \A i \in 1..Len(leds') : leds'[i] < pos' /\ leds'[i] # ena_gpio'
    <3>1. pos < pos + 1 /\ pos # ena_gpio
      BY <1>1, <1>2, <2>2, InHand DEF Lines
    <3> QED BY <1>1, <1>3, <1>7, <2>1, <3>1, InHand
  <2> QED BY <1>1, <1>7, <2>1, <2>3, InHand
<1>9. /\ held' \in [Lines -> 0..1] /\ ret' \in {"ok", "defer", "error"}
      /\ Len(leds') <= MAX_LEDS
      /\ regulators' \in Seq(Regulator) /\ Len(regulators') <= MAX_REGULATORS
  BY <1>1, <1>2, <1>3 DEF DataOK, Regulator
<1>10. clk' <=> ena_gpio' # 0
  BY <1>1 DEF Inv, WalkInside, InWalk
<1> QED BY <1>1, <1>3, <1>4, <1>6, <1>8, <1>9, <1>10, HandledInv DEF history

\* skl_int3472_register_regulator
LEMMA RegulatorInv == ASSUME Inv, RegisterRegulator PROVE Inv'
<1> DEFINE new == [line |-> pos, supply |-> Purpose.con]
<1>1. /\ phase = "holding" /\ HasEntry /\ Purpose.type \in RegulatorTypes
      /\ Len(regulators) < MAX_REGULATORS /\ regulators' = Append(regulators, new)
      /\ phase' = "parsing" /\ Advance
      /\ UNCHANGED <<history, fw, ret, gpios, clk, ena_gpio, leds, listed, held, low, level,
                     enumerated, sensorVars>>
  BY DEF RegisterRegulator, Registered, IsFor, gpioVars
<1>2. DataOK /\ pos \in Lines
  BY InHand, <1>1 DEF Inv
<1>3. new \in Regulator /\ new.line = pos
  BY <1>1, <1>2, InHand, PurposeNames DEF Inv, InWalk, WalkInside, Regulator
<1> HIDE DEF new
<1>4. /\ regulators' \in Seq(Regulator) /\ Len(regulators) \in Nat
      /\ Len(regulators') = Len(regulators) + 1 /\ regulators'[Len(regulators) + 1] = new
      /\ \A i \in 1..Len(regulators) : regulators'[i] = regulators[i]
  BY <1>1, <1>2, <1>3, TableTypes, AppendFacts
<1>5. RegulatorLines' = RegulatorLines \cup {pos} /\ ClockLine' = ClockLine /\ LedLines' = LedLines
  BY <1>1, <1>3, <1>4 DEF ClockLine, LedLines, RegulatorLines
<1>6. OwnersDistinct'
  <2>1. OwnersDistinct /\ pos \notin ClockLine
    BY <1>1, InHand DEF Inv, DescriptorsBalanced, Released
  <2>2. ClockLine' \cap (LedLines' \cup RegulatorLines') = {}
    BY <1>5, <2>1 DEF OwnersDistinct
  <2>3. \A i, j \in 1..Len(regulators') : regulators'[i].line = regulators'[j].line => i = j
    BY <1>1, <1>3, <1>4, <2>1, InHand DEF OwnersDistinct
  <2>4. \A i \in 1..Len(leds'), j \in 1..Len(regulators') : leds'[i] # regulators'[j].line
    BY <1>1, <1>3, <1>4, <2>1, InHand DEF OwnersDistinct
  <2> QED BY <1>1, <2>1, <2>2, <2>3, <2>4 DEF OwnersDistinct
<1>7. \A l \in Lines : held'[l] = IF l \in Released' THEN 1 ELSE 0
  BY <1>1, <1>5, InHand DEF Released
<1>8. pos' = pos + 1
  BY <1>1 DEF Advance
<1>9. /\ \A i \in 1..Len(leds') : leds'[i] < pos' /\ leds'[i] # ena_gpio'
      /\ \A i \in 1..Len(regulators') :
            regulators'[i].line < pos' /\ regulators'[i].line # ena_gpio'
  <2>1. /\ \A i \in 1..Len(leds) : leds[i] # ena_gpio
        /\ \A i \in 1..Len(regulators) : regulators[i].line # ena_gpio
    BY DEF Inv, PassedLines
  <2>2. pos < pos + 1 /\ pos # ena_gpio
    BY <1>1, <1>2, InHand DEF DataOK, Lines
  <2>3. \A i \in 1..Len(regulators') :
           regulators'[i].line < pos' /\ regulators'[i].line # ena_gpio'
    BY <1>1, <1>3, <1>4, <1>8, <2>1, <2>2, InHand
  <2> QED BY <1>1, <1>8, <2>1, <2>3, InHand
<1>10. /\ held' \in [Lines -> 0..1] /\ ret' \in {"ok", "defer", "error"}
       /\ leds' \in Seq(Lines) /\ Len(leds') <= MAX_LEDS /\ Len(regulators') <= MAX_REGULATORS
  BY <1>1, <1>2, <1>4 DEF DataOK
<1>11. clk' <=> ena_gpio' # 0
  BY <1>1 DEF Inv, WalkInside, InWalk
<1> QED BY <1>1, <1>4, <1>6, <1>7, <1>9, <1>10, <1>11, HandledInv DEF history

\* A registration fails: the line is put back, and what is left behind in
\* clock.ena_gpio belongs to nobody.
LEMMA RegisterFailsInv == ASSUME Inv, RegisterFails \/ RegulatorCoreFails PROVE Inv'
<1>1. /\ phase = "holding" /\ phase' = "unwinding" /\ ret' = "error" /\ Advance
      /\ ena_gpio' = ena_gpio \/ (~clk /\ ena_gpio' = pos)
      /\ held' = [held EXCEPT ![pos] = @ - 1] /\ overput' \in {overput, pos}
      /\ UNCHANGED <<missed, fw, gpios, clk, leds, regulators, listed, low, level, enumerated,
                     sensorVars>>
  BY DEF RegisterFails, RegulatorCoreFails, Fail, history
<1>2. DataOK /\ HasEntry
  BY <1>1 DEF Inv, InSync
<1>3. Released' = Released /\ ClockLine' = ClockLine
  BY <1>1 DEF Released, ClockLine, LedLines, RegulatorLines
<1>4. OwnersDistinct'
  BY <1>1, <1>3 DEF Inv, DescriptorsBalanced, OwnersDistinct, LedLines, RegulatorLines
<1>5. held' \in [Lines -> 0..1] /\ \A l \in Lines : held'[l] = IF l \in Released' THEN 1 ELSE 0
  BY <1>1, <1>2, <1>3, InHand DEF DataOK
<1>6. /\ \A i \in 1..Len(leds') : leds'[i] < pos' /\ leds'[i] # ena_gpio'
      /\ \A i \in 1..Len(regulators') :
            regulators'[i].line < pos' /\ regulators'[i].line # ena_gpio'
  <2>1. /\ \A i \in 1..Len(leds) : leds[i] # ena_gpio
        /\ \A i \in 1..Len(regulators) : regulators[i].line # ena_gpio
    BY DEF Inv, PassedLines
  <2> QED BY <1>1, <2>1, InHand DEF Advance
<1>7. /\ leds' \in Seq(Lines) /\ Len(leds') <= MAX_LEDS
      /\ regulators' \in Seq(Regulator) /\ Len(regulators') <= MAX_REGULATORS
  BY <1>1, <1>2 DEF DataOK, Regulator
<1> QED BY <1>1, <1>2, <1>4, <1>5, <1>6, <1>7, HandledInv

\* The lines the sensor's driver switches are lines of the firmware.
LEMMA SwitchedLines ==
    ASSUME DataOK
    PROVE  /\ ena_gpio # 0 => ena_gpio \in Lines
           /\ leds # <<>> => leds[1] \in Lines
           /\ \A i \in 1..Len(regulators) : regulators[i].line \in Lines
           /\ \A g \in Found : g \in SensorGpio /\ g.line \in Lines
<1>1. ena_gpio # 0 => ena_gpio \in Lines
  BY DEF DataOK, Lines
<1>2. leds # <<>> => leds[1] \in Lines
  BY TableTypes
<1>3. \A r \in Regulator : r.line \in Lines
  BY DEF Regulator
<1>4. \A g \in SensorGpio : g.line \in Lines
  BY DEF SensorGpio
<1>5. \A g \in Found : g \in SensorGpio
  BY TableTypes DEF Found
<1> QED BY <1>1, <1>2, <1>3, <1>4, <1>5, TableTypes

\* A step of the sensor's driver keeps the invariant.
LEMMA SensorInv == ASSUME Inv, Sensor PROVE Inv'
<1>0. DataOK
  BY DEF Inv
<1>1. CASE SensorProbe
  <2>1. WalkInside' /\ PassedLines' /\ InSync' /\ DescriptorsBalanced'
    BY <1>1, StructureKept DEF SensorProbe
  <2>2. \A g : Level(OffValue(g.con), g.low) \in {0, 1}
    BY DEF Level, OffValue
  <2>3. level' \in [Lines -> {AsFirmwareLeft, 0, 1}]
    BY <1>0, <1>1, <2>2 DEF SensorProbe, DataOK
  <2>4. DataOK'
    BY <1>0, <1>1, <2>3 DEF SensorProbe, DataOK, structVars, history
  <2>5. LifeCycle'
    BY <1>1 DEF SensorProbe, Inv, LifeCycle, structVars
  <2> QED BY <2>1, <2>4, <2>5 DEF Inv
<1>2. CASE SensorRemove
  <2>1. WalkInside' /\ PassedLines' /\ InSync' /\ DescriptorsBalanced'
    BY <1>2, StructureKept DEF SensorRemove, gpioVars
  <2>2. DataOK' /\ LifeCycle'
    BY <1>2 DEF SensorRemove, Inv, DataOK, LifeCycle, structVars, gpioVars, history
  <2> QED BY <2>1, <2>2 DEF Inv
<1>3. ASSUME NEW on \in BOOLEAN, EnableClk(on) PROVE Inv'
  <2>1. Logical(on) \in {0, 1}
    BY DEF Logical
  <2>2. CASE ena_gpio # 0
    BY <1>0, <1>3, <2>1, <2>2, SwitchedLines, SwitchInv DEF EnableClk
  <2>3. CASE ena_gpio = 0
    <3>1. UNCHANGED <<history, fw, ready, phase, ret, structVars, listed, gpioVars, enumerated,
                      sensor, used>>
      BY <1>3, <2>3, Zenon DEF EnableClk
    <3>2. WalkInside' /\ PassedLines' /\ InSync' /\ DescriptorsBalanced'
      BY <3>1, StructureKept DEF gpioVars
    <3>3. DataOK' /\ LifeCycle'
      BY <3>1 DEF Inv, DataOK, LifeCycle, structVars, gpioVars, history
    <3> QED BY <3>2, <3>3 DEF Inv
  <2> QED BY <2>2, <2>3
<1>4. ASSUME NEW on \in BOOLEAN, LedSet(on) PROVE Inv'
  <2>1. Logical(on) \in {0, 1} /\ leds[1] \in Lines
    BY <1>0, <1>4, SwitchedLines DEF Logical, LedSet
  <2> QED BY <1>4, <2>1, SwitchInv DEF LedSet
<1>5. ASSUME NEW on \in BOOLEAN, SupplySet(on) PROVE Inv'
  <2>1. PICK i \in 1..Len(regulators) :
           Switch(regulators[i].line, on, Logical(on), low[regulators[i].line])
    BY <1>5 DEF SupplySet
  <2>2. Logical(on) \in {0, 1} /\ regulators[i].line \in Lines
    BY <1>0, SwitchedLines DEF Logical
  <2> QED BY <2>1, <2>2, SwitchInv
<1>6. ASSUME NEW on \in BOOLEAN, GpioSet(on) PROVE Inv'
  <2>1. PICK g \in Found :
           Switch(g.line, on, IF on THEN 1 - OffValue(g.con) ELSE OffValue(g.con), g.low)
    BY <1>6 DEF GpioSet
  <2>2. g.line \in Lines /\ OffValue(g.con) \in {0, 1}
    BY <1>0, SwitchedLines DEF OffValue
  <2> QED BY <2>1, <2>2, SwitchInv
<1> QED BY <1>1, <1>2, <1>3, <1>4, <1>5, <1>6 DEF Sensor

\* A resource that is no line, or a line without an entry or whose entry could not be
\* read, is passed over.
LEMMA SkipInv == ASSUME Inv, SkipResource PROVE Inv'
<1>1. /\ phase = "parsing" /\ pos <= Len(fw.crs) /\ pos' = pos + 1
      /\ missed' = (missed \/ HasEntry)
      /\ UNCHANGED <<overput, fw, phase, ret, ngpios, gpios, clk, ena_gpio, leds, regulators,
                     listed, held, low, level, enumerated, sensor, used>>
  BY DEF SkipResource, Walking, gpioVars, sensorVars
<1>2. /\ DataOK /\ fw \in Firmware /\ pos \in 1..Len(fw.crs) /\ ena_gpio \in Int
      /\ Len(fw.crs) \in 0..MaxResources /\ ngpios \in 0..MaxResources
  BY <1>1, FirmwareFacts DEF Inv, DataOK
<1>3. DataOK'
  BY <1>1, <1>2 DEF DataOK
<1>4. LifeCycle' /\ WalkInside'
  BY <1>1, <1>2 DEF Inv, LifeCycle, WalkInside, InWalk
<1>5. PassedLines'
  <2>1. \A l \in Int : l < pos => l < pos + 1
    BY <1>2
  <2> QED BY <1>1, <1>2, <2>1, TableTypes DEF Inv, PassedLines
<1>6. InSync'
  <2>1. PICK k \in 1..pos :
           /\ ngpios = Cardinality(GpiosBefore(k))
           /\ ~missed => k = pos \/ (fw.crs[k].gpio /\ fw.crs[k].type = "NONE")
    BY <1>1 DEF Inv, InSync, InWalk
  <2>2. \A j : GpiosBefore(j)' = GpiosBefore(j)
    BY <1>1 DEF GpiosBefore
  <2>5. k \in 1..pos'
    BY <1>1, <1>2
  <2>6. CASE missed'
    BY <1>1, <2>1, <2>2, <2>5, <2>6 DEF InSync
  <2>7. ~missed' => ~missed /\ ~HasEntry
    BY <1>1
  <2>3. CASE ~missed' /\ fw.crs[k].gpio
    <3>1. k \in 1..Len(fw.crs)
      BY <1>2
    <3>2. Entry = fw.crs[k]
      BY <1>2, <2>1, <2>3, <3>1, EntryOfLine DEF Entry
    <3>3. fw.crs[k].type = "NONE" /\ k \in 1..pos'
      <4>1. ~missed /\ ~HasEntry
        BY <2>3, <2>7
      <4>2. CASE k = pos
        BY <2>3, <2>5, <3>2, <4>1, <4>2 DEF HasEntry
      <4>3. CASE k # pos
        BY <2>1, <2>5, <4>1, <4>3
      <4> QED BY <4>2, <4>3
    <3> QED BY <1>1, <2>1, <2>2, <2>3, <3>3 DEF InSync
  <2>4. CASE ~missed' /\ ~fw.crs[k].gpio
    <3>1. k = pos /\ ngpios = Cardinality(GpiosBefore(pos + 1)) /\ pos' \in 1..pos'
      <4>1. k = pos /\ pos' \in 1..pos'
        BY <1>1, <1>2, <2>1, <2>4, <2>7
      <4>2. Cardinality(GpiosBefore(pos + 1)) = Cardinality(GpiosBefore(pos))
        BY <1>2, <2>4, <4>1, NextIndex
      <4> QED BY <2>1, <4>1, <4>2
    <3> QED BY <1>1, <2>2, <3>1 DEF InSync
  <2> QED BY <2>3, <2>4, <2>6
<1>7. DescriptorsBalanced'
  BY <1>1 DEF Inv, DescriptorsBalanced, OwnersDistinct, Released, ClockLine, LedLines,
              RegulatorLines
<1> QED BY <1>3, <1>4, <1>5, <1>6, <1>7 DEF Inv

\* gpiod_get: the line in hand is one nothing was made of, and is held once.
LEMMA GetGpioInv == ASSUME Inv, GetGpio PROVE Inv'
<1>1. /\ phase = "parsing" /\ pos <= Len(fw.crs) /\ HasEntry /\ phase' = "holding"
      /\ low' = [low EXCEPT ![pos] = Purpose.low]
      /\ level' = [level EXCEPT ![pos] = Level(0, Purpose.low)]
      /\ held' = [held EXCEPT ![pos] = @ + 1]
      /\ UNCHANGED <<missed, overput, fw, ret, pos, ngpios, gpios, clk, ena_gpio, leds,
                     regulators, listed, enumerated, sensor, used>>
  BY DEF GetGpio, Walking, IsFor, structVars, sensorVars, history
<1>2. /\ DataOK /\ pos \in Lines /\ pos \in 1..Len(fw.crs) /\ ena_gpio \in Int
  BY <1>1, FirmwareFacts DEF Inv, DataOK, Lines
<1>3. Purpose.low \in BOOLEAN /\ Level(0, Purpose.low) \in {0, 1}
  <2>1. Purpose.low \in BOOLEAN
    BY <1>1, PurposeNames DEF Inv, InWalk
  <2> QED BY <2>1 DEF Level
<1>4. pos \notin Released
  <2>1. ena_gpio # pos
    BY <1>2 DEF Inv, PassedLines
  <2>2. /\ \A i \in 1..Len(leds) : leds[i] # pos
        /\ \A i \in 1..Len(regulators) : regulators[i].line # pos
    <3>1. \A l \in Int : l < pos => l # pos
      BY <1>2
    <3> QED BY <1>2, <3>1, TableTypes DEF Inv, PassedLines
  <2> QED BY <2>1, <2>2 DEF Released, ClockLine, LedLines, RegulatorLines
<1>5. Released' = Released /\ (OwnersDistinct' <=> OwnersDistinct)
  BY <1>1 DEF OwnersDistinct, Released, ClockLine, LedLines, RegulatorLines
<1>6. held[pos] = 0
  BY <1>1, <1>2, <1>4 DEF Inv, DescriptorsBalanced
<1>7. DataOK'
  BY <1>1, <1>2, <1>3, <1>6 DEF DataOK
<1>8. LifeCycle' /\ WalkInside' /\ PassedLines'
  BY <1>1 DEF Inv, LifeCycle, WalkInside, PassedLines, InWalk
<1>9. InSync'
  <2>1. \A j : GpiosBefore(j)' = GpiosBefore(j)
    BY <1>1 DEF GpiosBefore
  <2>2. HasEntry'
    BY <1>1, Zenon DEF HasEntry, Entry, DsmEntry, GpiosBefore
  <2> QED BY <1>1, <2>1, <2>2 DEF Inv, InSync, InWalk
<1>10. DescriptorsBalanced'
  BY <1>1, <1>2, <1>4, <1>5, <1>6 DEF Inv, DataOK, DescriptorsBalanced
<1> QED BY <1>7, <1>8, <1>9, <1>10 DEF Inv

\* The walk is over: what the sensor needs is published, or the _DSM's clock fails.
LEMMA ParsedInv == ASSUME Inv, ParseDone \/ DsmClockFails PROVE Inv'
<1>1. /\ phase = "parsing" /\ phase' \in {"bound", "unwinding"}
      /\ ret' \in {ret, "error"}
      /\ phase' = "unwinding" => UNCHANGED <<listed, enumerated>>
      /\ UNCHANGED <<missed, overput, fw, pos, ngpios, gpios, ena_gpio, leds, regulators, held,
                     low, level, sensor, used>>
  BY DEF ParseDone, DsmClockFails, Fail, Parsed, structVars, gpioVars, sensorVars, history
<1>2. clk' <=> clk \/ (phase' = "bound" /\ fw.dsmclk)
  <2>1. CASE ParseDone
    <3>1. clk' <=> clk \/ fw.dsmclk
      BY <2>1, Zenon DEF ParseDone
    <3> QED BY <2>1, <3>1 DEF ParseDone
  <2>2. CASE DsmClockFails
    BY <2>2 DEF DsmClockFails, Fail, structVars
  <2> QED BY <2>1, <2>2
<1>3. clk <=> ena_gpio # 0
  BY <1>1 DEF Inv, WalkInside, InWalk
<1>4. ClockLine' = ClockLine
  BY <1>1, <1>2, <1>3 DEF ClockLine
<1>5. DescriptorsBalanced'
  <2>1. OwnersDistinct' /\ Released' = Released
    <3>1. LedLines' = LedLines /\ RegulatorLines' = RegulatorLines
      BY <1>1, Zenon DEF LedLines, RegulatorLines
    <3>2. OwnersDistinct
      BY DEF Inv, DescriptorsBalanced
    <3> QED BY <1>1, <1>4, <3>1, <3>2, Zenon DEF OwnersDistinct, Released
  <2>2. held' = held /\ phase # "holding" /\ phase' # "holding"
    BY <1>1
  <2> QED BY <2>1, <2>2 DEF Inv, DescriptorsBalanced
<1>6. DataOK'
  BY <1>1 DEF Inv, DataOK
<1>7. sensor' = "bound" => enumerated'
  BY <1>1 DEF Inv, LifeCycle
<1>8. LifeCycle'
  BY <1>1, <1>7 DEF Inv, LifeCycle
<1>9. WalkInside' /\ PassedLines' /\ InSync'
  BY <1>1 DEF Inv, WalkInside, PassedLines, InSync, InWalk
<1> QED BY <1>5, <1>6, <1>8, <1>9 DEF Inv

\* Every step of the driver, the sensor and the machine keeps the invariant.
LEMMA NextInv == Inv /\ [Next]_vars => Inv'
<1> SUFFICES ASSUME Inv, [Next]_vars PROVE Inv'
  OBVIOUS
<1>1. CASE SkipResource BY <1>1, SkipInv
<1>2. CASE SkipUnknown
  <2>1. ret' \in {"ok", "defer", "error"}
    BY <1>2 DEF SkipUnknown, Inv, DataOK
  <2> QED BY <1>2, <2>1, PassedInv DEF SkipUnknown, Walking, InWalk, IsFor
<1>3. CASE MapToSensor
  <2>1. /\ phase = "parsing" /\ pos <= Len(fw.crs) /\ HasEntry /\ InWalk
        /\ Purpose.type \in SensorTypes /\ ret' \in {"ok", "defer", "error"}
    BY <1>3 DEF MapToSensor, Walking, InWalk, IsFor, Inv, DataOK
  <2>2. Purpose.con \in SensorNames
    BY <2>1, PurposeNames DEF Inv
  <2> QED BY <1>3, <2>1, <2>2, PassedInv DEF MapToSensor
<1>4. CASE MapFails
  BY <1>4, PassedInv DEF MapFails, Fail, Walking, InWalk, IsFor
<1>5. CASE GetGpio BY <1>5, GetGpioInv
<1>6. CASE GetFails
  <2>1. ret' \in {"ok", "defer", "error"} /\ phase' = "unwinding"
    BY <1>6 DEF GetFails, GetError, Fail
  <2> QED BY <1>6, <2>1, PassedInv DEF GetFails, Walking, InWalk, IsFor
<1>7. CASE RegisterGpioClock BY <1>7, ClockInv
<1>8. CASE RegisterLed BY <1>8, LedInv
<1>9. CASE RegisterRegulator BY <1>9, RegulatorInv
<1>10. CASE RegisterFails \/ RegulatorCoreFails BY <1>10, RegisterFailsInv
<1>11. CASE ParseDone \/ DsmClockFails BY <1>11, ParsedInv
<1>12. CASE Unwind
  <2>1. /\ phase # "holding" /\ phase' \in {"unbound", "deferred", "failed"} /\ ret' = "ok"
        /\ ~enumerated /\ Cleanup /\ UNCHANGED <<fw, used, sensor, enumerated, low, level>>
    BY <1>12 DEF Unwind, Inv, LifeCycle, sensorVars
  <2> QED BY <2>1, CleanupInv
<1>13. CASE Probe
  <2>1. /\ phase' \in {"parsing", "failed"} /\ (phase' = "parsing" => ~enumerated)
        /\ ret' = "ok" /\ Fresh
        /\ UNCHANGED <<fw, listed, held, low, level, enumerated, sensor, used>>
    BY <1>13 DEF Probe, gpioVars, sensorVars
  <2>2. /\ phase \in {"unbound", "failed", "deferred"}
        /\ leds = <<>> /\ regulators = <<>> /\ ~clk /\ ~listed
    BY <1>13 DEF Probe, Inv, LifeCycle
  <2>3. DataOK'
    BY <2>1 DEF Inv, DataOK, Fresh
  <2>4. LifeCycle' /\ PassedLines'
    BY <2>1, <2>2 DEF Inv, LifeCycle, PassedLines, Fresh
  <2>5. WalkInside'
    BY <2>1, FirmwareFacts DEF Inv, DataOK, WalkInside, InWalk, Fresh
  <2>6. InSync'
    <3>1. \A k \in 1..1 : Cardinality(GpiosBefore(k)') = 0
      BY FS_EmptySet DEF GpiosBefore
    <3>2. pos' = 1 /\ ngpios' = 0 /\ phase' # "holding"
      BY <2>1 DEF Fresh
    <3>3. \E k \in 1..pos' : ngpios' = Cardinality(GpiosBefore(k)') /\ k = pos'
      BY <3>1, <3>2
    <3> QED BY <3>2, <3>3 DEF InSync
  <2>7. DescriptorsBalanced'
    BY <2>1, <2>2 DEF Inv, DescriptorsBalanced, OwnersDistinct, Released, ClockLine, LedLines,
       RegulatorLines, Fresh
  <2> QED BY <2>3, <2>4, <2>5, <2>6, <2>7 DEF Inv
<1>14. CASE Remove
  <2>1. ret' \in {"ok", "defer", "error"}
    BY <1>14 DEF Remove, Inv, DataOK
  <2> QED BY <1>14, <2>1, CleanupInv DEF Remove, sensorVars
<1>15. CASE Sensor BY <1>15, SensorInv
<1>16. CASE ControllerAppears \/ UNCHANGED vars
  <2>1. UNCHANGED <<history, fw, phase, ret, structVars, listed, gpioVars, enumerated, sensorVars>>
    BY <1>16, Zenon DEF ControllerAppears, vars
  <2>2. WalkInside' /\ PassedLines' /\ InSync' /\ DescriptorsBalanced'
    BY <2>1, StructureKept DEF gpioVars
  <2>3. DataOK' /\ LifeCycle'
    BY <2>1 DEF Inv, DataOK, LifeCycle, structVars, gpioVars, sensorVars, history
  <2> QED BY <2>2, <2>3 DEF Inv
<1> QED
  BY <1>1, <1>2, <1>3, <1>4, <1>5, <1>6, <1>7, <1>8, <1>9, <1>10, <1>11, <1>12, <1>13,
     <1>14, <1>15, <1>16
  DEF Next, Walk

\* The invariant holds in every behaviour of the driver, with its flags Booleans.
LEMMA Invariance == Spec => [](Inv /\ FlagsOK)
<1>1. Inv => fw.dsmclk \in BOOLEAN
  BY DEF Inv, DataOK, Firmware
<1>2. Inv /\ FlagsOK /\ [Next]_vars => (Inv /\ FlagsOK)'
  BY <1>1, NextInv, FlagsNext
<1> QED BY <1>2, InitInv, PTL DEF Spec

\* The variables keep their types: in particular no table the probe fills, of the
\* sensor's lines, the LEDs or the regulators, is ever written past its end,
\* whatever the firmware lists.
THEOREM TypeCorrect == Spec => []TypeOK
<1>1. Inv /\ FlagsOK => TypeOK
  BY DEF Inv, TypeOK
<1> QED BY <1>1, Invariance, PTL

\* Every GPIO descriptor the driver holds has exactly one owner or is in hand, on
\* every path through probe, its unwinding and remove, for every firmware: none is
\* leaked or owned twice.  (That the driver puts none which the regulator core has put
\* already is NothingPutTwice, and false.)
THEOREM DescriptorsAreBalanced == Spec => []DescriptorsBalanced
<1>1. Inv => DescriptorsBalanced
  BY DEF Inv
<1> QED BY <1>1, Invariance, PTL

-----------------------------------------------------------------------------
(* The levels of the lines.                                                *)

\* What is in hand or was made of a line is of a line the firmware lists.
LEMMA LineBounds ==
    ASSUME Inv
    PROVE  /\ \A l \in Lines : held[l] > 0 => l \in 1..Len(fw.crs)
           /\ \A i \in 1..Len(gpios) : gpios[i].line \in 1..Len(fw.crs)
           /\ \A l \in 1..Len(fw.crs) : fw.crs[l].on \in {0, 1} /\ l \in Lines
<1>1. DataOK /\ pos \in Nat /\ Len(fw.crs) \in 0..MaxResources /\ pos <= Len(fw.crs) + 1
  BY FirmwareFacts DEF Inv, DataOK, WalkInside
<1>2. \A l \in Released : l < pos
  BY DEF Inv, PassedLines, Released, ClockLine, LedLines, RegulatorLines
<1>3. \A l \in Lines : held[l] > 0 => l \in Released \/ (phase = "holding" /\ l = pos)
  BY DEF Inv, DescriptorsBalanced
<1>4. \A l \in Lines : held[l] > 0 => l \in 1..Len(fw.crs)
  BY <1>1, <1>2, <1>3 DEF Inv, WalkInside, Lines
<1>5. \A i \in 1..Len(gpios) : gpios[i].line \in Lines /\ gpios[i].line < pos
  <2>1. \A g \in SensorGpio : g.line \in Lines
    BY DEF SensorGpio
  <2> QED BY <1>1, <2>1, TableTypes DEF Inv, PassedLines
<1>6. \A l \in Lines : l < pos => l \in 1..Len(fw.crs)
  BY <1>1 DEF Lines
<1>7. \A l \in 1..Len(fw.crs) : fw.crs[l].on \in {0, 1} /\ l \in Lines
  <2>1. \A r \in Resource : r.on \in {0, 1}
    BY DEF Resource
  <2>2. \A l \in 1..Len(fw.crs) : fw.crs[l] \in Resource
    BY <1>1, FirmwareFacts DEF DataOK
  <2>3. \A l \in 1..Len(fw.crs) : l \in Lines
    BY <1>1 DEF Lines
  <2> QED BY <2>1, <2>2, <2>3
<1> QED BY <1>4, <1>5, <1>6, <1>7

\* A logical value on a line of the right polarity.
LEMMA LevelFacts ==
    ASSUME NEW on \in {0, 1}, NEW isLow
    PROVE  /\ (isLow <=> on = 0) => Level(1, isLow) = on /\ Level(0, isLow) = 1 - on
           /\ ~(isLow <=> on = 0) => Level(1, isLow) = 1 - on /\ Level(0, isLow) = on
  BY DEF Level

\* The level a line is at while the sensor's driver has it on, and off.
At(l, on) == IF on THEN fw.crs[l].on ELSE 1 - fw.crs[l].on

\* A line the driver holds gets there from its logical value.
LEMMA HeldLevel ==
    ASSUME Inv, OnIsActive, NEW l \in Lines, held[l] > 0, NEW on \in BOOLEAN
    PROVE  Level(Logical(on), low[l]) = At(l, on)
<1>1. fw.crs[l].on \in {0, 1} /\ (low[l] <=> fw.crs[l].on = 0)
  BY LineBounds DEF OnIsActive, OnIsLow
<1> QED BY <1>1, LevelFacts DEF Logical, At

\* ... and a line of the lookup table from the value the sensor's driver gives it.
LEMMA FoundLevel ==
    ASSUME Inv, OnIsActive, NEW g \in Found
    PROVE  /\ g.line \in Lines
           /\ Level(OffValue(g.con), g.low) = At(g.line, FALSE)
           /\ Level(1 - OffValue(g.con), g.low) = At(g.line, TRUE)
<1>1. PICK i \in 1..Len(gpios) : g = gpios[i]
  BY DEF Found
<1>2. /\ g.line \in 1..Len(fw.crs) /\ fw.crs[g.line].on \in {0, 1} /\ g.line \in Lines
      /\ g.low <=> ~(g.con \in {"reset", "powerdown"} <=> fw.crs[g.line].on = 0)
  BY <1>1, LineBounds DEF OnIsActive, OnIsLow
<1>3. CASE g.con \in {"reset", "powerdown"}
  BY <1>2, <1>3, LevelFacts DEF OffValue, At
<1>4. CASE g.con \notin {"reset", "powerdown"}
  BY <1>2, <1>4, LevelFacts DEF OffValue, At
<1> QED BY <1>3, <1>4

\* What a step other than taking a line or listing one does to the tables: an entry
\* that was missed is forgotten only with all that was made.
Relinquish ==
    /\ UNCHANGED <<fw, low>> /\ gpios' \in {gpios, <<>>}
    /\ \A l \in Lines : held'[l] > 0 => held[l] > 0
    /\ ~missed' => ~missed \/ (gpios' = <<>> /\ \A l \in Lines : held'[l] = 0)

\* Only gpiod_get and skl_int3472_map_gpio_to_sensor give a line a polarity.
LEMMA OnlyTwoTake == Inv /\ [Next]_vars => Relinquish \/ GetGpio \/ MapToSensor
<1> SUFFICES ASSUME Inv, [Next]_vars, ~GetGpio, ~MapToSensor PROVE Relinquish
  OBVIOUS
<1> USE DEF Relinquish
<1>0. \A l \in Lines : held[l] \in Int
  BY DEF Inv, DataOK
<1>1. CASE \/ SkipUnknown \/ MapFails \/ GetFails
           \/ RegisterGpioClock \/ RegisterLed \/ RegisterRegulator
  BY <1>1 DEF SkipUnknown, MapFails, GetFails, RegisterGpioClock, RegisterLed,
     RegisterRegulator, Registered, gpioVars, history
<1>8. CASE SkipResource
  BY <1>8 DEF SkipResource, gpioVars
<1>2. CASE RegisterFails \/ RegulatorCoreFails
  <2>1. /\ held' = [held EXCEPT ![pos] = @ - 1] /\ held \in [Lines -> 0..1]
        /\ UNCHANGED <<fw, low, gpios, missed>>
    BY <1>2 DEF RegisterFails, RegulatorCoreFails, Inv, DataOK, history
  <2> QED BY <2>1
<1>3. CASE ParseDone \/ DsmClockFails
  BY <1>3 DEF ParseDone, DsmClockFails, structVars, gpioVars, history
<1>4. CASE Unwind \/ Remove
  <2>1. phase # "holding" /\ Cleanup /\ UNCHANGED <<fw, low>>
    BY <1>4 DEF Unwind, Remove
  <2>2. \A l \in Lines : held'[l] = 0
    BY <2>1 DEF Inv, DescriptorsBalanced, Cleanup
  <2> QED BY <2>1, <2>2 DEF Cleanup, Fresh
<1>5. CASE Probe
  <2>1. \A l \in Lines : held[l] = 0
    BY <1>5 DEF Probe, Inv, LifeCycle, DescriptorsBalanced, Released, ClockLine, LedLines,
       RegulatorLines
  <2> QED BY <1>5, <2>1 DEF Probe, Fresh, gpioVars
<1>6. CASE Sensor
  <2>1. UNCHANGED <<fw, structVars, held, low, history>>
    BY <1>6, Zenon DEF Sensor, SensorProbe, SensorRemove, EnableClk, LedSet, SupplySet, GpioSet,
       Switch, gpioVars
  <2> QED BY <2>1 DEF structVars, history
<1>7. CASE ControllerAppears \/ UNCHANGED vars
  BY <1>7 DEF ControllerAppears, vars, structVars, gpioVars, history
<1> QED
  BY <1>1, <1>2, <1>3, <1>4, <1>5, <1>6, <1>7, <1>8 DEF Next, Walk

\* The polarities stay right.
LEMMA PolarityNext == ASSUME Inv, PolarityOK, [Next]_vars PROVE PolarityOK'
<1> SUFFICES ASSUME ~missed' PROVE OnIsActive'
  BY DEF PolarityOK
<1>0. DataOK
  BY DEF Inv
<1>1. CASE Relinquish
  <2>1. CASE ~missed
    BY <1>1, <2>1 DEF Relinquish, PolarityOK, OnIsActive, OnIsLow
  <2>2. CASE gpios' = <<>> /\ \A l \in Lines : held'[l] = 0
    BY <2>2 DEF OnIsActive
  <2> QED BY <1>1, <2>1, <2>2 DEF Relinquish
<1>2. CASE GetGpio
  <2>1. /\ InWalk /\ pos <= Len(fw.crs) /\ HasEntry /\ Purpose.type \in OwnTypes
        /\ low' = [low EXCEPT ![pos] = Purpose.low]
        /\ held' = [held EXCEPT ![pos] = @ + 1]
        /\ UNCHANGED <<fw, gpios>> /\ ~missed /\ OnIsActive
    BY <1>2 DEF GetGpio, Walking, InWalk, IsFor, structVars, history, PolarityOK
  <2>2. Purpose.low <=> OnIsLow(pos)
    BY <2>1, PurposeFacts DEF Inv
  <2>3. \A l \in Lines : held'[l] > 0 => (low'[l] <=> OnIsLow(l))
    BY <1>0, <2>1, <2>2 DEF OnIsActive, DataOK
  <2> QED BY <2>1, <2>3 DEF OnIsActive, OnIsLow
<1>3. CASE MapToSensor
  <2> DEFINE new == [line |-> pos, con |-> Purpose.con, low |-> Purpose.low]
  <2>1. /\ InWalk /\ pos <= Len(fw.crs) /\ HasEntry /\ Purpose.type \in SensorTypes
        /\ gpios' = Append(gpios, new) /\ UNCHANGED <<fw, held, low>> /\ ~missed /\ OnIsActive
    BY <1>3 DEF MapToSensor, Walking, InWalk, IsFor, gpioVars, history, PolarityOK
  <2>2. /\ Purpose.low \in BOOLEAN /\ Purpose.con \in SensorNames
        /\ Purpose.low <=> ~(Purpose.con \in {"reset", "powerdown"} <=> OnIsLow(pos))
    BY <2>1, PurposeFacts, PurposeNames DEF Inv
  <2>3. pos \in Lines
    BY <2>1, FirmwareFacts DEF Inv, DataOK, Lines
  <2>4. new \in SensorGpio /\ new.line = pos
        /\ (new.low <=> ~(new.con \in {"reset", "powerdown"} <=> OnIsLow(new.line)))
    BY <2>2, <2>3 DEF SensorGpio
  <2> HIDE DEF new
  <2>5. /\ Len(gpios) \in Nat /\ Len(gpios') = Len(gpios) + 1
        /\ gpios'[Len(gpios) + 1] = new
        /\ \A i \in 1..Len(gpios) : gpios'[i] = gpios[i]
    BY <1>0, <2>1, <2>4, TableTypes, AppendFacts
  <2>6. \A i \in 1..Len(gpios') :
           gpios'[i].low <=> ~(gpios'[i].con \in {"reset", "powerdown"} <=> OnIsLow(gpios'[i].line))
    <3>1. OnIsActive
      BY <2>1
    <3> QED BY <2>4, <2>5, <3>1 DEF OnIsActive
  <2> QED BY <2>1, <2>6 DEF OnIsActive, OnIsLow
<1> QED BY <1>1, <1>2, <1>3, OnlyTwoTake

\* The sensor's driver switches a line to where it belongs, and no other.
LEMMA SwitchFollows ==
    ASSUME Inv, LinesFollowOwnEntry, NEW l \in Lines, NEW on \in BOOLEAN, NEW value, NEW isLow,
           Switch(l, on, value, isLow), Level(value, isLow) = At(l, on)
    PROVE  LinesFollowOwnEntry'
<1>1. /\ level' = [level EXCEPT ![l] = Level(value, isLow)]
      /\ used' = IF on THEN used \cup {l} ELSE used \ {l}
      /\ UNCHANGED <<fw, gpios, listed, held, sensor>>
  BY DEF Switch, structVars
<1>2. Driven' = Driven
  BY <1>1, Zenon DEF Driven, Found, SensorGpios
<1>3. Driven \subseteq Lines /\ level \in [Lines -> {AsFirmwareLeft, 0, 1}]
  BY SwitchedLines DEF Inv, DataOK, Driven
<1> QED BY <1>1, <1>2, <1>3 DEF LinesFollowOwnEntry, At

\* Every step leaves the lines that are driven where the sensor's driver wants them.
LEMMA FollowOn ==
    ASSUME Inv, OnIsActive, LinesFollowOwnEntry, ~missed, ~missed', [Next]_vars
    PROVE  LinesFollowOwnEntry'
<1>0. DataOK
  BY DEF Inv
<1>1. ASSUME UNCHANGED <<fw, level, used>>, Driven' \subseteq Driven PROVE LinesFollowOwnEntry'
  BY <1>1 DEF LinesFollowOwnEntry
<1>2. ASSUME UNCHANGED <<fw, level, used>>, sensor' = "unbound",
             \A l \in Lines : held'[l] > 0 => held[l] > 0
      PROVE  LinesFollowOwnEntry'
  BY <1>1, <1>2 DEF Driven
<1>3. phase \notin {"unbound", "failed", "bound"} => sensor = "unbound" /\ used = {}
  BY <1>0 DEF Inv, LifeCycle, DataOK
<1>4. CASE /\ ~GetGpio
           /\ phase \in {"parsing", "holding", "unwinding"} \/ Remove
           /\ UNCHANGED <<level, used, sensor>>
  <2>1. sensor' = "unbound"
    BY <1>3, <1>4 DEF Remove
  <2>2. UNCHANGED fw /\ \A l \in Lines : held'[l] > 0 => held[l] > 0
    BY <1>4, OnlyTwoTake DEF Relinquish, MapToSensor, gpioVars
  <2> QED BY <1>2, <1>4, <2>1, <2>2
<1>5. CASE Walk /\ ~GetGpio
  BY <1>4, <1>5
  DEF Walk, SkipResource, SkipUnknown, MapToSensor, MapFails, GetFails, RegisterGpioClock,
      RegisterLed, RegisterRegulator, Registered, RegisterFails, RegulatorCoreFails,
      ParseDone, DsmClockFails, Unwind, Walking, Parsed, gpioVars, sensorVars
<1>6. CASE Remove
  BY <1>4, <1>6 DEF Remove, GetGpio, Walking, sensorVars
<1>7. CASE Probe
  <2>1. ~listed /\ UNCHANGED <<fw, level, used, listed, held, sensor>>
    BY <1>7 DEF Probe, Inv, LifeCycle, gpioVars, sensorVars
  <2>2. Found' = {}
    BY <2>1 DEF Found
  <2>3. Driven' \subseteq Driven
    BY <2>1, <2>2 DEF Driven
  <2> QED BY <1>1, <2>1, <2>3
<1>8. CASE GetGpio
  <2>1. /\ phase = "parsing" /\ InWalk /\ pos <= Len(fw.crs) /\ HasEntry
        /\ Purpose.type \in OwnTypes
        /\ level' = [level EXCEPT ![pos] = Level(0, Purpose.low)]
        /\ held' = [held EXCEPT ![pos] = @ + 1]
        /\ UNCHANGED <<fw, sensor, used>>
    BY <1>8 DEF GetGpio, Walking, InWalk, IsFor, sensorVars
  <2>2. sensor' = "unbound" /\ used' = {} /\ used = {}
    BY <1>3, <2>1
  <2>3. pos \in 1..Len(fw.crs) /\ fw.crs[pos].on \in {0, 1} /\ pos \in Lines
    BY <1>0, <2>1, LineBounds DEF DataOK
  <2>4. Level(0, Purpose.low) = 1 - fw.crs[pos].on
    BY <2>1, <2>3, PurposeFacts, LevelFacts DEF Inv, OnIsLow
  <2>5. \A l \in Lines : held'[l] > 0 => l = pos \/ l \in Driven
    BY <1>0, <2>1, <2>3 DEF DataOK, Driven
  <2>6. \A l \in Driven' : l \in Lines /\ (l = pos \/ l \in Driven)
    BY <2>2, <2>5 DEF Driven
  <2> QED BY <1>0, <2>1, <2>2, <2>3, <2>4, <2>6 DEF LinesFollowOwnEntry, DataOK
<1>9. CASE SensorProbe
  <2>1. used = {} /\ used' = {} /\ UNCHANGED <<fw, gpios, listed, held>>
    BY <1>9 DEF SensorProbe, Inv, LifeCycle, structVars
  <2>2. Found' = Found
    BY <2>1, Zenon DEF Found, SensorGpios
  <2>3. ASSUME NEW l \in Lines, \E g \in Found : g.line = l
        PROVE  level'[l] = At(l, FALSE)
    <3> DEFINE g == CHOOSE g \in Found : g.line = l
    <3>1. g \in Found /\ g.line = l
      BY <2>3
    <3>2. level'[l] = Level(OffValue(g.con), g.low)
      BY <1>9, <2>3 DEF SensorProbe
    <3> HIDE DEF g
    <3> QED BY <3>1, <3>2, FoundLevel
  <2>4. ASSUME NEW l \in Lines, ~ \E g \in Found : g.line = l
        PROVE  level'[l] = level[l]
    BY <1>9, <2>4 DEF SensorProbe
  <2>5. \A l \in Driven' : l \in Lines /\ ((\E g \in Found : g.line = l) \/ l \in Driven)
    BY <1>0, <2>1, <2>2, SwitchedLines DEF Driven
  <2> QED BY <2>1, <2>3, <2>4, <2>5 DEF LinesFollowOwnEntry, At
<1>10. CASE SensorRemove
  BY <1>2, <1>10 DEF SensorRemove, gpioVars
<1>11. ASSUME NEW on \in BOOLEAN, EnableClk(on) PROVE LinesFollowOwnEntry'
  <2>1. CASE ena_gpio # 0
    <3>1. clk /\ Switch(ena_gpio, on, Logical(on), low[ena_gpio])
      BY <1>11, <2>1 DEF EnableClk
    <3>2. ena_gpio \in Lines /\ held[ena_gpio] > 0
      BY <1>0, <2>1, <3>1, SwitchedLines DEF Inv, DescriptorsBalanced, Released, ClockLine
    <3> QED BY <3>1, <3>2, HeldLevel, SwitchFollows
  <2>2. CASE ena_gpio = 0
    <3>1. UNCHANGED <<fw, gpios, listed, held, level, sensor, used>>
      BY <1>11, <2>2 DEF EnableClk, structVars, gpioVars
    <3>2. Driven' = Driven
      BY <3>1, Zenon DEF Driven, Found, SensorGpios
    <3> QED BY <1>1, <3>1, <3>2
  <2> QED BY <2>1, <2>2
<1>12. ASSUME NEW on \in BOOLEAN, LedSet(on) PROVE LinesFollowOwnEntry'
  <2>1. leds # <<>> /\ Switch(leds[1], on, Logical(on), low[leds[1]])
    BY <1>12 DEF LedSet
  <2>2. leds[1] \in Lines /\ leds[1] \in LedLines
    BY <1>0, <2>1, SwitchedLines, TableTypes DEF LedLines
  <2>3. held[leds[1]] > 0
    BY <2>2 DEF Inv, DescriptorsBalanced, Released
  <2> QED BY <2>1, <2>2, <2>3, HeldLevel, SwitchFollows
<1>13. ASSUME NEW on \in BOOLEAN, SupplySet(on) PROVE LinesFollowOwnEntry'
  <2>1. PICK i \in 1..Len(regulators) :
           Switch(regulators[i].line, on, Logical(on), low[regulators[i].line])
    BY <1>13 DEF SupplySet
  <2>2. regulators[i].line \in Lines /\ regulators[i].line \in RegulatorLines
    BY <1>0, SwitchedLines DEF RegulatorLines
  <2>3. held[regulators[i].line] > 0
    BY <2>2 DEF Inv, DescriptorsBalanced, Released
  <2> QED BY <2>1, <2>2, <2>3, HeldLevel, SwitchFollows
<1>14. ASSUME NEW on \in BOOLEAN, GpioSet(on) PROVE LinesFollowOwnEntry'
  <2>1. PICK g \in Found :
           Switch(g.line, on, IF on THEN 1 - OffValue(g.con) ELSE OffValue(g.con), g.low)
    BY <1>14 DEF GpioSet
  <2> DEFINE value == IF on THEN 1 - OffValue(g.con) ELSE OffValue(g.con)
  <2>2. g.line \in Lines /\ Level(value, g.low) = At(g.line, on)
    <3>1. CASE on BY <3>1, FoundLevel
    <3>2. CASE ~on BY <3>2, FoundLevel
    <3> QED BY <3>1, <3>2
  <2> QED BY <2>1, <2>2, SwitchFollows
<1>15. CASE ControllerAppears \/ UNCHANGED vars
  <2>1. UNCHANGED <<fw, gpios, listed, held, level, sensor, used>>
    BY <1>15 DEF ControllerAppears, vars, structVars, gpioVars, sensorVars
  <2>2. Driven' = Driven
    BY <2>1, Zenon DEF Driven, Found, SensorGpios
  <2> QED BY <1>1, <2>1, <2>2
<1> QED
  BY <1>5, <1>6, <1>7, <1>8, <1>9, <1>10, <1>11, <1>12, <1>13, <1>14, <1>15
  DEF Next, Walk, Sensor

\* Once an entry was missed nothing is said of the lines, until nothing is made.
LEMMA FollowNext ==
    ASSUME Inv, PolarityOK, LinesFollowSensor, [Next]_vars
    PROVE  LinesFollowSensor'
<1> SUFFICES ASSUME ~missed' PROVE LinesFollowOwnEntry'
  BY DEF LinesFollowSensor
<1>1. CASE ~missed
  BY <1>1, FollowOn DEF PolarityOK, LinesFollowSensor
<1>2. CASE missed
  <2>1. gpios' = <<>> /\ \A l \in Lines : held'[l] = 0
    BY <1>2, OnlyTwoTake DEF Relinquish, GetGpio, MapToSensor, history
  <2>2. Driven' = {}
    BY <2>1 DEF Driven, Found
  <2> QED BY <2>2 DEF LinesFollowOwnEntry
<1> QED BY <1>1, <1>2

\* A line is at its _DSM entry's "on" level exactly while the sensor's driver has
\* it on, from the moment it is taken, under every renaming, default polarity and
\* inversion, for every firmware, as long as every entry that is there was read.
THEOREM LinesFollow == Spec => []LinesFollowSensor
<1> DEFINE J == Inv /\ PolarityOK /\ LinesFollowSensor
<1>1. Init => J
  <2> SUFFICES ASSUME Init PROVE J
    OBVIOUS
  <2>1. Driven = {} /\ PolarityOK
    BY DEF Init, Driven, PolarityOK, OnIsActive
  <2> QED BY <2>1, InitInv DEF LinesFollowSensor, LinesFollowOwnEntry
<1>2. J /\ [Next]_vars => J'
  BY NextInv, PolarityNext, FollowNext
<1> QED BY <1>1, <1>2, PTL DEF Spec

-----------------------------------------------------------------------------
(* What the sensor's driver finds.                                         *)

\* The boards whose sensors' drivers are modelled, and the names the driver of the
\* OV8865 (INT347A) asks for, one of which ov8865_pwr1_con_id must give POWER1.
KnownBoards ==
    /\ Hids \subseteq {"INT347E", "INT33BE", "INT347A", "INT33F0"}
    /\ Pwr1Names \subseteq {"avdd", "dvdd", "dovdd"}

TypeOf(l) == fw.crs[l].type

\* A second line of a type, or a line at or after one without a _DSM entry.
Excused(l) ==
    \E k \in 1..l :
       fw.crs[k].gpio /\ (TypeOf(k) = "NONE" \/ (k < l /\ TypeOf(k) = TypeOf(l)))

Due(l) == fw.crs[l].gpio /\ TypeOf(l) \in Wired /\ ~Excused(l)

\* The tables hold lines of the types they are for, under the names the map gives.
MadeOf ==
    /\ \A i \in 1..Len(leds) : fw.crs[leds[i]].gpio /\ TypeOf(leds[i]) = "PRIVACY_LED"
    /\ \A i \in 1..Len(gpios) :
          /\ fw.crs[gpios[i].line].gpio /\ TypeOf(gpios[i].line) \in Types
          /\ get_con_id_and_polarity(TypeOf(gpios[i].line)).type \in SensorTypes
          /\ get_con_id_and_polarity(TypeOf(gpios[i].line)).con = gpios[i].con

\* A line the sensor's driver reaches once the lookup table is registered.
FirstNamed(i) ==
    gpios[i].con \in SensorGpios /\ \A j \in 1..i - 1 : gpios[j].con # gpios[i].con

Served(l) ==
    \/ clk /\ ena_gpio = l
    \/ leds # <<>> /\ leds[1] = l
    \/ \E i \in 1..Len(regulators) :
          regulators[i].line = l /\ regulators[i].supply \in Supplies
    \/ \E i \in 1..Len(gpios) : gpios[i].line = l /\ FirstNamed(i)

\* The walk leaves no line behind that the sensor needs, and it goes to the end.
WalkServes ==
    /\ phase \in {"parsing", "holding", "bound"} =>
          \A l \in 1..Len(fw.crs) : l < pos /\ Due(l) => Served(l)
    /\ phase = "bound" => listed /\ pos > Len(fw.crs)

\* What int3472_gpio_map and the default names make of a type, per board.
LEMMA NamesGiven ==
    ASSUME NEW type
    PROVE  LET p == get_con_id_and_polarity(type)
           IN  CASE fw.hid = "INT33F0" /\ type = "POWERDOWN" ->
                       p.type = "POWER_ENABLE" /\ p.con = "vdd"
                 [] fw.hid = "INT347E" /\ type = "RESET" -> p.type = "RESET" /\ p.con = "enable"
                 [] fw.hid = "INT347E" /\ type = "POWER_ENABLE" ->
                       p.type = "POWER_ENABLE" /\ p.con = "vdda"
                 [] fw.hid = "OVTI08F4" /\ type = "HANDSHAKE" ->
                       p.type = "HANDSHAKE" /\ p.con = "dvdd"
                 [] OTHER -> p.type = type /\ p.con = default_con_id[type]
<1> DEFINE mapped == {e \in int3472_gpio_map : e.hid = fw.hid /\ e.from = type}
           p == get_con_id_and_polarity(type)
<1>1. CASE mapped # {}
  <2>1. PICK e \in mapped : p = [type |-> e.to, con |-> e.con, low |-> FALSE]
    BY <1>1 DEF get_con_id_and_polarity
  <2> QED BY <2>1 DEF int3472_gpio_map
<1>2. CASE mapped = {}
  <2>1. p.type = type /\ p.con = default_con_id[type]
    BY <1>2 DEF get_con_id_and_polarity
  <2>2. \A e \in int3472_gpio_map : ~(e.hid = fw.hid /\ e.from = type)
    BY <1>2
  <2>3. /\ ~(fw.hid = "INT33F0" /\ type = "POWERDOWN")
        /\ ~(fw.hid = "INT347E" /\ type = "RESET")
        /\ ~(fw.hid = "INT347E" /\ type = "POWER_ENABLE")
        /\ ~(fw.hid = "OVTI08F4" /\ type = "HANDSHAKE")
    BY <2>2 DEF int3472_gpio_map
  <2> QED BY <2>1, <2>3
<1> QED BY <1>1, <1>2

\* On each board the names of the lines it wires are those its sensor's driver asks
\* for, and no other type of line gets the same one.
LEMMA WiredNames ==
    ASSUME KnownBoards, fw \in Firmware, NEW type, type \in Wired
    PROVE  LET p == get_con_id_and_polarity(type)
           IN  /\ type \in Types
               /\ p.type \in {"CLK_ENABLE", "PRIVACY_LED"} \cup RegulatorTypes \cup SensorTypes
               /\ p.type \in RegulatorTypes => p.con \in Supplies
               /\ p.type = "PRIVACY_LED" => type = "PRIVACY_LED"
               /\ p.type \in SensorTypes =>
                     /\ p.con \in SensorGpios
                     /\ \A other \in Types :
                           /\ get_con_id_and_polarity(other).type \in SensorTypes
                           /\ get_con_id_and_polarity(other).con = p.con
                           => other = type
<1>1. /\ fw.hid \in {"INT347E", "INT33BE", "INT347A", "INT33F0"}
      /\ fw.pwr1 \in {"avdd", "dvdd", "dovdd"}
  BY FirmwareFacts DEF KnownBoards, Firmware
<1>2. /\ default_con_id["RESET"] = "reset" /\ default_con_id["POWERDOWN"] = "powerdown"
      /\ default_con_id["HOTPLUG_DETECT"] = "hpd"
      /\ default_con_id["POWER_ENABLE"] = "avdd" /\ default_con_id["POWER1"] = fw.pwr1
  BY DEF default_con_id
<1>3. type \in {"CLK_ENABLE", "PRIVACY_LED", "RESET", "POWERDOWN", "POWER_ENABLE", "POWER1"}
  BY <1>1 DEF Wired
<1> QED
  BY <1>1, <1>2, <1>3, NamesGiven
  DEF Wired, Types, SensorTypes, RegulatorTypes, OwnTypes, Supplies, SensorGpios


\* A line the sensor needs is one the driver gets an entry for, if none was missed.
LEMMA DueHasEntry ==
    ASSUME KnownBoards, Inv, InWalk, pos <= Len(fw.crs), Due(pos), ~missed
    PROVE  HasEntry
<1>1. fw \in Firmware /\ pos \in 1..Len(fw.crs)
  BY DEF Inv, DataOK
<1>2. fw.crs[pos].gpio /\ TypeOf(pos) \in Types
  BY <1>1, WiredNames DEF Due
<1>3. PICK k \in 1..pos :
         /\ ngpios = Cardinality(GpiosBefore(k))
         /\ k = pos \/ (fw.crs[k].gpio /\ fw.crs[k].type = "NONE")
  BY DEF Inv, InSync
<1>4. k = pos
  BY <1>3 DEF Due, Excused, TypeOf
<1>5. Entry = fw.crs[pos]
  BY <1>1, <1>2, <1>3, <1>4, EntryOfLine DEF Entry
<1>6. fw.crs[pos].type # "NONE"
  BY <1>2 DEF TypeOf, Types, SensorTypes, OwnTypes, RegulatorTypes
<1> QED BY <1>2, <1>5, <1>6 DEF HasEntry

\* A table that only grows at its end.
Grows(s, t) == Len(s) \in Nat /\ Len(t) \in Nat /\ Len(s) <= Len(t)
                 /\ \A i \in 1..Len(s) : t[i] = s[i]

\* The firmware and what it asks for do not change, and a line that is served stays so.
LEMMA ServedStays ==
    ASSUME UNCHANGED fw, Grows(leds, leds'), Grows(regulators, regulators'),
           Grows(gpios, gpios'), clk => clk' /\ ena_gpio' = ena_gpio,
           leds # <<>> => Len(leds) >= 1 /\ leds' # <<>>
    PROVE  \A l : (Due(l)' <=> Due(l)) /\ (Served(l) => Served(l)')
<1>1. \A l : Due(l)' <=> Due(l)
  BY Zenon DEF Due, Excused, Wired, TypeOf
<1>2. Supplies' = Supplies /\ SensorGpios' = SensorGpios
  BY Zenon DEF Supplies, SensorGpios
<1> TAKE l
<1>4. ASSUME clk /\ ena_gpio = l PROVE Served(l)'
  BY <1>4 DEF Served
<1>5. ASSUME leds # <<>> /\ leds[1] = l PROVE Served(l)'
  <2>1. leds' # <<>> /\ leds'[1] = l
    BY <1>5 DEF Grows
  <2> QED BY <2>1 DEF Served
<1>6. ASSUME NEW i \in 1..Len(regulators), regulators[i].line = l, regulators[i].supply \in Supplies
      PROVE  Served(l)'
  <2>1. i \in 1..Len(regulators') /\ regulators'[i] = regulators[i]
    BY DEF Grows
  <2> QED BY <1>2, <1>6, <2>1 DEF Served
<1>7. ASSUME NEW i \in 1..Len(gpios), gpios[i].line = l, FirstNamed(i) PROVE Served(l)'
  <2>1. i \in 1..Len(gpios') /\ \A j \in 1..i : gpios'[j] = gpios[j]
    BY DEF Grows
  <2>2. gpios'[i].line = l /\ FirstNamed(i)'
    BY <1>2, <1>7, <2>1 DEF FirstNamed
  <2> QED BY <2>1, <2>2 DEF Served
<1> QED BY <1>1, <1>4, <1>5, <1>6, <1>7 DEF Served

\* A line has been dealt with: it is served if it was due.
LEMMA WalkOn ==
    ASSUME Inv, WalkServes, InWalk, phase' = "parsing", pos' = pos + 1,
           NEW l, l = pos, Due(l) => Served(l)', UNCHANGED fw,
           \A m : (Due(m)' <=> Due(m)) /\ (Served(m) => Served(m)')
    PROVE  WalkServes'
<1>1. Len(fw.crs) \in Nat /\ pos \in Nat
  BY FirmwareFacts DEF Inv, DataOK
<1>2. ASSUME NEW m \in 1..Len(fw.crs), m < pos + 1, Due(m) PROVE Served(m)'
  <2>1. CASE m < pos
    BY <1>2, <2>1 DEF WalkServes, InWalk
  <2>2. CASE m = l
    BY <1>2, <2>2
  <2> QED BY <1>1, <1>2, <2>1, <2>2
<1> QED BY <1>2 DEF WalkServes

\* The names are the firmware's and the parameter's.
LEMMA NamesKept ==
    UNCHANGED fw => \A t : get_con_id_and_polarity(t)' = get_con_id_and_polarity(t)
  BY Zenon DEF get_con_id_and_polarity, default_con_id

\* The tables as they were.
LEMMA TablesKept ==
    ASSUME Inv, UNCHANGED <<fw, leds, regulators, gpios>>,
           clk => clk' /\ ena_gpio' = ena_gpio
    PROVE  /\ MadeOf => MadeOf'
           /\ \A m : (Due(m)' <=> Due(m)) /\ (Served(m) => Served(m)')
<1>1. MadeOf => MadeOf'
  BY NamesKept DEF MadeOf, TypeOf
<1>2. /\ Grows(leds, leds') /\ Grows(regulators, regulators') /\ Grows(gpios, gpios')
      /\ leds # <<>> => Len(leds) >= 1 /\ leds' # <<>>
  BY TableTypes DEF Inv, Grows
<1> QED BY <1>1, <1>2, ServedStays

\* skl_int3472_register_gpio_clock: the clock is the sensor's.
LEMMA ClockServes ==
    ASSUME Inv, MadeOf, WalkServes, RegisterGpioClock
    PROVE  MadeOf' /\ WalkServes'
<1>1. /\ phase = "holding" /\ phase' = "parsing" /\ pos' = pos + 1 /\ ~clk /\ clk'
      /\ ena_gpio' = pos /\ UNCHANGED <<fw, gpios, leds, regulators>>
  BY DEF RegisterGpioClock, Registered, Advance
<1>2. PICK l : l = pos
  OBVIOUS
<1>3. Served(l)'
  BY <1>1, <1>2 DEF Served
<1> QED BY <1>1, <1>2, <1>3, TablesKept, WalkOn DEF InWalk

\* skl_int3472_register_led: the first privacy LED is the sensor's.
LEMMA LedServes ==
    ASSUME KnownBoards, Inv, ~missed, MadeOf, WalkServes, RegisterLed
    PROVE  MadeOf' /\ WalkServes'
<1>1. /\ phase = "holding" /\ phase' = "parsing" /\ pos' = pos + 1
      /\ HasEntry /\ Purpose.type = "PRIVACY_LED" /\ leds' = Append(leds, pos)
      /\ UNCHANGED <<fw, gpios, regulators, clk, ena_gpio>>
  BY DEF RegisterLed, Registered, Advance, IsFor
<1>2. DataOK /\ fw \in Firmware /\ pos \in Lines /\ pos \in 1..Len(fw.crs)
  BY <1>1, InHand DEF Inv, DataOK
<1>3. fw.crs[pos].gpio /\ TypeOf(pos) = "PRIVACY_LED"
  <2>1. fw.crs[pos].gpio /\ get_con_id_and_polarity(TypeOf(pos)).type = "PRIVACY_LED"
    BY <1>1, <1>2, EntryIsOwn, PurposeFacts DEF Inv, InWalk, TypeOf
  <2> QED BY <2>1, NamesGiven
<1>4. /\ Len(leds) \in Nat /\ Len(leds') = Len(leds) + 1 /\ leds'[Len(leds) + 1] = pos
      /\ \A i \in 1..Len(leds) : leds'[i] = leds[i]
  BY <1>1, <1>2, TableTypes, AppendFacts
<1>5. MadeOf'
  <2>1. \A i \in 1..Len(leds') : fw.crs[leds'[i]].gpio /\ TypeOf(leds'[i]) = "PRIVACY_LED"
    BY <1>3, <1>4 DEF MadeOf
  <2> QED BY <1>1, <2>1, NamesKept DEF MadeOf, TypeOf
<1>6. leds' # <<>> /\ (leds # <<>> => Len(leds) >= 1)
  BY <1>1, <1>2, <1>4, TableTypes
<1>7. \A m : (Due(m)' <=> Due(m)) /\ (Served(m) => Served(m)')
  BY <1>1, <1>2, <1>4, <1>6, TableTypes, ServedStays DEF Grows
<1>8. PICK l : l = pos
  OBVIOUS
<1>9. ASSUME Due(l) PROVE Served(l)'
  <2>1. ASSUME leds # <<>> PROVE FALSE
    <3>1. leds[1] \in 1..l /\ leds[1] < l
      BY <1>2, <1>4, <1>6, <1>8, <2>1, TableTypes DEF Inv, PassedLines, Lines
    <3>2. fw.crs[leds[1]].gpio /\ TypeOf(leds[1]) = TypeOf(l)
      BY <1>3, <1>4, <1>6, <1>8, <2>1 DEF MadeOf
    <3> QED BY <1>9, <3>1, <3>2 DEF Due, Excused
  <2>2. leds'[1] = l
    BY <1>2, <1>4, <1>8, <2>1, TableTypes
  <2> QED BY <1>6, <2>2 DEF Served
<1> QED BY <1>1, <1>5, <1>7, <1>8, <1>9, WalkOn DEF InWalk


\* skl_int3472_register_regulator: its supply is one the sensor asks for.
LEMMA RegulatorServes ==
    ASSUME KnownBoards, Inv, ~missed, MadeOf, WalkServes, RegisterRegulator
    PROVE  MadeOf' /\ WalkServes'
<1> DEFINE new == [line |-> pos, supply |-> Purpose.con]
<1>1. /\ phase = "holding" /\ phase' = "parsing" /\ pos' = pos + 1
      /\ HasEntry /\ Purpose.type \in RegulatorTypes /\ regulators' = Append(regulators, new)
      /\ UNCHANGED <<fw, gpios, leds, clk, ena_gpio>>
  BY DEF RegisterRegulator, Registered, Advance, IsFor
<1>2. DataOK /\ fw \in Firmware /\ pos \in Lines /\ pos \in 1..Len(fw.crs)
  BY <1>1, InHand DEF Inv, DataOK
<1>3. /\ Purpose.type = get_con_id_and_polarity(TypeOf(pos)).type
      /\ Purpose.con = get_con_id_and_polarity(TypeOf(pos)).con
      /\ Purpose.con \in SupplyNames
  <2>1. InWalk /\ DataOK /\ WalkInside /\ InSync
    BY <1>1 DEF Inv, InWalk
  <2>3. pos <= Len(fw.crs)
    BY <1>1 DEF Inv, WalkInside
  <2>2. Purpose.con \in SupplyNames
    BY <1>1, <2>1, <2>3, PurposeNames, Zenon
  <2> QED BY <1>1, <2>1, <2>2, <2>3, PurposeFacts DEF TypeOf
<1>4. new \in Regulator /\ new.line = pos /\ new.supply = Purpose.con
  BY <1>2, <1>3 DEF Regulator
<1> HIDE DEF new
<1>5. /\ Len(regulators) \in Nat /\ Len(regulators') = Len(regulators) + 1
      /\ regulators'[Len(regulators) + 1] = new
      /\ \A i \in 1..Len(regulators) : regulators'[i] = regulators[i]
  BY <1>1, <1>2, <1>4, TableTypes, AppendFacts
<1>6. MadeOf'
  BY <1>1, NamesKept DEF MadeOf, TypeOf
<1>7. \A m : (Due(m)' <=> Due(m)) /\ (Served(m) => Served(m)')
  <2>1. /\ Grows(leds, leds') /\ Grows(gpios, gpios') /\ Grows(regulators, regulators')
        /\ leds # <<>> => Len(leds) >= 1 /\ leds' # <<>>
    BY <1>1, <1>2, <1>5, TableTypes DEF Grows
  <2> QED BY <1>1, <2>1, ServedStays
<1>8. PICK l : l = pos
  OBVIOUS
<1>9. ASSUME Due(l) PROVE Served(l)'
  <2>1. Purpose.con \in Supplies
    BY <1>1, <1>2, <1>3, <1>8, <1>9, WiredNames DEF Due
  <2>2. Supplies' = Supplies
    BY <1>1, Zenon DEF Supplies
  <2>3. /\ Len(regulators) + 1 \in 1..Len(regulators')
        /\ regulators'[Len(regulators) + 1].line = l
        /\ regulators'[Len(regulators) + 1].supply \in Supplies'
    BY <1>4, <1>5, <1>8, <2>1, <2>2
  <2> QED BY <2>3 DEF Served
<1> QED BY <1>1, <1>6, <1>7, <1>8, <1>9, WalkOn DEF InWalk

\* skl_int3472_map_gpio_to_sensor: the line is the first of its name.
LEMMA MapServes ==
    ASSUME KnownBoards, Inv, ~missed, MadeOf, WalkServes, MapToSensor
    PROVE  MadeOf' /\ WalkServes'
<1> DEFINE new == [line |-> pos, con |-> Purpose.con, low |-> Purpose.low]
<1>1. /\ phase = "parsing" /\ phase' = "parsing" /\ pos' = pos + 1 /\ pos <= Len(fw.crs)
      /\ HasEntry /\ Purpose.type \in SensorTypes /\ gpios' = Append(gpios, new)
      /\ UNCHANGED <<fw, regulators, leds, clk, ena_gpio>>
  BY DEF MapToSensor, Walking, Advance, IsFor
<1>2. DataOK /\ fw \in Firmware /\ pos \in Lines /\ pos \in 1..Len(fw.crs)
  <2>1. DataOK /\ fw \in Firmware /\ pos \in 1..MaxResources + 1
    BY DEF Inv, DataOK
  <2>2. Len(fw.crs) \in 0..MaxResources
    BY <2>1, FirmwareFacts
  <2> QED BY <1>1, <2>1, <2>2 DEF Lines
<1>3. /\ Purpose.type = get_con_id_and_polarity(TypeOf(pos)).type
      /\ Purpose.con = get_con_id_and_polarity(TypeOf(pos)).con
      /\ Purpose.con \in SensorNames /\ Purpose.low \in BOOLEAN
      /\ fw.crs[pos].gpio /\ TypeOf(pos) \in Types
  <2>1. Inv /\ InWalk /\ DataOK /\ WalkInside /\ InSync
    BY <1>1 DEF Inv, InWalk
  <2>2. Purpose.con \in SensorNames /\ Purpose.low \in BOOLEAN
    BY <1>1, <2>1, PurposeNames
  <2> QED BY <1>1, <2>1, <2>2, PurposeFacts, EntryIsOwn DEF TypeOf
<1>4. new \in SensorGpio /\ new.line = pos /\ new.con = Purpose.con
  BY <1>2, <1>3 DEF SensorGpio
<1> HIDE DEF new
<1>5. /\ Len(gpios) \in Nat /\ Len(gpios') = Len(gpios) + 1
      /\ gpios'[Len(gpios) + 1] = new
      /\ \A i \in 1..Len(gpios) : gpios'[i] = gpios[i]
  BY <1>1, <1>2, <1>4, TableTypes, AppendFacts
<1>6. MadeOf'
  <2>1. \A t : get_con_id_and_polarity(t)' = get_con_id_and_polarity(t)
    BY <1>1, NamesKept
  <2>2. \A i \in 1..Len(gpios') :
           /\ fw.crs[gpios'[i].line].gpio /\ TypeOf(gpios'[i].line) \in Types
           /\ get_con_id_and_polarity(TypeOf(gpios'[i].line)).type \in SensorTypes
           /\ get_con_id_and_polarity(TypeOf(gpios'[i].line)).con = gpios'[i].con
    <3>1. ASSUME NEW i \in 1..Len(gpios')
          PROVE  \/ gpios'[i].line = pos /\ gpios'[i].con = Purpose.con
                 \/ i \in 1..Len(gpios) /\ gpios'[i] = gpios[i]
      BY <1>4, <1>5
    <3> QED BY <1>1, <1>3, <3>1 DEF MadeOf
  <2> QED BY <1>1, <2>1, <2>2 DEF MadeOf, TypeOf
<1>7. \A m : (Due(m)' <=> Due(m)) /\ (Served(m) => Served(m)')
  <2>1. /\ Grows(leds, leds') /\ Grows(gpios, gpios') /\ Grows(regulators, regulators')
        /\ leds # <<>> => Len(leds) >= 1 /\ leds' # <<>>
    BY <1>1, <1>2, <1>5, TableTypes DEF Grows
  <2> QED BY <1>1, <2>1, ServedStays
<1>8. PICK l : l = pos
  OBVIOUS
<1>9. ASSUME Due(l) PROVE Served(l)'
  <2>1. /\ new.con \in SensorGpios
        /\ \A other \in Types :
              /\ get_con_id_and_polarity(other).type \in SensorTypes
              /\ get_con_id_and_polarity(other).con = new.con
              => other = TypeOf(l)
    BY <1>1, <1>2, <1>3, <1>4, <1>8, <1>9, WiredNames DEF Due
  <2>2. ASSUME NEW j \in 1..Len(gpios) PROVE gpios[j].con # new.con
    <3> SUFFICES ASSUME gpios[j].con = new.con PROVE FALSE
      OBVIOUS
    <3>1. fw.crs[gpios[j].line].gpio /\ TypeOf(gpios[j].line) = TypeOf(l)
      BY <2>1 DEF MadeOf
    <3>2. gpios[j].line \in 1..l /\ gpios[j].line < l
      <4>1. gpios[j].line < pos
        BY DEF Inv, PassedLines
      <4>2. gpios[j].line \in 1..MaxResources
        BY <1>2, TableTypes DEF SensorGpio, Lines
      <4> QED BY <1>2, <1>8, <4>1, <4>2 DEF Lines
    <3> QED BY <1>9, <3>1, <3>2 DEF Due, Excused
  <2>3. SensorGpios' = SensorGpios
    BY <1>1, Zenon DEF SensorGpios
  <2> DEFINE n == Len(gpios) + 1
  <2>4. n \in 1..Len(gpios') /\ gpios'[n].line = l
    BY <1>4, <1>5, <1>8
  <2>5. gpios'[n].con \in SensorGpios' /\ \A j \in 1..n - 1 : gpios'[j].con # gpios'[n].con
    BY <1>5, <2>1, <2>2, <2>3
  <2>6. \E i \in 1..Len(gpios') :
           /\ gpios'[i].line = l /\ gpios'[i].con \in SensorGpios'
           /\ \A j \in 1..i - 1 : gpios'[j].con # gpios'[i].con
    BY <2>4, <2>5
  <2> QED BY <2>6 DEF Served, FirstNamed
<1> QED BY <1>1, <1>6, <1>7, <1>8, <1>9, WalkOn DEF InWalk


\* What the driver leaves behind unhandled is not due.
LEMMA PassedNotDue ==
    ASSUME KnownBoards, Inv, ~missed', SkipResource \/ SkipUnknown
    PROVE  ~Due(pos)
<1>1. InWalk /\ pos <= Len(fw.crs) /\ fw \in Firmware
  BY DEF SkipResource, SkipUnknown, Walking, InWalk, Inv, DataOK
<1>2. CASE SkipResource
  <2>1. ~missed /\ ~HasEntry
    BY <1>2 DEF SkipResource
  <2> QED BY <1>1, <2>1, DueHasEntry
<1>3. CASE SkipUnknown
  <2>1. HasEntry /\ Purpose.type = "POWER0" /\ ~missed
    BY <1>3 DEF SkipUnknown, IsFor, history
  <2>2. get_con_id_and_polarity(TypeOf(pos)).type = "POWER0"
    BY <1>1, <2>1, PurposeFacts DEF Inv, TypeOf
  <2> QED
    BY <1>1, <2>2, WiredNames DEF Due, RegulatorTypes, SensorTypes
<1> QED BY <1>2, <1>3

\* An empty structure serves what was passed: nothing.
LEMMA FreshServes ==
    ASSUME Inv, UNCHANGED fw, Fresh, phase' # "bound"
    PROVE  MadeOf' /\ WalkServes'
  BY FirmwareFacts DEF Fresh, MadeOf, WalkServes, Inv, DataOK

\* Every step of the walk serves what is due before it goes on; a failed one, and a
\* removal, end with the structure as it was or empty.
LEMMA ServesNext ==
    ASSUME KnownBoards, Inv, ~missed, ~missed', MadeOf, WalkServes, [Next]_vars
    PROVE  MadeOf' /\ WalkServes'
<1> USE DEF structVars
<1>1. ASSUME UNCHANGED <<fw, clk, ena_gpio, leds, regulators, gpios>>
      PROVE  /\ MadeOf'
             /\ \A m : (Due(m)' <=> Due(m)) /\ (Served(m) => Served(m)')
  BY <1>1, TablesKept
<1>2. ASSUME UNCHANGED <<fw, pos, clk, ena_gpio, leds, regulators, gpios>>,
             \/ UNCHANGED <<phase, listed>>
             \/ phase \in {"parsing", "holding"} /\ phase' \in {"parsing", "holding"}
      PROVE  MadeOf' /\ WalkServes'
  BY <1>1, <1>2 DEF WalkServes
<1>3. ASSUME UNCHANGED <<fw, leds, regulators, gpios>>, clk => clk' /\ ena_gpio' = ena_gpio,
             phase' \notin {"parsing", "holding", "bound"}
      PROVE  MadeOf' /\ WalkServes'
  BY <1>3, TablesKept DEF WalkServes
<1>4. ASSUME UNCHANGED fw, Fresh, phase' # "bound" PROVE MadeOf' /\ WalkServes'
  BY <1>4, FreshServes
<1>5. CASE SkipResource \/ SkipUnknown
  <2>1. /\ phase = "parsing" /\ phase' = "parsing" /\ pos' = pos + 1
        /\ UNCHANGED <<fw, clk, ena_gpio, leds, regulators, gpios>>
    BY <1>5 DEF SkipResource, SkipUnknown, Walking, Advance
  <2>2. PICK l : l = pos
    OBVIOUS
  <2>3. ~Due(l)
    BY <1>5, <2>2, PassedNotDue
  <2> QED BY <1>1, <2>1, <2>2, <2>3, WalkOn DEF InWalk
<1>6. CASE MapToSensor BY <1>6, MapServes
<1>7. CASE MapFails \/ GetFails \/ DsmClockFails
  BY <1>3, <1>7 DEF MapFails, GetFails, DsmClockFails, Fail
<1>8. CASE GetGpio
  BY <1>2, <1>8 DEF GetGpio, Walking
<1>9. CASE RegisterGpioClock BY <1>9, ClockServes
<1>10. CASE RegisterLed BY <1>10, LedServes
<1>11. CASE RegisterRegulator BY <1>11, RegulatorServes
<1>12. CASE RegisterFails \/ RegulatorCoreFails
  <2>1. /\ phase' = "unwinding" /\ clk' = clk /\ (clk => ena_gpio' = ena_gpio)
        /\ UNCHANGED <<fw, leds, regulators, gpios>>
    BY <1>12 DEF RegisterFails, RegulatorCoreFails, Fail
  <2> QED BY <1>3, <2>1
<1>13. CASE ParseDone
  <2>1. /\ phase = "parsing" /\ pos > Len(fw.crs) /\ phase' = "bound" /\ listed'
        /\ (clk => clk') /\ UNCHANGED <<fw, pos, ena_gpio, leds, regulators, gpios>>
    BY <1>13 DEF ParseDone, Parsed
  <2> QED BY <2>1, TablesKept DEF WalkServes
<1>14. CASE Unwind \/ Remove
  BY <1>4, <1>14 DEF Unwind, Remove, Cleanup
<1>15. CASE Probe
  BY <1>4, <1>15 DEF Probe
<1>16. CASE Sensor
  BY <1>2, <1>16
  DEF Sensor, SensorProbe, SensorRemove, EnableClk, LedSet, SupplySet, GpioSet, Switch
<1>17. CASE ControllerAppears \/ UNCHANGED vars
  BY <1>2, <1>17 DEF ControllerAppears, vars
<1> QED
  BY <1>5, <1>6, <1>7, <1>8, <1>9, <1>10, <1>11, <1>12, <1>13, <1>14, <1>15, <1>16, <1>17
  DEF Next, Walk

\* An entry that was missed is forgotten with all that was made.
LEMMA MissedUntilFresh ==
    ASSUME Inv, missed, ~missed', [Next]_vars
    PROVE  UNCHANGED fw /\ Fresh /\ phase' # "bound"
<1>1. Unwind \/ Remove \/ Probe
  BY DEF Next, Walk, Sensor, SkipResource, SkipUnknown, MapToSensor, MapFails, GetGpio, GetFails,
     RegisterGpioClock, RegisterLed, RegisterRegulator, Registered, RegisterFails,
     RegulatorCoreFails, ParseDone, DsmClockFails, SensorProbe, SensorRemove, EnableClk, LedSet,
     SupplySet, GpioSet, Switch, ControllerAppears, vars, history
<1> QED BY <1>1 DEF Unwind, Remove, Cleanup, Probe

\* A sensor whose driver binds reaches every line its board wires to it under the
\* names it asks for, whatever the firmware lists, in whatever order, and whichever
\* probes failed before: on the boards whose sensors' drivers are modelled, with a
\* name for POWER1 that the OV8865's driver knows, and if every entry was read.
THEOREM FindsItsLines == ASSUME KnownBoards PROVE Spec => []SensorFindsItsLines
<1> DEFINE J == Inv /\ (~missed => MadeOf /\ WalkServes)
<1>1. Init => J
  <2> SUFFICES ASSUME Init PROVE J
    OBVIOUS
  <2> QED BY InitInv DEF Init, MadeOf, WalkServes
<1>2. J /\ [Next]_vars => J'
  <2> SUFFICES ASSUME J, [Next]_vars, ~missed' PROVE MadeOf' /\ WalkServes'
    BY NextInv
  <2>1. CASE ~missed BY <2>1, ServesNext
  <2>2. CASE missed BY <2>2, MissedUntilFresh, FreshServes
  <2> QED BY <2>1, <2>2
<1>3. J => SensorFindsItsLines
  <2> SUFFICES ASSUME J, ~missed, sensor = "bound", phase = "bound", NEW l \in 1..Len(fw.crs), Due(l)
               PROVE  l \in Reach
    BY DEF SensorFindsItsLines, Inv, DataOK, LifeCycle, Due, Excused, TypeOf
  <2>1. listed /\ Served(l)
    BY FirmwareFacts DEF WalkServes, Inv, DataOK
  <2>2. ASSUME NEW i \in 1..Len(gpios), gpios[i].line = l, FirstNamed(i)
        PROVE  \E g \in Found : g.line = l
    BY <2>1, <2>2 DEF Found, FirstNamed
  <2> QED BY <2>1, <2>2 DEF Served, Reach
<1> QED BY <1>1, <1>2, <1>3, PTL DEF Spec

=============================================================================
