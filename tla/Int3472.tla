------------------------------ MODULE Int3472 -------------------------------
(***************************************************************************)
(* The power glue of one camera, src/dkms/int3472-surface: the driver of   *)
(* the INT3472 ACPI device.  Its probe walks the GPIO lines the firmware   *)
(* lists, asks the _DSM what each is for, and hands it to the sensor or    *)
(* makes a clock, a privacy LED or a regulator of it; if a step fails, what*)
(* was made is taken back.  Only then is the sensor enumerated.            *)
(*                                                                         *)
(* Modelled with it, from the way the driver uses them: the firmware, the  *)
(* GPIO core (descriptors, levels), the driver core, which probes again    *)
(* after a deferral, and the sensor's driver, which switches what it finds *)
(* under the names it asks for.  Names and delays that only reach logs and *)
(* sysfs are left out, and so is the second sensor a quirk gives avdd to.  *)
(***************************************************************************)
EXTENDS Integers, Sequences, FiniteSets

CONSTANTS
    Hids,                \* the sensors' ACPI ids
    Resources,           \* what a firmware may list in _CRS
    MaxResources,        \* bound: resources in one _CRS
    MAX_SENSOR_GPIOS,    \* INT3472_MAX_SENSOR_GPIOS
    MAX_REGULATORS,      \* INT3472_MAX_REGULATORS
    MAX_LEDS,            \* INT3472_MAX_LEDS from Linux 7.1 on, 1 before it
    Pwr1Names            \* values of the module parameter ov8865_pwr1_con_id

SensorTypes == {"RESET", "POWERDOWN", "HOTPLUG_DETECT"}
RegulatorTypes == {"POWER_ENABLE", "POWER1", "HANDSHAKE"}
OwnTypes == {"CLK_ENABLE", "PRIVACY_LED"} \cup RegulatorTypes
Types == SensorTypes \cup OwnTypes \cup {"POWER0"}

\* A resource is something else than a GPIO, or a GPIO with its _DSM entry:
\* the line's type, "NONE" without an entry, and its level when the sensor is on.
Resource == [gpio : BOOLEAN, type : Types \cup {"NONE"}, on : {0, 1}]

ASSUME LimitsAssumption ==
    {MaxResources, MAX_SENSOR_GPIOS, MAX_REGULATORS, MAX_LEDS} \subseteq Nat
ASSUME FirmwareAssumption == Resources \subseteq Resource

VARIABLES
    fw,           \* the firmware: hid, crs, whether a _DSM drives the clock;
                  \* and pwr1, the module parameter ov8865_pwr1_con_id
    ready,        \* the GPIO controller has a driver
    \* the INT3472 driver
    phase,        \* where its probe is
    ret,          \* why it is being unwound
    pos,          \* the resource being handled
    ngpios,       \* the index into the _DSM
    gpios,        \* the lookup table for the sensor
    listed,       \* ... and whether it is registered
    clk,          \* clock.cl is set
    ena_gpio,     \* clock.ena_gpio, 0 for NULL
    leds,         \* the lines of the registered LEDs
    regulators,   \* the registered regulators
    \* the GPIO core
    held,         \* line -> 1 while its descriptor is requested, by this driver
    low,          \* line -> its descriptor is active low
    level,        \* line -> the physical level, Firmware's until it is driven
    \* history of this walk
    missed,       \* a _DSM entry was there and could not be read
    overput,      \* the line whose descriptor was put after it had been put, or 0
    \* the sensor
    enumerated,   \* its dependency on this device is cleared
    sensor,       \* its driver
    used,         \* the lines it has put into their "on" state
    imgclk        \* ... and the clock the _DSM drives

structVars == <<pos, ngpios, gpios, clk, ena_gpio, leds, regulators>>
gpioVars == <<held, low, level>>
history == <<missed, overput>>
sensorVars == <<sensor, used, imgclk>>
vars == <<history, fw, ready, phase, ret, structVars, listed, gpioVars, enumerated, sensorVars>>

-----------------------------------------------------------------------------
Lines == 1..MaxResources
AsFirmwareLeft == -1

Firmware == [hid : Hids, dsmclk : BOOLEAN, pwr1 : Pwr1Names,
             crs : UNION {[1..n -> Resources] : n \in 0..MaxResources}]

\* The names a line is given.
SensorNames == {"reset", "powerdown", "hpd", "enable"}
SupplyNames == {"avdd", "dvdd", "vdd", "vdda"} \cup Pwr1Names

FlagsOK ==
    /\ ready \in BOOLEAN /\ listed \in BOOLEAN /\ clk \in BOOLEAN
    /\ enumerated \in BOOLEAN /\ imgclk \in BOOLEAN /\ missed \in BOOLEAN

DataOK ==
    /\ fw \in Firmware
    /\ phase \in {"unbound", "parsing", "holding", "unwinding", "deferred", "failed", "bound"}
    /\ ret \in {"ok", "defer", "error"}
    /\ pos \in 1..MaxResources + 1 /\ ngpios \in 0..MaxResources
    /\ gpios \in Seq([line : Lines, con : SensorNames, low : BOOLEAN])
    /\ leds \in Seq(Lines) /\ ena_gpio \in 0..MaxResources
    /\ regulators \in Seq([line : Lines, supply : SupplyNames])
    /\ Len(gpios) <= MAX_SENSOR_GPIOS /\ Len(leds) <= MAX_LEDS
    /\ Len(regulators) <= MAX_REGULATORS
    /\ held \in [Lines -> 0..1] /\ low \in [Lines -> BOOLEAN]
    /\ level \in [Lines -> {AsFirmwareLeft, 0, 1}]
    /\ overput \in 0..MaxResources
    /\ sensor \in {"unbound", "bound"} /\ used \subseteq Lines

TypeOK == FlagsOK /\ DataOK

\* struct int3472_discrete_device as devm_kzalloc returns it.
Fresh ==
    /\ pos' = 1 /\ ngpios' = 0 /\ gpios' = <<>>
    /\ clk' = FALSE /\ ena_gpio' = 0 /\ leds' = <<>> /\ regulators' = <<>>
    /\ missed' = FALSE /\ overput' = 0

Init ==
    /\ fw \in Firmware /\ ready \in BOOLEAN
    /\ phase = "unbound" /\ ret = "ok"
    /\ pos = 1 /\ ngpios = 0 /\ gpios = <<>> /\ listed = FALSE
    /\ clk = FALSE /\ ena_gpio = 0 /\ leds = <<>> /\ regulators = <<>>
    /\ held = [l \in Lines |-> 0] /\ low = [l \in Lines |-> FALSE]
    /\ level = [l \in Lines |-> AsFirmwareLeft] /\ missed = FALSE /\ overput = 0
    /\ enumerated = FALSE /\ sensor = "unbound" /\ used = {} /\ imgclk = FALSE

-----------------------------------------------------------------------------
(* What a line is for.                                                     *)

\* Mutant: the table of mainline, without the entry for the OV7251's rail.
int3472_gpio_map_Mainline ==
    { [hid |-> "INT33F0", from |-> "POWERDOWN", to |-> "POWER_ENABLE", con |-> "vdd"],
      [hid |-> "INT347E", from |-> "RESET", to |-> "RESET", con |-> "enable"],
      [hid |-> "OVTI08F4", from |-> "HANDSHAKE", to |-> "HANDSHAKE", con |-> "dvdd"] }

\* What the drivers of some sensors expect; polarity_low is set nowhere.
int3472_gpio_map ==
    { [hid |-> "INT33F0", from |-> "POWERDOWN", to |-> "POWER_ENABLE", con |-> "vdd"],
      [hid |-> "INT347E", from |-> "RESET", to |-> "RESET", con |-> "enable"],
      [hid |-> "INT347E", from |-> "POWER_ENABLE", to |-> "POWER_ENABLE", con |-> "vdda"],
      [hid |-> "OVTI08F4", from |-> "HANDSHAKE", to |-> "HANDSHAKE", con |-> "dvdd"] }

default_con_id ==
    [RESET |-> "reset", POWERDOWN |-> "powerdown", HOTPLUG_DETECT |-> "hpd",
     CLK_ENABLE |-> "clk-enable", PRIVACY_LED |-> "privacy-led",
     POWER_ENABLE |-> "avdd", POWER1 |-> fw.pwr1, HANDSHAKE |-> "dvdd",
     POWER0 |-> "unknown"]

\* The type, name and polarity of a line of the given type.
get_con_id_and_polarity(type) ==
    LET mapped == {e \in int3472_gpio_map : e.hid = fw.hid /\ e.from = type}
    IN  IF mapped # {}
        THEN LET e == CHOOSE e \in mapped : TRUE
             IN  [type |-> e.to, con |-> e.con, low |-> FALSE]
        ELSE [type |-> type, con |-> default_con_id[type],
              low |-> type \in {"RESET", "POWERDOWN"}]

GpiosBefore(l) == {k \in 1..l - 1 : fw.crs[k].gpio}

\* The _DSM's entry number n is that of the line with n others before it.
DsmEntry(n) ==
    fw.crs[CHOOSE l \in 1..Len(fw.crs) :
              fw.crs[l].gpio /\ Cardinality(GpiosBefore(l)) = n]

Walking == phase = "parsing" /\ pos <= Len(fw.crs)

\* The entry of the line being handled, if it is a line and has one.
Entry == DsmEntry(ngpios)
HasEntry == fw.crs[pos].gpio /\ Entry.type # "NONE"

\* Mutant: the on value is ignored.
Purpose_NoOnValue == get_con_id_and_polarity(Entry.type)

\* The line's purpose; it is active the other way if "on" is low.
Purpose ==
    LET p == get_con_id_and_polarity(Entry.type)
    IN  [p EXCEPT !.low = (p.low # (Entry.on = 0))]

\* The switch over the line's type.
IsFor(types) == HasEntry /\ Purpose.type \in types

\* The level of a line that is given a logical value.
Level(value, isLow) == IF isLow THEN 1 - value ELSE value

-----------------------------------------------------------------------------
(* The walk over _CRS: skl_int3472_handle_gpio_resources.                  *)

Advance == pos' = pos + 1 /\ ngpios' = ngpios + 1

Fail(why) == phase' = "unwinding" /\ ret' = why

\* Other resources, lines without an entry, and lines whose entry the firmware
\* cannot be asked for this time.  The index stays: the next line is handled by the
\* entry of this one.
SkipResource ==
    /\ Walking
    /\ missed' = (missed \/ HasEntry)
    /\ pos' = pos + 1
    /\ UNCHANGED <<fw, ready, phase, ret, ngpios, gpios, clk, ena_gpio, leds, regulators,
                   listed, gpioVars, overput, enumerated, sensorVars>>

\* An unknown type is reported and passed over.
SkipUnknown ==
    /\ Walking /\ IsFor({"POWER0"})
    /\ Advance
    /\ UNCHANGED <<history, fw, ready, phase, ret, gpios, clk, ena_gpio, leds, regulators, listed,
                   gpioVars, enumerated, sensorVars>>

\* skl_int3472_map_gpio_to_sensor, within the table ...
MapToSensor ==
    /\ Walking /\ IsFor(SensorTypes) /\ Len(gpios) < MAX_SENSOR_GPIOS
    /\ gpios' = Append(gpios, [line |-> pos, con |-> Purpose.con, low |-> Purpose.low])
    /\ Advance
    /\ UNCHANGED <<history, fw, ready, phase, ret, clk, ena_gpio, leds, regulators, listed,
                   gpioVars, enumerated, sensorVars>>

\* ... or not, or the controller cannot be looked up.
MapFails ==
    /\ Walking /\ IsFor(SensorTypes)
    /\ Advance /\ Fail("error")
    /\ UNCHANGED <<history, fw, ready, gpios, clk, ena_gpio, leds, regulators, listed,
                   gpioVars, enumerated, sensorVars>>

\* The driver takes a line for itself, off (GPIOD_OUT_LOW).
GetGpio ==
    /\ Walking /\ IsFor(OwnTypes) /\ ready
    /\ low' = [low EXCEPT ![pos] = Purpose.low]
    /\ level' = [level EXCEPT ![pos] = Level(0, Purpose.low)]
    /\ held' = [held EXCEPT ![pos] = @ + 1]
    /\ phase' = "holding"
    /\ UNCHANGED <<history, fw, ready, ret, structVars, listed, enumerated, sensorVars>>

\* -EPROBE_DEFER while the controller has no driver, or another error.
GetError == IF ready THEN {"error"} ELSE {"error", "defer"}

GetFails ==
    /\ Walking /\ IsFor(OwnTypes)
    /\ Advance /\ \E why \in GetError : Fail(why)
    /\ UNCHANGED <<history, fw, ready, gpios, clk, ena_gpio, leds, regulators, listed,
                   gpioVars, enumerated, sensorVars>>

Registered ==
    /\ phase' = "parsing" /\ Advance
    /\ UNCHANGED <<history, fw, ready, ret, gpios, listed, gpioVars, enumerated, sensorVars>>

\* skl_int3472_register_gpio_clock: one clock only.
RegisterGpioClock ==
    /\ phase = "holding" /\ IsFor({"CLK_ENABLE"}) /\ ~clk
    /\ clk' = TRUE /\ ena_gpio' = pos
    /\ Registered /\ UNCHANGED <<leds, regulators>>

\* skl_int3472_register_led; before Linux 7.1 skl_int3472_register_pled.
RegisterLed ==
    /\ phase = "holding" /\ IsFor({"PRIVACY_LED"}) /\ Len(leds) < MAX_LEDS
    /\ leds' = Append(leds, pos)
    /\ Registered /\ UNCHANGED <<clk, ena_gpio, regulators>>

GPIO_SUPPLY_NAME_LENGTH == 5

\* The regulator core refuses a name the sensor has already.
NameFree(name) == \A i \in 1..Len(regulators) : regulators[i].supply # name

\* Mutant: no limit on the number of regulators.
RegisterRegulator_NoLimit ==
    /\ phase = "holding" /\ IsFor(RegulatorTypes)
    /\ Len(Purpose.con) < GPIO_SUPPLY_NAME_LENGTH /\ NameFree(Purpose.con)
    /\ regulators' = Append(regulators, [line |-> pos, supply |-> Purpose.con])
    /\ Registered /\ UNCHANGED <<clk, ena_gpio, leds>>

\* What skl_int3472_register_regulator refuses before it calls the regulator core.
RefusedRegulator ==
    /\ IsFor(RegulatorTypes)
    /\ Len(regulators) >= MAX_REGULATORS \/ Len(Purpose.con) >= GPIO_SUPPLY_NAME_LENGTH

\* skl_int3472_register_regulator.
RegisterRegulator ==
    /\ phase = "holding" /\ IsFor(RegulatorTypes) /\ Len(regulators) < MAX_REGULATORS
    /\ Len(Purpose.con) < GPIO_SUPPLY_NAME_LENGTH /\ NameFree(Purpose.con)
    /\ regulators' = Append(regulators, [line |-> pos, supply |-> Purpose.con])
    /\ Registered /\ UNCHANGED <<clk, ena_gpio, leds>>

\* A clock or an LED cannot be registered, or a regulator is refused: the line is
\* put back, but a clock leaves clock.ena_gpio behind.
RegisterFails ==
    /\ phase = "holding" /\ (IsFor(RegulatorTypes) => RefusedRegulator)
    /\ Advance /\ Fail("error")
    /\ ena_gpio' = IF IsFor({"CLK_ENABLE"}) /\ ~clk THEN pos ELSE ena_gpio
    /\ held' = [held EXCEPT ![pos] = @ - 1]
    /\ UNCHANGED <<history, fw, ready, gpios, clk, leds, regulators, listed, low, level,
                   enumerated, sensorVars>>

\* The regulator core, which owns cfg.ena_gpiod from the call on, fails, be it over
\* a name the sensor has already: it puts the line, and the driver puts it again.
RegulatorCoreFails ==
    /\ phase = "holding" /\ IsFor(RegulatorTypes) /\ ~RefusedRegulator
    /\ Advance /\ Fail("error")
    /\ held' = [held EXCEPT ![pos] = @ - 1] /\ overput' = pos
    /\ UNCHANGED <<fw, ready, gpios, clk, ena_gpio, leds, regulators, listed, low, level,
                   missed, enumerated, sensorVars>>

-----------------------------------------------------------------------------
(* probe and remove.                                                       *)

\* Before the walk: the firmware's tables are read and the sensor is looked up
\* through the dependency it has on this device, so only until it is cleared.
Probe ==
    /\ phase \in {"unbound", "failed", "deferred"}
    /\ \/ ~enumerated /\ phase' = "parsing"
       \/ phase' = "failed"
    /\ Fresh /\ ret' = "ok"
    /\ UNCHANGED <<fw, ready, listed, gpioVars, enumerated, sensorVars>>

Parsed == phase = "parsing" /\ pos > Len(fw.crs)

\* The walk is over: the _DSM's clock if no line was one, the lookup table,
\* and, the probe having succeeded, the sensor's dependency.
ParseDone ==
    /\ Parsed
    /\ clk' = (clk \/ fw.dsmclk)
    /\ listed' = TRUE /\ enumerated' = TRUE /\ phase' = "bound"
    /\ UNCHANGED <<history, fw, ready, ret, pos, ngpios, gpios, ena_gpio, leds, regulators,
                   gpioVars, sensorVars>>

DsmClockFails ==
    /\ Parsed /\ ~clk /\ fw.dsmclk /\ Fail("error")
    /\ UNCHANGED <<history, fw, ready, structVars, listed, gpioVars, enumerated, sensorVars>>

\* Mutant: the clock's line is put whenever clock.ena_gpio is set.
ClockLine_ByGpio == {ena_gpio} \ {0}

\* The line skl_int3472_unregister_clock puts.
ClockLine == IF clk THEN {ena_gpio} \ {0} ELSE {}

LedLines == {leds[i] : i \in 1..Len(leds)}
RegulatorLines == {regulators[i].line : i \in 1..Len(regulators)}

\* The lines int3472_discrete_cleanup gives back.
Released == ClockLine \cup LedLines \cup RegulatorLines

\* int3472_discrete_cleanup, and the structure is freed.
Cleanup ==
    /\ listed' = FALSE
    /\ held' = [l \in Lines |-> IF l \in Released THEN held[l] - 1 ELSE held[l]]
    /\ Fresh

\* The probe fails.
Unwind ==
    /\ phase = "unwinding" /\ Cleanup
    /\ phase' = IF ret = "defer" THEN "deferred" ELSE "failed"
    /\ ret' = "ok"
    /\ UNCHANGED <<fw, ready, low, level, enumerated, sensorVars>>

\* Its users keep the module in memory: the sensor's driver goes first.
Remove ==
    /\ phase = "bound" /\ sensor = "unbound" /\ Cleanup
    /\ phase' = "unbound"
    /\ UNCHANGED <<fw, ready, ret, low, level, enumerated, sensorVars>>

-----------------------------------------------------------------------------
(* The sensor's driver and the rest of the machine.                        *)

\* The supplies and GPIOs the sensors' drivers ask for.
Supplies ==
    CASE fw.hid = "INT347E" -> {"vdddo", "vddd", "vdda"}
      [] fw.hid = "INT33BE" -> {"avdd", "dovdd"}
      [] fw.hid = "INT347A" -> {"avdd", "dvdd", "dovdd"}
      [] fw.hid = "INT33F0" -> {"vdd"}

SensorGpios ==
    CASE fw.hid = "INT347E" -> {"enable"}
      [] fw.hid \in {"INT33BE", "INT347A"} -> {"reset", "powerdown"}
      [] fw.hid = "INT33F0" -> {"reset"}

\* A sensor is off with its reset or powerdown asserted.
OffValue(con) == IF con \in {"reset", "powerdown"} THEN 1 ELSE 0

\* The entries of the lookup table the sensor's driver finds: of each name it
\* asks for the first.
Found ==
    {gpios[i] : i \in {i \in 1..Len(gpios) :
        /\ listed /\ gpios[i].con \in SensorGpios
        /\ \A j \in 1..i - 1 : gpios[j].con # gpios[i].con}}

\* It binds once its dependency is cleared, and takes its GPIOs, off.
SensorProbe ==
    /\ enumerated /\ sensor = "unbound" /\ sensor' = "bound"
    /\ level' = [l \in Lines |-> IF \E g \in Found : g.line = l
                                 THEN LET g == CHOOSE g \in Found : g.line = l
                                      IN  Level(OffValue(g.con), g.low)
                                 ELSE level[l]]
    /\ UNCHANGED <<history, fw, ready, phase, ret, structVars, listed, held, low, enumerated,
                   used, imgclk>>

SensorRemove ==
    /\ sensor = "bound" /\ used = {} /\ ~imgclk
    /\ sensor' = "unbound"
    /\ UNCHANGED <<history, fw, ready, phase, ret, structVars, listed, gpioVars, enumerated,
                   used, imgclk>>

\* The sensor's driver switches a line on or off, with polarity isLow.
Switch(l, on, value, isLow) ==
    /\ sensor = "bound"
    /\ level' = [level EXCEPT ![l] = Level(value, isLow)]
    /\ used' = IF on THEN used \cup {l} ELSE used \ {l}
    /\ UNCHANGED <<history, fw, ready, phase, ret, structVars, listed, held, low, enumerated,
                   sensor>>

Logical(on) == IF on THEN 1 ELSE 0

\* skl_int3472_enable_clk, from prepare and unprepare: the line or the _DSM.
EnableClk(on) ==
    /\ clk
    /\ \/ /\ ena_gpio # 0 /\ Switch(ena_gpio, on, Logical(on), low[ena_gpio])
          /\ UNCHANGED imgclk
       \/ /\ ena_gpio = 0 /\ sensor = "bound" /\ imgclk' = on
          /\ UNCHANGED <<history, fw, ready, phase, ret, structVars, listed, gpioVars, enumerated,
                         sensor, used>>

\* int3472_led_set: the sensor's "privacy" LED is the first.
LedSet(on) ==
    /\ leds # <<>> /\ Switch(leds[1], on, Logical(on), low[leds[1]])
    /\ UNCHANGED imgclk

\* The regulator core drives ena_gpiod of a supply the sensor asks for.
SupplySet(on) ==
    \E i \in 1..Len(regulators) :
       /\ regulators[i].supply \in Supplies
       /\ Switch(regulators[i].line, on, Logical(on), low[regulators[i].line])
       /\ UNCHANGED imgclk

GpioSet(on) ==
    \E g \in Found :
       /\ Switch(g.line, on, IF on THEN 1 - OffValue(g.con) ELSE OffValue(g.con), g.low)
       /\ UNCHANGED imgclk

ControllerAppears ==
    /\ ~ready /\ ready' = TRUE
    /\ UNCHANGED <<history, fw, phase, ret, structVars, listed, gpioVars, enumerated, sensorVars>>

-----------------------------------------------------------------------------
Walk ==
    \/ SkipResource \/ SkipUnknown \/ MapToSensor \/ MapFails \/ GetGpio \/ GetFails
    \/ RegisterGpioClock \/ RegisterLed \/ RegisterRegulator \/ RegisterFails
    \/ RegulatorCoreFails
    \/ ParseDone \/ DsmClockFails \/ Unwind

Sensor ==
    \/ SensorProbe \/ SensorRemove
    \/ \E on \in BOOLEAN : EnableClk(on) \/ LedSet(on) \/ SupplySet(on) \/ GpioSet(on)

Next == Walk \/ Probe \/ Remove \/ Sensor \/ ControllerAppears

Spec == Init /\ [][Next]_vars

-----------------------------------------------------------------------------
(* Correctness.                                                            *)

\* No two of the clock, the LEDs and the regulators have the same line.
OwnersDistinct ==
    /\ \A i, j \in 1..Len(leds) : leds[i] = leds[j] => i = j
    /\ \A i, j \in 1..Len(regulators) : regulators[i].line = regulators[j].line => i = j
    /\ \A i \in 1..Len(leds), j \in 1..Len(regulators) : leds[i] # regulators[j].line
    /\ ClockLine \cap (LedLines \cup RegulatorLines) = {}

\* Every GPIO descriptor that is requested is owned by exactly one clock, LED or
\* regulator, or is the one in hand: whichever step of the probe failed, nothing
\* stays requested that no one will put, nothing an owner still has is put, and
\* nothing is requested once the device is unbound.
DescriptorsBalanced ==
    /\ OwnersDistinct
    /\ \A l \in Lines :
          held[l] = IF l \in Released \/ (phase = "holding" /\ l = pos) THEN 1 ELSE 0

\* The lines somebody drives, through whatever name.
Driven == {l \in Lines : held[l] > 0} \cup {g.line : g \in IF sensor = "bound" THEN Found ELSE {}}

\* "by checking the value of the corresponding _DSM entry": a line is at the level
\* its own entry gives for "sensor on" exactly while the sensor's driver has it on,
\* through the renaming, the default polarity and its inversion, and from the
\* moment it is taken.
LinesFollowOwnEntry ==
    \A l \in Driven :
       level[l] = IF l \in used THEN fw.crs[l].on ELSE 1 - fw.crs[l].on

\* INT3472_GPIO_DSM_SENSOR_ON_VAL: so it is as long as every entry that is there
\* could be read; lines without an entry do no harm.
LinesFollowSensor == ~missed => LinesFollowOwnEntry

\* The types of line each sensor's board has.
Wired ==
    {"CLK_ENABLE", "PRIVACY_LED"} \cup
    CASE fw.hid = "INT347E" -> {"RESET", "POWER_ENABLE"}
      [] fw.hid = "INT33BE" -> {"RESET", "POWERDOWN", "POWER_ENABLE"}
      [] fw.hid = "INT347A" -> {"RESET", "POWERDOWN", "POWER_ENABLE", "POWER1"}
      [] fw.hid = "INT33F0" -> {"RESET", "POWERDOWN"}

\* What the sensor's driver can switch.
Reach ==
    (IF clk THEN {ena_gpio} ELSE {}) \cup (IF leds # <<>> THEN {leds[1]} ELSE {})
      \cup {regulators[i].line : i \in {i \in 1..Len(regulators) : regulators[i].supply \in Supplies}}
      \cup {g.line : g \in Found}

\* "Without this ... the driver finds no supply at all, and the sensor is never
\* powered": a sensor whose driver binds reaches every line its board wires to
\* it, under the names it asks for; only a second line of a type, and a line at or
\* after one without a _DSM entry, may be missing, or the device was removed.  This
\* needs every entry that is there to be read.
SensorFindsItsLines ==
    sensor = "bound" /\ ~missed =>
       \/ phase \in {"unbound", "failed"}
       \/ /\ phase = "bound"
          /\ \A l \in 1..Len(fw.crs) :
                \/ l \in Reach \/ ~fw.crs[l].gpio \/ fw.crs[l].type \notin Wired
                \/ \E k \in 1..l :
                      /\ fw.crs[k].gpio
                      /\ fw.crs[k].type = "NONE" \/ (k < l /\ fw.crs[k].type = fw.crs[l].type)

-----------------------------------------------------------------------------
(* What the repository says or relies on and the code does not keep.       *)

\* The regulator core's contract for regulator_config.ena_gpiod, which the driver's
\* "if (ret) gpiod_put(gpio)" does not know: no descriptor is put that has been put
\* already.
NothingPutTwice == overput = 0
=============================================================================
