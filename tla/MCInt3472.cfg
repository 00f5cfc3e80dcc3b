CONSTANTS
    Hids = {"INT347E", "INT347A", "INT33F0"}
    Resources <- MCResources
    MaxResources = 3
    MAX_SENSOR_GPIOS = 2
    MAX_REGULATORS = 2
    MAX_LEDS = 2
    Pwr1Names = {"dvdd", "dovdd"}
SPECIFICATION Spec
INVARIANTS TypeOK DescriptorsBalanced LinesFollowSensor SensorFindsItsLines
