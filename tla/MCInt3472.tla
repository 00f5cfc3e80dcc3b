----------------------------- MODULE MCInt3472 ------------------------------
(* The power glue with every kind of line, in every order, and tables small *)
(* enough to be overrun; both "on" levels for the lines of each polarity.   *)
EXTENDS Int3472

Gpio(type, on) == [gpio |-> TRUE, type |-> type, on |-> on]

MCResources ==
    { [gpio |-> FALSE, type |-> "NONE", on |-> 0], Gpio("NONE", 0),
      Gpio("RESET", 0), Gpio("RESET", 1), Gpio("POWERDOWN", 1),
      Gpio("HOTPLUG_DETECT", 1), Gpio("CLK_ENABLE", 1), Gpio("PRIVACY_LED", 0),
      Gpio("POWER_ENABLE", 0), Gpio("POWER_ENABLE", 1), Gpio("POWER1", 1),
      Gpio("HANDSHAKE", 1), Gpio("POWER0", 1) }
=============================================================================
