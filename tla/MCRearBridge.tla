---------------------------- MODULE MCRearBridge ----------------------------
(* The rear bridge with the constants its configurations give: seconds are *)
(* scaled down, and keep the order they have in the code (the stop budget  *)
(* below TimeoutStopSec, the sleeps below the minute of the restart limit).*)
EXTENDS RearBridge
=============================================================================
