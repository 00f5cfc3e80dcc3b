---------------------------- MODULE MCIrExposure ----------------------------
(* The exposure loop with the driver's ranges, over scenes from one that   *)
(* saturates the shortest exposure to one that is black at the longest.    *)
EXTENDS IrExposure

MCCeilings == {2, 1468, 3192}
MCScenes == {<<a, 10^k>> : a \in {0, 1, 2, 3, 5, 7, 10, 13, 16, 19, 29, 57}, k \in 0..6}
=============================================================================
