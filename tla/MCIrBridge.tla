----------------------------- MODULE MCIrBridge -----------------------------
(* The infrared bridge on a driver loaded with the repository's vts_boost. *)
EXTENDS IrBridge
=============================================================================
