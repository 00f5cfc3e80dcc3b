------------------------------ MODULE MCOv7251 ------------------------------
(* The infrared sensor's driver, loaded with the repository's vts_boost;   *)
(* applications ask for the blankings of the bridge and for exposures at   *)
(* and beyond the ends of the range.                                       *)
EXTENDS Ov7251

MCLinkFrequencies == <<240000, 319200>>
MCVblanks == {1244, 2968}
MCExposures == {1, 3192}
=============================================================================
