------------------------------ MODULE MCOv5693 ------------------------------
(* The front sensor's driver: the full size and the binned one of the      *)
(* default crop, of one that the array cuts to half the height and of one  *)
(* that it cuts to nothing, and a blanking and an exposure at the ends of  *)
(* their ranges.                                                           *)
EXTENDS Ov5693

MCHeights == {1944, 972}
MCCrops == {[top |-> 984, height |-> 1944], [top |-> 1956, height |-> 1944]}
MCVblanks == {0}
MCExposures == {65535}
=============================================================================
