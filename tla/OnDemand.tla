------------------------------ MODULE OnDemand ------------------------------
(***************************************************************************)
(* What an on-demand camera bridge promises, whatever camera it serves     *)
(* (src/bridges/README.md, "All three cameras are served by on-demand      *)
(* bridges"): nothing streams until an application opens the device.       *)
(*                                                                         *)
(* watched: an application has the device open.  session: the bridge is    *)
(* busy with the camera.  power: the camera's producer is running.         *)
(***************************************************************************)
VARIABLES watched, session, power

vars == <<watched, session, power>>

Init == watched = FALSE /\ session = FALSE /\ power = FALSE

\* The first application opens the device, or the last one closes it; the bridge
\* learns of it later.
Open == ~watched /\ watched' = TRUE /\ UNCHANGED <<session, power>>
Close == watched /\ watched' = FALSE /\ UNCHANGED <<session, power>>

\* A session begins, and only while the device is open.
Begin == watched /\ ~session /\ session' = TRUE /\ UNCHANGED <<watched, power>>

\* The producer starts, and only in a session.
PowerOn == session /\ ~power /\ power' = TRUE /\ UNCHANGED <<watched, session>>

\* The producer stops; the session may stay (a retry follows) or end with it.
PowerOff == power /\ power' = FALSE /\ session' \in {session, FALSE} /\ UNCHANGED watched

\* A session ends, and only with the producer gone.
End == session /\ ~power /\ session' = FALSE /\ UNCHANGED <<watched, power>>

Next == Open \/ Close \/ Begin \/ PowerOn \/ PowerOff \/ End

Spec == Init /\ [][Next]_vars
=============================================================================
