---------------------------- MODULE LinkSession ----------------------------
(***************************************************************************)
(* What the host can rely on about a connection: +IND=BLMC opens it,       *)
(* either +IND=BLMN or an error line says how its profile was resolved,    *)
(* never one after the other, data mode is entered only after +IND=BLMN,   *)
(* and +IND=BLMD ends it, at any point.                                    *)
(***************************************************************************)
VARIABLE phase

Init == phase = "none"

\* The error line can follow +IND=BLMC at once.
Established == phase = "none" /\ phase' \in {"connected", "failed"}

Resolved == phase = "connected" /\ phase' \in {"ready", "failed"}

DataMode == phase = "ready" /\ phase' = "data"

ControlMode == phase = "data" /\ phase' = "ready"

Ended == phase # "none" /\ phase' = "none"

Next == Established \/ Resolved \/ DataMode \/ ControlMode \/ Ended

Spec == Init /\ [][Next]_phase

=============================================================================
