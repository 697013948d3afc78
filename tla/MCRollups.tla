----------------------------- MODULE MCRollups ------------------------------
(* Instances of Rollups: two requests of two lanes; the second is seen by   *)
(* two sources that disagree on its date and its principal.                 *)
EXTENDS Rollups

V(req, day, who, priority) == [req |-> req, day |-> day, who |-> who, priority |-> priority]

MCLaneOf == [r \in {1, 2} |-> r]
MovingViews == {V(1, 0, 1, 40), V(2, 0, 2, 20), V(2, 1, 1, 40)}
OneView == {V(1, 0, 1, 40)}
=============================================================================
