----------------------------- MODULE MCGovernor -----------------------------
(* Small instance of Governor for TLC: requests of one route.                *)
EXTENDS Governor, TLC

CONSTANTS a

MCRouteOf == [r \in Requests |-> a]
=============================================================================
