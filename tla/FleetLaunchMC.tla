---------------------------- MODULE FleetLaunchMC ---------------------------
(* Instances of FleetLaunch for TLC: p1 is remote rework in r1, p2 local rework
   in r2, p3 fresh dispatch in r1. *)
EXTENDS FleetLaunch, TLC

CONSTANTS p1, p2, p3, r1, r2, s1, s2, s3

MCLaneOf == [p \in Passes |-> CASE p = p1 -> "rework"
                                 [] p = p2 -> "local"
                                 [] OTHER  -> "dispatch"]

MCRepoOf == [p \in Passes |-> IF p = p2 THEN r2 ELSE r1]

(* Bound: nobody pauses, no throttle window opens, only r2 may leave. *)
MCQuiet == ~paused /\ throttled = {} /\ r1 \in inFleet

MCSymmetry == Permutations(Sessions)
=============================================================================
