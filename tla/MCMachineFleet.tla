--------------------------- MODULE MCMachineFleet ---------------------------
EXTENDS MachineFleet, TLC
CONSTANTS m1, m2, b1, b2, s1, s2, w1, w2

MCBookingOf == s1 :> b1 @@ s2 :> b2
MCOverlap == {{b1, b2}}

(* Machines, workers, and the two bookings together with their slots.      *)
Symmetry == Permutations({m1, m2}) \cup Permutations({w1, w2})
            \cup {s1 :> s2 @@ s2 :> s1 @@ b1 :> b2 @@ b2 :> b1}
=============================================================================
