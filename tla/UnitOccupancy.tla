---------------------------- MODULE UnitOccupancy ----------------------------
(***************************************************************************)
(* What the ACTIVE leases promise about the units: a unit is occupied by   *)
(* one lease at a time, a lease occupies one unit at a time, and a lease   *)
(* comes to a unit only when the unit is vacant - it never takes the place *)
(* of another lease in one step.                                           *)
(***************************************************************************)
CONSTANTS Leases, Units

VARIABLE occupants  \* the leases occupying each unit

Init == occupants = [n \in Units |-> {}]

Resident(l) == \E n \in Units : l \in occupants[n]

Occupy(l, n) ==
  /\ ~Resident(l)
  /\ occupants[n] = {}
  /\ occupants' = [occupants EXCEPT ![n] = {l}]

Vacate(l, n) ==
  /\ occupants[n] = {l}
  /\ occupants' = [occupants EXCEPT ![n] = {}]

Relocate(l, n, m) ==
  /\ occupants[n] = {l}
  /\ occupants[m] = {}
  /\ occupants' = [occupants EXCEPT ![n] = {}, ![m] = {l}]

Next ==
  /\ occupants' # occupants
  /\ \E l \in Leases, n \in Units :
       \/ Occupy(l, n)
       \/ Vacate(l, n)
       \/ \E m \in Units : Relocate(l, n, m)

Spec == Init /\ [][Next]_occupants
=============================================================================
