---------------------------- MODULE NameRegistry ----------------------------
(***************************************************************************)
(* What a unique key promises: a name has one holder at a time, and it     *)
(* never passes from one row to another directly: it is claimed when       *)
(* nobody holds it.                                                        *)
(***************************************************************************)
CONSTANTS Names, Rows

VARIABLE holders  \* the rows that hold each name

Init == holders = [n \in Names |-> {}]

Claimed(n) == holders[n] = {} /\ \E r \in Rows : holders'[n] = {r}

Released(n) == holders'[n] = {}

\* Several names may change hands at once: a rename releases one and claims
\* another, and several rows may be inserted together.
Next ==
  /\ DOMAIN holders' = Names
  /\ \A n \in Names : Claimed(n) \/ Released(n) \/ holders'[n] = holders[n]

Spec == Init /\ [][Next]_holders
=============================================================================
