-------------------------- MODULE LeaseStateMachine --------------------------
(***************************************************************************)
(* What the lease lifecycle promises: each lease is created once and then  *)
(* moves only along PENDING -> ACTIVE -> TERMINATED | ENDED and            *)
(* TERMINATED -> ACTIVE.                                                   *)
(***************************************************************************)
CONSTANTS Leases, None

VARIABLE status  \* None until the lease exists

Statuses == {"PENDING", "ACTIVE", "ENDED", "TERMINATED"}

Transitions ==
  {<<"PENDING", "ACTIVE">>, <<"ACTIVE", "TERMINATED">>, <<"ACTIVE", "ENDED">>,
   <<"TERMINATED", "ACTIVE">>}

Init == status = [l \in Leases |-> None]

\* The create endpoint accepts any status.
Create(l, s) ==
  /\ status[l] = None
  /\ status' = [status EXCEPT ![l] = s]

Transition(l, s) ==
  /\ <<status[l], s>> \in Transitions
  /\ status' = [status EXCEPT ![l] = s]

Next == \E l \in Leases, s \in Statuses : Create(l, s) \/ Transition(l, s)

Spec == Init /\ [][Next]_status
=============================================================================
