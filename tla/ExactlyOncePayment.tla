-------------------------- MODULE ExactlyOncePayment --------------------------
(***************************************************************************)
(* What an Idempotency-Key promises a landlord: a request identity records *)
(* at most one payment, no payment is recorded without one, and whoever is *)
(* told of the outcome is told the same, and only after it is recorded.    *)
(***************************************************************************)
CONSTANTS
  RequestIds,
  Outcomes,  \* records that name the payment they describe
  None

VARIABLES
  outcome,  \* what each request identity recorded, if anything
  paid,     \* the payments recorded
  told      \* the outcomes clients were told of, with the request identity

Init ==
  /\ outcome = [r \in RequestIds |-> None]
  /\ paid = {}
  /\ told = {}

Record(r, result) ==
  /\ outcome[r] = None
  /\ result.payment \notin paid
  /\ outcome' = [outcome EXCEPT ![r] = result]
  /\ paid' = paid \cup {result.payment}
  /\ UNCHANGED told

Tell(r) ==
  /\ outcome[r] # None
  /\ told' = told \cup {<<r, outcome[r]>>}
  /\ UNCHANGED <<outcome, paid>>

Next == \E r \in RequestIds : Tell(r) \/ \E result \in Outcomes : Record(r, result)

Spec == Init /\ [][Next]_<<outcome, paid, told>>
=============================================================================
