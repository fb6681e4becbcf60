------------------------------ MODULE Delivery ------------------------------
(***************************************************************************)
(* What a component that delivers messages promises, whatever it does      *)
(* inside: an offered message is open until the component is done with     *)
(* it; only an open message is handed to the peer; it is confirmed only    *)
(* after the peer took it at least once; it may be parked on disk for the  *)
(* operator; and it may be abandoned only after Patience refused tries.    *)
(* ReliableSender and Outbox are shown to implement this module.           *)
(***************************************************************************)
EXTENDS Naturals

CONSTANTS
  Msgs,         \* the messages
  Patience,     \* refused tries an open message survives before Abandon
  CountCap      \* the counters below saturate here; at least Patience

VARIABLES
  phase,        \* [Msgs -> Phases]
  copies,       \* how often the peer took the message
  refusals      \* how many tries of it ended in an error

vars == <<phase, copies, refusals>>

Phases == {"new", "open", "delivered", "parked", "abandoned"}

Bump(c, cond) == IF cond /\ c < CountCap THEN c + 1 ELSE c

Init ==
  /\ phase = [m \in Msgs |-> "new"]
  /\ copies = [m \in Msgs |-> 0]
  /\ refusals = [m \in Msgs |-> 0]

Move(m, from, to) ==
  /\ phase[m] = from
  /\ phase' = [phase EXCEPT ![m] = to]

Offer(m) ==
  /\ Move(m, "new", "open")
  /\ UNCHANGED <<copies, refusals>>

\* One try: the peer may take the message and the try still end in an error.
Try(m, took, refused) ==
  /\ phase[m] = "open"
  /\ took \/ refused
  /\ copies' = [copies EXCEPT ![m] = Bump(@, took)]
  /\ refusals' = [refusals EXCEPT ![m] = Bump(@, refused)]
  /\ UNCHANGED phase

Confirm(m) ==
  /\ copies[m] > 0
  /\ Move(m, "open", "delivered")
  /\ UNCHANGED <<copies, refusals>>

Park(m) ==
  /\ Move(m, "open", "parked")
  /\ UNCHANGED <<copies, refusals>>

Abandon(m) ==
  /\ refusals[m] >= Patience
  /\ Move(m, "open", "abandoned")
  /\ UNCHANGED <<copies, refusals>>

Next == \E m \in Msgs :
  \/ Offer(m)
  \/ \E took, refused \in BOOLEAN : Try(m, took, refused)
  \/ Confirm(m)
  \/ Park(m)
  \/ Abandon(m)

Spec == Init /\ [][Next]_vars
=============================================================================
