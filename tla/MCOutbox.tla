------------------------------ MODULE MCOutbox ------------------------------
(***************************************************************************)
(* Model-checking instances of Outbox: one worker for the contract and for *)
(* liveness, two workers on the shared table for the addressee.            *)
(***************************************************************************)
EXTENDS Outbox

CONSTANTS n1, n2, n3, telegram, slack
=============================================================================
