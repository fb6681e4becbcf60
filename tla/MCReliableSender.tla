-------------------------- MODULE MCReliableSender --------------------------
(***************************************************************************)
(* Model-checking instance of ReliableSender.  The messages are model      *)
(* values, and every property is symmetric in them.                        *)
(***************************************************************************)
EXTENDS ReliableSender, TLC

CONSTANTS m1, m2, m3, m4

MsgSymmetry == Permutations(Msgs)
=============================================================================
