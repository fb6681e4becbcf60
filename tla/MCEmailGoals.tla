---------------------------- MODULE MCEmailGoals ----------------------------
(***************************************************************************)
(* Model-checking instances of EmailGoals: a serial user and two programs, *)
(* or one with fairness, for what must hold, and shorter instances for the *)
(* documented promises that do not.                                        *)
(***************************************************************************)
EXTENDS EmailGoals, TLC

CONSTANTS reply1, reply2, chat, cli, repl, serve

Symmetry == Permutations({repl, serve})
=============================================================================
