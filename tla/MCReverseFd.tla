---------------------------- MODULE MCReverseFd ----------------------------
(***************************************************************************)
(* Instances of ReverseFd.                                                 *)
(***************************************************************************)
EXTENDS ReverseFd, TLC

NoFailures == {}
AllFailures == {"close", "kill"}

MCSymmetry == Permutations(Threads) \cup Permutations(Pseudos)
=============================================================================
