------------------------------- MODULE MCNews -------------------------------
(***************************************************************************)
(* News on two symbols and two texts, with a classifier that may be for,   *)
(* against, or without a view.                                             *)
(***************************************************************************)
EXTENDS News, TLC

TheVerdicts == {[direction |-> 1, confidence |-> 50], [direction |-> -1, confidence |-> 100],
                [direction |-> 0, confidence |-> 0]}

\* Nothing depends on which text is which.
TextSymmetry == Permutations(Texts)
=============================================================================
