---------------------------- MODULE DecisionLog ----------------------------
(***************************************************************************)
(* What ghambla.journal promises of the decision log: slots are only ever  *)
(* added at the end, and what a slot holds never changes.  A slot is a     *)
(* record or Lost: an interrupted write may cost a slot, never an earlier  *)
(* one.                                                                    *)
(***************************************************************************)
EXTENDS Sequences

CONSTANTS Record, Lost

VARIABLE log

Init == log = <<>>

Extend == \E slot \in Record \cup {Lost} : log' = Append(log, slot)

Spec == Init /\ [][Extend]_log
=============================================================================
