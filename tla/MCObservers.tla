---------------------------- MODULE MCObservers ----------------------------
(***************************************************************************)
(* The decision log and its readers on a few records: two equities on two  *)
(* days, one record of another mode, and one of a day after the range.     *)
(***************************************************************************)
EXTENDS Observers

TheRecords ==
  [asOf : {1, 2}, equity : {100, 110}, mode : {"paper"}]
  \cup {[asOf |-> 1, equity |-> 110, mode |-> "simulated"],
        [asOf |-> 3, equity |-> 90, mode |-> "paper"]}
=============================================================================
