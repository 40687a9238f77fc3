------------------------------ MODULE Journal ------------------------------
(***************************************************************************)
(* The life of the decision log (ghambla.journal): appends that return,    *)
(* appends that are interrupted, and what read and count see afterwards.   *)
(* The counters are history variables: the code keeps neither.             *)
(***************************************************************************)
EXTENDS JournalFile, FiniteSets

CONSTANT MaxAppends     \* bound: appends started in a behaviour

ASSUME MaxAppendsIsNat == MaxAppends \in Nat

VARIABLES returned,     \* appends that returned to their caller
          interrupted   \* appends cut short

vars == <<lines, unterminated, returned, interrupted>>

TypeOK == FileTypeOK /\ returned \in Nat /\ interrupted \in Nat

Init == FileInit /\ returned = 0 /\ interrupted = 0

Complete == \E r \in Record : /\ returned + interrupted < MaxAppends
                              /\ AppendRecord(r)
                              /\ returned' = returned + 1
                              /\ UNCHANGED interrupted

Interrupt == \E r \in Record : /\ returned + interrupted < MaxAppends
                               /\ InterruptAppend(r)
                               /\ interrupted' = interrupted + 1
                               /\ UNCHANGED returned

Next == Complete \/ Interrupt

Spec == Init /\ [][Next]_vars

-----------------------------------------------------------------------------

\* Journal.count.
Count == Cardinality(Readable)

\* An unterminated tail will swallow the next append; a tail that still
\* decodes is swallowed with it.
AtRisk == IF ~unterminated THEN 0 ELSE IF Len(lines) \in Readable THEN 2 ELSE 1

\* An interrupted append costs the log at most one record that a caller was
\* told is written, however many interruptions follow each other
\* (journal.py:48-53: a corrupted tail is skipped, not fatal).
LossIsBounded == returned <= Count + interrupted

\* The inductive form: what is already lost, and what the tail will take.
LossIsBoundedInv == returned + AtRisk <= Count + interrupted

\* The slots no later append can touch.
Settled == IF unterminated THEN SubSeq(lines, 1, Len(lines) - 1) ELSE lines

DL == INSTANCE DecisionLog WITH log <- Settled, Lost <- Garbage

\* The file implements the append-only log: no append, interrupted or not,
\* changes a settled slot or adds more than one (journal.py:9-10, 48-53).
ImplementsDecisionLog == DL!Spec
=============================================================================
