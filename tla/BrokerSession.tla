--------------------------- MODULE BrokerSession ---------------------------
(***************************************************************************)
(* The simulated broker on its own: runs that connect, place any order at  *)
(* any quote until a save raises, die and come back.                       *)
(***************************************************************************)
EXTENDS SimulatedBroker

CONSTANTS Quotes,       \* reference prices
          Sizes,        \* shares in an order
          MaxCash       \* bound: no fill from an account richer than this

ASSUME SessionConstants ==
  /\ Sizes \subseteq Nat /\ MaxCash \in Nat
  /\ \A ref \in Quotes : ref \in Nat /\ (ref = 0 \/ ref > HalfSpread)

VARIABLE unsaved        \* history: runs a save of which raised

sessionVars == <<brokerVars, unsaved>>

Orders == [symbol : Symbols, side : {"BUY", "SELL"}, shares : Sizes]

\* An error that is not an OrderError leaves the cycle, which places no more and
\* disconnects.
Fill(r) == /\ r \notin unsaved
           /\ \E o \in Orders, ref \in Quotes : mem[r].cash <= MaxCash /\ Place(r, o, ref)
           /\ UNCHANGED unsaved

FillSaveFails(r) ==
  /\ r \notin unsaved
  /\ \E o \in Orders, ref \in Quotes : mem[r].cash <= MaxCash /\ PlaceSaveFails(r, o, ref)
  /\ unsaved' = unsaved \cup {r}

Rejected(r) == /\ \E o \in Orders, ref \in Quotes : Reject(r, o, ref)
               /\ UNCHANGED unsaved

Begin(r) == Connect(r) /\ UNCHANGED unsaved

\* The process ends, with its last save or without.
End(r) == /\ Disconnect(r) \/ Die(r) \/ DieSaving(r)
          /\ unsaved' = unsaved \ {r}

SessionInit == BrokerInit /\ unsaved = {}

SessionNext == \E r \in Runs : Begin(r) \/ Fill(r) \/ FillSaveFails(r) \/ Rejected(r) \/ End(r)

SessionSpec == SessionInit /\ [][SessionNext]_sessionVars

-----------------------------------------------------------------------------

\* With one run at a time, the file is what the run holds, unless a save of its
\* raised: a process killed at any point loses no fill but the one that was never
\* reported (broker.py:86-92, 106-114, 156).
FileFollowsMemory ==
  \A r \in Runs : connected[r] /\ r \notin unsaved =>
    disk = mem[r] \/ (disk = Absent /\ mem[r] = Flat)

Worth(account, s, ref) == account.cash + account.shares[s] * ref

\* Every fill costs: at the price it is quoted, no order leaves the account
\* worth more than before (broker.py:127-131, costs.py:26-28).
FillsNeverProfit ==
  [][\A r \in Runs, o \in Orders, ref \in Quotes :
       Place(r, o, ref) => Worth(mem'[r], o.symbol, ref) <= Worth(mem[r], o.symbol, ref)]_sessionVars
=============================================================================
