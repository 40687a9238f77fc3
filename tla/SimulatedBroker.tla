-------------------------- MODULE SimulatedBroker --------------------------
(***************************************************************************)
(* ghambla.broker.SimulatedBroker: an account in the memory of a run (a    *)
(* process that imported the code) and the state file the runs share.  A   *)
(* run loads the file in connect, and rewrites all of it after every fill  *)
(* and in disconnect; the write is not atomic, so a failure in it leaves a *)
(* file that no longer parses, and one before it the file as it was.       *)
(***************************************************************************)
EXTENDS Costs

CONSTANTS Runs,           \* the processes
          Symbols,
          InitialCash     \* the constructor's cash

ASSUME InitialCashIsNat == InitialCash \in Nat

VARIABLES disk,           \* the state file: an account, Absent or Torn
          mem,            \* the account in each run's memory
          connected

brokerVars == <<disk, mem, connected>>

Account == [cash : Int, shares : [Symbols -> Int], average : [Symbols -> Int]]

\* The account a constructor makes.
Flat == [cash |-> InitialCash, shares |-> [s \in Symbols |-> 0],
         average |-> [s \in Symbols |-> 0]]

Absent == [file |-> "absent"]
Torn == [file |-> "torn"]

Saved == disk \notin {Absent, Torn}

BrokerTypeOK == /\ disk \in Account \cup {Absent, Torn}
                /\ mem \in [Runs -> Account]
                /\ connected \in [Runs -> BOOLEAN]

\* Long-only and not overdrawn.
Sound(account) == account.cash >= 0 /\ \A s \in Symbols : account.shares[s] >= 0

\* No sequence of fills, and nothing that runs do to each other, overdraws the
\* cash or sells what is not held, in any run's memory or in the file the next
\* run will load (broker.py:134-154; risk.py:24 "long-only, never levered").
LongOnly == /\ \A r \in Runs : Sound(mem[r])
            /\ Saved => Sound(disk)

BrokerInit == /\ disk = Absent
              /\ mem = [r \in Runs |-> Flat]
              /\ connected = [r \in Runs |-> FALSE]

-----------------------------------------------------------------------------
(* Prices and costs of one order, [symbol, side, shares].                  *)

\* A bug: the seller is paid the spread.
FillPriceNoSide(side, ref) == ref + HalfSpread

FillPrice(side, ref) == IF side = "BUY" THEN ref + HalfSpread ELSE ref - HalfSpread

Value(o, ref) == o.shares * FillPrice(o.side, ref)

Fee(o, ref) == Commission(o.shares, FillPrice(o.side, ref))

\* A bug: the fee is not part of what a buy needs.
AcceptsIgnoringFee(account, o, ref) ==
  /\ o.shares > 0 /\ ref > 0
  /\ \/ o.side = "BUY" /\ Value(o, ref) <= account.cash
     \/ o.side = "SELL" /\ o.shares <= account.shares[o.symbol]

\* The checks of place, each of which raises OrderError.
Accepts(account, o, ref) ==
  /\ o.shares > 0 /\ ref > 0
  /\ \/ o.side = "BUY" /\ Value(o, ref) + Fee(o, ref) <= account.cash
     \/ o.side = "SELL" /\ o.shares <= account.shares[o.symbol]

Bought(account, o, ref) ==
  LET held == account.shares[o.symbol]
      total == held + o.shares
  IN  [cash |-> account.cash - (Value(o, ref) + Fee(o, ref)),
       shares |-> [account.shares EXCEPT ![o.symbol] = total],
       average |-> [account.average EXCEPT
                      ![o.symbol] = (held * @ + Value(o, ref)) \div total]]

\* A position sold out is deleted, its average cost with it.
Sold(account, o, ref) ==
  LET remaining == account.shares[o.symbol] - o.shares
  IN  [cash |-> account.cash + (Value(o, ref) - Fee(o, ref)),
       shares |-> [account.shares EXCEPT ![o.symbol] = remaining],
       average |-> [account.average EXCEPT ![o.symbol] = IF remaining = 0 THEN 0 ELSE @]]

Filled(account, o, ref) ==
  IF o.side = "BUY" THEN Bought(account, o, ref) ELSE Sold(account, o, ref)

-----------------------------------------------------------------------------
(* The operations of run r.                                                *)

\* A run's memory ends with it.
Gone(r) == /\ connected' = [connected EXCEPT ![r] = FALSE]
           /\ mem' = [mem EXCEPT ![r] = Flat]

\* A bug: takes it that there is a file.
ConnectAssumingFile(r) == /\ ~connected[r] /\ disk # Torn
                          /\ connected' = [connected EXCEPT ![r] = TRUE]
                          /\ mem' = [mem EXCEPT ![r] = disk]
                          /\ UNCHANGED disk

\* json.loads of a torn file raises what no caller of connect catches.
Connect(r) == /\ ~connected[r] /\ disk # Torn
              /\ connected' = [connected EXCEPT ![r] = TRUE]
              /\ mem' = [mem EXCEPT ![r] = IF disk = Absent THEN Flat ELSE disk]
              /\ UNCHANGED disk

\* A bug: the fill is kept in memory until disconnect.
PlaceUnsaved(r, o, ref) == /\ connected[r] /\ Accepts(mem[r], o, ref)
                           /\ mem' = [mem EXCEPT ![r] = Filled(mem[r], o, ref)]
                           /\ UNCHANGED <<disk, connected>>

Place(r, o, ref) == /\ connected[r] /\ Accepts(mem[r], o, ref)
                    /\ mem' = [mem EXCEPT ![r] = Filled(mem[r], o, ref)]
                    /\ disk' = Filled(mem[r], o, ref)
                    /\ UNCHANGED connected

Reject(r, o, ref) == /\ ~(connected[r] /\ Accepts(mem[r], o, ref))
                     /\ UNCHANGED brokerVars

\* _save raises: the fill is in memory, and the file as it was (mkdir or open
\* failed) or torn (the disk was full).
PlaceSaveFails(r, o, ref) == /\ connected[r] /\ Accepts(mem[r], o, ref)
                             /\ mem' = [mem EXCEPT ![r] = Filled(mem[r], o, ref)]
                             /\ disk' \in {disk, Torn}
                             /\ UNCHANGED connected

Disconnect(r) == connected[r] /\ disk' = mem[r] /\ Gone(r)

\* The process dies: between operations, or inside _save.
Die(r) == connected[r] /\ Gone(r) /\ UNCHANGED disk

DieSaving(r) == connected[r] /\ Gone(r) /\ disk' = Torn
=============================================================================
