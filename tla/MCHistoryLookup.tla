--------------------------- MODULE MCHistoryLookup ---------------------------
(* Every timeline over ledgers 1..MaxLedger: each ledger has an entry or   *)
(* not.  The value of an entry is its ledger plus 10, so that a wrong      *)
(* position is a wrong value.                                              *)
EXTENDS HistoryLookup

CONSTANT MaxLedger

MCTargets == 0..(MaxLedger + 1)

AllEntries == [l \in 1..MaxLedger |-> Entry(l, l + 10)]

MCHistories ==
  {SelectSeq(AllEntries, LAMBDA e : e.ledger \in L) : L \in SUBSET (1..MaxLedger)}
=============================================================================
