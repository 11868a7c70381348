------------------------------ MODULE VecHistory ------------------------------
(***************************************************************************)
(* The value timelines of packages/shared: `vec_history` (pruned on every  *)
(* push, the one both Security contracts store their weights in) and       *)
(* `checkpoint` (the same timeline, never pruned).                         *)
(*                                                                         *)
(* A timeline is a sequence of entries [ledger, value] in ledger order.    *)
(* The default value of a missing entry is 0, as for the u64 weights.      *)
(*                                                                         *)
(* Definitions whose name ends in _Fault are plausible mistakes in the     *)
(* definition that follows them; the mutation runs put them in its place.  *)
(***************************************************************************)
EXTENDS Naturals, Sequences

Default == 0

Entry(l, v) == [ledger |-> l, value |-> v]

Entries == [ledger : Nat, value : Nat]

(* u32::saturating_sub *)
SaturatingSub(a, b) == IF a >= b THEN a - b ELSE 0

-----------------------------------------------------------------------------
(* Two changes in one ledger leave two entries. *)
Put_Fault(h, l, v) == Append(h, Entry(l, v))

(* An entry of an earlier ledger is updated in place too. *)
PutInPlace_Fault(h, l, v) ==
  IF h # <<>> THEN [h EXCEPT ![Len(h)] = Entry(l, v)] ELSE <<Entry(l, v)>>

(* checkpoint::push, and vec_history::push before it prunes: a second      *)
(* change in the ledger of the last entry replaces its value.              *)
Put(h, l, v) ==
  IF h # <<>> /\ h[Len(h)].ledger = l
  THEN [h EXCEPT ![Len(h)] = Entry(l, v)]
  ELSE Append(h, Entry(l, v))

(* entries.iter().take_while(|e| e.ledger < cutoff_ledger).count() *)
OldCount(h, cutoffLedger) ==
  CHOOSE n \in 0..Len(h) :
    /\ \A i \in 1..n : h[i].ledger < cutoffLedger
    /\ n < Len(h) => h[n + 1].ledger >= cutoffLedger

(* The newest of the old entries is dropped with the others. *)
Prune_Fault(h, l, cutoff) ==
  IF Len(h) <= 1 THEN h
  ELSE LET old == OldCount(h, SaturatingSub(l, cutoff))
       IN  IF old >= 2 THEN SubSeq(h, old + 1, Len(h)) ELSE h

(* The oldest entry is the old one that is kept. *)
PruneKeepsOldest_Fault(h, l, cutoff) ==
  IF Len(h) <= 1 THEN h
  ELSE LET old == OldCount(h, SaturatingSub(l, cutoff))
       IN  IF old >= 2 THEN <<h[1]>> \o SubSeq(h, old + 1, Len(h)) ELSE h

(* vec_history::prune: of the entries older than `cutoff` ledgers only the *)
(* newest is kept.                                                         *)
Prune(h, l, cutoff) ==
  IF Len(h) <= 1 THEN h
  ELSE LET old == OldCount(h, SaturatingSub(l, cutoff))
       IN  IF old >= 2 THEN SubSeq(h, old, Len(h)) ELSE h

(* vec_history::push *)
Push(h, l, v, cutoff) == Prune(Put(h, l, v), l, cutoff)

-----------------------------------------------------------------------------
(* The positions of the last entry at or before ledger r: one or none in   *)
(* an ordered timeline.                                                    *)
At(h, r) ==
  {i \in DOMAIN h : /\ h[i].ledger <= r
                    /\ \A j \in DOMAIN h : j > i => h[j].ledger > r}

(* vec_history::lookup_at and checkpoint::lookup_at, by what they return;  *)
(* module HistoryLookup has the binary search that computes it.            *)
LookupAt(h, r) ==
  IF At(h, r) = {} THEN Default ELSE h[CHOOSE i \in At(h, r) : TRUE].value

(* vec_history::latest and checkpoint::latest *)
Latest(h) == IF h = <<>> THEN Default ELSE h[Len(h)].value

(* Entries are in strictly increasing ledger order (positions and ledgers  *)
(* grow together, which also bounds how many entries a ledger range has).  *)
Ordered(h) ==
  \A i, j \in DOMAIN h : i < j => h[j].ledger >= h[i].ledger + (j - i)

(* h is what pruning left of the full timeline log: its newest entries,    *)
(* and when any are missing the oldest one kept is older than `bound`.     *)
PrunedFrom(h, log, bound) ==
  \E d \in 0..Len(log) :
    /\ Len(h) = Len(log) - d
    /\ \A i \in 1..Len(h) : h[i] = log[d + i]
    /\ d > 0 => Len(h) > 0 /\ h[1].ledger < bound

(* A stored timeline h and its full form log in ledger l. *)
Timeline(h, log, l, cutoff) ==
  /\ h \in Seq(Entries) /\ log \in Seq(Entries)
  /\ Ordered(log)
  /\ log # <<>> => log[Len(log)].ledger <= l
  /\ PrunedFrom(h, log, SaturatingSub(l, cutoff))
  /\ Len(h) <= cutoff + 2
=============================================================================
