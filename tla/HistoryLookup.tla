---------------------------- MODULE HistoryLookup ----------------------------
(***************************************************************************)
(* lookup_at of packages/shared/src/vec_history.rs (and its copy in        *)
(* checkpoint.rs) step by step: the two early returns, then a binary       *)
(* search over the stored entries.  One behaviour is one call on a         *)
(* timeline h for a target ledger.                                         *)
(*                                                                         *)
(* The code counts positions from 0; lo, hi and mid here count from 1.     *)
(***************************************************************************)
EXTENDS VecHistory

CONSTANTS
  Histories,   \* the timelines a call may load
  Targets      \* the target ledgers it may be asked for

ASSUME HistoriesAssumption == Histories \subseteq {h \in Seq(Entries) : Ordered(h)}
ASSUME TargetsAssumption == Targets \subseteq Nat

VARIABLES
  h,        \* entries loaded from the store
  target,   \* target_ledger
  lo, hi,   \* bounds of the search, 1-based; 0 before it starts
  phase,    \* "start", "search" or "done"
  found     \* the returned value, once phase = "done"

lookupVars == <<h, target, lo, hi, phase, found>>

LookupInit ==
  /\ h \in Histories
  /\ target \in Targets
  /\ lo = 0 /\ hi = 0
  /\ phase = "start"
  /\ found = Default

ReturnValue(v) ==
  /\ phase' = "done"
  /\ found' = v
  /\ UNCHANGED <<h, target, lo, hi>>

ReturnEmpty ==
  /\ phase = "start"
  /\ h = <<>>
  /\ ReturnValue(Default)

(* Fast path: the latest entry is at or before the target. *)
ReturnLatest ==
  /\ phase = "start"
  /\ h # <<>>
  /\ h[Len(h)].ledger <= target
  /\ ReturnValue(h[Len(h)].value)

(* All entries are after the target. *)
ReturnBeforeFirst ==
  /\ phase = "start"
  /\ h # <<>>
  /\ h[Len(h)].ledger > target
  /\ h[1].ledger > target
  /\ ReturnValue(Default)

(* hi starts at the length, not at the last position. *)
StartSearch_Fault ==
  /\ phase = "start"
  /\ h # <<>>
  /\ h[Len(h)].ledger > target
  /\ h[1].ledger <= target
  /\ phase' = "search"
  /\ lo' = 1
  /\ hi' = Len(h) + 1
  /\ UNCHANGED <<h, target, found>>

StartSearch ==
  /\ phase = "start"
  /\ h # <<>>
  /\ h[Len(h)].ledger > target
  /\ h[1].ledger <= target
  /\ phase' = "search"
  /\ lo' = 1
  /\ hi' = Len(h)
  /\ UNCHANGED <<h, target, found>>

(* The midpoint is rounded down: the range [lo, lo+1] never shrinks. *)
Mid_Fault(l, u) == l + (u - l) \div 2

(* lo + (hi - lo).div_ceil(2) *)
Mid(l, u) == l + (u - l + 1) \div 2

(* An entry of the target ledger itself counts as after the target. *)
Narrow_Fault ==
  /\ phase = "search"
  /\ lo < hi
  /\ LET mid == Mid(lo, hi)
     IN  IF h[mid].ledger < target
         THEN lo' = mid /\ hi' = hi
         ELSE lo' = lo /\ hi' = mid - 1
  /\ UNCHANGED <<h, target, phase, found>>

(* An iteration of the while loop. *)
Narrow ==
  /\ phase = "search"
  /\ lo < hi
  /\ LET mid == Mid(lo, hi)
     IN  IF h[mid].ledger <= target
         THEN lo' = mid /\ hi' = hi
         ELSE lo' = lo /\ hi' = mid - 1
  /\ UNCHANGED <<h, target, phase, found>>

ReturnFound ==
  /\ phase = "search"
  /\ lo >= hi
  /\ ReturnValue(h[lo].value)

(* The call has returned. *)
LookupReturned == phase = "done" /\ UNCHANGED lookupVars

LookupNext ==
  \/ ReturnEmpty \/ ReturnLatest \/ ReturnBeforeFirst
  \/ StartSearch \/ Narrow \/ ReturnFound
  \/ LookupReturned

LookupSpec == LookupInit /\ [][LookupNext]_lookupVars

(* The host runs a contract call to its end. *)
FairLookupSpec == LookupSpec /\ WF_lookupVars(LookupNext)

-----------------------------------------------------------------------------
(* Types; lo and hi never leave the entries of h. *)
TypeOK ==
  /\ h \in Histories
  /\ target \in Targets
  /\ lo \in 0..Len(h) /\ hi \in 0..Len(h)
  /\ phase \in {"start", "search", "done"}
  /\ found \in Nat

(* While searching, the entry sought lies in lo..hi. *)
SearchInv ==
  phase = "search" =>
    /\ 1 <= lo /\ lo <= hi
    /\ h[lo].ledger <= target
    /\ \A j \in DOMAIN h : j > hi => h[j].ledger > target

(* The value lookup_at returns is the value of the last entry at or before *)
(* the target ledger, and the default when there is none.                  *)
ResultCorrect == phase = "done" => found = LookupAt(h, target)

(* lookup_at's search loop ends for every timeline and target. *)
Terminates == <>(phase = "done")
=============================================================================
