----------------------------- MODULE WeightProofs -----------------------------
(***************************************************************************)
(* Facts used by the proofs of the other modules: induction over the       *)
(* naturals, the sums of module Words, and the timelines of VecHistory.    *)
(***************************************************************************)
EXTENDS VecHistory, Verification, WellFoundedInduction, TLAPS

(* Every non-empty set of naturals has a least element: the form of        *)
(* induction the proofs below use.                                         *)
LEMMA LeastNat ==
  ASSUME NEW T, T \subseteq Nat, T # {}
  PROVE  \E m \in T : \A k \in T : m <= k
<1> DEFINE R == OpToRel(<, Nat)
<1>1. IsWellFoundedOn(R, Nat)
  BY NatLessThanWellFounded
<1> HIDE DEF R
<1>2. PICK m \in T : \A y \in T : ~ (<<y, m>> \in R)
  BY <1>1, WFMin
<1>3. ASSUME NEW y \in T PROVE m <= y
  <2>1. <<y, m>> \notin R
    BY <1>2
  <2>2. y < m => <<y, m>> \in R
    BY DEF R, OpToRel
  <2> QED BY <2>1, <2>2
<1> QED BY <1>3

(* Induction over the naturals, for a set in place of a predicate. *)
LEMMA Induction ==
  ASSUME NEW S, 0 \in S, \A n \in Nat : n \in S => n + 1 \in S
  PROVE  \A n \in Nat : n \in S
<1> DEFINE T == {n \in Nat : n \notin S}
<1> SUFFICES ASSUME T # {} PROVE FALSE
  OBVIOUS
<1>1. PICK m \in T : \A k \in T : m <= k
  <2>1. T \subseteq Nat
    OBVIOUS
  <2> HIDE DEF T
  <2> QED BY <2>1, LeastNat
<1>2. m \in Nat /\ m \notin S /\ m # 0
  OBVIOUS
<1>3. m - 1 \in Nat /\ ~(m <= m - 1) /\ (m - 1) + 1 = m
  BY <1>2
<1>4. m - 1 \in S
  BY <1>1, <1>3
<1> QED BY <1>2, <1>3, <1>4

-----------------------------------------------------------------------------
(* Sums.  The function of the partial sums, which SumTo defines by         *)
(* recursion, exists.                                                      *)
LEMMA PartialSums ==
  ASSUME NEW f, NEW n \in Nat
  PROVE  \E s : s = [i \in 0..n |-> IF i = 0 THEN 0 ELSE s[i - 1] + f[i]]
<1> DEFINE P(m) == \E s : s = [i \in 0..m |-> IF i = 0 THEN 0 ELSE s[i - 1] + f[i]]
           T == {m \in Nat : P(m)}
<1>1. 0 \in T
  <2> DEFINE s == [i \in 0..0 |-> 0]
  <2>1. s = [i \in 0..0 |-> IF i = 0 THEN 0 ELSE s[i - 1] + f[i]]
    OBVIOUS
  <2> HIDE DEF s
  <2> QED BY <2>1
<1>2. ASSUME NEW m \in Nat, m \in T PROVE m + 1 \in T
  <2>1. PICK s : s = [i \in 0..m |-> IF i = 0 THEN 0 ELSE s[i - 1] + f[i]]
    BY <1>2
  <2> DEFINE t == [i \in 0..(m + 1) |-> IF i = m + 1 THEN s[m] + f[m + 1] ELSE s[i]]
  <2>2. ASSUME NEW i \in 0..(m + 1) PROVE t[i] = IF i = 0 THEN 0 ELSE t[i - 1] + f[i]
    <3>1. CASE i = 0
      <4>1. 0 \in 0..m /\ t[0] = s[0]
        OBVIOUS
      <4> QED BY <2>1, <3>1, <4>1
    <3>2. CASE i # 0 /\ i # m + 1
      <4>1. i \in 0..m /\ i - 1 \in 0..(m + 1) /\ i - 1 # m + 1
        BY <3>2
      <4>2. t[i] = s[i] /\ t[i - 1] = s[i - 1] /\ s[i] = s[i - 1] + f[i]
        BY <2>1, <3>2, <4>1
      <4> QED BY <3>2, <4>2
    <3>3. CASE i = m + 1
      <4>1. /\ m \in 0..(m + 1) /\ m # m + 1 /\ m + 1 \in 0..(m + 1)
            /\ (m + 1) - 1 = m /\ m + 1 # 0
        OBVIOUS
      <4>2. t[m + 1] = s[m] + f[m + 1] /\ t[m] = s[m]
        BY <4>1
      <4> QED BY <3>3, <4>1, <4>2
    <3> QED BY <3>1, <3>2, <3>3
  <2>3. t = [i \in 0..(m + 1) |-> t[i]]
    OBVIOUS
  <2> HIDE DEF t
  <2>4. t = [i \in 0..(m + 1) |-> IF i = 0 THEN 0 ELSE t[i - 1] + f[i]]
    BY <2>2, <2>3
  <2> QED BY <2>4
<1> HIDE DEF T
<1>3. n \in T
  BY <1>1, <1>2, Induction
<1> QED BY <1>3 DEF T

LEMMA SumByParts ==
  ASSUME NEW f, NEW n \in Nat
  PROVE  \E s : /\ s[0] = 0
                /\ \A i \in 1..n : s[i] = s[i - 1] + f[i]
                /\ SumTo(f, n) = s[n]
<1> DEFINE Q(s) == s = [i \in 0..n |-> IF i = 0 THEN 0 ELSE s[i - 1] + f[i]]
           s == CHOOSE u : Q(u)
<1>1. SumTo(f, n) = s[n]
  BY DEF SumTo
<1>2. Q(s)
  <2>1. \E u : Q(u)
    BY PartialSums
  <2> HIDE DEF Q
  <2> QED BY <2>1
<1> HIDE DEF s
<1>3. s[0] = 0 /\ \A i \in 1..n : s[i] = s[i - 1] + f[i]
  BY <1>2
<1> QED BY <1>1, <1>3

(* The sum of no values, and of one more. *)
LEMMA SumSteps ==
  ASSUME NEW f, NEW n \in Nat
  PROVE  /\ SumTo(f, 0) = 0
         /\ SumTo(f, n + 1) = SumTo(f, n) + f[n + 1]
<1>1. SumTo(f, 0) = 0
  <2>1. PICK s : s[0] = 0 /\ SumTo(f, 0) = s[0]
    BY SumByParts
  <2> QED BY <2>1
<1>2. PICK s : s[0] = 0 /\ (\A i \in 1..n : s[i] = s[i - 1] + f[i]) /\ SumTo(f, n) = s[n]
  BY SumByParts
<1>3. PICK t : /\ t[0] = 0 /\ (\A i \in 1..(n + 1) : t[i] = t[i - 1] + f[i])
               /\ SumTo(f, n + 1) = t[n + 1]
  <2>1. n + 1 \in Nat
    OBVIOUS
  <2> QED BY <2>1, SumByParts
<1> DEFINE T == {i \in Nat : i <= n => s[i] = t[i]}
<1>4. n \in T
  <2>1. 0 \in T
    BY <1>2, <1>3
  <2>2. ASSUME NEW m \in Nat, m \in T PROVE m + 1 \in T
    <3> SUFFICES ASSUME m + 1 <= n PROVE s[m + 1] = t[m + 1]
      OBVIOUS
    <3>1. m + 1 \in 1..n /\ m + 1 \in 1..(n + 1) /\ (m + 1) - 1 = m /\ s[m] = t[m]
      BY <2>2
    <3> QED BY <1>2, <1>3, <3>1
  <2> HIDE DEF T
  <2> QED BY <2>1, <2>2, Induction
<1>5. n + 1 \in 1..(n + 1) /\ (n + 1) - 1 = n
  OBVIOUS
<1> QED BY <1>1, <1>2, <1>3, <1>4, <1>5

(* The sum of naturals is a natural, and depends on nothing else. *)
LEMMA SumSame ==
  ASSUME NEW n \in Nat, NEW f, NEW g,
         \A i \in 1..n : f[i] \in Nat /\ f[i] = g[i]
  PROVE  SumTo(f, n) \in Nat /\ SumTo(f, n) = SumTo(g, n)
<1> DEFINE T == {m \in Nat : m <= n => SumTo(f, m) \in Nat /\ SumTo(f, m) = SumTo(g, m)}
<1>1. 0 \in T
  BY SumSteps
<1>2. ASSUME NEW m \in Nat, m \in T PROVE m + 1 \in T
  <2> SUFFICES ASSUME m + 1 <= n
               PROVE  SumTo(f, m + 1) \in Nat /\ SumTo(f, m + 1) = SumTo(g, m + 1)
    OBVIOUS
  <2>1. m + 1 \in 1..n /\ SumTo(f, m) \in Nat /\ SumTo(f, m) = SumTo(g, m)
    BY <1>2
  <2> QED BY <2>1, SumSteps
<1> HIDE DEF T
<1>3. n \in T
  BY <1>1, <1>2, Induction
<1> QED BY <1>3 DEF T

LEMMA SumNat ==
  ASSUME NEW n \in Nat, NEW f, \A i \in 1..n : f[i] \in Nat
  PROVE  SumTo(f, n) \in Nat
BY SumSame

(* Another value for one of them changes the sum by the difference. *)
LEMMA SumChange ==
  ASSUME NEW n \in Nat, NEW f, NEW g, NEW k \in 1..n,
         \A i \in 1..n : f[i] \in Nat /\ g[i] \in Nat /\ (i # k => f[i] = g[i])
  PROVE  SumTo(g, n) + f[k] = SumTo(f, n) + g[k]
<1> DEFINE T == {m \in Nat :
                   /\ m < k => SumTo(f, m) = SumTo(g, m)
                   /\ k <= m /\ m <= n => SumTo(g, m) + f[k] = SumTo(f, m) + g[k]}
<1>1. 0 \in T
  BY SumSteps
<1>2. ASSUME NEW m \in Nat, m \in T PROVE m + 1 \in T
  <2> SUFFICES ASSUME m + 1 <= n
               PROVE  /\ m + 1 < k => SumTo(f, m + 1) = SumTo(g, m + 1)
                      /\ k <= m + 1 => SumTo(g, m + 1) + f[k] = SumTo(f, m + 1) + g[k]
    OBVIOUS
  <2>1. /\ \A i \in 1..m : f[i] \in Nat /\ g[i] \in Nat
        /\ m + 1 \in 1..n /\ f[m + 1] \in Nat /\ g[m + 1] \in Nat
        /\ f[k] \in Nat /\ g[k] \in Nat
    OBVIOUS
  <2>2. SumTo(f, m) \in Nat /\ SumTo(g, m) \in Nat
    BY <2>1, SumNat
  <2>3. /\ SumTo(f, m + 1) = SumTo(f, m) + f[m + 1]
        /\ SumTo(g, m + 1) = SumTo(g, m) + g[m + 1]
    BY SumSteps
  <2>4. /\ m < k => SumTo(f, m) = SumTo(g, m)
        /\ k <= m => SumTo(g, m) + f[k] = SumTo(f, m) + g[k]
    BY <1>2
  <2>5. m + 1 # k => f[m + 1] = g[m + 1]
    BY <2>1
  <2>6. CASE m + 1 < k
    BY <2>1, <2>2, <2>3, <2>4, <2>5, <2>6
  <2>7. CASE m + 1 = k
    BY <2>1, <2>2, <2>3, <2>4, <2>7
  <2>8. CASE m + 1 > k
    BY <2>1, <2>2, <2>3, <2>4, <2>5, <2>8
  <2> QED BY <2>6, <2>7, <2>8
<1> HIDE DEF T
<1>3. n \in T
  BY <1>1, <1>2, Induction
<1> QED BY <1>3 DEF T

(* Larger values have a larger sum. *)
LEMMA SumMonotone ==
  ASSUME NEW n \in Nat, NEW f, NEW g,
         \A i \in 1..n : f[i] \in Nat /\ g[i] \in Nat /\ f[i] <= g[i]
  PROVE  SumTo(f, n) <= SumTo(g, n)
<1> DEFINE T == {m \in Nat : m <= n => SumTo(f, m) <= SumTo(g, m)}
<1>1. 0 \in T
  BY SumSteps
<1>2. ASSUME NEW m \in Nat, m \in T PROVE m + 1 \in T
  <2> SUFFICES ASSUME m + 1 <= n PROVE SumTo(f, m + 1) <= SumTo(g, m + 1)
    OBVIOUS
  <2>1. /\ \A i \in 1..m : f[i] \in Nat /\ g[i] \in Nat
        /\ m + 1 \in 1..n /\ f[m + 1] \in Nat /\ g[m + 1] \in Nat /\ f[m + 1] <= g[m + 1]
    OBVIOUS
  <2>2. SumTo(f, m) \in Nat /\ SumTo(g, m) \in Nat
    BY <2>1, SumNat
  <2>3. SumTo(f, m) <= SumTo(g, m)
    BY <1>2
  <2> QED BY <2>1, <2>2, <2>3, SumSteps
<1> HIDE DEF T
<1>3. n \in T
  BY <1>1, <1>2, Induction
<1> QED BY <1>3 DEF T

(* Of no weight at all. *)
LEMMA SumZero ==
  ASSUME NEW n \in Nat, NEW f, \A i \in 1..n : f[i] = 0
  PROVE  SumTo(f, n) = 0
<1> DEFINE T == {m \in Nat : m <= n => SumTo(f, m) = 0}
<1>1. 0 \in T
  BY SumSteps
<1>2. ASSUME NEW m \in Nat, m \in T PROVE m + 1 \in T
  <2> SUFFICES ASSUME m + 1 <= n PROVE SumTo(f, m + 1) = 0
    OBVIOUS
  <2>1. m + 1 \in 1..n /\ SumTo(f, m) = 0
    BY <1>2
  <2> QED BY <2>1, SumSteps
<1> HIDE DEF T
<1>3. n \in T
  BY <1>1, <1>2, Induction
<1> QED BY <1>3 DEF T

(* Each value is at most the sum. *)
LEMMA SumHasParts ==
  ASSUME NEW n \in Nat, NEW f, \A i \in 1..n : f[i] \in Nat, NEW k \in 1..n
  PROVE  f[k] <= SumTo(f, n)
<1> DEFINE g == [i \in 1..n |-> IF i = k THEN 0 ELSE f[i]]
<1>1. \A i \in 1..n : f[i] \in Nat /\ g[i] \in Nat /\ (i # k => f[i] = g[i])
  OBVIOUS
<1>2. g[k] = 0
  OBVIOUS
<1> HIDE DEF g
<1>3. SumTo(g, n) + f[k] = SumTo(f, n) + g[k]
  BY <1>1, SumChange
<1>4. SumTo(g, n) \in Nat /\ SumTo(f, n) \in Nat /\ f[k] \in Nat
  BY <1>1, SumNat
<1> QED BY <1>2, <1>3, <1>4

-----------------------------------------------------------------------------
(* Timelines. *)

(* What an entry of a timeline is. *)
LEMMA EntryFacts ==
  ASSUME NEW s \in Seq(Entries), NEW i \in 1..Len(s)
  PROVE  s[i] \in Entries /\ s[i].ledger \in Nat /\ s[i].value \in Nat
<1>1. s[i] \in Entries
  OBVIOUS
<1> QED BY <1>1 DEF Entries

(* DOMAIN of a timeline, and Ordered over its positions. *)
LEMMA OrderedFacts ==
  ASSUME NEW s \in Seq(Entries)
  PROVE  Ordered(s) <=> \A i, j \in 1..Len(s) : i < j => s[j].ledger >= s[i].ledger + (j - i)
<1>1. DOMAIN s = 1..Len(s)
  OBVIOUS
<1> QED BY <1>1, Zenon DEF Ordered

LEMMA EntryType ==
  ASSUME NEW l \in Nat, NEW v \in Nat
  PROVE  /\ Entry(l, v) \in Entries
         /\ Entry(l, v).ledger = l
         /\ Entry(l, v).value = v
BY DEF Entry, Entries

-----------------------------------------------------------------------------
(* If entry i is at or before r and all later ones are after r, lookup_at  *)
(* returns its value.                                                      *)
LEMMA LookupIsEntry ==
  ASSUME NEW s \in Seq(Entries), NEW r \in Nat, NEW i \in 1..Len(s),
         s[i].ledger <= r,
         \A j \in 1..Len(s) : j > i => s[j].ledger > r
  PROVE  LookupAt(s, r) = s[i].value
<1>1. i \in At(s, r)
  BY DEF At
<1>2. ASSUME NEW k \in At(s, r) PROVE k = i
  <2>1. /\ k \in 1..Len(s) /\ s[k].ledger <= r
        /\ \A j \in 1..Len(s) : j > k => s[j].ledger > r
    BY DEF At
  <2>2. s[i].ledger \in Nat /\ s[k].ledger \in Nat
    BY <2>1, EntryFacts
  <2>3. ~(k > i) /\ ~(i > k)
    BY <2>1, <2>2
  <2> QED BY <2>1, <2>3
<1>3. (CHOOSE k \in At(s, r) : TRUE) = i
  BY <1>1, <1>2
<1> QED BY <1>1, <1>3 DEF LookupAt

(* Before the first entry of a timeline, and in an empty one, lookup_at    *)
(* returns the default.                                                    *)
LEMMA LookupIsDefault ==
  ASSUME NEW s \in Seq(Entries), NEW r \in Nat,
         \A j \in 1..Len(s) : s[j].ledger > r
  PROVE  LookupAt(s, r) = Default
<1>1. \A j \in 1..Len(s) : s[j].ledger \in Nat
  BY EntryFacts
<1>2. At(s, r) = {}
  BY <1>1 DEF At
<1> QED BY <1>2 DEF LookupAt

(* From the ledger of its last entry on, a timeline has its latest value.  *)
LEMMA LookupIsLatest ==
  ASSUME NEW s \in Seq(Entries), NEW r \in Nat,
         s # <<>> => s[Len(s)].ledger <= r
  PROVE  LookupAt(s, r) = Latest(s)
<1>1. CASE s = <<>>
  <2>1. \A j \in 1..Len(s) : s[j].ledger > r
    BY <1>1
  <2> QED BY <1>1, <2>1, LookupIsDefault DEF Latest
<1>2. CASE s # <<>>
  <2>1. Len(s) \in 1..Len(s)
    BY <1>2
  <2>2. LookupAt(s, r) = s[Len(s)].value
    BY <1>2, <2>1, LookupIsEntry
  <2> QED BY <1>2, <2>2 DEF Latest
<1> QED BY <1>1, <1>2

(* A lookup finds an entry or the timeline has none at or before r. *)
LEMMA LookupCases ==
  ASSUME NEW s \in Seq(Entries), Ordered(s), NEW r \in Nat
  PROVE  \/ \A j \in 1..Len(s) : s[j].ledger > r
         \/ \E i \in 1..Len(s) : /\ s[i].ledger <= r
                                 /\ \A j \in 1..Len(s) : j > i => s[j].ledger > r
<1>0. \A j \in 1..Len(s) : s[j].ledger \in Nat
  BY EntryFacts
<1> DEFINE T == {n \in Nat : n <= Len(s) /\ \A j \in 1..Len(s) : j > n => s[j].ledger > r}
<1>1. Len(s) \in T
  BY <1>0
<1>2. PICK m \in T : \A k \in T : m <= k
  <2> HIDE DEF T
  <2>1. T \subseteq Nat /\ T # {}
    BY <1>1 DEF T
  <2> QED BY <2>1, LeastNat
<1>3. CASE m = 0
  BY <1>2, <1>3
<1>4. CASE m # 0
  <2>1. m \in 1..Len(s) /\ m - 1 \in Nat /\ m - 1 < m
    BY <1>2, <1>4
  <2>2. m - 1 \notin T
    BY <1>2, <2>1
  <2>3. \E j \in 1..Len(s) : j > m - 1 /\ ~(s[j].ledger > r)
    BY <2>1, <2>2
  <2>4. PICK j \in 1..Len(s) : j > m - 1 /\ ~(s[j].ledger > r)
    BY <2>3
  <2>5. j = m
    BY <1>2, <2>1, <2>4
  <2>6. s[m].ledger <= r
    BY <1>0, <2>1, <2>4, <2>5
  <2> QED BY <1>2, <2>1, <2>6
<1> QED BY <1>3, <1>4

LEMMA LookupType ==
  ASSUME NEW s \in Seq(Entries), Ordered(s), NEW r \in Nat
  PROVE  LookupAt(s, r) \in Nat
<1>1. CASE \A j \in 1..Len(s) : s[j].ledger > r
  BY <1>1, LookupIsDefault DEF Default
<1>2. CASE \E i \in 1..Len(s) : /\ s[i].ledger <= r
                                 /\ \A j \in 1..Len(s) : j > i => s[j].ledger > r
  <2>1. PICK i \in 1..Len(s) : /\ s[i].ledger <= r
                               /\ \A j \in 1..Len(s) : j > i => s[j].ledger > r
    BY <1>2
  <2> QED BY <2>1, LookupIsEntry, EntryFacts
<1> QED BY <1>1, <1>2, LookupCases

-----------------------------------------------------------------------------
(* The entries of a timeline after an update in place and after an append. *)
LEMMA ReplaceLast ==
  ASSUME NEW s \in Seq(Entries), s # <<>>, NEW e \in Entries
  PROVE  /\ [s EXCEPT ![Len(s)] = e] \in Seq(Entries)
         /\ Len([s EXCEPT ![Len(s)] = e]) = Len(s)
         /\ [s EXCEPT ![Len(s)] = e][Len(s)] = e
         /\ \A i \in 1..Len(s) : i # Len(s) => [s EXCEPT ![Len(s)] = e][i] = s[i]
<1>1. Len(s) \in Nat /\ Len(s) >= 1
  OBVIOUS
<1> QED BY <1>1

-----------------------------------------------------------------------------
(* The entries of the rest of a timeline from position o on. *)
LEMMA Rest ==
  ASSUME NEW s \in Seq(Entries), NEW o \in 1..Len(s)
  PROVE  /\ SubSeq(s, o, Len(s)) \in Seq(Entries)
         /\ Len(SubSeq(s, o, Len(s))) = Len(s) - o + 1
         /\ \A i \in 1..(Len(s) - o + 1) : SubSeq(s, o, Len(s))[i] = s[o + i - 1]
<1>1. Len(s) \in Nat /\ o \in Nat /\ 1 <= o /\ o <= Len(s)
  OBVIOUS
<1>2. Len(SubSeq(s, o, Len(s))) = Len(s) - o + 1
  BY <1>1
<1>3. \A i \in 1..(Len(s) - o + 1) : SubSeq(s, o, Len(s))[i] = s[o + i - 1]
  BY <1>1
<1>4. SubSeq(s, o, Len(s)) \in Seq(Entries)
  BY <1>1
<1> QED BY <1>2, <1>3, <1>4

(* push before pruning keeps a timeline ordered, if no entry is of a later *)
(* ledger than the current one.                                            *)
LEMMA PutFacts ==
  ASSUME NEW s \in Seq(Entries), Ordered(s), NEW l \in Nat, NEW v \in Nat,
         s # <<>> => s[Len(s)].ledger <= l
  PROVE  /\ Put(s, l, v) \in Seq(Entries)
         /\ Put(s, l, v) # <<>>
         /\ Put(s, l, v)[Len(Put(s, l, v))] = Entry(l, v)
         /\ Ordered(Put(s, l, v))
<1> DEFINE p == Put(s, l, v)
<1>0. /\ Entry(l, v) \in Entries /\ Entry(l, v).ledger = l
      /\ \A j \in 1..Len(s) : s[j].ledger \in Nat
      /\ \A i, j \in 1..Len(s) : i < j => s[j].ledger >= s[i].ledger + (j - i)
  BY EntryType, EntryFacts, OrderedFacts
<1>1. CASE s # <<>> /\ s[Len(s)].ledger = l
  <2>1. p = [s EXCEPT ![Len(s)] = Entry(l, v)]
    BY <1>1 DEF Put
  <2>2. Len(s) \in Nat /\ Len(s) >= 1
    BY <1>1
  <2>3. p \in Seq(Entries) /\ Len(p) = Len(s) /\ p[Len(s)] = Entry(l, v)
    BY <1>0, <2>1, <2>2
  <2>4. \A j \in 1..Len(s) : p[j].ledger = s[j].ledger
    BY <1>0, <1>1, <2>1, <2>2
  <2>5. \A i, j \in 1..Len(p) : i < j => p[j].ledger >= p[i].ledger + (j - i)
    BY <1>0, <2>3, <2>4
  <2>6. Ordered(p)
    BY <2>3, <2>5, OrderedFacts
  <2> QED BY <2>2, <2>3, <2>6
<1>2. CASE ~(s # <<>> /\ s[Len(s)].ledger = l)
  <2>1. p = Append(s, Entry(l, v))
    BY <1>2 DEF Put
  <2>2. p \in Seq(Entries) /\ Len(p) = Len(s) + 1 /\ p[Len(s) + 1] = Entry(l, v)
    BY <1>0, <2>1
  <2>3. \A j \in 1..Len(s) : p[j] = s[j]
    BY <2>1
  <2>4. \A j \in 1..Len(s) : l >= s[j].ledger + (Len(s) + 1 - j)
    <3>1. ASSUME NEW j \in 1..Len(s) PROVE l >= s[j].ledger + (Len(s) + 1 - j)
      <4>1. s # <<>> /\ Len(s) \in 1..Len(s)
        BY <3>1
      <4>2. s[Len(s)].ledger \in Nat /\ s[Len(s)].ledger < l
        BY <1>0, <1>2, <4>1
      <4>3. s[Len(s)].ledger >= s[j].ledger + (Len(s) - j)
        BY <1>0, <3>1, <4>1
      <4> QED BY <1>0, <3>1, <4>1, <4>2, <4>3
    <3> QED BY <3>1
  <2>5. Ordered(p)
    <3>1. ASSUME NEW i \in 1..Len(p), NEW j \in 1..Len(p), i < j
          PROVE  p[j].ledger >= p[i].ledger + (j - i)
      <4>1. i \in 1..Len(s)
        BY <2>2, <3>1
      <4>2. CASE j \in 1..Len(s)
        BY <1>0, <2>3, <3>1, <4>1, <4>2
      <4>3. CASE j = Len(s) + 1
        BY <1>0, <2>2, <2>3, <2>4, <4>1, <4>3
      <4> QED BY <2>2, <3>1, <4>2, <4>3
    <3> QED BY <2>2, <3>1, OrderedFacts
  <2> QED BY <2>2, <2>5
<1> QED BY <1>1, <1>2

(* A push changes no value of an earlier ledger. *)
LEMMA PutPast ==
  ASSUME NEW s \in Seq(Entries), Ordered(s), NEW l \in Nat, NEW v \in Nat,
         s # <<>> => s[Len(s)].ledger <= l,
         NEW r \in Nat, r < l
  PROVE  LookupAt(Put(s, l, v), r) = LookupAt(s, r)
<1> DEFINE p == Put(s, l, v)
<1>0. /\ p \in Seq(Entries) /\ Len(p) \in Nat /\ Len(s) \in Nat
      /\ Entry(l, v).ledger = l
      /\ \A j \in 1..Len(s) : s[j].ledger \in Nat
  BY PutFacts, EntryType, EntryFacts
<1>1. /\ Len(s) <= Len(p)
      /\ \A j \in 1..Len(s) : s[j].ledger < l => p[j] = s[j]
      /\ \A j \in 1..Len(s) : ~(s[j].ledger < l) => p[j].ledger = l
      /\ \A j \in 1..Len(p) : j > Len(s) => p[j].ledger = l
  <2>1. CASE s # <<>> /\ s[Len(s)].ledger = l
    <3>1. p = [s EXCEPT ![Len(s)] = Entry(l, v)]
      BY <2>1 DEF Put
    <3>2. Len(p) = Len(s) /\ \A j \in 1..Len(s) : p[j] = IF j = Len(s) THEN Entry(l, v) ELSE s[j]
      BY <1>0, <3>1
    <3>3. ASSUME NEW j \in 1..Len(s), j # Len(s) PROVE s[j].ledger < l
      <4>1. Len(s) \in 1..Len(s) /\ j < Len(s)
        BY <1>0, <3>3
      <4>2. s[Len(s)].ledger >= s[j].ledger + (Len(s) - j)
        BY <4>1, OrderedFacts
      <4> QED BY <1>0, <2>1, <4>1, <4>2
    <3> QED BY <1>0, <2>1, <3>2, <3>3
  <2>2. CASE ~(s # <<>> /\ s[Len(s)].ledger = l)
    <3>1. p = Append(s, Entry(l, v))
      BY <2>2 DEF Put
    <3>2. Len(p) = Len(s) + 1 /\ p[Len(s) + 1] = Entry(l, v)
      BY <3>1
    <3>3. \A j \in 1..Len(s) : p[j] = s[j]
      BY <3>1
    <3>4. ASSUME NEW j \in 1..Len(s) PROVE s[j].ledger < l
      <4>1. Len(s) \in 1..Len(s) /\ s # <<>>
        BY <1>0, <3>4
      <4>2. s[Len(s)].ledger < l
        BY <1>0, <2>2, <4>1
      <4>3. j # Len(s) => s[Len(s)].ledger >= s[j].ledger + (Len(s) - j)
        BY <3>4, <4>1, OrderedFacts
      <4> QED BY <1>0, <3>4, <4>1, <4>2, <4>3
    <3> QED BY <1>0, <3>2, <3>3, <3>4
  <2> QED BY <2>1, <2>2
<1> HIDE DEF p
<1>2. CASE \A j \in 1..Len(s) : s[j].ledger > r
  <2>1. \A j \in 1..Len(p) : p[j].ledger > r
    BY <1>0, <1>1, <1>2
  <2>2. LookupAt(p, r) = Default /\ LookupAt(s, r) = Default
    BY <1>0, <1>2, <2>1, LookupIsDefault
  <2> QED BY <2>2 DEF p
<1>3. CASE \E i \in 1..Len(s) : /\ s[i].ledger <= r
                                 /\ \A j \in 1..Len(s) : j > i => s[j].ledger > r
  <2>1. PICK i \in 1..Len(s) : /\ s[i].ledger <= r
                               /\ \A j \in 1..Len(s) : j > i => s[j].ledger > r
    BY <1>3
  <2>2. i \in 1..Len(p) /\ s[i].ledger < l
    BY <1>0, <1>1, <2>1
  <2>3. p[i] = s[i]
    BY <1>1, <2>1, <2>2
  <2>4. ASSUME NEW j \in 1..Len(p), j > i PROVE p[j].ledger > r
    <3>1. CASE j > Len(s)
      BY <1>1, <3>1
    <3>2. CASE j \in 1..Len(s)
      BY <1>0, <1>1, <2>1, <2>4, <3>2
    <3> QED BY <1>0, <3>1, <3>2
  <2>5. LookupAt(p, r) = p[i].value
    BY <1>0, <2>1, <2>2, <2>3, <2>4, LookupIsEntry
  <2>6. LookupAt(s, r) = s[i].value
    BY <2>1, LookupIsEntry
  <2> QED BY <2>3, <2>5, <2>6 DEF p
<1> QED BY <1>2, <1>3, LookupCases

(* From the current ledger on, the pushed value is the value. *)
LEMMA PutNow ==
  ASSUME NEW s \in Seq(Entries), Ordered(s), NEW l \in Nat, NEW v \in Nat,
         s # <<>> => s[Len(s)].ledger <= l,
         NEW r \in Nat, l <= r
  PROVE  LookupAt(Put(s, l, v), r) = v
<1> DEFINE p == Put(s, l, v)
<1>1. /\ p \in Seq(Entries) /\ p # <<>> /\ p[Len(p)] = Entry(l, v)
      /\ Entry(l, v).ledger = l /\ Entry(l, v).value = v
  BY PutFacts, EntryType
<1>2. LookupAt(p, r) = Latest(p)
  BY <1>1, LookupIsLatest
<1> QED BY <1>1, <1>2 DEF Latest

-----------------------------------------------------------------------------
(* A pruned timeline answers like the full one from `bound` on. *)
LEMMA PrunedLookup ==
  ASSUME NEW h \in Seq(Entries), NEW log \in Seq(Entries), Ordered(log),
         NEW bound \in Nat, PrunedFrom(h, log, bound),
         NEW r \in Nat, bound <= r
  PROVE  LookupAt(h, r) = LookupAt(log, r)
<1>1. PICK d \in 0..Len(log) : /\ Len(h) = Len(log) - d
                               /\ \A i \in 1..Len(h) : h[i] = log[d + i]
                               /\ d > 0 => Len(h) > 0 /\ h[1].ledger < bound
  BY DEF PrunedFrom
<1>2. Len(h) \in Nat /\ Len(log) \in Nat /\ \A j \in 1..Len(log) : log[j].ledger \in Nat
  BY EntryFacts
<1>3. CASE \A j \in 1..Len(log) : log[j].ledger > r
  <2>1. \A j \in 1..Len(h) : h[j].ledger > r
    BY <1>1, <1>2, <1>3
  <2> QED BY <1>3, <2>1, LookupIsDefault
<1>4. CASE \E i \in 1..Len(log) : /\ log[i].ledger <= r
                                   /\ \A j \in 1..Len(log) : j > i => log[j].ledger > r
  <2>1. PICK i \in 1..Len(log) : /\ log[i].ledger <= r
                                 /\ \A j \in 1..Len(log) : j > i => log[j].ledger > r
    BY <1>4
  <2>2. i > d
    <3>1. CASE d = 0
      BY <2>1, <3>1
    <3>2. CASE d > 0
      <4>1. 1 \in 1..Len(h) /\ d + 1 \in 1..Len(log)
        BY <1>1, <1>2, <3>2
      <4>2. log[d + 1].ledger < bound
        BY <1>1, <3>2, <4>1
      <4>3. ~(d + 1 > i)
        BY <1>2, <2>1, <4>1, <4>2
      <4> QED BY <2>1, <4>1, <4>3
    <3> QED BY <1>1, <3>1, <3>2
  <2>3. i - d \in 1..Len(h) /\ d + (i - d) = i
    BY <1>1, <1>2, <2>1, <2>2
  <2>4. h[i - d] = log[i]
    BY <1>1, <2>3
  <2>5. \A j \in 1..Len(h) : j > i - d => h[j].ledger > r
    BY <1>1, <1>2, <2>1, <2>3
  <2>6. LookupAt(h, r) = h[i - d].value
    BY <2>1, <2>3, <2>4, <2>5, LookupIsEntry
  <2>7. LookupAt(log, r) = log[i].value
    BY <2>1, LookupIsEntry
  <2> QED BY <2>4, <2>6, <2>7
<1> QED BY <1>3, <1>4, LookupCases

(* Before `bound` too, it answers like the full one or not at all: a       *)
(* pruned value reads as the default, never as some other value.           *)
LEMMA PrunedNeverInvents ==
  ASSUME NEW h \in Seq(Entries), NEW log \in Seq(Entries), Ordered(log),
         NEW bound, PrunedFrom(h, log, bound), NEW r \in Nat
  PROVE  LookupAt(h, r) = Default \/ LookupAt(h, r) = LookupAt(log, r)
<1>1. PICK d \in 0..Len(log) : /\ Len(h) = Len(log) - d
                               /\ \A i \in 1..Len(h) : h[i] = log[d + i]
  BY DEF PrunedFrom
<1>2. Len(h) \in Nat /\ Len(log) \in Nat /\ \A j \in 1..Len(log) : log[j].ledger \in Nat
  BY EntryFacts
<1>3. CASE \A j \in 1..Len(log) : log[j].ledger > r
  <2>1. \A j \in 1..Len(h) : h[j].ledger > r
    BY <1>1, <1>2, <1>3
  <2> QED BY <2>1, LookupIsDefault
<1>4. CASE \E i \in 1..Len(log) : /\ log[i].ledger <= r
                                   /\ \A j \in 1..Len(log) : j > i => log[j].ledger > r
  <2>1. PICK i \in 1..Len(log) : /\ log[i].ledger <= r
                                 /\ \A j \in 1..Len(log) : j > i => log[j].ledger > r
    BY <1>4
  <2>2. CASE i <= d
    <3>1. ASSUME NEW j \in 1..Len(h) PROVE h[j].ledger > r
      <4>1. d + j \in 1..Len(log) /\ d + j > i
        BY <1>1, <1>2, <2>2
      <4> QED BY <1>1, <2>1, <4>1
    <3> QED BY <3>1, LookupIsDefault
  <2>3. CASE i > d
    <3>1. i - d \in 1..Len(h) /\ d + (i - d) = i
      BY <1>1, <1>2, <2>1, <2>3
    <3>2. h[i - d] = log[i]
      BY <1>1, <3>1
    <3>3. ASSUME NEW j \in 1..Len(h), j > i - d PROVE h[j].ledger > r
      <4>1. d + j \in 1..Len(log) /\ d + j > i
        BY <1>1, <1>2, <3>1, <3>3
      <4> QED BY <1>1, <2>1, <4>1
    <3>4. LookupAt(h, r) = h[i - d].value
      BY <2>1, <3>1, <3>2, <3>3, LookupIsEntry
    <3>5. LookupAt(log, r) = log[i].value
      BY <2>1, LookupIsEntry
    <3> QED BY <3>2, <3>4, <3>5
  <2> QED BY <1>1, <2>1, <2>2, <2>3
<1> QED BY <1>3, <1>4, LookupCases

-----------------------------------------------------------------------------
(* take_while counts the leading old entries; in an ordered timeline they  *)
(* are all of them.                                                        *)
LEMMA OldCountFacts ==
  ASSUME NEW s \in Seq(Entries), NEW c \in Nat
  PROVE  /\ OldCount(s, c) \in 0..Len(s)
         /\ \A i \in 1..OldCount(s, c) : s[i].ledger < c
         /\ OldCount(s, c) < Len(s) => s[OldCount(s, c) + 1].ledger >= c
<1>0. Len(s) \in Nat /\ \A j \in 1..Len(s) : s[j].ledger \in Nat
  BY EntryFacts
<1> DEFINE T == {n \in Nat : n < Len(s) => s[n + 1].ledger >= c}
<1>1. T \subseteq Nat /\ Len(s) \in T
  BY <1>0
<1>2. PICK m \in T : \A k \in T : m <= k
  <2> HIDE DEF T
  <2> QED BY <1>1, LeastNat
<1>3. m \in 0..Len(s) /\ (m < Len(s) => s[m + 1].ledger >= c)
  BY <1>0, <1>1, <1>2
<1>4. ASSUME NEW i \in 1..m PROVE s[i].ledger < c
  <2>1. i - 1 \in Nat /\ i - 1 < m /\ i - 1 < Len(s) /\ (i - 1) + 1 = i /\ i \in 1..Len(s)
    BY <1>0, <1>3
  <2>2. i - 1 \notin T
    BY <1>2, <1>3, <2>1
  <2>3. ~(s[i].ledger >= c)
    BY <2>1, <2>2
  <2> QED BY <1>0, <2>1, <2>3
<1> HIDE DEF T
<1> DEFINE Q(n) == /\ \A i \in 1..n : s[i].ledger < c
                   /\ n < Len(s) => s[n + 1].ledger >= c
<1>5. \E n \in 0..Len(s) : Q(n)
  BY <1>3, <1>4
<1>6. OldCount(s, c) = CHOOSE n \in 0..Len(s) : Q(n)
  BY DEF OldCount
<1>7. OldCount(s, c) \in 0..Len(s) /\ Q(OldCount(s, c))
  <2> HIDE DEF Q
  <2> QED BY <1>5, <1>6
<1> QED BY <1>7

(* vec_history::push on a pruned timeline and checkpoint::push on the full *)
(* one: the first stays what pruning leaves of the second.                 *)
LEMMA PushPruned ==
  ASSUME NEW h \in Seq(Entries), NEW log \in Seq(Entries), Ordered(log),
         NEW b \in Nat, PrunedFrom(h, log, b),
         NEW l \in Nat, NEW v \in Nat, NEW cutoff \in Nat,
         b <= SaturatingSub(l, cutoff),
         log # <<>> => log[Len(log)].ledger <= l
  PROVE  /\ Push(h, l, v, cutoff) \in Seq(Entries)
         /\ PrunedFrom(Push(h, l, v, cutoff), Put(log, l, v), SaturatingSub(l, cutoff))
<1> DEFINE p == Put(h, l, v)
           q == Put(log, l, v)
           c == SaturatingSub(l, cutoff)
<1>1. PICK d \in 0..Len(log) : /\ Len(h) = Len(log) - d
                               /\ \A i \in 1..Len(h) : h[i] = log[d + i]
                               /\ d > 0 => Len(h) > 0 /\ h[1].ledger < b
  BY DEF PrunedFrom
<1>2. /\ Len(h) \in Nat /\ Len(log) \in Nat /\ c \in Nat
      /\ Entry(l, v) \in Entries /\ Entry(l, v).ledger = l
      /\ \A i \in 1..Len(log) : log[i].ledger \in Nat
      /\ \A i \in 1..Len(h) : h[i].ledger \in Nat
  BY EntryType, EntryFacts DEF SaturatingSub
<1>3. h # <<>> => Len(h) \in 1..Len(h) /\ h[Len(h)] = log[Len(log)] /\ log # <<>>
  BY <1>1, <1>2
<1>4. h = <<>> => log = <<>> /\ d = 0
  BY <1>1, <1>2
(* Before it prunes, push does the same to both. *)
<1>5. /\ p \in Seq(Entries) /\ q \in Seq(Entries)
      /\ Len(p) > 0 /\ Len(p) = Len(q) - d
      /\ \A i \in 1..Len(p) : p[i] = q[d + i]
      /\ d > 0 => p[1].ledger < c
  <2>1. CASE h # <<>> /\ h[Len(h)].ledger = l
    <3>1. p = [h EXCEPT ![Len(h)] = Entry(l, v)] /\ q = [log EXCEPT ![Len(log)] = Entry(l, v)]
      BY <1>3, <2>1 DEF Put
    <3>2. /\ p \in Seq(Entries) /\ Len(p) = Len(h)
          /\ \A i \in 1..Len(h) : p[i] = IF i = Len(h) THEN Entry(l, v) ELSE h[i]
      BY <1>2, <2>1, <3>1, ReplaceLast
    <3>3. /\ q \in Seq(Entries) /\ Len(q) = Len(log)
          /\ \A i \in 1..Len(log) : q[i] = IF i = Len(log) THEN Entry(l, v) ELSE log[i]
      BY <1>2, <1>3, <2>1, <3>1, ReplaceLast
    <3>4. ASSUME NEW i \in 1..Len(p) PROVE p[i] = q[d + i]
      <4>0. i \in 1..Len(h) /\ d \in Nat
        BY <1>2, <3>2
      <4>1. d + i \in 1..Len(log) /\ (d + i = Len(log) <=> i = Len(h))
        BY <1>1, <1>2, <4>0
      <4> QED BY <1>1, <3>2, <3>3, <4>1
    <3>5. d > 0 => Len(h) # 1
      <4>1. Len(h) = 1 /\ d > 0 => l < b
        BY <1>1, <2>1
      <4>2. c <= l
        BY <1>2 DEF SaturatingSub
      <4> QED BY <1>2, <4>1, <4>2
    <3>6. d > 0 => p[1].ledger < c
      <4>1. d > 0 => p[1] = h[1] /\ h[1].ledger < b /\ h[1].ledger \in Nat
        <5>1. d > 0 => 1 \in 1..Len(h) /\ 1 # Len(h)
          BY <1>1, <1>2, <3>5
        <5> QED BY <1>1, <1>2, <3>2, <5>1
      <4> QED BY <1>2, <4>1
    <3> QED BY <1>1, <1>3, <2>1, <3>2, <3>3, <3>4, <3>6
  <2>2. CASE ~(h # <<>> /\ h[Len(h)].ledger = l)
    <3>1. p = Append(h, Entry(l, v)) /\ q = Append(log, Entry(l, v))
      BY <1>3, <1>4, <2>2 DEF Put
    <3>2. /\ p \in Seq(Entries) /\ Len(p) = Len(h) + 1 /\ p[Len(h) + 1] = Entry(l, v)
          /\ \A i \in 1..Len(h) : p[i] = h[i]
      BY <1>2, <3>1
    <3>3. /\ q \in Seq(Entries) /\ Len(q) = Len(log) + 1 /\ q[Len(log) + 1] = Entry(l, v)
          /\ \A i \in 1..Len(log) : q[i] = log[i]
      BY <1>2, <3>1
    <3>4. ASSUME NEW i \in 1..Len(p) PROVE p[i] = q[d + i]
      <4>1. CASE i = Len(h) + 1
        <5>1. d + i = Len(log) + 1
          BY <1>1, <1>2, <4>1
        <5> QED BY <3>2, <3>3, <4>1, <5>1
      <4>2. CASE i \in 1..Len(h)
        <5>1. d + i \in 1..Len(log)
          BY <1>1, <1>2, <4>2
        <5> QED BY <1>1, <3>2, <3>3, <4>2, <5>1
      <4> QED BY <1>2, <3>2, <4>1, <4>2
    <3>5. d > 0 => p[1].ledger < c
      <4>1. d > 0 => p[1] = h[1] /\ h[1].ledger < b /\ h[1].ledger \in Nat
        <5>1. d > 0 => 1 \in 1..Len(h)
          BY <1>1, <1>2
        <5> QED BY <1>1, <1>2, <3>2, <5>1
      <4> QED BY <1>2, <4>1
    <3> QED BY <1>1, <1>2, <3>2, <3>3, <3>4, <3>5
  <2> QED BY <2>1, <2>2
<1> HIDE DEF p, q, c
<1>6. CASE Prune(p, l, cutoff) = p
  <2>1. Len(q) \in Nat /\ d \in 0..Len(q)
    BY <1>2, <1>5
  <2>2. PrunedFrom(p, q, c)
    BY <1>5, <2>1 DEF PrunedFrom
  <2> QED BY <1>5, <1>6, <2>2 DEF Push, p, q, c
<1>7. CASE Prune(p, l, cutoff) # p
  <2> DEFINE o == OldCount(p, c)
             t == SubSeq(p, o, Len(p))
  <2>1. Prune(p, l, cutoff) = t /\ o >= 2
    BY <1>7 DEF Prune, c
  <2>2. o \in 2..Len(p) /\ p[o].ledger < c
    <3>1. o \in 0..Len(p) /\ \A i \in 1..o : p[i].ledger < c
      BY <1>2, <1>5, OldCountFacts
    <3>2. o \in Nat
      BY <3>1
    <3> HIDE DEF o
    <3> QED BY <1>5, <2>1, <3>1, <3>2
  <2> HIDE DEF o
  <2>3. /\ t \in Seq(Entries) /\ Len(t) = Len(p) - o + 1
        /\ \A i \in 1..Len(t) : t[i] = p[o + i - 1]
    <3>1. o \in 1..Len(p) /\ p \in Seq(Entries)
      BY <1>5, <2>2
    <3>2. /\ t \in Seq(Entries) /\ Len(t) = Len(p) - o + 1
          /\ \A i \in 1..(Len(p) - o + 1) : t[i] = p[o + i - 1]
      BY <3>1, Rest
    <3> QED BY <3>2, Zenon
  <2> DEFINE e == d + o - 1
  <2>4. e \in 0..Len(q) /\ Len(t) = Len(q) - e /\ Len(t) > 0
    BY <1>2, <1>5, <2>2, <2>3
  <2>5. ASSUME NEW i \in 1..Len(t) PROVE t[i] = q[e + i]
    <3>1. o + i - 1 \in 1..Len(p) /\ d + (o + i - 1) = e + i
      BY <1>5, <2>2, <2>3
    <3> QED BY <1>5, <2>3, <3>1
  <2>6. t[1].ledger < c
    <3>1. t[1] = p[o]
      BY <2>2, <2>3, <2>4
    <3> QED BY <2>2, <3>1
  <2> HIDE DEF t, e
  <2>7. PrunedFrom(t, q, c)
    BY <2>4, <2>5, <2>6 DEF PrunedFrom
  <2> QED BY <2>1, <2>3, <2>7 DEF Push, p, q, c
<1> QED BY <1>6, <1>7

(* After a push the entries kept are one old one and at most one for each  *)
(* of the last cutoff + 1 ledgers.                                         *)
LEMMA PushBounded ==
  ASSUME NEW h \in Seq(Entries), Ordered(h), NEW l \in Nat, NEW v \in Nat,
         NEW cutoff \in Nat,
         h # <<>> => h[Len(h)].ledger <= l
  PROVE  Len(Push(h, l, v, cutoff)) <= cutoff + 2
<1> DEFINE p == Put(h, l, v)
           c == SaturatingSub(l, cutoff)
           o == OldCount(p, c)
<1>1. /\ p \in Seq(Entries) /\ p # <<>> /\ p[Len(p)].ledger = l
      /\ \A i, j \in 1..Len(p) : i < j => p[j].ledger >= p[i].ledger + (j - i)
  BY PutFacts, EntryType, OrderedFacts
<1>2. Len(p) \in Nat /\ \A i \in 1..Len(p) : p[i].ledger \in Nat
  BY <1>1, EntryFacts
<1>3. c \in Nat /\ l <= c + cutoff
  BY DEF SaturatingSub
<1>4. /\ o \in 0..Len(p)
      /\ o < Len(p) => p[o + 1].ledger >= c
  BY <1>1, <1>3, OldCountFacts
<1> HIDE DEF p, c, o
(* The entries from o + 1 on are of the ledgers c..l. *)
<1>5. Len(p) - o <= cutoff + 1
  <2>1. CASE o = Len(p)
    BY <1>2, <2>1
  <2>2. CASE o + 1 = Len(p)
    BY <1>2, <1>4, <2>2
  <2>3. CASE o + 1 < Len(p)
    <3>1. o + 1 \in 1..Len(p) /\ Len(p) \in 1..Len(p)
      BY <1>2, <1>4, <2>3
    <3>2. l >= p[o + 1].ledger + (Len(p) - (o + 1))
      BY <1>1, <2>3, <3>1
    <3> QED BY <1>2, <1>3, <1>4, <2>3, <3>1, <3>2
  <2> QED BY <1>2, <1>4, <2>1, <2>2, <2>3
<1>6. Push(h, l, v, cutoff) = IF Len(p) <= 1 THEN p
                              ELSE IF o >= 2 THEN SubSeq(p, o, Len(p)) ELSE p
  BY DEF Push, Prune, p, c, o
<1>7. CASE Len(p) > 1 /\ o >= 2
  <2>1. o \in 1..Len(p)
    BY <1>2, <1>4, <1>7
  <2>2. Len(SubSeq(p, o, Len(p))) = Len(p) - o + 1
    BY <1>1, <2>1, Rest
  <2>3. Push(h, l, v, cutoff) = SubSeq(p, o, Len(p))
    <3>1. ~(Len(p) <= 1)
      BY <1>2, <1>7
    <3> QED BY <1>6, <1>7, <3>1, Zenon
  <2> QED BY <1>2, <1>4, <1>5, <2>2, <2>3
<1>8. CASE ~(Len(p) > 1 /\ o >= 2)
  <2>1. Push(h, l, v, cutoff) = p
    BY <1>2, <1>4, <1>6, <1>8
  <2>2. Len(p) <= cutoff + 2
    BY <1>2, <1>4, <1>5, <1>8
  <2> QED BY <2>1, <2>2
<1> QED BY <1>7, <1>8

(* What pruning leaves of an ordered timeline is ordered and ends alike. *)
LEMMA PrunedOrdered ==
  ASSUME NEW h \in Seq(Entries), NEW log \in Seq(Entries), Ordered(log),
         NEW bound, PrunedFrom(h, log, bound)
  PROVE  /\ Ordered(h)
         /\ h = <<>> <=> log = <<>>
         /\ h # <<>> => h[Len(h)] = log[Len(log)]
<1>1. PICK d \in 0..Len(log) : /\ Len(h) = Len(log) - d
                               /\ \A i \in 1..Len(h) : h[i] = log[d + i]
                               /\ d > 0 => Len(h) > 0
  BY DEF PrunedFrom
<1>2. Len(h) \in Nat /\ Len(log) \in Nat /\ \A i \in 1..Len(log) : log[i].ledger \in Nat
  BY EntryFacts
<1>3. ASSUME NEW i \in 1..Len(h), NEW j \in 1..Len(h), i < j
      PROVE  h[j].ledger >= h[i].ledger + (j - i)
  <2>1. d + i \in 1..Len(log) /\ d + j \in 1..Len(log) /\ d + i < d + j
    BY <1>1, <1>2, <1>3
  <2>2. log[d + j].ledger >= log[d + i].ledger + ((d + j) - (d + i))
    BY <2>1, OrderedFacts
  <2>3. (d + j) - (d + i) = j - i
    OBVIOUS
  <2> QED BY <1>1, <2>2, <2>3
<1>4. Ordered(h)
  BY <1>3, OrderedFacts
<1>5. h # <<>> => h[Len(h)] = log[Len(log)]
  <2>1. h # <<>> => Len(h) \in 1..Len(h) /\ d + Len(h) = Len(log)
    BY <1>1, <1>2
  <2> QED BY <1>1, <2>1
<1>6. h = <<>> <=> log = <<>>
  BY <1>1, <1>2
<1> QED BY <1>4, <1>5, <1>6

-----------------------------------------------------------------------------
(* Timeline holds of a new history, survives the passing of ledgers, and   *)
(* is kept by push.                                                        *)
LEMMA TimelineEmpty ==
  ASSUME NEW l \in Nat, NEW cutoff \in Nat
  PROVE  Timeline(<<>>, <<>>, l, cutoff)
<1>1. Ordered(<<>>) /\ PrunedFrom(<<>>, <<>>, SaturatingSub(l, cutoff))
  BY DEF Ordered, PrunedFrom
<1> QED BY <1>1 DEF Timeline

LEMMA TimelineLater ==
  ASSUME NEW h, NEW log, NEW l \in Nat, NEW m \in Nat, l <= m, NEW cutoff \in Nat,
         Timeline(h, log, l, cutoff)
  PROVE  Timeline(h, log, m, cutoff)
<1>1. /\ h \in Seq(Entries) /\ log \in Seq(Entries) /\ Ordered(log)
      /\ log # <<>> => log[Len(log)].ledger <= l
      /\ PrunedFrom(h, log, SaturatingSub(l, cutoff))
      /\ Len(h) <= cutoff + 2
  BY DEF Timeline
<1>2. log # <<>> => log[Len(log)].ledger <= m
  <2>1. log # <<>> => Len(log) \in 1..Len(log)
    BY <1>1
  <2> QED BY <1>1, <2>1, EntryFacts
<1>3. /\ SaturatingSub(l, cutoff) \in Nat /\ SaturatingSub(m, cutoff) \in Nat
      /\ SaturatingSub(l, cutoff) <= SaturatingSub(m, cutoff)
  BY DEF SaturatingSub
<1>4. Len(h) > 0 => h[1].ledger \in Nat
  <2>1. Len(h) > 0 => 1 \in 1..Len(h)
    BY <1>1
  <2> QED BY <1>1, <2>1, EntryFacts
<1>5. PrunedFrom(h, log, SaturatingSub(m, cutoff))
  <2>1. PICK d \in 0..Len(log) :
          /\ Len(h) = Len(log) - d
          /\ \A i \in 1..Len(h) : h[i] = log[d + i]
          /\ d > 0 => Len(h) > 0 /\ h[1].ledger < SaturatingSub(l, cutoff)
    BY <1>1 DEF PrunedFrom
  <2>2. d > 0 => Len(h) > 0 /\ h[1].ledger < SaturatingSub(m, cutoff)
    BY <1>3, <1>4, <2>1
  <2> QED BY <2>1, <2>2 DEF PrunedFrom
<1> QED BY <1>1, <1>2, <1>5 DEF Timeline

LEMMA TimelinePush ==
  ASSUME NEW h, NEW log, NEW l \in Nat, NEW v \in Nat, NEW cutoff \in Nat,
         Timeline(h, log, l, cutoff)
  PROVE  Timeline(Push(h, l, v, cutoff), Put(log, l, v), l, cutoff)
<1>1. /\ h \in Seq(Entries) /\ log \in Seq(Entries) /\ Ordered(log)
      /\ log # <<>> => log[Len(log)].ledger <= l
      /\ PrunedFrom(h, log, SaturatingSub(l, cutoff))
  BY DEF Timeline
<1>2. SaturatingSub(l, cutoff) \in Nat
  BY DEF SaturatingSub
<1>3. /\ Push(h, l, v, cutoff) \in Seq(Entries)
      /\ PrunedFrom(Push(h, l, v, cutoff), Put(log, l, v), SaturatingSub(l, cutoff))
  BY <1>1, <1>2, PushPruned
<1>4. /\ Put(log, l, v) \in Seq(Entries) /\ Ordered(Put(log, l, v))
      /\ Put(log, l, v)[Len(Put(log, l, v))].ledger <= l
  BY <1>1, PutFacts, EntryType
<1>5. Len(Push(h, l, v, cutoff)) <= cutoff + 2
  <2>1. Ordered(h) /\ (h # <<>> => h[Len(h)].ledger <= l)
    BY <1>1, PrunedOrdered
  <2> QED BY <1>1, <2>1, PushBounded
<1> QED BY <1>3, <1>4, <1>5 DEF Timeline

(* What a lookup in a stored history gives. *)
LEMMA TimelineLookup ==
  ASSUME NEW h, NEW log, NEW l \in Nat, NEW cutoff \in Nat,
         Timeline(h, log, l, cutoff), NEW r \in Nat
  PROVE  /\ LookupAt(h, r) \in {Default, LookupAt(log, r)}
         /\ SaturatingSub(l, cutoff) <= r => LookupAt(h, r) = LookupAt(log, r)
<1>1. SaturatingSub(l, cutoff) \in Nat
  BY DEF SaturatingSub
<1> QED BY <1>1, PrunedLookup, PrunedNeverInvents DEF Timeline

(* Latest is what the stored history and the full one both end with. *)
LEMMA TimelineLatest ==
  ASSUME NEW h, NEW log, NEW l \in Nat, NEW cutoff \in Nat,
         Timeline(h, log, l, cutoff)
  PROVE  Latest(h) \in Nat /\ Latest(h) = Latest(log)
<1>1. /\ h \in Seq(Entries) /\ log \in Seq(Entries)
      /\ h = <<>> <=> log = <<>>
      /\ h # <<>> => h[Len(h)] = log[Len(log)]
  BY PrunedOrdered DEF Timeline
<1>2. h # <<>> => Len(h) \in 1..Len(h)
  BY <1>1
<1> QED BY <1>1, <1>2, EntryFacts DEF Latest, Default

-----------------------------------------------------------------------------
(* Verification.  The weights of a list of different keys add up to the    *)
(* weight of the set of them.                                              *)
WeightOfListed(n, w, m, keys) ==
  SumTo([k \in 1..n |-> IF \E j \in 1..m : keys[j] = k THEN w[k] ELSE 0], n)

LEMMA SumOfListed ==
  ASSUME NEW n \in Nat, NEW w, \A k \in 1..n : w[k] \in Nat,
         NEW m \in Nat, NEW keys, NEW weights,
         \A j \in 1..m : keys[j] \in 1..n /\ weights[j] = w[keys[j]],
         \A j, k \in 1..m : j < k => keys[j] < keys[k]
  PROVE  SumTo(weights, m) = WeightOfListed(n, w, m, keys)
<1> DEFINE In(x) == [k \in 1..n |-> IF \E j \in 1..x : keys[j] = k THEN w[k] ELSE 0]
           T == {x \in Nat : x <= m => SumTo(weights, x) = SumTo(In(x), n)}
<1>1. 0 \in T
  <2>1. \A k \in 1..n : In(0)[k] = 0
    OBVIOUS
  <2> HIDE DEF In
  <2> QED BY <2>1, SumZero, SumSteps
<1>2. ASSUME NEW x \in Nat, x \in T PROVE x + 1 \in T
  <2> SUFFICES ASSUME x + 1 <= m PROVE SumTo(weights, x + 1) = SumTo(In(x + 1), n)
    OBVIOUS
  <2> DEFINE new == keys[x + 1]
             f == In(x)
             g == In(x + 1)
  <2>1. x + 1 \in 1..m /\ new \in 1..n /\ weights[x + 1] = w[new]
    OBVIOUS
  <2>2. \A j \in 1..x : j \in 1..m /\ keys[j] # new
    <3>1. ASSUME NEW j \in 1..x PROVE j \in 1..m /\ j < x + 1
      OBVIOUS
    <3> QED BY <2>1, <3>1
  <2>3. f[new] = 0 /\ g[new] = w[new]
    <3>1. \E j \in 1..(x + 1) : keys[j] = new
      BY <2>1
    <3> QED BY <2>1, <2>2, <3>1
  <2>4. ASSUME NEW k \in 1..n
        PROVE  f[k] \in Nat /\ g[k] \in Nat /\ (k # new => f[k] = g[k])
    <3>1. k # new => ((\E j \in 1..(x + 1) : keys[j] = k) <=> (\E j \in 1..x : keys[j] = k))
      <4>1. \A j \in 1..(x + 1) : j = x + 1 \/ j \in 1..x
        OBVIOUS
      <4>2. \A j \in 1..x : j \in 1..(x + 1)
        OBVIOUS
      <4> QED BY <4>1, <4>2
    <3> QED BY <3>1
  <2>5. SumTo(weights, x) = SumTo(f, n)
    BY <1>2
  <2>6. SumTo(weights, x + 1) = SumTo(weights, x) + weights[x + 1]
    BY SumSteps
  <2> HIDE DEF f, g, new
  <2>7. SumTo(g, n) + f[new] = SumTo(f, n) + g[new]
    BY <2>1, <2>4, SumChange
  <2>8. SumTo(f, n) \in Nat /\ SumTo(g, n) \in Nat
    BY <2>4, SumNat
  <2>9. SumTo(weights, x + 1) = SumTo(g, n)
    BY <2>1, <2>3, <2>5, <2>6, <2>7, <2>8
  <2> QED BY <2>9 DEF g
<1> HIDE DEF T
<1>3. m \in T
  BY <1>1, <1>2, Induction
<1> QED BY <1>3 DEF T, WeightOfListed

(* A set that holds the listed keys weighs at least as much, and as much   *)
(* when it holds no other.                                                 *)
WeightOfSet(n, w, S) == SumTo([k \in 1..n |-> IF k \in S THEN w[k] ELSE 0], n)

LEMMA ListedInSet ==
  ASSUME NEW n \in Nat, NEW w, \A k \in 1..n : w[k] \in Nat, NEW m, NEW keys, NEW S,
         \A j \in 1..m : keys[j] \in S
  PROVE  /\ WeightOfSet(n, w, S) \in Nat
         /\ WeightOfListed(n, w, m, keys) \in Nat
         /\ WeightOfListed(n, w, m, keys) <= WeightOfSet(n, w, S)
         /\ (\A k \in S : \E j \in 1..m : keys[j] = k) =>
              WeightOfListed(n, w, m, keys) = WeightOfSet(n, w, S)
<1> DEFINE f == [k \in 1..n |-> IF \E j \in 1..m : keys[j] = k THEN w[k] ELSE 0]
           g == [k \in 1..n |-> IF k \in S THEN w[k] ELSE 0]
<1>1. \A k \in 1..n : f[k] \in Nat /\ g[k] \in Nat /\ f[k] <= g[k]
  OBVIOUS
<1>2. (\A k \in S : \E j \in 1..m : keys[j] = k) => f = g
  OBVIOUS
<1>3. WeightOfListed(n, w, m, keys) = SumTo(f, n) /\ WeightOfSet(n, w, S) = SumTo(g, n)
  BY DEF WeightOfListed, WeightOfSet
<1> HIDE DEF f
<1>4. SumTo(g, n) \in Nat /\ SumTo(f, n) \in Nat /\ SumTo(f, n) <= SumTo(g, n)
  <2> HIDE DEF g
  <2> QED BY <1>1, SumNat, SumMonotone
<1> QED BY <1>2, <1>3, <1>4

(* Neighbours in order are all in order. *)
LEMMA AscendingSteps ==
  ASSUME NEW m \in Nat, NEW keys, \A j \in 1..m : keys[j] \in Nat,
         \A j \in 2..m : keys[j - 1] < keys[j]
  PROVE  \A j, k \in 1..m : j < k => keys[j] < keys[k]
<1> DEFINE T == {x \in Nat : x <= m => \A j \in 1..x : j < x => keys[j] < keys[x]}
<1>1. 0 \in T
  OBVIOUS
<1>2. ASSUME NEW x \in Nat, x \in T PROVE x + 1 \in T
  <2> SUFFICES ASSUME x + 1 <= m, NEW j \in 1..(x + 1), j < x + 1
               PROVE  keys[j] < keys[x + 1]
    OBVIOUS
  <2>1. /\ j \in 1..x /\ x \in 1..m /\ x + 1 \in 2..m /\ (x + 1) - 1 = x
        /\ j \in 1..m /\ x + 1 \in 1..m
    OBVIOUS
  <2>2. keys[x] < keys[x + 1]
    BY <2>1
  <2>3. j = x \/ keys[j] < keys[x]
    BY <1>2, <2>1
  <2> QED BY <2>1, <2>2, <2>3
<1> HIDE DEF T
<1>3. \A x \in Nat : x \in T
  BY <1>1, <1>2, Induction
<1> QED BY <1>3 DEF T

(* The first m iterations of the loop of verify go on. *)
GoesOn(m, scheme, message, sigs, signers, weights) ==
  \A j \in 1..m :
    Iteration(scheme, j, SumTo(weights, j - 1), message, sigs, signers, weights) = "Ok"

(* The weights verify was given for the first m signers are those of a     *)
(* registry w of n keys.                                                   *)
WeightsFrom(m, n, w, signers, weights) ==
  /\ n \in Nat /\ \A k \in 1..n : w[k] \in Nat
  /\ \A j \in 1..m : signers[j] \in 1..n /\ weights[j] = w[signers[j]]

(* What they have checked then: good signatures of registered keys, in     *)
(* order, whose weights have been added up without repetition.             *)
LEMMA GoneOn ==
  ASSUME NEW m \in Nat, NEW scheme \in Schemes, NEW message, NEW sigs, NEW signers,
         NEW weights, NEW n, NEW w,
         GoesOn(m, scheme, message, sigs, signers, weights),
         WeightsFrom(m, n, w, signers, weights)
  PROVE  /\ \A j \in 1..m : sigs[j] = Signed(signers[j], message) /\ weights[j] # 0
         /\ \A j, k \in 1..m : j < k => signers[j] < signers[k]
         /\ SumTo(weights, m) = WeightOfListed(n, w, m, signers)
<1>1. ASSUME NEW j \in 1..m
      PROVE  /\ ~Unordered(j, signers) /\ weights[j] # 0
             /\ SignatureCheck(scheme, sigs[j], signers[j], message) = "Ok"
  <2> DEFINE check == SignatureCheck(scheme, sigs[j], signers[j], message)
             sum == SumTo(weights, j - 1)
  <2>1. Iteration(scheme, j, sum, message, sigs, signers, weights) = "Ok"
    BY DEF GoesOn
  <2>2. Iteration(scheme, j, sum, message, sigs, signers, weights) =
          IF Unordered(j, signers) THEN "SignersNotOrdered"
          ELSE IF check # "Ok" THEN check
          ELSE IF weights[j] = 0 THEN "SignerNotRegistered"
          ELSE IF ~FitsU64(sum + weights[j]) THEN "Trap" ELSE "Ok"
    BY DEF Iteration
  <2> HIDE DEF check, sum
  <2>3. ~Unordered(j, signers) /\ weights[j] # 0 /\ check = "Ok"
    BY <2>1, <2>2
  <2> QED BY <2>3 DEF check
<1>2. ASSUME NEW j \in 1..m PROVE sigs[j] = Signed(signers[j], message)
  BY <1>1 DEF SignatureCheck, Ed25519Check, Secp256k1Check
<1>3. ASSUME NEW j \in 2..m PROVE signers[j - 1] < signers[j]
  <2>1. j \in 1..m /\ j - 1 \in 1..m /\ j > 1
    OBVIOUS
  <2>2. ~(signers[j] <= signers[j - 1])
    BY <1>1, <2>1 DEF Unordered
  <2> QED BY <2>1, <2>2 DEF WeightsFrom
<1>4. \A j, k \in 1..m : j < k => signers[j] < signers[k]
  <2>1. \A j \in 1..m : signers[j] \in Nat
    BY DEF WeightsFrom
  <2> QED BY <1>3, <2>1, AscendingSteps
<1>5. SumTo(weights, m) = WeightOfListed(n, w, m, signers)
  BY <1>4, SumOfListed DEF WeightsFrom
<1> QED BY <1>1, <1>2, <1>4, <1>5

(* The first failing iteration is the answer of verify. *)
LEMMA OutcomeFails ==
  ASSUME NEW scheme, NEW message, NEW sigs, NEW signers, NEW weights, NEW required,
         Len(sigs) \in Nat, DOMAIN sigs = 1..Len(sigs),
         Precheck(sigs, signers, required) = "Ok",
         NEW i \in 1..Len(sigs),
         GoesOn(i - 1, scheme, message, sigs, signers, weights),
         Iteration(scheme, i, SumTo(weights, i - 1), message, sigs, signers, weights) # "Ok"
  PROVE  VerifyOutcome(scheme, message, sigs, signers, weights, required) =
           Iteration(scheme, i, SumTo(weights, i - 1), message, sigs, signers, weights)
<1> DEFINE step(j) ==
             Iteration(scheme, j, SumTo(weights, j - 1), message, sigs, signers, weights)
           failing == {j \in DOMAIN sigs : step(j) # "Ok"}
           first == CHOOSE k \in failing : \A j \in failing : k <= j
           last == IF SumTo(weights, Len(sigs)) < required THEN "InsufficientWeight"
                   ELSE "Ok"
<1>1. VerifyOutcome(scheme, message, sigs, signers, weights, required) =
        IF Precheck(sigs, signers, required) # "Ok" THEN Precheck(sigs, signers, required)
        ELSE IF failing # {} THEN step(first)
        ELSE last
  BY DEF VerifyOutcome
<1>2. i \in failing
  OBVIOUS
<1>3. ASSUME NEW j \in failing PROVE i <= j
  <2>1. j \in 1..Len(sigs) /\ step(j) # "Ok"
    OBVIOUS
  <2>2. j < i => j \in 1..(i - 1)
    BY <2>1
  <2>3. ~(j < i)
    BY <2>1, <2>2 DEF GoesOn
  <2> QED BY <2>1, <2>3
<1>4. failing \subseteq Nat
  OBVIOUS
<1> HIDE DEF failing, step, last
<1>5. first \in failing /\ first <= i
  BY <1>2, <1>3
<1> HIDE DEF first
<1>6. first = i
  <2>1. first \in Nat /\ i \in Nat /\ i <= first
    BY <1>3, <1>4, <1>5
  <2> QED BY <1>5, <2>1
<1>7. VerifyOutcome(scheme, message, sigs, signers, weights, required) = step(i)
  BY <1>1, <1>2, <1>6
<1> QED BY <1>7 DEF step

(* When none fails the weight decides. *)
LEMMA OutcomeWeighs ==
  ASSUME NEW scheme, NEW message, NEW sigs, NEW signers, NEW weights, NEW required,
         Len(sigs) \in Nat, DOMAIN sigs = 1..Len(sigs),
         Precheck(sigs, signers, required) = "Ok",
         GoesOn(Len(sigs), scheme, message, sigs, signers, weights)
  PROVE  VerifyOutcome(scheme, message, sigs, signers, weights, required) =
           IF SumTo(weights, Len(sigs)) < required THEN "InsufficientWeight" ELSE "Ok"
<1> DEFINE step(j) ==
             Iteration(scheme, j, SumTo(weights, j - 1), message, sigs, signers, weights)
           failing == {j \in DOMAIN sigs : step(j) # "Ok"}
           first == CHOOSE k \in failing : \A j \in failing : k <= j
           last == IF SumTo(weights, Len(sigs)) < required THEN "InsufficientWeight"
                   ELSE "Ok"
<1>1. VerifyOutcome(scheme, message, sigs, signers, weights, required) =
        IF Precheck(sigs, signers, required) # "Ok" THEN Precheck(sigs, signers, required)
        ELSE IF failing # {} THEN step(first)
        ELSE last
  BY DEF VerifyOutcome
<1>2. failing = {}
  BY DEF GoesOn
<1> HIDE DEF failing, first, step, last
<1>3. VerifyOutcome(scheme, message, sigs, signers, weights, required) = last
  BY <1>1, <1>2
<1> QED BY <1>3 DEF last

(* Either no iteration fails, or a first one does. *)
LEMMA FirstFailure ==
  ASSUME NEW scheme, NEW message, NEW sigs, NEW signers, NEW weights, NEW required,
         Len(sigs) \in Nat, DOMAIN sigs = 1..Len(sigs),
         Precheck(sigs, signers, required) = "Ok",
         ~GoesOn(Len(sigs), scheme, message, sigs, signers, weights)
  PROVE  \E i \in 1..Len(sigs) :
           LET step == Iteration(scheme, i, SumTo(weights, i - 1), message, sigs, signers, weights)
           IN  /\ GoesOn(i - 1, scheme, message, sigs, signers, weights)
               /\ step # "Ok"
               /\ VerifyOutcome(scheme, message, sigs, signers, weights, required) = step
<1> DEFINE step(j) ==
             Iteration(scheme, j, SumTo(weights, j - 1), message, sigs, signers, weights)
           failing == {j \in 1..Len(sigs) : step(j) # "Ok"}
<1>1. failing # {} /\ failing \subseteq Nat
  BY DEF GoesOn
<1>2. PICK i \in failing : \A j \in failing : i <= j
  <2> HIDE DEF failing
  <2> QED BY <1>1, LeastNat
<1>3. i \in 1..Len(sigs) /\ step(i) # "Ok"
  BY <1>2
<1>4. GoesOn(i - 1, scheme, message, sigs, signers, weights)
  <2>1. ASSUME NEW j \in 1..(i - 1) PROVE step(j) = "Ok"
    <3>1. j \in 1..Len(sigs) /\ ~(i <= j)
      BY <1>3
    <3> QED BY <1>2, <3>1
  <2> QED BY <2>1 DEF GoesOn
<1>5. VerifyOutcome(scheme, message, sigs, signers, weights, required) = step(i)
  BY <1>3, <1>4, OutcomeFails
<1> QED BY <1>3, <1>4, <1>5

(* verify says Ok only when nothing failed and the weight is enough. *)
LEMMA OutcomeOk ==
  ASSUME NEW scheme, NEW message, NEW sigs, NEW signers, NEW weights, NEW required,
         Len(signers) \in Nat, DOMAIN sigs = 1..Len(sigs),
         VerifyOutcome(scheme, message, sigs, signers, weights, required) = "Ok"
  PROVE  /\ Precheck(sigs, signers, required) = "Ok"
         /\ required # 0 /\ Len(sigs) = Len(signers) /\ sigs # <<>>
         /\ GoesOn(Len(sigs), scheme, message, sigs, signers, weights)
         /\ ~(SumTo(weights, Len(sigs)) < required)
<1> DEFINE step(j) ==
             Iteration(scheme, j, SumTo(weights, j - 1), message, sigs, signers, weights)
           precheck == Precheck(sigs, signers, required)
<1>1. precheck = "Ok"
  <2> DEFINE rest == VerifyOutcome(scheme, message, sigs, signers, weights, required)
  <2>1. precheck # "Ok" => rest = precheck
    BY DEF VerifyOutcome
  <2> HIDE DEF precheck, rest
  <2>2. rest = "Ok"
    BY DEF rest
  <2> QED BY <2>1, <2>2
<1>2. required # 0 /\ Len(sigs) = Len(signers) /\ sigs # <<>>
  BY <1>1 DEF Precheck
<1>3. GoesOn(Len(sigs), scheme, message, sigs, signers, weights)
  <2> SUFFICES ASSUME ~GoesOn(Len(sigs), scheme, message, sigs, signers, weights)
               PROVE  FALSE
    OBVIOUS
  <2>1. Len(sigs) \in Nat
    BY <1>2
  <2> HIDE DEF step
  <2> QED BY <1>1, <2>1, FirstFailure
<1>4. ~(SumTo(weights, Len(sigs)) < required)
  <2>1. Len(sigs) \in Nat
    BY <1>2
  <2>2. VerifyOutcome(scheme, message, sigs, signers, weights, required) =
           IF SumTo(weights, Len(sigs)) < required THEN "InsufficientWeight" ELSE "Ok"
    BY <1>1, <1>3, <2>1, OutcomeWeighs
  <2> QED BY <2>2
<1> QED BY <1>1, <1>2, <1>3, <1>4
=============================================================================
