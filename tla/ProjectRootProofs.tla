--------------------------- MODULE ProjectRootProofs ---------------------------
(***************************************************************************)
(* Who is in control of the contracts of a project, for any number of      *)
(* accounts and contracts.  Inv is inductive; the two action properties    *)
(* follow from it step by step.                                            *)
(***************************************************************************)
EXTENDS ProjectRoot, SequenceTheorems, TLAPS

Inv == TypeOK /\ NeverLockedOut /\ HandlerSetOK

(* The calls that come through the Project Root never go to itself. *)
LEMMA OursIsNotRoot ==
  ASSUME NEW target \in Contracts, ContractType(target) # "NotOurContract"
  PROVE  target # Root
  BY DisjointAssumption, ReportingAssumption DEF ContractType

(* An invocation either changes one contract, proposes an administrator    *)
(* for it or accepts one, or only touches the handler set; `callers` are   *)
(* the accounts that sign, and the Project Root only when the call goes    *)
(* through it: with its administrator's signature, to another contract.    *)
Callers(auth, c) ==
  {auth} \cup {callers \in {auth \cup {Root}} : Proxy(auth) /\ c # Root}

LEMMA InvocationCases ==
  ASSUME NEW auth \in SUBSET Accounts, NEW c \in Contracts, Invocation(auth, c)
  PROVE  \/ \E callers \in Callers(auth, c) :
              \/ Change(c, callers)
              \/ \E p \in Proposable : ProposeAdmin(c, callers, p)
              \/ AcceptAdmin(c, callers)
         \/ UNCHANGED <<admin, pending>> /\ changed' = None
<1>1. auth \in Callers(auth, c)
  BY DEF Callers
<1>2. CASE Direct(c, auth)
  BY <1>1, <1>2 DEF Direct
<1>3. CASE ViaRoot(auth, c)
  <2>1. Proxy(auth) /\ c # Root
    BY <1>3, OursIsNotRoot, DisjointAssumption
    DEF ViaRoot, ForwardToSecurity, UpgradeContract, ProposeContractAdmin, AcceptContractAdmin
  <2>2. auth \cup {Root} \in Callers(auth, c)
    BY <2>1 DEF Callers
  <2> QED
    BY <1>3, <2>2
    DEF ViaRoot, ForwardToSecurity, UpgradeContract, ProposeContractAdmin, AcceptContractAdmin
<1>4. CASE RegisterHandler(auth, c) \/ UnregisterHandler(auth, c)
  BY <1>4 DEF RegisterHandler, UnregisterHandler
<1> QED
  BY <1>2, <1>3, <1>4 DEF Invocation

LEMMA CallersFacts ==
  ASSUME NEW auth \in SUBSET Accounts, NEW c \in Contracts, NEW callers \in Callers(auth, c)
  PROVE  /\ callers \subseteq Accounts \cup {Root}
         /\ Root \in callers => Proxy(auth) /\ c # Root
         /\ callers \ {Root} \subseteq auth
  BY DisjointAssumption DEF Callers, Contracts

-----------------------------------------------------------------------------
(* The handler set *)

LEMMA AddHandlerInv ==
  ASSUME TypeOK, HandlerSetOK, NEW h \in Reporting, AddHandler(h)
  PROVE  handlers' \in Seq(Contracts) /\ HandlerSetOK'
<1>1. h \in Contracts
  BY ReportingAssumption DEF Contracts
<1>2. CASE h \in Tracked
  BY <1>2 DEF AddHandler, TypeOK, HandlerSetOK, Tracked, Range
<1>3. CASE h \notin Tracked
  <2>1. handlers' = Append(handlers, h)
    BY <1>3 DEF AddHandler
  <2>2. /\ handlers' \in Seq(Contracts) /\ Len(handlers') = Len(handlers) + 1
        /\ \A i \in 1..Len(handlers) : handlers'[i] = handlers[i]
        /\ handlers'[Len(handlers) + 1] = h
    BY <1>1, <2>1 DEF TypeOK
  <2>3. \A i \in 1..Len(handlers) : handlers[i] # h
    BY <1>3 DEF Tracked, Range, TypeOK
  <2>4. \A i, j \in DOMAIN handlers' : handlers'[i] = handlers'[j] => i = j
    BY <2>2, <2>3 DEF HandlerSetOK, TypeOK
  <2>5. \A i \in 1..Len(handlers) : handlers[i] \in Reporting
    BY DEF HandlerSetOK, Tracked, Range, TypeOK
  <2>6. \A i \in 1..Len(handlers') : handlers'[i] \in Reporting
    BY <2>2, <2>5 DEF TypeOK
  <2> QED
    BY <2>2, <2>4, <2>6 DEF HandlerSetOK, Tracked, Range
<1> QED
  BY <1>2, <1>3

(* What is left of a sequence without its i-th entry. *)
LEMMA WithoutEntry ==
  ASSUME NEW S, NEW s \in Seq(S), NEW i \in 1..Len(s)
  PROVE  /\ RemoveAt(s, i) \in Seq(S) /\ Len(RemoveAt(s, i)) = Len(s) - 1
         /\ \A j \in 1..(i - 1) : RemoveAt(s, i)[j] = s[j]
         /\ \A j \in i..(Len(s) - 1) : RemoveAt(s, i)[j] = s[j + 1]
<1> DEFINE t == RemoveAt(s, i)
           front == SubSeq(s, 1, i - 1)
           back == SubSeq(s, i + 1, Len(s))
<1>1. /\ front \in Seq(S) /\ Len(front) = i - 1
      /\ \A j \in 1..(i - 1) : front[j] = s[j]
  OBVIOUS
<1>2. /\ back \in Seq(S) /\ Len(back) = Len(s) - i
      /\ \A j \in 1..(Len(s) - i) : back[j] = s[i + j]
  OBVIOUS
<1>3. t = front \o back
  BY DEF RemoveAt
<1>4. i \in Nat /\ Len(s) \in Nat /\ 1 <= i /\ i <= Len(s)
  OBVIOUS
<1> HIDE DEF t, front, back
<1>5. /\ t \in Seq(S) /\ Len(t) = Len(front) + Len(back)
      /\ \A j \in 1..(Len(front) + Len(back)) :
           t[j] = IF j <= Len(front) THEN front[j] ELSE back[j - Len(front)]
  <2>1. front \in Seq(S) /\ back \in Seq(S)
    BY <1>1, <1>2
  <2>2. /\ front \o back \in Seq(S) /\ Len(front \o back) = Len(front) + Len(back)
        /\ \A j \in 1..(Len(front) + Len(back)) :
             (front \o back)[j] = IF j <= Len(front) THEN front[j] ELSE back[j - Len(front)]
    BY <2>1, ConcatProperties, Zenon
  <2> QED
    BY <1>3, <2>2, Zenon
<1>6. ASSUME NEW j \in 1..(i - 1) PROVE t[j] = s[j]
  <2>1. j \in 1..(Len(front) + Len(back)) /\ j <= Len(front)
    BY <1>1, <1>2, <1>4
  <2>2. t[j] = front[j]
    BY <1>5, <2>1, Zenon
  <2> QED
    BY <1>1, <2>2
<1>7. ASSUME NEW j \in i..(Len(s) - 1) PROVE t[j] = s[j + 1]
  <2>1. t[j] = back[j - (i - 1)]
    <3>1. j \in 1..(Len(front) + Len(back)) /\ ~(j <= Len(front))
      BY <1>1, <1>2, <1>4
    <3>2. t[j] = back[j - Len(front)]
      BY <1>5, <3>1, Zenon
    <3> QED
      BY <1>1, <3>2
  <2>2. j - (i - 1) \in 1..(Len(s) - i) /\ i + (j - (i - 1)) = j + 1
    BY <1>4
  <2> QED
    BY <1>2, <2>1, <2>2
<1>8. Len(front) + Len(back) = Len(s) - 1
  BY <1>1, <1>2, <1>4
<1> QED
  BY <1>5, <1>6, <1>7, <1>8 DEF t

LEMMA RemoveHandlerInv ==
  ASSUME TypeOK, HandlerSetOK, NEW h \in Contracts, RemoveHandler(h)
  PROVE  handlers' \in Seq(Contracts) /\ HandlerSetOK'
<1>1. CASE UNCHANGED handlers
  BY <1>1 DEF TypeOK, HandlerSetOK, Tracked, Range
<1>2. ASSUME NEW i \in 1..Len(handlers),
             handlers' = RemoveAt(handlers, i)
      PROVE  handlers' \in Seq(Contracts) /\ HandlerSetOK'
  <2>1. /\ handlers' \in Seq(Contracts) /\ Len(handlers') = Len(handlers) - 1
        /\ \A j \in 1..(i - 1) : handlers'[j] = handlers[j]
        /\ \A j \in i..(Len(handlers) - 1) : handlers'[j] = handlers[j + 1]
    <3>1. handlers \in Seq(Contracts)
      BY DEF TypeOK
    <3> QED
      BY <1>2, <3>1, WithoutEntry
  <2> DEFINE from(j) == IF j < i THEN j ELSE j + 1
  <2>2. DOMAIN handlers' = 1..(Len(handlers) - 1) /\ Len(handlers) \in Nat
    BY <2>1 DEF TypeOK
  <2>3. \A j \in 1..(Len(handlers) - 1) :
          from(j) \in 1..Len(handlers) /\ handlers'[j] = handlers[from(j)]
    BY <2>1, <2>2
  <2>4. \A j, k \in 1..(Len(handlers) - 1) : from(j) = from(k) => j = k
    BY <2>2
  <2>5. DOMAIN handlers = 1..Len(handlers)
    BY DEF TypeOK
  <2> HIDE DEF from
  <2>6. \A j, k \in DOMAIN handlers' : handlers'[j] = handlers'[k] => j = k
    BY <2>2, <2>3, <2>4, <2>5 DEF HandlerSetOK
  <2>7. \A j \in DOMAIN handlers' : handlers'[j] \in Reporting
    BY <2>2, <2>3, <2>5 DEF HandlerSetOK, Tracked, Range
  <2> QED
    BY <2>1, <2>6, <2>7 DEF HandlerSetOK, Tracked, Range
<1>3. DOMAIN handlers = 1..Len(handlers)
  BY DEF TypeOK
<1> QED
  BY <1>1, <1>2, <1>3 DEF RemoveHandler

-----------------------------------------------------------------------------
LEMMA InvInit == Init => Inv
<1> SUFFICES ASSUME Init PROVE Inv
  OBVIOUS
<1>1. Root \in Contracts \ OtherContracts
  BY DisjointAssumption DEF Contracts
<1>2. \A c \in Contracts : admin[c] \in Accounts \cup {Root}
  BY DEF Init
<1>3. admin[Root] \in Accounts
  BY <1>1 DEF Init
<1>4. TypeOK
  BY DEF Init, TypeOK, Principals
<1>5. HandlerSetOK
  BY DEF Init, HandlerSetOK, Tracked, Range
<1> QED
  BY <1>2, <1>3, <1>4, <1>5 DEF Inv, NeverLockedOut

LEMMA InvNext == Inv /\ [Next]_vars => Inv'
<1> SUFFICES ASSUME Inv, [Next]_vars PROVE Inv'
  OBVIOUS
<1> USE DEF Inv
<1>1. CASE UNCHANGED vars
  BY <1>1 DEF vars, TypeOK, NeverLockedOut, HandlerSetOK, Tracked, Range
<1>2. ASSUME NEW auth \in SUBSET Accounts, NEW c \in Contracts, Invocation(auth, c)
      PROVE  Inv'
  <2>1. /\ admin' \in [Contracts -> Principals]
        /\ pending' \in [Contracts -> Principals \cup {None}]
        /\ changed' \in Contracts \cup {None}
        /\ NeverLockedOut'
    <3>1. CASE UNCHANGED <<admin, pending>> /\ changed' = None
      BY <3>1 DEF TypeOK, NeverLockedOut
    <3>2. ASSUME NEW callers \in Callers(auth, c),
                 \/ Change(c, callers)
                 \/ \E p \in Proposable : ProposeAdmin(c, callers, p)
          PROVE  <2>1!:
      BY <3>2, DisjointAssumption DEF Change, ProposeAdmin, TypeOK, NeverLockedOut
    <3>3. ASSUME NEW callers \in Callers(auth, c), AcceptAdmin(c, callers)
          PROVE  <2>1!:
      <4>1. /\ admin' = [admin EXCEPT ![c] = pending[c]]
            /\ pending' = [pending EXCEPT ![c] = None]
            /\ changed' = None
            /\ pending[c] \in Accounts \cup {Root}
            /\ pending[c] = Root => c # Root
        BY <3>3, CallersFacts DEF AcceptAdmin
      <4>2. Root \in Contracts
        BY DEF Contracts
      <4> QED
        BY <4>1, <4>2 DEF TypeOK, NeverLockedOut, Principals
    <3> QED
      BY <1>2, <3>1, <3>2, <3>3, InvocationCases
  <2>2. handlers' \in Seq(Contracts) /\ HandlerSetOK'
    <3>1. CASE UNCHANGED handlers
      BY <3>1 DEF TypeOK, HandlerSetOK, Tracked, Range
    <3>2. CASE c \in Reporting /\ AddHandler(c)
      BY <3>2, AddHandlerInv
    <3>3. CASE RemoveHandler(c)
      BY <3>3, RemoveHandlerInv
    <3>4. ContractType(c) = "Handler" => c \in Reporting
      BY DEF ContractType
    <3> QED
      BY <1>2, <3>1, <3>2, <3>3, <3>4
      DEF Invocation, Direct, ViaRoot, ForwardToSecurity, UpgradeContract,
          ProposeContractAdmin, AcceptContractAdmin, RegisterHandler, UnregisterHandler
  <2> QED
    BY <2>1, <2>2 DEF TypeOK
<1> QED
  BY <1>1, <1>2 DEF Next

(* The state of a project's administration keeps its types. *)
THEOREM RootTypeCorrect == Spec => []TypeOK
<1>1. Inv => TypeOK
  BY DEF Inv
<1> QED
  BY <1>1, InvInit, InvNext, PTL DEF Spec

(* No contract ever gets an administrator that cannot authorize calls,     *)
(* whatever proposals are made (admin.rs accept, contract.rs proxy).       *)
THEOREM NobodyIsLockedOut == Spec => []NeverLockedOut
<1>1. Inv => NeverLockedOut
  BY DEF Inv
<1> QED
  BY <1>1, InvInit, InvNext, PTL DEF Spec

(* The tracked handlers are a set, of contracts that report this project's *)
(* Verification contract (storage.rs add_handler, ensure_our_contract).    *)
THEOREM HandlersAreASet == Spec => []HandlerSetOK
<1>1. Inv => HandlerSetOK
  BY DEF Inv
<1> QED
  BY <1>1, InvInit, InvNext, PTL DEF Spec

-----------------------------------------------------------------------------
(* Who is in control *)

LEMMA AdminIsControl ==
  ASSUME Inv, NEW auth \in SUBSET Accounts, NEW c \in Contracts,
         NEW callers \in Callers(auth, c), admin[c] \in callers
  PROVE  Controller(c) \in auth
  BY CallersFacts DEF Controller, Proxy

LEMMA AcceptIsControl ==
  ASSUME Inv, NEW auth \in SUBSET Accounts, NEW c \in Contracts,
         NEW callers \in Callers(auth, c), AcceptAdmin(c, callers)
  PROVE  admin'[c] = pending[c] /\ Controller(c)' \in auth
<1>1. /\ admin'[c] = pending[c]
      /\ \A d \in Contracts \ {c} : admin'[d] = admin[d]
      /\ pending[c] \in callers
  BY DEF AcceptAdmin, Inv, TypeOK
<1>2. CASE pending[c] = Root
  <2>1. admin[Root] \in auth /\ c # Root
    BY <1>1, <1>2, CallersFacts DEF Proxy
  <2>2. admin'[Root] = admin[Root]
    BY <1>1, <2>1 DEF Contracts
  <2> QED
    BY <1>1, <1>2, <2>1, <2>2 DEF Controller
<1>3. CASE pending[c] # Root
  <2>1. pending[c] \in auth
    BY <1>1, <1>3, CallersFacts
  <2>2. Controller(c)' = pending[c]
    BY <1>1, <1>3 DEF Controller
  <2> QED
    BY <1>1, <2>1, <2>2
<1> QED
  BY <1>2, <1>3

LEMMA ControlStep ==
  ASSUME Inv, Next, NEW c \in Contracts
  PROVE  /\ changed' = c => Needs(c, Controller(c))
         /\ pending'[c] \notin {pending[c], None} => Needs(c, Controller(c))
         /\ admin'[c] # admin[c] => admin'[c] = pending[c] /\ Needs(c, Controller(c)')
<1>1. c # None
  BY DisjointAssumption DEF Principals
<1>2. ASSUME NEW auth \in SUBSET Accounts, Invocation(auth, c),
             changed' = c \/ pending'[c] \notin {pending[c], None}
      PROVE  Controller(c) \in auth
  <2>1. PICK callers \in Callers(auth, c) :
          Change(c, callers) \/ \E p \in Proposable : ProposeAdmin(c, callers, p)
    <3>1. ASSUME NEW callers \in Callers(auth, c), AcceptAdmin(c, callers)
          PROVE  FALSE
      BY <1>1, <1>2, <3>1 DEF AcceptAdmin, Inv, TypeOK
    <3> QED
      BY <1>1, <1>2, <3>1, InvocationCases
  <2>2. admin[c] \in callers
    BY <2>1 DEF Change, ProposeAdmin
  <2> QED
    BY <2>2, AdminIsControl
<1>3. ASSUME NEW auth \in SUBSET Accounts, Invocation(auth, c), admin'[c] # admin[c]
      PROVE  Controller(c)' \in auth
  <2>1. PICK callers \in Callers(auth, c) : AcceptAdmin(c, callers)
    BY <1>3, InvocationCases DEF Change, ProposeAdmin
  <2> QED
    BY <2>1, AcceptIsControl
<1>4. ASSUME admin'[c] # admin[c]
      PROVE  admin'[c] = pending[c]
  <2>1. PICK auth \in SUBSET Accounts, d \in Contracts : Invocation(auth, d)
    BY DEF Next
  <2>2. PICK callers \in Callers(auth, d) : AcceptAdmin(d, callers)
    BY <1>4, <2>1, InvocationCases DEF Change, ProposeAdmin
  <2>3. c = d
    BY <1>4, <2>2 DEF AcceptAdmin, Inv, TypeOK
  <2> QED
    BY <2>2, <2>3, AcceptIsControl
<1> QED
  BY <1>2, <1>3, <1>4 DEF Needs

(* Nobody but the account in control of a contract changes it or proposes  *)
(* its administrator, directly or through proxy, and only a proposed       *)
(* administrator that agrees takes over (admin.rs, contract.rs proxy).     *)
THEOREM ControlIsRespected == Spec => OnlyInControl
<1>1. Inv /\ [Next]_vars =>
        [\A c \in Contracts :
           /\ changed' = c => Needs(c, Controller(c))
           /\ pending'[c] \notin {pending[c], None} => Needs(c, Controller(c))
           /\ admin'[c] # admin[c] => admin'[c] = pending[c] /\ Needs(c, Controller(c)')]_vars
  BY ControlStep
<1> QED
  BY <1>1, InvInit, InvNext, PTL DEF Spec, OnlyInControl

LEMMA TakeOverStep ==
  ASSUME Inv, Next, NEW h \in Reporting, admin[h] # Root, admin'[h] = Root
  PROVE  h \in Tracked'
<1>1. h \in Contracts /\ h \in OtherContracts
  BY ReportingAssumption DEF Contracts
<1>2. PICK auth \in SUBSET Accounts, d \in Contracts : Invocation(auth, d)
  BY DEF Next
<1>3. PICK callers \in Callers(auth, d) : AcceptAdmin(d, callers)
  BY <1>1, <1>2, InvocationCases DEF Change, ProposeAdmin
<1>4. d = h
  BY <1>1, <1>3 DEF AcceptAdmin, Inv, TypeOK
<1>5. Root \notin Accounts
  BY DisjointAssumption DEF Contracts
<1>6. ASSUME Direct(d, auth) PROVE FALSE
  BY <1>1, <1>4, <1>5, <1>6 DEF Direct, Change, ProposeAdmin, AcceptAdmin, Inv, TypeOK
<1>7. AcceptContractAdmin(auth, h)
  BY <1>1, <1>2, <1>4, <1>6
  DEF Invocation, ViaRoot, ForwardToSecurity, UpgradeContract, ProposeContractAdmin,
      RegisterHandler, UnregisterHandler, Change, ProposeAdmin
<1>8. AddHandler(h)
  BY <1>1, <1>7, DisjointAssumption DEF AcceptContractAdmin, ContractType
<1>9. CASE h \in Tracked
  BY <1>8, <1>9 DEF AddHandler, Tracked
<1>10. CASE h \notin Tracked
  <2>1. handlers' = Append(handlers, h)
    BY <1>8, <1>10 DEF AddHandler
  <2>2. Len(handlers) + 1 \in DOMAIN handlers' /\ handlers'[Len(handlers) + 1] = h
    BY <1>1, <2>1 DEF Inv, TypeOK
  <2> QED
    BY <2>2 DEF Tracked, Range
<1> QED
  BY <1>9, <1>10

(* A handler the Project Root takes over is tracked from that step on      *)
(* (contract.rs accept_contract_admin).                                    *)
THEOREM TakeOverIsRecorded == Spec => TakenOverIsTracked
<1>1. Inv /\ [Next]_vars =>
        [\A h \in Reporting : admin[h] # Root /\ admin'[h] = Root => h \in Tracked']_vars
  BY TakeOverStep
<1> QED
  BY <1>1, InvInit, InvNext, PTL DEF Spec, TakenOverIsTracked
=============================================================================
