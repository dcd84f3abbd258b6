-------------------------- MODULE EntitlementProofs --------------------------
(***************************************************************************)
(* One open entitlement, expiry that is due, licences that follow, bounded *)
(* trials and paid time that is kept, for any number of requests and rows, *)
(* any terms and any bound on the clock.                                   *)
(***************************************************************************)
EXTENDS Entitlement, FiniteSetTheorems, TLAPS

-----------------------------------------------------------------------------
(* What each step does to the requests.                                      *)

OpTypeOK == op \in [Requests -> Op]

Syncing == {"expired", "suspended", "revoked"}

LEMMA RequestFields ==
  ASSUME NEW k, NEW r, NEW t, NEW l, NEW b, NEW d
  PROVE  /\ Request(k, r, t, l, b, d).kind = k /\ Request(k, r, t, l, b, d).row = r
         /\ Request(k, r, t, l, b, d).until = t /\ Request(k, r, t, l, b, d).lapsed = l
         /\ Request(k, r, t, l, b, d).provision = b /\ Request(k, r, t, l, b, d).trial = d
BY DEF Request

LEMMA RequestType ==
  ASSUME NEW k \in OpKinds, NEW r \in Rows \cup {NoRow}, NEW t \in 0 .. Forever,
         NEW l \in SUBSET Rows, NEW b \in BOOLEAN, NEW d \in BOOLEAN
  PROVE  Request(k, r, t, l, b, d) \in Op
BY DEF Request, Op

LEMMA IdleFields ==
  /\ Idle \in Op
  /\ Idle.kind = "idle" /\ Idle.row = NoRow /\ Idle.lapsed = {} /\ Idle.trial = FALSE
<1>1. "idle" \in OpKinds /\ NoRow \in Rows \cup {NoRow} /\ 0 \in 0 .. Forever
      /\ {} \in SUBSET Rows /\ FALSE \in BOOLEAN
  BY EntitlementAssumption DEF OpKinds, Forever
<1> QED
  BY <1>1 DEF Idle, Request, Op

LEMMA ReturnsFields ==
  ASSUME OpTypeOK, NEW p \in Requests, Returns(p)
  PROVE  /\ op' \in [Requests -> Op]
         /\ \A q \in Requests \ {p} : op'[q] = op[q]
         /\ op'[p] = Idle
BY IdleFields DEF OpTypeOK, Returns

(* A new expiry is a date in bounds or none, and no earlier than the date    *)
(* of an active row.                                                         *)
LEMMA NextExpiryType ==
  ASSUME EntitlementTypeOK, NEW r \in Rows \cup {NoRow}, NEW term \in Terms, InBounds(r, term)
  PROVE  NextExpiresAt(r, term) \in 0 .. Forever
<1>1. term \in Nat /\ now \in Nat /\ MaxUntil \in Nat /\ Forever \in Nat
  BY EntitlementAssumption DEF EntitlementTypeOK, Forever
<1>2. RunsOn(r) => until[r] \in Nat
  BY <1>1 DEF RunsOn, EntitlementTypeOK
<1>3. CASE term = NoTerm
  BY <1>1, <1>3 DEF NextExpiresAt, TermFromNow
<1>4. CASE term # NoTerm
  <2>1. NextExpiresAt(r, term) \in Nat
    BY <1>1, <1>2, <1>4 DEF NextExpiresAt, TermFromNow
  <2>2. NextExpiresAt(r, term) <= MaxUntil
    BY <1>4 DEF InBounds
  <2> QED
    BY <1>1, <2>1, <2>2 DEF Forever
<1> QED
  BY <1>3, <1>4

LEMMA NextExpiryGrows ==
  ASSUME EntitlementTypeOK, NEW r \in Rows, NEW term \in Terms,
         status[r] = "active", until[r] # Forever
  PROVE  NextExpiresAt(r, term) >= until[r]
<1>1. /\ now \in Nat /\ until[r] \in Nat /\ term \in Nat /\ r # NoRow
      /\ until[r] <= Forever /\ Forever \in Nat
  BY EntitlementAssumption DEF EntitlementTypeOK, Forever, Rows, NoRow
<1> QED
  BY <1>1 DEF NextExpiresAt, TermFromNow, RunsOn

LEMMA GrantReadFields ==
  ASSUME EntitlementTypeOK, NEW p \in Requests, NEW explicit \in BOOLEAN, GrantRead(p, explicit)
  PROVE  \E r \in Rows \cup {NoRow}, next \in 0 .. Forever :
           /\ IF r = NoRow THEN OpenRows = {} /\ Existing # Rows ELSE r \in OpenRows
           /\ ~explicit => \E term \in Terms : next = NextExpiresAt(r, term)
           /\ op' \in [Requests -> Op]
           /\ \A q \in Requests \ {p} : op'[q] = op[q]
           /\ op'[p] = Request("grant", r, next, {}, explicit \/ op[p].trial, op[p].trial)
           /\ disturbed' = IF r # NoRow /\ explicit THEN disturbed \cup {r} ELSE disturbed
<1>1. PICK next \in 0 .. Forever, r \in IF OpenRows = {} THEN {NoRow} ELSE OpenRows :
        /\ IF explicit THEN next \in Named
           ELSE \E term \in Terms : InBounds(r, term) /\ next = NextExpiresAt(r, term)
        /\ r = NoRow => Existing # Rows
        /\ op' = [op EXCEPT ![p] =
                    Request("grant", r, next, {}, explicit \/ op[p].trial, op[p].trial)]
        /\ disturbed' = IF r # NoRow /\ explicit THEN disturbed \cup {r} ELSE disturbed
  BY DEF GrantRead
<1>2. r \in Rows \cup {NoRow} /\ OpenRows \subseteq Rows
  BY DEF OpenRows
<1>5. NoRow \notin Rows
  BY EntitlementAssumption DEF NoRow, Rows
<1>6. op[p].trial \in BOOLEAN /\ "grant" \in OpKinds /\ {} \in SUBSET Rows
  BY DEF EntitlementTypeOK, Op, OpKinds
<1>7. (explicit \/ op[p].trial) \in BOOLEAN
  BY <1>6
<1>8. Request("grant", r, next, {}, explicit \/ op[p].trial, op[p].trial) \in Op
  BY <1>2, <1>6, <1>7, RequestType
<1>9. /\ op' \in [Requests -> Op]
      /\ \A q \in Requests \ {p} : op'[q] = op[q]
      /\ op'[p] = Request("grant", r, next, {}, explicit \/ op[p].trial, op[p].trial)
  BY <1>1, <1>8 DEF EntitlementTypeOK
<1>10. IF r = NoRow THEN OpenRows = {} /\ Existing # Rows ELSE r \in OpenRows
  BY <1>1, <1>2, <1>5
<1> QED
  BY <1>1, <1>2, <1>9, <1>10

LEMMA ResolveFields ==
  ASSUME EntitlementTypeOK, NEW p \in Requests, Resolve(p)
  PROVE  \E early \in SUBSET deferred, lapsed \in SUBSET Rows :
           /\ lapsed = {r \in Rows : Lapsed(r, early)}
           /\ op' \in [Requests -> Op]
           /\ \A q \in Requests \ {p} : op'[q] = op[q]
           /\ op[p] = Idle
           /\ op'[p] = Request("resolve", NoRow, 0, lapsed, FALSE, FALSE)
<1>1. PICK early \in SUBSET deferred, lapsed \in SUBSET Rows :
        /\ lapsed = {r \in Rows : Lapsed(r, early)}
        /\ Starts(p, Request("resolve", NoRow, 0, lapsed, FALSE, FALSE))
  BY DEF Resolve
<1>2. "resolve" \in OpKinds /\ NoRow \in Rows \cup {NoRow} /\ 0 \in 0 .. Forever
      /\ FALSE \in BOOLEAN
  BY EntitlementAssumption DEF OpKinds, Reading, Forever
<1>3. Request("resolve", NoRow, 0, lapsed, FALSE, FALSE) \in Op
  BY <1>2, RequestType
<1> QED
  BY <1>1, <1>3 DEF Starts, EntitlementTypeOK

LEMMA FindNoneFields ==
  ASSUME EntitlementTypeOK, NEW p \in Requests, FindNone(p)
  PROVE  /\ op' \in [Requests -> Op]
         /\ \A q \in Requests \ {p} : op'[q] = op[q]
         /\ op[p] = Idle
         /\ op'[p] = Request("trial", NoRow, 0, {}, FALSE, TRUE)
         /\ op'[p].kind = "trial" /\ op'[p].lapsed = {}
<1>1. "trial" \in OpKinds /\ NoRow \in Rows \cup {NoRow} /\ 0 \in 0 .. Forever
      /\ {} \in SUBSET Rows /\ FALSE \in BOOLEAN /\ TRUE \in BOOLEAN
  BY EntitlementAssumption DEF OpKinds, Forever
<1>2. Request("trial", NoRow, 0, {}, FALSE, TRUE) \in Op
  BY <1>1, RequestType
<1> QED
  BY <1>2 DEF Request, FindNone, Starts, EntitlementTypeOK

LEMMA StartsFields ==
  ASSUME EntitlementTypeOK, NEW p \in Requests, NEW r \in Rows,
           NEW k \in {"suspended", "revoked", "renew"},
         NEW t \in 0 .. Forever, Starts(p, Request(k, r, t, {}, FALSE, FALSE))
  PROVE  /\ op' \in [Requests -> Op]
         /\ \A q \in Requests \ {p} : op'[q] = op[q]
         /\ op[p] = Idle
         /\ op'[p] = Request(k, r, t, {}, FALSE, FALSE)
<1>1. k \in OpKinds /\ r \in Rows \cup {NoRow} /\ {} \in SUBSET Rows /\ FALSE \in BOOLEAN
  BY DEF OpKinds
<1>2. Request(k, r, t, {}, FALSE, FALSE) \in Op
  BY <1>1, RequestType
<1> QED
  BY <1>2 DEF Starts, EntitlementTypeOK

LEMMA RenewReadFields ==
  ASSUME EntitlementTypeOK, NEW p \in Requests, NEW r \in Rows, NEW term \in Terms,
         RenewRead(p, r, term)
  PROVE  /\ NextExpiresAt(r, term) \in 0 .. Forever
         /\ op' \in [Requests -> Op]
         /\ \A q \in Requests \ {p} : op'[q] = op[q]
         /\ op[p] = Idle
         /\ op'[p] = Request("renew", r, NextExpiresAt(r, term), {}, FALSE, FALSE)
<1>1. NextExpiresAt(r, term) \in 0 .. Forever
  BY NextExpiryType DEF RenewRead
<1> QED
  BY <1>1, StartsFields DEF RenewRead

LEMMA SuspendFields ==
  ASSUME EntitlementTypeOK, NEW p \in Requests, NEW r \in Rows, Suspend(p, r) \/ Revoke(p, r)
  PROVE  \E k \in {"suspended", "revoked"} :
           /\ op' \in [Requests -> Op]
           /\ \A q \in Requests \ {p} : op'[q] = op[q]
           /\ op[p] = Idle
           /\ op'[p] = Request(k, r, 0, {}, FALSE, FALSE)
           /\ status' = [status EXCEPT ![r] = k]
<1>1. 0 \in 0 .. Forever
  BY EntitlementAssumption DEF Forever
<1>2. CASE Suspend(p, r)
  BY <1>1, <1>2, StartsFields DEF Suspend
<1>3. CASE Revoke(p, r)
  BY <1>1, <1>3, StartsFields DEF Revoke
<1> QED
  BY <1>2, <1>3

LEMMA ExpireRowFields ==
  ASSUME EntitlementTypeOK, NEW p \in Requests, NEW r \in Rows, ExpireRow(p, r)
  PROVE  /\ op' \in [Requests -> Op]
         /\ \A q \in Requests \ {p} : op'[q] = op[q]
         /\ op'[p].kind = "expired" /\ op'[p].row = r
         /\ op'[p].lapsed = op[p].lapsed \ {r}
         /\ op'[p].trial = op[p].trial
<1> DEFINE o == [op[p] EXCEPT !.kind = "expired", !.row = r, !.lapsed = op[p].lapsed \ {r}]
<1>1. o \in Op
  <2>1. op[p] \in Op /\ "expired" \in OpKinds /\ r \in Rows \cup {NoRow}
        /\ op[p].lapsed \ {r} \in SUBSET Rows
    BY DEF EntitlementTypeOK, Op, OpKinds, Reading
  <2> QED
    BY <2>1 DEF Op
<1>2. op' = [op EXCEPT ![p] = o]
  BY DEF ExpireRow
<1>3. o.kind = "expired" /\ o.row = r /\ o.lapsed = op[p].lapsed \ {r} /\ o.trial = op[p].trial
  BY DEF EntitlementTypeOK, Op
<1> HIDE DEF o
<1> QED
  BY <1>1, <1>2, <1>3 DEF EntitlementTypeOK

LEMMA SyncLicenceFields ==
  ASSUME EntitlementTypeOK, NEW p \in Requests, SyncLicence(p)
  PROVE  /\ op' \in [Requests -> Op]
         /\ \A q \in Requests \ {p} : op'[q] = op[q]
         /\ \/ op'[p] = Idle
            \/ /\ op'[p].kind = "resolve" /\ op'[p].row = NoRow
               /\ op'[p].lapsed = op[p].lapsed /\ op'[p].trial = op[p].trial
<1>1. CASE op[p].lapsed # {}
  <2> DEFINE o == [op[p] EXCEPT !.kind = "resolve", !.row = NoRow]
  <2>1. o \in Op
    <3>1. op[p] \in Op /\ "resolve" \in OpKinds /\ NoRow \in Rows \cup {NoRow}
      BY DEF EntitlementTypeOK, OpKinds, Reading
    <3> QED
      BY <3>1 DEF Op
  <2>2. op' = [op EXCEPT ![p] = o]
    BY <1>1 DEF SyncLicence
  <2>3. o.kind = "resolve" /\ o.row = NoRow /\ o.lapsed = op[p].lapsed /\ o.trial = op[p].trial
    BY DEF EntitlementTypeOK, Op
  <2> HIDE DEF o
  <2> QED
    BY <1>1, <2>1, <2>2, <2>3 DEF EntitlementTypeOK
<1>2. CASE op[p].lapsed = {}
  BY <1>2, ReturnsFields DEF SyncLicence, OpTypeOK, EntitlementTypeOK
<1> QED
  BY <1>1, <1>2
-----------------------------------------------------------------------------
(* Types, and the rows.                                                      *)

(* Rows are numbered as they are inserted; a request works on rows that      *)
(* exist; a grant that found none will insert one, and grants take turns.    *)
RowsInv ==
  /\ Existing = 1 .. Cardinality(Existing)
  /\ \A p \in Requests :
       /\ op[p].kind \in Syncing \cup {"renew"} => op[p].row \in Existing
       /\ op[p].lapsed \subseteq Existing
       /\ op[p].kind = "grant" => /\ op[p].row \in Existing \cup {NoRow}
                                  /\ op[p].row = NoRow => Existing # Rows
  /\ \A p, q \in Requests : op[p].kind = "grant" /\ op[q].kind = "grant" => p = q

GrantedRow(p) == IF op[p].row = NoRow THEN Cardinality(Existing) + 1 ELSE op[p].row

LEMMA ExistingIsFinite == IsFiniteSet(Existing) /\ Cardinality(Existing) \in Nat
<1>1. IsFiniteSet(Rows)
  BY FS_Interval, EntitlementAssumption DEF Rows
<1>2. Existing \subseteq Rows
  BY DEF Existing
<1> QED
  BY <1>1, <1>2, FS_Subset, FS_CardinalityType

LEMMA GrantedRowIs ==
  ASSUME EntitlementTypeOK, RowsInv, NEW p \in Requests, op[p].kind = "grant"
  PROVE  /\ GrantedRow(p) \in Rows
         /\ op[p].row # NoRow => GrantedRow(p) = op[p].row /\ GrantedRow(p) \in Existing
         /\ op[p].row = NoRow => GrantedRow(p) \notin Existing
<1> DEFINE n == Cardinality(Existing)
<1>1. n \in Nat /\ Existing = 1 .. n /\ Existing \subseteq Rows /\ MaxRows \in Nat
  BY ExistingIsFinite, EntitlementAssumption DEF RowsInv, Existing
<1>2. CASE op[p].row # NoRow
  BY <1>1, <1>2 DEF RowsInv, GrantedRow
<1>3. CASE op[p].row = NoRow
  <2> HIDE DEF n
  <2>1. n <= MaxRows
    <3>1. CASE n = 0
      BY <1>1, <3>1
    <3>2. CASE n # 0
      <4>1. n \in 1 .. n
        BY <1>1, <3>2
      <4> QED
        BY <1>1, <4>1 DEF Rows
    <3> QED
      BY <3>1, <3>2
  <2>2. n # MaxRows
    BY <1>1, <1>3 DEF RowsInv, Rows
  <2>3. n + 1 \in Rows /\ n + 1 \notin Existing
    BY <1>1, <2>1, <2>2 DEF Rows
  <2>4. GrantedRow(p) = n + 1
    BY <1>3 DEF GrantedRow, n
  <2> QED
    BY <1>3, <2>3, <2>4
<1> QED
  BY <1>2, <1>3

LEMMA GrantCommitFields ==
  ASSUME EntitlementTypeOK, RowsInv, NEW p \in Requests, GrantCommit(p)
  PROVE  LET r == GrantedRow(p) IN
         /\ op[p].kind = "grant" /\ r \in Rows
         /\ status' = [status EXCEPT ![r] = "active"]
         /\ until' = [until EXCEPT ![r] = op[p].until]
         /\ licence' = [licence EXCEPT ![r] = IF op[p].provision THEN "active" ELSE licence[r]]
         /\ Writes(p, r)
         /\ op' \in [Requests -> Op]
         /\ \A q \in Requests \ {p} : op'[q] = op[q]
         /\ op'[p] = Idle
<1>1. op[p].kind = "grant"
  BY DEF GrantCommit
<1>2. GrantedRow(p) \in Rows
  BY <1>1, GrantedRowIs
<1>3. OpTypeOK /\ Returns(p)
  BY DEF EntitlementTypeOK, OpTypeOK, GrantCommit
<1> QED
  BY <1>1, <1>2, <1>3, ReturnsFields DEF GrantCommit, GrantedRow

(* Every step but a grant's insertion keeps the rows there are.              *)
LEMMA ExistingStep ==
  ASSUME EntitlementTypeOK, RowsInv, [Next]_vars
  PROVE  \/ Existing' = Existing
         \/ \E p \in Requests : /\ GrantCommit(p) /\ op[p].row = NoRow
                                /\ Existing' = Existing \cup {GrantedRow(p)}
<1> USE DEF rowVars
<1>1. ASSUME NEW p \in Requests, GrantCommit(p)
      PROVE  Existing' = Existing \cup {GrantedRow(p)}
  BY <1>1, GrantCommitFields DEF Existing, EntitlementTypeOK
<1>2. ASSUME NEW p \in Requests, NEW r \in Rows, Suspend(p, r) \/ Revoke(p, r)
      PROVE  Existing' = Existing
  <2>1. r \in Existing
    BY <1>2 DEF Suspend, Revoke
  <2>2. PICK k \in {"suspended", "revoked"} : status' = [status EXCEPT ![r] = k]
    BY <1>2, SuspendFields
  <2> QED
    BY <2>1, <2>2 DEF Existing, EntitlementTypeOK
<1>3. ASSUME NEW p \in Requests, NEW r \in Rows, ExpireRow(p, r) PROVE Existing' = Existing
  <2>1. r \in Existing
    BY <1>3 DEF ExpireRow, RowsInv
  <2> QED
    BY <1>3, <2>1 DEF ExpireRow, Existing, EntitlementTypeOK
<1>4. ASSUME status' = status PROVE Existing' = Existing
  BY <1>4 DEF Existing
<1>5. ASSUME NEW p \in Requests, GrantCommit(p), op[p].row # NoRow PROVE Existing' = Existing
  <2>1. GrantedRow(p) \in Existing
    BY <1>5, GrantCommitFields, GrantedRowIs
  <2> QED
    BY <1>1, <1>5, <2>1
<1> QED
  BY <1>1, <1>2, <1>3, <1>4, <1>5
  DEF Next, vars, GrantRead, Resolve, RenewRead, FindNone, SyncLicence, RenewWrite, Crash,
      ProvisionLicence, ReissueLicence, Tick

(* A request that moves, and what it may hold afterwards                     *)
LEMMA OpStep ==
  ASSUME EntitlementTypeOK, RowsInv, [Next]_vars
  PROVE  \/ op' = op
         \/ \E p \in Requests :
              /\ op' \in [Requests -> Op]
              /\ \A q \in Requests \ {p} : op'[q] = op[q]
              /\ op'[p].lapsed \subseteq op[p].lapsed \cup Existing
              /\ op'[p].kind \in Syncing \cup {"renew"} => op'[p].row \in Existing
              /\ op'[p].kind = "grant" => /\ Unlocked
                                          /\ op'[p].row \in Existing \cup {NoRow}
                                          /\ op'[p].row = NoRow => Existing # Rows
<1>0. OpTypeOK
  BY DEF EntitlementTypeOK, OpTypeOK
<1>1. ASSUME NEW p \in Requests, NEW explicit \in BOOLEAN, GrantRead(p, explicit)
      PROVE  /\ op' \in [Requests -> Op]
             /\ \A q \in Requests \ {p} : op'[q] = op[q]
             /\ op'[p].lapsed = {} /\ op'[p].kind = "grant" /\ Unlocked
             /\ op'[p].row \in Existing \cup {NoRow}
             /\ op'[p].row = NoRow => Existing # Rows
  <2>1. PICK r \in Rows \cup {NoRow}, next \in 0 .. Forever :
          /\ IF r = NoRow THEN OpenRows = {} /\ Existing # Rows ELSE r \in OpenRows
          /\ op' \in [Requests -> Op]
          /\ \A q \in Requests \ {p} : op'[q] = op[q]
          /\ op'[p] = Request("grant", r, next, {}, explicit \/ op[p].trial, op[p].trial)
    BY <1>1, GrantReadFields
  <2>2. OpenRows \subseteq Existing
    BY DEF OpenRows, Existing, IsOpen
  <2>3. op'[p].kind = "grant" /\ op'[p].lapsed = {} /\ op'[p].row = r
    BY <2>1, RequestFields
  <2> QED
    BY <1>1, <2>1, <2>2, <2>3 DEF GrantRead
<1>2. ASSUME NEW p \in Requests, op' \in [Requests -> Op], \A q \in Requests \ {p} : op'[q] = op[q],
             op'[p] = Idle
      PROVE  op'[p].lapsed = {} /\ op'[p].kind = "idle"
  BY <1>2, IdleFields
<1>3. ASSUME NEW p \in Requests, Resolve(p)
      PROVE  /\ op' \in [Requests -> Op]
             /\ \A q \in Requests \ {p} : op'[q] = op[q]
             /\ op'[p].lapsed \subseteq Existing /\ op'[p].kind = "resolve"
  <2>1. PICK early \in SUBSET deferred, lapsed \in SUBSET Rows :
          /\ lapsed = {r \in Rows : Lapsed(r, early)}
          /\ op' \in [Requests -> Op]
          /\ \A q \in Requests \ {p} : op'[q] = op[q]
          /\ op'[p] = Request("resolve", NoRow, 0, lapsed, FALSE, FALSE)
    BY <1>3, ResolveFields
  <2>2. lapsed \subseteq Existing
    BY <2>1 DEF Lapsed, Existing
  <2>3. op'[p].lapsed = lapsed /\ op'[p].kind = "resolve"
    BY <2>1 DEF Request
  <2> QED
    BY <2>1, <2>2, <2>3
<1>4. ASSUME NEW p \in Requests, NEW r \in Rows, ExpireRow(p, r)
      PROVE  /\ op' \in [Requests -> Op]
             /\ \A q \in Requests \ {p} : op'[q] = op[q]
             /\ op'[p].lapsed \subseteq op[p].lapsed /\ op'[p].kind = "expired"
                  /\ op'[p].row \in Existing
  <2>1. r \in Existing
    BY <1>4 DEF ExpireRow, RowsInv
  <2> QED
    BY <1>4, <2>1, ExpireRowFields
<1>5. ASSUME NEW p \in Requests, NEW r \in Rows, Suspend(p, r) \/ Revoke(p, r)
      PROVE  /\ op' \in [Requests -> Op]
             /\ \A q \in Requests \ {p} : op'[q] = op[q]
             /\ op'[p].lapsed = {} /\ op'[p].kind # "grant" /\ op'[p].row \in Existing
  <2>1. r \in Existing
    BY <1>5 DEF Suspend, Revoke
  <2>2. PICK k \in {"suspended", "revoked"} :
          /\ op' \in [Requests -> Op]
          /\ \A q \in Requests \ {p} : op'[q] = op[q]
          /\ op'[p] = Request(k, r, 0, {}, FALSE, FALSE)
    BY <1>5, SuspendFields
  <2> QED
    BY <2>1, <2>2 DEF Request
<1>6. ASSUME NEW p \in Requests, NEW r \in Rows, NEW term \in Terms, RenewRead(p, r, term)
      PROVE  /\ op' \in [Requests -> Op]
             /\ \A q \in Requests \ {p} : op'[q] = op[q]
             /\ op'[p].lapsed = {} /\ op'[p].kind = "renew" /\ op'[p].row \in Existing
  <2>1. r \in Existing
    BY <1>6 DEF RenewRead
  <2>2. /\ op' \in [Requests -> Op]
        /\ \A q \in Requests \ {p} : op'[q] = op[q]
        /\ op'[p] = Request("renew", r, NextExpiresAt(r, term), {}, FALSE, FALSE)
    BY <1>6, RenewReadFields
  <2> QED
    BY <2>1, <2>2 DEF Request
<1>7. ASSUME NEW p \in Requests, FindNone(p)
      PROVE  /\ op' \in [Requests -> Op]
             /\ \A q \in Requests \ {p} : op'[q] = op[q]
             /\ op'[p].lapsed = {} /\ op'[p].kind \notin Syncing \cup {"renew", "grant"}
  BY <1>7, FindNoneFields DEF Syncing
<1>8. ASSUME NEW p \in Requests, SyncLicence(p)
      PROVE  /\ op' \in [Requests -> Op]
             /\ \A q \in Requests \ {p} : op'[q] = op[q]
             /\ op'[p].lapsed \subseteq op[p].lapsed
             /\ op'[p].kind \notin Syncing \cup {"renew", "grant"}
  BY <1>2, <1>8, SyncLicenceFields, IdleFields DEF Syncing
<1>9. ASSUME NEW p \in Requests, RenewWrite(p) \/ Crash(p) \/ GrantCommit(p)
      PROVE  /\ op' \in [Requests -> Op]
             /\ \A q \in Requests \ {p} : op'[q] = op[q]
             /\ op'[p].lapsed = {} /\ op'[p].kind \notin Syncing \cup {"renew", "grant"}
  <2>1. Returns(p)
    BY <1>9 DEF RenewWrite, Crash, GrantCommit
  <2> QED
    BY <1>0, <2>1, ReturnsFields, IdleFields DEF Syncing
<1> QED
  BY <1>1, <1>3, <1>4, <1>5, <1>6, <1>7, <1>8, <1>9
  DEF Next, vars, ProvisionLicence, ReissueLicence, Tick, Syncing

LEMMA RowsStep == EntitlementTypeOK /\ RowsInv /\ [Next]_vars => RowsInv'
<1> SUFFICES ASSUME EntitlementTypeOK, RowsInv, [Next]_vars PROVE RowsInv'
  OBVIOUS
<1>1. Existing \subseteq Existing'
  BY ExistingStep
<1>2. Existing' = 1 .. Cardinality(Existing')
  <2>1. CASE Existing' = Existing
    BY <2>1 DEF RowsInv
  <2>2. ASSUME NEW p \in Requests, GrantCommit(p), op[p].row = NoRow,
               Existing' = Existing \cup {GrantedRow(p)}
        PROVE  Existing' = 1 .. Cardinality(Existing')
    <3> DEFINE n == Cardinality(Existing)
    <3>1. GrantedRow(p) = n + 1 /\ GrantedRow(p) \notin Existing
      BY <2>2, GrantedRowIs DEF GrantCommit, GrantedRow
    <3>2. Cardinality(Existing') = n + 1 /\ n \in Nat
      BY <2>2, <3>1, ExistingIsFinite, FS_AddElement
    <3>3. Existing = 1 .. n
      BY DEF RowsInv
    <3> HIDE DEF n
    <3>4. (1 .. n) \cup {n + 1} = 1 .. (n + 1)
      BY <3>2
    <3> QED
      BY <2>2, <3>1, <3>2, <3>3, <3>4
  <2> QED
    BY <2>1, <2>2, ExistingStep
<1>3. Existing' # Existing => \E p \in Requests : op[p].kind = "grant" /\ op'[p].kind = "idle"
  <2>1. ASSUME NEW p \in Requests, GrantCommit(p) PROVE op[p].kind = "grant" /\ op'[p].kind = "idle"
    BY <2>1, GrantCommitFields, IdleFields
  <2> QED
    BY <2>1, ExistingStep
<1>4. CASE op' = op
  BY <1>1, <1>2, <1>3, <1>4 DEF RowsInv
<1>5. ASSUME NEW p \in Requests,
             \A q \in Requests \ {p} : op'[q] = op[q],
             op'[p].lapsed \subseteq op[p].lapsed \cup Existing,
             op'[p].kind \in Syncing \cup {"renew"} => op'[p].row \in Existing,
             op'[p].kind = "grant" => /\ Unlocked
                                      /\ op'[p].row \in Existing \cup {NoRow}
                                      /\ op'[p].row = NoRow => Existing # Rows
      PROVE  RowsInv'
  <2>1. \A q, r \in Requests : op'[q].kind = "grant" /\ op'[r].kind = "grant" => q = r
    BY <1>5 DEF RowsInv, Unlocked
  <2>2. \A q \in Requests : op'[q].kind = "grant" => Existing' = Existing
    BY <1>3, <1>5 DEF RowsInv, Unlocked
  <2>3. ASSUME NEW q \in Requests
        PROVE  /\ op'[q].kind \in Syncing \cup {"renew"} => op'[q].row \in Existing'
               /\ op'[q].lapsed \subseteq Existing'
               /\ op'[q].kind = "grant" => /\ op'[q].row \in Existing' \cup {NoRow}
                                           /\ op'[q].row = NoRow => Existing' # Rows
    BY <1>1, <1>5, <2>2 DEF RowsInv
  <2> QED
    BY <1>2, <2>1, <2>3 DEF RowsInv
<1> QED
  BY <1>4, <1>5, OpStep
LEMMA DisturbedStep ==
  EntitlementTypeOK /\ RowsInv /\ [Next]_vars => disturbed \subseteq disturbed'
    /\ disturbed' \subseteq Rows
<1> SUFFICES ASSUME EntitlementTypeOK, RowsInv, [Next]_vars
             PROVE  disturbed \subseteq disturbed' /\ disturbed' \subseteq Rows
  OBVIOUS
<1>0. disturbed \subseteq Rows
  BY DEF EntitlementTypeOK
<1>1. ASSUME NEW p \in Requests, NEW r \in Rows, Writes(p, r) \/ WritesUnseen(p, r)
      PROVE  disturbed \subseteq disturbed' /\ disturbed' \subseteq Rows
  BY <1>0, <1>1 DEF Writes, WritesUnseen
<1>2. ASSUME NEW p \in Requests, NEW explicit \in BOOLEAN, GrantRead(p, explicit)
      PROVE  disturbed \subseteq disturbed' /\ disturbed' \subseteq Rows
  <2>1. \E r \in Rows \cup {NoRow} :
          disturbed' = IF r # NoRow /\ explicit THEN disturbed \cup {r} ELSE disturbed
    BY <1>2, GrantReadFields
  <2> QED
    BY <1>0, <2>1
<1>3. ASSUME NEW p \in Requests, GrantCommit(p)
      PROVE  disturbed \subseteq disturbed' /\ disturbed' \subseteq Rows
  BY <1>1, <1>3, GrantCommitFields
<1>4. ASSUME NEW p \in Requests, SyncLicence(p) \/ RenewWrite(p)
      PROVE  disturbed \subseteq disturbed' /\ disturbed' \subseteq Rows
  <2>1. op[p].row \in Rows
    BY <1>4 DEF SyncLicence, RenewWrite, RowsInv, Syncing, Existing
  <2> QED
    BY <1>1, <1>4, <2>1 DEF SyncLicence, RenewWrite
<1>5. ASSUME NEW p \in Requests, Crash(p)
      PROVE  disturbed \subseteq disturbed' /\ disturbed' \subseteq Rows
  <2>1. op[p].kind \in Syncing => op[p].row \in Rows
    BY DEF RowsInv, Existing
  <2> QED
    BY <1>0, <1>5, <2>1 DEF Crash, Syncing
<1>6. ASSUME NEW p \in Requests, NEW r \in Rows, ExpireRow(p, r) \/ Suspend(p, r) \/ Revoke(p, r)
      PROVE  disturbed \subseteq disturbed' /\ disturbed' \subseteq Rows
  BY <1>1, <1>6 DEF ExpireRow, Suspend, Revoke
<1>7. ASSUME NEW r \in Rows, ProvisionLicence(r) \/ ReissueLicence(r)
      PROVE  disturbed \subseteq disturbed' /\ disturbed' \subseteq Rows
  BY <1>0, <1>7 DEF ProvisionLicence, ReissueLicence
<1> QED
  BY <1>0, <1>2, <1>3, <1>4, <1>5, <1>6, <1>7
  DEF Next, vars, Resolve, RenewRead, FindNone, Tick

(* Only an insertion defers a row.                                           *)
LEMMA DeferredStep ==
  EntitlementTypeOK /\ RowsInv /\ [Next]_vars => deferred \subseteq deferred'
    /\ deferred' \subseteq Rows
<1> SUFFICES ASSUME EntitlementTypeOK, RowsInv, [Next]_vars
             PROVE  deferred \subseteq deferred' /\ deferred' \subseteq Rows
  OBVIOUS
<1>1. deferred \subseteq Rows
  BY DEF EntitlementTypeOK
<1>2. ASSUME NEW p \in Requests, GrantCommit(p)
      PROVE  deferred \subseteq deferred' /\ deferred' \subseteq Rows
  <2>1. GrantedRow(p) \in Rows
    BY <1>2, GrantCommitFields
  <2>2. deferred' = deferred \/ deferred' = deferred \cup {GrantedRow(p)}
    BY <1>2 DEF GrantCommit, GrantedRow
  <2> QED
    BY <1>1, <2>1, <2>2
<1> QED
  BY <1>1, <1>2
  DEF Next, vars, rowVars, GrantRead, Resolve, FindNone, ExpireRow, Suspend, Revoke, RenewRead,
      SyncLicence, RenewWrite, Crash, ProvisionLicence, ReissueLicence, Tick

LEMMA EntitlementTypeStep == EntitlementTypeOK /\ RowsInv /\ [Next]_vars => EntitlementTypeOK'
<1> SUFFICES ASSUME EntitlementTypeOK, RowsInv, [Next]_vars PROVE EntitlementTypeOK'
  OBVIOUS
<1> USE DEF rowVars
<1>1. op' \in [Requests -> Op]
  BY OpStep DEF EntitlementTypeOK
<1>2. disturbed' \subseteq Rows /\ deferred' \subseteq Rows
  BY DisturbedStep, DeferredStep
<1>3. \A r \in Existing' : 1 .. r \subseteq Existing'
  <2>1. RowsInv'
    BY RowsStep
  <2>2. PICK n : Existing' = 1 .. n /\ n \in Nat
    <3>1. Cardinality(Existing') \in Nat
      <4>1. Existing' \subseteq Rows
        BY DEF Existing
      <4>2. IsFiniteSet(Rows)
        BY FS_Interval, EntitlementAssumption DEF Rows
      <4> QED
        BY <4>1, <4>2, FS_Subset, FS_CardinalityType
    <3> QED
      BY <2>1, <3>1 DEF RowsInv
  <2> QED
    BY <2>2
<1>4. now' \in 0 .. MaxTime
  <2>1. now' = now \/ (now < MaxTime /\ now' = now + 1)
    BY DEF Next, vars, GrantRead, GrantCommit, Resolve, ExpireRow, Suspend, Revoke, RenewRead,
           FindNone, SyncLicence, RenewWrite, Crash, ProvisionLicence, ReissueLicence, Tick
  <2> QED
    BY <2>1, EntitlementAssumption DEF EntitlementTypeOK
<1>5. trials' \in Nat
  <2>1. trials' = trials \/ trials' = trials + 1
    BY DEF Next, vars, GrantRead, GrantCommit, Resolve, ExpireRow, Suspend, Revoke, RenewRead,
           FindNone, SyncLicence, RenewWrite, Crash, ProvisionLicence, ReissueLicence, Tick
  <2> QED
    BY <2>1 DEF EntitlementTypeOK
<1>6. revived' \in BOOLEAN
  <2>1. revived \in BOOLEAN
    BY DEF EntitlementTypeOK
  <2>2. revived' = revived \/ \E r \in Rows : revived' = (revived \/ ~IsOpen(r))
    BY DEF Next, vars, GrantRead, GrantCommit, Resolve, ExpireRow, Suspend, Revoke, RenewRead,
           FindNone, SyncLicence, RenewWrite, Crash, ProvisionLicence, ReissueLicence, Tick
  <2> QED
    BY <2>1, <2>2
<1>7. /\ status' \in [Rows -> Statuses \cup {"absent"}]
      /\ until' \in [Rows -> 0 .. Forever]
      /\ licence' \in [Rows -> {"none", "active", "suspended", "revoked"}]
  <2>0. \A p \in Requests : op[p].until \in 0 .. Forever
    BY DEF EntitlementTypeOK, Op
  <2>1. ASSUME NEW p \in Requests, GrantCommit(p)
        PROVE  /\ status' \in [Rows -> Statuses \cup {"absent"}]
               /\ until' \in [Rows -> 0 .. Forever]
               /\ licence' \in [Rows -> {"none", "active", "suspended", "revoked"}]
    <3>1. PICK r \in Rows : /\ status' = [status EXCEPT ![r] = "active"]
                            /\ until' = [until EXCEPT ![r] = op[p].until]
                            /\ \E l \in {"active", licence[r]} :
                                 licence' = [licence EXCEPT ![r] = l]
      BY <2>1, GrantCommitFields
    <3> QED
      BY <2>0, <3>1 DEF EntitlementTypeOK, Statuses
  <2>2. ASSUME NEW p \in Requests, NEW r \in Rows, Suspend(p, r) \/ Revoke(p, r) \/ ExpireRow(p, r)
        PROVE  /\ status' \in [Rows -> Statuses \cup {"absent"}]
               /\ until' = until /\ licence' = licence
    BY <2>2 DEF Suspend, Revoke, ExpireRow, EntitlementTypeOK, Statuses
  <2>3. ASSUME NEW p \in Requests, SyncLicence(p)
        PROVE  /\ licence' \in [Rows -> {"none", "active", "suspended", "revoked"}]
               /\ until' = until /\ status' = status
    BY <2>3 DEF SyncLicence, LicenceAfter, EntitlementTypeOK
  <2>4. ASSUME NEW p \in Requests, RenewWrite(p)
        PROVE  /\ until' \in [Rows -> 0 .. Forever]
               /\ licence' = licence /\ status' = status
    BY <2>0, <2>4 DEF RenewWrite, EntitlementTypeOK
  <2>5. ASSUME NEW r \in Rows, ProvisionLicence(r) \/ ReissueLicence(r)
        PROVE  /\ licence' \in [Rows -> {"none", "active", "suspended", "revoked"}]
               /\ until' = until /\ status' = status
    BY <2>5 DEF ProvisionLicence, ReissueLicence, EntitlementTypeOK
  <2> QED
    BY <2>1, <2>2, <2>3, <2>4, <2>5
    DEF Next, vars, EntitlementTypeOK, GrantRead, Resolve, RenewRead, FindNone, Crash, Tick
<1> QED
  BY <1>1, <1>2, <1>3, <1>4, <1>5, <1>6, <1>7 DEF EntitlementTypeOK

LEMMA EntitlementInit == Init => EntitlementTypeOK /\ RowsInv
<1> SUFFICES ASSUME Init PROVE EntitlementTypeOK /\ RowsInv
  OBVIOUS
<1>1. Existing = {} /\ Cardinality(Existing) = 0 /\ 1 .. 0 = {}
  BY FS_EmptySet DEF Init, Existing
<1>2. op \in [Requests -> Op]
      /\ \A p \in Requests : op[p].kind = "idle" /\ op[p].lapsed = {}
  BY IdleFields DEF Init
<1>3. 0 \in 0 .. MaxTime /\ 0 \in 0 .. Forever
  BY EntitlementAssumption DEF Forever
<1>4. RowsInv
  BY <1>1, <1>2 DEF RowsInv, Syncing
<1>5. revived \in BOOLEAN
  BY DEF Init
<1> QED
  BY <1>1, <1>2, <1>3, <1>4, <1>5 DEF Init, EntitlementTypeOK

LEMMA EntitlementTypes == Spec => [](EntitlementTypeOK /\ RowsInv)
BY EntitlementInit, EntitlementTypeStep, RowsStep, PTL DEF Spec

(* Every variable of the entitlements keeps its type, and rows are numbered  *)
(* in the order of their insertion.                                          *)
THEOREM EntitlementTypeCorrect == Spec => []EntitlementTypeOK
BY EntitlementTypes, PTL
-----------------------------------------------------------------------------
(* What a step changes of one row, and who changes it.                       *)

LEMMA Undisturbed ==
  ASSUME NEW p \in Requests, NEW r \in Rows, Writes(p, r) \/ WritesUnseen(p, r), r \notin disturbed'
  PROVE  /\ ~Overlaps(p, r)
         /\ \A q \in Requests \ {p} :
              r = op[q].row \/ r \in op[q].lapsed => op[p].kind \in Reading
                /\ op[q].kind \in Reading
<1>1. ~Overlaps(p, r)
  BY DEF Writes, WritesUnseen
<1> QED
  BY <1>1 DEF Overlaps

LEMMA StatusStep ==
  ASSUME EntitlementTypeOK, RowsInv, [Next]_vars, NEW r \in Rows, status'[r] # status[r]
  PROVE  \E p \in Requests :
           /\ \A q \in Requests \ {p} : op'[q] = op[q]
           /\ Writes(p, r) \/ WritesUnseen(p, r)
           /\ \/ GrantCommit(p) /\ r = GrantedRow(p) /\ status'[r] = "active"
              \/ ExpireRow(p, r) /\ status'[r] = "expired"
              \/ Suspend(p, r) /\ op[p] = Idle /\ status'[r] = "suspended"
              \/ Revoke(p, r) /\ op[p] = Idle /\ status'[r] = "revoked"
<1> USE DEF rowVars
<1>1. ASSUME NEW p \in Requests, GrantCommit(p)
      PROVE  /\ \A q \in Requests \ {p} : op'[q] = op[q]
             /\ Writes(p, r) /\ r = GrantedRow(p) /\ status'[r] = "active"
  <2>1. /\ \A q \in Requests \ {p} : op'[q] = op[q]
        /\ status' = [status EXCEPT ![GrantedRow(p)] = "active"]
        /\ Writes(p, GrantedRow(p))
    BY <1>1, GrantCommitFields
  <2>2. r = GrantedRow(p)
    BY <2>1 DEF EntitlementTypeOK
  <2> QED
    BY <2>1, <2>2 DEF EntitlementTypeOK
<1>2. ASSUME NEW p \in Requests, NEW s \in Rows, ExpireRow(p, s)
      PROVE  /\ \A q \in Requests \ {p} : op'[q] = op[q]
             /\ Writes(p, r) /\ r = s /\ status'[r] = "expired"
  <2>1. \A q \in Requests \ {p} : op'[q] = op[q]
    BY <1>2, ExpireRowFields
  <2>2. status' = [status EXCEPT ![s] = "expired"] /\ Writes(p, s)
    BY <1>2 DEF ExpireRow
  <2> QED
    BY <2>1, <2>2 DEF EntitlementTypeOK
<1>3. ASSUME NEW p \in Requests, NEW s \in Rows, Suspend(p, s) \/ Revoke(p, s)
      PROVE  /\ \A q \in Requests \ {p} : op'[q] = op[q]
             /\ Writes(p, r) \/ WritesUnseen(p, r)
             /\ r = s /\ op[p] = Idle
             /\ Suspend(p, r) => status'[r] = "suspended"
             /\ Revoke(p, r) => status'[r] = "revoked"
  <2>1. op[p] = Idle /\ \A q \in Requests \ {p} : op'[q] = op[q]
    BY <1>3, SuspendFields
  <2>2. r = s /\ (Writes(p, s) \/ WritesUnseen(p, s))
    BY <1>3 DEF Suspend, Revoke, EntitlementTypeOK
  <2>3. /\ Suspend(p, r) => status'[r] = "suspended"
        /\ Revoke(p, r) => status'[r] = "revoked"
    BY DEF Suspend, Revoke, EntitlementTypeOK
  <2> QED
    BY <2>1, <2>2, <2>3
<1>4. \/ \E p \in Requests : GrantCommit(p) \/ \E s \in Rows : ExpireRow(p, s)
           \/ Suspend(p, s) \/ Revoke(p, s)
  BY DEF Next, vars, GrantRead, Resolve, RenewRead, FindNone, SyncLicence, RenewWrite, Crash,
         ProvisionLicence, ReissueLicence, Tick
<1> QED
  BY <1>1, <1>2, <1>3, <1>4

LEMMA UntilStep ==
  ASSUME EntitlementTypeOK, RowsInv, [Next]_vars, NEW r \in Rows, until'[r] # until[r]
  PROVE  \E p \in Requests :
           /\ \A q \in Requests \ {p} : op'[q] = op[q]
           /\ op'[p] = Idle /\ until'[r] = op[p].until
           /\ Writes(p, r) \/ WritesUnseen(p, r)
           /\ \/ op[p].kind = "grant" /\ r = GrantedRow(p) /\ status'[r] = "active"
              \/ op[p].kind = "renew" /\ r = op[p].row /\ WritesUnseen(p, r) /\ status' = status
<1> USE DEF rowVars
<1>1. ASSUME NEW p \in Requests, GrantCommit(p)
      PROVE  /\ \A q \in Requests \ {p} : op'[q] = op[q]
             /\ op'[p] = Idle /\ until'[r] = op[p].until
             /\ Writes(p, r)
             /\ op[p].kind = "grant" /\ r = GrantedRow(p) /\ status'[r] = "active"
  <2>1. /\ \A q \in Requests \ {p} : op'[q] = op[q]
        /\ op'[p] = Idle /\ op[p].kind = "grant"
        /\ status' = [status EXCEPT ![GrantedRow(p)] = "active"]
        /\ until' = [until EXCEPT ![GrantedRow(p)] = op[p].until]
        /\ Writes(p, GrantedRow(p))
    BY <1>1, GrantCommitFields
  <2>2. r = GrantedRow(p)
    BY <2>1 DEF EntitlementTypeOK
  <2> QED
    BY <2>1, <2>2 DEF EntitlementTypeOK
<1>2. ASSUME NEW p \in Requests, RenewWrite(p)
      PROVE  /\ \A q \in Requests \ {p} : op'[q] = op[q]
             /\ op'[p] = Idle /\ until'[r] = op[p].until
             /\ op[p].kind = "renew" /\ r = op[p].row /\ WritesUnseen(p, r) /\ status' = status
  <2>1. OpTypeOK /\ Returns(p)
    BY <1>2 DEF RenewWrite, EntitlementTypeOK, OpTypeOK
  <2>2. op'[p] = Idle /\ \A q \in Requests \ {p} : op'[q] = op[q]
    BY <2>1, ReturnsFields
  <2>3. /\ op[p].kind = "renew" /\ until' = [until EXCEPT ![op[p].row] = op[p].until]
        /\ WritesUnseen(p, op[p].row) /\ status' = status
    BY <1>2 DEF RenewWrite
  <2>4. r = op[p].row
    BY <2>3 DEF EntitlementTypeOK
  <2> QED
    BY <2>2, <2>3, <2>4 DEF EntitlementTypeOK
<1>3. \E p \in Requests : GrantCommit(p) \/ RenewWrite(p)
  BY DEF Next, vars, GrantRead, Resolve, ExpireRow, Suspend, Revoke, RenewRead, FindNone,
       SyncLicence,
         Crash, ProvisionLicence, ReissueLicence, Tick
<1> QED
  BY <1>1, <1>2, <1>3

(* The row is active, and its access ends.                                   *)
Dated(r) == status[r] = "active" /\ until[r] # Forever

LapsedRows == {r \in Rows \ deferred : Lapsed(r, {})} \cup deferred

(* The request that moves: what it read, and what it leaves to do.           *)
Moves(p) ==
  /\ \A q \in Requests \ {p} : op'[q] = op[q]
  /\ op'[p].lapsed \subseteq op[p].lapsed \cup LapsedRows
  /\ op'[p].kind = "grant" =>
       /\ rowVars' = rowVars
       /\ IF op'[p].row = NoRow THEN OpenRows = {} ELSE op'[p].row \in OpenRows
  /\ op'[p].kind \in {"grant", "renew"} =>
       /\ rowVars' = rowVars
       /\ op'[p].row \in Rows \ disturbed' /\ Dated(op'[p].row) => op'[p].until >= until[op'[p].row]
  /\ op'[p].kind \in Syncing => status'[op'[p].row] = op'[p].kind
  /\ op[p].kind \in Syncing => SyncLicence(p) \/ Crash(p)

LEMMA MovesStep ==
  ASSUME EntitlementTypeOK, RowsInv, [Next]_vars
  PROVE  op' = op \/ \E p \in Requests : Moves(p)
<1>0. OpTypeOK
  BY DEF EntitlementTypeOK, OpTypeOK
<1>1. ASSUME NEW p \in Requests, NEW explicit \in BOOLEAN, GrantRead(p, explicit)
      PROVE  Moves(p)
  <2>1. PICK r \in Rows \cup {NoRow}, next \in 0 .. Forever :
          /\ IF r = NoRow THEN OpenRows = {} /\ Existing # Rows ELSE r \in OpenRows
          /\ ~explicit => \E term \in Terms : next = NextExpiresAt(r, term)
          /\ \A q \in Requests \ {p} : op'[q] = op[q]
          /\ op'[p] = Request("grant", r, next, {}, explicit \/ op[p].trial, op[p].trial)
          /\ disturbed' = IF r # NoRow /\ explicit THEN disturbed \cup {r} ELSE disturbed
    BY <1>1, GrantReadFields
  <2>2. op'[p].kind = "grant" /\ op'[p].row = r /\ op'[p].until = next /\ op'[p].lapsed = {}
    BY <2>1, RequestFields
  <2>3. rowVars' = rowVars /\ op[p].kind \notin Syncing
    BY <1>1, IdleFields DEF GrantRead, rowVars, Syncing
  <2>4. r \in Rows \ disturbed' /\ Dated(r) => next >= until[r]
    <3>1. SUFFICES ASSUME r \in Rows \ disturbed', Dated(r) PROVE next >= until[r]
      OBVIOUS
    <3>2. r # NoRow /\ ~explicit
      BY <2>1, <3>1 DEF Rows, NoRow
    <3> QED
      BY <2>1, <3>1, <3>2, NextExpiryGrows DEF Dated
  <2> QED
    BY <2>1, <2>2, <2>3, <2>4 DEF Moves, Syncing
<1>2. ASSUME NEW p \in Requests, Resolve(p) PROVE Moves(p)
  <2>1. PICK early \in SUBSET deferred, lapsed \in SUBSET Rows :
          /\ lapsed = {r \in Rows : Lapsed(r, early)}
          /\ \A q \in Requests \ {p} : op'[q] = op[q]
          /\ op[p] = Idle
          /\ op'[p] = Request("resolve", NoRow, 0, lapsed, FALSE, FALSE)
    BY <1>2, ResolveFields
  <2>2. op'[p].lapsed = lapsed /\ op'[p].kind = "resolve" /\ op[p].kind = "idle"
    BY <2>1, IdleFields DEF Request
  <2>3. lapsed \subseteq LapsedRows
    BY <2>1 DEF LapsedRows, Lapsed, IsActive
  <2> QED
    BY <2>1, <2>2, <2>3 DEF Moves, Syncing
<1>3. ASSUME NEW p \in Requests, NEW r \in Rows, ExpireRow(p, r) PROVE Moves(p)
  <2>1. op[p].kind = "resolve" /\ status'[r] = "expired"
    BY <1>3 DEF ExpireRow, EntitlementTypeOK
  <2>2. /\ \A q \in Requests \ {p} : op'[q] = op[q]
        /\ op'[p].kind = "expired" /\ op'[p].row = r /\ op'[p].lapsed = op[p].lapsed \ {r}
    BY <1>3, ExpireRowFields
  <2> QED
    BY <2>1, <2>2 DEF Moves, Syncing
<1>4. ASSUME NEW p \in Requests, NEW r \in Rows, Suspend(p, r) \/ Revoke(p, r) PROVE Moves(p)
  <2>1. PICK k \in {"suspended", "revoked"} :
          /\ \A q \in Requests \ {p} : op'[q] = op[q]
          /\ op[p] = Idle
          /\ op'[p] = Request(k, r, 0, {}, FALSE, FALSE)
          /\ status' = [status EXCEPT ![r] = k]
    BY <1>4, SuspendFields
  <2>2. op'[p].kind = k /\ op'[p].row = r /\ op'[p].lapsed = {} /\ op[p].kind = "idle"
    BY <2>1, IdleFields DEF Request
  <2>3. status'[r] = k
    BY <2>1 DEF EntitlementTypeOK
  <2> QED
    BY <2>1, <2>2, <2>3 DEF Moves, Syncing
<1>5. ASSUME NEW p \in Requests, NEW r \in Rows, NEW term \in Terms, RenewRead(p, r, term)
      PROVE  Moves(p)
  <2>1. /\ \A q \in Requests \ {p} : op'[q] = op[q]
        /\ op[p] = Idle
        /\ op'[p] = Request("renew", r, NextExpiresAt(r, term), {}, FALSE, FALSE)
    BY <1>5, RenewReadFields
  <2>2. /\ op'[p].kind = "renew" /\ op'[p].row = r /\ op'[p].lapsed = {} /\ op[p].kind = "idle"
        /\ op'[p].until = NextExpiresAt(r, term)
    BY <2>1, IdleFields DEF Request
  <2>3. rowVars' = rowVars
    BY <1>5 DEF RenewRead, rowVars
  <2> QED
    BY <2>1, <2>2, <2>3, NextExpiryGrows DEF Moves, Syncing, Dated
<1>6. ASSUME NEW p \in Requests, FindNone(p) PROVE Moves(p)
  BY <1>6, FindNoneFields, IdleFields DEF Moves, Syncing
<1>7. ASSUME NEW p \in Requests, SyncLicence(p) PROVE Moves(p)
  <2>1. /\ \A q \in Requests \ {p} : op'[q] = op[q]
        /\ op'[p].kind \in {"idle", "resolve"} /\ op'[p].lapsed \subseteq op[p].lapsed
    BY <1>7, SyncLicenceFields, IdleFields
  <2> QED
    BY <1>7, <2>1 DEF Moves, Syncing
<1>8. ASSUME NEW p \in Requests, RenewWrite(p) \/ Crash(p) \/ GrantCommit(p) PROVE Moves(p)
  <2>1. Returns(p) /\ (op[p].kind \in Syncing => Crash(p))
    BY <1>8 DEF RenewWrite, Crash, GrantCommit, Syncing
  <2>2. /\ \A q \in Requests \ {p} : op'[q] = op[q]
        /\ op'[p].kind = "idle" /\ op'[p].lapsed = {}
    BY <1>0, <2>1, ReturnsFields, IdleFields
  <2> QED
    BY <2>1, <2>2 DEF Moves, Syncing
<1> QED
  BY <1>1, <1>2, <1>3, <1>4, <1>5, <1>6, <1>7, <1>8
  DEF Next, vars, ProvisionLicence, ReissueLicence, Tick
-----------------------------------------------------------------------------
(* One open row.                                                             *)

(* What a grant found open is still all that may be open.                    *)
GrantInv ==
  \A p \in Requests : op[p].kind = "grant" /\ ~revived => OpenRows \subseteq {op[p].row}

LEMMA RevivedStep == EntitlementTypeOK /\ [Next]_vars /\ ~revived' => ~revived
BY DEF Next, vars, GrantRead, GrantCommit, Resolve, ExpireRow, Suspend, Revoke, RenewRead,
       FindNone, SyncLicence, RenewWrite, Crash, ProvisionLicence, ReissueLicence, Tick,
       EntitlementTypeOK

LEMMA OneOpenStep ==
  EntitlementTypeOK /\ RowsInv /\ GrantInv /\ OneOpenRow /\ [Next]_vars => GrantInv' /\ OneOpenRow'
<1> SUFFICES ASSUME EntitlementTypeOK, RowsInv, GrantInv, OneOpenRow, [Next]_vars, ~revived'
             PROVE  /\ \A r, s \in OpenRows' : r = s
                    /\ \A p \in Requests : op'[p].kind = "grant" => OpenRows' \subseteq {op'[p].row}
  BY DEF GrantInv, OneOpenRow
<1>1. ~revived
  BY RevivedStep
<1>2. \A r, s \in OpenRows : r = s
  BY <1>1 DEF OneOpenRow
<1>3. \A p \in Requests : op[p].kind = "grant" => OpenRows \subseteq {op[p].row}
  BY <1>1 DEF GrantInv
<1>4. ASSUME NEW p \in Requests, GrantCommit(p)
      PROVE  OpenRows' \subseteq {GrantedRow(p)} /\ \A q \in Requests : op'[q].kind # "grant"
  <2>1. /\ op[p].kind = "grant" /\ GrantedRow(p) \in Rows
        /\ status' = [status EXCEPT ![GrantedRow(p)] = "active"]
        /\ \A q \in Requests \ {p} : op'[q] = op[q]
        /\ op'[p] = Idle
    BY <1>4, GrantCommitFields
  <2>2. OpenRows \subseteq {op[p].row} /\ OpenRows \subseteq Rows /\ NoRow \notin Rows
    BY <1>3, <2>1 DEF OpenRows, NoRow, Rows
  <2>3. OpenRows \subseteq {GrantedRow(p)}
    BY <2>1, <2>2, GrantedRowIs
  <2>4. OpenRows' \subseteq OpenRows \cup {GrantedRow(p)}
    BY <2>1 DEF OpenRows, IsOpen, EntitlementTypeOK
  <2>5. \A q \in Requests : op'[q].kind # "grant"
    BY <2>1, IdleFields DEF RowsInv
  <2> QED
    BY <2>3, <2>4, <2>5
<1>5. ASSUME ~ \E p \in Requests : GrantCommit(p) PROVE OpenRows' \subseteq OpenRows
  <2>1. ASSUME NEW r \in OpenRows', r \notin OpenRows PROVE FALSE
    <3>1. r \in Rows /\ status'[r] \in {"active", "suspended"} /\ ~IsOpen(r)
      BY <2>1 DEF OpenRows, IsOpen
    <3>2. status'[r] # status[r]
      BY <3>1 DEF IsOpen
    <3>3. \E p \in Requests : Suspend(p, r)
      BY <1>5, <3>1, <3>2, StatusStep
    <3> QED
      BY <3>1, <3>3 DEF Suspend
  <2> QED
    BY <2>1
<1>6. CASE \E p \in Requests : GrantCommit(p)
  BY <1>4, <1>6
<1>7. CASE ~ \E p \in Requests : GrantCommit(p)
  <2>1. \A r, s \in OpenRows' : r = s
    BY <1>2, <1>5, <1>7
  <2>2. ASSUME NEW p \in Requests, op'[p].kind = "grant" PROVE OpenRows' \subseteq {op'[p].row}
    <3>1. CASE op'[p] = op[p]
      BY <1>3, <1>5, <1>7, <2>2, <3>1
    <3>2. CASE op'[p] # op[p]
      <4>1. Moves(p)
        <5>1. \A q \in Requests : Moves(q) => q = p
          BY <3>2 DEF Moves
        <5> QED
          BY <3>2, <5>1, MovesStep
      <4>2. IF op'[p].row = NoRow THEN OpenRows = {} ELSE op'[p].row \in OpenRows
        BY <2>2, <4>1 DEF Moves
      <4> QED
        BY <1>2, <1>5, <1>7, <4>2
    <3> QED
      BY <3>1, <3>2
  <2> QED
    BY <2>1, <2>2
<1> QED
  BY <1>6, <1>7

-----------------------------------------------------------------------------
(* Expiry and paid time.                                                     *)

IsOver(r) == until[r] # Forever /\ until[r] <= now

LapsedInv ==
  \A p \in Requests : \A r \in op[p].lapsed \ (disturbed \cup deferred) : IsOver(r)

(* What a grant or a renewal will write is no earlier than what is there.    *)
ExpiryInv ==
  \A p \in Requests :
    /\ op[p].kind \in {"grant", "renew"}
    /\ op[p].row \in Rows \ disturbed /\ Dated(op[p].row)
    => op[p].until >= until[op[p].row]

LEMMA NowStep == EntitlementTypeOK /\ [Next]_vars => now' \in Nat /\ now \in Nat /\ now' >= now
<1> SUFFICES ASSUME EntitlementTypeOK, [Next]_vars PROVE now' \in Nat /\ now \in Nat /\ now' >= now
  OBVIOUS
<1>1. now' = now \/ now' = now + 1
  BY DEF Next, vars, GrantRead, GrantCommit, Resolve, ExpireRow, Suspend, Revoke, RenewRead,
         FindNone, SyncLicence, RenewWrite, Crash, ProvisionLicence, ReissueLicence, Tick
<1>2. now \in Nat
  BY EntitlementAssumption DEF EntitlementTypeOK
<1> QED
  BY <1>1, <1>2

LEMMA LapsedStep == EntitlementTypeOK /\ RowsInv /\ LapsedInv /\ [Next]_vars => LapsedInv'
<1> SUFFICES ASSUME EntitlementTypeOK, RowsInv, LapsedInv, [Next]_vars,
                    NEW p \in Requests, NEW r \in op'[p].lapsed,
                    r \notin disturbed' \cup deferred'
             PROVE  IsOver(r)'
  BY DEF LapsedInv
<1>1. r \notin disturbed \cup deferred /\ r \notin disturbed'
  BY DisturbedStep, DeferredStep
<1>2. r \in Rows
  <2>1. EntitlementTypeOK'
    BY EntitlementTypeStep
  <2> QED
    BY <2>1 DEF EntitlementTypeOK, Op
<1>3. until[r] \in Nat /\ now \in Nat /\ now' \in Nat /\ now' >= now
  BY <1>2, NowStep, EntitlementAssumption DEF EntitlementTypeOK
<1>4. r \in op[p].lapsed \/ r \in LapsedRows
  <2>1. CASE op'[p] = op[p]
    BY <2>1
  <2>2. CASE op'[p] # op[p]
    <3>1. Moves(p)
      <4>1. \A q \in Requests : Moves(q) => q = p
        BY <2>2 DEF Moves
      <4> QED
        BY <2>2, <4>1, MovesStep
    <3> QED
      BY <3>1 DEF Moves
  <2> QED
    BY <2>1, <2>2
<1>5. IsOver(r)
  <2>1. r \in LapsedRows => IsOver(r)
    BY <1>1, <1>3 DEF LapsedRows, Lapsed, IsActive, IsOver
  <2> QED
    BY <1>1, <1>4, <2>1 DEF LapsedInv
<1>6. until'[r] = until[r]
  <2>1. ASSUME until'[r] # until[r] PROVE FALSE
    <3>1. PICK q \in Requests :
            /\ \A w \in Requests \ {q} : op'[w] = op[w]
            /\ op'[q] = Idle
            /\ Writes(q, r) \/ WritesUnseen(q, r)
            /\ op[q].kind \in {"grant", "renew"}
      BY <1>2, <2>1, UntilStep
    <3>2. q # p
      BY <3>1, IdleFields
    <3>3. r \in op[p].lapsed
      BY <3>1, <3>2
    <3> QED
      BY <1>2, <3>1, <3>2, <3>3, Undisturbed DEF Reading
  <2> QED
    BY <2>1
<1> QED
  BY <1>3, <1>5, <1>6 DEF IsOver

LEMMA ExpiredStep ==
  EntitlementTypeOK /\ RowsInv /\ LapsedInv /\ ExpiredIsOver /\ [Next]_vars => ExpiredIsOver'
<1> SUFFICES ASSUME EntitlementTypeOK, RowsInv, LapsedInv, ExpiredIsOver, [Next]_vars,
                    NEW r \in Rows, r \notin disturbed' \cup deferred', status'[r] = "expired"
             PROVE  until'[r] # Forever /\ until'[r] <= now'
  BY DEF ExpiredIsOver
<1>1. r \notin disturbed \cup deferred /\ r \notin disturbed'
  BY DisturbedStep, DeferredStep
<1>2. until[r] \in Nat /\ now \in Nat /\ now' \in Nat /\ now' >= now
  BY NowStep, EntitlementAssumption DEF EntitlementTypeOK
<1>3. until'[r] = until[r]
  <2>1. ASSUME until'[r] # until[r] PROVE FALSE
    <3>1. \E q \in Requests :
            \/ status'[r] = "active"
            \/ WritesUnseen(q, r) /\ status' = status
      BY <2>1, UntilStep
    <3>2. \E q \in Requests : WritesUnseen(q, r) /\ ~IsOpen(r)
      BY <3>1 DEF IsOpen
    <3> QED
      BY <1>1, <3>2 DEF WritesUnseen
  <2> QED
    BY <2>1
<1>4. IsOver(r)
  <2>1. CASE status[r] = "expired"
    BY <1>1, <2>1 DEF ExpiredIsOver, IsOver
  <2>2. CASE status[r] # "expired"
    <3>1. PICK p \in Requests : ExpireRow(p, r)
      BY <2>2, StatusStep
    <3>2. r \in op[p].lapsed
      BY <3>1 DEF ExpireRow
    <3> QED
      BY <1>1, <3>2 DEF LapsedInv
  <2> QED
    BY <2>1, <2>2
<1> QED
  BY <1>2, <1>3, <1>4 DEF IsOver

LEMMA ExpiryStep == EntitlementTypeOK /\ RowsInv /\ ExpiryInv /\ [Next]_vars => ExpiryInv'
<1> SUFFICES ASSUME EntitlementTypeOK, RowsInv, ExpiryInv, [Next]_vars, NEW p \in Requests,
                    op'[p].kind \in {"grant", "renew"},
                    op'[p].row \in Rows \ disturbed', Dated(op[p].row)'
             PROVE  op'[p].until >= until'[op'[p].row]
  BY DEF ExpiryInv
<1> DEFINE r == op'[p].row
<1>1. r \in Rows /\ r \notin disturbed' /\ r \notin disturbed
  BY DisturbedStep
<1>2. CASE op'[p] = op[p]
  <2>1. ASSUME NEW q \in Requests \ {p}, Writes(q, r) \/ WritesUnseen(q, r) PROVE FALSE
    BY <1>1, <1>2, <2>1, Undisturbed DEF Reading
  <2>2. until'[r] = until[r]
    <3>1. ASSUME until'[r] # until[r] PROVE FALSE
      <4>1. PICK q \in Requests : /\ op'[q] = Idle
                                  /\ Writes(q, r) \/ WritesUnseen(q, r)
        BY <1>1, <3>1, UntilStep
      <4>2. q # p
        BY <4>1, IdleFields
      <4> QED
        BY <2>1, <4>1, <4>2
    <3> QED
      BY <3>1
  <2>3. status'[r] = status[r]
    <3>1. ASSUME status'[r] # status[r] PROVE FALSE
      <4>1. PICK q \in Requests : /\ Writes(q, r) \/ WritesUnseen(q, r)
                                  /\ GrantCommit(q) \/ ExpireRow(q, r) \/ op[q] = Idle
        BY <1>1, <3>1, StatusStep
      <4>2. q # p
        <5>1. ~GrantCommit(p)
          BY <1>2, GrantCommitFields, IdleFields
        <5>2. ~ExpireRow(p, r) /\ op[p] # Idle
          BY <1>2, IdleFields DEF ExpireRow
        <5> QED
          BY <4>1, <5>1, <5>2
      <4> QED
        BY <2>1, <4>1, <4>2
    <3> QED
      BY <3>1
  <2> QED
    BY <1>1, <1>2, <2>2, <2>3 DEF ExpiryInv, Dated
<1>3. CASE op'[p] # op[p]
  <2>1. Moves(p)
    <3>1. \A q \in Requests : Moves(q) => q = p
      BY <1>3 DEF Moves
    <3> QED
      BY <1>3, <3>1, MovesStep
  <2>2. rowVars' = rowVars
    BY <2>1 DEF Moves
  <2> QED
    BY <1>1, <2>1, <2>2 DEF Moves, rowVars, Dated
<1> QED
  BY <1>2, <1>3

LEMMA PaidTimeStep ==
  ASSUME EntitlementTypeOK, RowsInv, ExpiryInv, [Next]_vars,
         NEW r \in Rows, r \notin disturbed', Dated(r)
  PROVE  until'[r] >= until[r]
<1>1. until[r] \in Nat /\ r \notin disturbed
  BY DisturbedStep, EntitlementAssumption DEF EntitlementTypeOK
<1>2. CASE until'[r] = until[r]
  BY <1>1, <1>2
<1>3. CASE until'[r] # until[r]
  <2>1. PICK p \in Requests :
          /\ until'[r] = op[p].until
          /\ \/ op[p].kind = "grant" /\ r = GrantedRow(p)
             \/ op[p].kind = "renew" /\ r = op[p].row
    BY <1>3, UntilStep
  <2>2. r = op[p].row
    <3>1. r \in Existing
      BY DEF Existing, Dated
    <3> QED
      BY <2>1, <3>1, GrantedRowIs
  <2> QED
    BY <1>1, <2>1, <2>2 DEF ExpiryInv
<1> QED
  BY <1>2, <1>3
-----------------------------------------------------------------------------
(* Licences follow their rows.                                               *)

Synced(r) == \A p \in Requests : op[p].kind \in Syncing => op[p].row # r

LicenceFits(r) ==
  /\ status[r] \in {"expired", "suspended"} => licence[r] \in {"none", "suspended"}
  /\ status[r] = "revoked" => licence[r] \in {"none", "revoked"}
  /\ IsOpen(r) => licence[r] # "revoked"

(* On a row where nothing overlapped, a request that has still to write the  *)
(* licence finds the status it wrote, and a grant the open row it read.      *)
LicenceInv ==
  /\ \A r \in Rows : status[r] = "absent" => licence[r] = "none"
  /\ \A r \in Rows \ disturbed :
       /\ Synced(r) => LicenceFits(r)
       /\ \A p \in Requests :
            op[p].row = r => /\ op[p].kind \in Syncing => status[r] = op[p].kind
                             /\ op[p].kind = "grant" => IsOpen(r)

LEMMA AbsentStep ==
  ASSUME EntitlementTypeOK, RowsInv, LicenceInv, [Next]_vars,
         NEW r \in Rows, status'[r] = "absent"
  PROVE  licence'[r] = "none"
<1>0. r \notin Existing' /\ r \notin Existing
  <2>1. Existing \subseteq Existing'
    BY ExistingStep
  <2> QED
    BY <2>1 DEF Existing
<1>1. licence[r] = "none"
  BY <1>0 DEF LicenceInv, Existing
<1>2. ASSUME NEW p \in Requests, GrantCommit(p) PROVE licence'[r] = licence[r]
  <2>1. /\ status' = [status EXCEPT ![GrantedRow(p)] = "active"]
        /\ \E l : licence' = [licence EXCEPT ![GrantedRow(p)] = l]
    BY <1>2, GrantCommitFields
  <2>2. GrantedRow(p) # r
    BY <2>1 DEF EntitlementTypeOK
  <2> QED
    BY <2>1, <2>2 DEF EntitlementTypeOK
<1>3. ASSUME NEW p \in Requests, SyncLicence(p) PROVE licence'[r] = licence[r]
  <2>1. op[p].row # r
    BY <1>0, <1>3 DEF SyncLicence, RowsInv, Syncing
  <2> QED
    BY <1>3, <2>1 DEF SyncLicence, EntitlementTypeOK
<1>4. ASSUME NEW s \in Rows, ProvisionLicence(s) \/ ReissueLicence(s) PROVE licence'[r] = licence[r]
  BY <1>0, <1>1, <1>4 DEF ProvisionLicence, ReissueLicence, EntitlementTypeOK
<1> QED
  BY <1>1, <1>2, <1>3, <1>4
  DEF Next, vars, rowVars, GrantRead, Resolve, ExpireRow, Suspend, Revoke, RenewRead, FindNone,
      RenewWrite, Crash, Tick

LEMMA LicenceChange ==
  ASSUME EntitlementTypeOK, RowsInv, [Next]_vars, NEW r \in Rows, licence'[r] # licence[r]
  PROVE  \/ \E p \in Requests : GrantCommit(p) /\ r = GrantedRow(p) /\ licence'[r] = "active"
         \/ \E p \in Requests : SyncLicence(p) /\ r = op[p].row
         \/ /\ licence'[r] = "active" /\ status' = status /\ op' = op
            /\ status[r] = "active" \/ r \in disturbed'
<1>1. ASSUME NEW p \in Requests, GrantCommit(p)
      PROVE  r = GrantedRow(p) /\ licence'[r] = "active"
  <2>1. licence' = [licence EXCEPT ![GrantedRow(p)] =
                      IF op[p].provision THEN "active" ELSE licence[GrantedRow(p)]]
    BY <1>1, GrantCommitFields
  <2> QED
    BY <2>1 DEF EntitlementTypeOK
<1>2. ASSUME NEW p \in Requests, SyncLicence(p) PROVE r = op[p].row
  BY <1>2 DEF SyncLicence, EntitlementTypeOK
<1>3. ASSUME NEW s \in Rows, ProvisionLicence(s) \/ ReissueLicence(s)
      PROVE  /\ licence'[r] = "active" /\ status' = status /\ op' = op
             /\ status[r] = "active" \/ r \in disturbed'
  BY <1>3 DEF ProvisionLicence, ReissueLicence, EntitlementTypeOK
<1> QED
  BY <1>1, <1>2, <1>3
  DEF Next, vars, rowVars, GrantRead, Resolve, ExpireRow, Suspend, Revoke, RenewRead, FindNone,
      RenewWrite, Crash, Tick

(* Who is at work on an undisturbed row finds what it wrote or read.         *)
LEMMA WorkStep ==
  ASSUME EntitlementTypeOK, RowsInv, LicenceInv, [Next]_vars,
         NEW r \in Rows \ disturbed', NEW p \in Requests, op'[p].row = r
  PROVE  /\ op'[p].kind \in Syncing => status'[r] = op'[p].kind
         /\ op'[p].kind = "grant" => status'[r] \in {"active", "suspended"}
<1>1. r \in Rows \ disturbed
  BY DisturbedStep
<1>2. CASE op'[p] = op[p]
  <2>1. CASE status'[r] = status[r]
    BY <1>1, <1>2, <2>1 DEF LicenceInv, IsOpen
  <2>2. CASE status'[r] # status[r]
    <3>1. PICK q \in Requests :
            /\ Writes(q, r) \/ WritesUnseen(q, r)
            /\ \/ GrantCommit(q)
               \/ ExpireRow(q, r) /\ status'[r] = "expired"
               \/ (Suspend(q, r) \/ Revoke(q, r)) /\ op[q] = Idle
      BY <2>2, StatusStep
    <3>0. ExpireRow(q, r) => status'[r] = "expired"
      BY <1>1 DEF ExpireRow, EntitlementTypeOK
    <3>2. SUFFICES ASSUME op[p].kind \in Syncing \cup {"grant"}
                   PROVE  op[p].kind = "expired" /\ ExpireRow(q, r)
      BY <1>2, <3>0 DEF Syncing
    <3>3. op[p] # Idle /\ ~GrantCommit(p) /\ ~ExpireRow(p, r)
      <4>1. op[p] # Idle
        BY <3>2, IdleFields DEF Syncing
      <4>2. ~GrantCommit(p)
        BY <1>2, <4>1, GrantCommitFields
      <4>3. ~ExpireRow(p, r)
        BY <3>2 DEF ExpireRow, Syncing
      <4> QED
        BY <4>1, <4>2, <4>3
    <3>4. q # p
      BY <3>1, <3>3
    <3>5. op[q].kind \in Reading /\ op[p].kind \in Reading
      BY <1>2, <3>1, <3>4, Undisturbed
    <3>6. ~GrantCommit(q) /\ op[q] # Idle
      BY <3>5, IdleFields DEF GrantCommit, Reading
    <3> QED
      BY <3>1, <3>2, <3>5, <3>6 DEF Reading, Syncing
  <2> QED
    BY <2>1, <2>2
<1>3. CASE op'[p] # op[p]
  <2>1. Moves(p)
    <3>1. \A q \in Requests : Moves(q) => q = p
      BY <1>3 DEF Moves
    <3> QED
      BY <1>3, <3>1, MovesStep
  <2>2. op'[p].kind \in Syncing => status'[r] = op'[p].kind
    BY <2>1 DEF Moves
  <2>3. ASSUME op'[p].kind = "grant" PROVE status'[r] \in {"active", "suspended"}
    <3>1. rowVars' = rowVars /\ (r # NoRow => r \in OpenRows)
      BY <2>1, <2>3 DEF Moves
    <3>2. r # NoRow
      BY DEF Rows, NoRow
    <3> QED
      BY <3>1, <3>2 DEF OpenRows, IsOpen, rowVars
  <2> QED
    BY <2>2, <2>3
<1> QED
  BY <1>2, <1>3

LEMMA FitsStep ==
  ASSUME EntitlementTypeOK, RowsInv, LicenceInv, [Next]_vars,
         NEW r \in Rows \ disturbed', Synced(r)'
  PROVE  LicenceFits(r)'
<1>1. r \in Rows \ disturbed
  BY DisturbedStep
<1>2. CASE ~Synced(r)
  <2>1. PICK p \in Requests : op[p].kind \in Syncing /\ op[p].row = r
    BY <1>2 DEF Synced
  <2>2. op'[p] # op[p]
    BY <2>1 DEF Synced
  <2>3. Moves(p)
    <3>1. \A q \in Requests : Moves(q) => q = p
      BY <2>2 DEF Moves
    <3> QED
      BY <2>2, <3>1, MovesStep
  <2>4. SyncLicence(p)
    <3>1. ~Crash(p)
      BY <2>1 DEF Crash, Syncing
    <3> QED
      BY <2>1, <2>3, <3>1 DEF Moves
  <2>5. status[r] = op[p].kind /\ status' = status
    BY <1>1, <2>1, <2>4 DEF LicenceInv, SyncLicence
  <2>6. licence'[r] = IF licence[r] = "none" THEN "none" ELSE LicenceAfter(p)
    BY <2>1, <2>4 DEF SyncLicence, EntitlementTypeOK
  <2> QED
    BY <2>1, <2>5, <2>6 DEF LicenceFits, LicenceAfter, IsOpen, Syncing
<1>3. CASE Synced(r)
  <2>0. LicenceFits(r)
    BY <1>1, <1>3 DEF LicenceInv
  <2>1. ASSUME NEW p \in Requests, GrantCommit(p), r = GrantedRow(p) PROVE LicenceFits(r)'
    <3>1. /\ op[p].kind = "grant"
          /\ status' = [status EXCEPT ![r] = "active"]
          /\ licence' = [licence EXCEPT ![r] = IF op[p].provision THEN "active" ELSE licence[r]]
      BY <2>1, GrantCommitFields
    <3>2. licence[r] # "revoked"
      <4>1. CASE op[p].row = NoRow
        <5>1. r \notin Existing
          BY <2>1, <3>1, <4>1, GrantedRowIs
        <5> QED
          BY <1>1, <5>1 DEF LicenceInv, Existing
      <4>2. CASE op[p].row # NoRow
        <5>1. op[p].row = r
          BY <2>1, <3>1, <4>2, GrantedRowIs
        <5>2. IsOpen(r)
          BY <1>1, <3>1, <5>1 DEF LicenceInv
        <5> QED
          BY <2>0, <5>2 DEF LicenceFits
      <4> QED
        BY <4>1, <4>2
    <3>3. status'[r] = "active" /\ licence'[r] # "revoked"
      BY <3>1, <3>2 DEF EntitlementTypeOK
    <3> QED
      BY <3>3 DEF LicenceFits, IsOpen
  <2>2. CASE status'[r] = status[r] /\ licence'[r] = licence[r]
    BY <2>0, <2>2 DEF LicenceFits, IsOpen
  <2>3. CASE status'[r] # status[r]
    <3>1. PICK p \in Requests :
            \/ GrantCommit(p) /\ r = GrantedRow(p)
            \/ ExpireRow(p, r) \/ Suspend(p, r) \/ Revoke(p, r)
      BY <2>3, StatusStep
    <3>2. ASSUME ExpireRow(p, r) \/ Suspend(p, r) \/ Revoke(p, r) PROVE FALSE
      <4>1. op'[p].row = r /\ op'[p].kind \in Syncing
        <5>1. CASE ExpireRow(p, r)
          BY <5>1, ExpireRowFields DEF Syncing
        <5>2. CASE Suspend(p, r) \/ Revoke(p, r)
          <6>1. PICK k \in {"suspended", "revoked"} : op'[p] = Request(k, r, 0, {}, FALSE, FALSE)
            BY <5>2, SuspendFields
          <6> QED
            BY <6>1 DEF Request, Syncing
        <5> QED
          BY <3>2, <5>1, <5>2
      <4> QED
        BY <4>1 DEF Synced
    <3> QED
      BY <2>1, <3>1, <3>2
  <2>4. CASE status'[r] = status[r] /\ licence'[r] # licence[r]
    <3>1. CASE \E p \in Requests : GrantCommit(p) /\ r = GrantedRow(p)
      BY <2>1, <3>1
    <3>2. ~ \E p \in Requests : SyncLicence(p) /\ r = op[p].row
      BY <1>3 DEF SyncLicence, Synced, Syncing
    <3>3. CASE status[r] = "active" /\ licence'[r] = "active"
      BY <2>4, <3>3 DEF LicenceFits, IsOpen
    <3> QED
      BY <2>4, <3>1, <3>2, <3>3, LicenceChange
  <2> QED
    BY <2>2, <2>3, <2>4
<1> QED
  BY <1>2, <1>3

LEMMA LicenceStep == EntitlementTypeOK /\ RowsInv /\ LicenceInv /\ [Next]_vars => LicenceInv'
<1> SUFFICES ASSUME EntitlementTypeOK, RowsInv, LicenceInv, [Next]_vars PROVE LicenceInv'
  OBVIOUS
<1>1. \A r \in Rows : status'[r] = "absent" => licence'[r] = "none"
  BY AbsentStep
<1>2. \A r \in Rows \ disturbed' : Synced(r)' => LicenceFits(r)'
  BY FitsStep
<1>3. \A r \in Rows \ disturbed' : \A p \in Requests :
        op'[p].row = r => /\ op'[p].kind \in Syncing => status'[r] = op'[p].kind
                          /\ op'[p].kind = "grant" => status'[r] \in {"active", "suspended"}
  BY WorkStep
<1> QED
  BY <1>1, <1>2, <1>3 DEF LicenceInv, IsOpen

-----------------------------------------------------------------------------
(* Trials.                                                                   *)

TrialsInv ==
  /\ trials + Cardinality(Trying) <= Cardinality(Requests)
  /\ Existing = {} => trials = 0

LEMMA TryingIsFinite ==
  /\ IsFiniteSet(Trying) /\ Cardinality(Trying) \in Nat /\ Cardinality(Requests) \in Nat
  /\ Cardinality(Trying) <= Cardinality(Requests)
<1>1. IsFiniteSet(Requests) /\ Trying \subseteq Requests
  BY EntitlementAssumption DEF Trying
<1> QED
  BY <1>1, FS_Subset, FS_CardinalityType

LEMMA TrialsStep == EntitlementTypeOK /\ RowsInv /\ TrialsInv /\ [Next]_vars => TrialsInv'
<1> SUFFICES ASSUME EntitlementTypeOK, RowsInv, TrialsInv, [Next]_vars PROVE TrialsInv'
  OBVIOUS
<1>0. /\ IsFiniteSet(Trying) /\ Cardinality(Trying) \in Nat /\ Cardinality(Requests) \in Nat
      /\ IsFiniteSet(Trying') /\ Cardinality(Trying') \in Nat
      /\ Cardinality(Trying') <= Cardinality(Requests)
      /\ trials \in Nat
  <2>1. IsFiniteSet(Requests) /\ Trying' \subseteq Requests
    BY EntitlementAssumption DEF Trying
  <2>2. IsFiniteSet(Trying') /\ Cardinality(Trying') \in Nat
        /\ Cardinality(Trying') <= Cardinality(Requests)
    BY <2>1, FS_Subset, FS_CardinalityType
  <2> QED
    BY <2>2, TryingIsFinite DEF EntitlementTypeOK
<1>1. Existing' = {} => Existing = {}
  BY ExistingStep
<1>2. ASSUME Trying' \subseteq Trying, trials' = trials PROVE TrialsInv'
  <2>1. Cardinality(Trying') <= Cardinality(Trying)
    BY <1>0, <1>2, FS_Subset
  <2> QED
    BY <1>0, <1>1, <1>2, <2>1 DEF TrialsInv
<1>3. ASSUME NEW p \in Requests, op' \in [Requests -> Op],
             \A q \in Requests \ {p} : op'[q] = op[q],
             op'[p].trial = op[p].trial \/ op'[p].trial = FALSE, trials' = trials
      PROVE  TrialsInv'
  <2>1. Trying' \subseteq Trying
    BY <1>3 DEF Trying
  <2> QED
    BY <1>2, <1>3, <2>1
<1>4. ASSUME NEW p \in Requests, GrantCommit(p) PROVE TrialsInv'
  <2>1. /\ GrantedRow(p) \in Rows
        /\ status' = [status EXCEPT ![GrantedRow(p)] = "active"]
        /\ \A q \in Requests \ {p} : op'[q] = op[q]
        /\ op'[p] = Idle
    BY <1>4, GrantCommitFields
  <2>2. Existing' # {}
    BY <2>1 DEF Existing, EntitlementTypeOK
  <2>3. Trying' = Trying \ {p}
    BY <2>1, IdleFields DEF Trying
  <2>4. CASE op[p].trial
    <3>1. p \in Trying /\ trials' = trials + 1
      BY <1>4, <2>4 DEF Trying, GrantCommit
    <3>2. Cardinality(Trying') = Cardinality(Trying) - 1
      BY <1>0, <2>3, <3>1, FS_RemoveElement
    <3> QED
      BY <1>0, <2>2, <3>1, <3>2 DEF TrialsInv
  <2>5. CASE ~op[p].trial
    <3>1. trials' = trials
      BY <1>4, <2>5 DEF GrantCommit
    <3> QED
      BY <1>2, <2>3, <3>1
  <2> QED
    BY <2>4, <2>5
<1>5. ASSUME NEW p \in Requests, Resolve(p) PROVE TrialsInv'
  <2>1. PICK early \in SUBSET deferred, lapsed \in SUBSET Rows :
          /\ op' \in [Requests -> Op] /\ \A q \in Requests \ {p} : op'[q] = op[q]
          /\ op'[p] = Request("resolve", NoRow, 0, lapsed, FALSE, FALSE)
    BY <1>5, ResolveFields
  <2>2. op'[p].trial = FALSE /\ trials' = trials
    BY <1>5, <2>1 DEF Request, Resolve
  <2> QED
    BY <1>3, <2>1, <2>2
<1>6. ASSUME NEW p \in Requests, NEW explicit \in BOOLEAN, GrantRead(p, explicit)
      PROVE  TrialsInv'
  <2>1. PICK r \in Rows \cup {NoRow}, next \in 0 .. Forever :
          /\ op' \in [Requests -> Op] /\ \A q \in Requests \ {p} : op'[q] = op[q]
          /\ op'[p] = Request("grant", r, next, {}, explicit \/ op[p].trial, op[p].trial)
    BY <1>6, GrantReadFields
  <2>2. op'[p].trial = op[p].trial
    BY <2>1, RequestFields
  <2>3. trials' = trials
    BY <1>6 DEF GrantRead
  <2> QED
    BY <1>3, <2>1, <2>2, <2>3
<1>7. ASSUME NEW p \in Requests, NEW r \in Rows, Suspend(p, r) \/ Revoke(p, r) PROVE TrialsInv'
  <2>1. PICK k \in {"suspended", "revoked"} :
          /\ op' \in [Requests -> Op] /\ \A q \in Requests \ {p} : op'[q] = op[q]
          /\ op'[p] = Request(k, r, 0, {}, FALSE, FALSE)
    BY <1>7, SuspendFields
  <2>2. op'[p].trial = FALSE
    BY <2>1 DEF Request
  <2>3. trials' = trials
    BY <1>7 DEF Suspend, Revoke
  <2> QED
    BY <1>3, <2>1, <2>2, <2>3
<1>8. ASSUME NEW p \in Requests, NEW r \in Rows, NEW term \in Terms, RenewRead(p, r, term)
      PROVE  TrialsInv'
  <2>1. /\ op' \in [Requests -> Op] /\ \A q \in Requests \ {p} : op'[q] = op[q]
        /\ op'[p] = Request("renew", r, NextExpiresAt(r, term), {}, FALSE, FALSE)
    BY <1>8, RenewReadFields
  <2>2. op'[p].trial = FALSE
    BY <2>1 DEF Request
  <2>3. trials' = trials
    BY <1>8 DEF RenewRead
  <2> QED
    BY <1>3, <2>1, <2>2, <2>3
<1>9. ASSUME NEW p \in Requests, NEW r \in Rows, ExpireRow(p, r) PROVE TrialsInv'
  <2>1. trials' = trials
    BY <1>9 DEF ExpireRow
  <2> QED
    BY <1>3, <1>9, <2>1, ExpireRowFields
<1>10. ASSUME NEW p \in Requests, FindNone(p) PROVE TrialsInv'
  <2>1. Existing = {} /\ Existing' = {} /\ trials' = trials
    BY <1>10 DEF FindNone, NeverHeld, rowVars, Existing
  <2> QED
    BY <1>0, <2>1 DEF TrialsInv
<1>11. ASSUME NEW p \in Requests, SyncLicence(p) PROVE TrialsInv'
  <2>1. trials' = trials
    BY <1>11 DEF SyncLicence
  <2> QED
    BY <1>3, <1>11, <2>1, SyncLicenceFields, IdleFields
<1>12. ASSUME NEW p \in Requests, RenewWrite(p) \/ Crash(p) PROVE TrialsInv'
  <2>1. trials' = trials /\ Returns(p) /\ OpTypeOK
    BY <1>12 DEF RenewWrite, Crash, OpTypeOK, EntitlementTypeOK
  <2> QED
    BY <1>3, <2>1, ReturnsFields, IdleFields
<1>13. ASSUME op' = op, trials' = trials PROVE TrialsInv'
  BY <1>2, <1>13 DEF Trying
<1> QED
  BY <1>4, <1>5, <1>6, <1>7, <1>8, <1>9, <1>10, <1>11, <1>12, <1>13
  DEF Next, vars, ProvisionLicence, ReissueLicence, Tick

-----------------------------------------------------------------------------
EntitlementInv ==
  /\ EntitlementTypeOK /\ RowsInv /\ GrantInv /\ OneOpenRow /\ LapsedInv /\ ExpiredIsOver
  /\ ExpiryInv /\ LicenceInv /\ TrialsInv

LEMMA EntitlementInvInit == Init => EntitlementInv
<1> SUFFICES ASSUME Init PROVE EntitlementInv
  OBVIOUS
<1>1. EntitlementTypeOK /\ RowsInv
  BY EntitlementInit
<1>2. \A p \in Requests : op[p].kind = "idle" /\ op[p].lapsed = {} /\ op[p].trial = FALSE
  BY IdleFields DEF Init
<1>3. OpenRows = {} /\ \A r \in Rows : status[r] = "absent" /\ licence[r] = "none"
  BY DEF Init, OpenRows, IsOpen
<1>4. GrantInv /\ OneOpenRow /\ LapsedInv /\ ExpiredIsOver /\ ExpiryInv
  BY <1>2, <1>3 DEF GrantInv, OneOpenRow, LapsedInv, ExpiredIsOver, ExpiryInv
<1>5. LicenceInv
  BY <1>2, <1>3 DEF LicenceInv, LicenceFits, IsOpen, Syncing
<1>6. TrialsInv
  <2>1. trials = 0
    BY DEF Init
  <2> QED
    BY <2>1, TryingIsFinite DEF TrialsInv
<1> QED
  BY <1>1, <1>4, <1>5, <1>6 DEF EntitlementInv

LEMMA EntitlementInvStep == EntitlementInv /\ [Next]_vars => EntitlementInv'
BY EntitlementTypeStep, RowsStep, OneOpenStep, LapsedStep, ExpiredStep, ExpiryStep, LicenceStep,
   TrialsStep
DEF EntitlementInv

LEMMA EntitlementInvHolds == Spec => []EntitlementInv
BY EntitlementInvInit, EntitlementInvStep, PTL DEF Spec

(* At most one open row: what a grant found open is all that may be open     *)
(* when it writes, because only a grant opens a row, and grants take turns.  *)
THEOREM OneOpenRowHolds == Spec => []OneOpenRow
BY EntitlementInvHolds, PTL DEF EntitlementInv

(* A row is expired only when its time is over.                              *)
THEOREM ExpiredIsOverHolds == Spec => []ExpiredIsOver
BY EntitlementInvHolds, PTL DEF EntitlementInv

(* The licence follows the row once nobody has it left to write.             *)
THEOREM LicenceFollows == Spec => []LicenceFollowsTheRow
<1>1. EntitlementInv => LicenceFollowsTheRow
  BY DEF EntitlementInv, LicenceInv, LicenceFollowsTheRow, Synced, LicenceFits
<1> QED
  BY <1>1, EntitlementInvHolds, PTL

(* Free trials are bounded by the requests that saw the product never held.  *)
THEOREM TrialsAreBounded == Spec => []TrialsBounded
<1>1. EntitlementInv => TrialsBounded
  BY DEF EntitlementInv, TrialsInv, TrialsBounded
<1> QED
  BY <1>1, EntitlementInvHolds, PTL

(* No step brings the date to which an active entitlement is paid forward,   *)
(* whatever the terms; access without an end may be given one.               *)
THEOREM PaidTimeKept == Spec => PaidTimeIsKept
<1>1. EntitlementInv /\ [Next]_vars
        => [\A r \in Rows \ disturbed' :
              status[r] = "active" /\ until[r] # Forever => until'[r] >= until[r]]_vars
  BY PaidTimeStep DEF EntitlementInv, Dated
<1> QED
  BY <1>1, EntitlementInvHolds, PTL DEF Spec, PaidTimeIsKept

(* However requests overlap, a product has one open row, and a row that no   *)
(* overlap disturbed is expired only when its time is over.                  *)
THEOREM RowsAreSoundHolds == Spec => []RowsAreSound
BY OneOpenRowHolds, ExpiredIsOverHolds, PTL DEF RowsAreSound
=============================================================================
