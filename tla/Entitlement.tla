----------------------------- MODULE Entitlement -----------------------------
(***************************************************************************)
(* The entitlements of one principal to one product, and their licences:   *)
(* EntitlementService of packages/entitlement on PostgreSQL, with the      *)
(* callers in packages/reseller, packages/licensing and apps/api that      *)
(* decide what they may do from the rows it returned.                      *)
(*                                                                         *)
(* Grants hold an advisory lock on the principal and product.  Expiry,     *)
(* suspension, revocation and renewal do not, write a row by its id from   *)
(* what they read before, and write the licence in a second statement.     *)
(* Which order item a grant is for, and what it does on redelivery, is in  *)
(* Fulfilment.                                                             *)
(***************************************************************************)
EXTENDS Naturals, FiniteSets

CONSTANTS
  Requests,  \* requests that may be in progress at once
  Named,     \* the expiry dates an admin or a partner may name
  Terms,     \* the plans' accessTermDays, NoTerm where it is null
  MaxRows,   \* a bound on the rows
  MaxTime,   \* a bound on the clock
  MaxUntil   \* a bound on the dates of expiresAt

NoTerm == 0                \* a perpetual plan
Forever == MaxUntil + 1    \* expiresAt is null; later than every date

ASSUME EntitlementAssumption ==
  /\ IsFiniteSet(Requests)
  /\ Terms \subseteq Nat
  /\ {MaxRows, MaxTime, MaxUntil} \subseteq Nat
  /\ Named \subseteq 0 .. Forever

Rows == 1 .. MaxRows
NoRow == 0

VARIABLES
  now,        \* the clock
  status,     \* entitlements.status, "absent" before the row exists
  until,      \* entitlements.expiresAt
  licence,    \* licenses.status of the row, or "none"
  deferred,   \* rows granted with a startsAt that is ahead
  op,         \* what each request is doing
  trials,     \* free trials granted
  revived,    \* a suspension reopened a row that was closed
  disturbed   \* rows on which operations overlapped, or one was cut short,
              \* or that were changed while closed or suspended

rowVars == <<status, until, licence, deferred>>
vars == <<now, status, until, licence, deferred, op, trials, revived, disturbed>>

Request(kind, row, expiry, lapsed, provision, trial) ==
  [kind |-> kind, row |-> row, until |-> expiry, lapsed |-> lapsed,
   provision |-> provision, trial |-> trial]

Idle == Request("idle", NoRow, 0, {}, FALSE, FALSE)

Init ==
  /\ now = 0
  /\ status = [r \in Rows |-> "absent"]
  /\ until = [r \in Rows |-> 0]
  /\ licence = [r \in Rows |-> "none"]
  /\ deferred = {}
  /\ op = [p \in Requests |-> Idle]
  /\ trials = 0
  /\ revived = FALSE
  /\ disturbed = {}

Existing == {r \in Rows : status[r] # "absent"}

IsOpen(r) == status[r] \in {"active", "suspended"}
OpenRows == {r \in Rows : IsOpen(r)}

(* The row is active and expires, but not yet.                               *)
RunsOn(r) ==
  r # NoRow /\ status[r] = "active" /\ until[r] # Forever /\ until[r] > now

(* isEntitlementActive, when the rows of early have not begun                *)
IsActive(r, early) ==
  /\ status[r] = "active"
  /\ r \notin early
  /\ until[r] = Forever \/ until[r] > now

Starts(p, o) == op[p] = Idle /\ op' = [op EXCEPT ![p] = o]
Returns(p) == op' = [op EXCEPT ![p] = Idle]

Reading == {"resolve", "expired"}

(* Another request is at work on row r.  Two that only expire lapsed rows do *)
(* not disturb each other.                                                   *)
Overlaps(p, r) ==
  \E q \in Requests \ {p} :
    /\ r \in {op[q].row} \cup op[q].lapsed
    /\ ~(op[p].kind \in Reading /\ op[q].kind \in Reading)

Writes(p, r) == disturbed' = IF Overlaps(p, r) THEN disturbed \cup {r} ELSE disturbed

(* The same, of an operation that does not look whether the row is open.     *)
WritesUnseen(p, r) ==
  disturbed' = IF Overlaps(p, r) \/ ~IsOpen(r) THEN disturbed \cup {r} ELSE disturbed

-----------------------------------------------------------------------------
(* withPrincipalLock                                                         *)
LockForgotten == TRUE   \* faulty
Unlocked == \A q \in Requests : op[q].kind # "grant"

TermFromNow(term) == IF term = NoTerm THEN Forever ELSE now + term
FromToday(r, term) == TermFromNow(term)   \* faulty

(* nextExpiresAt: a term is added to a date that is still ahead.  A row that *)
(* never expires has no such date, and its new term starts now.              *)
NextExpiresAt(r, term) ==
  IF term # NoTerm /\ RunsOn(r) THEN until[r] + term ELSE TermFromNow(term)

InBounds(r, term) == term = NoTerm \/ NextExpiresAt(r, term) <= MaxUntil

(* grantOn reads an open row, if there is one.  A partner's issue and an     *)
(* admin name the expiry themselves, a date or none; an order's grant leaves *)
(* the licence for later.                                                    *)
GrantRead(p, explicit) ==
  /\ Unlocked
  /\ op[p] = Idle \/ (op[p].kind = "trial" /\ ~explicit)
  /\ \E next \in 0 .. Forever, r \in IF OpenRows = {} THEN {NoRow} ELSE OpenRows :
       /\ IF explicit THEN next \in Named
          ELSE \E term \in Terms : InBounds(r, term) /\ next = NextExpiresAt(r, term)
       /\ r = NoRow => Existing # Rows
       /\ op' = [op EXCEPT ![p] = Request("grant", r, next, {}, explicit \/ op[p].trial,
                                          op[p].trial)]
       /\ disturbed' = IF r # NoRow /\ explicit THEN disturbed \cup {r} ELSE disturbed
  /\ UNCHANGED <<now, rowVars, trials, revived>>

(* An admin may name the start of a new row too.                             *)
GrantCommit(p) ==
  LET fresh == op[p].row = NoRow
      r == IF fresh THEN Cardinality(Existing) + 1 ELSE op[p].row
  IN /\ op[p].kind = "grant"
     /\ status' = [status EXCEPT ![r] = "active"]
     /\ until' = [until EXCEPT ![r] = op[p].until]
     /\ licence' = [licence EXCEPT ![r] = IF op[p].provision THEN "active" ELSE @]
     /\ \/ deferred' = deferred
        \/ fresh /\ op[p].provision /\ ~op[p].trial /\ deferred' = deferred \cup {r}
     /\ trials' = IF op[p].trial THEN trials + 1 ELSE trials
     /\ Writes(p, r)
     /\ Returns(p)
     /\ UNCHANGED <<now, revived>>

(* provisionLicenseIfRequired: an insert under the lock when there is none   *)
ProvisionLicence(r) ==
  /\ Unlocked
  /\ r \in Existing /\ licence[r] = "none"
  /\ licence' = [licence EXCEPT ![r] = "active"]
  /\ disturbed' = IF status[r] = "active" THEN disturbed ELSE disturbed \cup {r}
  /\ UNCHANGED <<now, status, until, deferred, op, trials, revived>>

(* reissueLicense does not look at the row.                                  *)
ReissueLicence(r) ==
  /\ Unlocked
  /\ licence[r] # "none"
  /\ licence' = [licence EXCEPT ![r] = "active"]
  /\ disturbed' = IF status[r] = "active" THEN disturbed ELSE disturbed \cup {r}
  /\ UNCHANGED <<now, status, until, deferred, op, trials, revived>>

-----------------------------------------------------------------------------
NotOpen == OpenRows = {}   \* faulty
(* isEligibleForFreeTrial                                                    *)
NeverHeld == Existing = {}

Lapsed(r, early) == status[r] = "active" /\ ~IsActive(r, early)

(* resolveEntitlementsForPrincipal lists the rows, and expires the lapsed.   *)
(* Whether a row that was granted for later has begun is left open.          *)
Resolve(p) ==
  /\ \E early \in SUBSET deferred, lapsed \in SUBSET Rows \ {{}} :
       /\ lapsed = {r \in Rows : Lapsed(r, early)}
       /\ Starts(p, Request("resolve", NoRow, 0, lapsed, FALSE, FALSE))
  /\ UNCHANGED <<now, rowVars, trials, revived, disturbed>>

(* tryGrantFreeTrialOnce lists them, and goes on to grant when it finds none.*)
FindNone(p) ==
  /\ NeverHeld
  /\ Starts(p, Request("trial", NoRow, 0, {}, FALSE, TRUE))
  /\ UNCHANGED <<now, rowVars, trials, revived, disturbed>>

ExpireRow(p, r) ==
  /\ op[p].kind = "resolve" /\ r \in op[p].lapsed
  /\ status' = [status EXCEPT ![r] = "expired"]
  /\ op' = [op EXCEPT ![p].kind = "expired", ![p].row = r, ![p].lapsed = @ \ {r}]
  /\ Writes(p, r)
  /\ UNCHANGED <<now, until, licence, deferred, trials, revived>>

-----------------------------------------------------------------------------
(* setStatus and revokeEntitlement, by an admin or after a refund            *)
Suspend(p, r) ==
  /\ r \in Existing
  /\ Starts(p, Request("suspended", r, 0, {}, FALSE, FALSE))
  /\ status' = [status EXCEPT ![r] = "suspended"]
  /\ revived' = (revived \/ ~IsOpen(r))
  /\ WritesUnseen(p, r)
  /\ UNCHANGED <<now, until, licence, deferred, trials>>

Revoke(p, r) ==
  /\ r \in Existing
  /\ Starts(p, Request("revoked", r, 0, {}, FALSE, FALSE))
  /\ status' = [status EXCEPT ![r] = "revoked"]
  /\ Writes(p, r)
  /\ UNCHANGED <<now, until, licence, deferred, trials, revived>>

NeverRevoked(p) == "suspended"   \* faulty
LicenceAfter(p) == IF op[p].kind = "revoked" THEN "revoked" ELSE "suspended"

(* syncLicense, the second statement; the next lapsed row comes after it.    *)
SyncLicence(p) ==
  LET r == op[p].row
  IN /\ op[p].kind \in {"expired", "suspended", "revoked"}
     /\ licence' = [licence EXCEPT ![r] = IF @ = "none" THEN @ ELSE LicenceAfter(p)]
     /\ IF op[p].lapsed # {}
        THEN op' = [op EXCEPT ![p].kind = "resolve", ![p].row = NoRow]
        ELSE Returns(p)
     /\ Writes(p, r)
     /\ UNCHANGED <<now, status, until, deferred, trials, revived>>

(* renewIssue reads the row, debits, then calls updateEntitlement, which     *)
(* sets the expiry and leaves the status.                                    *)
RenewRead(p, r, term) ==
  /\ r \in Existing
  /\ InBounds(r, term)
  /\ Starts(p, Request("renew", r, NextExpiresAt(r, term), {}, FALSE, FALSE))
  /\ UNCHANGED <<now, rowVars, trials, revived, disturbed>>

RenewWrite(p) ==
  /\ op[p].kind = "renew"
  /\ until' = [until EXCEPT ![op[p].row] = op[p].until]
  /\ WritesUnseen(p, op[p].row)
  /\ Returns(p)
  /\ UNCHANGED <<now, status, licence, deferred, trials, revived>>

-----------------------------------------------------------------------------
(* The process dies.  A row whose licence was not written yet is left so.    *)
Crash(p) ==
  /\ op[p] # Idle
  /\ disturbed' = IF op[p].kind \in {"expired", "suspended", "revoked"}
                  THEN disturbed \cup {op[p].row} ELSE disturbed
  /\ Returns(p)
  /\ UNCHANGED <<now, rowVars, trials, revived>>

Tick ==
  /\ now < MaxTime
  /\ now' = now + 1
  /\ UNCHANGED <<rowVars, op, trials, revived, disturbed>>

Next ==
  \/ \E p \in Requests :
       \/ \E explicit \in BOOLEAN : GrantRead(p, explicit)
       \/ GrantCommit(p)
       \/ Resolve(p) \/ FindNone(p)
       \/ \E r \in Rows : ExpireRow(p, r) \/ Suspend(p, r) \/ Revoke(p, r)
       \/ \E r \in Rows, term \in Terms : RenewRead(p, r, term)
       \/ SyncLicence(p) \/ RenewWrite(p) \/ Crash(p)
  \/ \E r \in Rows : ProvisionLicence(r) \/ ReissueLicence(r)
  \/ Tick

Spec == Init /\ [][Next]_vars

-----------------------------------------------------------------------------
Statuses == {"active", "suspended", "expired", "revoked"}
OpKinds == {"idle", "grant", "trial", "renew", "suspended", "revoked"} \cup Reading

Op == [kind : OpKinds, row : Rows \cup {NoRow}, until : 0 .. Forever,
       lapsed : SUBSET Rows, provision : BOOLEAN, trial : BOOLEAN]

(* Every variable has its type, and rows are inserted in order.              *)
EntitlementTypeOK ==
  /\ now \in 0 .. MaxTime
  /\ status \in [Rows -> Statuses \cup {"absent"}]
  /\ until \in [Rows -> 0 .. Forever]
  /\ licence \in [Rows -> {"none", "active", "suspended", "revoked"}]
  /\ op \in [Requests -> Op]
  /\ trials \in Nat
  /\ revived \in BOOLEAN
  /\ {deferred, disturbed} \subseteq SUBSET Rows
  /\ \A r \in Existing : 1 .. r \subseteq Existing

(* A principal has at most one open entitlement to a product, unless a       *)
(* suspension reopened one that had expired or been revoked.                 *)
OneOpenRow == ~revived => \A r, s \in OpenRows : r = s

(* An entitlement is expired only when its time is over, and never when it   *)
(* has no end: expiry acts on what it read before, and a grant or a renewal  *)
(* in between is what disturbs it.  A row that was granted for later and     *)
(* looked at before its start is the exception: the look-up expires it.      *)
ExpiredIsOver ==
  \A r \in Rows \ (disturbed \cup deferred) :
    status[r] = "expired" => until[r] # Forever /\ until[r] <= now

(* The rows of a product are sound: one is open, and none expired too early. *)
RowsAreSound == OneOpenRow /\ ExpiredIsOver

(* Once the operations on a row are over, its licence is not active when the *)
(* row is closed or suspended, and is revoked only with the row.             *)
LicenceFollowsTheRow ==
  \A r \in Rows \ disturbed :
    (\A p \in Requests : op[p].row # r) =>
      /\ status[r] \in {"expired", "suspended"} => licence[r] \in {"none", "suspended"}
      /\ status[r] = "revoked" => licence[r] \in {"none", "revoked"}
      /\ IsOpen(r) => licence[r] # "revoked"

(* Eligibility for the free trial is read before the grant takes its lock:   *)
(* a product gives no more trials than requests found it never held.         *)
Trying == {p \in Requests : op[p].trial}

TrialsBounded == Existing # {} => trials + Cardinality(Trying) <= Cardinality(Requests)

(* Paid time is not taken back: no step brings the expiry date of an active  *)
(* entitlement forward, unless operations on it overlapped or a partner's    *)
(* issue or an admin named the expiry.  Access without an end is not kept: a *)
(* grant or renewal of a fixed term gives it one, counted from today.        *)
PaidTimeIsKept ==
  [][\A r \in Rows \ disturbed' :
       status[r] = "active" /\ until[r] # Forever => until'[r] >= until[r]]_vars
=============================================================================
