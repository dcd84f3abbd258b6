------------------------------- MODULE Seats -------------------------------
(***************************************************************************)
(* Devices and seats: LicensingService of packages/licensing, on           *)
(* PostgreSQL, for the devices and licences of one account.                *)
(*                                                                         *)
(* Activation counts the seats of a licence under a lock on the licence's  *)
(* row; deactivation, removal and blocking take seats away without it, in  *)
(* a statement per seat, and every operation reads the device before and   *)
(* writes it after.  Whether the account may use a licence at all          *)
(* (requireAccess) is left open: a refused request changes nothing.  The   *)
(* account's licences and their device limits do not change here.          *)
(***************************************************************************)
EXTENDS Naturals, FiniteSets

CONSTANTS
  Devices,       \* installations of one account
  Licences,      \* its licences
  Requests,      \* requests that may be in progress at once
  Limit,         \* resolveDeviceLimit
  MaxTransfers,  \* resolveDeviceTransferLimit
  None

ASSUME SeatsAssumption ==
  /\ IsFiniteSet(Devices) /\ IsFiniteSet(Requests)
  /\ Limit \in Nat /\ MaxTransfers \in Nat
  /\ None \notin Devices /\ None \notin Licences

VARIABLES
  status,    \* devices.status, "absent" before the row exists
  removed,   \* devices with removedAt, which nothing clears
  seats,     \* for each licence, the devices with an active activation
  cooling,   \* a deactivatedAt of the account is within the cooldown
  used,      \* the owner's removal events within the transfer window
  op,        \* what each request is doing
  crossed,   \* devices of which two operations that disagree overlapped
  barred     \* devices for which blockDevice has succeeded

deviceVars == <<status, removed>>
limitVars == <<cooling, used>>
vars == <<status, removed, seats, cooling, used, op, crossed, barred>>

DeviceStatus == {"active", "deactivated", "blocked"}

Activating == {"activate", "seating"}
Unseating == {"deactivate", "remove", "bypass", "block"}

Idle == [kind |-> "idle", dev |-> None, lic |-> None, saw |-> "active",
         seated |-> FALSE, todo |-> {}]

Init ==
  /\ status = [d \in Devices |-> "absent"]
  /\ removed = {}
  /\ seats = [l \in Licences |-> {}]
  /\ cooling = FALSE
  /\ used = 0
  /\ op = [p \in Requests |-> Idle]
  /\ crossed = {}
  /\ barred = {}

(* Two operations on one device that overlap and leave it in different       *)
(* states.                                                                   *)
Disagree(j, k) ==
  \/ j \in Activating /\ k \in Unseating
  \/ k \in Activating /\ j \in Unseating
  \/ j # k /\ "block" \in {j, k} /\ {j, k} \subseteq Unseating

Crosses(k, d) == \E q \in Requests : op[q].dev = d /\ Disagree(op[q].kind, k)

Starts(p, o) ==
  /\ op[p] = Idle
  /\ op' = [op EXCEPT ![p] = o]
  /\ crossed' = IF Crosses(o.kind, o.dev) THEN crossed \cup {o.dev} ELSE crossed

Goes(p, k) == op' = [op EXCEPT ![p].kind = k]
Returns(p) == op' = [op EXCEPT ![p] = Idle]

-----------------------------------------------------------------------------
(* getOrCreateDevice: the device is read, or inserted, before the lock.      *)
ActivateRead(p, d, l) ==
  /\ status[d] # "blocked"
  /\ status' = [status EXCEPT ![d] = IF @ = "absent" THEN "active" ELSE @]
  /\ Starts(p, [Idle EXCEPT !.kind = "activate", !.dev = d, !.lic = l, !.saw = status'[d]])
  /\ UNCHANGED <<removed, seats, cooling, used, barred>>

LockForgotten(l) == TRUE   \* faulty
Unlocked(l) == \A q \in Requests : ~(op[q].kind = "seating" /\ op[q].lic = l)

(* Under the lock: the device's own seat, or room for one more.              *)
ActivateLock(p) ==
  LET d == op[p].dev
      l == op[p].lic
  IN /\ op[p].kind = "activate"
     /\ Unlocked(l)
     /\ IF d \in seats[l] \/ Cardinality(seats[l]) < Limit
        THEN op' = [op EXCEPT ![p].kind = "seating", ![p].seated = d \in seats[l]]
        ELSE Returns(p)
     /\ UNCHANGED <<status, removed, seats, cooling, used, crossed, barred>>

(* A new activation row is not among the rows that a blockDevice in progress *)
(* has listed.                                                               *)
NotListed(p, q) ==
  IF op[q].kind = "block" /\ op[q].dev = op[p].dev /\ ~op[p].seated
  THEN [op[q] EXCEPT !.todo = @ \ {op[p].lic}]
  ELSE op[q]

StatusWhenActivated(p) == IF op[p].saw = "deactivated" THEN "active" ELSE status[op[p].dev]

ActivateCommit(p) ==
  /\ op[p].kind = "seating"
  /\ status' = [status EXCEPT ![op[p].dev] = StatusWhenActivated(p)]
  /\ seats' = IF op[p].seated THEN seats
              ELSE [seats EXCEPT ![op[p].lic] = @ \cup {op[p].dev}]
  /\ op' = [q \in Requests |-> IF q = p THEN Idle ELSE NotListed(p, q)]
  /\ UNCHANGED <<removed, cooling, used, crossed, barred>>

RefreshRead(p, d, l) ==
  /\ status[d] = "active"
  /\ Starts(p, [Idle EXCEPT !.kind = "refresh", !.dev = d, !.lic = l])
  /\ UNCHANGED <<status, removed, seats, cooling, used, barred>>

StillSeated(p) == op[p].dev \in seats[op[p].lic]

(* The lease itself is signed data; that it is issued is this step.          *)
RefreshCommit(p) ==
  /\ op[p].kind = "refresh"
  /\ Unlocked(op[p].lic)
  /\ StillSeated(p)
  /\ Returns(p)
  /\ UNCHANGED <<status, removed, seats, cooling, used, crossed, barred>>

RefreshRefused(p) ==
  /\ op[p].kind = "refresh"
  /\ ~StillSeated(p)
  /\ Returns(p)
  /\ UNCHANGED <<status, removed, seats, cooling, used, crossed, barred>>

-----------------------------------------------------------------------------
MayDeactivateBlocked(d) == status[d] # "absent"   \* faulty
MayDeactivate(d) == status[d] \in {"active", "deactivated"}

DeactivateRead(p, d) ==
  /\ MayDeactivate(d)
  /\ ~cooling
  /\ Starts(p, [Idle EXCEPT !.kind = "deactivate", !.dev = d, !.todo = Licences])
  /\ UNCHANGED <<status, removed, seats, cooling, used, barred>>

QuotaReached == used <= MaxTransfers   \* faulty
QuotaLeft == used < MaxTransfers

(* A device removed before and deactivated now is returned as it is.  With   *)
(* bypassTransferQuota the quota is not asked for, and such a removal is not *)
(* counted either; nor is one by another actor than the owner.               *)
RemoveRead(p, d, k) ==
  /\ status[d] \in {"active", "deactivated"}
  /\ ~(status[d] = "deactivated" /\ d \in removed)
  /\ ~cooling
  /\ k = "remove" => QuotaLeft
  /\ Starts(p, [Idle EXCEPT !.kind = k, !.dev = d, !.todo = Licences])
  /\ UNCHANGED <<status, removed, seats, cooling, used, barred>>

(* blockDevice lists the activations once, and writes them by id.            *)
BlockRead(p, d) ==
  /\ status[d] # "absent"
  /\ Starts(p, [Idle EXCEPT !.kind = "block", !.dev = d,
                            !.todo = {l \in Licences : d \in seats[l]}])
  /\ UNCHANGED <<status, removed, seats, cooling, used, barred>>

(* deactivateActivation, without the licence's lock                          *)
Unseat(p, l) ==
  /\ op[p].kind \in Unseating
  /\ l \in op[p].todo
  /\ op' = [op EXCEPT ![p].todo = @ \ {l}]
  /\ seats' = [seats EXCEPT ![l] = @ \ {op[p].dev}]
  /\ cooling' = (cooling \/ op[p].kind = "block" \/ op[p].dev \in seats[l])
  /\ UNCHANGED <<status, removed, used, crossed, barred>>

Unseated(p, k) == op[p].kind = k /\ op[p].todo = {}

StatusWhenUnseated == "deactivated"

DeactivateFinish(p) ==
  /\ Unseated(p, "deactivate")
  /\ status' = [status EXCEPT ![op[p].dev] = StatusWhenUnseated]
  /\ Returns(p)
  /\ UNCHANGED <<removed, seats, cooling, used, crossed, barred>>

RemoveMark(p) ==
  /\ \/ Unseated(p, "remove") /\ Goes(p, "count")
     \/ Unseated(p, "bypass") /\ Returns(p)
  /\ status' = [status EXCEPT ![op[p].dev] = StatusWhenUnseated]
  /\ removed' = removed \cup {op[p].dev}
  /\ UNCHANGED <<seats, cooling, used, crossed, barred>>

(* insertRemovalEvent of a removal that countRemovalEventsSince counts       *)
RemoveCount(p) ==
  /\ op[p].kind = "count"
  /\ used' = used + 1
  /\ Returns(p)
  /\ UNCHANGED <<status, removed, seats, cooling, crossed, barred>>

BlockFinish(p) ==
  /\ Unseated(p, "block")
  /\ status' = [status EXCEPT ![op[p].dev] = "blocked"]
  /\ barred' = barred \cup {op[p].dev}
  /\ Returns(p)
  /\ UNCHANGED <<removed, seats, cooling, used, crossed>>

(* The process dies, or a statement fails: what was committed stays.         *)
Crash(p) ==
  /\ op[p] # Idle
  /\ Returns(p)
  /\ UNCHANGED <<status, removed, seats, cooling, used, crossed, barred>>

CoolDown ==
  /\ cooling
  /\ cooling' = FALSE
  /\ UNCHANGED <<status, removed, seats, used, op, crossed, barred>>

RemovalLeavesWindow ==
  /\ used > 0
  /\ used' = used - 1
  /\ UNCHANGED <<status, removed, seats, cooling, op, crossed, barred>>

Next ==
  \/ \E p \in Requests :
       \/ \E d \in Devices, l \in Licences : ActivateRead(p, d, l) \/ RefreshRead(p, d, l)
       \/ ActivateLock(p) \/ ActivateCommit(p)
       \/ RefreshCommit(p) \/ RefreshRefused(p)
       \/ \E d \in Devices : DeactivateRead(p, d) \/ BlockRead(p, d)
       \/ \E d \in Devices, k \in {"remove", "bypass"} : RemoveRead(p, d, k)
       \/ \E l \in Licences : Unseat(p, l)
       \/ DeactivateFinish(p) \/ RemoveMark(p) \/ RemoveCount(p) \/ BlockFinish(p)
       \/ Crash(p)
  \/ CoolDown \/ RemovalLeavesWindow

Spec == Init /\ [][Next]_vars

-----------------------------------------------------------------------------
OpKinds == {"idle", "refresh", "count"} \cup Activating \cup Unseating

Op == [kind : OpKinds, dev : Devices \cup {None}, lic : Licences \cup {None},
       saw : DeviceStatus, seated : BOOLEAN, todo : SUBSET Licences]

(* Every variable has its type, and a request in progress has its device     *)
(* and, when it activates or refreshes, its licence.                         *)
SeatsTypeOK ==
  /\ status \in [Devices -> DeviceStatus \cup {"absent"}]
  /\ removed \subseteq Devices
  /\ seats \in [Licences -> SUBSET Devices]
  /\ cooling \in BOOLEAN
  /\ used \in Nat
  /\ op \in [Requests -> Op]
  /\ \A p \in Requests :
       /\ op[p].kind # "idle" => op[p].dev \in Devices
       /\ op[p].kind \in Activating \cup {"refresh"} => op[p].lic \in Licences
  /\ crossed \subseteq Devices
  /\ barred \subseteq Devices

(* A licence never has more active devices than its limit, whatever          *)
(* activations, removals and crashes overlap.                                *)
SeatsWithinLimit == \A l \in Licences : Cardinality(seats[l]) <= Limit

(* A device that is deactivated or blocked holds no seat, and a blocked      *)
(* device stays blocked, unless operations that disagree on it overlapped.   *)
OutOfServiceIsOut ==
  \A d \in Devices \ crossed :
    /\ status[d] # "active" => \A l \in Licences : d \notin seats[l]
    /\ d \in barred => status[d] = "blocked"

(* The transfer quota is read before the removal and counted after it: the   *)
(* owner's removals exceed it by those in progress at once, and no more,     *)
(* whatever is removed beside them without the quota.                        *)
Removing == {p \in Requests : op[p].kind \in {"remove", "count"}}

TransfersBounded ==
  Removing # {} => used + Cardinality(Removing) < MaxTransfers + Cardinality(Requests)
=============================================================================
