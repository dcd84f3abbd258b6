----------------------------- MODULE SeatsProofs -----------------------------
(***************************************************************************)
(* The seats of a licence never exceed its limit, and a device out of      *)
(* service holds none, for any devices, licences and number of requests    *)
(* that overlap and die.                                                   *)
(***************************************************************************)
EXTENDS Seats, FiniteSetTheorems, TLAPS

-----------------------------------------------------------------------------
(* A removal, with the quota or without.                                     *)
Removes(p, d) == \E k \in {"remove", "bypass"} : RemoveRead(p, d, k)

(* Types.                                                                    *)

LEMMA SeatsTypeInit == Init => SeatsTypeOK
<1> SUFFICES ASSUME Init PROVE SeatsTypeOK
  OBVIOUS
<1>1. Idle \in Op /\ Idle.kind = "idle"
  BY DEF Idle, Op, OpKinds, DeviceStatus
<1>2. op = [p \in Requests |-> Idle]
  BY DEF Init
<1>3. cooling \in BOOLEAN
  BY DEF Init
<1> QED
  BY <1>1, <1>2, <1>3 DEF Init, SeatsTypeOK, Activating

LEMMA StartsTypes ==
  ASSUME SeatsTypeOK, NEW p \in Requests, NEW o \in Op, Starts(p, o), o.dev \in Devices,
         o.kind \in Activating \cup {"refresh"} => o.lic \in Licences
  PROVE  /\ op' \in [Requests -> Op]
         /\ crossed' \subseteq Devices
         /\ \A q \in Requests :
              /\ op'[q].kind # "idle" => op'[q].dev \in Devices
              /\ op'[q].kind \in Activating \cup {"refresh"} => op'[q].lic \in Licences
BY DEF Starts, SeatsTypeOK

LEMMA ReturnsTypes ==
  ASSUME SeatsTypeOK, NEW p \in Requests, Returns(p)
  PROVE  /\ op' \in [Requests -> Op]
         /\ \A q \in Requests :
              /\ op'[q].kind # "idle" => op'[q].dev \in Devices
              /\ op'[q].kind \in Activating \cup {"refresh"} => op'[q].lic \in Licences
<1>1. Idle \in Op
  BY DEF Idle, Op, OpKinds, DeviceStatus
<1>2. Idle.kind = "idle"
  BY DEF Idle
<1> QED
  BY <1>1, <1>2 DEF Returns, SeatsTypeOK, Activating

LEMMA SeatsTypeStep == SeatsTypeOK /\ [Next]_vars => SeatsTypeOK'
<1> SUFFICES ASSUME SeatsTypeOK, [Next]_vars PROVE SeatsTypeOK'
  OBVIOUS
<1>1. CASE UNCHANGED vars
  BY <1>1 DEF vars, SeatsTypeOK
<1>2. ASSUME NEW p \in Requests, NEW d \in Devices, NEW l \in Licences, ActivateRead(p, d, l)
      PROVE  SeatsTypeOK'
  <2> DEFINE o == [Idle EXCEPT !.kind = "activate", !.dev = d, !.lic = l, !.saw = status'[d]]
  <2>1. status' \in [Devices -> DeviceStatus \cup {"absent"}] /\ status'[d] \in DeviceStatus
    BY <1>2 DEF ActivateRead, SeatsTypeOK, DeviceStatus
  <2>2. o \in Op /\ o.dev = d /\ o.lic = l
    BY <2>1 DEF Idle, Op, OpKinds, Activating
  <2>3. Starts(p, o)
    BY <1>2 DEF ActivateRead
  <2> HIDE DEF o
  <2> QED
    BY <1>2, <2>1, <2>2, <2>3, StartsTypes DEF ActivateRead, SeatsTypeOK
<1>3. ASSUME NEW p \in Requests, NEW d \in Devices, NEW l \in Licences, RefreshRead(p, d, l)
      PROVE  SeatsTypeOK'
  <2> DEFINE o == [Idle EXCEPT !.kind = "refresh", !.dev = d, !.lic = l]
  <2>1. o \in Op /\ o.dev = d /\ o.lic = l
    BY DEF Idle, Op, OpKinds, DeviceStatus
  <2>2. Starts(p, o)
    BY <1>3 DEF RefreshRead
  <2> HIDE DEF o
  <2> QED
    BY <1>3, <2>1, <2>2, StartsTypes DEF RefreshRead, SeatsTypeOK
<1>4. ASSUME NEW p \in Requests, NEW d \in Devices,
             DeactivateRead(p, d) \/ Removes(p, d) \/ BlockRead(p, d)
      PROVE  SeatsTypeOK'
  <2>1. PICK k \in Unseating, T \in SUBSET Licences :
          Starts(p, [Idle EXCEPT !.kind = k, !.dev = d, !.todo = T])
    <3>1. CASE DeactivateRead(p, d)
      BY <3>1 DEF DeactivateRead, Unseating
    <3>2. CASE Removes(p, d)
      BY <3>2 DEF Removes, RemoveRead, Unseating
    <3>3. CASE BlockRead(p, d)
      BY <3>3 DEF BlockRead, Unseating
    <3> QED
      BY <1>4, <3>1, <3>2, <3>3
  <2> DEFINE o == [Idle EXCEPT !.kind = k, !.dev = d, !.todo = T]
  <2>2. o \in Op /\ o.dev = d /\ o.kind = k
    BY DEF Idle, Op, OpKinds, Unseating, DeviceStatus
  <2>3. Starts(p, o)
    BY <2>1
  <2>4. k \notin Activating \cup {"refresh"}
    BY DEF Unseating, Activating
  <2> HIDE DEF o
  <2> QED
    BY <1>4, <2>2, <2>3, <2>4, StartsTypes
    DEF DeactivateRead, Removes, RemoveRead, BlockRead, SeatsTypeOK
<1>5. ASSUME NEW p \in Requests, ActivateLock(p) PROVE SeatsTypeOK'
  <2>1. CASE Returns(p)
    BY <1>5, <2>1, ReturnsTypes DEF ActivateLock, SeatsTypeOK
  <2>2. CASE op' = [op EXCEPT ![p].kind = "seating",
                              ![p].seated = op[p].dev \in seats[op[p].lic]]
    <3>1. op' \in [Requests -> Op]
      <4>1. op[p] \in Op /\ (op[p].dev \in seats[op[p].lic]) \in BOOLEAN
        BY DEF SeatsTypeOK
      <4>2. [op[p] EXCEPT !.kind = "seating", !.seated = op[p].dev \in seats[op[p].lic]] \in Op
        BY <4>1 DEF Op, OpKinds, Activating
      <4> QED
        BY <2>2, <4>2 DEF SeatsTypeOK
    <3>2. \A q \in Requests : op'[q].dev = op[q].dev /\ op'[q].lic = op[q].lic
            /\ (op'[q].kind = op[q].kind \/ (q = p /\ op[p].kind = "activate"))
      BY <1>5, <2>2 DEF ActivateLock, SeatsTypeOK, Op
    <3> QED
      BY <1>5, <3>1, <3>2 DEF ActivateLock, SeatsTypeOK, Activating
  <2> QED
    BY <1>5, <2>1, <2>2 DEF ActivateLock
<1>6. ASSUME NEW p \in Requests, ActivateCommit(p) PROVE SeatsTypeOK'
  <2>1. op[p] \in Op /\ op[p].dev \in Devices /\ op[p].lic \in Licences
    BY <1>6 DEF ActivateCommit, SeatsTypeOK, Activating
  <2>2. status' \in [Devices -> DeviceStatus \cup {"absent"}]
    BY <1>6, <2>1 DEF ActivateCommit, StatusWhenActivated, SeatsTypeOK, DeviceStatus
  <2>3. seats' \in [Licences -> SUBSET Devices]
    BY <1>6, <2>1 DEF ActivateCommit, SeatsTypeOK
  <2>4. Idle \in Op /\ Idle.kind = "idle"
    BY DEF Idle, Op, OpKinds, DeviceStatus
  <2>5. \A q \in Requests : /\ NotListed(p, q) \in Op
                            /\ NotListed(p, q).kind = op[q].kind
                            /\ NotListed(p, q).dev = op[q].dev
                            /\ NotListed(p, q).lic = op[q].lic
    BY DEF NotListed, SeatsTypeOK, Op
  <2>6. op' = [q \in Requests |-> IF q = p THEN Idle ELSE NotListed(p, q)]
    BY <1>6 DEF ActivateCommit
  <2>7. op' \in [Requests -> Op]
    BY <2>4, <2>5, <2>6
  <2>8. \A q \in Requests :
          /\ op'[q].kind # "idle" => op'[q].dev \in Devices
          /\ op'[q].kind \in Activating \cup {"refresh"} => op'[q].lic \in Licences
    BY <2>4, <2>5, <2>6 DEF SeatsTypeOK, Activating
  <2> QED
    BY <1>6, <2>2, <2>3, <2>7, <2>8 DEF ActivateCommit, SeatsTypeOK
<1>7. ASSUME NEW p \in Requests,
             RefreshCommit(p) \/ RefreshRefused(p) \/ DeactivateFinish(p) \/ BlockFinish(p)
               \/ RemoveCount(p) \/ Crash(p)
      PROVE  SeatsTypeOK'
  <2>1. Returns(p)
    BY <1>7 DEF RefreshCommit, RefreshRefused, DeactivateFinish, BlockFinish, RemoveCount, Crash
  <2>2. op[p].dev \in Devices \/ Crash(p) \/ RemoveCount(p)
    BY <1>7 DEF RefreshCommit, RefreshRefused, DeactivateFinish, BlockFinish, Unseated, SeatsTypeOK
  <2>3. /\ status' \in [Devices -> DeviceStatus \cup {"absent"}]
        /\ removed' = removed /\ seats' = seats /\ cooling' = cooling /\ crossed' = crossed
        /\ barred' \subseteq Devices
    BY <1>7, <2>2
    DEF RefreshCommit, RefreshRefused, DeactivateFinish, BlockFinish, RemoveCount, Crash,
        StatusWhenUnseated, DeviceStatus, SeatsTypeOK
  <2>4. used' \in Nat
    BY <1>7
    DEF RefreshCommit, RefreshRefused, DeactivateFinish, BlockFinish, RemoveCount, Crash,
      SeatsTypeOK
  <2> QED
    BY <2>1, <2>3, <2>4, ReturnsTypes DEF SeatsTypeOK
<1>8. ASSUME NEW p \in Requests, NEW l \in Licences, Unseat(p, l) PROVE SeatsTypeOK'
  <2>1. op' = [op EXCEPT ![p].todo = @ \ {l}] /\ seats' = [seats EXCEPT ![l] = @ \ {op[p].dev}]
    BY <1>8 DEF Unseat
  <2>2. op' \in [Requests -> Op]
    BY <2>1 DEF SeatsTypeOK, Op
  <2>3. \A q \in Requests : op'[q].dev = op[q].dev /\ op'[q].lic = op[q].lic
                            /\ op'[q].kind = op[q].kind
    BY <2>1 DEF SeatsTypeOK, Op
  <2>4. cooling' \in BOOLEAN
    BY <1>8 DEF Unseat
  <2>5. seats' \in [Licences -> SUBSET Devices]
    BY <2>1 DEF SeatsTypeOK
  <2> QED
    BY <1>8, <2>2, <2>3, <2>4, <2>5 DEF Unseat, SeatsTypeOK
<1>9. ASSUME NEW p \in Requests, RemoveMark(p) PROVE SeatsTypeOK'
  <2>0. CASE Unseated(p, "bypass")
    <3>1. Returns(p) /\ op[p].dev \in Devices
      BY <1>9, <2>0 DEF RemoveMark, Unseated, SeatsTypeOK
    <3>2. status' \in [Devices -> DeviceStatus \cup {"absent"}] /\ removed' \subseteq Devices
      BY <1>9, <3>1 DEF RemoveMark, StatusWhenUnseated, DeviceStatus, SeatsTypeOK
    <3> QED
      BY <1>9, <3>1, <3>2, ReturnsTypes DEF RemoveMark, SeatsTypeOK
  <2> SUFFICES ASSUME ~Unseated(p, "bypass") PROVE SeatsTypeOK'
    BY <2>0
  <2>1. op' = [op EXCEPT ![p].kind = "count"] /\ op[p].dev \in Devices
    BY <1>9 DEF RemoveMark, Goes, Unseated, SeatsTypeOK
  <2>2. op' \in [Requests -> Op]
    BY <2>1 DEF SeatsTypeOK, Op, OpKinds
  <2>3. \A q \in Requests : op'[q].dev = op[q].dev /\ op'[q].lic = op[q].lic
                            /\ (op'[q].kind = op[q].kind \/ (q = p /\ op'[q].kind = "count"))
    BY <2>1 DEF SeatsTypeOK, Op
  <2>4. status' \in [Devices -> DeviceStatus \cup {"absent"}] /\ removed' \subseteq Devices
    BY <1>9, <2>1 DEF RemoveMark, StatusWhenUnseated, DeviceStatus, SeatsTypeOK
  <2> QED
    BY <1>9, <2>1, <2>2, <2>3, <2>4 DEF RemoveMark, SeatsTypeOK, Activating
<1>10. CASE CoolDown \/ RemovalLeavesWindow
  <2>1. used' \in Nat
    BY <1>10 DEF CoolDown, RemovalLeavesWindow, SeatsTypeOK
  <2>2. cooling' \in BOOLEAN
    BY <1>10 DEF CoolDown, RemovalLeavesWindow, SeatsTypeOK
  <2> QED
    BY <1>10, <2>1, <2>2 DEF CoolDown, RemovalLeavesWindow, SeatsTypeOK
<1> QED
  BY <1>1, <1>2, <1>3, <1>4, <1>5, <1>6, <1>7, <1>8, <1>9, <1>10 DEF Next, Removes

-----------------------------------------------------------------------------
(* Seats.                                                                    *)

(* A licence is locked by one request, and a request that holds the lock and *)
(* will take a seat has found one free.                                      *)
RoomWhileLocked ==
  /\ \A p, q \in Requests :
       op[p].kind = "seating" /\ op[q].kind = "seating" /\ op[p].lic = op[q].lic => p = q
  /\ \A p \in Requests :
       op[p].kind = "seating" /\ ~op[p].seated => Cardinality(seats[op[p].lic]) < Limit

LEMMA SeatsAreFinite ==
  ASSUME SeatsTypeOK, NEW l \in Licences
  PROVE  IsFiniteSet(seats[l]) /\ Cardinality(seats[l]) \in Nat
BY SeatsAssumption, FS_Subset, FS_CardinalityType DEF SeatsTypeOK

(* A step that gives no seat and begins no seating.                          *)
LEMMA NoSeatTaken ==
  ASSUME SeatsTypeOK, SeatsTypeOK', SeatsWithinLimit, RoomWhileLocked,
         \A l \in Licences : seats'[l] \subseteq seats[l],
         \A q \in Requests : op'[q].kind = "seating" =>
           op[q].kind = "seating" /\ op'[q].lic = op[q].lic /\ op'[q].seated = op[q].seated
  PROVE  SeatsWithinLimit' /\ RoomWhileLocked'
<1>1. \A l \in Licences : Cardinality(seats'[l]) <= Cardinality(seats[l])
  BY SeatsAreFinite, FS_Subset
<1>2. \A l \in Licences : Cardinality(seats[l]) \in Nat /\ Cardinality(seats'[l]) \in Nat
  BY SeatsAreFinite, FS_Subset, FS_CardinalityType
<1>3. SeatsWithinLimit'
  BY <1>1, <1>2, SeatsAssumption DEF SeatsWithinLimit
<1>4. \A p \in Requests : op'[p].kind = "seating" => op[p].lic \in Licences
  BY DEF SeatsTypeOK, Activating
<1>5. RoomWhileLocked'
  BY <1>1, <1>2, <1>4, SeatsAssumption DEF RoomWhileLocked
<1> QED
  BY <1>3, <1>5

LEMMA LimitStep ==
  SeatsTypeOK /\ SeatsTypeOK' /\ SeatsWithinLimit /\ RoomWhileLocked /\ [Next]_vars
    => SeatsWithinLimit' /\ RoomWhileLocked'
<1> SUFFICES ASSUME SeatsTypeOK, SeatsTypeOK', SeatsWithinLimit, RoomWhileLocked, [Next]_vars
             PROVE  SeatsWithinLimit' /\ RoomWhileLocked'
  OBVIOUS
<1> DEFINE Keeps(q) == op'[q].kind = "seating" =>
             op[q].kind = "seating" /\ op'[q].lic = op[q].lic /\ op'[q].seated = op[q].seated
<1>1. CASE UNCHANGED vars \/ CoolDown \/ RemovalLeavesWindow
  BY <1>1, NoSeatTaken DEF vars, CoolDown, RemovalLeavesWindow
<1>2. ASSUME NEW p \in Requests, NEW o, o.kind # "seating", op' = [op EXCEPT ![p] = o],
             seats' = seats
      PROVE  SeatsWithinLimit' /\ RoomWhileLocked'
  <2>1. \A q \in Requests : Keeps(q)
    BY <1>2 DEF SeatsTypeOK
  <2> QED
    BY <1>2, <2>1, NoSeatTaken
<1>3. Idle.kind = "idle"
  BY DEF Idle
<1>4. ASSUME NEW p \in Requests, Returns(p), seats' = seats
      PROVE  SeatsWithinLimit' /\ RoomWhileLocked'
  BY <1>2, <1>3, <1>4 DEF Returns
<1>5. ASSUME NEW p \in Requests, NEW d \in Devices, NEW l \in Licences,
             ActivateRead(p, d, l) \/ RefreshRead(p, d, l)
      PROVE  SeatsWithinLimit' /\ RoomWhileLocked'
  <2>1. CASE ActivateRead(p, d, l)
    <3>1. [Idle EXCEPT !.kind = "activate", !.dev = d, !.lic = l, !.saw = status'[d]].kind
            # "seating"
      BY DEF Idle
    <3> QED
      BY <2>1, <3>1, <1>2 DEF ActivateRead, Starts
  <2>2. CASE RefreshRead(p, d, l)
    <3>1. [Idle EXCEPT !.kind = "refresh", !.dev = d, !.lic = l].kind # "seating"
      BY DEF Idle
    <3> QED
      BY <2>2, <3>1, <1>2 DEF RefreshRead, Starts
  <2> QED
    BY <1>5, <2>1, <2>2
<1>6. ASSUME NEW p \in Requests, NEW d \in Devices,
             DeactivateRead(p, d) \/ Removes(p, d) \/ BlockRead(p, d)
      PROVE  SeatsWithinLimit' /\ RoomWhileLocked'
  <2>1. \A q \in Requests : Keeps(q)
    <3>1. PICK k \in Unseating, T \in SUBSET Licences :
            op' = [op EXCEPT ![p] = [Idle EXCEPT !.kind = k, !.dev = d, !.todo = T]]
      BY <1>6 DEF DeactivateRead, Removes, RemoveRead, BlockRead, Starts, Unseating
    <3>2. [Idle EXCEPT !.kind = k, !.dev = d, !.todo = T].kind # "seating"
      BY DEF Idle, Unseating
    <3> QED
      BY <3>1, <3>2 DEF SeatsTypeOK
  <2> QED
    BY <1>6, <2>1, NoSeatTaken DEF DeactivateRead, Removes, RemoveRead, BlockRead
<1>7. ASSUME NEW p \in Requests, ActivateLock(p) PROVE SeatsWithinLimit' /\ RoomWhileLocked'
  <2>1. CASE Returns(p)
    BY <1>7, <2>1, <1>4 DEF ActivateLock
  <2>2. CASE ~Returns(p)
    <3>1. /\ op' = [op EXCEPT ![p].kind = "seating",
                              ![p].seated = op[p].dev \in seats[op[p].lic]]
          /\ op[p].dev \in seats[op[p].lic] \/ Cardinality(seats[op[p].lic]) < Limit
          /\ seats' = seats
          /\ \A q \in Requests : ~(op[q].kind = "seating" /\ op[q].lic = op[p].lic)
      BY <1>7, <2>2 DEF ActivateLock, Unlocked
    <3>2. op'[p].seated = (op[p].dev \in seats[op[p].lic]) /\ op'[p].lic = op[p].lic
          /\ \A q \in Requests \ {p} : op'[q] = op[q]
      BY <3>1 DEF SeatsTypeOK, Op
    <3>3. \A q, r \in Requests :
            op'[q].kind = "seating" /\ op'[r].kind = "seating" /\ op'[q].lic = op'[r].lic => q = r
      <4>1. \A q \in Requests : ~(op[q].kind = "seating" /\ op[q].lic = op[p].lic)
        BY <3>1
      <4>2. \A q, r \in Requests :
              op[q].kind = "seating" /\ op[r].kind = "seating" /\ op[q].lic = op[r].lic => q = r
        BY DEF RoomWhileLocked
      <4>3. op'[p].lic = op[p].lic
        BY <3>2
      <4>4. \A q \in Requests \ {p} : op'[q] = op[q]
        BY <3>2
      <4> QED
        BY <4>1, <4>2, <4>3, <4>4
    <3>4. ~op'[p].seated => Cardinality(seats'[op'[p].lic]) < Limit
      <4>1. ~op'[p].seated => op[p].dev \notin seats[op[p].lic]
        BY <3>2
      <4> QED
        BY <3>1, <3>2, <4>1
    <3>5. \A q \in Requests \ {p} :
            op'[q].kind = "seating" /\ ~op'[q].seated => Cardinality(seats'[op'[q].lic]) < Limit
      BY <3>1, <3>2 DEF RoomWhileLocked
    <3>6. RoomWhileLocked'
      BY <3>3, <3>4, <3>5 DEF RoomWhileLocked
    <3> QED
      BY <3>1, <3>6 DEF SeatsWithinLimit
  <2> QED
    BY <2>1, <2>2
<1>8. ASSUME NEW p \in Requests, ActivateCommit(p) PROVE SeatsWithinLimit' /\ RoomWhileLocked'
  <2> DEFINE d == op[p].dev
             l == op[p].lic
  <2>1. op[p].kind = "seating" /\ d \in Devices /\ l \in Licences
    BY <1>8 DEF ActivateCommit, SeatsTypeOK, Activating
  <2>2. \A q \in Requests \ {p} : /\ op'[q].kind = op[q].kind
                                  /\ op'[q].lic = op[q].lic
                                  /\ op'[q].seated = op[q].seated
    BY <1>8 DEF ActivateCommit, NotListed, SeatsTypeOK, Op
  <2>3. op'[p].kind # "seating"
    BY <1>8, <1>3 DEF ActivateCommit
  <2>4. CASE op[p].seated
    <3>1. \A q \in Requests : Keeps(q)
      BY <2>2, <2>3
    <3> QED
      BY <1>8, <2>4, <3>1, NoSeatTaken DEF ActivateCommit
  <2>5. CASE ~op[p].seated
    <3>1. seats' = [seats EXCEPT ![l] = @ \cup {d}] /\ Cardinality(seats[l]) < Limit
      BY <1>8, <2>1, <2>5 DEF ActivateCommit, RoomWhileLocked
    <3>2. Cardinality(seats'[l]) <= Cardinality(seats[l]) + 1 /\ Cardinality(seats'[l]) \in Nat
      <4>1. seats'[l] = seats[l] \cup {d}
        BY <2>1, <3>1 DEF SeatsTypeOK
      <4>2. IsFiniteSet(seats[l]) /\ Cardinality(seats[l]) \in Nat
        BY <2>1, SeatsAreFinite
      <4>3. Cardinality(seats[l] \cup {d})
              = IF d \in seats[l] THEN Cardinality(seats[l]) ELSE Cardinality(seats[l]) + 1
        BY <4>2, FS_AddElement
      <4> HIDE DEF d, l
      <4> QED
        BY <4>1, <4>2, <4>3
    <3>3. \A m \in Licences \ {l} : seats'[m] = seats[m]
      BY <2>1, <3>1 DEF SeatsTypeOK
    <3>4. SeatsWithinLimit'
      <4>1. Cardinality(seats[l]) \in Nat
        BY <2>1, SeatsAreFinite
      <4>2. Cardinality(seats'[l]) <= Limit
        BY <3>1, <3>2, <4>1, SeatsAssumption
      <4> QED
        BY <2>1, <3>3, <4>2 DEF SeatsWithinLimit
    <3>5. \A q \in Requests : op'[q].kind = "seating" => op'[q].lic # l /\ op'[q].lic \in Licences
      BY <2>1, <2>2, <2>3 DEF RoomWhileLocked, SeatsTypeOK, Activating
    <3>6. RoomWhileLocked'
      BY <2>2, <2>3, <3>3, <3>5 DEF RoomWhileLocked
    <3> QED
      BY <3>4, <3>6
  <2>6. op[p].seated \in BOOLEAN
    BY DEF SeatsTypeOK, Op
  <2> QED
    BY <2>4, <2>5, <2>6
<1>9. ASSUME NEW p \in Requests,
             RefreshCommit(p) \/ RefreshRefused(p) \/ DeactivateFinish(p) \/ BlockFinish(p)
               \/ RemoveCount(p) \/ Crash(p)
      PROVE  SeatsWithinLimit' /\ RoomWhileLocked'
  BY <1>9, <1>4
  DEF RefreshCommit, RefreshRefused, DeactivateFinish, BlockFinish, RemoveCount, Crash
<1>10. ASSUME NEW p \in Requests, RemoveMark(p) PROVE SeatsWithinLimit' /\ RoomWhileLocked'
  <2>1. \A q \in Requests : Keeps(q)
    BY <1>3, <1>10 DEF RemoveMark, Goes, Returns, SeatsTypeOK, Op
  <2> QED
    BY <1>10, <2>1, NoSeatTaken DEF RemoveMark
<1>11. ASSUME NEW p \in Requests, NEW l \in Licences, Unseat(p, l)
       PROVE  SeatsWithinLimit' /\ RoomWhileLocked'
  <2>1. \A q \in Requests : Keeps(q)
    BY <1>11 DEF Unseat, SeatsTypeOK, Op
  <2>2. \A m \in Licences : seats'[m] \subseteq seats[m]
    BY <1>11 DEF Unseat, SeatsTypeOK
  <2> QED
    BY <2>1, <2>2, NoSeatTaken
<1> QED
  BY <1>1, <1>5, <1>6, <1>7, <1>8, <1>9, <1>10, <1>11 DEF Next, Removes

LEMMA LimitInit == Init => SeatsWithinLimit /\ RoomWhileLocked
<1> SUFFICES ASSUME Init PROVE SeatsWithinLimit /\ RoomWhileLocked
  OBVIOUS
<1>1. \A l \in Licences : Cardinality(seats[l]) = 0
  <2>1. \A l \in Licences : seats[l] = {}
    BY DEF Init
  <2> QED
    BY <2>1, FS_EmptySet
<1>2. \A p \in Requests : op[p].kind = "idle"
  BY DEF Init, Idle
<1> QED
  BY <1>1, <1>2, SeatsAssumption DEF SeatsWithinLimit, RoomWhileLocked

-----------------------------------------------------------------------------
(* Service.                                                                  *)

(* What is known of a device no two operations have disagreed on: those in   *)
(* progress agree; an activation saw it in service or deactivated, and it    *)
(* still is; what unseats it has left no seat behind; once blocked it has    *)
(* nothing in progress that could change that.                               *)
OpsAgree(d) ==
  \A p, q \in Requests :
    op[p].dev = d /\ op[q].dev = d => ~Disagree(op[p].kind, op[q].kind)

SawItInService(d) ==
  \A p \in Requests : op[p].dev = d /\ op[p].kind \in Activating =>
    op[p].saw \in {"active", "deactivated"} /\ status[d] \in {"active", op[p].saw}

LeftNoSeat(d) ==
  \A p \in Requests : op[p].dev = d /\ op[p].kind \in Unseating =>
    \A l \in Licences \ op[p].todo : d \notin seats[l]

OnlyBlocksABlocked(d) ==
  d \in barred => \A p \in Requests :
    op[p].dev = d => op[p].kind \notin Activating \cup {"deactivate", "remove", "bypass"}

IsOut(d) ==
  /\ status[d] # "active" => \A l \in Licences : d \notin seats[l]
  /\ d \in barred => status[d] = "blocked"

Service(d) ==
  OpsAgree(d) /\ SawItInService(d) /\ LeftNoSeat(d) /\ OnlyBlocksABlocked(d) /\ IsOut(d)

(* A step that changes nothing of the device but seats it gives back.        *)
LEMMA QuietStep ==
  ASSUME NEW d \in Devices, Service(d), status'[d] = status[d],
         d \in barred' <=> d \in barred,
         \A l \in Licences : d \in seats'[l] => d \in seats[l],
         \A q \in Requests : op'[q].dev = d /\ op'[q].kind \in Activating \cup Unseating =>
           /\ op[q].dev = d /\ op'[q].saw = op[q].saw
           /\ op'[q].kind = op[q].kind \/ {op'[q].kind, op[q].kind} \subseteq Activating
           /\ \A l \in Licences \ op'[q].todo : l \in op[q].todo => d \notin seats'[l]
  PROVE  Service(d)'
<1>1. OpsAgree(d)'
  <2>1. \A j, k : Disagree(j, k) => j \in Activating \cup Unseating
          /\ k \in Activating \cup Unseating
    BY DEF Disagree
  <2>2. \A i, j, k : {i, j} \subseteq Activating => (Disagree(i, k) <=> Disagree(j, k))
    BY DEF Disagree, Activating, Unseating
  <2>3. \A j, k : Disagree(j, k) <=> Disagree(k, j)
    BY DEF Disagree
  <2> SUFFICES ASSUME NEW q \in Requests, NEW r \in Requests, op'[q].dev = d, op'[r].dev = d,
                      Disagree(op'[q].kind, op'[r].kind)
               PROVE  FALSE
    BY DEF OpsAgree
  <2>4. op[q].dev = d /\ op[r].dev = d
    BY <2>1
  <2>5. Disagree(op[q].kind, op'[r].kind)
    BY <2>1, <2>2
  <2>6. Disagree(op[q].kind, op[r].kind)
    BY <2>1, <2>2, <2>3, <2>5
  <2> QED
    BY <2>4, <2>6 DEF Service, OpsAgree
<1>2. SawItInService(d)'
  BY DEF Service, SawItInService, Activating, Unseating
<1>3. LeftNoSeat(d)'
  BY DEF Service, LeftNoSeat, Activating, Unseating
<1>4. OnlyBlocksABlocked(d)'
  BY DEF Service, OnlyBlocksABlocked, Activating, Unseating
<1>5. IsOut(d)'
  BY DEF Service, IsOut
<1> QED
  BY <1>1, <1>2, <1>3, <1>4, <1>5 DEF Service

(* An operation begins on the device, or on another.                         *)
LEMMA BeginStep ==
  ASSUME SeatsTypeOK, NEW d \in Devices, d \notin crossed', Service(d),
         status'[d] = status[d] \/ (status[d] = "absent" /\ status'[d] = "active"),
         seats' = seats, barred' = barred,
         NEW p \in Requests, NEW o \in Op, Starts(p, o),
         o.kind \in Activating /\ o.dev = d =>
           o.saw \in {"active", "deactivated"} /\ status'[d] = o.saw,
         o.kind \in {"deactivate", "remove", "bypass"} /\ o.dev = d => status[d] # "blocked",
         o.kind \in Unseating /\ o.dev = d => \A l \in Licences \ o.todo : d \notin seats[l]
  PROVE  Service(d)'
<1>1. op' = [op EXCEPT ![p] = o]
  BY DEF Starts
<1>2. op'[p] = o /\ \A q \in Requests \ {p} : op'[q] = op[q]
  BY <1>1 DEF SeatsTypeOK
<1>3. o.dev = d => \A q \in Requests : op[q].dev = d => ~Disagree(op[q].kind, o.kind)
  BY DEF Starts, Crosses
<1>4. OpsAgree(d)'
  <2>1. \A j, k : Disagree(j, k) <=> Disagree(k, j)
    BY DEF Disagree
  <2>2. \A k : ~Disagree(k, k)
    BY DEF Disagree, Activating, Unseating
  <2> QED
    BY <1>2, <1>3, <2>1, <2>2 DEF Service, OpsAgree
<1>5. SawItInService(d)'
  BY <1>2 DEF Service, SawItInService
<1>6. LeftNoSeat(d)'
  BY <1>2 DEF Service, LeftNoSeat
<1>7. OnlyBlocksABlocked(d)'
  <2>1. d \in barred => status[d] = "blocked" /\ status'[d] = "blocked"
    BY DEF Service, IsOut
  <2> QED
    BY <1>2, <2>1 DEF Service, OnlyBlocksABlocked
<1>8. IsOut(d)'
  BY DEF Service, IsOut
<1> QED
  BY <1>4, <1>5, <1>6, <1>7, <1>8 DEF Service

(* A request on the device commits an activation, or puts it out of service. *)
LEMMA FinishStep ==
  ASSUME SeatsTypeOK, NEW d \in Devices, d \notin crossed', Service(d),
         NEW p \in Requests, op[p].dev = d,
         ActivateCommit(p) \/ DeactivateFinish(p) \/ RemoveMark(p) \/ BlockFinish(p)
  PROVE  Service(d)'
<1>1. Idle.kind = "idle"
  BY DEF Idle
<1>2. CASE ActivateCommit(p)
  <2>1. op[p].kind = "seating" /\ op[p].lic \in Licences
    BY <1>2 DEF ActivateCommit, SeatsTypeOK, Activating
  <2>2. \A q \in Requests : op[q].dev = d => op[q].kind \notin Unseating
    BY <2>1 DEF Service, OpsAgree, Disagree, Activating
  <2>3. op'[p] = Idle /\ \A q \in Requests \ {p} : op'[q].dev = d => op'[q] = op[q]
    BY <1>2, <2>2 DEF ActivateCommit, NotListed, Unseating, SeatsTypeOK, Op
  <2>4. status[d] \in {"active", op[p].saw} /\ op[p].saw \in {"active", "deactivated"}
    BY <2>1 DEF Service, SawItInService, Activating
  <2>5. status'[d] = "active"
    BY <1>2, <2>4 DEF ActivateCommit, StatusWhenActivated, SeatsTypeOK
  <2>6. d \notin barred /\ barred' = barred
    BY <1>2, <2>1 DEF ActivateCommit, Service, OnlyBlocksABlocked, Activating
  <2>7. OpsAgree(d)'
    BY <1>1, <2>3 DEF Service, OpsAgree, Disagree, Activating, Unseating
  <2>8. SawItInService(d)'
    BY <1>1, <2>3, <2>5 DEF Service, SawItInService, Activating
  <2>9. LeftNoSeat(d)'
    BY <1>1, <2>2, <2>3 DEF LeftNoSeat, Unseating
  <2> QED
    BY <2>5, <2>6, <2>7, <2>8, <2>9 DEF Service, OnlyBlocksABlocked, IsOut
<1>3. CASE DeactivateFinish(p) \/ RemoveMark(p) \/ BlockFinish(p)
  <2>1. op[p].kind \in Unseating /\ op[p].todo = {} /\ seats' = seats
    BY <1>3 DEF DeactivateFinish, RemoveMark, BlockFinish, Unseated, Unseating
  <2>2. \A q \in Requests : op[q].dev = d => op[q].kind \notin Activating
    BY <2>1 DEF Service, OpsAgree, Disagree
  <2>3. /\ op'[p].kind \in {"idle", "count"}
        /\ \A q \in Requests \ {p} : op'[q] = op[q]
    BY <1>1, <1>3 DEF DeactivateFinish, RemoveMark, BlockFinish, Returns, Goes, SeatsTypeOK, Op
  <2>4. \A l \in Licences : d \notin seats[l]
    BY <2>1 DEF Service, LeftNoSeat
  <2>5. OpsAgree(d)'
    BY <2>3 DEF Service, OpsAgree, Disagree, Activating, Unseating
  <2>6. SawItInService(d)' /\ LeftNoSeat(d)'
    BY <2>1, <2>2, <2>3, <2>4 DEF SawItInService, LeftNoSeat, Activating, Unseating
  <2>7. CASE BlockFinish(p)
    <3>1. op[p].kind = "block" /\ status'[d] = "blocked"
      BY <2>7 DEF BlockFinish, Unseated, SeatsTypeOK
    <3>2. \A q \in Requests :
            op[q].dev = d => op[q].kind \notin Activating \cup {"deactivate", "remove", "bypass"}
      BY <2>2, <3>1 DEF Service, OpsAgree, Disagree, Unseating
    <3>3. OnlyBlocksABlocked(d)'
      BY <2>3, <3>2 DEF OnlyBlocksABlocked, Activating
    <3> QED
      BY <2>1, <2>4, <2>5, <2>6, <3>1, <3>3 DEF Service, IsOut
  <2>8. CASE DeactivateFinish(p) \/ RemoveMark(p)
    <3>1. op[p].kind \in {"deactivate", "remove", "bypass"} /\ barred' = barred
      BY <2>8 DEF DeactivateFinish, RemoveMark, Unseated
    <3>2. d \notin barred
      BY <3>1 DEF Service, OnlyBlocksABlocked
    <3> QED
      BY <2>1, <2>4, <2>5, <2>6, <3>1, <3>2 DEF Service, OnlyBlocksABlocked, IsOut
  <2> QED
    BY <1>3, <2>7, <2>8
<1> QED
  BY <1>2, <1>3

LEMMA ServiceStep ==
  ASSUME SeatsTypeOK, [Next]_vars, NEW d \in Devices, d \notin crossed', Service(d)
  PROVE  Service(d)'
<1>1. Idle.kind = "idle" /\ Idle.dev = None /\ d # None
  BY SeatsAssumption DEF Idle
<1>2. CASE UNCHANGED vars \/ CoolDown \/ RemovalLeavesWindow
  <2>1. UNCHANGED <<status, seats, op, barred>>
    BY <1>2 DEF vars, CoolDown, RemovalLeavesWindow
  <2> QED
    BY <2>1, QuietStep
<1>3. ASSUME NEW p \in Requests, Returns(p), UNCHANGED <<seats, barred>>, status'[d] = status[d]
      PROVE  Service(d)'
  <2>1. op'[p].kind = "idle" /\ \A q \in Requests \ {p} : op'[q] = op[q]
    BY <1>1, <1>3 DEF Returns, SeatsTypeOK
  <2> QED
    BY <1>3, <2>1, QuietStep DEF Activating, Unseating
<1>4. ASSUME NEW p \in Requests, NEW e \in Devices, NEW l \in Licences, ActivateRead(p, e, l)
      PROVE  Service(d)'
  <2> DEFINE o == [Idle EXCEPT !.kind = "activate", !.dev = e, !.lic = l, !.saw = status'[e]]
  <2>1. status'[e] \in DeviceStatus /\ status'[e] # "blocked"
    BY <1>4 DEF ActivateRead, SeatsTypeOK, DeviceStatus
  <2>2. status'[d] = status[d] \/ (status[d] = "absent" /\ status'[d] = "active")
    BY <1>4 DEF ActivateRead, SeatsTypeOK
  <2>3. o \in Op /\ o.dev = e /\ o.kind = "activate" /\ o.saw = status'[e]
    BY <2>1 DEF Idle, Op, OpKinds, Activating
  <2>4. Starts(p, o) /\ seats' = seats /\ barred' = barred
    BY <1>4 DEF ActivateRead
  <2> HIDE DEF o
  <2>5. o.kind \in Activating /\ o.dev = d =>
          o.saw \in {"active", "deactivated"} /\ status'[d] = o.saw
    BY <2>1, <2>3 DEF DeviceStatus
  <2>6. o.kind \notin {"deactivate", "remove", "bypass"} /\ o.kind \notin Unseating
    BY <2>3 DEF Unseating
  <2> QED
    BY <2>2, <2>3, <2>4, <2>5, <2>6, BeginStep
<1>5. ASSUME NEW p \in Requests, NEW e \in Devices, NEW l \in Licences, RefreshRead(p, e, l)
      PROVE  Service(d)'
  <2> DEFINE o == [Idle EXCEPT !.kind = "refresh", !.dev = e, !.lic = l]
  <2>1. o \in Op /\ o.kind \notin Activating \cup Unseating \cup {"deactivate", "remove", "bypass"}
    BY DEF Idle, Op, OpKinds, Activating, Unseating, DeviceStatus
  <2>2. Starts(p, o) /\ seats' = seats /\ barred' = barred /\ status' = status
    BY <1>5 DEF RefreshRead
  <2> HIDE DEF o
  <2> QED
    BY <2>1, <2>2, BeginStep
<1>6. ASSUME NEW p \in Requests, NEW e \in Devices,
             DeactivateRead(p, e) \/ Removes(p, e) \/ BlockRead(p, e)
      PROVE  Service(d)'
  <2>1. PICK k \in Unseating, T \in SUBSET Licences :
          /\ Starts(p, [Idle EXCEPT !.kind = k, !.dev = e, !.todo = T])
          /\ k \in {"deactivate", "remove", "bypass"} => status[e] # "blocked"
          /\ \A l \in Licences \ T : e \notin seats[l]
    <3>1. CASE DeactivateRead(p, e)
      BY <3>1 DEF DeactivateRead, MayDeactivate, Unseating
    <3>2. CASE Removes(p, e)
      BY <3>2 DEF Removes, RemoveRead, Unseating
    <3>3. CASE BlockRead(p, e)
      <4>1. \A l \in Licences \ {m \in Licences : e \in seats[m]} : e \notin seats[l]
        OBVIOUS
      <4> QED
        BY <3>3, <4>1 DEF BlockRead, Unseating
    <3> QED
      BY <1>6, <3>1, <3>2, <3>3
  <2> DEFINE o == [Idle EXCEPT !.kind = k, !.dev = e, !.todo = T]
  <2>2. o \in Op /\ o.dev = e /\ o.kind = k /\ o.todo = T
    BY DEF Idle, Op, OpKinds, Unseating, DeviceStatus
  <2>3. Starts(p, o)
    BY <2>1
  <2>4. k \notin Activating
    BY DEF Unseating, Activating
  <2>5. seats' = seats /\ barred' = barred /\ status' = status
    BY <1>6 DEF DeactivateRead, Removes, RemoveRead, BlockRead
  <2> HIDE DEF o
  <2> QED
    BY <2>1, <2>2, <2>3, <2>4, <2>5, BeginStep
<1>7. ASSUME NEW p \in Requests, ActivateLock(p) PROVE Service(d)'
  <2>1. UNCHANGED <<status, seats, barred>>
    BY <1>7 DEF ActivateLock
  <2>2. CASE Returns(p)
    BY <2>1, <2>2, <1>3
  <2>3. CASE ~Returns(p)
    <3>1. \A q \in Requests :
            /\ op'[q].dev = op[q].dev /\ op'[q].saw = op[q].saw /\ op'[q].todo = op[q].todo
            /\ op'[q].kind = op[q].kind \/ {op'[q].kind, op[q].kind} \subseteq Activating
      BY <1>7, <2>3 DEF ActivateLock, SeatsTypeOK, Op, Activating
    <3>2. \A q \in Requests : op[q].dev = d /\ op'[q].kind \in Unseating =>
            \A l \in Licences \ op[q].todo : d \notin seats[l]
      BY <3>1 DEF Service, LeftNoSeat, Activating, Unseating
    <3> QED
      BY <2>1, <3>1, <3>2, QuietStep
  <2> QED
    BY <2>2, <2>3
<1>8. ASSUME NEW p \in Requests, ActivateCommit(p), op[p].dev # d PROVE Service(d)'
  <2>1. op[p].dev \in Devices /\ op[p].lic \in Licences
    BY <1>8 DEF ActivateCommit, SeatsTypeOK, Activating
  <2>2. status'[d] = status[d] /\ barred' = barred /\ \A l \in Licences : d \in seats'[l] =>
          d \in seats[l]
    BY <1>8, <2>1 DEF ActivateCommit, SeatsTypeOK
  <2>3. \A q \in Requests : op'[q].dev = d => op'[q] = op[q]
    BY <1>1, <1>8 DEF ActivateCommit, NotListed, SeatsTypeOK, Op
  <2> QED
    BY <2>2, <2>3, QuietStep
<1>9. ASSUME NEW p \in Requests,
             DeactivateFinish(p) \/ RemoveMark(p) \/ BlockFinish(p), op[p].dev # d
      PROVE  Service(d)'
  <2>1. op[p].dev \in Devices
    BY <1>9 DEF DeactivateFinish, RemoveMark, BlockFinish, Unseated, SeatsTypeOK
  <2>2. status'[d] = status[d] /\ (d \in barred' <=> d \in barred) /\ seats' = seats
    BY <1>9, <2>1 DEF DeactivateFinish, RemoveMark, BlockFinish, SeatsTypeOK
  <2>3. \A q \in Requests : op'[q].dev = d => op'[q] = op[q]
    BY <1>1, <1>9 DEF DeactivateFinish, RemoveMark, BlockFinish, Returns, Goes, SeatsTypeOK, Op
  <2> QED
    BY <2>2, <2>3, QuietStep
<1>10. ASSUME NEW p \in Requests,
              RefreshCommit(p) \/ RefreshRefused(p) \/ RemoveCount(p) \/ Crash(p)
       PROVE  Service(d)'
  BY <1>10, <1>3 DEF RefreshCommit, RefreshRefused, RemoveCount, Crash
<1>11. ASSUME NEW p \in Requests, NEW l \in Licences, Unseat(p, l) PROVE Service(d)'
  <2>1. \A q \in Requests : op'[q].dev = op[q].dev /\ op'[q].saw = op[q].saw
                             /\ op'[q].kind = op[q].kind
                             /\ op'[q].todo = IF q = p THEN op[p].todo \ {l} ELSE op[q].todo
    BY <1>11 DEF Unseat, SeatsTypeOK, Op
  <2>2. \A m \in Licences : seats'[m] = IF m = l THEN seats[l] \ {op[p].dev} ELSE seats[m]
    BY <1>11 DEF Unseat, SeatsTypeOK
  <2> QED
    BY <1>11, <2>1, <2>2, QuietStep DEF Unseat
<1> QED
  BY <1>2, <1>4, <1>5, <1>6, <1>7, <1>8, <1>9, <1>10, <1>11, FinishStep DEF Next, Removes

AllInService == \A d \in Devices \ crossed : Service(d)

LEMMA AllInServiceInit == Init => AllInService
<1> SUFFICES ASSUME Init, NEW d \in Devices PROVE Service(d)
  BY DEF AllInService
<1>1. \A p \in Requests : op[p].kind = "idle"
  BY DEF Init, Idle
<1>2. \A l \in Licences : d \notin seats[l]
  BY DEF Init
<1>3. barred = {}
  BY DEF Init
<1> QED
  BY <1>1, <1>2, <1>3
  DEF Service, OpsAgree, SawItInService, LeftNoSeat, OnlyBlocksABlocked, IsOut, Disagree,
      Activating, Unseating

LEMMA CrossedGrows == [Next]_vars => crossed \subseteq crossed'
<1>1. ASSUME NEW p \in Requests, NEW o, Starts(p, o) PROVE crossed \subseteq crossed'
  BY <1>1 DEF Starts
<1>2. ASSUME NEW p \in Requests, NEW d \in Devices,
             \/ \E l \in Licences : ActivateRead(p, d, l) \/ RefreshRead(p, d, l)
             \/ DeactivateRead(p, d) \/ Removes(p, d) \/ BlockRead(p, d)
      PROVE  crossed \subseteq crossed'
  BY <1>1, <1>2 DEF ActivateRead, RefreshRead, DeactivateRead, Removes, RemoveRead, BlockRead
<1>3. ASSUME NEW p \in Requests,
             \/ ActivateLock(p) \/ ActivateCommit(p) \/ RefreshCommit(p) \/ RefreshRefused(p)
             \/ \E l \in Licences : Unseat(p, l)
             \/ DeactivateFinish(p) \/ RemoveMark(p) \/ RemoveCount(p) \/ BlockFinish(p)
             \/ Crash(p)
      PROVE  crossed' = crossed
  BY <1>3
  DEF ActivateLock, ActivateCommit, RefreshCommit, RefreshRefused, Unseat, DeactivateFinish,
      RemoveMark, RemoveCount, BlockFinish, Crash
<1>4. CASE UNCHANGED vars \/ CoolDown \/ RemovalLeavesWindow
  BY <1>4 DEF vars, CoolDown, RemovalLeavesWindow
<1> QED
  BY <1>2, <1>3, <1>4 DEF Next, Removes

LEMMA AllInServiceStep == SeatsTypeOK /\ AllInService /\ [Next]_vars => AllInService'
<1> SUFFICES ASSUME SeatsTypeOK, AllInService, [Next]_vars, NEW d \in Devices, d \notin crossed'
             PROVE  Service(d)'
  BY DEF AllInService
<1>1. Service(d)
  BY CrossedGrows DEF AllInService
<1> QED
  BY <1>1, ServiceStep

-----------------------------------------------------------------------------
(* Transfers.                                                                *)

LEMMA RemovingIsFinite ==
  /\ IsFiniteSet(Removing) /\ Cardinality(Removing) \in Nat
  /\ Cardinality(Requests) \in Nat /\ Cardinality(Removing) <= Cardinality(Requests)
<1>1. Removing \subseteq Requests
  BY DEF Removing
<1> QED
  BY <1>1, SeatsAssumption, FS_Subset, FS_CardinalityType

(* No request begins a removal.                                              *)
LEMMA NoRemovalBegins ==
  ASSUME SeatsTypeOK, TransfersBounded, Removing' \subseteq Removing, used' \in Nat, used' <= used
  PROVE  TransfersBounded'
<1>1. Cardinality(Removing') <= Cardinality(Removing) /\ Cardinality(Removing') \in Nat
  BY RemovingIsFinite, FS_Subset, FS_CardinalityType
<1>2. used \in Nat
  BY DEF SeatsTypeOK
<1> QED
  BY <1>1, <1>2, RemovingIsFinite, SeatsAssumption DEF TransfersBounded

LEMMA TransfersStep ==
  SeatsTypeOK /\ SeatsTypeOK' /\ TransfersBounded /\ [Next]_vars => TransfersBounded'
<1> SUFFICES ASSUME SeatsTypeOK, SeatsTypeOK', TransfersBounded, [Next]_vars
             PROVE  TransfersBounded'
  OBVIOUS
<1>0. used \in Nat /\ used' \in Nat
  BY DEF SeatsTypeOK
<1>1. Idle.kind = "idle"
  BY DEF Idle
<1>2. CASE UNCHANGED vars \/ CoolDown \/ RemovalLeavesWindow
  <2>1. op' = op /\ used' <= used
    BY <1>2, <1>0 DEF vars, CoolDown, RemovalLeavesWindow
  <2>2. Removing' = Removing
    BY <2>1 DEF Removing
  <2> QED
    BY <1>0, <2>1, <2>2, NoRemovalBegins
<1>3. ASSUME used' = used,
             \A q \in Requests : op'[q].kind \in {"remove", "count"} =>
               op[q].kind \in {"remove", "count"}
      PROVE  TransfersBounded'
  <2>1. Removing' \subseteq Removing
    BY <1>3 DEF Removing
  <2> QED
    BY <1>0, <1>3, <2>1, NoRemovalBegins
<1>4. ASSUME NEW p \in Requests, Returns(p), used' = used PROVE TransfersBounded'
  BY <1>1, <1>3, <1>4 DEF Returns, SeatsTypeOK
<1>5. ASSUME NEW p \in Requests, NEW d \in Devices,
             \/ \E l \in Licences : ActivateRead(p, d, l) \/ RefreshRead(p, d, l)
             \/ DeactivateRead(p, d) \/ BlockRead(p, d)
      PROVE  TransfersBounded'
  <2>1. PICK k \in {"activate", "refresh", "deactivate", "block"} :
          op'[p].kind = k /\ \A q \in Requests \ {p} : op'[q] = op[q]
    <3>1. ASSUME NEW l \in Licences, ActivateRead(p, d, l)
          PROVE  op'[p].kind = "activate" /\ \A q \in Requests \ {p} : op'[q] = op[q]
      BY <3>1 DEF ActivateRead, Starts, Idle, SeatsTypeOK
    <3>2. ASSUME NEW l \in Licences, RefreshRead(p, d, l)
          PROVE  op'[p].kind = "refresh" /\ \A q \in Requests \ {p} : op'[q] = op[q]
      BY <3>2 DEF RefreshRead, Starts, Idle, SeatsTypeOK
    <3>3. CASE DeactivateRead(p, d)
      BY <3>3 DEF DeactivateRead, Starts, Idle, SeatsTypeOK
    <3>4. CASE BlockRead(p, d)
      BY <3>4 DEF BlockRead, Starts, Idle, SeatsTypeOK
    <3> QED
      BY <1>5, <3>1, <3>2, <3>3, <3>4
  <2>2. used' = used
    BY <1>5 DEF ActivateRead, RefreshRead, DeactivateRead, BlockRead
  <2> QED
    BY <1>3, <2>1, <2>2
<1>6. ASSUME NEW p \in Requests, NEW d \in Devices, RemoveRead(p, d, "remove")
      PROVE  TransfersBounded'
  <2>1. used < MaxTransfers /\ used' = used
    BY <1>6 DEF RemoveRead, QuotaLeft
  <2>2. Cardinality(Removing') <= Cardinality(Requests) /\ Cardinality(Removing') \in Nat
    <3>1. Removing' \subseteq Requests
      BY DEF Removing
    <3> QED
      BY <3>1, SeatsAssumption, FS_Subset, FS_CardinalityType
  <2> QED
    BY <1>0, <2>1, <2>2, RemovingIsFinite, SeatsAssumption DEF TransfersBounded
<1>13. ASSUME NEW p \in Requests, NEW d \in Devices, RemoveRead(p, d, "bypass")
       PROVE  TransfersBounded'
  <2>1. op'[p].kind = "bypass" /\ used' = used /\ \A q \in Requests \ {p} : op'[q] = op[q]
    BY <1>13 DEF RemoveRead, Starts, Idle, SeatsTypeOK
  <2> QED
    BY <1>3, <2>1
<1>7. ASSUME NEW p \in Requests, ActivateLock(p) PROVE TransfersBounded'
  <2>1. CASE Returns(p)
    BY <1>7, <2>1, <1>4 DEF ActivateLock
  <2>2. CASE ~Returns(p)
    <3>1. /\ used' = used
          /\ op'[p].kind = "seating"
          /\ \A q \in Requests \ {p} : op'[q] = op[q]
      BY <1>7, <2>2 DEF ActivateLock, SeatsTypeOK, Op
    <3> QED
      BY <1>3, <3>1
  <2> QED
    BY <2>1, <2>2
<1>8. ASSUME NEW p \in Requests, ActivateCommit(p) PROVE TransfersBounded'
  <2>1. op' = [q \in Requests |-> IF q = p THEN Idle ELSE NotListed(p, q)] /\ used' = used
    BY <1>8 DEF ActivateCommit
  <2>2. \A q \in Requests : NotListed(p, q).kind = op[q].kind
    BY DEF NotListed, SeatsTypeOK, Op
  <2> QED
    BY <1>1, <1>3, <2>1, <2>2
<1>9. ASSUME NEW p \in Requests,
             RefreshCommit(p) \/ RefreshRefused(p) \/ DeactivateFinish(p) \/ BlockFinish(p)
               \/ Crash(p)
      PROVE  TransfersBounded'
  BY <1>9, <1>4 DEF RefreshCommit, RefreshRefused, DeactivateFinish, BlockFinish, Crash
<1>10. ASSUME NEW p \in Requests, NEW l \in Licences, Unseat(p, l) PROVE TransfersBounded'
  <2>1. used' = used /\ \A q \in Requests : op'[q].kind = op[q].kind
    BY <1>10 DEF Unseat, SeatsTypeOK, Op
  <2> QED
    BY <1>3, <2>1
<1>11. ASSUME NEW p \in Requests, RemoveMark(p) PROVE TransfersBounded'
  <2>1. /\ used' = used
        /\ op[p].kind = "remove" \/ op'[p].kind = "idle"
        /\ \A q \in Requests \ {p} : op'[q] = op[q]
    BY <1>1, <1>11 DEF RemoveMark, Unseated, Goes, Returns, SeatsTypeOK
  <2> QED
    BY <1>3, <2>1
<1>12. ASSUME NEW p \in Requests, RemoveCount(p) PROVE TransfersBounded'
  <2>1. /\ used' = used + 1 /\ op[p].kind = "count" /\ op'[p].kind = "idle"
        /\ \A q \in Requests \ {p} : op'[q] = op[q]
    BY <1>1, <1>12 DEF RemoveCount, Returns, SeatsTypeOK
  <2>2. Removing' = Removing \ {p} /\ p \in Removing
    BY <2>1 DEF Removing
  <2>3. Cardinality(Removing') = Cardinality(Removing) - 1
    BY <2>2, RemovingIsFinite, FS_RemoveElement
  <2> QED
    BY <1>0, <2>1, <2>2, <2>3, RemovingIsFinite, SeatsAssumption DEF TransfersBounded
<1> QED
  BY <1>2, <1>5, <1>6, <1>7, <1>8, <1>9, <1>10, <1>11, <1>12, <1>13 DEF Next

LEMMA TransfersInit == Init => TransfersBounded
<1> SUFFICES ASSUME Init PROVE Removing = {}
  BY DEF TransfersBounded
<1> QED
  BY DEF Init, Idle, Removing

-----------------------------------------------------------------------------
(* Every variable of the licensing service keeps its type.                   *)
THEOREM SeatsTypeCorrect == Spec => []SeatsTypeOK
BY SeatsTypeInit, SeatsTypeStep, PTL DEF Spec

(* activateWithAccess counts under the licence's lock what deactivation,     *)
(* removal and blocking change without it: no licence ever has more active   *)
(* devices than its limit.                                                   *)
THEOREM LimitHolds == Spec => []SeatsWithinLimit
BY SeatsTypeCorrect, LimitInit, LimitStep, PTL DEF Spec

(* deactivateDevice, removeDevice and blockDevice give a device's seats back *)
(* one by one, without the locks: when they do not overlap an operation that *)
(* disagrees, a device out of service holds no seat and a block is kept.     *)
THEOREM OutOfServiceHolds == Spec => []OutOfServiceIsOut
<1>1. AllInService => OutOfServiceIsOut
  BY DEF AllInService, OutOfServiceIsOut, Service, IsOut
<1> QED
  BY <1>1, SeatsTypeCorrect, AllInServiceInit, AllInServiceStep, PTL DEF Spec

(* removeDevice reads the removal events before it adds its own: the quota   *)
(* is exceeded by the removals in progress at once and no more.              *)
THEOREM TransfersStayBounded == Spec => []TransfersBounded
BY SeatsTypeCorrect, TransfersInit, TransfersStep, PTL DEF Spec
=============================================================================
