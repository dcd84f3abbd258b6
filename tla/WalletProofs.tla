----------------------------- MODULE WalletProofs -----------------------------
(***************************************************************************)
(* The balance of a partner's wallet is its ledger and is never            *)
(* overdrawn, recorded renewals are paid for, and commissions settle, for  *)
(* any keys, amounts and number of requests that overlap and die.          *)
(***************************************************************************)
EXTENDS PartnerWallet, FiniteSetTheorems, TLAPS

-----------------------------------------------------------------------------
(* Types.                                                                    *)

LEMMA IdleType == Idle \in Op /\ Idle.kind = "idle" /\ ~Idle.posting /\ ~Idle.event
BY DEF Idle, Request, Op, OpKinds

(* What WalletTypeOK says of the requests                                    *)
OpTypeOK ==
  /\ op \in [Requests -> Op]
  /\ \A p \in Requests :
       /\ op[p].kind \in Renewing => op[p].key \in Keys
       /\ op[p].kind \in {"credit", "charge"} => op[p].key \in FundKeys
       /\ op[p].kind \in {"pay", "reverse"} => op[p].key = None
       /\ op[p].posting => op[p].kind \in Postings

LEMMA OpTypeStep ==
  ASSUME OpTypeOK, NEW p \in Requests, NEW o \in Op, op' = [op EXCEPT ![p] = o],
         o.kind \in Renewing => o.key \in Keys,
         o.kind \in {"credit", "charge"} => o.key \in FundKeys,
         o.kind \in {"pay", "reverse"} => o.key = None,
         o.posting => o.kind \in Postings
  PROVE  OpTypeOK'
BY DEF OpTypeOK

LEMMA ReturnsTypes == ASSUME OpTypeOK, NEW p \in Requests, Returns(p) PROVE OpTypeOK'
<1>1. "idle" \notin Renewing \cup {"credit", "charge", "pay", "reverse"}
  BY DEF Renewing
<1> QED
  BY <1>1, IdleType, OpTypeStep DEF Returns

LEMMA OpStarted ==
  ASSUME NEW k \in OpKinds, NEW a \in Keys \cup FundKeys \cup {None}, NEW n \in Nat,
           NEW e \in BOOLEAN
  PROVE  /\ Request(k, a, n, e) \in Op
         /\ Request(k, a, n, e).kind = k /\ Request(k, a, n, e).key = a
         /\ Request(k, a, n, e).event = e /\ ~Request(k, a, n, e).posting
BY DEF Op, Request

LEMMA AfterPostingTypes ==
  ASSUME OpTypeOK, NEW p \in Requests
  PROVE  /\ AfterPosting(p) \in Op
         /\ AfterPosting(p).kind \in Renewing => AfterPosting(p).key \in Keys
         /\ AfterPosting(p).kind \notin {"credit", "charge", "pay", "reverse"}
         /\ ~AfterPosting(p).posting
<1>1. /\ op[p].key \in Keys \cup FundKeys \cup {None} /\ op[p].seen \in Nat
      /\ op[p].event \in BOOLEAN /\ FALSE \in BOOLEAN /\ 0 \in Nat
      /\ op[p].kind = "renew" => op[p].key \in Keys
  BY DEF OpTypeOK, Op, Renewing
<1>0. {"extend", "paid", "reversed"} \subseteq OpKinds
      /\ {"paid", "reversed"} \cap (Renewing \cup {"credit", "charge", "pay", "reverse"}) = {}
      /\ "extend" \notin {"credit", "charge", "pay", "reverse"}
  BY DEF OpKinds, Renewing, OnCommission, Statuses
<1>2. CASE op[p].kind = "renew"
  <2>1. AfterPosting(p) = Request("extend", op[p].key, op[p].seen, FALSE)
    BY <1>2 DEF AfterPosting
  <2>2. Request("extend", op[p].key, op[p].seen, FALSE) \in Op
    BY <1>0, <1>1 DEF Request, Op
  <2>3. /\ Request("extend", op[p].key, op[p].seen, FALSE).kind = "extend"
        /\ Request("extend", op[p].key, op[p].seen, FALSE).key = op[p].key
        /\ ~Request("extend", op[p].key, op[p].seen, FALSE).posting
    BY DEF Request
  <2> QED
    BY <1>0, <1>1, <1>2, <2>1, <2>2, <2>3
<1>3. CASE op[p].kind = "pay"
  <2>1. AfterPosting(p) = Request("paid", None, 0, FALSE)
    BY <1>3 DEF AfterPosting
  <2>2. Request("paid", None, 0, FALSE) \in Op
    BY <1>0, <1>1 DEF Request, Op
  <2>3. /\ Request("paid", None, 0, FALSE).kind = "paid"
        /\ Request("paid", None, 0, FALSE).key = None
        /\ ~Request("paid", None, 0, FALSE).posting
    BY DEF Request
  <2> QED
    BY <1>0, <1>1, <1>3, <2>1, <2>2, <2>3
<1>4. CASE op[p].kind = "reverse"
  <2>1. AfterPosting(p) = Request("reversed", None, 0, op[p].event)
    BY <1>4 DEF AfterPosting
  <2>2. Request("reversed", None, 0, op[p].event) \in Op
    BY <1>0, <1>1 DEF Request, Op
  <2>3. /\ Request("reversed", None, 0, op[p].event).kind = "reversed"
        /\ Request("reversed", None, 0, op[p].event).key = None
        /\ ~Request("reversed", None, 0, op[p].event).posting
    BY DEF Request
  <2> QED
    BY <1>0, <1>1, <1>4, <2>1, <2>2, <2>3
<1>5. CASE op[p].kind \notin {"renew", "pay", "reverse"}
  <2>1. AfterPosting(p) = Idle
    BY <1>5 DEF AfterPosting
  <2> QED
    BY <2>1, IdleType DEF Renewing
<1> QED
  BY <1>2, <1>3, <1>4, <1>5

LEMMA EntryType ==
  ASSUME OpTypeOK, NEW p \in Requests, op[p].kind \in Postings
  PROVE  Entry(p) \in Entries /\ Delta(Entry(p)) \in Int
<1>1. Entry(p) \in Entries
  BY DEF OpTypeOK, Postings, Renewing, Entry, Entries
<1>2. Price \in Int /\ -Price \in Int /\ Funds \in Int /\ -Funds \in Int
      /\ Commission \in Int /\ -Commission \in Int
  BY WalletAssumption
<1>3. Entry(p)[1] = op[p].kind
  BY DEF Entry
<1>4. Delta(Entry(p)) \in Int
  BY <1>2, <1>3 DEF Delta, Postings
<1> QED
  BY <1>1, <1>4

LEMMA OpsKeepType == WalletTypeOK /\ [Next]_vars => OpTypeOK'
<1> SUFFICES ASSUME WalletTypeOK, [Next]_vars PROVE OpTypeOK'
  OBVIOUS
<1>1. OpTypeOK
  BY DEF WalletTypeOK, OpTypeOK
<1>2. CASE op' = op
  BY <1>1, <1>2 DEF OpTypeOK
<1>3. ASSUME NEW p \in Requests, Returns(p) PROVE OpTypeOK'
  BY <1>1, <1>3, ReturnsTypes
<1>4. ASSUME NEW p \in Requests, op' = [op EXCEPT ![p] = AfterPosting(p)] PROVE OpTypeOK'
  <2> DEFINE o == AfterPosting(p)
  <2>1. o \in Op /\ (o.kind \in Renewing => o.key \in Keys)
        /\ o.kind \notin {"credit", "charge", "pay", "reverse"} /\ ~o.posting
    BY <1>1, AfterPostingTypes
  <2>2. op' = [op EXCEPT ![p] = o]
    BY <1>4
  <2> HIDE DEF o
  <2> QED
    BY <1>1, <2>1, <2>2, OpTypeStep
<1>5. ASSUME NEW p \in Requests, PostRead(p) PROVE OpTypeOK'
  <2>1. CASE op' = [op EXCEPT ![p] = AfterPosting(p)]
    BY <2>1, <1>4
  <2>2. CASE Returns(p)
    BY <2>2, <1>3
  <2>3. CASE op' = [op EXCEPT ![p].posting = TRUE, ![p].next = balance + Delta(Entry(p))]
    <3> DEFINE o == [op[p] EXCEPT !.posting = TRUE, !.next = balance + Delta(Entry(p))]
    <3>1. balance + Delta(Entry(p)) \in Int /\ op[p].kind \in Postings
      BY <1>1, <1>5, EntryType DEF PostRead, WalletTypeOK
    <3>2. o \in Op /\ o.kind = op[p].kind /\ o.key = op[p].key
      BY <1>1, <3>1 DEF OpTypeOK, Op
    <3>3. op' = [op EXCEPT ![p] = o]
      BY <2>3
    <3>4. /\ o.kind \in Renewing => o.key \in Keys
          /\ o.kind \in {"credit", "charge"} => o.key \in FundKeys
          /\ o.kind \in {"pay", "reverse"} => o.key = None
          /\ o.kind \in Postings
      BY <1>1, <3>1, <3>2 DEF OpTypeOK
    <3> HIDE DEF o
    <3> QED
      BY <1>1, <3>2, <3>3, <3>4, OpTypeStep
  <2> QED
    BY <1>5, <2>1, <2>2, <2>3 DEF PostRead
<1>6. ASSUME NEW p \in Requests, PostCommit(p) PROVE OpTypeOK'
  BY <1>6, <1>4 DEF PostCommit
<1>7. ASSUME NEW p \in Requests, NEW type \in {"credit", "charge"}, NEW a \in FundKeys,
             PostLedger(p, type, a)
      PROVE  OpTypeOK'
  <2> DEFINE o == Request(type, a, 0, FALSE)
  <2>1. o \in Op /\ o.kind = type /\ o.key = a /\ ~o.posting
    <3>1. type \in OpKinds /\ a \in Keys \cup FundKeys \cup {None} /\ 0 \in Nat /\ FALSE \in BOOLEAN
      BY DEF OpKinds, Postings
    <3> QED
      BY <3>1, OpStarted
  <2>2. op' = [op EXCEPT ![p] = o]
    BY <1>7 DEF PostLedger, Starts
  <2>3. type \notin Renewing \cup {"pay", "reverse"}
    BY DEF Renewing
  <2> HIDE DEF o
  <2> QED
    BY <1>1, <2>1, <2>2, <2>3, OpTypeStep
<1>8. ASSUME NEW p \in Requests, NEW k \in Keys, RenewIssue(p, k) PROVE OpTypeOK'
  <2> DEFINE o == Request("renew", k, terms, FALSE)
  <2>1. o \in Op /\ o.kind = "renew" /\ o.key = k /\ ~o.posting
    <3>1. "renew" \in OpKinds /\ k \in Keys \cup FundKeys \cup {None} /\ terms \in Nat
            /\ FALSE \in BOOLEAN
      BY DEF OpKinds, Postings, WalletTypeOK
    <3> QED
      BY <3>1, OpStarted
  <2>2. op' = [op EXCEPT ![p] = o]
    BY <1>8 DEF RenewIssue, Starts
  <2> HIDE DEF o
  <2> QED
    BY <1>1, <2>1, <2>2, OpTypeStep
<1>9. ASSUME NEW p \in Requests, NEW k \in {"record", "rollback"}, Goes(p, k),
             op[p].kind \in {"extend", "record"}
      PROVE  OpTypeOK'
  <2> DEFINE o == [op[p] EXCEPT !.kind = k]
  <2>1. o \in Op /\ o.kind = k /\ o.key \in Keys
    BY <1>1, <1>9 DEF OpTypeOK, Op, OpKinds, Renewing
  <2>2. o.posting => o.kind \in Postings
    BY <1>1, <1>9 DEF OpTypeOK, Op, Postings
  <2>3. op' = [op EXCEPT ![p] = o]
    BY <1>9 DEF Goes
  <2> HIDE DEF o
  <2> QED
    BY <1>1, <2>1, <2>2, <2>3, OpTypeStep
<1>10. ASSUME NEW p \in Requests, NEW kind \in {"approved", "available", "pay", "reverse",
                "reversed"},
              NEW event \in BOOLEAN, StartsOnCommission(p, kind, event)
       PROVE  OpTypeOK'
  <2> DEFINE o == Request(kind, None, 0, event)
  <2>1. o \in Op /\ o.kind = kind /\ o.key = None /\ ~o.posting
    <3>1. kind \in OpKinds /\ None \in Keys \cup FundKeys \cup {None} /\ 0 \in Nat
      BY DEF OpKinds, OnCommission, Statuses
    <3> QED
      BY <3>1, OpStarted
  <2>2. op' = [op EXCEPT ![p] = o]
    BY <1>10 DEF StartsOnCommission, Starts
  <2>3. kind \notin Renewing \cup {"credit", "charge"}
    BY DEF Renewing
  <2> HIDE DEF o
  <2> QED
    BY <1>1, <2>1, <2>2, <2>3, OpTypeStep
<1>11. ASSUME NEW p \in Requests, Extend(p) \/ RenewalFails(p) PROVE OpTypeOK'
  BY <1>11, <1>9 DEF Extend, RenewalFails
<1>12. ASSUME NEW p \in Requests, RecordRenewal(p) \/ SetStatus(p) \/ Crash(p) PROVE OpTypeOK'
  BY <1>12, <1>3 DEF RecordRenewal, SetStatus, Crash
<1>13. ASSUME NEW p \in Requests,
              Approve(p) \/ Release(p) \/ Pay(p) \/ \E event \in BOOLEAN : Reverse(p, event)
       PROVE  OpTypeOK'
  BY <1>13, <1>10 DEF Approve, Release, Pay, Reverse, Reversal
<1> QED
  BY <1>2, <1>5, <1>6, <1>7, <1>8, <1>11, <1>12, <1>13
  DEF Next, vars, IssueProduct, PaidOrder, NothingToReverse

LEMMA WalletTypeStep == WalletTypeOK /\ [Next]_vars => WalletTypeOK'
<1> SUFFICES ASSUME WalletTypeOK, [Next]_vars PROVE WalletTypeOK'
  OBVIOUS
<1> USE DEF walletVars, issueVars, commissionVars
<1>1. OpTypeOK'
  BY OpsKeepType
<1>2. OpTypeOK
  BY DEF WalletTypeOK, OpTypeOK
<1>3. ASSUME UNCHANGED <<walletVars, issueVars, commissionVars>> PROVE WalletTypeOK'
  BY <1>1, <1>3 DEF OpTypeOK, WalletTypeOK
<1>4. CASE UNCHANGED vars
  BY <1>3, <1>4 DEF vars
<1>5. ASSUME NEW p \in Requests, PostRead(p) PROVE WalletTypeOK'
  BY <1>3, <1>5 DEF PostRead
<1>6. ASSUME NEW p \in Requests, PostCommit(p) PROVE WalletTypeOK'
  <2>1. op[p].next \in Int /\ Entry(p) \in Entries
    BY <1>2, <1>6, EntryType DEF PostCommit, OpTypeOK, Op
  <2> QED
    BY <1>1, <1>6, <2>1 DEF PostCommit, OpTypeOK, WalletTypeOK
<1>7. ASSUME NEW k \in Keys, IssueProduct(k) PROVE WalletTypeOK'
  <2>1. <<"issue", k>> \in Entries
    BY DEF Entries
  <2>2. balance' \in Int
    <3>1. Delta(<<"issue", k>>) = -Price
      BY DEF Delta
    <3> QED
      BY <1>7, <3>1, WalletAssumption DEF IssueProduct, WalletTypeOK
  <2> QED
    BY <1>1, <1>7, <2>1, <2>2 DEF IssueProduct, OpTypeOK, WalletTypeOK
<1>8. ASSUME NEW p \in Requests, NEW k \in Keys, RenewIssue(p, k) PROVE WalletTypeOK'
  <2>1. {op[q].key : q \in {r \in Requests : op[r].kind \in Renewing}} \subseteq Keys
    BY <1>2 DEF OpTypeOK
  <2>2. troubled' \subseteq Keys
    <3>1. troubled \subseteq Keys /\ {k} \subseteq Keys
      BY DEF WalletTypeOK
    <3> QED
      BY <1>8, <2>1, <3>1 DEF RenewIssue
  <2> QED
    BY <1>1, <1>8, <2>2 DEF RenewIssue, OpTypeOK, WalletTypeOK
<1>9. ASSUME NEW p \in Requests, Extend(p) PROVE WalletTypeOK'
  <2>1. terms' \in Nat
    BY <1>2, <1>9 DEF Extend, Extended, OpTypeOK, Op
  <2> QED
    BY <1>1, <1>9, <2>1 DEF Extend, OpTypeOK, WalletTypeOK
<1>10. ASSUME NEW p \in Requests, RecordRenewal(p) PROVE WalletTypeOK'
  BY <1>1, <1>10 DEF RecordRenewal, OpTypeOK, WalletTypeOK
<1>11. ASSUME NEW p \in Requests, RenewalFails(p) \/ Crash(p) PROVE WalletTypeOK'
  <2>1. op[p].kind = "record" => op[p].key \in Keys
    BY <1>2 DEF OpTypeOK, Renewing
  <2> QED
    BY <1>1, <1>11, <2>1 DEF RenewalFails, Crash, OpTypeOK, WalletTypeOK
<1>12. ASSUME NEW p \in Requests, NEW kind, NEW event, StartsOnCommission(p, kind, event)
       PROVE  WalletTypeOK'
  BY <1>1, <1>12 DEF StartsOnCommission, OpTypeOK, WalletTypeOK
<1>13. ASSUME NEW p \in Requests, SetStatus(p) PROVE WalletTypeOK'
  <2>1. op[p].event \in BOOLEAN
    BY <1>2 DEF OpTypeOK, Op
  <2>2. settled' \in BOOLEAN
    BY <1>13, <2>1 DEF SetStatus, WalletTypeOK
  <2> QED
    BY <1>1, <1>13, <2>2 DEF SetStatus, OpTypeOK, WalletTypeOK
<1>14. CASE PaidOrder \/ NothingToReverse
  BY <1>1, <1>14 DEF PaidOrder, NothingToReverse, OpTypeOK, WalletTypeOK
<1>15. ASSUME NEW p \in Requests, NEW type, NEW a, PostLedger(p, type, a) PROVE WalletTypeOK'
  BY <1>3, <1>15 DEF PostLedger
<1> QED
  BY <1>4, <1>5, <1>6, <1>7, <1>8, <1>9, <1>10, <1>11, <1>12, <1>13, <1>14, <1>15
  DEF Next, Approve, Release, Pay, Reverse

LEMMA WalletTypeInit == Init => WalletTypeOK
<1> SUFFICES ASSUME Init PROVE WalletTypeOK
  OBVIOUS
<1>1. OpTypeOK
  BY IdleType DEF Init, OpTypeOK, Renewing
<1>2. {settled, overtaken, crossed} \subseteq BOOLEAN
  BY DEF Init
<1> QED
  BY <1>1, <1>2 DEF Init, OpTypeOK, WalletTypeOK

(* Every variable of the wallet keeps its type.                              *)
THEOREM WalletTypeCorrect == Spec => []WalletTypeOK
BY WalletTypeInit, WalletTypeStep, PTL DEF Spec
-----------------------------------------------------------------------------
(* The lock, the ledger and the balance.                                     *)

(* One posting at a time; its entry is new, and the balance it will write is *)
(* the present one with its entry, and is covered.                           *)
PostingInv ==
  /\ \A p, q \in Requests : op[p].posting /\ op[q].posting => p = q
  /\ \A p \in Requests :
       op[p].posting =>
         /\ Entry(p) \notin ledger
         /\ op[p].next = balance + Delta(Entry(p))
         /\ Covered(op[p].next)

(* An entry of an issue is there only with the issue.                        *)
LedgerInv ==
  /\ IsFiniteSet(ledger)
  /\ \A k \in Keys : <<"issue", k>> \in ledger => issued[k] # "none"

(* A step leaves the wallet alone or adds one new entry to both.             *)
AddsOneEntry ==
  \E e \in Entries :
    /\ e \notin ledger
    /\ ledger' = ledger \cup {e}
    /\ balance' = balance + Delta(e)
    /\ Covered(balance')

LEMMA AmountTypes ==
  /\ Price \in Int /\ -Price \in Int /\ Funds \in Int /\ -Funds \in Int
  /\ Commission \in Int /\ -Commission \in Int
BY WalletAssumption

LEMMA OpStep ==
  ASSUME WalletTypeOK, [Next]_vars
  PROVE  \/ op' = op
         \/ \E p \in Requests :
              /\ \A q \in Requests \ {p} : op'[q] = op[q]
              /\ \/ PostRead(p)
                 \/ PostCommit(p)
                 \/ ~op[p].posting /\ ~op'[p].posting /\ UNCHANGED walletVars
                 \/ Crash(p)
<1>1. OpTypeOK
  BY DEF WalletTypeOK, OpTypeOK
<1>2. ASSUME NEW p \in Requests, NEW o, op' = [op EXCEPT ![p] = o]
      PROVE  op'[p] = o /\ \A q \in Requests \ {p} : op'[q] = op[q]
  BY <1>1, <1>2 DEF OpTypeOK
<1>3. ~Idle.posting
  BY IdleType
<1>4. ASSUME NEW p \in Requests, PostRead(p)
      PROVE  \A q \in Requests \ {p} : op'[q] = op[q]
  BY <1>1, <1>4 DEF PostRead, Returns, OpTypeOK
<1>5. ASSUME NEW p \in Requests, PostCommit(p)
      PROVE  \A q \in Requests \ {p} : op'[q] = op[q]
  BY <1>2, <1>5 DEF PostCommit
<1>6. ASSUME NEW p \in Requests, NEW type \in {"credit", "charge"}, NEW a \in FundKeys,
             PostLedger(p, type, a)
      PROVE  /\ \A q \in Requests \ {p} : op'[q] = op[q]
             /\ ~op[p].posting /\ ~op'[p].posting /\ UNCHANGED walletVars
  <2>1. ~Request(type, a, 0, FALSE).posting
    BY DEF Request
  <2>2. op[p] = Idle /\ op' = [op EXCEPT ![p] = Request(type, a, 0, FALSE)] /\ UNCHANGED walletVars
    BY <1>6 DEF PostLedger, Starts
  <2> QED
    BY <1>2, <1>3, <2>1, <2>2
<1>7. ASSUME NEW p \in Requests, NEW k \in Keys, RenewIssue(p, k)
      PROVE  /\ \A q \in Requests \ {p} : op'[q] = op[q]
             /\ ~op[p].posting /\ ~op'[p].posting /\ UNCHANGED walletVars
  <2>1. ~Request("renew", k, terms, FALSE).posting
    BY DEF Request
  <2>2. op[p] = Idle /\ op' = [op EXCEPT ![p] = Request("renew", k, terms, FALSE)]
          /\ UNCHANGED walletVars
    BY <1>7 DEF RenewIssue, Starts
  <2> QED
    BY <1>2, <1>3, <2>1, <2>2
<1>8. ASSUME NEW p \in Requests, Extend(p) \/ RenewalFails(p)
      PROVE  /\ \A q \in Requests \ {p} : op'[q] = op[q]
             /\ ~op[p].posting /\ ~op'[p].posting /\ UNCHANGED walletVars
  <2>1. PICK k \in {"record", "rollback"} : Goes(p, k)
    BY <1>8 DEF Extend, RenewalFails
  <2>2. op[p].kind \notin Postings /\ UNCHANGED walletVars
    BY <1>8 DEF Extend, RenewalFails, Postings
  <2>3. ~op[p].posting
    BY <1>1, <2>2 DEF OpTypeOK
  <2>4. op'[p].posting = op[p].posting /\ \A q \in Requests \ {p} : op'[q] = op[q]
    BY <1>1, <2>1 DEF Goes, OpTypeOK, Op
  <2> QED
    BY <2>2, <2>3, <2>4
<1>9. ASSUME NEW p \in Requests, RecordRenewal(p) \/ SetStatus(p)
      PROVE  /\ \A q \in Requests \ {p} : op'[q] = op[q]
             /\ ~op[p].posting /\ ~op'[p].posting /\ UNCHANGED walletVars
  <2>1. op' = [op EXCEPT ![p] = Idle] /\ UNCHANGED walletVars /\ op[p].kind \notin Postings
    BY <1>9 DEF RecordRenewal, SetStatus, Returns, Postings, Statuses
  <2>2. ~op[p].posting
    BY <1>1, <2>1 DEF OpTypeOK
  <2> QED
    BY <1>2, <1>3, <2>1, <2>2
<1>10. ASSUME NEW p \in Requests, Crash(p)
       PROVE  \A q \in Requests \ {p} : op'[q] = op[q]
  BY <1>2, <1>10 DEF Crash, Returns
<1>11. ASSUME NEW p \in Requests, NEW kind, NEW event, StartsOnCommission(p, kind, event)
       PROVE  /\ \A q \in Requests \ {p} : op'[q] = op[q]
              /\ ~op[p].posting /\ ~op'[p].posting /\ UNCHANGED walletVars
  <2>1. ~Request(kind, None, 0, event).posting
    BY DEF Request
  <2>2. op[p] = Idle /\ op' = [op EXCEPT ![p] = Request(kind, None, 0, event)]
          /\ UNCHANGED walletVars
    BY <1>11 DEF StartsOnCommission, Starts
  <2> QED
    BY <1>2, <1>3, <2>1, <2>2
<1>12. ASSUME NEW p \in Requests,
              Approve(p) \/ Release(p) \/ Pay(p) \/ \E event \in BOOLEAN : Reverse(p, event)
       PROVE  /\ \A q \in Requests \ {p} : op'[q] = op[q]
              /\ ~op[p].posting /\ ~op'[p].posting /\ UNCHANGED walletVars
  <2>1. \E kind, event : StartsOnCommission(p, kind, event)
    BY <1>12 DEF Approve, Release, Pay, Reverse
  <2> QED
    BY <1>11, <2>1
<1> QED
  BY <1>4, <1>5, <1>6, <1>7, <1>8, <1>9, <1>10, <1>12
  DEF Next, vars, IssueProduct, PaidOrder, NothingToReverse

(* Every step keeps the wallet as it is or adds one entry to it.             *)
LEMMA WalletStep ==
  ASSUME WalletTypeOK, PostingInv, LedgerInv, [Next]_vars
  PROVE  UNCHANGED walletVars \/ AddsOneEntry
<1> USE DEF walletVars
<1>1. OpTypeOK
  BY DEF WalletTypeOK, OpTypeOK
<1>2. ASSUME NEW p \in Requests, PostCommit(p) PROVE AddsOneEntry
  <2>1. op[p].kind \in Postings /\ op[p].posting
    BY <1>1, <1>2 DEF PostCommit, OpTypeOK
  <2>2. Entry(p) \in Entries
    BY <1>1, <2>1, EntryType
  <2> QED
    BY <1>2, <2>1, <2>2 DEF PostCommit, PostingInv, AddsOneEntry, Covered
<1>3. ASSUME NEW k \in Keys, IssueProduct(k) PROVE AddsOneEntry
  <2>1. <<"issue", k>> \in Entries
    BY DEF Entries
  <2> QED
    BY <1>3, <2>1 DEF IssueProduct, LedgerInv, AddsOneEntry, Covered
<1> QED
  BY <1>2, <1>3
  DEF Next, vars, PostRead, PostLedger, RenewIssue, Extend, RecordRenewal, RenewalFails, Approve,
      Release, Pay, Reverse, StartsOnCommission, SetStatus, Crash, PaidOrder, NothingToReverse

LEMMA LedgerStep == WalletTypeOK /\ PostingInv /\ LedgerInv /\ [Next]_vars => LedgerInv'
<1> SUFFICES ASSUME WalletTypeOK, PostingInv, LedgerInv, [Next]_vars PROVE LedgerInv'
  OBVIOUS
<1>1. IsFiniteSet(ledger)'
  <2>1. CASE UNCHANGED walletVars
    BY <2>1 DEF LedgerInv, walletVars
  <2>2. CASE AddsOneEntry
    BY <2>2, FS_AddElement DEF LedgerInv, AddsOneEntry
  <2> QED
    BY <2>1, <2>2, WalletStep
<1>2. ASSUME NEW k \in Keys, <<"issue", k>> \in ledger' PROVE issued'[k] # "none"
  <2>1. CASE <<"issue", k>> \in ledger
    <3>1. issued[k] # "none"
      BY <2>1 DEF LedgerInv
    <3>2. issued'[k] = issued[k]
      BY <3>1
      DEF Next, vars, issueVars, WalletTypeOK, PostRead, PostCommit, PostLedger, IssueProduct,
          RenewIssue, Extend, RecordRenewal, RenewalFails, Approve, Release, Pay, Reverse,
          StartsOnCommission, SetStatus, Crash, PaidOrder, NothingToReverse
    <3> QED
      BY <3>1, <3>2
  <2>2. CASE <<"issue", k>> \notin ledger
    <3>1. ASSUME NEW p \in Requests, PostCommit(p) PROVE FALSE
      <4>1. Entry(p) = <<"issue", k>>
        BY <1>2, <2>2, <3>1 DEF PostCommit
      <4>2. op[p].kind = "issue" /\ op[p].kind \in Postings
        BY <3>1, <4>1 DEF Entry, PostCommit, WalletTypeOK
      <4> QED
        BY <4>2 DEF Postings
    <3>2. ASSUME NEW j \in Keys, IssueProduct(j) PROVE issued'[k] # "none"
      <4>1. j = k
        BY <1>2, <2>2, <3>2 DEF IssueProduct
      <4> QED
        BY <3>2, <4>1 DEF IssueProduct, WalletTypeOK
    <3> QED
      BY <1>2, <2>2, <3>1, <3>2
      DEF Next, vars, walletVars, PostRead, PostLedger, RenewIssue, Extend, RecordRenewal,
          RenewalFails, Approve, Release, Pay, Reverse, StartsOnCommission, SetStatus, Crash,
          PaidOrder, NothingToReverse
  <2> QED
    BY <2>1, <2>2
<1> QED
  BY <1>1, <1>2 DEF LedgerInv

LEMMA PostingStep == WalletTypeOK /\ PostingInv /\ LedgerInv /\ [Next]_vars => PostingInv'
<1> SUFFICES ASSUME WalletTypeOK, PostingInv, LedgerInv, [Next]_vars PROVE PostingInv'
  OBVIOUS
<1> USE DEF walletVars
<1>1. OpTypeOK
  BY DEF WalletTypeOK, OpTypeOK
<1>2. ASSUME op' = op, UNCHANGED walletVars PROVE PostingInv'
  BY <1>2 DEF PostingInv, Entry
<1>3. ASSUME op' = op, ~UNCHANGED walletVars PROVE PostingInv'
  <2>1. \A p \in Requests : ~op[p].posting
    <3>1. ASSUME NEW p \in Requests, PostCommit(p) PROVE FALSE
      <4>1. op'[p] = AfterPosting(p)
        BY <1>1, <3>1 DEF PostCommit, OpTypeOK
      <4>2. ~op'[p].posting
        BY <1>1, <4>1, AfterPostingTypes
      <4> QED
        BY <1>3, <3>1, <4>2 DEF PostCommit
    <3>2. \E k \in Keys : IssueProduct(k)
      BY <1>3, <3>1
      DEF Next, vars, PostRead, PostLedger, RenewIssue, Extend, RecordRenewal,
          RenewalFails, Approve, Release, Pay, Reverse, StartsOnCommission, SetStatus, Crash,
          PaidOrder, NothingToReverse
    <3> QED
      BY <3>2 DEF IssueProduct, Unlocked
  <2> QED
    BY <1>3, <2>1 DEF PostingInv
(* The request that moves stops posting, or was not posting.                 *)
<1>4. ASSUME NEW p \in Requests, \A q \in Requests \ {p} : op'[q] = op[q],
             ~op'[p].posting, UNCHANGED walletVars \/ op[p].posting
      PROVE  PostingInv'
  <2>1. \A q \in Requests : op'[q].posting => q # p /\ op'[q] = op[q]
    BY <1>4
  <2>2. ASSUME NEW q \in Requests, op'[q].posting PROVE UNCHANGED walletVars
    BY <1>4, <2>1, <2>2 DEF PostingInv
  <2>3. ASSUME NEW q \in Requests, op'[q].posting
        PROVE  /\ Entry(q)' \notin ledger'
               /\ op'[q].next = balance' + Delta(Entry(q)')
               /\ Covered(op'[q].next)
    <3>1. Entry(q)' = Entry(q) /\ op[q].posting /\ op'[q].next = op[q].next
      BY <2>1, <2>3 DEF Entry
    <3> QED
      BY <2>2, <2>3, <3>1 DEF PostingInv
  <2>4. \A q, r \in Requests : op'[q].posting /\ op'[r].posting => q = r
    BY <2>1 DEF PostingInv
  <2> QED
    BY <2>3, <2>4 DEF PostingInv, Covered
<1>5. ASSUME NEW p \in Requests, \A q \in Requests \ {p} : op'[q] = op[q], PostRead(p)
      PROVE  PostingInv'
  <2>1. CASE ~op'[p].posting
    BY <1>4, <1>5, <2>1 DEF PostRead
  <2>2. CASE op'[p].posting
    <3>1. op' # [op EXCEPT ![p] = AfterPosting(p)]
      BY <1>1, <2>2, AfterPostingTypes DEF OpTypeOK
    <3>2. op' # [op EXCEPT ![p] = Idle]
      BY <1>1, <2>2, IdleType DEF OpTypeOK
    <3>3. /\ op' = [op EXCEPT ![p].posting = TRUE, ![p].next = balance + Delta(Entry(p))]
          /\ Entry(p) \notin ledger /\ Covered(balance + Delta(Entry(p)))
          /\ Unlocked /\ UNCHANGED walletVars
      BY <1>5, <3>1, <3>2 DEF PostRead, Returns
    <3>4. op'[p].next = balance + Delta(Entry(p)) /\ op'[p].kind = op[p].kind
            /\ op'[p].key = op[p].key
      BY <1>1, <3>3 DEF OpTypeOK, Op
    <3>5. Entry(p)' = Entry(p)
      BY <3>4 DEF Entry
    <3>6. \A q \in Requests : op'[q].posting => q = p
      BY <1>5, <3>3 DEF Unlocked
    <3> QED
      BY <3>3, <3>4, <3>5, <3>6 DEF PostingInv, Covered
  <2> QED
    BY <2>1, <2>2
<1>6. ASSUME NEW p \in Requests, \A q \in Requests \ {p} : op'[q] = op[q], PostCommit(p) \/ Crash(p)
      PROVE  PostingInv'
  <2>1. op'[p] = AfterPosting(p) \/ op'[p] = Idle
    BY <1>1, <1>6 DEF PostCommit, Crash, Returns, OpTypeOK
  <2>2. ~op'[p].posting
    BY <1>1, <2>1, AfterPostingTypes, IdleType
  <2> QED
    BY <1>4, <1>6, <2>2 DEF PostCommit, Crash
<1> QED
  BY <1>2, <1>3, <1>4, <1>5, <1>6, OpStep
-----------------------------------------------------------------------------
(* The balance is the ledger's.                                              *)

LEMMA CountAdd ==
  ASSUME IsFiniteSet(ledger), NEW e, e \notin ledger, ledger' = ledger \cup {e}, NEW kinds
  PROVE  /\ Count(kinds) \in Nat
         /\ e[1] \in kinds => Count(kinds)' = Count(kinds) + 1
         /\ e[1] \notin kinds => Count(kinds)' = Count(kinds)
<1> DEFINE S == {d \in ledger : d[1] \in kinds}
           T == {d \in ledger' : d[1] \in kinds}
<1>1. IsFiniteSet(S)
  BY FS_Subset
<1>2. Cardinality(S) \in Nat
  BY <1>1, FS_CardinalityType
<1>3. ASSUME e[1] \in kinds PROVE Cardinality(T) = Cardinality(S) + 1
  <2>1. T = S \cup {e} /\ e \notin S
    BY <1>3
  <2> QED
    BY <1>1, <2>1, FS_AddElement
<1>4. ASSUME e[1] \notin kinds PROVE Cardinality(T) = Cardinality(S)
  <2>1. T = S
    BY <1>4
  <2> QED
    BY <2>1
<1>5. Count(kinds) = Cardinality(S) /\ Count(kinds)' = Cardinality(T)
  BY DEF Count
<1> HIDE DEF S, T
<1> QED
  BY <1>2, <1>3, <1>4, <1>5

LEMMA TimesNext ==
  ASSUME NEW a \in Int, NEW x \in Int, NEW y \in Int
  PROVE  a * ((x + 1) - y) = a * (x - y) + a /\ a * (x - (y + 1)) = a * (x - y) - a
OBVIOUS

LEMMA EntryKinds ==
  ASSUME NEW e \in Entries
  PROVE  /\ e[1] \in {"issue", "renew", "rollback", "credit", "charge", "pay", "reverse"}
         /\ e[1] \in {"issue", "renew"} => Delta(e) = -Price
         /\ e[1] = "rollback" => Delta(e) = Price
         /\ e[1] = "credit" => Delta(e) = Funds
         /\ e[1] = "charge" => Delta(e) = -Funds
         /\ e[1] = "pay" => Delta(e) = Commission
         /\ e[1] = "reverse" => Delta(e) = -Commission
<1>1. e[1] \in {"issue", "renew", "rollback", "credit", "charge", "pay", "reverse"}
  BY DEF Entries
<1> QED
  BY <1>1 DEF Delta

LEMMA BalanceStep ==
  ASSUME WalletTypeOK, LedgerInv, BalanceIsLedger, UNCHANGED walletVars \/ AddsOneEntry
  PROVE  BalanceIsLedger'
<1>1. CASE UNCHANGED walletVars
  BY <1>1 DEF BalanceIsLedger, Count, walletVars
<1>2. CASE AddsOneEntry
  <2>1. PICK e \in Entries : /\ e \notin ledger /\ ledger' = ledger \cup {e}
                             /\ balance' = balance + Delta(e)
    BY <1>2 DEF AddsOneEntry
  <2>2. IsFiniteSet(ledger)
    BY DEF LedgerInv
  <2> DEFINE c == Count({"credit"})
             h == Count({"charge"})
             b == Count({"rollback"})
             r == Count({"issue", "renew"})
             y == Count({"pay"})
             v == Count({"reverse"})
  <2>3. /\ c \in Nat /\ (e[1] = "credit" => c' = c + 1) /\ (e[1] # "credit" => c' = c)
        /\ h \in Nat /\ (e[1] = "charge" => h' = h + 1) /\ (e[1] # "charge" => h' = h)
        /\ b \in Nat /\ (e[1] = "rollback" => b' = b + 1) /\ (e[1] # "rollback" => b' = b)
        /\ y \in Nat /\ (e[1] = "pay" => y' = y + 1) /\ (e[1] # "pay" => y' = y)
        /\ v \in Nat /\ (e[1] = "reverse" => v' = v + 1) /\ (e[1] # "reverse" => v' = v)
    BY <2>1, <2>2, CountAdd
  <2>4. /\ r \in Nat /\ (e[1] \in {"issue", "renew"} => r' = r + 1)
        /\ (e[1] \notin {"issue", "renew"} => r' = r)
    BY <2>1, <2>2, CountAdd
  <2>5. balance = Funds * (c - h) + Price * (b - r) + Commission * (y - v)
    BY DEF BalanceIsLedger
  <2>6. balance' = Funds * (c' - h') + Price * (b' - r') + Commission * (y' - v')
    <3> HIDE DEF c, h, b, r, y, v
    <3>1. /\ Funds * ((c + 1) - h) = Funds * (c - h) + Funds
          /\ Funds * (c - (h + 1)) = Funds * (c - h) - Funds
          /\ Price * ((b + 1) - r) = Price * (b - r) + Price
          /\ Price * (b - (r + 1)) = Price * (b - r) - Price
          /\ Commission * ((y + 1) - v) = Commission * (y - v) + Commission
          /\ Commission * (y - (v + 1)) = Commission * (y - v) - Commission
      BY <2>3, <2>4, AmountTypes, TimesNext
    <3>2. Funds * (c - h) \in Int /\ Price * (b - r) \in Int /\ Commission * (y - v) \in Int
      BY <2>3, <2>4, AmountTypes
    <3>3. CASE e[1] \in {"issue", "renew"}
      <4>1. Delta(e) = -Price /\ c' = c /\ h' = h /\ b' = b /\ r' = r + 1 /\ y' = y /\ v' = v
        BY <2>1, <2>3, <2>4, <3>3, EntryKinds
      <4> QED
        BY <2>1, <2>5, <3>1, <3>2, <4>1, AmountTypes
    <3>4. CASE e[1] = "rollback"
      <4>1. Delta(e) = Price /\ c' = c /\ h' = h /\ b' = b + 1 /\ r' = r /\ y' = y /\ v' = v
        BY <2>1, <2>3, <2>4, <3>4, EntryKinds
      <4> QED
        BY <2>1, <2>5, <3>1, <3>2, <4>1, AmountTypes
    <3>5. CASE e[1] = "credit"
      <4>1. Delta(e) = Funds /\ c' = c + 1 /\ h' = h /\ b' = b /\ r' = r /\ y' = y /\ v' = v
        BY <2>1, <2>3, <2>4, <3>5, EntryKinds
      <4> QED
        BY <2>1, <2>5, <3>1, <3>2, <4>1, AmountTypes
    <3>6. CASE e[1] = "charge"
      <4>1. Delta(e) = -Funds /\ c' = c /\ h' = h + 1 /\ b' = b /\ r' = r /\ y' = y /\ v' = v
        BY <2>1, <2>3, <2>4, <3>6, EntryKinds
      <4> QED
        BY <2>1, <2>5, <3>1, <3>2, <4>1, AmountTypes
    <3>7. CASE e[1] = "pay"
      <4>1. Delta(e) = Commission /\ c' = c /\ h' = h /\ b' = b /\ r' = r /\ y' = y + 1 /\ v' = v
        BY <2>1, <2>3, <2>4, <3>7, EntryKinds
      <4> QED
        BY <2>1, <2>5, <3>1, <3>2, <4>1, AmountTypes
    <3>8. CASE e[1] = "reverse"
      <4>1. Delta(e) = -Commission /\ c' = c /\ h' = h /\ b' = b /\ r' = r /\ y' = y /\ v' = v + 1
        BY <2>1, <2>3, <2>4, <3>8, EntryKinds
      <4> QED
        BY <2>1, <2>5, <3>1, <3>2, <4>1, AmountTypes
    <3> QED
      BY <2>1, <3>3, <3>4, <3>5, <3>6, <3>7, <3>8, EntryKinds
  <2> QED
    BY <2>6 DEF BalanceIsLedger
<1> QED
  BY <1>1, <1>2

WalletInv ==
  WalletTypeOK /\ PostingInv /\ LedgerInv /\ BalanceIsLedger /\ NeverOverdrawn

LEMMA WalletInvInit == Init => WalletInv
<1> SUFFICES ASSUME Init PROVE WalletInv
  OBVIOUS
<1>1. \A p \in Requests : op[p].posting = FALSE
  BY DEF Init, Idle, Request
<1>2. IsFiniteSet(ledger) /\ \A kinds : Count(kinds) = 0
  <2>1. ASSUME NEW kinds PROVE Count(kinds) = 0
    <3>1. {e \in ledger : e[1] \in kinds} = {}
      BY DEF Init
    <3> QED
      BY <3>1, FS_EmptySet DEF Count
  <2> QED
    BY <2>1, FS_EmptySet DEF Init
<1>3. Count({"credit"}) = 0 /\ Count({"charge"}) = 0 /\ Count({"rollback"}) = 0
      /\ Count({"issue", "renew"}) = 0 /\ Count({"pay"}) = 0 /\ Count({"reverse"}) = 0
  BY <1>2
<1>4. BalanceIsLedger
  <2>1. Funds * (0 - 0) + Price * (0 - 0) + Commission * (0 - 0) = 0
    BY AmountTypes
  <2> QED
    BY <1>3, <2>1 DEF BalanceIsLedger, Init
<1> QED
  BY <1>1, <1>2, <1>4, WalletTypeInit DEF WalletInv, PostingInv, LedgerInv, NeverOverdrawn, Init

LEMMA WalletInvStep == WalletInv /\ [Next]_vars => WalletInv'
<1> SUFFICES ASSUME WalletInv, [Next]_vars PROVE WalletInv'
  OBVIOUS
<1>1. WalletTypeOK' /\ PostingInv' /\ LedgerInv'
  BY WalletTypeStep, PostingStep, LedgerStep DEF WalletInv
<1>2. UNCHANGED walletVars \/ AddsOneEntry
  BY WalletStep DEF WalletInv
<1>3. BalanceIsLedger'
  BY <1>2, BalanceStep DEF WalletInv
<1>4. NeverOverdrawn'
  BY <1>2 DEF WalletInv, NeverOverdrawn, walletVars, AddsOneEntry, Covered
<1> QED
  BY <1>1, <1>3, <1>4 DEF WalletInv

LEMMA WalletInvHolds == Spec => []WalletInv
BY WalletInvInit, WalletInvStep, PTL DEF Spec

(* The balance is the sum of the ledger, though it is written as a number    *)
(* computed before: the lock admits one posting, and that posting computed   *)
(* it from the present balance.                                              *)
THEOREM BalanceHolds == Spec => []BalanceIsLedger
BY WalletInvHolds, PTL DEF WalletInv

(* A partner that may not owe is never overdrawn.                            *)
THEOREM NeverOverdrawnHolds == Spec => []NeverOverdrawn
BY WalletInvHolds, PTL DEF WalletInv
-----------------------------------------------------------------------------
(* What a posting leaves of its request.                                     *)

Keeps(p) ==
  /\ op'[p].kind = op[p].kind /\ op'[p].key = op[p].key
  /\ op'[p].seen = op[p].seen /\ op'[p].event = op[p].event

LEMMA PostReadFields ==
  ASSUME OpTypeOK, NEW p \in Requests, PostRead(p)
  PROVE  /\ op[p].kind \in Postings
         /\ \/ Keeps(p)
            \/ Entry(p) \in ledger /\ op'[p] = AfterPosting(p)
            \/ op'[p] = Idle
<1>1. CASE op' = [op EXCEPT ![p].posting = TRUE, ![p].next = balance + Delta(Entry(p))]
  BY <1>1 DEF PostRead, OpTypeOK, Op, Keeps
<1> QED
  BY <1>1 DEF PostRead, Returns, OpTypeOK

LEMMA AfterPostingIs ==
  ASSUME NEW p \in Requests
  PROVE  /\ op[p].kind = "renew" =>
              /\ AfterPosting(p).kind = "extend" /\ AfterPosting(p).key = op[p].key
              /\ AfterPosting(p).seen = op[p].seen /\ AfterPosting(p).event = FALSE
         /\ op[p].kind = "pay" => AfterPosting(p).kind = "paid" /\ AfterPosting(p).event = FALSE
         /\ op[p].kind = "reverse" =>
              AfterPosting(p).kind = "reversed" /\ AfterPosting(p).event = op[p].event
         /\ op[p].kind \notin {"renew", "pay", "reverse"} =>
              AfterPosting(p).kind = "idle" /\ AfterPosting(p).event = FALSE
<1>1. CASE op[p].kind = "renew"
  <2>1. AfterPosting(p) = Request("extend", op[p].key, op[p].seen, FALSE)
    BY <1>1 DEF AfterPosting
  <2> QED
    BY <1>1, <2>1 DEF Request
<1>2. CASE op[p].kind = "pay"
  <2>1. AfterPosting(p) = Request("paid", None, 0, FALSE)
    BY <1>2 DEF AfterPosting
  <2> QED
    BY <1>2, <2>1 DEF Request
<1>3. CASE op[p].kind = "reverse"
  <2>1. AfterPosting(p) = Request("reversed", None, 0, op[p].event)
    BY <1>3 DEF AfterPosting
  <2> QED
    BY <1>3, <2>1 DEF Request
<1>4. CASE op[p].kind \notin {"renew", "pay", "reverse"}
  <2>1. AfterPosting(p) = Idle
    BY <1>4 DEF AfterPosting
  <2> QED
    BY <1>4, <2>1 DEF Idle, Request
<1> QED
  BY <1>1, <1>2, <1>3, <1>4

-----------------------------------------------------------------------------
(* Commissions.                                                              *)

PayEntry == <<"pay", None>>
ReverseEntry == <<"reverse", None>>

(* A payout is in the ledger before its status is written, and is reversed   *)
(* only from there.                                                          *)
PayoutInv ==
  /\ commission = "paid" => PayEntry \in ledger
  /\ ReverseEntry \in ledger => PayEntry \in ledger
  /\ \A p \in Requests :
       /\ op[p].kind \in {"paid", "reverse"} => PayEntry \in ledger
       /\ op[p].event => op[p].kind \in {"reverse", "reversed"}

(* With nothing crossed, one request at a time is at work on the commission, *)
(* which is still as that request read it.                                   *)
UncrossedInv ==
  ~crossed =>
    /\ \A p, q \in Requests : op[p].kind \in OnCommission /\ op[q].kind \in OnCommission => p = q
    /\ \A p \in Requests :
         /\ op[p].kind = "approved" => commission = "pending"
         /\ op[p].kind = "available" => commission = "approved"
         /\ op[p].kind \in {"pay", "paid"} => commission = "available"
         /\ op[p].kind = "reverse" => commission = "paid"
         /\ op[p].kind = "reversed" => /\ commission \notin {"none", "reversed"}
                                       /\ PayEntry \in ledger => ReverseEntry \in ledger
    /\ PayEntry \in ledger => commission \in {"available", "paid", "reversed"}
    /\ commission = "reversed" /\ PayEntry \in ledger => ReverseEntry \in ledger
    /\ ~overtaken /\ settled => commission \in {"none", "reversed"}

(* A step, as the commission sees it                                         *)
OnlyIt(p) == \A q \in Requests \ {p} : op'[q] = op[q]
SamePay == PayEntry \in ledger' <=> PayEntry \in ledger
SameReverse == ReverseEntry \in ledger' <=> ReverseEntry \in ledger

Elsewhere(p) ==
  /\ op'[p].kind \notin OnCommission /\ ~op'[p].event
  /\ SamePay /\ SameReverse /\ UNCHANGED commissionVars

Waits(p) == Keeps(p) /\ SamePay /\ SameReverse /\ UNCHANGED commissionVars

PaidNow(p) ==
  /\ op[p].kind = "pay" /\ op'[p].kind = "paid" /\ ~op'[p].event
  /\ PayEntry \in ledger' /\ SameReverse /\ UNCHANGED commissionVars

ReversedNow(p) ==
  /\ op[p].kind = "reverse" /\ op'[p].kind = "reversed"
  /\ ReverseEntry \in ledger' /\ SamePay /\ UNCHANGED commissionVars

Begins(p) ==
  /\ SamePay /\ SameReverse /\ UNCHANGED <<commission, settled, overtaken>>
  /\ crossed' = (crossed \/ Busy(OnCommission) \/ CutShort(op'[p].kind))
  /\ \/ op'[p].kind = "approved" /\ commission = "pending" /\ ~op'[p].event
     \/ op'[p].kind = "available" /\ commission = "approved" /\ ~op'[p].event
     \/ op'[p].kind = "pay" /\ commission = "available" /\ ~op'[p].event
     \/ op'[p].kind = "reverse" /\ commission = "paid"
     \/ op'[p].kind = "reversed" /\ commission \notin {"none", "reversed", "paid"}

StatusSet(p) ==
  /\ op'[p].kind = "idle" /\ ~op'[p].event
  /\ op[p].kind \in Statuses /\ commission' = op[p].kind
  /\ settled' = (settled \/ op[p].event)
  /\ SamePay /\ SameReverse /\ UNCHANGED <<overtaken, crossed>>

LEMMA CommissionMoves ==
  ASSUME WalletTypeOK, PayoutInv, [Next]_vars
  PROVE  \/ op' = op /\ SamePay /\ SameReverse /\ UNCHANGED commissionVars
         \/ PaidOrder \/ NothingToReverse
         \/ \E p \in Requests :
              /\ OnlyIt(p)
              /\ Elsewhere(p) \/ Waits(p) \/ PaidNow(p) \/ ReversedNow(p) \/ Begins(p)
                   \/ StatusSet(p)
<1> USE DEF walletVars
<1>1. OpTypeOK
  BY DEF WalletTypeOK, OpTypeOK
<1>2. ASSUME NEW p \in Requests, NEW o, op' = [op EXCEPT ![p] = o]
      PROVE  op'[p] = o /\ OnlyIt(p)
  BY <1>1, <1>2 DEF OpTypeOK, OnlyIt
<1>3. Idle.kind = "idle" /\ Idle.kind \notin OnCommission /\ ~Idle.event
  BY IdleType DEF OnCommission, Statuses
<1>4. ASSUME NEW p \in Requests, PostRead(p)
      PROVE  OnlyIt(p) /\ (Elsewhere(p) \/ Waits(p) \/ PaidNow(p) \/ ReversedNow(p))
  <2>1. OnlyIt(p)
    BY <1>1, <1>4 DEF PostRead, Returns, OpTypeOK, OnlyIt
  <2>2. SamePay /\ SameReverse /\ UNCHANGED commissionVars
    BY <1>4 DEF PostRead, SamePay, SameReverse
  <2>3. CASE Keeps(p)
    BY <2>1, <2>2, <2>3 DEF Waits
  <2>4. CASE op'[p] = Idle
    BY <1>3, <2>1, <2>2, <2>4 DEF Elsewhere
  <2>5. CASE Entry(p) \in ledger /\ op'[p] = AfterPosting(p)
    <3>1. CASE op[p].kind = "pay"
      <4>1. Entry(p) = PayEntry
        BY <1>1, <3>1 DEF Entry, PayEntry, OpTypeOK
      <4>2. op'[p].kind = "paid" /\ ~op'[p].event
        BY <2>5, <3>1, AfterPostingIs
      <4> QED
        BY <2>1, <2>2, <2>5, <3>1, <4>1, <4>2 DEF PaidNow, SamePay
    <3>2. CASE op[p].kind = "reverse"
      <4>1. Entry(p) = ReverseEntry
        BY <1>1, <3>2 DEF Entry, ReverseEntry, OpTypeOK
      <4>2. op'[p].kind = "reversed"
        BY <2>5, <3>2, AfterPostingIs
      <4> QED
        BY <2>1, <2>2, <2>5, <3>2, <4>1, <4>2 DEF ReversedNow, SameReverse
    <3>3. CASE op[p].kind \notin {"pay", "reverse"}
      <4>1. op'[p].kind \in {"extend", "idle"} /\ ~op'[p].event
        BY <2>5, <3>3, AfterPostingIs
      <4> QED
        BY <2>1, <2>2, <4>1 DEF Elsewhere, OnCommission, Statuses
    <3> QED
      BY <3>1, <3>2, <3>3
  <2> QED
    BY <1>1, <1>4, <2>3, <2>4, <2>5, PostReadFields
<1>5. ASSUME NEW p \in Requests, PostCommit(p)
      PROVE  OnlyIt(p) /\ (Elsewhere(p) \/ PaidNow(p) \/ ReversedNow(p))
  <2>1. /\ OnlyIt(p) /\ op'[p] = AfterPosting(p)
        /\ ledger' = ledger \cup {Entry(p)} /\ UNCHANGED commissionVars
    BY <1>2, <1>5 DEF PostCommit
  <2>2. Entry(p)[1] = op[p].kind /\ PayEntry[1] = "pay" /\ ReverseEntry[1] = "reverse"
    BY DEF Entry, PayEntry, ReverseEntry
  <2>3. CASE op[p].kind = "pay"
    <3>1. Entry(p) = PayEntry /\ Entry(p) # ReverseEntry
      BY <1>1, <2>2, <2>3 DEF Entry, PayEntry, OpTypeOK
    <3>2. op'[p].kind = "paid" /\ ~op'[p].event
      BY <2>1, <2>3, AfterPostingIs
    <3> QED
      BY <2>1, <2>3, <3>1, <3>2 DEF PaidNow, SameReverse
  <2>4. CASE op[p].kind = "reverse"
    <3>1. Entry(p) = ReverseEntry /\ Entry(p) # PayEntry
      BY <1>1, <2>2, <2>4 DEF Entry, ReverseEntry, OpTypeOK
    <3>2. op'[p].kind = "reversed"
      BY <2>1, <2>4, AfterPostingIs
    <3> QED
      BY <2>1, <2>4, <3>1, <3>2 DEF ReversedNow, SamePay
  <2>5. CASE op[p].kind \notin {"pay", "reverse"}
    <3>1. Entry(p) # PayEntry /\ Entry(p) # ReverseEntry
      BY <2>2, <2>5
    <3>2. op'[p].kind \in {"extend", "idle"} /\ ~op'[p].event
      BY <2>1, <2>5, AfterPostingIs
    <3> QED
      BY <2>1, <3>1, <3>2 DEF Elsewhere, SamePay, SameReverse, OnCommission, Statuses
  <2> QED
    BY <2>3, <2>4, <2>5
<1>6. ASSUME NEW p \in Requests, NEW type \in {"credit", "charge"}, NEW a \in FundKeys,
             PostLedger(p, type, a)
      PROVE  OnlyIt(p) /\ Elsewhere(p)
  <2>1. op'[p] = Request(type, a, 0, FALSE) /\ OnlyIt(p)
    BY <1>2, <1>6 DEF PostLedger, Starts
  <2>2. op'[p].kind = type /\ ~op'[p].event
    BY <2>1 DEF Request
  <2> QED
    BY <1>6, <2>1, <2>2 DEF PostLedger, Elsewhere, SamePay, SameReverse, OnCommission, Statuses
<1>7. ASSUME NEW p \in Requests, NEW k \in Keys, RenewIssue(p, k)
      PROVE  OnlyIt(p) /\ Elsewhere(p)
  <2>1. op'[p] = Request("renew", k, terms, FALSE) /\ OnlyIt(p)
    BY <1>2, <1>7 DEF RenewIssue, Starts
  <2>2. op'[p].kind = "renew" /\ ~op'[p].event
    BY <2>1 DEF Request
  <2> QED
    BY <1>7, <2>1, <2>2 DEF RenewIssue, Elsewhere, SamePay, SameReverse, OnCommission, Statuses
<1>8. ASSUME NEW p \in Requests, Extend(p) \/ RenewalFails(p) PROVE OnlyIt(p) /\ Elsewhere(p)
  <2>1. PICK k \in {"record", "rollback"} : Goes(p, k)
    BY <1>8 DEF Extend, RenewalFails
  <2>2. OnlyIt(p) /\ op'[p].kind = k /\ op'[p].event = op[p].event
    BY <1>1, <2>1 DEF Goes, OnlyIt, OpTypeOK, Op
  <2>3. ~op[p].event
    BY <1>8 DEF Extend, RenewalFails, PayoutInv
  <2> QED
    BY <1>8, <2>2, <2>3
    DEF Extend, RenewalFails, Elsewhere, SamePay, SameReverse, OnCommission, Statuses
<1>9. ASSUME NEW p \in Requests, RecordRenewal(p) \/ Crash(p) PROVE OnlyIt(p) /\ Elsewhere(p)
  <2>1. Returns(p) /\ UNCHANGED <<walletVars, commissionVars>>
    BY <1>9 DEF RecordRenewal, Crash
  <2>2. OnlyIt(p) /\ op'[p] = Idle
    BY <1>2, <2>1 DEF Returns
  <2> QED
    BY <1>3, <2>1, <2>2 DEF Elsewhere, SamePay, SameReverse
<1>10. ASSUME NEW p \in Requests, NEW kind, NEW event, StartsOnCommission(p, kind, event)
       PROVE  /\ OnlyIt(p) /\ op'[p].kind = kind /\ op'[p].event = event
              /\ SamePay /\ SameReverse /\ UNCHANGED <<commission, settled, overtaken>>
              /\ crossed' = (crossed \/ Busy(OnCommission) \/ CutShort(kind))
  <2>1. op'[p] = Request(kind, None, 0, event) /\ OnlyIt(p)
    BY <1>2, <1>10 DEF StartsOnCommission, Starts
  <2>2. op'[p].kind = kind /\ op'[p].event = event
    BY <2>1 DEF Request
  <2> QED
    BY <1>10, <2>1, <2>2 DEF StartsOnCommission, SamePay, SameReverse
<1>11. ASSUME NEW p \in Requests,
              Approve(p) \/ Release(p) \/ Pay(p) \/ \E event \in BOOLEAN : Reverse(p, event)
       PROVE  OnlyIt(p) /\ Begins(p)
  <2>1. PICK kind, event :
          /\ StartsOnCommission(p, kind, event)
          /\ \/ kind = "approved" /\ commission = "pending" /\ event = FALSE
             \/ kind = "available" /\ commission = "approved" /\ event = FALSE
             \/ kind = "pay" /\ commission = "available" /\ event = FALSE
             \/ kind = "reverse" /\ commission = "paid"
             \/ kind = "reversed" /\ commission \notin {"none", "reversed", "paid"}
    BY <1>11 DEF Approve, Release, Pay, Reverse, Reversal
  <2> QED
    BY <1>10, <2>1 DEF Begins
<1>12. ASSUME NEW p \in Requests, SetStatus(p) PROVE OnlyIt(p) /\ StatusSet(p)
  <2>1. OnlyIt(p) /\ op'[p] = Idle
    BY <1>2, <1>12 DEF SetStatus, Returns
  <2> QED
    BY <1>3, <1>12, <2>1 DEF SetStatus, StatusSet, SamePay, SameReverse
<1>13. ASSUME NEW k \in Keys, IssueProduct(k)
       PROVE  op' = op /\ SamePay /\ SameReverse /\ UNCHANGED commissionVars
  <2>1. <<"issue", k>> # PayEntry /\ <<"issue", k>> # ReverseEntry
    BY DEF PayEntry, ReverseEntry
  <2> QED
    BY <1>13, <2>1 DEF IssueProduct, SamePay, SameReverse
<1>14. CASE UNCHANGED vars
  BY <1>14 DEF vars, SamePay, SameReverse, commissionVars
<1> QED
  BY <1>4, <1>5, <1>6, <1>7, <1>8, <1>9, <1>11, <1>12, <1>13, <1>14 DEF Next

LEMMA PayoutStep == WalletTypeOK /\ PayoutInv /\ [Next]_vars => PayoutInv'
<1> SUFFICES ASSUME WalletTypeOK, PayoutInv, [Next]_vars PROVE PayoutInv'
  OBVIOUS
<1> USE DEF commissionVars
<1>1. CASE op' = op /\ SamePay /\ SameReverse /\ UNCHANGED commissionVars
  BY <1>1 DEF PayoutInv, SamePay, SameReverse
<1>2. CASE PaidOrder \/ NothingToReverse
  <2>1. op' = op /\ ledger' = ledger /\ (commission' = "paid" => commission = "paid")
    BY <1>2 DEF PaidOrder, NothingToReverse, walletVars
  <2> QED
    BY <2>1 DEF PayoutInv
<1>3. ASSUME NEW p \in Requests, OnlyIt(p), Elsewhere(p) PROVE PayoutInv'
  <2>1. op'[p].kind \notin {"paid", "reverse"} /\ ~op'[p].event
    BY <1>3 DEF Elsewhere, OnCommission, Statuses
  <2> QED
    BY <1>3, <2>1 DEF OnlyIt, Elsewhere, PayoutInv, SamePay, SameReverse
<1>4. ASSUME NEW p \in Requests, OnlyIt(p), Waits(p) PROVE PayoutInv'
  BY <1>4 DEF OnlyIt, Waits, Keeps, PayoutInv, SamePay, SameReverse
<1>5. ASSUME NEW p \in Requests, OnlyIt(p), PaidNow(p) PROVE PayoutInv'
  BY <1>5 DEF OnlyIt, PaidNow, PayoutInv, SameReverse
<1>6. ASSUME NEW p \in Requests, OnlyIt(p), ReversedNow(p) PROVE PayoutInv'
  <2>1. PayEntry \in ledger /\ PayEntry \in ledger'
    BY <1>6 DEF ReversedNow, PayoutInv, SamePay
  <2> QED
    BY <1>6, <2>1 DEF OnlyIt, ReversedNow, PayoutInv
<1>7. ASSUME NEW p \in Requests, OnlyIt(p), Begins(p) PROVE PayoutInv'
  <2>1. op'[p].kind # "paid"
    BY <1>7 DEF Begins
  <2>2. op'[p].kind = "reverse" => PayEntry \in ledger
    BY <1>7 DEF Begins, PayoutInv
  <2>3. op'[p].event => op'[p].kind \in {"reverse", "reversed"}
    BY <1>7 DEF Begins
  <2> QED
    BY <1>7, <2>1, <2>2, <2>3 DEF OnlyIt, Begins, PayoutInv, SamePay, SameReverse
<1>8. ASSUME NEW p \in Requests, OnlyIt(p), StatusSet(p) PROVE PayoutInv'
  BY <1>8 DEF OnlyIt, StatusSet, PayoutInv, SamePay, SameReverse
<1> QED
  BY <1>1, <1>2, <1>3, <1>4, <1>5, <1>6, <1>7, <1>8, CommissionMoves

LEMMA UncrossedStep ==
  WalletTypeOK /\ PayoutInv /\ UncrossedInv /\ [Next]_vars => UncrossedInv'
<1> SUFFICES ASSUME WalletTypeOK, PayoutInv, UncrossedInv, [Next]_vars, ~crossed'
             PROVE  UncrossedInv'
  BY DEF UncrossedInv
<1> USE DEF commissionVars
<1> DEFINE
      Alone == \A p, q \in Requests : op[p].kind \in OnCommission
        /\ op[q].kind \in OnCommission => p = q
      Work(p) ==
        /\ op[p].kind = "approved" => commission = "pending"
        /\ op[p].kind = "available" => commission = "approved"
        /\ op[p].kind \in {"pay", "paid"} => commission = "available"
        /\ op[p].kind = "reverse" => commission = "paid"
        /\ op[p].kind = "reversed" => /\ commission \notin {"none", "reversed"}
                                      /\ PayEntry \in ledger => ReverseEntry \in ledger
      Ended ==
        /\ PayEntry \in ledger => commission \in {"available", "paid", "reversed"}
        /\ commission = "reversed" /\ PayEntry \in ledger => ReverseEntry \in ledger
        /\ ~overtaken /\ settled => commission \in {"none", "reversed"}
<1>0. UncrossedInv <=> (~crossed => Alone /\ (\A p \in Requests : Work(p)) /\ Ended)
  BY DEF UncrossedInv
<1>1. UncrossedInv' <=> (~crossed' => Alone' /\ (\A p \in Requests : Work(p)') /\ Ended')
  BY DEF UncrossedInv
<1>2. CASE op' = op /\ SamePay /\ SameReverse /\ UNCHANGED commissionVars
  BY <1>0, <1>1, <1>2 DEF SamePay, SameReverse
<1>3. CASE PaidOrder \/ NothingToReverse
  <2>1. /\ op' = op /\ ledger' = ledger /\ crossed' = crossed
        /\ \/ commission = "none" /\ commission' = "pending" /\ overtaken' = settled
                /\ settled' = settled
           \/ commission \in {"none", "reversed"} /\ commission' = commission
                /\ overtaken' = overtaken
    BY <1>3 DEF PaidOrder, NothingToReverse, walletVars
  <2>2. Alone /\ (\A p \in Requests : Work(p)) /\ Ended
    BY <1>0, <2>1
  <2>3. Alone'
    BY <2>1, <2>2
  <2>4. \A p \in Requests : Work(p)'
    BY <2>1, <2>2
  <2>5. Ended'
    BY <2>1, <2>2
  <2> QED
    BY <1>1, <2>3, <2>4, <2>5
<1>4. ASSUME NEW p \in Requests, OnlyIt(p), Elsewhere(p) PROVE UncrossedInv'
  <2>1. Alone /\ (\A q \in Requests : Work(q)) /\ Ended
    BY <1>0, <1>4 DEF Elsewhere
  <2>2. Alone'
    BY <1>4, <2>1 DEF OnlyIt, Elsewhere
  <2>3. Work(p)'
    BY <1>4 DEF Elsewhere, OnCommission, Statuses
  <2>4. \A q \in Requests \ {p} : Work(q)'
    BY <1>4, <2>1 DEF OnlyIt, Elsewhere, SamePay, SameReverse
  <2>5. Ended'
    BY <1>4, <2>1 DEF Elsewhere, SamePay, SameReverse
  <2> QED
    BY <1>1, <2>2, <2>3, <2>4, <2>5
<1>5. ASSUME NEW p \in Requests, OnlyIt(p), Waits(p) PROVE UncrossedInv'
  <2>1. Alone /\ (\A q \in Requests : Work(q)) /\ Ended
    BY <1>0, <1>5 DEF Waits
  <2>2. Alone'
    BY <1>5, <2>1 DEF OnlyIt, Waits, Keeps
  <2>3. \A q \in Requests : Work(q)'
    BY <1>5, <2>1 DEF OnlyIt, Waits, Keeps, SamePay, SameReverse
  <2>4. Ended'
    BY <1>5, <2>1 DEF Waits, SamePay, SameReverse
  <2> QED
    BY <1>1, <2>2, <2>3, <2>4
<1>6. ASSUME NEW p \in Requests, OnlyIt(p), PaidNow(p) PROVE UncrossedInv'
  <2>1. Alone /\ (\A q \in Requests : Work(q)) /\ Ended
    BY <1>0, <1>6 DEF PaidNow
  <2>2. op[p].kind \in OnCommission /\ commission = "available"
    BY <1>6, <2>1 DEF PaidNow, OnCommission
  <2>3. \A q \in Requests \ {p} : op'[q].kind \notin OnCommission
    BY <1>6, <2>1, <2>2 DEF OnlyIt
  <2>4. Alone'
    BY <2>3
  <2>5. Work(p)' /\ \A q \in Requests \ {p} : Work(q)'
    BY <1>6, <2>2, <2>3 DEF PaidNow, OnCommission, Statuses
  <2>6. Ended'
    BY <1>6, <2>1, <2>2 DEF PaidNow
  <2> QED
    BY <1>1, <2>4, <2>5, <2>6
<1>7. ASSUME NEW p \in Requests, OnlyIt(p), ReversedNow(p) PROVE UncrossedInv'
  <2>1. Alone /\ (\A q \in Requests : Work(q)) /\ Ended
    BY <1>0, <1>7 DEF ReversedNow
  <2>2. op[p].kind \in OnCommission /\ commission = "paid"
    BY <1>7, <2>1 DEF ReversedNow, OnCommission
  <2>3. \A q \in Requests \ {p} : op'[q].kind \notin OnCommission
    BY <1>7, <2>1, <2>2 DEF OnlyIt
  <2>4. Alone'
    BY <2>3
  <2>5. Work(p)' /\ \A q \in Requests \ {p} : Work(q)'
    BY <1>7, <2>2, <2>3 DEF ReversedNow, OnCommission, Statuses
  <2>6. Ended'
    BY <1>7, <2>1, <2>2 DEF ReversedNow, SamePay
  <2> QED
    BY <1>1, <2>4, <2>5, <2>6
<1>8. ASSUME NEW p \in Requests, OnlyIt(p), Begins(p) PROVE UncrossedInv'
  <2>1. ~crossed /\ ~Busy(OnCommission) /\ ~CutShort(op'[p].kind)
    BY <1>8 DEF Begins
  <2>2. Alone /\ (\A q \in Requests : Work(q)) /\ Ended
    BY <1>0, <2>1
  <2>3. \A q \in Requests \ {p} : op'[q].kind \notin OnCommission
    BY <1>8, <2>1 DEF OnlyIt, Busy
  <2>4. Alone'
    BY <2>3
  <2>5. \A q \in Requests \ {p} : Work(q)'
    BY <2>3 DEF OnCommission, Statuses
  <2>6. ASSUME op'[p].kind = "reversed" PROVE PayEntry \notin ledger
    <3>1. commission \notin {"none", "reversed", "paid"}
      BY <1>8, <2>6 DEF Begins
    <3>2. ~(commission = "available" /\ PayEntry \in ledger)
      BY <2>1, <2>6 DEF CutShort, PayEntry
    <3> QED
      BY <2>2, <3>1, <3>2
  <2>7. Work(p)'
    BY <1>8, <2>6 DEF Begins, SamePay
  <2>8. Ended'
    BY <1>8, <2>2 DEF Begins, SamePay, SameReverse
  <2> QED
    BY <1>1, <2>4, <2>5, <2>7, <2>8
<1>9. ASSUME NEW p \in Requests, OnlyIt(p), StatusSet(p) PROVE UncrossedInv'
  <2>1. Alone /\ (\A q \in Requests : Work(q)) /\ Ended
    BY <1>0, <1>9 DEF StatusSet
  <2>2. op[p].kind \in OnCommission /\ op'[p].kind \notin OnCommission
    BY <1>9 DEF StatusSet, OnCommission, Statuses
  <2>3. \A q \in Requests : op'[q].kind \notin OnCommission
    BY <1>9, <2>1, <2>2 DEF OnlyIt
  <2>4. Alone'
    BY <2>3
  <2>5. \A q \in Requests : Work(q)'
    BY <2>3 DEF OnCommission, Statuses
  <2>6. op[p].event => op[p].kind = "reversed"
    BY <1>9 DEF StatusSet, PayoutInv, Statuses
  <2>7. Work(p)
    BY <2>1
  <2>8. Ended'
    BY <1>9, <2>1, <2>6, <2>7 DEF StatusSet, SamePay, SameReverse, Statuses, PayoutInv
  <2> QED
    BY <1>1, <2>4, <2>5, <2>8
<1> QED
  BY <1>2, <1>3, <1>4, <1>5, <1>6, <1>7, <1>8, <1>9, CommissionMoves
-----------------------------------------------------------------------------
(* Renewals.                                                                 *)

RenewEntry(k) == <<"renew", k>>

(* An untroubled renewal is the only one in progress, its key is not yet     *)
(* recorded nor rolled back, its debit is in the ledger before the extension *)
(* and the terms are still as it read them.                                  *)
RenewInv ==
  /\ \A p, q \in Requests :
       op[p].kind \in Renewing /\ op[q].kind \in Renewing /\ op[p].key \notin troubled => p = q
  /\ \A p \in Requests :
       op[p].kind \in Renewing /\ op[p].key \notin troubled =>
         /\ issued[op[p].key] # "renew"
         /\ op[p].kind # "rollback" => ~RolledBack(op[p].key)
         /\ op[p].kind \in {"extend", "record"} => RenewEntry(op[p].key) \in ledger
         /\ op[p].kind \in {"renew", "extend"} => op[p].seen = terms
  /\ \A k \in Recorded \ troubled : RenewEntry(k) \in ledger /\ ~RolledBack(k)
  /\ troubled = {} => terms = Cardinality(Recorded) + Cardinality(Recording)

(* A step, as the renewals see it                                            *)
Apart(p) ==
  /\ op'[p].kind \notin Renewing
  /\ \A k \in Keys : /\ RenewEntry(k) \in ledger => RenewEntry(k) \in ledger'
                     /\ RolledBack(k)' => RolledBack(k)
                          \/ (op[p].kind = "rollback" /\ op[p].key = k)
  /\ UNCHANGED <<issued, terms>>
  /\ IF op[p].kind = "record" THEN troubled' = troubled \cup {op[p].key} ELSE troubled' = troubled

Debited(p) ==
  /\ op[p].kind = "renew"
  /\ op'[p].kind = "extend" /\ op'[p].key = op[p].key /\ op'[p].seen = op[p].seen
  /\ RenewEntry(op[p].key) \in ledger' /\ UNCHANGED issueVars
  /\ \A k \in Keys : /\ RenewEntry(k) \in ledger => RenewEntry(k) \in ledger'
                     /\ RolledBack(k)' => RolledBack(k)

Same(p) == Keeps(p) /\ UNCHANGED ledger /\ UNCHANGED issueVars

Still ==
  /\ op' = op
  /\ \A k \in Keys : /\ RenewEntry(k) \in ledger => RenewEntry(k) \in ledger'
                     /\ RolledBack(k)' => RolledBack(k)
  /\ UNCHANGED <<terms, troubled>>
  /\ \A k \in Keys : issued'[k] = issued[k] \/ (issued[k] = "none" /\ issued'[k] = "issue")

LEMMA RenewMoves ==
  ASSUME WalletTypeOK, [Next]_vars
  PROVE  \/ Still
         \/ \E p \in Requests :
              /\ OnlyIt(p)
              /\ \/ Apart(p) \/ Debited(p) \/ Same(p)
                 \/ \E k \in Keys : RenewIssue(p, k)
                 \/ Extend(p) \/ RecordRenewal(p) \/ RenewalFails(p)
<1> USE DEF walletVars, issueVars
<1>1. OpTypeOK
  BY DEF WalletTypeOK, OpTypeOK
<1>2. ASSUME NEW p \in Requests, NEW o, op' = [op EXCEPT ![p] = o]
      PROVE  op'[p] = o /\ OnlyIt(p)
  BY <1>1, <1>2 DEF OpTypeOK, OnlyIt
<1>3. Idle.kind \notin Renewing
  BY IdleType DEF Renewing
<1>4. ASSUME NEW p \in Requests, OnlyIt(p), op'[p].kind \notin Renewing,
               UNCHANGED <<ledger, issueVars>>,
             op[p].kind # "record"
      PROVE  Apart(p)
  BY <1>4 DEF Apart, RolledBack
<1>5. ASSUME NEW p \in Requests, PostRead(p) PROVE OnlyIt(p) /\ (Apart(p) \/ Debited(p) \/ Same(p))
  <2>1. OnlyIt(p)
    BY <1>1, <1>5 DEF PostRead, Returns, OpTypeOK, OnlyIt
  <2>2. UNCHANGED <<ledger, issueVars>> /\ op[p].kind # "record"
    BY <1>5 DEF PostRead, Postings
  <2>3. CASE Keeps(p)
    BY <2>1, <2>2, <2>3 DEF Same
  <2>4. CASE op'[p] = Idle
    BY <1>3, <1>4, <2>1, <2>2, <2>4
  <2>5. CASE Entry(p) \in ledger /\ op'[p] = AfterPosting(p)
    <3>1. CASE op[p].kind = "renew"
      <4>1. Entry(p) = RenewEntry(op[p].key)
        BY <3>1 DEF Entry, RenewEntry
      <4>2. op'[p].kind = "extend" /\ op'[p].key = op[p].key /\ op'[p].seen = op[p].seen
        BY <2>5, <3>1, AfterPostingIs
      <4> QED
        BY <2>1, <2>2, <2>5, <3>1, <4>1, <4>2 DEF Debited, RolledBack
    <3>2. CASE op[p].kind # "renew"
      <4>1. op'[p].kind \notin Renewing
        BY <2>5, <3>2, AfterPostingIs DEF Renewing
      <4> QED
        BY <1>4, <2>1, <2>2, <4>1
    <3> QED
      BY <3>1, <3>2
  <2> QED
    BY <1>1, <1>5, <2>3, <2>4, <2>5, PostReadFields
<1>6. ASSUME NEW p \in Requests, PostCommit(p) PROVE OnlyIt(p) /\ (Apart(p) \/ Debited(p))
  <2>1. /\ OnlyIt(p) /\ op'[p] = AfterPosting(p)
        /\ ledger' = ledger \cup {<<op[p].kind, op[p].key>>} /\ UNCHANGED issueVars
    BY <1>2, <1>6 DEF PostCommit, Entry
  <2>2. op[p].kind \in Postings
    BY <1>1, <1>6 DEF PostCommit, OpTypeOK
  <2>3. CASE op[p].kind = "renew"
    <3>1. op'[p].kind = "extend" /\ op'[p].key = op[p].key /\ op'[p].seen = op[p].seen
      BY <2>1, <2>3, AfterPostingIs
    <3>2. \A k \in Keys : RolledBack(k)' => RolledBack(k)
      BY <2>1, <2>3 DEF RolledBack
    <3> QED
      BY <2>1, <2>3, <3>1, <3>2 DEF Debited, RenewEntry
  <2>4. CASE op[p].kind # "renew"
    <3>1. op'[p].kind \notin Renewing /\ op[p].kind # "record"
      BY <2>1, <2>2, <2>4, AfterPostingIs DEF Renewing, Postings
    <3>2. \A k \in Keys : RolledBack(k)' => RolledBack(k)
            \/ (op[p].kind = "rollback" /\ op[p].key = k)
      BY <2>1 DEF RolledBack
    <3> QED
      BY <2>1, <3>1, <3>2 DEF Apart
  <2> QED
    BY <2>3, <2>4
<1>7. ASSUME NEW p \in Requests, NEW type \in {"credit", "charge"}, NEW a \in FundKeys,
             PostLedger(p, type, a)
      PROVE  OnlyIt(p) /\ Apart(p)
  <2>1. op'[p] = Request(type, a, 0, FALSE) /\ OnlyIt(p) /\ op[p] = Idle
        /\ UNCHANGED <<ledger, issueVars>>
    BY <1>2, <1>7 DEF PostLedger, Starts
  <2>2. op'[p].kind \notin Renewing /\ op[p].kind # "record"
    BY <2>1, IdleType DEF Request, Renewing
  <2> QED
    BY <1>4, <2>1, <2>2
<1>8. ASSUME NEW p \in Requests, NEW k \in Keys, RenewIssue(p, k) PROVE OnlyIt(p)
  BY <1>2, <1>8 DEF RenewIssue, Starts
<1>9. ASSUME NEW p \in Requests, Extend(p) \/ RenewalFails(p) PROVE OnlyIt(p)
  BY <1>1, <1>9 DEF Extend, RenewalFails, Goes, OnlyIt, OpTypeOK
<1>10. ASSUME NEW p \in Requests, RecordRenewal(p) PROVE OnlyIt(p)
  BY <1>2, <1>10 DEF RecordRenewal, Returns
<1>11. ASSUME NEW p \in Requests, Crash(p) PROVE OnlyIt(p) /\ Apart(p)
  <2>1. OnlyIt(p) /\ op'[p] = Idle
    BY <1>2, <1>11 DEF Crash, Returns
  <2> QED
    BY <1>3, <1>11, <2>1 DEF Crash, Apart, RolledBack
<1>12. ASSUME NEW p \in Requests, SetStatus(p) PROVE OnlyIt(p) /\ Apart(p)
  <2>1. OnlyIt(p) /\ op'[p] = Idle /\ op[p].kind # "record" /\ UNCHANGED <<ledger, issueVars>>
    BY <1>2, <1>12 DEF SetStatus, Returns, Statuses
  <2> QED
    BY <1>3, <1>4, <2>1
<1>13. ASSUME NEW p \in Requests,
              Approve(p) \/ Release(p) \/ Pay(p) \/ \E event \in BOOLEAN : Reverse(p, event)
       PROVE  OnlyIt(p) /\ Apart(p)
  <2>1. PICK kind \in {"approved", "available", "pay", "reverse", "reversed"}, event \in BOOLEAN :
          StartsOnCommission(p, kind, event)
    BY <1>13 DEF Approve, Release, Pay, Reverse, Reversal
  <2>2. op'[p] = Request(kind, None, 0, event) /\ OnlyIt(p) /\ op[p] = Idle
        /\ UNCHANGED <<ledger, issueVars>>
    BY <1>2, <2>1 DEF StartsOnCommission, Starts
  <2>3. op'[p].kind \notin Renewing /\ op[p].kind # "record"
    BY <2>2, IdleType DEF Request, Renewing
  <2> QED
    BY <1>4, <2>2, <2>3
<1>14. ASSUME NEW k \in Keys, IssueProduct(k) PROVE Still
  <2>1. \A j \in Keys : RolledBack(j)' => RolledBack(j)
    BY <1>14 DEF IssueProduct, RolledBack
  <2>2. \A j \in Keys : issued'[j] = issued[j] \/ (issued[j] = "none" /\ issued'[j] = "issue")
    BY <1>14 DEF IssueProduct, WalletTypeOK
  <2> QED
    BY <1>14, <2>1, <2>2 DEF IssueProduct, Still
<1>15. CASE PaidOrder \/ NothingToReverse \/ UNCHANGED vars
  BY <1>15 DEF PaidOrder, NothingToReverse, vars, Still, RolledBack
<1> QED
  BY <1>5, <1>6, <1>7, <1>8, <1>9, <1>10, <1>11, <1>12, <1>13, <1>14, <1>15 DEF Next
LEMMA CountsAreFinite ==
  /\ IsFiniteSet(Recorded) /\ Cardinality(Recorded) \in Nat
  /\ IsFiniteSet(Recording) /\ Cardinality(Recording) \in Nat
<1>1. IsFiniteSet(Keys) /\ IsFiniteSet(Requests) /\ Recorded \subseteq Keys
        /\ Recording \subseteq Requests
  BY WalletAssumption DEF Recorded, Recording
<1> QED
  BY <1>1, FS_Subset, FS_CardinalityType

(* The parts of RenewInv                                                     *)
OneRenewal ==
  \A p, q \in Requests :
    op[p].kind \in Renewing /\ op[q].kind \in Renewing /\ op[p].key \notin troubled => p = q

RenewalOf(p) ==
  op[p].kind \in Renewing /\ op[p].key \notin troubled =>
    /\ issued[op[p].key] # "renew"
    /\ op[p].kind # "rollback" => ~RolledBack(op[p].key)
    /\ op[p].kind \in {"extend", "record"} => RenewEntry(op[p].key) \in ledger
    /\ op[p].kind \in {"renew", "extend"} => op[p].seen = terms

PaidOf(k) == k \in Recorded \ troubled => RenewEntry(k) \in ledger /\ ~RolledBack(k)

TermsCounted == troubled = {} => terms = Cardinality(Recorded) + Cardinality(Recording)

LEMMA RenewParts ==
  /\ RenewInv <=> /\ OneRenewal /\ (\A p \in Requests : RenewalOf(p))
                  /\ (\A k \in Keys : PaidOf(k)) /\ TermsCounted
  /\ RenewInv' <=> /\ OneRenewal' /\ (\A p \in Requests : RenewalOf(p)')
                   /\ (\A k \in Keys : PaidOf(k)') /\ TermsCounted'
<1>1. Recorded \subseteq Keys /\ Recorded' \subseteq Keys
  BY DEF Recorded
<1> QED
  BY <1>1 DEF RenewInv, OneRenewal, RenewalOf, PaidOf, TermsCounted

LEMMA RenewStep == WalletTypeOK /\ RenewInv /\ [Next]_vars => RenewInv'
<1> SUFFICES ASSUME WalletTypeOK, RenewInv, [Next]_vars PROVE RenewInv'
  OBVIOUS
<1>0. /\ OneRenewal /\ (\A p \in Requests : RenewalOf(p))
      /\ (\A k \in Keys : PaidOf(k)) /\ TermsCounted
  BY RenewParts
<1>t. /\ \A p \in Requests : op[p].kind \in Renewing => op[p].key \in Keys
      /\ terms \in Nat /\ troubled \subseteq Keys
      /\ issued \in [Keys -> {"none", "issue", "renew"}]
  BY DEF WalletTypeOK
<1>1. CASE Still
  <2>1. Recorded' = Recorded /\ Recording' = Recording
    BY <1>1 DEF Still, Recorded, Recording
  <2>2. OneRenewal' /\ TermsCounted'
    BY <1>0, <1>1, <2>1 DEF Still, OneRenewal, TermsCounted
  <2>3. \A k \in Keys : PaidOf(k)'
    BY <1>0, <1>1, <2>1 DEF Still, PaidOf
  <2>4. ASSUME NEW p \in Requests PROVE RenewalOf(p)'
    BY <1>0, <1>1, <1>t DEF Still, RenewalOf
  <2> QED
    BY <2>2, <2>3, <2>4, RenewParts
<1>2. ASSUME NEW p \in Requests, OnlyIt(p), Apart(p) PROVE RenewInv'
  <2>1. troubled \subseteq troubled' /\ Recorded' = Recorded
    BY <1>2 DEF Apart, Recorded
  <2>2. OneRenewal'
    BY <1>0, <1>2, <2>1 DEF OnlyIt, Apart, OneRenewal
  <2>3. ASSUME NEW k \in Keys PROVE PaidOf(k)'
    <3>1. op[p].kind = "rollback" /\ op[p].key = k /\ k \notin troubled => k \notin Recorded
      BY <1>0 DEF RenewalOf, Recorded, Renewing
    <3> QED
      BY <1>0, <1>2, <2>1, <3>1 DEF Apart, PaidOf
  <2>4. ASSUME NEW q \in Requests PROVE RenewalOf(q)'
    <3>1. SUFFICES ASSUME q # p, op[q].kind \in Renewing, op[q].key \notin troubled, op'[q] = op[q]
                   PROVE  RenewalOf(q)'
      BY <1>2, <2>1 DEF OnlyIt, Apart, RenewalOf
    <3>2. op[p].kind \notin Renewing
      BY <1>0, <3>1 DEF OneRenewal
    <3>3. op[q].key \in Keys /\ (RolledBack(op[q].key)' => RolledBack(op[q].key))
      BY <1>2, <1>t, <3>1, <3>2 DEF Apart, Renewing
    <3> QED
      BY <1>0, <1>2, <3>1, <3>3 DEF Apart, RenewalOf
  <2>5. TermsCounted'
    <3>1. SUFFICES ASSUME troubled' = {}
                   PROVE  terms' = Cardinality(Recorded') + Cardinality(Recording')
      BY DEF TermsCounted
    <3>2. troubled = {} /\ op[p].kind # "record" /\ op'[p].kind # "record"
      BY <1>2, <3>1 DEF Apart, Renewing
    <3>3. Recording' = Recording
      BY <1>2, <3>2 DEF OnlyIt, Recording
    <3> QED
      BY <1>0, <1>2, <2>1, <3>2, <3>3 DEF TermsCounted, Apart
  <2> QED
    BY <2>2, <2>3, <2>4, <2>5, RenewParts
<1>3. ASSUME NEW p \in Requests, OnlyIt(p), Debited(p) PROVE RenewInv'
  <2>1. /\ troubled' = troubled /\ issued' = issued /\ terms' = terms
        /\ Recorded' = Recorded
    BY <1>3 DEF Debited, issueVars, Recorded
  <2>2. Recording' = Recording
    BY <1>3 DEF OnlyIt, Debited, Recording
  <2>3. OneRenewal'
    BY <1>0, <1>3, <2>1 DEF OnlyIt, Debited, OneRenewal, Renewing
  <2>4. TermsCounted'
    BY <1>0, <2>1, <2>2 DEF TermsCounted
  <2>5. \A k \in Keys : PaidOf(k)'
    BY <1>0, <1>3, <2>1 DEF Debited, PaidOf
  <2>6. RenewalOf(p)'
    <3>1. op[p].kind \in Renewing /\ op[p].key \in Keys
      BY <1>3, <1>t DEF Debited, Renewing
    <3> QED
      BY <1>0, <1>3, <2>1, <3>1 DEF Debited, RenewalOf
  <2>7. ASSUME NEW q \in Requests \ {p} PROVE RenewalOf(q)'
    <3>1. op'[q] = op[q]
      BY <1>3 DEF OnlyIt
    <3> QED
      BY <1>0, <1>3, <1>t, <2>1, <3>1 DEF Debited, RenewalOf
  <2> QED
    BY <2>3, <2>4, <2>5, <2>6, <2>7, RenewParts
<1>4. ASSUME NEW p \in Requests, OnlyIt(p), Same(p) PROVE RenewInv'
  <2>1. /\ troubled' = troubled /\ issued' = issued /\ terms' = terms /\ ledger' = ledger
        /\ Recorded' = Recorded
    BY <1>4 DEF Same, issueVars, Recorded
  <2>2. \A q \in Requests : op'[q].kind = op[q].kind /\ op'[q].key = op[q].key
          /\ op'[q].seen = op[q].seen
    BY <1>4 DEF OnlyIt, Same, Keeps
  <2>3. Recording' = Recording
    BY <2>2 DEF Recording
  <2>4. OneRenewal' /\ TermsCounted' /\ \A k \in Keys : PaidOf(k)'
    BY <1>0, <2>1, <2>2, <2>3 DEF OneRenewal, TermsCounted, PaidOf, RolledBack
  <2>5. \A q \in Requests : RenewalOf(q)'
    BY <1>0, <2>1, <2>2 DEF RenewalOf, RolledBack
  <2> QED
    BY <2>4, <2>5, RenewParts
<1>5. ASSUME NEW p \in Requests, NEW k \in Keys, OnlyIt(p), RenewIssue(p, k) PROVE RenewInv'
  <2>1. /\ op[p] = Idle /\ op' = [op EXCEPT ![p] = Request("renew", k, terms, FALSE)]
        /\ issued[k] = "none" /\ issued' = issued /\ terms' = terms /\ ledger' = ledger
        /\ troubled \subseteq troubled'
        /\ RolledBack(k) => k \in troubled'
        /\ Busy(Renewing) =>
             /\ k \in troubled'
             /\ \A q \in Requests : op[q].kind \in Renewing => op[q].key \in troubled'
    BY <1>5 DEF RenewIssue, Starts, walletVars
  <2>2. op'[p].kind = "renew" /\ op'[p].key = k /\ op'[p].seen = terms /\ op[p].kind = "idle"
    BY <1>t, <2>1, IdleType DEF Request, WalletTypeOK
  <2>3. Recorded' = Recorded /\ Recording' = Recording
    BY <1>5, <2>1, <2>2 DEF Recorded, OnlyIt, Recording
  <2>4. TermsCounted' /\ \A j \in Keys : PaidOf(j)'
    BY <1>0, <2>1, <2>3 DEF TermsCounted, PaidOf, RolledBack
  <2>5. OneRenewal'
    BY <1>0, <1>5, <2>1, <2>2 DEF OneRenewal, OnlyIt, Busy
  <2>6. RenewalOf(p)'
    <3>1. issued'[k] = "none"
      BY <2>1
    <3>2. k \notin troubled' => ~RolledBack(k)'
      BY <2>1 DEF RolledBack
    <3>3. ~(op'[p].kind \in {"extend", "record"}) /\ op'[p].seen = terms'
      BY <2>1, <2>2
    <3> QED
      BY <2>2, <3>1, <3>2, <3>3 DEF RenewalOf
  <2>7. ASSUME NEW q \in Requests \ {p} PROVE RenewalOf(q)'
    <3>1. op'[q] = op[q]
      BY <1>5 DEF OnlyIt
    <3> QED
      BY <1>0, <2>1, <3>1 DEF RenewalOf, RolledBack
  <2> QED
    BY <2>4, <2>5, <2>6, <2>7, RenewParts
<1>6. ASSUME NEW p \in Requests, OnlyIt(p), Extend(p) PROVE RenewInv'
  <2>1. /\ op[p].kind = "extend" /\ terms' = op[p].seen + 1 /\ Goes(p, "record")
        /\ ledger' = ledger /\ issued' = issued /\ troubled' = troubled
    BY <1>6 DEF Extend, Extended, walletVars
  <2>2. op'[p].kind = "record" /\ op'[p].key = op[p].key
    BY <2>1 DEF Goes, WalletTypeOK, Op
  <2>3. op[p].kind \in Renewing /\ op'[p].kind \in Renewing
    BY <2>1, <2>2 DEF Renewing
  <2>4. OneRenewal' /\ \A k \in Keys : PaidOf(k)'
    BY <1>0, <1>6, <2>1, <2>2, <2>3 DEF OneRenewal, OnlyIt, PaidOf, Recorded, RolledBack
  <2>5. RenewalOf(p)'
    <3>1. RenewalOf(p)
      BY <1>0
    <3> QED
      BY <2>1, <2>2, <2>3, <3>1 DEF RenewalOf, RolledBack
  <2>6. ASSUME NEW q \in Requests \ {p} PROVE RenewalOf(q)'
    <3>1. op'[q] = op[q]
      BY <1>6 DEF OnlyIt
    <3>2. op[q].kind \in Renewing => op[q].key \in troubled
      BY <1>0, <2>3 DEF OneRenewal
    <3> QED
      BY <2>1, <3>1, <3>2 DEF RenewalOf
  <2>7. TermsCounted'
    <3>1. SUFFICES ASSUME troubled' = {}
                   PROVE  terms' = Cardinality(Recorded') + Cardinality(Recording')
      BY DEF TermsCounted
    <3>2. op[p].seen = terms
      BY <1>0, <2>1, <2>3, <3>1 DEF RenewalOf
    <3>3. Recording' = Recording \cup {p} /\ p \notin Recording /\ Recorded' = Recorded
      BY <1>6, <2>1, <2>2 DEF OnlyIt, Recording, Recorded
    <3>4. Cardinality(Recording') = Cardinality(Recording) + 1
      BY <3>3, CountsAreFinite, FS_AddElement
    <3>5. terms = Cardinality(Recorded) + Cardinality(Recording)
      BY <1>0, <2>1, <3>1 DEF TermsCounted
    <3> QED
      BY <2>1, <3>2, <3>3, <3>4, <3>5, CountsAreFinite
  <2> QED
    BY <2>4, <2>5, <2>6, <2>7, RenewParts
<1>7. ASSUME NEW p \in Requests, OnlyIt(p), RecordRenewal(p) PROVE RenewInv'
  <2> DEFINE k == op[p].key
  <2>1. /\ op[p].kind = "record" /\ issued[k] = "none"
        /\ issued' = [issued EXCEPT ![k] = "renew"] /\ Returns(p)
        /\ ledger' = ledger /\ terms' = terms /\ troubled' = troubled
    BY <1>7 DEF RecordRenewal, walletVars
  <2>2. k \in Keys /\ op[p].kind \in Renewing
    BY <1>t, <2>1 DEF Renewing
  <2>3. op'[p].kind = "idle"
    BY <2>1, IdleType DEF Returns, WalletTypeOK
  <2>4. Recorded' = Recorded \cup {k} /\ k \notin Recorded
    BY <1>t, <2>1, <2>2 DEF Recorded
  <2>5. OneRenewal'
    BY <1>0, <1>7, <2>1, <2>3 DEF OneRenewal, OnlyIt, Renewing
  <2>6. ASSUME NEW q \in Requests PROVE RenewalOf(q)'
    <3>1. CASE q = p
      BY <2>3, <3>1 DEF RenewalOf, Renewing
    <3>2. CASE q # p
      <4>1. op'[q] = op[q]
        BY <1>7, <3>2 DEF OnlyIt
      <4>2. op[q].kind \in Renewing => op[q].key \in troubled
        BY <1>0, <2>2, <3>2 DEF OneRenewal
      <4> QED
        BY <2>1, <4>1, <4>2 DEF RenewalOf
    <3> QED
      BY <3>1, <3>2
  <2>7. ASSUME NEW j \in Keys PROVE PaidOf(j)'
    <3>1. k \notin troubled => RenewEntry(k) \in ledger /\ ~RolledBack(k)
      BY <1>0, <2>1, <2>2 DEF RenewalOf
    <3> QED
      BY <1>0, <2>1, <2>4, <3>1 DEF PaidOf, RolledBack
  <2>8. TermsCounted'
    <3>1. SUFFICES ASSUME troubled' = {}
                   PROVE  terms' = Cardinality(Recorded') + Cardinality(Recording')
      BY DEF TermsCounted
    <3>2. Recording' = Recording \ {p} /\ p \in Recording
      BY <1>7, <2>1, <2>3 DEF OnlyIt, Recording
    <3>3. Cardinality(Recording') = Cardinality(Recording) - 1
      BY <3>2, CountsAreFinite, FS_RemoveElement
    <3>4. Cardinality(Recorded') = Cardinality(Recorded) + 1
      BY <2>4, CountsAreFinite, FS_AddElement
    <3>5. terms = Cardinality(Recorded) + Cardinality(Recording)
      BY <1>0, <2>1, <3>1 DEF TermsCounted
    <3> QED
      BY <2>1, <3>3, <3>4, <3>5, CountsAreFinite
  <2> QED
    BY <2>5, <2>6, <2>7, <2>8, RenewParts
<1>8. ASSUME NEW p \in Requests, OnlyIt(p), RenewalFails(p) PROVE RenewInv'
  <2>1. /\ op[p].kind \in {"extend", "record"} /\ Goes(p, "rollback")
        /\ troubled' = IF op[p].kind = "record" THEN troubled \cup {op[p].key} ELSE troubled
        /\ ledger' = ledger /\ issued' = issued /\ terms' = terms
    BY <1>8 DEF RenewalFails, walletVars
  <2>2. op'[p].kind = "rollback" /\ op'[p].key = op[p].key
    BY <2>1 DEF Goes, WalletTypeOK, Op
  <2>3. op[p].kind \in Renewing /\ troubled \subseteq troubled'
    BY <2>1 DEF Renewing
  <2>4. OneRenewal'
    BY <1>0, <1>8, <2>2, <2>3 DEF OneRenewal, OnlyIt
  <2>5. \A k \in Keys : PaidOf(k)'
    BY <1>0, <2>1, <2>3 DEF PaidOf, Recorded, RolledBack
  <2>6. RenewalOf(p)'
    BY <1>0, <2>1, <2>2, <2>3 DEF RenewalOf
  <2>7. ASSUME NEW q \in Requests \ {p} PROVE RenewalOf(q)'
    <3>1. op'[q] = op[q]
      BY <1>8 DEF OnlyIt
    <3> QED
      BY <1>0, <2>1, <2>3, <3>1 DEF RenewalOf, RolledBack
  <2>8. TermsCounted'
    <3>1. SUFFICES ASSUME troubled' = {}
                   PROVE  terms' = Cardinality(Recorded') + Cardinality(Recording')
      BY DEF TermsCounted
    <3>2. troubled = {} /\ op[p].kind # "record"
      BY <2>1, <3>1
    <3>3. Recording' = Recording /\ Recorded' = Recorded
      BY <1>8, <2>1, <2>2, <3>2 DEF OnlyIt, Recording, Recorded
    <3> QED
      BY <1>0, <2>1, <3>2, <3>3 DEF TermsCounted
  <2> QED
    BY <2>4, <2>5, <2>6, <2>7, <2>8, RenewParts
<1> QED
  BY <1>1, <1>2, <1>3, <1>4, <1>5, <1>6, <1>7, <1>8, RenewMoves

-----------------------------------------------------------------------------
HistoryInv == WalletTypeOK /\ PayoutInv /\ UncrossedInv /\ RenewInv

LEMMA HistoryInit == Init => HistoryInv
<1> SUFFICES ASSUME Init PROVE HistoryInv
  OBVIOUS
<1>1. \A p \in Requests : op[p].kind = "idle" /\ ~op[p].event
  BY IdleType DEF Init
<1>2. PayoutInv /\ UncrossedInv
  BY <1>1 DEF Init, PayoutInv, UncrossedInv, OnCommission, Statuses
<1>3. Recorded = {} /\ Recording = {}
  BY <1>1 DEF Init, Recorded, Recording
<1>4. Cardinality(Recorded) + Cardinality(Recording) = 0
  BY <1>3, FS_EmptySet
<1>5. RenewInv
  BY <1>1, <1>3, <1>4 DEF Init, RenewInv, Renewing
<1> QED
  BY <1>2, <1>5, WalletTypeInit DEF HistoryInv

LEMMA HistoryHolds == Spec => []HistoryInv
<1>1. HistoryInv /\ [Next]_vars => HistoryInv'
  BY WalletTypeStep, PayoutStep, UncrossedStep, RenewStep DEF HistoryInv
<1> QED
  BY <1>1, HistoryInit, PTL DEF Spec

(* Every recorded renewal is debited and stays so, and the entitlement grows *)
(* by the renewals recorded, as long as no key is in trouble.                *)
THEOREM RenewalsPaid == Spec => []RenewalsArePaid
<1>1. HistoryInv => RenewalsArePaid
  BY DEF HistoryInv, RenewInv, RenewalsArePaid, RenewEntry
<1> QED
  BY <1>1, HistoryHolds, PTL

(* A payout comes before its reversal, and a refunded order leaves its       *)
(* commission reversed and no payout standing, as long as nothing crossed.   *)
THEOREM CommissionsSettle == Spec => []CommissionSettles
<1>1. HistoryInv => CommissionSettles
  BY DEF HistoryInv, PayoutInv, UncrossedInv, CommissionSettles, PayEntry, ReverseEntry
<1> QED
  BY <1>1, HistoryHolds, PTL

(* However postings overlap, the balance is the ledger's and not negative.   *)
THEOREM WalletBalancesHolds == Spec => []WalletBalances
BY BalanceHolds, NeverOverdrawnHolds, PTL DEF WalletBalances
=============================================================================
