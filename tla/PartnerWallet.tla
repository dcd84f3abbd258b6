---------------------------- MODULE PartnerWallet ----------------------------
(***************************************************************************)
(* The wallet of a reselling partner: PartnerService of packages/reseller, *)
(* on PostgreSQL, with the products the partner issues and renews from the *)
(* wallet and the commission it earns on one referred order.               *)
(*                                                                         *)
(* The wallet is written under a lock on its row, one ledger entry per     *)
(* idempotency key.  What a posting is for (the extension of an            *)
(* entitlement, the record of the renewal, the status of the commission)   *)
(* is written in statements of its own, before or after.  Who may call an  *)
(* operation is left open: a refused request changes nothing.              *)
(***************************************************************************)
EXTENDS Integers, FiniteSets

CONSTANTS
  Keys,           \* idempotency keys of issues and renewals
  FundKeys,       \* idempotency keys of an admin's postings
  Requests,       \* requests that may be in progress at once
  Price,          \* the partner's price of the plan
  Funds,          \* the amount of an admin's CREDIT or ADJUSTMENT
  Commission,     \* the commission on the order
  AllowNegative,  \* partners.allowNegativeBalance
  MayCrash,       \* processes may die
  MaxTerms,       \* a bound on the terms of the renewed entitlement
  None

ASSUME WalletAssumption ==
  /\ IsFiniteSet(Keys) /\ IsFiniteSet(FundKeys) /\ IsFiniteSet(Requests)
  /\ None \notin Keys \cup FundKeys
  /\ {Price, Funds, Commission, MaxTerms} \subseteq Nat
  /\ {AllowNegative, MayCrash} \subseteq BOOLEAN

VARIABLES
  balance,     \* wallets.balanceMinor
  ledger,      \* the idempotency keys of wallet_transactions
  issued,      \* partner_issues.kind for each key, or "none"
  terms,       \* terms by which one entitlement has been renewed
  commission,  \* commissions.status, or "none"
  op,          \* what each request is doing
  settled,     \* the order's full refund, or its void, has been handled
  overtaken,   \* it was handled before the commission was recorded
  troubled,    \* keys whose renewal was retried or overlapped by another
  crossed      \* commission requests overlapped, or a payout was cut short

walletVars == <<balance, ledger>>
issueVars == <<issued, terms, troubled>>
commissionVars == <<commission, settled, overtaken, crossed>>
vars == <<balance, ledger, issued, terms, commission, op, settled, overtaken, troubled, crossed>>

Renewing == {"renew", "extend", "record", "rollback"}
Statuses == {"approved", "available", "paid", "reversed"}
OnCommission == Statuses \cup {"pay", "reverse"}
Postings == {"credit", "charge", "renew", "rollback", "pay", "reverse"}

Entries == ({"issue", "renew", "rollback"} \X Keys)
             \cup ({"credit", "charge"} \X FundKeys)
             \cup {<<"pay", None>>, <<"reverse", None>>}

Request(kind, key, seen, event) ==
  [kind |-> kind, key |-> key, seen |-> seen, event |-> event, posting |-> FALSE, next |-> 0]

Idle == Request("idle", None, 0, FALSE)

Init ==
  /\ balance = 0
  /\ ledger = {}
  /\ issued = [k \in Keys |-> "none"]
  /\ terms = 0
  /\ commission = "none"
  /\ op = [p \in Requests |-> Idle]
  /\ settled = FALSE
  /\ overtaken = FALSE
  /\ troubled = {}
  /\ crossed = FALSE

Starts(p, o) == op[p] = Idle /\ op' = [op EXCEPT ![p] = o]
Goes(p, k) == op' = [op EXCEPT ![p].kind = k]
Returns(p) == op' = [op EXCEPT ![p] = Idle]
Busy(kinds) == \E q \in Requests : op[q].kind \in kinds

-----------------------------------------------------------------------------
(* signedLedgerDelta                                                         *)
Delta(e) ==
  CASE e[1] \in {"issue", "renew"} -> -Price
    [] e[1] = "rollback" -> Price
    [] e[1] = "credit" -> Funds
    [] e[1] = "charge" -> -Funds
    [] e[1] = "pay" -> Commission
    [] e[1] = "reverse" -> -Commission

LockForgotten == TRUE   \* faulty
Unlocked == \A q \in Requests : ~op[q].posting

Covered(next) == next >= 0 \/ AllowNegative

Entry(p) == <<op[p].kind, op[p].key>>

(* What is left of a request when its posting is in the ledger               *)
AfterPosting(p) ==
  CASE op[p].kind = "renew" -> Request("extend", op[p].key, op[p].seen, FALSE)
    [] op[p].kind = "pay" -> Request("paid", None, 0, FALSE)
    [] op[p].kind = "reverse" -> Request("reversed", None, 0, op[p].event)
    [] OTHER -> Idle

(* postLedgerOn, under the wallet's lock: an entry that is already there is  *)
(* a replay, and a posting that would overdraw the wallet is refused.        *)
PostRead(p) ==
  LET next == balance + Delta(Entry(p))
  IN /\ op[p].kind \in Postings /\ ~op[p].posting
     /\ Unlocked
     /\ \/ /\ Entry(p) \in ledger
           /\ op' = [op EXCEPT ![p] = AfterPosting(p)]
        \/ /\ Entry(p) \notin ledger /\ Covered(next)
           /\ op' = [op EXCEPT ![p].posting = TRUE, ![p].next = next]
        \/ /\ Entry(p) \notin ledger /\ ~Covered(next)
           /\ Returns(p)
     /\ UNCHANGED <<walletVars, issueVars, commissionVars>>

PostCommit(p) ==
  /\ op[p].posting
  /\ ledger' = ledger \cup {Entry(p)}
  /\ balance' = op[p].next
  /\ op' = [op EXCEPT ![p] = AfterPosting(p)]
  /\ UNCHANGED <<issueVars, commissionVars>>

(* An admin's CREDIT, or an ADJUSTMENT up ("credit") or down ("charge")      *)
PostLedger(p, type, a) ==
  /\ Starts(p, Request(type, a, 0, FALSE))
  /\ UNCHANGED <<walletVars, issueVars, commissionVars>>

-----------------------------------------------------------------------------
(* One transaction under the wallet's lock: debit, grant, record.  A key in  *)
(* use makes the record fail and takes the rest with it.                     *)
IssueProduct(k) ==
  LET next == balance + Delta(<<"issue", k>>)
  IN /\ Unlocked
     /\ issued[k] = "none"
     /\ Covered(next)
     /\ ledger' = ledger \cup {<<"issue", k>>}
     /\ balance' = next
     /\ issued' = [issued EXCEPT ![k] = "issue"]
     /\ UNCHANGED <<terms, troubled, op, commissionVars>>

RolledBack(k) == <<"rollback", k>> \in ledger

(* renewIssue reads the entitlement's expiry before the debit.  A renewal is *)
(* in trouble when another overlaps it, and when its key was rolled back.    *)
RenewIssue(p, k) ==
  /\ issued[k] = "none"
  /\ terms < MaxTerms
  /\ Starts(p, Request("renew", k, terms, FALSE))
  /\ troubled' = troubled
       \cup (IF RolledBack(k) THEN {k} ELSE {})
       \cup (IF Busy(Renewing)
             THEN {k} \cup {op[q].key : q \in {r \in Requests : op[r].kind \in Renewing}}
             ELSE {})
  /\ UNCHANGED <<walletVars, issued, terms, commissionVars>>

ExtendedFromToday(p) == 1   \* faulty
Extended(p) == op[p].seen + 1

Extend(p) ==
  /\ op[p].kind = "extend"
  /\ terms' = Extended(p)
  /\ Goes(p, "record")
  /\ UNCHANGED <<walletVars, issued, troubled, commissionVars>>

RecordRenewal(p) ==
  /\ op[p].kind = "record"
  /\ issued[op[p].key] = "none"
  /\ issued' = [issued EXCEPT ![op[p].key] = "renew"]
  /\ Returns(p)
  /\ UNCHANGED <<walletVars, terms, troubled, commissionVars>>

(* The extension or the record fails: the debit is given back, and an        *)
(* extension already made stays.                                             *)
RenewalFails(p) ==
  /\ op[p].kind \in {"extend", "record"}
  /\ troubled' = IF op[p].kind = "record" THEN troubled \cup {op[p].key} ELSE troubled
  /\ Goes(p, "rollback")
  /\ UNCHANGED <<walletVars, issued, terms, commissionVars>>

-----------------------------------------------------------------------------
(* A payout that reached the wallet and never the commission is not taken    *)
(* back by a reversal.                                                       *)
CutShort(kind) ==
  /\ kind \in {"reverse", "reversed"}
  /\ commission = "available" /\ <<"pay", None>> \in ledger

StartsOnCommission(p, kind, event) ==
  /\ Starts(p, Request(kind, None, 0, event))
  /\ crossed' = (crossed \/ Busy(OnCommission) \/ CutShort(kind))
  /\ UNCHANGED <<walletVars, issueVars, commission, settled, overtaken>>

(* onPaidOrder                                                               *)
PaidOrder ==
  /\ commission = "none"
  /\ commission' = "pending"
  /\ overtaken' = settled
  /\ UNCHANGED <<walletVars, issueVars, op, settled, crossed>>

Approve(p) == commission = "pending" /\ StartsOnCommission(p, "approved", FALSE)
Release(p) == commission = "approved" /\ StartsOnCommission(p, "available", FALSE)

Pay(p) == commission = "available" /\ StartsOnCommission(p, "pay", FALSE)

NothingToTakeBack == "reversed"   \* faulty
Reversal == IF commission = "paid" THEN "reverse" ELSE "reversed"

(* reverseCommission, by an admin or for the event of a refund               *)
Reverse(p, event) ==
  /\ commission \notin {"none", "reversed"}
  /\ StartsOnCommission(p, Reversal, event)

(* The event finds no commission, or one that is reversed.                   *)
NothingToReverse ==
  /\ commission \in {"none", "reversed"}
  /\ settled' = TRUE
  /\ UNCHANGED <<walletVars, issueVars, commission, op, overtaken, crossed>>

SetStatus(p) ==
  /\ op[p].kind \in Statuses
  /\ commission' = op[p].kind
  /\ settled' = (settled \/ op[p].event)
  /\ Returns(p)
  /\ UNCHANGED <<walletVars, issueVars, overtaken, crossed>>

-----------------------------------------------------------------------------
(* The process dies: what was committed stays, the wallet's lock goes.       *)
Crash(p) ==
  /\ MayCrash
  /\ op[p] # Idle
  /\ troubled' = IF op[p].kind = "record" THEN troubled \cup {op[p].key} ELSE troubled
  /\ Returns(p)
  /\ UNCHANGED <<walletVars, issued, terms, commissionVars>>

Next ==
  \/ \E p \in Requests :
       \/ PostRead(p) \/ PostCommit(p)
       \/ \E type \in {"credit", "charge"}, a \in FundKeys : PostLedger(p, type, a)
       \/ \E k \in Keys : RenewIssue(p, k)
       \/ Extend(p) \/ RecordRenewal(p) \/ RenewalFails(p)
       \/ Approve(p) \/ Release(p) \/ Pay(p)
       \/ \E event \in BOOLEAN : Reverse(p, event)
       \/ SetStatus(p)
       \/ Crash(p)
  \/ \E k \in Keys : IssueProduct(k)
  \/ PaidOrder \/ NothingToReverse

Spec == Init /\ [][Next]_vars

-----------------------------------------------------------------------------
OpKinds == {"idle"} \cup Postings \cup Renewing \cup OnCommission

Op == [kind : OpKinds, key : Keys \cup FundKeys \cup {None}, seen : Nat, event : BOOLEAN,
       posting : BOOLEAN, next : Int]

(* Every variable has its type; a request that posts or renews has a key     *)
(* exactly when its entry has one.                                           *)
WalletTypeOK ==
  /\ balance \in Int
  /\ ledger \subseteq Entries
  /\ issued \in [Keys -> {"none", "issue", "renew"}]
  /\ terms \in Nat
  /\ commission \in {"none", "pending"} \cup Statuses
  /\ op \in [Requests -> Op]
  /\ \A p \in Requests :
       /\ op[p].kind \in Renewing => op[p].key \in Keys
       /\ op[p].kind \in {"credit", "charge"} => op[p].key \in FundKeys
       /\ op[p].kind \in {"pay", "reverse"} => op[p].key = None
       /\ op[p].posting => op[p].kind \in Postings
  /\ {settled, overtaken, crossed} \subseteq BOOLEAN
  /\ troubled \subseteq Keys

Count(kinds) == Cardinality({e \in ledger : e[1] \in kinds})

(* The balance, written as a number computed earlier, is at all times the    *)
(* sum of the ledger, whatever postings, replays and crashes overlap.        *)
BalanceIsLedger ==
  balance = Funds * (Count({"credit"}) - Count({"charge"}))
            + Price * (Count({"rollback"}) - Count({"issue", "renew"}))
            + Commission * (Count({"pay"}) - Count({"reverse"}))

(* A partner that may not owe never has a negative balance.                  *)
NeverOverdrawn == ~AllowNegative => balance >= 0

(* The wallet can be trusted: its balance is its ledger's and is not owed.   *)
WalletBalances == BalanceIsLedger /\ NeverOverdrawn

(* Every recorded renewal was debited and the debit was not given back,      *)
(* unless its key was in trouble; and with no trouble at all the entitlement *)
(* has grown by exactly the renewals recorded or about to be.                *)
Recorded == {k \in Keys : issued[k] = "renew"}
Recording == {p \in Requests : op[p].kind = "record"}

RenewalsArePaid ==
  /\ \A k \in Recorded \ troubled : <<"renew", k>> \in ledger /\ ~RolledBack(k)
  /\ troubled = {} => terms = Cardinality(Recorded) + Cardinality(Recording)

(* A payout is reversed only after it was made and at most once; a           *)
(* commission whose order was refunded ends up reversed and stays so, and a  *)
(* reversed commission keeps no payout, unless requests on it overlapped, a  *)
(* payout was cut short, or the refund overtook the payment.                 *)
CommissionSettles ==
  /\ <<"reverse", None>> \in ledger => <<"pay", None>> \in ledger
  /\ commission = "paid" => <<"pay", None>> \in ledger
  /\ ~crossed /\ ~overtaken /\ settled => commission \in {"none", "reversed"}
  /\ ~crossed /\ commission = "reversed" /\ <<"pay", None>> \in ledger
       => <<"reverse", None>> \in ledger
=============================================================================
