----------------------------- MODULE Fulfilment -----------------------------
(***************************************************************************)
(* From the outbox to access: the entitlement and licensing handlers of    *)
(* packages/entitlement/src/commerce-hooks.ts and                          *)
(* packages/licensing/src/order-handlers.ts, fed by the orders of one      *)
(* customer for one product.  The orders are any system that keeps         *)
(* OrderContract; their outbox rows reach the handlers at least once, and  *)
(* in any order, because a failed row backs off while later rows go on.    *)
(* A row is with one dispatcher at a time (OneDispatcher, of Outbox), and  *)
(* when a handler fails it is retried from its first handler.              *)
(*                                                                         *)
(* The customer's entitlement for the product is one row: grants reuse the *)
(* open (active or suspended) row and overwrite which order it is for.     *)
(* Revocation by an administrator and expiry are not modelled here.        *)
(***************************************************************************)
EXTENDS Naturals, FiniteSets

CONSTANTS
  Orders,     \* orders of one customer, all for the same product
  MaxTerms,   \* bound on the terms of the entitlement
  NoOrder     \* the entitlement row does not exist yet

ASSUME FulfilmentAssumption ==
  /\ MaxTerms \in Nat
  /\ NoOrder \notin Orders

VARIABLES
  phase, announced,   \* the orders and their outbox rows: see OrderContract
  handled,   \* handlers that have succeeded in the current run of a row
  done,      \* outbox rows marked PROCESSED
  ent,       \* the entitlement: status, metadata's order, terms granted
  licence,   \* licenses.status
  matched,   \* reversals that found the entitlement and have still to write
  overtaken  \* orders with a reversal handled before the paid row was done

commerceVars == <<phase, announced>>
accessVars == <<ent, licence, matched>>
fulfilmentVars ==
  <<phase, announced, handled, done, ent, licence, matched, overtaken>>

Commerce == INSTANCE OrderContract

(* The handlers of order.refunded return at once when full is false.         *)
VoidedForgotten == {"paid", "full"}   \* faulty
Kinds == {"paid", "full", "voided"}

LicensingForgotten(k) == {"entitlement"}   \* faulty
Handlers(k) == IF k = "paid" THEN {"entitlement", "licensing"} ELSE {"entitlement"}

FulfilmentInit ==
  /\ Commerce!Init
  /\ handled = [o \in Orders |-> [k \in Kinds |-> {}]]
  /\ done = [o \in Orders |-> {}]
  /\ ent = [status |-> "none", order |-> NoOrder, terms |-> 0]
  /\ licence = "none"
  /\ matched = {}
  /\ overtaken = {}

Shop == Commerce!Next /\ UNCHANGED <<handled, done, ent, licence, matched, overtaken>>

NotYetCommittedToo(o, k) == k \notin done[o]   \* faulty
Owed(o, k) == k \in announced[o] \ done[o]

Succeeds(o, k, h) ==
  /\ handled' = [handled EXCEPT ![o][k] = @ \cup {h}]
  /\ UNCHANGED <<phase, announced, done>>

(* nextExpiresAt: an active entitlement is extended, any other starts now.   *)
TermsAfterGrant == IF ent.status = "active" THEN ent.terms + 1 ELSE 1

(* findByOrderItem: the row still carries this order's item.                 *)
IsReplay(o) == ent.order = o

(* grantOn, under the advisory lock of customer and product, without a       *)
(* licence (provisionLicense: false).                                        *)
Grant(o) ==
  /\ Owed(o, "paid") /\ handled[o]["paid"] = {}
  /\ Succeeds(o, "paid", "entitlement")
  /\ IF IsReplay(o) THEN UNCHANGED ent
     ELSE /\ TermsAfterGrant <= MaxTerms
          /\ ent' = [status |-> "active", order |-> o, terms |-> TermsAfterGrant]
  /\ UNCHANGED <<licence, matched, overtaken>>

(* provisionLicenseIfRequired: an existing licence is left as it is.         *)
Provision(o) ==
  /\ Owed(o, "paid")
  /\ handled[o]["paid"] = {"entitlement"}
  /\ Succeeds(o, "paid", "licensing")
  /\ licence' = IF ent.order = o /\ licence = "none" THEN "active" ELSE licence
  /\ UNCHANGED <<ent, matched, overtaken>>

(* reversePurchasedAccess looks for the entitlement that carries the order's *)
(* item, and suspends it by id in a statement of its own, outside the lock.  *)
Matches(o) == ent.order = o

FindAccess(o, k) ==
  /\ k # "paid" /\ Owed(o, k) /\ handled[o][k] = {}
  /\ Matches(o)
  /\ matched' = matched \cup {<<o, k>>}
  /\ UNCHANGED <<phase, announced, handled, done, ent, licence, overtaken>>

OvertakenBy(o) ==
  overtaken' = IF Owed(o, "paid") THEN overtaken \cup {o} ELSE overtaken

FindNothing(o, k) ==
  /\ k # "paid" /\ Owed(o, k) /\ handled[o][k] = {}
  /\ <<o, k>> \notin matched
  /\ ~Matches(o)
  /\ Succeeds(o, k, "entitlement")
  /\ OvertakenBy(o)
  /\ UNCHANGED accessVars

(* suspendEntitlement, then syncLicense *)
LicenceSuspended == IF licence = "none" THEN "none" ELSE "suspended"

Suspend(o, k) ==
  /\ <<o, k>> \in matched
  /\ matched' = matched \ {<<o, k>>}
  /\ ent' = [ent EXCEPT !.status = "suspended"]
  /\ licence' = LicenceSuspended
  /\ Succeeds(o, k, "entitlement")
  /\ OvertakenBy(o)

(* A handler fails (the partner's, which runs last, or the write of a        *)
(* reversal) or the dispatcher dies: the row is retried from the start.      *)
Retry(o, k) ==
  /\ k \in announced[o] \ done[o]
  /\ handled[o][k] # {} \/ <<o, k>> \in matched
  /\ handled' = [handled EXCEPT ![o][k] = {}]
  /\ matched' = matched \ {<<o, k>>}
  /\ UNCHANGED <<phase, announced, done, ent, licence, overtaken>>

Finish(o, k) ==
  /\ k \in announced[o] \ done[o]
  /\ handled[o][k] = Handlers(k)
  /\ done' = [done EXCEPT ![o] = @ \cup {k}]
  /\ UNCHANGED <<phase, announced, handled, ent, licence, matched, overtaken>>

FulfilmentNext ==
  \/ Shop
  \/ \E o \in Orders :
       \/ Grant(o) \/ Provision(o)
       \/ \E k \in Kinds :
            \/ FindAccess(o, k) \/ FindNothing(o, k) \/ Suspend(o, k)
            \/ Retry(o, k) \/ Finish(o, k)

FulfilmentSpec == FulfilmentInit /\ [][FulfilmentNext]_fulfilmentVars

-----------------------------------------------------------------------------
(* Every outbox row written so far has been handled.                         *)
Settled == \A o \in Orders : announced[o] \cap Kinds = done[o]

TakenBack(o) == phase[o] \in {"refunded", "voided"}

(* No access that nobody bought: the entitlement is for an order that was    *)
(* paid, there is a licence only beside an entitlement, and access is        *)
(* suspended only when some order was taken back.                            *)
AccessWasBought ==
  /\ ent.status # "none" => "paid" \in announced[ent.order]
  /\ licence # "none" => ent.status # "none"
  /\ ent.status = "suspended" => \E o \in Orders : TakenBack(o)

(* When everything is handled and no bought order was taken back, the        *)
(* customer has an active entitlement, with a term at least for each of the  *)
(* orders, and an active licence.                                            *)
PurchaseGivesAccess ==
  /\ Settled
  /\ \E o \in Orders : phase[o] = "paid"
  /\ \A o \in Orders : ~TakenBack(o)
  => /\ ent.status = "active" /\ licence = "active"
     /\ ent.terms >= Cardinality({o \in Orders : phase[o] = "paid"})

(* When everything is handled and no order stands paid, there is no active   *)
(* entitlement, unless a reversal was handled before the grant it reverses.  *)
LeftOver ==
  /\ Settled
  /\ \A o \in Orders : phase[o] # "paid"
  /\ ent.status = "active"

RefundEndsAccess == LeftOver => overtaken # {}
=============================================================================
