---------------------------- MODULE ProductOffers ----------------------------
(***************************************************************************)
(* What one product sells: its plans and prices, edited and published in   *)
(* the product studio (saveStudioDraft, publish) and on the administrator's *)
(* pages for plans and prices (CatalogAdminService), while customers check *)
(* out (getPurchasableOffer, createOrder).                                 *)
(*                                                                         *)
(* No operation runs in a transaction but createOrder: every statement is  *)
(* a step, except that the SELECTs of one snapshot are taken together.  A  *)
(* plan stands for its slug and a term for its access term; names,         *)
(* features, currencies and billing types are left out, and every plan is  *)
(* of a type that can be bought.                                           *)
(***************************************************************************)
EXTENDS Naturals, FiniteSets

CONSTANTS
  Plans,       \* plans that may be created, by slug
  Prices,      \* ids of prices, in the order of their creation
  Terms,       \* access terms
  Amounts,     \* amounts of a price; 0 is accepted and not sold
  Edits,       \* the terms and amounts a form may hold for a plan
  Intervals,   \* COALESCE(interval, '') of a price
  Deletions,   \* the kinds of rows administrators delete
  Requests,    \* requests of administrators that may be in progress at once
  Customers,   \* checkouts that may be in progress at once
  MaxOrders    \* bound on the orders

Edit == [term : Terms, amount : Amounts]

ASSUME OffersAssumption ==
  /\ IsFiniteSet(Plans)
  /\ Plans \subseteq Nat \ {0}
  /\ Prices \subseteq Nat \ {0}
  /\ Amounts \subseteq Nat
  /\ Edits \subseteq Edit
  /\ "" \in Intervals
  /\ Deletions \subseteq {"plan", "price", "product"}
  /\ Terms # {}
  /\ MaxOrders \in Nat

Rows == {"draft", "active", "archived"}
Gone == {"none", "deleted"}

VARIABLES
  product,   \* products.status: "active", "off" for the other three, "deleted" without a row
  plan,      \* the rows of plans
  price,     \* the rows of prices
  orders,    \* order_items
  op,        \* what each request is doing
  cart,      \* the checkouts, up to their order
  entered,   \* the term and amount that were last entered together for a plan
  torn       \* plans whose row and price overlapping or dead requests mixed

catalog == <<product, plan, price>>
history == <<entered, torn>>
offerVars == <<catalog, orders, op, cart, history>>

Removed == [term |-> 0, amount |-> 0]   \* a plan that a form removes
NoForm == [i \in {} |-> Removed]
Doing(kind, todo, at) ==
  [kind |-> kind, form |-> NoForm, fresh |-> {}, newest |-> NoForm, todo |-> todo, at |-> at,
   publish |-> FALSE]
Saving(o, kind, todo, at, publish) ==
  [kind |-> kind, form |-> o.form, fresh |-> o.fresh, newest |-> o.newest, todo |-> todo,
   at |-> at, publish |-> publish]
NoRequest == Doing("idle", {}, 0)

Cart(pc, i, k, term, amount) ==
  [pc |-> pc, plan |-> i, price |-> k, term |-> term, amount |-> amount]
NoCart == Cart("none", 0, 0, 0, 0)

OffersInit ==
  /\ product = "off"
  /\ plan = [i \in Plans |-> [status |-> "none", term |-> 0]]
  /\ price = [k \in Prices |-> [status |-> "none", plan |-> 0, amount |-> 0, interval |-> ""]]
  /\ orders = {}
  /\ op = [p \in Requests |-> NoRequest]
  /\ cart = [c \in Customers |-> NoCart]
  /\ entered = [i \in Plans |-> Removed]
  /\ torn = {}

PricesOf(i) == {k \in Prices : price[k].plan = i /\ price[k].status \notin Gone}
Priced(i) == \E k \in PricesOf(i) : price[k].status = "active"

Goes(p, o) == op' = [op EXCEPT ![p] = o]
Returns(p) == Goes(p, NoRequest)
Begins(p, o) == op[p] = NoRequest /\ Goes(p, o)

(* History: p touches the row of plan i while another request has written    *)
(* the row and not the price, or while a checkout has read the row and not   *)
(* the price.                                                                *)
HalfSaved(p, i) == \E q \in Requests \ {p} : op[q].kind = "price" /\ op[q].at = i
HalfRead(i) == \E c \in Customers : cart[c].pc \in {"product", "price"} /\ cart[c].plan = i
Tears(i, mixed) == torn' = IF mixed THEN torn \cup {i} ELSE torn

-----------------------------------------------------------------------------
(* saveStudioDraft: a form, loaded some time ago, holds an edit or a removal *)
(* for each plan it shows, and edits for plans that are new.                 *)
Newest(i) == {k \in PricesOf(i) : \A l \in PricesOf(i) : l <= k}

(* studioFormAction: when the form is saved, the product may be published.   *)
NextOf(o) ==
  IF o.todo # {} THEN o
  ELSE IF o.kind = "save" /\ o.publish THEN Doing("publish", {}, 0)
  ELSE NoRequest

Save(p, form, publish) ==
  /\ product # "deleted"
  /\ \A i \in DOMAIN form : plan[i].status # "deleted"
  /\ \A i \in DOMAIN form : form[i] = Removed => plan[i].status # "none"
  /\ Begins(p, NextOf([kind |-> "save", form |-> form,
       fresh |-> {i \in DOMAIN form : plan[i].status = "none"},
       newest |-> [i \in DOMAIN form |-> Newest(i)],
       todo |-> DOMAIN form, at |-> 0, publish |-> publish]))
  /\ UNCHANGED <<catalog, orders, cart, history>>

StatusKept(i) == IF plan[i].status \in Gone THEN "draft" ELSE plan[i].status   \* faulty
SavedStatus(i) == "draft"

(* savePlan: an insert for a plan that is new to the form, else an update;   *)
(* it fails on a slug that is taken, and when there is no such row.          *)
Savable(p, i) ==
  IF i \in op[p].fresh THEN plan[i].status = "none" /\ product # "deleted"
  ELSE plan[i].status \in Rows

SavePlan(p, i) ==
  /\ op[p].kind = "save" /\ i \in op[p].todo /\ op[p].form[i] # Removed
  /\ IF Savable(p, i)
     THEN /\ plan' = [plan EXCEPT ![i] = [status |-> SavedStatus(i), term |-> op[p].form[i].term]]
          /\ Goes(p, Saving(op[p], "price", op[p].todo, i, op[p].publish))
          /\ Tears(i, HalfSaved(p, i) \/ HalfRead(i))
     ELSE Returns(p) /\ UNCHANGED <<plan, torn>>
  /\ UNCHANGED <<product, price, orders, cart, entered>>

(* prices_active_identity_unique                                             *)
IntervalTaken(i, interval, k) == \E l \in PricesOf(i) \ {k} :
  price[l].status = "active" /\ price[l].interval = interval

Sold(i, amount, interval) ==
  [status |-> "active", plan |-> i, amount |-> amount, interval |-> interval]

InsertPrice(i, amount, interval) == \E k \in Prices :
  /\ price[k].status = "none"
  /\ \A l \in Prices : price[l].status = "none" => k <= l
  /\ price' = [price EXCEPT ![k] = Sold(i, amount, interval)]

(* savePrice: an update of the newest price of the snapshot, or an insert.   *)
SavePrice(p) ==
  LET i == op[p].at
      e == op[p].form[i]
      k == IF op[p].newest[i] = {} THEN 0 ELSE CHOOSE n \in op[p].newest[i] : TRUE
  IN
  /\ op[p].kind = "price"
  /\ plan[i].status \in Rows
  /\ k # 0 => price[k].status # "deleted"
  /\ ~IntervalTaken(i, "", k)
  /\ IF k = 0 THEN InsertPrice(i, e.amount, "")
     ELSE price' = [price EXCEPT ![k] = Sold(@.plan, e.amount, "")]
  /\ Goes(p, NextOf(Saving(op[p], "save", op[p].todo \ {i}, 0, op[p].publish)))
  /\ entered' = [entered EXCEPT ![i] = e]
  /\ UNCHANGED <<product, plan, orders, cart, torn>>

(* What makes savePrice throw: the rest of the form is not saved.            *)
SavePriceFails(p) ==
  LET i == op[p].at
      k == op[p].newest[i]
  IN
  /\ op[p].kind = "price"
  /\ \/ plan[i].status \in Gone
     \/ \E n \in k : price[n].status = "deleted" \/ IntervalTaken(i, "", n)
     \/ k = {} /\ IntervalTaken(i, "", 0)
  /\ Returns(p)
  /\ Tears(i, TRUE)
  /\ UNCHANGED <<catalog, orders, cart, entered>>

(* archivePlan: it leaves the prices active; an error is kept, and prevents  *)
(* the publication only.                                                     *)
ArchivePlan(p, i) ==
  /\ op[p].kind = "save" /\ i \in op[p].todo /\ op[p].form[i] = Removed
  /\ IF plan[i].status \in Rows
     THEN plan' = [plan EXCEPT ![i].status = "archived"] /\ UNCHANGED torn
     ELSE UNCHANGED <<plan, torn>>
  /\ Goes(p, NextOf(Saving(op[p], "save", op[p].todo \ {i}, 0,
                           op[p].publish /\ plan[i].status \in Rows)))
  /\ UNCHANGED <<product, price, orders, cart, entered>>

-----------------------------------------------------------------------------
(* computeProductReadiness, as far as plans go.                              *)
Ready ==
  LET shown == {i \in Plans : plan[i].status \in Rows \ {"archived"}}
  IN shown = {} \/ \E i \in shown : Priced(i)

(* publish: readiness, the product, and the plans of a second snapshot.      *)
PublishCheck(p) ==
  /\ op[p].kind = "publish"
  /\ IF product # "deleted" /\ Ready THEN Goes(p, Doing("launch", {}, 0)) ELSE Returns(p)
  /\ UNCHANGED <<catalog, orders, cart, history>>

PublishProduct(p) ==
  /\ op[p].kind = "launch"
  /\ product' = IF product = "deleted" THEN product ELSE "active"
  /\ Goes(p, Doing("plans", {}, 0))
  /\ UNCHANGED <<plan, price, orders, cart, history>>

Inactive(i) == plan[i].status \in {"draft", "archived"}

PublishPlans(p) ==
  /\ op[p].kind = "plans"
  /\ Goes(p, NextOf(Doing("activate", {i \in Plans : Inactive(i) /\ Priced(i)}, 0)))
  /\ UNCHANGED <<catalog, orders, cart, history>>

SetStatus(i, s) == plan' = [plan EXCEPT ![i].status = IF @ \in Gone THEN @ ELSE s]

ActivatePlan(p, i) ==
  /\ op[p].kind = "activate" /\ i \in op[p].todo
  /\ SetStatus(i, "active")
  /\ Goes(p, NextOf(Doing("activate", op[p].todo \ {i}, 0)))
  /\ Tears(i, HalfSaved(p, i))
  /\ UNCHANGED <<product, price, orders, cart, entered>>

-----------------------------------------------------------------------------
(* setProductStatus, and archive of the studio.                              *)
SetProductStatus(s) ==
  /\ product \notin {"deleted", s}
  /\ product' = s
  /\ UNCHANGED <<plan, price, orders, op, cart, history>>

CreatePlan(i) ==
  /\ product # "deleted"
  /\ plan[i].status = "none"
  /\ plan' = [plan EXCEPT ![i].status = "draft"]
  /\ UNCHANGED <<product, price, orders, op, cart, history>>

SetPlanStatus(i, s) ==
  /\ plan[i].status \in Rows \ {s}
  /\ SetStatus(i, s)
  /\ Tears(i, \E p \in Requests : op[p].kind = "price" /\ op[p].at = i)
  /\ UNCHANGED <<product, price, orders, op, cart, entered>>

CreatePrice(i, amount, interval) ==
  /\ plan[i].status \in Rows
  /\ ~IntervalTaken(i, interval, 0)
  /\ InsertPrice(i, amount, interval)
  /\ entered' = [entered EXCEPT ![i] = [term |-> plan[i].term, amount |-> amount]]
  /\ UNCHANGED <<product, plan, orders, op, cart, torn>>

SetPriceActive(k, active) ==
  /\ price[k].status = IF active THEN "inactive" ELSE "active"
  /\ active => ~IntervalTaken(price[k].plan, price[k].interval, k)
  /\ price' = [price EXCEPT ![k].status = IF active THEN "active" ELSE "inactive"]
  /\ UNCHANGED <<product, plan, orders, op, cart, history>>

-----------------------------------------------------------------------------
OrderedPlan(i) == \E o \in orders : o.plan = i
OrderedPrice(k) == \E o \in orders : o.price = k

(* deletePlan, deletePrice and deleteProduct: countFinancialRefs, then the   *)
(* row, unless a foreign key restricts it.                                   *)
DeletePlan(p, i) ==
  /\ plan[i].status \in Rows
  /\ ~OrderedPlan(i)
  /\ Begins(p, Doing("deletePlan", {}, i))
  /\ UNCHANGED <<catalog, orders, cart, history>>

DeletePrice(p, k) ==
  /\ price[k].status \notin Gone
  /\ ~OrderedPrice(k)
  /\ Begins(p, Doing("deletePrice", {}, k))
  /\ UNCHANGED <<catalog, orders, cart, history>>

DeleteProduct(p) ==
  /\ product # "deleted"
  /\ orders = {}
  /\ Begins(p, Doing("deleteProduct", {}, 0))
  /\ UNCHANGED <<catalog, orders, cart, history>>

CountIsEnough(kind, n) == FALSE   \* faulty
(* onDelete: "restrict", of order_items, prices and plans.                   *)
Restricted(kind, n) ==
  CASE kind = "deletePlan" -> OrderedPlan(n) \/ PricesOf(n) # {}
    [] kind = "deletePrice" -> OrderedPrice(n)
    [] OTHER -> \E i \in Plans : plan[i].status \in Rows

DeleteRow(p) ==
  LET n == op[p].at
      kind == op[p].kind
  IN
  /\ kind \in {"deletePlan", "deletePrice", "deleteProduct"}
  /\ IF Restricted(kind, n) THEN UNCHANGED catalog
     ELSE /\ plan' = IF kind = "deletePlan" THEN [plan EXCEPT ![n].status = "deleted"] ELSE plan
          /\ price' = IF kind = "deletePrice" THEN [price EXCEPT ![n].status = "deleted"] ELSE price
          /\ product' = IF kind = "deleteProduct" THEN "deleted" ELSE product
  /\ Returns(p)
  /\ UNCHANGED <<orders, cart, history>>

(* A statement fails, or the process stops.                                  *)
Stop(p) ==
  /\ op[p] # NoRequest
  /\ Returns(p)
  /\ torn' = IF op[p].kind = "price" THEN torn \cup {op[p].at} ELSE torn
  /\ UNCHANGED <<catalog, orders, cart, entered>>

-----------------------------------------------------------------------------
(* getPurchasableOffer reads the plan, the product and the price, one after  *)
(* the other; createOrder inserts what was read.                             *)
ReadPlan(c, i, k) ==
  /\ cart[c] = NoCart
  /\ plan[i].status = "active"
  /\ price[k].plan = i
  /\ cart' = [cart EXCEPT ![c] = Cart("product", i, k, plan[i].term, 0)]
  /\ UNCHANGED <<catalog, orders, op, history>>

ReadProduct(c) ==
  /\ cart[c].pc = "product"
  /\ cart' = [cart EXCEPT ![c] = IF product = "active" THEN [@ EXCEPT !.pc = "price"] ELSE NoCart]
  /\ UNCHANGED <<catalog, orders, op, history>>

ReadPrice(c) ==
  LET r == price[cart[c].price] IN
  /\ cart[c].pc = "price"
  /\ cart' = [cart EXCEPT ![c] = IF r.status = "active" /\ r.amount > 0
                                 THEN Cart("order", @.plan, @.price, @.term, r.amount) ELSE NoCart]
  /\ UNCHANGED <<catalog, orders, op, history>>

PlaceOrder(c) ==
  /\ cart[c].pc = "order"
  /\ Cardinality(orders) < MaxOrders
  /\ LET o == cart[c] IN
     orders' = IF plan[o.plan].status \in Rows /\ price[o.price].status \notin Gone
               THEN orders \cup {[plan |-> o.plan, price |-> o.price, term |-> o.term,
                                  amount |-> o.amount]}
               ELSE orders   \* a foreign key of order_items
  /\ cart' = [cart EXCEPT ![c] = NoCart]
  /\ UNCHANGED <<catalog, op, history>>

Abandon(c) ==
  /\ cart[c] # NoCart
  /\ cart' = [cart EXCEPT ![c] = NoCart]
  /\ UNCHANGED <<catalog, orders, op, history>>

-----------------------------------------------------------------------------
Forms == UNION {[I -> Edits \cup {Removed}] : I \in SUBSET Plans}

Studio(p) ==
  \/ \E form \in Forms, publish \in BOOLEAN : Save(p, form, publish)
  \/ \E i \in Plans : SavePlan(p, i) \/ ArchivePlan(p, i) \/ ActivatePlan(p, i)
  \/ SavePrice(p) \/ SavePriceFails(p)
  \/ PublishCheck(p) \/ PublishProduct(p) \/ PublishPlans(p)

Pages ==
  \/ \E s \in {"active", "off"} : SetProductStatus(s)
  \/ \E i \in Plans : CreatePlan(i) \/ \E s \in Rows : SetPlanStatus(i, s)
  \/ \E i \in Plans, a \in Amounts, id \in Intervals : CreatePrice(i, a, id)
  \/ \E k \in Prices, b \in BOOLEAN : SetPriceActive(k, b)

Delete(p) ==
  \/ "plan" \in Deletions /\ \E i \in Plans : DeletePlan(p, i)
  \/ "price" \in Deletions /\ \E k \in Prices : DeletePrice(p, k)
  \/ "product" \in Deletions /\ DeleteProduct(p)
  \/ DeleteRow(p)

Checkout(c) ==
  \/ \E i \in Plans, k \in Prices : ReadPlan(c, i, k)
  \/ ReadProduct(c) \/ ReadPrice(c) \/ PlaceOrder(c) \/ Abandon(c)

OffersNext ==
  \/ \E p \in Requests : Studio(p) \/ Delete(p) \/ Stop(p)
  \/ Pages
  \/ \E c \in Customers : Checkout(c)

OffersSpec == OffersInit /\ [][OffersNext]_offerVars

-----------------------------------------------------------------------------
Values == Terms \cup {0}

(* Every variable has its type, and whatever is saved, created and switched  *)
(* on at once, a plan has one active price for an interval.                  *)
OffersTypeOK ==
  /\ product \in {"active", "off", "deleted"}
  /\ plan \in [Plans -> [status : Rows \cup Gone, term : Values]]
  /\ price \in [Prices -> [status : {"active", "inactive"} \cup Gone, plan : Plans \cup {0},
                           amount : Amounts \cup {0}, interval : Intervals]]
  /\ orders \subseteq [plan : Plans, price : Prices, term : Values, amount : Amounts]
  /\ \A p \in Requests : op[p].todo \subseteq Plans
  /\ \A c \in Customers : cart[c].plan \in Plans \cup {0} /\ cart[c].price \in Prices \cup {0}
  /\ torn \subseteq Plans
  /\ \A k \in Prices : price[k].status = "active" =>
       ~IntervalTaken(price[k].plan, price[k].interval, k)

(* countFinancialRefs is read before the row is deleted, and a checkout may  *)
(* order in between: what an order names is never deleted, and no plan goes  *)
(* before its prices, nor the product before its plans.                      *)
ReferencedRowsStay ==
  /\ \A o \in orders : plan[o.plan].status \in Rows /\ price[o.price].status \notin Gone
  /\ \A k \in Prices : price[k].status \notin Gone => plan[price[k].plan].status \in Rows
  /\ product = "deleted" => \A i \in Plans : plan[i].status \in Gone

(* Whatever is saved, created, switched on and deleted at once.              *)
RowsStayInOrder == OffersTypeOK /\ ReferencedRowsStay

(* A price belongs to its plan for good, deleted or not.                     *)
OnlyPrice(k, i) == \A l \in Prices : price[l].plan = i <=> l = k
HadOnePrice(i) == \E k \in Prices : OnlyPrice(k, i)

(* A save takes a plan off sale before it changes what the plan costs, and a *)
(* checkout reads the two in separate statements: what a customer orders has *)
(* the term and the amount that were last entered together, unless they were *)
(* mixed by requests that overlapped or died in between, or the plan has had *)
(* several prices.                                                           *)
OffersAreAsEntered ==
  [][\A c \in Customers :
       LET o == cart'[c] IN
       cart[c].pc = "price" /\ o.pc = "order" /\ o.plan \notin torn /\ HadOnePrice(o.plan) =>
         entered[o.plan] = [term |-> o.term, amount |-> o.amount]]_offerVars
=============================================================================
