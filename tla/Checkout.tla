------------------------------ MODULE Checkout ------------------------------
(***************************************************************************)
(* The shop in one browser: the cart store, the product, cart, checkout and *)
(* success pages, and what they make the server do (OrderService.create and *)
(* PaymentService.confirm, each as one step here; OrderPayment has confirm   *)
(* in its steps).                                                           *)
(*                                                                          *)
(* The handlers of the pages are coroutines: onPay waits for the server and *)
(* then for PortOne's widget, and goes on when the page it was started from *)
(* is long gone.  The success page posts its confirm from an effect, which  *)
(* runs again whenever the toast context changes, and that is whenever a    *)
(* toast comes or goes.                                                     *)
(***************************************************************************)
EXTENDS Integers, Sequences, FiniteSets, FiniteSetsExt, Functions

CONSTANTS
  Products,
  Price,          \* [Products -> Nat], salePriceKrw, on the server as in the cart
  Stock,          \* [Products -> Nat]
  Fields,         \* fields of the address form
  Required,       \* those without which it is not valid
  MaxItems,       \* bound on the quantities in the cart, together
  MaxPays,        \* bound on presses of the pay button
  MaxPosts,       \* bound on confirms of one order under way
  MaxToasts       \* bound on toasts shown at once

ASSUME CheckoutAssumption ==
  /\ IsFiniteSet(Products)
  /\ Price \in [Products -> Nat] /\ Stock \in [Products -> Nat]
  /\ Required \subseteq Fields
  /\ {MaxItems, MaxPays, MaxPosts, MaxToasts} \subseteq Nat \ {0}

VARIABLES
  cart,           \* the cart store, kept in localStorage
  saved,          \* the shipping store: the saved address, kept as well
  page,           \* the page the browser shows
  form,           \* the state of the checkout page
  pays,           \* the runs of onPay, in the order they were started
  orders,         \* table Order, with what PortOne has collected for each
  result,         \* the success page: its order, those it has had since it was
                  \* mounted, and what it says
  toasts          \* the number of toasts shown

vars == <<cart, saved, page, form, pays, orders, result, toasts>>

-----------------------------------------------------------------------------

Line == [quantity : 1..MaxItems, selected : BOOLEAN]

Carts == UNION {[S -> Line] : S \in SUBSET Products}

EmptyCart == [p \in {} |-> 0]

\* An address is the set of its fields that are filled; it passes the schema
\* when every required field is.  {} is no address.
Parsed(filled) == IF Required \subseteq filled THEN filled ELSE {}

Form == [editing : BOOLEAN, values : SUBSET Fields, draft : SUBSET Fields,
         loading : BOOLEAN, sheet : BOOLEAN]

\* items, charge and address: what the handler closed over; shown: the address
\* on the page when the button was pressed; mounted: whether the page it was
\* started from is still there; order: the order it has created.
Pay == [items : Carts, charge : Nat, address : SUBSET Fields,
        shown : SUBSET Fields, mounted : BOOLEAN,
        order : Nat, step : {"order", "widget", "done"}]

\* Its items and address are the pay's.  collected: what PortOne has; due: what
\* it waits for; posts: the confirms under way that a success page has posted.
Order == [total : Nat, collected : Nat, due : Nat, posts : 0..MaxPosts,
          status : {"PENDING_PAYMENT", "PAID", "PREPARING"}]

Result == [order : Nat, visited : SUBSET Nat,
           status : {"pending", "success", "fail"}]

TypeOK ==
  /\ cart \in Carts
  /\ saved \in SUBSET Fields
  /\ page \in {"shop", "checkout", "success"}
  /\ form \in Form
  /\ pays \in Seq(Pay)
  /\ orders \in Seq(Order)
  /\ result \in Result
  /\ toasts \in 0..MaxToasts

-----------------------------------------------------------------------------
(* stores/cart.ts                                                           *)

AddLine(p) ==
  cart' = IF p \in DOMAIN cart
            THEN [cart EXCEPT ![p].quantity = @ + 1]
            ELSE [q \in DOMAIN cart \cup {p} |->
                    IF q = p THEN [quantity |-> 1, selected |-> TRUE] ELSE cart[q]]

SetQuantity(p, n) ==
  cart' = [cart EXCEPT ![p].quantity = Max({1, n})]

ToggleSelected(p) == cart' = [cart EXCEPT ![p].selected = ~@]

ToggleSelectAll(selected) ==
  cart' = [p \in DOMAIN cart |-> [cart[p] EXCEPT !.selected = selected]]

RemoveLines(gone) == cart' = Restrict(cart, DOMAIN cart \ gone)

Selected == {p \in DOMAIN cart : cart[p].selected}

Sum(items, of) == SumFunction([p \in of |-> Price[p] * items[p].quantity])

CartSubtotal == Sum(cart, Selected)

-----------------------------------------------------------------------------
(* Product and cart pages                                                   *)

\* A toast is shown, for a while.
ShowToast == toasts' = Min({toasts + 1, MaxToasts})

\* The checkout page as it is mounted: a navigation finds the saved address in
\* the store, the hydration of a fresh load does not.
Mounted(address) ==
  [editing |-> address = {}, values |-> address, draft |-> address,
   loading |-> FALSE, sheet |-> FALSE]

Detached == [i \in DOMAIN pays |-> [pays[i] EXCEPT !.mounted = FALSE]]

OpenCheckout ==
  /\ page' = "checkout"
  /\ form' = Mounted(saved)
  /\ pays' = Detached

Room == SumFunction([p \in DOMAIN cart |-> cart[p].quantity]) < MaxItems

AddToCart(p) ==
  /\ page = "shop"
  /\ Room
  /\ AddLine(p)
  /\ ShowToast
  /\ UNCHANGED <<page, form, pays, saved, orders, result>>

BuyNow(p) ==
  /\ page = "shop"
  /\ Room
  /\ AddLine(p)
  /\ OpenCheckout
  /\ UNCHANGED <<saved, orders, result, toasts>>

\* The buttons of a line; the one that takes away stops at one.
LineButtons(p) ==
  \/ ToggleSelected(p)
  \/ cart[p].quantity > 1 /\ SetQuantity(p, cart[p].quantity - 1)
  \/ Room /\ SetQuantity(p, cart[p].quantity + 1)
  \/ RemoveLines({p})

CartPage ==
  /\ page = "shop"
  /\ cart # EmptyCart
  /\ \/ \E p \in DOMAIN cart : LineButtons(p)
     \/ \E selected \in BOOLEAN : ToggleSelectAll(selected)
     \/ RemoveLines(Selected)
  /\ UNCHANGED <<page, form, pays, saved, orders, result, toasts>>

\* The cart's own button.
GoToCheckout ==
  /\ page = "shop"
  /\ OpenCheckout
  /\ UNCHANGED <<cart, saved, orders, result, toasts>>

-----------------------------------------------------------------------------
(* checkout/page.tsx                                                        *)

FormMounted == form.editing \/ saved = {}

\* The form's effect hands every change to the page.
TypeField(f) ==
  /\ page = "checkout" /\ FormMounted
  /\ LET values == (form.values \ {f}) \cup ({f} \ form.values)
     IN  form' = [form EXCEPT !.values = values, !.draft = Parsed(values)]
  /\ UNCHANGED <<cart, saved, page, pays, orders, result, toasts>>

EditAddress ==
  /\ page = "checkout" /\ ~FormMounted
  /\ form' = [form EXCEPT !.editing = TRUE, !.draft = saved, !.values = saved]
  /\ UNCHANGED <<cart, saved, page, pays, orders, result, toasts>>

\* The form goes; the draft stays as it was last typed.
CancelEdit ==
  /\ page = "checkout" /\ form.editing /\ saved # {}
  /\ form' = [form EXCEPT !.editing = FALSE, !.values = saved]
  /\ UNCHANGED <<cart, saved, page, pays, orders, result, toasts>>

\* Mutated form: the draft is preferred to the saved address.
DraftFirst == IF form.draft # {} THEN form.draft ELSE saved

EffectiveAddress == IF form.editing THEN form.draft ELSE saved

ShownAddress == IF FormMounted THEN Parsed(form.values) ELSE saved

CanPay == EffectiveAddress # {} /\ cart # EmptyCart

\* The consent is ticked.  The order will have every line of the cart, the
\* charge is of the selected.
OnPay ==
  /\ page = "checkout"
  /\ CanPay /\ ~form.loading
  /\ Len(pays) < MaxPays
  /\ saved' = IF form.editing THEN EffectiveAddress ELSE saved
  /\ form' = [form EXCEPT !.loading = TRUE, !.sheet = TRUE]
  /\ pays' = Append(pays,
       [items |-> cart, charge |-> CartSubtotal, address |-> EffectiveAddress,
        shown |-> ShownAddress, mounted |-> TRUE, order |-> 0, step |-> "order"])
  /\ UNCHANGED <<cart, page, orders, result, toasts>>

\* Mutated form: closing the sheet also gives the button back.
CloseSheetAndStop ==
  /\ page = "checkout" /\ form.sheet
  /\ form' = [form EXCEPT !.sheet = FALSE, !.loading = FALSE]
  /\ UNCHANGED <<cart, saved, page, pays, orders, result, toasts>>

\* The sheet's backdrop, and the back button of Android; the payment goes on.
CloseSheet ==
  /\ page = "checkout" /\ form.sheet
  /\ form' = [form EXCEPT !.sheet = FALSE]
  /\ UNCHANGED <<cart, saved, page, pays, orders, result, toasts>>

-----------------------------------------------------------------------------
(* Toasts, and the effect of the success page that depends on them          *)

NoResult == [order |-> 0, visited |-> {}, status |-> "pending"]

\* Mounted for an order, the page waits; the order after it, in the same mount,
\* changes the query only, and finds what the page says of the one before.
ResultOf(o) ==
  IF page = "success"
    THEN [result EXCEPT !.order = o, !.visited = @ \cup {o}]
    ELSE [order |-> o, visited |-> {o}, status |-> "pending"]

Post(os, o) == [os EXCEPT ![o].posts = Min({@ + 1, MaxPosts})]

\* Every toast that comes or goes makes a new context value, and the effect of
\* the success page, when that is the page shown, runs again.
Reposted(os) == IF page = "success" THEN Post(os, result.order) ELSE os

ToastGone ==
  /\ toasts > 0
  /\ toasts' = toasts - 1
  /\ orders' = Reposted(orders)
  /\ UNCHANGED <<cart, saved, page, form, pays, result>>

-----------------------------------------------------------------------------
(* onPay goes on                                                            *)

\* finally: the page, when it is still there, gets its button back.
Settle(i) ==
  form' = IF pays[i].mounted
            THEN [form EXCEPT !.loading = FALSE, !.sheet = FALSE]
            ELSE form

\* A run that has returned: nothing of it is read any more.  One that waits for
\* the widget has used its items and its address.
Over == [items |-> EmptyCart, charge |-> 0, address |-> {}, shown |-> {},
         mounted |-> FALSE, order |-> 0, step |-> "done"]

PayFails(i) ==
  /\ pays' = [pays EXCEPT ![i] = Over]
  /\ Settle(i)
  /\ ShowToast
  /\ orders' = Reposted(orders)
  /\ UNCHANGED <<page, result>>

\* OrderService.create: every line is looked up and in stock, and the total is
\* of every line.
InStock(items) == \A p \in DOMAIN items : items[p].quantity <= Stock[p]

NewOrder(i) ==
  [total |-> Sum(pays[i].items, DOMAIN pays[i].items), collected |-> 0, due |-> 0,
   posts |-> 0, status |-> "PENDING_PAYMENT"]

\* Mutated form: the cart is emptied once its order is created.
OrderAnsweredClears(i) ==
  /\ pays[i].step = "order"
  /\ InStock(pays[i].items)
  /\ orders' = Append(orders, NewOrder(i))
  /\ pays' = [pays EXCEPT ![i] =
       [Over EXCEPT !.charge = pays[i].charge, !.mounted = pays[i].mounted,
          !.order = Len(orders) + 1, !.step = "widget"]]
  /\ cart' = EmptyCart
  /\ UNCHANGED <<saved, form, page, result, toasts>>

\* The answer to POST /orders, or none.  An order whose answer is lost stays
\* in the table, and as nothing will ever name it, it is left out.
OrderAnswered(i) ==
  /\ pays[i].step = "order"
  /\ \/ /\ InStock(pays[i].items)
        /\ orders' = Append(orders, NewOrder(i))
        /\ pays' = [pays EXCEPT ![i] =
             [Over EXCEPT !.charge = pays[i].charge, !.mounted = pays[i].mounted,
                !.order = Len(orders) + 1, !.step = "widget"]]
        /\ UNCHANGED <<form, page, result, toasts>>
     \/ PayFails(i)
  /\ UNCHANGED <<cart, saved>>

\* requestPayment: an answer with a code, an exception, or success, after which
\* the money of a transfer may still be due.  The push to the success page works
\* from wherever the member has gone, and the page posts its confirm.
WidgetAnswered(i) ==
  /\ pays[i].step = "widget"
  /\ \/ /\ pays[i].charge > 0
        /\ \E now \in BOOLEAN :
             orders' = [orders EXCEPT ![pays[i].order] =
               [@ EXCEPT !.posts = 1, !.due = IF now THEN 0 ELSE pays[i].charge,
                  !.collected = IF now THEN pays[i].charge ELSE 0]]
        /\ page' = "success"
        /\ form' = Mounted({})
        /\ result' = ResultOf(pays[i].order)
        /\ pays' = [Detached EXCEPT ![i] = Over]
        /\ UNCHANGED toasts
     \/ PayFails(i)
  /\ UNCHANGED <<cart, saved>>

\* The money of a transfer arrives.
Deposit(o) ==
  /\ orders[o].due > 0
  /\ orders' = [orders EXCEPT ![o].collected = @ + orders[o].due, ![o].due = 0]
  /\ UNCHANGED <<cart, saved, page, form, pays, result, toasts>>

\* Fulfilment takes the order on.
Fulfil(o) ==
  /\ orders[o].status = "PAID"
  /\ orders' = [orders EXCEPT ![o].status = "PREPARING"]
  /\ UNCHANGED <<cart, saved, page, form, pays, result, toasts>>

-----------------------------------------------------------------------------
(* checkout/success/page.tsx                                                *)

\* Mutated form: the amount is not compared.
CollectedAny(o) == orders[o].status = "PENDING_PAYMENT" /\ orders[o].collected > 0

\* PaymentService.confirm: PortOne has collected the order's total.
Collected(o) ==
  /\ orders[o].status = "PENDING_PAYMENT"
  /\ orders[o].collected = orders[o].total
  /\ orders[o].total > 0

\* The page has one status, which every answer sets that comes while the page is
\* mounted, whichever of its orders is shown by then.  One that is gone has none.
Answered(o, status) ==
  result' = IF page = "success" /\ o \in result.visited
              THEN [result EXCEPT !.status = status] ELSE result

\* PAID: the page shows it, and the cart is cleared from wherever it runs.
ConfirmPaid(o) ==
  /\ Collected(o) \/ orders[o].status = "PAID"
  /\ orders' = [orders EXCEPT ![o].status = "PAID", ![o].posts = @ - 1]
  /\ Answered(o, "success")
  /\ cart' = EmptyCart
  /\ UNCHANGED toasts

\* Mutated form: an error is taken for success, as it once was.
ConfirmFailsWell(o) ==
  /\ orders' = [orders EXCEPT ![o].posts = @ - 1]
  /\ Answered(o, "success")
  /\ cart' = EmptyCart
  /\ UNCHANGED toasts

\* Mutated form: the page is left as it is.
ConfirmFailsQuietly(o) ==
  /\ orders' = [orders EXCEPT ![o].posts = @ - 1]
  /\ UNCHANGED <<result, cart, toasts>>

\* A refusal, or no answer, in which case the order may have been confirmed.
\* The toast has the page that is shown post once more.
ConfirmFails(o) ==
  /\ \E status \in {orders[o].status} \cup {s \in {"PAID"} : Collected(o)} :
       orders' = Reposted([orders EXCEPT ![o].status = status, ![o].posts = @ - 1])
  /\ Answered(o, "fail")
  /\ ShowToast
  /\ UNCHANGED cart

ConfirmAnswered(o) ==
  /\ orders[o].posts > 0
  /\ ConfirmPaid(o) \/ ConfirmFails(o)
  /\ UNCHANGED <<saved, page, form, pays>>

Retry ==
  /\ page = "success" /\ result.status = "fail"
  /\ result' = [result EXCEPT !.status = "pending"]
  /\ orders' = Post(orders, result.order)
  /\ UNCHANGED <<cart, saved, page, form, pays, toasts>>

\* A fresh load of the application ends everything that was running in it; only
\* the stores and the server stay.
Reload ==
  /\ pays' = [i \in DOMAIN pays |-> Over]
  /\ toasts' = 0
  /\ UNCHANGED <<cart, saved>>

ReloadResult ==
  /\ page = "success"
  /\ Reload
  /\ orders' = [o \in DOMAIN orders |->
       [orders[o] EXCEPT !.posts = IF o = result.order THEN 1 ELSE 0]]
  /\ result' = [result EXCEPT !.visited = {result.order}, !.status = "pending"]
  /\ UNCHANGED <<page, form>>

ReloadCheckout ==
  /\ Reload
  /\ page' = "checkout"
  /\ form' = Mounted({})
  /\ result' = NoResult
  /\ orders' = [o \in DOMAIN orders |-> [orders[o] EXCEPT !.posts = 0]]

\* Back, or a link: the page goes, and what it has started goes on.
Leave ==
  /\ page \in {"checkout", "success"}
  /\ page' = "shop"
  /\ form' = Mounted({})
  /\ result' = NoResult
  /\ pays' = Detached
  /\ UNCHANGED <<cart, saved, orders, toasts>>

-----------------------------------------------------------------------------

Init ==
  /\ cart = EmptyCart /\ saved = {} /\ page = "shop" /\ form = Mounted({})
  /\ pays = <<>> /\ orders = <<>> /\ result = NoResult /\ toasts = 0

Answer ==
  \/ \E i \in DOMAIN pays : OrderAnswered(i) \/ WidgetAnswered(i)
  \/ \E o \in DOMAIN orders : ConfirmAnswered(o)

CheckoutPage ==
  \/ \E f \in Fields : TypeField(f)
  \/ EditAddress \/ CancelEdit \/ OnPay \/ CloseSheet

Next ==
  \/ \E p \in Products : AddToCart(p) \/ BuyNow(p)
  \/ CartPage \/ GoToCheckout
  \/ CheckoutPage
  \/ ToastGone
  \/ Answer
  \/ \E o \in DOMAIN orders : Deposit(o) \/ Fulfil(o)
  \/ Retry \/ ReloadResult \/ ReloadCheckout \/ Leave

Spec == Init /\ [][Next]_vars

-----------------------------------------------------------------------------
(* Correctness                                                              *)

\* The success page never shows success unless the server has confirmed an order
\* that was brought to it while it is mounted (the one it shows, where there was
\* no other), whichever of its confirms is answered last.
SuccessMeansPaid ==
  result.status = "success" =>
    \E o \in result.visited : orders[o].status # "PENDING_PAYMENT"

\* Whatever was selected in the cart, an order that went through was charged
\* exactly its total.
PaidAsCharged ==
  \A o \in DOMAIN orders :
    orders[o].status # "PENDING_PAYMENT" => orders[o].collected = orders[o].total

\* The address that is ordered is the one the page showed, also after an edit
\* was begun and cancelled, or begun and not finished.
OrderedAddressShown ==
  \A i \in DOMAIN pays :
    pays[i].step = "order" =>
      pays[i].address = pays[i].shown /\ pays[i].address # {}

\* One checkout page never has two payments under way, also when the sheet has
\* been closed over the first.
OnePaymentPerPage ==
  Cardinality({i \in DOMAIN pays : pays[i].mounted}) <= 1

\* The checkout page has its button back when none of its payments is under way.
ButtonComesBack ==
  page = "checkout" /\ form.loading => \E i \in DOMAIN pays : pays[i].mounted

\* The browser's state keeps its type, and its checkout page has one payment under
\* way at most, and its button back after it.
PaymentsSound == TypeOK /\ OnePaymentPerPage /\ ButtonComesBack

\* Outside the cart's own page the cart is emptied only by the answer to a confirm,
\* and of an order that is PAID: not by a refusal, by an answer that is lost, by
\* an order that is created, nor by a reload.
CartSurvivesFailure ==
  [][cart' = EmptyCart /\ cart # EmptyCart /\ page # "shop" =>
       \E o \in DOMAIN orders : /\ orders'[o].posts < orders[o].posts
                               /\ orders'[o].status = "PAID"]_vars

\* A success page that waits has a confirm of its order under way, so that an
\* answer will end the waiting: also after a refusal, a toast, a second payment
\* brought to it, a retry or a fresh load.
PendingIsAwaited ==
  page = "success" /\ result.status = "pending" => orders[result.order].posts > 0

=============================================================================
