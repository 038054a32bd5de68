--------------------------- MODULE CheckoutProofs ---------------------------
(***************************************************************************)
(* Proofs about Checkout.  What the properties rest on is that a payment     *)
(* that waits for the widget has an order to itself which nobody confirms   *)
(* yet (WidgetsOwn), so that what the widget charges meets an order that is *)
(* as it was created.  The type of the state is proved beside it: amounts   *)
(* are sums over the lines of a cart (MoneyProofs), and no line has more    *)
(* than there is room for.                                                  *)
(***************************************************************************)
EXTENDS Checkout, MoneyProofs, SequenceTheorems, TLAPS

PayFields == {"items", "charge", "address", "shown", "mounted", "order", "step"}

OrderFields == {"total", "collected", "due", "posts", "status"}

ResultFields == {"order", "visited", "status"}

FormFields == {"editing", "values", "draft", "loading", "sheet"}

IsSeq(s) == Len(s) \in Nat /\ s = [i \in 1..Len(s) |-> s[i]]

Shape ==
  /\ IsSeq(pays) /\ \A i \in DOMAIN pays : DOMAIN pays[i] = PayFields
  /\ IsSeq(orders) /\ \A o \in DOMAIN orders : DOMAIN orders[o] = OrderFields
  /\ DOMAIN form = FormFields
  /\ DOMAIN result = ResultFields
  /\ page = "success" => result.order \in DOMAIN orders

\* An order is confirmed once all is collected, and nothing is due after that.
Booked(order) ==
  /\ order.due = 0 \/ order.collected = 0
  /\ order.status # "PENDING_PAYMENT" =>
       order.collected = order.total /\ order.due = 0

OrdersBooked == \A o \in DOMAIN orders : Booked(orders[o])

AtWidget(i) == i \in DOMAIN pays /\ pays[i].step = "widget"

New(order) ==
  /\ order.status = "PENDING_PAYMENT"
  /\ order.posts = 0 /\ order.collected = 0 /\ order.due = 0

WidgetsOwn ==
  \A i \in DOMAIN pays : AtWidget(i) =>
    /\ pays[i].order \in DOMAIN orders /\ New(orders[pays[i].order])
    /\ page = "success" => result.order # pays[i].order
    /\ \A j \in DOMAIN pays : AtWidget(j) /\ j # i => pays[j].order # pays[i].order

SuccessKnown ==
  result.status = "success" =>
    \E o \in result.visited \cap DOMAIN orders :
      orders[o].status # "PENDING_PAYMENT"

\* The draft is what the form being edited says, and what is saved passes.
DraftsParsed ==
  /\ form.editing => form.draft = Parsed(form.values)
  /\ saved = {} \/ Parsed(saved) = saved

\* The button of the page is disabled for the one payment that is under way.
OneMounted ==
  /\ \A i \in DOMAIN pays : pays[i].mounted => page = "checkout" /\ form.loading
  /\ \A i, j \in DOMAIN pays : pays[i].mounted /\ pays[j].mounted => i = j
  /\ ButtonComesBack

Inv == /\ Shape /\ OrdersBooked /\ WidgetsOwn /\ SuccessKnown
       /\ DraftsParsed /\ OrderedAddressShown /\ OneMounted

-----------------------------------------------------------------------------
(* Sequences                                                                *)

\* A sequence with one element more.
LEMMA Appended ==
  ASSUME NEW s, IsSeq(s), NEW e
  PROVE  /\ IsSeq(Append(s, e))
         /\ Len(Append(s, e)) = Len(s) + 1
         /\ DOMAIN s = 1..Len(s)
         /\ DOMAIN Append(s, e) = 1..(Len(s) + 1)
         /\ \A i \in DOMAIN s : Append(s, e)[i] = s[i]
         /\ Append(s, e)[Len(s) + 1] = e
<1>. DEFINE S == {s[i] : i \in 1..Len(s)} \cup {e}
<1>1. Len(s) \in Nat /\ s \in [1..Len(s) -> S] /\ e \in S
  BY DEF IsSeq
<1>2. s \in Seq(S)
  BY <1>1, SeqDef
<1>. HIDE DEF S
<1>3. /\ Append(s, e) \in Seq(S)
      /\ Len(Append(s, e)) = Len(s) + 1
      /\ \A i \in 1..Len(s) : Append(s, e)[i] = s[i]
      /\ Append(s, e)[Len(s) + 1] = e
  BY <1>1, <1>2, AppendProperties
<1>4. DOMAIN s = 1..Len(s)
  BY <1>2
<1>5. Append(s, e) = [i \in 1..Len(Append(s, e)) |-> Append(s, e)[i]]
  <2>1. Append(s, e) \in [1..Len(Append(s, e)) -> S]
    BY <1>3, LenProperties
  <2>. QED  BY <2>1
<1>. QED  BY <1>1, <1>3, <1>4, <1>5 DEF IsSeq

\* A function with the domain of a sequence is one.
LEMMA Updated ==
  ASSUME NEW s, IsSeq(s), NEW t, t = [i \in DOMAIN s |-> t[i]]
  PROVE  IsSeq(t) /\ DOMAIN t = DOMAIN s /\ Len(t) = Len(s)
<1>. DEFINE S == {t[i] : i \in 1..Len(s)}
<1>1. Len(s) \in Nat /\ DOMAIN s = 1..Len(s)
  BY DEF IsSeq
<1>2. t \in [1..Len(s) -> S]
  BY <1>1
<1>3. t \in Seq(S)
  BY <1>1, <1>2, SeqDef
<1>4. Len(t) = Len(s)
  BY <1>1, <1>2, <1>3
<1>. QED  BY <1>1, <1>4 DEF IsSeq

-----------------------------------------------------------------------------
(* Orders and payments                                                      *)

\* Posting a confirm changes nothing but the number of posts, and that of no other
\* order.
LEMMA PostKeeps ==
  ASSUME NEW os, IsSeq(os), \A o \in DOMAIN os : DOMAIN os[o] = OrderFields, NEW p
  PROVE  /\ IsSeq(Post(os, p)) /\ DOMAIN Post(os, p) = DOMAIN os
         /\ \A o \in DOMAIN os :
              /\ DOMAIN Post(os, p)[o] = OrderFields
              /\ \A f \in OrderFields \ {"posts"} : Post(os, p)[o][f] = os[o][f]
              /\ o # p => Post(os, p)[o] = os[o]
<1>1. Post(os, p) = [o \in DOMAIN os |-> Post(os, p)[o]]
  BY DEF Post
<1>2. IsSeq(Post(os, p)) /\ DOMAIN Post(os, p) = DOMAIN os
  BY <1>1, Updated
<1>3. \A o \in DOMAIN os : o # p => Post(os, p)[o] = os[o]
  BY DEF Post
<1>4. p \in DOMAIN os =>
        Post(os, p)[p] = [os[p] EXCEPT !.posts = Min({@ + 1, MaxPosts})]
  BY DEF Post
<1>. QED  BY <1>2, <1>3, <1>4 DEF OrderFields

\* A step that leaves the orders as they were, but for posts, and that makes no
\* payment wait for the widget, keeps what is known of orders.
LEMMA OrdersStay ==
  ASSUME Inv,
         IsSeq(orders'), DOMAIN orders' = DOMAIN orders,
         \A o \in DOMAIN orders :
           /\ DOMAIN orders'[o] = OrderFields
           /\ \A f \in OrderFields \ {"posts"} : orders'[o][f] = orders[o][f],
         IsSeq(pays'), \A i \in DOMAIN pays' : DOMAIN pays'[i] = PayFields,
         \A i \in DOMAIN pays' : AtWidget(i)' =>
           /\ AtWidget(i) /\ pays'[i].order = pays[i].order
           /\ orders'[pays[i].order].posts = 0,
         DOMAIN form' = FormFields, DOMAIN result' = ResultFields,
         page' = "success" => page = "success" /\ result'.order = result.order,
         result'.status = "success" => result' = result
  PROVE  Shape' /\ OrdersBooked' /\ WidgetsOwn' /\ SuccessKnown'
<1>1. Shape'
  BY DEF Inv, Shape
<1>2. OrdersBooked'
  BY DEF Inv, OrdersBooked, Booked, OrderFields
<1>3. WidgetsOwn'
  BY DEF Inv, WidgetsOwn, AtWidget, New, OrderFields
<1>4. SuccessKnown'
  BY DEF Inv, SuccessKnown, OrderFields
<1>. QED  BY <1>1, <1>2, <1>3, <1>4

-----------------------------------------------------------------------------
(* Pages                                                                    *)

\* No address parses to no address.
LEMMA EmptyParsed == Parsed({}) = {}
BY DEF Parsed

\* A checkout page as it is mounted has its button, and a parsed draft.
LEMMA MountedFine ==
  ASSUME NEW a
  PROVE  /\ DOMAIN Mounted(a) = FormFields
         /\ ~Mounted(a).loading
         /\ Mounted(a).editing => Mounted(a).draft = Parsed(Mounted(a).values)
BY EmptyParsed DEF Mounted, FormFields

\* The payments of a page that goes differ in that alone.
LEMMA DetachedFine ==
  ASSUME Inv
  PROVE  /\ IsSeq(Detached) /\ DOMAIN Detached = DOMAIN pays
         /\ \A i \in DOMAIN pays :
              /\ DOMAIN Detached[i] = PayFields
              /\ ~Detached[i].mounted
              /\ \A f \in PayFields \ {"mounted"} : Detached[i][f] = pays[i][f]
<1>1. Detached = [i \in DOMAIN pays |-> Detached[i]]
  BY DEF Detached
<1>2. IsSeq(Detached) /\ DOMAIN Detached = DOMAIN pays
  BY <1>1, Updated DEF Inv, Shape
<1>. QED  BY <1>2 DEF Detached, Inv, Shape, PayFields

\* Nobody waits on a page that is not the checkout page.
LEMMA NobodyMounted ==
  ASSUME \A i \in DOMAIN pays' : ~pays'[i].mounted,
         page' = "checkout" => ~form'.loading
  PROVE  OneMounted'
BY DEF OneMounted, ButtonComesBack

\* The checkout page is opened, or a page left.
LEMMA PageStep ==
  ASSUME Inv, NEW a,
         pays' = Detached, orders' = orders, form' = Mounted(a), saved' = saved,
         page' \in {"checkout", "shop"}, result' \in {result, NoResult}
  PROVE  Inv'
<1>1. Shape' /\ OrdersBooked' /\ WidgetsOwn' /\ SuccessKnown'
  <2>1. /\ IsSeq(orders') /\ DOMAIN orders' = DOMAIN orders
        /\ \A o \in DOMAIN orders :
             /\ DOMAIN orders'[o] = OrderFields
             /\ \A f \in OrderFields \ {"posts"} : orders'[o][f] = orders[o][f]
    BY DEF Inv, Shape
  <2>2. /\ IsSeq(pays') /\ \A i \in DOMAIN pays' : DOMAIN pays'[i] = PayFields
        /\ \A i \in DOMAIN pays' : AtWidget(i)' =>
             /\ AtWidget(i) /\ pays'[i].order = pays[i].order
             /\ orders'[pays[i].order].posts = 0
    <3>1. IsSeq(pays') /\ \A i \in DOMAIN pays' : DOMAIN pays'[i] = PayFields
      BY DetachedFine
    <3>2. \A i \in DOMAIN pays' : AtWidget(i)' =>
             AtWidget(i) /\ pays'[i].order = pays[i].order
      BY DetachedFine DEF PayFields, AtWidget
    <3>3. \A i \in DOMAIN pays : AtWidget(i) => orders[pays[i].order].posts = 0
      BY DEF Inv, WidgetsOwn, New
    <3>. QED  BY <3>1, <3>2, <3>3 DEF AtWidget
  <2>3. /\ DOMAIN form' = FormFields /\ DOMAIN result' = ResultFields
        /\ page' # "success"
        /\ result'.status = "success" => result' = result
    BY MountedFine DEF NoResult, Inv, Shape, ResultFields
  <2>. QED  BY <2>1, <2>2, <2>3, OrdersStay
<1>2. DraftsParsed'
  BY MountedFine DEF Inv, DraftsParsed
<1>3. OrderedAddressShown'
  BY DetachedFine DEF Inv, OrderedAddressShown, PayFields
<1>4. OneMounted'
  BY DetachedFine, MountedFine, NobodyMounted
<1>. QED  BY <1>1, <1>2, <1>3, <1>4 DEF Inv

\* The form of the page changes, and nobody presses the button.
LEMMA FormStep ==
  ASSUME Inv,
         UNCHANGED <<saved, page, pays, orders, result>>,
         DOMAIN form' = FormFields, form'.loading = form.loading,
         form'.editing => form'.draft = Parsed(form'.values)
  PROVE  Inv'
<1>1. Shape' /\ OrdersBooked' /\ WidgetsOwn' /\ SuccessKnown'
  BY DEF Inv, Shape, OrdersBooked, WidgetsOwn, SuccessKnown, AtWidget
<1>2. DraftsParsed'
  BY DEF Inv, DraftsParsed
<1>3. OrderedAddressShown' /\ OneMounted'
  BY DEF Inv, OrderedAddressShown, OneMounted, ButtonComesBack
<1>. QED  BY <1>1, <1>2, <1>3 DEF Inv

\* The actions of the address form and of the sheet.
LEMMA FormActions ==
  ASSUME Inv,
         \/ \E f \in Fields : TypeField(f)
         \/ EditAddress \/ CancelEdit \/ CloseSheet
  PROVE  Inv'
<1>0. DOMAIN form = FormFields
  BY DEF Inv, Shape
<1>1. ASSUME NEW f \in Fields, TypeField(f)  PROVE Inv'
  BY <1>0, <1>1, FormStep DEF TypeField, FormFields
<1>2. CASE EditAddress
  BY <1>0, <1>2, FormStep DEF EditAddress, FormMounted, FormFields, Inv, DraftsParsed
<1>3. CASE CancelEdit
  BY <1>0, <1>3, FormStep DEF CancelEdit, FormFields
<1>4. CASE CloseSheet
  BY <1>0, <1>4, FormStep DEF CloseSheet, FormFields, Inv, DraftsParsed
<1>. QED  BY <1>1, <1>2, <1>3, <1>4

\* What is on the page is what is ordered.
LEMMA AddressShown ==
  ASSUME Inv, CanPay
  PROVE  EffectiveAddress = ShownAddress /\ EffectiveAddress # {}
BY DEF Inv, DraftsParsed, CanPay, EffectiveAddress, ShownAddress, FormMounted

\* The button is pressed.
LEMMA OnPayStep ==
  ASSUME Inv, OnPay
  PROVE  Inv'
<1>. DEFINE new == [items |-> cart, charge |-> CartSubtotal,
                    address |-> EffectiveAddress, shown |-> ShownAddress,
                    mounted |-> TRUE, order |-> 0, step |-> "order"]
            n == Len(pays) + 1
<1>1. /\ page = "checkout" /\ CanPay /\ ~form.loading
      /\ saved' = (IF form.editing THEN EffectiveAddress ELSE saved)
      /\ form' = [form EXCEPT !.loading = TRUE, !.sheet = TRUE]
      /\ pays' = Append(pays, new)
      /\ UNCHANGED <<page, orders, result>>
  BY DEF OnPay
<1>2. /\ DOMAIN new = PayFields /\ new.mounted /\ new.step = "order"
      /\ new.address = EffectiveAddress /\ new.shown = ShownAddress
  BY DEF PayFields
<1>. HIDE DEF new
<1>3. /\ IsSeq(pays') /\ DOMAIN pays' = DOMAIN pays \cup {n} /\ n \notin DOMAIN pays
      /\ n \in DOMAIN pays'
      /\ \A i \in DOMAIN pays : pays'[i] = pays[i]
      /\ pays'[n] = new
  BY <1>1, Appended DEF Inv, Shape, IsSeq
<1>4. /\ DOMAIN form' = FormFields /\ form'.loading
      /\ form'.editing = form.editing /\ form'.draft = form.draft
      /\ form'.values = form.values
  BY <1>1 DEF Inv, Shape, FormFields
<1>5. Shape' /\ OrdersBooked' /\ WidgetsOwn' /\ SuccessKnown'
  BY <1>1, <1>2, <1>3, <1>4 DEF Inv, Shape, OrdersBooked, WidgetsOwn, SuccessKnown,
                               AtWidget
<1>6. DraftsParsed'
  BY <1>1, <1>4, EmptyParsed DEF Inv, DraftsParsed, EffectiveAddress, Parsed
<1>7. OrderedAddressShown'
  BY <1>1, <1>2, <1>3, AddressShown DEF Inv, OrderedAddressShown
<1>8. \A i \in DOMAIN pays : ~pays[i].mounted
  BY <1>1 DEF Inv, OneMounted
<1>9. OneMounted'
  BY <1>1, <1>2, <1>3, <1>4, <1>8 DEF OneMounted, ButtonComesBack
<1>. QED  BY <1>5, <1>6, <1>7, <1>9 DEF Inv

-----------------------------------------------------------------------------
(* Confirms                                                                 *)

\* A toast changes the number of confirms under way of one order at most.
LEMMA RepostedKeeps ==
  ASSUME NEW os, IsSeq(os), \A o \in DOMAIN os : DOMAIN os[o] = OrderFields
  PROVE  /\ IsSeq(Reposted(os)) /\ DOMAIN Reposted(os) = DOMAIN os
         /\ \A o \in DOMAIN os :
              /\ DOMAIN Reposted(os)[o] = OrderFields
              /\ \A f \in OrderFields \ {"posts"} : Reposted(os)[o][f] = os[o][f]
              /\ o # result.order \/ page # "success" => Reposted(os)[o] = os[o]
<1>1. CASE page = "success"
  <2>1. Reposted(os) = Post(os, result.order)
    BY <1>1 DEF Reposted
  <2>. HIDE DEF Reposted
  <2>2. /\ IsSeq(Post(os, result.order)) /\ DOMAIN Post(os, result.order) = DOMAIN os
        /\ \A o \in DOMAIN os :
             /\ DOMAIN Post(os, result.order)[o] = OrderFields
             /\ \A f \in OrderFields \ {"posts"} :
                  Post(os, result.order)[o][f] = os[o][f]
             /\ o # result.order => Post(os, result.order)[o] = os[o]
    BY PostKeeps
  <2>. QED  BY <1>1, <2>1, <2>2
<1>2. CASE page # "success"
  BY <1>2 DEF Reposted
<1>. QED  BY <1>1, <1>2

\* A step that moves orders no payment waits for, each as an order may move.
LEMMA OrdersMove ==
  ASSUME Inv,
         UNCHANGED <<saved, page, form, pays>>,
         IsSeq(orders'), DOMAIN orders' = DOMAIN orders,
         \A o \in DOMAIN orders :
           /\ DOMAIN orders'[o] = OrderFields
           /\ Booked(orders'[o])
           /\ orders[o].status # "PENDING_PAYMENT" =>
                orders'[o].status # "PENDING_PAYMENT",
         \A i \in DOMAIN pays : AtWidget(i) =>
           orders'[pays[i].order] = orders[pays[i].order],
         DOMAIN result' = ResultFields, result'.order = result.order,
         result'.status = "success" =>
           \/ result' = result
           \/ \E o \in result'.visited \cap DOMAIN orders :
                orders'[o].status # "PENDING_PAYMENT"
  PROVE  Inv'
<1>1. Shape'
  BY DEF Inv, Shape
<1>2. OrdersBooked'
  BY DEF Inv, OrdersBooked
<1>3. WidgetsOwn'
  BY DEF Inv, WidgetsOwn, AtWidget
<1>4. SuccessKnown'
  BY DEF Inv, SuccessKnown
<1>5. DraftsParsed' /\ OrderedAddressShown' /\ OneMounted'
  BY DEF Inv, DraftsParsed, OrderedAddressShown, OneMounted, ButtonComesBack
<1>. QED  BY <1>1, <1>2, <1>3, <1>4, <1>5 DEF Inv

\* A toast goes, or a confirm is tried again.
LEMMA RepostStep ==
  ASSUME Inv, UNCHANGED <<saved, page, form, pays>>, orders' = Reposted(orders),
         \/ result' = result
         \/ result' = [result EXCEPT !.status = "pending"]
  PROVE  Inv'
<1>1. IsSeq(orders) /\ \A o \in DOMAIN orders : DOMAIN orders[o] = OrderFields
  BY DEF Inv, Shape
<1>2. /\ IsSeq(orders') /\ DOMAIN orders' = DOMAIN orders
      /\ \A o \in DOMAIN orders :
           /\ DOMAIN orders'[o] = OrderFields
           /\ \A f \in OrderFields \ {"posts"} : orders'[o][f] = orders[o][f]
           /\ o # result.order \/ page # "success" => orders'[o] = orders[o]
  BY <1>1, RepostedKeeps
<1>3. \A o \in DOMAIN orders :
        /\ Booked(orders'[o])
        /\ orders[o].status # "PENDING_PAYMENT" =>
             orders'[o].status # "PENDING_PAYMENT"
  BY <1>2 DEF Inv, OrdersBooked, Booked, OrderFields
<1>4. \A i \in DOMAIN pays : AtWidget(i) =>
        orders'[pays[i].order] = orders[pays[i].order]
  BY <1>2 DEF Inv, WidgetsOwn
<1>5. /\ DOMAIN result' = ResultFields /\ result'.order = result.order
      /\ result'.status = "success" => result' = result
  BY DEF Inv, Shape, ResultFields
<1>. QED  BY <1>2, <1>3, <1>4, <1>5, OrdersMove

\* A deposit arrives, or fulfilment takes an order on.
LEMMA MoneyStep ==
  ASSUME Inv, NEW o \in DOMAIN orders, Deposit(o) \/ Fulfil(o)
  PROVE  Inv'
<1>1. UNCHANGED <<saved, page, form, pays, result>>
  BY DEF Deposit, Fulfil
<1>2. orders' = [p \in DOMAIN orders |-> orders'[p]]
  BY DEF Deposit, Fulfil
<1>3. IsSeq(orders') /\ DOMAIN orders' = DOMAIN orders
  BY <1>2, Updated DEF Inv, Shape
<1>4. \A p \in DOMAIN orders : p # o => orders'[p] = orders[p]
  BY DEF Deposit, Fulfil
<1>5. /\ DOMAIN orders'[o] = OrderFields /\ Booked(orders'[o])
      /\ orders[o].status # "PENDING_PAYMENT" =>
           orders'[o].status # "PENDING_PAYMENT"
  <2>0. DOMAIN orders[o] = OrderFields /\ Booked(orders[o])
    BY DEF Inv, Shape, OrdersBooked
  <2>1. CASE Deposit(o)
    <3>1. /\ orders[o].due > 0
          /\ orders'[o] = [orders[o] EXCEPT !.collected = @ + orders[o].due, !.due = 0]
      BY <2>1 DEF Deposit
    <3>2. orders[o].due # 0
      BY <3>1
    <3>3. orders[o].status = "PENDING_PAYMENT"
      BY <2>0, <3>2 DEF Booked
    <3>. QED  BY <2>0, <3>1, <3>3 DEF Booked, OrderFields
  <2>2. CASE Fulfil(o)
    BY <2>0, <2>2 DEF Fulfil, Booked, OrderFields
  <2>. QED  BY <2>1, <2>2
<1>6. \A i \in DOMAIN pays : AtWidget(i) => pays[i].order # o
  <2>1. ASSUME NEW i \in DOMAIN pays, AtWidget(i)  PROVE New(orders[pays[i].order])
    BY <2>1 DEF Inv, WidgetsOwn
  <2>2. ~New(orders[o])
    <3>1. CASE Deposit(o)
      <4>1. orders[o].due # 0
        BY <3>1 DEF Deposit
      <4>. QED  BY <4>1 DEF New
    <3>2. CASE Fulfil(o)
      BY <3>2 DEF Fulfil, New
    <3>. QED  BY <3>1, <3>2
  <2>. QED  BY <2>1, <2>2
<1>7. \A p \in DOMAIN orders :
        /\ DOMAIN orders'[p] = OrderFields /\ Booked(orders'[p])
        /\ orders[p].status # "PENDING_PAYMENT" =>
             orders'[p].status # "PENDING_PAYMENT"
  BY <1>4, <1>5 DEF Inv, Shape, OrdersBooked
<1>8. \A i \in DOMAIN pays : AtWidget(i) =>
        orders'[pays[i].order] = orders[pays[i].order]
  BY <1>4, <1>6 DEF Inv, WidgetsOwn
<1>9. DOMAIN result = ResultFields
  BY DEF Inv, Shape
<1>. QED  BY <1>1, <1>3, <1>7, <1>8, <1>9, OrdersMove

\* os is the orders with one confirm of o answered.
AnsweredIn(os, o) ==
  /\ os = [p \in DOMAIN orders |-> os[p]]
  /\ \A p \in DOMAIN orders \ {o} : os[p] = orders[p]
  /\ \E status, n :
       /\ os[o] = [orders[o] EXCEPT !.status = status, !.posts = n]
       /\ status = orders[o].status \/ (Collected(o) /\ status = "PAID")

\* One confirm has been answered, and the order may have been confirmed.
LEMMA AnsweredOrder ==
  ASSUME Inv, NEW o \in DOMAIN orders, orders[o].posts > 0,
         NEW os, AnsweredIn(os, o)
  PROVE  /\ IsSeq(os) /\ DOMAIN os = DOMAIN orders
         /\ \A p \in DOMAIN orders :
              /\ DOMAIN os[p] = OrderFields /\ Booked(os[p])
              /\ orders[p].status # "PENDING_PAYMENT" =>
                   os[p].status # "PENDING_PAYMENT"
         /\ \A i \in DOMAIN pays : AtWidget(i) =>
              os[pays[i].order] = orders[pays[i].order]
<1>1. IsSeq(orders)
  BY DEF Inv, Shape
<1>2. IsSeq(os) /\ DOMAIN os = DOMAIN orders
  BY <1>1, Updated DEF AnsweredIn
<1>3. DOMAIN orders[o] = OrderFields /\ Booked(orders[o])
  BY DEF Inv, Shape, OrdersBooked
<1>4. /\ DOMAIN os[o] = OrderFields
      /\ os[o].status = orders[o].status \/ (Collected(o) /\ os[o].status = "PAID")
      /\ os[o].due = orders[o].due /\ os[o].collected = orders[o].collected
      /\ os[o].total = orders[o].total
  BY <1>3 DEF AnsweredIn, OrderFields
<1>5. Booked(os[o])
  <2>1. CASE os[o].status = orders[o].status
    BY <1>3, <1>4, <2>1 DEF Booked
  <2>2. CASE Collected(o)
    <3>1. orders[o].collected # 0 /\ orders[o].collected = orders[o].total
      BY <2>2 DEF Collected
    <3>. QED  BY <1>3, <1>4, <3>1 DEF Booked
  <2>. QED  BY <1>4, <2>1, <2>2
<1>6. orders[o].status # "PENDING_PAYMENT" => os[o].status # "PENDING_PAYMENT"
  BY <1>4
<1>7. \A i \in DOMAIN pays : AtWidget(i) => pays[i].order # o
  <2>1. orders[o].posts # 0
    OBVIOUS
  <2>. QED  BY <2>1 DEF Inv, WidgetsOwn, New
<1>8. \A p \in DOMAIN orders :
         /\ DOMAIN os[p] = OrderFields /\ Booked(os[p])
         /\ orders[p].status # "PENDING_PAYMENT" => os[p].status # "PENDING_PAYMENT"
  BY <1>4, <1>5, <1>6 DEF AnsweredIn, Inv, Shape, OrdersBooked
<1>9. \A i \in DOMAIN pays : AtWidget(i) => os[pays[i].order] = orders[pays[i].order]
  BY <1>7 DEF AnsweredIn, Inv, WidgetsOwn
<1>. QED  BY <1>2, <1>8, <1>9

\* The success page is told PAID.
LEMMA ConfirmPaidStep ==
  ASSUME Inv, NEW o \in DOMAIN orders, orders[o].posts > 0, ConfirmPaid(o),
         UNCHANGED <<saved, page, form, pays>>
  PROVE  Inv'
<1>1. /\ orders' = [orders EXCEPT ![o].status = "PAID", ![o].posts = @ - 1]
      /\ Collected(o) \/ orders[o].status = "PAID"
      /\ result' = IF page = "success" /\ o \in result.visited
                     THEN [result EXCEPT !.status = "success"] ELSE result
  BY DEF ConfirmPaid, Answered
<1>2. /\ IsSeq(orders') /\ DOMAIN orders' = DOMAIN orders
      /\ \A p \in DOMAIN orders :
           /\ DOMAIN orders'[p] = OrderFields /\ Booked(orders'[p])
           /\ orders[p].status # "PENDING_PAYMENT" =>
                orders'[p].status # "PENDING_PAYMENT"
      /\ \A i \in DOMAIN pays : AtWidget(i) =>
           orders'[pays[i].order] = orders[pays[i].order]
  <2>1. orders' = [p \in DOMAIN orders |-> orders'[p]]
    BY <1>1
  <2>2. \A p \in DOMAIN orders \ {o} : orders'[p] = orders[p]
    BY <1>1
  <2>3. orders'[o] = [orders[o] EXCEPT !.status = "PAID", !.posts = @ - 1]
    BY <1>1
  <2>4. AnsweredIn(orders', o)
    BY <1>1, <2>1, <2>2, <2>3 DEF AnsweredIn
  <2>. QED  BY <2>4, AnsweredOrder
<1>3. orders'[o].status = "PAID"
  BY <1>1 DEF Inv, Shape, OrderFields
<1>4. /\ DOMAIN result' = ResultFields /\ result'.order = result.order
      /\ result'.status = "success" =>
           \/ result' = result
           \/ \E p \in result'.visited \cap DOMAIN orders :
                orders'[p].status # "PENDING_PAYMENT"
  BY <1>1, <1>3 DEF Inv, Shape, ResultFields
<1>. QED  BY <1>2, <1>4, OrdersMove

\* A confirm is refused or its answer is lost.
LEMMA ConfirmFailsStep ==
  ASSUME Inv, NEW o \in DOMAIN orders, orders[o].posts > 0, ConfirmFails(o),
         UNCHANGED <<saved, page, form, pays>>
  PROVE  Inv'
<1>1. PICK status :
        /\ \/ status = orders[o].status
           \/ Collected(o) /\ status = "PAID"
        /\ orders' = Reposted([orders EXCEPT ![o].status = status, ![o].posts = @ - 1])
  BY DEF ConfirmFails
<1>. DEFINE os == [orders EXCEPT ![o].status = status, ![o].posts = @ - 1]
<1>2. /\ IsSeq(os) /\ DOMAIN os = DOMAIN orders
      /\ \A p \in DOMAIN orders :
           /\ DOMAIN os[p] = OrderFields /\ Booked(os[p])
           /\ orders[p].status # "PENDING_PAYMENT" => os[p].status # "PENDING_PAYMENT"
      /\ \A i \in DOMAIN pays : AtWidget(i) =>
           os[pays[i].order] = orders[pays[i].order]
  <2>1. os = [p \in DOMAIN orders |-> os[p]]
    OBVIOUS
  <2>2. \A p \in DOMAIN orders \ {o} : os[p] = orders[p]
    OBVIOUS
  <2>3. os[o] = [orders[o] EXCEPT !.status = status, !.posts = @ - 1]
    OBVIOUS
  <2>. HIDE DEF os
  <2>4. status = orders[o].status \/ (Collected(o) /\ status = "PAID")
    BY <1>1
  <2>5. \E s, n : /\ os[o] = [orders[o] EXCEPT !.status = s, !.posts = n]
                  /\ s = orders[o].status \/ (Collected(o) /\ s = "PAID")
    BY <2>3, <2>4
  <2>6. AnsweredIn(os, o)
    BY <2>1, <2>2, <2>5 DEF AnsweredIn
  <2>. QED  BY <2>6, AnsweredOrder
<1>3. orders' = Reposted(os)
  BY <1>1
<1>. HIDE DEF os
<1>4. /\ IsSeq(orders') /\ DOMAIN orders' = DOMAIN orders
      /\ \A p \in DOMAIN orders :
           /\ DOMAIN orders'[p] = OrderFields
           /\ \A f \in OrderFields \ {"posts"} : orders'[p][f] = os[p][f]
           /\ p # result.order \/ page # "success" => orders'[p] = os[p]
  BY <1>2, <1>3, RepostedKeeps
<1>5. \A p \in DOMAIN orders :
        /\ Booked(orders'[p])
        /\ orders[p].status # "PENDING_PAYMENT" =>
             orders'[p].status # "PENDING_PAYMENT"
  BY <1>2, <1>4 DEF Booked, OrderFields
<1>6. \A i \in DOMAIN pays : AtWidget(i) =>
        orders'[pays[i].order] = orders[pays[i].order]
  BY <1>2, <1>4 DEF Inv, WidgetsOwn
<1>7. /\ DOMAIN result' = ResultFields /\ result'.order = result.order
      /\ result'.status = "success" => result' = result
  BY DEF ConfirmFails, Answered, Inv, Shape
<1>. QED  BY <1>4, <1>5, <1>6, <1>7, OrdersMove

-----------------------------------------------------------------------------
(* Payments                                                                 *)

\* A payment is over.
LEMMA OverFine ==
  ASSUME Inv, NEW i \in DOMAIN pays, NEW p, p \in {pays, Detached}
  PROVE  LET q == [p EXCEPT ![i] = Over] IN
         /\ IsSeq(q) /\ DOMAIN q = DOMAIN pays
         /\ q[i] = Over /\ \A j \in DOMAIN pays \ {i} : q[j] = p[j]
         /\ DOMAIN Over = PayFields /\ ~Over.mounted /\ Over.step = "done"
<1>1. IsSeq(p) /\ DOMAIN p = DOMAIN pays
  BY DetachedFine DEF Inv, Shape
<1>2. [p EXCEPT ![i] = Over] = [j \in DOMAIN p |-> [p EXCEPT ![i] = Over][j]]
  OBVIOUS
<1>3. IsSeq([p EXCEPT ![i] = Over]) /\ DOMAIN [p EXCEPT ![i] = Over] = DOMAIN p
  BY <1>1, <1>2, Updated
<1>. QED  BY <1>1, <1>3 DEF Over, PayFields

\* A run of onPay ends in its catch block.
LEMMA PayFailsStep ==
  ASSUME Inv, NEW i \in DOMAIN pays, PayFails(i), saved' = saved
  PROVE  Inv'
<1>1. /\ pays' = [pays EXCEPT ![i] = Over]
      /\ form' = (IF pays[i].mounted
                    THEN [form EXCEPT !.loading = FALSE, !.sheet = FALSE]
                    ELSE form)
      /\ orders' = Reposted(orders)
      /\ UNCHANGED <<page, result>>
  BY DEF PayFails, Settle
<1>2. /\ IsSeq(pays') /\ DOMAIN pays' = DOMAIN pays
      /\ pays'[i] = Over /\ \A j \in DOMAIN pays \ {i} : pays'[j] = pays[j]
      /\ DOMAIN Over = PayFields /\ ~Over.mounted /\ Over.step = "done"
  BY <1>1, OverFine
<1>3. /\ IsSeq(orders') /\ DOMAIN orders' = DOMAIN orders
      /\ \A o \in DOMAIN orders :
           /\ DOMAIN orders'[o] = OrderFields
           /\ \A f \in OrderFields \ {"posts"} : orders'[o][f] = orders[o][f]
           /\ o # result.order \/ page # "success" => orders'[o] = orders[o]
  <2>1. IsSeq(orders) /\ \A o \in DOMAIN orders : DOMAIN orders[o] = OrderFields
    BY DEF Inv, Shape
  <2>. QED  BY <1>1, <2>1, RepostedKeeps
<1>4. /\ DOMAIN form' = FormFields
      /\ form'.editing = form.editing /\ form'.draft = form.draft
      /\ form'.values = form.values
      /\ pays[i].mounted => ~form'.loading
      /\ ~pays[i].mounted => form'.loading = form.loading
  <2>1. DOMAIN form = FormFields
    BY DEF Inv, Shape
  <2>2. CASE pays[i].mounted
    BY <1>1, <2>1, <2>2 DEF FormFields
  <2>3. CASE ~pays[i].mounted
    BY <1>1, <2>1, <2>3
  <2>. QED  BY <2>2, <2>3
<1>5. Shape' /\ OrdersBooked' /\ WidgetsOwn' /\ SuccessKnown'
  <2>1. \A j \in DOMAIN pays : AtWidget(j)' => AtWidget(j) /\ pays'[j] = pays[j]
    BY <1>2 DEF AtWidget
  <2>2. \A j \in DOMAIN pays : AtWidget(j) => orders'[pays[j].order].posts = 0
    BY <1>3 DEF Inv, WidgetsOwn, New
  <2>3. \A j \in DOMAIN pays' : DOMAIN pays'[j] = PayFields
    BY <1>2 DEF Inv, Shape
  <2>4. DOMAIN result' = ResultFields
    BY <1>1 DEF Inv, Shape
  <2>. QED  BY <1>1, <1>2, <1>3, <1>4, <2>1, <2>2, <2>3, <2>4, OrdersStay
<1>6. DraftsParsed'
  BY <1>4 DEF Inv, DraftsParsed
<1>7. OrderedAddressShown'
  BY <1>2 DEF Inv, OrderedAddressShown
<1>8. OneMounted'
  BY <1>1, <1>2, <1>4 DEF Inv, OneMounted, ButtonComesBack
<1>. QED  BY <1>5, <1>6, <1>7, <1>8 DEF Inv

\* POST /orders is answered with an order, and the widget opens.
LEMMA OrderCreatedStep ==
  ASSUME Inv, NEW i \in DOMAIN pays, OrderAnswered(i), ~PayFails(i)
  PROVE  Inv'
<1>. DEFINE n == Len(orders) + 1
            pay == [Over EXCEPT !.charge = pays[i].charge, !.mounted = pays[i].mounted,
                      !.order = n, !.step = "widget"]
<1>1. /\ pays[i].step = "order"
      /\ orders' = Append(orders, NewOrder(i))
      /\ pays' = [pays EXCEPT ![i] = pay]
      /\ UNCHANGED <<saved, form, page, result>>
  BY DEF OrderAnswered
<1>2. /\ DOMAIN pay = PayFields /\ pay.mounted = pays[i].mounted
      /\ pay.order = n /\ pay.step = "widget"
  BY DEF Over, PayFields
<1>. HIDE DEF pay
<1>3. pays' = [j \in DOMAIN pays |-> pays'[j]]
  BY <1>1
<1>4. /\ IsSeq(pays') /\ DOMAIN pays' = DOMAIN pays
      /\ pays'[i] = pay /\ \A j \in DOMAIN pays \ {i} : pays'[j] = pays[j]
  BY <1>1, <1>3, Updated DEF Inv, Shape
<1>5. /\ IsSeq(orders') /\ DOMAIN orders' = DOMAIN orders \cup {n}
      /\ n \notin DOMAIN orders
      /\ \A o \in DOMAIN orders : orders'[o] = orders[o]
      /\ orders'[n] = NewOrder(i)
  BY <1>1, Appended DEF Inv, Shape, IsSeq
<1>6. /\ DOMAIN NewOrder(i) = OrderFields /\ New(NewOrder(i)) /\ Booked(NewOrder(i))
  BY DEF NewOrder, OrderFields, New, Booked
<1>7. Shape' /\ OrdersBooked'
  BY <1>1, <1>2, <1>4, <1>5, <1>6 DEF Inv, Shape, OrdersBooked
<1>8. WidgetsOwn'
  <2>1. \A j \in DOMAIN pays : AtWidget(j)' => j = i \/ AtWidget(j)
    BY <1>4 DEF AtWidget
  <2>. QED  BY <1>1, <1>2, <1>4, <1>5, <1>6, <2>1 DEF Inv, Shape, WidgetsOwn
<1>9. SuccessKnown'
  BY <1>1, <1>5 DEF Inv, SuccessKnown
<1>10. DraftsParsed' /\ OrderedAddressShown'
  BY <1>1, <1>2, <1>4 DEF Inv, DraftsParsed, OrderedAddressShown
<1>11. OneMounted'
  BY <1>1, <1>2, <1>4 DEF Inv, OneMounted, ButtonComesBack
<1>. QED  BY <1>7, <1>8, <1>9, <1>10, <1>11 DEF Inv

\* The success page is brought an order, and says what it said of the one before.
LEMMA ResultKeepsSaying ==
  ASSUME Inv, NEW o
  PROVE  /\ DOMAIN ResultOf(o) = ResultFields /\ ResultOf(o).order = o
         /\ ResultOf(o).status = "success" =>
              /\ page = "success" /\ result.status = "success"
              /\ ResultOf(o).visited = result.visited \cup {o}
<1>1. DOMAIN result = ResultFields
  BY DEF Inv, Shape
<1>. QED  BY <1>1 DEF ResultOf, ResultFields

\* The widget succeeds, and the success page takes over.
LEMMA WidgetPaidStep ==
  ASSUME Inv, NEW i \in DOMAIN pays, WidgetAnswered(i), ~PayFails(i)
  PROVE  Inv'
<1>. DEFINE o == pays[i].order
<1>0. AtWidget(i) /\ o \in DOMAIN orders /\ New(orders[o])
  BY DEF WidgetAnswered, AtWidget, Inv, WidgetsOwn
<1>1. PICK now \in BOOLEAN :
        orders' = [orders EXCEPT ![o] =
          [@ EXCEPT !.posts = 1, !.due = IF now THEN 0 ELSE pays[i].charge,
             !.collected = IF now THEN pays[i].charge ELSE 0]]
  BY DEF WidgetAnswered
<1>2. /\ page' = "success" /\ form' = Mounted({}) /\ saved' = saved
      /\ result' = ResultOf(o)
      /\ pays' = [Detached EXCEPT ![i] = Over]
  BY DEF WidgetAnswered
<1>3. /\ IsSeq(pays') /\ DOMAIN pays' = DOMAIN pays
      /\ pays'[i] = Over /\ \A j \in DOMAIN pays \ {i} : pays'[j] = Detached[j]
      /\ DOMAIN Over = PayFields /\ ~Over.mounted /\ Over.step = "done"
  BY <1>2, OverFine
<1>4. /\ \A j \in DOMAIN pays' : DOMAIN pays'[j] = PayFields /\ ~pays'[j].mounted
      /\ \A j \in DOMAIN pays \ {i} : \A f \in PayFields \ {"mounted"} :
           pays'[j][f] = pays[j][f]
  BY <1>3, DetachedFine
<1>5. orders' = [p \in DOMAIN orders |-> orders'[p]]
  BY <1>1
<1>6. /\ IsSeq(orders') /\ DOMAIN orders' = DOMAIN orders
      /\ \A p \in DOMAIN orders \ {o} : orders'[p] = orders[p]
  BY <1>1, <1>5, Updated DEF Inv, Shape
<1>7. /\ DOMAIN orders'[o] = OrderFields /\ Booked(orders'[o])
      /\ orders'[o].status = orders[o].status
  <2>1. DOMAIN orders[o] = OrderFields
    BY <1>0 DEF Inv, Shape
  <2>2. orders'[o] = [orders[o] EXCEPT
          !.posts = 1, !.due = IF now THEN 0 ELSE pays[i].charge,
          !.collected = IF now THEN pays[i].charge ELSE 0]
    BY <1>0, <1>1
  <2>3. CASE now
    BY <1>0, <2>1, <2>2, <2>3 DEF Booked, New, OrderFields
  <2>4. CASE ~now
    BY <1>0, <2>1, <2>2, <2>4 DEF Booked, New, OrderFields
  <2>. QED  BY <2>3, <2>4
<1>8. Shape' /\ OrdersBooked'
  BY <1>0, <1>2, <1>3, <1>4, <1>6, <1>7, MountedFine, ResultKeepsSaying
  DEF Inv, Shape, OrdersBooked
<1>9. WidgetsOwn'
  <2>1. \A j \in DOMAIN pays' : AtWidget(j)' =>
          /\ AtWidget(j) /\ j # i /\ pays'[j].order = pays[j].order
          /\ pays[j].order # o
    BY <1>0, <1>3, <1>4 DEF AtWidget, Inv, WidgetsOwn, PayFields
  <2>. QED  BY <1>2, <1>3, <1>6, <2>1, ResultKeepsSaying DEF Inv, WidgetsOwn
<1>10. SuccessKnown'
  <2>1. \A p \in DOMAIN orders : orders'[p].status = orders[p].status
    BY <1>6, <1>7
  <2>. QED  BY <1>2, <1>6, <2>1, ResultKeepsSaying DEF Inv, SuccessKnown
<1>11. DraftsParsed'
  BY <1>2, MountedFine DEF Inv, DraftsParsed
<1>12. OrderedAddressShown'
  BY <1>3, <1>4 DEF Inv, OrderedAddressShown, PayFields
<1>13. OneMounted'
  BY <1>2, <1>4, NobodyMounted
<1>. QED  BY <1>8, <1>9, <1>10, <1>11, <1>12, <1>13 DEF Inv

\* A fresh load, after which nothing that was started goes on.
LEMMA ReloadStep ==
  ASSUME Inv, ReloadResult \/ ReloadCheckout
  PROVE  Inv'
<1>0. DOMAIN result = ResultFields
  BY DEF Inv, Shape
<1>1. /\ saved' = saved /\ pays' = [i \in DOMAIN pays |-> Over]
      /\ page' \in {"checkout", "success"}
      /\ page' = "success" => page = "success" /\ result'.order = result.order
      /\ form' = form \/ form' = Mounted({})
      /\ page' = "checkout" => form' = Mounted({})
      /\ DOMAIN result' = ResultFields /\ result'.status = "pending"
  <2>1. CASE ReloadResult
    <3>1. result' = [result EXCEPT !.visited = {result.order}, !.status = "pending"]
      BY <2>1 DEF ReloadResult
    <3>2. /\ DOMAIN result' = ResultFields /\ result'.status = "pending"
          /\ result'.order = result.order
      BY <1>0, <3>1 DEF ResultFields
    <3>. QED  BY <2>1, <3>2 DEF ReloadResult, Reload
  <2>2. CASE ReloadCheckout
    BY <2>2 DEF ReloadCheckout, Reload, NoResult, ResultFields
  <2>. QED  BY <2>1, <2>2
<1>2. orders' = [o \in DOMAIN orders |-> orders'[o]]
  BY DEF ReloadResult, ReloadCheckout
<1>3. /\ IsSeq(orders') /\ DOMAIN orders' = DOMAIN orders
      /\ \A o \in DOMAIN orders :
           /\ DOMAIN orders'[o] = OrderFields
           /\ \A f \in OrderFields \ {"posts"} : orders'[o][f] = orders[o][f]
  <2>1. IsSeq(orders) /\ \A o \in DOMAIN orders : DOMAIN orders[o] = OrderFields
    BY DEF Inv, Shape
  <2>2. \A o \in DOMAIN orders : \E n : orders'[o] = [orders[o] EXCEPT !.posts = n]
    BY DEF ReloadResult, ReloadCheckout
  <2>. QED  BY <1>2, <2>1, <2>2, Updated DEF OrderFields
<1>4. /\ DOMAIN Over = PayFields /\ ~Over.mounted /\ Over.step = "done"
  BY DEF Over, PayFields
<1>5. pays' = [i \in DOMAIN pays |-> pays'[i]]
  BY <1>1
<1>6. /\ IsSeq(pays') /\ DOMAIN pays' = DOMAIN pays
      /\ \A i \in DOMAIN pays' : pays'[i] = Over
  BY <1>1, <1>5, Updated DEF Inv, Shape
<1>7. DOMAIN form' = FormFields
  BY <1>1, MountedFine DEF Inv, Shape
<1>8. \A i \in DOMAIN pays' : ~AtWidget(i)'
  BY <1>4, <1>6 DEF AtWidget
<1>9. Shape' /\ OrdersBooked' /\ WidgetsOwn' /\ SuccessKnown'
  BY <1>1, <1>3, <1>4, <1>6, <1>7, <1>8, OrdersStay
<1>10. DraftsParsed'
  BY <1>1, MountedFine DEF Inv, DraftsParsed
<1>11. OrderedAddressShown'
  BY <1>4, <1>6 DEF OrderedAddressShown
<1>12. OneMounted'
  BY <1>1, <1>4, <1>6, MountedFine, NobodyMounted
<1>. QED  BY <1>9, <1>10, <1>11, <1>12 DEF Inv

-----------------------------------------------------------------------------
(* The invariant                                                            *)

\* A shop that was just opened.
LEMMA Initial == Init => Inv
<1>. SUFFICES ASSUME Init PROVE Inv
  OBVIOUS
<1>1. IsSeq(pays) /\ DOMAIN pays = {} /\ IsSeq(orders) /\ DOMAIN orders = {}
  BY DEF Init, IsSeq
<1>2. DOMAIN form = FormFields /\ DraftsParsed
  BY MountedFine DEF Init, DraftsParsed
<1>3. Shape
  BY <1>1, <1>2 DEF Init, Shape, NoResult, ResultFields
<1>4. OrdersBooked /\ WidgetsOwn /\ OrderedAddressShown
  BY <1>1 DEF OrdersBooked, WidgetsOwn, AtWidget, OrderedAddressShown
<1>5. SuccessKnown /\ OneMounted
  BY <1>1 DEF Init, SuccessKnown, NoResult, OneMounted, ButtonComesBack
<1>. QED  BY <1>2, <1>3, <1>4, <1>5 DEF Inv

\* Steps of the cart and of the toasts alone.
LEMMA Untouched ==
  ASSUME Inv, UNCHANGED <<saved, page, form, pays, orders, result>>
  PROVE  Inv'
BY DEF Inv, Shape, OrdersBooked, WidgetsOwn, SuccessKnown, DraftsParsed, AtWidget,
       OrderedAddressShown, OneMounted, ButtonComesBack

\* Every step keeps the invariant.
LEMMA Step == Inv /\ [Next]_vars => Inv'
<1>. SUFFICES ASSUME Inv, [Next]_vars PROVE Inv'
  OBVIOUS
<1>1. ASSUME NEW p \in Products, AddToCart(p)  PROVE Inv'
  BY <1>1, Untouched DEF AddToCart
<1>2. ASSUME NEW p \in Products, BuyNow(p)  PROVE Inv'
  BY <1>2, PageStep DEF BuyNow, OpenCheckout
<1>3. CASE CartPage
  BY <1>3, Untouched DEF CartPage
<1>4. CASE GoToCheckout
  BY <1>4, PageStep DEF GoToCheckout, OpenCheckout
<1>5. CASE CheckoutPage
  BY <1>5, FormActions, OnPayStep DEF CheckoutPage
<1>6. CASE ToastGone
  BY <1>6, RepostStep DEF ToastGone
<1>7. ASSUME NEW i \in DOMAIN pays, OrderAnswered(i)  PROVE Inv'
  <2>1. CASE PayFails(i)
    BY <1>7, <2>1, PayFailsStep DEF OrderAnswered
  <2>2. CASE ~PayFails(i)
    BY <1>7, <2>2, OrderCreatedStep
  <2>. QED  BY <2>1, <2>2
<1>8. ASSUME NEW i \in DOMAIN pays, WidgetAnswered(i)  PROVE Inv'
  <2>1. CASE PayFails(i)
    BY <1>8, <2>1, PayFailsStep DEF WidgetAnswered
  <2>2. CASE ~PayFails(i)
    BY <1>8, <2>2, WidgetPaidStep
  <2>. QED  BY <2>1, <2>2
<1>9. ASSUME NEW o \in DOMAIN orders, ConfirmAnswered(o)  PROVE Inv'
  BY <1>9, ConfirmPaidStep, ConfirmFailsStep DEF ConfirmAnswered
<1>10. ASSUME NEW o \in DOMAIN orders, Deposit(o) \/ Fulfil(o)  PROVE Inv'
  BY <1>10, MoneyStep
<1>11. CASE Retry
  BY <1>11, RepostStep DEF Retry, Reposted
<1>12. CASE ReloadResult \/ ReloadCheckout
  BY <1>12, ReloadStep
<1>13. CASE Leave
  BY <1>13, PageStep DEF Leave
<1>14. CASE UNCHANGED vars
  BY <1>14, Untouched DEF vars
<1>. QED
  BY <1>1, <1>2, <1>3, <1>4, <1>5, <1>6, <1>7, <1>8, <1>9, <1>10, <1>11, <1>12,
     <1>13, <1>14
  DEF Next, Answer

\* What holds throughout of pages, payments and orders.
LEMMA Invariant == Spec => []Inv
BY Initial, Step, PTL DEF Spec

\* The success page shows success only when PaymentService.confirm has confirmed an
\* order that was brought to it, whatever confirms the page's effect has posted,
\* however they are answered, and whichever of two payments is shown by then.
THEOREM SuccessIsPaid == Spec => []SuccessMeansPaid
<1>1. Inv => SuccessMeansPaid
  BY DEF Inv, SuccessKnown, SuccessMeansPaid
<1>. QED  BY Invariant, <1>1, PTL

\* An order that PaymentService.confirm has let through was charged its total,
\* although the widget charges what is selected and the order has every line.
THEOREM ChargedItsTotal == Spec => []PaidAsCharged
<1>1. Inv => PaidAsCharged
  BY DEF Inv, OrdersBooked, Booked, PaidAsCharged
<1>. QED  BY Invariant, <1>1, PTL

\* The address onPay sends is the one that was on the checkout page.
THEOREM AddressesAreShown == Spec => []OrderedAddressShown
<1>1. Inv => OrderedAddressShown
  BY DEF Inv
<1>. QED  BY Invariant, <1>1, PTL

\* One checkout page has one onPay under way, and its button is disabled for that
\* time only.
THEOREM OnePaymentAtATime == Spec => [](OnePaymentPerPage /\ ButtonComesBack)
<1>1. Inv => OnePaymentPerPage /\ ButtonComesBack
  <2>. SUFFICES ASSUME Inv PROVE OnePaymentPerPage
    BY DEF Inv, OneMounted
  <2>. DEFINE M == {i \in DOMAIN pays : pays[i].mounted}
  <2>1. M = {} \/ \E i : M = {i}
    <3>1. \A i, j \in M : i = j
      BY DEF Inv, OneMounted
    <3>. HIDE DEF M
    <3>. QED  BY <3>1
  <2>2. Cardinality({}) = 0 /\ \A i : Cardinality({i}) = 1
    BY FS_EmptySet, FS_Singleton
  <2>3. Cardinality(M) <= 1
    <3>. HIDE DEF M
    <3>1. CASE M = {}
      BY <2>2, <3>1
    <3>2. ASSUME NEW i, M = {i}  PROVE Cardinality(M) <= 1
      <4>1. Cardinality({i}) = 1
        BY <2>2
      <4>. QED  BY <3>2, <4>1
    <3>. QED  BY <2>1, <3>1, <3>2
  <2>. QED  BY <2>3 DEF OnePaymentPerPage
<1>. QED  BY Invariant, <1>1, PTL

-----------------------------------------------------------------------------
(* The type of the state                                                    *)

\* The quantity of a product among some lines.
Quantity(items) == [p \in DOMAIN items |-> items[p].quantity]

\* Lines are a cart if they are of products, and each is a line.
LEMMA CartLines ==
  ASSUME NEW items
  PROVE  items \in Carts <=>
           /\ items = [p \in DOMAIN items |-> items[p]]
           /\ DOMAIN items \subseteq Products
           /\ \A p \in DOMAIN items : items[p] \in Line
<1>1. ASSUME items = [p \in DOMAIN items |-> items[p]], DOMAIN items \subseteq Products,
             \A p \in DOMAIN items : items[p] \in Line
      PROVE  items \in Carts
  <2>1. items \in [DOMAIN items -> Line]
    BY <1>1
  <2>. QED  BY <1>1, <2>1 DEF Carts
<1>2. ASSUME items \in Carts
      PROVE  /\ items = [p \in DOMAIN items |-> items[p]]
             /\ DOMAIN items \subseteq Products
             /\ \A p \in DOMAIN items : items[p] \in Line
  BY <1>2 DEF Carts
<1>. QED  BY <1>1, <1>2

\* The lines of a cart are finitely many, and no line has more than all together.
LEMMA CartQuantities ==
  ASSUME NEW items \in Carts
  PROVE  /\ IsFiniteSet(DOMAIN items)
         /\ SumFunction(Quantity(items)) \in Nat
         /\ \A p \in DOMAIN items : items[p].quantity \in 1..MaxItems
              /\ items[p].quantity <= SumFunction(Quantity(items))
<1>. DEFINE f == Quantity(items)
<1>1. /\ DOMAIN items \subseteq Products
      /\ \A p \in DOMAIN items : items[p].quantity \in 1..MaxItems
  BY CartLines DEF Line
<1>2. IsFiniteSet(DOMAIN items) /\ MaxItems \in Nat
  BY <1>1, FS_Subset, CheckoutAssumption
<1>3. DOMAIN f = DOMAIN items /\ \A p \in DOMAIN items : f[p] = items[p].quantity
  BY DEF Quantity
<1>4. \A p \in DOMAIN items : f[p] \in Nat
  BY <1>1, <1>2, <1>3
<1>. HIDE DEF f
<1>5. /\ SumFunctionOnSet(f, DOMAIN items) \in Nat
      /\ \A p \in DOMAIN items : f[p] <= SumFunctionOnSet(f, DOMAIN items)
  BY <1>2, <1>4, SumNat
<1>. QED  BY <1>1, <1>2, <1>3, <1>5 DEF SumFunction, f

\* What lines of a cart cost.
LEMMA SumsAreNat ==
  ASSUME NEW items \in Carts, NEW of \in SUBSET DOMAIN items
  PROVE  Sum(items, of) \in Nat
<1>. DEFINE f == [p \in of |-> Price[p] * items[p].quantity]
<1>1. IsFiniteSet(of)
  BY CartQuantities, FS_Subset
<1>2. \A p \in of : Price[p] \in Nat /\ items[p].quantity \in Nat
  BY CartLines, CartQuantities, CheckoutAssumption
<1>3. DOMAIN f = of /\ \A p \in of : f[p] \in Nat
  BY <1>2
<1>. HIDE DEF f
<1>4. SumFunctionOnSet(f, of) \in Nat
  BY <1>1, <1>3, SumNat
<1>. QED  BY <1>3, <1>4 DEF Sum, SumFunction, f

\* The lesser of two, and the greater of one and a number.
LEMMA MinMax ==
  /\ \A a, b \in Int : Min({a, b}) \in {a, b} /\ Min({a, b}) <= a /\ Min({a, b}) <= b
  /\ \A n \in Nat \ {0} : Max({1, n}) = n
<1>1. ASSUME NEW a \in Int, NEW b \in Int
      PROVE  Min({a, b}) \in {a, b} /\ Min({a, b}) <= a /\ Min({a, b}) <= b
  <2>1. \E x \in {a, b} : \A y \in {a, b} : x <= y
    OBVIOUS
  <2>. QED  BY <2>1 DEF Min
<1>2. ASSUME NEW n \in Nat \ {0}  PROVE Max({1, n}) = n
  <2>1. \A y \in {1, n} : n >= y
    OBVIOUS
  <2>2. \A x \in {1, n} : (\A y \in {1, n} : x >= y) => x = n
    OBVIOUS
  <2>. QED  BY <2>1, <2>2 DEF Max
<1>. QED  BY <1>1, <1>2

\* A line is another line, or some lines go.
LEMMA LinesType ==
  ASSUME NEW items \in Carts
  PROVE  /\ \A p \in DOMAIN items, l \in Line : [items EXCEPT ![p] = l] \in Carts
         /\ \A gone : Restrict(items, DOMAIN items \ gone) \in Carts
         /\ EmptyCart \in Carts
<1>1. /\ items = [q \in DOMAIN items |-> items[q]] /\ DOMAIN items \subseteq Products
      /\ \A q \in DOMAIN items : items[q] \in Line
  BY CartLines
<1>2. ASSUME NEW p \in DOMAIN items, NEW l \in Line  PROVE [items EXCEPT ![p] = l] \in Carts
  <2>. DEFINE t == [items EXCEPT ![p] = l]
  <2>1. /\ DOMAIN t = DOMAIN items /\ t = [q \in DOMAIN t |-> t[q]]
        /\ \A q \in DOMAIN t : t[q] \in Line
    BY <1>1
  <2>. HIDE DEF t
  <2>2. t \in Carts
    BY <1>1, <2>1, CartLines
  <2>. QED  BY <2>2 DEF t
<1>3. ASSUME NEW gone  PROVE Restrict(items, DOMAIN items \ gone) \in Carts
  <2>. DEFINE t == Restrict(items, DOMAIN items \ gone)
  <2>1. /\ DOMAIN t = DOMAIN items \ gone /\ t = [q \in DOMAIN t |-> t[q]]
        /\ \A q \in DOMAIN t : t[q] \in Line
    BY <1>1 DEF Restrict
  <2>. HIDE DEF t
  <2>2. t \in Carts
    BY <1>1, <2>1, CartLines
  <2>. QED  BY <2>2 DEF t
<1>4. EmptyCart \in Carts
  BY CartLines DEF EmptyCart
<1>. QED  BY <1>2, <1>3, <1>4

\* One line more, or one more of a line, while there is room.
LEMMA AddLineType ==
  ASSUME cart \in Carts, NEW p \in Products, Room, AddLine(p)
  PROVE  cart' \in Carts
<1>1. SumFunction(Quantity(cart)) < MaxItems /\ MaxItems \in Nat \ {0}
  BY CheckoutAssumption DEF Room, Quantity
<1>2. /\ cart = [q \in DOMAIN cart |-> cart[q]] /\ DOMAIN cart \subseteq Products
      /\ \A q \in DOMAIN cart : cart[q] \in Line
  BY CartLines
<1>3. CASE p \in DOMAIN cart
  <2>1. cart' = [cart EXCEPT ![p].quantity = @ + 1]
    BY <1>3 DEF AddLine
  <2>2. cart[p].quantity + 1 \in 1..MaxItems
    BY <1>1, <1>3, CartQuantities
  <2>3. [cart[p] EXCEPT !.quantity = cart[p].quantity + 1] \in Line
    BY <1>2, <1>3, <2>2 DEF Line
  <2>4. cart' = [cart EXCEPT ![p] = [cart[p] EXCEPT !.quantity = cart[p].quantity + 1]]
    BY <2>1
  <2>. QED  BY <1>3, <2>3, <2>4, LinesType
<1>4. CASE p \notin DOMAIN cart
  <2>1. cart' = [q \in DOMAIN cart \cup {p} |->
                   IF q = p THEN [quantity |-> 1, selected |-> TRUE] ELSE cart[q]]
    BY <1>4 DEF AddLine
  <2>2. [quantity |-> 1, selected |-> TRUE] \in Line
    BY <1>1 DEF Line
  <2>3. /\ DOMAIN cart' = DOMAIN cart \cup {p}
        /\ cart' = [q \in DOMAIN cart' |-> cart'[q]]
        /\ \A q \in DOMAIN cart' : cart'[q] \in Line
    BY <1>2, <2>1, <2>2
  <2>. QED  BY <1>2, <2>3, CartLines
<1>. QED  BY <1>3, <1>4

\* The buttons of the cart page.
LEMMA CartPageType ==
  ASSUME cart \in Carts, CartPage
  PROVE  cart' \in Carts
<1>1. /\ cart = [q \in DOMAIN cart |-> cart[q]] /\ DOMAIN cart \subseteq Products
      /\ \A q \in DOMAIN cart : cart[q] \in Line
  BY CartLines
<1>2. ASSUME NEW p \in DOMAIN cart, LineButtons(p)  PROVE cart' \in Carts
  <2>0. cart[p].quantity \in 1..MaxItems /\ MaxItems \in Nat
    BY CartQuantities, CheckoutAssumption
  <2>1. ASSUME NEW n \in 1..MaxItems, SetQuantity(p, n)  PROVE cart' \in Carts
    <3>1. cart' = [cart EXCEPT ![p].quantity = n]
      <4>1. n \in Nat \ {0}
        BY <2>0
      <4>2. Max({1, n}) = n
        BY <4>1, MinMax
      <4>. QED  BY <2>1, <4>2 DEF SetQuantity
    <3>2. [cart[p] EXCEPT !.quantity = n] \in Line
      BY <1>1 DEF Line
    <3>. QED  BY <3>1, <3>2, LinesType
  <2>2. CASE ToggleSelected(p)
    <3>1. cart' = [cart EXCEPT ![p] = [cart[p] EXCEPT !.selected = ~cart[p].selected]]
      BY <2>2 DEF ToggleSelected
    <3>2. [cart[p] EXCEPT !.selected = ~cart[p].selected] \in Line
      BY <1>1 DEF Line
    <3>. QED  BY <3>1, <3>2, LinesType
  <2>3. CASE cart[p].quantity > 1 /\ SetQuantity(p, cart[p].quantity - 1)
    BY <2>0, <2>1, <2>3
  <2>4. CASE Room /\ SetQuantity(p, cart[p].quantity + 1)
    <3>1. cart[p].quantity < MaxItems
      <4>1. SumFunction(Quantity(cart)) < MaxItems
        BY <2>4 DEF Room, Quantity
      <4>. QED  BY <2>0, <4>1, CartQuantities
    <3>. QED  BY <2>0, <2>1, <2>4, <3>1
  <2>5. CASE RemoveLines({p})
    BY <2>5, LinesType DEF RemoveLines
  <2>. QED  BY <1>2, <2>2, <2>3, <2>4, <2>5 DEF LineButtons
<1>3. ASSUME NEW selected \in BOOLEAN, ToggleSelectAll(selected)  PROVE cart' \in Carts
  <2>1. /\ DOMAIN cart' = DOMAIN cart /\ cart' = [q \in DOMAIN cart' |-> cart'[q]]
        /\ \A q \in DOMAIN cart' : cart'[q] = [cart[q] EXCEPT !.selected = selected]
    BY <1>3 DEF ToggleSelectAll
  <2>2. \A q \in DOMAIN cart' : cart'[q] \in Line
    BY <1>1, <2>1 DEF Line
  <2>. QED  BY <1>1, <2>1, <2>2, CartLines
<1>4. CASE RemoveLines(Selected)
  BY <1>4, LinesType DEF RemoveLines
<1>. QED  BY <1>2, <1>3, <1>4 DEF CartPage

\* What a step has to show of the type of the state.
LEMMA TypeHolds ==
  ASSUME cart' \in Carts, saved' \in SUBSET Fields,
         page' \in {"shop", "checkout", "success"}, form' \in Form,
         pays' \in Seq(Pay), orders' \in Seq(Order), result' \in Result,
         toasts' \in 0..MaxToasts
  PROVE  TypeOK'
BY DEF TypeOK

\* An address and what the schema makes of it; a page that was just mounted.
LEMMA FormTypes ==
  /\ \A filled \in SUBSET Fields : Parsed(filled) \in SUBSET Fields
  /\ \A address \in SUBSET Fields : Mounted(address) \in Form
  /\ NoResult \in Result
BY DEF Parsed, Mounted, Form, NoResult, Result

\* A sequence of orders with another one in the place of one of them.
LEMMA OrderPut ==
  ASSUME NEW os \in Seq(Order), NEW o \in DOMAIN os, NEW r \in Order
  PROVE  [os EXCEPT ![o] = r] \in Seq(Order)
<1>1. o \in 1..Len(os)
  BY LenProperties
<1>. QED  BY <1>1, ExceptSeq

\* A confirm more.
LEMMA PostType ==
  ASSUME NEW os \in Seq(Order), NEW o
  PROVE  Post(os, o) \in Seq(Order) /\ Reposted(os) \in Seq(Order)
<1>1. ASSUME NEW p  PROVE Post(os, p) \in Seq(Order)
  <2>1. CASE p \in DOMAIN os
    <3>1. os[p] \in Order /\ MaxPosts \in Nat
      BY <2>1, LenProperties, ElementOfSeq, CheckoutAssumption
    <3>. DEFINE n == Min({os[p].posts + 1, MaxPosts})
    <3>2. n \in 0..MaxPosts
      <4>1. os[p].posts \in 0..MaxPosts
        BY <3>1 DEF Order
      <4>2. os[p].posts + 1 \in Int /\ MaxPosts \in Int /\ 0 <= os[p].posts + 1
        BY <3>1, <4>1
      <4>3. n \in {os[p].posts + 1, MaxPosts} /\ n <= MaxPosts
        BY <4>2, MinMax
      <4>. HIDE DEF n
      <4>. QED  BY <3>1, <4>1, <4>2, <4>3
    <3>. HIDE DEF n
    <3>3. [os[p] EXCEPT !.posts = n] \in Order
      BY <3>1, <3>2 DEF Order
    <3>4. Post(os, p) = [os EXCEPT ![p] = [os[p] EXCEPT !.posts = n]]
      BY DEF Post, n
    <3>. QED  BY <2>1, <3>3, <3>4, OrderPut
  <2>2. CASE p \notin DOMAIN os
    <3>1. os \in [1..Len(os) -> Order]
      BY LenProperties
    <3>2. Post(os, p) = os
      BY <2>2, <3>1 DEF Post
    <3>. QED  BY <3>2
  <2>. QED  BY <2>1, <2>2
<1>. QED  BY <1>1 DEF Reposted

\* Toasts are shown, and not too many.
LEMMA ToastType ==
  ASSUME toasts \in 0..MaxToasts, ShowToast
  PROVE  toasts' \in 0..MaxToasts
<1>1. MaxToasts \in Nat
  BY CheckoutAssumption
<1>2. toasts' \in {toasts + 1, MaxToasts} /\ toasts' <= MaxToasts
  <2>1. toasts + 1 \in Int /\ MaxToasts \in Int
    BY <1>1
  <2>2. toasts' = Min({toasts + 1, MaxToasts})
    BY DEF ShowToast
  <2>. QED  BY <2>1, <2>2, MinMax
<1>. QED  BY <1>1, <1>2

\* The runs of onPay when their page goes, and when one gets further.
LEMMA PaysTypes ==
  ASSUME pays \in Seq(Pay)
  PROVE  /\ Detached \in Seq(Pay) /\ DOMAIN Detached = DOMAIN pays
         /\ Over \in Pay
         /\ \A ps \in Seq(Pay), i, r \in Pay :
              i \in DOMAIN ps => [ps EXCEPT ![i] = r] \in Seq(Pay)
         /\ [i \in DOMAIN pays |-> Over] \in Seq(Pay)
<1>1. DOMAIN pays = 1..Len(pays) /\ Len(pays) \in Nat /\ pays \in [1..Len(pays) -> Pay]
  BY LenProperties
<1>2. Detached \in [1..Len(pays) -> Pay]
  BY <1>1 DEF Detached, Pay
<1>3. EmptyCart \in Carts
  BY CartLines DEF EmptyCart
<1>4. Over \in Pay
  BY <1>3 DEF Over, Pay
<1>5. [i \in DOMAIN pays |-> Over] \in [1..Len(pays) -> Pay]
  BY <1>1, <1>4
<1>6. ASSUME NEW ps \in Seq(Pay), NEW i, NEW r \in Pay, i \in DOMAIN ps
      PROVE  [ps EXCEPT ![i] = r] \in Seq(Pay)
  <2>1. i \in 1..Len(ps)
    BY <1>6, LenProperties
  <2>. QED  BY <2>1, ExceptSeq
<1>7. /\ [i \in DOMAIN pays |-> Over] \in Seq(Pay)
      /\ Detached \in Seq(Pay)
  BY <1>1, <1>2, <1>5, SeqDef
<1>8. DOMAIN Detached = DOMAIN pays
  BY DEF Detached
<1>. QED  BY <1>4, <1>6, <1>7, <1>8

\* The shop and the way to the checkout page.
LEMMA ShopType ==
  ASSUME TypeOK,
         \/ \E p \in Products : AddToCart(p) \/ BuyNow(p)
         \/ CartPage \/ GoToCheckout \/ Leave
  PROVE  TypeOK'
<1>1. Detached \in Seq(Pay) /\ Mounted(saved) \in Form /\ Mounted({}) \in Form
  BY PaysTypes, FormTypes DEF TypeOK
<1>2. ASSUME NEW p \in Products, AddToCart(p) \/ BuyNow(p)  PROVE TypeOK'
  <2>1. cart' \in Carts
    BY <1>2, AddLineType DEF AddToCart, BuyNow, TypeOK
  <2>2. toasts' \in 0..MaxToasts
    BY <1>2, ToastType DEF AddToCart, BuyNow, TypeOK
  <2>. QED  BY <1>1, <1>2, <2>1, <2>2, TypeHolds DEF AddToCart, BuyNow, OpenCheckout, TypeOK
<1>3. CASE CartPage
  BY <1>3, CartPageType, TypeHolds DEF CartPage, TypeOK
<1>4. CASE GoToCheckout \/ Leave
  BY <1>1, <1>4, FormTypes, TypeHolds DEF GoToCheckout, OpenCheckout, Leave, TypeOK
<1>. QED  BY <1>2, <1>3, <1>4

\* The checkout page.
LEMMA CheckoutPageType ==
  ASSUME TypeOK, CheckoutPage
  PROVE  TypeOK'
<1>1. TypeOK /\ form \in Form /\ saved \in SUBSET Fields
  BY DEF TypeOK
<1>2. ASSUME NEW e \in BOOLEAN, NEW v \in SUBSET Fields, NEW d \in SUBSET Fields,
             NEW l \in BOOLEAN, NEW s \in BOOLEAN
      PROVE  [editing |-> e, values |-> v, draft |-> d, loading |-> l, sheet |-> s] \in Form
  BY DEF Form
<1>3. form' \in Form
  <2>1. ASSUME NEW f \in Fields, TypeField(f)  PROVE form' \in Form
    <3>. DEFINE v == (form.values \ {f}) \cup ({f} \ form.values)
                d == Parsed(v)
    <3>1. form' = [form EXCEPT !.values = v, !.draft = d]
      BY <2>1 DEF TypeField
    <3>2. v \in SUBSET Fields
      BY <1>1 DEF Form
    <3>. HIDE DEF v
    <3>3. d \in SUBSET Fields
      BY <3>2, FormTypes
    <3>. HIDE DEF d
    <3>. QED  BY <1>1, <3>1, <3>2, <3>3 DEF Form
  <2>2. CASE EditAddress
    BY <1>1, <2>2 DEF EditAddress, Form
  <2>3. CASE CancelEdit
    BY <1>1, <2>3 DEF CancelEdit, Form
  <2>4. CASE OnPay
    BY <1>1, <2>4 DEF OnPay, Form
  <2>5. CASE CloseSheet
    BY <1>1, <2>5 DEF CloseSheet, Form
  <2>. QED  BY <2>1, <2>2, <2>3, <2>4, <2>5 DEF CheckoutPage
<1>4. CASE OnPay
  <2>1. /\ cart \in Carts /\ EffectiveAddress \in SUBSET Fields
        /\ ShownAddress \in SUBSET Fields
    BY <1>1, FormTypes DEF EffectiveAddress, ShownAddress, Form, TypeOK
  <2>2. CartSubtotal \in Nat
    BY <2>1, SumsAreNat DEF CartSubtotal, Selected
  <2>3. pays' \in Seq(Pay)
    <3>. DEFINE r == [items |-> cart, charge |-> CartSubtotal,
                      address |-> EffectiveAddress, shown |-> ShownAddress,
                      mounted |-> TRUE, order |-> 0, step |-> "order"]
    <3>1. r \in Pay
      BY <2>1, <2>2 DEF Pay
    <3>2. pays' = Append(pays, r) /\ pays \in Seq(Pay)
      BY <1>1, <1>4 DEF OnPay, TypeOK
    <3>. HIDE DEF r
    <3>. QED  BY <3>1, <3>2, AppendProperties
  <2>4. saved' \in SUBSET Fields
    BY <1>1, <1>4, <2>1 DEF OnPay
  <2>. QED  BY <1>1, <1>3, <1>4, <2>3, <2>4, TypeHolds DEF OnPay, TypeOK
<1>5. CASE ~OnPay
  BY <1>3, <1>5, TypeHolds
  DEF CheckoutPage, TypeField, EditAddress, CancelEdit, CloseSheet, TypeOK
<1>. QED  BY <1>4, <1>5

\* An order of the table, and one that goes on.
LEMMA OrderTypes ==
  ASSUME TypeOK, NEW o \in DOMAIN orders
  PROVE  /\ orders[o] \in Order /\ o \in Nat
         /\ \A s \in {"PENDING_PAYMENT", "PAID", "PREPARING"} :
              [orders EXCEPT ![o].status = s] \in Seq(Order)
         /\ \A s \in {"PENDING_PAYMENT", "PAID", "PREPARING"} :
              orders[o].posts > 0 =>
                [orders EXCEPT ![o].status = s, ![o].posts = @ - 1] \in Seq(Order)
         /\ \A n \in Nat, m \in Nat :
              [orders EXCEPT ![o].collected = n, ![o].due = m] \in Seq(Order)
<1>1. orders \in Seq(Order) /\ o \in 1..Len(orders)
  BY LenProperties DEF TypeOK
<1>2. orders[o] \in Order /\ o \in Nat /\ MaxPosts \in Nat
  BY <1>1, ElementOfSeq, LenProperties, CheckoutAssumption
<1>3. ASSUME NEW s \in {"PENDING_PAYMENT", "PAID", "PREPARING"}
      PROVE  [orders EXCEPT ![o].status = s] \in Seq(Order)
  <2>1. [orders[o] EXCEPT !.status = s] \in Order
    BY <1>2 DEF Order
  <2>. QED  BY <1>1, <2>1, OrderPut
<1>4. ASSUME NEW s \in {"PENDING_PAYMENT", "PAID", "PREPARING"}, orders[o].posts > 0
      PROVE  [orders EXCEPT ![o].status = s, ![o].posts = @ - 1] \in Seq(Order)
  <2>. DEFINE n == orders[o].posts - 1
              r == [orders[o] EXCEPT !.status = s, !.posts = n]
  <2>1. orders[o].posts \in 0..MaxPosts
    BY <1>2 DEF Order
  <2>2. n \in 0..MaxPosts
    BY <1>2, <1>4, <2>1
  <2>3. [orders EXCEPT ![o].status = s, ![o].posts = @ - 1] = [orders EXCEPT ![o] = r]
    BY <1>1
  <2>. HIDE DEF n
  <2>4. r \in Order
    BY <1>2, <2>2 DEF Order
  <2>. HIDE DEF r
  <2>5. [orders EXCEPT ![o] = r] \in Seq(Order)
    BY <1>1, <2>4, OrderPut
  <2>. QED  BY <2>3, <2>5
<1>5. ASSUME NEW n \in Nat, NEW m \in Nat
      PROVE  [orders EXCEPT ![o].collected = n, ![o].due = m] \in Seq(Order)
  <2>. DEFINE r == [orders[o] EXCEPT !.collected = n, !.due = m]
  <2>1. r \in Order
    BY <1>2 DEF Order
  <2>2. [orders EXCEPT ![o].collected = n, ![o].due = m] = [orders EXCEPT ![o] = r]
    BY <1>1
  <2>. HIDE DEF r
  <2>3. [orders EXCEPT ![o] = r] \in Seq(Order)
    BY <1>1, <2>1, OrderPut
  <2>. QED  BY <2>2, <2>3
<1>. QED  BY <1>2, <1>3, <1>4, <1>5

\* A payment that fails.
LEMMA PayFailsType ==
  ASSUME TypeOK, NEW i \in DOMAIN pays, PayFails(i), UNCHANGED <<cart, saved>>
  PROVE  TypeOK'
<1>1. /\ pays' = [pays EXCEPT ![i] = Over] /\ orders' = Reposted(orders) /\ ShowToast
      /\ UNCHANGED <<cart, saved, page, result>>
      /\ \/ form' = form
         \/ form' = [form EXCEPT !.loading = FALSE, !.sheet = FALSE]
  BY DEF PayFails, Settle
<1>2. pays' \in Seq(Pay) /\ orders' \in Seq(Order) /\ toasts' \in 0..MaxToasts
  <2>1. pays \in Seq(Pay) /\ orders \in Seq(Order) /\ toasts \in 0..MaxToasts
    BY DEF TypeOK
  <2>2. pays' \in Seq(Pay)
    BY <1>1, <2>1, PaysTypes
  <2>3. orders' \in Seq(Order) /\ toasts' \in 0..MaxToasts
    BY <1>1, <2>1, PostType, ToastType
  <2>. QED  BY <2>2, <2>3
<1>3. form' \in Form
  BY <1>1 DEF Form, TypeOK
<1>. QED  BY <1>1, <1>2, <1>3, TypeHolds DEF TypeOK

\* The answer to POST /orders.
LEMMA OrderAnsweredType ==
  ASSUME TypeOK, NEW i \in DOMAIN pays, OrderAnswered(i)
  PROVE  TypeOK'
<1>1. CASE PayFails(i)
  BY <1>1, PayFailsType DEF OrderAnswered
<1>2. CASE ~PayFails(i)
  <2>. DEFINE n == NewOrder(i)
              r == [Over EXCEPT !.charge = pays[i].charge, !.mounted = pays[i].mounted,
                                !.order = Len(orders) + 1, !.step = "widget"]
  <2>1. /\ orders' = Append(orders, n) /\ pays' = [pays EXCEPT ![i] = r]
        /\ UNCHANGED <<cart, saved, form, page, result, toasts>>
    BY <1>2 DEF OrderAnswered
  <2>2. pays \in Seq(Pay) /\ orders \in Seq(Order)
    BY DEF TypeOK
  <2>3. pays[i] \in Pay /\ Len(orders) + 1 \in Nat
    BY <2>2, LenProperties, ElementOfSeq
  <2>4. n \in Order
    <3>1. pays[i].items \in Carts
      BY <2>3 DEF Pay
    <3>2. Sum(pays[i].items, DOMAIN pays[i].items) \in Nat
      BY <3>1, SumsAreNat
    <3>3. 0 \in 0..MaxPosts
      BY CheckoutAssumption
    <3>. QED  BY <3>2, <3>3 DEF NewOrder, Order
  <2>5. r \in Pay
    <3>1. Over \in Pay
      BY <2>2, PaysTypes
    <3>. QED  BY <2>3, <3>1 DEF Pay
  <2>. HIDE DEF n, r
  <2>6. orders' \in Seq(Order) /\ pays' \in Seq(Pay)
    BY <2>1, <2>2, <2>4, <2>5, PaysTypes, AppendProperties
  <2>. QED  BY <2>1, <2>6, TypeHolds DEF TypeOK
<1>. QED  BY <1>1, <1>2

\* The answer of PortOne's widget.
LEMMA WidgetAnsweredType ==
  ASSUME TypeOK, Inv, NEW i \in DOMAIN pays, WidgetAnswered(i)
  PROVE  TypeOK'
<1>1. CASE PayFails(i)
  BY <1>1, PayFailsType DEF WidgetAnswered
<1>2. CASE ~PayFails(i)
  <2>. DEFINE o == pays[i].order
  <2>1. PICK now \in BOOLEAN :
          orders' = [orders EXCEPT ![o] =
            [@ EXCEPT !.posts = 1, !.due = IF now THEN 0 ELSE pays[i].charge,
               !.collected = IF now THEN pays[i].charge ELSE 0]]
    BY <1>2 DEF WidgetAnswered
  <2>2. /\ page' = "success" /\ form' = Mounted({})
        /\ result' = ResultOf(o)
        /\ pays' = [Detached EXCEPT ![i] = Over]
        /\ UNCHANGED <<cart, saved, toasts>> /\ pays[i].step = "widget"
    BY <1>2 DEF WidgetAnswered
  <2>3. pays \in Seq(Pay) /\ orders \in Seq(Order)
    BY DEF TypeOK
  <2>4. pays[i] \in Pay
    BY <2>3, LenProperties, ElementOfSeq
  <2>5. o \in DOMAIN orders /\ o \in Nat /\ pays[i].charge \in Nat
    BY <2>2, <2>4 DEF Inv, WidgetsOwn, AtWidget, Pay
  <2>. DEFINE d == IF now THEN 0 ELSE pays[i].charge
              n == IF now THEN pays[i].charge ELSE 0
              r == [orders[o] EXCEPT !.posts = 1, !.due = d, !.collected = n]
  <2>6. d \in Nat /\ n \in Nat
    BY <2>5
  <2>7. orders[o] \in Order /\ 1 \in 0..MaxPosts
    <3>1. orders[o] \in Order
      BY <2>5, OrderTypes
    <3>2. 1 \in 0..MaxPosts
      BY CheckoutAssumption
    <3>. QED  BY <3>1, <3>2
  <2>8. orders' = [orders EXCEPT ![o] = r]
    BY <2>1
  <2>. HIDE DEF d, n, o
  <2>9. r \in Order
    BY <2>6, <2>7 DEF Order
  <2>. HIDE DEF r
  <2>10. orders' \in Seq(Order)
    BY <2>3, <2>5, <2>8, <2>9, OrderPut
  <2>11. pays' \in Seq(Pay)
    BY <2>2, <2>3, PaysTypes
  <2>12. form' \in Form /\ result' \in Result
    BY <2>2, <2>5, FormTypes DEF Result, ResultOf, TypeOK
  <2>. QED  BY <2>2, <2>10, <2>11, <2>12, TypeHolds DEF TypeOK
<1>. QED  BY <1>1, <1>2

\* The answers to the confirms of the success page.
LEMMA ConfirmType ==
  ASSUME TypeOK, NEW o \in DOMAIN orders, ConfirmAnswered(o)
  PROVE  TypeOK'
<1>1. UNCHANGED <<saved, page, form, pays>> /\ orders[o].posts > 0
  BY DEF ConfirmAnswered
<1>2. ASSUME NEW s \in {"success", "fail"}, Answered(o, s)  PROVE result' \in Result
  BY <1>2 DEF Answered, Result, TypeOK
<1>3. CASE ConfirmPaid(o)
  <2>1. /\ orders' = [orders EXCEPT ![o].status = "PAID", ![o].posts = @ - 1]
        /\ Answered(o, "success") /\ cart' = EmptyCart /\ UNCHANGED toasts
    BY <1>3 DEF ConfirmPaid
  <2>2. orders' \in Seq(Order)
    BY <1>1, <2>1, OrderTypes
  <2>3. cart' \in Carts
    BY <2>1, LinesType DEF TypeOK
  <2>. QED  BY <1>1, <1>2, <2>1, <2>2, <2>3, TypeHolds DEF TypeOK
<1>4. CASE ConfirmFails(o)
  <2>1. PICK status \in {orders[o].status} \cup {s \in {"PAID"} : Collected(o)} :
          orders' = Reposted([orders EXCEPT ![o].status = status, ![o].posts = @ - 1])
    BY <1>4 DEF ConfirmFails
  <2>2. Answered(o, "fail") /\ ShowToast /\ UNCHANGED cart
    BY <1>4 DEF ConfirmFails
  <2>3. status \in {"PENDING_PAYMENT", "PAID", "PREPARING"}
    <3>1. orders[o] \in Order
      BY OrderTypes
    <3>. QED  BY <3>1 DEF Order
  <2>4. [orders EXCEPT ![o].status = status, ![o].posts = @ - 1] \in Seq(Order)
    BY <1>1, <2>3, OrderTypes
  <2>5. orders' \in Seq(Order)
    BY <2>1, <2>4, PostType
  <2>6. toasts' \in 0..MaxToasts
    BY <2>2, ToastType DEF TypeOK
  <2>. QED  BY <1>1, <1>2, <2>2, <2>5, <2>6, TypeHolds DEF TypeOK
<1>. QED  BY <1>3, <1>4 DEF ConfirmAnswered

\* Deposits and fulfilment.
LEMMA MoneyType ==
  ASSUME TypeOK, NEW o \in DOMAIN orders, Deposit(o) \/ Fulfil(o)
  PROVE  TypeOK'
<1>1. UNCHANGED <<cart, saved, page, form, pays, result, toasts>>
  BY DEF Deposit, Fulfil
<1>2. orders[o] \in Order
  BY OrderTypes
<1>3. CASE Deposit(o)
  <2>. DEFINE n == orders[o].collected + orders[o].due
  <2>1. n \in Nat
    BY <1>2 DEF Order
  <2>2. orders' = [orders EXCEPT ![o].collected = n, ![o].due = 0]
    BY <1>3 DEF Deposit
  <2>. HIDE DEF n
  <2>3. orders' \in Seq(Order)
    BY <2>1, <2>2, OrderTypes
  <2>. QED  BY <1>1, <2>3, TypeHolds DEF TypeOK
<1>4. CASE Fulfil(o)
  <2>1. orders' = [orders EXCEPT ![o].status = "PREPARING"]
    BY <1>4 DEF Fulfil
  <2>2. orders' \in Seq(Order)
    BY <2>1, OrderTypes
  <2>. QED  BY <1>1, <2>2, TypeHolds DEF TypeOK
<1>. QED  BY <1>3, <1>4

\* The success page tries again, a toast goes, and a fresh load.
LEMMA ReloadType ==
  ASSUME TypeOK, Retry \/ ToastGone \/ ReloadResult \/ ReloadCheckout
  PROVE  TypeOK'
<1>1. /\ pays \in Seq(Pay) /\ orders \in Seq(Order) /\ result \in Result
      /\ toasts \in 0..MaxToasts /\ MaxToasts \in Nat
      /\ 0 \in 0..MaxPosts /\ 1 \in 0..MaxPosts
  BY CheckoutAssumption DEF TypeOK
<1>2. CASE Retry
  <2>1. orders' \in Seq(Order)
    BY <1>1, <1>2, PostType DEF Retry
  <2>2. result' \in Result
    BY <1>1, <1>2 DEF Retry, Result
  <2>. QED  BY <1>2, <2>1, <2>2, TypeHolds DEF Retry, TypeOK
<1>3. CASE ToastGone
  <2>1. orders' \in Seq(Order)
    BY <1>1, <1>3, PostType DEF ToastGone
  <2>2. toasts' \in 0..MaxToasts
    BY <1>1, <1>3 DEF ToastGone
  <2>. QED  BY <1>3, <2>1, <2>2, TypeHolds DEF ToastGone, TypeOK
<1>4. ASSUME NEW shown,
             orders' = [o \in DOMAIN orders |->
               [orders[o] EXCEPT !.posts = IF o = shown THEN 1 ELSE 0]]
                 \/ orders' = [o \in DOMAIN orders |-> [orders[o] EXCEPT !.posts = 0]]
      PROVE  orders' \in Seq(Order)
  <2>1. /\ DOMAIN orders = 1..Len(orders) /\ Len(orders) \in Nat
        /\ \A o \in DOMAIN orders : orders[o] \in Order
    BY <1>1, LenProperties, ElementOfSeq
  <2>2. \A o \in DOMAIN orders, n \in 0..MaxPosts : [orders[o] EXCEPT !.posts = n] \in Order
    BY <2>1 DEF Order
  <2>3. /\ DOMAIN orders' = DOMAIN orders
        /\ orders' = [o \in DOMAIN orders' |-> orders'[o]]
        /\ \A o \in DOMAIN orders : \E n \in 0..MaxPosts :
             orders'[o] = [orders[o] EXCEPT !.posts = n]
    BY <1>1, <1>4
  <2>4. \A o \in DOMAIN orders : orders'[o] \in Order
    BY <2>2, <2>3
  <2>5. orders' \in [1..Len(orders) -> Order]
    <3>1. DOMAIN orders' = 1..Len(orders) /\ \A o \in 1..Len(orders) : orders'[o] \in Order
      BY <2>1, <2>3, <2>4
    <3>. QED  BY <2>3, <3>1
  <2>. QED  BY <2>1, <2>5, SeqDef
<1>5. CASE ReloadResult
  <2>1. orders' \in Seq(Order)
    BY <1>4, <1>5 DEF ReloadResult
  <2>2. result' \in Result
    <3>1. result' = [result EXCEPT !.visited = {result.order}, !.status = "pending"]
      BY <1>5 DEF ReloadResult
    <3>. QED  BY <1>1, <3>1 DEF Result
  <2>3. /\ pays' \in Seq(Pay) /\ toasts' \in 0..MaxToasts
        /\ UNCHANGED <<cart, saved, page, form>>
    BY <1>1, <1>5, PaysTypes DEF ReloadResult, Reload
  <2>. QED  BY <2>1, <2>2, <2>3, TypeHolds DEF TypeOK
<1>6. CASE ReloadCheckout
  <2>1. orders' \in Seq(Order)
    BY <1>4, <1>6 DEF ReloadCheckout
  <2>2. /\ pays' \in Seq(Pay) /\ result' \in Result /\ toasts' \in 0..MaxToasts
        /\ form' \in Form /\ page' = "checkout" /\ UNCHANGED <<cart, saved>>
    BY <1>1, <1>6, PaysTypes, FormTypes DEF ReloadCheckout, Reload
  <2>. QED  BY <2>1, <2>2, TypeHolds DEF TypeOK
<1>. QED  BY <1>2, <1>3, <1>5, <1>6

\* A shop that was just opened has that type.
LEMMA InitType == Init => TypeOK
<1>. SUFFICES ASSUME Init  PROVE TypeOK
  OBVIOUS
<1>1. cart \in Carts
  BY CartLines DEF Init, EmptyCart
<1>2. form \in Form /\ result \in Result
  BY FormTypes DEF Init
<1>3. pays \in Seq(Pay) /\ orders \in Seq(Order) /\ toasts \in 0..MaxToasts
  BY CheckoutAssumption DEF Init
<1>. QED  BY <1>1, <1>2, <1>3 DEF Init, TypeOK

\* Every step keeps the type.
LEMMA TypeStep == TypeOK /\ Inv /\ [Next]_vars => TypeOK'
<1>. SUFFICES ASSUME TypeOK, Inv, [Next]_vars  PROVE TypeOK'
  OBVIOUS
<1>1. CASE \/ \E p \in Products : AddToCart(p) \/ BuyNow(p)
           \/ CartPage \/ GoToCheckout \/ Leave
  BY <1>1, ShopType
<1>2. CASE CheckoutPage
  BY <1>2, CheckoutPageType
<1>3. CASE ToastGone \/ Retry \/ ReloadResult \/ ReloadCheckout
  BY <1>3, ReloadType
<1>4. CASE Answer
  BY <1>4, OrderAnsweredType, WidgetAnsweredType, ConfirmType DEF Answer
<1>5. ASSUME NEW o \in DOMAIN orders, Deposit(o) \/ Fulfil(o)  PROVE TypeOK'
  BY <1>5, MoneyType
<1>6. CASE UNCHANGED vars
  BY <1>6, TypeHolds DEF vars, TypeOK
<1>. QED  BY <1>1, <1>2, <1>3, <1>4, <1>5, <1>6 DEF Next

\* The browser's state has that type throughout.
LEMMA TypeCorrect == Spec => []TypeOK
BY InitType, TypeStep, Invariant, PTL DEF Spec

\* The browser's state keeps its type, a page has one payment under way at most,
\* and its button back after it: what the checkout page shows can be trusted, for
\* any carts, prices, number of payments and order of their answers.
THEOREM PaymentsAreSound == Spec => []PaymentsSound
BY TypeCorrect, OnePaymentAtATime, PTL DEF PaymentsSound

-----------------------------------------------------------------------------
(* The cart survives                                                        *)

\* The cart goes empty where a confirm was answered well, or on its own page.
LEMMA CartEmptied ==
  ASSUME TypeOK, Inv, [Next]_vars, cart' = EmptyCart, cart # EmptyCart, page # "shop"
  PROVE  \E o \in DOMAIN orders :
           orders'[o].posts < orders[o].posts /\ orders'[o].status = "PAID"
<1>1. ASSUME NEW o \in DOMAIN orders, ConfirmAnswered(o)
      PROVE  orders'[o].posts < orders[o].posts /\ orders'[o].status = "PAID"
  <2>1. CASE ConfirmPaid(o)
    <3>1. orders' = [orders EXCEPT ![o].status = "PAID", ![o].posts = @ - 1]
      BY <2>1 DEF ConfirmPaid
    <3>2. DOMAIN orders[o] = OrderFields
      BY DEF Inv, Shape
    <3>3. orders'[o].status = "PAID" /\ orders'[o].posts = orders[o].posts - 1
      BY <3>1, <3>2 DEF OrderFields
    <3>4. orders[o] \in Order
      BY LenProperties, ElementOfSeq DEF TypeOK
    <3>. QED  BY <3>3, <3>4 DEF Order
  <2>2. CASE ConfirmFails(o)
    BY <2>2 DEF ConfirmFails
  <2>. QED  BY <1>1, <2>1, <2>2 DEF ConfirmAnswered
<1>2. ASSUME NEW i \in DOMAIN pays, OrderAnswered(i) \/ WidgetAnswered(i)  PROVE FALSE
  BY <1>2 DEF OrderAnswered, WidgetAnswered
<1>3. ASSUME CheckoutPage  PROVE FALSE
  BY <1>3 DEF CheckoutPage, TypeField, EditAddress, CancelEdit, OnPay, CloseSheet
<1>4. ASSUME Retry \/ ReloadResult \/ ReloadCheckout \/ Leave \/ ToastGone  PROVE FALSE
  BY <1>4 DEF Retry, ReloadResult, ReloadCheckout, Leave, Reload, ToastGone
<1>5. ASSUME NEW o \in DOMAIN orders, Deposit(o) \/ Fulfil(o)  PROVE FALSE
  BY <1>5 DEF Deposit, Fulfil
<1>6. ASSUME NEW p \in Products, AddToCart(p) \/ BuyNow(p)  PROVE FALSE
  BY <1>6 DEF AddToCart, BuyNow
<1>7. ASSUME CartPage \/ GoToCheckout  PROVE FALSE
  BY <1>7 DEF CartPage, GoToCheckout
<1>8. ASSUME UNCHANGED vars  PROVE FALSE
  BY <1>8 DEF vars
<1>. QED  BY <1>1, <1>2, <1>3, <1>4, <1>5, <1>6, <1>7, <1>8 DEF Next, Answer

\* Outside the cart's own page the cart goes with the answer that an order is PAID,
\* and with nothing else, however many confirms fail before it.
THEOREM CartSurvives == Spec => CartSurvivesFailure
<1>1. TypeOK /\ Inv /\ [Next]_vars =>
        [cart' = EmptyCart /\ cart # EmptyCart /\ page # "shop" =>
           \E o \in DOMAIN orders : /\ orders'[o].posts < orders[o].posts
                                   /\ orders'[o].status = "PAID"]_vars
  BY CartEmptied
<1>. QED  BY <1>1, TypeCorrect, Invariant, PTL DEF Spec, CartSurvivesFailure

-----------------------------------------------------------------------------
(* The success page does not wait for nothing                               *)

\* A confirm that is posted is under way.
LEMMA PostedIsUnderWay ==
  ASSUME NEW os, NEW o \in DOMAIN os, os[o] \in Order
  PROVE  Post(os, o)[o].posts > 0
<1>1. os[o].posts \in 0..MaxPosts /\ MaxPosts \in Nat \ {0}
  BY CheckoutAssumption DEF Order
<1>2. Min({os[o].posts + 1, MaxPosts}) \in {os[o].posts + 1, MaxPosts}
  <2>1. os[o].posts + 1 \in Int /\ MaxPosts \in Int
    BY <1>1
  <2>. QED  BY <2>1, MinMax
<1>3. Post(os, o)[o].posts = Min({os[o].posts + 1, MaxPosts})
  BY DEF Post, Order
<1>. QED  BY <1>1, <1>2, <1>3

\* The order that is shown is one of those the page has had.
ShownVisited == page = "success" => result.order \in result.visited

\* So it is after every step.
LEMMA ShownVisitedStep ==
  ASSUME TypeOK, ShownVisited, [Next]_vars
  PROVE  ShownVisited'
<1>0. result \in Result
  BY DEF TypeOK
<1>1. ASSUME UNCHANGED <<page, result>>  PROVE ShownVisited'
  BY <1>1 DEF ShownVisited
<1>2. ASSUME NEW i \in DOMAIN pays, OrderAnswered(i) \/ WidgetAnswered(i)
      PROVE  ShownVisited'
  <2>1. CASE UNCHANGED <<page, result>>
    BY <1>1, <2>1
  <2>2. CASE result' = ResultOf(pays[i].order)
    BY <1>0, <2>2 DEF ResultOf, Result, ShownVisited
  <2>. QED  BY <1>2, <2>1, <2>2 DEF OrderAnswered, WidgetAnswered, PayFails
<1>3. ASSUME NEW o \in DOMAIN orders, ConfirmAnswered(o)  PROVE ShownVisited'
  <2>1. page' = page /\ result'.order = result.order /\ result'.visited = result.visited
    BY <1>0, <1>3 DEF ConfirmAnswered, ConfirmPaid, ConfirmFails, Answered, Result
  <2>. QED  BY <2>1 DEF ShownVisited
<1>4. CASE Retry \/ ReloadResult
  BY <1>0, <1>4 DEF Retry, ReloadResult, Result, ShownVisited
<1>5. CASE page' # "success"
  BY <1>5 DEF ShownVisited
<1>6. ASSUME NEW o \in DOMAIN orders, Deposit(o) \/ Fulfil(o)  PROVE ShownVisited'
  BY <1>1, <1>6 DEF Deposit, Fulfil
<1>7. CASE CheckoutPage
  BY <1>1, <1>7 DEF CheckoutPage, TypeField, EditAddress, CancelEdit, OnPay, CloseSheet
<1>8. CASE ToastGone \/ UNCHANGED vars
  BY <1>1, <1>8 DEF ToastGone, vars
<1>9. CASE \/ \E p \in Products : AddToCart(p) \/ BuyNow(p)
           \/ CartPage \/ GoToCheckout \/ Leave \/ ReloadCheckout
  BY <1>5, <1>9
  DEF AddToCart, BuyNow, OpenCheckout, CartPage, GoToCheckout, Leave, ReloadCheckout
<1>. QED  BY <1>2, <1>3, <1>4, <1>6, <1>7, <1>8, <1>9 DEF Next, Answer

\* Posting once more takes no confirm away.
LEMMA RepostedUnderWay ==
  ASSUME NEW os, result.order \in DOMAIN os, os[result.order] \in Order,
         os[result.order].posts > 0
  PROVE  Reposted(os)[result.order].posts > 0
BY PostedIsUnderWay DEF Reposted

\* Every step of a page that waits leaves a confirm of its order under way.
LEMMA PendingStep ==
  ASSUME TypeOK, Inv, ShownVisited, PendingIsAwaited, [Next]_vars,
         page' = "success", result'.status = "pending"
  PROVE  orders'[result'.order].posts > 0
<1>. DEFINE r == result.order
<1>0. page = "success" => r \in DOMAIN orders /\ orders[r] \in Order
  BY LenProperties, ElementOfSeq DEF Inv, Shape, TypeOK
<1>1. ASSUME page = "success", result.status = "pending",
             UNCHANGED <<result, orders>>
      PROVE  orders'[result'.order].posts > 0
  BY <1>1 DEF PendingIsAwaited
<1>2. ASSUME page = "success", result.status = "pending",
             result' = result, orders' = Reposted(orders)
      PROVE  orders'[result'.order].posts > 0
  BY <1>0, <1>2, RepostedUnderWay DEF PendingIsAwaited
<1>3. ASSUME NEW i \in DOMAIN pays, PayFails(i)  PROVE orders'[result'.order].posts > 0
  BY <1>2, <1>3 DEF PayFails
<1>4. ASSUME NEW i \in DOMAIN pays, OrderAnswered(i), ~PayFails(i)
      PROVE  orders'[result'.order].posts > 0
  <2>1. orders' = Append(orders, NewOrder(i)) /\ UNCHANGED <<page, result>>
    BY <1>4 DEF OrderAnswered
  <2>2. IsSeq(orders)
    BY DEF Inv, Shape
  <2>3. \A o \in DOMAIN orders : orders'[o] = orders[o]
    BY <2>1, <2>2, Appended
  <2>. QED  BY <1>0, <2>1, <2>3 DEF PendingIsAwaited
<1>5. ASSUME NEW i \in DOMAIN pays, WidgetAnswered(i), ~PayFails(i)
      PROVE  orders'[result'.order].posts > 0
  <2>. DEFINE o == pays[i].order
  <2>1. /\ result' = ResultOf(o) /\ pays[i].step = "widget"
        /\ \E now \in BOOLEAN :
             orders' = [orders EXCEPT ![o] =
               [@ EXCEPT !.posts = 1, !.due = IF now THEN 0 ELSE pays[i].charge,
                  !.collected = IF now THEN pays[i].charge ELSE 0]]
    BY <1>5 DEF WidgetAnswered
  <2>2. o \in DOMAIN orders /\ DOMAIN orders[o] = OrderFields
    BY <2>1 DEF Inv, WidgetsOwn, AtWidget, Shape
  <2>3. orders'[o].posts = 1
    BY <2>1, <2>2 DEF OrderFields
  <2>. QED  BY <2>1, <2>3, ResultKeepsSaying
<1>6. ASSUME NEW o \in DOMAIN orders, ConfirmAnswered(o)
      PROVE  orders'[result'.order].posts > 0
  <2>1. page = "success" /\ orders[o] \in Order
    BY <1>6, LenProperties, ElementOfSeq DEF ConfirmAnswered, TypeOK
  <2>2. DOMAIN result = ResultFields
    BY DEF Inv, Shape
  <2>3. \A status \in {"success", "fail"} :
          Answered(o, status) => result' = result /\ o \notin result.visited
    BY <2>1, <2>2 DEF Answered, ResultFields
  <2>4. result' = result /\ o # r
    <3>1. \E status \in {"success", "fail"} : Answered(o, status)
      BY <1>6 DEF ConfirmAnswered, ConfirmPaid, ConfirmFails
    <3>. QED  BY <2>1, <2>3, <3>1 DEF ShownVisited
  <2>5. CASE ConfirmPaid(o)
    BY <1>0, <2>1, <2>4, <2>5 DEF ConfirmPaid, PendingIsAwaited
  <2>6. CASE ConfirmFails(o)
    <3>1. PICK status :
            orders' = Reposted([orders EXCEPT ![o].status = status, ![o].posts = @ - 1])
      BY <2>6 DEF ConfirmFails
    <3>. DEFINE os == [orders EXCEPT ![o].status = status, ![o].posts = @ - 1]
    <3>2. os[r] = orders[r] /\ DOMAIN os = DOMAIN orders /\ orders' = Reposted(os)
      BY <1>0, <2>1, <2>4, <3>1
    <3>. HIDE DEF os
    <3>. QED  BY <1>0, <2>1, <2>4, <3>2, RepostedUnderWay DEF PendingIsAwaited
  <2>. QED  BY <1>6, <2>5, <2>6 DEF ConfirmAnswered
<1>7. ASSUME NEW o \in DOMAIN orders, Deposit(o) \/ Fulfil(o)
      PROVE  orders'[result'.order].posts > 0
  <2>1. UNCHANGED <<page, result>> /\ orders[o] \in Order
    BY <1>7, LenProperties, ElementOfSeq DEF Deposit, Fulfil, TypeOK
  <2>2. orders'[r].posts = orders[r].posts
    BY <1>0, <1>7, <2>1 DEF Deposit, Fulfil, Order
  <2>. QED  BY <2>1, <2>2 DEF PendingIsAwaited
<1>8. CASE Retry
  BY <1>0, <1>8, PostedIsUnderWay DEF Retry, Result, TypeOK
<1>9. CASE ReloadResult
  BY <1>0, <1>9 DEF ReloadResult, Result, Order, TypeOK
<1>10. CASE ToastGone
  BY <1>2, <1>10 DEF ToastGone
<1>11. CASE CheckoutPage
  BY <1>1, <1>11 DEF CheckoutPage, TypeField, EditAddress, CancelEdit, OnPay, CloseSheet
<1>12. ASSUME \/ \E p \in Products : AddToCart(p) \/ BuyNow(p)
              \/ CartPage \/ GoToCheckout \/ Leave \/ ReloadCheckout
       PROVE  FALSE
  BY <1>12
  DEF AddToCart, BuyNow, OpenCheckout, CartPage, GoToCheckout, Leave, ReloadCheckout
<1>13. CASE UNCHANGED vars
  BY <1>1, <1>13 DEF vars
<1>. QED
  BY <1>3, <1>4, <1>5, <1>6, <1>7, <1>8, <1>9, <1>10, <1>11, <1>12, <1>13
  DEF Next, Answer

\* The success page that waits has a confirm under way, whatever was answered, lost,
\* posted anew or brought to it before: one answer more and it shows something.
THEOREM WaitingIsAnswered == Spec => []PendingIsAwaited
<1>1. Init => PendingIsAwaited
  BY DEF Init, PendingIsAwaited
<1>2. Init => ShownVisited
  BY DEF Init, ShownVisited
<1>3. TypeOK /\ ShownVisited /\ [Next]_vars => ShownVisited'
  BY ShownVisitedStep
<1>4. TypeOK /\ Inv /\ ShownVisited /\ PendingIsAwaited /\ [Next]_vars =>
        PendingIsAwaited'
  BY PendingStep DEF PendingIsAwaited
<1>. QED  BY <1>1, <1>2, <1>3, <1>4, TypeCorrect, Invariant, PTL DEF Spec

=============================================================================
