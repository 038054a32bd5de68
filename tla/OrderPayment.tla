---------------------------- MODULE OrderPayment ----------------------------
(***************************************************************************)
(* An order from its creation to its receipt or refund: payment.service.ts  *)
(* (confirm, refundFull, refundPartial), order.service.ts (create,          *)
(* confirmReceipt), the referral engine inside their transactions, and      *)
(* PortOne, the payment provider, which keeps the money.                    *)
(*                                                                          *)
(* A request is a call of one service method.  It reads the order outside   *)
(* any transaction, talks to PortOne, and only then writes; calls           *)
(* interleave between any two of these steps, and a call writes from what   *)
(* it read first.  A Serializable transaction is one step: it commits as a  *)
(* whole, fails on a serialization conflict, or is rolled back by a clash   *)
(* in the ledger (see ReferralEngine).  A restart of the process loses the  *)
(* calls in flight.                                                         *)
(***************************************************************************)
EXTENDS ReferralEngine, FiniteSets

CONSTANTS
  Orders,      \* order ids; o also stands for the paymentId payment_<o>
  Buyer,       \* Order.userId
  Calls,       \* one id per request
  Totals,      \* the totals an order may have, and the sums a client may pay
  Ratios,      \* the ratioBps a partial refund may ask for
  AdminOps,    \* which operations happen to which accounts meanwhile
  Faults       \* which faults happen

ASSUME OrderPaymentAssumption ==
  /\ Buyer \in [Orders -> Users]
  /\ Totals \subseteq Nat
  /\ Ratios \subseteq 1..(WholeBps - 1)
  /\ AdminOps \subseteq {"flagUser", "suspendUser", "markStaff",
                          "releaseMinor", "withdraw"} \X Users
  /\ Faults \subseteq {"restart", "serialization", "portone"}

VARIABLES
  orders,      \* table Order
  portone,     \* PortOne's record of payment_<o>
  ledger,      \* table ReferralLedger
  refunds,     \* table Refund
  calls        \* the requests: what each has read and where it stands

vars == <<users, orders, portone, ledger, refunds, calls>>

-----------------------------------------------------------------------------

OrderStatuses == {"ABSENT", "PENDING_PAYMENT", "PAID", "PREPARING", "SHIPPED",
                  "DELIVERED", "CONFIRMED", "REFUNDED", "PARTIAL_REFUNDED"}

\* confirmedAt: never set, set within the last HOLD_DAYS, or longer ago.
Receipts == {"NONE", "HELD", "EXPIRED"}

OrderRow == [status : OrderStatuses, total : Nat, receipt : Receipts,
             refunded : Nat]

PaymentStatuses == {"READY", "PAID", "PARTIAL_CANCELLED", "CANCELLED"}

PaymentRecord == [status : PaymentStatuses, total : Nat, cancelled : Nat]

LedgerRow == [order : Orders, beneficiary : Users, gen : Generations,
              type : LedgerTypes, amount : Int, status : LedgerStatuses]

RefundRow == [call : Calls, order : Orders, amount : Nat, ratio : 1..WholeBps,
              late : BOOLEAN]

Operations == {"confirm", "refundFull", "refundPartial", "confirmReceipt"}

\* A call starts, passes a check or has PortOne return money ("check"), writes
\* ("write") and is answered; a restart leaves it "lost".
Steps == {"start", "check", "write", "ok", "error", "lost"}

Call == [op : Operations, order : Orders, payment : Orders,
         ratio : 1..WholeBps, late : BOOLEAN, step : Steps]

Idle == [op |-> "none", step |-> "start"]

TypeOK ==
  /\ AccountsTypeOK
  /\ orders \in [Orders -> OrderRow]
  /\ portone \in [Orders -> PaymentRecord]
  /\ ledger \subseteq LedgerRow
  /\ refunds \subseteq RefundRow
  /\ calls \in [Calls -> Call \cup {Idle}]

Init ==
  /\ AccountsInit
  /\ orders = [o \in Orders |-> [status |-> "ABSENT", total |-> 0,
                                 receipt |-> "NONE", refunded |-> 0]]
  /\ portone = [o \in Orders |-> [status |-> "READY", total |-> 0,
                                  cancelled |-> 0]]
  /\ ledger = {}
  /\ refunds = {}
  /\ calls = [c \in Calls |-> Idle]

-----------------------------------------------------------------------------
(* The rest of the world: checkout, PortOne's widget, fulfilment, time.     *)

\* OrderService.create: one transaction inserts the order with its total and
\* sets paymentId to payment_<o>.
CreateOrder(o, total) ==
  /\ orders[o].status = "ABSENT"
  /\ orders' = [orders EXCEPT ![o] = [status |-> "PENDING_PAYMENT",
                                      total |-> total, receipt |-> "NONE",
                                      refunded |-> 0]]
  /\ UNCHANGED <<users, portone, ledger, refunds, calls>>

\* The customer pays in the PortOne widget; the sum comes from the client.
Pay(o, sum) ==
  /\ orders[o].status # "ABSENT"
  /\ portone[o].status = "READY"
  /\ portone' = [portone EXCEPT ![o].status = "PAID", ![o].total = sum]
  /\ UNCHANGED <<users, orders, ledger, refunds, calls>>

\* Nothing in the repository moves an order on after payment; whoever fulfils
\* it is taken to follow the documented order of states.
Fulfil(o) ==
  /\ \/ /\ orders[o].status = "PAID"
        /\ orders' = [orders EXCEPT ![o].status = "PREPARING"]
     \/ /\ orders[o].status = "PREPARING"
        /\ orders' = [orders EXCEPT ![o].status = "SHIPPED"]
     \/ /\ orders[o].status = "SHIPPED"
        /\ orders' = [orders EXCEPT ![o].status = "DELIVERED"]
  /\ UNCHANGED <<users, portone, ledger, refunds, calls>>

\* HOLD_DAYS pass after the receipt was confirmed.
HoldExpires(o) ==
  /\ orders[o].receipt = "HELD"
  /\ orders' = [orders EXCEPT ![o].receipt = "EXPIRED"]
  /\ UNCHANGED <<users, portone, ledger, refunds, calls>>

ChangeAccount(u) ==
  /\ \/ <<"flagUser", u>> \in AdminOps /\ FlagUser(u)
     \/ <<"suspendUser", u>> \in AdminOps /\ SuspendUser(u)
     \/ <<"markStaff", u>> \in AdminOps /\ \E role \in Roles : MarkStaff(u, role)
     \/ <<"releaseMinor", u>> \in AdminOps /\ ReleaseMinor(u)
     \/ <<"withdraw", u>> \in AdminOps /\ Withdraw(u)
  /\ UNCHANGED <<orders, portone, ledger, refunds, calls>>

-----------------------------------------------------------------------------
(* Steps every call is made of.                                             *)

\* The call is read in as r and goes on at a step, or is answered.
Begin(c, r, step) ==
  /\ calls[c] = Idle
  /\ calls' = [calls EXCEPT ![c] = [r EXCEPT !.step = step]]

GoTo(c, step) == calls' = [calls EXCEPT ![c].step = step]

At(c, ops, step) == calls[c].op \in ops /\ calls[c].step = step

Request(op, o, p, ratio, late) ==
  [op |-> op, order |-> o, payment |-> p, ratio |-> ratio, late |-> late,
   step |-> "start"]

Rows == <<users, orders, portone, ledger, refunds>>

\* A Serializable transaction loses to a concurrent one and is rolled back.
SerializationFailure(c) ==
  /\ "serialization" \in Faults
  /\ At(c, {"confirm", "refundFull", "refundPartial"}, "write")
  /\ GoTo(c, "error")
  /\ UNCHANGED Rows

\* The process restarts; committed rows and PortOne survive, calls do not.
Restart ==
  /\ "restart" \in Faults
  /\ \E c \in Calls : calls[c].step \in {"check", "write"}
  /\ calls' = [c \in Calls |->
                 IF calls[c].step \in {"check", "write"}
                   THEN [calls[c] EXCEPT !.step = "lost"] ELSE calls[c]]
  /\ UNCHANGED Rows

-----------------------------------------------------------------------------
(* PaymentService.confirm                                                   *)

\* Mutated form: the payment is not compared with the one assigned.
ConfirmReadAnyPayment(c, user, o, p) ==
  /\ LET r == Request("confirm", o, p, WholeBps, FALSE)
     IN  /\ user = Buyer[o]
         /\ orders[o].status = "PENDING_PAYMENT"
         /\ Begin(c, r, "check")
  /\ UNCHANGED Rows

\* The order as findUnique returns it decides: an order already paid by this
\* payment is answered at once, one that is not pending is refused, and so is
\* any payment but the one assigned to it.
ConfirmRead(c, user, o, p) ==
  /\ LET mine == orders[o].status # "ABSENT" /\ user = Buyer[o]
         r == Request("confirm", o, p, WholeBps, FALSE)
     IN  \/ /\ mine /\ p = o /\ orders[o].status = "PENDING_PAYMENT"
            /\ Begin(c, r, "check")
         \/ /\ mine /\ p = o /\ orders[o].status = "PAID"
            /\ Begin(c, r, "ok")
         \/ /\ \/ ~mine
               \/ p # o
               \/ orders[o].status \notin {"PENDING_PAYMENT", "PAID"}
            /\ Begin(c, r, "error")
  /\ UNCHANGED Rows

\* Mutated form: the sum PortOne collected is not compared with the total.
ConfirmCheckAnySum(c) ==
  /\ At(c, {"confirm"}, "check")
  /\ IF portone[calls[c].payment].status = "PAID" THEN GoTo(c, "write")
                                                  ELSE GoTo(c, "error")
  /\ UNCHANGED Rows

\* Mutated form: the call waits until the payment is PAID instead of failing.
ConfirmCheckWaits(c) ==
  /\ At(c, {"confirm"}, "check")
  /\ portone[calls[c].payment].status = "PAID"
  /\ GoTo(c, "write")
  /\ UNCHANGED Rows

\* getPayment: the payment must be PAID and its sum the order's total.  PortOne
\* may also fail to answer.
ConfirmCheck(c) ==
  /\ At(c, {"confirm"}, "check")
  /\ LET o == calls[c].order
         pay == portone[calls[c].payment]
     IN  \/ /\ pay.status = "PAID" /\ pay.total = orders[o].total
            /\ GoTo(c, "write")
         \/ /\ \/ pay.status # "PAID"
               \/ pay.total # orders[o].total
               \/ "portone" \in Faults
            /\ GoTo(c, "error")
  /\ UNCHANGED Rows

\* The transaction sets PAID, whatever the status is by now, and distributes.
ConfirmWrite(c) ==
  /\ At(c, {"confirm"}, "write")
  /\ LET o == calls[c].order
         rows == DistributeRows(o, Buyer[o], orders[o].total)
         clash == Clash(rows, ledger)
     IN  \/ /\ clash = {}
            /\ orders' = [orders EXCEPT ![o].status = "PAID"]
            /\ ledger' = ledger \cup rows
            /\ GoTo(c, "ok")
         \/ /\ clash # {}
            /\ GoTo(c, DistributeAbortAnswer(clash, Buyer[o]))
            /\ UNCHANGED <<orders, ledger>>
  /\ UNCHANGED <<users, portone, refunds>>

-----------------------------------------------------------------------------
(* PaymentService.refundFull and refundPartial                              *)

\* Neither looks at the order's status; lateness is decided here.
RefundRead(c, op, o, ratio) ==
  /\ LET r == Request(op, o, o, ratio, orders[o].receipt = "EXPIRED")
     IN  \/ orders[o].status # "ABSENT" /\ Begin(c, r, "check")
         \/ orders[o].status = "ABSENT" /\ Begin(c, r, "error")
  /\ UNCHANGED Rows

RefundFullRead(c, o) == RefundRead(c, "refundFull", o, WholeBps)

RefundPartialRead(c, o, ratio) == RefundRead(c, "refundPartial", o, ratio)

\* The Refund row's amount, from the order's total.
RefundAmount(c) == FloorBps(orders[calls[c].order].total, calls[c].ratio)

Remaining(o) == portone[o].total - portone[o].cancelled

\* Mutated form: a partial refund's share is taken of what is left.
CancelAmountOfRemaining(c) ==
  FloorBps(Remaining(calls[c].order), calls[c].ratio)

\* What PortOne is asked to return: everything left, or the partial amount.
CancelAmount(c) ==
  IF calls[c].op = "refundFull" THEN Remaining(calls[c].order)
                                ELSE RefundAmount(c)

CancelledPayment(pay, amount) ==
  [status |-> IF pay.cancelled + amount = pay.total THEN "CANCELLED"
                                                   ELSE "PARTIAL_CANCELLED",
   total |-> pay.total, cancelled |-> pay.cancelled + amount]

\* Mutated form: the answer of PortOne is not looked at.
RefundCancelUnchecked(c) ==
  /\ At(c, {"refundFull", "refundPartial"}, "check")
  /\ GoTo(c, "write")
  /\ UNCHANGED Rows

\* cancelPayment: PortOne returns the money, or refuses or is not reached;
\* and its answer may be lost after the money is returned.
RefundCancel(c) ==
  /\ At(c, {"refundFull", "refundPartial"}, "check")
  /\ LET o == calls[c].order
         amount == CancelAmount(c)
         returnable == /\ portone[o].status \in {"PAID", "PARTIAL_CANCELLED"}
                       /\ amount > 0
                       /\ amount <= Remaining(o)
     IN  \/ /\ returnable
            /\ portone' = [portone EXCEPT ![o] = CancelledPayment(@, amount)]
            /\ \/ GoTo(c, "write")
               \/ "portone" \in Faults /\ GoTo(c, "error")
         \/ /\ ~returnable \/ "portone" \in Faults
            /\ GoTo(c, "error")
            /\ UNCHANGED portone
  /\ UNCHANGED <<users, orders, ledger, refunds>>

RefundRowOf(c) ==
  [call |-> c, order |-> calls[c].order, amount |-> RefundAmount(c),
   ratio |-> calls[c].ratio, late |-> calls[c].late]

\* Mutated form: the status of the other spelling, which is not in the enum.
MisspelledOrder(c) ==
  [orders[calls[c].order] EXCEPT !.status = "CANCELED"]

RefundedOrder(c) ==
  LET row == orders[calls[c].order] IN
  IF calls[c].op = "refundFull"
    THEN [row EXCEPT !.status = "REFUNDED", !.refunded = row.total]
    ELSE [row EXCEPT !.status = "PARTIAL_REFUNDED",
                     !.refunded = row.refunded + RefundAmount(c)]

\* Mutated form: rows that clash are skipped and the others committed.
RefundWriteSkippingClash(c) ==
  /\ At(c, {"refundFull", "refundPartial"}, "write")
  /\ LET o == calls[c].order
         rows == RevertRows(ledger, o, calls[c].ratio, calls[c].late)
     IN  /\ orders' = [orders EXCEPT ![o] = RefundedOrder(c)]
         /\ refunds' = refunds \cup {RefundRowOf(c)}
         /\ ledger' = ledger \cup (rows \ Clash(rows, ledger))
         /\ GoTo(c, "ok")
  /\ UNCHANGED <<users, portone>>

\* The transaction updates the order, inserts the Refund row and reverts.
RefundWrite(c) ==
  /\ At(c, {"refundFull", "refundPartial"}, "write")
  /\ LET o == calls[c].order
         rows == RevertRows(ledger, o, calls[c].ratio, calls[c].late)
         clash == Clash(rows, ledger)
     IN  \/ /\ clash = {}
            /\ orders' = [orders EXCEPT ![o] = RefundedOrder(c)]
            /\ refunds' = refunds \cup {RefundRowOf(c)}
            /\ ledger' = ledger \cup rows
            /\ GoTo(c, "ok")
         \/ /\ clash # {}
            /\ \E answer \in RevertAbortAnswers(rows, clash) : GoTo(c, answer)
            /\ UNCHANGED <<orders, refunds, ledger>>
  /\ UNCHANGED <<users, portone>>

-----------------------------------------------------------------------------
(* OrderService.confirmReceipt                                              *)

ReceiptRead(c, user, o) ==
  /\ LET r == Request("confirmReceipt", o, o, WholeBps, FALSE)
     IN  \/ /\ user = Buyer[o] /\ orders[o].status = "DELIVERED"
            /\ Begin(c, r, "write")
         \/ /\ user # Buyer[o] \/ orders[o].status # "DELIVERED"
            /\ Begin(c, r, "error")
  /\ UNCHANGED Rows

ReceiptWrite(c) ==
  /\ At(c, {"confirmReceipt"}, "write")
  /\ orders' = [orders EXCEPT ![calls[c].order].status = "CONFIRMED",
                              ![calls[c].order].receipt = "HELD"]
  /\ GoTo(c, "ok")
  /\ UNCHANGED <<users, portone, ledger, refunds>>

-----------------------------------------------------------------------------

Environment ==
  \/ \E o \in Orders : \/ \E total \in Totals : CreateOrder(o, total)
                       \/ \E sum \in Totals : Pay(o, sum)
                       \/ Fulfil(o)
                       \/ HoldExpires(o)
  \/ \E u \in Users : ChangeAccount(u)
  \/ Restart

Arrive(c) ==
  \E o \in Orders :
    \/ \E user \in Users, p \in Orders : ConfirmRead(c, user, o, p)
    \/ RefundFullRead(c, o)
    \/ \E ratio \in Ratios : RefundPartialRead(c, o, ratio)
    \/ \E user \in Users : ReceiptRead(c, user, o)

Proceed(c) ==
  \/ ConfirmCheck(c) \/ ConfirmWrite(c)
  \/ RefundCancel(c) \/ RefundWrite(c)
  \/ ReceiptWrite(c)
  \/ SerializationFailure(c)

Next == Environment \/ \E c \in Calls : Arrive(c) \/ Proceed(c)

Spec == Init /\ [][Next]_vars

\* A request being served goes on: Node's event loop and PortOne's time-out
\* leave no call hanging.  Nothing makes requests arrive or time pass.
FairSpec == Spec /\ \A c \in Calls : WF_vars(Proceed(c))

-----------------------------------------------------------------------------
(* The abstract specification: the rows of a slot added up.                 *)

\* Most slots are free: their total is nothing, and is not summed.
SlotTotal(o, a, type) ==
  LET rows == {r \in ledger : Slot(r) = <<o, a[1], a[2], type>>}
  IN  IF rows = {} THEN 0
      ELSE IF type = "EARN" THEN AmountOf(rows) ELSE -AmountOf(rows)

SlotTotals(type) ==
  [o \in Orders |-> [a \in Users \X Generations |-> SlotTotal(o, a, type)]]

Collected == {o \in Orders : /\ portone[o].status # "READY"
                             /\ portone[o].total = orders[o].total}

Book == INSTANCE CommissionBook
          WITH Accounts <- Users \X Generations, collected <- Collected,
               earned <- SlotTotals("EARN"), reverted <- SlotTotals("REVERT")

\* The ledger keeps the book's promise: money first, one credit per account,
\* one debit per account and never above the credit.
BookSpec == Book!Spec

-----------------------------------------------------------------------------
(* Correctness                                                              *)

\* A slot of the ledger (order, beneficiary, generation, type) is filled at
\* most once, however many confirms and refunds race.
SlotUnique == \A r, s \in ledger : Slot(r) = Slot(s) => r = s

\* Whatever refunds are made, what a beneficiary nets on an order in a
\* generation is never negative.
NetNonNegative ==
  \A o \in Orders, u \in Users, g \in Generations :
    AmountOf({r \in ledger : r.order = o /\ r.beneficiary = u /\ r.gen = g}) >= 0

\* The commissions of an order never exceed a quarter of its total: rounding
\* favours nobody, and not even two racing confirms that see different roles
\* pay a generation twice.
CommissionCap ==
  \A o \in Orders :
    AmountOf(EarnRowsOf(ledger, o)) * WholeBps <= orders[o].total * 2500

\* What an order's commissions come to lies between nothing and its cap, whatever
\* confirms and refunds race.
CommissionBounded == NetNonNegative /\ CommissionCap

\* Commissions are owed only on an order whose total PortOne has collected.
EarnImpliesCollected ==
  \A o \in Orders :
    EarnRowsOf(ledger, o) # {} => /\ portone[o].status # "READY"
                                 /\ portone[o].total = orders[o].total

\* An order is recorded as refunded only after PortOne returned all of it.
RefundedMeansReturned ==
  \A o \in Orders :
    orders[o].status = "REFUNDED" => /\ portone[o].status = "CANCELLED"
                                     /\ portone[o].cancelled = portone[o].total

\* The partial refunds on record never add up to more than PortOne returned.
PartialRefundsBacked ==
  \A o \in Orders :
    AmountOf({r \in refunds : r.order = o /\ r.ratio < WholeBps})
      <= portone[o].cancelled

\* Every REVERT row is the exact share of an EARN row in its slot that a refund
\* on record asked for, and that refund did not come late (T2).
RevertExplained ==
  \A v \in ledger : v.type = "REVERT" =>
    \E e \in EarnRowsOf(ledger, v.order), r \in refunds :
      /\ e.beneficiary = v.beneficiary /\ e.gen = v.gen
      /\ r.order = v.order /\ ~r.late
      /\ v.amount = -FloorBps(e.amount, r.ratio)

\* A fully refunded order, none of whose refunds was late, leaves nothing to
\* pay out: every EARN row is cancelled by the REVERT row of its slot.
FullRefundNetsZero ==
  \A o \in Orders :
    /\ orders[o].status = "REFUNDED"
    /\ \A r \in refunds : r.order = o => ~r.late
    => \A e \in EarnRowsOf(ledger, o) :
         \E v \in RevertRowsOf(ledger, o) :
           /\ v.beneficiary = e.beneficiary /\ v.gen = e.gen
           /\ v.amount = -e.amount

\* A request that began is answered, or lost in a restart.
EveryCallAnswered ==
  \A c \in Calls :
    calls[c].step \in {"check", "write"}
      ~> calls[c].step \in {"ok", "error", "lost"}

\* An order's commissions are distributed once: when some are on record, no
\* later confirm adds more.
DistributedOnce ==
  [][\A o \in Orders : EarnRowsOf(ledger, o) # {} =>
       EarnRowsOf(ledger', o) = EarnRowsOf(ledger, o)]_vars

\* Money that a refund call had PortOne return is on record once it ends.
RefundRecorded ==
  [][\A c \in Calls :
       /\ At(c, {"refundFull", "refundPartial"}, "write")
       /\ calls'[c].step \in {"ok", "error"}
       => \E r \in refunds' : r.call = c]_vars

=============================================================================
