------------------------- MODULE OrderPaymentProofs -------------------------
(***************************************************************************)
(* Proofs about OrderPayment, the Dashboard over its rows and the book it   *)
(* implements, for every set of orders, accounts, calls, totals and ratios. *)
(* The first part is about single rows; the second sums them, for which     *)
(* PortOne's numbers are tied to the order's; the third maps each step to   *)
(* one of CommissionBook or to none.                                        *)
(***************************************************************************)
EXTENDS Dashboard, MoneyProofs, TLAPS

(* The ancestors of an account are accounts or missing.                     *)
LEMMA AncestorsType ==
  ASSUME NEW u \in Users, NEW g \in Generations
  PROVE  Ancestors(u)[g] \in Users \cup {NoUser}
<1>1. \A x \in Users \cup {NoUser} : ReferrerOf(x) \in Users \cup {NoUser}
  BY ReferrerAssumption DEF ReferrerOf
<1>. QED  BY <1>1 DEF Ancestors, Generations

\* The rows distribute inserts are positive EARN rows of the order.
LEMMA DistributeRowsType ==
  ASSUME TypeOK, NEW o \in Orders
  PROVE  \A r \in DistributeRows(o, Buyer[o], orders[o].total) :
           /\ r \in LedgerRow
           /\ r.order = o /\ r.type = "EARN"
           /\ r.amount \in Nat
<1>. DEFINE total == orders[o].total
<1>1. Buyer[o] \in Users /\ total \in Nat
  BY OrderPaymentAssumption DEF TypeOK, OrderRow
<1>2. \A g \in Generations : RateBps[g] \in Nat
  BY DEF Generations, RateBps
<1>3. ASSUME NEW g \in EarningGenerations(Buyer[o], total)
      PROVE  EarnRow(o, Buyer[o], total, g)
               \in [order : {o}, beneficiary : Users, gen : Generations,
                    type : {"EARN"}, amount : Nat, status : LedgerStatuses]
  <2>1. g \in Generations /\ Ancestors(Buyer[o])[g] # NoUser
    BY <1>3 DEF EarningGenerations
  <2>2. Ancestors(Buyer[o])[g] \in Users
    BY <1>1, <2>1, AncestorsType
  <2>3. FloorBps(total, RateBps[g]) \in Nat
    BY <1>1, <1>2, <2>1, FloorBpsType
  <2>4. EarnStatus(users[Ancestors(Buyer[o])[g]]) \in LedgerStatuses
    BY DEF EarnStatus, LedgerStatuses
  <2>. QED  BY <2>1, <2>2, <2>3, <2>4 DEF EarnRow
<1>. QED  BY <1>3 DEF DistributeRows, LedgerRow, LedgerTypes

\* The rows revert inserts are rows of the ledger.
LEMMA RevertRowsType ==
  ASSUME TypeOK, NEW o \in Orders, NEW ratio \in 1..WholeBps, NEW late \in BOOLEAN
  PROVE  \A r \in RevertRows(ledger, o, ratio, late) :
           /\ r \in LedgerRow
           /\ r.order = o /\ r.type = "REVERT"
<1>1. ASSUME NEW e \in EarnRowsOf(ledger, o)
      PROVE  /\ RevertRow(e, ratio) \in LedgerRow
             /\ RevertRow(e, ratio).order = o
             /\ RevertRow(e, ratio).type = "REVERT"
  <2>1. e \in LedgerRow /\ e.order = o
    BY <1>1 DEF EarnRowsOf, TypeOK
  <2>2. e.amount \in Int /\ ratio \in Nat
    BY <2>1 DEF LedgerRow, WholeBps
  <2>3. FloorBps(e.amount, ratio) \in Int
    BY <2>2, FloorBpsInt
  <2>. QED  BY <2>1, <2>3 DEF RevertRow, LedgerRow, LedgerTypes, LedgerStatuses
<1>. QED  BY <1>1 DEF RevertRows

-----------------------------------------------------------------------------
(* Type correctness: no operation writes a value that its table does not    *)
(* allow, a status outside the enum or a negative amount of money.          *)

\* Reading a request in keeps the type of the calls.
LEMMA BeginType ==
  ASSUME TypeOK, NEW c \in Calls, NEW r \in Call, NEW step \in Steps,
         Begin(c, r, step)
  PROVE  calls' \in [Calls -> Call \cup {Idle}]
<1>1. [r EXCEPT !.step = step] \in Call  BY DEF Call
<1>. QED  BY <1>1 DEF TypeOK, Begin

\* Moving a call on keeps the type of the calls.
LEMMA GoToType ==
  ASSUME TypeOK, NEW c \in Calls, NEW ops \in SUBSET Operations, NEW at,
         At(c, ops, at), NEW step \in Steps, GoTo(c, step)
  PROVE  calls' \in [Calls -> Call \cup {Idle}]
<1>1. calls[c] \in Call
  BY DEF TypeOK, At, Operations, Idle
<1>2. [calls[c] EXCEPT !.step = step] \in Call
  BY <1>1 DEF Call
<1>. QED  BY <1>2 DEF TypeOK, GoTo

\* The empty tables have their types.
LEMMA TypeInit == Init => TypeOK
<1>. SUFFICES ASSUME Init PROVE TypeOK
  OBVIOUS
<1>1. AccountsTypeOK
  <2>1. AdultRow \in UserRow /\ MinorRow \in UserRow
    BY DEF AdultRow, MinorRow, UserRow, Roles, UserStatuses
  <2>. QED  BY <2>1 DEF Init, AccountsInit, AccountsTypeOK
<1>2. orders \in [Orders -> OrderRow]
  BY DEF Init, OrderRow, OrderStatuses, Receipts
<1>3. portone \in [Orders -> PaymentRecord]
  BY DEF Init, PaymentRecord, PaymentStatuses
<1>. QED  BY <1>1, <1>2, <1>3 DEF Init, TypeOK

\* So do the tables after a step of the world around the service.
LEMMA TypeEnvironment ==
  ASSUME TypeOK, Environment
  PROVE  TypeOK'
<1>. USE DEF TypeOK
<1>1. ASSUME NEW o \in Orders, NEW total \in Totals, CreateOrder(o, total)
      PROVE  TypeOK'
  BY <1>1, OrderPaymentAssumption DEF CreateOrder, OrderRow, OrderStatuses,
     Receipts, AccountsTypeOK
<1>2. ASSUME NEW o \in Orders, NEW sum \in Totals, Pay(o, sum)
      PROVE  TypeOK'
  <2>. DEFINE paid == [portone[o] EXCEPT !.status = "PAID", !.total = sum]
  <2>1. portone' = [portone EXCEPT ![o] = paid]
    BY <1>2 DEF Pay
  <2>2. paid \in PaymentRecord
    BY OrderPaymentAssumption DEF PaymentRecord, PaymentStatuses
  <2>. HIDE DEF paid
  <2>3. portone' \in [Orders -> PaymentRecord]
    BY <2>1, <2>2
  <2>. QED  BY <1>2, <2>3 DEF Pay, AccountsTypeOK
<1>3. ASSUME NEW o \in Orders, Fulfil(o)
      PROVE  TypeOK'
  BY <1>3 DEF Fulfil, OrderRow, OrderStatuses, AccountsTypeOK
<1>4. ASSUME NEW o \in Orders, HoldExpires(o)
      PROVE  TypeOK'
  BY <1>4 DEF HoldExpires, OrderRow, Receipts, AccountsTypeOK
<1>5. ASSUME NEW u \in Users, ChangeAccount(u)
      PROVE  TypeOK'
  BY <1>5 DEF ChangeAccount, FlagUser, SuspendUser, MarkStaff, ReleaseMinor,
     Withdraw, AccountsTypeOK, UserRow, UserStatuses, Roles
<1>6. CASE Restart
  <2>1. \A c \in Calls : calls[c].step \in {"check", "write"} =>
          [calls[c] EXCEPT !.step = "lost"] \in Call
    BY DEF Call, Idle, Steps
  <2>. QED  BY <1>6, <2>1 DEF Restart, Rows, AccountsTypeOK
<1>. QED  BY <1>1, <1>2, <1>3, <1>4, <1>5, <1>6 DEF Environment

\* So do the tables after a request is read in.
LEMMA TypeArrive ==
  ASSUME TypeOK, NEW c \in Calls, Arrive(c)
  PROVE  TypeOK'
<1>. SUFFICES calls' \in [Calls -> Call \cup {Idle}] /\ UNCHANGED Rows
  BY DEF TypeOK, AccountsTypeOK, Rows
<1>1. \A op \in Operations, o, p \in Orders, ratio \in 1..WholeBps,
        late \in BOOLEAN : Request(op, o, p, ratio, late) \in Call
  BY DEF Request, Call, Steps
<1>2. WholeBps \in 1..WholeBps /\ Ratios \subseteq 1..WholeBps
  BY OrderPaymentAssumption DEF WholeBps
<1>3. ASSUME NEW o \in Orders, NEW p \in Orders, NEW user \in Users,
             ConfirmRead(c, user, o, p)
      PROVE  calls' \in [Calls -> Call \cup {Idle}] /\ UNCHANGED Rows
  <2>1. Request("confirm", o, p, WholeBps, FALSE) \in Call
    BY <1>1, <1>2 DEF Operations
  <2>. QED  BY <1>3, <2>1, BeginType DEF ConfirmRead, Steps
<1>4. ASSUME NEW o \in Orders, NEW op \in Operations, NEW ratio \in 1..WholeBps,
             RefundRead(c, op, o, ratio)
      PROVE  calls' \in [Calls -> Call \cup {Idle}] /\ UNCHANGED Rows
  <2>. DEFINE late == orders[o].receipt = "EXPIRED"
              r == Request(op, o, o, ratio, late)
  <2>1. late \in BOOLEAN  OBVIOUS
  <2>. HIDE DEF late
  <2>2. r \in Call
    BY <1>1, <2>1
  <2>3. \/ Begin(c, r, "check") \/ Begin(c, r, "error")
    BY <1>4 DEF RefundRead, late
  <2>. QED  BY <1>4, <2>2, <2>3, BeginType DEF RefundRead, Steps
<1>5. ASSUME NEW o \in Orders, NEW user \in Users, ReceiptRead(c, user, o)
      PROVE  calls' \in [Calls -> Call \cup {Idle}] /\ UNCHANGED Rows
  <2>1. Request("confirmReceipt", o, o, WholeBps, FALSE) \in Call
    BY <1>1, <1>2 DEF Operations
  <2>. QED  BY <1>5, <2>1, BeginType DEF ReceiptRead, Steps
<1>. QED
  BY <1>2, <1>3, <1>4, <1>5 DEF Arrive, RefundFullRead, RefundPartialRead, Operations

\* So do the tables after a step of a call in flight.
LEMMA TypeProceed ==
  ASSUME TypeOK, NEW c \in Calls, Proceed(c)
  PROVE  TypeOK'
<1>. DEFINE o == calls[c].order
<1>1. calls[c] \in Call
  <2>1. calls[c].op # "none"
    BY DEF Proceed, ConfirmCheck, ConfirmWrite, RefundCancel, RefundWrite,
       ReceiptWrite, SerializationFailure, At
  <2>. QED  BY <2>1 DEF TypeOK, Idle
<1>2. /\ o \in Orders /\ calls[c].payment \in Orders
      /\ calls[c].ratio \in 1..WholeBps /\ calls[c].ratio \in Nat
      /\ calls[c].late \in BOOLEAN
      /\ orders[o] \in OrderRow /\ orders[o].total \in Nat
  <2>1. o \in Orders /\ calls[c].payment \in Orders /\ calls[c].late \in BOOLEAN
    BY <1>1 DEF Call
  <2>2. calls[c].ratio \in 1..WholeBps
    BY <1>1 DEF Call
  <2>3. calls[c].ratio \in Nat
    BY <2>2, RatioIsNat
  <2>4. orders[o] \in OrderRow
    BY <2>1 DEF TypeOK
  <2>5. orders[o].total \in Nat
    BY <2>4 DEF OrderRow
  <2>. QED  BY <2>1, <2>2, <2>3, <2>4, <2>5
<1>3. RefundAmount(c) \in Nat
  BY <1>2, FloorBpsType DEF RefundAmount
<1>4. ASSUME NEW at, NEW ops \in SUBSET Operations, At(c, ops, at),
             NEW step \in Steps, GoTo(c, step)
      PROVE  calls' \in [Calls -> Call \cup {Idle}]
  BY <1>4, GoToType
<1>5. CASE ConfirmCheck(c)
  <2>1. calls' \in [Calls -> Call \cup {Idle}]
    BY <1>4, <1>5 DEF ConfirmCheck, Steps, Operations
  <2>. QED  BY <1>5, <2>1 DEF ConfirmCheck, Rows, TypeOK, AccountsTypeOK
<1>6. CASE ConfirmWrite(c)
  <2>. DEFINE rows == DistributeRows(o, Buyer[o], orders[o].total)
  <2>1. rows \subseteq LedgerRow
    BY <1>2, DistributeRowsType
  <2>2. calls' \in [Calls -> Call \cup {Idle}]
    BY <1>4, <1>6 DEF ConfirmWrite, Steps, Operations, DistributeAbortAnswer
  <2>3. ledger' \subseteq LedgerRow
    BY <1>6, <2>1 DEF ConfirmWrite, TypeOK
  <2>4. orders' \in [Orders -> OrderRow]
    BY <1>2, <1>6 DEF ConfirmWrite, TypeOK, OrderRow, OrderStatuses
  <2>. QED  BY <1>6, <2>2, <2>3, <2>4 DEF ConfirmWrite, TypeOK, AccountsTypeOK
<1>7. CASE RefundCancel(c)
  <2>1. calls' \in [Calls -> Call \cup {Idle}]
    BY <1>4, <1>7 DEF RefundCancel, Steps, Operations
  <2>2. portone[o] \in PaymentRecord
    BY <1>2 DEF TypeOK
  <2>3. CancelAmount(c) \in Int
    BY <1>3, <2>2 DEF CancelAmount, Remaining, PaymentRecord
  <2>4. CancelAmount(c) > 0 =>
          CancelledPayment(portone[o], CancelAmount(c)) \in PaymentRecord
    BY <2>2, <2>3 DEF CancelledPayment, PaymentRecord, PaymentStatuses
  <2>5. portone' \in [Orders -> PaymentRecord]
    BY <1>2, <1>7, <2>4 DEF RefundCancel, TypeOK
  <2>. QED  BY <1>7, <2>1, <2>5 DEF RefundCancel, TypeOK, AccountsTypeOK
<1>8. CASE RefundWrite(c)
  <2>. DEFINE rows == RevertRows(ledger, o, calls[c].ratio, calls[c].late)
  <2>1. rows \subseteq LedgerRow
    BY <1>2, RevertRowsType
  <2>2. calls' \in [Calls -> Call \cup {Idle}]
    BY <1>4, <1>8 DEF RefundWrite, Steps, Operations, RevertAbortAnswers
  <2>3. ledger' \subseteq LedgerRow
    BY <1>8, <2>1 DEF RefundWrite, TypeOK
  <2>4. RefundedOrder(c) \in OrderRow
    <3>1. orders[o].refunded + RefundAmount(c) \in Nat
      BY <1>2, <1>3 DEF OrderRow
    <3>2. CASE calls[c].op = "refundFull"
      BY <1>2, <3>2 DEF RefundedOrder, OrderRow, OrderStatuses
    <3>3. CASE calls[c].op # "refundFull"
      BY <1>2, <3>1, <3>3 DEF RefundedOrder, OrderRow, OrderStatuses
    <3>. QED  BY <3>2, <3>3
  <2>5. orders' \in [Orders -> OrderRow]
    BY <1>8, <2>4 DEF RefundWrite, TypeOK
  <2>6. RefundRowOf(c) \in RefundRow
    BY <1>2, <1>3 DEF RefundRowOf, RefundRow
  <2>7. refunds' \subseteq RefundRow
    BY <1>8, <2>6 DEF RefundWrite, TypeOK
  <2>. QED
    BY <1>8, <2>2, <2>3, <2>5, <2>7 DEF RefundWrite, TypeOK, AccountsTypeOK
<1>9. CASE ReceiptWrite(c)
  <2>1. calls' \in [Calls -> Call \cup {Idle}]
    BY <1>4, <1>9 DEF ReceiptWrite, Steps, Operations
  <2>2. orders' \in [Orders -> OrderRow]
    BY <1>2, <1>9 DEF ReceiptWrite, TypeOK, OrderRow, OrderStatuses, Receipts
  <2>. QED  BY <1>9, <2>1, <2>2 DEF ReceiptWrite, TypeOK, AccountsTypeOK
<1>10. CASE SerializationFailure(c)
  <2>1. calls' \in [Calls -> Call \cup {Idle}]
    BY <1>4, <1>10 DEF SerializationFailure, Steps, Operations
  <2>. QED  BY <1>10, <2>1 DEF SerializationFailure, Rows, TypeOK, AccountsTypeOK
<1>. QED
  BY <1>5, <1>6, <1>7, <1>8, <1>9, <1>10 DEF Proceed

\* Every step keeps the types.
LEMMA TypeStep == TypeOK /\ [Next]_vars => TypeOK'
<1>. SUFFICES ASSUME TypeOK, [Next]_vars PROVE TypeOK'
  OBVIOUS
<1>1. CASE UNCHANGED vars
  BY <1>1 DEF vars, TypeOK, AccountsTypeOK
<1>. QED
  BY <1>1, TypeEnvironment, TypeArrive, TypeProceed DEF Next

(* Every table keeps its type, for any orders, accounts, calls and faults.  *)
THEOREM TypeCorrect == Spec => []TypeOK
BY TypeInit, TypeStep, PTL DEF Spec

-----------------------------------------------------------------------------
(* The inductive invariant.  The properties of the ledger hold only because *)
(* a call in flight still knows, when it writes, what it checked before: an *)
(* order does not change its total, PortOne does not take a payment back,   *)
(* and what PortOne has returned in full stays returned.                    *)

\* EARN amounts are positive, REVERT amounts negative.
LedgerSigned ==
  \A r \in ledger : IF r.type = "EARN" THEN r.amount > 0 ELSE r.amount < 0

CollectedInFull(o) ==
  /\ portone[o].status # "READY"
  /\ portone[o].total = orders[o].total

Returned(o) ==
  /\ portone[o].status = "CANCELLED"
  /\ portone[o].cancelled = portone[o].total

\* What a call in flight may rely on, whatever has happened since it read.
CallSound(c) ==
  LET r == calls[c] IN
  r # Idle =>
    /\ r.step \in {"check", "write"} => orders[r.order].status # "ABSENT"
    /\ r.op = "refundFull" => r.ratio = WholeBps
    /\ r.op = "confirm" /\ r.step \in {"check", "write"} => r.payment = r.order
    /\ r.op = "confirm" /\ r.step = "write" => CollectedInFull(r.order)
    /\ r.op = "refundFull" /\ r.step = "write" => Returned(r.order)

EarnedOrderExists ==
  \A o \in Orders : EarnRowsOf(ledger, o) # {} => orders[o].status # "ABSENT"

IInv ==
  /\ TypeOK
  /\ LedgerSigned
  /\ SlotUnique
  /\ RevertExplained
  /\ EarnedOrderExists
  /\ EarnImpliesCollected
  /\ RefundedMeansReturned
  /\ FullRefundNetsZero
  /\ \A c \in Calls : CallSound(c)

\* The inductive invariant holds of the empty tables.
LEMMA InitInvariant == Init => IInv
<1>. SUFFICES ASSUME Init PROVE IInv
  OBVIOUS
<1>1. ledger = {} /\ \A o \in Orders : orders[o].status = "ABSENT"
  BY DEF Init
<1>2. \A c \in Calls : CallSound(c)
  BY DEF Init, CallSound
<1>. QED
  BY <1>1, <1>2, TypeInit
     DEF IInv, LedgerSigned, SlotUnique, RevertExplained, EarnedOrderExists,
         EarnImpliesCollected, EarnRowsOf, RefundedMeansReturned,
         FullRefundNetsZero

-----------------------------------------------------------------------------
(* How a step changes the ledger: not at all, or by the rows of one confirm *)
(* or of one refund, none of which finds its slot taken.                    *)

ConfirmRows(c) ==
  DistributeRows(calls[c].order, Buyer[calls[c].order],
                 orders[calls[c].order].total)

RefundRows(c) ==
  RevertRows(ledger, calls[c].order, calls[c].ratio, calls[c].late)

ConfirmCommits(c) ==
  /\ At(c, {"confirm"}, "write")
  /\ Clash(ConfirmRows(c), ledger) = {}
  /\ orders' = [orders EXCEPT ![calls[c].order].status = "PAID"]
  /\ ledger' = ledger \cup ConfirmRows(c)
  /\ GoTo(c, "ok")
  /\ UNCHANGED <<users, portone, refunds>>

RefundCommits(c) ==
  /\ At(c, {"refundFull", "refundPartial"}, "write")
  /\ Clash(RefundRows(c), ledger) = {}
  /\ orders' = [orders EXCEPT ![calls[c].order] = RefundedOrder(c)]
  /\ refunds' = refunds \cup {RefundRowOf(c)}
  /\ ledger' = ledger \cup RefundRows(c)
  /\ GoTo(c, "ok")
  /\ UNCHANGED <<users, portone>>

\* A step that leaves the ledger alone brings no order to REFUNDED.
LedgerKept ==
  /\ UNCHANGED <<ledger, refunds>>
  /\ \A o \in Orders :
       orders'[o].status = "REFUNDED" => orders[o].status = "REFUNDED"

\* A call at a step of an operation is a request with all its fields.
LEMMA CallInFlight ==
  ASSUME TypeOK, NEW c \in Calls, NEW ops \in SUBSET Operations, NEW at,
         At(c, ops, at)
  PROVE  /\ calls[c] \in Call /\ calls[c] # Idle
         /\ calls[c].order \in Orders
         /\ calls[c].ratio \in 1..WholeBps
         /\ calls[c].late \in BOOLEAN
<1>1. calls[c] \in Call
  BY DEF TypeOK, At, Operations, Idle
<1>2. calls[c] # Idle
  BY DEF At, Operations, Idle
<1>. QED  BY <1>1, <1>2 DEF Call

\* The ledger changes only when a confirm or a refund commits.
LEMMA LedgerStep ==
  ASSUME TypeOK, [Next]_vars
  PROVE  \/ LedgerKept
         \/ \E c \in Calls : ConfirmCommits(c) \/ RefundCommits(c)
<1>1. ASSUME UNCHANGED <<orders, ledger, refunds>>
      PROVE  LedgerKept
  BY <1>1 DEF LedgerKept
<1>2. CASE UNCHANGED vars
  BY <1>1, <1>2 DEF vars
<1>3. CASE Environment
  <2>1. ASSUME NEW o \in Orders, NEW total \in Totals, CreateOrder(o, total)
        PROVE  LedgerKept
    BY <2>1 DEF CreateOrder, LedgerKept, TypeOK
  <2>2. ASSUME NEW o \in Orders, Fulfil(o)
        PROVE  LedgerKept
    BY <2>2 DEF Fulfil, LedgerKept, TypeOK, OrderRow
  <2>3. ASSUME NEW o \in Orders, HoldExpires(o)
        PROVE  LedgerKept
    BY <2>3 DEF HoldExpires, LedgerKept, TypeOK, OrderRow
  <2>. QED
    BY <1>1, <1>3, <2>1, <2>2, <2>3 DEF Environment, Pay, ChangeAccount, Restart, Rows
<1>4. ASSUME NEW c \in Calls, Arrive(c)
      PROVE  LedgerKept
  BY <1>1, <1>4 DEF Arrive, ConfirmRead, RefundFullRead, RefundPartialRead,
     RefundRead, ReceiptRead, Rows
<1>5. ASSUME NEW c \in Calls, Proceed(c)
      PROVE  LedgerKept \/ ConfirmCommits(c) \/ RefundCommits(c)
  <2>1. CASE ConfirmCheck(c) \/ RefundCancel(c) \/ SerializationFailure(c)
    BY <1>1, <2>1 DEF ConfirmCheck, RefundCancel, SerializationFailure, Rows
  <2>2. CASE ConfirmWrite(c)
    BY <1>1, <2>2 DEF ConfirmWrite, ConfirmCommits, ConfirmRows
  <2>3. CASE RefundWrite(c)
    BY <1>1, <2>3 DEF RefundWrite, RefundCommits, RefundRows
  <2>4. CASE ReceiptWrite(c)
    <3>1. calls[c].order \in Orders
      BY <2>4, CallInFlight DEF ReceiptWrite, Operations
    <3>. QED  BY <2>4, <3>1 DEF ReceiptWrite, LedgerKept, TypeOK, OrderRow
  <2>. QED  BY <1>5, <2>1, <2>2, <2>3, <2>4 DEF Proceed
<1>. QED  BY <1>2, <1>3, <1>4, <1>5 DEF Next

-----------------------------------------------------------------------------
(* What a commit adds.                                                      *)

\* What a commit of confirm knows of the rows it adds.
LEMMA ConfirmRowsFacts ==
  ASSUME TypeOK, NEW c \in Calls, At(c, {"confirm"}, "write")
  PROVE  /\ \A r \in ConfirmRows(c) :
              /\ r.order = calls[c].order /\ r.type = "EARN" /\ r.amount > 0
         /\ \A r, s \in ConfirmRows(c) : Slot(r) = Slot(s) => r = s
<1>. DEFINE o == calls[c].order
<1>1. o \in Orders
  BY CallInFlight DEF Operations
<1>2. \A r \in ConfirmRows(c) :
        \E g \in EarningGenerations(Buyer[o], orders[o].total) :
          r = EarnRow(o, Buyer[o], orders[o].total, g)
  BY DEF ConfirmRows, DistributeRows
<1>3. \A g \in EarningGenerations(Buyer[o], orders[o].total) :
        LET r == EarnRow(o, Buyer[o], orders[o].total, g)
        IN  /\ r.order = o /\ r.type = "EARN" /\ r.gen = g /\ r.amount > 0
  BY DEF EarnRow, EarningGenerations
<1>4. \A r, s \in ConfirmRows(c) : Slot(r) = Slot(s) => r = s
  BY <1>2, <1>3 DEF Slot
<1>. QED  BY <1>2, <1>3, <1>4

\* What a commit of a refund knows of the rows it adds.
LEMMA RefundRowsFacts ==
  ASSUME TypeOK, SlotUnique, NEW c \in Calls,
         At(c, {"refundFull", "refundPartial"}, "write")
  PROVE  /\ \A v \in RefundRows(c) :
              /\ v.order = calls[c].order /\ v.type = "REVERT" /\ v.amount < 0
              /\ ~calls[c].late
              /\ \E e \in EarnRowsOf(ledger, calls[c].order) :
                    v = RevertRow(e, calls[c].ratio)
         /\ \A r, s \in RefundRows(c) : Slot(r) = Slot(s) => r = s
<1>. DEFINE o == calls[c].order
            ratio == calls[c].ratio
<1>1. o \in Orders /\ ratio \in 1..WholeBps /\ ratio \in Nat
  BY CallInFlight, RatioIsNat DEF Operations
<1>2. \A v \in RefundRows(c) :
        /\ ~calls[c].late
        /\ \E e \in EarnRowsOf(ledger, o) :
             FloorBps(e.amount, ratio) > 0 /\ v = RevertRow(e, ratio)
  BY DEF RefundRows, RevertRows
<1>3. ASSUME NEW e \in EarnRowsOf(ledger, o), FloorBps(e.amount, ratio) > 0
      PROVE  LET v == RevertRow(e, ratio)
             IN  v.order = o /\ v.type = "REVERT" /\ v.amount < 0
  <2>1. e.order = o /\ e.amount \in Int
    BY DEF EarnRowsOf, TypeOK, LedgerRow
  <2>2. FloorBps(e.amount, ratio) \in Int
    BY <1>1, <2>1, FloorBpsInt
  <2>. QED  BY <1>3, <2>1, <2>2 DEF RevertRow
<1>4. ASSUME NEW e \in EarnRowsOf(ledger, o), NEW f \in EarnRowsOf(ledger, o),
             Slot(RevertRow(e, ratio)) = Slot(RevertRow(f, ratio))
      PROVE  e = f
  <2>1. e \in ledger /\ f \in ledger /\ e.type = f.type
    BY DEF EarnRowsOf
  <2>2. Slot(e) = Slot(f)
    BY <1>4, <2>1 DEF Slot, RevertRow
  <2>. QED  BY <2>1, <2>2 DEF SlotUnique
<1>. QED  BY <1>2, <1>3, <1>4

-----------------------------------------------------------------------------
(* The parts of the invariant that speak of the ledger alone.               *)

\* A commit adds no row to a slot that is taken.
LEMMA SlotUniqueStep ==
  ASSUME TypeOK, SlotUnique, [Next]_vars
  PROVE  SlotUnique'
<1>1. ASSUME NEW rows, Clash(rows, ledger) = {}, ledger' = ledger \cup rows,
             \A r, s \in rows : Slot(r) = Slot(s) => r = s
      PROVE  SlotUnique'
  BY <1>1 DEF SlotUnique, Clash
<1>2. CASE LedgerKept
  BY <1>2 DEF LedgerKept, SlotUnique
<1>3. ASSUME NEW c \in Calls, ConfirmCommits(c)
      PROVE  SlotUnique'
  BY <1>1, <1>3, ConfirmRowsFacts DEF ConfirmCommits
<1>4. ASSUME NEW c \in Calls, RefundCommits(c)
      PROVE  SlotUnique'
  BY <1>1, <1>4, RefundRowsFacts DEF RefundCommits
<1>. QED  BY <1>2, <1>3, <1>4, LedgerStep

\* A commit adds credits that are positive and debits that are not.
LEMMA LedgerSignedStep ==
  ASSUME TypeOK, SlotUnique, LedgerSigned, [Next]_vars
  PROVE  LedgerSigned'
<1>1. CASE LedgerKept
  BY <1>1 DEF LedgerKept, LedgerSigned
<1>2. ASSUME NEW c \in Calls, ConfirmCommits(c)
      PROVE  LedgerSigned'
  BY <1>2, ConfirmRowsFacts DEF ConfirmCommits, LedgerSigned
<1>3. ASSUME NEW c \in Calls, RefundCommits(c)
      PROVE  LedgerSigned'
  BY <1>3, RefundRowsFacts DEF RefundCommits, LedgerSigned
<1>. QED  BY <1>1, <1>2, <1>3, LedgerStep

\* A REVERT row and the refund that explains it commit together.
LEMMA RevertExplainedStep ==
  ASSUME TypeOK, SlotUnique, RevertExplained, [Next]_vars
  PROVE  RevertExplained'
<1>. DEFINE Explains(v, e, r) ==
       /\ e.beneficiary = v.beneficiary /\ e.gen = v.gen
       /\ r.order = v.order /\ ~r.late
       /\ v.amount = -FloorBps(e.amount, r.ratio)
<1>1. CASE LedgerKept
  BY <1>1 DEF LedgerKept, RevertExplained, EarnRowsOf
<1>2. ASSUME NEW c \in Calls, ConfirmCommits(c)
      PROVE  RevertExplained'
  <2>1. \A v \in ledger' : v.type = "REVERT" => v \in ledger
    BY <1>2, ConfirmRowsFacts DEF ConfirmCommits
  <2>2. ledger \subseteq ledger' /\ refunds' = refunds
    BY <1>2 DEF ConfirmCommits
  <2>. QED  BY <2>1, <2>2 DEF RevertExplained, EarnRowsOf
<1>3. ASSUME NEW c \in Calls, RefundCommits(c)
      PROVE  RevertExplained'
  <2>1. ledger \subseteq ledger' /\ refunds \subseteq refunds'
        /\ RefundRowOf(c) \in refunds'
    BY <1>3 DEF RefundCommits
  <2>2. ASSUME NEW v \in RefundRows(c)
        PROVE  \E e \in EarnRowsOf(ledger, v.order) : Explains(v, e, RefundRowOf(c))
    <3>1. PICK e \in EarnRowsOf(ledger, calls[c].order) :
            v = RevertRow(e, calls[c].ratio)
      BY <1>3, RefundRowsFacts DEF RefundCommits
    <3>2. v.order = calls[c].order /\ ~calls[c].late
      BY <1>3, RefundRowsFacts DEF RefundCommits
    <3>. QED  BY <3>1, <3>2 DEF RevertRow, RefundRowOf
  <2>3. ASSUME NEW v \in ledger, v.type = "REVERT"
        PROVE  \E e \in EarnRowsOf(ledger, v.order), r \in refunds : Explains(v, e, r)
    BY <2>3 DEF RevertExplained
  <2>4. \A o : EarnRowsOf(ledger, o) \subseteq EarnRowsOf(ledger, o)'
    BY <2>1 DEF EarnRowsOf
  <2>5. \A v \in ledger' : v \in ledger \/ v \in RefundRows(c)
    BY <1>3 DEF RefundCommits
  <2>. QED  BY <2>1, <2>2, <2>3, <2>4, <2>5 DEF RevertExplained
<1>. QED  BY <1>1, <1>2, <1>3, LedgerStep

-----------------------------------------------------------------------------
(* What no step takes back: the total of an order, the sum PortOne          *)
(* collected, and a payment returned in full.                               *)

Lasting(o) ==
  /\ orders[o].status # "ABSENT" => /\ orders'[o].status # "ABSENT"
                                    /\ orders'[o].total = orders[o].total
  /\ portone[o].status # "READY" => /\ portone'[o].status # "READY"
                                    /\ portone'[o].total = portone[o].total
  /\ portone[o].status = "CANCELLED" => portone'[o] = portone[o]

\* What the order row of a refund keeps and what it sets.
LEMMA RefundedOrderFacts ==
  ASSUME TypeOK, NEW c \in Calls, calls[c].order \in Orders
  PROVE  /\ RefundedOrder(c).total = orders[calls[c].order].total
         /\ RefundedOrder(c).status = IF calls[c].op = "refundFull"
                                       THEN "REFUNDED" ELSE "PARTIAL_REFUNDED"
BY DEF RefundedOrder, TypeOK, OrderRow

\* No step undoes a payment, a full cancellation or an order.
LEMMA LastingStep ==
  ASSUME TypeOK, [Next]_vars, NEW o \in Orders
  PROVE  Lasting(o)
<1>1. orders[o] \in OrderRow /\ portone[o] \in PaymentRecord
  BY DEF TypeOK
<1>2. ASSUME UNCHANGED <<orders, portone>>
      PROVE  Lasting(o)
  BY <1>2 DEF Lasting
<1>3. CASE UNCHANGED vars
  BY <1>2, <1>3 DEF vars
<1>4. CASE Environment
  <2>1. ASSUME NEW p \in Orders, NEW total \in Totals, CreateOrder(p, total)
        PROVE  Lasting(o)
    BY <2>1 DEF CreateOrder, Lasting, TypeOK
  <2>2. ASSUME NEW p \in Orders, NEW sum \in Totals, Pay(p, sum)
        PROVE  Lasting(o)
    BY <2>2 DEF Pay, Lasting, TypeOK, PaymentRecord
  <2>3. ASSUME NEW p \in Orders, Fulfil(p)
        PROVE  Lasting(o)
    BY <2>3 DEF Fulfil, Lasting, TypeOK, OrderRow
  <2>4. ASSUME NEW p \in Orders, HoldExpires(p)
        PROVE  Lasting(o)
    BY <2>4 DEF HoldExpires, Lasting, TypeOK, OrderRow
  <2>. QED
    BY <1>2, <1>4, <2>1, <2>2, <2>3, <2>4
       DEF Environment, ChangeAccount, Restart, Rows
<1>5. ASSUME NEW c \in Calls, Arrive(c)
      PROVE  Lasting(o)
  BY <1>2, <1>5 DEF Arrive, ConfirmRead, RefundFullRead, RefundPartialRead,
     RefundRead, ReceiptRead, Rows
<1>6. ASSUME NEW c \in Calls, Proceed(c)
      PROVE  Lasting(o)
  <2>1. CASE ConfirmCheck(c) \/ SerializationFailure(c)
    BY <1>2, <2>1 DEF ConfirmCheck, SerializationFailure, Rows
  <2>2. CASE ConfirmWrite(c)
    BY <1>1, <2>2 DEF ConfirmWrite, Lasting, TypeOK, OrderRow
  <2>3. CASE RefundCancel(c)
    <3>1. CASE portone' = portone
      BY <1>2, <2>3, <3>1 DEF RefundCancel
    <3>2. CASE portone' # portone
      <4>1. /\ portone[calls[c].order].status \in {"PAID", "PARTIAL_CANCELLED"}
            /\ portone' = [portone EXCEPT ![calls[c].order] =
                             CancelledPayment(portone[calls[c].order], CancelAmount(c))]
            /\ UNCHANGED orders
        BY <2>3, <3>2 DEF RefundCancel
      <4>. QED  BY <1>1, <4>1 DEF CancelledPayment, Lasting, TypeOK
    <3>. QED  BY <3>1, <3>2
  <2>4. CASE RefundWrite(c)
    <3>1. calls[c].order \in Orders
      BY <2>4, CallInFlight DEF RefundWrite, Operations
    <3>2. /\ RefundedOrder(c).total = orders[calls[c].order].total
          /\ RefundedOrder(c).status # "ABSENT"
      BY <3>1, RefundedOrderFacts
    <3>. QED  BY <2>4, <3>1, <3>2 DEF RefundWrite, Lasting, TypeOK
  <2>5. CASE ReceiptWrite(c)
    BY <1>1, <2>5 DEF ReceiptWrite, Lasting, TypeOK, OrderRow
  <2>. QED  BY <1>6, <2>1, <2>2, <2>3, <2>4, <2>5 DEF Proceed
<1>. QED  BY <1>3, <1>4, <1>5, <1>6 DEF Next

\* The same for one order, as the steps below cite it.
LEMMA LastingFacts ==
  ASSUME NEW o \in Orders, Lasting(o)
  PROVE  /\ orders[o].status # "ABSENT" /\ CollectedInFull(o) => CollectedInFull(o)'
         /\ Returned(o) => Returned(o)'
BY DEF Lasting, CollectedInFull, Returned

-----------------------------------------------------------------------------
(* What a call in flight relies on stays true.                              *)

\* What a call in flight relies on outlives a step that leaves it alone.
LEMMA CallSoundKept ==
  ASSUME TypeOK, [Next]_vars, NEW d \in Calls, CallSound(d), calls'[d] = calls[d]
  PROVE  CallSound(d)'
<1>1. CASE calls[d] = Idle
  BY <1>1 DEF CallSound
<1>2. CASE calls[d] # Idle
  <2>1. PICK o \in Orders : calls[d].order = o
    BY <1>2 DEF TypeOK, Call
  <2>2. /\ orders[o].status # "ABSENT" => orders'[o].status # "ABSENT"
        /\ orders[o].status # "ABSENT" /\ CollectedInFull(o) => CollectedInFull(o)'
        /\ Returned(o) => Returned(o)'
    BY LastingStep, LastingFacts DEF Lasting
  <2>. QED  BY <1>2, <2>1, <2>2 DEF CallSound
<1>. QED  BY <1>1, <1>2

\* An answered or lost call relies on nothing but its ratio.
LEMMA CallEnded ==
  ASSUME NEW d \in Calls, calls'[d] # Idle,
         calls'[d].step \notin {"check", "write"},
         calls'[d].op = "refundFull" => calls'[d].ratio = WholeBps
  PROVE  CallSound(d)'
BY DEF CallSound

\* Every step keeps what each call relies on.
LEMMA CallSoundStep ==
  ASSUME TypeOK, [Next]_vars, \A d \in Calls : CallSound(d)
  PROVE  \A d \in Calls : CallSound(d)'
<1>. SUFFICES ASSUME NEW d \in Calls
              PROVE  CallSound(d)'
  OBVIOUS
<1>. USE CallSoundKept, CallEnded
<1>1. CASE calls'[d] = calls[d]
  BY <1>1
<1>2. CASE Restart
  <2>1. CASE calls'[d] # calls[d]
    <3>1. /\ calls'[d] = [calls[d] EXCEPT !.step = "lost"]
          /\ calls[d].step \in {"check", "write"}
      BY <1>2, <2>1 DEF Restart
    <3>2. calls[d] \in Call /\ calls[d] # Idle
      BY <3>1 DEF TypeOK, Idle
    <3>3. /\ calls'[d].step = "lost" /\ calls'[d] # Idle
          /\ calls'[d].op = calls[d].op /\ calls'[d].ratio = calls[d].ratio
      BY <3>1, <3>2 DEF Call, Idle
    <3>. QED  BY <3>2, <3>3 DEF CallSound
  <2>. QED  BY <1>1, <2>1
<1>3. ASSUME NEW c \in Calls, Arrive(c), calls'[d] # calls[d]
      PROVE  CallSound(d)'
  <2>1. ASSUME NEW r \in Call, NEW step \in Steps, Begin(c, r, step)
        PROVE  d = c /\ calls'[d] = [r EXCEPT !.step = step]
    BY <1>3, <2>1 DEF Begin, TypeOK
  <2>2. ASSUME NEW op \in Operations, NEW o \in Orders, NEW p \in Orders,
               NEW ratio \in 1..WholeBps, NEW late \in BOOLEAN, NEW step \in Steps,
               Begin(c, Request(op, o, p, ratio, late), step),
               UNCHANGED <<orders, portone>>,
               op = "refundFull" => ratio = WholeBps,
               step = "check" => /\ orders[o].status # "ABSENT"
                                 /\ op = "confirm" => p = o,
               step = "write" => op = "confirmReceipt" /\ orders[o].status # "ABSENT"
        PROVE  CallSound(d)'
    <3>1. Request(op, o, p, ratio, late) \in Call
      BY DEF Request, Call, Steps
    <3>2. /\ calls'[d].op = op /\ calls'[d].order = o /\ calls'[d].payment = p
          /\ calls'[d].ratio = ratio /\ calls'[d].step = step
      <4>1. calls'[d] = [Request(op, o, p, ratio, late) EXCEPT !.step = step]
        BY <2>1, <2>2, <3>1
      <4>. QED  BY <4>1 DEF Request
    <3>. QED  BY <2>2, <3>2 DEF CallSound
  <2>3. ASSUME NEW o \in Orders, NEW p \in Orders, NEW user \in Users,
               ConfirmRead(c, user, o, p)
        PROVE  CallSound(d)'
    <3>1. WholeBps \in 1..WholeBps /\ FALSE \in BOOLEAN /\ "confirm" \in Operations
      BY DEF WholeBps, Operations
    <3>2. PICK step \in {"check", "ok", "error"} :
            /\ Begin(c, Request("confirm", o, p, WholeBps, FALSE), step)
            /\ step = "check" => orders[o].status # "ABSENT" /\ p = o
      BY <2>3 DEF ConfirmRead
    <3>3. UNCHANGED <<orders, portone>>
      BY <2>3 DEF ConfirmRead, Rows
    <3>. QED  BY <2>2, <3>1, <3>2, <3>3 DEF Steps
  <2>4. ASSUME NEW o \in Orders, NEW op \in {"refundFull", "refundPartial"},
               NEW ratio \in 1..WholeBps, op = "refundFull" => ratio = WholeBps,
               RefundRead(c, op, o, ratio)
        PROVE  CallSound(d)'
    <3>1. PICK late \in BOOLEAN : late = (orders[o].receipt = "EXPIRED")
      OBVIOUS
    <3>2. PICK step \in {"check", "error"} :
            /\ Begin(c, Request(op, o, o, ratio, late), step)
            /\ step = "check" => orders[o].status # "ABSENT"
      BY <2>4, <3>1 DEF RefundRead
    <3>3. UNCHANGED <<orders, portone>>
      BY <2>4 DEF RefundRead, Rows
    <3>. QED  BY <2>2, <2>4, <3>2, <3>3 DEF Steps, Operations
  <2>5. ASSUME NEW o \in Orders, NEW user \in Users, ReceiptRead(c, user, o)
        PROVE  CallSound(d)'
    <3>1. WholeBps \in 1..WholeBps /\ "confirmReceipt" \in Operations
      BY DEF WholeBps, Operations
    <3>2. PICK step \in {"write", "error"} :
            /\ Begin(c, Request("confirmReceipt", o, o, WholeBps, FALSE), step)
            /\ step = "write" => orders[o].status # "ABSENT"
      BY <2>5 DEF ReceiptRead
    <3>3. UNCHANGED <<orders, portone>>
      BY <2>5 DEF ReceiptRead, Rows
    <3>. QED  BY <2>2, <3>1, <3>2, <3>3 DEF Steps
  <2>6. WholeBps \in 1..WholeBps /\ Ratios \subseteq 1..WholeBps
    BY OrderPaymentAssumption DEF WholeBps
  <2>. QED
    BY <1>3, <2>3, <2>4, <2>5, <2>6 DEF Arrive, RefundFullRead, RefundPartialRead
<1>4. ASSUME NEW c \in Calls, Proceed(c), calls'[d] # calls[d]
      PROVE  CallSound(d)'
  <2>1. calls[c].op \in Operations
    BY <1>4 DEF Proceed, ConfirmCheck, ConfirmWrite, RefundCancel, RefundWrite,
       ReceiptWrite, SerializationFailure, At, Operations
  <2>2. calls[c] \in Call /\ calls[c] # Idle
    BY <2>1 DEF TypeOK, Operations, Idle
  <2>3. ASSUME NEW step \in Steps, GoTo(c, step)
        PROVE  /\ d = c
               /\ calls'[d].step = step /\ calls'[d] # Idle
               /\ calls'[d].op = calls[d].op /\ calls'[d].order = calls[d].order
               /\ calls'[d].payment = calls[d].payment
               /\ calls'[d].ratio = calls[d].ratio
    <3>1. d = c
      BY <1>4, <2>3 DEF GoTo, TypeOK
    <3>2. calls'[d] = [calls[d] EXCEPT !.step = step]
      BY <2>3, <3>1 DEF GoTo, TypeOK
    <3>. QED  BY <2>1, <2>2, <3>1, <3>2 DEF Call, Operations, Idle
  <2>4. ASSUME NEW step \in {"ok", "error"}, GoTo(c, step)
        PROVE  CallSound(d)'
    <3>1. step \in Steps
      BY DEF Steps
    <3>. QED  BY <2>2, <2>3, <2>4, <3>1 DEF CallSound
  <2>5. ~(GoTo(c, "write") /\ GoTo(c, "error"))
    <3>1. "write" \in Steps /\ "error" \in Steps
      BY DEF Steps
    <3>. QED  BY <2>3, <3>1
  <2>6. ASSUME GoTo(c, "write")
        PROVE  /\ d = c /\ calls'[d].step = "write" /\ calls'[d] # Idle
               /\ calls'[d].op = calls[d].op /\ calls'[d].order = calls[d].order
               /\ calls'[d].payment = calls[d].payment
               /\ calls'[d].ratio = calls[d].ratio
    <3>1. "write" \in Steps
      BY DEF Steps
    <3>. QED  BY <2>3, <2>6, <3>1
  <2>7. PICK o \in Orders : calls[c].order = o
    BY <2>2 DEF Call
  <2>8. ASSUME ConfirmCheck(c), GoTo(c, "write")
        PROVE  CallSound(d)'
    <3>1. /\ calls[c].op = "confirm" /\ calls[c].step = "check"
          /\ portone[calls[c].payment].status = "PAID"
          /\ portone[calls[c].payment].total = orders[o].total
          /\ UNCHANGED <<orders, portone>>
      BY <2>5, <2>7, <2>8 DEF ConfirmCheck, At, Rows
    <3>2. calls[c].payment = o /\ orders[o].status # "ABSENT"
      BY <2>2, <2>7, <3>1 DEF CallSound
    <3>3. CollectedInFull(o)'
      BY <3>1, <3>2 DEF CollectedInFull
    <3>. QED  BY <2>6, <2>7, <2>8, <3>1, <3>2, <3>3 DEF CallSound
  <2>9. ASSUME RefundCancel(c), GoTo(c, "write")
        PROVE  CallSound(d)'
    <3>. DEFINE amount == CancelAmount(c)
    <3>1. /\ calls[c].op \in {"refundFull", "refundPartial"}
          /\ calls[c].step = "check"
          /\ portone' = [portone EXCEPT ![o] = CancelledPayment(portone[o], amount)]
          /\ UNCHANGED orders
      BY <2>5, <2>7, <2>9 DEF RefundCancel, At
    <3>2. orders[o].status # "ABSENT"
          /\ (calls[c].op = "refundFull" => calls[c].ratio = WholeBps)
      BY <2>2, <2>7, <3>1 DEF CallSound
    <3>3. ASSUME calls[c].op = "refundFull"
          PROVE  Returned(o)'
      <4>1. portone[o].total \in Nat /\ portone[o].cancelled \in Nat
        BY DEF TypeOK, PaymentRecord
      <4>2. amount = portone[o].total - portone[o].cancelled
        BY <2>7, <3>3 DEF CancelAmount, Remaining
      <4>3. portone[o].cancelled + amount = portone[o].total
        BY <4>1, <4>2
      <4>4. portone'[o] = CancelledPayment(portone[o], amount)
        BY <3>1 DEF TypeOK
      <4>. QED  BY <4>3, <4>4 DEF CancelledPayment, Returned
    <3>. QED  BY <2>6, <2>7, <2>9, <3>1, <3>2, <3>3 DEF CallSound
  <2>. QED
    BY <1>4, <2>4, <2>8, <2>9
       DEF Proceed, ConfirmCheck, ConfirmWrite, RefundCancel, RefundWrite,
           ReceiptWrite, SerializationFailure, DistributeAbortAnswer,
           RevertAbortAnswers
<1>5. CASE UNCHANGED calls
  BY <1>1, <1>5
<1>. QED
  BY <1>1, <1>2, <1>3, <1>4, <1>5
     DEF Next, vars, Environment, CreateOrder, Pay, Fulfil, HoldExpires, ChangeAccount

-----------------------------------------------------------------------------
(* The parts of the invariant that relate the ledger to the money.          *)

\* A commit of confirm comes after the check of what PortOne collected.
LEMMA CollectedStep ==
  ASSUME TypeOK, SlotUnique, [Next]_vars, \A c \in Calls : CallSound(c),
         EarnedOrderExists, EarnImpliesCollected
  PROVE  EarnedOrderExists' /\ EarnImpliesCollected'
<1>. SUFFICES ASSUME NEW o \in Orders, EarnRowsOf(ledger', o) # {}
              PROVE  orders'[o].status # "ABSENT" /\ CollectedInFull(o)'
  BY DEF EarnedOrderExists, EarnImpliesCollected, CollectedInFull
<1>1. /\ orders[o].status # "ABSENT" => orders'[o].status # "ABSENT"
      /\ orders[o].status # "ABSENT" /\ CollectedInFull(o) => CollectedInFull(o)'
  BY LastingStep, LastingFacts DEF Lasting
<1>2. CASE EarnRowsOf(ledger, o) # {}
  BY <1>1, <1>2 DEF EarnedOrderExists, EarnImpliesCollected, CollectedInFull
<1>3. CASE EarnRowsOf(ledger, o) = {}
  <2>1. PICK c \in Calls : ConfirmCommits(c)
    <3>1. \A c \in Calls : RefundCommits(c) => EarnRowsOf(ledger', o) = {}
      BY <1>3, RefundRowsFacts DEF RefundCommits, EarnRowsOf
    <3>2. LedgerKept => EarnRowsOf(ledger', o) = {}
      BY <1>3 DEF LedgerKept
    <3>. QED  BY <3>1, <3>2, LedgerStep
  <2>2. calls[c].order = o
    BY <1>3, <2>1, ConfirmRowsFacts DEF ConfirmCommits, EarnRowsOf
  <2>3. orders[o].status # "ABSENT" /\ CollectedInFull(o)
    <3>1. calls[c] # Idle /\ calls[c].op = "confirm" /\ calls[c].step = "write"
      BY <2>1 DEF ConfirmCommits, At, Idle
    <3>. QED  BY <2>2, <3>1 DEF CallSound
  <2>. QED  BY <1>1, <2>3
<1>. QED  BY <1>2, <1>3

\* A commit of a full refund comes after PortOne returned all the money.
LEMMA ReturnedStep ==
  ASSUME TypeOK, SlotUnique, [Next]_vars, \A c \in Calls : CallSound(c),
         RefundedMeansReturned
  PROVE  RefundedMeansReturned'
<1>. SUFFICES ASSUME NEW o \in Orders, orders'[o].status = "REFUNDED"
              PROVE  Returned(o)'
  BY DEF RefundedMeansReturned, Returned
<1>1. Returned(o) => Returned(o)'
  BY LastingStep, LastingFacts
<1>2. CASE orders[o].status = "REFUNDED"
  BY <1>1, <1>2 DEF RefundedMeansReturned, Returned
<1>3. ASSUME NEW c \in Calls, RefundCommits(c), orders[o].status # "REFUNDED"
      PROVE  Returned(o)
  <2>1. calls[c].order \in Orders
    BY <1>3, CallInFlight DEF RefundCommits, Operations
  <2>2. o = calls[c].order /\ RefundedOrder(c).status = "REFUNDED"
    BY <1>3, <2>1 DEF RefundCommits, TypeOK
  <2>3. calls[c].op = "refundFull"
    BY <2>1, <2>2, RefundedOrderFacts
  <2>4. calls[c] # Idle /\ calls[c].step = "write"
    BY <1>3 DEF RefundCommits, At, Idle
  <2>. QED  BY <2>2, <2>3, <2>4 DEF CallSound
<1>4. ASSUME NEW c \in Calls, ConfirmCommits(c)
      PROVE  orders[o].status = "REFUNDED"
  <2>1. calls[c].order \in Orders
    BY <1>4, CallInFlight DEF ConfirmCommits, Operations
  <2>. QED  BY <1>4, <2>1 DEF ConfirmCommits, TypeOK, OrderRow
<1>. QED  BY <1>1, <1>2, <1>3, <1>4, LedgerStep DEF LedgerKept

\* What FullRefundNetsZero says of one order.
NetsZero(o) ==
  \A e \in EarnRowsOf(ledger, o) :
    \E v \in RevertRowsOf(ledger, o) :
      /\ v.beneficiary = e.beneficiary /\ v.gen = e.gen
      /\ v.amount = -e.amount

\* The whole of a positive amount is its share at 10000 bps.
LEMMA WholeShare == \A a \in Int : a > 0 => FloorBps(a, WholeBps) = a
<1>1. \A a \in Int : (a * WholeBps) \div WholeBps = a
  BY DEF WholeBps
<1>. QED  BY <1>1 DEF FloorBps

\* Slots that net zero stay so while the ledger grows elsewhere.
LEMMA NetsZeroKept ==
  ASSUME NEW o \in Orders, FullRefundNetsZero, orders[o].status = "REFUNDED",
         \A r \in refunds : r.order = o => ~r.late,
         ledger \subseteq ledger', EarnRowsOf(ledger', o) = EarnRowsOf(ledger, o)
  PROVE  NetsZero(o)'
<1>1. NetsZero(o)
  BY DEF FullRefundNetsZero, NetsZero
<1>2. RevertRowsOf(ledger, o) \subseteq RevertRowsOf(ledger', o)
  BY DEF RevertRowsOf
<1>. QED  BY <1>1, <1>2 DEF NetsZero

\* A commit of a full refund leaves every slot of the order at zero.
LEMMA NetsZeroStep ==
  ASSUME TypeOK, LedgerSigned, SlotUnique, [Next]_vars,
         \A c \in Calls : CallSound(c), FullRefundNetsZero
  PROVE  FullRefundNetsZero'
<1>. SUFFICES ASSUME NEW o \in Orders, orders'[o].status = "REFUNDED",
                     \A r \in refunds' : r.order = o => ~r.late
              PROVE  NetsZero(o)'
  BY DEF FullRefundNetsZero, NetsZero
<1>1. CASE LedgerKept
  BY <1>1, NetsZeroKept DEF LedgerKept
<1>2. ASSUME NEW c \in Calls, ConfirmCommits(c)
      PROVE  NetsZero(o)'
  <2>1. calls[c].order \in Orders
    BY <1>2, CallInFlight DEF ConfirmCommits, Operations
  <2>2. calls[c].order # o /\ orders'[o] = orders[o]
    BY <1>2, <2>1 DEF ConfirmCommits, TypeOK, OrderRow
  <2>3. /\ ledger \subseteq ledger' /\ refunds' = refunds
        /\ EarnRowsOf(ledger', o) = EarnRowsOf(ledger, o)
    BY <1>2, <2>2, ConfirmRowsFacts DEF ConfirmCommits, EarnRowsOf
  <2>. QED  BY <2>2, <2>3, NetsZeroKept
<1>3. ASSUME NEW c \in Calls, RefundCommits(c)
      PROVE  NetsZero(o)'
  <2>1. /\ ledger \subseteq ledger' /\ refunds \subseteq refunds'
        /\ EarnRowsOf(ledger', o) = EarnRowsOf(ledger, o)
    BY <1>3, RefundRowsFacts DEF RefundCommits, EarnRowsOf
  <2>2. calls[c].order \in Orders
    BY <1>3, CallInFlight DEF RefundCommits, Operations
  <2>3. CASE calls[c].order # o
    <3>1. orders'[o] = orders[o]
      BY <1>3, <2>2, <2>3 DEF RefundCommits, TypeOK
    <3>. QED  BY <2>1, <3>1, NetsZeroKept
  <2>4. CASE calls[c].order = o
    <3>1. RefundedOrder(c).status = "REFUNDED"
      BY <1>3, <2>2, <2>4 DEF RefundCommits, TypeOK
    <3>2. calls[c].op = "refundFull" /\ calls[c] # Idle
      BY <1>3, <2>2, <3>1, RefundedOrderFacts DEF RefundCommits, At, Idle
    <3>3. calls[c].ratio = WholeBps
      BY <3>2 DEF CallSound
    <3>4. ~calls[c].late
      <4>1. RefundRowOf(c) \in refunds'
        BY <1>3 DEF RefundCommits
      <4>. QED  BY <2>4, <4>1 DEF RefundRowOf
    <3>5. ASSUME NEW e \in EarnRowsOf(ledger, o)
          PROVE  LET v == RevertRow(e, WholeBps)
                 IN  /\ v \in RevertRowsOf(ledger', o)
                     /\ v.beneficiary = e.beneficiary /\ v.gen = e.gen
                     /\ v.amount = -e.amount
      <4>1. e.amount \in Int /\ e.amount > 0 /\ e.order = o
        BY DEF EarnRowsOf, TypeOK, LedgerRow, LedgerSigned
      <4>2. FloorBps(e.amount, WholeBps) = e.amount
        BY <4>1, WholeShare
      <4>3. RevertRow(e, WholeBps) \in RefundRows(c)
        BY <2>4, <3>3, <3>4, <4>1, <4>2 DEF RefundRows, RevertRows
      <4>4. RevertRow(e, WholeBps) \in ledger'
        BY <1>3, <4>3 DEF RefundCommits
      <4>. QED  BY <4>1, <4>2, <4>4 DEF RevertRow, RevertRowsOf
    <3>. QED  BY <2>1, <3>5 DEF NetsZero
  <2>. QED  BY <2>3, <2>4
<1>. QED  BY <1>1, <1>2, <1>3, LedgerStep

-----------------------------------------------------------------------------
(* The theorems.                                                            *)

\* The invariant is inductive.
LEMMA InvariantStep == IInv /\ [Next]_vars => IInv'
<1>. SUFFICES ASSUME IInv, [Next]_vars PROVE IInv'
  OBVIOUS
<1>1. TypeOK' /\ LedgerSigned' /\ SlotUnique' /\ RevertExplained'
  BY TypeStep, LedgerSignedStep, SlotUniqueStep, RevertExplainedStep DEF IInv
<1>2. (\A c \in Calls : CallSound(c))'
  BY CallSoundStep DEF IInv
<1>3. EarnedOrderExists' /\ EarnImpliesCollected' /\ RefundedMeansReturned'
      /\ FullRefundNetsZero'
  BY CollectedStep, ReturnedStep, NetsZeroStep DEF IInv
<1>. QED  BY <1>1, <1>2, <1>3 DEF IInv

\* Hence it holds in every state a behaviour reaches.
LEMMA Invariance == Spec => []IInv
BY InitInvariant, InvariantStep, PTL DEF Spec

(* Every row that takes money back from a beneficiary is the exact share    *)
(* that a refund on record, and in time, asked for.                         *)
THEOREM RevertsAreExplained == Spec => []RevertExplained
BY Invariance, PTL DEF IInv

(* A commission is owed only on an order whose total PortOne collected.     *)
THEOREM CommissionsAreCollected == Spec => []EarnImpliesCollected
BY Invariance, PTL DEF IInv

(* An order on record as REFUNDED has had all its money returned.           *)
THEOREM RefundsAreReturned == Spec => []RefundedMeansReturned
BY Invariance, PTL DEF IInv

(* An order refunded in full and in time owes no commission to anybody.     *)
THEOREM FullRefundsNetZero == Spec => []FullRefundNetsZero
BY Invariance, PTL DEF IInv

-----------------------------------------------------------------------------
(* What the rows of an order come to.  A commission is worth what the total *)
(* of its order says, and the total and the referrers of the buyer stay, so *)
(* an order has at most one credit in a generation, whatever roles two      *)
(* confirms saw.                                                            *)

EarnsPriced ==
  \A e \in ledger : e.type = "EARN" =>
    /\ e.beneficiary = Ancestors(Buyer[e.order])[e.gen]
    /\ e.amount = FloorBps(orders[e.order].total, RateBps[e.gen])
    /\ e.status \in {"PENDING", "SUSPENDED_FOR_REVIEW"}

\* What a commit of confirm writes into a row.
LEMMA ConfirmRowsPriced ==
  ASSUME TypeOK, NEW c \in Calls, At(c, {"confirm"}, "write"),
         NEW e \in ConfirmRows(c)
  PROVE  /\ e.order = calls[c].order /\ e.type = "EARN"
         /\ e.beneficiary = Ancestors(Buyer[e.order])[e.gen]
         /\ e.amount = FloorBps(orders[e.order].total, RateBps[e.gen])
         /\ e.status \in {"PENDING", "SUSPENDED_FOR_REVIEW"}
<1>. DEFINE o == calls[c].order
<1>1. PICK g \in EarningGenerations(Buyer[o], orders[o].total) :
        e = EarnRow(o, Buyer[o], orders[o].total, g)
  BY DEF ConfirmRows, DistributeRows
<1>. QED  BY <1>1 DEF EarnRow, EarnStatus

\* Credits keep their price.
LEMMA EarnsPricedStep ==
  ASSUME TypeOK, SlotUnique, [Next]_vars, EarnedOrderExists, EarnsPriced
  PROVE  EarnsPriced'
<1>1. ASSUME NEW e \in ledger, e.type = "EARN"
      PROVE  orders'[e.order].total = orders[e.order].total
  <2>1. e.order \in Orders
    BY DEF TypeOK, LedgerRow
  <2>2. e \in EarnRowsOf(ledger, e.order)
    BY <1>1 DEF EarnRowsOf
  <2>. QED  BY <2>1, <2>2, LastingStep DEF EarnedOrderExists, Lasting
<1>2. CASE LedgerKept
  BY <1>1, <1>2 DEF LedgerKept, EarnsPriced
<1>3. ASSUME NEW c \in Calls, ConfirmCommits(c)
      PROVE  EarnsPriced'
  <2>1. calls[c].order \in Orders
    BY <1>3, CallInFlight DEF ConfirmCommits, Operations
  <2>2. orders'[calls[c].order].total = orders[calls[c].order].total
    BY <1>3, <2>1 DEF ConfirmCommits, TypeOK, OrderRow
  <2>3. \A e \in ConfirmRows(c) :
          /\ e.order = calls[c].order /\ e.type = "EARN"
          /\ e.beneficiary = Ancestors(Buyer[e.order])[e.gen]
          /\ e.amount = FloorBps(orders[e.order].total, RateBps[e.gen])
          /\ e.status \in {"PENDING", "SUSPENDED_FOR_REVIEW"}
    BY <1>3, ConfirmRowsPriced DEF ConfirmCommits
  <2>4. ledger' = ledger \cup ConfirmRows(c)
    BY <1>3 DEF ConfirmCommits
  <2>. QED  BY <1>1, <2>2, <2>3, <2>4 DEF EarnsPriced
<1>4. ASSUME NEW c \in Calls, RefundCommits(c)
      PROVE  EarnsPriced'
  <2>1. ledger' = ledger \cup RefundRows(c)
        /\ \A v \in RefundRows(c) : v.type = "REVERT"
    BY <1>4, RefundRowsFacts DEF RefundCommits
  <2>. QED  BY <1>1, <2>1 DEF EarnsPriced
<1>. QED  BY <1>2, <1>3, <1>4, LedgerStep

\* What a beneficiary nets on an order in a generation: a credit, or a credit
\* and its share taken back.
LEMMA NetIsNonNegative ==
  ASSUME TypeOK, LedgerSigned, SlotUnique, RevertExplained
  PROVE  NetNonNegative
<1>. SUFFICES ASSUME NEW o \in Orders, NEW u \in Users, NEW g \in Generations
              PROVE  AmountOf({r \in ledger : r.order = o /\ r.beneficiary = u
                                              /\ r.gen = g}) >= 0
  BY DEF NetNonNegative
<1>. DEFINE S == {r \in ledger : r.order = o /\ r.beneficiary = u /\ r.gen = g}
<1>1. \A r \in S : r \in LedgerRow /\ r.amount \in Int /\ r.type \in {"EARN", "REVERT"}
  BY DEF TypeOK, LedgerRow, LedgerTypes
<1>2. \A r, s \in S : r.type = s.type => r = s
  BY DEF SlotUnique, Slot
<1>3. CASE S = {}
  BY <1>3, AmountEmpty
<1>4. ASSUME NEW e \in S, \A r \in S : r.type = "EARN"
      PROVE  AmountOf(S) >= 0
  <2>1. S = {e} /\ e.amount \in Int /\ e.amount > 0
    BY <1>1, <1>2, <1>4 DEF LedgerSigned
  <2>. QED  BY <2>1, AmountOne
<1>5. ASSUME NEW v \in S, v.type = "REVERT"
      PROVE  AmountOf(S) >= 0
  <2>1. PICK e \in EarnRowsOf(ledger, v.order), r \in refunds :
          /\ e.beneficiary = v.beneficiary /\ e.gen = v.gen
          /\ v.amount = -FloorBps(e.amount, r.ratio)
    BY <1>5 DEF RevertExplained
  <2>2. e \in S /\ e.type = "EARN"
    BY <2>1 DEF EarnRowsOf
  <2>3. e.amount \in Nat /\ r.ratio \in Nat /\ r.ratio \in 0..WholeBps
    <3>1. e \in ledger /\ e.amount \in Int
      BY <1>1, <2>2
    <3>2. e.amount > 0
      BY <2>2, <3>1 DEF LedgerSigned
    <3>3. r.ratio \in 1..WholeBps
      BY DEF TypeOK, RefundRow
    <3>. QED  BY <3>1, <3>2, <3>3, RatioIsNat
  <2>. DEFINE share == FloorBps(e.amount, r.ratio)
  <2>4. share \in Nat /\ share <= e.amount /\ v.amount = -share
    BY <2>1, <2>3, FloorBpsType, FloorBpsBound
  <2>. HIDE DEF share
  <2>5. S = {e} \cup {v} /\ v \notin {e}
    BY <1>1, <1>2, <1>5, <2>2
  <2>6. AmountOf({e} \cup {v}) = v.amount + AmountOf({e})
    BY <1>1, <2>2, <2>5, AmountAdd, FS_Singleton
  <2>7. AmountOf({e}) = e.amount
    BY <1>1, <2>2, AmountOne
  <2>8. AmountOf(S) = v.amount + e.amount
    BY <2>5, <2>6, <2>7, Zenon
  <2>. HIDE DEF S
  <2>. QED  BY <2>3, <2>4, <2>8
<1>. QED  BY <1>1, <1>3, <1>4, <1>5

\* The credits of an order in a generation: at most one, of a known amount.
EarnedIn(o, g) == {r \in EarnRowsOf(ledger, o) : r.gen = g}

\* What distribute has written for one order and one generation: one row at most,
\* of the share of the total.
LEMMA EarnedInFacts ==
  ASSUME TypeOK, LedgerSigned, SlotUnique, EarnsPriced,
         NEW o \in Orders, NEW g \in Generations
  PROVE  /\ IsFiniteSet(EarnedIn(o, g))
         /\ \A r, s \in EarnedIn(o, g) : r = s
         /\ AmountOf(EarnedIn(o, g)) \in 0..FloorBps(orders[o].total, RateBps[g])
<1>1. \A r \in EarnedIn(o, g) :
        /\ r.amount \in Int /\ r.amount > 0
        /\ r.amount = FloorBps(orders[o].total, RateBps[g])
  BY DEF EarnedIn, EarnRowsOf, EarnsPriced, LedgerSigned, TypeOK, LedgerRow
<1>2. \A r, s \in EarnedIn(o, g) : r = s
  BY DEF EarnedIn, EarnRowsOf, EarnsPriced, SlotUnique, Slot
<1>3. CASE EarnedIn(o, g) = {}
  <2>1. orders[o].total \in Nat /\ RateBps[g] \in Nat
    BY DEF RateBps, Generations, TypeOK, OrderRow
  <2>2. FloorBps(orders[o].total, RateBps[g]) \in Nat
    BY <2>1, FloorBpsType
  <2>. QED  BY <1>2, <1>3, <2>2, AmountEmpty, FS_EmptySet
<1>4. ASSUME NEW e \in EarnedIn(o, g)
      PROVE  /\ IsFiniteSet(EarnedIn(o, g))
             /\ AmountOf(EarnedIn(o, g)) \in 0..FloorBps(orders[o].total, RateBps[g])
  <2>1. EarnedIn(o, g) = {e}
    BY <1>2
  <2>2. AmountOf({e}) = e.amount
    BY <1>1, AmountOne
  <2>3. AmountOf({e}) \in 0..FloorBps(orders[o].total, RateBps[g])
    BY <1>1, <2>2
  <2>. QED  BY <2>1, <2>3, FS_Singleton
<1>. QED  BY <1>2, <1>3, <1>4

\* The shares of the three generations, each rounded down, are at most a quarter.
LEMMA ThreeShares ==
  ASSUME NEW t \in Nat,
         NEW a \in 0..FloorBps(t, 300), NEW b \in 0..FloorBps(t, 500),
         NEW c \in 0..FloorBps(t, 1700)
  PROVE  (a + b + c) * WholeBps <= t * 2500
<1>1. \A n \in Nat : (n \div WholeBps) * WholeBps <= n /\ n \div WholeBps \in Nat
  BY DEF WholeBps
<1>2. \A r \in Nat : FloorBps(t, r) = (t * r) \div WholeBps /\ t * r \in Nat
  BY DEF FloorBps
<1>3. /\ FloorBps(t, 300) \in Nat /\ FloorBps(t, 300) * WholeBps <= t * 300
      /\ FloorBps(t, 500) \in Nat /\ FloorBps(t, 500) * WholeBps <= t * 500
      /\ FloorBps(t, 1700) \in Nat /\ FloorBps(t, 1700) * WholeBps <= t * 1700
  BY <1>1, <1>2
<1>. QED  BY <1>3 DEF WholeBps

\* The rows of the three generations together stay within their rates of the total.
LEMMA CommissionsAreCapped ==
  ASSUME TypeOK, LedgerSigned, SlotUnique, EarnsPriced
  PROVE  CommissionCap
<1>. SUFFICES ASSUME NEW o \in Orders
              PROVE  AmountOf(EarnRowsOf(ledger, o)) * WholeBps <= orders[o].total * 2500
  BY DEF CommissionCap
<1>. DEFINE E1 == EarnedIn(o, 1)
            E2 == EarnedIn(o, 2)
            E3 == EarnedIn(o, 3)
            t == orders[o].total
<1>1. /\ IsFiniteSet(E1) /\ AmountOf(E1) \in 0..FloorBps(t, 300)
      /\ IsFiniteSet(E2) /\ AmountOf(E2) \in 0..FloorBps(t, 500)
      /\ IsFiniteSet(E3) /\ AmountOf(E3) \in 0..FloorBps(t, 1700)
  BY EarnedInFacts DEF Generations, RateBps
<1>2. EarnRowsOf(ledger, o) = E1 \cup (E2 \cup E3)
  BY DEF EarnedIn, EarnRowsOf, TypeOK, LedgerRow, Generations
<1>3. \A r \in EarnRowsOf(ledger, o) : r.amount \in Int
  BY DEF EarnRowsOf, TypeOK, LedgerRow
<1>4. AmountOf(E2 \cup E3) = AmountOf(E2) + AmountOf(E3)
  <2>1. E2 \cap E3 = {}
    BY DEF EarnedIn
  <2>. QED  BY <1>1, <1>2, <1>3, <2>1, AmountUnion
<1>5. AmountOf(E1 \cup (E2 \cup E3)) = AmountOf(E1) + AmountOf(E2 \cup E3)
  <2>1. E1 \cap (E2 \cup E3) = {}
    BY DEF EarnedIn
  <2>2. IsFiniteSet(E2 \cup E3)
    <3>1. IsFiniteSet(E2) /\ IsFiniteSet(E3)
      BY <1>1
    <3>. HIDE DEF E1, E2, E3
    <3>. QED  BY <3>1, FS_Union
  <2>. QED  BY <1>1, <1>2, <1>3, <2>1, <2>2, AmountUnion
<1>6. t \in Nat
  BY DEF TypeOK, OrderRow
<1>. DEFINE a == AmountOf(E1)
            b == AmountOf(E2)
            c == AmountOf(E3)
<1>7. /\ a \in 0..FloorBps(t, 300) /\ b \in 0..FloorBps(t, 500)
      /\ c \in 0..FloorBps(t, 1700)
  BY <1>1
<1>11. AmountOf(EarnRowsOf(ledger, o)) = a + (b + c)
  BY <1>2, <1>4, <1>5, Zenon
<1>8. a \in Int /\ b \in Int /\ c \in Int
  BY <1>7
<1>. HIDE DEF a, b, c, t
<1>9. (a + b + c) * WholeBps <= t * 2500
  BY <1>6, <1>7, ThreeShares
<1>10. AmountOf(EarnRowsOf(ledger, o)) = a + b + c
  BY <1>8, <1>11
<1>. QED  BY <1>9, <1>10 DEF t

-----------------------------------------------------------------------------
(* Partial refunds.  Between PortOne's answer and the commit the Refund row *)
(* is still to come, and may never come: what PortOne has returned covers   *)
(* the rows on record and those the calls in flight are about to insert.    *)

Inserting(c) == At(c, {"refundPartial"}, "write")

PartialRows(o) ==
  {r \in refunds \cup {RefundRowOf(c) : c \in {d \in Calls : Inserting(d)}} :
     r.order = o /\ r.ratio < WholeBps}

PartialsCovered ==
  \A o \in Orders :
    /\ IsFiniteSet(PartialRows(o))
    /\ AmountOf(PartialRows(o)) <= portone[o].cancelled

\* The row a call is about to insert is a row of the table.
LEMMA RefundRowTyped ==
  ASSUME TypeOK, NEW c \in Calls, At(c, {"refundFull", "refundPartial"}, "write")
  PROVE  /\ RefundRowOf(c) \in RefundRow
         /\ RefundRowOf(c).order = calls[c].order
         /\ RefundRowOf(c).amount = RefundAmount(c)
<1>1. /\ calls[c].order \in Orders
      /\ calls[c].ratio \in 1..WholeBps /\ calls[c].ratio \in Nat
      /\ calls[c].late \in BOOLEAN
  BY CallInFlight, RatioIsNat DEF Operations
<1>2. orders[calls[c].order].total \in Nat
  BY <1>1 DEF TypeOK, OrderRow
<1>3. RefundAmount(c) \in Nat
  BY <1>1, <1>2, FloorBpsType DEF RefundAmount
<1>. QED  BY <1>1, <1>3 DEF RefundRowOf, RefundRow

\* It is for an order that exists and keeps its total.
LEMMA RefundRowKept ==
  ASSUME TypeOK, [Next]_vars, NEW c \in Calls, CallSound(c),
         At(c, {"refundFull", "refundPartial"}, "write")
  PROVE  calls'[c].order = calls[c].order /\ calls'[c].ratio = calls[c].ratio
           /\ calls'[c].late = calls[c].late => RefundRowOf(c)' = RefundRowOf(c)
<1>1. calls[c] # Idle /\ calls[c].order \in Orders
  BY CallInFlight DEF Operations
<1>2. calls[c].step = "write"
  BY DEF At
<1>3. orders'[calls[c].order].total = orders[calls[c].order].total
  BY <1>1, <1>2, LastingStep DEF CallSound, Lasting
<1>. QED  BY <1>3 DEF RefundRowOf, RefundAmount

\* What becomes of the calls about to insert in a step: none is new, but for one
\* that had PortOne return the amount; and only one of them inserts.
LEMMA InsertingStep ==
  ASSUME TypeOK, [Next]_vars, NEW d \in Calls, Inserting(d)'
  PROVE  \/ Inserting(d) /\ calls'[d] = calls[d]
         \/ /\ RefundCancel(d) /\ GoTo(d, "write")
            /\ calls[d].op = "refundPartial"
            /\ calls'[d] = [calls[d] EXCEPT !.step = "write"]
<1>1. calls'[d].op = "refundPartial" /\ calls'[d].step = "write"
  BY DEF Inserting, At
<1>2. ASSUME calls'[d] = calls[d]
      PROVE  Inserting(d)
  BY <1>1, <1>2 DEF Inserting, At
<1>3. CASE Restart
  BY <1>1, <1>2, <1>3 DEF Restart, TypeOK, Call, Idle
<1>4. ASSUME NEW c \in Calls, Arrive(c)
      PROVE  calls'[d] = calls[d]
  <2>1. ASSUME NEW op, NEW o, NEW p, NEW ratio, NEW late, NEW step,
               Begin(c, Request(op, o, p, ratio, late), step),
               calls'[d] # calls[d]
        PROVE  op = "refundPartial" /\ step = "write"
    <3>1. calls'[d] = [Request(op, o, p, ratio, late) EXCEPT !.step = step]
      BY <2>1 DEF Begin, TypeOK
    <3>. QED  BY <1>1, <3>1 DEF Request
  <2>2. ASSUME NEW o \in Orders, NEW user \in Users, NEW p \in Orders,
               ConfirmRead(c, user, o, p)
        PROVE  calls'[d] = calls[d]
    BY <2>1, <2>2 DEF ConfirmRead
  <2>3. ASSUME NEW o \in Orders, NEW op, NEW ratio, RefundRead(c, op, o, ratio)
        PROVE  calls'[d] = calls[d]
    <3>1. PICK late \in BOOLEAN : late = (orders[o].receipt = "EXPIRED")
      OBVIOUS
    <3>2. PICK step \in {"check", "error"} : Begin(c, Request(op, o, o, ratio, late), step)
      BY <2>3, <3>1 DEF RefundRead
    <3>3. calls'[d] # calls[d] => step = "write"
      BY <2>1, <3>2, Zenon
    <3>. QED  BY <3>3
  <2>4. ASSUME NEW o \in Orders, NEW user \in Users, ReceiptRead(c, user, o)
        PROVE  calls'[d] = calls[d]
    <3>1. PICK step \in {"write", "error"} :
            Begin(c, Request("confirmReceipt", o, o, WholeBps, FALSE), step)
      BY <2>4 DEF ReceiptRead
    <3>2. calls'[d] # calls[d] => "confirmReceipt" = "refundPartial"
      BY <2>1, <3>1, Zenon
    <3>. QED  BY <3>2
  <2>. QED  BY <1>4, <2>2, <2>3, <2>4 DEF Arrive, RefundFullRead, RefundPartialRead
<1>5. ASSUME NEW c \in Calls, Proceed(c), calls'[d] # calls[d]
      PROVE  /\ RefundCancel(d) /\ GoTo(d, "write")
             /\ calls[d].op = "refundPartial"
             /\ calls'[d] = [calls[d] EXCEPT !.step = "write"]
  <2>1. ASSUME NEW step, GoTo(c, step)
        PROVE  /\ d = c /\ calls'[d] = [calls[d] EXCEPT !.step = step]
               /\ step = "write" /\ calls[d].op = "refundPartial"
    <3>1. d = c /\ calls'[d] = [calls[d] EXCEPT !.step = step]
      BY <1>5, <2>1 DEF GoTo, TypeOK
    <3>2. calls[c].op \in Operations
      BY <1>5 DEF Proceed, ConfirmCheck, ConfirmWrite, RefundCancel, RefundWrite,
         ReceiptWrite, SerializationFailure, At, Operations
    <3>3. calls[d] \in Call
      BY <3>1, <3>2 DEF TypeOK, Operations, Idle
    <3>. QED  BY <1>1, <3>1, <3>3 DEF Call
  <2>2. CASE RefundCancel(c)
    BY <2>1, <2>2 DEF RefundCancel
  <2>3. CASE ConfirmCheck(c)
    BY <2>1, <2>3 DEF ConfirmCheck, At
  <2>4. CASE ConfirmWrite(c)
    BY <2>1, <2>4 DEF ConfirmWrite, At
  <2>5. CASE RefundWrite(c)
    BY <2>1, <2>5 DEF RefundWrite, RevertAbortAnswers
  <2>6. CASE ReceiptWrite(c)
    BY <2>1, <2>6 DEF ReceiptWrite
  <2>7. CASE SerializationFailure(c)
    BY <2>1, <2>7 DEF SerializationFailure
  <2>. QED  BY <1>5, <2>2, <2>3, <2>4, <2>5, <2>6, <2>7 DEF Proceed
<1>6. CASE UNCHANGED calls
  BY <1>2, <1>6
<1>. QED
  BY <1>2, <1>3, <1>4, <1>5, <1>6
     DEF Next, vars, Environment, CreateOrder, Pay, Fulfil, HoldExpires, ChangeAccount

\* Money PortOne has returned stays returned, and a call that goes on to insert
\* has had its amount returned by this very step.
LEMMA ReturnedStaysStep ==
  ASSUME TypeOK, [Next]_vars, NEW o \in Orders
  PROVE  /\ portone'[o].cancelled >= portone[o].cancelled
         /\ \A c \in Calls :
              RefundCancel(c) /\ GoTo(c, "write") /\ calls[c].op = "refundPartial"
                /\ calls[c].order = o
              => portone'[o].cancelled = portone[o].cancelled + RefundAmount(c)
<1>1. portone[o] \in PaymentRecord /\ portone[o].cancelled \in Nat
      /\ portone'[o] \in PaymentRecord /\ portone'[o].cancelled \in Nat
  BY TypeStep DEF TypeOK, PaymentRecord
<1>2. ASSUME UNCHANGED portone
      PROVE  portone'[o].cancelled >= portone[o].cancelled
  BY <1>1, <1>2
<1>3. ASSUME NEW c \in Calls, RefundCancel(c), portone' # portone
      PROVE  portone'[o].cancelled >= portone[o].cancelled
  <2>1. /\ CancelAmount(c) > 0
        /\ portone' = [portone EXCEPT ![calls[c].order] =
                         CancelledPayment(portone[calls[c].order], CancelAmount(c))]
    BY <1>3 DEF RefundCancel
  <2>2. CASE calls[c].order = o
    <3>1. portone'[o].cancelled = portone[o].cancelled + CancelAmount(c)
      BY <2>1, <2>2 DEF TypeOK, CancelledPayment
    <3>2. CancelAmount(c) \in Int
      <4>1. calls[c].ratio \in Nat /\ orders[o].total \in Nat /\ portone[o].total \in Nat
        <5>1. calls[c].ratio \in 1..WholeBps
          BY <1>3, CallInFlight DEF RefundCancel, Operations
        <5>. QED  BY <5>1, RatioIsNat DEF TypeOK, OrderRow, PaymentRecord
      <4>2. FloorBps(orders[o].total, calls[c].ratio) \in Nat
        BY <4>1, FloorBpsType
      <4>. QED  BY <1>1, <2>2, <4>1, <4>2 DEF CancelAmount, Remaining, RefundAmount
    <3>. QED  BY <1>1, <2>1, <3>1, <3>2
  <2>3. CASE calls[c].order # o
    BY <1>1, <2>1, <2>3 DEF TypeOK
  <2>. QED  BY <2>2, <2>3
<1>4. ASSUME NEW c \in Calls, RefundCancel(c), GoTo(c, "write"),
             calls[c].op = "refundPartial", calls[c].order = o
      PROVE  portone'[o].cancelled = portone[o].cancelled + RefundAmount(c)
  <2>1. calls[c] \in Call
    BY <1>4 DEF TypeOK, Idle
  <2>2. calls'[c] = [calls[c] EXCEPT !.step = "write"]
    BY <1>4 DEF GoTo, TypeOK
  <2>3. ~GoTo(c, "error")
    <3>1. GoTo(c, "error") => calls'[c] = [calls[c] EXCEPT !.step = "error"]
      BY DEF GoTo, TypeOK
    <3>. QED  BY <2>1, <2>2, <3>1 DEF Call
  <2>4. portone' = [portone EXCEPT ![o] = CancelledPayment(portone[o], RefundAmount(c))]
    BY <1>4, <2>3 DEF RefundCancel, CancelAmount
  <2>. QED  BY <2>4 DEF TypeOK, CancelledPayment
<1>5. portone'[o].cancelled >= portone[o].cancelled
  <2>1. ASSUME NEW p \in Orders, NEW sum \in Totals, Pay(p, sum)
        PROVE  portone'[o].cancelled >= portone[o].cancelled
    BY <1>1, <2>1 DEF Pay, TypeOK, PaymentRecord
  <2>2. ASSUME NEW c \in Calls, Proceed(c)
        PROVE  portone'[o].cancelled >= portone[o].cancelled
    BY <1>2, <1>3, <2>2 DEF Proceed, ConfirmCheck, ConfirmWrite, RefundWrite,
       ReceiptWrite, SerializationFailure, Rows
  <2>3. ASSUME NEW c \in Calls, Arrive(c)
        PROVE  portone'[o].cancelled >= portone[o].cancelled
    BY <1>2, <2>3 DEF Arrive, ConfirmRead, RefundFullRead, RefundPartialRead,
       RefundRead, ReceiptRead, Rows
  <2>. QED
    BY <1>2, <2>1, <2>2, <2>3
       DEF Next, vars, Environment, CreateOrder, Fulfil, HoldExpires, ChangeAccount,
           Restart, Rows
<1>. QED  BY <1>4, <1>5

\* A Refund row is on record only if its call was about to insert it.
LEMMA RefundsStep ==
  ASSUME TypeOK, [Next]_vars, \A c \in Calls : CallSound(c),
         NEW r \in refunds', r.ratio < WholeBps
  PROVE  r \in refunds \/ \E c \in Calls : Inserting(c) /\ r = RefundRowOf(c)
<1>1. CASE LedgerKept
  BY <1>1 DEF LedgerKept
<1>2. ASSUME NEW c \in Calls, ConfirmCommits(c)
      PROVE  r \in refunds
  BY <1>2 DEF ConfirmCommits
<1>3. ASSUME NEW c \in Calls, RefundCommits(c), r \notin refunds
      PROVE  Inserting(c) /\ r = RefundRowOf(c)
  <2>1. r = RefundRowOf(c) /\ At(c, {"refundFull", "refundPartial"}, "write")
    BY <1>3 DEF RefundCommits
  <2>2. calls[c].ratio = r.ratio
    BY <2>1 DEF RefundRowOf
  <2>3. calls[c].ratio # WholeBps
    BY <2>2 DEF WholeBps
  <2>4. calls[c].op # "refundFull"
    BY <2>1, <2>3, CallInFlight DEF CallSound, Operations
  <2>. QED  BY <2>1, <2>4 DEF Inserting, At
<1>. QED  BY <1>1, <1>2, <1>3, LedgerStep

\* The rows of an order gain at most the one whose amount PortOne returned in
\* this step.
LEMMA PartialRowsStep ==
  ASSUME TypeOK, [Next]_vars, \A c \in Calls : CallSound(c), NEW o \in Orders
  PROVE  \/ PartialRows(o)' \subseteq PartialRows(o)
         \/ \E y \in RefundRow :
              /\ PartialRows(o)' \subseteq PartialRows(o) \cup {y}
              /\ portone'[o].cancelled = portone[o].cancelled + y.amount
<1>. DEFINE Begun(c) == /\ RefundCancel(c) /\ GoTo(c, "write")
                        /\ calls[c].op = "refundPartial"
                        /\ calls'[c] = [calls[c] EXCEPT !.step = "write"]
<1>1. ASSUME NEW r \in PartialRows(o)'
      PROVE  \/ r \in PartialRows(o)
             \/ \E d \in Calls : Begun(d) /\ r = RefundRowOf(d)'
  <2>1. r.order = o /\ r.ratio < WholeBps
    BY DEF PartialRows
  <2>2. CASE r \in refunds'
    BY <2>1, <2>2, RefundsStep DEF PartialRows
  <2>3. ASSUME NEW d \in Calls, Inserting(d)', r = RefundRowOf(d)'
        PROVE  \/ r \in PartialRows(o)
               \/ \E c \in Calls : Begun(c) /\ r = RefundRowOf(c)'
    <3>1. CASE Inserting(d) /\ calls'[d] = calls[d]
      <4>1. RefundRowOf(d)' = RefundRowOf(d)
        BY <3>1, RefundRowKept DEF Inserting, At
      <4>. QED  BY <2>1, <2>3, <3>1, <4>1 DEF PartialRows
    <3>. QED  BY <2>3, <3>1, InsertingStep
  <2>. QED  BY <2>2, <2>3 DEF PartialRows
<1>2. CASE \A d \in Calls : ~Begun(d)
  BY <1>1, <1>2
<1>3. ASSUME NEW d \in Calls, Begun(d)
      PROVE  \/ PartialRows(o)' \subseteq PartialRows(o)
             \/ \E y \in RefundRow :
                  /\ PartialRows(o)' \subseteq PartialRows(o) \cup {y}
                  /\ portone'[o].cancelled = portone[o].cancelled + y.amount
  <2>1. ASSUME NEW c \in Calls, Begun(c)
        PROVE  c = d
    <3>1. calls[d].step = "check" /\ calls[d] \in Call
      BY <1>3 DEF RefundCancel, At, TypeOK, Idle
    <3>2. calls'[d].step = "write"
      BY <1>3, <3>1 DEF Call
    <3>3. c # d => calls'[d] = calls[d]
      BY <2>1 DEF GoTo, TypeOK
    <3>. QED  BY <3>1, <3>2, <3>3
  <2>2. /\ calls[d] \in Call /\ calls[d].order \in Orders
        /\ calls[d].ratio \in 1..WholeBps /\ calls[d].ratio \in Nat
        /\ calls[d].late \in BOOLEAN /\ calls[d].step = "check"
    BY <1>3, RatioIsNat DEF RefundCancel, At, TypeOK, Idle, Call
  <2>3. /\ calls'[d].order = calls[d].order /\ calls'[d].ratio = calls[d].ratio
        /\ calls'[d].late = calls[d].late
    BY <1>3, <2>2 DEF Call
  <2>4. UNCHANGED orders
    BY <1>3 DEF RefundCancel
  <2>5. RefundRowOf(d)' = RefundRowOf(d)
    BY <2>3, <2>4 DEF RefundRowOf, RefundAmount
  <2>6. RefundAmount(d) \in Nat
    BY <2>2, FloorBpsType DEF RefundAmount, TypeOK, OrderRow
  <2>7. /\ RefundRowOf(d) \in RefundRow
        /\ RefundRowOf(d).order = calls[d].order
        /\ RefundRowOf(d).amount = RefundAmount(d)
    BY <2>2, <2>6 DEF RefundRowOf, RefundRow
  <2>8. PartialRows(o)' \subseteq PartialRows(o) \cup {RefundRowOf(d)}
    BY <1>1, <2>1, <2>5
  <2>9. CASE calls[d].order = o
    <3>1. portone'[o].cancelled = portone[o].cancelled + RefundAmount(d)
      BY <1>3, <2>9, ReturnedStaysStep
    <3>. QED  BY <2>7, <2>8, <3>1
  <2>10. CASE calls[d].order # o
    <3>1. \A r \in PartialRows(o)' : r.order = o
      BY DEF PartialRows
    <3>. QED  BY <2>7, <2>8, <2>10, <3>1
  <2>. QED  BY <2>9, <2>10
<1>. QED  BY <1>2, <1>3

\* What PortOne returned covers the rows, before and after any step.
LEMMA PartialsCoveredStep ==
  ASSUME TypeOK, [Next]_vars, \A c \in Calls : CallSound(c), PartialsCovered
  PROVE  PartialsCovered'
<1>. SUFFICES ASSUME NEW o \in Orders
              PROVE  /\ IsFiniteSet(PartialRows(o)')
                     /\ AmountOf(PartialRows(o)') <= portone'[o].cancelled
  BY DEF PartialsCovered
<1>. DEFINE P == PartialRows(o)
            Q == PartialRows(o)'
<1>1. IsFiniteSet(P) /\ AmountOf(P) <= portone[o].cancelled
  BY DEF PartialsCovered
<1>2. \A r \in P : r.amount \in Nat
  <2>1. \A c \in Calls : Inserting(c) => RefundRowOf(c) \in RefundRow
    BY RefundRowTyped DEF Inserting, At
  <2>. QED  BY <2>1 DEF PartialRows, TypeOK, RefundRow
<1>3. /\ portone[o].cancelled \in Nat /\ portone'[o].cancelled \in Nat
      /\ portone'[o].cancelled >= portone[o].cancelled
  BY TypeStep, ReturnedStaysStep DEF TypeOK, PaymentRecord
<1>4. AmountOf(P) \in Nat
  BY <1>1, <1>2, AmountNat
<1>5. ASSUME Q \subseteq P
      PROVE  IsFiniteSet(Q) /\ AmountOf(Q) <= portone'[o].cancelled
  <2>. HIDE DEF P, Q
  <2>1. IsFiniteSet(Q) /\ AmountOf(Q) <= AmountOf(P) /\ AmountOf(Q) \in Nat
    BY <1>1, <1>2, <1>5, FS_Subset, AmountSubset, AmountNat
  <2>. QED  BY <1>1, <1>3, <1>4, <2>1
<1>6. ASSUME NEW y \in RefundRow, Q \subseteq P \cup {y}, ~(Q \subseteq P),
             portone'[o].cancelled = portone[o].cancelled + y.amount
      PROVE  IsFiniteSet(Q) /\ AmountOf(Q) <= portone'[o].cancelled
  <2>. HIDE DEF P, Q
  <2>1. y.amount \in Nat /\ y \notin P
    BY <1>6 DEF RefundRow
  <2>2. IsFiniteSet(P \cup {y}) /\ \A r \in P \cup {y} : r.amount \in Nat
    BY <1>1, <1>2, <2>1, FS_AddElement
  <2>3. AmountOf(P \cup {y}) = y.amount + AmountOf(P)
    BY <1>1, <2>1, <2>2, AmountAdd
  <2>4. IsFiniteSet(Q) /\ AmountOf(Q) <= AmountOf(P \cup {y}) /\ AmountOf(Q) \in Nat
    BY <1>6, <2>2, FS_Subset, AmountSubset, AmountNat
  <2>. QED  BY <1>1, <1>3, <1>4, <1>6, <2>1, <2>3, <2>4
<1>. QED  BY <1>5, <1>6, PartialRowsStep

\* The rows on record are among those.
LEMMA PartialsAreBacked ==
  ASSUME TypeOK, PartialsCovered
  PROVE  PartialRefundsBacked
<1>. SUFFICES ASSUME NEW o \in Orders
              PROVE  AmountOf({r \in refunds : r.order = o /\ r.ratio < WholeBps})
                       <= portone[o].cancelled
  BY DEF PartialRefundsBacked
<1>. DEFINE S == {r \in refunds : r.order = o /\ r.ratio < WholeBps}
            P == PartialRows(o)
<1>1. S \subseteq P
  BY DEF PartialRows
<1>2. \A r \in P : r.amount \in Nat
  <2>1. \A c \in Calls : Inserting(c) => RefundRowOf(c) \in RefundRow
    BY RefundRowTyped DEF Inserting, At
  <2>. QED  BY <2>1 DEF PartialRows, TypeOK, RefundRow
<1>3. IsFiniteSet(P) /\ AmountOf(P) <= portone[o].cancelled
  BY DEF PartialsCovered
<1>4. portone[o].cancelled \in Nat
  BY DEF TypeOK, PaymentRecord
<1>. HIDE DEF S, P
<1>5. AmountOf(S) <= AmountOf(P) /\ AmountOf(S) \in Nat /\ AmountOf(P) \in Nat
  BY <1>1, <1>2, <1>3, FS_Subset, AmountSubset, AmountNat
<1>6. AmountOf(S) <= portone[o].cancelled
  BY <1>3, <1>4, <1>5
<1>. QED  BY <1>6 DEF S

-----------------------------------------------------------------------------
(* The dashboard.  Its sums run over all orders of all time, which are as   *)
(* many as have been created, and an order nobody refunded that has paid    *)
(* commissions is in one of the states the tree counts.                     *)

EarnedIsCounted ==
  \A o \in Unrefunded :
    EarnRowsOf(ledger, o) # {} => orders[o].status \in ContributingStatuses

TablesFinite == IsFiniteSet(ledger) /\ IsFiniteSet(Created)

\* A commit adds finitely many rows.
LEMMA LedgerFiniteStep ==
  ASSUME TypeOK, [Next]_vars, IsFiniteSet(ledger)
  PROVE  IsFiniteSet(ledger')
<1>1. CASE LedgerKept
  BY <1>1 DEF LedgerKept
<1>2. ASSUME NEW c \in Calls, ConfirmCommits(c)
      PROVE  IsFiniteSet(ledger')
  <2>. DEFINE o == calls[c].order
              gens == EarningGenerations(Buyer[o], orders[o].total)
              f == [g \in gens |-> EarnRow(o, Buyer[o], orders[o].total, g)]
  <2>1. IsFiniteSet(gens)
    <3>1. gens \in SUBSET Nat /\ \A g \in gens : g <= 3
      BY DEF EarningGenerations, Generations
    <3>. HIDE DEF gens
    <3>. QED  BY <3>1, FS_BoundedSetOfNaturals
  <2>2. ConfirmRows(c) = {f[g] : g \in gens}
    BY DEF ConfirmRows, DistributeRows
  <2>3. IsFiniteSet({f[g] : g \in gens})
    <3>. HIDE DEF gens, f
    <3>. QED  BY <2>1, FiniteImage
  <2>4. ledger' = ledger \cup ConfirmRows(c)
    BY <1>2 DEF ConfirmCommits
  <2>. QED  BY <2>2, <2>3, <2>4, FS_Union
<1>3. ASSUME NEW c \in Calls, RefundCommits(c)
      PROVE  IsFiniteSet(ledger')
  <2>. DEFINE X == {e \in EarnRowsOf(ledger, calls[c].order) :
                      FloorBps(e.amount, calls[c].ratio) > 0}
              f == [e \in X |-> RevertRow(e, calls[c].ratio)]
  <2>1. IsFiniteSet(X)
    BY FS_Subset DEF EarnRowsOf
  <2>2. RefundRows(c) \subseteq {f[e] : e \in X}
    BY DEF RefundRows, RevertRows
  <2>3. IsFiniteSet({f[e] : e \in X})
    <3>. HIDE DEF X, f
    <3>. QED  BY <2>1, FiniteImage
  <2>4. IsFiniteSet(RefundRows(c))
    BY <2>2, <2>3, FS_Subset
  <2>5. ledger' = ledger \cup RefundRows(c)
    BY <1>3 DEF RefundCommits
  <2>. QED  BY <2>4, <2>5, FS_Union
<1>. QED  BY <1>1, <1>2, <1>3, LedgerStep

\* How the status of an order changes: it is created, or moves among the states
\* the tree counts, or is refunded.
LEMMA StatusStep ==
  ASSUME TypeOK, [Next]_vars, \A c \in Calls : CallSound(c), NEW o \in Orders
  PROVE  \/ orders'[o].status = orders[o].status
         \/ orders'[o].status \in ContributingStatuses /\ orders[o].status # "ABSENT"
         \/ \E total \in Totals : CreateOrder(o, total)
         \/ \E c \in Calls : /\ RefundCommits(c) /\ calls[c].order = o
                             /\ orders[o].status # "ABSENT"
<1>. USE DEF ContributingStatuses
<1>. SUFFICES ASSUME orders' # orders
              PROVE  \/ orders'[o].status = orders[o].status
                     \/ /\ orders'[o].status \in ContributingStatuses
                        /\ orders[o].status # "ABSENT"
                     \/ \E total \in Totals : CreateOrder(o, total)
                     \/ \E c \in Calls : /\ RefundCommits(c) /\ calls[c].order = o
                                         /\ orders[o].status # "ABSENT"
  OBVIOUS
<1>1. ASSUME NEW p \in Orders, NEW total \in Totals, CreateOrder(p, total)
      PROVE  orders'[o].status = orders[o].status \/ CreateOrder(o, total)
  BY <1>1 DEF CreateOrder, TypeOK
<1>2. ASSUME NEW p \in Orders, Fulfil(p) \/ HoldExpires(p)
      PROVE  \/ orders'[o].status = orders[o].status
             \/ /\ orders'[o].status \in ContributingStatuses
                /\ orders[o].status # "ABSENT"
  BY <1>2 DEF Fulfil, HoldExpires, TypeOK, OrderRow
<1>3. ASSUME NEW c \in Calls, Proceed(c)
      PROVE  \/ orders'[o].status = orders[o].status
             \/ /\ orders'[o].status \in ContributingStatuses
                /\ orders[o].status # "ABSENT"
             \/ /\ RefundCommits(c) /\ calls[c].order = o
                /\ orders[o].status # "ABSENT"
  <2>1. /\ calls[c] # Idle /\ calls[c].step = "write" /\ calls[c].order \in Orders
        /\ \/ ConfirmWrite(c) \/ RefundWrite(c) \/ ReceiptWrite(c)
    <3>1. ConfirmWrite(c) \/ RefundWrite(c) \/ ReceiptWrite(c)
      BY <1>3 DEF Proceed, ConfirmCheck, RefundCancel, SerializationFailure, Rows
    <3>2. At(c, Operations, "write")
      BY <3>1 DEF ConfirmWrite, RefundWrite, ReceiptWrite, At, Operations
    <3>. QED  BY <3>1, <3>2, CallInFlight DEF At
  <2>2. orders[calls[c].order].status # "ABSENT"
    BY <2>1 DEF CallSound
  <2>3. CASE ConfirmWrite(c)
    BY <2>1, <2>2, <2>3 DEF ConfirmWrite, TypeOK, OrderRow
  <2>4. CASE RefundWrite(c)
    <3>1. /\ RefundCommits(c)
          /\ orders' = [orders EXCEPT ![calls[c].order] = RefundedOrder(c)]
      BY <2>4 DEF RefundWrite, RefundCommits, RefundRows
    <3>. QED  BY <2>1, <2>2, <3>1 DEF TypeOK
  <2>5. CASE ReceiptWrite(c)
    BY <2>1, <2>2, <2>5 DEF ReceiptWrite, TypeOK, OrderRow
  <2>. QED  BY <2>1, <2>3, <2>4, <2>5
<1>. QED  BY <1>1, <1>2, <1>3 DEF Next, vars, Environment, Pay, ChangeAccount,
     Restart, Rows, Arrive, ConfirmRead, RefundFullRead, RefundPartialRead,
     RefundRead, ReceiptRead

\* One order at most is created in a step.
LEMMA CreatedStep ==
  ASSUME TypeOK, [Next]_vars, \A c \in Calls : CallSound(c), IsFiniteSet(Created)
  PROVE  IsFiniteSet(Created')
<1>1. ASSUME NEW o \in Orders, NEW total \in Totals, CreateOrder(o, total)
      PROVE  IsFiniteSet(Created')
  <2>1. Created' \subseteq Created \cup {o}
    BY <1>1 DEF CreateOrder, Created, TypeOK
  <2>2. IsFiniteSet(Created \cup {o})
    BY FS_AddElement
  <2>. QED  BY <2>1, <2>2, FS_Subset
<1>2. ASSUME \A o \in Orders, total \in Totals : ~CreateOrder(o, total)
      PROVE  IsFiniteSet(Created')
  <2>1. ASSUME NEW o \in Orders, orders'[o].status # "ABSENT"
        PROVE  orders[o].status # "ABSENT"
    BY <1>2, <2>1, StatusStep
  <2>2. Created' \subseteq Created
    BY <2>1 DEF Created
  <2>. QED  BY <2>2, FS_Subset
<1>. QED  BY <1>1, <1>2

\* An order that earned leaves the states the tree counts by a refund only.
LEMMA EarnedIsCountedStep ==
  ASSUME TypeOK, SlotUnique, [Next]_vars, \A c \in Calls : CallSound(c),
         EarnedOrderExists, EarnedIsCounted
  PROVE  EarnedIsCounted'
<1>. SUFFICES ASSUME NEW o \in Orders, \A r \in refunds' : r.order # o,
                     EarnRowsOf(ledger', o) # {}
              PROVE  orders'[o].status \in ContributingStatuses
  BY DEF EarnedIsCounted, Unrefunded
<1>1. \A c \in Calls : RefundCommits(c) => calls[c].order # o
  <2>1. ASSUME NEW c \in Calls, RefundCommits(c)
        PROVE  RefundRowOf(c) \in refunds' /\ RefundRowOf(c).order = calls[c].order
    BY <2>1 DEF RefundCommits, RefundRowOf
  <2>. QED  BY <2>1
<1>2. refunds \subseteq refunds'
  BY LedgerStep DEF LedgerKept, ConfirmCommits, RefundCommits
<1>3. o \in Unrefunded
  BY <1>2 DEF Unrefunded
<1>4. CASE EarnRowsOf(ledger, o) # {}
  <2>1. orders[o].status \in ContributingStatuses /\ orders[o].status # "ABSENT"
    BY <1>3, <1>4 DEF EarnedIsCounted, EarnedOrderExists
  <2>2. \A total : ~CreateOrder(o, total)
    BY <2>1 DEF CreateOrder
  <2>. QED  BY <1>1, <2>1, <2>2, StatusStep
<1>5. CASE EarnRowsOf(ledger, o) = {}
  <2>1. PICK e \in ledger' : e \notin ledger /\ e.order = o /\ e.type = "EARN"
    BY <1>5 DEF EarnRowsOf
  <2>2. ~LedgerKept
    BY <2>1 DEF LedgerKept
  <2>3. ASSUME NEW c \in Calls, RefundCommits(c)
        PROVE  FALSE
    <3>1. e \in RefundRows(c)
      BY <2>1, <2>3 DEF RefundCommits
    <3>. QED  BY <2>1, <2>3, <3>1, RefundRowsFacts DEF RefundCommits
  <2>4. PICK c \in Calls : ConfirmCommits(c)
    BY <2>2, <2>3, LedgerStep
  <2>5. e \in ConfirmRows(c)
    BY <2>1, <2>4 DEF ConfirmCommits
  <2>6. calls[c].order = o
    BY <2>1, <2>4, <2>5, ConfirmRowsFacts DEF ConfirmCommits
  <2>. QED  BY <2>4, <2>6 DEF ConfirmCommits, TypeOK, OrderRow, ContributingStatuses
<1>. QED  BY <1>4, <1>5

\* Months only go by, and every row has one that has come.
Dated ==
  /\ month \in Nat
  /\ entered \in [ledger -> Nat]
  /\ \A r \in ledger : entered[r] <= month

\* What the month is expected to bring is what it entered.
LEMMA ExpectedOfMonth ==
  ASSUME TypeOK, EarnsPriced, IsFiniteSet(ledger), NEW u \in Users
  PROVE  /\ Expected(u) = AmountOf(ThisMonth(RowsTo(u, "EARN"))) + RevertSum(u)
         /\ RevertSum(u) = AmountOf(ThisMonth(RowsTo(u, "REVERT")))
         /\ Expected(u) \in Int /\ RevertSum(u) \in Int
<1>. DEFINE M == ThisMonth(RowsTo(u, "EARN"))
            V == ThisMonth(RowsTo(u, "REVERT"))
            Gen(g) == {r \in M : r.gen = g}
<1>1. /\ \A r \in M : r.amount \in Int /\ r.gen \in 1..3
      /\ \A r \in V : r.amount \in Int
  BY DEF RowsTo, ThisMonth, TypeOK, LedgerRow, Generations
<1>2. /\ IsFiniteSet(V) /\ IsFiniteSet(Gen(1)) /\ IsFiniteSet(Gen(2))
      /\ IsFiniteSet(Gen(3))
  <2>1. /\ V \subseteq ledger /\ Gen(1) \subseteq ledger
        /\ Gen(2) \subseteq ledger /\ Gen(3) \subseteq ledger
    BY DEF RowsTo, ThisMonth
  <2>. HIDE DEF V, Gen
  <2>. QED  BY <2>1, FS_Subset
<1>4. AmountOf(M) = AmountOf(Gen(1)) + (AmountOf(Gen(2)) + AmountOf(Gen(3)))
  <2>1. /\ M = Gen(1) \cup (Gen(2) \cup Gen(3))
        /\ Gen(1) \cap (Gen(2) \cup Gen(3)) = {} /\ Gen(2) \cap Gen(3) = {}
    BY <1>1
  <2>2. \A r \in Gen(1) \cup (Gen(2) \cup Gen(3)) : r.amount \in Int
    BY <1>1
  <2>3. /\ IsFiniteSet(Gen(2) \cup Gen(3))
        /\ AmountOf(Gen(2) \cup Gen(3)) = AmountOf(Gen(2)) + AmountOf(Gen(3))
    <3>. HIDE DEF Gen
    <3>. QED  BY <1>2, <2>1, <2>2, AmountUnion, FS_Union
  <2>4. AmountOf(Gen(1) \cup (Gen(2) \cup Gen(3)))
          = AmountOf(Gen(1)) + AmountOf(Gen(2) \cup Gen(3))
    <3>. HIDE DEF Gen
    <3>. QED  BY <1>2, <2>1, <2>2, <2>3, AmountUnion
  <2>. QED  BY <2>1, <2>3, <2>4, Zenon
<1>5. /\ AmountOf(V) \in Int /\ AmountOf(Gen(1)) \in Int
      /\ AmountOf(Gen(2)) \in Int /\ AmountOf(Gen(3)) \in Int
  <2>1. /\ \A r \in Gen(1) : r.amount \in Int
        /\ \A r \in Gen(2) : r.amount \in Int
        /\ \A r \in Gen(3) : r.amount \in Int
    BY <1>1
  <2>. HIDE DEF V, Gen
  <2>. QED  BY <1>1, <1>2, <2>1, AmountType
<1>6. /\ GenSum(u, 1) = AmountOf(Gen(1)) /\ GenSum(u, 2) = AmountOf(Gen(2))
      /\ GenSum(u, 3) = AmountOf(Gen(3)) /\ RevertSum(u) = AmountOf(V)
  BY DEF GenSum, RevertSum
<1>7. RevertSum(u) = AmountOf(V) /\ Expected(u) = AmountOf(M) + RevertSum(u)
      /\ Expected(u) \in Int /\ RevertSum(u) \in Int
  <2>. HIDE DEF M, V, Gen
  <2>. QED  BY <1>4, <1>5, <1>6 DEF Expected
<1>. QED  BY <1>7

\* The figures of the dashboard add up.
LEMMA DashboardFigures ==
  ASSUME TypeOK, LedgerSigned, EarnsPriced, IsFiniteSet(ledger)
  PROVE  FiguresAgree
<1>. SUFFICES ASSUME NEW u \in Users
              PROVE  LET earns == RowsTo(u, "EARN")
                     IN  /\ Expected(u) + Reverted(u) + AmountOf(earns \ ThisMonth(earns))
                              = Payable(u) + Withheld(u)
                         /\ Withheld(u) > 0 <=> WithheldCount(u) > 0
  BY DEF FiguresAgree
<1>. DEFINE E == RowsTo(u, "EARN")
            M == ThisMonth(E)
            L == E \ M
            V == ThisMonth(RowsTo(u, "REVERT"))
            P == {r \in E : r.status = "PENDING"}
            W == {r \in E : r.status = "SUSPENDED_FOR_REVIEW"}
<1>1. /\ \A r \in E : r.amount \in Int /\ r.amount > 0
      /\ \A r \in E : r.status \in {"PENDING", "SUSPENDED_FOR_REVIEW"}
      /\ \A r \in V : r.amount \in Int /\ r.amount <= 0
      /\ M \subseteq E
  BY DEF RowsTo, ThisMonth, LedgerSigned, EarnsPriced, TypeOK, LedgerRow
<1>2. /\ IsFiniteSet(E) /\ IsFiniteSet(V) /\ IsFiniteSet(P) /\ IsFiniteSet(W)
      /\ IsFiniteSet(M) /\ IsFiniteSet(L)
  <2>1. /\ E \subseteq ledger /\ V \subseteq ledger /\ P \subseteq ledger
        /\ W \subseteq ledger /\ M \subseteq ledger /\ L \subseteq ledger
    BY DEF RowsTo, ThisMonth
  <2>. HIDE DEF E, V, P, W, M, L
  <2>. QED  BY <2>1, FS_Subset
<1>3. AmountOf(E) = AmountOf(P) + AmountOf(W)
  <2>1. E = P \cup W /\ P \cap W = {}
    BY <1>1
  <2>2. \A r \in P \cup W : r.amount \in Int
    BY <1>1
  <2>3. AmountOf(P \cup W) = AmountOf(P) + AmountOf(W)
    <3>. HIDE DEF P, W
    <3>. QED  BY <1>2, <2>1, <2>2, AmountUnion
  <2>. QED  BY <2>1, <2>3, Zenon
<1>9. AmountOf(E) = AmountOf(M) + AmountOf(L)
  <2>1. E = M \cup L /\ M \cap L = {} /\ \A r \in M \cup L : r.amount \in Int
    BY <1>1
  <2>2. AmountOf(M \cup L) = AmountOf(M) + AmountOf(L)
    <3>. HIDE DEF M, L
    <3>. QED  BY <1>2, <2>1, AmountUnion
  <2>. QED  BY <2>1, <2>2, Zenon
<1>5. /\ AmountOf(V) \in Int /\ AmountOf(V) <= 0
      /\ AmountOf(P) \in Int /\ AmountOf(W) \in Int
      /\ AmountOf(M) \in Int /\ AmountOf(L) \in Int
  <2>1. /\ \A r \in P : r.amount \in Int
        /\ \A r \in W : r.amount \in Int
        /\ \A r \in M : r.amount \in Int
        /\ \A r \in L : r.amount \in Int
    BY <1>1
  <2>. HIDE DEF V, P, W, M, L
  <2>. QED  BY <1>1, <1>2, <2>1, AmountNegative, AmountType
<1>6. /\ Payable(u) = AmountOf(P) /\ Withheld(u) = AmountOf(W)
      /\ WithheldCount(u) = Cardinality(W)
  BY DEF Payable, Withheld, WithheldCount, WithheldRows
<1>10. Expected(u) = AmountOf(M) + RevertSum(u) /\ RevertSum(u) = AmountOf(V)
  BY ExpectedOfMonth
<1>7. Expected(u) + Reverted(u) + AmountOf(L) = Payable(u) + Withheld(u)
  <2>. HIDE DEF E, V, P, W, M, L
  <2>. QED  BY <1>3, <1>9, <1>10, <1>5, <1>6 DEF Expected, Reverted
<1>8. Withheld(u) > 0 <=> WithheldCount(u) > 0
  <2>1. CASE W = {}
    <3>1. AmountOf(W) = 0 /\ Cardinality(W) = 0
      BY <2>1, AmountEmpty, FS_EmptySet, Zenon
    <3>. QED  BY <1>6, <3>1
  <2>2. ASSUME NEW r \in W
        PROVE  AmountOf(W) > 0 /\ Cardinality(W) > 0
    <3>1. /\ r.amount > 0 /\ r.amount \in Int
          /\ \A x \in W : x.amount \in Int /\ x.amount >= 0
      BY <1>1
    <3>. HIDE DEF W
    <3>2. AmountOf({r}) = r.amount /\ AmountOf({r}) <= AmountOf(W)
      BY <1>2, <3>1, AmountOne, AmountSubset
    <3>3. Cardinality(W) \in Nat /\ Cardinality(W) # 0
      BY <1>2, FS_CardinalityType, FS_EmptySet
    <3>. QED  BY <1>5, <3>1, <3>2, <3>3
  <2>. QED  BY <1>6, <2>1, <2>2
<1>. QED  BY <1>7, <1>8

\* A debit has a credit of its slot that covers it.  Were all those credits of
\* this month, the month would come to no less than nothing.
LEMMA DashboardLoss ==
  ASSUME TypeOK, LedgerSigned, SlotUnique, RevertExplained, EarnsPriced,
         IsFiniteSet(ledger), Dated
  PROVE  LossFromEarlier
<1>0. \A x \in Users : Expected(x) \in Int
  BY ExpectedOfMonth
<1>. SUFFICES ASSUME NEW u \in Users,
                     \A v \in ThisMonth(RowsTo(u, "REVERT")), e \in RowsTo(u, "EARN") :
                       ~(e.order = v.order /\ e.gen = v.gen /\ entered[e] < month)
              PROVE  Expected(u) >= 0
  BY <1>0 DEF LossFromEarlier
<1>. DEFINE M == ThisMonth(RowsTo(u, "EARN"))
            V == ThisMonth(RowsTo(u, "REVERT"))
            Covers(v, e) == /\ e \in M /\ e.order = v.order /\ e.gen = v.gen
                            /\ e.amount \in Int /\ e.amount + v.amount >= 0
            f == [v \in V |-> CHOOSE e : Covers(v, e)]
<1>1. ASSUME NEW v \in V
      PROVE  Covers(v, f[v])
  <2>1. v \in ledger /\ v.type = "REVERT" /\ v.beneficiary = u /\ v \in LedgerRow
    BY DEF ThisMonth, RowsTo, TypeOK
  <2>2. PICK e \in EarnRowsOf(ledger, v.order), r \in refunds :
          /\ e.beneficiary = v.beneficiary /\ e.gen = v.gen
          /\ v.amount = -FloorBps(e.amount, r.ratio)
    BY <2>1 DEF RevertExplained
  <2>3. e \in ledger /\ e.type = "EARN" /\ e.order = v.order
    BY DEF EarnRowsOf
  <2>4. e \in RowsTo(u, "EARN") /\ entered[e] = month
    <3>1. e \in RowsTo(u, "EARN")
      BY <2>1, <2>2, <2>3 DEF RowsTo
    <3>2. ~(entered[e] < month)
      BY <2>2, <2>3, <3>1
    <3>. QED  BY <2>3, <3>1, <3>2 DEF Dated
  <2>5. e.amount \in Nat /\ r.ratio \in Nat /\ r.ratio \in 0..WholeBps
    <3>1. e.amount \in Int /\ e.amount > 0
      BY <2>3 DEF LedgerSigned, TypeOK, LedgerRow
    <3>2. r.ratio \in 1..WholeBps
      BY DEF TypeOK, RefundRow
    <3>. QED  BY <3>1, <3>2, RatioIsNat
  <2>6. e.amount + v.amount >= 0
    <3>. DEFINE share == FloorBps(e.amount, r.ratio)
    <3>1. share \in Nat /\ share <= e.amount /\ v.amount = -share
      BY <2>2, <2>5, FloorBpsType, FloorBpsBound
    <3>. HIDE DEF share
    <3>. QED  BY <2>5, <3>1
  <2>7. Covers(v, e)
    BY <2>2, <2>3, <2>4, <2>5, <2>6 DEF ThisMonth
  <2>. QED  BY <2>7
<1>2. \A v \in V : v.amount \in Int /\ v \in ledger /\ v.beneficiary = u /\ v.type = "REVERT"
  BY DEF ThisMonth, RowsTo, TypeOK, LedgerRow
<1>3. \A v, w \in V : f[v] = f[w] => v = w
  <2>1. ASSUME NEW v \in V, NEW w \in V, f[v] = f[w]
        PROVE  Slot(v) = Slot(w)
    <3>1. Covers(v, f[v]) /\ Covers(w, f[w])
      BY <1>1
    <3>. HIDE DEF f
    <3>2. v.order = w.order /\ v.gen = w.gen
      BY <2>1, <3>1
    <3>. QED  BY <1>2, <3>2 DEF Slot
  <2>. HIDE DEF f, V
  <2>. QED  BY <1>2, <2>1 DEF SlotUnique
<1>4. IsFiniteSet(V) /\ IsFiniteSet(M)
  <2>1. V \subseteq ledger /\ M \subseteq ledger
    BY DEF ThisMonth, RowsTo
  <2>. QED  BY <2>1, FS_Subset
<1>. DEFINE C == {f[v] : v \in V}
<1>5. \A v \in V : f[v] \in M /\ f[v].amount \in Int /\ f[v].amount + v.amount >= 0
  BY <1>1
<1>6. AmountOf(C) + AmountOf(V) >= 0
  <2>. HIDE DEF f, V, M
  <2>. QED  BY <1>2, <1>3, <1>4, <1>5, DebitsCovered
<1>7. AmountOf(C) <= AmountOf(M)
  <2>1. C \subseteq M
    BY <1>5
  <2>2. \A r \in M : r.amount \in Int /\ r.amount >= 0
    BY DEF ThisMonth, RowsTo, LedgerSigned, TypeOK, LedgerRow
  <2>. HIDE DEF C, M
  <2>. QED  BY <1>4, <2>1, <2>2, AmountSubset
<1>8. AmountOf(C) \in Int /\ AmountOf(V) \in Int /\ AmountOf(M) \in Int
  <2>1. C \subseteq M
    BY <1>5
  <2>2. \A r \in M : r.amount \in Int
    BY DEF ThisMonth, RowsTo, TypeOK, LedgerRow
  <2>. HIDE DEF C, M, V
  <2>. QED  BY <1>2, <1>4, <2>1, <2>2, AmountType, FS_Subset
<1>9. Expected(u) = AmountOf(M) + AmountOf(V)
  BY ExpectedOfMonth
<1>. HIDE DEF C, M, V
<1>. QED  BY <1>6, <1>7, <1>8, <1>9

\* Of the orders of one member each has earned the user once at most, its own
\* share; the tree shows the share of their sum.
LEMMA DashboardEstimate ==
  ASSUME TypeOK, SlotUnique, EarnsPriced, EarnedIsCounted, IsFiniteSet(Created)
  PROVE  EstimateCovers
<1>. SUFFICES ASSUME NEW u \in Users, NEW m \in Users, NEW g \in Generations
              PROVE  AmountOf({r \in RowsTo(u, "EARN") :
                                 /\ r.gen = g /\ Buyer[r.order] = m
                                 /\ ordered[r.order] = month
                                 /\ r.order \in Unrefunded}) <= MyEarning(m, g)
  BY DEF EstimateCovers
<1>. DEFINE R == {r \in RowsTo(u, "EARN") :
                    /\ r.gen = g /\ Buyer[r.order] = m
                    /\ ordered[r.order] = month /\ r.order \in Unrefunded}
            O == {x \in OrdersOf(m) : orders[x].status \in ContributingStatuses}
            f == [o \in O |-> orders[o].total]
            bps == RateBps[g]
<1>1. IsFiniteSet(O)
  <2>1. O \subseteq Created
    BY DEF OrdersOf
  <2>. QED  BY <2>1, FS_Subset
<1>2. bps \in Nat /\ \A o \in O : f[o] \in Nat
  BY DEF RateBps, Generations, OrdersOf, Created, TypeOK, OrderRow
<1>3. \A r \in R : r.order \in O /\ r.amount = FloorBps(f[r.order], bps)
  <2>1. ASSUME NEW r \in R
        PROVE  r.order \in O /\ r.amount = FloorBps(f[r.order], bps)
    <3>1. /\ r \in ledger /\ r.type = "EARN" /\ r.gen = g
          /\ Buyer[r.order] = m /\ ordered[r.order] = month
          /\ r.order \in Unrefunded /\ r.order \in Orders
      BY DEF RowsTo, Unrefunded
    <3>2. EarnRowsOf(ledger, r.order) # {}
      BY <3>1 DEF EarnRowsOf
    <3>3. orders[r.order].status \in ContributingStatuses
      BY <3>1, <3>2 DEF EarnedIsCounted
    <3>4. r.order \in O
      BY <3>1, <3>3 DEF OrdersOf, Created, ContributingStatuses
    <3>. QED  BY <3>1, <3>4 DEF EarnsPriced
  <2>. QED  BY <2>1
<1>4. \A r, s \in R : r.order = s.order => r = s
  BY DEF RowsTo, SlotUnique, Slot
<1>5. MyEarning(m, g) = FloorBps(SumFunctionOnSet(f, O), bps)
  BY DEF MyEarning, Contribution, SumFunction
<1>. HIDE DEF f, O, R, bps
<1>6. AmountOf(R) <= FloorBps(SumFunctionOnSet(f, O), bps)
  BY <1>1, <1>2, <1>3, <1>4, SharesOfParts
<1>. QED  BY <1>5, <1>6 DEF R

-----------------------------------------------------------------------------
(* The theorems about sums.                                                 *)

\* The invariant, with what the sums need.
SumInv ==
  /\ IInv
  /\ EarnsPriced
  /\ PartialsCovered
  /\ EarnedIsCounted
  /\ TablesFinite

\* It holds of the empty tables.
LEMMA InitSums == Init => SumInv
<1>. SUFFICES ASSUME Init PROVE SumInv
  OBVIOUS
<1>1. EarnsPriced /\ EarnedIsCounted
  BY DEF Init, EarnsPriced, EarnedIsCounted, EarnRowsOf
<1>2. IsFiniteSet(ledger) /\ IsFiniteSet(Created)
  <2>1. ledger = {} /\ Created = {}
    BY DEF Init, Created
  <2>. QED  BY <2>1, FS_EmptySet
<1>3. ASSUME NEW o \in Orders
      PROVE  IsFiniteSet(PartialRows(o)) /\ AmountOf(PartialRows(o)) <= portone[o].cancelled
  <2>1. PartialRows(o) = {}
    BY DEF Init, PartialRows, Inserting, At, Idle
  <2>2. portone[o].cancelled = 0
    BY DEF Init
  <2>3. AmountOf(PartialRows(o)) = 0 /\ IsFiniteSet(PartialRows(o))
    BY <2>1, AmountEmpty, FS_EmptySet, Zenon
  <2>. QED  BY <2>2, <2>3
<1>. QED  BY <1>1, <1>2, <1>3, InitInvariant DEF SumInv, TablesFinite, PartialsCovered

\* Every step keeps it.
LEMMA SumsStep == SumInv /\ [Next]_vars => SumInv'
<1>. SUFFICES ASSUME SumInv, [Next]_vars PROVE SumInv'
  OBVIOUS
<1>. USE DEF SumInv, IInv
<1>1. IInv'
  BY InvariantStep
<1>2. EarnsPriced' /\ EarnedIsCounted'
  BY EarnsPricedStep, EarnedIsCountedStep
<1>3. PartialsCovered'
  BY PartialsCoveredStep
<1>4. TablesFinite'
  BY LedgerFiniteStep, CreatedStep DEF TablesFinite
<1>. QED  BY <1>1, <1>2, <1>3, <1>4

\* The invariant behind the theorems on sums.
LEMMA SumInvariance == Spec => []SumInv
BY InitSums, SumsStep, PTL DEF Spec

(* Whatever confirms and refunds race, the commissions of an order come to  *)
(* no more than a quarter of its total, and what anybody nets on it is      *)
(* never negative.                                                          *)
THEOREM CommissionsAreBounded == Spec => []CommissionBounded
<1>1. SumInv => CommissionBounded
  BY NetIsNonNegative, CommissionsAreCapped DEF SumInv, IInv, CommissionBounded
<1>. QED  BY <1>1, SumInvariance, PTL

(* The partial refunds on record never add up to more than PortOne returned,*)
(* whatever calls are lost between its answer and the commit.               *)
THEOREM PartialRefundsAreBacked == Spec => []PartialRefundsBacked
<1>1. SumInv => PartialRefundsBacked
  BY PartialsAreBacked DEF SumInv, IInv
<1>. QED  BY <1>1, SumInvariance, PTL

\* A step of the calendar is a step of the orders, or leaves them alone.
LEMMA DashStep == [DashNext]_dashVars => [Next]_vars
BY DEF DashNext, NewMonth, dashVars, vars

\* What enters a table is of the month in which it does.
LEMMA DatedStep == Dated /\ [DashNext]_dashVars => Dated'
<1>. SUFFICES ASSUME Dated, [DashNext]_dashVars PROVE Dated'
  OBVIOUS
<1>1. CASE NewMonth
  BY <1>1 DEF Dated, NewMonth, vars
<1>2. CASE Stamp
  BY <1>2 DEF Dated, Stamp, Stamped
<1>3. CASE UNCHANGED dashVars
  BY <1>3 DEF Dated, dashVars
<1>. QED  BY <1>1, <1>2, <1>3 DEF DashNext

(* The calendar takes nothing from the orders: what holds of them holds     *)
(* whatever months go by.                                                   *)
THEOREM OrdersGoOn == DashSpec => Spec
<1>1. DashInit => Init
  BY DEF DashInit
<1>. QED  BY <1>1, DashStep, PTL DEF DashSpec, Spec

(* The figures of the dashboard, some of this month and some of all time,   *)
(* add up; a month that is expected to bring less than nothing reverts what *)
(* an earlier one earned; and the tree never shows less than the ledger     *)
(* pays for the orders of this month that have no refund.                   *)
THEOREM DashboardIsSound == DashSpec => []DashboardSound
<1>1. DashInit => SumInv /\ Dated
  BY InitSums DEF DashInit, Dated, Init
<1>2. SumInv /\ Dated /\ [DashNext]_dashVars => (SumInv /\ Dated)'
  BY SumsStep, DashStep, DatedStep
<1>3. SumInv /\ Dated => DashboardSound
  BY DashboardFigures, DashboardLoss, DashboardEstimate
     DEF SumInv, IInv, TablesFinite, DashboardSound
<1>. QED  BY <1>1, <1>2, <1>3, PTL DEF DashSpec

-----------------------------------------------------------------------------
(* The ledger implements the commission book.  A slot has one row at most,  *)
(* so that its sum is the amount of that row, and every step of the program *)
(* is a collection, a credit, a debit, or nothing at all to the book.       *)

BookAccounts == Users \X Generations

\* No money comes in for an order that does not exist.
UnpaidUntilCreated ==
  \A o \in Orders : orders[o].status = "ABSENT" => portone[o].status = "READY"

\* PortOne has nothing for an order that was not created.
LEMMA UnpaidUntilCreatedStep ==
  ASSUME TypeOK, [Next]_vars, UnpaidUntilCreated
  PROVE  UnpaidUntilCreated'
<1>. SUFFICES ASSUME NEW o \in Orders, orders'[o].status = "ABSENT"
              PROVE  portone'[o].status = "READY"
  BY DEF UnpaidUntilCreated
<1>1. orders[o].status = "ABSENT" /\ portone[o].status = "READY"
  BY LastingStep DEF Lasting, UnpaidUntilCreated
<1>2. ASSUME NEW p \in Orders, NEW sum \in Totals, Pay(p, sum)
      PROVE  portone'[o].status = "READY"
  BY <1>1, <1>2 DEF Pay, TypeOK
<1>3. ASSUME NEW c \in Calls, Proceed(c)
      PROVE  portone'[o].status = "READY"
  BY <1>1, <1>3 DEF Proceed, ConfirmCheck, ConfirmWrite, RefundCancel, RefundWrite,
     ReceiptWrite, SerializationFailure, Rows, TypeOK
<1>4. ASSUME NEW c \in Calls, Arrive(c)
      PROVE  portone'[o].status = "READY"
  BY <1>1, <1>4 DEF Arrive, ConfirmRead, RefundFullRead, RefundPartialRead,
     RefundRead, ReceiptRead, Rows
<1>. QED  BY <1>1, <1>2, <1>3, <1>4 DEF Next, vars, Environment, CreateOrder, Fulfil,
     HoldExpires, ChangeAccount, Restart, Rows

\* Money for one order at most comes in at a step, and never goes.
LEMMA CollectedGrows ==
  ASSUME TypeOK, [Next]_vars, UnpaidUntilCreated
  PROVE  \/ Collected' = Collected
         \/ \E o \in Orders \ Collected : Collected' = Collected \cup {o}
<1>1. ASSUME NEW o \in Orders, portone'[o].total = portone[o].total,
             portone'[o].status = "READY" <=> portone[o].status = "READY"
      PROVE  o \in Collected' <=> o \in Collected
  <2>1. CASE portone[o].status = "READY"
    BY <1>1, <2>1 DEF Collected
  <2>2. CASE portone[o].status # "READY"
    <3>1. orders'[o].total = orders[o].total
      BY <2>2, LastingStep DEF Lasting, UnpaidUntilCreated
    <3>. QED  BY <1>1, <3>1 DEF Collected
  <2>. QED  BY <2>1, <2>2
<1>2. Collected \subseteq Orders /\ Collected' \subseteq Orders
  BY DEF Collected
<1>3. ASSUME \A o \in Orders : /\ portone'[o].total = portone[o].total
                               /\ portone'[o].status = "READY" <=> portone[o].status = "READY"
      PROVE  Collected' = Collected
  BY <1>1, <1>2, <1>3
<1>4. ASSUME NEW p \in Orders, NEW sum \in Totals, Pay(p, sum)
      PROVE  \/ Collected' = Collected
             \/ \E o \in Orders \ Collected : Collected' = Collected \cup {o}
  <2>1. \A o \in Orders : o # p => (o \in Collected' <=> o \in Collected)
    <3>1. \A o \in Orders : o # p => portone'[o] = portone[o]
      BY <1>4 DEF Pay, TypeOK
    <3>. QED  BY <1>1, <3>1
  <2>2. p \notin Collected
    BY <1>4 DEF Pay, Collected
  <2>. QED  BY <1>2, <2>1, <2>2
<1>5. ASSUME NEW c \in Calls, RefundCancel(c)
      PROVE  Collected' = Collected
  BY <1>3, <1>5 DEF RefundCancel, CancelledPayment, TypeOK
<1>6. ASSUME NEW c \in Calls, Proceed(c)
      PROVE  Collected' = Collected
  BY <1>3, <1>5, <1>6 DEF Proceed, ConfirmCheck, ConfirmWrite, RefundWrite,
     ReceiptWrite, SerializationFailure, Rows
<1>7. ASSUME NEW c \in Calls, Arrive(c)
      PROVE  Collected' = Collected
  BY <1>3, <1>7 DEF Arrive, ConfirmRead, RefundFullRead, RefundPartialRead,
     RefundRead, ReceiptRead, Rows
<1>. QED
  BY <1>3, <1>4, <1>6, <1>7 DEF Next, vars, Environment, CreateOrder, Fulfil,
     HoldExpires, ChangeAccount, Restart, Rows

\* What a slot of a ledger comes to.
LEMMA SlotValue ==
  ASSUME NEW L, \A r \in L : r.amount \in Int,
         \A r, s \in L : Slot(r) = Slot(s) => r = s, NEW k
  PROVE  /\ (\A r \in L : Slot(r) # k) => AmountOf({r \in L : Slot(r) = k}) = 0
         /\ \A r \in L : Slot(r) = k => AmountOf({x \in L : Slot(x) = k}) = r.amount
<1>1. ASSUME \A r \in L : Slot(r) # k
      PROVE  AmountOf({r \in L : Slot(r) = k}) = 0
  <2>1. {r \in L : Slot(r) = k} = {}
    BY <1>1
  <2>. QED  BY <2>1, AmountEmpty, Zenon
<1>2. ASSUME NEW r \in L, Slot(r) = k
      PROVE  AmountOf({x \in L : Slot(x) = k}) = r.amount
  <2>1. {x \in L : Slot(x) = k} = {r}
    BY <1>2
  <2>2. AmountOf({r}) = r.amount
    BY AmountOne
  <2>. QED  BY <2>1, <2>2, Zenon
<1>. QED  BY <1>1, <1>2

Key(o, a, type) == <<o, a[1], a[2], type>>

Signed(type, amount) == IF type = "EARN" THEN amount ELSE -amount

\* What the book has in a place is the amount of the one row of it, or nothing.
LEMMA SlotTotalValue ==
  ASSUME TypeOK, SlotUnique, NEW o \in Orders, NEW a \in BookAccounts,
         NEW type \in LedgerTypes
  PROVE  /\ (\A r \in ledger : Slot(r) # Key(o, a, type)) => SlotTotal(o, a, type) = 0
         /\ \A r \in ledger : Slot(r) = Key(o, a, type) =>
              SlotTotal(o, a, type) = Signed(type, r.amount)
<1>1. /\ \A r \in ledger : r.amount \in Int
      /\ \A r, s \in ledger : Slot(r) = Slot(s) => r = s
  BY DEF TypeOK, LedgerRow, SlotUnique
<1>. DEFINE k == Key(o, a, type)
            rows == {r \in ledger : Slot(r) = k}
<1>2. SlotTotal(o, a, type) = IF rows = {} THEN 0 ELSE Signed(type, AmountOf(rows))
  BY DEF SlotTotal, Key, Signed
<1>3. /\ (\A r \in ledger : Slot(r) # k) => AmountOf({r \in ledger : Slot(r) = k}) = 0
      /\ \A r \in ledger : Slot(r) = k => AmountOf({x \in ledger : Slot(x) = k}) = r.amount
  <2>. HIDE DEF k
  <2>. QED  BY <1>1, SlotValue
<1>. QED  BY <1>2, <1>3 DEF Signed

\* The same after a step.
LEMMA SlotTotalValueNext ==
  ASSUME TypeOK', SlotUnique', NEW o \in Orders, NEW a \in BookAccounts,
         NEW type \in LedgerTypes
  PROVE  /\ (\A r \in ledger' : Slot(r) # Key(o, a, type)) => SlotTotal(o, a, type)' = 0
         /\ \A r \in ledger' : Slot(r) = Key(o, a, type) =>
              SlotTotal(o, a, type)' = Signed(type, r.amount)
<1>1. /\ \A r \in ledger' : r.amount \in Int
      /\ \A r, s \in ledger' : Slot(r) = Slot(s) => r = s
  BY DEF TypeOK, LedgerRow, SlotUnique
<1>. DEFINE k == Key(o, a, type)
            rows == {r \in ledger' : Slot(r) = k}
<1>2. SlotTotal(o, a, type)' = IF rows = {} THEN 0 ELSE Signed(type, AmountOf(rows))
  BY DEF SlotTotal, Key, Signed
<1>3. /\ (\A r \in ledger' : Slot(r) # k) => AmountOf({r \in ledger' : Slot(r) = k}) = 0
      /\ \A r \in ledger' : Slot(r) = k => AmountOf({x \in ledger' : Slot(x) = k}) = r.amount
  <2>. HIDE DEF k
  <2>. QED  BY <1>1, SlotValue
<1>. QED  BY <1>2, <1>3 DEF Signed

\* Rows of one order and one type, in slots that were free, change the totals
\* of that order and that type only, and only where they were nothing.
LEMMA SlotTotalStep ==
  ASSUME TypeOK, TypeOK', SlotUnique, SlotUnique', NEW rows,
         Clash(rows, ledger) = {}, ledger' = ledger \cup rows,
         NEW p \in Orders, NEW kind \in LedgerTypes,
         \A r \in rows : r.order = p /\ r.type = kind,
         NEW o \in Orders, NEW a \in BookAccounts, NEW type \in LedgerTypes
  PROVE  \/ SlotTotal(o, a, type)' = SlotTotal(o, a, type)
         \/ /\ o = p /\ type = kind /\ SlotTotal(o, a, type) = 0
            /\ \E r \in rows : /\ Slot(r) = Key(o, a, type)
                               /\ SlotTotal(o, a, type)' = Signed(type, r.amount)
<1>. DEFINE k == Key(o, a, type)
<1>1. ASSUME NEW r \in ledger, Slot(r) = k
      PROVE  SlotTotal(o, a, type)' = SlotTotal(o, a, type)
  <2>1. r \in ledger'
    OBVIOUS
  <2>. HIDE DEF k
  <2>2. SlotTotal(o, a, type) = Signed(type, r.amount)
    BY <1>1, SlotTotalValue DEF k
  <2>3. SlotTotal(o, a, type)' = Signed(type, r.amount)
    BY <1>1, <2>1, SlotTotalValueNext DEF k
  <2>. QED  BY <2>2, <2>3
<1>2. ASSUME NEW r \in rows, Slot(r) = k
      PROVE  /\ o = p /\ type = kind /\ SlotTotal(o, a, type) = 0
             /\ SlotTotal(o, a, type)' = Signed(type, r.amount)
  <2>1. o = p /\ type = kind
    BY <1>2 DEF Slot, Key
  <2>2. \A s \in ledger : Slot(s) # k
    BY <1>2 DEF Clash
  <2>3. r \in ledger'
    OBVIOUS
  <2>4. SlotTotal(o, a, type) = 0
    BY <2>2, SlotTotalValue
  <2>5. SlotTotal(o, a, type)' = Signed(type, r.amount)
    BY <1>2, <2>3, SlotTotalValueNext
  <2>. QED  BY <2>1, <2>4, <2>5
<1>3. ASSUME \A r \in ledger' : Slot(r) # k
      PROVE  SlotTotal(o, a, type)' = SlotTotal(o, a, type)
  <2>1. \A r \in ledger : Slot(r) # k
    BY <1>3
  <2>2. SlotTotal(o, a, type) = 0
    BY <2>1, SlotTotalValue
  <2>3. SlotTotal(o, a, type)' = 0
    BY <1>3, SlotTotalValueNext
  <2>. QED  BY <2>2, <2>3
<1>. QED  BY <1>1, <1>2, <1>3

\* A commit of confirm credits the order, whose money has come in.
LEMMA ConfirmEarns ==
  ASSUME SumInv, SumInv', [Next]_vars, UnpaidUntilCreated,
         NEW c \in Calls, ConfirmCommits(c)
  PROVE  Book!Earn(calls[c].order)
<1>. DEFINE p == calls[c].order
<1>1. /\ TypeOK /\ TypeOK' /\ SlotUnique /\ SlotUnique'
      /\ At(c, {"confirm"}, "write") /\ p \in Orders /\ "EARN" \in LedgerTypes
  BY CallInFlight DEF SumInv, IInv, ConfirmCommits, Operations, LedgerTypes
<1>2. p \in Collected
  BY <1>1, CallInFlight DEF SumInv, IInv, CallSound, CollectedInFull, Collected, At,
     Operations
<1>3. Collected' = Collected
  BY <1>1 DEF Collected, ConfirmCommits, TypeOK, OrderRow
<1>4. ASSUME NEW o \in Orders, NEW a \in BookAccounts, NEW type \in LedgerTypes
      PROVE  \/ SlotTotal(o, a, type)' = SlotTotal(o, a, type)
             \/ /\ o = p /\ type = "EARN" /\ SlotTotal(o, a, type) = 0
                /\ SlotTotal(o, a, type)' > 0
  <2>1. /\ Clash(ConfirmRows(c), ledger) = {} /\ ledger' = ledger \cup ConfirmRows(c)
        /\ \A r \in ConfirmRows(c) : r.order = p /\ r.type = "EARN" /\ r.amount > 0
    BY <1>1, ConfirmRowsFacts DEF ConfirmCommits
  <2>2. \/ SlotTotal(o, a, type)' = SlotTotal(o, a, type)
        \/ /\ o = p /\ type = "EARN" /\ SlotTotal(o, a, type) = 0
           /\ \E r \in ConfirmRows(c) : /\ Slot(r) = Key(o, a, type)
                                        /\ SlotTotal(o, a, type)' = Signed(type, r.amount)
    BY <1>1, <2>1, SlotTotalStep
  <2>. QED  BY <2>1, <2>2 DEF Signed
<1>5. SlotTotals("REVERT")' = SlotTotals("REVERT")
  <2>1. \A o \in Orders, a \in BookAccounts :
          SlotTotal(o, a, "REVERT")' = SlotTotal(o, a, "REVERT")
    BY <1>4 DEF LedgerTypes
  <2>. QED  BY <2>1 DEF SlotTotals, BookAccounts
<1>6. \A o \in Orders, a \in BookAccounts :
        \/ SlotTotal(o, a, "EARN")' = SlotTotal(o, a, "EARN")
        \/ o = p /\ SlotTotal(o, a, "EARN") = 0 /\ SlotTotal(o, a, "EARN")' > 0
  BY <1>1, <1>4
<1>7. SlotTotals("EARN")' = [SlotTotals("EARN") EXCEPT ![p] = SlotTotals("EARN")'[p]]
  BY <1>6 DEF SlotTotals, BookAccounts
<1>8. \A a \in Users \X Generations :
        SlotTotals("EARN")'[p][a] # SlotTotals("EARN")[p][a] =>
          SlotTotals("EARN")[p][a] = 0 /\ SlotTotals("EARN")'[p][a] > 0
  BY <1>1, <1>6 DEF SlotTotals, BookAccounts
<1>9. Book!Earn(p)
  <2>. HIDE DEF p
  <2>. QED  BY <1>2, <1>3, <1>5, <1>7, <1>8 DEF Book!Earn
<1>. QED  BY <1>9

\* A commit of a refund debits the order, by no more than what it earned.
LEMMA RefundReverts ==
  ASSUME SumInv, SumInv', [Next]_vars, UnpaidUntilCreated,
         NEW c \in Calls, RefundCommits(c)
  PROVE  Book!Revert(calls[c].order)
<1>. DEFINE p == calls[c].order
            ratio == calls[c].ratio
<1>1. /\ TypeOK /\ TypeOK' /\ SlotUnique /\ SlotUnique'
      /\ At(c, {"refundFull", "refundPartial"}, "write")
      /\ p \in Orders /\ ratio \in 1..WholeBps /\ ratio \in Nat /\ ratio \in 0..WholeBps
      /\ "REVERT" \in LedgerTypes /\ "EARN" \in LedgerTypes
  BY CallInFlight, RatioIsNat DEF SumInv, IInv, RefundCommits, Operations, LedgerTypes
<1>2. Collected' = Collected
  BY <1>1, RefundedOrderFacts DEF Collected, RefundCommits, TypeOK, OrderRow
<1>3. ASSUME NEW o \in Orders, NEW a \in BookAccounts, NEW type \in LedgerTypes
      PROVE  \/ SlotTotal(o, a, type)' = SlotTotal(o, a, type)
             \/ /\ o = p /\ type = "REVERT" /\ SlotTotal(o, a, type) = 0
                /\ SlotTotal(o, a, type)' \in 1..SlotTotal(o, a, "EARN")
  <2>1. /\ Clash(RefundRows(c), ledger) = {} /\ ledger' = ledger \cup RefundRows(c)
        /\ \A v \in RefundRows(c) :
             /\ v.order = p /\ v.type = "REVERT" /\ v.amount < 0
             /\ \E e \in EarnRowsOf(ledger, p) : v = RevertRow(e, ratio)
    BY <1>1, RefundRowsFacts DEF RefundCommits
  <2>2. \/ SlotTotal(o, a, type)' = SlotTotal(o, a, type)
        \/ /\ o = p /\ type = "REVERT" /\ SlotTotal(o, a, type) = 0
           /\ \E v \in RefundRows(c) : /\ Slot(v) = Key(o, a, type)
                                       /\ SlotTotal(o, a, type)' = Signed(type, v.amount)
    BY <1>1, <2>1, SlotTotalStep
  <2>3. ASSUME NEW v \in RefundRows(c), Slot(v) = Key(o, a, "REVERT"),
               SlotTotal(o, a, type)' = Signed("REVERT", v.amount)
        PROVE  SlotTotal(o, a, type)' \in 1..SlotTotal(o, a, "EARN")
    <3>1. PICK e \in EarnRowsOf(ledger, p) : v = RevertRow(e, ratio)
      BY <2>1
    <3>2. e \in ledger /\ Slot(e) = Key(o, a, "EARN")
      BY <2>3, <3>1 DEF EarnRowsOf, RevertRow, Slot, Key
    <3>3. e.amount \in Nat
      <4>1. e.amount \in Int /\ e.type = "EARN"
        BY <3>1, <3>2, <1>1 DEF EarnRowsOf, TypeOK, LedgerRow
      <4>2. e.amount > 0
        BY <3>2, <4>1 DEF SumInv, IInv, LedgerSigned
      <4>. QED  BY <4>1, <4>2
    <3>4. SlotTotal(o, a, "EARN") = e.amount
      BY <1>1, <3>2, SlotTotalValue DEF Signed
    <3>. DEFINE share == FloorBps(e.amount, ratio)
    <3>5. share \in Nat /\ share <= e.amount
      BY <1>1, <3>3, FloorBpsType, FloorBpsBound
    <3>6. v.amount = -share /\ v.amount < 0
      BY <2>1, <3>1 DEF RevertRow
    <3>. HIDE DEF share
    <3>. QED  BY <2>3, <3>3, <3>4, <3>5, <3>6 DEF Signed
  <2>. QED  BY <2>2, <2>3
<1>4. SlotTotals("EARN")' = SlotTotals("EARN")
  <2>1. \A o \in Orders, a \in BookAccounts :
          SlotTotal(o, a, "EARN")' = SlotTotal(o, a, "EARN")
    BY <1>1, <1>3
  <2>. QED  BY <2>1 DEF SlotTotals, BookAccounts
<1>5. \A o \in Orders, a \in BookAccounts :
        \/ SlotTotal(o, a, "REVERT")' = SlotTotal(o, a, "REVERT")
        \/ /\ o = p /\ SlotTotal(o, a, "REVERT") = 0
           /\ SlotTotal(o, a, "REVERT")' \in 1..SlotTotal(o, a, "EARN")
  BY <1>1, <1>3
<1>6. SlotTotals("REVERT")' =
        [SlotTotals("REVERT") EXCEPT ![p] = SlotTotals("REVERT")'[p]]
  BY <1>5 DEF SlotTotals, BookAccounts
<1>7. \A a \in Users \X Generations :
        SlotTotals("REVERT")'[p][a] # SlotTotals("REVERT")[p][a] =>
          /\ SlotTotals("REVERT")[p][a] = 0
          /\ SlotTotals("REVERT")'[p][a] \in 1..SlotTotals("EARN")[p][a]
  BY <1>1, <1>5 DEF SlotTotals, BookAccounts
<1>8. Book!Revert(p)
  <2>. HIDE DEF p
  <2>. QED  BY <1>2, <1>4, <1>6, <1>7 DEF Book!Revert
<1>. QED  BY <1>8

\* Every step is one of the book's, or none.
LEMMA BookStep ==
  ASSUME SumInv, SumInv', [Next]_vars, UnpaidUntilCreated
  PROVE  [Book!Next]_(Book!vars)
<1>1. TypeOK
  BY DEF SumInv, IInv
<1>2. CASE LedgerKept
  <2>1. /\ SlotTotals("EARN")' = SlotTotals("EARN")
        /\ SlotTotals("REVERT")' = SlotTotals("REVERT")
    BY <1>2 DEF LedgerKept, SlotTotals, SlotTotal
  <2>2. CASE Collected' = Collected
    BY <2>1, <2>2 DEF Book!vars
  <2>3. CASE \E o \in Orders \ Collected : Collected' = Collected \cup {o}
    BY <2>1, <2>3 DEF Book!Next, Book!Collect
  <2>. QED  BY <1>1, <2>2, <2>3, CollectedGrows
<1>3. ASSUME NEW c \in Calls, ConfirmCommits(c)
      PROVE  [Book!Next]_(Book!vars)
  <2>1. calls[c].order \in Orders
    BY <1>1, <1>3, CallInFlight DEF ConfirmCommits, Operations
  <2>. QED  BY <1>3, <2>1, ConfirmEarns DEF Book!Next
<1>4. ASSUME NEW c \in Calls, RefundCommits(c)
      PROVE  [Book!Next]_(Book!vars)
  <2>1. calls[c].order \in Orders
    BY <1>1, <1>4, CallInFlight DEF RefundCommits, Operations
  <2>. QED  BY <1>4, <2>1, RefundReverts DEF Book!Next
<1>. QED  BY <1>1, <1>2, <1>3, <1>4, LedgerStep

\* The empty tables are the empty book.
LEMMA BookInit == Init => Book!Init
<1>. SUFFICES ASSUME Init PROVE Book!Init
  OBVIOUS
<1>1. Collected = {}
  BY DEF Init, Collected
<1>2. ASSUME NEW o \in Orders, NEW a \in BookAccounts, NEW type \in LedgerTypes
      PROVE  SlotTotal(o, a, type) = 0
  <2>1. TypeOK /\ SlotUnique /\ ledger = {}
    BY TypeInit DEF Init, SlotUnique
  <2>. QED  BY <2>1, SlotTotalValue
<1>3. SlotTotals("EARN") = Book!Empty /\ SlotTotals("REVERT") = Book!Empty
  BY <1>2 DEF SlotTotals, Book!Empty, BookAccounts, LedgerTypes
<1>. QED  BY <1>1, <1>3 DEF Book!Init

(* The ledger and PortOne's records implement the commission book: money    *)
(* first, one credit per account, one debit and never above the credit.     *)
THEOREM LedgerImplementsBook == Spec => BookSpec
<1>. DEFINE Inv == SumInv /\ UnpaidUntilCreated
<1>1. Init => Inv
  BY InitSums DEF Init, UnpaidUntilCreated
<1>2. Inv /\ [Next]_vars => Inv'
  BY SumsStep, UnpaidUntilCreatedStep DEF SumInv, IInv
<1>3. Inv /\ Inv' /\ [Next]_vars => [Book!Next]_(Book!vars)
  BY BookStep
<1>. HIDE DEF Inv
<1>. QED  BY <1>1, <1>2, <1>3, BookInit, PTL DEF Spec, BookSpec, Book!Spec

=============================================================================
