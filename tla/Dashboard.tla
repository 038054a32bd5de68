----------------------------- MODULE Dashboard -----------------------------
(***************************************************************************)
(* What the referral dashboard makes of the ledger (dashboard.service.ts):  *)
(* the sums of getSummary, each a query of its own and some of them of the  *)
(* current month only, and the estimate that getTree shows at every member  *)
(* below the user.                                                          *)
(*                                                                          *)
(* The calendar is laid over OrderPayment: a month that goes on, and the    *)
(* month of the createdAt of every order and of every row of the ledger.    *)
(***************************************************************************)
EXTENDS OrderPayment

CONSTANT MaxMonth    \* bound on the months that pass

ASSUME DashboardAssumption == MaxMonth \in Nat

VARIABLES
  month,       \* the current month of Korea
  ordered,     \* Order.createdAt of the orders there are, by its month
  entered      \* ReferralLedger.createdAt of the rows there are, by its month

dashVars == <<users, orders, portone, ledger, refunds, calls,
              month, ordered, entered>>

Created == {o \in Orders : orders[o].status # "ABSENT"}

DashInit ==
  /\ Init
  /\ month = 1
  /\ ordered = [o \in Created |-> month]
  /\ entered = [r \in ledger |-> month]

\* @default(now()): what is in a table for the first time is of this month.
Stamped(stamps, rows) ==
  [r \in rows |-> IF r \in DOMAIN stamps THEN stamps[r] ELSE month]

Stamp ==
  /\ ordered' = Stamped(ordered, Created')
  /\ entered' = Stamped(entered, ledger')
  /\ UNCHANGED month

NewMonth ==
  /\ month < MaxMonth
  /\ month' = month + 1
  /\ UNCHANGED <<vars, ordered, entered>>

DashNext == NewMonth \/ (Next /\ Stamp)

DashSpec == DashInit /\ [][DashNext]_dashVars

\* The fairness of OrderPayment: requests being served go on, months need not.
DashFairSpec == DashSpec /\ \A c \in Calls : WF_dashVars(Proceed(c) /\ Stamp)

-----------------------------------------------------------------------------
(* The queries.  monthStart <= createdAt < monthEnd holds of what the       *)
(* current month entered.                                                   *)

RowsTo(u, type) == {r \in ledger : r.beneficiary = u /\ r.type = type}

ThisMonth(rows) == {r \in rows : entered[r] = month}

\* genAgg
GenSum(u, g) == AmountOf({r \in ThisMonth(RowsTo(u, "EARN")) : r.gen = g})

\* Mutated form: the reverts of all months, as revertedCount counts them.
RevertSumEver(u) == AmountOf(RowsTo(u, "REVERT"))

RevertSum(u) == AmountOf(ThisMonth(RowsTo(u, "REVERT")))

\* The net of this month.
Expected(u) == GenSum(u, 1) + GenSum(u, 2) + GenSum(u, 3) + RevertSum(u)

\* These two are of all time.
Payable(u) == AmountOf({r \in RowsTo(u, "EARN") : r.status = "PENDING"})

WithheldRows(u) == {r \in RowsTo(u, "EARN") : r.status = "SUSPENDED_FOR_REVIEW"}

Withheld(u) == AmountOf(WithheldRows(u))

WithheldCount(u) == Cardinality(WithheldRows(u))

\* The sum of this month, again.
Reverted(u) == IF RevertSum(u) < 0 THEN -RevertSum(u) ELSE 0

ContributingStatuses == {"PAID", "PREPARING", "SHIPPED", "DELIVERED", "CONFIRMED"}

OrdersOf(m) == {o \in Created : Buyer[o] = m /\ ordered[o] = month}

Contribution(m) ==
  SumFunction([o \in {x \in OrdersOf(m) : orders[x].status \in ContributingStatuses}
                 |-> orders[o].total])

\* What a member of generation g is shown to have earned the user this month.
MyEarning(m, g) == FloorBps(Contribution(m), RateBps[g])

-----------------------------------------------------------------------------

\* The figures of the dashboard, each queried for itself and over its own span
\* of time, add up: what is payable and what is withheld is the net of this
\* month, with what it reverted and with what earlier months had earned; and
\* something is withheld just when rows are.
FiguresAgree ==
  \A u \in Users :
    LET earns == RowsTo(u, "EARN")
    IN  /\ Expected(u) + Reverted(u) + AmountOf(earns \ ThisMonth(earns))
             = Payable(u) + Withheld(u)
        /\ Withheld(u) > 0 <=> WithheldCount(u) > 0

\* A month is expected to bring a user less than nothing only where it takes
\* back what an earlier month had brought.
LossFromEarlier ==
  \A u \in Users : Expected(u) < 0 =>
    \E v \in ThisMonth(RowsTo(u, "REVERT")), e \in RowsTo(u, "EARN") :
      e.order = v.order /\ e.gen = v.gen /\ entered[e] < month

Unrefunded == {o \in Orders : \A r \in refunds : r.order # o}

\* The tree never shows less than the ledger pays: of the orders that a member
\* made this month and that no refund has touched, a user has earned no more
\* than the estimate, although the one rounds each order and the other their sum.
EstimateCovers ==
  \A u \in Users, m \in Users, g \in Generations :
    Ancestors(m)[g] = u =>
      AmountOf({r \in RowsTo(u, "EARN") :
                  /\ r.gen = g /\ Buyer[r.order] = m
                  /\ ordered[r.order] = month /\ r.order \in Unrefunded})
        <= MyEarning(m, g)

\* The figures and the tree of the dashboard agree with the ledger.
DashboardSound == FiguresAgree /\ LossFromEarlier /\ EstimateCovers

=============================================================================
