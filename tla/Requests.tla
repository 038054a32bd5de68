------------------------------ MODULE Requests ------------------------------
(***************************************************************************)
(* The requests of the server that touch no money: what administrators do   *)
(* to accounts and the audit log they leave (admin.service.ts, the audit    *)
(* interceptor), a member's withdrawal, which leaves none (user.service.ts), *)
(* PortOne's notices (portone.webhook.controller.ts) and the server's own    *)
(* cart (cart.service.ts).                                                  *)
(*                                                                          *)
(* None of them opens a transaction: a request is a sequence of statements, *)
(* and other requests run between any two.                                  *)
(***************************************************************************)
EXTENDS Accounts, Integers, Sequences, SequencesExt

CONSTANTS
  Calls,          \* one id per request
  MarkRoles,      \* the roles markStaff is asked for
  EventTypes,     \* types of PortOne's notices
  EventTimes,     \* their timestamps
  Quantities      \* of the product that is put into the cart

ASSUME RequestsAssumption ==
  /\ MarkRoles \subseteq Roles
  /\ Quantities \subseteq Nat \ {0}

VARIABLES
  audit,          \* table AuditLog, in the order of insertion
  events,         \* table WebhookEvent, of one payment
  carts,          \* tables Cart and CartItem
  calls           \* the requests: what they were asked and where they stand

-----------------------------------------------------------------------------

AdminOps == {"flag", "suspend", "markStaff", "releaseMinor"}

CartOps == {"getCart", "upsertItem", "removeItem", "clearCart"}

Steps == {"update", "row", "log", "insert", "mark", "find", "create", "write",
          "ok", "refused", "lost", "halfway"}

\* call: the request that left the row, by: who wrote it.
AuditRow == [op : AdminOps, member : Users, call : Calls,
             by : {"service", "interceptor"}]

Event == [type : EventTypes, time : EventTimes]

\* A member's cart: whether the row exists, and the quantity of the product, 0
\* when it has no item.
CartRow == [made : BOOLEAN, quantity : Quantities \cup {0}]

\* with: the role, the notice or the quantity the request carries.
Call == [op : AdminOps \cup CartOps \cup {"notice", "withdraw"}, member : Users,
         with : Roles \cup Event \cup Quantities \cup {0}, step : Steps]

Idle == [op |-> "none", step |-> "idle"]

RequestsTypeOK ==
  /\ AccountsTypeOK
  /\ audit \in Seq(AuditRow)
  /\ events \in [Event -> {"unknown", "received", "processed"}]
  /\ carts \in [Users -> CartRow]
  /\ \A c \in Calls : \/ calls[c] = Idle
                      \/ /\ DOMAIN calls[c] = {"op", "member", "with", "step"}
                         /\ calls[c].step \in Steps

RequestsInit ==
  /\ AccountsInit
  /\ audit = <<>>
  /\ events = [e \in Event |-> "unknown"]
  /\ carts = [m \in Users |-> [made |-> FALSE, quantity |-> 0]]
  /\ calls = [c \in Calls |-> Idle]

At(c, ops, step) == calls[c].op \in ops /\ calls[c].step = step

Arrive(c, op, m, with, step) ==
  /\ calls[c] = Idle
  /\ calls' = [calls EXCEPT ![c] = [op |-> op, member |-> m, with |-> with,
                                   step |-> step]]
  /\ UNCHANGED <<users, audit, events, carts>>

GoTo(c, step) == calls' = [calls EXCEPT ![c].step = step]

-----------------------------------------------------------------------------
(* AdminService and the audit log                                           *)

\* The UPDATE.
AdminUpdate(c) ==
  LET m == calls[c].member IN
  /\ calls[c].step = "update"
  /\ \/ /\ calls[c].op = "flag"
        /\ FlagUser(m)
     \/ /\ calls[c].op = "suspend"
        /\ SuspendUser(m)
     \/ /\ calls[c].op = "markStaff"
        /\ MarkStaff(m, calls[c].with)
     \/ /\ calls[c].op = "releaseMinor"
        /\ ReleaseMinor(m)
  /\ GoTo(c, "row")
  /\ UNCHANGED <<audit, events, carts>>

\* UserService.withdraw: the UPDATE is all of it, and no row says so.
MemberWithdraw(c) ==
  /\ At(c, {"withdraw"}, "update")
  /\ Withdraw(calls[c].member)
  /\ GoTo(c, "ok")
  /\ UNCHANGED <<audit, events, carts>>

RowOf(c, by) == [op |-> calls[c].op, member |-> calls[c].member, call |-> c,
                 by |-> by]

\* Mutated form: the row of a release is left to the interceptor.
AdminRowLeft(c) ==
  /\ calls[c].step = "row"
  /\ audit' = IF calls[c].op = "releaseMinor" THEN audit
                                              ELSE Append(audit, RowOf(c, "service"))
  /\ GoTo(c, "log")
  /\ UNCHANGED <<users, events, carts>>

\* The service's own row; then the handler returns.
AdminRow(c) ==
  /\ calls[c].step = "row"
  /\ audit' = Append(audit, RowOf(c, "service"))
  /\ GoTo(c, "log")
  /\ UNCHANGED <<users, events, carts>>

\* The interceptor's row, which the answer does not wait for; when the insert
\* fails the error is logged and dropped.
AuditLog(c) ==
  /\ calls[c].step = "log"
  /\ \/ audit' = Append(audit, RowOf(c, "interceptor"))
     \/ UNCHANGED audit
  /\ GoTo(c, "ok")
  /\ UNCHANGED <<users, events, carts>>

-----------------------------------------------------------------------------
(* PortoneWebhookController                                                 *)

\* A notice known by its payment, type and timestamp is a duplicate, which is
\* an answer of success.
NoticeInsert(c) ==
  LET e == calls[c].with IN
  /\ calls[c].step = "insert"
  /\ \/ /\ events[e] = "unknown"
        /\ events' = [events EXCEPT ![e] = "received"]
        /\ GoTo(c, "mark")
     \/ /\ events[e] # "unknown"
        /\ UNCHANGED events
        /\ GoTo(c, "ok")
  /\ UNCHANGED <<users, audit, carts>>

\* Mutated form: only what was noticed as paid is marked.
NoticeMarkPaid(c) ==
  /\ calls[c].step = "mark"
  /\ events' = [e \in Event |->
                 IF events[e] # "unknown" /\ e.type = calls[c].with.type
                      /\ e.type = "paid"
                   THEN "processed" ELSE events[e]]
  /\ GoTo(c, "ok")
  /\ UNCHANGED <<users, audit, carts>>

\* The dispatch of a paid notice only logs; then every row of the payment and
\* the type is marked, whatever its timestamp.
NoticeMark(c) ==
  /\ calls[c].step = "mark"
  /\ events' = [e \in Event |->
                 IF events[e] # "unknown" /\ e.type = calls[c].with.type
                   THEN "processed" ELSE events[e]]
  /\ GoTo(c, "ok")
  /\ UNCHANGED <<users, audit, carts>>

-----------------------------------------------------------------------------
(* CartService                                                              *)

CartFind(c) ==
  /\ calls[c].step = "find"
  /\ GoTo(c, IF carts[calls[c].member].made THEN "write" ELSE "create")
  /\ UNCHANGED <<users, audit, events, carts>>

\* Mutated form: the cart that was made meanwhile is replaced.
CartCreateReplaces(c) ==
  /\ calls[c].step = "create"
  /\ carts' = [carts EXCEPT ![calls[c].member] = [made |-> TRUE, quantity |-> 0]]
  /\ GoTo(c, "write")
  /\ UNCHANGED <<users, audit, events>>

\* userId is unique: a cart that was made meanwhile fails the request.
CartCreate(c) ==
  /\ calls[c].step = "create"
  /\ carts' = [carts EXCEPT ![calls[c].member].made = TRUE]
  /\ GoTo(c, IF carts[calls[c].member].made THEN "refused" ELSE "write")
  /\ UNCHANGED <<users, audit, events>>

\* upsert sets the quantity, deleteMany is content with none, and the delete of
\* an item that is not there fails.
CartWrite(c) ==
  LET m == calls[c].member
      quantity == CASE calls[c].op = "getCart" -> carts[m].quantity
                    [] calls[c].op = "upsertItem" -> calls[c].with
                    [] calls[c].op \in {"removeItem", "clearCart"} -> 0
  IN  /\ calls[c].step = "write"
      /\ carts' = [carts EXCEPT ![m].quantity = quantity]
      /\ GoTo(c, IF calls[c].op = "removeItem" /\ carts[m].quantity = 0
                   THEN "refused" ELSE "ok")
      /\ UNCHANGED <<users, audit, events>>

-----------------------------------------------------------------------------

ArriveAny(c) ==
  \E m \in Users :
    \/ \E op \in {"flag", "suspend", "releaseMinor", "withdraw"} :
         Arrive(c, op, m, 0, "update")
    \/ \E role \in MarkRoles : Arrive(c, "markStaff", m, role, "update")
    \/ \E op \in {"getCart", "removeItem", "clearCart"} : Arrive(c, op, m, 0, "find")
    \/ \E q \in Quantities : Arrive(c, "upsertItem", m, q, "find")
    \/ \E e \in Event : Arrive(c, "notice", m, e, "insert")

Proceed(c) ==
  \/ AdminUpdate(c) \/ AdminRow(c) \/ AuditLog(c) \/ MemberWithdraw(c)
  \/ NoticeInsert(c) \/ NoticeMark(c)
  \/ CartFind(c) \/ CartCreate(c) \/ CartWrite(c)

Pending == {"update", "row", "log", "insert", "mark", "find", "create", "write"}

\* The process restarts: the call is gone and its statements stay, which leaves
\* halfway one that has changed the account or recorded the notice.
CallLost(c) ==
  /\ calls[c].step \in Pending
  /\ GoTo(c, IF calls[c].step \in {"row", "mark"} THEN "halfway" ELSE "lost")
  /\ UNCHANGED <<users, audit, events, carts>>

\* Answered with success; the interceptor may still be at its row.
Succeeded(c) == calls[c].step \in {"log", "ok"}

-----------------------------------------------------------------------------
(* Correctness                                                              *)

StatusAfter(op) == CASE op = "flag" -> "UNDER_REVIEW"
                     [] op = "suspend" -> "SUSPENDED"
                     [] op = "releaseMinor" -> "ACTIVE"
                     [] op = "withdraw" -> "WITHDRAWN"
                     [] op = "markStaff" -> "unchanged"

FirstStatus(m) == IF m \in Minors THEN "MINOR_HOLD" ELSE "ACTIVE"

\* Whatever else was asked meanwhile, a member's status is one the service has a
\* row for, or the member's own withdrawal; or the call that set it is about to
\* write the row, or was lost between the two statements.
StatusTraced ==
  \A m \in Users : users[m].status # FirstStatus(m) =>
    \/ \E i \in DOMAIN audit :
         /\ audit[i].member = m
         /\ audit[i].by = "service"
         /\ StatusAfter(audit[i].op) = users[m].status
    \/ \E c \in Calls : /\ \/ At(c, AdminOps, "row") \/ At(c, AdminOps, "halfway")
                           \/ At(c, {"withdraw"}, "ok")
                        /\ calls[c].member = m
                        /\ StatusAfter(calls[c].op) = users[m].status

\* A notice that is recorded is processed, unless the delivery that recorded it is
\* at work or was lost between its two statements.
NoticesSettled ==
  \A e \in Event : events[e] = "received" =>
    \E c \in Calls : /\ calls[c].op = "notice"
                     /\ calls[c].with = e
                     /\ calls[c].step \in {"mark", "halfway"}

\* What a member was told is in the cart stays there until something takes it
\* out: requests that race to create the cart lose no item.
ItemsKept ==
  \A c \in Calls : At(c, {"upsertItem"}, "ok") =>
    \/ carts[calls[c].member].quantity # 0
    \/ \E d \in Calls : /\ At(d, {"removeItem", "clearCart"}, "ok")
                        /\ calls[d].member = calls[c].member

=============================================================================
