--------------------------- MODULE ReferralEngine ---------------------------
(***************************************************************************)
(* The referral engine (engine.service.ts): who earns on a paid order, what *)
(* a refund takes back, and what becomes of the caller's transaction when a *)
(* row's slot is already taken.                                             *)
(*                                                                          *)
(* The engine runs inside the Serializable transaction of its caller, so it *)
(* is modelled by the set of rows it would insert and by the rows of that   *)
(* set that clash with UNIQUE(orderId, beneficiaryUserId, generation,       *)
(* type).  The engine catches the unique violation (P2002) and goes on, but *)
(* PostgreSQL has aborted the transaction by then: the next statement is    *)
(* refused, and without a next statement COMMIT answers as if all were well *)
(* while the whole transaction is rolled back.                              *)
(***************************************************************************)
EXTENDS Money, Accounts, Sequences

CONSTANTS
  NoUser,      \* the referrerId of an account without referrer
  referrer     \* User.referrerId, written once, at sign-up

ASSUME ReferrerAssumption ==
  /\ NoUser \notin Users
  /\ referrer \in [Users -> Users \cup {NoUser}]

Generations == 1..3
RateBps == <<300, 500, 1700>>

LedgerTypes == {"EARN", "REVERT"}
LedgerStatuses == {"PENDING", "CONFIRMED", "SUSPENDED_FOR_REVIEW"}

-----------------------------------------------------------------------------
(* getAncestors: the referrer chain of a user, three generations up.        *)

ReferrerOf(u) == IF u = NoUser THEN NoUser ELSE referrer[u]

Ancestors(u) == <<ReferrerOf(u), ReferrerOf(ReferrerOf(u)),
                  ReferrerOf(ReferrerOf(ReferrerOf(u)))>>

-----------------------------------------------------------------------------
(* Ledger rows and the unique index on them.                                *)

Slot(row) == <<row.order, row.beneficiary, row.gen, row.type>>

\* Mutated form: no unique index at all.
NoClash(rows, ledger) == {}

\* The rows whose slot the ledger already holds.
Clash(rows, ledger) == {r \in rows : \E held \in ledger : Slot(held) = Slot(r)}

EarnRowsOf(ledger, o) == {r \in ledger : r.order = o /\ r.type = "EARN"}
RevertRowsOf(ledger, o) == {r \in ledger : r.order = o /\ r.type = "REVERT"}

-----------------------------------------------------------------------------
(* distribute                                                               *)

\* The generations of a buyer that earn on an order of this total.
EarningGenerations(buyer, total) ==
  {g \in Generations :
     LET b == Ancestors(buyer)[g] IN
     /\ users[buyer].role # "STAFF"
     /\ b # NoUser
     /\ users[b].role # "STAFF"
     /\ users[b].status \notin {"BANNED", "WITHDRAWN"}
     /\ FloorBps(total, RateBps[g]) > 0}

EarnStatus(account) ==
  IF account.status = "ACTIVE" /\ account.eligible THEN "PENDING"
                                                   ELSE "SUSPENDED_FOR_REVIEW"

EarnRow(o, buyer, total, g) ==
  LET b == Ancestors(buyer)[g]
  IN  [order |-> o, beneficiary |-> b, gen |-> g, type |-> "EARN",
       amount |-> FloorBps(total, RateBps[g]), status |-> EarnStatus(users[b])]

DistributeRows(o, buyer, total) ==
  {EarnRow(o, buyer, total, g) :
     g \in EarningGenerations(buyer, total)}

\* What the caller of an aborted distribute is told.  After the first clash
\* the loop reads the beneficiary of the next ancestor it has, if any, and
\* that read is refused.
DistributeAbortAnswer(clash, buyer) ==
  IF \E r \in clash :
       /\ \A s \in clash : r.gen <= s.gen
       /\ \E g \in Generations : g > r.gen /\ Ancestors(buyer)[g] # NoUser
    THEN "error" ELSE "ok"

-----------------------------------------------------------------------------
(* revert                                                                   *)

RevertRow(earn, ratio) ==
  [order |-> earn.order, beneficiary |-> earn.beneficiary, gen |-> earn.gen,
   type |-> "REVERT", amount |-> -FloorBps(earn.amount, ratio),
   status |-> "CONFIRMED"]

\* Mutated form: the late flag is ignored.
RevertRowsWhenLate(ledger, o, ratio, late) ==
  {RevertRow(e, ratio) :
     e \in {x \in EarnRowsOf(ledger, o) : FloorBps(x.amount, ratio) > 0}}

\* The rows a refund of this ratio inserts: none when it comes late, none for
\* an EARN row whose share rounds down to nothing.
RevertRows(ledger, o, ratio, late) ==
  IF late THEN {}
  ELSE {RevertRow(e, ratio) :
          e \in {x \in EarnRowsOf(ledger, o) : FloorBps(x.amount, ratio) > 0}}

\* The EARN rows come in no particular order, so the one clash may be the
\* last insert (a silent rollback) or be followed by another (refused).
RevertAbortAnswers(rows, clash) ==
  {answer \in {"ok", "error"} :
     \/ answer = "ok" /\ \E r \in clash : clash = {r}
     \/ answer = "error" /\ \E r \in clash : rows # {r}}

=============================================================================
