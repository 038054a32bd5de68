------------------------------- MODULE Payout -------------------------------
(***************************************************************************)
(* The monthly payout (payout.service.ts): runMonthly sums the ledger of a  *)
(* period once, for all beneficiaries, and then goes through them one by    *)
(* one, reading the account and inserting a payout.  None of this is in a   *)
(* transaction: orders are paid and refunded, accounts change, other runs   *)
(* proceed, a run fails or the process restarts between any two of its statements.      *)
(*                                                                          *)
(* The ledger is the one of ReferralEngine, each row stamped with the day   *)
(* of its createdAt.                                                        *)
(***************************************************************************)
EXTENDS ReferralEngine, FiniteSets

CONSTANTS
  Orders,          \* orders that get paid
  Buyer, Total,    \* their Order.userId and totalAmountKrw
  Ratios,          \* the ratios they are refunded at
  Periods,         \* the <<periodStart, periodEnd>> the admin asks for
  LastDay,         \* bound on time
  Runs,            \* one id per call of runMonthly
  MinPayout,       \* MIN_PAYOUT_KRW
  WithholdingBps,  \* of the active tax configuration
  AdminOps         \* which operations happen to which accounts meanwhile

ASSUME PayoutAssumption ==
  /\ Buyer \in [Orders -> Users] /\ Total \in [Orders -> Nat]
  /\ Ratios \subseteq 1..WholeBps
  /\ Periods \subseteq Nat \X Nat
  /\ LastDay \in Nat /\ MinPayout \in Nat /\ WithholdingBps \in 0..WholeBps
  /\ AdminOps \subseteq {"suspendUser", "releaseMinor"} \X Users

VARIABLES
  day,             \* today
  ledger,          \* table ReferralLedger
  payouts,         \* table Payout, by its unique key
  runs             \* the calls of runMonthly

vars == <<users, day, ledger, payouts, runs>>

-----------------------------------------------------------------------------

PayoutStatuses == {"PENDING", "WITHHELD", "PAID"}

NoPayout == [status |-> "ABSENT", gross |-> 0, net |-> 0]

PayoutRow == [status : PayoutStatuses, gross : Int, net : Int]

StampedRow == [order : Orders, beneficiary : Users, gen : Generations,
               type : LedgerTypes, amount : Int, status : LedgerStatuses,
               created : 0..LastDay]

\* groupBy returned a row for each user in counted, with its sum in gross; user
\* and status are of the account read last; opened is the day of the call.
Run == [period : Periods, opened : 0..LastDay, counted : SUBSET Users,
        gross : [Users -> Int], todo : SUBSET Users,
        user : Users \cup {NoUser}, status : {"PENDING", "WITHHELD"},
        step : {"next", "write", "done", "lost"}]

Idle == [step |-> "idle"]

TypeOK ==
  /\ AccountsTypeOK
  /\ day \in 0..LastDay
  /\ ledger \subseteq StampedRow
  /\ payouts \in [Users \X Periods -> PayoutRow \cup {NoPayout}]
  /\ runs \in [Runs -> Run \cup {Idle}]

Init ==
  /\ AccountsInit
  /\ day = 0
  /\ ledger = {}
  /\ payouts = [k \in Users \X Periods |-> NoPayout]
  /\ runs = [r \in Runs |-> Idle]

-----------------------------------------------------------------------------
(* What happens to the ledger and to accounts meanwhile.                    *)

\* createdAt is taken before the transaction commits: one that is open across
\* midnight adds rows of the day before.
Commit(rows) ==
  \E created \in {day, day - 1} \cap Nat :
    ledger' = ledger \cup
      {[order |-> r.order, beneficiary |-> r.beneficiary, gen |-> r.gen,
        type |-> r.type, amount |-> r.amount, status |-> r.status,
        created |-> created] : r \in rows}

\* An order is paid and distributed, or refunded and reverted; rows that clash
\* roll their transaction back.
Distribute(o) ==
  LET rows == DistributeRows(o, Buyer[o], Total[o]) IN
  /\ Clash(rows, ledger) = {}
  /\ Commit(rows)
  /\ UNCHANGED <<users, day, payouts, runs>>

Refund(o, ratio) ==
  LET rows == RevertRows(ledger, o, ratio, FALSE) IN
  /\ Clash(rows, ledger) = {}
  /\ Commit(rows)
  /\ UNCHANGED <<users, day, payouts, runs>>

ChangeAccount(u) ==
  /\ \/ <<"suspendUser", u>> \in AdminOps /\ SuspendUser(u)
     \/ <<"releaseMinor", u>> \in AdminOps /\ ReleaseMinor(u)
  /\ UNCHANGED <<day, ledger, payouts, runs>>

NextDay ==
  /\ day < LastDay
  /\ day' = day + 1
  /\ UNCHANGED <<users, ledger, payouts, runs>>

-----------------------------------------------------------------------------
(* runMonthly                                                               *)

\* Mutated form: the period includes its end.
CountedThroughEnd(p) ==
  {r \in ledger : /\ r.created \in p[1]..p[2]
                  /\ r.status \in {"PENDING", "CONFIRMED"}}

\* The rows of a period that are summed.
Counted(p) ==
  {r \in ledger : /\ p[1] <= r.created /\ r.created < p[2]
                  /\ r.status \in {"PENDING", "CONFIRMED"}}

GrossOf(u, p) == AmountOf({r \in Counted(p) : r.beneficiary = u})

NetOf(gross) == gross - FloorBps(gross, WithholdingBps)

\* groupBy: one statement, hence one state of the ledger.
RunStart(r, p) ==
  /\ runs[r] = Idle
  /\ LET beneficiaries == {u \in Users : \E row \in Counted(p) : row.beneficiary = u} IN
     runs' = [runs EXCEPT ![r] =
                [period |-> p, opened |-> day, counted |-> beneficiaries,
                 gross |-> [u \in Users |-> GrossOf(u, p)],
                 todo |-> beneficiaries, user |-> NoUser,
                 status |-> "PENDING", step |-> "next"]]
  /\ UNCHANGED <<users, day, ledger, payouts>>

\* Mutated form: a sum below the minimum is tried again.
RunSkipRetries(r, u) ==
  /\ runs[r].step = "next" /\ u \in runs[r].todo
  /\ runs[r].gross[u] < MinPayout
  /\ UNCHANGED vars

\* A sum below the minimum is passed over.
RunSkip(r, u) ==
  /\ runs[r].step = "next" /\ u \in runs[r].todo
  /\ runs[r].gross[u] < MinPayout
  /\ runs' = [runs EXCEPT ![r].todo = @ \ {u}]
  /\ UNCHANGED <<users, day, ledger, payouts>>

\* The account decides whether the payout will be withheld.
GateStatus(account) ==
  IF account.eligible /\ account.status = "ACTIVE" THEN "PENDING" ELSE "WITHHELD"

RunRead(r, u) ==
  /\ runs[r].step = "next" /\ u \in runs[r].todo
  /\ ~(runs[r].gross[u] < MinPayout)
  /\ runs' = [runs EXCEPT ![r].todo = @ \ {u}, ![r].user = u,
                          ![r].status = GateStatus(users[u]),
                          ![r].step = "write"]
  /\ UNCHANGED <<users, day, ledger, payouts>>

RunKey(r) == <<runs[r].user, runs[r].period>>

PayoutOf(r) ==
  LET gross == runs[r].gross[runs[r].user]
  IN  [status |-> runs[r].status, gross |-> gross, net |-> NetOf(gross)]

\* Mutated form: the payout is updated when it exists.
RunWriteUpserts(r) ==
  /\ runs[r].step = "write"
  /\ payouts' = [payouts EXCEPT ![RunKey(r)] = PayoutOf(r)]
  /\ runs' = [runs EXCEPT ![r].step = "next"]
  /\ UNCHANGED <<users, day, ledger>>

\* Mutated form: a payout that exists ends the run.
RunWriteStops(r) ==
  /\ runs[r].step = "write"
  /\ IF payouts[RunKey(r)] = NoPayout
       THEN /\ payouts' = [payouts EXCEPT ![RunKey(r)] = PayoutOf(r)]
            /\ runs' = [runs EXCEPT ![r].step = "next"]
       ELSE /\ runs' = [runs EXCEPT ![r].step = "done"]
            /\ UNCHANGED payouts
  /\ UNCHANGED <<users, day, ledger>>

\* The insert, unless the period has a payout for the member (P2002).
RunWrite(r) ==
  /\ runs[r].step = "write"
  /\ \/ /\ payouts[RunKey(r)] = NoPayout
        /\ payouts' = [payouts EXCEPT ![RunKey(r)] = PayoutOf(r)]
     \/ /\ payouts[RunKey(r)] # NoPayout
        /\ UNCHANGED payouts
  /\ runs' = [runs EXCEPT ![r].step = "next"]
  /\ UNCHANGED <<users, day, ledger>>

RunDone(r) ==
  /\ runs[r].step = "next" /\ runs[r].todo = {}
  /\ runs' = [runs EXCEPT ![r].step = "done"]
  /\ UNCHANGED <<users, day, ledger, payouts>>

\* A statement fails with another error than P2002, or the process restarts:
\* the run is over where it stands.
RunLost(r) ==
  /\ runs[r].step \in {"next", "write"}
  /\ runs' = [runs EXCEPT ![r].step = "lost"]
  /\ UNCHANGED <<users, day, ledger, payouts>>

\* The admin releases a payout, whatever its status.
Release(u, p) ==
  /\ payouts[<<u, p>>] # NoPayout
  /\ payouts' = [payouts EXCEPT ![<<u, p>>].status = "PAID"]
  /\ UNCHANGED <<users, day, ledger, runs>>

-----------------------------------------------------------------------------

Environment ==
  \/ \E o \in Orders : Distribute(o) \/ \E ratio \in Ratios : Refund(o, ratio)
  \/ \E u \in Users : ChangeAccount(u)
  \/ NextDay

Proceed(r) ==
  \/ \E u \in Users : RunSkip(r, u) \/ RunRead(r, u)
  \/ RunWrite(r)
  \/ RunDone(r)

Next ==
  \/ Environment
  \/ \E r \in Runs : Proceed(r) \/ RunLost(r) \/ \E p \in Periods : RunStart(r, p)
  \/ \E u \in Users, p \in Periods : Release(u, p)

Spec == Init /\ [][Next]_vars

\* A run that has begun goes on; nobody has to begin one.
FairSpec == Spec /\ \A r \in Runs : WF_vars(Proceed(r))

-----------------------------------------------------------------------------
(* Correctness                                                              *)

\* A payout never exceeds the commissions the member earned in its period and
\* that were not held, however the ledger has moved since they were summed.
PayoutBacked ==
  \A u \in Users, p \in Periods :
    payouts[<<u, p>>].gross <=
      AmountOf({row \in ledger :
                  /\ row.beneficiary = u
                  /\ row.type = "EARN" /\ row.status = "PENDING"
                  /\ p[1] <= row.created /\ row.created < p[2]})

\* The tables and the runs keep their types, the sums included, and what is paid
\* was earned.
PayoutsSound == TypeOK /\ PayoutBacked

\* A run that ended has left a payout for everyone whose sum reached the
\* minimum, whichever run inserted it and whatever was lost before.
CompleteRun ==
  \A r \in Runs : runs[r].step = "done" =>
    \A u \in runs[r].counted :
      \/ runs[r].gross[u] < MinPayout
      \/ payouts[<<u, runs[r].period>>] # NoPayout

\* A payout's sums never change, and once released it stays so, however often
\* its period is run again.
PayoutFinal ==
  [][\A k \in Users \X Periods :
       payouts[k] # NoPayout =>
         \/ payouts'[k] = payouts[k]
         \/ payouts'[k] = [payouts[k] EXCEPT !.status = "PAID"]]_vars

\* A run comes to its end unless it is lost to a failure.
RunEnds == \A r \in Runs : runs[r].step = "next" ~> runs[r].step \in {"done", "lost"}

\* A run of a period that was over, and with it every transaction begun in it.
ClosedRun(r, p) ==
  runs[r].step = "done" /\ runs[r].period = p /\ runs[r].opened > p[2]

\* A sum below the minimum is carried over to the next period.
CarriedOver ==
  \A r, s \in Runs, u \in Users, p, q \in Periods :
    /\ ClosedRun(r, p) /\ ClosedRun(s, q) /\ p[2] = q[1]
    /\ GrossOf(u, p) + GrossOf(u, q) >= MinPayout
    => payouts[<<u, p>>] # NoPayout \/ payouts[<<u, q>>] # NoPayout

=============================================================================
