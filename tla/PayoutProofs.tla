---------------------------- MODULE PayoutProofs ----------------------------
(***************************************************************************)
(* Proofs about Payout for every set of orders, members, periods and runs.  *)
(*                                                                          *)
(* What a run has summed is no more than what the member earned in the      *)
(* period: EARN rows are positive and PENDING or held, REVERT rows are      *)
(* negative, and the ledger only grows.  So a payout written long after the *)
(* sum is still backed.                                                     *)
(***************************************************************************)
EXTENDS Payout, MoneyProofs, TLAPS

Keys == Users \X Periods

IsPayout(v) ==
  /\ v = [status |-> v.status, gross |-> v.gross, net |-> v.net]
  /\ v.status \in PayoutStatuses /\ v.gross \in Int /\ v.net \in Int

PayoutsShaped ==
  /\ payouts = [k \in Keys |-> payouts[k]]
  /\ \A k \in Keys : payouts[k] = NoPayout \/ IsPayout(payouts[k])

IsRun(v) ==
  /\ v = [period |-> v.period, opened |-> v.opened, counted |-> v.counted,
          gross |-> v.gross, todo |-> v.todo, user |-> v.user,
          status |-> v.status, step |-> v.step]
  /\ v.period \in Periods /\ v.opened \in 0..LastDay
  /\ v.counted \subseteq Users /\ v.gross \in [Users -> Int]
  /\ v.todo \subseteq Users /\ v.user \in Users \cup {NoUser}
  /\ v.status \in {"PENDING", "WITHHELD"}
  /\ v.step \in {"next", "write", "done", "lost"}
  /\ v.step = "write" => v.user \in Users

RunsShaped ==
  /\ runs = [r \in Runs |-> runs[r]]
  /\ \A r \in Runs : runs[r] = Idle \/ IsRun(runs[r])

\* The ledger is a finite table; what is earned is positive and PENDING or held,
\* what is reverted negative.
LedgerSound ==
  /\ ledger \subseteq StampedRow /\ IsFiniteSet(ledger)
  /\ \A row \in ledger :
       /\ row.type = "EARN" => row.amount >= 0 /\ row.status # "CONFIRMED"
       /\ row.type = "REVERT" => row.amount <= 0

\* The commissions a member earned in a period and that were not held.
EarnedRows(u, p) ==
  {row \in ledger : /\ row.beneficiary = u
                    /\ row.type = "EARN" /\ row.status = "PENDING"
                    /\ p[1] <= row.created /\ row.created < p[2]}

EarnedIn(u, p) == AmountOf(EarnedRows(u, p))

\* What a run owes to a member it counted: nothing when the sum is too small,
\* else a payout, unless the member is still to come.
Served(r, u) ==
  \/ u \in runs[r].todo
  \/ runs[r].gross[u] < MinPayout
  \/ payouts[<<u, runs[r].period>>] # NoPayout
  \/ runs[r].step = "write" /\ runs[r].user = u

RunSound(r) ==
  /\ runs[r].step \in {"next", "write", "done"} =>
       \A u \in runs[r].counted : Served(r, u)
  /\ runs[r].step = "done" => runs[r].todo = {}

IInv ==
  /\ AccountsTypeOK /\ day \in 0..LastDay /\ LedgerSound
  /\ PayoutsShaped /\ RunsShaped /\ \A r \in Runs : RunSound(r)

\* The sums of every run are backed, and so are the payouts.
RunsBacked ==
  \A r \in Runs : runs[r] # Idle =>
    \A u \in Users : runs[r].gross[u] <= EarnedIn(u, runs[r].period)

SumInv == IInv /\ RunsBacked /\ PayoutBacked

-----------------------------------------------------------------------------
(* The ledger.                                                              *)

\* The constants are what the program has: shares of the whole.
LEMMA Withheld == WithholdingBps \in Nat /\ \A ratio \in Ratios : ratio \in Nat
BY PayoutAssumption DEF WholeBps

\* The ancestors of an account are accounts or missing.
LEMMA AncestorsType ==
  ASSUME NEW u \in Users, NEW g \in Generations
  PROVE  Ancestors(u)[g] \in Users \cup {NoUser}
<1>1. \A x \in Users \cup {NoUser} : ReferrerOf(x) \in Users \cup {NoUser}
  BY ReferrerAssumption DEF ReferrerOf
<1>. QED  BY <1>1 DEF Ancestors, Generations

\* What the engine hands to the caller's transaction: finitely many rows, typed
\* but for their day, an EARN row positive and never CONFIRMED, a REVERT row
\* negative.
RowsSound(rows) ==
  /\ IsFiniteSet(rows)
  /\ \A r \in rows :
       /\ r.order \in Orders /\ r.beneficiary \in Users /\ r.gen \in Generations
       /\ r.type \in LedgerTypes /\ r.amount \in Int /\ r.status \in LedgerStatuses
       /\ r.type = "EARN" => r.amount >= 0 /\ r.status # "CONFIRMED"
       /\ r.type = "REVERT" => r.amount <= 0

\* An order that is paid earns at most three positive rows.
LEMMA DistributedRows ==
  ASSUME NEW o \in Orders
  PROVE  RowsSound(DistributeRows(o, Buyer[o], Total[o]))
<1>. DEFINE gens == EarningGenerations(Buyer[o], Total[o])
            f == [g \in gens |-> EarnRow(o, Buyer[o], Total[o], g)]
            rows == DistributeRows(o, Buyer[o], Total[o])
<1>1. Buyer[o] \in Users /\ Total[o] \in Nat
  BY PayoutAssumption
<1>2. IsFiniteSet(rows)
  <2>1. gens \in SUBSET Nat /\ \A g \in gens : g <= 3
    BY DEF EarningGenerations, Generations
  <2>2. rows = {f[g] : g \in gens}
    BY DEF DistributeRows
  <2>. HIDE DEF gens, f, rows
  <2>3. IsFiniteSet(gens)
    BY <2>1, FS_BoundedSetOfNaturals
  <2>. QED  BY <2>2, <2>3, FiniteImage
<1>3. ASSUME NEW g \in gens
      PROVE  EarnRow(o, Buyer[o], Total[o], g)
               \in [order : Orders, beneficiary : Users, gen : Generations,
                    type : {"EARN"}, amount : Nat,
                    status : {"PENDING", "SUSPENDED_FOR_REVIEW"}]
  <2>1. g \in Generations /\ Ancestors(Buyer[o])[g] # NoUser
    BY <1>3 DEF EarningGenerations
  <2>2. Ancestors(Buyer[o])[g] \in Users
    BY <1>1, <2>1, AncestorsType
  <2>3. RateBps[g] \in Nat
    BY <2>1 DEF Generations, RateBps
  <2>4. FloorBps(Total[o], RateBps[g]) \in Nat
    BY <1>1, <2>3, FloorBpsType
  <2>5. EarnStatus(users[Ancestors(Buyer[o])[g]]) \in {"PENDING", "SUSPENDED_FOR_REVIEW"}
    BY DEF EarnStatus
  <2>. QED  BY <2>1, <2>2, <2>4, <2>5 DEF EarnRow
<1>4. \A r \in rows :
        r \in [order : Orders, beneficiary : Users, gen : Generations,
               type : {"EARN"}, amount : Nat,
               status : {"PENDING", "SUSPENDED_FOR_REVIEW"}]
  BY <1>3 DEF DistributeRows
<1>. HIDE DEF rows
<1>5. RowsSound(rows)
  BY <1>2, <1>4 DEF RowsSound, LedgerTypes, LedgerStatuses
<1>. QED  BY <1>5 DEF rows

\* A refund takes back no more than was earned: its rows are not positive.
LEMMA RevertedRows ==
  ASSUME LedgerSound, NEW o \in Orders, NEW ratio \in Ratios
  PROVE  RowsSound(RevertRows(ledger, o, ratio, FALSE))
<1>. DEFINE X == {e \in EarnRowsOf(ledger, o) : FloorBps(e.amount, ratio) > 0}
            f == [e \in X |-> RevertRow(e, ratio)]
            rows == RevertRows(ledger, o, ratio, FALSE)
<1>1. rows = {f[e] : e \in X}
  BY DEF RevertRows
<1>2. IsFiniteSet(rows)
  <2>1. IsFiniteSet(X)
    BY FS_Subset DEF EarnRowsOf, LedgerSound
  <2>. HIDE DEF X, f, rows
  <2>. QED  BY <1>1, <2>1, FiniteImage
<1>3. ASSUME NEW e \in X
      PROVE  LET r == RevertRow(e, ratio) IN
             /\ r.order \in Orders /\ r.beneficiary \in Users /\ r.gen \in Generations
             /\ r.type = "REVERT" /\ r.amount \in Int /\ r.status = "CONFIRMED"
             /\ r.amount <= 0
  <2>1. e \in StampedRow
    BY DEF LedgerSound, EarnRowsOf
  <2>2. FloorBps(e.amount, ratio) \in Int
    BY <2>1, Withheld, FloorBpsInt DEF StampedRow
  <2>3. FloorBps(e.amount, ratio) > 0
    OBVIOUS
  <2>. DEFINE share == FloorBps(e.amount, ratio)
  <2>4. RevertRow(e, ratio) =
          [order |-> e.order, beneficiary |-> e.beneficiary, gen |-> e.gen,
           type |-> "REVERT", amount |-> -share, status |-> "CONFIRMED"]
    BY DEF RevertRow
  <2>. HIDE DEF share
  <2>5. share \in Int /\ share > 0
    BY <2>2, <2>3 DEF share
  <2>. QED  BY <2>1, <2>4, <2>5 DEF StampedRow
<1>4. RowsSound(rows)
  <2>1. \A r \in rows :
          /\ r.order \in Orders /\ r.beneficiary \in Users /\ r.gen \in Generations
          /\ r.type = "REVERT" /\ r.amount \in Int /\ r.status = "CONFIRMED"
          /\ r.amount <= 0
    BY <1>1, <1>3
  <2>. HIDE DEF rows
  <2>. QED  BY <1>2, <2>1 DEF RowsSound, LedgerTypes, LedgerStatuses
<1>. QED  BY <1>4

\* The ledger stays a sound table when such rows are committed, and only grows.
LEMMA CommitSound ==
  ASSUME LedgerSound, day \in 0..LastDay, NEW rows, RowsSound(rows), Commit(rows)
  PROVE  LedgerSound' /\ ledger \subseteq ledger'
<1>. DEFINE Stamp(r, created) ==
       [order |-> r.order, beneficiary |-> r.beneficiary, gen |-> r.gen,
        type |-> r.type, amount |-> r.amount, status |-> r.status,
        created |-> created]
<1>1. PICK created \in {day, day - 1} \cap Nat :
        ledger' = ledger \cup {Stamp(r, created) : r \in rows}
  BY DEF Commit
<1>2. created \in 0..LastDay
  BY PayoutAssumption
<1>. DEFINE f == [r \in rows |-> Stamp(r, created)]
            new == {f[r] : r \in rows}
<1>3. ledger' = ledger \cup new
  BY <1>1
<1>4. IsFiniteSet(new)
  <2>. HIDE DEF f
  <2>. QED  BY FiniteImage DEF RowsSound
<1>5. \A s \in new :
        /\ s \in StampedRow
        /\ s.type = "EARN" => s.amount >= 0 /\ s.status # "CONFIRMED"
        /\ s.type = "REVERT" => s.amount <= 0
  BY <1>2 DEF RowsSound, StampedRow
<1>. HIDE DEF new
<1>6. IsFiniteSet(ledger')
  BY <1>3, <1>4, FS_Union DEF LedgerSound
<1>. QED  BY <1>3, <1>5, <1>6 DEF LedgerSound

\* No step breaks the ledger, and none removes a row.
LEMMA LedgerStep ==
  ASSUME LedgerSound, day \in 0..LastDay, [Next]_vars
  PROVE  LedgerSound' /\ ledger \subseteq ledger'
<1>1. ASSUME NEW o \in Orders, Distribute(o)
      PROVE  LedgerSound' /\ ledger \subseteq ledger'
  BY <1>1, DistributedRows, CommitSound DEF Distribute
<1>2. ASSUME NEW o \in Orders, NEW ratio \in Ratios, Refund(o, ratio)
      PROVE  LedgerSound' /\ ledger \subseteq ledger'
  BY <1>2, RevertedRows, CommitSound DEF Refund
<1>3. CASE UNCHANGED ledger
  BY <1>3 DEF LedgerSound
<1>4. \/ UNCHANGED ledger
      \/ \E o \in Orders : Distribute(o) \/ \E ratio \in Ratios : Refund(o, ratio)
  BY DEF Next, Environment, ChangeAccount, NextDay, Proceed, RunSkip, RunRead,
         RunWrite, RunDone, RunLost, RunStart, Release, vars
<1>. QED  BY <1>1, <1>2, <1>3, <1>4

\* What a member earned in a period never becomes less.
LEMMA EarnedGrows ==
  ASSUME LedgerSound, LedgerSound', ledger \subseteq ledger', NEW u, NEW p
  PROVE  /\ EarnedIn(u, p) \in Nat /\ EarnedIn(u, p)' \in Nat
         /\ EarnedIn(u, p) <= EarnedIn(u, p)'
<1>1. /\ IsFiniteSet(EarnedRows(u, p))
      /\ \A r \in EarnedRows(u, p) : r.amount \in Nat
  BY FS_Subset DEF EarnedRows, LedgerSound, StampedRow
<1>2. /\ IsFiniteSet(EarnedRows(u, p)')
      /\ \A r \in EarnedRows(u, p)' : r.amount \in Nat
  BY FS_Subset DEF EarnedRows, LedgerSound, StampedRow
<1>3. EarnedRows(u, p) \subseteq EarnedRows(u, p)'
  BY DEF EarnedRows
<1>. QED  BY <1>1, <1>2, <1>3, AmountNat, AmountSubset DEF EarnedIn

\* The sum of what a run counts for a member is an integer and no more than what
\* the member earned: the rows it counts beside those are reversals.
LEMMA GrossIsBacked ==
  ASSUME LedgerSound, NEW u \in Users, NEW p \in Periods
  PROVE  GrossOf(u, p) \in Int /\ GrossOf(u, p) <= EarnedIn(u, p)
<1>. DEFINE C == {r \in Counted(p) : r.beneficiary = u}
            E == EarnedRows(u, p)
<1>1. IsFiniteSet(C) /\ IsFiniteSet(E) /\ IsFiniteSet(C \ E)
  BY FS_Subset DEF EarnedRows, Counted, LedgerSound
<1>2. \A r \in C \cup E : r.amount \in Int
  BY DEF EarnedRows, Counted, LedgerSound, StampedRow
<1>3. E \subseteq C
  BY DEF EarnedRows, Counted
<1>4. \A r \in C \ E : r.amount <= 0
  BY DEF EarnedRows, Counted, LedgerSound, StampedRow, LedgerTypes
<1>. HIDE DEF C, E
<1>5. AmountOf(C \ E) \in Int /\ AmountOf(C \ E) <= 0
  BY <1>1, <1>2, <1>4, AmountNegative
<1>6. AmountOf(E) \in Int
  BY <1>1, <1>2, AmountType
<1>7. AmountOf(E \cup (C \ E)) = AmountOf(E) + AmountOf(C \ E)
  BY <1>1, <1>2, AmountUnion, E \cap (C \ E) = {}
<1>8. E \cup (C \ E) = C
  BY <1>3
<1>9. GrossOf(u, p) = AmountOf(C) /\ EarnedIn(u, p) = AmountOf(E)
  BY DEF GrossOf, EarnedIn, C, E
<1>10. AmountOf(C) = AmountOf(E) + AmountOf(C \ E)
  BY <1>7, <1>8
<1>. QED  BY <1>5, <1>6, <1>9, <1>10

-----------------------------------------------------------------------------
(* Steps that leave runs and payouts alone, or touch one of each.           *)

\* What may become of a payout in a step.
Final(k) ==
  payouts[k] # NoPayout =>
    \/ payouts'[k] = payouts[k]
    \/ payouts'[k] = [payouts[k] EXCEPT !.status = "PAID"]

\* The insert of a run gives a payout, never the absent one.
LEMMA InsertIsPayout ==
  ASSUME RunsShaped, NEW r \in Runs, runs[r].step = "write"
  PROVE  /\ IsPayout(PayoutOf(r)) /\ PayoutOf(r) # NoPayout
         /\ RunKey(r) \in Keys
<1>1. IsRun(runs[r])
  BY DEF RunsShaped, Idle
<1>2. runs[r].status \in PayoutStatuses /\ runs[r].status # "ABSENT"
  BY <1>1 DEF IsRun, PayoutStatuses
<1>3. RunKey(r) \in Keys
  BY <1>1 DEF IsRun, RunKey, Keys
<1>. DEFINE gross == runs[r].gross[runs[r].user]
<1>4. gross \in Int
  BY <1>1 DEF IsRun
<1>5. NetOf(gross) \in Int
  <2>. HIDE DEF gross
  <2>. QED  BY <1>4, Withheld, FloorBpsInt DEF NetOf
<1>. HIDE DEF gross
<1>6. PayoutOf(r) = [status |-> runs[r].status, gross |-> gross, net |-> NetOf(gross)]
  BY DEF PayoutOf, gross
<1>. QED  BY <1>2, <1>3, <1>4, <1>5, <1>6 DEF IsPayout, NoPayout

\* A released payout is one still.
LEMMA ReleaseIsPayout ==
  ASSUME NEW v, IsPayout(v)
  PROVE  /\ IsPayout([v EXCEPT !.status = "PAID"])
         /\ [v EXCEPT !.status = "PAID"] # NoPayout
<1>1. [v EXCEPT !.status = "PAID"] = [status |-> "PAID", gross |-> v.gross, net |-> v.net]
  BY DEF IsPayout
<1>. QED  BY <1>1 DEF IsPayout, PayoutStatuses, NoPayout

\* Payouts keep their shape, none disappears, and none changes but to PAID.
LEMMA PayoutsStep ==
  ASSUME PayoutsShaped, RunsShaped, [Next]_vars
  PROVE  /\ PayoutsShaped'
         /\ \A k \in Keys : Final(k)
         /\ \A k \in Keys : payouts[k] # NoPayout => payouts'[k] # NoPayout
<1>1. CASE UNCHANGED payouts
  BY <1>1 DEF PayoutsShaped, Final
<1>2. ASSUME NEW r \in Runs, RunWrite(r)
      PROVE  \/ UNCHANGED payouts
             \/ /\ payouts[RunKey(r)] = NoPayout
                /\ payouts' = [payouts EXCEPT ![RunKey(r)] = PayoutOf(r)]
  BY <1>2 DEF RunWrite
<1>3. ASSUME NEW r \in Runs, RunWrite(r), payouts[RunKey(r)] = NoPayout,
             payouts' = [payouts EXCEPT ![RunKey(r)] = PayoutOf(r)]
      PROVE  /\ PayoutsShaped'
             /\ \A k \in Keys : Final(k)
             /\ \A k \in Keys : payouts[k] # NoPayout => payouts'[k] # NoPayout
  <2>1. IsPayout(PayoutOf(r)) /\ RunKey(r) \in Keys
    BY <1>3, InsertIsPayout DEF RunWrite
  <2>2. payouts' = [k \in Keys |-> IF k = RunKey(r) THEN PayoutOf(r) ELSE payouts[k]]
    BY <1>3, <2>1 DEF PayoutsShaped
  <2>. QED  BY <1>3, <2>1, <2>2 DEF PayoutsShaped, Final
<1>4. ASSUME NEW u \in Users, NEW p \in Periods, Release(u, p)
      PROVE  /\ PayoutsShaped'
             /\ \A k \in Keys : Final(k)
             /\ \A k \in Keys : payouts[k] # NoPayout => payouts'[k] # NoPayout
  <2>. DEFINE key == <<u, p>>
              paid == [payouts[key] EXCEPT !.status = "PAID"]
  <2>1. key \in Keys
    BY DEF Keys
  <2>2. IsPayout(paid) /\ paid # NoPayout
    BY <1>4, <2>1, ReleaseIsPayout DEF Release, PayoutsShaped
  <2>3. payouts' = [k \in Keys |-> IF k = key THEN paid ELSE payouts[k]]
    BY <1>4, <2>1 DEF Release, PayoutsShaped
  <2>. HIDE DEF key
  <2>. QED  BY <2>1, <2>2, <2>3 DEF PayoutsShaped, Final
<1>5. \/ UNCHANGED payouts
      \/ \E r \in Runs : RunWrite(r)
      \/ \E u \in Users, p \in Periods : Release(u, p)
  BY DEF Next, Environment, Distribute, Refund, ChangeAccount, NextDay, RunLost,
         Proceed, RunSkip, RunRead, RunDone, RunStart, vars
<1>. QED  BY <1>1, <1>2, <1>3, <1>4, <1>5

-----------------------------------------------------------------------------
(* Runs.                                                                    *)

\* A run that a step leaves alone stays sound, because payouts do not vanish.
LEMMA RunKept ==
  ASSUME NEW r \in Runs, RunsShaped, RunSound(r), runs'[r] = runs[r],
         \A k \in Keys : payouts[k] # NoPayout => payouts'[k] # NoPayout
  PROVE  RunSound(r)'
<1>1. CASE runs[r] = Idle
  BY <1>1 DEF RunSound, Idle
<1>2. CASE IsRun(runs[r])
  <2>1. \A u \in runs[r].counted : <<u, runs[r].period>> \in Keys
    BY <1>2 DEF IsRun, Keys
  <2>. QED  BY <2>1 DEF RunSound, Served
<1>. QED  BY <1>1, <1>2 DEF RunsShaped

\* A step of one run replaces its record and no other.
LEMMA OneRun ==
  ASSUME RunsShaped, NEW r \in Runs, NEW v, IsRun(v),
         runs' = [runs EXCEPT ![r] = v]
  PROVE  /\ RunsShaped'
         /\ runs'[r] = v
         /\ \A s \in Runs \ {r} : runs'[s] = runs[s]
<1>1. runs' = [s \in Runs |-> IF s = r THEN v ELSE runs[s]]
  BY DEF RunsShaped
<1>. QED  BY <1>1 DEF RunsShaped

\* What RunRead makes of a run's record, field by field.
LEMMA ReadRun ==
  ASSUME NEW s, IsRun(runs[s]), NEW u, NEW g
  PROVE  [runs[s] EXCEPT !.todo = @ \ {u}, !.user = u, !.status = g,
                         !.step = "write"] =
           [period |-> runs[s].period, opened |-> runs[s].opened,
            counted |-> runs[s].counted, gross |-> runs[s].gross,
            todo |-> runs[s].todo \ {u}, user |-> u, status |-> g,
            step |-> "write"]
<1>. DEFINE w == runs[s]
            t == w.todo \ {u}
            w1 == [w EXCEPT !.todo = t]
            w2 == [w1 EXCEPT !.user = u]
            w3 == [w2 EXCEPT !.status = g]
            w4 == [w3 EXCEPT !.step = "write"]
<1>1. [w EXCEPT !.todo = @ \ {u}, !.user = u, !.status = g, !.step = "write"] = w4
  OBVIOUS
<1>2. w1 =
        [period |-> w.period, opened |-> w.opened, counted |-> w.counted,
         gross |-> w.gross, todo |-> t, user |-> w.user,
         status |-> w.status, step |-> w.step]
  BY DEF IsRun
<1>. HIDE DEF w1
<1>3. w2 =
        [period |-> w.period, opened |-> w.opened, counted |-> w.counted,
         gross |-> w.gross, todo |-> t, user |-> u,
         status |-> w.status, step |-> w.step]
  BY <1>2
<1>. HIDE DEF w2
<1>4. w3 =
        [period |-> w.period, opened |-> w.opened, counted |-> w.counted,
         gross |-> w.gross, todo |-> t, user |-> u,
         status |-> g, step |-> w.step]
  BY <1>3
<1>. HIDE DEF w3
<1>5. w4 =
        [period |-> w.period, opened |-> w.opened, counted |-> w.counted,
         gross |-> w.gross, todo |-> t, user |-> u,
         status |-> g, step |-> "write"]
  BY <1>4
<1>. QED  BY <1>1, <1>5

\* Every step keeps each run's account of whom it has served.
LEMMA RunsStep ==
  ASSUME IInv, [Next]_vars
  PROVE  RunsShaped' /\ \A r \in Runs : RunSound(r)'
<1>. DEFINE Kept == \A k \in Keys : payouts[k] # NoPayout => payouts'[k] # NoPayout
<1>1. Kept
  BY PayoutsStep DEF IInv
<1>2. ASSUME UNCHANGED runs
      PROVE  RunsShaped' /\ \A r \in Runs : RunSound(r)'
  BY <1>1, <1>2, RunKept DEF IInv, RunsShaped
<1>3. ASSUME NEW r \in Runs, NEW v, IsRun(v), runs' = [runs EXCEPT ![r] = v],
             runs'[r] = v => RunSound(r)'
      PROVE  RunsShaped' /\ \A s \in Runs : RunSound(s)'
  <2>1. /\ RunsShaped' /\ runs'[r] = v
        /\ \A s \in Runs \ {r} : runs'[s] = runs[s]
    BY <1>3, OneRun DEF IInv
  <2>. QED  BY <1>1, <1>3, <2>1, RunKept DEF IInv
<1>4. ASSUME NEW r \in Runs, IsRun(runs[r])
      PROVE  runs[r] # Idle
  BY <1>4 DEF IsRun, Idle
<1>5. \A r \in Runs : runs[r].step # "idle" => IsRun(runs[r])
  BY DEF IInv, RunsShaped, Idle
<1>6. ASSUME NEW r \in Runs, NEW p \in Periods, RunStart(r, p)
      PROVE  RunsShaped' /\ \A s \in Runs : RunSound(s)'
  <2>. DEFINE bs == {u \in Users : \E row \in Counted(p) : row.beneficiary = u}
              gs == [u \in Users |-> GrossOf(u, p)]
              v == [period |-> p, opened |-> day, counted |-> bs, gross |-> gs,
                    todo |-> bs, user |-> NoUser, status |-> "PENDING",
                    step |-> "next"]
  <2>1. runs' = [runs EXCEPT ![r] = v]
    BY <1>6 DEF RunStart
  <2>2. bs \subseteq Users /\ gs \in [Users -> Int] /\ day \in 0..LastDay
    BY GrossIsBacked DEF IInv
  <2>. HIDE DEF bs, gs
  <2>3. IsRun(v)
    BY <2>2 DEF IsRun
  <2>4. runs'[r] = v => RunSound(r)'
    BY DEF RunSound, Served
  <2>. HIDE DEF v
  <2>. QED  BY <1>3, <2>1, <2>3, <2>4
<1>7. ASSUME NEW r \in Runs, NEW u \in Users, RunSkip(r, u)
      PROVE  RunsShaped' /\ \A s \in Runs : RunSound(s)'
  <2>. DEFINE v == [runs[r] EXCEPT !.todo = @ \ {u}]
  <2>1. IsRun(runs[r]) /\ runs[r].step = "next"
    BY <1>5, <1>7 DEF RunSkip
  <2>2. runs' = [runs EXCEPT ![r] = v]
    BY <1>7 DEF RunSkip
  <2>3. v = [period |-> runs[r].period, opened |-> runs[r].opened,
             counted |-> runs[r].counted, gross |-> runs[r].gross,
             todo |-> runs[r].todo \ {u}, user |-> runs[r].user,
             status |-> runs[r].status, step |-> "next"]
    BY <2>1 DEF IsRun
  <2>. HIDE DEF v
  <2>4. IsRun(v)
    BY <2>1, <2>3 DEF IsRun
  <2>5. payouts' = payouts /\ runs[r].gross[u] < MinPayout
    BY <1>7 DEF RunSkip
  <2>6. RunSound(r)
    BY DEF IInv
  <2>7. runs'[r] = v => RunSound(r)'
    BY <2>1, <2>3, <2>5, <2>6 DEF RunSound, Served
  <2>. QED  BY <1>3, <2>2, <2>4, <2>7
<1>8. ASSUME NEW r \in Runs, NEW u \in Users, RunRead(r, u)
      PROVE  RunsShaped' /\ \A s \in Runs : RunSound(s)'
  <2>. DEFINE v == [runs[r] EXCEPT !.todo = @ \ {u}, !.user = u,
                                   !.status = GateStatus(users[u]),
                                   !.step = "write"]
              g == GateStatus(users[u])
  <2>1. IsRun(runs[r]) /\ runs[r].step = "next"
    BY <1>5, <1>8 DEF RunRead
  <2>2. runs' = [runs EXCEPT ![r] = v]
    BY <1>8 DEF RunRead
  <2>3. g \in {"PENDING", "WITHHELD"}
    BY DEF GateStatus
  <2>4. v = [period |-> runs[r].period, opened |-> runs[r].opened,
             counted |-> runs[r].counted, gross |-> runs[r].gross,
             todo |-> runs[r].todo \ {u}, user |-> u,
             status |-> g, step |-> "write"]
    BY <2>1, ReadRun, Zenon
  <2>. HIDE DEF g
  <2>. HIDE DEF v
  <2>5. IsRun(v)
    BY <2>1, <2>3, <2>4 DEF IsRun
  <2>6. payouts' = payouts
    BY <1>8 DEF RunRead
  <2>7. RunSound(r)
    BY DEF IInv
  <2>8. runs'[r] = v => RunSound(r)'
    BY <2>1, <2>4, <2>6, <2>7 DEF RunSound, Served
  <2>. QED  BY <1>3, <2>2, <2>5, <2>8
<1>9. ASSUME NEW r \in Runs, RunWrite(r)
      PROVE  RunsShaped' /\ \A s \in Runs : RunSound(s)'
  <2>. DEFINE v == [runs[r] EXCEPT !.step = "next"]
  <2>1. IsRun(runs[r]) /\ runs[r].step = "write"
    BY <1>5, <1>9 DEF RunWrite
  <2>2. runs' = [runs EXCEPT ![r] = v]
    BY <1>9 DEF RunWrite
  <2>3. v = [period |-> runs[r].period, opened |-> runs[r].opened,
             counted |-> runs[r].counted, gross |-> runs[r].gross,
             todo |-> runs[r].todo, user |-> runs[r].user,
             status |-> runs[r].status, step |-> "next"]
    BY <2>1 DEF IsRun
  <2>. HIDE DEF v
  <2>4. IsRun(v)
    BY <2>1, <2>3 DEF IsRun
  <2>5. payouts'[<<runs[r].user, runs[r].period>>] # NoPayout
    <3>1. PayoutOf(r) # NoPayout /\ RunKey(r) \in Keys
      BY <2>1, InsertIsPayout DEF IInv
    <3>2. payouts = [k \in Keys |-> payouts[k]]
      BY DEF IInv, PayoutsShaped
    <3>3. payouts'[RunKey(r)] # NoPayout
      BY <1>9, <3>1, <3>2 DEF RunWrite
    <3>. QED  BY <3>3 DEF RunKey
  <2>6. RunSound(r)
    BY DEF IInv
  <2>7. \A u \in runs[r].counted : <<u, runs[r].period>> \in Keys
    BY <2>1 DEF IsRun, Keys
  <2>8. runs'[r] = v => RunSound(r)'
    BY <1>1, <2>1, <2>3, <2>5, <2>6, <2>7 DEF RunSound, Served
  <2>. QED  BY <1>3, <2>2, <2>4, <2>8
<1>10. ASSUME NEW r \in Runs, NEW where \in {"done", "lost"},
              runs[r].step # "idle",
              where = "done" => runs[r].step = "next" /\ runs[r].todo = {},
              payouts' = payouts,
              runs' = [runs EXCEPT ![r].step = where]
       PROVE  RunsShaped' /\ \A s \in Runs : RunSound(s)'
  <2>. DEFINE v == [runs[r] EXCEPT !.step = where]
  <2>1. IsRun(runs[r])
    BY <1>5, <1>10
  <2>2. runs' = [runs EXCEPT ![r] = v]
    BY <1>10
  <2>3. v = [period |-> runs[r].period, opened |-> runs[r].opened,
             counted |-> runs[r].counted, gross |-> runs[r].gross,
             todo |-> runs[r].todo, user |-> runs[r].user,
             status |-> runs[r].status, step |-> where]
    BY <2>1 DEF IsRun
  <2>. HIDE DEF v
  <2>4. IsRun(v)
    BY <2>1, <2>3 DEF IsRun
  <2>5. RunSound(r)
    BY DEF IInv
  <2>6. runs'[r] = v => RunSound(r)'
    BY <1>10, <2>3, <2>5 DEF RunSound, Served
  <2>. QED  BY <1>3, <2>2, <2>4, <2>6
<1>11. ASSUME NEW r \in Runs, RunDone(r)
       PROVE  RunsShaped' /\ \A s \in Runs : RunSound(s)'
  BY <1>10, <1>11 DEF RunDone
<1>12. ASSUME NEW r \in Runs, RunLost(r)
       PROVE  RunsShaped' /\ \A s \in Runs : RunSound(s)'
  BY <1>10, <1>12 DEF RunLost
<1>13. \/ UNCHANGED <<runs, payouts>>
       \/ \E r \in Runs, p \in Periods : RunStart(r, p)
       \/ \E r \in Runs, u \in Users : RunSkip(r, u) \/ RunRead(r, u)
       \/ \E r \in Runs : RunWrite(r) \/ RunDone(r) \/ RunLost(r)
       \/ UNCHANGED runs
  BY DEF Next, Environment, Distribute, Refund, ChangeAccount, NextDay,
         Proceed, Release, vars
<1>. QED  BY <1>2, <1>6, <1>7, <1>8, <1>9, <1>11, <1>12, <1>13

-----------------------------------------------------------------------------
(* The theorems.                                                            *)

\* The tables are empty and nobody has called runMonthly.
LEMMA InitInvariant == Init => IInv
<1>. SUFFICES ASSUME Init PROVE IInv
  OBVIOUS
<1>1. AccountsTypeOK
  BY DEF Init, AccountsInit, AccountsTypeOK, UserRow, Roles, UserStatuses, AdultRow,
         MinorRow
<1>2. day \in 0..LastDay /\ LedgerSound
  BY PayoutAssumption, FS_EmptySet DEF Init, LedgerSound
<1>3. PayoutsShaped
  BY DEF Init, PayoutsShaped, Keys
<1>4. RunsShaped
  BY DEF Init, RunsShaped
<1>5. \A r \in Runs : RunSound(r)
  BY DEF Init, RunSound, Idle
<1>. QED  BY <1>1, <1>2, <1>3, <1>4, <1>5 DEF IInv

\* Accounts and the day keep their types.
LEMMA WorldStep ==
  ASSUME AccountsTypeOK, day \in 0..LastDay, [Next]_vars
  PROVE  AccountsTypeOK' /\ day' \in 0..LastDay
<1>1. ASSUME NEW u \in Users, ChangeAccount(u)
      PROVE  AccountsTypeOK'
  BY <1>1 DEF ChangeAccount, SuspendUser, ReleaseMinor, AccountsTypeOK, UserRow,
              UserStatuses
<1>2. CASE NextDay
  BY <1>2, PayoutAssumption DEF NextDay, AccountsTypeOK
<1>3. \/ UNCHANGED <<users, day>>
      \/ NextDay
      \/ \E u \in Users : ChangeAccount(u) /\ UNCHANGED day
  BY DEF Next, Environment, Distribute, Refund, ChangeAccount, Proceed, RunSkip,
         RunRead, RunWrite, RunDone, RunLost, RunStart, Release, vars
<1>. QED  BY <1>1, <1>2, <1>3 DEF AccountsTypeOK

\* Every step keeps the invariant.
LEMMA StepInvariant == IInv /\ [Next]_vars => IInv'
<1>. SUFFICES ASSUME IInv, [Next]_vars PROVE IInv'
  OBVIOUS
<1>1. AccountsTypeOK' /\ (day \in 0..LastDay)' /\ LedgerSound'
  BY WorldStep, LedgerStep DEF IInv
<1>2. PayoutsShaped'
  BY PayoutsStep DEF IInv
<1>3. RunsShaped' /\ \A r \in Runs : RunSound(r)'
  BY RunsStep
<1>. QED  BY <1>1, <1>2, <1>3 DEF IInv

\* Every table and every run is always well formed, and a run has served
\* whomever it has passed.
THEOREM PayoutInvariant == Spec => []IInv
  BY InitInvariant, StepInvariant, PTL DEF Spec

\* A run that ended left a payout for everyone whose sum reached the minimum.
THEOREM RunsAreComplete == Spec => []CompleteRun
<1>1. IInv => CompleteRun
  <2>. SUFFICES ASSUME IInv, NEW r \in Runs, runs[r].step = "done",
                       NEW u \in runs[r].counted
                PROVE  \/ runs[r].gross[u] < MinPayout
                       \/ payouts[<<u, runs[r].period>>] # NoPayout
    BY DEF CompleteRun
  <2>1. Served(r, u) /\ runs[r].todo = {}
    BY DEF IInv, RunSound
  <2>. QED  BY <2>1 DEF Served
<1>. QED  BY <1>1, PayoutInvariant, PTL

\* A payout is never replaced and never changes but to be released.
THEOREM PayoutsAreFinal == Spec => PayoutFinal
<1>1. IInv /\ [Next]_vars =>
        [\A k \in Users \X Periods :
           payouts[k] # NoPayout =>
             \/ payouts'[k] = payouts[k]
             \/ payouts'[k] = [payouts[k] EXCEPT !.status = "PAID"]]_vars
  BY PayoutsStep DEF IInv, Final, Keys
<1>. QED  BY <1>1, PayoutInvariant, PTL DEF Spec, PayoutFinal

-----------------------------------------------------------------------------
(* Payouts are backed.                                                      *)

\* How the runs change: each keeps its period and its sums, or is started.
LEMMA SumsKept ==
  ASSUME IInv, [Next]_vars, NEW r \in Runs
  PROVE  \/ /\ runs[r] # Idle /\ runs'[r] # Idle
            /\ runs'[r].period = runs[r].period /\ runs'[r].gross = runs[r].gross
         \/ /\ runs'[r] = Idle
         \/ /\ ledger' = ledger
            /\ runs'[r].period \in Periods
            /\ runs'[r].gross = [u \in Users |-> GrossOf(u, runs'[r].period)]
<1>. DEFINE Keeps == \/ runs'[r] = Idle
                     \/ /\ runs[r] # Idle /\ runs'[r] # Idle
                        /\ runs'[r].period = runs[r].period
                        /\ runs'[r].gross = runs[r].gross
<1>1. runs = [s \in Runs |-> runs[s]] /\ \A s \in Runs : runs[s] = Idle \/ IsRun(runs[s])
  BY DEF IInv, RunsShaped
<1>2. \A w : IsRun(w) => w # Idle
  BY DEF IsRun, Idle
<1>3. ASSUME UNCHANGED runs
      PROVE  Keeps
  BY <1>3
<1>4. ASSUME NEW s \in Runs, IsRun(runs[s]), NEW v, runs' = [runs EXCEPT ![s] = v],
             v # Idle, v.period = runs[s].period, v.gross = runs[s].gross
      PROVE  Keeps
  BY <1>1, <1>2, <1>4
<1>5. \A s \in Runs : runs[s].step # "idle" => IsRun(runs[s])
  BY <1>1 DEF Idle
<1>. DEFINE Alike(v, w) == v # Idle /\ v.period = w.period /\ v.gross = w.gross
<1>6. ASSUME NEW w, IsRun(w)
      PROVE  /\ \A t : Alike([w EXCEPT !.todo = t], w)
             /\ \A x : Alike([w EXCEPT !.step = x], w)
  BY <1>6 DEF IsRun, Idle
<1>. HIDE DEF Keeps
<1>7. ASSUME NEW s \in Runs, NEW u \in Users, RunSkip(s, u) \/ RunRead(s, u)
      PROVE  Keeps
  <2>1. IsRun(runs[s])
    BY <1>5, <1>7 DEF RunSkip, RunRead
  <2>2. CASE RunSkip(s, u)
    BY <1>4, <1>6, <2>1, <2>2 DEF RunSkip
  <2>3. CASE RunRead(s, u)
    <3>. DEFINE v == [runs[s] EXCEPT !.todo = @ \ {u}, !.user = u,
                                     !.status = GateStatus(users[u]),
                                     !.step = "write"]
    <3>1. runs' = [runs EXCEPT ![s] = v]
      BY <2>3 DEF RunRead
    <3>2. v = [period |-> runs[s].period, opened |-> runs[s].opened,
               counted |-> runs[s].counted, gross |-> runs[s].gross,
               todo |-> runs[s].todo \ {u}, user |-> u,
               status |-> GateStatus(users[u]), step |-> "write"]
      BY <2>1, ReadRun, Zenon
    <3>. HIDE DEF v
    <3>3. Alike(v, runs[s])
      BY <3>2 DEF Idle
    <3>. QED  BY <1>4, <2>1, <3>1, <3>3
  <2>. QED  BY <1>7, <2>2, <2>3
<1>8. ASSUME NEW s \in Runs, RunWrite(s) \/ RunDone(s) \/ RunLost(s)
      PROVE  Keeps
  <2>1. IsRun(runs[s])
    BY <1>5, <1>8 DEF RunWrite, RunDone, RunLost
  <2>2. CASE RunWrite(s)
    BY <1>4, <1>6, <2>1, <2>2 DEF RunWrite
  <2>3. CASE RunDone(s)
    BY <1>4, <1>6, <2>1, <2>3 DEF RunDone
  <2>4. CASE RunLost(s)
    BY <1>4, <1>6, <2>1, <2>4 DEF RunLost
  <2>. QED  BY <1>8, <2>2, <2>3, <2>4
<1>9. ASSUME NEW s \in Runs, NEW p \in Periods, RunStart(s, p)
      PROVE  \/ Keeps
             \/ /\ ledger' = ledger /\ runs'[r].period \in Periods
                /\ runs'[r].gross = [u \in Users |-> GrossOf(u, runs'[r].period)]
  <2>1. CASE r = s
    <3>1. /\ ledger' = ledger
          /\ runs'[r].period = p
          /\ runs'[r].gross = [u \in Users |-> GrossOf(u, p)]
      BY <1>1, <1>9, <2>1 DEF RunStart
    <3>. QED  BY <3>1
  <2>2. CASE r # s
    <3>1. runs'[r] = runs[r]
      BY <1>1, <1>9, <2>2 DEF RunStart
    <3>. QED  BY <3>1 DEF Keeps
  <2>. QED  BY <2>1, <2>2
<1>10. \/ UNCHANGED runs
       \/ \E s \in Runs, p \in Periods : RunStart(s, p)
       \/ \E s \in Runs, u \in Users : RunSkip(s, u) \/ RunRead(s, u)
       \/ \E s \in Runs : RunWrite(s) \/ RunDone(s) \/ RunLost(s)
  BY DEF Next, Environment, Distribute, Refund, ChangeAccount, NextDay,
         Proceed, Release, vars
<1>. QED  BY <1>3, <1>7, <1>8, <1>9, <1>10 DEF Keeps

\* The sums of a run are taken in one statement and the ledger only grows.
LEMMA RunsBackedStep ==
  ASSUME SumInv, [Next]_vars
  PROVE  RunsBacked'
<1>. SUFFICES ASSUME NEW r \in Runs, runs'[r] # Idle, NEW u \in Users,
                     NEW p, p = runs'[r].period
              PROVE  runs'[r].gross[u] <= EarnedIn(u, p)'
  BY DEF RunsBacked, EarnedIn, EarnedRows
<1>1. IInv /\ IInv' /\ ledger \subseteq ledger'
  BY StepInvariant, LedgerStep DEF SumInv, IInv
<1>2. /\ EarnedIn(u, p) \in Nat /\ EarnedIn(u, p)' \in Nat
      /\ EarnedIn(u, p) <= EarnedIn(u, p)'
  BY <1>1, EarnedGrows DEF IInv
<1>3. CASE /\ runs[r] # Idle
           /\ runs'[r].period = runs[r].period /\ runs'[r].gross = runs[r].gross
  <2>1. runs[r].gross[u] \in Int
    BY <1>1, <1>3 DEF IInv, RunsShaped, IsRun
  <2>2. runs[r].gross[u] <= EarnedIn(u, p)
    BY <1>3 DEF SumInv, RunsBacked
  <2>. QED  BY <1>2, <1>3, <2>1, <2>2
<1>4. CASE /\ ledger' = ledger /\ runs'[r].period \in Periods
           /\ runs'[r].gross = [v \in Users |-> GrossOf(v, runs'[r].period)]
  <2>1. runs'[r].gross[u] = GrossOf(u, p)
    BY <1>4
  <2>2. GrossOf(u, p) \in Int /\ GrossOf(u, p) <= EarnedIn(u, p)
    BY <1>1, <1>4, GrossIsBacked DEF IInv
  <2>. QED  BY <1>2, <2>1, <2>2
<1>. QED  BY <1>1, <1>3, <1>4, SumsKept

\* A payout is written with a sum of its run and keeps it.
LEMMA PayoutBackedStep ==
  ASSUME SumInv, [Next]_vars
  PROVE  PayoutBacked'
<1>. SUFFICES ASSUME NEW u \in Users, NEW p \in Periods
              PROVE  payouts'[<<u, p>>].gross <= EarnedIn(u, p)'
  BY DEF PayoutBacked, EarnedIn, EarnedRows
<1>. DEFINE k == <<u, p>>
<1>1. IInv /\ IInv' /\ ledger \subseteq ledger' /\ k \in Keys
  BY StepInvariant, LedgerStep DEF SumInv, IInv, Keys
<1>2. /\ EarnedIn(u, p) \in Nat /\ EarnedIn(u, p)' \in Nat
      /\ EarnedIn(u, p) <= EarnedIn(u, p)'
  BY <1>1, EarnedGrows DEF IInv
<1>3. ASSUME NEW v, v = NoPayout \/ IsPayout(v), v.gross <= EarnedIn(u, p),
             payouts'[k].gross = v.gross
      PROVE  payouts'[k].gross <= EarnedIn(u, p)'
  <2>1. v.gross \in Int
    BY <1>3 DEF NoPayout, IsPayout
  <2>. QED  BY <1>2, <1>3, <2>1
<1>4. /\ payouts[k] = NoPayout \/ IsPayout(payouts[k])
      /\ payouts[k].gross <= EarnedIn(u, p)
      /\ payouts = [x \in Keys |-> payouts[x]]
  BY <1>1 DEF SumInv, PayoutBacked, EarnedIn, EarnedRows, IInv, PayoutsShaped
<1>5. CASE payouts'[k].gross = payouts[k].gross
  BY <1>3, <1>4, <1>5
<1>6. ASSUME NEW r \in Runs, RunWrite(r),
             payouts' = [payouts EXCEPT ![RunKey(r)] = PayoutOf(r)]
      PROVE  payouts'[k].gross <= EarnedIn(u, p)'
  <2>1. IsPayout(PayoutOf(r)) /\ RunKey(r) \in Keys
    BY <1>1, <1>6, InsertIsPayout DEF RunWrite, IInv
  <2>2. CASE RunKey(r) = k
    <3>1. runs[r].user = u /\ runs[r].period = p /\ runs[r] # Idle
      BY <1>6, <2>2 DEF RunKey, RunWrite, Idle
    <3>2. PayoutOf(r).gross = runs[r].gross[u]
      BY <3>1 DEF PayoutOf
    <3>3. PayoutOf(r).gross <= EarnedIn(u, p)
      BY <3>1, <3>2 DEF SumInv, RunsBacked
    <3>4. payouts'[k] = PayoutOf(r)
      BY <1>1, <1>4, <1>6, <2>2
    <3>. QED  BY <1>3, <2>1, <3>3, <3>4
  <2>3. CASE RunKey(r) # k
    <3>1. payouts'[k] = payouts[k]
      BY <1>1, <1>4, <1>6, <2>3
    <3>. QED  BY <1>5, <3>1
  <2>. QED  BY <2>2, <2>3
<1>7. ASSUME NEW w \in Users, NEW q \in Periods, Release(w, q)
      PROVE  payouts'[k].gross <= EarnedIn(u, p)'
  <2>1. payouts'[k] = payouts[k] \/ payouts'[k] = [payouts[k] EXCEPT !.status = "PAID"]
    BY <1>1, <1>4, <1>7 DEF Release
  <2>2. [payouts[k] EXCEPT !.status = "PAID"].gross = payouts[k].gross
    BY <1>4 DEF IsPayout, NoPayout
  <2>. QED  BY <1>5, <2>1, <2>2
<1>8. \/ UNCHANGED payouts
      \/ \E r \in Runs :
            RunWrite(r) /\ payouts' = [payouts EXCEPT ![RunKey(r)] = PayoutOf(r)]
      \/ \E w \in Users, q \in Periods : Release(w, q)
  BY DEF Next, Environment, Distribute, Refund, ChangeAccount, NextDay, RunLost,
         Proceed, RunSkip, RunRead, RunWrite, RunDone, RunStart, vars
<1>. QED  BY <1>5, <1>6, <1>7, <1>8

\* A payout never exceeds what the member earned in the period, however the
\* ledger moved between the sum and the insert; and nothing loses its type.
THEOREM PayoutsAreSound == Spec => []PayoutsSound
<1>1. Init => SumInv
  <2>. SUFFICES ASSUME Init PROVE SumInv
    OBVIOUS
  <2>1. IInv /\ RunsBacked
    BY InitInvariant DEF Init, RunsBacked
  <2>2. ASSUME NEW u \in Users, NEW p \in Periods
        PROVE  payouts[<<u, p>>].gross <= EarnedIn(u, p)
    <3>1. payouts[<<u, p>>].gross = 0
      BY DEF Init, NoPayout
    <3>2. EarnedRows(u, p) = {}
      BY DEF Init, EarnedRows
    <3>. QED  BY <3>1, <3>2, AmountEmpty DEF EarnedIn
  <2>. QED  BY <2>1, <2>2 DEF SumInv, PayoutBacked, EarnedIn, EarnedRows
<1>2. SumInv /\ [Next]_vars => SumInv'
  BY StepInvariant, RunsBackedStep, PayoutBackedStep DEF SumInv
<1>3. SumInv => PayoutsSound
  <2>. SUFFICES ASSUME IInv, PayoutBacked PROVE PayoutsSound
    BY DEF SumInv
  <2>1. payouts \in [Users \X Periods -> PayoutRow \cup {NoPayout}]
    BY DEF IInv, PayoutsShaped, IsPayout, PayoutRow, Keys
  <2>2. \A w : IsRun(w) => w \in Run
    BY DEF IsRun, Run
  <2>3. runs \in [Runs -> Run \cup {Idle}]
    BY <2>2 DEF IInv, RunsShaped
  <2>. QED  BY <2>1, <2>3 DEF PayoutsSound, TypeOK, IInv, LedgerSound
<1>. QED  BY <1>1, <1>2, <1>3, PTL DEF Spec

=============================================================================
