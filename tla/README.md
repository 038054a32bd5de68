# Nuxia2 in TLA+

A verification project for the Nuxia2 monorepo: a shop (`apps/web`, `apps/api`,
`apps/mobile`) that pays three generations of referrers 3 %, 5 % and 17 % of every paid
order. The modules here are translated from the source, TLC checks them on small
instances, and TLAPS proves the main invariants for every value of the constants.

Paths below are relative to the repository; `api/` stands for `apps/api/src/`, `web/` for
`apps/web/`.

## 1. The system

| Part | State | Operations | Talks to |
|---|---|---|---|
| Payment (`api/modules/payment/payment.service.ts`) | `Order`, `Refund` | `confirm`, `refundFull`, `refundPartial` | PortOne, referral engine, database |
| PortOne client (`portone.client.ts`) | none here; PortOne keeps the payment | `getPayment`, `cancelPayment` | PortOne over HTTP |
| Referral engine (`api/modules/referral/engine.service.ts`) | `ReferralLedger` | `getAncestors`, `distribute`, `revert` | runs in its caller's transaction |
| Orders (`api/modules/order`) | `Order`, `OrderItem` | `create`, `confirmReceipt`, reads | database |
| Accounts and sign-up (`api/modules/user`, `api/modules/admin`) | `User`, `AbuseLog` | `createUser`, `withdraw`, `flagUser`, `suspendUser`, `markStaff`, `releaseMinor` | PortOne's identity verification, database |
| Payout (`api/modules/payout`) | `Payout`, `PayoutTaxConfig` | `runMonthly`, `release` | reads the ledger |
| Login (`api/modules/auth`) | `Session`, `OtpChallenge`, TOTP columns of `User` | `login`, `loginWithTotp`, `refresh`, `requestOtp`, `verifyOtp`, TOTP set-up | SMS, e-mail |
| Webhook (`api/modules/webhook`) | `WebhookEvent` | `handle` | called by PortOne |
| Server cart (`api/modules/cart`) | `Cart`, `CartItem` | get-or-create, upsert, remove, clear | database |
| Audit (`api/modules/audit`) | `AuditLog` | the service's row and the interceptor's | database |
| Dashboard, tree, lists (`dashboard.service.ts`, `admin.service.ts`, `product.service.ts`) | none | sums, trees, pages by cursor | database |
| Shop in the browser (`web/stores`, `web/app/(shop)`) | cart and address in local storage, page state | lines, checkout, pay, confirm | the API, PortOne's widget |
| Account pages (`web/app/(auth)`, `web/components/auth`, `web/lib/native`) | page state, the kept referral code | log-in, second factor, sign-up, deep links | the API |
| Console in the browser (`web/app/(admin)`, `web/components/admin`) | page state | audit log, tables, a member's card | the API |

There is one database and no lock in the program: whatever is read outside a
transaction may have changed when it is used. Two operations use `Serializable`
transactions with work in them, the payment service and `createUser`; all the rest
are single statements. Nothing is queued, retried or compensated: a call that fails
half-way leaves what it did. In the browser the same holds for handlers: what is
awaited may come back to a page that is closed, reopened or another.

What is hard about it, and where:

* **stale reads**: `confirm`, the refunds, `confirmReceipt`, `refresh`, the checks of
  codes and the payout decide on rows read before something else happened;
* **two systems of record**: PortOne moves the money, the database records it, and
  either step may happen without the other;
* **the unique index as the only guard**: a ledger row is kept single by
  `UNIQUE(orderId, beneficiaryUserId, generation, type)`; the code catches the
  violation, but PostgreSQL has aborted the transaction by then. Sign-up, webhook, cart
  and payout lean on unique keys too;
* **sequences**: partial refunds, full refunds and late refunds of one order share the
  same ledger slots; a payout run is repeated after a failure;
* **rounding**: shares of shares, rounded down, with zero rows left out;
* **caches**: `ancestorPath`, the sums a payout run carries along, a page rendered earlier;
* **late answers**: confirms posted again at every toast, audit pages in any order, a
  second factor verified after the user went back, a set-up dialog closed and reopened.

`PROJECT.json` lists each hazard at its line with the properties that cover it.

What makes each part correct: the *ledger* never owes more than was collected, never twice, and
nothing after a refund; an *order* is refunded only when the money went back; the *referral tree*
is acyclic and its cached path agrees with the chain; a *payout* is backed, complete and final; a
*session* that was rotated is dead; a *one-time password* is accepted once; an *audit log*
explains every status an administrator set; a *checkout* charges what the order says and shows
success only once an order was confirmed; a *page* says what is the case and gives its buttons
back.

## 2. Modules

| Module | Models |
|---|---|
| `Money` | `floorBps` (`common/util/money.util.ts`), and what a set of rows sums to (`AmountOf`) |
| `Accounts` | role, status and eligibility of a member, and the operations on them |
| `ReferralEngine` | the rows that `distribute` and `revert` insert, and what a clash does to their caller |
| `OrderPayment` | orders, PortOne's records, the ledger, refunds, and the requests that work on them |
| `CommissionBook` | the abstract promise of the ledger, without rows, requests or transactions |
| `Dashboard` | the figures and the tree's estimates as functions of the ledger of `OrderPayment`, under a calendar of months |
| `Payout` | the monthly payout: `runMonthly` step by step, `release`, and a ledger that moves meanwhile |
| `SignUp` | sign-up, withdrawal, the cached path, and the trees of dashboard and console |
| `Auth` | sessions, one-time passwords and TOTP of the server, statement by statement |
| `Requests` | the requests that touch no money: administrators', PortOne's notices, the server's cart |
| `Console` | the administrators' console in one browser, above `Requests` |
| `Checkout` | the shop in one browser, with the server's order and payment behind it |
| `AccountPages` | log-in, second factor and sign-up pages in one browser, with the member's TOTP record |
| `MC*` | the instances that TLC checks |
| `*Proofs` | theorems and proofs about the module of that name; `MoneyProofs` has the lemmas on shares and sums |

`OrderPayment` and `Payout` extend `ReferralEngine`, which extends `Money` and `Accounts`;
`Dashboard` extends `OrderPayment`; `Console` extends `Requests`, which extends `Accounts`.

### How state and actions correspond to the code

**Orders and payments** (`OrderPayment`, `ReferralEngine`, `Accounts`).

* `users`, `orders`, `ledger`, `refunds` are the tables, cut down to the columns that
  decide something. `receipt` abstracts `confirmedAt` to what lateness depends on: not
  set, set within `HOLD_DAYS`, or longer ago. Roles: `STAFF_FAMILY` behaves as `STAFF`
  and `ADMIN` as `CUSTOMER` in everything modelled.
* `portone` is PortOne's record of payment `payment_<orderId>`. Order creation fixes that
  id, so an order id also names its payment.
* `calls` are requests in progress. A request takes one step where the code reads
  (`ConfirmRead`, `RefundFullRead`, `RefundPartialRead`, `ReceiptRead`), one where it
  talks to PortOne (`ConfirmCheck`, `RefundCancel`), and one where it writes
  (`ConfirmWrite`, `RefundWrite`, `ReceiptWrite`). Anything may happen in between.
  A call keeps what it read and still uses. The order's total is read again from the row
  because no code changes it.
* A `Serializable` transaction is one step that commits, loses to a concurrent one
  (`SerializationFailure`) or is aborted by a clash in the ledger.
* **The aborted transaction.** The engine catches the unique violation P2002 and goes
  on. In PostgreSQL the transaction is aborted by then: any further statement fails
  (error 25P02), and if there is none, COMMIT reports success and rolls back. So after
  a clash nothing is written, and the caller is answered `error` when another statement
  follows and `ok` when none does (`DistributeAbortAnswer`, `RevertAbortAnswers`). The
  code uses no savepoint. This is the one fact about the database, beyond the isolation
  level, that the model rests on.
* `RefundCancel` covers PortOne's answers: money returned, refused, not reached, and
  returned with the answer lost. Like the code, it does not look at the order's status.
* `refundFull` and `refundPartial` are methods of the service that no controller exposes
  at this commit; the tests and the documents treat them as its interface, and so does the
  model.
* Environment: `CreateOrder`, `Pay` (PortOne's widget; the client chooses the sum), `Fulfil`
  (no code moves an order through PREPARING, SHIPPED, DELIVERED; it is taken to follow the
  documented diagram), `HoldExpires` (time), `ChangeAccount`, `Restart`.
* `Dashboard` lays the calendar over `OrderPayment`: `month`, which goes on, and the month of the
  `createdAt` of every order (`ordered`) and ledger row (`entered`). A row is dated by the step
  that commits it. Each query of `getSummary` is an operator on the ledger, over this month or
  over all time as in the code, and `MyEarning` is the estimate `getTree` shows at a member. All
  are taken at one moment; the code runs ten queries at once, which a commit may fall between.

**Payout** (`Payout`).

* `runs` are calls of `runMonthly`. `RunStart` is the `groupBy`, one statement that sees
  one state of the ledger; a run keeps its sums and goes through the members in any order,
  as the query promises none. For each it skips (`RunSkip`), or reads the account
  (`RunRead`) and then inserts (`RunWrite`), which is refused when the unique key
  (member, periodStart, periodEnd) is taken; P2002 is ignored here too, but outside a
  transaction, so the run goes on. `RunLost` is any other failure and a restart.
* Time is a number of days: the columns of a period are dates. Each ledger row carries the
  day of its `createdAt`, which a transaction takes before it commits, so `Commit` may
  still add a row of the day before.
* `Distribute` and `Refund` commit the rows of `ReferralEngine` as one step: what goes on in
  between belongs to `OrderPayment`. A refund has any of the ratios, and no order status
  limits it, so the ledger of `Payout` moves in more ways than that of `OrderPayment`.
* `Release` sets PAID whatever the status was. Nothing else in the code pays a payout, marks it
  FAILED, or turns ledger rows CONFIRMED or PAID.
* The administrator gives the periods. The code does not exclude overlapping ones, and
  those pay a row twice; the instances use adjoining months.

**Sign-up** (`SignUp`). A person stands for the `ci` PortOne returns and for that person's
address; members are numbered in the order of insertion, and the number stands for the
referral code. `SignUpVerify` is the look-up of the identity, `SignUpCreate` the
`Serializable` transaction of `createUser` with every refusal in the order of the code (and a
clash of the unique keys), `SignUpSession` the session afterwards, `SignUpLost` a restart in
between. The initial state is the chain that `seed.ts` leaves. `Withdraw`, `FlagUser`,
`MarkStaff` and `CooldownEnds` happen meanwhile.

**Login** (`Auth`). A call is read in with what it decides on and goes on at `insert`,
`revoke`, `update`, `count`, `use` or `send`, one step per statement; other calls run between
any two, and a restart may lose a call at each of them. The rows are those of one member,
as no statement touches two. Session rows are never deleted and challenges never either, so
a row's number stands for its token or its code. `before` is what had been answered when a
call began; only properties look at it.

**Requests and console** (`Requests`, `Console`). A request of an administrator is the update,
the service's audit row and the interceptor's; a notice is the insert (refused when the key is
known) and the mark, which selects by payment and type; a cart request finds or creates the
cart, then writes; a member's own withdrawal is one update, which no audit row follows. Any of
them may be lost between two statements (`halfway` where that leaves a change without its row,
or a notice without its mark). `Console` adds the browser:
`list` is the audit page with its fetches, answered in any order; `walk` is what somebody who
follows the links of a table has seen, where a page whose request fails is an empty last page
(`Fetched`); `card` is a member's page as it was rendered, with the
flag and release buttons. A row's number is its place in its table; `Sliced` and `Popped` are
the two ways the server makes a cursor.

**Shop** (`Checkout`). `cart` and `saved` are the two persisted stores, with every operation
of `stores/cart.ts`. `pays` are the runs of `onPay`, each with what it closed over; one waits
for the server, then for the widget, and goes on when its page is gone. `orders` is table `Order`
together with what PortOne has collected, and `posts` the confirms under way. The effect of
the success page depends on the toast context (`toast.tsx:32`), so `Reposted` posts a confirm
again when a toast comes or goes. A second payment that comes back to the same success page
changes its query only: `result` keeps what the page says and the orders it has had (`visited`),
and takes the answer of any of them. An address is the set of its fields that are filled.
The consent is ticked when the button is pressed; an order whose answer is lost is left out as
nothing will name it; a reload ends what was running in the browser, so its confirms count as
not sent or not answered. The requests of the web application carry no token yet (a TODO in the
source); the models take the session as given.

**Account pages** (`AccountPages`). `calls` are requests under way: sent, half done at the server
(`checked`: a verification that has compared the code and not yet enabled), answered. `Receive`
is the continuation of whichever page sent it; `mine` says whether the component that waits is
still there. A code is the secret it was made from. `TotpField` posts by itself when six digits
are there (`Completed`), and its effect runs at each render (`Render`). `store` is the referral
code a deep link left for the sign-up page, read and removed in two steps. Error lines and
messages are left out.

## 3. Runs

| Run | Bounds | Checks | Shows |
|---|---|---|---|
| `order_payment` | 1 order, 4 requests, 3 generations, totals 50 and 99, ratio 30 %, all faults, a flag, a suspension and a change of role | `TypeOK`, `CommissionBounded`, `EarnImpliesCollected`, `RefundedMeansReturned`, `PartialRefundsBacked`, `RevertExplained`, `FullRefundNetsZero` | ledger, refunds and PortOne agree in every state |
| `commission_book` | 2 orders, 2 requests, 2 months, release, withdrawal, unreliable PortOne | `DashboardSound`, `BookSpec`, `EveryCallAnswered` | the program implements `CommissionBook`; the dashboard's figures of a month and of all time agree with each other and with the ledger; every request is answered |
| `payout` | 1 order, 2 payout runs, 2 months of a day, a refund of 30 %, minimum 25, suspension and release | `PayoutsSound`, `CompleteRun`, `PayoutFinal`, `RunEnds` | payouts are backed by what the period earned, complete and final, and a run ends |
| `sign_up` | 5 seeded members, 3 applicants (the withdrawn root, an adult, a minor), 2 sign-ups at once, flag, staff, withdrawal, cool-down | `PathIsChain`, `ReferrerJoinedBefore`, `TreesSound` | cached paths, both trees and the chain the engine pays agree |
| `auth` | 3 calls of all 8 operations, 2 channels, 2 ticks, 2 attempts | `RotatedIsRevoked`, `ReuseRefused`, `OtpOnce`, `ChallengesSound`, `RequestsSpaced` | what a second call may rely on once the first was answered |
| `checkout` | 2 products, 2 items, 2 fields of which 1 is required, 2 payments, 2 confirms of an order at once, 1 toast | `SuccessMeansPaid`, `PaidAsCharged`, `OrderedAddressShown`, `PaymentsSound`, `PendingIsAwaited`, `CartSurvivesFailure` | what is ordered, charged and shown agrees, only a confirmed order takes the cart, and a page that waits has an answer to come |
| `console` | 1 member, 2 requests of any kind, 4 kinds of notice, pages of 2 rows, 4 rows, 2 fetches | `StatusTraced`, `NoticesSettled`, `ItemsKept`, `ShownIsRight`, `NothingSpins` | statuses are explained, notices settled, items kept, lists complete unless they end in an empty page |
| `account_pages` | 2 requests at once, 2 secrets, 1 link | `ButtonsSound`, `WelcomeIsGranted`, `LockedOutByOverlap`, `CodeFillsOneForm`, `ButtonComesBack` | the log-in page posts no code twice by itself, buttons come back, nobody is welcomed without a session, a member is locked out by an overlap only |

Some properties are conjunctions of named parts, each with its own definition and comment:

* `CommissionBounded` is `NetNonNegative` and `CommissionCap`;
* `DashboardSound` is `FiguresAgree`, `LossFromEarlier` and `EstimateCovers`;
* `PayoutsSound` is the type invariant and `PayoutBacked`;
* `TreesSound` is the type invariant and `TreesShowWhoPays`;
* `ChallengesSound` is the type invariant and `EveryMissCounts`;
* `PaymentsSound` is the type invariant, `OnePaymentPerPage` and `ButtonComesBack`;
* `ShownIsRight` is the type invariant, `RunShown`, `WalkComplete`, `NoRowTwice` and `ShownIsRecorded`;
* `ButtonsSound` is the type invariant, `LoginPostsOnce` and `BusyIsShown`.

Why these bounds are enough. *Orders*: a race needs two requests; the longest interesting
sequence is two confirms and two refunds, or a confirm and three refunds, of one order, hence
four. Totals 50 and 99 give commissions 1, 2 and 2, 4 in the first two generations, so that some
partial reversals round down to nothing (30 % of 2) and others do not (30 % of 4), and rounding
up would break the cap; two totals let the customer pay a wrong sum. Two orders let a request
name the payment of the other. Requests are interchangeable, so the run without liveness uses
them as a symmetry set. In `commission_book` the third generation is missing, which is also the
case in which a clash on the last ancestor is the last statement of the transaction; two months
put the order, its commissions and their reversal on either side of a month's end. *Payout*: an
order of 1000 gives `g1` 30 and `g2` 50; the refund takes `g1` below the minimum of 25; two runs
cover a period that is run twice, at once or after a failure, and two periods side by side.
*Sign-up*: the seeded chain is as long as a path, and one more member at its end has a full path;
two sign-ups race, with a shared address or a shared person. *Login*: two calls race and a third
begins afterwards; two ticks are within and beyond the cool-down, and two attempts are the limit
that two concurrent misses may pass. *Shop*: two payments are one whose page has been left and
one on a new page, or two that come back to one success page; two confirms of an order are
answered in two orders; two fields, one of them optional, make two valid addresses, so that a
draft may differ from what is saved; one unit in stock and two in the cart make an order fail.
*Console*: a change and the fetch of what it left, or two racing requests, are two calls; four
rows in pages of two are a page break with a row to come in at either side. *Account pages*: two
requests are two set-ups, or a verification and a set-up, that overlap, and two secrets tell them
apart.

Four runs state what a document or comment says and the code does not do; each has a
counterexample:

| Run | The documents say | The code does |
|---|---|---|
| `refund_recorded` | a REVERT row that exists is skipped (`engine.service.ts:159`) | the second refund's transaction is rolled back after PortOne returned the money |
| `distributed_once` | one set of rows per paymentId (`01_analyst_requirements.md:412`) | two racing confirms distribute twice when roles change between them |
| `carried_over` | a sum below the minimum is carried over (`payout.service.ts:17`) | the next run sums its own month only |
| `rejoin` | who withdrew longer than the cool-down ago is a fresh account (`user.service.ts:74`) | the old row keeps its unique `ciHash`, and the insert fails |

**Deadlock** is not checked: the requests, runs and pages of an instance are finite in number,
and when all has been done the system rests.

**Fairness.** `commission_book`, `payout`, `console` and `account_pages` check `FairSpec` (under
the calendar `DashFairSpec`), which has weak fairness of each request's own steps and of the
answers to the browser's. Node runs every continuation whose awaited call has returned, `fetch`
ends in an answer or an error, and so does a database statement. No request is obliged to arrive,
no customer to pay, no time to pass, nobody to press a button or to start a payout run.
`order_payment`, `sign_up`, `auth`, `checkout` and the four runs above have no liveness and check
`Spec`. That a success page does not wait for ever is stated as an invariant instead:
`PendingIsAwaited` says that while it waits a confirm of its order is under way, and a confirm
ends in an answer or an error as every `fetch` does.

Each property has a mutant in `PROJECT.json`, a plausible bug in one mapped definition
(an index that is missing, a check left out, rounding the wrong way, a late
flag ignored, a read that is not checked again) that makes TLC find the property violated. The
mutated forms stand next to the definitions they change, and say so.

## 4. Proofs

The theorems hold for every value of the constants that satisfies the named assumption of the
module (`OrderPaymentAssumption`, `SignUpAssumption` and so on), which says little more than which
constants are numbers. Each proof finds an inductive invariant, shows that every action keeps
it, and derives the properties from it.

| Module | Theorem | States |
|---|---|---|
| `OrderPaymentProofs` | `TypeCorrect` | `[]TypeOK` |
| | `RevertsAreExplained` | `[]RevertExplained` |
| | `CommissionsAreCollected` | `[]EarnImpliesCollected` |
| | `RefundsAreReturned` | `[]RefundedMeansReturned` |
| | `FullRefundsNetZero` | `[]FullRefundNetsZero` |
| | `CommissionsAreBounded` | `[]CommissionBounded` |
| | `PartialRefundsAreBacked` | `[]PartialRefundsBacked` |
| | `OrdersGoOn` | `DashSpec => Spec` |
| | `DashboardIsSound` | `DashSpec => []DashboardSound` |
| | `LedgerImplementsBook` | `BookSpec`: the ledger refines `CommissionBook` |
| `PayoutProofs` | `RunsAreComplete` | `[]CompleteRun` |
| | `PayoutsAreFinal` | `PayoutFinal` |
| | `PayoutsAreSound` | `[]PayoutsSound` |
| `SignUpProofs` | `SignUpTyped` | `[]TypeOK` |
| | `PathsAreChains` | `[]PathIsChain` |
| | `TreeHasNoCycle` | `[]ReferrerJoinedBefore` |
| | `PlacesAreFinal` | `PlaceFinal` |
| | `TreesAreSound` | `[]TreesSound` |
| `AuthProofs` | `RotatedSessionsAreRevoked` | `[]RotatedIsRevoked` |
| | `AnsweredTokensAreRefused` | `[]ReuseRefused` |
| | `PasswordsAreUsedOnce` | `[]OtpOnce` |
| | `ChallengesAreSpaced` | `[]RequestsSpaced` |
| | `ChallengesAreSound` | `[]ChallengesSound` |
| `ConsoleProofs` | `ChangesAreTraced` | `[]StatusTraced` |
| | `NoticesAreSettled` | `[]NoticesSettled` |
| | `ItemsAreKept` | `[]ItemsKept` |
| | `ShownStaysRight` | `[]ShownIsRight` |
| `CheckoutProofs` | `SuccessIsPaid` | `[]SuccessMeansPaid` |
| | `ChargedItsTotal` | `[]PaidAsCharged` |
| | `AddressesAreShown` | `[]OrderedAddressShown` |
| | `OnePaymentAtATime` | `[](OnePaymentPerPage /\ ButtonComesBack)` |
| | `PaymentsAreSound` | `[]PaymentsSound` |
| | `WaitingIsAnswered` | `[]PendingIsAwaited` |
| | `CartSurvives` | `CartSurvivesFailure` |
| `AccountPagesProofs` | `LockedOutOnlyByOverlap` | `[]LockedOutByOverlap` |
| | `WelcomesAreGranted` | `[]WelcomeIsGranted` |
| | `ButtonsAreSound` | `[]ButtonsSound` |
| | `CodesFillOneForm` | `[]CodeFillsOneForm` |

*Orders.* A request writes on the strength of what it checked before, so the invariant `IInv`
adds `CallSound`, what a request in flight may rely on (an order that exists; for a confirm about
to write, a payment of exactly the total; for a full refund about to write, a payment cancelled
in full), `LedgerSigned` (EARN rows are positive, REVERT rows negative) and `EarnedOrderExists`,
and `SlotUnique`, which is the unique index. `LastingStep`: no step undoes what requests rely on,
because totals do not change, a payment is made once and a full cancellation is final.
`LedgerStep`: the ledger changes only when `ConfirmWrite` or `RefundWrite` commits, and then by
rows that clash with none. For `FullRefundNetsZero` the point is that a full refund commits only
when no slot is taken, so it reverses every EARN row, at ratio 10000 bps, by exactly its amount
(`WholeShare`), and that a stale confirm which still adds EARN rows also takes the order out of
REFUNDED.

*Sums.* Tables are sets of rows, and a sum over one is a fold over the set of its rows
(`AmountOf`), not a recursive operator. `MoneyProofs` proves what is needed of such sums: of
disjoint sets they add up, and they are monotone, and a sum of shares rounded down is at most
the share of the sum. That is induction over the size of a finite set; it is done with a set of
numbers that has 0 and the successor of each of its members (`InductiveSet`), as the induction
theorems of the library take an operator.

`SumInv` strengthens `IInv` for the properties that sum. `EarnsPriced`: an EARN row is its
generation's share of the order's total and belongs to the ancestor of that generation; with
`SlotUnique` there is at most one for each of three generations, and the shares 3 + 5 + 17 % are a
quarter. The net of a slot is not negative because the slot has one REVERT row at most, and that
is a share of its EARN row. `PartialsCovered`: the rows of partial refunds, with those that
calls in flight are about to insert, add up to no more than PortOne has returned; a lost answer
only leaves a row out. `TablesFinite`, that the tables have finitely many rows, is what makes sums
of them mean anything.

For the dashboard, the calendar is shown to leave the orders as they are (`OrdersGoOn`), so that
`SumInv` holds under it too, and `Dated` adds that every row has a month that has come. Every
EARN row is either payable or withheld and either of this month or of an earlier one, and
`FiguresAgree` sums the parts. A month's loss: the reversals of this month are matched with the
commissions of their slots (`DebitsCovered`), which all being of this month would cover them.
`EarnedIsCounted`: an order that has EARN rows and no refund is in a status that the tree's
estimate counts.

*Refinement.* `LedgerImplementsBook` maps the state to `CommissionBook`: what a slot owes is the
amount of its one row. The initial tables map to the empty book; a customer's payment maps to the
book's `Collect`, the commit of a confirm to its `Earn` and that of a refund to its `Revert`, and
all other steps (reads, PortOne's answers, aborted transactions, restarts) leave the book as it
is.

*Payout.* A run reaches its end on what it did for each member before. `Served` keeps the account:
a member it counted is still to come, has too small a sum, has a payout, or is the one about to
be inserted. It holds across runs because no step removes a payout (`PayoutsStep`), so a run
that another one overtakes loses nothing. Overlapping periods are covered. For `PayoutsSound`,
`SumInv` adds that the sums a run carries are backed (`RunsBacked`), and so are the payouts
(`PayoutBacked`): what a member has earned in a period only grows, because rows are added and
never removed, and what a run summed leaves out the held rows and has the REVERT rows, which are
negative.

*Sign-up.* Rows are only added, at the end, and no step changes a member's `ci`, referrer or path
(`PlaceFinal`). A new member's referrer is older, so the chain of referrers strictly falls; the
path is made from the referrer's own path, which was a chain and stays one. For the trees,
the recursive query of the dashboard and the three look-ups of the console give the same
generations (`DescentIsDefined`, `TreesAgree`), and a member is in generation g below another
just when that one is its ancestor of generation g (`BelowPays`).

*Login.* `AuthInv` is the type of the rows and of each call at each of its steps (`CallsFine`), and
`RotatedIsRevoked`. Rows are only added, and revoked, used and counted rows stay so; hence what
a call found when it began is still known when it goes on, and what had been answered before a
call began is visible to its first read. For `EveryMissCounts`, the calls that missed with a
challenge are a finite set (`Missed`), as only finitely many calls have been made
(`CallsFinite`), of whatever set the calls are taken from; the one step that adds a member to it is
the one that increments the counter.

*Console.* A request's step tells what kind of request it is (`Typed`), so whoever writes a row
of a table is of the kind that may. `Settled` then says which request still answers for what is
not settled: a status without its audit row, a notice without its mark; a status a withdrawal set
has the withdrawal that was answered. Only the cart requests that remove take an item out. For
these the pages matter only in that their buttons press for a member (`CardFine`). What is shown
rests on `ShownInv`. The audit page: unless fetches overlapped (`mixed`), at most one is under
way, and one that is to append has as its cursor the last row shown, so that its page goes on
below (`PageFine`, `RunsJoin`). A table: the rows shown are those down to the cursor, and a page
that is cut off at its last row leaves none out (`TablePageFacts`); a page that failed ends the
walk as an empty one (`blank`), for which nothing is claimed; for `Popped`, rows are still in
order, and only `NoRowTwice` is claimed. A card: a button waits for a request of its own kind and
member (`CardTrue`), and that is answered after its row is written (`CallsRecorded`); rows are
never removed.

*Shop.* A payment that waits for the widget has an order to itself, which nobody confirms
yet and which was not charged (`WidgetsOwn`); so what the widget charges meets an order as it was
created, and `OrdersBooked` (a confirmed order has collected its total and nothing is due)
is kept by every confirm, however often it was posted. `SuccessMeansPaid` is kept because only the
answer of a confirmed order sets success, and the orders a page has had are forgotten only with
what it says. `PendingIsAwaited`: whatever makes a page wait posts a confirm in the same step, and
an answer that is taken ends the waiting. The draft is what the form being edited
says (`DraftsParsed`), and so the address sent is the one shown. `OneMounted`: the button of the
page is disabled for the one payment of that page. The type invariant has sums in it, the totals of
orders, which are natural numbers as sums of such (`SumNat`). `CartSurvivesFailure` is
shown action by action: away from the cart's own page the cart becomes empty only in the step that
receives the answer to a confirm that succeeded, and the order it names is PAID then
(`CartEmptied`).

*Account pages.* `PagesInv` follows a secret from the answer of the set-up to the authenticator
and to the verification: a verification that has compared a code has compared it with a secret
the member holds, and the record changes under it only by a set-up, which is recorded as `mixed`.
`FormInv` is what the pages' own properties need. The log-in page waits for exactly one request
while its button is disabled and for none otherwise, and each page waits for requests of its own
kinds only (`Waits`, `Formed`); each set-up under way has a secret left to give out
(`SecretsLeft`); a code in the store, or taken out for the page that is shown, was put there by a
link that has filled no form yet, and a visit reads the store once (`CodesOwed`).

Only model-checked is liveness under fairness, which is out of the prover's reach:
`EveryCallAnswered`, `RunEnds`, `NothingSpins` and `ButtonComesBack` of `AccountPages`; and so
are, by their nature, the four counterexamples. Every other property that a run checks is stated
by a theorem.

## 5. Found on the way

By the same reading, and without a run of their own:

*Orders and referrals*

* Lateness is decided before PortOne answers; a receipt or the end of the hold in between does not
  change the decision the ledger then follows.
* `confirmReceipt` writes CONFIRMED over whatever the order has become, also REFUNDED, which
  `03b_backend_api_contract.md:216` gives no successor.
* `engine.service.ts:61` calls a repeated `distribute` a no-op; of two confirms that both
  read PENDING_PAYMENT the slower one ends in an error (`DistributeAbortAnswer`).
* `engine.service.ts:57` skips beneficiaries that are not ACTIVE; the code gives SUSPENDED,
  UNDER_REVIEW and MINOR_HOLD ones a row held for review (`EarnStatus`).
* `01_analyst_requirements.md:395` expects no rows when an order is refunded before its
  receipt; the code writes them when the payment is confirmed (`payment.service.ts:100`).
* The seed leaves PAID orders without ledger rows and expects a confirm to write them; a confirm
  of a PAID order returns before it distributes.
* Stock is compared with an order and never decremented.

*Payout*

* A minor's held rows are not summed, so there is no WITHHELD payout for them
  (`01_analyst_requirements.md:408`); releasing the member does not release the rows.
* `payout.service.ts:16` withholds what is not ACTIVE; a suspension between `RunRead` and
  `RunWrite` is missed.
* `README.md:105` has a refund net zero; a held commission is not summed by the payout, but
  the REVERT row of its refund, which is PENDING, is (`Counted`).

*Sign-up and login*

* AbuseLog rows of a refused sign-up are rolled back with it, so the console's count of blocked
  attempts stays at zero.
* Two refreshes with one token that both read before either revokes are both answered, each with
  a session; `loginWithTotp` does not look at the status.
* Concurrent verifications of a one-time password may both be accepted, and together may compare
  more codes than the limit.

*Requests and lists*

* The cursors of products, ledger and abuse logs are the row popped off the page, so each page
  break loses a row (`Popped`).
* The audit page's filters name columns the schema does not have and get an empty list; `actor`
  is ignored; a row of a kind the client does not know makes the whole page empty (`Known`).
* `getUsers` sends `q` and the controller reads `query`; the button that removes a flag flags
  again; the server sends no `flagged`; the shape of the member tree differs, so the console
  shows mock data.
* A release that is offered by a page rendered earlier is applied whatever the status is by then.
* An append that is answered after the filter changed may show rows twice; each answer clears the
  flags of every fetch.
* `getUsers` and `getPayouts` give an empty page without a cursor when a request fails or does not
  parse, so the list ends there and says nothing of the rows left out (`admin-client.ts:357-366`).
* A member's withdrawal (`user.service.ts:190-195`) leaves no audit row.
* A notice whose delivery was lost between the insert and the mark stays unprocessed, as the
  redelivery is taken for a duplicate and acknowledged.
* Of two first cart requests of a member one fails with 500, as does the removal of an item that
  is not there.

*Dashboard*

* Ten queries run at once: a commit between them is in some figures only. `payableKrw` counts
  all pending rows ever, and the month is one of KST while a payout's window is one of UTC.
* An order made in one month and paid in the next earns commissions in the latter, but no month's
  tree ever counts it, as the tree goes by the order's `createdAt` (`dashboard.service.ts:194`).
* A REVERT row of an earlier month's commission makes this month's expectation negative.
* Orders refunded in part drop out of the tree's contribution; `blockedReason` describes the
  buyer, and buyers who are suspended or withdrawn still earn their referrers a commission.

*Browser*

* The order has every line of the cart and the widget charges the selected ones; when they
  differ, the money is taken and `confirm` refuses the amount.
* When a second payment comes back to the success page, the page keeps what it said of the first
  order, and a late answer for the first sets what it says of the second
  (`success/page.tsx:27,43-60`): it may show success for an order that is not confirmed.
* A confirm that is answered late clears lines that were put into the cart since.
* A fresh load of the checkout page starts with an empty form although an address is saved.
* `verify2FA` and `disable2FA` expect other answers than the server gives, so the page shows an
  error where it succeeded; there is no route for the 2FA status, so the page always shows "off".
* After going back from the second factor a late success still logs in, and a late failure is
  shown on the first step. With the set-up dialog closed and reopened two set-ups run, and the
  QR code of the last answer is shown; a late answer also takes the dialog back from the code to the
  QR code, and the field that is mounted anew posts the same code again.
* On the sign-up page the late effect overwrites what was typed; a `?ref=` in the address drops the
  kept code; a code stored between reading and removing, or read for a page that was left, is lost.

## 6. Not modelled

| Part | Why |
|---|---|
| Metrics, health, guards, filters, logging, validation, encryption | they decide nothing the modules rely on |
| Seeds (but the chain of members), migrations, build, deployment, QA scripts | no behaviour at run time |
| Pages and components that only show data, mock data, wording, masks | no protocol of their own |
| KPI counts, the offset of KST, nicknames, `blockedReason` | reads; what was noticed is above |
| The audit rows of `runPayout` and `releasePayout` | written like those in `Requests`, and no property relates them to payouts |
| TOTP arithmetic (RFC 6238), hashing, tokens, signatures | abstracted to right or wrong |
| HTTP calls to PortOne's identity service, SMS and e-mail providers | their answers, or failures, are inputs |
| Keyboard, sharing and start of the native shell | thin calls to plug-ins |

`PROJECT.json` lists every part with its status.
