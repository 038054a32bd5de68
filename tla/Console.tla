------------------------------ MODULE Console ------------------------------
(***************************************************************************)
(* The administrators' console in one browser, above the server's requests: *)
(* the page of the audit log, which asks for its pages as the user goes on  *)
(* and takes the answers in any order; the tables, which are pages the      *)
(* server renders, one per link; and the page of a member with its buttons. *)
(*                                                                          *)
(* Lists are paged by cursor, newest row first.  The number of a row is its *)
(* place in its table, so the rows behind cursor k are k - 1, k - 2, ...;    *)
(* 0 is no cursor.                                                          *)
(***************************************************************************)
EXTENDS Requests, FiniteSetsExt

CONSTANTS
  PageSize,       \* rows per page
  Tables,         \* the lists that are paged through
  MaxRows,        \* bound on the rows of a table, which has one less at first
  MaxFetches      \* bound on the fetches of the audit page under way

ASSUME ConsoleAssumption ==
  /\ Tables \subseteq {"users", "payouts", "products", "ledger"}
  /\ {PageSize, MaxRows, MaxFetches} \subseteq Nat \ {0}

VARIABLES
  view,           \* the page the browser shows
  list,           \* the state of the audit page
  walk,           \* what the pages of a table have shown so far
  card            \* the state of a member's page

vars == <<users, audit, events, carts, calls, view, list, walk, card>>

browserVars == <<view, list, walk, card>>

-----------------------------------------------------------------------------
(* A page of n rows behind a cursor: its rows, and the cursor of the next.  *)

Behind(n, cursor) == IF cursor = 0 THEN n ELSE cursor - 1

Descending(from, size) == [i \in 1..size |-> from - i + 1]

RowsOf(n, cursor) ==
  LET from == Behind(n, cursor) IN Descending(from, Min({from, PageSize}))

\* One row more than a page is read, and cut off: the cursor is the last row of
\* the page.
Sliced(n, cursor) ==
  LET from == Behind(n, cursor)
  IN  [items |-> RowsOf(n, cursor),
       next |-> IF from > PageSize THEN from - PageSize + 1 ELSE 0]

\* The row more is popped, and is the cursor; the next page skips it.
Popped(n, cursor) ==
  LET from == Behind(n, cursor)
  IN  [items |-> RowsOf(n, cursor),
       next |-> IF from > PageSize THEN from - PageSize ELSE 0]

EmptyPage == [items |-> <<>>, next |-> 0]

UsersPage(n, cursor) == Sliced(n, cursor)

PayoutsPage(n, cursor) == Sliced(n, cursor)

ProductsPage(n, cursor) == Popped(n, cursor)

LedgerPage(n, cursor) == Popped(n, cursor)

\* Mutated form: the audit log is paged as the ledger is.
AuditPagePopped(cursor) == Popped(Len(audit), cursor)

AuditPage(cursor) == Sliced(Len(audit), cursor)

\* The service logs USER_FLAG_REVIEW, which is no kind the client knows.
Known(row) == ~(row.op = "flag" /\ row.by = "service")

\* What getAuditLogs makes of an answer: a page with a row of an unknown kind does
\* not parse, and it is an empty page as a failed request is.  So is every answer
\* to a filter: the query names columns the table does not have.
Answers(cursor) ==
  LET page == AuditPage(cursor)
      parses == \A i \in DOMAIN page.items : Known(audit[page.items[i]])
  IN  {EmptyPage} \cup (IF parses THEN {page} ELSE {})

-----------------------------------------------------------------------------

Waiting == [items |-> <<>>, next |-> -1]

NoList == [items |-> <<>>, next |-> 0, loading |-> FALSE,
           more |-> FALSE, mixed |-> FALSE, fetches |-> <<>>]

\* rows: what the table has by now, start: what it had at the first page, blank:
\* whether the last page was shown as empty.
NoWalk == [table |-> "none", shown |-> <<>>, next |-> 0, blank |-> FALSE,
           start |-> 0, rows |-> 0]

NoCard == [member |-> "none", status |-> "none", flagged |-> FALSE,
           flagging |-> "none", releasing |-> "none", done |-> FALSE]

TypeOK ==
  /\ RequestsTypeOK
  /\ view \in {"home", "audit", "table", "member"}
  /\ list.next \in 0..Len(audit)
  /\ \A i \in DOMAIN list.items : list.items[i] \in 1..Len(audit)
  /\ Len(list.fetches) <= MaxFetches
  /\ walk.next \in 0..MaxRows
  /\ card.flagging \in Calls \cup {"none"}
  /\ card.releasing \in Calls \cup {"none"}

Init ==
  /\ RequestsInit
  /\ view = "home"
  /\ list = NoList /\ walk = NoWalk /\ card = NoCard

\* Another page takes the place of the one that was shown; what that one has
\* under way comes to nothing.
Open(page, l, w, c) ==
  /\ view' = page
  /\ list' = l /\ walk' = w /\ card' = c
  /\ UNCHANGED <<users, audit, events, carts, calls>>

GoHome == view # "home" /\ Open("home", NoList, NoWalk, NoCard)

\* Rows are inserted while somebody pages.
NewRow ==
  /\ view = "table" /\ walk.rows < MaxRows
  /\ walk' = [walk EXCEPT !.rows = @ + 1]
  /\ UNCHANGED <<users, audit, events, carts, calls, view, list, card>>

-----------------------------------------------------------------------------
(* AuditLogsPage                                                            *)

Fetch(cursor, append) == [cursor |-> cursor, append |-> append, page |-> Waiting]

\* The effect of the first rendering fetches.
OpenAudit ==
  /\ view = "home"
  /\ Open("audit", [NoList EXCEPT !.loading = TRUE,
                                  !.fetches = <<Fetch(0, FALSE)>>],
          NoWalk, NoCard)

ListOnly ==
  UNCHANGED <<users, audit, events, carts, calls, view, walk, card>>

\* onSubmit and onReset commit a new object, so the effect runs again whatever
\* the filter is.
Submit ==
  /\ view = "audit" /\ Len(list.fetches) < MaxFetches
  /\ list' = [list EXCEPT
       !.loading = TRUE,
       !.mixed = @ \/ list.fetches # <<>>,
       !.fetches = Append(@, Fetch(0, FALSE))]
  /\ ListOnly

ShowMore ==
  /\ view = "audit" /\ Len(list.fetches) < MaxFetches
  /\ list.next # 0 /\ ~list.more
  /\ list' = [list EXCEPT
       !.more = TRUE,
       !.mixed = @ \/ list.fetches # <<>>,
       !.fetches = Append(@, Fetch(list.next, TRUE))]
  /\ ListOnly

\* The server reads the rows.
Query(i) ==
  /\ list.fetches[i].page = Waiting
  /\ \E page \in Answers(list.fetches[i].cursor) :
       list' = [list EXCEPT !.fetches[i].page = page]
  /\ ListOnly

\* Mutated form: the flags are cleared when there is something to show.
ReceiveSome(i) ==
  LET f == list.fetches[i]
      rest == RemoveAt(list.fetches, i)
      none == f.page.items = <<>>
  IN  /\ f.page # Waiting
      /\ list' = [list EXCEPT
           !.items = IF f.append THEN @ \o f.page.items ELSE f.page.items,
           !.next = f.page.next,
           !.loading = @ /\ none, !.more = @ /\ none,
           !.mixed = @ /\ (f.append \/ rest # <<>>),
           !.fetches = rest]
      /\ ListOnly

\* The answer is taken as it comes, whatever has been asked since; its finally
\* clears the flags of every fetch.
Receive(i) ==
  LET f == list.fetches[i]
      rest == RemoveAt(list.fetches, i)
  IN  /\ f.page # Waiting
      /\ list' = [list EXCEPT
           !.items = IF f.append THEN @ \o f.page.items ELSE f.page.items,
           !.next = f.page.next,
           !.loading = FALSE, !.more = FALSE,
           !.mixed = @ /\ (f.append \/ rest # <<>>),
           !.fetches = rest]
      /\ ListOnly

-----------------------------------------------------------------------------
(* The tables, rendered by the server                                       *)

TablePage(t, n, cursor) ==
  CASE t = "users" -> UsersPage(n, cursor)
    [] t = "payouts" -> PayoutsPage(n, cursor)
    [] t = "products" -> ProductsPage(n, cursor)
    [] t = "ledger" -> LedgerPage(n, cursor)

\* What getUsers and getPayouts make of an answer: when the request fails, or the
\* answer does not parse, an empty page and no cursor, as if the list ended.
Fetched(t, n, cursor) == {EmptyPage, TablePage(t, n, cursor)}

OpenTable(t, n) ==
  /\ view = "home"
  /\ \E page \in Fetched(t, n, 0) :
       Open("table", NoList,
            [table |-> t, shown |-> page.items, next |-> page.next,
             blank |-> page.items = <<>>, start |-> n, rows |-> n], NoCard)

\* The link below the table, which is there when there is a cursor.
NextPage ==
  /\ view = "table" /\ walk.next # 0
  /\ \E page \in Fetched(walk.table, walk.rows, walk.next) :
       walk' = [walk EXCEPT !.shown = @ \o page.items, !.next = page.next,
                            !.blank = page.items = <<>>]
  /\ UNCHANGED <<users, audit, events, carts, calls, view, list, card>>

-----------------------------------------------------------------------------
(* AdminUserDetailPage                                                      *)

\* The server sends no "flagged", and the client takes FALSE for it.
CardOf(m) == [NoCard EXCEPT !.member = m, !.status = users[m].status]

OpenMember(m) == view = "home" /\ Open("member", NoList, NoWalk, CardOf(m))

CardOnly ==
  UNCHANGED <<users, audit, events, carts, calls, view, list, walk>>

\* The button flags and unflags; either way the server is asked to flag.
PressFlag(c) ==
  /\ view = "member" /\ card.flagging = "none"
  /\ Arrive(c, "flag", card.member, 0, "update")
  /\ card' = [card EXCEPT !.flagging = c]
  /\ UNCHANGED <<view, list, walk>>

FlagAnswered ==
  /\ card.flagging # "none"
  /\ \/ /\ Succeeded(card.flagging)
        /\ card' = [card EXCEPT !.flagged = ~@, !.flagging = "none"]
     \/ /\ calls[card.flagging].step \in {"lost", "halfway"}
        /\ card' = [card EXCEPT !.flagging = "none"]
  /\ CardOnly

\* The button is there for a member whose status was MINOR_HOLD when the page
\* was rendered.
PressRelease(c) ==
  /\ view = "member" /\ card.status = "MINOR_HOLD"
  /\ card.releasing = "none" /\ ~card.done
  /\ Arrive(c, "releaseMinor", card.member, 0, "update")
  /\ card' = [card EXCEPT !.releasing = c]
  /\ UNCHANGED <<view, list, walk>>

ReleaseAnswered ==
  /\ card.releasing # "none"
  /\ \/ /\ Succeeded(card.releasing)
        /\ card' = [card EXCEPT !.done = TRUE, !.releasing = "none"]
     \/ /\ calls[card.releasing].step \in {"lost", "halfway"}
        /\ card' = [card EXCEPT !.releasing = "none"]
  /\ CardOnly

\* window.location.reload() after a release.
ReloadMember == card.done /\ Open("member", NoList, NoWalk, CardOf(card.member))

-----------------------------------------------------------------------------

Request(c) == (ArriveAny(c) \/ Proceed(c) \/ CallLost(c)) /\ UNCHANGED browserVars

AuditPageSteps ==
  \/ Submit
  \/ ShowMore
  \/ \E i \in DOMAIN list.fetches : Query(i) \/ Receive(i)

MemberPageSteps ==
  \/ \E c \in Calls : PressFlag(c) \/ PressRelease(c)
  \/ FlagAnswered \/ ReleaseAnswered \/ ReloadMember

Next ==
  \/ \E c \in Calls : Request(c)
  \/ \E t \in Tables : OpenTable(t, MaxRows - 1)
  \/ \E m \in Users : OpenMember(m)
  \/ OpenAudit \/ GoHome \/ NextPage \/ NewRow
  \/ AuditPageSteps
  \/ MemberPageSteps

Spec == Init /\ [][Next]_vars

\* A request being served goes on, and an answer comes and is taken; nobody need
\* press or open anything.
FairSpec ==
  /\ Spec
  /\ \A c \in Calls : WF_vars(Proceed(c) /\ UNCHANGED browserVars)
  /\ WF_vars(\E i \in DOMAIN list.fetches : Query(i) \/ Receive(i))
  /\ WF_vars(FlagAnswered) /\ WF_vars(ReleaseAnswered)

-----------------------------------------------------------------------------
(* Correctness                                                              *)

IsRun(s) == \A i \in DOMAIN s : i > 1 => s[i] = s[i - 1] - 1

\* As long as no two fetches were under way together, the audit page shows rows
\* that follow one another: none left out, none twice, also when rows come in
\* between two pages.
RunShown == list.mixed \/ IsRun(list.items)

\* Who follows the links of a table to the end, and does not find the last page
\* empty, has seen every row that was there at the first page, whatever came in
\* meanwhile.  An empty page is a request that failed: a cursor never leads to one.
WalkComplete ==
  view = "table" /\ walk.next = 0 /\ ~walk.blank
      /\ walk.table \in {"users", "payouts"} =>
    \A r \in 1..walk.start : Contains(walk.shown, r)

\* No list shows a row on two of its pages.
NoRowTwice == \A i, j \in DOMAIN walk.shown : i < j => walk.shown[i] > walk.shown[j]

\* A member's page says flagged, or released, of what the audit log has.
ShownIsRecorded ==
  view = "member" =>
    \A op \in {"flag", "releaseMinor"} :
      (op = "flag" /\ card.flagged) \/ (op = "releaseMinor" /\ card.done) =>
        \E i \in DOMAIN audit : /\ audit[i].op = op
                                /\ audit[i].member = card.member

\* What the console shows is right: the state is one the browser can be in, lists
\* leave out and repeat nothing, and a member's page says what the log has.
ShownIsRight ==
  TypeOK /\ RunShown /\ WalkComplete /\ NoRowTwice /\ ShownIsRecorded

\* No button and no list spins for ever.
NothingSpins ==
  /\ []<>(~list.loading /\ ~list.more)
  /\ []<>(card.flagging = "none")
  /\ []<>(card.releasing = "none")

=============================================================================
