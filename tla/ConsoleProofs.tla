---------------------------- MODULE ConsoleProofs ----------------------------
(***************************************************************************)
(* Proofs about Console and the requests below it.  A request's step tells  *)
(* which kind of request it is (Typed), so that whoever writes a row of a   *)
(* table is of the kind that may; each of the invariants of the requests    *)
(* then says which request still answers for what is not settled yet.       *)
(*                                                                          *)
(* What the browser shows is right because of what is under way (ShownInv): *)
(* the fetch that is to append begins below the last row shown, the rows of *)
(* a table are shown down to its cursor, and a button waits for a request   *)
(* of its own kind and member, whose row is written before it is answered.  *)
(***************************************************************************)
EXTENDS Console, SequenceTheorems, TLAPS

AdminSteps == {"update", "row", "log", "ok", "lost", "halfway"}

AdminCall ==
  [op : {"flag", "suspend", "releaseMinor"}, member : Users, with : {0},
   step : AdminSteps]
  \cup [op : {"markStaff"}, member : Users, with : Roles, step : AdminSteps]

NoticeCall == [op : {"notice"}, member : Users, with : Event,
               step : {"insert", "mark", "ok", "lost", "halfway"}]

UpsertCall == [op : {"upsertItem"}, member : Users, with : Quantities,
               step : {"find", "create", "write", "ok", "refused", "lost"}]

CartCall == [op : CartOps \ {"upsertItem"}, member : Users, with : {0},
             step : {"find", "create", "write", "ok", "refused", "lost"}]

WithdrawCall == [op : {"withdraw"}, member : Users, with : {0},
                 step : {"update", "ok", "lost"}]

AnyCall == AdminCall \cup NoticeCall \cup UpsertCall \cup CartCall \cup WithdrawCall

Typed ==
  /\ users \in [Users -> UserRow]
  /\ audit \in Seq(AuditRow)
  /\ events \in [Event -> {"unknown", "received", "processed"}]
  /\ carts \in [Users -> CartRow]
  /\ calls \in [Calls -> AnyCall \cup {Idle}]

\* Only a page of a member has buttons that press for the member.
CardFine ==
  /\ {"member", "done", "releasing"} \subseteq DOMAIN card
  /\ \/ card.member \in Users
     \/ view # "member" /\ ~card.done /\ card.releasing = "none"

Settled == StatusTraced /\ NoticesSettled /\ ItemsKept

ConsoleInv == Typed /\ CardFine /\ Settled

rows == <<users, audit, events, carts, calls>>

-----------------------------------------------------------------------------
(* Requests                                                                 *)

\* A kind of request has its own steps, but for the last ones.
LEMMA KindOfStep ==
  ASSUME Typed, NEW c \in Calls
  PROVE  /\ calls[c].step \in {"row", "log"} => calls[c] \in AdminCall
         /\ calls[c].step = "update" => calls[c] \in AdminCall \cup WithdrawCall
         /\ calls[c].step \in {"insert", "mark"} => calls[c] \in NoticeCall
         /\ calls[c].step \in {"find", "create", "write"} =>
              calls[c] \in UpsertCall \cup CartCall
         /\ calls[c].step \in Pending => calls[c] \in AnyCall
BY DEF Typed, AnyCall, AdminCall, AdminSteps, NoticeCall, UpsertCall,
   CartCall, WithdrawCall, Idle, Pending

\* A request that goes to another step keeps all else.
LEMMA GoToFacts ==
  ASSUME Typed, NEW c \in Calls, calls[c] \in AnyCall, NEW step, GoTo(c, step)
  PROVE  /\ calls'[c] = [calls[c] EXCEPT !.step = step]
         /\ calls'[c].op = calls[c].op
         /\ calls'[c].member = calls[c].member
         /\ calls'[c].with = calls[c].with
         /\ calls'[c].step = step
         /\ \A d \in Calls \ {c} : calls'[d] = calls[d]
         /\ [calls[c] EXCEPT !.step = step] \in AnyCall
              => calls' \in [Calls -> AnyCall \cup {Idle}]
<1>1. calls' = [calls EXCEPT ![c] = [calls[c] EXCEPT !.step = step]]
  BY DEF GoTo
<1>2. calls'[c] = [calls[c] EXCEPT !.step = step]
  BY <1>1 DEF Typed
<1>3. /\ {"op", "member", "with", "step"} \subseteq DOMAIN calls[c]
  BY DEF AnyCall, AdminCall, AdminSteps, NoticeCall, UpsertCall, CartCall,
     WithdrawCall
<1>4. \A d \in Calls \ {c} : calls'[d] = calls[d]
  BY <1>1 DEF Typed
<1>5. ASSUME [calls[c] EXCEPT !.step = step] \in AnyCall
      PROVE  calls' \in [Calls -> AnyCall \cup {Idle}]
  BY <1>1, <1>5 DEF Typed
<1>. QED  BY <1>2, <1>3, <1>4, <1>5

\* What is settled stays so while requests that answer for something do.
LEMMA SettledStays ==
  ASSUME Typed, Settled, NEW c \in Calls, calls[c] \in AnyCall,
         NEW step, GoTo(c, step),
         users' = users, audit' = audit, events' = events, carts' = carts,
         ~At(c, AdminOps, "row") \/ step = "halfway",
         ~At(c, {"notice"}, "mark") \/ step = "halfway",
         calls[c].step \notin {"ok", "lost", "halfway"},
         ~(step = "ok" /\ calls[c].op = "upsertItem")
  PROVE  Settled'
<1>0. /\ calls'[c].op = calls[c].op
      /\ calls'[c].member = calls[c].member
      /\ calls'[c].with = calls[c].with
      /\ calls'[c].step = step
      /\ \A d \in Calls \ {c} : calls'[d] = calls[d]
  BY GoToFacts
<1>1. StatusTraced'
  BY <1>0 DEF Settled, StatusTraced, At
<1>2. NoticesSettled'
  BY <1>0 DEF Settled, NoticesSettled, At
<1>3. ItemsKept'
  BY <1>0 DEF Settled, ItemsKept, At
<1>. QED  BY <1>1, <1>2, <1>3 DEF Settled

\* A request arrives.
LEMMA ArriveStep ==
  ASSUME Typed, Settled, NEW c \in Calls, NEW op, NEW m, NEW with, NEW step,
         Arrive(c, op, m, with, step),
         [op |-> op, member |-> m, with |-> with, step |-> step] \in AnyCall,
         step \notin {"ok", "halfway", "row", "mark"}
  PROVE  Typed' /\ Settled'
<1>1. /\ calls[c] = Idle
      /\ calls' = [calls EXCEPT ![c] = [op |-> op, member |-> m, with |-> with,
                                        step |-> step]]
      /\ UNCHANGED <<users, audit, events, carts>>
  BY DEF Arrive
<1>2. Typed'
  BY <1>1 DEF Typed
<1>3. /\ calls'[c].step = step
      /\ \A d \in Calls \ {c} : calls'[d] = calls[d]
  BY <1>1 DEF Typed
<1>4. calls[c].step = "idle" /\ calls[c].op = "none"
  BY <1>1 DEF Idle
<1>5. StatusTraced'
  BY <1>1, <1>3, <1>4 DEF Settled, StatusTraced, At
<1>6. NoticesSettled'
  BY <1>1, <1>3, <1>4 DEF Settled, NoticesSettled
<1>7. ItemsKept'
  BY <1>1, <1>3, <1>4 DEF Settled, ItemsKept, At
<1>. QED  BY <1>2, <1>5, <1>6, <1>7 DEF Settled

\* The UPDATE: the status it leaves is answered for by the call, which has its row
\* to write.
LEMMA AdminUpdateStep ==
  ASSUME Typed, Settled, NEW c \in Calls, AdminUpdate(c)
  PROVE  Typed' /\ Settled'
<1>1. /\ calls[c].step = "update" /\ GoTo(c, "row")
      /\ UNCHANGED <<audit, events, carts>>
  BY DEF AdminUpdate
<1>2. calls[c] \in AdminCall
  BY <1>1, KindOfStep DEF AdminUpdate, WithdrawCall
<1>3. calls[c] \in AnyCall /\ [calls[c] EXCEPT !.step = "row"] \in AnyCall
  BY <1>2 DEF AnyCall, AdminCall, AdminSteps
<1>4. /\ calls' \in [Calls -> AnyCall \cup {Idle}]
      /\ calls'[c].op = calls[c].op /\ calls'[c].member = calls[c].member
      /\ calls'[c].step = "row"
      /\ \A d \in Calls \ {c} : calls'[d] = calls[d]
  BY <1>1, <1>3, GoToFacts
<1>. DEFINE m == calls[c].member
<1>5. /\ m \in Users /\ calls[c].op \in AdminOps
      /\ calls[c].op = "markStaff" => calls[c].with \in Roles
  BY <1>2 DEF AdminCall, AdminOps
<1>6. /\ users' \in [Users -> UserRow]
      /\ \A u \in Users \ {m} : users'[u].status = users[u].status
      /\ \/ users'[m].status = users[m].status
         \/ users'[m].status = StatusAfter(calls[c].op)
  <2>1. CASE calls[c].op = "flag" /\ FlagUser(m)
    BY <2>1, <1>5 DEF FlagUser, Typed, UserRow, UserStatuses, StatusAfter
  <2>2. CASE calls[c].op = "suspend" /\ SuspendUser(m)
    BY <2>2, <1>5 DEF SuspendUser, Typed, UserRow, UserStatuses, StatusAfter
  <2>3. CASE calls[c].op = "markStaff" /\ MarkStaff(m, calls[c].with)
    <3>1. users[m] \in UserRow /\ users' = [users EXCEPT ![m].role = calls[c].with]
      BY <1>5, <2>3 DEF MarkStaff, Typed
    <3>2. [users[m] EXCEPT !.role = calls[c].with] \in UserRow
      BY <1>5, <2>3, <3>1 DEF UserRow
    <3>. QED  BY <1>5, <3>1, <3>2 DEF Typed, UserRow
  <2>4. CASE calls[c].op = "releaseMinor" /\ ReleaseMinor(m)
    <3>. DEFINE row == [users[m] EXCEPT !.status = "ACTIVE", !.eligible = TRUE]
    <3>1. users[m] \in UserRow /\ users' = [users EXCEPT ![m] = row]
      BY <1>5, <2>4 DEF ReleaseMinor, Typed
    <3>2. row \in UserRow /\ row.status = "ACTIVE"
      BY <3>1 DEF UserRow, UserStatuses
    <3>3. StatusAfter(calls[c].op) = "ACTIVE"
      BY <2>4 DEF StatusAfter
    <3>. HIDE DEF row
    <3>. QED  BY <1>5, <3>1, <3>2, <3>3 DEF Typed
  <2>. QED  BY <2>1, <2>2, <2>3, <2>4 DEF AdminUpdate
<1>7. Typed'
  BY <1>1, <1>4, <1>6 DEF Typed
<1>8. StatusTraced'
  BY <1>1, <1>4, <1>5, <1>6 DEF Settled, StatusTraced, At
<1>9. NoticesSettled'
  BY <1>1, <1>4 DEF Settled, NoticesSettled
<1>10. ItemsKept'
  BY <1>1, <1>4 DEF Settled, ItemsKept, At
<1>. QED  BY <1>7, <1>8, <1>9, <1>10 DEF Settled

\* A withdrawal answers for the status it leaves by itself.
LEMMA MemberWithdrawStep ==
  ASSUME Typed, Settled, NEW c \in Calls, MemberWithdraw(c)
  PROVE  Typed' /\ Settled'
<1>. DEFINE m == calls[c].member
<1>1. /\ calls[c].step = "update" /\ calls[c].op = "withdraw" /\ GoTo(c, "ok")
      /\ users' = [users EXCEPT ![m].status = "WITHDRAWN"]
      /\ UNCHANGED <<audit, events, carts>>
  BY DEF MemberWithdraw, At, Withdraw
<1>2. calls[c] \in WithdrawCall
  BY <1>1, KindOfStep DEF AdminCall
<1>3. calls[c] \in AnyCall /\ [calls[c] EXCEPT !.step = "ok"] \in AnyCall
  BY <1>2 DEF AnyCall, WithdrawCall
<1>4. /\ calls' \in [Calls -> AnyCall \cup {Idle}]
      /\ calls'[c].op = "withdraw" /\ calls'[c].member = m
      /\ calls'[c].step = "ok"
      /\ \A d \in Calls \ {c} : calls'[d] = calls[d]
  BY <1>1, <1>3, GoToFacts
<1>5. m \in Users
  BY <1>2 DEF WithdrawCall
<1>6. /\ users' \in [Users -> UserRow]
      /\ users'[m].status = StatusAfter("withdraw")
      /\ \A u \in Users \ {m} : users'[u].status = users[u].status
  BY <1>1, <1>5 DEF Typed, UserRow, UserStatuses, StatusAfter
<1>7. Typed'
  BY <1>1, <1>4, <1>6 DEF Typed
<1>8. StatusTraced'
  BY <1>1, <1>4, <1>5, <1>6 DEF Settled, StatusTraced, At, AdminOps
<1>9. NoticesSettled'
  BY <1>1, <1>4 DEF Settled, NoticesSettled
<1>10. ItemsKept'
  BY <1>1, <1>4 DEF Settled, ItemsKept, At
<1>. QED  BY <1>7, <1>8, <1>9, <1>10 DEF Settled

\* A row is written: what the call answered for, the row answers for.
LEMMA AdminRowStep ==
  ASSUME Typed, Settled, NEW c \in Calls, AdminRow(c)
  PROVE  Typed' /\ Settled'
<1>1. /\ calls[c].step = "row" /\ GoTo(c, "log")
      /\ audit' = Append(audit, RowOf(c, "service"))
      /\ UNCHANGED <<users, events, carts>>
  BY DEF AdminRow
<1>2. calls[c] \in AdminCall
  BY <1>1, KindOfStep
<1>3. calls[c] \in AnyCall /\ [calls[c] EXCEPT !.step = "log"] \in AnyCall
  BY <1>2 DEF AnyCall, AdminCall, AdminSteps
<1>4. /\ calls' \in [Calls -> AnyCall \cup {Idle}]
      /\ calls'[c].op = calls[c].op /\ calls'[c].member = calls[c].member
      /\ calls'[c].step = "log"
      /\ \A d \in Calls \ {c} : calls'[d] = calls[d]
  BY <1>1, <1>3, GoToFacts
<1>5. RowOf(c, "service") \in AuditRow
  BY <1>2 DEF RowOf, AuditRow, AdminCall, AdminOps
<1>6. /\ audit' \in Seq(AuditRow)
      /\ DOMAIN audit \subseteq DOMAIN audit' /\ Len(audit) + 1 \in DOMAIN audit'
      /\ \A i \in DOMAIN audit : audit'[i] = audit[i]
      /\ audit'[Len(audit) + 1] = RowOf(c, "service")
  BY <1>1, <1>5 DEF Typed
<1>7. Typed'
  BY <1>1, <1>4, <1>6 DEF Typed
<1>8. StatusTraced'
  <2>. DEFINE ByRow(u, i) == /\ audit[i].member = u /\ audit[i].by = "service"
                             /\ StatusAfter(audit[i].op) = users[u].status
              ByCall(u, d) == /\ \/ At(d, AdminOps, "row") \/ At(d, AdminOps, "halfway")
                                 \/ At(d, {"withdraw"}, "ok")
                              /\ calls[d].member = u
                              /\ StatusAfter(calls[d].op) = users[u].status
  <2>1. ASSUME NEW u \in Users, NEW i \in DOMAIN audit, ByRow(u, i)
        PROVE  ByRow(u, i)' /\ i \in DOMAIN audit'
    BY <1>1, <1>6, <2>1
  <2>2. ASSUME NEW u \in Users, NEW d \in Calls \ {c}, ByCall(u, d)
        PROVE  ByCall(u, d)'
    BY <1>1, <1>4, <2>2 DEF At
  <2>3. ASSUME NEW u \in Users, ByCall(u, c)
        PROVE  \E i \in DOMAIN audit' : ByRow(u, i)'
    BY <1>1, <1>6, <2>3 DEF RowOf, At
  <2>4. \A u \in Users : users[u].status # FirstStatus(u) =>
          (\E i \in DOMAIN audit : ByRow(u, i)) \/ (\E d \in Calls : ByCall(u, d))
    BY DEF Settled, StatusTraced, At
  <2>5. \A u \in Users : users'[u].status # FirstStatus(u) =>
          (\E i \in DOMAIN audit' : ByRow(u, i)') \/ (\E d \in Calls : ByCall(u, d)')
    <3>. HIDE DEF ByRow, ByCall
    <3>. QED  BY <1>1, <2>1, <2>2, <2>3, <2>4
  <2>. QED  BY <2>5 DEF StatusTraced, FirstStatus
<1>9. NoticesSettled'
  BY <1>1, <1>4 DEF Settled, NoticesSettled
<1>10. ItemsKept'
  BY <1>1, <1>4 DEF Settled, ItemsKept, At
<1>. QED  BY <1>7, <1>8, <1>9, <1>10 DEF Settled

\* The interceptor's row settles nothing, as it may be missing.
LEMMA AuditLogStep ==
  ASSUME Typed, Settled, NEW c \in Calls, AuditLog(c)
  PROVE  Typed' /\ Settled'
<1>1. /\ calls[c].step = "log" /\ GoTo(c, "ok")
      /\ \/ audit' = Append(audit, RowOf(c, "interceptor"))
         \/ audit' = audit
      /\ UNCHANGED <<users, events, carts>>
  BY DEF AuditLog
<1>2. calls[c] \in AdminCall
  BY <1>1, KindOfStep
<1>3. calls[c] \in AnyCall /\ [calls[c] EXCEPT !.step = "ok"] \in AnyCall
  BY <1>2 DEF AnyCall, AdminCall, AdminSteps
<1>4. /\ calls' \in [Calls -> AnyCall \cup {Idle}]
      /\ calls'[c].op = calls[c].op /\ calls'[c].member = calls[c].member
      /\ calls'[c].step = "ok"
      /\ \A d \in Calls \ {c} : calls'[d] = calls[d]
  BY <1>1, <1>3, GoToFacts
<1>5. RowOf(c, "interceptor") \in AuditRow /\ calls[c].op # "upsertItem"
  BY <1>2 DEF RowOf, AuditRow, AdminCall, AdminOps
<1>6. /\ audit' \in Seq(AuditRow)
      /\ DOMAIN audit \subseteq DOMAIN audit'
      /\ \A i \in DOMAIN audit : audit'[i] = audit[i]
  <2>1. CASE audit' = audit
    BY <2>1 DEF Typed
  <2>2. CASE audit' = Append(audit, RowOf(c, "interceptor"))
    BY <2>2, <1>5 DEF Typed
  <2>. QED  BY <1>1, <2>1, <2>2
<1>7. Typed'
  BY <1>1, <1>4, <1>6 DEF Typed
<1>8. StatusTraced'
  BY <1>1, <1>4, <1>6 DEF Settled, StatusTraced, At, FirstStatus
<1>9. NoticesSettled'
  BY <1>1, <1>4 DEF Settled, NoticesSettled
<1>10. ItemsKept'
  BY <1>1, <1>4, <1>5 DEF Settled, ItemsKept, At
<1>. QED  BY <1>7, <1>8, <1>9, <1>10 DEF Settled

\* A notice that is recorded is answered for by the delivery that recorded it.
LEMMA NoticeInsertStep ==
  ASSUME Typed, Settled, NEW c \in Calls, NoticeInsert(c)
  PROVE  Typed' /\ Settled'
<1>. DEFINE e == calls[c].with
<1>1. /\ calls[c].step = "insert"
      /\ UNCHANGED <<users, audit, carts>>
      /\ \/ events' = [events EXCEPT ![e] = "received"] /\ GoTo(c, "mark")
         \/ events' = events /\ GoTo(c, "ok")
  BY DEF NoticeInsert
<1>2. calls[c] \in NoticeCall
  BY <1>1, KindOfStep
<1>3. /\ calls[c] \in AnyCall
      /\ [calls[c] EXCEPT !.step = "mark"] \in AnyCall
      /\ [calls[c] EXCEPT !.step = "ok"] \in AnyCall
  BY <1>2 DEF AnyCall, NoticeCall
<1>4. e \in Event /\ calls[c].op = "notice"
  BY <1>2 DEF NoticeCall
<1>5. CASE events' = [events EXCEPT ![e] = "received"] /\ GoTo(c, "mark")
  <2>1. /\ calls' \in [Calls -> AnyCall \cup {Idle}]
        /\ calls'[c].op = "notice" /\ calls'[c].with = e
        /\ calls'[c].step = "mark"
        /\ \A d \in Calls \ {c} : calls'[d] = calls[d]
    BY <1>3, <1>4, <1>5, GoToFacts
  <2>2. /\ events' \in [Event -> {"unknown", "received", "processed"}]
        /\ \A f \in Event \ {e} : events'[f] = events[f]
    BY <1>4, <1>5 DEF Typed
  <2>3. Typed'
    BY <1>1, <2>1, <2>2 DEF Typed
  <2>4. StatusTraced'
    BY <1>1, <1>4, <2>1 DEF Settled, StatusTraced, At, AdminOps
  <2>5. NoticesSettled'
    BY <1>4, <2>1, <2>2 DEF Settled, NoticesSettled
  <2>6. ItemsKept'
    BY <1>1, <1>4, <2>1 DEF Settled, ItemsKept, At
  <2>. QED  BY <2>3, <2>4, <2>5, <2>6 DEF Settled
<1>6. CASE events' = events /\ GoTo(c, "ok")
  <2>1. Settled'
    BY <1>1, <1>3, <1>4, <1>6, SettledStays DEF At
  <2>2. calls' \in [Calls -> AnyCall \cup {Idle}]
    BY <1>3, <1>6, GoToFacts
  <2>. QED  BY <1>1, <1>6, <2>1, <2>2 DEF Typed
<1>. QED  BY <1>1, <1>5, <1>6

\* What is left as received after a mark is of another type, and so is the delivery
\* that answers for it.
LEMMA NoticeMarkStep ==
  ASSUME Typed, Settled, NEW c \in Calls, NoticeMark(c)
  PROVE  Typed' /\ Settled'
<1>1. /\ calls[c].step = "mark" /\ GoTo(c, "ok")
      /\ events' = [e \in Event |->
                      IF events[e] # "unknown" /\ e.type = calls[c].with.type
                        THEN "processed" ELSE events[e]]
      /\ UNCHANGED <<users, audit, carts>>
  BY DEF NoticeMark
<1>2. calls[c] \in NoticeCall
  BY <1>1, KindOfStep
<1>3. /\ calls[c] \in AnyCall /\ [calls[c] EXCEPT !.step = "ok"] \in AnyCall
      /\ calls[c].op = "notice"
  BY <1>2 DEF AnyCall, NoticeCall
<1>4. /\ calls' \in [Calls -> AnyCall \cup {Idle}]
      /\ calls'[c].op = "notice" /\ calls'[c].step = "ok"
      /\ \A d \in Calls \ {c} : calls'[d] = calls[d]
  BY <1>1, <1>3, GoToFacts
<1>5. Typed'
  BY <1>1, <1>4 DEF Typed
<1>6. StatusTraced'
  BY <1>1, <1>3, <1>4 DEF Settled, StatusTraced, At, AdminOps
<1>7. NoticesSettled'
  <2>. SUFFICES ASSUME NEW e \in Event, events'[e] = "received"
                PROVE  \E d \in Calls : /\ calls'[d].op = "notice"
                                        /\ calls'[d].with = e
                                        /\ calls'[d].step \in {"mark", "halfway"}
    BY DEF NoticesSettled
  <2>1. events[e] = "received" /\ e.type # calls[c].with.type
    BY <1>1
  <2>2. PICK d \in Calls : /\ calls[d].op = "notice" /\ calls[d].with = e
                           /\ calls[d].step \in {"mark", "halfway"}
    BY <2>1 DEF Settled, NoticesSettled
  <2>3. d # c
    BY <2>1, <2>2
  <2>. QED  BY <1>4, <2>2, <2>3
<1>8. ItemsKept'
  BY <1>1, <1>3, <1>4 DEF Settled, ItemsKept, At
<1>. QED  BY <1>5, <1>6, <1>7, <1>8 DEF Settled

\* Looking for the cart and making it put nothing in and take nothing out.
LEMMA CartFindStep ==
  ASSUME Typed, Settled, NEW c \in Calls, CartFind(c)
  PROVE  Typed' /\ Settled'
<1>. DEFINE step == IF carts[calls[c].member].made THEN "write" ELSE "create"
<1>1. /\ calls[c].step = "find" /\ GoTo(c, step)
      /\ UNCHANGED <<users, audit, events, carts>>
  BY DEF CartFind
<1>2. calls[c] \in UpsertCall \cup CartCall
  BY <1>1, KindOfStep
<1>3. calls[c] \in AnyCall /\ [calls[c] EXCEPT !.step = step] \in AnyCall
  BY <1>2 DEF AnyCall, UpsertCall, CartCall
<1>4. Settled'
  BY <1>1, <1>3, SettledStays DEF At
<1>5. calls' \in [Calls -> AnyCall \cup {Idle}]
  BY <1>1, <1>3, GoToFacts
<1>. QED  BY <1>1, <1>4, <1>5 DEF Typed

\* The cart of a member is made, unless another request has made it.
LEMMA CartCreateStep ==
  ASSUME Typed, Settled, NEW c \in Calls, CartCreate(c)
  PROVE  Typed' /\ Settled'
<1>. DEFINE m == calls[c].member
            step == IF carts[m].made THEN "refused" ELSE "write"
<1>1. /\ calls[c].step = "create" /\ GoTo(c, step)
      /\ carts' = [carts EXCEPT ![m].made = TRUE]
      /\ UNCHANGED <<users, audit, events>>
  BY DEF CartCreate
<1>2. calls[c] \in UpsertCall \cup CartCall
  BY <1>1, KindOfStep
<1>3. calls[c] \in AnyCall /\ [calls[c] EXCEPT !.step = step] \in AnyCall
  BY <1>2 DEF AnyCall, UpsertCall, CartCall
<1>4. /\ calls' \in [Calls -> AnyCall \cup {Idle}]
      /\ calls'[c].op = calls[c].op /\ calls'[c].step = step
      /\ \A d \in Calls \ {c} : calls'[d] = calls[d]
  BY <1>1, <1>3, GoToFacts
<1>5. m \in Users /\ calls[c].op \in CartOps
  BY <1>2 DEF UpsertCall, CartCall, CartOps
<1>6. /\ carts' \in [Users -> CartRow]
      /\ \A u \in Users : carts'[u].quantity = carts[u].quantity
  BY <1>1, <1>5 DEF Typed, CartRow
<1>7. Typed'
  BY <1>1, <1>4, <1>6 DEF Typed
<1>8. StatusTraced'
  BY <1>1, <1>4, <1>5 DEF Settled, StatusTraced, At, AdminOps, CartOps
<1>9. NoticesSettled'
  BY <1>1, <1>4, <1>5 DEF Settled, NoticesSettled, CartOps
<1>10. ItemsKept'
  <2>. SUFFICES ASSUME NEW d \in Calls, At(d, {"upsertItem"}, "ok")'
                PROVE  \/ carts'[calls'[d].member].quantity # 0
                       \/ \E b \in Calls :
                            /\ At(b, {"removeItem", "clearCart"}, "ok")'
                            /\ calls'[b].member = calls'[d].member
    BY DEF ItemsKept
  <2>1. d # c /\ calls'[d] = calls[d]
    BY <1>4 DEF At
  <2>2. calls[d] \in AnyCall /\ calls[d].member \in Users
    BY <2>1 DEF At, Typed, Idle, AnyCall, AdminCall, NoticeCall, UpsertCall, CartCall,
                      WithdrawCall
  <2>3. At(d, {"upsertItem"}, "ok")
    BY <2>1 DEF At
  <2>. QED  BY <1>1, <1>4, <1>6, <2>1, <2>2, <2>3 DEF Settled, ItemsKept, At
<1>. QED  BY <1>7, <1>8, <1>9, <1>10 DEF Settled

\* The write of a cart: an upsert leaves something in, and a request that takes out
\* what is there ends well, so that it answers for what is gone.
LEMMA CartWriteStep ==
  ASSUME Typed, Settled, NEW c \in Calls, CartWrite(c)
  PROVE  Typed' /\ Settled'
<1>. DEFINE m == calls[c].member
            quantity == CASE calls[c].op = "getCart" -> carts[m].quantity
                          [] calls[c].op = "upsertItem" -> calls[c].with
                          [] calls[c].op \in {"removeItem", "clearCart"} -> 0
            step == IF calls[c].op = "removeItem" /\ carts[m].quantity = 0
                      THEN "refused" ELSE "ok"
<1>1. /\ calls[c].step = "write" /\ GoTo(c, step)
      /\ carts' = [carts EXCEPT ![m].quantity = quantity]
      /\ UNCHANGED <<users, audit, events>>
  BY DEF CartWrite
<1>2. calls[c] \in UpsertCall \cup CartCall
  BY <1>1, KindOfStep
<1>3. calls[c] \in AnyCall /\ [calls[c] EXCEPT !.step = step] \in AnyCall
  BY <1>2 DEF AnyCall, UpsertCall, CartCall
<1>4. /\ calls' \in [Calls -> AnyCall \cup {Idle}]
      /\ calls'[c].op = calls[c].op /\ calls'[c].member = m
      /\ calls'[c].step = step
      /\ \A d \in Calls \ {c} : calls'[d] = calls[d]
  BY <1>1, <1>3, GoToFacts
<1>5. /\ m \in Users /\ calls[c].op \in CartOps
      /\ calls[c].op = "upsertItem" => calls[c].with \in Quantities
  BY <1>2 DEF UpsertCall, CartCall, CartOps
<1>6. /\ quantity \in Quantities \cup {0}
      /\ calls[c].op = "upsertItem" => quantity # 0
      /\ carts[m].quantity # 0 /\ quantity = 0 =>
           calls[c].op \in {"removeItem", "clearCart"} /\ step = "ok"
  BY <1>5, RequestsAssumption DEF CartOps, Typed, CartRow
<1>. HIDE DEF quantity, step
<1>7. /\ carts' \in [Users -> CartRow]
      /\ carts'[m].quantity = quantity
      /\ \A u \in Users \ {m} : carts'[u].quantity = carts[u].quantity
  BY <1>1, <1>5, <1>6 DEF Typed, CartRow
<1>8. Typed'
  BY <1>1, <1>4, <1>7 DEF Typed
<1>9. StatusTraced'
  BY <1>1, <1>4, <1>5 DEF Settled, StatusTraced, At, AdminOps, CartOps
<1>10. NoticesSettled'
  BY <1>1, <1>4, <1>5 DEF Settled, NoticesSettled, CartOps
<1>11. ItemsKept'
  <2>. SUFFICES ASSUME NEW d \in Calls, At(d, {"upsertItem"}, "ok")'
                PROVE  \/ carts'[calls'[d].member].quantity # 0
                       \/ \E b \in Calls :
                            /\ At(b, {"removeItem", "clearCart"}, "ok")'
                            /\ calls'[b].member = calls'[d].member
    BY DEF ItemsKept
  <2>1. CASE d = c
    BY <1>4, <1>6, <1>7, <2>1 DEF At
  <2>2. CASE d # c
    <3>1. /\ calls'[d] = calls[d] /\ At(d, {"upsertItem"}, "ok")
          /\ calls[d].member \in Users
      BY <1>4, <2>2 DEF At, Typed, Idle, AnyCall, AdminCall, NoticeCall,
                        UpsertCall, CartCall, WithdrawCall
    <3>2. \/ carts[calls[d].member].quantity # 0
          \/ \E b \in Calls \ {c} : /\ At(b, {"removeItem", "clearCart"}, "ok")
                                    /\ calls[b].member = calls[d].member
      BY <1>1, <3>1 DEF Settled, ItemsKept, At
    <3>3. CASE \E b \in Calls \ {c} : /\ At(b, {"removeItem", "clearCart"}, "ok")
                                      /\ calls[b].member = calls[d].member
      BY <1>4, <3>1, <3>3 DEF At
    <3>4. CASE carts[calls[d].member].quantity # 0
      BY <1>4, <1>6, <1>7, <3>1, <3>4 DEF At
    <3>. QED  BY <3>2, <3>3, <3>4
  <2>. QED  BY <2>1, <2>2
<1>. QED  BY <1>8, <1>9, <1>10, <1>11 DEF Settled

\* A request that is lost answers for what it had begun to the end.
LEMMA CallLostStep ==
  ASSUME Typed, Settled, NEW c \in Calls, CallLost(c)
  PROVE  Typed' /\ Settled'
<1>. DEFINE step == IF calls[c].step \in {"row", "mark"} THEN "halfway" ELSE "lost"
<1>1. /\ calls[c].step \in Pending /\ GoTo(c, step)
      /\ UNCHANGED <<users, audit, events, carts>>
  BY DEF CallLost
<1>2. calls[c] \in AnyCall
  BY <1>1, KindOfStep
<1>3. [calls[c] EXCEPT !.step = step] \in AnyCall
  BY <1>2 DEF AnyCall, AdminCall, AdminSteps, NoticeCall, UpsertCall, CartCall,
              WithdrawCall
<1>4. Settled'
  BY <1>1, <1>2, SettledStays DEF Pending, At
<1>5. calls' \in [Calls -> AnyCall \cup {Idle}]
  BY <1>1, <1>2, <1>3, GoToFacts
<1>. QED  BY <1>1, <1>4, <1>5 DEF Typed

\* Whatever a request's next step is.
LEMMA RequestStep ==
  ASSUME Typed, Settled, NEW c \in Calls, Proceed(c) \/ CallLost(c)
  PROVE  Typed' /\ Settled'
BY AdminUpdateStep, AdminRowStep, AuditLogStep, NoticeInsertStep, NoticeMarkStep,
   CartFindStep, CartCreateStep, CartWriteStep, MemberWithdrawStep, CallLostStep
DEF Proceed

\* A request of any kind arrives.
LEMMA ArriveAnyStep ==
  ASSUME Typed, Settled, NEW c \in Calls, ArriveAny(c)
  PROVE  Typed' /\ Settled'
<1>1. PICK m \in Users :
        \/ \E op \in {"flag", "suspend", "releaseMinor", "withdraw"} :
             Arrive(c, op, m, 0, "update")
        \/ \E role \in MarkRoles : Arrive(c, "markStaff", m, role, "update")
        \/ \E op \in {"getCart", "removeItem", "clearCart"} :
             Arrive(c, op, m, 0, "find")
        \/ \E q \in Quantities : Arrive(c, "upsertItem", m, q, "find")
        \/ \E e \in Event : Arrive(c, "notice", m, e, "insert")
  BY DEF ArriveAny
<1>2. ASSUME NEW op \in {"flag", "suspend", "releaseMinor", "withdraw"},
             Arrive(c, op, m, 0, "update")
      PROVE  Typed' /\ Settled'
  <2>1. [op |-> op, member |-> m, with |-> 0, step |-> "update"] \in AnyCall
    BY DEF AnyCall, AdminCall, AdminSteps, WithdrawCall
  <2>. QED  BY <1>2, <2>1, ArriveStep
<1>3. ASSUME NEW role \in MarkRoles, Arrive(c, "markStaff", m, role, "update")
      PROVE  Typed' /\ Settled'
  <2>1. [op |-> "markStaff", member |-> m, with |-> role, step |-> "update"]
          \in AnyCall
    BY RequestsAssumption DEF AnyCall, AdminCall, AdminSteps
  <2>. QED  BY <1>3, <2>1, ArriveStep
<1>4. ASSUME NEW op \in {"getCart", "removeItem", "clearCart"},
             Arrive(c, op, m, 0, "find")
      PROVE  Typed' /\ Settled'
  <2>1. [op |-> op, member |-> m, with |-> 0, step |-> "find"] \in AnyCall
    BY DEF AnyCall, CartCall, CartOps
  <2>. QED  BY <1>4, <2>1, ArriveStep
<1>5. ASSUME NEW q \in Quantities, Arrive(c, "upsertItem", m, q, "find")
      PROVE  Typed' /\ Settled'
  <2>1. [op |-> "upsertItem", member |-> m, with |-> q, step |-> "find"] \in AnyCall
    BY DEF AnyCall, UpsertCall
  <2>. QED  BY <1>5, <2>1, ArriveStep
<1>6. ASSUME NEW e \in Event, Arrive(c, "notice", m, e, "insert")
      PROVE  Typed' /\ Settled'
  <2>1. [op |-> "notice", member |-> m, with |-> e, step |-> "insert"] \in AnyCall
    BY DEF AnyCall, NoticeCall
  <2>. QED  BY <1>6, <2>1, ArriveStep
<1>. QED  BY <1>1, <1>2, <1>3, <1>4, <1>5, <1>6

\* A request of a button of a member's page.
LEMMA PressStep ==
  ASSUME ConsoleInv, NEW c \in Calls, PressFlag(c) \/ PressRelease(c)
  PROVE  ConsoleInv'
<1>1. /\ view = "member" /\ view' = view
      /\ \E op \in {"flag", "releaseMinor"} : Arrive(c, op, card.member, 0, "update")
      /\ \/ card' = [card EXCEPT !.flagging = c]
         \/ card' = [card EXCEPT !.releasing = c]
  BY DEF PressFlag, PressRelease
<1>2. card.member \in Users
  BY <1>1 DEF ConsoleInv, CardFine
<1>3. PICK op \in {"flag", "releaseMinor"} : Arrive(c, op, card.member, 0, "update")
  BY <1>1
<1>4. [op |-> op, member |-> card.member, with |-> 0, step |-> "update"] \in AnyCall
  BY <1>2 DEF AnyCall, AdminCall, AdminSteps
<1>5. Typed' /\ Settled'
  BY <1>3, <1>4, ArriveStep DEF ConsoleInv
<1>6. CardFine'
  BY <1>1, <1>2 DEF ConsoleInv, CardFine
<1>. QED  BY <1>5, <1>6 DEF ConsoleInv

-----------------------------------------------------------------------------
(* The browser                                                              *)

\* The other steps of the browser leave the tables and the requests alone.
LEMMA BrowserStep ==
  ASSUME ConsoleInv, UNCHANGED rows, CardFine'
  PROVE  ConsoleInv'
<1>1. Typed'
  BY DEF ConsoleInv, Typed, rows
<1>2. Settled'
  BY DEF ConsoleInv, Settled, StatusTraced, NoticesSettled, ItemsKept, At, rows
<1>. QED  BY <1>1, <1>2 DEF ConsoleInv

\* Every step of the browser and of the requests keeps the invariant.
LEMMA NextStep ==
  ASSUME ConsoleInv, [Next]_vars
  PROVE  ConsoleInv'
<1>1. ASSUME NEW c \in Calls, Request(c)  PROVE ConsoleInv'
  <2>1. Typed' /\ Settled'
    BY <1>1, RequestStep, ArriveAnyStep DEF Request, ConsoleInv
  <2>. QED  BY <1>1, <2>1 DEF Request, browserVars, ConsoleInv, CardFine
<1>2. ASSUME NEW page, NEW l, NEW w, NEW k, Open(page, l, w, k),
             \/ k = NoCard /\ page # "member"
             \/ \E m \in Users : k = CardOf(m)
      PROVE  ConsoleInv'
  <2>1. view' = page /\ card' = k /\ UNCHANGED rows
    BY <1>2 DEF Open, rows
  <2>2. /\ {"member", "done", "releasing"} \subseteq DOMAIN NoCard
        /\ ~NoCard.done /\ NoCard.releasing = "none"
    BY DEF NoCard
  <2>3. \A m \in Users : /\ DOMAIN CardOf(m) = DOMAIN NoCard
                         /\ CardOf(m).member = m
    BY DEF CardOf, NoCard
  <2>. QED  BY <1>2, <2>1, <2>2, <2>3, BrowserStep DEF CardFine
<1>3. CASE \E t \in Tables : OpenTable(t, MaxRows - 1)
  BY <1>2, <1>3 DEF OpenTable
<1>4. CASE \E m \in Users : OpenMember(m)
  BY <1>2, <1>4 DEF OpenMember
<1>5. CASE OpenAudit \/ GoHome
  BY <1>2, <1>5 DEF OpenAudit, GoHome
<1>6. CASE NextPage \/ NewRow
  BY <1>6, BrowserStep DEF NextPage, NewRow, ConsoleInv, CardFine, rows
<1>7. CASE AuditPageSteps
  BY <1>7, BrowserStep DEF AuditPageSteps, Submit, ShowMore, Query, Receive,
                           ListOnly, ConsoleInv, CardFine, rows
<1>8. CASE FlagAnswered
  <2>1. /\ view' = view /\ UNCHANGED rows
        /\ \/ card' = [card EXCEPT !.flagged = ~@, !.flagging = "none"]
           \/ card' = [card EXCEPT !.flagging = "none"]
    BY <1>8 DEF FlagAnswered, CardOnly, rows
  <2>2. CardFine'
    BY <2>1 DEF ConsoleInv, CardFine
  <2>. QED  BY <2>1, <2>2, BrowserStep
<1>9. CASE ReloadMember
  BY <1>2, <1>9 DEF ReloadMember, ConsoleInv, CardFine
<1>10. CASE ReleaseAnswered
  <2>1. /\ view' = view /\ UNCHANGED rows
        /\ \/ card' = [card EXCEPT !.done = TRUE, !.releasing = "none"]
           \/ card' = [card EXCEPT !.releasing = "none"]
    BY <1>10 DEF ReleaseAnswered, CardOnly, rows
  <2>2. card.member \in Users
    BY <1>10 DEF ReleaseAnswered, ConsoleInv, CardFine
  <2>3. CardFine'
    BY <2>1, <2>2 DEF ConsoleInv, CardFine
  <2>. QED  BY <2>1, <2>3, BrowserStep
<1>11. CASE \E c \in Calls : PressFlag(c) \/ PressRelease(c)
  BY <1>11, PressStep
<1>12. CASE UNCHANGED vars
  BY <1>12, BrowserStep DEF vars, rows, ConsoleInv, CardFine
<1>. QED  BY <1>1, <1>3, <1>4, <1>5, <1>6, <1>7, <1>8, <1>9, <1>10, <1>11, <1>12
          DEF Next, MemberPageSteps

-----------------------------------------------------------------------------
(* What the console shows                                                   *)

ListFields == {"items", "next", "loading", "more", "mixed", "fetches"}

FetchRecord == [cursor : Nat, append : BOOLEAN, page : [items : Seq(Nat), next : Int]]

EndsAt(s, k) == s # <<>> /\ s[Len(s)] = k

\* Rows that follow the cursor and one another, and the cursor behind them, of a
\* log that has n rows by now.
PageFine(page, cursor, n) ==
  /\ \A i \in DOMAIN page.items : page.items[i] \in 1..n
  /\ page.next \in 0..n
  /\ IsRun(page.items)
  /\ page.next # 0 => EndsAt(page.items, page.next)
  /\ cursor # 0 /\ page.items # <<>> => page.items[1] = cursor - 1

FetchFine(f, n) ==
  /\ f.cursor <= n
  /\ f.page = Waiting \/ PageFine(f.page, f.cursor, n)

ListTyped(n) ==
  /\ DOMAIN list = ListFields /\ list.mixed \in BOOLEAN
  /\ list.items \in Seq(Nat) /\ \A i \in DOMAIN list.items : list.items[i] \in 1..n
  /\ list.next \in 0..n
  /\ list.fetches \in Seq(FetchRecord) /\ Len(list.fetches) <= MaxFetches
  /\ \A i \in DOMAIN list.fetches : FetchFine(list.fetches[i], n)

\* One fetch is under way at most, and what it is to append begins below the last
\* row that is shown.
ListInOrder ==
  /\ IsRun(list.items)
  /\ list.next # 0 => EndsAt(list.items, list.next)
  /\ Len(list.fetches) <= 1
  /\ \A i \in DOMAIN list.fetches : list.fetches[i].append =>
       list.fetches[i].cursor # 0 /\ EndsAt(list.items, list.fetches[i].cursor)

ListFine == ListTyped(Len(audit)) /\ (list.mixed \/ ListInOrder)

WalkFields == {"table", "shown", "next", "blank", "start", "rows"}

\* A table was shown down to the cursor: of two of the tables without a gap, unless
\* the last page was empty.
WalkFine ==
  /\ DOMAIN walk = WalkFields
  /\ walk.shown \in Seq(Nat) /\ walk.next \in 0..MaxRows /\ walk.start \in Nat
  /\ walk.rows \in Nat
  /\ NoRowTwice
  /\ \A i \in DOMAIN walk.shown : walk.shown[i] >= walk.next
  /\ view = "table" =>
       /\ walk.table \in Tables
       /\ walk.table \in {"users", "payouts"} =>
            \/ walk.blank /\ walk.next = 0
            \/ \A r \in 1..walk.start : Contains(walk.shown, r) \/ r < walk.next

CardFields == {"member", "status", "flagged", "flagging", "releasing", "done"}

Recorded(log, op, m) == \E i \in DOMAIN log : log[i].op = op /\ log[i].member = m

\* A request that succeeded has its row, and the card waits for its own requests.
CardTrue ==
  /\ DOMAIN card = CardFields
  /\ card.flagging \in Calls \cup {"none"} /\ card.releasing \in Calls \cup {"none"}
  /\ card.flagging # "none" =>
       calls[card.flagging].op = "flag" /\ calls[card.flagging].member = card.member
  /\ card.releasing # "none" =>
       /\ calls[card.releasing].op = "releaseMinor"
       /\ calls[card.releasing].member = card.member
  /\ card.flagged => Recorded(audit, "flag", card.member)
  /\ card.done => Recorded(audit, "releaseMinor", card.member)

CallsRecorded ==
  \A c \in Calls :
    calls[c].op \in {"flag", "releaseMinor"} /\ calls[c].step \in {"log", "ok"} =>
      Recorded(audit, calls[c].op, calls[c].member)

ShownInv ==
  /\ view \in {"home", "audit", "table", "member"}
  /\ ListFine /\ WalkFine /\ CardTrue /\ CallsRecorded

\* Rows are added to the log and none is changed, and a request that has arrived
\* keeps what it asks.
LogGrows ==
  /\ Len(audit) <= Len(audit')
  /\ \A i \in DOMAIN audit : audit'[i] = audit[i]

CallsStand ==
  \A d \in Calls : calls[d].op # "none" =>
    calls'[d].op = calls[d].op /\ calls'[d].member = calls[d].member

-----------------------------------------------------------------------------
(* Pages                                                                    *)

\* The least of two numbers.
LEMMA MinOfTwo ==
  ASSUME NEW a \in Nat, NEW b \in Nat
  PROVE  Min({a, b}) = IF a <= b THEN a ELSE b
<1>1. \E x \in {a, b} : \A y \in {a, b} : x =< y
  OBVIOUS
<1>2. Min({a, b}) \in {a, b} /\ \A y \in {a, b} : Min({a, b}) =< y
  BY <1>1 DEF Min
<1>. QED  BY <1>2

\* The rows behind a cursor: they go down by one from the row behind it.
LEMMA RowsFacts ==
  ASSUME NEW n \in Nat, NEW cursor \in Nat
  PROVE  /\ Behind(n, cursor) \in Nat
         /\ RowsOf(n, cursor) \in Seq(Nat)
         /\ Len(RowsOf(n, cursor)) =
              IF Behind(n, cursor) <= PageSize THEN Behind(n, cursor) ELSE PageSize
         /\ \A i \in 1..Len(RowsOf(n, cursor)) :
              RowsOf(n, cursor)[i] = Behind(n, cursor) - i + 1
<1>. DEFINE from == Behind(n, cursor)
            size == IF from <= PageSize THEN from ELSE PageSize
<1>1. from \in Nat /\ PageSize \in Nat \ {0}
  BY ConsoleAssumption DEF Behind
<1>2. RowsOf(n, cursor) = [i \in 1..size |-> from - i + 1]
  BY <1>1, MinOfTwo DEF RowsOf, Descending
<1>3. size \in Nat /\ size <= from
  BY <1>1
<1>. HIDE DEF size
<1>4. \A i \in 1..size : from - i + 1 \in Nat
  BY <1>1, <1>3
<1>. HIDE DEF from
<1>5. RowsOf(n, cursor) \in [1..size -> Nat]
  BY <1>2, <1>4
<1>6. RowsOf(n, cursor) \in Seq(Nat) /\ Len(RowsOf(n, cursor)) = size
  BY <1>3, <1>5
<1>. QED  BY <1>1, <1>2, <1>6 DEF size, from

\* A page that is cut off at its last row is fine behind its cursor.
LEMMA SlicedFine ==
  ASSUME NEW n \in Nat, NEW cursor \in 0..n
  PROVE  /\ Sliced(n, cursor) \in [items : Seq(Nat), next : Int]
         /\ PageFine(Sliced(n, cursor), cursor, n)
<1>. DEFINE from == Behind(n, cursor)
            page == Sliced(n, cursor)
            next == IF from > PageSize THEN from - PageSize + 1 ELSE 0
            shown == RowsOf(n, cursor)
<1>. cursor \in Nat
  OBVIOUS
<1>0. /\ from \in Nat /\ shown \in Seq(Nat)
      /\ Len(shown) = IF from <= PageSize THEN from ELSE PageSize
      /\ \A i \in 1..Len(shown) : shown[i] = from - i + 1
  BY RowsFacts
<1>a. page = [items |-> shown, next |-> next]
  BY DEF Sliced
<1>. HIDE DEF page, shown
<1>b. page.items = shown /\ page.next = next
  BY <1>a
<1>1. /\ from \in Nat /\ page.items \in Seq(Nat)
      /\ Len(page.items) = IF from <= PageSize THEN from ELSE PageSize
      /\ \A i \in 1..Len(page.items) : page.items[i] = from - i + 1
      /\ page.next = IF from > PageSize THEN from - PageSize + 1 ELSE 0
      /\ page = [items |-> page.items, next |-> page.next]
  BY <1>0, <1>a, <1>b
<1>2. /\ from <= n /\ PageSize \in Nat \ {0}
      /\ cursor # 0 => from = cursor - 1
  BY ConsoleAssumption DEF Behind
<1>. HIDE DEF from
<1>3. DOMAIN page.items = 1..Len(page.items) /\ Len(page.items) \in Nat
  BY <1>1
<1>4. page \in [items : Seq(Nat), next : Int]
  BY <1>1, <1>2
<1>5. ASSUME NEW i \in DOMAIN page.items  PROVE page.items[i] \in 1..n
  <2>1. i \in 1..Len(page.items) /\ page.items[i] = from - i + 1
    BY <1>1, <1>3
  <2>2. i \in Nat /\ i >= 1 /\ i <= from
    BY <1>1, <1>2, <1>3, <2>1
  <2>3. n \in Nat /\ from \in Nat /\ from <= n
    BY <1>1, <1>2
  <2>. QED  BY <2>1, <2>2, <2>3
<1>6. page.next \in 0..n
  BY <1>1, <1>2
<1>7. IsRun(page.items)
  <2>. SUFFICES ASSUME NEW i \in 1..Len(page.items), i > 1
                PROVE  page.items[i] = page.items[i - 1] - 1
    BY <1>3 DEF IsRun
  <2>1. i \in Nat /\ i - 1 \in 1..Len(page.items)
    BY <1>3
  <2>2. page.items[i] = from - i + 1 /\ page.items[i - 1] = from - (i - 1) + 1
    BY <1>1, <2>1
  <2>. QED  BY <1>1, <2>1, <2>2
<1>8. page.next # 0 => EndsAt(page.items, page.next)
  BY <1>1, <1>2, <1>3 DEF EndsAt
<1>9. ASSUME cursor # 0, page.items # <<>>  PROVE page.items[1] = cursor - 1
  <2>1. 1 \in 1..Len(page.items)
    BY <1>1, <1>9, EmptySeq
  <2>2. page.items[1] = from - 1 + 1
    BY <1>1, <2>1
  <2>. QED  BY <1>1, <1>2, <1>9, <2>2
<1>10. PageFine(page, cursor, n)
  BY <1>5, <1>6, <1>7, <1>8, <1>9 DEF PageFine
<1>. QED  BY <1>4, <1>10 DEF page

\* An answer is a page that is fine, one that does not parse too.
LEMMA AnswersFine ==
  ASSUME Typed, NEW cursor \in 0..Len(audit), NEW page \in Answers(cursor)
  PROVE  /\ page \in [items : Seq(Nat), next : Int]
         /\ PageFine(page, cursor, Len(audit))
<1>1. Len(audit) \in Nat
  BY DEF Typed
<1>2. page = EmptyPage \/ page = Sliced(Len(audit), cursor)
  BY DEF Answers, AuditPage
<1>3. CASE page = EmptyPage
  BY <1>1, <1>3 DEF EmptyPage, PageFine, IsRun
<1>4. CASE page = Sliced(Len(audit), cursor)
  BY <1>1, <1>4, SlicedFine
<1>. QED  BY <1>2, <1>3, <1>4

\* A page of a table goes down from the row behind its cursor and not below the
\* cursor it leaves; those that are cut off at their last row leave nothing out.
LEMMA GenuinePage ==
  ASSUME NEW t \in Tables, NEW n \in Nat, NEW cursor \in Nat,
         NEW page, page = TablePage(t, n, cursor),
         NEW from, from = Behind(n, cursor)
  PROVE  /\ from \in Nat /\ page.items \in Seq(Nat) /\ page.next \in 0..from
         /\ \A i \in DOMAIN page.items :
              page.items[i] \in 1..from /\ page.items[i] >= page.next
         /\ \A i, j \in DOMAIN page.items : i < j => page.items[i] > page.items[j]
         /\ t \in {"users", "payouts"} =>
              \A r \in 1..from : Contains(page.items, r) \/ r < page.next
<1>1. page = IF t \in {"users", "payouts"} THEN Sliced(n, cursor)
                                           ELSE Popped(n, cursor)
  BY ConsoleAssumption DEF TablePage, UsersPage, PayoutsPage, ProductsPage, LedgerPage
<1>a. /\ page.items = RowsOf(n, cursor)
      /\ page.next = IF from <= PageSize THEN 0
                     ELSE IF t \in {"users", "payouts"} THEN from - PageSize + 1
                     ELSE from - PageSize
  <2>. DEFINE at == IF from > PageSize THEN from - PageSize + 1 ELSE 0
              past == IF from > PageSize THEN from - PageSize ELSE 0
  <2>1. /\ Sliced(n, cursor) = [items |-> RowsOf(n, cursor), next |-> at]
        /\ Popped(n, cursor) = [items |-> RowsOf(n, cursor), next |-> past]
    BY DEF Sliced, Popped
  <2>2. /\ page.items = RowsOf(n, cursor)
        /\ page.next = IF t \in {"users", "payouts"} THEN at ELSE past
    <3>. HIDE DEF at, past
    <3>. QED  BY <1>1, <2>1
  <2>3. from \in Nat /\ PageSize \in Nat
    BY RowsFacts, ConsoleAssumption
  <2>. QED  BY <2>2, <2>3
<1>2. /\ from \in Nat /\ page.items \in Seq(Nat)
      /\ Len(page.items) = IF from <= PageSize THEN from ELSE PageSize
      /\ \A i \in 1..Len(page.items) : page.items[i] = from - i + 1
  <2>. DEFINE shown == RowsOf(n, cursor)
  <2>1. /\ from \in Nat /\ shown \in Seq(Nat)
        /\ Len(shown) = IF from <= PageSize THEN from ELSE PageSize
        /\ \A i \in 1..Len(shown) : shown[i] = from - i + 1
    BY RowsFacts
  <2>. HIDE DEF shown
  <2>2. page.items = shown
    BY <1>a DEF shown
  <2>. QED  BY <2>1, <2>2
<1>3. PageSize \in Nat \ {0}
  BY ConsoleAssumption
<1>4. DOMAIN page.items = 1..Len(page.items) /\ Len(page.items) \in Nat
  BY <1>2
<1>5. page.next \in 0..from
  BY <1>a, <1>2, <1>3
<1>6. ASSUME NEW i \in DOMAIN page.items
      PROVE  page.items[i] \in 1..from /\ page.items[i] >= page.next
  <2>1. i \in 1..Len(page.items) /\ page.items[i] = from - i + 1
    BY <1>2, <1>4
  <2>. DEFINE size == Len(page.items)
  <2>3. from \in Nat
    BY <1>2
  <2>a. /\ size \in Nat /\ size <= from
        /\ page.next # 0 => page.next \in Nat /\ page.next <= from - size + 1
    BY <1>a, <1>2, <1>3
  <2>b. i \in Nat /\ i >= 1 /\ i <= size
    BY <2>1, <2>a
  <2>. HIDE DEF size
  <2>2. /\ i \in Nat /\ i >= 1 /\ i <= from
        /\ page.next \in Nat /\ page.next <= from - i + 1
    BY <2>3, <2>a, <2>b
  <2>. QED  BY <2>1, <2>2, <2>3
<1>7. ASSUME NEW i \in DOMAIN page.items, NEW j \in DOMAIN page.items, i < j
      PROVE  page.items[i] > page.items[j]
  <2>1. i \in 1..Len(page.items) /\ j \in 1..Len(page.items)
    BY <1>4
  <2>2. page.items[i] = from - i + 1 /\ page.items[j] = from - j + 1
    BY <1>2, <2>1
  <2>. QED  BY <1>2, <1>4, <1>7, <2>1, <2>2
<1>8. ASSUME t \in {"users", "payouts"}, NEW r \in 1..from, ~(r < page.next)
      PROVE  Contains(page.items, r)
  <2>a. /\ r \in Nat /\ r >= 1 /\ r <= from
        /\ from \in Nat /\ Len(page.items) \in Nat
    BY <1>2, <1>4
  <2>b. from - r + 1 <= Len(page.items)
    BY <1>a, <1>2, <1>3, <1>8, <2>a
  <2>1. from - r + 1 \in 1..Len(page.items)
    BY <2>a, <2>b
  <2>2. page.items[from - r + 1] = from - (from - r + 1) + 1
    BY <1>2, <2>1
  <2>3. page.items[from - r + 1] = r
    BY <1>2, <2>2
  <2>. QED  BY <2>1, <2>3 DEF Contains
<1>. QED  BY <1>2, <1>5, <1>6, <1>7, <1>8

\* So does what the client shows, which may be an empty page instead.
LEMMA TablePageFacts ==
  ASSUME NEW t \in Tables, NEW n \in Nat, NEW cursor \in Nat,
         NEW page \in Fetched(t, n, cursor),
         NEW from, from = Behind(n, cursor)
  PROVE  /\ from \in Nat /\ page.items \in Seq(Nat) /\ page.next \in 0..from
         /\ \A i \in DOMAIN page.items :
              page.items[i] \in 1..from /\ page.items[i] >= page.next
         /\ \A i, j \in DOMAIN page.items : i < j => page.items[i] > page.items[j]
         /\ t \in {"users", "payouts"} =>
              \/ page.items = <<>> /\ page.next = 0
              \/ \A r \in 1..from : Contains(page.items, r) \/ r < page.next
<1>1. CASE page = TablePage(t, n, cursor)
  BY <1>1, GenuinePage
<1>2. CASE page = EmptyPage
  <2>1. page.items = <<>> /\ page.next = 0
    BY <1>2 DEF EmptyPage
  <2>2. from \in Nat
    BY RowsFacts
  <2>. QED  BY <2>1, <2>2
<1>. QED  BY <1>1, <1>2 DEF Fetched

\* Where the elements of two sequences are when one follows the other.
LEMMA ConcatAt ==
  ASSUME NEW S, NEW s \in Seq(S), NEW t \in Seq(S)
  PROVE  /\ s \o t \in Seq(S) /\ Len(s \o t) = Len(s) + Len(t)
         /\ \A i \in 1..Len(s) : (s \o t)[i] = s[i]
         /\ \A i \in 1..Len(t) : (s \o t)[Len(s) + i] = t[i]
<1>1. Len(s) \in Nat /\ Len(t) \in Nat
  BY LenProperties
<1>2. /\ s \o t \in Seq(S) /\ Len(s \o t) = Len(s) + Len(t)
      /\ \A i \in 1..Len(s) + Len(t) :
           (s \o t)[i] = IF i <= Len(s) THEN s[i] ELSE t[i - Len(s)]
  BY ConcatProperties
<1>3. ASSUME NEW i \in 1..Len(s)  PROVE (s \o t)[i] = s[i]
  BY <1>1, <1>2
<1>4. ASSUME NEW i \in 1..Len(t)  PROVE (s \o t)[Len(s) + i] = t[i]
  <2>1. /\ Len(s) + i \in 1..Len(s) + Len(t) /\ ~(Len(s) + i <= Len(s))
        /\ (Len(s) + i) - Len(s) = i
    BY <1>1
  <2>. QED  BY <1>2, <2>1
<1>. QED  BY <1>2, <1>3, <1>4

\* A run to which the one behind its last row is added is a run, and ends as that.
LEMMA RunsJoin ==
  ASSUME NEW s \in Seq(Nat), NEW t \in Seq(Nat), NEW k \in Nat,
         IsRun(s), IsRun(t), EndsAt(s, k), t # <<>> => t[1] = k - 1
  PROVE  /\ s \o t \in Seq(Nat)
         /\ IsRun(s \o t)
         /\ \A m : EndsAt(t, m) => EndsAt(s \o t, m)
<1>1. /\ s \o t \in Seq(Nat) /\ Len(s \o t) = Len(s) + Len(t)
      /\ \A i \in 1..Len(s) : (s \o t)[i] = s[i]
      /\ \A i \in 1..Len(t) : (s \o t)[Len(s) + i] = t[i]
  BY ConcatAt
<1>2. /\ Len(s) \in Nat /\ Len(t) \in Nat
      /\ DOMAIN s = 1..Len(s) /\ DOMAIN t = 1..Len(t)
      /\ DOMAIN (s \o t) = 1..Len(s) + Len(t)
  BY <1>1
<1>3. ASSUME NEW i \in DOMAIN (s \o t), i > 1
      PROVE  (s \o t)[i] = (s \o t)[i - 1] - 1
  <2>1. CASE i <= Len(s)
    <3>1. /\ i \in 1..Len(s) /\ i - 1 \in 1..Len(s)
      BY <1>2, <1>3, <2>1
    <3>2. (s \o t)[i] = s[i] /\ (s \o t)[i - 1] = s[i - 1]
      BY <1>1, <3>1
    <3>3. s[i] = s[i - 1] - 1
      BY <1>2, <1>3, <3>1 DEF IsRun
    <3>. QED  BY <3>2, <3>3
  <2>2. CASE i = Len(s) + 1
    <3>1. /\ 1 \in 1..Len(t) /\ t # <<>>
          /\ Len(s) \in 1..Len(s) /\ i - 1 = Len(s)
      BY <1>2, <1>3, <2>2
    <3>2. (s \o t)[i] = t[1] /\ (s \o t)[i - 1] = s[Len(s)]
      BY <1>1, <2>2, <3>1
    <3>. QED  BY <3>1, <3>2 DEF EndsAt
  <2>3. CASE i > Len(s) + 1
    <3>. DEFINE j == i - Len(s)
    <3>a. /\ Len(s) \in Nat /\ Len(t) \in Nat
          /\ i \in 1..(Len(s) + Len(t))
      BY <1>2
    <3>b. i \in Nat /\ i <= Len(s) + Len(t)
      BY <3>a
    <3>1. /\ j \in 1..Len(t) /\ j > 1 /\ j - 1 \in 1..Len(t)
          /\ i = Len(s) + j /\ i - 1 = Len(s) + (j - 1)
      BY <2>3, <3>a, <3>b
    <3>. HIDE DEF j
    <3>2. (s \o t)[i] = t[j] /\ (s \o t)[i - 1] = t[j - 1]
      BY <1>1, <3>1
    <3>3. t[j] = t[j - 1] - 1
      BY <1>2, <3>1 DEF IsRun
    <3>. QED  BY <3>2, <3>3
  <2>4. i \in 1..(Len(s) + Len(t))
    BY <1>2
  <2>5. i \in Nat /\ Len(s) \in Nat
    BY <1>2, <2>4
  <2>6. i <= Len(s) \/ i = Len(s) + 1 \/ i > Len(s) + 1
    BY <2>5
  <2>. QED  BY <2>1, <2>2, <2>3, <2>6, Zenon
<1>4. ASSUME NEW m, EndsAt(t, m)  PROVE EndsAt(s \o t, m)
  <2>1. t # <<>> /\ t[Len(t)] = m
    BY <1>4 DEF EndsAt
  <2>2. Len(t) \in 1..Len(t)
    BY <1>2, <2>1
  <2>3. (s \o t)[Len(s \o t)] = m /\ s \o t # <<>>
    BY <1>1, <1>2, <2>1, <2>2
  <2>. QED  BY <2>3 DEF EndsAt
<1>. QED  BY <1>1, <1>3, <1>4 DEF IsRun

\* What is left of a sequence without one of its elements.
LEMMA RemoveAtFacts ==
  ASSUME NEW S, NEW s \in Seq(S), NEW i \in DOMAIN s
  PROVE  /\ RemoveAt(s, i) \in Seq(S)
         /\ Len(RemoveAt(s, i)) = Len(s) - 1
         /\ \A j \in DOMAIN RemoveAt(s, i) :
              \E k \in DOMAIN s : RemoveAt(s, i)[j] = s[k]
<1>. DEFINE a == SubSeq(s, 1, i - 1)
            b == SubSeq(s, i + 1, Len(s))
<1>1. Len(s) \in Nat /\ i \in 1..Len(s)
  OBVIOUS
<1>2. /\ a \in Seq(S) /\ Len(a) = i - 1
      /\ \A j \in 1..Len(a) : a[j] = s[j]
  <2>1. a = [j \in 1..(i - 1) |-> s[j]]
    BY <1>1 DEF a
  <2>. QED  BY <1>1, <2>1
<1>3. /\ b \in Seq(S) /\ Len(b) = Len(s) - i
      /\ \A j \in 1..Len(b) : b[j] = s[j + i]
  <2>1. b = [j \in 1..(Len(s) - i) |-> s[j + i]]
    BY <1>1 DEF b
  <2>. QED  BY <1>1, <2>1
<1>. HIDE DEF a, b
<1>4. /\ a \o b \in Seq(S) /\ Len(a \o b) = Len(a) + Len(b)
      /\ \A j \in 1..Len(a) : (a \o b)[j] = a[j]
      /\ \A j \in 1..Len(b) : (a \o b)[Len(a) + j] = b[j]
  <2>. a \in Seq(S) /\ b \in Seq(S)
    BY <1>2, <1>3
  <2>. QED  BY ConcatAt
<1>5. ASSUME NEW j \in DOMAIN (a \o b)
      PROVE  \E k \in DOMAIN s : (a \o b)[j] = s[k]
  <2>a. DOMAIN (a \o b) = 1..Len(a \o b)
    BY <1>4, LenProperties
  <2>b. Len(a \o b) = Len(s) - 1
    BY <1>1, <1>2, <1>3, <1>4
  <2>1. DOMAIN (a \o b) = 1..(Len(s) - 1)
    BY <2>a, <2>b
  <2>2. CASE j <= Len(a)
    <3>1. j \in 1..Len(a) /\ j \in DOMAIN s
      BY <1>1, <1>2, <2>1, <2>2
    <3>. QED  BY <1>2, <1>4, <3>1
  <2>3. CASE j > Len(a)
    <3>. DEFINE k == j - Len(a)
    <3>a. j \in 1..(Len(s) - 1) /\ DOMAIN s = 1..Len(s)
      BY <2>1
    <3>b. j \in Nat /\ j <= Len(s) - 1
      BY <1>1, <3>a
    <3>1. k \in 1..Len(b) /\ j = Len(a) + k /\ k + i \in DOMAIN s
      BY <1>1, <1>2, <1>3, <2>3, <3>a, <3>b
    <3>. HIDE DEF k
    <3>2. (a \o b)[j] = b[k] /\ b[k] = s[k + i]
      BY <1>3, <1>4, <3>1
    <3>. QED  BY <3>1, <3>2
  <2>. QED  BY <1>2, <2>1, <2>2, <2>3
<1>6. RemoveAt(s, i) = a \o b
  BY DEF RemoveAt, a, b
<1>7. Len(a \o b) = Len(s) - 1
  BY <1>1, <1>2, <1>3, <1>4
<1>. QED  BY <1>4, <1>5, <1>6, <1>7

-----------------------------------------------------------------------------
(* The log and the requests, as the console sees them                       *)

\* A page that is fine is so when there are more rows, and so is what is shown.
LEMMA FineGrows ==
  ASSUME NEW n \in Nat, NEW k \in Nat, n <= k
  PROVE  /\ \A page, cursor : PageFine(page, cursor, n) => PageFine(page, cursor, k)
         /\ ListTyped(n) => ListTyped(k)
<1>1. 1..n \subseteq 1..k /\ 0..n \subseteq 0..k
  OBVIOUS
<1>2. ASSUME NEW page, NEW cursor, PageFine(page, cursor, n)
      PROVE  PageFine(page, cursor, k)
  BY <1>1, <1>2 DEF PageFine
<1>3. ASSUME ListTyped(n)  PROVE ListTyped(k)
  <2>1. \A i \in DOMAIN list.items : list.items[i] \in 1..k
    BY <1>1, <1>3 DEF ListTyped
  <2>2. list.next \in 0..k
    BY <1>1, <1>3 DEF ListTyped
  <2>3. ASSUME NEW i \in DOMAIN list.fetches
        PROVE  FetchFine(list.fetches[i], k)
    <3>1. FetchFine(list.fetches[i], n) /\ list.fetches[i] \in FetchRecord
      BY <1>3 DEF ListTyped
    <3>2. list.fetches[i].cursor \in Nat
      BY <3>1 DEF FetchRecord
    <3>3. list.fetches[i].cursor <= k
      BY <3>1, <3>2 DEF FetchFine
    <3>. QED  BY <1>2, <3>1, <3>3 DEF FetchFine
  <2>. QED  BY <1>3, <2>1, <2>2, <2>3 DEF ListTyped
<1>. QED  BY <1>2, <1>3

\* A row that was recorded is recorded still when rows are added.
LEMMA RecordedStays ==
  ASSUME Typed, Typed', LogGrows
  PROVE  \A op, m : Recorded(audit, op, m) => Recorded(audit', op, m)
<1>1. /\ \A i \in DOMAIN audit : i \in DOMAIN audit' /\ audit'[i] = audit[i]
  <2>1. /\ DOMAIN audit = 1..Len(audit) /\ DOMAIN audit' = 1..Len(audit')
        /\ Len(audit) \in Nat /\ Len(audit') \in Nat
    BY DEF Typed
  <2>. QED  BY <2>1 DEF LogGrows
<1>. QED  BY <1>1 DEF Recorded

\* A request goes to another step, and is answered only when its row is there.
LEMMA GoToStands ==
  ASSUME Typed, Typed', CallsRecorded, NEW c \in Calls, calls[c] \in AnyCall,
         NEW step, GoTo(c, step), LogGrows,
         calls[c].op \in {"flag", "releaseMinor"} /\ step \in {"log", "ok"} =>
           Recorded(audit', calls[c].op, calls[c].member)
  PROVE  CallsStand /\ CallsRecorded'
<1>1. /\ calls'[c].op = calls[c].op
      /\ calls'[c].member = calls[c].member
      /\ calls'[c].step = step
      /\ \A d \in Calls \ {c} : calls'[d] = calls[d]
  BY GoToFacts
<1>2. CallsStand
  BY <1>1 DEF CallsStand
<1>3. ASSUME NEW d \in Calls, calls'[d].op \in {"flag", "releaseMinor"},
             calls'[d].step \in {"log", "ok"}
      PROVE  Recorded(audit', calls'[d].op, calls'[d].member)
  <2>1. CASE d = c
    BY <1>1, <1>3, <2>1
  <2>2. CASE d # c
    <3>1. calls'[d] = calls[d] /\ Recorded(audit, calls[d].op, calls[d].member)
      BY <1>1, <1>3, <2>2 DEF CallsRecorded
    <3>. QED  BY <3>1, RecordedStays
  <2>. QED  BY <2>1, <2>2
<1>. QED  BY <1>2, <1>3 DEF CallsRecorded

\* A request arrives, and is not answered yet.
LEMMA ArriveStands ==
  ASSUME Typed, Typed', CallsRecorded, NEW c \in Calls, NEW op, NEW m, NEW with,
         NEW step, Arrive(c, op, m, with, step), step \notin {"log", "ok"}
  PROVE  /\ LogGrows /\ CallsStand /\ CallsRecorded'
         /\ calls'[c].op = op /\ calls'[c].member = m
<1>1. /\ calls[c].op = "none" /\ audit' = audit
      /\ calls'[c] = [op |-> op, member |-> m, with |-> with, step |-> step]
      /\ \A d \in Calls \ {c} : calls'[d] = calls[d]
  BY DEF Arrive, Typed, Idle
<1>2. calls'[c].op = op /\ calls'[c].member = m /\ calls'[c].step = step
  BY <1>1
<1>3. LogGrows
  BY <1>1 DEF LogGrows, Typed
<1>4. CallsStand
  BY <1>1 DEF CallsStand
<1>5. CallsRecorded'
  BY <1>1, <1>2 DEF CallsRecorded
<1>. QED  BY <1>2, <1>3, <1>4, <1>5

\* The server writes the row of a request before it answers it.
LEMMA ProceedStands ==
  ASSUME Typed, Typed', CallsRecorded, NEW c \in Calls, Proceed(c) \/ CallLost(c)
  PROVE  LogGrows /\ CallsStand /\ CallsRecorded'
<1>0. Len(audit) \in Nat /\ audit \in Seq(AuditRow)
  BY DEF Typed
<1>1. CASE AdminRow(c)
  <2>1. /\ calls[c].step = "row" /\ GoTo(c, "log")
        /\ audit' = Append(audit, RowOf(c, "service"))
    BY <1>1 DEF AdminRow
  <2>2. calls[c] \in AdminCall /\ calls[c] \in AnyCall
    BY <2>1, KindOfStep DEF AnyCall
  <2>3. RowOf(c, "service") \in AuditRow
    BY <2>2 DEF RowOf, AuditRow, AdminCall, AdminOps
  <2>4. /\ LogGrows /\ Len(audit) + 1 \in DOMAIN audit'
        /\ audit'[Len(audit) + 1] = RowOf(c, "service")
    BY <1>0, <2>1, <2>3 DEF LogGrows
  <2>5. Recorded(audit', calls[c].op, calls[c].member)
    BY <2>4 DEF Recorded, RowOf
  <2>. QED  BY <2>1, <2>2, <2>4, <2>5, GoToStands
<1>2. CASE AuditLog(c)
  <2>1. /\ calls[c].step = "log" /\ GoTo(c, "ok")
        /\ audit' = Append(audit, RowOf(c, "interceptor")) \/ audit' = audit
    BY <1>2 DEF AuditLog
  <2>2. calls[c] \in AdminCall /\ calls[c] \in AnyCall
    BY <2>1, KindOfStep DEF AnyCall
  <2>3. RowOf(c, "interceptor") \in AuditRow
    BY <2>2 DEF RowOf, AuditRow, AdminCall, AdminOps
  <2>4. LogGrows
    BY <1>0, <2>1, <2>3 DEF LogGrows
  <2>5. calls[c].op \in {"flag", "releaseMinor"} =>
          Recorded(audit', calls[c].op, calls[c].member)
    BY <2>1, <2>4, RecordedStays DEF CallsRecorded
  <2>. QED  BY <2>1, <2>2, <2>4, <2>5, GoToStands
<1>3. ASSUME audit' = audit, NEW step, GoTo(c, step), calls[c] \in AnyCall,
             \/ calls[c].op \notin {"flag", "releaseMinor"}
             \/ step \notin {"log", "ok"}
      PROVE  LogGrows /\ CallsStand /\ CallsRecorded'
  <2>1. LogGrows
    BY <1>0, <1>3 DEF LogGrows
  <2>. QED  BY <1>3, <2>1, GoToStands
<1>4. CASE AdminUpdate(c)
  <2>1. calls[c] \in AnyCall /\ audit' = audit /\ GoTo(c, "row")
    BY <1>4, KindOfStep DEF AdminUpdate, AnyCall
  <2>. QED  BY <1>3, <2>1
<1>5. CASE NoticeInsert(c) \/ NoticeMark(c)
  <2>1. /\ calls[c].step \in {"insert", "mark"} /\ audit' = audit
        /\ GoTo(c, "mark") \/ GoTo(c, "ok")
    BY <1>5 DEF NoticeInsert, NoticeMark
  <2>2. calls[c] \in AnyCall /\ calls[c].op = "notice"
    BY <2>1, KindOfStep DEF AnyCall, NoticeCall
  <2>. QED  BY <1>3, <2>1, <2>2
<1>6. CASE CartFind(c) \/ CartCreate(c) \/ CartWrite(c)
  <2>1. /\ calls[c].step \in {"find", "create", "write"} /\ audit' = audit
        /\ \E step : GoTo(c, step)
    BY <1>6 DEF CartFind, CartCreate, CartWrite
  <2>2. calls[c] \in AnyCall /\ calls[c].op \in CartOps
    BY <2>1, KindOfStep DEF AnyCall, UpsertCall, CartCall, CartOps
  <2>3. calls[c].op \notin {"flag", "releaseMinor"}
    BY <2>2 DEF CartOps
  <2>. QED  BY <1>3, <2>1, <2>2, <2>3
<1>7. CASE CallLost(c)
  <2>1. /\ calls[c] \in AnyCall /\ audit' = audit
        /\ GoTo(c, "lost") \/ GoTo(c, "halfway")
    BY <1>7, KindOfStep DEF CallLost
  <2>. QED  BY <1>3, <2>1
<1>8. CASE MemberWithdraw(c)
  <2>1. /\ calls[c].op = "withdraw" /\ calls[c].step = "update"
        /\ audit' = audit /\ GoTo(c, "ok")
    BY <1>8 DEF MemberWithdraw, At
  <2>2. calls[c] \in AnyCall
    BY <2>1, KindOfStep DEF AnyCall
  <2>. QED  BY <1>3, <2>1, <2>2
<1>. QED  BY <1>1, <1>2, <1>4, <1>5, <1>6, <1>7, <1>8 DEF Proceed

-----------------------------------------------------------------------------
(* The page of the audit log                                                *)

\* The rows of the log are numbers of the list, and stay so.
LEMMA ListStays ==
  ASSUME Typed, Typed', LogGrows, ListFine, list' = list
  PROVE  ListFine'
<1>1. Len(audit) \in Nat /\ Len(audit') \in Nat
  BY DEF Typed
<1>2. ListTyped(Len(audit'))
  BY <1>1, FineGrows DEF LogGrows, ListFine
<1>3. ListTyped(Len(audit))'
  BY <1>2 DEF ListTyped
<1>. QED  BY <1>3 DEF ListFine, ListInOrder

\* A page that shows no list, or has just asked for its first page.
LEMMA ListOpens ==
  ASSUME Typed',
         \/ list' = NoList
         \/ list' = [NoList EXCEPT !.loading = TRUE, !.fetches = <<Fetch(0, FALSE)>>]
  PROVE  ListFine'
<1>1. Len(audit') \in Nat /\ MaxFetches \in Nat \ {0}
  BY ConsoleAssumption DEF Typed
<1>. DEFINE f == Fetch(0, FALSE)
<1>2. /\ f \in FetchRecord /\ FetchFine(f, Len(audit'))
      /\ ~f.append
  BY <1>1 DEF Fetch, FetchRecord, FetchFine, Waiting
<1>. HIDE DEF f
<1>3. \/ list' = NoList
      \/ list' = [items |-> <<>>, next |-> 0, loading |-> TRUE,
                  more |-> FALSE, mixed |-> FALSE, fetches |-> <<f>>]
  BY DEF NoList, f
<1>4. /\ DOMAIN list' = ListFields /\ list'.mixed = FALSE
      /\ list'.items = <<>> /\ list'.next = 0
      /\ list'.fetches = <<>> \/ list'.fetches = <<f>>
  <2>1. CASE list' = NoList
    BY <2>1 DEF NoList, ListFields
  <2>2. CASE list' # NoList
    BY <1>3, <2>2 DEF ListFields
  <2>. QED  BY <2>1, <2>2
<1>5. /\ list'.fetches \in Seq(FetchRecord) /\ Len(list'.fetches) \in {0, 1}
      /\ \A i \in DOMAIN list'.fetches : list'.fetches[i] = f
  <2>1. CASE list'.fetches = <<>>
    BY <2>1
  <2>2. CASE list'.fetches = <<f>>
    BY <1>2, <2>2
  <2>. QED  BY <1>4, <2>1, <2>2
<1>6. list'.items \in Seq(Nat) /\ DOMAIN list'.items = {}
  BY <1>4
<1>7. ListTyped(Len(audit))'
  <2>1. Len(list'.fetches) <= MaxFetches
    BY <1>1, <1>5
  <2>2. \A i \in DOMAIN list'.fetches : FetchFine(list'.fetches[i], Len(audit'))
    BY <1>2, <1>5
  <2>a. 0 \in 0..Len(audit')
    BY <1>1
  <2>3. list'.next \in 0..Len(audit') /\ list'.mixed \in BOOLEAN
    BY <1>4, <2>a
  <2>. QED  BY <1>4, <1>5, <1>6, <2>1, <2>2, <2>3 DEF ListTyped
<1>8. ListInOrder'
  BY <1>2, <1>4, <1>5, <1>6 DEF ListInOrder, IsRun
<1>. QED  BY <1>7, <1>8 DEF ListFine

\* One more fetch is under way.  When it is the only one it is in order.
LEMMA FetchStep ==
  ASSUME Typed, ListFine, audit' = audit,
         NEW cursor \in 0..Len(audit), NEW append \in BOOLEAN,
         append => cursor # 0 /\ cursor = list.next,
         Len(list.fetches) < MaxFetches,
         DOMAIN list' = ListFields,
         list'.items = list.items, list'.next = list.next,
         list'.mixed = (list.mixed \/ list.fetches # <<>>),
         list'.fetches = Append(list.fetches, Fetch(cursor, append))
  PROVE  ListFine'
<1>. DEFINE n == Len(audit)
            f == Fetch(cursor, append)
<1>1. n \in Nat /\ MaxFetches \in Nat /\ ListTyped(n)
  BY ConsoleAssumption DEF Typed, ListFine
<1>2. /\ f \in FetchRecord /\ FetchFine(f, n)
      /\ f.append = append /\ f.cursor = cursor
  BY <1>1 DEF Fetch, FetchRecord, FetchFine, Waiting
<1>. HIDE DEF f
<1>3. list.fetches \in Seq(FetchRecord) /\ Len(list.fetches) \in Nat
  BY <1>1 DEF ListTyped
<1>4. /\ list'.fetches \in Seq(FetchRecord)
      /\ Len(list'.fetches) = Len(list.fetches) + 1
      /\ \A i \in 1..Len(list.fetches) : list'.fetches[i] = list.fetches[i]
      /\ list'.fetches[Len(list.fetches) + 1] = f
  BY <1>2, <1>3, AppendProperties DEF f
<1>5. \A i \in DOMAIN list'.fetches : FetchFine(list'.fetches[i], n)
  BY <1>1, <1>2, <1>3, <1>4 DEF ListTyped
<1>6. ListTyped(Len(audit))'
  BY <1>1, <1>3, <1>4, <1>5 DEF ListTyped
<1>7. ASSUME ~list'.mixed  PROVE ListInOrder'
  <2>1. list.fetches = <<>> /\ ListInOrder
    BY <1>1, <1>7 DEF ListFine, ListTyped
  <2>2. Len(list'.fetches) = 1 /\ \A i \in DOMAIN list'.fetches : list'.fetches[i] = f
    BY <1>3, <1>4, <2>1
  <2>3. append => cursor # 0 /\ EndsAt(list.items, cursor)
    BY <2>1 DEF ListInOrder
  <2>. QED  BY <1>2, <2>1, <2>2, <2>3 DEF ListInOrder
<1>. QED  BY <1>6, <1>7 DEF ListFine

\* The server's answer to a fetch.
LEMMA QueryStep ==
  ASSUME Typed, ListFine, NEW i \in DOMAIN list.fetches, Query(i)
  PROVE  ListFine'
<1>. DEFINE n == Len(audit)
            f == list.fetches[i]
<1>1. n \in Nat /\ ListTyped(n)
  BY DEF Typed, ListFine
<1>2. PICK page \in Answers(f.cursor) :
        list' = [list EXCEPT
                  !.fetches = [list.fetches EXCEPT ![i] = [f EXCEPT !.page = page]]]
  BY DEF Query
<1>3. /\ audit' = audit
      /\ DOMAIN list = ListFields
      /\ list.fetches \in Seq(FetchRecord) /\ Len(list.fetches) \in Nat
      /\ DOMAIN list.fetches = 1..Len(list.fetches)
  BY <1>1 DEF Query, ListOnly, ListTyped
<1>4. /\ f \in FetchRecord /\ FetchFine(f, n) /\ f.cursor \in 0..n
  <2>1. f \in FetchRecord /\ FetchFine(f, n)
    BY <1>1, <1>3 DEF ListTyped
  <2>. QED  BY <1>1, <2>1 DEF FetchRecord, FetchFine
<1>5. page \in [items : Seq(Nat), next : Int] /\ PageFine(page, f.cursor, n)
  BY <1>4, AnswersFine
<1>. DEFINE g == [f EXCEPT !.page = page]
<1>6. /\ g \in FetchRecord /\ g.cursor = f.cursor /\ g.append = f.append
      /\ g.page = page
  BY <1>4, <1>5 DEF FetchRecord
<1>7. FetchFine(g, n)
  BY <1>4, <1>5, <1>6 DEF FetchFine
<1>8. /\ DOMAIN list' = ListFields
      /\ list'.items = list.items /\ list'.next = list.next
      /\ list'.mixed = list.mixed
      /\ list'.fetches = [list.fetches EXCEPT ![i] = g]
  BY <1>2, <1>3 DEF ListFields
<1>. HIDE DEF f, g
<1>9. /\ list'.fetches \in Seq(FetchRecord)
      /\ Len(list'.fetches) = Len(list.fetches)
      /\ \A j \in 1..Len(list.fetches) :
           list'.fetches[j] = IF j = i THEN g ELSE list.fetches[j]
  BY <1>3, <1>6, <1>8, ExceptSeq
<1>10. ASSUME NEW j \in DOMAIN list'.fetches  PROVE FetchFine(list'.fetches[j], n)
  <2>1. j \in DOMAIN list.fetches /\ j \in 1..Len(list.fetches)
    BY <1>3, <1>9
  <2>2. FetchFine(list.fetches[j], n)
    BY <1>1, <2>1 DEF ListTyped
  <2>3. list'.fetches[j] = g \/ list'.fetches[j] = list.fetches[j]
    BY <1>9, <2>1
  <2>. QED  BY <1>7, <2>2, <2>3
<1>11. ListTyped(Len(audit))'
  BY <1>1, <1>3, <1>8, <1>9, <1>10 DEF ListTyped
<1>12. ASSUME ~list'.mixed  PROVE ListInOrder'
  <2>1. ListInOrder
    BY <1>8, <1>12 DEF ListFine
  <2>2. \A j \in DOMAIN list'.fetches :
          /\ j \in DOMAIN list.fetches
          /\ list'.fetches[j].append = list.fetches[j].append
          /\ list'.fetches[j].cursor = list.fetches[j].cursor
    BY <1>3, <1>6, <1>9 DEF f
  <2>. QED  BY <1>8, <1>9, <2>1, <2>2 DEF ListInOrder
<1>. QED  BY <1>11, <1>12 DEF ListFine

\* An answer is taken.  In order, what it appends goes on below the last row shown;
\* a page that takes the place of all is in order by itself.
LEMMA ReceiveStep ==
  ASSUME Typed, ListFine, NEW i \in DOMAIN list.fetches, Receive(i)
  PROVE  ListFine'
<1>. DEFINE n == Len(audit)
            f == list.fetches[i]
            rest == RemoveAt(list.fetches, i)
            rowsShown == IF f.append THEN list.items \o f.page.items ELSE f.page.items
<1>1. n \in Nat /\ ListTyped(n)
  BY DEF Typed, ListFine
<1>2. /\ f.page # Waiting /\ audit' = audit
      /\ list' = [list EXCEPT
           !.items = IF f.append THEN @ \o f.page.items ELSE f.page.items,
           !.next = f.page.next,
           !.loading = FALSE, !.more = FALSE,
           !.mixed = @ /\ (f.append \/ rest # <<>>),
           !.fetches = rest]
  BY DEF Receive, ListOnly
<1>3. /\ DOMAIN list = ListFields
      /\ list.items \in Seq(Nat)
      /\ list.fetches \in Seq(FetchRecord) /\ Len(list.fetches) \in Nat
      /\ DOMAIN list.fetches = 1..Len(list.fetches)
  BY <1>1 DEF ListTyped
<1>4. f \in FetchRecord /\ FetchFine(f, n)
  BY <1>1, <1>3 DEF ListTyped
<1>5. /\ f.append \in BOOLEAN /\ f.cursor \in Nat
      /\ f.page.items \in Seq(Nat) /\ f.page.next \in Int
      /\ PageFine(f.page, f.cursor, n)
  BY <1>2, <1>4 DEF FetchRecord, FetchFine
<1>6. /\ DOMAIN list' = ListFields
      /\ list'.items = rowsShown
      /\ list'.next = f.page.next
      /\ list'.mixed = (list.mixed /\ (f.append \/ rest # <<>>))
      /\ list'.fetches = rest
  <2>. HIDE DEF f, rest
  <2>. QED  BY <1>2, <1>3 DEF ListFields
<1>7. /\ rest \in Seq(FetchRecord) /\ Len(rest) = Len(list.fetches) - 1
      /\ \A j \in DOMAIN rest : \E k \in DOMAIN list.fetches : rest[j] = list.fetches[k]
  BY <1>3, RemoveAtFacts
<1>8. \A j \in DOMAIN rest : FetchFine(rest[j], n)
  <2>1. \A k \in DOMAIN list.fetches : FetchFine(list.fetches[k], n)
    BY <1>1 DEF ListTyped
  <2>. HIDE DEF rest
  <2>. QED  BY <1>7, <2>1
<1>9. /\ rowsShown \in Seq(Nat)
      /\ \A j \in DOMAIN rowsShown : rowsShown[j] \in 1..n
  <2>1. /\ \A j \in DOMAIN list.items : list.items[j] \in 1..n
        /\ \A j \in DOMAIN f.page.items : f.page.items[j] \in 1..n
    BY <1>1, <1>5 DEF ListTyped, PageFine
  <2>2. CASE ~f.append
    BY <1>5, <2>1, <2>2
  <2>3. CASE f.append
    <3>. DEFINE s == list.items
                t == f.page.items
    <3>a. ASSUME NEW u \in Seq(Nat), \A j \in DOMAIN u : u[j] \in 1..n
          PROVE  u \in Seq(1..n)
      <4>1. u \in [1..Len(u) -> 1..n] /\ Len(u) \in Nat
        BY <3>a, LenProperties
      <4>. QED  BY <4>1
    <3>1. s \in Seq(1..n) /\ t \in Seq(1..n)
      BY <1>3, <1>5, <2>1, <3>a
    <3>2. s \o t \in Seq(1..n)
      BY <3>1, ConcatProperties
    <3>3. rowsShown = s \o t
      BY <2>3
    <3>. HIDE DEF s, t, rowsShown
    <3>4. rowsShown \in Seq(1..n) /\ 1..n \subseteq Nat
      BY <1>1, <3>2, <3>3
    <3>5. rowsShown \in Seq(Nat)
      BY <3>4, SeqMonotonic
    <3>. QED  BY <3>4, <3>5
  <2>. QED  BY <1>5, <2>2, <2>3
<1>10. ListTyped(Len(audit))'
  <2>1. list'.next \in 0..n
    BY <1>5, <1>6 DEF PageFine
  <2>2. list'.mixed \in BOOLEAN
    BY <1>6
  <2>3. Len(rest) <= MaxFetches
    <3>1. Len(list.fetches) <= MaxFetches /\ MaxFetches \in Nat
      BY <1>1, ConsoleAssumption DEF ListTyped
    <3>. QED  BY <1>3, <1>7, <3>1
  <2>. HIDE DEF rest, rowsShown, f
  <2>. QED  BY <1>2, <1>6, <1>7, <1>8, <1>9, <2>1, <2>2, <2>3 DEF ListTyped
<1>11. ASSUME ~list'.mixed  PROVE ListInOrder'
  <2>1. CASE ~list.mixed
    <3>1. ListInOrder
      BY <2>1 DEF ListFine
    <3>2. Len(list.fetches) = 1 /\ rest = <<>>
      <4>1. Len(list.fetches) <= 1
        BY <3>1 DEF ListInOrder
      <4>a. Len(list.fetches) >= 1
        <5>1. i \in 1..Len(list.fetches)
          BY <1>3
        <5>. QED  BY <1>3, <5>1
      <4>2. Len(list.fetches) = 1
        <5>. DEFINE m == Len(list.fetches)
        <5>1. m \in Nat /\ m <= 1 /\ m >= 1
          BY <1>3, <4>1, <4>a
        <5>. HIDE DEF m
        <5>2. m = 1
          BY <5>1
        <5>. QED  BY <5>2 DEF m
      <4>. HIDE DEF rest
      <4>. QED  BY <1>7, <4>2, EmptySeq
    <3>3. CASE f.append
      <4>1. f.cursor # 0 /\ EndsAt(list.items, f.cursor) /\ IsRun(list.items)
        BY <3>1, <3>3 DEF ListInOrder
      <4>2. /\ IsRun(f.page.items)
            /\ f.page.next # 0 => EndsAt(f.page.items, f.page.next)
            /\ f.page.items # <<>> => f.page.items[1] = f.cursor - 1
        BY <1>5, <4>1 DEF PageFine
      <4>3. /\ IsRun(list.items \o f.page.items)
            /\ f.page.next # 0 => EndsAt(list.items \o f.page.items, f.page.next)
        BY <1>3, <1>5, <4>1, <4>2, RunsJoin
      <4>4. list'.items = list.items \o f.page.items
        BY <1>6, <3>3
      <4>5. list'.next = f.page.next /\ list'.fetches = <<>>
        BY <1>6, <3>2
      <4>. HIDE DEF rest, f
      <4>. QED  BY <4>3, <4>4, <4>5 DEF ListInOrder
    <3>4. CASE ~f.append
      <4>1. list'.items = f.page.items
        BY <1>6, <3>4
      <4>2. /\ IsRun(f.page.items)
            /\ f.page.next # 0 => EndsAt(f.page.items, f.page.next)
        BY <1>5 DEF PageFine
      <4>3. list'.next = f.page.next /\ list'.fetches = <<>>
        BY <1>6, <3>2
      <4>. HIDE DEF rest, f
      <4>. QED  BY <4>1, <4>2, <4>3 DEF ListInOrder
    <3>. QED  BY <3>3, <3>4
  <2>2. CASE list.mixed
    <3>1. ~f.append /\ rest = <<>>
      BY <1>6, <1>11, <2>2
    <3>2. list'.items = f.page.items
      BY <1>6, <3>1
    <3>3. /\ IsRun(f.page.items)
          /\ f.page.next # 0 => EndsAt(f.page.items, f.page.next)
      BY <1>5 DEF PageFine
    <3>. HIDE DEF rest, f
    <3>. QED  BY <1>6, <3>1, <3>2, <3>3 DEF ListInOrder
  <2>. QED  BY <2>1, <2>2
<1>. QED  BY <1>10, <1>11 DEF ListFine

-----------------------------------------------------------------------------
(* The tables                                                               *)

\* A table that is opened shows its first page.
LEMMA TableOpens ==
  ASSUME NEW t \in Tables, OpenTable(t, MaxRows - 1)
  PROVE  WalkFine'
<1>. DEFINE n == MaxRows - 1
<1>1. n \in Nat /\ MaxRows \in Nat
  BY ConsoleAssumption
<1>2. PICK page \in Fetched(t, n, 0) :
        /\ walk' = [table |-> t, shown |-> page.items, next |-> page.next,
                    blank |-> page.items = <<>>, start |-> n, rows |-> n]
        /\ view' = "table"
  BY DEF OpenTable, Open
<1>3. Behind(n, 0) = n
  BY <1>1 DEF Behind
<1>. HIDE DEF n
<1>4. /\ page.items \in Seq(Nat) /\ page.next \in 0..n
      /\ \A i \in DOMAIN page.items : page.items[i] \in 1..n /\ page.items[i] >= page.next
      /\ \A i, j \in DOMAIN page.items : i < j => page.items[i] > page.items[j]
      /\ t \in {"users", "payouts"} =>
           \/ page.items = <<>> /\ page.next = 0
           \/ \A r \in 1..n : Contains(page.items, r) \/ r < page.next
  BY <1>1, <1>3, TablePageFacts
<1>5. /\ DOMAIN walk' = WalkFields
      /\ walk'.table = t /\ walk'.shown = page.items /\ walk'.next = page.next
      /\ walk'.start = n /\ walk'.rows = n /\ walk'.blank = (page.items = <<>>)
  BY <1>2 DEF WalkFields
<1>6. walk'.next \in 0..MaxRows
  BY <1>1, <1>4, <1>5 DEF n
<1>. QED  BY <1>1, <1>2, <1>4, <1>5, <1>6 DEF WalkFine, NoRowTwice

\* The next page of a table lies below the rows that were shown, down to the cursor
\* it leaves.
LEMMA NextPageStep ==
  ASSUME WalkFine, NextPage
  PROVE  WalkFine'
<1>. DEFINE k == walk.next
<1>1. PICK page \in Fetched(walk.table, walk.rows, k) :
        /\ view = "table" /\ view' = view /\ k # 0
        /\ walk' = [walk EXCEPT !.shown = @ \o page.items, !.next = page.next,
                                !.blank = page.items = <<>>]
  BY DEF NextPage
<1>2. /\ DOMAIN walk = WalkFields
      /\ walk.table \in Tables /\ walk.shown \in Seq(Nat)
      /\ k \in 0..MaxRows /\ k \in Nat /\ walk.rows \in Nat /\ walk.start \in Nat
      /\ MaxRows \in Nat
  BY <1>1, ConsoleAssumption DEF WalkFine
<1>3. Behind(walk.rows, k) = k - 1
  BY <1>1 DEF Behind
<1>. DEFINE below == k - 1
<1>4. /\ page.items \in Seq(Nat) /\ page.next \in 0..below /\ below \in Nat
      /\ \A i \in DOMAIN page.items :
           page.items[i] \in 1..below /\ page.items[i] >= page.next
      /\ \A i, j \in DOMAIN page.items : i < j => page.items[i] > page.items[j]
      /\ walk.table \in {"users", "payouts"} =>
           \/ page.items = <<>> /\ page.next = 0
           \/ \A r \in 1..below : Contains(page.items, r) \/ r < page.next
  BY <1>2, <1>3, TablePageFacts
<1>5. /\ DOMAIN walk' = DOMAIN walk
      /\ walk'.table = walk.table /\ walk'.start = walk.start /\ walk'.rows = walk.rows
      /\ walk'.shown = walk.shown \o page.items /\ walk'.next = page.next
      /\ walk'.blank = (page.items = <<>>)
  BY <1>1, <1>2 DEF WalkFields
<1>. DEFINE s == walk.shown
            t == page.items
            both == s \o t
<1>6. /\ both \in Seq(Nat) /\ Len(both) = Len(s) + Len(t)
      /\ \A i \in 1..Len(s) : both[i] = s[i]
      /\ \A i \in 1..Len(t) : both[Len(s) + i] = t[i]
  <2>. s \in Seq(Nat) /\ t \in Seq(Nat)
    BY <1>2, <1>4
  <2>. HIDE DEF s, t
  <2>. QED  BY ConcatAt
<1>7. /\ Len(s) \in Nat /\ Len(t) \in Nat
      /\ DOMAIN s = 1..Len(s) /\ DOMAIN t = 1..Len(t)
      /\ DOMAIN both = 1..(Len(s) + Len(t))
  BY <1>2, <1>4, <1>6
<1>8. /\ \A i \in DOMAIN s : s[i] \in Nat /\ s[i] >= k
      /\ \A i, j \in DOMAIN s : i < j => s[i] > s[j]
  BY <1>2 DEF WalkFine, NoRowTwice
<1>9. ASSUME NEW i \in DOMAIN t
      PROVE  t[i] \in Nat /\ t[i] < k /\ t[i] >= page.next
  <2>1. t[i] \in 1..below /\ t[i] >= page.next
    BY <1>4
  <2>. HIDE DEF t
  <2>. QED  BY <1>2, <2>1
<1>10. k >= page.next
  BY <1>2, <1>4
<1>. HIDE DEF s, t, both
<1>11. ASSUME NEW i \in DOMAIN both
       PROVE  \/ i \in DOMAIN s /\ both[i] = s[i]
              \/ /\ i - Len(s) \in DOMAIN t /\ both[i] = t[i - Len(s)]
                 /\ i > Len(s)
  <2>1. i \in Nat /\ i >= 1 /\ i <= Len(s) + Len(t)
    BY <1>7
  <2>2. CASE i <= Len(s)
    BY <1>6, <1>7, <2>1, <2>2
  <2>3. CASE i > Len(s)
    <3>. DEFINE j == i - Len(s)
    <3>1. j \in 1..Len(t) /\ i = Len(s) + j
      BY <1>7, <2>1, <2>3
    <3>. HIDE DEF j
    <3>2. both[i] = t[j]
      BY <1>6, <3>1
    <3>. QED  BY <1>7, <2>3, <3>1, <3>2 DEF j
  <2>. QED  BY <1>7, <2>1, <2>2, <2>3
<1>12. \A i \in DOMAIN both : both[i] >= page.next
  BY <1>2, <1>4, <1>8, <1>9, <1>10, <1>11
<1>13. ASSUME NEW i \in DOMAIN both, NEW j \in DOMAIN both, i < j
       PROVE  both[i] > both[j]
  <2>0. i \in Nat /\ j \in Nat
    BY <1>7
  <2>1. CASE i \in DOMAIN s /\ both[i] = s[i] /\ j \in DOMAIN s /\ both[j] = s[j]
    BY <1>8, <1>13, <2>1
  <2>2. CASE /\ i \in DOMAIN s /\ both[i] = s[i]
             /\ j - Len(s) \in DOMAIN t /\ both[j] = t[j - Len(s)]
    BY <1>2, <1>8, <1>9, <2>2
  <2>3. CASE /\ i - Len(s) \in DOMAIN t /\ both[i] = t[i - Len(s)]
             /\ j - Len(s) \in DOMAIN t /\ both[j] = t[j - Len(s)]
    <3>1. i - Len(s) < j - Len(s)
      BY <1>7, <1>13, <2>0
    <3>. QED  BY <1>4, <2>3, <3>1 DEF t
  <2>4. CASE /\ i - Len(s) \in DOMAIN t /\ i > Len(s) /\ j \in DOMAIN s
    BY <1>7, <1>13, <2>0, <2>4
  <2>. QED  BY <1>11, <2>1, <2>2, <2>3, <2>4
<1>14. ASSUME walk.table \in {"users", "payouts"}, NEW r \in 1..walk.start,
              ~(page.items = <<>> /\ page.next = 0)
       PROVE  Contains(both, r) \/ r < page.next
  <2>1. Contains(s, r) \/ r < k
    BY <1>1, <1>14 DEF WalkFine, s
  <2>2. CASE Contains(s, r)
    <3>1. PICK i \in 1..Len(s) : s[i] = r
      BY <2>2 DEF Contains
    <3>2. i \in 1..Len(both) /\ both[i] = r
      BY <1>6, <1>7, <3>1
    <3>. QED  BY <3>2 DEF Contains
  <2>3. CASE r < k /\ ~(r < page.next)
    <3>1. r \in 1..below
      BY <1>2, <2>3
    <3>2. Contains(t, r)
      BY <1>4, <1>14, <2>3, <3>1 DEF t
    <3>3. PICK i \in 1..Len(t) : t[i] = r
      BY <3>2 DEF Contains
    <3>4. Len(s) + i \in 1..Len(both) /\ both[Len(s) + i] = r
      BY <1>6, <1>7, <3>3
    <3>. QED  BY <3>4 DEF Contains
  <2>. QED  BY <2>1, <2>2, <2>3
<1>15. page.next \in 0..MaxRows
  BY <1>2, <1>4
<1>16. walk'.shown = both
  BY <1>5 DEF both, s, t
<1>. QED  BY <1>1, <1>2, <1>5, <1>6, <1>12, <1>13, <1>14, <1>15, <1>16
          DEF WalkFine, NoRowTwice

-----------------------------------------------------------------------------
(* The page of a member                                                     *)

\* A card that is left alone says what it said, of a log that has grown.
LEMMA CardStays ==
  ASSUME Typed, Typed', LogGrows, CallsStand, CardTrue, card' = card
  PROVE  CardTrue'
<1>1. \A d \in {card.flagging, card.releasing} : d # "none" =>
        calls'[d].op = calls[d].op /\ calls'[d].member = calls[d].member
  BY DEF CardTrue, CallsStand
<1>2. \A op : Recorded(audit, op, card.member) => Recorded(audit', op, card.member)
  BY RecordedStays
<1>. QED  BY <1>1, <1>2 DEF CardTrue

\* A page has been left, or shows a member anew.
LEMMA CardOpens ==
  ASSUME card' = NoCard \/ \E m \in Users : card' = CardOf(m)
  PROVE  CardTrue'
<1>1. \E m, status :
        card' = [member |-> m, status |-> status, flagged |-> FALSE,
                 flagging |-> "none", releasing |-> "none", done |-> FALSE]
  <2>1. CASE card' = NoCard
    BY <2>1 DEF NoCard
  <2>2. ASSUME NEW m \in Users, card' = CardOf(m)
        PROVE  card' = [member |-> m, status |-> users[m].status, flagged |-> FALSE,
                        flagging |-> "none", releasing |-> "none", done |-> FALSE]
    BY <2>2 DEF CardOf, NoCard
  <2>. QED  BY <2>1, <2>2
<1>2. /\ DOMAIN card' = CardFields
      /\ card'.flagging = "none" /\ card'.releasing = "none"
      /\ card'.flagged = FALSE /\ card'.done = FALSE
  BY <1>1 DEF CardFields
<1>. QED  BY <1>2 DEF CardTrue

\* A button is pressed: the card waits for the request that is sent.
LEMMA PressTrue ==
  ASSUME Typed, Typed', CardTrue, CallsRecorded, NEW c \in Calls,
         PressFlag(c) \/ PressRelease(c)
  PROVE  LogGrows /\ CallsRecorded' /\ CardTrue'
<1>1. PICK op \in {"flag", "releaseMinor"} :
        /\ Arrive(c, op, card.member, 0, "update")
        /\ card' = IF op = "flag" THEN [card EXCEPT !.flagging = c]
                                  ELSE [card EXCEPT !.releasing = c]
  BY DEF PressFlag, PressRelease
<1>2. /\ LogGrows /\ CallsStand /\ CallsRecorded'
      /\ calls'[c].op = op /\ calls'[c].member = card.member
  BY <1>1, ArriveStands
<1>3. DOMAIN card = CardFields
  BY DEF CardTrue
<1>4. /\ DOMAIN card' = CardFields
      /\ card'.member = card.member
      /\ card'.flagged = card.flagged /\ card'.done = card.done
      /\ card'.flagging = IF op = "flag" THEN c ELSE card.flagging
      /\ card'.releasing = IF op = "flag" THEN card.releasing ELSE c
  BY <1>1, <1>3 DEF CardFields
<1>5. \A d \in Calls : d # c /\ calls[d].op # "none" =>
        calls'[d].op = calls[d].op /\ calls'[d].member = calls[d].member
  BY <1>2 DEF CallsStand
<1>6. card'.flagging # "none" => /\ calls'[card'.flagging].op = "flag"
                                 /\ calls'[card'.flagging].member = card'.member
  BY <1>1, <1>2, <1>4 DEF CardTrue, CallsStand
<1>7. card'.releasing # "none" => /\ calls'[card'.releasing].op = "releaseMinor"
                                  /\ calls'[card'.releasing].member = card'.member
  BY <1>1, <1>2, <1>4 DEF CardTrue, CallsStand
<1>8. \A o : Recorded(audit, o, card.member) => Recorded(audit', o, card.member)
  BY <1>2, RecordedStays
<1>. QED  BY <1>2, <1>4, <1>6, <1>7, <1>8 DEF CardTrue

\* The answer to a button: a success comes after the row of the request.
LEMMA AnsweredTrue ==
  ASSUME CardTrue, CallsRecorded, FlagAnswered \/ ReleaseAnswered
  PROVE  CardTrue'
<1>1. DOMAIN card = CardFields /\ calls' = calls /\ audit' = audit
  BY DEF CardTrue, FlagAnswered, ReleaseAnswered, CardOnly
<1>2. CASE FlagAnswered
  <2>1. /\ card.flagging # "none"
        /\ \/ /\ calls[card.flagging].step \in {"log", "ok"}
              /\ card' = [card EXCEPT !.flagged = ~@, !.flagging = "none"]
           \/ card' = [card EXCEPT !.flagging = "none"]
    BY <1>2 DEF FlagAnswered, Succeeded
  <2>2. /\ DOMAIN card' = CardFields
        /\ card'.member = card.member /\ card'.done = card.done
        /\ card'.flagging = "none" /\ card'.releasing = card.releasing
        /\ \/ calls[card.flagging].step \in {"log", "ok"}
           \/ card'.flagged = card.flagged
    BY <1>1, <2>1 DEF CardFields
  <2>3. card'.flagged => Recorded(audit, "flag", card.member)
    BY <2>1, <2>2 DEF CardTrue, CallsRecorded
  <2>. QED  BY <1>1, <2>2, <2>3 DEF CardTrue
<1>3. CASE ReleaseAnswered
  <2>1. /\ card.releasing # "none"
        /\ \/ /\ calls[card.releasing].step \in {"log", "ok"}
              /\ card' = [card EXCEPT !.done = TRUE, !.releasing = "none"]
           \/ card' = [card EXCEPT !.releasing = "none"]
    BY <1>3 DEF ReleaseAnswered, Succeeded
  <2>2. /\ DOMAIN card' = CardFields
        /\ card'.member = card.member /\ card'.flagged = card.flagged
        /\ card'.releasing = "none" /\ card'.flagging = card.flagging
        /\ \/ calls[card.releasing].step \in {"log", "ok"}
           \/ card'.done = card.done
    BY <1>1, <2>1 DEF CardFields
  <2>3. card'.done => Recorded(audit, "releaseMinor", card.member)
    BY <2>1, <2>2 DEF CardTrue, CallsRecorded
  <2>. QED  BY <1>1, <2>2, <2>3 DEF CardTrue
<1>. QED  BY <1>2, <1>3

-----------------------------------------------------------------------------
(* What is shown, step by step                                              *)

\* A page is opened, with no list and no table of its own or with new ones.
LEMMA OpenStep ==
  ASSUME ConsoleInv, ConsoleInv', ShownInv, NEW page, NEW l, NEW w, NEW k,
         Open(page, l, w, k), page \in {"home", "audit", "table", "member"},
         k = NoCard \/ \E m \in Users : k = CardOf(m),
         ListFine', (w = NoWalk /\ page # "table") \/ WalkFine'
  PROVE  ShownInv'
<1>1. /\ view' = page /\ walk' = w /\ card' = k /\ audit' = audit /\ calls' = calls
  BY DEF Open
<1>2. CardTrue'
  BY <1>1, CardOpens
<1>3. WalkFine'
  <2>1. CASE w = NoWalk /\ page # "table"
    <3>1. /\ DOMAIN walk' = WalkFields
          /\ walk'.shown = <<>> /\ walk'.next = 0
          /\ walk'.start = 0 /\ walk'.rows = 0
      BY <1>1, <2>1 DEF NoWalk, WalkFields
    <3>2. MaxRows \in Nat
      BY ConsoleAssumption
    <3>3. /\ walk'.shown \in Seq(Nat) /\ DOMAIN walk'.shown = {}
          /\ walk'.next \in 0..MaxRows /\ walk'.start \in Nat /\ walk'.rows \in Nat
      BY <3>1, <3>2
    <3>4. NoRowTwice'
      BY <3>3 DEF NoRowTwice
    <3>. QED  BY <1>1, <2>1, <3>1, <3>3, <3>4 DEF WalkFine
  <2>. QED  BY <2>1
<1>4. CallsRecorded'
  BY <1>1 DEF ShownInv, CallsRecorded
<1>. QED  BY <1>1, <1>2, <1>3, <1>4 DEF ShownInv

\* A step of the page of the audit log, or of a table, leaves the others alone.
LEMMA RestStays ==
  ASSUME ConsoleInv, ConsoleInv', ShownInv, UNCHANGED <<audit, calls, view, card>>
  PROVE  ListFine' /\ WalkFine' => ShownInv'
<1>1. LogGrows /\ CallsStand
  BY DEF LogGrows, CallsStand, ConsoleInv, Typed
<1>2. CardTrue'
  BY <1>1, CardStays DEF ConsoleInv, ShownInv
<1>3. CallsRecorded'
  BY DEF ShownInv, CallsRecorded
<1>. QED  BY <1>2, <1>3 DEF ShownInv

\* Every step of the browser and of the requests keeps what is shown right.
LEMMA ShownStep ==
  ASSUME ConsoleInv, ConsoleInv', ShownInv, [Next]_vars
  PROVE  ShownInv'
<1>. Typed /\ Typed' /\ ListFine /\ WalkFine /\ CardTrue /\ CallsRecorded
  BY DEF ConsoleInv, ShownInv
<1>0. ASSUME LogGrows, UNCHANGED <<view, list, walk>>
      PROVE  view' \in {"home", "audit", "table", "member"} /\ ListFine' /\ WalkFine'
  BY <1>0, ListStays DEF ShownInv, WalkFine, NoRowTwice
<1>1. ASSUME NEW c \in Calls, Request(c)  PROVE ShownInv'
  <2>1. LogGrows /\ CallsStand /\ CallsRecorded'
    <3>1. CASE Proceed(c) \/ CallLost(c)
      BY <3>1, ProceedStands
    <3>2. CASE ArriveAny(c)
      <4>1. \E op, m, with, step :
              Arrive(c, op, m, with, step) /\ step \notin {"log", "ok"}
        BY <3>2 DEF ArriveAny
      <4>. QED  BY <4>1, ArriveStands
    <3>. QED  BY <1>1, <3>1, <3>2 DEF Request
  <2>2. UNCHANGED <<view, list, walk, card>>
    BY <1>1 DEF Request, browserVars
  <2>3. CardTrue'
    BY <2>1, <2>2, CardStays
  <2>. QED  BY <1>0, <2>1, <2>2, <2>3 DEF ShownInv
<1>2. CASE \E c \in Calls : PressFlag(c) \/ PressRelease(c)
  <2>1. LogGrows /\ CallsRecorded' /\ CardTrue'
    BY <1>2, PressTrue
  <2>2. UNCHANGED <<view, list, walk>>
    BY <1>2 DEF PressFlag, PressRelease
  <2>. QED  BY <1>0, <2>1, <2>2 DEF ShownInv
<1>3. CASE FlagAnswered \/ ReleaseAnswered
  <2>1. UNCHANGED <<users, audit, events, carts, calls, view, list, walk>>
    BY <1>3 DEF FlagAnswered, ReleaseAnswered, CardOnly
  <2>2. LogGrows /\ CallsRecorded'
    BY <2>1 DEF LogGrows, CallsRecorded, Typed
  <2>3. CardTrue'
    BY <1>3, AnsweredTrue
  <2>. QED  BY <1>0, <2>1, <2>2, <2>3 DEF ShownInv
<1>4. CASE GoHome
  BY <1>4, OpenStep, ListOpens DEF GoHome, Open
<1>5. CASE OpenAudit
  BY <1>5, OpenStep, ListOpens DEF OpenAudit, Open
<1>6. CASE \E m \in Users : OpenMember(m)
  BY <1>6, OpenStep, ListOpens DEF OpenMember, Open
<1>7. CASE ReloadMember
  <2>1. card.member \in Users
    BY <1>7 DEF ReloadMember, ConsoleInv, CardFine
  <2>. QED  BY <1>7, <2>1, OpenStep, ListOpens DEF ReloadMember, Open
<1>8. CASE \E t \in Tables : OpenTable(t, MaxRows - 1)
  <2>1. WalkFine'
    BY <1>8, TableOpens
  <2>2. list' = NoList
    BY <1>8 DEF OpenTable, Open
  <2>3. ListFine'
    BY <2>2, ListOpens
  <2>. QED  BY <1>8, <2>1, <2>3, OpenStep DEF OpenTable
<1>9. CASE NextPage
  <2>1. WalkFine'
    BY <1>9, NextPageStep
  <2>2. UNCHANGED <<audit, calls, view, card, list>>
    BY <1>9 DEF NextPage
  <2>3. ListFine'
    BY <2>2, ListStays DEF LogGrows
  <2>. QED  BY <2>1, <2>2, <2>3, RestStays
<1>10. CASE NewRow
  <2>1. /\ UNCHANGED <<audit, calls, view, card, list>>
        /\ walk' = [walk EXCEPT !.rows = @ + 1]
    BY <1>10 DEF NewRow
  <2>2. /\ DOMAIN walk' = DOMAIN walk
        /\ walk'.table = walk.table /\ walk'.shown = walk.shown
        /\ walk'.next = walk.next /\ walk'.start = walk.start
        /\ walk'.rows = walk.rows + 1
    BY <2>1 DEF WalkFine
  <2>3. WalkFine'
    BY <2>1, <2>2 DEF WalkFine, NoRowTwice
  <2>4. ListFine'
    BY <2>1, ListStays DEF LogGrows, Typed
  <2>. QED  BY <2>1, <2>3, <2>4, RestStays
<1>11. CASE AuditPageSteps
  <2>1. UNCHANGED <<audit, calls, view, card, walk>>
    BY <1>11 DEF AuditPageSteps, Submit, ShowMore, Query, Receive, ListOnly
  <2>2. WalkFine'
    BY <2>1 DEF WalkFine, NoRowTwice
  <2>3. DOMAIN list = ListFields /\ list.next \in 0..Len(audit) /\ Len(audit) \in Nat
    BY DEF ListFine, ListTyped, Typed
  <2>4. ListFine'
    <3>1. CASE Submit
      <4>1. /\ DOMAIN list' = ListFields
            /\ list'.items = list.items /\ list'.next = list.next
            /\ list'.mixed = (list.mixed \/ list.fetches # <<>>)
            /\ list'.fetches = Append(list.fetches, Fetch(0, FALSE))
        BY <2>3, <3>1 DEF Submit, ListFields
      <4>2. 0 \in 0..Len(audit) /\ Len(list.fetches) < MaxFetches
        BY <2>3, <3>1 DEF Submit
      <4>. QED  BY <2>1, <4>1, <4>2, FetchStep
    <3>2. CASE ShowMore
      <4>1. /\ DOMAIN list' = ListFields
            /\ list'.items = list.items /\ list'.next = list.next
            /\ list'.mixed = (list.mixed \/ list.fetches # <<>>)
            /\ list'.fetches = Append(list.fetches, Fetch(list.next, TRUE))
        BY <2>3, <3>2 DEF ShowMore, ListFields
      <4>2. list.next # 0 /\ Len(list.fetches) < MaxFetches
        BY <3>2 DEF ShowMore
      <4>. QED  BY <2>1, <2>3, <4>1, <4>2, FetchStep
    <3>3. CASE \E i \in DOMAIN list.fetches : Query(i) \/ Receive(i)
      BY <3>3, QueryStep, ReceiveStep
    <3>. QED  BY <1>11, <3>1, <3>2, <3>3 DEF AuditPageSteps
  <2>. QED  BY <2>1, <2>2, <2>4, RestStays
<1>12. CASE UNCHANGED vars
  <2>1. UNCHANGED <<users, audit, events, carts, calls, view, list, walk, card>>
    BY <1>12 DEF vars
  <2>2. ListFine'
    BY <2>1, ListStays DEF LogGrows, Typed
  <2>3. WalkFine'
    BY <2>1 DEF WalkFine, NoRowTwice
  <2>. QED  BY <2>1, <2>2, <2>3, RestStays
<1>. QED  BY <1>1, <1>2, <1>3, <1>4, <1>5, <1>6, <1>7, <1>8, <1>9, <1>10, <1>11, <1>12
          DEF Next, MemberPageSteps

\* Nothing is shown at first.
LEMMA InitShown == Init => ShownInv
<1>. SUFFICES ASSUME Init  PROVE ShownInv
  OBVIOUS
<1>1. /\ view = "home" /\ list = NoList /\ walk = NoWalk /\ card = NoCard
      /\ audit = <<>> /\ \A c \in Calls : calls[c].op = "none"
  BY DEF Init, RequestsInit, Idle
<1>2. MaxFetches \in Nat /\ MaxRows \in Nat
  BY ConsoleAssumption
<1>3. /\ DOMAIN list = ListFields /\ ~list.mixed /\ list.mixed \in BOOLEAN
      /\ list.items = <<>> /\ list.next = 0 /\ list.fetches = <<>>
  BY <1>1 DEF NoList, ListFields
<1>4. ListFine
  BY <1>1, <1>2, <1>3 DEF ListFine, ListTyped, ListInOrder, IsRun
<1>5. /\ DOMAIN walk = WalkFields
      /\ walk.shown = <<>> /\ walk.next = 0 /\ walk.start = 0 /\ walk.rows = 0
  BY <1>1 DEF NoWalk, WalkFields
<1>6. WalkFine
  BY <1>1, <1>2, <1>5 DEF WalkFine, NoRowTwice
<1>7. CardTrue
  BY <1>1 DEF CardTrue, NoCard, CardFields
<1>8. CallsRecorded
  BY <1>1 DEF CallsRecorded
<1>. QED  BY <1>1, <1>4, <1>6, <1>7, <1>8 DEF ShownInv

-----------------------------------------------------------------------------
(* The theorems                                                             *)

\* A console nobody has used.
LEMMA InitFine == Init => ConsoleInv
<1>. SUFFICES ASSUME Init  PROVE ConsoleInv
  OBVIOUS
<1>1. Typed
  BY DEF Init, RequestsInit, AccountsInit, Typed, UserRow, UserStatuses, Roles,
         MinorRow, AdultRow, CartRow
<1>2. CardFine
  BY DEF Init, CardFine, NoCard
<1>3. \A m \in Users : users[m].status = FirstStatus(m)
  BY DEF Init, RequestsInit, AccountsInit, MinorRow, AdultRow, FirstStatus
<1>4. Settled
  BY <1>3 DEF Init, RequestsInit, Settled, StatusTraced, NoticesSettled, ItemsKept,
              At, Idle
<1>. QED  BY <1>1, <1>2, <1>4 DEF ConsoleInv

\* What holds throughout of the requests and of the page of a member.
LEMMA ConsoleInvariant == Spec => []ConsoleInv
<1>. QED  BY InitFine, NextStep, PTL DEF Spec

\* A member's status has a row of the audit log that says by what it came, or is the
\* member's own withdrawal, which leaves none (UserService.withdraw), or was set by
\* a request that has the row to write yet or was lost before it (AdminService: the
\* UPDATE and its audit row are two statements).
THEOREM ChangesAreTraced == Spec => []StatusTraced
<1>1. ConsoleInv => StatusTraced
  BY DEF ConsoleInv, Settled
<1>. QED  BY <1>1, ConsoleInvariant, PTL

\* A notice of PortOne's that was recorded is processed, but for those whose delivery
\* is between its insert and its mark or was lost there
\* (PortoneWebhookController.handle), for any number of deliveries, types and
\* timestamps.
THEOREM NoticesAreSettled == Spec => []NoticesSettled
<1>1. ConsoleInv => NoticesSettled
  BY DEF ConsoleInv, Settled
<1>. QED  BY <1>1, ConsoleInvariant, PTL

\* An item whose request was answered ok is in the server's cart until a request
\* takes it out (CartService), however many requests make the cart at once.
THEOREM ItemsAreKept == Spec => []ItemsKept
<1>1. ConsoleInv => ItemsKept
  BY DEF ConsoleInv, Settled
<1>. QED  BY <1>1, ConsoleInvariant, PTL

\* What the console shows is right (AuditLogsPage, the tables' pages,
\* AdminUserDetailPage), for any number of rows, rows per page, fetches and
\* requests under way: the lists leave out and repeat nothing, in whatever order
\* the answers come and whatever rows come in, a table whose last page is not the
\* empty one of a request that failed (adminApi.getUsers, getPayouts) included, and
\* a member's page says what the log has.
THEOREM ShownStaysRight == Spec => []ShownIsRight
<1>1. ConsoleInv /\ ShownInv => ShownIsRight
  <2>. SUFFICES ASSUME ConsoleInv, ShownInv  PROVE ShownIsRight
    OBVIOUS
  <2>1. RequestsTypeOK
    <3>1. \A c \in Calls : calls[c] = Idle \/ calls[c] \in AnyCall
      BY DEF ConsoleInv, Typed
    <3>2. \A r \in AnyCall : /\ DOMAIN r = {"op", "member", "with", "step"}
                             /\ r.step \in Steps
      BY DEF AnyCall, AdminCall, AdminSteps, NoticeCall, UpsertCall, CartCall, WithdrawCall,
             Steps
    <3>. QED  BY <3>1, <3>2 DEF RequestsTypeOK, AccountsTypeOK, ConsoleInv, Typed
  <2>2. TypeOK
    BY <2>1 DEF TypeOK, ShownInv, ListFine, ListTyped, WalkFine, CardTrue
  <2>3. RunShown /\ NoRowTwice
    BY DEF ShownInv, RunShown, ListFine, ListInOrder, WalkFine
  <2>4. WalkComplete
    BY DEF ShownInv, WalkComplete, WalkFine
  <2>5. ShownIsRecorded
    BY DEF ShownInv, ShownIsRecorded, CardTrue, Recorded
  <2>. QED  BY <2>2, <2>3, <2>4, <2>5 DEF ShownIsRight
<1>2. Init => ConsoleInv /\ ShownInv
  BY InitFine, InitShown
<1>3. ConsoleInv /\ ShownInv /\ [Next]_vars => (ConsoleInv /\ ShownInv)'
  BY NextStep, ShownStep
<1>. QED  BY <1>1, <1>2, <1>3, PTL DEF Spec
=============================================================================
