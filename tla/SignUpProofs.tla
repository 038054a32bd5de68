---------------------------- MODULE SignUpProofs ----------------------------
(***************************************************************************)
(* Proofs about SignUp.  The tree stays a tree because a member's place is  *)
(* written once, from rows that are there already: TreeInv says that places *)
(* are locally right, every referrer being an earlier member whose path the *)
(* member's own path continues.                                             *)
(***************************************************************************)
EXTENDS SignUp, TLAPS

USE DEF NoUser, Members

\* Each member's path is the referrer in front of the referrer's path.
PathsContinue ==
  \A u \in Members : users[u].path = PathBehind(users[u].referrer)

\* A sign-up that inserts a session has inserted its member.
CallsKnown ==
  \A c \in Calls : calls[c].step = "session" => calls[c].user \in Members

TreeInv ==
  /\ TypeOK
  /\ ReferrerJoinedBefore
  /\ PathsContinue

-----------------------------------------------------------------------------

\* The seeded tables are a tree.
LEMMA InitTree == Init => TreeInv
<1>. SUFFICES ASSUME Init PROVE TreeInv
  OBVIOUS
<1>. USE SignUpAssumption
<1>1. CASE MaxUsers >= 5
  <2>1. users = SeedUsers
    BY <1>1 DEF Init
  <2>2. SeedUsers \in Seq(MemberRow)
    BY <1>1 DEF SeedUsers, SeedMember, MemberRow, Withdrawals
  <2>3. TypeOK
    BY <2>1, <2>2 DEF Init, TypeOK, Idle
  <2>4. ReferrerJoinedBefore
    BY <2>1 DEF SeedUsers, SeedMember, ReferrerJoinedBefore
  <2>5. PathsContinue
    BY <2>1, SMTT(30) DEF SeedUsers, SeedMember, PathsContinue, PathBehind
  <2>. QED  BY <2>3, <2>4, <2>5 DEF TreeInv
<1>2. CASE ~(MaxUsers >= 5)
  <2>1. users = <<>>
    BY <1>2 DEF Init
  <2>2. users \in Seq(MemberRow) /\ Members = {}
    BY <2>1
  <2>. QED  BY <2>2 DEF Init, TreeInv, TypeOK, Idle, ReferrerJoinedBefore,
                       PathsContinue
<1>. QED  BY <1>1, <1>2

\* Where a member's row points to.
LEMMA Placed ==
  ASSUME TypeOK, NEW v \in Members
  PROVE  /\ Len(users) \in Nat /\ Members = 1..Len(users)
         /\ users[v] \in MemberRow
         /\ users[v].referrer \in 0..MaxUsers
         /\ \A g \in 1..3 : users[v].path[g] \in 0..MaxUsers
         /\ ReferrerJoinedBefore => users[v].referrer \in Members \cup {NoUser}
<1>1. users \in Seq(MemberRow)
  BY DEF TypeOK
<1>2. Len(users) \in Nat /\ Members = 1..Len(users) /\ users[v] \in MemberRow
  BY <1>1
<1>3. users[v].path \in (0..MaxUsers) \X (0..MaxUsers) \X (0..MaxUsers)
      /\ users[v].referrer \in 0..MaxUsers
  BY <1>2 DEF MemberRow
<1>4. \A g \in 1..3 : users[v].path[g] \in 0..MaxUsers
  BY <1>3
<1>5. ASSUME ReferrerJoinedBefore
      PROVE  users[v].referrer \in Members \cup {NoUser}
  <2>1. users[v].referrer < v /\ v \in 1..Len(users)
    BY <1>2, <1>5 DEF ReferrerJoinedBefore
  <2>. QED  BY <2>1, <1>2, <1>3, SignUpAssumption
<1>. QED  BY <1>2, <1>3, <1>4, <1>5

\* An update of a member's other fields leaves the tree as it is.
LEMMA UpdateKeepsTree ==
  ASSUME TreeInv, NEW u \in Members, NEW row \in MemberRow,
         row.ci = users[u].ci, row.referrer = users[u].referrer,
         row.path = users[u].path,
         users' = [users EXCEPT ![u] = row], UNCHANGED <<sessions, calls>>
  PROVE  TreeInv' /\ PlaceKept
<1>. USE DEF TreeInv
<1>1. users \in Seq(MemberRow)
  BY DEF TypeOK
<1>2. users' \in Seq(MemberRow) /\ Len(users') = Len(users)
  BY <1>1
<1>3. DOMAIN users' = DOMAIN users
  BY <1>1, <1>2
<1>4. \A v \in Members : /\ users'[v].ci = users[v].ci
                         /\ users'[v].referrer = users[v].referrer
                         /\ users'[v].path = users[v].path
  BY <1>1
<1>5. PlaceKept
  BY <1>3, <1>4 DEF PlaceKept
<1>6. TypeOK'
  BY <1>2, <1>3 DEF TypeOK
<1>7. ReferrerJoinedBefore'
  BY <1>3, <1>4 DEF ReferrerJoinedBefore
<1>8. PathsContinue'
  <2>1. \A w \in Members \cup {NoUser} : PathBehind(w)' = PathBehind(w)
    BY <1>4 DEF PathBehind
  <2>2. \A v \in Members : users[v].referrer \in Members \cup {NoUser}
    BY Placed
  <2>. QED  BY <2>1, <2>2, <1>3, <1>4 DEF PathsContinue
<1>. QED  BY <1>5, <1>6, <1>7, <1>8

\* A new member is a leaf behind an earlier one.
LEMMA AppendKeepsTree ==
  ASSUME TreeInv, NEW call \in Call, call.code \in Members \cup {NoUser},
         Len(users) < MaxUsers,
         users' = Append(users, NewMember(call)),
         sessions' = sessions, calls' \in [Calls -> Call \cup Answers \cup {Idle}]
  PROVE  TreeInv' /\ PlaceKept
<1>. USE DEF TreeInv
<1>. DEFINE new == NewMember(call)
            n == Len(users) + 1
<1>1. users \in Seq(MemberRow) /\ Len(users) \in Nat /\ Members = 1..Len(users)
  BY DEF TypeOK
<1>2. /\ PathBehind(call.code) \in (0..MaxUsers) \X (0..MaxUsers) \X (0..MaxUsers)
      /\ call.code \in 0..MaxUsers
  <2>1. CASE call.code = NoUser
    BY <2>1, SignUpAssumption DEF PathBehind
  <2>2. CASE call.code \in Members
    <3>1. /\ call.code \in 0..MaxUsers
          /\ users[call.code].path[1] \in 0..MaxUsers
          /\ users[call.code].path[2] \in 0..MaxUsers
      BY <2>2, <1>1, Placed, SignUpAssumption
    <3>2. call.code # NoUser
      BY <2>2, <1>1
    <3>. QED  BY <3>1, <3>2 DEF PathBehind
  <2>. QED  BY <2>1, <2>2
<1>3. /\ new \in MemberRow
      /\ new.ci = call.person /\ new.referrer = call.code
      /\ new.path = PathBehind(call.code)
  BY <1>2 DEF NewMember, MemberRow, Call, Withdrawals
<1>. HIDE DEF new
<1>4. /\ users' \in Seq(MemberRow)
      /\ DOMAIN users' = Members \cup {n}
      /\ n \notin Members
      /\ users'[n] = new
      /\ \A v \in Members : users'[v] = users[v]
  BY <1>1, <1>3 DEF new
<1>5. PlaceKept
  BY <1>4 DEF PlaceKept
<1>6. TypeOK'
  BY <1>4 DEF TypeOK
<1>7. ReferrerJoinedBefore'
  BY <1>1, <1>3, <1>4 DEF ReferrerJoinedBefore
<1>8. PathsContinue'
  <2>1. \A v \in Members : users[v].referrer \in Members \cup {NoUser}
    BY Placed
  <2>2. \A w \in Members \cup {NoUser} : PathBehind(w)' = PathBehind(w)
    BY <1>4, <1>1 DEF PathBehind
  <2>. QED  BY <2>1, <2>2, <1>3, <1>4 DEF PathsContinue
<1>. QED  BY <1>5, <1>6, <1>7, <1>8

\* A step that leaves the members alone.
LEMMA CallsKeepTree ==
  ASSUME TreeInv, UNCHANGED users, sessions' \subseteq Members,
         calls' \in [Calls -> Call \cup Answers \cup {Idle}]
  PROVE  TreeInv' /\ PlaceKept
BY DEF TreeInv, TypeOK, PlaceKept, ReferrerJoinedBefore, PathsContinue,
       PathBehind

\* Every step keeps the tree, and every member's place in it.
LEMMA NextKeepsTree ==
  TreeInv /\ CallsKnown /\ [Next]_vars => TreeInv' /\ (PlaceKept \/ UNCHANGED vars)
<1>. SUFFICES ASSUME TreeInv, CallsKnown, [Next]_vars
              PROVE  TreeInv' /\ (PlaceKept \/ UNCHANGED vars)
  OBVIOUS
<1>. USE SignUpAssumption
<1>1. users \in Seq(MemberRow) /\ sessions \subseteq Members
      /\ calls \in [Calls -> Call \cup Answers \cup {Idle}]
  BY DEF TreeInv, TypeOK
<1>2. ASSUME NEW u \in Members, ChangeMember(u)
      PROVE  TreeInv' /\ PlaceKept
  <2>0. users[u] \in MemberRow
    BY <1>1
  <2>1. CASE Withdraw(u)
    <3>. DEFINE w1 == [users[u] EXCEPT !.status = "WITHDRAWN"]
                w2 == [w1 EXCEPT !.withdrawn = "COOLING"]
    <3>1. w1 \in MemberRow /\ w1.ci = users[u].ci
          /\ w1.referrer = users[u].referrer /\ w1.path = users[u].path
      BY <2>0 DEF MemberRow
    <3>2. users' = [users EXCEPT ![u] = w2]
      BY <2>1, <1>1 DEF Withdraw
    <3>. HIDE DEF w1
    <3>3. w2 \in MemberRow /\ w2.ci = w1.ci
          /\ w2.referrer = w1.referrer /\ w2.path = w1.path
      BY <3>1 DEF MemberRow, Withdrawals
    <3>. HIDE DEF w2
    <3>. QED  BY <3>1, <3>2, <3>3, <2>1, UpdateKeepsTree DEF Withdraw
  <2>2. CASE MarkStaff(u)
    <3>. DEFINE w == [users[u] EXCEPT !.role = "STAFF"]
    <3>1. w \in MemberRow /\ w.ci = users[u].ci
          /\ w.referrer = users[u].referrer /\ w.path = users[u].path
      BY <2>0 DEF MemberRow
    <3>2. users' = [users EXCEPT ![u] = w]
      BY <2>2, <1>1 DEF MarkStaff
    <3>. HIDE DEF w
    <3>. QED  BY <3>1, <3>2, <2>2, UpdateKeepsTree DEF MarkStaff
  <2>3. CASE FlagUser(u)
    <3>. DEFINE w == [users[u] EXCEPT !.status = "UNDER_REVIEW"]
    <3>1. w \in MemberRow /\ w.ci = users[u].ci
          /\ w.referrer = users[u].referrer /\ w.path = users[u].path
      BY <2>0 DEF MemberRow
    <3>2. users' = [users EXCEPT ![u] = w]
      BY <2>3, <1>1 DEF FlagUser
    <3>. HIDE DEF w
    <3>. QED  BY <3>1, <3>2, <2>3, UpdateKeepsTree DEF FlagUser
  <2>4. CASE CooldownEnds(u)
    <3>. DEFINE w == [users[u] EXCEPT !.withdrawn = "OVER"]
    <3>1. w \in MemberRow /\ w.ci = users[u].ci
          /\ w.referrer = users[u].referrer /\ w.path = users[u].path
      BY <2>0 DEF MemberRow, Withdrawals
    <3>2. users' = [users EXCEPT ![u] = w]
      BY <2>4, <1>1 DEF CooldownEnds
    <3>. HIDE DEF w
    <3>. QED  BY <3>1, <3>2, <2>4, UpdateKeepsTree DEF CooldownEnds
  <2>. QED  BY <1>2, <2>1, <2>2, <2>3, <2>4 DEF ChangeMember
<1>3. ASSUME NEW c \in Calls, NEW a \in {"ok", "refused", "error", "lost"},
             Answer(c, a)
      PROVE  calls' \in [Calls -> Call \cup Answers \cup {Idle}]
  BY <1>1, <1>3 DEF Answer, Answers
<1>4. ASSUME NEW c \in Calls, NEW person \in Applicants, NEW email \in Emails,
             NEW code \in 0..NoSuchCode, SignUpVerify(c, person, email, code)
      PROVE  TreeInv' /\ PlaceKept
  <2>1. calls' \in [Calls -> Call \cup Answers \cup {Idle}]
    BY <1>1, <1>3, <1>4 DEF SignUpVerify, Call
  <2>. QED  BY <1>1, <1>4, <2>1, CallsKeepTree DEF SignUpVerify
<1>5. ASSUME NEW c \in Calls, SignUpCreate(c)
      PROVE  TreeInv' /\ PlaceKept
  <2>1. CASE UNCHANGED users
    <3>1. Answer(c, "refused") \/ Answer(c, "error")
      <4>1. Append(users, NewMember(calls[c])) # users
        <5>1. Len(Append(users, NewMember(calls[c]))) = Len(users) + 1
          BY <1>1
        <5>. QED  BY <5>1, <1>1
      <4>. QED  BY <1>5, <2>1, <4>1 DEF SignUpCreate
    <3>2. calls' \in [Calls -> Call \cup Answers \cup {Idle}]
      BY <1>3, <3>1
    <3>. QED  BY <1>1, <1>5, <2>1, <3>2, CallsKeepTree DEF SignUpCreate
  <2>2. CASE /\ ~ReferralRefused(calls[c].person, calls[c].code)
             /\ ~InsertClash(calls[c]) /\ Len(users) < MaxUsers
             /\ users' = Append(users, NewMember(calls[c]))
             /\ calls' = [calls EXCEPT ![c].user = Len(users) + 1,
                                       ![c].step = "session"]
    <3>1. calls[c] \in Call
      BY <1>1, <1>5 DEF SignUpCreate, Answers, Idle
    <3>2. calls[c].code \in Members \cup {NoUser}
      BY <2>2 DEF ReferralRefused
    <3>. DEFINE w1 == [calls[c] EXCEPT !.user = Len(users) + 1]
                w2 == [w1 EXCEPT !.step = "session"]
    <3>3. w1 \in Call
      <4>1. Len(users) \in Nat
        BY <1>1
      <4>2. Len(users) + 1 \in 0..MaxUsers
        BY <4>1, <2>2, SignUpAssumption
      <4>. QED  BY <3>1, <4>2 DEF Call
    <3>4. calls' = [calls EXCEPT ![c] = w2]
      BY <2>2, <1>1
    <3>. HIDE DEF w1
    <3>5. w2 \in Call
      BY <3>3 DEF Call
    <3>. HIDE DEF w2
    <3>6. calls' \in [Calls -> Call \cup Answers \cup {Idle}]
      BY <1>1, <3>4, <3>5
    <3>7. sessions' = sessions
      BY <1>5 DEF SignUpCreate
    <3>. QED  BY <3>1, <3>2, <3>6, <3>7, <2>2, AppendKeepsTree
  <2>. QED  BY <1>5, <2>1, <2>2 DEF SignUpCreate
<1>6. ASSUME NEW c \in Calls, SignUpSession(c)
      PROVE  TreeInv' /\ PlaceKept
  <2>1. calls[c] \in Call /\ calls[c].step = "session"
    BY <1>1, <1>6 DEF SignUpSession, Answers, Idle
  <2>2. calls' \in [Calls -> Call \cup Answers \cup {Idle}] /\ UNCHANGED users
    BY <1>3, <1>6 DEF SignUpSession
  <2>3. sessions' \subseteq Members
    BY <1>1, <1>6, <2>1 DEF SignUpSession, CallsKnown
  <2>. QED  BY <2>2, <2>3, CallsKeepTree
<1>7. ASSUME NEW c \in Calls, SignUpLost(c)
      PROVE  TreeInv' /\ PlaceKept
  BY <1>1, <1>3, <1>7, CallsKeepTree DEF SignUpLost
<1>8. CASE UNCHANGED vars
  BY <1>8, <1>1, CallsKeepTree DEF vars
<1>. QED  BY <1>2, <1>4, <1>5, <1>6, <1>7, <1>8 DEF Next, Proceed

\* A call goes on to its session only with the member it has just inserted.
LEMMA NextKeepsCalls == TypeOK /\ CallsKnown /\ [Next]_vars => CallsKnown'
<1>. SUFFICES ASSUME TypeOK, CallsKnown, [Next]_vars,
                     NEW d \in Calls, calls'[d].step = "session"
              PROVE  calls'[d].user \in Members'
  BY DEF CallsKnown
<1>1. /\ users \in Seq(MemberRow) /\ Len(users) \in Nat
      /\ calls \in [Calls -> Call \cup Answers \cup {Idle}]
  BY DEF TypeOK
<1>2. ASSUME UNCHANGED calls, Members' = Members
      PROVE  calls'[d].user \in Members'
  BY <1>2 DEF CallsKnown
<1>3. ASSUME NEW c \in Calls, NEW a \in {"ok", "refused", "error", "lost"},
             Answer(c, a), Members' = Members
      PROVE  calls'[d].user \in Members'
  BY <1>1, <1>3 DEF Answer, CallsKnown
<1>4. ASSUME NEW u \in Members, ChangeMember(u)
      PROVE  calls'[d].user \in Members'
  <2>1. Members' = Members
    BY <1>1, <1>4 DEF ChangeMember, Withdraw, MarkStaff, FlagUser, CooldownEnds
  <2>2. UNCHANGED calls
    BY <1>4 DEF ChangeMember, Withdraw, MarkStaff, FlagUser, CooldownEnds
  <2>. QED  BY <1>2, <2>1, <2>2
<1>5. ASSUME NEW c \in Calls, NEW person \in Applicants, NEW email \in Emails,
             NEW code \in 0..NoSuchCode, SignUpVerify(c, person, email, code)
      PROVE  calls'[d].user \in Members'
  <2>1. CASE Answer(c, "error")
    BY <1>3, <1>5, <2>1 DEF SignUpVerify
  <2>2. CASE ~Answer(c, "error")
    BY <1>1, <1>5, <2>2 DEF SignUpVerify, CallsKnown
  <2>. QED  BY <2>1, <2>2
<1>6. ASSUME NEW c \in Calls, SignUpCreate(c)
      PROVE  calls'[d].user \in Members'
  <2>1. CASE UNCHANGED users /\ (Answer(c, "refused") \/ Answer(c, "error"))
    BY <1>3, <2>1
  <2>2. CASE /\ users' = Append(users, NewMember(calls[c]))
             /\ calls' = [calls EXCEPT ![c].user = Len(users) + 1,
                                       ![c].step = "session"]
    <3>1. Members' = Members \cup {Len(users) + 1}
      BY <1>1, <2>2
    <3>. DEFINE w1 == [calls[c] EXCEPT !.user = Len(users) + 1]
                w2 == [w1 EXCEPT !.step = "session"]
    <3>2. calls[c] \in Call
      BY <1>1, <1>6 DEF SignUpCreate, Answers, Idle
    <3>3. w1.user = Len(users) + 1 /\ DOMAIN w1 = DOMAIN calls[c]
      BY <3>2 DEF Call
    <3>4. calls' = [calls EXCEPT ![c] = w2]
      BY <2>2, <1>1
    <3>. HIDE DEF w1
    <3>5. w2.user = Len(users) + 1
      BY <3>3
    <3>. HIDE DEF w2
    <3>. QED  BY <1>1, <3>1, <3>4, <3>5 DEF CallsKnown
  <2>. QED  BY <1>6, <2>1, <2>2 DEF SignUpCreate
<1>7. ASSUME NEW c \in Calls, SignUpSession(c) \/ SignUpLost(c)
      PROVE  calls'[d].user \in Members'
  BY <1>3, <1>7 DEF SignUpSession, SignUpLost
<1>8. CASE UNCHANGED vars
  BY <1>2, <1>8 DEF vars
<1>. QED  BY <1>4, <1>5, <1>6, <1>7, <1>8 DEF Next, Proceed

-----------------------------------------------------------------------------

\* The invariant in every state of every behaviour.
THEOREM TreeKept == Spec => [](TreeInv /\ CallsKnown)
<1>1. Init => TreeInv /\ CallsKnown
  BY InitTree DEF Init, CallsKnown, Idle
<1>2. TreeInv /\ CallsKnown /\ [Next]_vars => (TreeInv /\ CallsKnown)'
  BY NextKeepsTree, NextKeepsCalls DEF TreeInv
<1>. QED  BY <1>1, <1>2, PTL DEF Spec

\* Every table and every sign-up keeps its type.
THEOREM SignUpTyped == Spec => []TypeOK
<1>1. TreeInv => TypeOK
  BY DEF TreeInv
<1>. QED  BY <1>1, TreeKept, PTL

\* The tree has no cycle: referrers are older than those they referred.
THEOREM TreeHasNoCycle == Spec => []ReferrerJoinedBefore
<1>1. TreeInv => ReferrerJoinedBefore
  BY DEF TreeInv
<1>. QED  BY <1>1, TreeKept, PTL

\* The cached path of every member is the chain the engine pays.
THEOREM PathsAreChains == Spec => []PathIsChain
<1>1. TreeInv => PathIsChain
  <2>. SUFFICES ASSUME TreeInv, NEW u \in Members
                PROVE  users[u].path = Ancestors(u)
    BY DEF PathIsChain
  <2>. DEFINE r(v) == IF v = NoUser THEN NoUser ELSE users[v].referrer
  <2>1. \A v \in Members : v # NoUser
    BY Placed DEF TreeInv
  <2>2. \A v \in Members \cup {NoUser} : r(v) \in Members \cup {NoUser}
    BY Placed DEF TreeInv
  <2>3. \A v \in Members :
          /\ r(v) = NoUser => users[v].path = <<NoUser, NoUser, NoUser>>
          /\ r(v) # NoUser => users[v].path =
               <<r(v), users[r(v)].path[1], users[r(v)].path[2]>>
    BY <2>1 DEF TreeInv, PathsContinue, PathBehind
  <2>5. r(NoUser) = NoUser
    OBVIOUS
  <2>. HIDE DEF r
  <2>7. \A v \in Members : users[v].path[1] = r(v)
    <3>. SUFFICES ASSUME NEW v \in Members PROVE users[v].path[1] = r(v)
      OBVIOUS
    <3>1. CASE r(v) = NoUser
      <4>1. users[v].path = <<NoUser, NoUser, NoUser>>
        BY <2>3, <3>1
      <4>. QED  BY <3>1, <4>1
    <3>2. CASE r(v) # NoUser
      BY <2>3, <3>2
    <3>. QED  BY <3>1, <3>2
  <2>4. \A v \in Members : users[v].path[1] = r(v) /\ users[v].path[2] = r(r(v))
    <3>. SUFFICES ASSUME NEW v \in Members PROVE users[v].path[2] = r(r(v))
      BY <2>7
    <3>1. CASE r(v) = NoUser
      <4>1. users[v].path = <<NoUser, NoUser, NoUser>>
        BY <2>3, <3>1
      <4>. QED  BY <2>5, <3>1, <4>1
    <3>2. CASE r(v) # NoUser
      <4>1. r(v) \in Members
        BY <2>2, <3>2
      <4>2. users[r(v)].path[1] = r(r(v))
        BY <2>7, <4>1
      <4>. QED  BY <2>3, <3>2, <4>2
    <3>. QED  BY <3>1, <3>2
  <2>6. users[u].path = <<r(u), r(r(u)), r(r(r(u)))>>
    <3>1. CASE r(u) = NoUser
      BY <2>3, <2>5, <3>1
    <3>2. CASE r(u) # NoUser
      BY <2>2, <2>3, <2>4, <3>2
    <3>. QED  BY <3>1, <3>2
  <2>. USE DEF r
  <2>. QED  BY <2>6 DEF Ancestors, ReferrerOf
<1>. QED  BY <1>1, TreeKept, PTL

\* Nothing moves a member in the tree.
THEOREM PlacesAreFinal == Spec => PlaceFinal
<1>1. TreeInv /\ CallsKnown /\ [Next]_vars => [PlaceKept]_vars
  BY NextKeepsTree
<1>. QED  BY <1>1, TreeKept, PTL DEF Spec, PlaceFinal

-----------------------------------------------------------------------------
(* The trees.                                                               *)

\* The members g generations below u, as both trees look them up.
Below1(u) == {m \in Members : users[m].referrer = u}
Below2(u) == {m \in Members : users[m].referrer \in Below1(u)}
Below3(u) == {m \in Members : users[m].referrer \in Below2(u)}

Below(u) == (Below1(u) \X {1}) \cup (Below2(u) \X {2}) \cup (Below3(u) \X {3})

\* The recursive query of the dashboard: what a function must be to answer it.
Descends(u, f) ==
  f = [d \in 0..3 |-> IF d = 0 THEN {u}
                      ELSE LET above == f[d - 1]
                           IN  {m \in Members : users[m].referrer \in above}]

\* There is such a function, and each of its generations is the one above's.
LEMMA DescentIsDefined ==
  ASSUME NEW u
  PROVE  LET f == CHOOSE f : Descends(u, f) IN
         f[1] = Below1(u) /\ f[2] = Below2(u) /\ f[3] = Below3(u)
<1>. DEFINE h == [d \in 0..3 |-> IF d = 0 THEN {u} ELSE IF d = 1 THEN Below1(u)
                                 ELSE IF d = 2 THEN Below2(u) ELSE Below3(u)]
            f == CHOOSE f : Descends(u, f)
<1>1. Descends(u, h)
  <2>1. h[0] = {u} /\ h[1] = Below1(u) /\ h[2] = Below2(u) /\ h[3] = Below3(u)
    OBVIOUS
  <2>2. ASSUME NEW d \in 0..3
        PROVE  h[d] = IF d = 0 THEN {u}
                      ELSE {m \in Members : users[m].referrer \in h[d - 1]}
    <3>. HIDE DEF h
    <3>1. d = 0 \/ d = 1 \/ d = 2 \/ d = 3
      OBVIOUS
    <3>2. Below1(u) = {m \in Members : users[m].referrer \in {u}}
      BY DEF Below1
    <3>3. CASE d = 0
      BY <2>1, <3>3
    <3>4. CASE d = 1
      BY <2>1, <3>2, <3>4
    <3>5. CASE d = 2
      BY <2>1, <3>5 DEF Below2
    <3>6. CASE d = 3
      BY <2>1, <3>6 DEF Below3
    <3>. QED  BY <3>1, <3>3, <3>4, <3>5, <3>6
  <2>. QED  BY <2>2 DEF Descends
<1>2. Descends(u, f)
  BY <1>1
<1>. HIDE DEF f
<1>3. f[0] = {u}
  BY <1>2 DEF Descends
<1>4. f[1] = Below1(u)
  BY <1>2, <1>3 DEF Descends, Below1
<1>5. f[2] = Below2(u)
  BY <1>2, <1>4 DEF Descends, Below2
<1>6. f[3] = Below3(u)
  BY <1>2, <1>5 DEF Descends, Below3
<1>. QED  BY <1>4, <1>5, <1>6 DEF f

\* So the recursive query shows what the three look-ups of the console show.
LEMMA TreesAgree ==
  ASSUME NEW u
  PROVE  DashboardTree(u) = Below(u) /\ AdminTree(u) = Below(u)
<1>. DEFINE f == CHOOSE f : Descends(u, f)
<1>1. DashboardTree(u) = UNION {f[d] \X {d} : d \in 1..3}
  BY DEF DashboardTree, Descends
<1>2. f[1] = Below1(u) /\ f[2] = Below2(u) /\ f[3] = Below3(u)
  BY DescentIsDefined
<1>. HIDE DEF f
<1>3. UNION {f[d] \X {d} : d \in 1..3} = Below(u)
  <2>1. 1..3 = {1, 2, 3}
    OBVIOUS
  <2>. QED  BY <1>2, <2>1 DEF Below
<1>4. AdminTree(u) = Below(u)
  BY DEF AdminTree, Below, Below1, Below2, Below3
<1>. QED  BY <1>1, <1>3, <1>4

\* A member is g generations below u when u is his ancestor of generation g.
LEMMA BelowPays ==
  ASSUME TreeInv, NEW u \in Members
  PROVE  Below(u) = {e \in Members \X (1..3) : Ancestors(e[1])[e[2]] = u}
<1>. DEFINE r(v) == ReferrerOf(v)
<1>1. u # NoUser /\ \A v \in Members : v # NoUser /\ r(v) = users[v].referrer
  BY Placed DEF TreeInv, ReferrerOf
<1>2. \A v \in Members : r(v) \in Members \cup {NoUser}
  BY <1>1, Placed DEF TreeInv
<1>3. r(NoUser) = NoUser
  BY DEF ReferrerOf
<1>4. \A m \in Members : m \in Below1(u) <=> r(m) = u
  BY <1>1 DEF Below1
<1>5. \A m \in Members : m \in Below2(u) <=> r(r(m)) = u
  <2>1. \A m \in Members : m \in Below2(u) <=> r(m) \in Below1(u)
    BY <1>1 DEF Below2
  <2>2. Below1(u) \subseteq Members
    BY DEF Below1
  <2>. HIDE DEF r
  <2>. QED  BY <1>1, <1>2, <1>3, <1>4, <2>1, <2>2
<1>6. \A m \in Members : m \in Below3(u) <=> r(r(r(m))) = u
  <2>1. \A m \in Members : m \in Below3(u) <=> r(m) \in Below2(u)
    BY <1>1 DEF Below3
  <2>2. Below2(u) \subseteq Members
    BY DEF Below2
  <2>. HIDE DEF r
  <2>. QED  BY <1>1, <1>2, <1>3, <1>5, <2>1, <2>2
<1>7. \A m \in Members : /\ Ancestors(m)[1] = r(m) /\ Ancestors(m)[2] = r(r(m))
                         /\ Ancestors(m)[3] = r(r(r(m)))
  BY DEF Ancestors
<1>. HIDE DEF r
<1>8. \A m \in Members, g \in 1..3 :
        <<m, g>> \in Below(u) <=> Ancestors(m)[g] = u
  BY <1>4, <1>5, <1>6, <1>7 DEF Below
<1>9. Below(u) \subseteq Members \X (1..3)
  BY DEF Below, Below1, Below2, Below3
<1>. DEFINE paying == {e \in Members \X (1..3) : Ancestors(e[1])[e[2]] = u}
<1>10. ASSUME NEW e \in Members \X (1..3)
       PROVE  e \in Below(u) <=> e \in paying
  <2>1. PICK m \in Members, g \in 1..3 : e = <<m, g>>
    OBVIOUS
  <2>2. e \in paying <=> Ancestors(m)[g] = u
    BY <2>1
  <2>. QED  BY <1>8, <2>1, <2>2
<1>11. paying \subseteq Members \X (1..3)
  OBVIOUS
<1>. HIDE DEF paying
<1>12. Below(u) = paying
  BY <1>9, <1>10, <1>11
<1>. QED  BY <1>12 DEF paying

\* The trees of the dashboard and of the console show, for every member, exactly
\* those whose orders pay him, in the generation they pay him for.
THEOREM TreesAreSound == Spec => []TreesSound
<1>1. TreeInv => TreesSound
  <2>. SUFFICES ASSUME TreeInv PROVE TreesShowWhoPays
    BY DEF TreesSound, TreeInv
  <2>. QED  BY BelowPays, TreesAgree DEF TreesShowWhoPays
<1>. QED  BY <1>1, TreeKept, PTL

=============================================================================
