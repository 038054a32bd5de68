------------------------------- MODULE SignUp -------------------------------
(***************************************************************************)
(* Sign-up and the referral tree: auth.service.ts (signup), user.service.ts *)
(* (createUser, withdraw), PortOne's identity verification, and the tree    *)
(* the seed leaves behind.                                                  *)
(*                                                                          *)
(* A sign-up is three steps between which others proceed: the identity is   *)
(* looked up at PortOne, one Serializable transaction checks and inserts    *)
(* the member, and a statement of its own inserts the session.  A refused   *)
(* transaction is rolled back with the AbuseLog row it wrote, so nothing of *)
(* it is left.                                                              *)
(*                                                                          *)
(* A person stands for the ci that PortOne returns and for the e-mail       *)
(* address of that person.  Members are numbered in the order of insertion, *)
(* and a member's number stands for the referral code as well.              *)
(***************************************************************************)
EXTENDS Naturals, Sequences

CONSTANTS
  People,      \* everybody PortOne can identify, the seed's five among them
  Minors,      \* the people under 19
  Applicants,  \* the people who ask for an account
  Emails,      \* the addresses (by their owner) they may give
  Calls,       \* one id per sign-up
  MaxUsers,    \* bound on the members
  AdminOps     \* which operations happen to which members meanwhile

ASSUME SignUpAssumption ==
  /\ People \subseteq Nat /\ 1..5 \subseteq People
  /\ Minors \subseteq People
  /\ Applicants \subseteq People /\ Emails \subseteq People
  /\ MaxUsers \in Nat
  /\ AdminOps \subseteq {"withdraw", "markStaff", "flagUser"} \X Nat

VARIABLES
  users,       \* table User
  sessions,    \* members with a session from their sign-up
  calls        \* the sign-ups being served

vars == <<users, sessions, calls>>

-----------------------------------------------------------------------------

NoUser == 0          \* referrerId null; a request without a code
NoSuchCode == MaxUsers + 1

\* withdrawnAt: null, within WITHDRAW_COOLDOWN_DAYS, or longer ago.
Withdrawals == {"NONE", "COOLING", "OVER"}

\* path is ancestorPath, its missing generations filled with NoUser.
MemberRow ==
  [ci : People, email : People, role : {"CUSTOMER", "STAFF"},
   status : {"ACTIVE", "MINOR_HOLD", "WITHDRAWN", "UNDER_REVIEW"},
   withdrawn : Withdrawals, referrer : 0..MaxUsers,
   path : (0..MaxUsers) \X (0..MaxUsers) \X (0..MaxUsers)]

\* create, session: about to run the transaction, about to insert the session.
Call == [person : People, email : People, code : 0..NoSuchCode,
         user : 0..MaxUsers, step : {"create", "session"}]

Idle == [step |-> "idle"]
Answers == {[step |-> a] : a \in {"ok", "refused", "error", "lost"}}

Members == DOMAIN users

TypeOK ==
  /\ users \in Seq(MemberRow)
  /\ sessions \subseteq Members
  /\ calls \in [Calls -> Call \cup Answers \cup {Idle}]

-----------------------------------------------------------------------------
(* The seed: a chain of four generations A, B, C, D, and a member of staff. *)

SeedMember(i, role, path) ==
  [ci |-> i, email |-> i, role |-> role, status |-> "ACTIVE",
   withdrawn |-> "NONE", referrer |-> path[1], path |-> path]

SeedUsers ==
  <<SeedMember(1, "CUSTOMER", <<NoUser, NoUser, NoUser>>),
    SeedMember(2, "CUSTOMER", <<1, NoUser, NoUser>>),
    SeedMember(3, "CUSTOMER", <<2, 1, NoUser>>),
    SeedMember(4, "CUSTOMER", <<3, 2, 1>>),
    SeedMember(5, "STAFF", <<NoUser, NoUser, NoUser>>)>>

Init ==
  /\ users = IF MaxUsers >= 5 THEN SeedUsers ELSE <<>>
  /\ sessions = {}
  /\ calls = [c \in Calls |-> Idle]

-----------------------------------------------------------------------------
(* What happens to members meanwhile.                                       *)

\* Also of a member who has withdrawn before: the cool-down starts again.
Withdraw(u) ==
  /\ users' = [users EXCEPT ![u].status = "WITHDRAWN",
                            ![u].withdrawn = "COOLING"]
  /\ UNCHANGED <<sessions, calls>>

MarkStaff(u) ==
  /\ users' = [users EXCEPT ![u].role = "STAFF"]
  /\ UNCHANGED <<sessions, calls>>

FlagUser(u) ==
  /\ users' = [users EXCEPT ![u].status = "UNDER_REVIEW"]
  /\ UNCHANGED <<sessions, calls>>

CooldownEnds(u) ==
  /\ users[u].withdrawn = "COOLING"
  /\ users' = [users EXCEPT ![u].withdrawn = "OVER"]
  /\ UNCHANGED <<sessions, calls>>

-----------------------------------------------------------------------------
(* signup                                                                   *)

Answer(c, a) == calls' = [calls EXCEPT ![c] = [step |-> a]]

\* identity.get: the verification must be VERIFIED and carry a ci; PortOne may
\* also fail to answer.
SignUpVerify(c, person, email, code) ==
  /\ calls[c] = Idle
  /\ \/ calls' = [calls EXCEPT ![c] =
                    [person |-> person, email |-> email, code |-> code,
                     user |-> NoUser, step |-> "create"]]
     \/ Answer(c, "error")
  /\ UNCHANGED <<users, sessions>>

OfPerson(person) == {u \in Members : users[u].ci = person}

\* The look-up by ci: only a withdrawal that is over lets the person go on.
RegisteredAlready(person) ==
  \E u \in OfPerson(person) :
    ~(users[u].status = "WITHDRAWN" /\ users[u].withdrawn = "OVER")

RangeOf(path) == {path[g] : g \in 1..3}

\* No such code, a member of staff's, or one's own: directly or through a
\* generation of the referrer's path.
ReferralRefused(person, code) ==
  /\ code # NoUser
  /\ code \in Members =>
       \/ users[code].role = "STAFF"
       \/ \E a \in {code} \cup RangeOf(users[code].path) :
            a # NoUser /\ users[a].ci = person

\* Mutated form: the path is the referrer's own, which loses a generation.
PathOfReferrer(code) ==
  IF code = NoUser THEN <<NoUser, NoUser, NoUser>>
                   ELSE <<code, users[code].path[2], users[code].path[3]>>

\* ancestorPath: the referrer in front of two generations of its own path.
PathBehind(code) ==
  IF code = NoUser THEN <<NoUser, NoUser, NoUser>>
                   ELSE <<code, users[code].path[1], users[code].path[2]>>

NewMember(call) ==
  [ci |-> call.person, email |-> call.email, role |-> "CUSTOMER",
   status |-> IF call.person \in Minors THEN "MINOR_HOLD" ELSE "ACTIVE",
   withdrawn |-> "NONE", referrer |-> call.code, path |-> PathBehind(call.code)]

\* The unique indexes on ciHash and email, which know nothing of a cool-down.
InsertClash(call) ==
  \E u \in Members : users[u].ci = call.person \/ users[u].email = call.email

\* Mutated form: who rejoins gets the old row back, under the new referrer.
SignUpCreateReviving(c) ==
  /\ calls[c].step = "create"
  /\ LET call == calls[c] IN
     \/ /\ ~RegisteredAlready(call.person)
        /\ ~ReferralRefused(call.person, call.code)
        /\ \/ \E u \in OfPerson(call.person) :
                /\ users' = [users EXCEPT ![u] = NewMember(call)]
                /\ calls' = [calls EXCEPT ![c].user = u, ![c].step = "session"]
           \/ /\ OfPerson(call.person) = {} /\ Len(users) < MaxUsers
              /\ users' = Append(users, NewMember(call))
              /\ calls' = [calls EXCEPT ![c].user = Len(users) + 1,
                                        ![c].step = "session"]
     \/ Answer(c, "refused") /\ UNCHANGED users
  /\ UNCHANGED sessions

\* createUser: refused, rolled back by a unique index or by a concurrent
\* transaction, or committed.
SignUpCreate(c) ==
  /\ calls[c].step = "create"
  /\ LET call == calls[c]
         refused == \/ RegisteredAlready(call.person)
                    \/ ReferralRefused(call.person, call.code)
     IN  \/ /\ refused
            /\ Answer(c, "refused") /\ UNCHANGED users
         \/ Answer(c, "error") /\ UNCHANGED users
         \/ /\ ~refused /\ ~InsertClash(call) /\ Len(users) < MaxUsers
            /\ users' = Append(users, NewMember(call))
            /\ calls' = [calls EXCEPT ![c].user = Len(users) + 1,
                                      ![c].step = "session"]
  /\ UNCHANGED sessions

\* issueRefreshToken; when it fails the member is there and was told nothing.
SignUpSession(c) ==
  /\ calls[c].step = "session"
  /\ \/ sessions' = sessions \cup {calls[c].user} /\ Answer(c, "ok")
     \/ Answer(c, "error") /\ UNCHANGED sessions
  /\ UNCHANGED users

\* The process restarts with the call in flight.
SignUpLost(c) ==
  /\ calls[c].step \in {"create", "session"}
  /\ Answer(c, "lost")
  /\ UNCHANGED <<users, sessions>>

-----------------------------------------------------------------------------

ChangeMember(u) ==
  \/ <<"withdraw", u>> \in AdminOps /\ Withdraw(u)
  \/ <<"markStaff", u>> \in AdminOps /\ MarkStaff(u)
  \/ <<"flagUser", u>> \in AdminOps /\ FlagUser(u)
  \/ CooldownEnds(u)

Proceed(c) == SignUpCreate(c) \/ SignUpSession(c)

Next ==
  \/ \E u \in Members : ChangeMember(u)
  \/ \E c \in Calls :
       \/ \E person \in Applicants, email \in Emails, code \in 0..NoSuchCode :
            SignUpVerify(c, person, email, code)
       \/ Proceed(c)
       \/ SignUpLost(c)

Spec == Init /\ [][Next]_vars

-----------------------------------------------------------------------------
(* Correctness                                                              *)

ReferrerOf(u) == IF u = NoUser THEN NoUser ELSE users[u].referrer

\* The chain the referral engine walks when it distributes (getAncestors).
Ancestors(u) == <<ReferrerOf(u), ReferrerOf(ReferrerOf(u)),
                  ReferrerOf(ReferrerOf(ReferrerOf(u)))>>

\* Mutated form: a generation less is looked up.
TreeOfTwo(u) ==
  LET depth1 == {m \in Members : users[m].referrer = u}
      depth2 == {m \in Members : users[m].referrer \in depth1}
  IN  (depth1 \X {1}) \cup (depth2 \X {2})

\* getUserTree of the console looks up one generation after the other.
AdminTree(u) ==
  LET depth1 == {m \in Members : users[m].referrer = u}
      depth2 == {m \in Members : users[m].referrer \in depth1}
      depth3 == {m \in Members : users[m].referrer \in depth2}
  IN  (depth1 \X {1}) \cup (depth2 \X {2}) \cup (depth3 \X {3})

\* getTree of the dashboard is one recursive query; a row keeps its depth.
DashboardTree(u) ==
  LET AtDepth[d \in 0..3] ==
        IF d = 0 THEN {u}
        ELSE LET above == AtDepth[d - 1]
             IN  {m \in Members : users[m].referrer \in above}
  IN  UNION {AtDepth[d] \X {d} : d \in 1..3}

\* The cached ancestorPath of every member is the chain of referrers that the
\* engine pays, whatever has become of the members since they signed up.
PathIsChain == \A u \in Members : users[u].path = Ancestors(u)

\* Every referrer joined before the member he referred, so that no walk up the
\* tree, over any number of generations, comes back to where it began.
ReferrerJoinedBefore == \A u \in Members : users[u].referrer < u

\* Both trees show below a member, and in which generation, exactly those whose
\* orders pay him as an ancestor of that generation.
TreesShowWhoPays ==
  \A u \in Members :
    LET paying == {e \in Members \X (1..3) : Ancestors(e[1])[e[2]] = u}
    IN  DashboardTree(u) = paying /\ AdminTree(u) = paying

\* The member table keeps its type, and the trees made from it are those paid by.
TreesSound == TypeOK /\ TreesShowWhoPays

PlaceKept ==
  \A u \in Members : /\ u \in DOMAIN users'
                     /\ users'[u].ci = users[u].ci
                     /\ users'[u].referrer = users[u].referrer
                     /\ users'[u].path = users[u].path

\* A member's place in the tree is settled at sign-up: nothing moves it.
PlaceFinal == [][PlaceKept]_vars

\* Who withdrew longer ago than the cool-down may join again: once the look-up
\* has let the person through, only a taken e-mail address fails the insert.
RejoinAccepted ==
  \A c \in Calls :
    /\ calls[c].step = "create"
    /\ ~RegisteredAlready(calls[c].person)
    /\ InsertClash(calls[c])
    => \E u \in Members : users[u].email = calls[c].email

=============================================================================
