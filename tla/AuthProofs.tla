----------------------------- MODULE AuthProofs -----------------------------
(***************************************************************************)
(* Proofs about Auth.  No call locks anything, so what holds of a session,  *)
(* a one-time password or a cool-down has to follow from what each call     *)
(* carries: Fine says it of one call, of the rows it read and wrote.  Rows  *)
(* only grow: a session stays revoked, a password stays used, and the time  *)
(* a challenge was created does not change.                                 *)
(***************************************************************************)
EXTENDS Auth, FiniteSetTheorems, WellFoundedInduction, TLAPS

CallFields == {"op", "on", "code", "kind", "read", "before", "step"}

FineRefresh(r, ss) ==
  /\ r.on \in DOMAIN ss /\ r.on \notin r.before
  /\ r.step = "ok" => ss[r.on].revoked

FineVerify(r, ch) ==
  /\ r.on \in DOMAIN ch /\ r.on \notin r.before
  /\ r.step = "ok" => ch[r.on].used

FineRequest(r, ch, t) ==
  /\ r.kind \in Kinds /\ r.before \subseteq DOMAIN ch
  /\ r.step = "insert" =>
       r.on = 0 /\ \A i \in r.before : t > ch[i].created + OtpCooldown
  /\ r.on # 0 =>
       /\ r.on \in DOMAIN ch
       /\ \A i \in r.before : ch[r.on].created > ch[i].created + OtpCooldown

\* A call r, for the sessions ss and the challenges ch, at time t.
Fine(r, ss, ch, t) ==
  \/ r \in {Idle, Refused}
  \/ /\ DOMAIN r = CallFields
     /\ r.op = "refresh" => FineRefresh(r, ss)
     /\ r.op = "otpVerify" => FineVerify(r, ch)
     /\ r.op = "otpRequest" => FineRequest(r, ch, t)

RowsTyped ==
  /\ now \in Nat
  /\ sessions \in Seq(Session)
  /\ challenges \in Seq(Challenge)
  /\ \A s \in DOMAIN sessions : sessions[s].parent \in DOMAIN sessions \union {0}

CallsFine ==
  /\ calls = [c \in Calls |-> calls[c]]
  /\ \A c \in Calls : Fine(calls[c], sessions, challenges, now)

AuthInv == RowsTyped /\ CallsFine /\ RotatedIsRevoked

\* What no step undoes.
SessionsGrow(ss, ss2) ==
  /\ DOMAIN ss \subseteq DOMAIN ss2
  /\ \A s \in DOMAIN ss : ss[s].revoked => ss2[s].revoked

ChallengesGrow(ch, ch2) ==
  /\ DOMAIN ch \subseteq DOMAIN ch2
  /\ \A i \in DOMAIN ch : /\ ch[i].used => ch2[i].used
                          /\ ch2[i].created = ch[i].created

-----------------------------------------------------------------------------
(* Calls                                                                    *)

\* A call stays fine while the rows grow and time goes on.
LEMMA FineGrows ==
  ASSUME NEW r, NEW ss, NEW ch, NEW t \in Nat, NEW ss2, NEW ch2, NEW t2 \in Nat,
         Fine(r, ss, ch, t), SessionsGrow(ss, ss2), ChallengesGrow(ch, ch2), t =< t2,
         \A i \in DOMAIN ch : ch[i].created \in Nat
  PROVE  Fine(r, ss2, ch2, t2)
<1>. USE AuthAssumption
<1>1. CASE r \in {Idle, Refused}
  BY <1>1 DEF Fine
<1>2. CASE DOMAIN r = CallFields
  <2>0. CASE r \in {Idle, Refused}
    BY <2>0 DEF Fine
  <2>1. ASSUME r \notin {Idle, Refused}, r.op = "refresh"  PROVE FineRefresh(r, ss2)
    BY <2>1 DEF Fine, FineRefresh, SessionsGrow
  <2>2. ASSUME r \notin {Idle, Refused}, r.op = "otpVerify"  PROVE FineVerify(r, ch2)
    BY <2>2 DEF Fine, FineVerify, ChallengesGrow
  <2>3. ASSUME r \notin {Idle, Refused}, r.op = "otpRequest"
        PROVE  FineRequest(r, ch2, t2)
    <3>1. FineRequest(r, ch, t)
      BY <2>3 DEF Fine
    <3>2. \A i \in r.before : i \in DOMAIN ch2 /\ ch2[i].created = ch[i].created
                              /\ ch[i].created \in Nat
      BY <3>1 DEF FineRequest, ChallengesGrow
    <3>3. OtpCooldown \in Nat
      OBVIOUS
    <3>. QED  BY <3>1, <3>2, <3>3 DEF FineRequest, ChallengesGrow
  <2>. QED  BY <1>2, <2>0, <2>1, <2>2, <2>3 DEF Fine
<1>. QED  BY <1>1, <1>2 DEF Fine

\* What calls of an operation that were answered ok have worked on.
LEMMA DoneFine ==
  ASSUME AuthInv
  PROVE  /\ \A s \in Done("refresh") : s \in DOMAIN sessions /\ sessions[s].revoked
         /\ \A i \in Done("otpVerify") : i \in DOMAIN challenges /\ challenges[i].used
         /\ Done("otpRequest") \ {0} \subseteq DOMAIN challenges
<1>1. \A c \in Calls : Fine(calls[c], sessions, challenges, now)
  BY DEF AuthInv, CallsFine
<1>2. \A c \in Calls : \A op : At(c, {op}, "ok") => calls[c] \notin {Idle, Refused}
  BY DEF At, Idle, Refused
<1>. QED  BY <1>1, <1>2 DEF Done, At, Fine, FineRefresh, FineVerify, FineRequest

\* The rows are typed, field by field.
LEMMA RowFields ==
  ASSUME RowsTyped
  PROVE  /\ \A s \in DOMAIN sessions : sessions[s] \in Session
         /\ \A i \in DOMAIN challenges : challenges[i] \in Challenge
                                         /\ challenges[i].created \in Nat
<1>1. \A s \in DOMAIN sessions : sessions[s] \in Session
  BY DEF RowsTyped
<1>2. \A i \in DOMAIN challenges : challenges[i] \in Challenge
  BY DEF RowsTyped
<1>. QED  BY <1>1, <1>2 DEF Challenge

\* A step that changes one call: it is fine, and the rows have grown.
LEMMA OneCall ==
  ASSUME AuthInv, NEW c \in Calls, NEW q, calls' = [calls EXCEPT ![c] = q],
         Fine(q, sessions', challenges', now'), now' \in Nat, now =< now',
         SessionsGrow(sessions, sessions'), ChallengesGrow(challenges, challenges')
  PROVE  CallsFine'
<1>1. now \in Nat /\ \A i \in DOMAIN challenges : challenges[i].created \in Nat
  BY RowFields DEF AuthInv, RowsTyped
<1>2. \A d \in Calls : Fine(calls[d], sessions', challenges', now')
  BY <1>1, FineGrows DEF AuthInv, CallsFine
<1>3. \A d \in Calls : calls'[d] = IF d = c THEN q ELSE calls[d]
  BY DEF AuthInv, CallsFine
<1>4. calls' = [d \in Calls |-> calls'[d]]
  BY DEF AuthInv, CallsFine
<1>5. \A d \in Calls : Fine(calls'[d], sessions', challenges', now')
  BY <1>2, <1>3
<1>. QED  BY <1>4, <1>5 DEF CallsFine

\* Rows that stay have grown.
LEMMA GrowsTrivially ==
  \A ss, ch : SessionsGrow(ss, ss) /\ ChallengesGrow(ch, ch)
BY DEF SessionsGrow, ChallengesGrow

\* A call that begins changes no row: it is fine when its record is.
LEMMA BeginStep ==
  ASSUME AuthInv, NEW c \in Calls, NEW r, NEW step, Begin(c, r, step),
         UNCHANGED Rows, DOMAIN r = CallFields,
         step # "refused" =>
           Fine([r EXCEPT !.step = step], sessions, challenges, now)
  PROVE  AuthInv'
<1>. DEFINE q == IF step = "refused" THEN Refused ELSE [r EXCEPT !.step = step]
<1>1. Fine(q, sessions, challenges, now)
  BY DEF Fine
<1>2. calls' = [calls EXCEPT ![c] = q] /\ calls[c] = Idle
  BY DEF Begin
<1>. HIDE DEF q
<1>3. RowsTyped'
  BY DEF AuthInv, RowsTyped, Rows
<1>4. /\ now' = now /\ sessions' = sessions /\ challenges' = challenges
      /\ now \in Nat
  BY DEF Rows, AuthInv, RowsTyped
<1>5. CallsFine'
  <2>1. Fine(q, sessions', challenges', now')
    BY <1>1, <1>4
  <2>2. SessionsGrow(sessions, sessions') /\ ChallengesGrow(challenges, challenges')
    BY <1>4, GrowsTrivially
  <2>3. now' \in Nat /\ now =< now'
    BY <1>4
  <2>. QED  BY <1>2, <2>1, <2>2, <2>3, OneCall
<1>6. RotatedIsRevoked'
  <2>1. \A d \in Calls : d # c => calls'[d] = calls[d]
    BY <1>2 DEF AuthInv, CallsFine
  <2>2. calls[c].op # "refresh"
    BY <1>2 DEF Idle
  <2>. QED  BY <2>1, <2>2, <1>4 DEF AuthInv, RotatedIsRevoked
<1>. QED  BY <1>3, <1>5, <1>6 DEF AuthInv

\* A record of CallFields whose step is replaced.
LEMMA StepFields ==
  ASSUME NEW r, NEW step, DOMAIN r = CallFields
  PROVE  LET q == [r EXCEPT !.step = step] IN
         /\ DOMAIN q = CallFields /\ q.step = step
         /\ q.op = r.op /\ q.on = r.on /\ q.before = r.before /\ q.kind = r.kind
BY DEF CallFields

\* A call that goes on.
LEMMA GoToStep ==
  ASSUME AuthInv, NEW c \in Calls, NEW step, GoTo(c, step),
         calls[c] \notin {Idle, Refused}, RowsTyped', now' = now,
         SessionsGrow(sessions, sessions'), ChallengesGrow(challenges, challenges'),
         calls[c].op = "refresh" /\ step = "ok" => sessions'[calls[c].on].revoked,
         calls[c].op = "otpVerify" /\ step = "ok" => challenges'[calls[c].on].used,
         calls[c].op = "otpRequest" => step # "insert"
  PROVE  CallsFine' /\ \A d \in Calls : /\ calls'[d].op = calls[d].op
                                       /\ calls'[d].on = calls[d].on
                                       /\ calls'[d].step =
                                            IF d = c THEN step ELSE calls[d].step
<1>. DEFINE r == calls[c]
            q == [r EXCEPT !.step = step]
<1>0. now' \in Nat /\ now =< now' /\ now \in Nat
  BY DEF RowsTyped, AuthInv
<1>1. Fine(r, sessions, challenges, now) /\ DOMAIN r = CallFields
  BY DEF AuthInv, CallsFine, Fine
<1>2. Fine(r, sessions', challenges', now')
  BY <1>0, <1>1, FineGrows, RowFields DEF AuthInv
<1>3. /\ DOMAIN q = CallFields /\ q.step = step
      /\ q.op = r.op /\ q.on = r.on /\ q.before = r.before /\ q.kind = r.kind
  BY <1>1, StepFields
<1>4. calls' = [calls EXCEPT ![c] = q]
  BY DEF GoTo
<1>. HIDE DEF q
<1>5. Fine(q, sessions', challenges', now')
  BY <1>2, <1>3 DEF Fine, FineRefresh, FineVerify, FineRequest
<1>6. \A d \in Calls : calls'[d] = IF d = c THEN q ELSE calls[d]
  BY <1>4 DEF AuthInv, CallsFine
<1>7. CallsFine'
  BY <1>0, <1>4, <1>5, OneCall
<1>8. \A d \in Calls : /\ calls'[d].op = calls[d].op
                       /\ calls'[d].on = calls[d].on
                       /\ calls'[d].step = IF d = c THEN step ELSE calls[d].step
  BY <1>3, <1>6
<1>. QED  BY <1>7, <1>8

\* A session that is rotated keeps what RotatedIsRevoked says of it while the
\* sessions stay and the refreshes under way go on as they were.
LEMMA RotatedStays ==
  ASSUME AuthInv, sessions' = sessions,
         \A d \in Calls : calls[d].op = "refresh" =>
           /\ calls'[d].op = "refresh" /\ calls'[d].on = calls[d].on
           /\ calls[d].step \in {"revoke", "lost"} =>
                calls'[d].step \in {"revoke", "lost"}
  PROVE  RotatedIsRevoked'
BY DEF AuthInv, RotatedIsRevoked

\* A set of rows that is not empty has a last one.
LEMMA HasGreatest ==
  ASSUME NEW n \in Nat, NEW S \in SUBSET (1..n), S # {}
  PROVE  \E j \in S : \A k \in S : k <= j
<1>. DEFINE T == {m \in Nat : n - m \in S}
<1>1. PICK s \in S : TRUE
  OBVIOUS
<1>2. n - s \in T
  BY <1>1
<1>3. PICK m \in T : \A k \in T : m <= k
  <2>. DEFINE R == OpToRel(<, Nat)
  <2>1. T \subseteq Nat /\ T # {}
    BY <1>2
  <2>2. IsWellFoundedOn(R, Nat)
    BY NatLessThanWellFounded
  <2>. HIDE DEF T, R
  <2>3. \E m \in T : \A k \in T : ~(<<k, m>> \in R)
    BY <2>1, <2>2, WFMin
  <2>4. \A k, m \in T : ~(<<k, m>> \in R) => m <= k
    BY <2>1 DEF R, OpToRel
  <2>. QED  BY <2>3, <2>4
<1>4. ASSUME NEW k \in S  PROVE k <= n - m
  <2>1. n - k \in T
    OBVIOUS
  <2>2. m <= n - k /\ m \in Nat
    BY <1>3, <2>1
  <2>. QED  BY <2>2
<1>. QED  BY <1>3, <1>4

-----------------------------------------------------------------------------
(* Actions                                                                  *)

\* Requests of operations Fine says nothing of.
LEMMA OtherBegins ==
  ASSUME AuthInv, NEW c \in Calls
  PROVE  /\ \A right \in BOOLEAN : Login(c, right) => AuthInv'
         /\ \A secret : TotpLogin(c, secret) => AuthInv'
         /\ \A op \in {"enable", "disable"} : \A secret :
              TotpChange(c, op, secret) => AuthInv'
<1>1. ASSUME NEW right \in BOOLEAN, Login(c, right)  PROVE AuthInv'
  <2>. DEFINE r == Request("login")
              step == IF right /\ account.active /\ ~account.enabled
                        THEN "insert" ELSE "refused"
  <2>1. Begin(c, r, step) /\ UNCHANGED Rows
    BY <1>1 DEF Login
  <2>2. DOMAIN r = CallFields /\ r.op = "login"
    BY DEF Request, CallFields
  <2>. HIDE DEF r, step
  <2>3. Fine([r EXCEPT !.step = step], sessions, challenges, now)
    BY <2>2, StepFields DEF Fine
  <2>. QED  BY <2>1, <2>2, <2>3, BeginStep
<1>2. ASSUME NEW secret, TotpLogin(c, secret)  PROVE AuthInv'
  <2>. DEFINE r == [Request("totpLogin") EXCEPT !.code = secret]
              step == IF account.enabled THEN "verify" ELSE "refused"
  <2>1. Begin(c, r, step) /\ UNCHANGED Rows
    BY <1>2 DEF TotpLogin
  <2>2. DOMAIN r = CallFields /\ r.op = "totpLogin"
    BY DEF Request, CallFields
  <2>. HIDE DEF r, step
  <2>3. Fine([r EXCEPT !.step = step], sessions, challenges, now)
    BY <2>2, StepFields DEF Fine
  <2>. QED  BY <2>1, <2>2, <2>3, BeginStep
<1>3. ASSUME NEW op \in {"enable", "disable"}, NEW secret, TotpChange(c, op, secret)
      PROVE  AuthInv'
  <2>. DEFINE r == [Request(op) EXCEPT !.code = secret]
              step == "verify"
  <2>1. Begin(c, r, step) /\ UNCHANGED Rows
    BY <1>3 DEF TotpChange
  <2>2. DOMAIN r = CallFields /\ r.op \in {"enable", "disable"}
    BY DEF Request, CallFields
  <2>. HIDE DEF r, step
  <2>3. Fine([r EXCEPT !.step = step], sessions, challenges, now)
    BY <2>2, StepFields DEF Fine
  <2>. QED  BY <2>1, <2>2, <2>3, BeginStep
<1>. QED  BY <1>1, <1>2, <1>3

\* The session is not revoked, so no refresh with it has been answered ok.
LEMMA RefreshBegins ==
  ASSUME AuthInv, NEW c \in Calls, NEW token \in DOMAIN sessions, Refresh(c, token)
  PROVE  AuthInv'
<1>. DEFINE row == sessions[token]
            r == [Request("refresh") EXCEPT !.on = token]
            step == IF ~row.revoked /\ row.expires > now /\ account.active
                      THEN "insert" ELSE "refused"
<1>1. Begin(c, r, step) /\ UNCHANGED Rows
  BY DEF Refresh
<1>2. /\ DOMAIN r = CallFields /\ r.op = "refresh" /\ r.on = token
      /\ r.before = Done("refresh") \ {0}
  BY DEF Request, CallFields
<1>3. ~sessions[token].revoked => token \notin Done("refresh")
  BY DoneFine
<1>4. step # "refused" => step = "insert" /\ ~sessions[token].revoked
  OBVIOUS
<1>. HIDE DEF r, step
<1>5. step # "refused" => Fine([r EXCEPT !.step = step], sessions, challenges, now)
  BY <1>2, <1>3, <1>4, StepFields DEF Fine, FineRefresh
<1>. QED  BY <1>1, <1>2, <1>5, BeginStep

\* The latest unused challenge is one of those there are.
LEMMA LatestExists ==
  ASSUME AuthInv, NEW kind, Unused(kind) # {}
  PROVE  /\ Latest(Unused(kind)) \in Unused(kind)
         /\ Latest(Unused(kind)) \in DOMAIN challenges
<1>1. Unused(kind) \subseteq 1..Len(challenges) /\ Unused(kind) \subseteq DOMAIN challenges
  BY DEF Unused, AuthInv, RowsTyped
<1>2. Len(challenges) \in Nat
  BY DEF AuthInv, RowsTyped
<1>3. \E j \in Unused(kind) : \A k \in Unused(kind) : k <= j
  BY <1>1, <1>2, HasGreatest
<1>. QED  BY <1>1, <1>3 DEF Latest

\* The challenge is not used, so no verification of it has been answered ok.
LEMMA VerifyBegins ==
  ASSUME AuthInv, NEW c \in Calls, NEW kind, NEW code, OtpVerify(c, kind, code)
  PROVE  AuthInv'
<1>1. CASE Unused(kind) = {} /\ Begin(c, Request("otpVerify"), "refused")
  <2>1. DOMAIN Request("otpVerify") = CallFields
    BY DEF Request, CallFields
  <2>. QED  BY <1>1, <2>1, BeginStep DEF OtpVerify
<1>2. CASE ~(Unused(kind) = {} /\ Begin(c, Request("otpVerify"), "refused"))
  <2>. DEFINE i == Latest(Unused(kind))
              row == challenges[i]
              open == row.attempts < MaxAttempts /\ row.created + OtpTtl >= now
              r == [Request("otpVerify") EXCEPT
                      !.on = i, !.code = code, !.read = row.attempts]
              step == CASE ~open -> "refused"
                        [] open /\ code = i -> "use"
                        [] open /\ code # i -> "count"
  <2>1. Unused(kind) # {} /\ Begin(c, r, step) /\ UNCHANGED Rows
    BY <1>2 DEF OtpVerify
  <2>2. i \in Unused(kind)
    BY <2>1, LatestExists
  <2>3. /\ DOMAIN r = CallFields /\ r.op = "otpVerify" /\ r.on = i
        /\ r.before = Done("otpVerify") \ {0}
    BY DEF Request, CallFields
  <2>4. i \in DOMAIN challenges /\ i \notin Done("otpVerify")
    BY <2>2, DoneFine DEF Unused
  <2>5. step \in {"refused", "use", "count"}
    OBVIOUS
  <2>. HIDE DEF r, step, i
  <2>6. Fine([r EXCEPT !.step = step], sessions, challenges, now)
    BY <2>3, <2>4, <2>5, StepFields DEF Fine, FineVerify
  <2>. QED  BY <2>1, <2>3, <2>6, BeginStep
<1>. QED  BY <1>1, <1>2

\* Outside the cool-down of every challenge that has been answered.
LEMMA RequestBegins ==
  ASSUME AuthInv, NEW c \in Calls, NEW kind \in Kinds, OtpRequest(c, kind)
  PROVE  AuthInv'
<1>. DEFINE r == [Request("otpRequest") EXCEPT !.kind = kind]
            step == IF ~InCooldown(kind) /\ kind \in Reachable THEN "insert"
                                                               ELSE "refused"
<1>1. Begin(c, r, step) /\ UNCHANGED Rows
  BY DEF OtpRequest
<1>2. /\ DOMAIN r = CallFields /\ r.op = "otpRequest" /\ r.on = 0
      /\ r.kind = kind /\ r.before = Done("otpRequest") \ {0}
  BY DEF Request, CallFields
<1>3. r.before \subseteq DOMAIN challenges
  BY <1>2, DoneFine
<1>4. step # "refused" =>
        step = "insert" /\ \A i \in DOMAIN challenges :
                              now > challenges[i].created + OtpCooldown
  <2>1. \A i \in DOMAIN challenges : challenges[i].created \in Nat
    BY RowFields DEF AuthInv
  <2>2. now \in Nat /\ OtpCooldown \in Nat
    BY AuthAssumption DEF AuthInv, RowsTyped
  <2>. QED  BY <2>1, <2>2 DEF InCooldown
<1>. HIDE DEF r, step
<1>5. step # "refused" => Fine([r EXCEPT !.step = step], sessions, challenges, now)
  BY <1>2, <1>3, <1>4, StepFields DEF Fine, FineRequest
<1>. QED  BY <1>1, <1>2, <1>5, BeginStep

\* A secret is replaced: no session and no challenge is.
LEMMA SetupBegins ==
  ASSUME AuthInv, NEW c \in Calls, TotpSetup(c)
  PROVE  AuthInv'
<1>. DEFINE r == Request("setup")
            q == [r EXCEPT !.step = "ok"]
<1>1. calls' = [calls EXCEPT ![c] = q] /\ calls[c] = Idle
  BY DEF TotpSetup, Begin
<1>2. DOMAIN r = CallFields /\ r.op = "setup"
  BY DEF Request, CallFields
<1>3. /\ now' = now /\ sessions' = sessions /\ challenges' = challenges
      /\ now \in Nat
  BY DEF TotpSetup, AuthInv, RowsTyped
<1>. HIDE DEF r
<1>4. DOMAIN q = CallFields /\ q.op = "setup"
  BY <1>2, StepFields
<1>. HIDE DEF q
<1>5. Fine(q, sessions', challenges', now')
  BY <1>4 DEF Fine
<1>6. CallsFine'
  <2>1. SessionsGrow(sessions, sessions') /\ ChallengesGrow(challenges, challenges')
    BY <1>3, GrowsTrivially
  <2>2. now' \in Nat /\ now =< now'
    BY <1>3
  <2>. QED  BY <1>1, <1>5, <2>1, <2>2, OneCall
<1>7. RowsTyped'
  BY <1>3 DEF AuthInv, RowsTyped
<1>8. RotatedIsRevoked'
  <2>1. \A d \in Calls : d # c => calls'[d] = calls[d]
    BY <1>1 DEF AuthInv, CallsFine
  <2>2. calls[c].op # "refresh"
    BY <1>1 DEF Idle
  <2>. QED  BY <2>1, <2>2, <1>3, RotatedStays
<1>. QED  BY <1>6, <1>7, <1>8 DEF AuthInv

\* Calls that go on and leave sessions and challenges as they are.
LEMMA RowsStay ==
  ASSUME AuthInv, NEW c \in Calls, NEW step, GoTo(c, step),
         calls[c] \notin {Idle, Refused},
         now' = now, sessions' = sessions, challenges' = challenges,
         calls[c].op \in {"refresh", "otpVerify"} => step # "ok",
         calls[c].op = "otpRequest" => step # "insert",
         calls[c].op = "refresh" /\ calls[c].step \in {"revoke", "lost"} =>
           step \in {"revoke", "lost"}
  PROVE  AuthInv'
<1>1. RowsTyped'
  BY DEF AuthInv, RowsTyped
<1>2. SessionsGrow(sessions, sessions') /\ ChallengesGrow(challenges, challenges')
  BY GrowsTrivially
<1>3. CallsFine' /\ \A d \in Calls : /\ calls'[d].op = calls[d].op
                                    /\ calls'[d].on = calls[d].on
                                    /\ calls'[d].step =
                                         IF d = c THEN step ELSE calls[d].step
  BY <1>1, <1>2, GoToStep
<1>4. RotatedIsRevoked'
  BY <1>3, RotatedStays
<1>. QED  BY <1>1, <1>3, <1>4 DEF AuthInv

\* Steps that only take a call further: a TOTP code compared, columns of the
\* account updated, a code sent, a call lost.
LEMMA GoesOn ==
  ASSUME AuthInv, NEW c \in Calls
  PROVE  /\ TotpVerify(c) => AuthInv'
         /\ TotpUpdate(c) => AuthInv'
         /\ OtpSend(c) => AuthInv'
         /\ CallLost(c) => AuthInv'
<1>1. ASSUME TotpVerify(c)  PROVE AuthInv'
  <2>. DEFINE step == CASE ~RightCode(c) -> "refused"
                        [] RightCode(c) /\ calls[c].op = "totpLogin" -> "insert"
                        [] RightCode(c) /\ calls[c].op # "totpLogin" -> "update"
  <2>1. /\ calls[c].op \in {"totpLogin", "enable", "disable"}
        /\ calls[c] \notin {Idle, Refused}
    BY <1>1 DEF TotpVerify, At, Idle, Refused
  <2>2. GoTo(c, step) /\ now' = now /\ sessions' = sessions /\ challenges' = challenges
    BY <1>1 DEF TotpVerify, Rows
  <2>3. step # "ok"
    OBVIOUS
  <2>. HIDE DEF step
  <2>. QED  BY <2>1, <2>2, <2>3, RowsStay
<1>2. ASSUME TotpUpdate(c)  PROVE AuthInv'
  <2>1. /\ calls[c].op \in {"enable", "disable"}
        /\ calls[c] \notin {Idle, Refused}
    BY <1>2 DEF TotpUpdate, At, Idle, Refused
  <2>2. GoTo(c, "ok") /\ now' = now /\ sessions' = sessions /\ challenges' = challenges
    BY <1>2 DEF TotpUpdate
  <2>. QED  BY <2>1, <2>2, RowsStay
<1>3. ASSUME OtpSend(c)  PROVE AuthInv'
  <2>1. /\ calls[c].op = "otpRequest"
        /\ calls[c] \notin {Idle, Refused}
    BY <1>3 DEF OtpSend, At, Idle, Refused
  <2>2. PICK answer \in {"ok", "refused"} : GoTo(c, answer)
    BY <1>3 DEF OtpSend, SendAnswers
  <2>3. now' = now /\ sessions' = sessions /\ challenges' = challenges
    BY <1>3 DEF OtpSend, Rows
  <2>. QED  BY <2>1, <2>2, <2>3, RowsStay
<1>4. ASSUME CallLost(c)  PROVE AuthInv'
  <2>1. calls[c] \notin {Idle, Refused}
    BY <1>4 DEF CallLost, Idle, Refused
  <2>2. GoTo(c, "lost") /\ now' = now /\ sessions' = sessions /\ challenges' = challenges
    BY <1>4 DEF CallLost, Rows
  <2>. QED  BY <2>1, <2>2, RowsStay
<1>. QED  BY <1>1, <1>2, <1>3, <1>4

\* An update of one row of a table.
LEMMA RowReplaced ==
  ASSUME NEW S, NEW ss \in Seq(S), NEW k \in DOMAIN ss, NEW x \in S
  PROVE  LET ss2 == [ss EXCEPT ![k] = x] IN
         /\ ss2 \in Seq(S) /\ DOMAIN ss2 = DOMAIN ss
         /\ \A i \in DOMAIN ss : ss2[i] = IF i = k THEN x ELSE ss[i]
OBVIOUS

\* The row of a refresh names the session that was rotated, which the call has
\* yet to revoke.
LEMMA SessionInserts ==
  ASSUME AuthInv, NEW c \in Calls, SessionInsert(c)
  PROVE  AuthInv'
<1>. DEFINE row == SessionRow(c)
            step == IF calls[c].op = "refresh" THEN "revoke" ELSE "ok"
<1>1. /\ calls[c].op \in {"login", "totpLogin", "refresh"}
      /\ calls[c].step = "insert" /\ calls[c] \notin {Idle, Refused}
  BY DEF SessionInsert, At, Idle, Refused
<1>2. /\ sessions' = Append(sessions, row) /\ GoTo(c, step)
      /\ now' = now /\ challenges' = challenges
  BY DEF SessionInsert
<1>3. calls[c].op = "refresh" => calls[c].on \in DOMAIN sessions
  BY <1>1 DEF AuthInv, CallsFine, Fine, FineRefresh
<1>4. /\ row.parent \in DOMAIN sessions \union {0} /\ row \in Session
      /\ row.parent # 0 => calls[c].op = "refresh" /\ calls[c].on = row.parent
  <2>1. now + SessionTtl \in Nat
    BY AuthAssumption DEF AuthInv, RowsTyped
  <2>2. DOMAIN sessions \subseteq Nat
    BY DEF AuthInv, RowsTyped
  <2>. QED  BY <1>3, <2>1, <2>2 DEF SessionRow, Session
<1>. HIDE DEF row
<1>5. /\ sessions' \in Seq(Session)
      /\ DOMAIN sessions' = 1..(Len(sessions) + 1) /\ DOMAIN sessions = 1..Len(sessions)
      /\ Len(sessions) \in Nat
      /\ \A s \in DOMAIN sessions : sessions'[s] = sessions[s]
      /\ sessions'[Len(sessions) + 1] = row
  BY <1>2, <1>4 DEF AuthInv, RowsTyped
<1>6. RowsTyped'
  BY <1>2, <1>4, <1>5 DEF AuthInv, RowsTyped
<1>7. SessionsGrow(sessions, sessions') /\ ChallengesGrow(challenges, challenges')
  BY <1>2, <1>5, GrowsTrivially DEF SessionsGrow
<1>8. CallsFine' /\ \A d \in Calls : /\ calls'[d].op = calls[d].op
                                    /\ calls'[d].on = calls[d].on
                                    /\ calls'[d].step =
                                         IF d = c THEN step ELSE calls[d].step
  BY <1>1, <1>2, <1>6, <1>7, GoToStep
<1>9. RotatedIsRevoked'
  <2>1. ASSUME NEW s \in DOMAIN sessions, sessions[s].parent # 0
        PROVE  \/ sessions'[sessions[s].parent].revoked
               \/ \E d \in Calls : /\ calls'[d].op = "refresh"
                                   /\ calls'[d].on = sessions[s].parent
                                   /\ calls'[d].step \in {"revoke", "lost"}
    <3>. DEFINE p == sessions[s].parent
    <3>1. CASE sessions[p].revoked
      <4>1. p \in DOMAIN sessions
        BY <2>1 DEF AuthInv, RowsTyped
      <4>. QED  BY <3>1, <4>1, <1>5
    <3>2. CASE \E d \in Calls : /\ calls[d].op = "refresh" /\ calls[d].on = p
                                /\ calls[d].step \in {"revoke", "lost"}
      BY <3>2, <1>1, <1>8
    <3>. QED  BY <2>1, <3>1, <3>2 DEF AuthInv, RotatedIsRevoked
  <2>2. ASSUME row.parent # 0
        PROVE  /\ calls'[c].op = "refresh" /\ calls'[c].on = row.parent
               /\ calls'[c].step \in {"revoke", "lost"}
    BY <2>2, <1>4, <1>8
  <2>3. \A s \in DOMAIN sessions' : s \in DOMAIN sessions \/ s = Len(sessions) + 1
    BY <1>5
  <2>. QED  BY <2>1, <2>2, <2>3, <1>5 DEF RotatedIsRevoked
<1>. QED  BY <1>6, <1>8, <1>9 DEF AuthInv

\* The last step of refresh: the old session is revoked.
LEMMA SessionRevoked ==
  ASSUME AuthInv, NEW c \in Calls, RefreshRevoke(c)
  PROVE  AuthInv'
<1>. DEFINE k == calls[c].on
<1>1. calls[c].op = "refresh" /\ calls[c] \notin {Idle, Refused}
  BY DEF RefreshRevoke, At, Idle, Refused
<1>2. /\ sessions' = [sessions EXCEPT ![k].revoked = TRUE] /\ GoTo(c, "ok")
      /\ now' = now /\ challenges' = challenges
  BY DEF RefreshRevoke
<1>3. k \in DOMAIN sessions
  BY <1>1 DEF AuthInv, CallsFine, Fine, FineRefresh
<1>4. /\ sessions[k] \in Session /\ sessions \in Seq(Session)
  BY <1>3, RowFields DEF AuthInv, RowsTyped
<1>5. /\ sessions' \in Seq(Session) /\ DOMAIN sessions' = DOMAIN sessions
      /\ sessions'[k].revoked
      /\ \A s \in DOMAIN sessions : /\ sessions'[s].parent = sessions[s].parent
                                    /\ sessions[s].revoked => sessions'[s].revoked
  <2>1. [sessions[k] EXCEPT !.revoked = TRUE] \in Session
    BY <1>4 DEF Session
  <2>2. /\ [sessions[k] EXCEPT !.revoked = TRUE].parent = sessions[k].parent
        /\ [sessions[k] EXCEPT !.revoked = TRUE].revoked
    BY <1>4 DEF Session
  <2>3. sessions' = [sessions EXCEPT ![k] = [sessions[k] EXCEPT !.revoked = TRUE]]
    BY <1>2, <1>3
  <2>. DEFINE row == [sessions[k] EXCEPT !.revoked = TRUE]
  <2>. HIDE DEF row
  <2>4. /\ sessions' \in Seq(Session) /\ DOMAIN sessions' = DOMAIN sessions
        /\ \A s \in DOMAIN sessions :
             sessions'[s] = IF s = k THEN row ELSE sessions[s]
    BY <1>3, <1>4, <2>1, <2>3, RowReplaced DEF row
  <2>. QED  BY <1>3, <2>2, <2>4 DEF row
<1>6. RowsTyped'
  BY <1>2, <1>5 DEF AuthInv, RowsTyped
<1>7. SessionsGrow(sessions, sessions') /\ ChallengesGrow(challenges, challenges')
  BY <1>2, <1>5, GrowsTrivially DEF SessionsGrow
<1>8. CallsFine' /\ \A d \in Calls : /\ calls'[d].op = calls[d].op
                                    /\ calls'[d].on = calls[d].on
                                    /\ calls'[d].step =
                                         IF d = c THEN "ok" ELSE calls[d].step
  BY <1>1, <1>2, <1>5, <1>6, <1>7, GoToStep
<1>9. RotatedIsRevoked'
  <2>1. ASSUME NEW s \in DOMAIN sessions, sessions[s].parent # 0
        PROVE  \/ sessions'[sessions[s].parent].revoked
               \/ \E d \in Calls : /\ calls'[d].op = "refresh"
                                   /\ calls'[d].on = sessions[s].parent
                                   /\ calls'[d].step \in {"revoke", "lost"}
    <3>. DEFINE p == sessions[s].parent
    <3>1. CASE p = k
      BY <3>1, <1>5
    <3>2. CASE sessions[p].revoked
      <4>1. p \in DOMAIN sessions
        BY <2>1 DEF AuthInv, RowsTyped
      <4>. QED  BY <3>2, <4>1, <1>5
    <3>3. CASE p # k /\ \E d \in Calls : /\ calls[d].op = "refresh"
                                         /\ calls[d].on = p
                                         /\ calls[d].step \in {"revoke", "lost"}
      BY <3>3, <1>8
    <3>. QED  BY <2>1, <3>1, <3>2, <3>3 DEF AuthInv, RotatedIsRevoked
  <2>. QED  BY <2>1, <1>5 DEF RotatedIsRevoked
<1>. QED  BY <1>6, <1>8, <1>9 DEF AuthInv

\* A challenge is created outside the cool-down of those the call had found.
LEMMA ChallengeInserts ==
  ASSUME AuthInv, NEW c \in Calls, OtpInsert(c)
  PROVE  AuthInv'
<1>. DEFINE r == calls[c]
            n == Len(challenges) + 1
            row == [kind |-> r.kind, created |-> now, attempts |-> 0, used |-> FALSE]
            q == [r EXCEPT !.on = n, !.step = "send"]
<1>1. r.op = "otpRequest" /\ r.step = "insert" /\ r \notin {Idle, Refused}
  BY DEF OtpInsert, At, Idle, Refused
<1>2. /\ challenges' = Append(challenges, row)
      /\ now' = now /\ sessions' = sessions /\ now \in Nat
  BY DEF OtpInsert, AuthInv, RowsTyped
<1>3. calls' = [calls EXCEPT ![c] = q]
  BY DEF OtpInsert
<1>4. DOMAIN r = CallFields /\ FineRequest(r, challenges, now)
  BY <1>1 DEF AuthInv, CallsFine, Fine
<1>5. /\ DOMAIN q = CallFields /\ q.op = "otpRequest" /\ q.on = n
      /\ q.step = "send" /\ q.before = r.before /\ q.kind = r.kind
  BY <1>1, <1>4 DEF CallFields
<1>6. row \in Challenge /\ row.created = now
  BY <1>2, <1>4 DEF Challenge, FineRequest
<1>. HIDE DEF row, q
<1>7. /\ challenges' \in Seq(Challenge) /\ n \in DOMAIN challenges'
      /\ DOMAIN challenges \subseteq DOMAIN challenges'
      /\ \A i \in DOMAIN challenges : challenges'[i] = challenges[i]
      /\ challenges'[n] = row /\ n # 0
  BY <1>2, <1>6 DEF AuthInv, RowsTyped
<1>8. SessionsGrow(sessions, sessions') /\ ChallengesGrow(challenges, challenges')
  BY <1>2, <1>7, GrowsTrivially DEF ChallengesGrow
<1>9. FineRequest(q, challenges', now')
  BY <1>1, <1>4, <1>5, <1>6, <1>7 DEF FineRequest
<1>10. Fine(q, sessions', challenges', now')
  BY <1>5, <1>9 DEF Fine
<1>11. CallsFine'
  <2>1. now' \in Nat /\ now =< now'
    BY <1>2
  <2>. QED  BY <1>3, <1>8, <1>10, <2>1, OneCall
<1>12. RowsTyped'
  BY <1>2, <1>7 DEF AuthInv, RowsTyped
<1>13. RotatedIsRevoked'
  <2>1. \A d \in Calls : d # c => calls'[d] = calls[d]
    BY <1>3 DEF AuthInv, CallsFine
  <2>. QED  BY <1>1, <1>2, <2>1, RotatedStays
<1>. QED  BY <1>11, <1>12, <1>13 DEF AuthInv

\* A challenge that is counted or used up.
LEMMA ChallengeUpdates ==
  ASSUME AuthInv, NEW c \in Calls
  PROVE  /\ OtpCount(c) => AuthInv'
         /\ OtpUse(c) => AuthInv'
<1>. DEFINE k == calls[c].on
<1>1. ASSUME At(c, {"otpVerify"}, "count") \/ At(c, {"otpVerify"}, "use")
      PROVE  /\ calls[c].op = "otpVerify" /\ calls[c] \notin {Idle, Refused}
             /\ k \in DOMAIN challenges /\ challenges[k] \in Challenge
  <2>1. calls[c].op = "otpVerify" /\ calls[c] \notin {Idle, Refused}
    BY <1>1 DEF At, Idle, Refused
  <2>2. k \in DOMAIN challenges
    BY <2>1 DEF AuthInv, CallsFine, Fine, FineVerify
  <2>. QED  BY <2>1, <2>2, RowFields DEF AuthInv
<1>2. ASSUME NEW row \in Challenge, NEW step,
             calls[c].op = "otpVerify", calls[c] \notin {Idle, Refused},
             k \in DOMAIN challenges, row.created = challenges[k].created,
             challenges[k].used => row.used, step = "ok" => row.used,
             challenges' = [challenges EXCEPT ![k] = row], GoTo(c, step),
             now' = now, sessions' = sessions
      PROVE  AuthInv'
  <2>1. /\ challenges' \in Seq(Challenge) /\ DOMAIN challenges' = DOMAIN challenges
        /\ \A i \in DOMAIN challenges :
             challenges'[i] = IF i = k THEN row ELSE challenges[i]
    BY <1>2, RowReplaced DEF AuthInv, RowsTyped
  <2>2. RowsTyped'
    BY <1>2, <2>1 DEF AuthInv, RowsTyped
  <2>3. SessionsGrow(sessions, sessions') /\ ChallengesGrow(challenges, challenges')
    BY <1>2, <2>1, GrowsTrivially DEF ChallengesGrow
  <2>4. CallsFine' /\ \A d \in Calls : /\ calls'[d].op = calls[d].op
                                      /\ calls'[d].on = calls[d].on
                                      /\ calls'[d].step =
                                           IF d = c THEN step ELSE calls[d].step
    BY <1>2, <2>1, <2>2, <2>3, GoToStep
  <2>5. RotatedIsRevoked'
    BY <1>2, <2>4, RotatedStays
  <2>. QED  BY <2>2, <2>4, <2>5 DEF AuthInv
<1>3. ASSUME OtpCount(c)  PROVE AuthInv'
  <2>. DEFINE row == [challenges[k] EXCEPT !.attempts = @ + 1]
  <2>1. At(c, {"otpVerify"}, "count")
    BY <1>3 DEF OtpCount
  <2>2. /\ challenges' = [challenges EXCEPT ![k] = row] /\ GoTo(c, "missed")
        /\ now' = now /\ sessions' = sessions
    BY <1>3 DEF OtpCount
  <2>3. /\ row \in Challenge /\ row.created = challenges[k].created
        /\ row.used = challenges[k].used
    BY <1>1, <2>1 DEF Challenge
  <2>. HIDE DEF row
  <2>. QED  BY <1>1, <1>2, <2>1, <2>2, <2>3
<1>4. ASSUME OtpUse(c)  PROVE AuthInv'
  <2>. DEFINE row == [challenges[k] EXCEPT !.used = TRUE]
  <2>1. At(c, {"otpVerify"}, "use")
    BY <1>4 DEF OtpUse
  <2>2. /\ challenges' = [challenges EXCEPT ![k] = row] /\ GoTo(c, "ok")
        /\ now' = now /\ sessions' = sessions
    BY <1>4 DEF OtpUse
  <2>3. row \in Challenge /\ row.created = challenges[k].created /\ row.used
    BY <1>1, <2>1 DEF Challenge
  <2>. HIDE DEF row
  <2>. QED  BY <1>1, <1>2, <2>1, <2>2, <2>3
<1>. QED  BY <1>3, <1>4

\* Time goes on, and the member may withdraw.
LEMMA Meanwhile ==
  ASSUME AuthInv, Tick \/ Withdraw \/ UNCHANGED vars
  PROVE  AuthInv'
<1>1. /\ sessions' = sessions /\ challenges' = challenges /\ calls' = calls
      /\ now' \in Nat /\ now =< now' /\ now \in Nat
  BY DEF Tick, Withdraw, vars, AuthInv, RowsTyped
<1>2. RowsTyped'
  BY <1>1 DEF AuthInv, RowsTyped
<1>3. \A d \in Calls : Fine(calls[d], sessions, challenges, now')
  <2>1. \A i \in DOMAIN challenges : challenges[i].created \in Nat
    BY RowFields DEF AuthInv
  <2>2. SessionsGrow(sessions, sessions) /\ ChallengesGrow(challenges, challenges)
    BY GrowsTrivially
  <2>. QED  BY <1>1, <2>1, <2>2, FineGrows DEF AuthInv, CallsFine
<1>4. CallsFine'
  BY <1>1, <1>3 DEF AuthInv, CallsFine
<1>5. RotatedIsRevoked'
  BY <1>1 DEF AuthInv, RotatedIsRevoked
<1>. QED  BY <1>2, <1>4, <1>5 DEF AuthInv

\* Nothing has been called yet.
LEMMA InitAuth ==
  ASSUME Init
  PROVE  AuthInv
<1>1. RowsTyped
  BY AuthAssumption DEF Init, RowsTyped, Session
<1>2. CallsFine
  BY DEF Init, CallsFine, Fine
<1>3. RotatedIsRevoked
  BY DEF Init, RotatedIsRevoked
<1>. QED  BY <1>1, <1>2, <1>3 DEF AuthInv

\* Every step of a call, and the clock, keeps the invariant.
LEMMA NextAuth ==
  ASSUME AuthInv, [Next]_vars
  PROVE  AuthInv'
<1>1. CASE Tick \/ Withdraw \/ UNCHANGED vars
  BY <1>1, Meanwhile
<1>2. ASSUME NEW c \in Calls, Arrive(c)  PROVE AuthInv'
  <2>1. ASSUME NEW right \in BOOLEAN, Login(c, right)  PROVE AuthInv'
    BY <2>1, OtherBegins
  <2>2. ASSUME NEW token \in DOMAIN sessions, Refresh(c, token)  PROVE AuthInv'
    BY <2>2, RefreshBegins
  <2>3. ASSUME TotpSetup(c)  PROVE AuthInv'
    BY <2>3, SetupBegins
  <2>4. ASSUME NEW secret \in 0..account.made,
               \/ TotpLogin(c, secret)
               \/ \E op \in {"enable", "disable"} : TotpChange(c, op, secret)
        PROVE  AuthInv'
    BY <2>4, OtherBegins
  <2>5. ASSUME NEW kind \in Kinds, OtpRequest(c, kind)  PROVE AuthInv'
    BY <2>5, RequestBegins
  <2>6. ASSUME NEW kind \in Kinds, NEW code \in 0..Len(challenges),
               OtpVerify(c, kind, code)
        PROVE  AuthInv'
    BY <2>6, VerifyBegins
  <2>. QED  BY <1>2, <2>1, <2>2, <2>3, <2>4, <2>5, <2>6 DEF Arrive
<1>3. ASSUME NEW c \in Calls, Proceed(c)  PROVE AuthInv'
  <2>1. CASE SessionInsert(c)
    BY <2>1, SessionInserts
  <2>2. CASE RefreshRevoke(c)
    BY <2>2, SessionRevoked
  <2>3. CASE TotpVerify(c) \/ TotpUpdate(c) \/ OtpSend(c)
    BY <2>3, GoesOn
  <2>4. CASE OtpInsert(c)
    BY <2>4, ChallengeInserts
  <2>5. CASE OtpCount(c) \/ OtpUse(c)
    BY <2>5, ChallengeUpdates
  <2>. QED  BY <1>3, <2>1, <2>2, <2>3, <2>4, <2>5 DEF Proceed
<1>4. ASSUME NEW c \in Calls, CallLost(c)  PROVE AuthInv'
  BY <1>4, GoesOn
<1>. QED  BY <1>1, <1>2, <1>3, <1>4 DEF Next

-----------------------------------------------------------------------------
(* Types                                                                    *)

Steps == {"verify", "insert", "revoke", "update", "count", "use", "send", "ok",
          "refused", "missed", "lost"}

CallsTyped == calls \in [Calls -> Call \cup {Idle, Refused}]

OtherTyped == now \in 0..LastTick /\ account \in Account /\ CallsTyped

\* A record of a call with one field replaced is one.
LEMMA CallReplaced ==
  ASSUME NEW r \in Call
  PROVE  /\ \A n \in Nat : /\ [r EXCEPT !.on = n] \in Call
                           /\ [r EXCEPT !.code = n] \in Call
                           /\ [r EXCEPT !.read = n] \in Call
         /\ \A k \in Kinds : [r EXCEPT !.kind = k] \in Call
         /\ \A step \in Steps : /\ [r EXCEPT !.step = step] \in Call
                                /\ [r EXCEPT !.step = step].step = step
                                /\ [r EXCEPT !.step = step].op = r.op
                                /\ [r EXCEPT !.step = step].on = r.on
BY DEF Call, Steps

\* What a request is read in as.
LEMMA RequestTyped ==
  ASSUME CallsTyped, NEW op \in Operations
  PROVE  Request(op) \in Call
<1>1. AnyKind \in Kinds
  BY AuthAssumption DEF AnyKind
<1>2. Done(op) \subseteq Nat
  BY DEF Done, CallsTyped, Call, At, Idle, Refused
<1>. QED  BY <1>1, <1>2 DEF Request, Call

\* How a step changes the calls: one call at most, which had not been answered
\* yet, and only the statement that counts a miss answers it as one.
CallMoves(c, q) ==
  /\ q \in Call \cup {Refused}
  /\ calls' = [calls EXCEPT ![c] = q]
  /\ calls[c].step # "missed"
  /\ q.step = "missed" => OtpCount(c)

\* A request that is read in.
LEMMA BeginMoves ==
  ASSUME NEW c \in Calls, NEW r, NEW step \in Steps \ {"missed"},
         Begin(c, r, step), r \in Call
  PROVE  \E q : CallMoves(c, q)
<1>. DEFINE q == IF step = "refused" THEN Refused ELSE [r EXCEPT !.step = step]
<1>1. q \in Call \cup {Refused} /\ q.step # "missed"
  BY CallReplaced DEF Refused
<1>2. calls' = [calls EXCEPT ![c] = q] /\ calls[c].step # "missed"
  BY DEF Begin, Idle
<1>. HIDE DEF q
<1>. QED  BY <1>1, <1>2 DEF CallMoves

\* A call that goes on.
LEMMA GoToMoves ==
  ASSUME CallsTyped, NEW c \in Calls, NEW step \in Steps, GoTo(c, step),
         calls[c].step \notin {"idle", "refused", "missed"},
         step = "missed" => OtpCount(c)
  PROVE  \E q : CallMoves(c, q)
<1>. DEFINE q == [calls[c] EXCEPT !.step = step]
<1>1. calls[c] \in Call
  BY DEF CallsTyped, Idle, Refused
<1>2. q \in Call /\ q.step = step
  BY <1>1, CallReplaced
<1>3. calls' = [calls EXCEPT ![c] = q]
  BY DEF GoTo
<1>. HIDE DEF q
<1>. QED  BY <1>2, <1>3 DEF CallMoves

\* Every request is read in with typed fields.
LEMMA ArriveMoves ==
  ASSUME AuthInv, OtherTyped, NEW c \in Calls, Arrive(c)
  PROVE  \E q : CallMoves(c, q)
<1>. USE DEF OtherTyped
<1>1. ASSUME NEW r, NEW step, Begin(c, r, step)
      PROVE  r.op \in Operations
  BY <1>1 DEF Begin
<1>2. ASSUME NEW right \in BOOLEAN, Login(c, right)
      PROVE  \E q : CallMoves(c, q)
  <2>1. PICK step \in {"insert", "refused"} : Begin(c, Request("login"), step)
    BY <1>2 DEF Login
  <2>2. "login" \in Operations
    BY <1>1, <2>1 DEF Request
  <2>. QED  BY <2>1, <2>2, RequestTyped, BeginMoves DEF Steps
<1>3. ASSUME NEW token \in DOMAIN sessions, Refresh(c, token)
      PROVE  \E q : CallMoves(c, q)
  <2>. DEFINE r == [Request("refresh") EXCEPT !.on = token]
  <2>1. PICK step \in {"insert", "refused"} : Begin(c, r, step)
    BY <1>3 DEF Refresh
  <2>2. r.op = "refresh"
    BY DEF Request
  <2>3. Request("refresh") \in Call
    BY <1>1, <2>1, <2>2, RequestTyped
  <2>4. token \in Nat
    BY DEF AuthInv, RowsTyped
  <2>5. r \in Call
    BY <2>3, <2>4, CallReplaced
  <2>. HIDE DEF r
  <2>. QED  BY <2>1, <2>5, BeginMoves DEF Steps
<1>4. ASSUME TotpSetup(c)
      PROVE  \E q : CallMoves(c, q)
  <2>1. Begin(c, Request("setup"), "ok")
    BY <1>4 DEF TotpSetup
  <2>2. "setup" \in Operations
    BY <1>1, <2>1 DEF Request
  <2>. QED  BY <2>1, <2>2, RequestTyped, BeginMoves DEF Steps
<1>5. ASSUME NEW secret \in 0..account.made, TotpLogin(c, secret)
      PROVE  \E q : CallMoves(c, q)
  <2>. DEFINE r == [Request("totpLogin") EXCEPT !.code = secret]
  <2>1. PICK step \in {"verify", "refused"} : Begin(c, r, step)
    BY <1>5 DEF TotpLogin
  <2>2. r.op = "totpLogin" /\ secret \in Nat
    BY DEF Request, Account
  <2>3. Request("totpLogin") \in Call
    BY <1>1, <2>1, <2>2, RequestTyped
  <2>4. r \in Call
    BY <2>2, <2>3, CallReplaced
  <2>. HIDE DEF r
  <2>. QED  BY <2>1, <2>4, BeginMoves DEF Steps
<1>6. ASSUME NEW secret \in 0..account.made, NEW op \in {"enable", "disable"},
             TotpChange(c, op, secret)
      PROVE  \E q : CallMoves(c, q)
  <2>. DEFINE r == [Request(op) EXCEPT !.code = secret]
  <2>1. Begin(c, r, "verify")
    BY <1>6 DEF TotpChange
  <2>2. r.op = op /\ secret \in Nat
    BY DEF Request, Account
  <2>3. Request(op) \in Call
    BY <1>1, <2>1, <2>2, RequestTyped
  <2>4. r \in Call
    BY <2>2, <2>3, CallReplaced
  <2>. HIDE DEF r
  <2>. QED  BY <2>1, <2>4, BeginMoves DEF Steps
<1>7. ASSUME NEW kind \in Kinds, OtpRequest(c, kind)
      PROVE  \E q : CallMoves(c, q)
  <2>. DEFINE r == [Request("otpRequest") EXCEPT !.kind = kind]
  <2>1. PICK step \in {"insert", "refused"} : Begin(c, r, step)
    BY <1>7 DEF OtpRequest
  <2>2. r.op = "otpRequest"
    BY DEF Request
  <2>3. Request("otpRequest") \in Call
    BY <1>1, <2>1, <2>2, RequestTyped
  <2>4. r \in Call
    BY <2>3, CallReplaced
  <2>. HIDE DEF r
  <2>. QED  BY <2>1, <2>4, BeginMoves DEF Steps
<1>8. ASSUME NEW kind \in Kinds, NEW code \in 0..Len(challenges),
             OtpVerify(c, kind, code)
      PROVE  \E q : CallMoves(c, q)
  <2>1. CASE Unused(kind) = {} /\ Begin(c, Request("otpVerify"), "refused")
    <3>1. "otpVerify" \in Operations
      BY <1>1, <2>1 DEF Request
    <3>. QED  BY <2>1, <3>1, RequestTyped, BeginMoves DEF Steps
  <2>2. CASE ~(Unused(kind) = {} /\ Begin(c, Request("otpVerify"), "refused"))
    <3>. DEFINE i == Latest(Unused(kind))
                row == challenges[i]
                open == row.attempts < MaxAttempts /\ row.created + OtpTtl >= now
                w == Request("otpVerify")
                w1 == [w EXCEPT !.on = i]
                w2 == [w1 EXCEPT !.code = code]
                r == [w2 EXCEPT !.read = row.attempts]
                step == CASE ~open -> "refused"
                          [] open /\ code = i -> "use"
                          [] open /\ code # i -> "count"
    <3>1. Unused(kind) # {} /\ Begin(c, r, step)
      BY <1>8, <2>2 DEF OtpVerify
    <3>2. i \in DOMAIN challenges
      BY <3>1, LatestExists
    <3>4. step \in {"refused", "use", "count"}
      OBVIOUS
    <3>5. r.op = "otpVerify"
      BY DEF Request
    <3>. HIDE DEF step, i
    <3>3. i \in Nat /\ row.attempts \in Nat /\ code \in Nat
      <4>1. row \in Challenge
        BY <3>2, RowFields DEF AuthInv
      <4>2. i \in Nat
        BY <3>2 DEF AuthInv, RowsTyped
      <4>. QED  BY <4>1, <4>2 DEF Challenge
    <3>. HIDE DEF row
    <3>6. w \in Call
      BY <1>1, <3>1, <3>5, RequestTyped
    <3>. HIDE DEF w
    <3>7. w1 \in Call
      BY <3>3, <3>6, CallReplaced
    <3>. HIDE DEF w1
    <3>8. w2 \in Call
      BY <3>3, <3>7, CallReplaced
    <3>. HIDE DEF w2
    <3>9. r \in Call
      BY <3>3, <3>8, CallReplaced
    <3>. HIDE DEF r
    <3>. QED  BY <3>1, <3>4, <3>9, BeginMoves DEF Steps
  <2>. QED  BY <2>1, <2>2
<1>. QED  BY <1>2, <1>3, <1>4, <1>5, <1>6, <1>7, <1>8 DEF Arrive

\* Every step moves one call at most.
LEMMA CallsMove ==
  ASSUME AuthInv, OtherTyped, [Next]_vars
  PROVE  calls' = calls \/ \E c \in Calls : \E q : CallMoves(c, q)
<1>. USE DEF OtherTyped
<1>1. CASE Tick \/ Withdraw \/ UNCHANGED vars
  BY <1>1 DEF Tick, Withdraw, vars
<1>2. ASSUME NEW c \in Calls, Arrive(c)
      PROVE  \E q : CallMoves(c, q)
  BY <1>2, ArriveMoves
<1>3. ASSUME NEW c \in Calls, OtpInsert(c)
      PROVE  \E q : CallMoves(c, q)
  <2>. DEFINE n == Len(challenges) + 1
              w1 == [calls[c] EXCEPT !.on = n]
              w2 == [w1 EXCEPT !.step = "send"]
  <2>1. calls[c] \in Call /\ calls[c].step # "missed"
    BY <1>3 DEF OtpInsert, At, CallsTyped, Idle, Refused
  <2>2. n \in Nat
    BY DEF AuthInv, RowsTyped
  <2>3. calls' = [calls EXCEPT ![c] = w2]
    BY <1>3 DEF OtpInsert
  <2>. HIDE DEF n
  <2>4. w1 \in Call
    BY <2>1, <2>2, CallReplaced
  <2>. HIDE DEF w1
  <2>5. w2 \in Call /\ w2.step = "send"
    BY <2>4, CallReplaced DEF Steps
  <2>. HIDE DEF w2
  <2>. QED  BY <2>1, <2>3, <2>5 DEF CallMoves
<1>4. ASSUME NEW c \in Calls, Proceed(c) \/ CallLost(c), ~OtpInsert(c)
      PROVE  \E q : CallMoves(c, q)
  <2>1. PICK step \in Steps : GoTo(c, step) /\ (step = "missed" => OtpCount(c))
    <3>1. CASE TotpVerify(c)
      BY <3>1 DEF TotpVerify, Steps
    <3>2. CASE SessionInsert(c)
      BY <3>2 DEF SessionInsert, Steps
    <3>3. CASE OtpSend(c)
      BY <3>3 DEF OtpSend, SendAnswers, Steps
    <3>4. CASE RefreshRevoke(c) \/ TotpUpdate(c) \/ OtpUse(c)
      BY <3>4 DEF RefreshRevoke, TotpUpdate, OtpUse, Steps
    <3>5. CASE OtpCount(c)
      BY <3>5 DEF OtpCount, Steps
    <3>6. CASE CallLost(c)
      BY <3>6 DEF CallLost, Steps
    <3>. QED  BY <1>4, <3>1, <3>2, <3>3, <3>4, <3>5, <3>6 DEF Proceed
  <2>2. calls[c].step \notin {"idle", "refused", "missed"}
    BY <1>4 DEF Proceed, TotpVerify, SessionInsert, OtpSend, RefreshRevoke,
       TotpUpdate, OtpUse, OtpCount, CallLost, At
  <2>. QED  BY <2>1, <2>2, GoToMoves
<1>. QED  BY <1>1, <1>2, <1>3, <1>4 DEF Next

\* The clock, the member's row and the calls keep their types.
LEMMA TypesStep ==
  ASSUME AuthInv, OtherTyped, [Next]_vars
  PROVE  OtherTyped'
<1>1. CallsTyped'
  <2>1. CASE calls' = calls
    BY <2>1 DEF OtherTyped, CallsTyped
  <2>2. ASSUME NEW c \in Calls, NEW q, CallMoves(c, q)
        PROVE  CallsTyped'
    BY <2>2 DEF OtherTyped, CallsTyped, CallMoves
  <2>. QED  BY <2>1, <2>2, CallsMove
<1>2. (now \in 0..LastTick)'
  <2>1. CASE Tick
    BY <2>1, AuthAssumption DEF Tick, OtherTyped
  <2>2. CASE now' = now
    BY <2>2 DEF OtherTyped
  <2>. QED
    BY <2>1, <2>2 DEF Next, vars, Withdraw, Arrive, Login, Refresh, TotpSetup,
       TotpLogin, TotpChange, OtpRequest, OtpVerify, Rows, Proceed, SessionInsert,
       RefreshRevoke, TotpVerify, TotpUpdate, OtpInsert, OtpSend, OtpCount, OtpUse,
       CallLost
<1>3. (account \in Account)'
  <2>1. ASSUME NEW c \in Calls, TotpSetup(c)
        PROVE  account' \in Account
    <3>1. account' = [active |-> account.active, secret |-> account.made + 1,
                      made |-> account.made + 1, enabled |-> FALSE]
      BY <2>1 DEF TotpSetup, OtherTyped, Account
    <3>. QED  BY <3>1 DEF OtherTyped, Account
  <2>2. ASSUME NEW c \in Calls, TotpUpdate(c)
        PROVE  account' \in Account
    BY <2>2 DEF TotpUpdate, OtherTyped, Account
  <2>3. CASE Withdraw
    BY <2>3 DEF Withdraw, OtherTyped, Account
  <2>4. CASE account' = account
    BY <2>4 DEF OtherTyped
  <2>. QED
    BY <2>1, <2>2, <2>3, <2>4 DEF Next, vars, Tick, Arrive, Login, Refresh,
       TotpLogin, TotpChange, OtpRequest, OtpVerify, Rows, Proceed, SessionInsert,
       RefreshRevoke, TotpVerify, OtpInsert, OtpSend, OtpCount, OtpUse, CallLost
<1>. QED  BY <1>1, <1>2, <1>3 DEF OtherTyped

-----------------------------------------------------------------------------
(* Misses                                                                   *)

Missed(i) == {c \in Calls : At(c, {"otpVerify"}, "missed") /\ calls[c].on = i}

\* The calls that have been made are finitely many, however many may be.
CallsFinite == IsFiniteSet({c \in Calls : calls[c] # Idle})

\* What the cardinality of a challenge's misses rests on.
LEMMA MissedFinite == CallsFinite => \A i : IsFiniteSet(Missed(i))
<1>. SUFFICES ASSUME CallsFinite, NEW i PROVE IsFiniteSet(Missed(i))
  OBVIOUS
<1>1. Missed(i) \subseteq {c \in Calls : calls[c] # Idle}
  BY DEF Missed, At, Idle
<1>. QED  BY <1>1, FS_Subset DEF CallsFinite

\* One call is made at a time.
LEMMA FiniteStep ==
  ASSUME AuthInv, OtherTyped, CallsFinite, [Next]_vars
  PROVE  CallsFinite'
<1>1. CASE calls' = calls
  BY <1>1 DEF CallsFinite
<1>2. ASSUME NEW c \in Calls, NEW q, CallMoves(c, q)
      PROVE  CallsFinite'
  <2>. DEFINE S == {d \in Calls : calls[d] # Idle}
              T == {d \in Calls : calls'[d] # Idle}
  <2>1. T \subseteq S \cup {c}
    BY <1>2 DEF CallMoves, OtherTyped, CallsTyped
  <2>2. IsFiniteSet(S \cup {c})
    BY FS_AddElement DEF CallsFinite
  <2>3. IsFiniteSet(T)
    BY <2>1, <2>2, FS_Subset
  <2>. QED  BY <2>3 DEF CallsFinite
<1>. QED  BY <1>1, <1>2, CallsMove

\* No answer but that of a miss adds to the misses, and none is taken back.
LEMMA MissedKept ==
  ASSUME AuthInv, OtherTyped, [Next]_vars, \A c \in Calls : ~OtpCount(c)
  PROVE  \A i : Missed(i)' = Missed(i)
<1>1. CASE calls' = calls
  BY <1>1 DEF Missed, At
<1>2. ASSUME NEW c \in Calls, NEW q, CallMoves(c, q), NEW i
      PROVE  Missed(i)' = Missed(i)
  <2>1. calls'[c].step # "missed" /\ calls[c].step # "missed"
    BY <1>2 DEF CallMoves, OtherTyped, CallsTyped
  <2>2. \A d \in Calls : d # c => calls'[d] = calls[d]
    BY <1>2 DEF CallMoves, OtherTyped, CallsTyped
  <2>. QED  BY <2>1, <2>2 DEF Missed, At
<1>. QED  BY <1>1, <1>2, CallsMove

\* What a step does to the attempts that are counted, but for OtpCount.
LEMMA AttemptsKept ==
  ASSUME AuthInv, [Next]_vars, \A c \in Calls : ~OtpCount(c)
  PROVE  /\ DOMAIN challenges \subseteq DOMAIN challenges'
         /\ \A i \in DOMAIN challenges :
              challenges'[i].attempts = challenges[i].attempts
         /\ \A i \in DOMAIN challenges' \ DOMAIN challenges :
              challenges'[i].attempts = 0
<1>1. challenges \in Seq(Challenge)
  BY DEF AuthInv, RowsTyped
<1>2. CASE challenges' = challenges
  BY <1>2
<1>3. ASSUME NEW c \in Calls, OtpInsert(c)
      PROVE  /\ DOMAIN challenges \subseteq DOMAIN challenges'
             /\ \A i \in DOMAIN challenges :
                  challenges'[i].attempts = challenges[i].attempts
             /\ \A i \in DOMAIN challenges' \ DOMAIN challenges :
                  challenges'[i].attempts = 0
  <2>. DEFINE row == [kind |-> calls[c].kind, created |-> now, attempts |-> 0,
                      used |-> FALSE]
  <2>1. challenges' = Append(challenges, row) /\ row.attempts = 0
    BY <1>3 DEF OtpInsert
  <2>. HIDE DEF row
  <2>2. /\ DOMAIN challenges = 1..Len(challenges) /\ Len(challenges) \in Nat
        /\ DOMAIN challenges' = 1..(Len(challenges) + 1)
        /\ \A i \in DOMAIN challenges : challenges'[i] = challenges[i]
        /\ challenges'[Len(challenges) + 1] = row
    BY <1>1, <2>1
  <2>3. \A i \in DOMAIN challenges' \ DOMAIN challenges : i = Len(challenges) + 1
    BY <2>2
  <2>. QED  BY <2>1, <2>2, <2>3
<1>4. ASSUME NEW c \in Calls, OtpUse(c)
      PROVE  /\ DOMAIN challenges' = DOMAIN challenges
             /\ \A i \in DOMAIN challenges :
                  challenges'[i].attempts = challenges[i].attempts
  <2>. DEFINE k == calls[c].on
              row == [challenges[k] EXCEPT !.used = TRUE]
  <2>1. challenges' = [challenges EXCEPT ![k] = row]
    BY <1>4 DEF OtpUse
  <2>2. \A i \in DOMAIN challenges : challenges[i] \in Challenge
    BY RowFields DEF AuthInv
  <2>3. k \in DOMAIN challenges => row.attempts = challenges[k].attempts
    BY <2>2 DEF Challenge
  <2>. HIDE DEF row
  <2>4. DOMAIN challenges' = DOMAIN challenges
    BY <1>1, <2>1
  <2>5. \A i \in DOMAIN challenges :
          challenges'[i] = IF i = k THEN row ELSE challenges[i]
    BY <1>1, <2>1
  <2>. QED  BY <2>3, <2>4, <2>5
<1>. QED
  BY <1>2, <1>3, <1>4 DEF Next, vars, Tick, Withdraw, Arrive, Login, Refresh,
     TotpSetup, TotpLogin, TotpChange, OtpRequest, OtpVerify, Rows, Proceed,
     SessionInsert, RefreshRevoke, TotpVerify, TotpUpdate, OtpSend, CallLost

\* A miss adds its call to those of the challenge it was compared with, and one
\* to the attempts.
LEMMA CountStep ==
  ASSUME AuthInv, OtherTyped, CallsFinite, EveryMissCounts,
         NEW c \in Calls, OtpCount(c)
  PROVE  EveryMissCounts'
<1>. DEFINE k == calls[c].on
            q == [calls[c] EXCEPT !.step = "missed"]
            row == [challenges[k] EXCEPT !.attempts = @ + 1]
<1>1. /\ calls[c].op = "otpVerify" /\ calls[c].step = "count" /\ calls[c] \in Call
      /\ calls' = [calls EXCEPT ![c] = q]
      /\ challenges' = [challenges EXCEPT ![k] = row]
  BY DEF OtpCount, At, GoTo, OtherTyped, CallsTyped, Idle, Refused
<1>2. q.op = "otpVerify" /\ q.step = "missed" /\ q.on = k
  BY <1>1, CallReplaced DEF Steps
<1>3. k \in DOMAIN challenges
  BY <1>1 DEF AuthInv, CallsFine, Fine, FineVerify, Idle, Refused
<1>4. challenges[k] \in Challenge /\ challenges \in Seq(Challenge)
  BY <1>3, RowFields DEF AuthInv, RowsTyped
<1>5. row.attempts = challenges[k].attempts + 1
  BY <1>4 DEF Challenge
<1>. HIDE DEF q, row
<1>6. /\ DOMAIN challenges' = DOMAIN challenges
      /\ \A i \in DOMAIN challenges :
           challenges'[i] = IF i = k THEN row ELSE challenges[i]
  BY <1>1, <1>3, <1>4
<1>7. \A d \in Calls : calls'[d] = IF d = c THEN q ELSE calls[d]
  BY <1>1 DEF OtherTyped, CallsTyped
<1>8. ASSUME NEW i
      PROVE  Missed(i)' = IF i = k THEN Missed(i) \cup {c} ELSE Missed(i)
  BY <1>1, <1>2, <1>7 DEF Missed, At
<1>9. c \notin Missed(k)
  BY <1>1 DEF Missed, At
<1>10. \A i \in DOMAIN challenges : challenges[i].attempts = Cardinality(Missed(i))
  BY DEF EveryMissCounts, Missed
<1>11. ASSUME NEW i \in DOMAIN challenges'
       PROVE  challenges'[i].attempts = Cardinality(Missed(i)')
  <2>1. CASE i = k
    <3>1. Missed(i)' = Missed(i) \cup {c}
      BY <1>8, <2>1
    <3>2. Cardinality(Missed(i) \cup {c}) = Cardinality(Missed(i)) + 1
      BY <1>9, <2>1, MissedFinite, FS_AddElement
    <3>3. challenges'[i].attempts = Cardinality(Missed(i)) + 1
      BY <1>3, <1>5, <1>6, <1>10, <2>1
    <3>. QED  BY <3>1, <3>2, <3>3, Zenon
  <2>2. CASE i # k
    <3>1. Missed(i)' = Missed(i)
      BY <1>8, <2>2
    <3>2. challenges'[i].attempts = Cardinality(Missed(i))
      BY <1>6, <1>10, <2>2
    <3>. QED  BY <3>1, <3>2, Zenon
  <2>. QED  BY <2>1, <2>2
<1>. QED  BY <1>11 DEF EveryMissCounts, Missed

\* Every step keeps the count.
LEMMA MissesStep ==
  ASSUME AuthInv, OtherTyped, CallsFinite, EveryMissCounts, [Next]_vars
  PROVE  EveryMissCounts'
<1>1. ASSUME NEW c \in Calls, OtpCount(c)
      PROVE  EveryMissCounts'
  BY <1>1, CountStep
<1>2. CASE \A c \in Calls : ~OtpCount(c)
  <2>1. \A i : Missed(i)' = Missed(i)
    BY <1>2, MissedKept
  <2>2. \A i \in DOMAIN challenges : challenges[i].attempts = Cardinality(Missed(i))
    BY DEF EveryMissCounts, Missed
  <2>3. ASSUME NEW i, i \notin DOMAIN challenges
        PROVE  Cardinality(Missed(i)) = 0
    <3>1. Missed(i) = {}
      BY <2>3 DEF Missed, At, AuthInv, CallsFine, Fine, FineVerify, Idle, Refused
    <3>. QED  BY <3>1, FS_EmptySet
  <2>4. \A i \in DOMAIN challenges' : challenges'[i].attempts = Cardinality(Missed(i)')
    BY <1>2, <2>1, <2>2, <2>3, AttemptsKept
  <2>. QED  BY <2>4 DEF EveryMissCounts, Missed
<1>. QED  BY <1>1, <1>2

-----------------------------------------------------------------------------
(* Theorems                                                                 *)

\* What holds throughout of sessions, challenges and calls.
LEMMA AuthInvariant == Spec => []AuthInv
<1>1. Init => AuthInv
  BY InitAuth
<1>2. AuthInv /\ [Next]_vars => AuthInv'
  BY NextAuth
<1>. QED  BY <1>1, <1>2, PTL DEF Spec

\* AuthService.refresh inserts the new session first and revokes the old one in
\* a second statement: whatever runs in between, a rotated session is revoked
\* once its call is answered.
THEOREM RotatedSessionsAreRevoked == Spec => []RotatedIsRevoked
<1>1. AuthInv => RotatedIsRevoked
  BY DEF AuthInv
<1>. QED  BY <1>1, AuthInvariant, PTL

\* After a refresh has been answered, AuthService.refresh turns its token away,
\* for any number of calls at once.
THEOREM AnsweredTokensAreRefused == Spec => []ReuseRefused
<1>1. AuthInv => ReuseRefused
  BY DEF AuthInv, CallsFine, Fine, FineRefresh, ReuseRefused, Idle, Refused
<1>. QED  BY <1>1, AuthInvariant, PTL

\* A one-time password that OtpService.verify has accepted is not accepted by a
\* call that comes in later.
THEOREM PasswordsAreUsedOnce == Spec => []OtpOnce
<1>1. AuthInv => OtpOnce
  BY DEF AuthInv, CallsFine, Fine, FineVerify, OtpOnce, At, Idle, Refused
<1>. QED  BY <1>1, AuthInvariant, PTL

\* OtpService.request: a challenge follows the ones that had been answered when
\* its request came in by more than the cool-down.
THEOREM ChallengesAreSpaced == Spec => []RequestsSpaced
<1>1. AuthInv => RequestsSpaced
  BY DEF AuthInv, CallsFine, Fine, FineRequest, RequestsSpaced, Idle, Refused
<1>. QED  BY <1>1, AuthInvariant, PTL

\* OtpService.verify leaves the increment to the database: of all the wrong codes
\* that are compared at once none is lost from the count, and no row or call
\* loses its type.
THEOREM ChallengesAreSound == Spec => []ChallengesSound
<1>. DEFINE Inv == AuthInv /\ OtherTyped /\ CallsFinite /\ EveryMissCounts
<1>1. Init => Inv
  <2>. SUFFICES ASSUME Init PROVE OtherTyped /\ CallsFinite /\ EveryMissCounts
    BY InitAuth
  <2>1. OtherTyped
    BY AuthAssumption DEF Init, OtherTyped, Account, CallsTyped
  <2>2. {c \in Calls : calls[c] # Idle} = {}
    BY DEF Init
  <2>3. DOMAIN challenges = {}
    BY DEF Init
  <2>. QED  BY <2>1, <2>2, <2>3, FS_EmptySet DEF CallsFinite, EveryMissCounts
<1>2. Inv /\ [Next]_vars => Inv'
  BY NextAuth, TypesStep, FiniteStep, MissesStep
<1>3. Inv => ChallengesSound
  BY DEF ChallengesSound, TypeOK, OtherTyped, CallsTyped, AuthInv, RowsTyped
<1>. HIDE DEF Inv
<1>. QED  BY <1>1, <1>2, <1>3, PTL DEF Spec

=============================================================================
