-------------------------------- MODULE Auth --------------------------------
(***************************************************************************)
(* Sessions, TOTP and one-time passwords of the server: auth.controller.ts, *)
(* auth.service.ts (login, loginWithTotp, refresh), totp.service.ts and     *)
(* otp.service.ts.                                                          *)
(*                                                                          *)
(* None of these services opens a transaction.  A call is a sequence of     *)
(* statements and other calls run between any two of them; what a call      *)
(* decides on is what it read first.  No statement touches two members, so  *)
(* the rows are those of one.                                               *)
(*                                                                          *)
(* Time is a clock; the life of a one-time password, of a cool-down and of  *)
(* a session are numbers of its steps.                                      *)
(***************************************************************************)
EXTENDS Integers, Sequences, FiniteSets

CONSTANTS
  Calls,          \* one id per request
  Operations,     \* the routes that are called
  Kinds,          \* the channels of one-time passwords
  Reachable,      \* the channels the member has registered
  LastTick,       \* bound on the clock
  OtpTtl,         \* OTP_CODE_TTL_SEC
  OtpCooldown,    \* OTP_REQUEST_COOLDOWN_SEC
  MaxAttempts,    \* OTP_MAX_ATTEMPTS
  SessionTtl      \* JWT_REFRESH_TTL

ASSUME AuthAssumption ==
  /\ Operations \subseteq {"login", "totpLogin", "refresh", "setup", "enable",
                            "disable", "otpRequest", "otpVerify"}
  /\ Kinds # {} /\ Reachable \subseteq Kinds
  /\ {LastTick, OtpTtl, OtpCooldown, MaxAttempts, SessionTtl} \subseteq Nat

VARIABLES
  now,            \* the clock
  account,        \* the member's row of table User
  sessions,       \* table Session; a row's number stands for its token
  challenges,     \* table OtpChallenge, in the order of creation
  calls           \* the requests: what each has read and where it stands

vars == <<now, account, sessions, challenges, calls>>

-----------------------------------------------------------------------------

\* Secrets are numbered as they are generated; 0 is null.
Account == [active : BOOLEAN, secret : Nat, made : Nat, enabled : BOOLEAN]

\* parent: the session that was rotated into this one, 0 after a login.
Session == [parent : Nat, expires : Nat, revoked : BOOLEAN]

Challenge == [kind : Kinds, created : Nat, attempts : Nat, used : BOOLEAN]

\* on: the session or challenge the call works on; code: the secret or the
\* challenge whose code it carries, 0 for a code that is wrong or of another
\* time; kind: the channel it asks for; read: the attempts it has read; before:
\* what calls of the same operation had been answered ok for when it began.  A
\* call is answered ok, refused, or missed (a wrong one-time password).
Call == [op : Operations, on : Nat, code : Nat, kind : Kinds, read : Nat,
         before : SUBSET Nat,
         step : {"verify", "insert", "revoke", "update", "count", "use",
                 "send", "ok", "refused", "missed", "lost"}]

Idle == [op |-> "none", step |-> "idle"]

\* A request refused on its first read has changed nothing.
Refused == [op |-> "none", step |-> "refused"]

TypeOK ==
  /\ now \in 0..LastTick
  /\ account \in Account
  /\ sessions \in Seq(Session)
  /\ challenges \in Seq(Challenge)
  /\ calls \in [Calls -> Call \cup {Idle, Refused}]

\* The member has logged in once.
Init ==
  /\ now = 0
  /\ account = [active |-> TRUE, secret |-> 0, made |-> 0, enabled |-> FALSE]
  /\ sessions = <<[parent |-> 0, expires |-> SessionTtl, revoked |-> FALSE]>>
  /\ challenges = <<>>
  /\ calls = [c \in Calls |-> Idle]

-----------------------------------------------------------------------------
(* Steps every call is made of.                                             *)

At(c, ops, step) == calls[c].op \in ops /\ calls[c].step = step

\* What the calls of an operation that were answered ok had worked on.
Done(op) == {calls[c].on : c \in {d \in Calls : At(d, {op}, "ok")}}

AnyKind == CHOOSE k \in Kinds : TRUE

Request(op) ==
  [op |-> op, on |-> 0, code |-> 0, kind |-> AnyKind, read |-> 0,
   before |-> Done(op) \ {0}, step |-> "refused"]

\* The call is read in as r and goes on at a step, or is answered.
Begin(c, r, step) ==
  /\ r.op \in Operations
  /\ calls[c] = Idle
  /\ calls' = [calls EXCEPT ![c] = IF step = "refused" THEN Refused
                                  ELSE [r EXCEPT !.step = step]]

GoTo(c, step) == calls' = [calls EXCEPT ![c].step = step]

Rows == <<now, account, sessions, challenges>>

-----------------------------------------------------------------------------
(* AuthService                                                              *)

\* One read of the row decides: credentials, status, and whether a second step
\* is asked for, which is an answer without a session.
Login(c, right) ==
  /\ LET granted == right /\ account.active /\ ~account.enabled
     IN  Begin(c, Request("login"), IF granted THEN "insert" ELSE "refused")
  /\ UNCHANGED Rows

\* The row is read for totpEnabled; the code is looked at next, and the status
\* not at all.
TotpLogin(c, secret) ==
  /\ Begin(c, [Request("totpLogin") EXCEPT !.code = secret],
           IF account.enabled THEN "verify" ELSE "refused")
  /\ UNCHANGED Rows

SessionRow(c) ==
  [parent |-> IF calls[c].op = "refresh" THEN calls[c].on ELSE 0,
   expires |-> now + SessionTtl, revoked |-> FALSE]

\* issueRefreshToken; a refresh still has the old session to revoke.
SessionInsert(c) ==
  /\ At(c, {"login", "totpLogin", "refresh"}, "insert")
  /\ sessions' = Append(sessions, SessionRow(c))
  /\ GoTo(c, IF calls[c].op = "refresh" THEN "revoke" ELSE "ok")
  /\ UNCHANGED <<now, account, challenges>>

\* Mutated form: revokedAt is not looked at.
RefreshRevoked(c, token) ==
  /\ LET valid == sessions[token].expires > now /\ account.active
     IN  Begin(c, [Request("refresh") EXCEPT !.on = token],
               IF valid THEN "insert" ELSE "refused")
  /\ UNCHANGED Rows

\* The session is read together with its member.
Refresh(c, token) ==
  /\ LET row == sessions[token]
         valid == ~row.revoked /\ row.expires > now /\ account.active
     IN  Begin(c, [Request("refresh") EXCEPT !.on = token],
               IF valid THEN "insert" ELSE "refused")
  /\ UNCHANGED Rows

\* Mutated form: the newest session is revoked, which need not be the call's.
RevokeNewest(c) ==
  /\ At(c, {"refresh"}, "revoke")
  /\ sessions' = [sessions EXCEPT ![Len(sessions) - 1].revoked = TRUE]
  /\ GoTo(c, "ok")
  /\ UNCHANGED <<now, account, challenges>>

RefreshRevoke(c) ==
  /\ At(c, {"refresh"}, "revoke")
  /\ sessions' = [sessions EXCEPT ![calls[c].on].revoked = TRUE]
  /\ GoTo(c, "ok")
  /\ UNCHANGED <<now, account, challenges>>

-----------------------------------------------------------------------------
(* TotpService                                                              *)

\* generateSecret replaces the secret and turns 2FA off until it is verified.
TotpSetup(c) ==
  /\ Begin(c, Request("setup"), "ok")
  /\ account' = [account EXCEPT !.secret = account.made + 1, !.made = @ + 1,
                                !.enabled = FALSE]
  /\ UNCHANGED <<now, sessions, challenges>>

\* verifyAndEnable and disable are given a code first.
TotpChange(c, op, secret) ==
  /\ Begin(c, [Request(op) EXCEPT !.code = secret], "verify")
  /\ UNCHANGED Rows

\* verifyTotp: a code of the secret, of a step of time next to this one.
RightCode(c) == account.secret # 0 /\ calls[c].code = account.secret

\* verifyCode reads the secret anew; no secret, no right code.
TotpVerify(c) ==
  /\ At(c, {"totpLogin", "enable", "disable"}, "verify")
  /\ GoTo(c, CASE ~RightCode(c) -> "refused"
                [] RightCode(c) /\ calls[c].op = "totpLogin" -> "insert"
                [] RightCode(c) /\ calls[c].op # "totpLogin" -> "update")
  /\ UNCHANGED Rows

\* The update, whatever the row has become since the code was verified.
TotpUpdate(c) ==
  /\ At(c, {"enable", "disable"}, "update")
  /\ account' = IF calls[c].op = "enable"
                  THEN [account EXCEPT !.enabled = TRUE]
                  ELSE [account EXCEPT !.enabled = FALSE, !.secret = 0]
  /\ GoTo(c, "ok")
  /\ UNCHANGED <<now, sessions, challenges>>

-----------------------------------------------------------------------------
(* OtpService                                                               *)

\* Mutated form: the cool-down is counted for each channel.
CooldownOfChannel(kind) ==
  \E i \in DOMAIN challenges : /\ challenges[i].kind = kind
                               /\ challenges[i].created + OtpCooldown >= now

\* A challenge of either channel, created no longer ago than the cool-down.
InCooldown(kind) ==
  \E i \in DOMAIN challenges : challenges[i].created + OtpCooldown >= now

\* The look-up of a recent challenge and of the channel.
OtpRequest(c, kind) ==
  /\ Begin(c, [Request("otpRequest") EXCEPT !.kind = kind],
           IF ~InCooldown(kind) /\ kind \in Reachable THEN "insert"
                                                      ELSE "refused")
  /\ UNCHANGED Rows

OtpInsert(c) ==
  /\ At(c, {"otpRequest"}, "insert")
  /\ challenges' = Append(challenges, [kind |-> calls[c].kind, created |-> now,
                                       attempts |-> 0, used |-> FALSE])
  /\ calls' = [calls EXCEPT ![c].on = Len(challenges) + 1, ![c].step = "send"]
  /\ UNCHANGED <<now, account, sessions>>

\* The adapters throw without their settings and return otherwise.
SendAnswers == {"ok", "refused"}

\* When the adapter throws the challenge stays, and its cool-down runs.
OtpSend(c) ==
  /\ At(c, {"otpRequest"}, "send")
  /\ \E answer \in SendAnswers : GoTo(c, answer)
  /\ UNCHANGED Rows

Unused(kind) ==
  {i \in DOMAIN challenges : challenges[i].kind = kind /\ ~challenges[i].used}

Latest(S) == CHOOSE i \in S : \A j \in S : j <= i

\* The latest unused challenge of the channel is read and the code compared
\* with its hash; code is the challenge the code was sent for, 0 for another.
OtpVerify(c, kind, code) ==
  /\ \/ /\ Unused(kind) # {}
        /\ LET i == Latest(Unused(kind))
               row == challenges[i]
               open == /\ row.attempts < MaxAttempts
                       /\ row.created + OtpTtl >= now
           IN  Begin(c, [Request("otpVerify") EXCEPT
                          !.on = i, !.code = code, !.read = row.attempts],
                     CASE ~open -> "refused"
                       [] open /\ code = i -> "use"
                       [] open /\ code # i -> "count")
     \/ /\ Unused(kind) = {}
        /\ Begin(c, Request("otpVerify"), "refused")
  /\ UNCHANGED Rows

\* Mutated form: the count that is written is the one that was read, plus one.
OtpCountStale(c) ==
  /\ At(c, {"otpVerify"}, "count")
  /\ challenges' = [challenges EXCEPT ![calls[c].on].attempts = calls[c].read + 1]
  /\ GoTo(c, "missed")
  /\ UNCHANGED <<now, account, sessions>>

\* The increment is the database's own.
OtpCount(c) ==
  /\ At(c, {"otpVerify"}, "count")
  /\ challenges' = [challenges EXCEPT ![calls[c].on].attempts = @ + 1]
  /\ GoTo(c, "missed")
  /\ UNCHANGED <<now, account, sessions>>

\* Mutated form: a code that was right is counted, not used up.
OtpUseCounts(c) ==
  /\ At(c, {"otpVerify"}, "use")
  /\ challenges' = [challenges EXCEPT ![calls[c].on].attempts = @ + 1]
  /\ GoTo(c, "ok")
  /\ UNCHANGED <<now, account, sessions>>

OtpUse(c) ==
  /\ At(c, {"otpVerify"}, "use")
  /\ challenges' = [challenges EXCEPT ![calls[c].on].used = TRUE]
  /\ GoTo(c, "ok")
  /\ UNCHANGED <<now, account, sessions>>

-----------------------------------------------------------------------------
(* Meanwhile.                                                               *)

Tick ==
  /\ now < LastTick
  /\ now' = now + 1
  /\ UNCHANGED <<account, sessions, challenges, calls>>

\* UserService.withdraw: the sessions stay as they are.
Withdraw ==
  /\ account' = [account EXCEPT !.active = FALSE]
  /\ UNCHANGED <<now, sessions, challenges, calls>>

\* The process restarts; the call is gone and its statements stay.
CallLost(c) ==
  /\ calls[c].step \in {"verify", "insert", "revoke", "update", "count", "use",
                         "send"}
  /\ GoTo(c, "lost")
  /\ UNCHANGED Rows

-----------------------------------------------------------------------------

Arrive(c) ==
  \/ \E right \in BOOLEAN : Login(c, right)
  \/ \E token \in DOMAIN sessions : Refresh(c, token)
  \/ TotpSetup(c)
  \/ \E secret \in 0..account.made :
       \/ TotpLogin(c, secret)
       \/ \E op \in {"enable", "disable"} : TotpChange(c, op, secret)
  \/ \E kind \in Kinds :
       \/ OtpRequest(c, kind)
       \/ \E code \in 0..Len(challenges) : OtpVerify(c, kind, code)

Proceed(c) ==
  \/ SessionInsert(c) \/ RefreshRevoke(c)
  \/ TotpVerify(c) \/ TotpUpdate(c)
  \/ OtpInsert(c) \/ OtpSend(c) \/ OtpCount(c) \/ OtpUse(c)

Next ==
  \/ Tick
  \/ Withdraw
  \/ \E c \in Calls : Arrive(c) \/ Proceed(c) \/ CallLost(c)

Spec == Init /\ [][Next]_vars

-----------------------------------------------------------------------------
(* Correctness                                                              *)

\* A session that was rotated into another is revoked, unless the call that
\* rotated it has yet to do so or was lost before it did.
RotatedIsRevoked ==
  \A s \in DOMAIN sessions :
    LET p == sessions[s].parent IN
    p # 0 => \/ sessions[p].revoked
             \/ \E c \in Calls : /\ calls[c].op = "refresh" /\ calls[c].on = p
                                 /\ calls[c].step \in {"revoke", "lost"}

\* A token whose refresh has been answered is refused from then on: no later
\* refresh with it gets past its first read.
ReuseRefused ==
  \A c \in Calls : calls[c].op = "refresh" => calls[c].on \notin calls[c].before

\* A one-time password that has been accepted is not accepted again.
OtpOnce ==
  \A c \in Calls : At(c, {"otpVerify"}, "ok") => calls[c].on \notin calls[c].before

\* Every wrong code that was answered counts, also when several are compared
\* at once: no increment is lost.
EveryMissCounts ==
  \A i \in DOMAIN challenges :
    challenges[i].attempts =
      Cardinality({c \in Calls : At(c, {"otpVerify"}, "missed") /\ calls[c].on = i})

\* Sessions and challenges keep their type, and no miss is lost.
ChallengesSound == TypeOK /\ EveryMissCounts

\* A request for a code that began when another had been answered ok inserts no
\* challenge within the cool-down of the other's.
RequestsSpaced ==
  \A c \in Calls : calls[c].op = "otpRequest" /\ calls[c].on # 0 =>
    \A i \in calls[c].before :
      challenges[calls[c].on].created > challenges[i].created + OtpCooldown

=============================================================================
