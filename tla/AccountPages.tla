---------------------------- MODULE AccountPages ----------------------------
(***************************************************************************)
(* The pages of one browser where a member logs in, sets up the second      *)
(* factor and signs up, above the server's record of that member's TOTP.    *)
(* A page sends requests and goes on; their answers come in any order, also *)
(* to a page whose dialog was closed or that has been left.  The field for  *)
(* the six digits submits by itself once they are complete.                 *)
(*                                                                          *)
(* A code is the secret it was made from, or Wrong; the requests carry the  *)
(* session of the member.  Messages and the error lines are left out.       *)
(***************************************************************************)
EXTENDS Integers, FiniteSets

CONSTANTS
  Calls,          \* bound on the requests under way
  MaxSecrets,     \* bound on the secrets the server gives out
  Links,          \* the referral codes of links into the app
  MaxOpens,       \* bound on the links opened
  None,           \* no code, no secret, no answer
  NeedsTotp       \* the answer of the first step that asks for the second

ASSUME AccountPagesAssumption ==
  /\ {MaxSecrets, MaxOpens} \subseteq Nat \ {0}
  /\ {None, NeedsTotp} \intersect Links = {}
  /\ None # 0

VARIABLES
  totp,           \* the TOTP columns of the member, at the server
  held,           \* the secrets in the member's authenticator
  session,        \* has the server granted a session
  calls,          \* the requests under way
  page,           \* the page that is shown
  going,          \* is the way home under way, after a login
  store,          \* the referral code kept for the sign-up page
  opened,         \* history: how often the link of each code was opened
  filled          \* history: how often each kept code was put into a form

server == <<totp, session>>
links == <<store, opened, filled>>
vars == <<totp, held, session, calls, page, going, store, opened, filled>>

Wrong == 0

Secrets == 1..MaxSecrets

Idle == [op |-> "none"]

Post(op, arg) ==
  [op |-> op, arg |-> arg, at |-> "sent", ok |-> FALSE, value |-> None,
   mine |-> TRUE, stale |-> FALSE]

Ops == {"login", "login2FA", "setup", "verify", "status", "pop", "identity", "submit"}

CallRecords ==
  [op : Ops, arg : Secrets \union {Wrong, None},
   at : {"sent", "checked", "got", "answered"}, ok : BOOLEAN,
   value : Secrets \union Links \union {None, NeedsTotp},
   mine : BOOLEAN, stale : BOOLEAN]

Fresh(name, query) ==
  [name |-> name, stage |-> "creds", open |-> FALSE, step |-> "intro",
   shown |-> None, known |-> FALSE, code |-> None, sent |-> FALSE, posts |-> 0,
   busy |-> FALSE, query |-> query, form |-> None, verified |-> FALSE]

PageRecords ==
  [name : {"home", "login", "security", "sign_up"}, stage : {"creds", "totp"},
   open : BOOLEAN, step : {"intro", "qr", "verify"}, shown : Secrets \union {None},
   known : BOOLEAN, code : Secrets \union {Wrong, None}, sent : BOOLEAN,
   posts : 0..2, busy : BOOLEAN, query : Links \union {None},
   form : Links \union {None, "typed"}, verified : BOOLEAN]

TypeOK ==
  /\ totp \in [secret : Secrets \union {None}, on : BOOLEAN,
               issued : 0..MaxSecrets, mixed : BOOLEAN]
  /\ held \subseteq Secrets
  /\ session \in BOOLEAN /\ going \in BOOLEAN
  /\ calls \in [Calls -> CallRecords \union {Idle}]
  /\ page \in PageRecords
  /\ store \in Links \union {None}
  /\ opened \in [Links -> 0..MaxOpens] /\ filled \in [Links -> 0..(MaxOpens + 1)]

\* The member has set up the second factor before, or has not.
Init ==
  /\ \/ totp = [secret |-> None, on |-> FALSE, issued |-> 0, mixed |-> FALSE] /\ held = {}
     \/ totp = [secret |-> 1, on |-> TRUE, issued |-> 1, mixed |-> FALSE] /\ held = {1}
  /\ session = FALSE /\ going = FALSE
  /\ calls = [c \in Calls |-> Idle]
  /\ page = Fresh("home", None)
  /\ store = None
  /\ opened = [l \in Links |-> 0] /\ filled = [l \in Links |-> 0]

-----------------------------------------------------------------------------
(* TotpField                                                                *)

FieldShown(p) ==
  \/ p.name = "login" /\ p.stage = "totp"
  \/ p.name = "security" /\ p.open /\ p.step = "verify"

Submitting(p) == [p EXCEPT !.busy = TRUE, !.sent = TRUE, !.posts = @ + 1]

Completed(p) == FieldShown(p) /\ p.code # None /\ ~p.sent /\ ~p.busy

CodeOp(p) == IF p.name = "login" THEN "login2FA" ELSE "verify"

\* What follows a change of the page: it is rendered, and the effect of the field
\* submits the digits that are complete.
Render(p, cs) ==
  \/ ~Completed(p) /\ page' = p /\ calls' = cs
  \/ /\ Completed(p)
     /\ page' = Submitting(p)
     /\ \E c \in Calls :
          cs[c] = Idle /\ calls' = [cs EXCEPT ![c] = Post(CodeOp(p), p.code)]

Shown(p) == Render(p, calls) /\ UNCHANGED <<server, held, going, links>>

\* A request of the page, which shows p from then on.
Sent(op, arg, p) ==
  /\ page' = p
  /\ \E c \in Calls : calls[c] = Idle /\ calls' = [calls EXCEPT ![c] = Post(op, arg)]
  /\ UNCHANGED <<server, held, going, links>>

\* Digits are typed, pasted or replaced; a field that is disabled takes none.
Type(code) ==
  /\ FieldShown(page) /\ ~page.busy /\ page.code # code
  /\ Shown([page EXCEPT !.code = code, !.posts = 0, !.sent = @ /\ code # None])

PressConfirm ==
  /\ FieldShown(page) /\ ~page.busy /\ page.code # None
  /\ Sent(CodeOp(page), page.code, [page EXCEPT !.busy = TRUE])

-----------------------------------------------------------------------------
(* Going from page to page                                                  *)

Left(cs) ==
  [c \in Calls |-> IF cs[c] = Idle THEN Idle ELSE [cs[c] EXCEPT !.mine = FALSE]]

OnMount(name) ==
  CASE name = "security" -> {"status"}
    [] name = "sign_up" -> {"pop"}
    [] OTHER -> {}

\* A link, the back button or the address bar: the requests of the page that is
\* left go on, and the next page sends what it asks for at first.
Go(name, query) ==
  /\ page.name # name
  /\ page' = Fresh(name, query)
  /\ \/ OnMount(name) = {} /\ calls' = Left(calls)
     \/ \E c \in Calls, op \in OnMount(name) :
          calls[c] = Idle /\ calls' = [Left(calls) EXCEPT ![c] = Post(op, None)]
  /\ going' = FALSE
  /\ UNCHANGED <<server, held, links>>

\* router.push('/') of a login comes to its end.
ComeHome ==
  /\ going
  /\ page' = Fresh("home", None) /\ calls' = Left(calls)
  /\ going' = FALSE
  /\ UNCHANGED <<server, held, links>>

-----------------------------------------------------------------------------
(* LoginPage                                                                *)

SubmitCreds ==
  /\ page.name = "login" /\ page.stage = "creds" /\ ~page.busy
  /\ Sent("login", None, [page EXCEPT !.busy = TRUE])

\* Mutated form: the page is ready again at once.
OtherAccountReady ==
  /\ page.name = "login" /\ page.stage = "totp"
  /\ Shown([page EXCEPT !.stage = "creds", !.code = None, !.sent = FALSE,
                        !.posts = 0, !.busy = FALSE])

\* The way back to the first step, which waits for no answer.
OtherAccount ==
  /\ page.name = "login" /\ page.stage = "totp"
  /\ Shown([page EXCEPT !.stage = "creds", !.code = None, !.sent = FALSE, !.posts = 0])

-----------------------------------------------------------------------------
(* SecurityPage and TotpSetupModal                                          *)

OpenSetup ==
  /\ page.name = "security" /\ page.known /\ ~page.open
  /\ Shown([page EXCEPT !.open = TRUE])

\* What is reset does not include the requests under way.
CloseSetup ==
  /\ page.name = "security" /\ page.open
  /\ Shown([page EXCEPT !.open = FALSE, !.step = "intro", !.shown = None,
                        !.code = None, !.sent = FALSE, !.posts = 0, !.busy = FALSE])

SetupsUnderWay == Cardinality({c \in Calls : calls[c].op = "setup" /\ calls[c].at = "sent"})

StartSetup ==
  /\ page.open /\ page.step = "intro" /\ ~page.busy
  /\ totp.issued + SetupsUnderWay < MaxSecrets
  /\ Sent("setup", None, [page EXCEPT !.busy = TRUE])

ScanQr ==
  /\ page.open /\ page.step = "qr" /\ page.shown \notin held
  /\ held' = held \union {page.shown}
  /\ UNCHANGED <<server, calls, page, going, links>>

PressNext ==
  /\ page.open /\ page.step = "qr"
  /\ Shown([page EXCEPT !.step = "verify", !.posts = 0])

-----------------------------------------------------------------------------
(* SignupPage and the links into the app                                    *)

TypeReferral(form) ==
  /\ page.name = "sign_up" /\ page.form # form
  /\ Shown([page EXCEPT !.form = form])

\* The button of the identity check is never disabled.
VerifyIdentity == page.name = "sign_up" /\ Sent("identity", None, page)

\* No request yet: a timer in its place.
SubmitSignUp ==
  /\ page.name = "sign_up" /\ page.verified /\ ~page.busy
  /\ Sent("submit", None, [page EXCEPT !.busy = TRUE])

OpenLink(l) ==
  /\ opened[l] < MaxOpens
  /\ store' = l /\ opened' = [opened EXCEPT ![l] = @ + 1]
  /\ UNCHANGED <<server, held, calls, page, going, filled>>

-----------------------------------------------------------------------------
(* The server, and what else answers: the code store, PortOne, a timer      *)

Answered(c, ok, value) ==
  calls' = [calls EXCEPT ![c].at = "answered", ![c].ok = ok, ![c].value = value]

Reaches(c, op) == calls[c].op = op /\ calls[c].at = "sent"

Login(c) ==
  /\ Reaches(c, "login")
  /\ \E right \in BOOLEAN :
       /\ Answered(c, right, IF right /\ totp.on THEN NeedsTotp ELSE None)
       /\ session' = (session \/ (right /\ ~totp.on))
  /\ UNCHANGED totp

LoginWithTotp(c) ==
  /\ Reaches(c, "login2FA")
  /\ LET ok == totp.on /\ calls[c].arg = totp.secret
     IN  Answered(c, ok, None) /\ session' = (session \/ ok)
  /\ UNCHANGED totp

\* Mutated form: the factor stays on with the new secret.
NewSecretKept == [totp EXCEPT !.secret = totp.issued + 1, !.issued = @ + 1]

NewSecret == [secret |-> totp.issued + 1, issued |-> totp.issued + 1,
              on |-> FALSE, mixed |-> FALSE]

\* The verifications that have compared their code by now did so with the secret
\* before this one.
GenerateSecret(c) ==
  /\ Reaches(c, "setup")
  /\ \/ ~session /\ Answered(c, FALSE, None) /\ UNCHANGED totp
     \/ /\ session
        /\ totp' = NewSecret
        /\ calls' = [d \in Calls |->
             CASE d = c -> [calls[c] EXCEPT !.at = "answered", !.ok = TRUE,
                                            !.value = totp.issued + 1]
               [] d # c /\ calls[d] # Idle -> [calls[d] EXCEPT !.stale = @ \/ calls[d].at = "checked"]
               [] OTHER -> Idle]
  /\ UNCHANGED session

VerifyCode(c) ==
  /\ Reaches(c, "verify")
  /\ IF session /\ calls[c].arg = totp.secret
     THEN calls' = [calls EXCEPT ![c].at = "checked"]
     ELSE Answered(c, FALSE, None)
  /\ UNCHANGED server

\* The columns are written whatever the secret is by now.
Enable(c) ==
  /\ calls[c] # Idle /\ calls[c].at = "checked"
  /\ totp' = [totp EXCEPT !.on = TRUE, !.mixed = calls[c].stale]
  /\ Answered(c, TRUE, None)
  /\ UNCHANGED session

\* There is no such route: any answer, the 404 of it included, says that the factor
\* is off.
Status(c) == Reaches(c, "status") /\ Answered(c, TRUE, None) /\ UNCHANGED server

Outside(c) ==
  /\ \/ Reaches(c, "identity") /\ \E ok \in BOOLEAN : Answered(c, ok, None)
     \/ Reaches(c, "submit") /\ Answered(c, TRUE, None)
  /\ UNCHANGED server

\* The network loses a request or its answer.
Lost(c) ==
  /\ calls[c] # Idle /\ calls[c].op \notin {"pop", "submit"}
  /\ \/ calls[c].at = "sent"
     \/ calls[c].at = "answered" /\ calls[c].ok
  /\ Answered(c, FALSE, None)
  /\ UNCHANGED server

AtServer(c) ==
  /\ \/ Login(c) \/ LoginWithTotp(c) \/ GenerateSecret(c)
     \/ VerifyCode(c) \/ Enable(c) \/ Status(c) \/ Outside(c)
  /\ UNCHANGED <<held, page, going, links>>

\* getPendingReferralCode: the code is read, and then removed.
ReadStore(c) ==
  /\ Reaches(c, "pop")
  /\ IF store = None THEN Answered(c, TRUE, None)
     ELSE calls' = [calls EXCEPT ![c].at = "got", ![c].value = store]
  /\ UNCHANGED <<server, held, page, going, links>>

\* Mutated form: the code is left in the store.
RemoveStoreNot(c) ==
  /\ calls[c] # Idle /\ calls[c].at = "got"
  /\ Answered(c, TRUE, calls[c].value)
  /\ UNCHANGED <<server, held, page, going, links>>

RemoveStore(c) ==
  /\ calls[c] # Idle /\ calls[c].at = "got"
  /\ Answered(c, TRUE, calls[c].value)
  /\ store' = None
  /\ UNCHANGED <<server, held, page, going, opened, filled>>

-----------------------------------------------------------------------------
(* What a page makes of an answer                                           *)

FormWith(p, kept) ==
  IF p.query # None THEN p.query ELSE IF kept # None THEN kept ELSE p.form

AfterLogin(p, r) ==
  IF r.ok /\ r.value = NeedsTotp
  THEN [p EXCEPT !.busy = FALSE, !.stage = "totp", !.code = None, !.sent = FALSE]
  ELSE [p EXCEPT !.busy = FALSE]

AfterCode(p, r) ==
  IF r.ok THEN [p EXCEPT !.busy = FALSE]
  ELSE [p EXCEPT !.busy = FALSE, !.code = None, !.sent = FALSE, !.posts = 0]

\* Mutated form: a failure leaves the button as it is.
AfterSetupOk(p, r) ==
  IF r.ok
  THEN [p EXCEPT !.busy = FALSE, !.step = "qr", !.shown = r.value, !.sent = FALSE]
  ELSE p

AfterSetup(p, r) ==
  IF r.ok
  THEN [p EXCEPT !.busy = FALSE, !.step = "qr", !.shown = r.value, !.sent = FALSE]
  ELSE [p EXCEPT !.busy = FALSE]

\* The answer of a verification never has the form the page expects, so that it
\* is a failure to the page also when the server has enabled the factor.
AfterVerify(p) == [p EXCEPT !.busy = FALSE, !.code = None, !.sent = FALSE, !.posts = 0]

After(p, r) ==
  CASE r.op = "login" -> AfterLogin(p, r)
    [] r.op = "login2FA" -> AfterCode(p, r)
    [] r.op = "setup" -> AfterSetup(p, r)
    [] r.op = "verify" -> AfterVerify(p)
    [] r.op = "status" -> [p EXCEPT !.known = @ \/ r.ok]
    [] r.op = "pop" -> [p EXCEPT !.form = FormWith(p, r.value)]
    [] r.op = "identity" -> [p EXCEPT !.verified = @ \/ r.ok]
    [] r.op = "submit" -> [p EXCEPT !.busy = FALSE]

\* Mutated form: any answer to the first step is taken for a session.
WelcomesAny(r) == r.op \in {"login", "login2FA"} /\ r.ok

Welcomes(r) == r.ok /\ (r.op = "login2FA" \/ (r.op = "login" /\ r.value # NeedsTotp))

Fills(r) == r.op = "pop" /\ r.mine /\ page.query = None /\ r.value # None

\* A page that is gone takes nothing, but for the way home of a login.
Receive(c) ==
  /\ calls[c] # Idle /\ calls[c].at = "answered"
  /\ LET r == calls[c]
         rest == [calls EXCEPT ![c] = Idle]
     IN  /\ IF r.mine THEN Render(After(page, r), rest) ELSE page' = page /\ calls' = rest
         /\ going' = (going \/ Welcomes(r))
         /\ filled' = IF Fills(r) THEN [filled EXCEPT ![r.value] = @ + 1] ELSE filled
  /\ UNCHANGED <<server, held, store, opened>>

-----------------------------------------------------------------------------

Digits ==
  \/ \E code \in held \union {Wrong, None} : Type(code)
  \/ PressConfirm

Modal == OpenSetup \/ CloseSetup \/ StartSetup \/ ScanQr \/ PressNext

SignUpForm == TypeReferral("typed") \/ VerifyIdentity \/ SubmitSignUp

User ==
  \/ \E name \in {"home", "login", "security"} : Go(name, None)
  \/ \E query \in Links \union {None} : Go("sign_up", query)
  \/ SubmitCreds \/ OtherAccount
  \/ Digits \/ Modal \/ SignUpForm
  \/ \E l \in Links : OpenLink(l)

Proceed(c) == AtServer(c) \/ ReadStore(c) \/ RemoveStore(c) \/ Receive(c)

Next ==
  \/ User
  \/ ComeHome
  \/ \E c \in Calls :
       Proceed(c) \/ (Lost(c) /\ UNCHANGED <<held, page, going, links>>)

Spec == Init /\ [][Next]_vars

\* A request is answered or lost, its answer is taken, and a navigation comes to
\* its end; the member need do nothing.
FairSpec == Spec /\ (\A c \in Calls : WF_vars(Proceed(c))) /\ WF_vars(ComeHome)

-----------------------------------------------------------------------------
(* Correctness                                                              *)

\* The login page posts a code that is complete by itself once, however often the
\* page is rendered; only the button posts it again.
LoginPostsOnce == page.name = "login" => page.posts <= 1

\* The login page has at most one request under way, and its buttons are disabled
\* exactly then: also for who goes back to the first step before the answer.
BusyIsShown ==
  page.name = "login" =>
    Cardinality({c \in Calls : calls[c] # Idle /\ calls[c].mine})
      = IF page.busy THEN 1 ELSE 0

\* The browser's state keeps its type, and the login page posts nothing twice by
\* itself and tells the truth about what is under way.
ButtonsSound == TypeOK /\ LoginPostsOnce /\ BusyIsShown

\* Nobody is sent home as logged in before the server has granted a session, also
\* where the first step has succeeded and the second is missing.
WelcomeIsGranted == going => session

\* The second factor is on with a secret that the member's authenticator lacks
\* only where a setup was served between the two halves of a verification: in all
\* other orders of setups and verifications, whatever dialogs were closed and
\* opened again meanwhile, the member can still log in.
LockedOutByOverlap == totp.on /\ totp.secret \notin held => totp.mixed

\* A code that was kept for the sign-up page fills a form once for every time its
\* link was opened, although reading and removing it are two steps, of which
\* several visits to the page may be in the middle.
CodeFillsOneForm == \A l \in Links : filled[l] <= opened[l]

\* A button that was disabled for a request comes back.
ButtonComesBack == page.busy ~> ~page.busy

=============================================================================
