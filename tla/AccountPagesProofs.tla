------------------------- MODULE AccountPagesProofs -------------------------
(***************************************************************************)
(* Proofs about AccountPages, along two invariants.                         *)
(*                                                                          *)
(* PagesInv is about what the requests under way carry: a verification      *)
(* posts only codes that the authenticator can make, one that has compared  *)
(* its code and was not overtaken by a set-up holds the secret of now, and  *)
(* an answer that welcomes was given with a session.                        *)
(*                                                                          *)
(* FormInv is about the pages: what they show is of the right form, the     *)
(* login page waits for exactly one request while it is busy, each set-up   *)
(* on its way has a secret left, and a code in the store or in the hands of *)
(* the visit that is shown was put there by a link that filled no form yet. *)
(***************************************************************************)
EXTENDS AccountPages, FiniteSetTheorems, TLAPS

CallFields == {"op", "arg", "at", "ok", "value", "mine", "stale"}

PageFields == {"name", "stage", "open", "step", "shown", "known", "code", "sent",
               "posts", "busy", "query", "form", "verified"}

\* A request r, where the server's secret is s, the authenticator holds h, and g
\* says whether a session was granted.
Fine(r, s, h, g) ==
  \/ r = Idle
  \/ /\ DOMAIN r = CallFields /\ r.op \in Ops
     /\ r.op = "verify" => r.arg \in h \union {Wrong}
     /\ r.at = "checked" => r.op = "verify" /\ (r.stale \/ r.arg = s)
     /\ r.at = "got" => r.op = "pop"
     /\ r.at = "answered" /\ Welcomes(r) => g

\* A page that shows a code the member can have.
PageFine(p, h) == DOMAIN p = PageFields /\ p.code \in h \union {Wrong, None}

CallsFine(cs, s, h, g) ==
  /\ cs = [c \in Calls |-> cs[c]]
  /\ \A c \in Calls : Fine(cs[c], s, h, g)

TotpFine ==
  /\ DOMAIN totp = {"secret", "on", "issued", "mixed"}
  /\ totp.issued \in Nat
  /\ totp.secret # Wrong

PagesInv ==
  /\ TotpFine
  /\ LockedOutByOverlap
  /\ WelcomeIsGranted
  /\ PageFine(page, held)
  /\ CallsFine(calls, totp.secret, held, session)

-----------------------------------------------------------------------------
(* Requests                                                                 *)

\* A request that was just posted.
LEMMA FinePost ==
  ASSUME NEW op, NEW arg, NEW s, NEW h, NEW g,
         op \in Ops, op = "verify" => arg \in h \union {Wrong}
  PROVE  Fine(Post(op, arg), s, h, g)
BY DEF Fine, Post, CallFields

\* Requests stay fine when the authenticator learns a secret, or a session comes.
LEMMA FineGrows ==
  ASSUME NEW r, NEW s, NEW h, NEW g, NEW h2, NEW g2,
         Fine(r, s, h, g), h \subseteq h2, g => g2
  PROVE  Fine(r, s, h2, g2)
BY DEF Fine

\* An answer, which welcomes with a session only.
LEMMA FineAnswer ==
  ASSUME NEW r, NEW s, NEW h, NEW g, Fine(r, s, h, g), r # Idle,
         NEW ok, NEW v,
         ok /\ (r.op = "login2FA" \/ (r.op = "login" /\ v # NeedsTotp)) => g
  PROVE  Fine([r EXCEPT !.at = "answered", !.ok = ok, !.value = v], s, h, g)
<1>. DEFINE q == [r EXCEPT !.at = "answered", !.ok = ok, !.value = v]
<1>1. DOMAIN r = CallFields
  BY DEF Fine
<1>2. /\ DOMAIN q = CallFields /\ q.op = r.op /\ q.arg = r.arg
      /\ q.at = "answered" /\ q.ok = ok /\ q.value = v
  BY <1>1 DEF CallFields
<1>. HIDE DEF q
<1>3. Fine(q, s, h, g)
  BY <1>2 DEF Fine, Welcomes
<1>. QED  BY <1>3 DEF q

\* The page of a request goes.
LEMMA FineLeft ==
  ASSUME NEW r, NEW s, NEW h, NEW g, Fine(r, s, h, g), r # Idle
  PROVE  Fine([r EXCEPT !.mine = FALSE], s, h, g)
<1>. DEFINE q == [r EXCEPT !.mine = FALSE]
<1>1. DOMAIN r = CallFields
  BY DEF Fine
<1>2. /\ DOMAIN q = CallFields /\ q.op = r.op /\ q.arg = r.arg /\ q.at = r.at
      /\ q.ok = r.ok /\ q.value = r.value /\ q.stale = r.stale
  BY <1>1 DEF CallFields
<1>. HIDE DEF q
<1>3. Fine(q, s, h, g)
  BY <1>2 DEF Fine, Welcomes
<1>. QED  BY <1>3 DEF q

\* A set-up overtakes it, and the secret is another one from now on.
LEMMA FineOvertaken ==
  ASSUME NEW r, NEW s, NEW h, NEW g, NEW s2, Fine(r, s, h, g), r # Idle
  PROVE  Fine([r EXCEPT !.stale = r.stale \/ r.at = "checked"], s2, h, g)
<1>. DEFINE q == [r EXCEPT !.stale = r.stale \/ r.at = "checked"]
<1>1. DOMAIN r = CallFields
  BY DEF Fine
<1>2. /\ DOMAIN q = CallFields /\ q.op = r.op /\ q.arg = r.arg /\ q.at = r.at
      /\ q.ok = r.ok /\ q.value = r.value /\ q.stale = (r.stale \/ r.at = "checked")
  BY <1>1 DEF CallFields
<1>. HIDE DEF q
<1>3. Fine(q, s2, h, g)
  BY <1>2 DEF Fine, Welcomes
<1>. QED  BY <1>3 DEF q

\* One request is answered, the others stay.
LEMMA CallsAnswer ==
  ASSUME NEW s, NEW h, NEW g, CallsFine(calls, s, h, g),
         NEW c \in Calls, calls[c] # Idle, NEW ok, NEW v, Answered(c, ok, v),
         ok /\ (calls[c].op = "login2FA" \/ (calls[c].op = "login" /\ v # NeedsTotp)) => g
  PROVE  CallsFine(calls', s, h, g)
<1>. DEFINE q == [calls[c] EXCEPT !.at = "answered", !.ok = ok, !.value = v]
<1>1. Fine(q, s, h, g)
  BY FineAnswer DEF CallsFine
<1>2. calls' = [calls EXCEPT ![c] = q]
  BY DEF Answered, CallsFine
<1>. HIDE DEF q
<1>. QED  BY <1>1, <1>2 DEF CallsFine

\* Rendering a page posts at most the code it shows.
LEMMA RenderFine ==
  ASSUME NEW p, NEW cs, NEW s, NEW h, NEW g,
         PageFine(p, h), CallsFine(cs, s, h, g), Render(p, cs)
  PROVE  PageFine(page', h) /\ CallsFine(calls', s, h, g)
<1>1. CASE ~Completed(p)
  BY <1>1 DEF Render
<1>2. CASE Completed(p)
  <2>1. page' = Submitting(p) /\ p.code \in h \union {Wrong}
    BY <1>2 DEF Render, Completed, PageFine
  <2>2. PICK c \in Calls :
          cs[c] = Idle /\ calls' = [cs EXCEPT ![c] = Post(CodeOp(p), p.code)]
    BY <1>2 DEF Render
  <2>3. Fine(Post(CodeOp(p), p.code), s, h, g)
    BY <2>1, FinePost DEF CodeOp, Ops
  <2>4. CallsFine(calls', s, h, g)
    BY <2>2, <2>3 DEF CallsFine
  <2>5. PageFine(page', h)
    BY <2>1 DEF Submitting, PageFine, PageFields
  <2>. QED  BY <2>4, <2>5
<1>. QED  BY <1>1, <1>2

-----------------------------------------------------------------------------
(* Steps of the browser                                                     *)

\* A step that leaves the server alone is right when its page and its requests
\* are fine.
LEMMA BrowserStep ==
  ASSUME PagesInv, totp' = totp, session' = session, held \subseteq held',
         going' => session,
         PageFine(page', held'), CallsFine(calls', totp.secret, held', session)
  PROVE  PagesInv'
<1>1. TotpFine'
  BY DEF PagesInv, TotpFine
<1>2. LockedOutByOverlap'
  BY DEF PagesInv, LockedOutByOverlap
<1>3. WelcomeIsGranted'
  BY DEF WelcomeIsGranted
<1>4. PageFine(page, held)' /\ CallsFine(calls, totp.secret, held, session)'
  OBVIOUS
<1>. QED  BY <1>1, <1>2, <1>3, <1>4 DEF PagesInv

\* The page shows something else.
LEMMA ShownStep ==
  ASSUME PagesInv, NEW p, PageFine(p, held), Shown(p)
  PROVE  PagesInv'
<1>1. PageFine(page', held) /\ CallsFine(calls', totp.secret, held, session)
  BY RenderFine DEF Shown, PagesInv
<1>2. UNCHANGED <<totp, session, held, going>> /\ (going => session)
  BY DEF Shown, server, PagesInv, WelcomeIsGranted
<1>. QED  BY <1>1, <1>2, BrowserStep

\* The page sends a request that is no verification, or verifies a code of its
\* own.
LEMMA SentStep ==
  ASSUME PagesInv, NEW op, NEW arg, NEW p, PageFine(p, held), Sent(op, arg, p),
         op \in Ops, op = "verify" => arg \in held \union {Wrong}
  PROVE  PagesInv'
<1>1. PICK c \in Calls : calls[c] = Idle /\ calls' = [calls EXCEPT ![c] = Post(op, arg)]
  BY DEF Sent
<1>2. Fine(Post(op, arg), totp.secret, held, session)
  BY FinePost
<1>3. CallsFine(calls', totp.secret, held, session)
  BY <1>1, <1>2 DEF CallsFine, PagesInv
<1>4. PageFine(page', held) /\ UNCHANGED <<totp, session, held, going>> /\ (going => session)
  BY DEF Sent, server, PagesInv, WelcomeIsGranted
<1>. QED  BY <1>3, <1>4, BrowserStep

\* The member presses, types and scans.
LEMMA FormStep ==
  ASSUME PagesInv,
         \/ \E code \in held \union {Wrong, None} : Type(code)
         \/ PressConfirm \/ SubmitCreds \/ OtherAccount \/ Modal \/ SignUpForm
  PROVE  PagesInv'
<1>1. DOMAIN page = PageFields /\ page.code \in held \union {Wrong, None}
  BY DEF PagesInv, PageFine
<1>2. ASSUME NEW code \in held \union {Wrong, None}, Type(code)  PROVE PagesInv'
  <2>1. PageFine([page EXCEPT !.code = code, !.posts = 0, !.sent = @ /\ code # None], held)
    BY <1>1 DEF PageFine, PageFields
  <2>. QED  BY <1>2, <2>1, ShownStep DEF Type
<1>3. CASE PressConfirm
  <2>1. PageFine([page EXCEPT !.busy = TRUE], held)
    BY <1>1 DEF PageFine, PageFields
  <2>. QED  BY <1>3, <1>1, <2>1, SentStep DEF PressConfirm, Ops, CodeOp
<1>4. CASE SubmitCreds
  <2>1. PageFine([page EXCEPT !.busy = TRUE], held)
    BY <1>1 DEF PageFine, PageFields
  <2>. QED  BY <1>4, <2>1, SentStep DEF SubmitCreds, Ops
<1>5. CASE OtherAccount
  <2>1. PageFine([page EXCEPT !.stage = "creds", !.code = None, !.sent = FALSE, !.posts = 0], held)
    BY <1>1 DEF PageFine, PageFields
  <2>. QED  BY <1>5, <2>1, ShownStep DEF OtherAccount
<1>6. CASE OpenSetup
  <2>1. PageFine([page EXCEPT !.open = TRUE], held)
    BY <1>1 DEF PageFine, PageFields
  <2>. QED  BY <1>6, <2>1, ShownStep DEF OpenSetup
<1>7. CASE CloseSetup
  <2>1. PageFine([page EXCEPT !.open = FALSE, !.step = "intro", !.shown = None,
                        !.code = None, !.sent = FALSE, !.posts = 0, !.busy = FALSE], held)
    BY <1>1 DEF PageFine, PageFields
  <2>. QED  BY <1>7, <2>1, ShownStep DEF CloseSetup
<1>8. CASE StartSetup
  <2>1. PageFine([page EXCEPT !.busy = TRUE], held)
    BY <1>1 DEF PageFine, PageFields
  <2>. QED  BY <1>8, <2>1, SentStep DEF StartSetup, Ops
<1>9. CASE ScanQr
  <2>1. held \subseteq held' /\ UNCHANGED <<totp, session, calls, page, going>>
    BY <1>9 DEF ScanQr, server
  <2>2. PageFine(page', held')
    BY <1>1, <2>1 DEF PageFine
  <2>3. CallsFine(calls', totp.secret, held', session)
    BY <2>1, FineGrows DEF PagesInv, CallsFine
  <2>. QED  BY <2>1, <2>2, <2>3, BrowserStep DEF PagesInv, WelcomeIsGranted
<1>10. CASE PressNext
  <2>1. PageFine([page EXCEPT !.step = "verify", !.posts = 0], held)
    BY <1>1 DEF PageFine, PageFields
  <2>. QED  BY <1>10, <2>1, ShownStep DEF PressNext
<1>11. CASE TypeReferral("typed")
  <2>1. PageFine([page EXCEPT !.form = "typed"], held)
    BY <1>1 DEF PageFine, PageFields
  <2>. QED  BY <1>11, <2>1, ShownStep DEF TypeReferral
<1>12. CASE VerifyIdentity
  BY <1>12, SentStep DEF VerifyIdentity, PagesInv, Ops
<1>13. CASE SubmitSignUp
  <2>1. PageFine([page EXCEPT !.busy = TRUE], held)
    BY <1>1 DEF PageFine, PageFields
  <2>. QED  BY <1>13, <2>1, SentStep DEF SubmitSignUp, Ops
<1>. QED  BY <1>2, <1>3, <1>4, <1>5, <1>6, <1>7, <1>8, <1>9, <1>10, <1>11, <1>12, <1>13
          DEF Modal, SignUpForm

\* The requests of a page that is left, and a page that is new.
LEMMA LeftFine ==
  ASSUME PagesInv
  PROVE  /\ CallsFine(Left(calls), totp.secret, held, session)
         /\ \A name, query : PageFine(Fresh(name, query), held)
<1>1. \A c \in Calls : Fine(Left(calls)[c], totp.secret, held, session)
  <2>. TAKE c \in Calls
  <2>1. Fine(calls[c], totp.secret, held, session)
    BY DEF PagesInv, CallsFine
  <2>2. CASE calls[c] = Idle
    BY <2>2, <2>1 DEF Left
  <2>3. CASE calls[c] # Idle
    BY <2>3, <2>1, FineLeft DEF Left
  <2>. QED  BY <2>2, <2>3
<1>2. CallsFine(Left(calls), totp.secret, held, session)
  BY <1>1 DEF CallsFine, Left
<1>3. \A name, query : PageFine(Fresh(name, query), held)
  BY DEF Fresh, PageFine, PageFields
<1>. QED  BY <1>2, <1>3

\* The member goes to another page, or is taken home, or opens a link.
LEMMA GoStep ==
  ASSUME PagesInv,
         \/ \E name, query : Go(name, query)
         \/ ComeHome
         \/ \E l \in Links : OpenLink(l)
  PROVE  PagesInv'
<1>1. going => session
  BY DEF PagesInv, WelcomeIsGranted
<1>2. ASSUME NEW name, NEW query, Go(name, query)  PROVE PagesInv'
  <2>1. PageFine(page', held) /\ UNCHANGED <<totp, session, held>> /\ ~going'
    BY <1>2, LeftFine DEF Go, server
  <2>2. CASE calls' = Left(calls)
    BY <2>1, <2>2, LeftFine, BrowserStep
  <2>3. CASE \E c \in Calls, op \in OnMount(name) :
               calls[c] = Idle /\ calls' = [Left(calls) EXCEPT ![c] = Post(op, None)]
    <3>1. PICK c \in Calls, op \in OnMount(name) :
            calls' = [Left(calls) EXCEPT ![c] = Post(op, None)]
      BY <2>3
    <3>2. op # "verify" /\ op \in Ops
      BY <3>1 DEF OnMount, Ops
    <3>3. Fine(Post(op, None), totp.secret, held, session)
      BY <3>2, FinePost
    <3>4. CallsFine(calls', totp.secret, held, session)
      BY <3>1, <3>3, LeftFine DEF CallsFine
    <3>. QED  BY <2>1, <3>4, BrowserStep
  <2>. QED  BY <1>2, <2>2, <2>3 DEF Go
<1>3. CASE ComeHome
  BY <1>3, LeftFine, BrowserStep DEF ComeHome, server
<1>4. ASSUME NEW l \in Links, OpenLink(l)  PROVE PagesInv'
  BY <1>1, <1>4, BrowserStep DEF OpenLink, server, PagesInv
<1>. QED  BY <1>2, <1>3, <1>4

\* A page takes an answer.
LEMMA ReceiveStep ==
  ASSUME PagesInv, NEW c \in Calls, Receive(c)
  PROVE  PagesInv'
<1>. DEFINE r == calls[c]
            rest == [calls EXCEPT ![c] = Idle]
<1>1. /\ PageFine(page, held) /\ CallsFine(calls, totp.secret, held, session)
      /\ r # Idle /\ r.at = "answered" /\ (going => session)
  BY DEF PagesInv, WelcomeIsGranted, Receive
<1>2. CallsFine(rest, totp.secret, held, session)
  BY <1>1 DEF CallsFine, Fine
<1>3. Welcomes(r) => session
  BY <1>1 DEF CallsFine, Fine
<1>4. going' => session
  BY <1>1, <1>3 DEF Receive
<1>5. CASE r.mine
  <2>1. r.op \in Ops => PageFine(After(page, r), held)
    <3>1. DOMAIN page = PageFields /\ page.code \in held \union {Wrong, None}
      BY <1>1 DEF PageFine
    <3>2. PageFine(AfterLogin(page, r), held)
      BY <3>1 DEF AfterLogin, PageFine, PageFields
    <3>3. PageFine(AfterCode(page, r), held)
      BY <3>1 DEF AfterCode, PageFine, PageFields
    <3>4. PageFine(AfterSetup(page, r), held)
      BY <3>1 DEF AfterSetup, PageFine, PageFields
    <3>5. PageFine(AfterVerify(page), held)
      BY <3>1 DEF AfterVerify, PageFine, PageFields
    <3>6. /\ PageFine([page EXCEPT !.known = @ \/ r.ok], held)
          /\ PageFine([page EXCEPT !.form = FormWith(page, r.value)], held)
          /\ PageFine([page EXCEPT !.verified = @ \/ r.ok], held)
          /\ PageFine([page EXCEPT !.busy = FALSE], held)
      BY <3>1 DEF PageFine, PageFields
    <3>. QED  BY <3>2, <3>3, <3>4, <3>5, <3>6 DEF After, Ops
  <2>2. r.op \in Ops
    BY <1>1 DEF CallsFine, Fine
  <2>3. Render(After(page, r), rest)
    BY <1>5 DEF Receive
  <2>4. PageFine(page', held) /\ CallsFine(calls', totp.secret, held, session)
    BY <2>1, <2>2, <2>3, <1>2, RenderFine
  <2>. QED  BY <2>4, <1>4, BrowserStep DEF Receive, server
<1>6. CASE ~r.mine
  BY <1>1, <1>2, <1>4, <1>6, BrowserStep DEF Receive, server
<1>. QED  BY <1>5, <1>6

-----------------------------------------------------------------------------
(* Steps of the server and of what else answers                             *)

\* An answer that changes the session at most, and welcomes with one only.
LEMMA AnswerStep ==
  ASSUME PagesInv, NEW c \in Calls, calls[c] # Idle, NEW ok, NEW v, Answered(c, ok, v),
         UNCHANGED <<totp, held, page, going>>, session => session',
         ok /\ (calls[c].op = "login2FA" \/ (calls[c].op = "login" /\ v # NeedsTotp))
           => session'
  PROVE  PagesInv'
<1>1. CallsFine(calls, totp.secret, held, session')
  BY FineGrows DEF PagesInv, CallsFine
<1>2. CallsFine(calls', totp.secret, held, session')
  BY <1>1, CallsAnswer
<1>3. CallsFine(calls, totp.secret, held, session)'
  BY <1>2
<1>4. TotpFine' /\ LockedOutByOverlap' /\ WelcomeIsGranted' /\ PageFine(page, held)'
  BY DEF PagesInv, TotpFine, LockedOutByOverlap, WelcomeIsGranted
<1>. QED  BY <1>3, <1>4 DEF PagesInv

\* A new secret: the factor is off, and no verification that has compared its
\* code is taken for one of the new secret.
LEMMA SetupStep ==
  ASSUME PagesInv, NEW c \in Calls, GenerateSecret(c), UNCHANGED <<held, page, going>>
  PROVE  PagesInv'
<1>1. calls[c] # Idle /\ calls[c].op = "setup"
  BY DEF GenerateSecret, Reaches, Idle
<1>2. CASE Answered(c, FALSE, None) /\ UNCHANGED totp
  BY <1>1, <1>2, AnswerStep DEF GenerateSecret
<1>3. CASE totp' = NewSecret /\ session
  <2>. DEFINE asked == [calls[c] EXCEPT !.at = "answered", !.ok = TRUE,
                                        !.value = totp.issued + 1]
              overtaken(d) == [calls[d] EXCEPT !.stale = calls[d].stale \/ calls[d].at = "checked"]
  <2>1. \A d \in Calls : Fine(calls[d], totp.secret, held, session)
    BY DEF PagesInv, CallsFine
  <2>2. Fine(asked, totp'.secret, held, session)
    <3>1. Fine(calls[c], totp'.secret, held, session)
      <4>1. calls[c].at # "checked"
        BY DEF GenerateSecret, Reaches
      <4>. QED  BY <1>1, <2>1, <4>1 DEF Fine
    <3>. QED  BY <1>1, <3>1, FineAnswer
  <2>3. \A d \in Calls : calls[d] # Idle => Fine(overtaken(d), totp'.secret, held, session)
    BY <2>1, FineOvertaken
  <2>4. calls' = [d \in Calls |->
             CASE d = c -> asked
               [] d # c /\ calls[d] # Idle -> overtaken(d)
               [] OTHER -> Idle]
    <3>1. session /\ totp' # totp
      BY <1>3 DEF NewSecret, PagesInv, TotpFine
    <3>. QED  BY <3>1 DEF GenerateSecret
  <2>. HIDE DEF asked, overtaken
  <2>5. \A d \in Calls : Fine(calls'[d], totp'.secret, held, session)
    BY <2>2, <2>3, <2>4 DEF Fine
  <2>6. calls' = [d \in Calls |-> calls'[d]]
    BY <2>4
  <2>7. CallsFine(calls, totp.secret, held, session)'
    BY <2>5, <2>6 DEF CallsFine, GenerateSecret
  <2>8. TotpFine' /\ LockedOutByOverlap'
    BY <1>3 DEF NewSecret, PagesInv, TotpFine, LockedOutByOverlap, Wrong
  <2>9. WelcomeIsGranted' /\ PageFine(page, held)'
    BY <1>3 DEF PagesInv, WelcomeIsGranted, GenerateSecret
  <2>. QED  BY <2>7, <2>8, <2>9 DEF PagesInv
<1>. QED  BY <1>2, <1>3 DEF GenerateSecret

\* A code is compared; what has matched the secret of now can be made by the
\* authenticator, as it is no secret of its own that a wrong code would match.
LEMMA VerifyStep ==
  ASSUME PagesInv, NEW c \in Calls, VerifyCode(c), UNCHANGED <<held, page, going>>
  PROVE  PagesInv'
<1>1. calls[c] # Idle /\ calls[c].op = "verify" /\ UNCHANGED <<totp, session>>
  BY DEF VerifyCode, Reaches, Idle, server
<1>2. CASE Answered(c, FALSE, None)
  BY <1>1, <1>2, AnswerStep
<1>3. CASE calls[c].arg = totp.secret /\ calls' = [calls EXCEPT ![c].at = "checked"]
  <2>. DEFINE q == [calls[c] EXCEPT !.at = "checked"]
  <2>1. /\ DOMAIN calls[c] = CallFields /\ calls[c].arg \in held \union {Wrong}
    BY <1>1 DEF PagesInv, CallsFine, Fine
  <2>2. /\ DOMAIN q = CallFields /\ q.op = "verify" /\ q.at = "checked"
        /\ q.arg = calls[c].arg
    BY <2>1, <1>1 DEF CallFields
  <2>3. calls' = [calls EXCEPT ![c] = q]
    BY <1>3 DEF PagesInv, CallsFine
  <2>. HIDE DEF q
  <2>4. Fine(q, totp.secret, held, session)
    BY <2>1, <2>2, <1>3 DEF Fine, Ops
  <2>5. CallsFine(calls', totp.secret, held, session)
    BY <2>3, <2>4 DEF PagesInv, CallsFine
  <2>. QED  BY <2>5, <1>1, BrowserStep DEF PagesInv, WelcomeIsGranted
<1>. QED  BY <1>2, <1>3 DEF VerifyCode

\* The factor is enabled with the secret of now: one the member holds, if no
\* set-up came in between.
LEMMA EnableStep ==
  ASSUME PagesInv, NEW c \in Calls, Enable(c), UNCHANGED <<held, page, going>>
  PROVE  PagesInv'
<1>1. /\ calls[c] # Idle /\ calls[c].at = "checked" /\ session' = session
      /\ totp' = [totp EXCEPT !.on = TRUE, !.mixed = calls[c].stale]
      /\ Answered(c, TRUE, None)
  BY DEF Enable
<1>2. /\ calls[c].op = "verify" /\ calls[c].arg \in held \union {Wrong}
      /\ calls[c].stale \/ calls[c].arg = totp.secret
  BY <1>1 DEF PagesInv, CallsFine, Fine
<1>3. /\ DOMAIN totp' = DOMAIN totp /\ totp'.secret = totp.secret
      /\ totp'.issued = totp.issued /\ totp'.mixed = calls[c].stale
  BY <1>1 DEF PagesInv, TotpFine
<1>4. CallsFine(calls, totp.secret, held, session)'
  <2>1. CallsFine(calls', totp.secret, held, session)
    BY <1>1, <1>2, CallsAnswer DEF PagesInv
  <2>. QED  BY <2>1, <1>1, <1>3
<1>5. TotpFine'
  BY <1>3 DEF PagesInv, TotpFine
<1>6. LockedOutByOverlap'
  BY <1>2, <1>3 DEF PagesInv, TotpFine, LockedOutByOverlap
<1>7. WelcomeIsGranted' /\ PageFine(page, held)'
  BY <1>1 DEF PagesInv, WelcomeIsGranted
<1>. QED  BY <1>4, <1>5, <1>6, <1>7 DEF PagesInv

\* The other answers, and the store of the referral code.
LEMMA OtherAnswerStep ==
  ASSUME PagesInv, NEW c \in Calls, UNCHANGED <<held, page, going>>,
         \/ Login(c) \/ LoginWithTotp(c) \/ Status(c) \/ Outside(c) \/ Lost(c)
         \/ ReadStore(c) \/ RemoveStore(c)
  PROVE  PagesInv'
<1>1. CASE Login(c)
  <2>1. calls[c] # Idle /\ calls[c].op = "login" /\ totp' = totp
    BY <1>1 DEF Login, Reaches, Idle
  <2>2. PICK right \in BOOLEAN :
          /\ Answered(c, right, IF right /\ totp.on THEN NeedsTotp ELSE None)
          /\ session' = (session \/ (right /\ ~totp.on))
    BY <1>1 DEF Login
  <2>. DEFINE v == IF right /\ totp.on THEN NeedsTotp ELSE None
  <2>3. right /\ v # NeedsTotp => session'
    BY <2>2
  <2>4. Answered(c, right, v) /\ (session => session')
    BY <2>2
  <2>. HIDE DEF v
  <2>. QED  BY <2>1, <2>3, <2>4, AnswerStep
<1>2. CASE LoginWithTotp(c)
  <2>. DEFINE ok == totp.on /\ calls[c].arg = totp.secret
  <2>1. /\ calls[c] # Idle /\ totp' = totp
        /\ Answered(c, ok, None) /\ session' = (session \/ ok)
    BY <1>2 DEF LoginWithTotp, Reaches, Idle
  <2>. HIDE DEF ok
  <2>. QED  BY <2>1, AnswerStep
<1>3. CASE Status(c)
  <2>1. calls[c].op = "status" /\ Answered(c, TRUE, None)
    BY <1>3 DEF Status, Reaches
  <2>2. calls[c] # Idle
    BY <2>1 DEF Idle
  <2>3. UNCHANGED <<totp, session>>
    BY <1>3 DEF Status, server
  <2>. QED  BY <2>1, <2>2, <2>3, AnswerStep
<1>4. CASE Outside(c)
  <2>1. calls[c].op \in {"identity", "submit"}
    BY <1>4 DEF Outside, Reaches
  <2>2. calls[c] # Idle
    BY <2>1 DEF Idle
  <2>3. PICK ok \in BOOLEAN : Answered(c, ok, None)
    BY <1>4 DEF Outside
  <2>4. UNCHANGED <<totp, session>>
    BY <1>4 DEF Outside, server
  <2>. QED  BY <2>1, <2>2, <2>3, <2>4, AnswerStep
<1>5. CASE Lost(c)
  BY <1>5, AnswerStep DEF Lost, server
<1>6. CASE ReadStore(c)
  <2>1. calls[c] # Idle /\ calls[c].op = "pop" /\ UNCHANGED <<totp, session>>
    BY <1>6 DEF ReadStore, Reaches, Idle, server
  <2>2. CASE Answered(c, TRUE, None)
    BY <2>1, <2>2, AnswerStep
  <2>3. CASE calls' = [calls EXCEPT ![c].at = "got", ![c].value = store]
    <3>. DEFINE q == [calls[c] EXCEPT !.at = "got", !.value = store]
    <3>1. DOMAIN calls[c] = CallFields
      BY <2>1 DEF PagesInv, CallsFine, Fine
    <3>2. DOMAIN q = CallFields /\ q.op = "pop" /\ q.at = "got"
      BY <3>1, <2>1 DEF CallFields
    <3>3. calls' = [calls EXCEPT ![c] = q]
      BY <2>3 DEF PagesInv, CallsFine
    <3>. HIDE DEF q
    <3>4. Fine(q, totp.secret, held, session)
      BY <3>2 DEF Fine, Ops
    <3>5. CallsFine(calls', totp.secret, held, session)
      BY <3>3, <3>4 DEF PagesInv, CallsFine
    <3>. QED  BY <3>5, <2>1, BrowserStep DEF PagesInv, WelcomeIsGranted
  <2>. QED  BY <1>6, <2>2, <2>3 DEF ReadStore
<1>7. CASE RemoveStore(c)
  <2>1. /\ calls[c] # Idle /\ calls[c].op = "pop"
        /\ Answered(c, TRUE, calls[c].value) /\ UNCHANGED <<totp, session>>
    BY <1>7 DEF RemoveStore, server, PagesInv, CallsFine, Fine
  <2>. QED  BY <2>1, AnswerStep
<1>. QED  BY <1>1, <1>2, <1>3, <1>4, <1>5, <1>6, <1>7

-----------------------------------------------------------------------------
(* The theorems                                                             *)

\* Both ways the member can start, with the second factor and without.
LEMMA InitPages == Init => PagesInv
<1>. SUFFICES ASSUME Init PROVE PagesInv
  OBVIOUS
<1>. USE AccountPagesAssumption
<1>1. TotpFine /\ LockedOutByOverlap /\ WelcomeIsGranted
  BY DEF Init, TotpFine, LockedOutByOverlap, WelcomeIsGranted, Wrong
<1>2. PageFine(page, held)
  BY DEF Init, PageFine, Fresh, PageFields
<1>3. CallsFine(calls, totp.secret, held, session)
  BY DEF Init, CallsFine, Fine
<1>. QED  BY <1>1, <1>2, <1>3 DEF PagesInv

\* Every step of the browser, the server and the network keeps the invariant.
LEMMA NextPages == PagesInv /\ [Next]_vars => PagesInv'
<1>. SUFFICES ASSUME PagesInv, [Next]_vars PROVE PagesInv'
  OBVIOUS
<1>1. CASE User
  <2>1. CASE \/ \E name \in {"home", "login", "security"} : Go(name, None)
             \/ \E query \in Links \union {None} : Go("sign_up", query)
             \/ \E l \in Links : OpenLink(l)
    BY <2>1, GoStep
  <2>2. CASE SubmitCreds \/ OtherAccount \/ Digits \/ Modal \/ SignUpForm
    BY <2>2, FormStep DEF Digits
  <2>. QED  BY <1>1, <2>1, <2>2 DEF User
<1>2. CASE ComeHome
  BY <1>2, GoStep
<1>3. ASSUME NEW c \in Calls, AtServer(c)  PROVE PagesInv'
  <2>1. UNCHANGED <<held, page, going>>
    BY <1>3 DEF AtServer
  <2>2. CASE GenerateSecret(c)
    BY <2>1, <2>2, SetupStep
  <2>3. CASE VerifyCode(c)
    BY <2>1, <2>3, VerifyStep
  <2>4. CASE Enable(c)
    BY <2>1, <2>4, EnableStep
  <2>5. CASE Login(c) \/ LoginWithTotp(c) \/ Status(c) \/ Outside(c)
    BY <2>1, <2>5, OtherAnswerStep
  <2>. QED  BY <1>3, <2>2, <2>3, <2>4, <2>5 DEF AtServer
<1>4. ASSUME NEW c \in Calls, ReadStore(c) \/ RemoveStore(c)  PROVE PagesInv'
  BY <1>4, OtherAnswerStep DEF ReadStore, RemoveStore
<1>5. ASSUME NEW c \in Calls, Receive(c)  PROVE PagesInv'
  BY <1>5, ReceiveStep
<1>6. ASSUME NEW c \in Calls, Lost(c) /\ UNCHANGED <<held, page, going, links>>
      PROVE  PagesInv'
  BY <1>6, OtherAnswerStep
<1>7. CASE UNCHANGED vars
  <2>1. UNCHANGED <<totp, held, session, calls, page, going>>
    BY <1>7 DEF vars
  <2>. QED  BY <2>1, BrowserStep DEF PagesInv, WelcomeIsGranted
<1>. QED  BY <1>1, <1>2, <1>3, <1>4, <1>5, <1>6, <1>7 DEF Next, Proceed

\* What holds throughout of the pages, the requests under way and the TOTP
\* columns: generateSecret, verifyAndEnable and the answers to them, in any order.
THEOREM PagesInvariant == Spec => []PagesInv
<1>. QED  BY InitPages, NextPages, PTL DEF Spec

\* A member is locked out by a second factor only where a set-up overtook a
\* verification, for any number of requests, secrets and visits.
THEOREM LockedOutOnlyByOverlap == Spec => []LockedOutByOverlap
<1>1. PagesInv => LockedOutByOverlap
  BY DEF PagesInv
<1>. QED  BY <1>1, PagesInvariant, PTL

\* Nobody is sent home as logged in without a session.
THEOREM WelcomesAreGranted == Spec => []WelcomeIsGranted
<1>1. PagesInv => WelcomeIsGranted
  BY DEF PagesInv
<1>. QED  BY <1>1, PagesInvariant, PTL

-----------------------------------------------------------------------------
(* The type of the state, what a page shows and what it waits for.          *)

OpsOf(name) ==
  CASE name = "home" -> {}
    [] name = "login" -> {"login", "login2FA"}
    [] name = "security" -> {"status", "setup", "verify"}
    [] name = "sign_up" -> {"pop", "identity", "submit"}

\* A request whose answer has the form its page expects.
Formed(r) ==
  \/ r = Idle
  \/ /\ r \in CallRecords
     /\ r.op = "setup" /\ r.ok => r.value \in Secrets
     /\ r.op = "pop" => r.value \in Links \union {None}

\* The requests whose page is still there.
Mine(cs) == {c \in Calls : cs[c] # Idle /\ cs[c].mine}

\* A complete code that the field has not taken yet was not posted by itself.
Unposted(p) ==
  (p.name = "login" /\ p.stage = "totp") \/ (p.name = "security" /\ p.step = "verify")
    => p.sent \/ p.code = None \/ p.posts = 0

PageShaped(p) ==
  /\ p \in PageRecords
  /\ p.posts <= 1 /\ Unposted(p)
  /\ p.open => p.name = "security"
  /\ p.step = "qr" => p.shown \in Secrets

\* A page waits for requests of its own kinds, and the login page for one, while
\* it is busy.
Waits(p, cs) ==
  /\ \A c \in Mine(cs) : cs[c].op \in OpsOf(p.name)
  /\ p.name = "login" => IF p.busy THEN \E c \in Calls : Mine(cs) = {c} ELSE Mine(cs) = {}

SetupCalls(cs) == {c \in Calls : cs[c].op = "setup" /\ cs[c].at = "sent"}

\* Every set-up on its way has a secret left to give out.
SecretsLeft ==
  /\ IsFiniteSet({c \in Calls : calls[c] # Idle})
  /\ totp.issued + Cardinality(SetupCalls(calls)) <= MaxSecrets

\* Reading the code of the sign-up page that is shown.
Reads(cs, at, l) ==
  \E c \in Mine(cs) : cs[c].op = "pop" /\ cs[c].at = at /\ cs[c].value = l

\* One visit reads the store once; and what is in the store, or was taken out for
\* the page that is shown, was put there by a link that filled no form yet.
CodesOwed ==
  /\ \A c, d \in Mine(calls) : calls[c].op = "pop" /\ calls[d].op = "pop" => c = d
  /\ \A l \in Links :
       /\ filled[l] + (IF store = l THEN 1 ELSE 0)
            + (IF Reads(calls, "answered", l) THEN 1 ELSE 0) <= opened[l]
       /\ Reads(calls, "got", l) => filled[l] + 1 <= opened[l]

FormInv ==
  /\ TypeOK
  /\ PageShaped(page)
  /\ \A c \in Calls : Formed(calls[c])
  /\ Waits(page, calls)
  /\ SecretsLeft
  /\ CodesOwed

\* A request that was just posted, by the page that is shown.
LEMMA FormedPost ==
  ASSUME NEW op \in Ops, NEW arg \in Secrets \union {Wrong, None}
  PROVE  /\ Formed(Post(op, arg)) /\ Post(op, arg) # Idle
         /\ Post(op, arg).op = op /\ Post(op, arg).at = "sent" /\ Post(op, arg).mine
<1>1. Post(op, arg) \in CallRecords
  BY DEF Post, CallRecords
<1>2. /\ Post(op, arg).op = op /\ Post(op, arg).at = "sent" /\ Post(op, arg).mine
      /\ ~Post(op, arg).ok /\ Post(op, arg).value = None
  BY DEF Post
<1>3. Idle.op = "none" /\ "none" \notin Ops
  BY DEF Idle, Ops
<1>. QED  BY <1>1, <1>2, <1>3 DEF Formed

\* A request that is none can be told from one, whose answer has the right form.
LEMMA FormedFields ==
  ASSUME NEW q \in CallRecords, q.op = "setup" /\ q.ok => q.value \in Secrets,
         q.op = "pop" => q.value \in Links \union {None}
  PROVE  Formed(q) /\ q # Idle
<1>1. Idle.op = "none" /\ q.op \in Ops /\ "none" \notin Ops
  BY DEF Idle, Ops, CallRecords
<1>. QED  BY <1>1 DEF Formed

\* A request of which nothing else is known has the same form with other marks.
LEMMA FormedMarks ==
  ASSUME NEW r, Formed(r), r # Idle, NEW b \in BOOLEAN
  PROVE  /\ Formed([r EXCEPT !.mine = FALSE]) /\ [r EXCEPT !.mine = FALSE] # Idle
         /\ [r EXCEPT !.mine = FALSE].op = r.op /\ ~[r EXCEPT !.mine = FALSE].mine
         /\ [r EXCEPT !.mine = FALSE].at = r.at
         /\ Formed([r EXCEPT !.stale = b]) /\ [r EXCEPT !.stale = b] # Idle
         /\ [r EXCEPT !.stale = b].op = r.op /\ [r EXCEPT !.stale = b].mine = r.mine
         /\ [r EXCEPT !.stale = b].at = r.at /\ [r EXCEPT !.stale = b].value = r.value
         /\ Formed([r EXCEPT !.at = "checked"]) /\ [r EXCEPT !.at = "checked"] # Idle
         /\ [r EXCEPT !.at = "checked"].op = r.op
         /\ [r EXCEPT !.at = "checked"].mine = r.mine
         /\ [r EXCEPT !.at = "checked"].at = "checked"
<1>. DEFINE q1 == [r EXCEPT !.mine = FALSE]
            q2 == [r EXCEPT !.stale = b]
            q3 == [r EXCEPT !.at = "checked"]
<1>1. r \in CallRecords
  BY DEF Formed
<1>2. /\ q1 \in CallRecords /\ q1.op = r.op /\ ~q1.mine /\ q1.at = r.at
      /\ q1.ok = r.ok /\ q1.value = r.value
  BY <1>1 DEF CallRecords
<1>3. /\ q2 \in CallRecords /\ q2.op = r.op /\ q2.mine = r.mine /\ q2.at = r.at
      /\ q2.ok = r.ok /\ q2.value = r.value
  BY <1>1 DEF CallRecords
<1>4. /\ q3 \in CallRecords /\ q3.op = r.op /\ q3.mine = r.mine /\ q3.at = "checked"
      /\ q3.ok = r.ok /\ q3.value = r.value
  BY <1>1 DEF CallRecords
<1>5. Idle.op = "none" /\ r.op \in Ops /\ "none" \notin Ops
  BY <1>1 DEF Idle, Ops, CallRecords
<1>. HIDE DEF q1, q2, q3
<1>6. Formed(q1) /\ Formed(q2) /\ Formed(q3)
  BY <1>2, <1>3, <1>4 DEF Formed
<1>7. q1 # Idle /\ q2 # Idle /\ q3 # Idle
  BY <1>2, <1>3, <1>4, <1>5
<1>. QED  BY <1>2, <1>3, <1>4, <1>6, <1>7 DEF q1, q2, q3

\* The requests cs are some of the requests ds, as they are or of a page that is
\* gone.
Fewer(cs, ds) ==
  \A c \in Calls :
    cs[c] # Idle => /\ ds[c] # Idle /\ cs[c].op = ds[c].op /\ cs[c].at = ds[c].at
                    /\ cs[c].mine => ds[c].mine /\ cs[c].value = ds[c].value

\* Nothing but one request is added.
Adds(cs, c, op, arg) == cs[c] = Idle /\ calls' = [cs EXCEPT ![c] = Post(op, arg)]

\* Requests that go, or one that comes and may have a secret, leave enough of them.
LEMMA SecretsStayLeft ==
  ASSUME FormInv, totp' = totp, NEW cs, cs = [c \in Calls |-> cs[c]], Fewer(cs, calls),
         \/ calls' = cs
         \/ \E c \in Calls, op \in Ops, arg \in Secrets \union {Wrong, None} :
              /\ Adds(cs, c, op, arg)
              /\ op = "setup" => totp.issued + Cardinality(SetupCalls(calls)) < MaxSecrets
  PROVE  SecretsLeft'
<1>. DEFINE A == {c \in Calls : calls[c] # Idle}
            B == {c \in Calls : calls'[c] # Idle}
            S == SetupCalls(calls)
            T == SetupCalls(calls')
<1>0. /\ IsFiniteSet(A) /\ totp.issued \in Nat /\ MaxSecrets \in Nat
      /\ totp.issued + Cardinality(S) <= MaxSecrets
  BY AccountPagesAssumption DEF FormInv, SecretsLeft, TypeOK
<1>1. S \subseteq A
  BY DEF SetupCalls, Idle
<1>2. IsFiniteSet(S) /\ Cardinality(S) \in Nat
  BY <1>0, <1>1, FS_Subset, FS_CardinalityType
<1>3. CASE calls' = cs
  <2>1. B \subseteq A /\ T \subseteq S
    BY <1>3 DEF Fewer, SetupCalls, Idle
  <2>2. IsFiniteSet(B) /\ Cardinality(T) <= Cardinality(S) /\ Cardinality(T) \in Nat
    BY <1>0, <1>2, <2>1, FS_Subset, FS_CardinalityType
  <2>. QED  BY <1>0, <1>2, <2>2 DEF SecretsLeft
<1>4. ASSUME NEW c \in Calls, NEW op \in Ops, NEW arg \in Secrets \union {Wrong, None},
             Adds(cs, c, op, arg),
             op = "setup" => totp.issued + Cardinality(S) < MaxSecrets
      PROVE  SecretsLeft'
  <2>1. /\ calls'[c] = Post(op, arg)
        /\ \A d \in Calls \ {c} : calls'[d] = cs[d]
    BY <1>4 DEF Adds
  <2>2. B \subseteq A \union {c}
    BY <2>1 DEF Fewer
  <2>3. T \subseteq (IF op = "setup" THEN S \union {c} ELSE S)
    <3>1. ASSUME NEW d \in T  PROVE d \in S \/ (d = c /\ op = "setup")
      <4>1. CASE d = c
        BY <2>1, <3>1, <4>1, FormedPost DEF SetupCalls
      <4>2. CASE d # c
        <5>1. cs[d].op = "setup" /\ cs[d].at = "sent" /\ d \in Calls
          BY <2>1, <3>1, <4>2 DEF SetupCalls
        <5>. QED  BY <5>1 DEF Fewer, SetupCalls, Idle
      <4>. QED  BY <4>1, <4>2
    <3>. QED  BY <3>1
  <2>4. IsFiniteSet(B)
    BY <1>0, <2>2, FS_AddElement, FS_Subset
  <2>5. totp.issued + Cardinality(T) <= MaxSecrets
    <3>1. CASE op = "setup"
      <4>1. /\ IsFiniteSet(S \union {c}) /\ Cardinality(S \union {c}) \in Nat
            /\ Cardinality(S \union {c}) <= Cardinality(S) + 1
        <5>. HIDE DEF S
        <5>1. /\ IsFiniteSet(S \union {c})
              /\ Cardinality(S \union {c}) \in {Cardinality(S), Cardinality(S) + 1}
          BY <1>2, FS_AddElement
        <5>. QED  BY <1>2, <5>1
      <4>2. Cardinality(T) <= Cardinality(S \union {c}) /\ Cardinality(T) \in Nat
        BY <2>3, <3>1, <4>1, FS_Subset, FS_CardinalityType
      <4>. QED  BY <1>0, <1>2, <1>4, <3>1, <4>1, <4>2
    <3>2. CASE op # "setup"
      <4>1. Cardinality(T) <= Cardinality(S) /\ Cardinality(T) \in Nat
        BY <1>2, <2>3, <3>2, FS_Subset, FS_CardinalityType
      <4>. QED  BY <1>0, <1>2, <4>1
    <3>. QED  BY <3>1, <3>2
  <2>. QED  BY <2>4, <2>5 DEF SecretsLeft
<1>. QED  BY <1>3, <1>4

\* Codes stay owed while no request reads one, or the page of one goes.
LEMMA CodesStayOwed ==
  ASSUME FormInv, UNCHANGED <<store, opened, filled>>,
         \A c, d \in Mine(calls') : calls'[c].op = "pop" /\ calls'[d].op = "pop" => c = d,
         \A c \in Mine(calls') : calls'[c].op = "pop" =>
           \/ calls'[c].at = "sent"
           \/ /\ c \in Mine(calls) /\ calls[c].op = "pop"
              /\ calls'[c].at = calls[c].at /\ calls'[c].value = calls[c].value
  PROVE  CodesOwed'
<1>1. ASSUME NEW l \in Links, NEW at \in {"got", "answered"}
      PROVE  Reads(calls', at, l) => Reads(calls, at, l)
  BY DEF Reads
<1>2. \A l \in Links : filled[l] \in Nat /\ opened[l] \in Nat
  BY DEF FormInv, TypeOK
<1>3. ASSUME NEW l \in Links
      PROVE  /\ filled'[l] + (IF store' = l THEN 1 ELSE 0)
                  + (IF Reads(calls', "answered", l) THEN 1 ELSE 0) <= opened'[l]
             /\ Reads(calls', "got", l) => filled'[l] + 1 <= opened'[l]
  <2>1. /\ filled[l] + (IF store = l THEN 1 ELSE 0)
             + (IF Reads(calls, "answered", l) THEN 1 ELSE 0) <= opened[l]
        /\ Reads(calls, "got", l) => filled[l] + 1 <= opened[l]
    BY DEF FormInv, CodesOwed
  <2>2. /\ Reads(calls', "answered", l) => Reads(calls, "answered", l)
        /\ Reads(calls', "got", l) => Reads(calls, "got", l)
    BY <1>1
  <2>. QED  BY <1>2, <2>1, <2>2
<1>. QED  BY <1>3 DEF CodesOwed

\* A page that was not busy sends a request of its kinds, and is busy if it is the
\* login page.
LEMMA WaitsForOne ==
  ASSUME NEW p, NEW cs, Waits(p, cs), cs = [d \in Calls |-> cs[d]],
         NEW c \in Calls, cs[c] = Idle, NEW op \in Ops, op \in OpsOf(p.name),
         NEW arg \in Secrets \union {Wrong, None}, NEW q, q.name = p.name,
         p.name = "login" => ~p.busy /\ q.busy
  PROVE  /\ Mine([cs EXCEPT ![c] = Post(op, arg)]) = Mine(cs) \union {c}
         /\ Waits(q, [cs EXCEPT ![c] = Post(op, arg)])
<1>. DEFINE cs2 == [cs EXCEPT ![c] = Post(op, arg)]
<1>1. /\ cs2[c] = Post(op, arg)
      /\ \A d \in Calls \ {c} : cs2[d] = cs[d]
  OBVIOUS
<1>2. Post(op, arg) # Idle /\ Post(op, arg).op = op /\ Post(op, arg).mine
  BY FormedPost
<1>. HIDE DEF cs2
<1>3. Mine(cs2) = Mine(cs) \union {c}
  BY <1>1, <1>2 DEF Mine
<1>4. \A d \in Mine(cs2) : cs2[d].op \in OpsOf(q.name)
  BY <1>1, <1>2, <1>3 DEF Waits, Mine
<1>5. q.name = "login" => q.busy /\ Mine(cs2) = {c}
  BY <1>3 DEF Waits
<1>6. Waits(q, cs2)
  BY <1>4, <1>5 DEF Waits
<1>. QED  BY <1>3, <1>6 DEF cs2

\* Rendering a page posts a complete code once.
LEMMA RenderForm ==
  ASSUME FormInv, totp' = totp, NEW cs, cs = [c \in Calls |-> cs[c]], Fewer(cs, calls),
         \A c \in Calls : Formed(cs[c]),
         NEW p, PageShaped(p), Waits(p, cs), Render(p, cs)
  PROVE  /\ PageShaped(page') /\ Waits(page', calls') /\ SecretsLeft'
         /\ calls' = [c \in Calls |-> calls'[c]] /\ \A c \in Calls : Formed(calls'[c])
         /\ \A c \in Mine(calls') : calls'[c].op = "pop" => c \in Mine(cs) /\ calls'[c] = cs[c]
<1>1. CASE ~Completed(p)
  <2>1. page' = p /\ calls' = cs
    BY <1>1 DEF Render
  <2>. QED  BY <2>1, SecretsStayLeft
<1>2. CASE Completed(p)
  <2>1. /\ p \in PageRecords /\ p.code # None /\ ~p.sent /\ ~p.busy
        /\ \/ p.name = "login" /\ p.stage = "totp"
           \/ p.name = "security" /\ p.step = "verify"
        /\ p.posts = 0
    BY <1>2 DEF PageShaped, Unposted, Completed, FieldShown
  <2>2. PICK c \in Calls :
          cs[c] = Idle /\ calls' = [cs EXCEPT ![c] = Post(CodeOp(p), p.code)]
    BY <1>2 DEF Render
  <2>. DEFINE op == CodeOp(p)
  <2>3. /\ op \in Ops /\ op \in OpsOf(p.name) /\ op \notin {"pop", "setup"}
        /\ p.code \in Secrets \union {Wrong, None}
    BY <2>1 DEF CodeOp, Ops, OpsOf, PageRecords
  <2>. HIDE DEF op
  <2>4. page' = Submitting(p)
    BY <1>2 DEF Render
  <2>5. /\ page' \in PageRecords /\ page'.name = p.name /\ page'.busy /\ page'.sent
        /\ page'.posts = 1 /\ page'.step = p.step /\ page'.shown = p.shown
        /\ page'.open = p.open
    <3>1. page' = [p EXCEPT !.busy = TRUE, !.sent = TRUE, !.posts = 1]
      BY <2>1, <2>4 DEF Submitting, PageRecords
    <3>2. p \in PageRecords /\ 1 \in 0..2
      BY <2>1
    <3>3. page' \in PageRecords
      BY <3>1, <3>2 DEF PageRecords
    <3>4. /\ page'.name = p.name /\ page'.busy /\ page'.sent
          /\ page'.posts = 1 /\ page'.step = p.step /\ page'.shown = p.shown
          /\ page'.open = p.open
      BY <3>1, <3>2 DEF PageRecords
    <3>. QED  BY <3>3, <3>4
  <2>6. PageShaped(page')
    BY <2>5 DEF PageShaped, Unposted
  <2>7. /\ calls' = [cs EXCEPT ![c] = Post(op, p.code)]
        /\ calls'[c] = Post(op, p.code)
        /\ \A d \in Calls \ {c} : calls'[d] = cs[d]
    BY <2>2 DEF op
  <2>8. Waits(page', calls') /\ Mine(calls') = Mine(cs) \union {c}
    <3>1. /\ Mine([cs EXCEPT ![c] = Post(op, p.code)]) = Mine(cs) \union {c}
          /\ Waits(page', [cs EXCEPT ![c] = Post(op, p.code)])
      BY <2>1, <2>2, <2>3, <2>5, WaitsForOne
    <3>. QED  BY <2>7, <3>1
  <2>9. SecretsLeft'
    BY <2>2, <2>3, <2>7, SecretsStayLeft DEF Adds
  <2>10. /\ \A d \in Calls : Formed(calls'[d])
         /\ calls'[c].op \notin {"pop"}
    BY <2>3, <2>7, FormedPost
  <2>. QED  BY <2>6, <2>7, <2>8, <2>9, <2>10
<1>. QED  BY <1>1, <1>2

-----------------------------------------------------------------------------
(* Steps of the browser: the type of the state                              *)

\* The requests under way are some of themselves, and fine.
LEMMA CallsThemselves ==
  ASSUME FormInv
  PROVE  /\ calls = [c \in Calls |-> calls[c]] /\ Fewer(calls, calls)
         /\ PageShaped(page) /\ Waits(page, calls)
         /\ \A c \in Calls : Formed(calls[c])
         /\ \A c, d \in Mine(calls) : calls[c].op = "pop" /\ calls[d].op = "pop" => c = d
BY DEF FormInv, TypeOK, Fewer, CodesOwed

\* What a step has to show when it leaves the server and the links alone.
LEMMA FormStays ==
  ASSUME FormInv, UNCHANGED <<totp, session, links>>, held' \subseteq Secrets,
         going' \in BOOLEAN, PageShaped(page'), Waits(page', calls'), SecretsLeft',
         calls' = [c \in Calls |-> calls'[c]], \A c \in Calls : Formed(calls'[c]),
         CodesOwed'
  PROVE  FormInv'
<1>1. page' \in PageRecords /\ calls' \in [Calls -> CallRecords \union {Idle}]
  BY DEF PageShaped, Formed
<1>2. TypeOK'
  BY <1>1 DEF FormInv, TypeOK, links
<1>. QED  BY <1>2 DEF FormInv

\* The page shows something else.
LEMMA ShownForm ==
  ASSUME FormInv, NEW p, PageShaped(p), Shown(p), Waits(p, calls)
  PROVE  FormInv'
<1>1. /\ PageShaped(page') /\ Waits(page', calls') /\ SecretsLeft'
      /\ calls' = [c \in Calls |-> calls'[c]] /\ \A c \in Calls : Formed(calls'[c])
      /\ \A c \in Mine(calls') :
           calls'[c].op = "pop" => c \in Mine(calls) /\ calls'[c] = calls[c]
  BY CallsThemselves, RenderForm DEF Shown, server
<1>2. UNCHANGED <<totp, session, links>> /\ held' \subseteq Secrets /\ going' \in BOOLEAN
  BY DEF Shown, server, FormInv, TypeOK
<1>3. CodesOwed'
  BY <1>1, <1>2, CallsThemselves, CodesStayOwed DEF links
<1>. QED  BY <1>1, <1>2, <1>3, FormStays

\* The page sends a request, which takes no code from the store.
LEMMA SentForm ==
  ASSUME FormInv, NEW op \in Ops, NEW arg \in Secrets \union {Wrong, None}, NEW p,
         PageShaped(p), Sent(op, arg, p), p.name = page.name, op \in OpsOf(page.name),
         page.name = "login" => ~page.busy /\ p.busy, op # "pop",
         op = "setup" => totp.issued + Cardinality(SetupCalls(calls)) < MaxSecrets
  PROVE  FormInv'
<1>1. PICK c \in Calls : calls[c] = Idle /\ calls' = [calls EXCEPT ![c] = Post(op, arg)]
  BY DEF Sent
<1>2. /\ page' = p /\ UNCHANGED <<totp, session, links>>
      /\ held' \subseteq Secrets /\ going' \in BOOLEAN
  BY DEF Sent, server, FormInv, TypeOK
<1>3. /\ calls'[c] = Post(op, arg)
      /\ \A d \in Calls \ {c} : calls'[d] = calls[d]
      /\ calls' = [d \in Calls |-> calls'[d]]
  BY <1>1, CallsThemselves
<1>4. Waits(page', calls') /\ Mine(calls') = Mine(calls) \union {c}
  <2>1. Waits(page, calls) /\ calls = [d \in Calls |-> calls[d]]
    BY CallsThemselves
  <2>2. /\ Mine([calls EXCEPT ![c] = Post(op, arg)]) = Mine(calls) \union {c}
        /\ Waits(p, [calls EXCEPT ![c] = Post(op, arg)])
    BY <1>1, <2>1, WaitsForOne
  <2>. QED  BY <1>1, <1>2, <2>2
<1>5. SecretsLeft'
  BY <1>1, <1>2, CallsThemselves, SecretsStayLeft DEF Adds
<1>6. \A d \in Calls : Formed(calls'[d])
  BY <1>3, CallsThemselves, FormedPost
<1>7. calls'[c].op # "pop"
  BY <1>3, FormedPost
<1>8. CodesOwed'
  <2>1. \A d \in Mine(calls') :
          calls'[d].op = "pop" => d \in Mine(calls) /\ calls'[d] = calls[d]
    BY <1>3, <1>4, <1>7 DEF Mine
  <2>. QED  BY <1>2, <2>1, CallsThemselves, CodesStayOwed DEF links
<1>. QED  BY <1>2, <1>3, <1>4, <1>5, <1>6, <1>8, FormStays

\* A page that is as busy as it was waits for what it waited for.
LEMMA WaitsSame ==
  ASSUME NEW p, NEW cs, Waits(p, cs), NEW q, q.name = p.name,
         p.name = "login" => q.busy = p.busy
  PROVE  Waits(q, cs)
BY DEF Waits

\* The member types digits, or confirms them.
LEMMA DigitsForm ==
  ASSUME FormInv, Digits
  PROVE  FormInv'
<1>1. /\ page \in PageRecords /\ PageShaped(page) /\ Waits(page, calls)
      /\ held \subseteq Secrets
  BY DEF FormInv, PageShaped, TypeOK
<1>2. ASSUME NEW code \in held \union {Wrong, None}, Type(code)  PROVE FormInv'
  <2>. DEFINE p == [page EXCEPT !.code = code, !.posts = 0, !.sent = @ /\ code # None]
  <2>1. code \in Secrets \union {Wrong, None} /\ 0 \in 0..2
    BY <1>1
  <2>2. p \in PageRecords
    <3>1. PICK b \in BOOLEAN : p = [page EXCEPT !.code = code, !.posts = 0, !.sent = b]
      <4>1. p = [page EXCEPT !.code = code, !.posts = 0,
                             !.sent = page.sent /\ code # None]
        OBVIOUS
      <4>. QED  BY <4>1
    <3>. HIDE DEF p
    <3>. QED  BY <1>1, <2>1, <3>1 DEF PageRecords
  <2>3. /\ p.name = page.name /\ p.busy = page.busy /\ p.posts = 0 /\ p.open = page.open
        /\ p.step = page.step /\ p.shown = page.shown
    BY <1>1 DEF PageRecords
  <2>4. Shown(p)
    BY <1>2 DEF Type
  <2>. HIDE DEF p
  <2>5. PageShaped(p) /\ Waits(p, calls)
    BY <1>1, <2>2, <2>3, WaitsSame DEF PageShaped, Unposted
  <2>. QED  BY <2>4, <2>5, ShownForm
<1>3. CASE PressConfirm
  <2>. DEFINE p == [page EXCEPT !.busy = TRUE]
              op == CodeOp(page)
  <2>1. /\ p \in PageRecords
        /\ p.name = page.name /\ p.busy /\ p.posts = page.posts /\ p.open = page.open
        /\ p.step = page.step /\ p.shown = page.shown /\ p.stage = page.stage
        /\ p.sent = page.sent /\ p.code = page.code
    BY <1>1 DEF PageRecords
  <2>2. Sent(op, page.code, p) /\ ~page.busy
    BY <1>3 DEF PressConfirm
  <2>3. /\ op \in Ops /\ op \in OpsOf(page.name) /\ op \notin {"pop", "setup"}
        /\ page.code \in Secrets \union {Wrong, None}
    BY <1>1, <1>3 DEF PressConfirm, FieldShown, CodeOp, Ops, OpsOf, PageRecords
  <2>. HIDE DEF p, op
  <2>4. PageShaped(p)
    BY <1>1, <2>1 DEF PageShaped, Unposted
  <2>. QED  BY <2>1, <2>2, <2>3, <2>4, SentForm
<1>. QED  BY <1>2, <1>3 DEF Digits

\* The log-in page: the first step, and the way back to it.
LEMMA LoginForm ==
  ASSUME FormInv, SubmitCreds \/ OtherAccount
  PROVE  FormInv'
<1>1. page \in PageRecords /\ PageShaped(page) /\ Waits(page, calls)
  BY DEF FormInv, PageShaped
<1>2. CASE SubmitCreds
  <2>. DEFINE p == [page EXCEPT !.busy = TRUE]
  <2>1. /\ p \in PageRecords
        /\ p.name = page.name /\ p.busy /\ p.posts = page.posts /\ p.open = page.open
        /\ p.step = page.step /\ p.shown = page.shown /\ p.stage = page.stage
        /\ p.sent = page.sent /\ p.code = page.code
    BY <1>1 DEF PageRecords
  <2>2. Sent("login", None, p) /\ page.name = "login" /\ ~page.busy
    BY <1>2 DEF SubmitCreds
  <2>3. "login" \in Ops /\ "login" \in OpsOf(page.name)
    BY <2>2 DEF Ops, OpsOf
  <2>. HIDE DEF p
  <2>4. PageShaped(p)
    BY <1>1, <2>1 DEF PageShaped, Unposted
  <2>. QED  BY <2>1, <2>2, <2>3, <2>4, SentForm
<1>3. CASE OtherAccount
  <2>. DEFINE p == [page EXCEPT !.stage = "creds", !.code = None, !.sent = FALSE, !.posts = 0]
  <2>1. p \in PageRecords
    BY <1>1, 0 \in 0..2 DEF PageRecords
  <2>2. /\ p.name = page.name /\ p.busy = page.busy /\ p.posts = 0 /\ p.open = page.open
        /\ p.step = page.step /\ p.shown = page.shown
    BY <1>1 DEF PageRecords
  <2>3. Shown(p)
    BY <1>3 DEF OtherAccount
  <2>. HIDE DEF p
  <2>4. PageShaped(p) /\ Waits(p, calls)
    BY <1>1, <2>1, <2>2, WaitsSame DEF PageShaped, Unposted
  <2>. QED  BY <2>3, <2>4, ShownForm
<1>. QED  BY <1>2, <1>3

\* The dialog of the security page.
LEMMA ModalForm ==
  ASSUME FormInv, Modal
  PROVE  FormInv'
<1>1. page \in PageRecords /\ PageShaped(page) /\ Waits(page, calls)
  BY DEF FormInv, PageShaped
<1>2. CASE OpenSetup
  <2>. DEFINE p == [page EXCEPT !.open = TRUE]
  <2>1. /\ p \in PageRecords
        /\ p.name = page.name /\ p.busy = page.busy /\ p.posts = page.posts
        /\ p.step = page.step /\ p.shown = page.shown /\ p.stage = page.stage
        /\ p.sent = page.sent /\ p.code = page.code
    BY <1>1 DEF PageRecords
  <2>2. Shown(p) /\ page.name = "security"
    BY <1>2 DEF OpenSetup
  <2>. HIDE DEF p
  <2>3. PageShaped(p) /\ Waits(p, calls)
    BY <1>1, <2>1, <2>2, WaitsSame DEF PageShaped, Unposted
  <2>. QED  BY <2>2, <2>3, ShownForm
<1>3. CASE CloseSetup
  <2>. DEFINE p == [page EXCEPT !.open = FALSE, !.step = "intro", !.shown = None,
                        !.code = None, !.sent = FALSE, !.posts = 0, !.busy = FALSE]
  <2>1. p \in PageRecords
    BY <1>1, 0 \in 0..2 DEF PageRecords
  <2>2. /\ p.name = page.name /\ p.posts = 0 /\ ~p.open /\ p.step = "intro"
    BY <1>1 DEF PageRecords
  <2>3. Shown(p) /\ page.name = "security"
    BY <1>3 DEF CloseSetup
  <2>. HIDE DEF p
  <2>4. PageShaped(p) /\ Waits(p, calls)
    BY <1>1, <2>1, <2>2, <2>3, WaitsSame DEF PageShaped, Unposted
  <2>. QED  BY <2>3, <2>4, ShownForm
<1>4. CASE StartSetup
  <2>. DEFINE p == [page EXCEPT !.busy = TRUE]
  <2>1. /\ p \in PageRecords
        /\ p.name = page.name /\ p.busy /\ p.posts = page.posts /\ p.open = page.open
        /\ p.step = page.step /\ p.shown = page.shown /\ p.stage = page.stage
        /\ p.sent = page.sent /\ p.code = page.code
    BY <1>1 DEF PageRecords
  <2>2. /\ Sent("setup", None, p) /\ page.open
        /\ totp.issued + Cardinality(SetupCalls(calls)) < MaxSecrets
    BY <1>4 DEF StartSetup, SetupsUnderWay, SetupCalls
  <2>3. page.name = "security" /\ "setup" \in Ops /\ "setup" \in OpsOf(page.name)
    BY <1>1, <2>2 DEF PageShaped, Ops, OpsOf
  <2>. HIDE DEF p
  <2>4. PageShaped(p)
    BY <1>1, <2>1 DEF PageShaped, Unposted
  <2>. QED  BY <2>1, <2>2, <2>3, <2>4, SentForm
<1>5. CASE ScanQr
  <2>1. /\ held' \subseteq Secrets /\ UNCHANGED <<totp, session, links, calls, page, going>>
    BY <1>1, <1>5 DEF ScanQr, server, PageShaped, FormInv, TypeOK
  <2>2. SecretsLeft' /\ CodesOwed'
    BY <2>1, CallsThemselves, SecretsStayLeft, CodesStayOwed DEF links
  <2>3. going' \in BOOLEAN
    BY <2>1 DEF FormInv, TypeOK
  <2>. QED  BY <2>1, <2>2, <2>3, CallsThemselves, FormStays
<1>6. CASE PressNext
  <2>. DEFINE p == [page EXCEPT !.step = "verify", !.posts = 0]
  <2>1. p \in PageRecords
    BY <1>1, 0 \in 0..2 DEF PageRecords
  <2>2. /\ p.name = page.name /\ p.busy = page.busy /\ p.posts = 0 /\ p.open = page.open
        /\ p.step = "verify"
    BY <1>1 DEF PageRecords
  <2>3. Shown(p)
    BY <1>6 DEF PressNext
  <2>. HIDE DEF p
  <2>4. PageShaped(p) /\ Waits(p, calls)
    BY <1>1, <2>1, <2>2, WaitsSame DEF PageShaped, Unposted
  <2>. QED  BY <2>3, <2>4, ShownForm
<1>. QED  BY <1>2, <1>3, <1>4, <1>5, <1>6 DEF Modal

\* The sign-up page.
LEMMA SignUpFormForm ==
  ASSUME FormInv, SignUpForm
  PROVE  FormInv'
<1>1. page \in PageRecords /\ PageShaped(page) /\ Waits(page, calls)
  BY DEF FormInv, PageShaped
<1>2. CASE TypeReferral("typed")
  <2>. DEFINE p == [page EXCEPT !.form = "typed"]
  <2>1. /\ p \in PageRecords
        /\ p.name = page.name /\ p.busy = page.busy /\ p.posts = page.posts
        /\ p.step = page.step /\ p.shown = page.shown /\ p.stage = page.stage
        /\ p.sent = page.sent /\ p.code = page.code /\ p.open = page.open
    BY <1>1 DEF PageRecords
  <2>2. Shown(p)
    BY <1>2 DEF TypeReferral
  <2>. HIDE DEF p
  <2>3. PageShaped(p) /\ Waits(p, calls)
    BY <1>1, <2>1, <2>2, WaitsSame DEF PageShaped, Unposted
  <2>. QED  BY <2>2, <2>3, ShownForm
<1>3. CASE VerifyIdentity
  <2>1. Sent("identity", None, page) /\ page.name = "sign_up"
    BY <1>3 DEF VerifyIdentity
  <2>2. "identity" \in Ops /\ "identity" \in OpsOf(page.name)
    BY <2>1 DEF Ops, OpsOf
  <2>. QED  BY <1>1, <2>1, <2>2, SentForm
<1>4. CASE SubmitSignUp
  <2>. DEFINE p == [page EXCEPT !.busy = TRUE]
  <2>1. /\ p \in PageRecords
        /\ p.name = page.name /\ p.busy /\ p.posts = page.posts /\ p.open = page.open
        /\ p.step = page.step /\ p.shown = page.shown /\ p.stage = page.stage
        /\ p.sent = page.sent /\ p.code = page.code
    BY <1>1 DEF PageRecords
  <2>2. Sent("submit", None, p) /\ page.name = "sign_up"
    BY <1>4 DEF SubmitSignUp
  <2>3. "submit" \in Ops /\ "submit" \in OpsOf(page.name)
    BY <2>2 DEF Ops, OpsOf
  <2>. HIDE DEF p
  <2>4. PageShaped(p)
    BY <1>1, <2>1 DEF PageShaped, Unposted
  <2>. QED  BY <2>1, <2>2, <2>3, <2>4, SentForm
<1>. QED  BY <1>2, <1>3, <1>4 DEF SignUpForm

-----------------------------------------------------------------------------
(* From page to page: the type of the state                                 *)

\* What a state has to be.
LEMMA FormHolds ==
  ASSUME totp' \in [secret : Secrets \union {None}, on : BOOLEAN,
                    issued : 0..MaxSecrets, mixed : BOOLEAN],
         held' \subseteq Secrets, session' \in BOOLEAN, going' \in BOOLEAN,
         PageShaped(page'), Waits(page', calls'), SecretsLeft',
         calls' = [c \in Calls |-> calls'[c]], \A c \in Calls : Formed(calls'[c]),
         store' \in Links \union {None}, opened' \in [Links -> 0..MaxOpens],
         filled' \in [Links -> 0..(MaxOpens + 1)], CodesOwed'
  PROVE  FormInv'
<1>1. page' \in PageRecords /\ calls' \in [Calls -> CallRecords \union {Idle}]
  BY DEF PageShaped, Formed
<1>2. TypeOK'
  BY <1>1 DEF TypeOK
<1>. QED  BY <1>2 DEF FormInv

\* A new page, and the requests of the page that was left.
LEMMA LeftForm ==
  ASSUME FormInv
  PROVE  /\ Left(calls) = [c \in Calls |-> Left(calls)[c]] /\ Fewer(Left(calls), calls)
         /\ \A c \in Calls : Formed(Left(calls)[c])
         /\ Mine(Left(calls)) = {}
         /\ \A name \in {"home", "login", "security", "sign_up"},
               query \in Links \union {None} :
              /\ PageShaped(Fresh(name, query)) /\ Waits(Fresh(name, query), Left(calls))
              /\ Fresh(name, query).name = name
<1>1. ASSUME NEW c \in Calls
      PROVE  /\ Formed(Left(calls)[c])
             /\ Left(calls)[c] = Idle <=> calls[c] = Idle
             /\ calls[c] # Idle => /\ Left(calls)[c].op = calls[c].op
                                   /\ Left(calls)[c].at = calls[c].at
                                   /\ ~Left(calls)[c].mine
  <2>1. Formed(calls[c])
    BY DEF FormInv
  <2>2. CASE calls[c] = Idle
    BY <2>1, <2>2 DEF Left
  <2>3. CASE calls[c] # Idle
    BY <2>1, <2>3, FormedMarks DEF Left
  <2>. QED  BY <2>2, <2>3
<1>2. Left(calls) = [c \in Calls |-> Left(calls)[c]]
  BY DEF Left
<1>3. Fewer(Left(calls), calls) /\ Mine(Left(calls)) = {}
  BY <1>1 DEF Fewer, Mine
<1>4. ASSUME NEW name \in {"home", "login", "security", "sign_up"},
             NEW query \in Links \union {None}
      PROVE  /\ PageShaped(Fresh(name, query)) /\ Waits(Fresh(name, query), Left(calls))
             /\ Fresh(name, query).name = name
  <2>. DEFINE p == Fresh(name, query)
  <2>1. p \in PageRecords
    BY 0 \in 0..2 DEF Fresh, PageRecords
  <2>2. /\ p.name = name /\ ~p.busy /\ ~p.open /\ p.posts = 0 /\ p.step = "intro"
    BY DEF Fresh
  <2>. HIDE DEF p
  <2>3. PageShaped(p) /\ Waits(p, Left(calls))
    BY <1>3, <2>1, <2>2 DEF PageShaped, Unposted, Waits
  <2>. QED  BY <2>2, <2>3 DEF p
<1>. QED  BY <1>1, <1>2, <1>3, <1>4

\* The member goes to another page, which may ask for something at first.
LEMMA GoForm ==
  ASSUME FormInv, NEW name \in {"home", "login", "security", "sign_up"},
         NEW query \in Links \union {None}, Go(name, query)
  PROVE  FormInv'
<1>. DEFINE p == Fresh(name, query)
<1>1. /\ page' = p /\ UNCHANGED <<totp, session, links>>
      /\ held' \subseteq Secrets /\ going' \in BOOLEAN
  BY DEF Go, server, FormInv, TypeOK
<1>2. PageShaped(p) /\ Waits(p, Left(calls)) /\ p.name = name
  BY LeftForm
<1>. HIDE DEF p
<1>3. CASE calls' = Left(calls)
  <2>1. SecretsLeft' /\ CodesOwed'
    BY <1>1, <1>3, LeftForm, SecretsStayLeft, CodesStayOwed DEF links
  <2>. QED  BY <1>1, <1>2, <1>3, <2>1, LeftForm, FormStays
<1>4. ASSUME NEW c \in Calls, NEW op \in OnMount(name), calls[c] = Idle,
             calls' = [Left(calls) EXCEPT ![c] = Post(op, None)]
      PROVE  FormInv'
  <2>1. op \in Ops /\ op \in OpsOf(p.name) /\ op # "setup" /\ p.name # "login"
    BY <1>2, <1>4 DEF OnMount, Ops, OpsOf
  <2>2. Left(calls)[c] = Idle /\ None \in Secrets \union {Wrong, None}
    BY <1>4 DEF Left
  <2>3. /\ Mine(calls') = {c} /\ Waits(p, calls')
    <3>1. Left(calls) = [d \in Calls |-> Left(calls)[d]] /\ Mine(Left(calls)) = {}
      BY LeftForm
    <3>2. /\ Mine([Left(calls) EXCEPT ![c] = Post(op, None)]) = Mine(Left(calls)) \union {c}
          /\ Waits(p, [Left(calls) EXCEPT ![c] = Post(op, None)])
      BY <1>2, <2>1, <2>2, <3>1, WaitsForOne
    <3>. QED  BY <1>4, <3>1, <3>2
  <2>4. /\ calls'[c] = Post(op, None)
        /\ \A d \in Calls \ {c} : calls'[d] = Left(calls)[d]
        /\ calls' = [d \in Calls |-> calls'[d]]
    BY <1>4, LeftForm
  <2>5. SecretsLeft'
    BY <1>1, <1>4, <2>1, <2>2, LeftForm, SecretsStayLeft DEF Adds
  <2>6. (\A d \in Calls : Formed(calls'[d])) /\ calls'[c].at = "sent"
    BY <2>1, <2>2, <2>4, LeftForm, FormedPost
  <2>7. CodesOwed'
    BY <1>1, <2>3, <2>6, CodesStayOwed DEF links
  <2>. QED  BY <1>1, <1>2, <2>3, <2>4, <2>5, <2>6, <2>7, FormStays
<1>. QED  BY <1>3, <1>4 DEF Go

\* The way home of a login.
LEMMA HomeForm ==
  ASSUME FormInv, ComeHome
  PROVE  FormInv'
<1>1. /\ page' = Fresh("home", None) /\ calls' = Left(calls)
      /\ UNCHANGED <<totp, session, links>>
      /\ held' \subseteq Secrets /\ going' \in BOOLEAN
  BY DEF ComeHome, server, FormInv, TypeOK
<1>2. SecretsLeft' /\ CodesOwed'
  BY <1>1, LeftForm, SecretsStayLeft, CodesStayOwed DEF links
<1>3. PageShaped(Fresh("home", None)) /\ Waits(Fresh("home", None), Left(calls))
  BY LeftForm
<1>. QED  BY <1>1, <1>2, <1>3, LeftForm, FormStays

\* A link is opened: one more form may have its code.
LEMMA LinkForm ==
  ASSUME FormInv, NEW k \in Links, OpenLink(k)
  PROVE  FormInv'
<1>1. /\ store' = k /\ opened' = [opened EXCEPT ![k] = @ + 1] /\ opened[k] < MaxOpens
      /\ UNCHANGED <<totp, session, held, calls, page, going, filled>>
  BY DEF OpenLink, server
<1>2. TypeOK
  BY DEF FormInv
<1>3. SecretsLeft'
  BY <1>1 DEF FormInv, SecretsLeft
<1>4. MaxOpens \in Nat
  BY AccountPagesAssumption
<1>5. opened' \in [Links -> 0..MaxOpens]
  BY <1>1, <1>2, <1>4 DEF TypeOK
<1>6. CodesOwed'
  <2>1. ASSUME NEW l \in Links
        PROVE  /\ filled'[l] + (IF store' = l THEN 1 ELSE 0)
                    + (IF Reads(calls', "answered", l) THEN 1 ELSE 0) <= opened'[l]
               /\ Reads(calls', "got", l) => filled'[l] + 1 <= opened'[l]
    <3>1. /\ filled[l] + (IF store = l THEN 1 ELSE 0)
               + (IF Reads(calls, "answered", l) THEN 1 ELSE 0) <= opened[l]
          /\ Reads(calls, "got", l) => filled[l] + 1 <= opened[l]
          /\ filled[l] \in Nat /\ opened[l] \in Nat
      BY <1>2 DEF FormInv, CodesOwed, TypeOK
    <3>2. opened'[l] = IF l = k THEN opened[l] + 1 ELSE opened[l]
      BY <1>1, <1>2 DEF TypeOK
    <3>. QED  BY <1>1, <3>1, <3>2
  <2>. QED  BY <1>1, <2>1, CallsThemselves DEF CodesOwed
<1>. QED  BY <1>1, <1>2, <1>3, <1>5, <1>6, CallsThemselves, FormHolds DEF TypeOK

-----------------------------------------------------------------------------
(* The server, the store and the answers: the type of the state             *)

\* One request gets further and stays what it is; no set-up is sent.
LEMMA FurtherForm ==
  ASSUME FormInv, NEW c \in Calls, calls[c] # Idle, NEW q, q # Idle, Formed(q),
         q.op = calls[c].op, q.mine = calls[c].mine, q.at # "sent",
         calls' = [calls EXCEPT ![c] = q], totp'.issued = totp.issued, page' = page
  PROVE  /\ calls' = [d \in Calls |-> calls'[d]] /\ \A d \in Calls : Formed(calls'[d])
         /\ calls'[c] = q /\ \A d \in Calls \ {c} : calls'[d] = calls[d]
         /\ Mine(calls') = Mine(calls)
         /\ Waits(page', calls') /\ SecretsLeft'
<1>1. /\ calls' = [d \in Calls |-> calls'[d]] /\ calls'[c] = q
      /\ \A d \in Calls \ {c} : calls'[d] = calls[d]
  BY CallsThemselves
<1>2. Mine(calls') = Mine(calls)
  BY <1>1 DEF Mine
<1>3. Waits(page, calls')
  <2>1. \A d \in Mine(calls') : calls'[d].op \in OpsOf(page.name)
    BY <1>1, <1>2, CallsThemselves DEF Waits
  <2>. QED  BY <1>2, <2>1, CallsThemselves DEF Waits
<1>4. SecretsLeft'
  <2>. DEFINE S == SetupCalls(calls)
              T == SetupCalls(calls')
  <2>1. {d \in Calls : calls'[d] # Idle} = {d \in Calls : calls[d] # Idle}
    BY <1>1
  <2>2. T \subseteq S
    BY <1>1 DEF SetupCalls
  <2>3. S \subseteq {d \in Calls : calls[d] # Idle}
    BY DEF SetupCalls, Idle
  <2>4. /\ IsFiniteSet({d \in Calls : calls[d] # Idle})
        /\ totp.issued + Cardinality(S) <= MaxSecrets
        /\ totp.issued \in Nat /\ MaxSecrets \in Nat
    BY AccountPagesAssumption DEF FormInv, SecretsLeft, TypeOK
  <2>5. IsFiniteSet(S)
    BY <2>3, <2>4, FS_Subset
  <2>6. /\ Cardinality(T) <= Cardinality(S)
        /\ Cardinality(T) \in Nat /\ Cardinality(S) \in Nat
    BY <2>2, <2>5, FS_Subset, FS_CardinalityType
  <2>7. totp.issued + Cardinality(T) <= MaxSecrets
    <3>. HIDE DEF S, T
    <3>. QED  BY <2>4, <2>6
  <2>. QED  BY <2>1, <2>4, <2>7 DEF SecretsLeft
<1>5. \A d \in Calls : Formed(calls'[d])
  BY <1>1, CallsThemselves
<1>. QED  BY <1>1, <1>2, <1>3, <1>4, <1>5

\* An answer that gives out no secret.
LEMMA AnswerForm ==
  ASSUME FormInv, NEW c \in Calls, calls[c] # Idle, NEW ok \in BOOLEAN,
         NEW v \in Secrets \union Links \union {None, NeedsTotp}, Answered(c, ok, v),
         calls[c].op # "setup" \/ ~ok, calls[c].op # "pop",
         totp' \in [secret : Secrets \union {None}, on : BOOLEAN,
                    issued : 0..MaxSecrets, mixed : BOOLEAN],
         totp'.issued = totp.issued, session' \in BOOLEAN,
         UNCHANGED <<held, page, going, links>>
  PROVE  FormInv'
<1>. DEFINE q == [calls[c] EXCEPT !.at = "answered", !.ok = ok, !.value = v]
<1>1. /\ Formed(q) /\ q # Idle /\ q.op = calls[c].op /\ q.mine = calls[c].mine
      /\ q.at = "answered"
  <2>1. calls[c] \in CallRecords
    BY CallsThemselves DEF Formed
  <2>2. /\ q \in CallRecords /\ q.op = calls[c].op /\ q.mine = calls[c].mine
        /\ q.at = "answered" /\ q.ok = ok /\ q.value = v
    BY <2>1 DEF CallRecords
  <2>. HIDE DEF q
  <2>. QED  BY <2>2, FormedFields
<1>2. calls' = [calls EXCEPT ![c] = q]
  BY CallsThemselves DEF Answered
<1>. HIDE DEF q
<1>3. /\ calls' = [d \in Calls |-> calls'[d]] /\ \A d \in Calls : Formed(calls'[d])
      /\ calls'[c] = q /\ \A d \in Calls \ {c} : calls'[d] = calls[d]
      /\ Mine(calls') = Mine(calls)
      /\ Waits(page', calls') /\ SecretsLeft'
  BY <1>1, <1>2, FurtherForm
<1>4. UNCHANGED <<store, opened, filled>>
  BY DEF links
<1>5. CodesOwed'
  <2>1. \A d \in Mine(calls') :
          calls'[d].op = "pop" => d \in Mine(calls) /\ calls'[d] = calls[d]
    BY <1>1, <1>3 DEF Mine
  <2>. QED  BY <1>4, <2>1, CallsThemselves, CodesStayOwed
<1>. QED  BY <1>3, <1>4, <1>5, CallsThemselves, FormHolds DEF FormInv, TypeOK

\* A set-up gives out the secret that was left for it.
LEMMA GenerateForm ==
  ASSUME FormInv, NEW c \in Calls, GenerateSecret(c),
         UNCHANGED <<held, page, going, links>>
  PROVE  FormInv'
<1>1. /\ calls[c] # Idle /\ calls[c].op = "setup" /\ calls[c].at = "sent"
      /\ session' = session
  BY DEF GenerateSecret, Reaches, Idle
<1>2. CASE Answered(c, FALSE, None) /\ UNCHANGED totp
  BY <1>1, <1>2, AnswerForm DEF FormInv, TypeOK
<1>3. CASE totp' = NewSecret
  <2>. DEFINE S == SetupCalls(calls)
              T == SetupCalls(calls')
              A == {d \in Calls : calls[d] # Idle}
              n == totp.issued + 1
              asked == [calls[c] EXCEPT !.at = "answered", !.ok = TRUE, !.value = n]
              overtaken(d) == [calls[d] EXCEPT !.stale = calls[d].stale \/ calls[d].at = "checked"]
  <2>1. /\ IsFiniteSet(A) /\ totp.issued \in Nat /\ MaxSecrets \in Nat
        /\ totp.issued + Cardinality(S) <= MaxSecrets
    BY AccountPagesAssumption DEF FormInv, SecretsLeft, TypeOK
  <2>2. S \subseteq A /\ c \in S
    BY <1>1 DEF SetupCalls, Idle
  <2>3. /\ IsFiniteSet(S) /\ Cardinality(S \ {c}) = Cardinality(S) - 1
        /\ Cardinality(S) \in Nat /\ Cardinality(S \ {c}) \in Nat
    <3>1. IsFiniteSet(S)
      BY <2>1, <2>2, FS_Subset
    <3>. HIDE DEF S
    <3>. QED  BY <2>2, <3>1, FS_RemoveElement, FS_CardinalityType
  <2>4. n \in Secrets
    <3>. HIDE DEF S
    <3>. QED  BY <2>1, <2>3 DEF Secrets
  <2>5. calls' = [d \in Calls |->
             CASE d = c -> asked
               [] d # c /\ calls[d] # Idle -> overtaken(d)
               [] OTHER -> Idle]
    <3>1. session /\ totp' # totp
      <4>1. totp'.issued = totp.issued + 1
        BY <1>3 DEF NewSecret
      <4>2. totp' # totp
        BY <2>1, <4>1
      <4>. QED  BY <4>2 DEF GenerateSecret
    <3>. QED  BY <3>1 DEF GenerateSecret
  <2>6. /\ Formed(asked) /\ asked # Idle
        /\ asked.op = "setup" /\ asked.mine = calls[c].mine /\ asked.at = "answered"
    <3>1. calls[c] \in CallRecords
      BY <1>1, CallsThemselves DEF Formed
    <3>2. /\ asked \in CallRecords /\ asked.op = calls[c].op
          /\ asked.mine = calls[c].mine /\ asked.at = "answered" /\ asked.value = n
      BY <2>4, <3>1 DEF CallRecords
    <3>. HIDE DEF asked, n
    <3>. QED  BY <1>1, <2>4, <3>2, FormedFields
  <2>7. \A d \in Calls : calls[d] # Idle =>
          /\ Formed(overtaken(d)) /\ overtaken(d) # Idle
          /\ overtaken(d).op = calls[d].op /\ overtaken(d).mine = calls[d].mine
          /\ overtaken(d).at = calls[d].at /\ overtaken(d).value = calls[d].value
    <3>. SUFFICES ASSUME NEW d \in Calls, calls[d] # Idle
                  PROVE  /\ Formed(overtaken(d)) /\ overtaken(d) # Idle
                         /\ overtaken(d).op = calls[d].op
                         /\ overtaken(d).mine = calls[d].mine
                         /\ overtaken(d).at = calls[d].at
                         /\ overtaken(d).value = calls[d].value
      OBVIOUS
    <3>. DEFINE b == calls[d].stale \/ calls[d].at = "checked"
    <3>1. b \in BOOLEAN /\ Formed(calls[d])
      BY CallsThemselves
    <3>. HIDE DEF b
    <3>2. /\ Formed([calls[d] EXCEPT !.stale = b]) /\ [calls[d] EXCEPT !.stale = b] # Idle
          /\ [calls[d] EXCEPT !.stale = b].op = calls[d].op
          /\ [calls[d] EXCEPT !.stale = b].mine = calls[d].mine
          /\ [calls[d] EXCEPT !.stale = b].at = calls[d].at
          /\ [calls[d] EXCEPT !.stale = b].value = calls[d].value
      BY <3>1, FormedMarks
    <3>. QED  BY <3>2 DEF b
  <2>. HIDE DEF asked, overtaken
  <2>8. /\ calls' = [d \in Calls |-> calls'[d]]
        /\ calls'[c] = asked
        /\ \A d \in Calls \ {c} : calls'[d] = IF calls[d] = Idle THEN Idle ELSE overtaken(d)
    BY <2>5
  <2>9. \A d \in Calls :
          /\ Formed(calls'[d])
          /\ calls'[d] = Idle <=> calls[d] = Idle
          /\ calls[d] # Idle => calls'[d].op = calls[d].op /\ calls'[d].mine = calls[d].mine
          /\ d # c /\ calls[d] # Idle => /\ calls'[d].at = calls[d].at
                                        /\ calls'[d].value = calls[d].value
    BY <1>1, <2>6, <2>7, <2>8, CallsThemselves
  <2>10. T = S \ {c} /\ {d \in Calls : calls'[d] # Idle} = A
    <3>1. c \notin T
      BY <2>6, <2>8 DEF SetupCalls
    <3>2. \A d \in Calls \ {c} : d \in T <=> d \in S
      BY <2>8, <2>9 DEF SetupCalls, Idle
    <3>3. T \subseteq Calls /\ S \subseteq Calls
      BY DEF SetupCalls
    <3>. QED  BY <2>9, <3>1, <3>2, <3>3
  <2>11. SecretsLeft'
    <3>1. totp'.issued = totp.issued + 1
      BY <1>3 DEF NewSecret
    <3>2. totp'.issued + Cardinality(T) <= MaxSecrets
      <4>. HIDE DEF S, T
      <4>. QED  BY <2>1, <2>3, <2>10, <3>1
    <3>. QED  BY <2>1, <2>10, <3>2 DEF SecretsLeft
  <2>12. totp' \in [secret : Secrets \union {None}, on : BOOLEAN,
                    issued : 0..MaxSecrets, mixed : BOOLEAN]
    BY <1>3, <2>1, <2>4 DEF NewSecret, Secrets
  <2>13. Mine(calls') = Mine(calls)
    BY <2>9 DEF Mine
  <2>14. Waits(page', calls')
    <3>1. \A d \in Mine(calls') : calls'[d].op \in OpsOf(page.name)
      BY <2>9, <2>13, CallsThemselves DEF Waits, Mine
    <3>. QED  BY <2>13, <3>1, CallsThemselves DEF Waits
  <2>15. CodesOwed'
    <3>1. \A d \in Mine(calls') : calls'[d].op = "pop" =>
            /\ d \in Mine(calls) /\ calls[d].op = "pop"
            /\ calls'[d].at = calls[d].at /\ calls'[d].value = calls[d].value
      BY <1>1, <2>9, <2>13 DEF Mine
    <3>. QED  BY <2>13, <3>1, CallsThemselves, CodesStayOwed DEF links
  <2>. QED  BY <1>1, <2>8, <2>9, <2>11, <2>12, <2>14, <2>15, CallsThemselves, FormHolds
            DEF FormInv, TypeOK, links
<1>. QED  BY <1>2, <1>3 DEF GenerateSecret

\* The other requests that reach the server or somebody else, and lost ones.
LEMMA ServedForm ==
  ASSUME FormInv, PagesInv, NEW c \in Calls, UNCHANGED <<held, page, going, links>>,
         \/ Login(c) \/ LoginWithTotp(c) \/ VerifyCode(c) \/ Enable(c)
         \/ Status(c) \/ Outside(c) \/ Lost(c)
  PROVE  FormInv'
<1>. DEFINE Columns == [secret : Secrets \union {None}, on : BOOLEAN,
                        issued : 0..MaxSecrets, mixed : BOOLEAN]
            Values == Secrets \union Links \union {None, NeedsTotp}
<1>0. totp \in Columns /\ session \in BOOLEAN
  BY DEF FormInv, TypeOK
<1>1. CASE Login(c)
  <2>1. calls[c] # Idle /\ calls[c].op = "login" /\ totp' = totp
    BY <1>1 DEF Login, Reaches, Idle
  <2>2. PICK right \in BOOLEAN :
          /\ Answered(c, right, IF right /\ totp.on THEN NeedsTotp ELSE None)
          /\ session' = (session \/ (right /\ ~totp.on))
    BY <1>1 DEF Login
  <2>3. /\ session' \in BOOLEAN
        /\ (IF right /\ totp.on THEN NeedsTotp ELSE None) \in Values
    BY <2>2
  <2>. QED  BY <1>0, <2>1, <2>2, <2>3, AnswerForm
<1>2. CASE LoginWithTotp(c)
  <2>. DEFINE ok == totp.on /\ calls[c].arg = totp.secret
  <2>1. /\ calls[c] # Idle /\ calls[c].op = "login2FA" /\ totp' = totp
        /\ Answered(c, ok, None) /\ session' = (session \/ ok)
    BY <1>2 DEF LoginWithTotp, Reaches, Idle
  <2>2. ok \in BOOLEAN
    OBVIOUS
  <2>. HIDE DEF ok
  <2>3. session' \in BOOLEAN
    BY <2>1
  <2>. QED  BY <1>0, <2>1, <2>2, <2>3, AnswerForm
<1>3. CASE VerifyCode(c)
  <2>1. /\ calls[c] # Idle /\ calls[c].op = "verify" /\ UNCHANGED <<totp, session>>
    BY <1>3 DEF VerifyCode, Reaches, Idle, server
  <2>2. CASE Answered(c, FALSE, None)
    BY <1>0, <2>1, <2>2, AnswerForm
  <2>3. CASE calls' = [calls EXCEPT ![c].at = "checked"]
    <3>. DEFINE q == [calls[c] EXCEPT !.at = "checked"]
    <3>1. /\ Formed(q) /\ q # Idle /\ q.op = calls[c].op /\ q.mine = calls[c].mine
          /\ q.at = "checked"
      <4>1. Formed(calls[c]) /\ TRUE \in BOOLEAN
        BY CallsThemselves
      <4>. QED  BY <2>1, <4>1, FormedMarks
    <3>2. calls' = [calls EXCEPT ![c] = q]
      BY <2>3, CallsThemselves
    <3>. HIDE DEF q
    <3>3. /\ calls' = [d \in Calls |-> calls'[d]] /\ \A d \in Calls : Formed(calls'[d])
          /\ calls'[c] = q /\ \A d \in Calls \ {c} : calls'[d] = calls[d]
          /\ Mine(calls') = Mine(calls)
          /\ Waits(page', calls') /\ SecretsLeft'
      BY <2>1, <3>1, <3>2, FurtherForm
    <3>4. CodesOwed'
      <4>1. \A d \in Mine(calls') :
              calls'[d].op = "pop" => d \in Mine(calls) /\ calls'[d] = calls[d]
        BY <2>1, <3>1, <3>3 DEF Mine
      <4>. QED  BY <4>1, CallsThemselves, CodesStayOwed DEF links
    <3>. QED  BY <1>0, <2>1, <3>3, <3>4, CallsThemselves, FormStays DEF FormInv, TypeOK
  <2>. QED  BY <1>3, <2>2, <2>3 DEF VerifyCode
<1>4. CASE Enable(c)
  <2>1. /\ calls[c] # Idle /\ calls[c].at = "checked" /\ session' = session
        /\ totp' = [totp EXCEPT !.on = TRUE, !.mixed = calls[c].stale]
        /\ Answered(c, TRUE, None)
    BY <1>4 DEF Enable
  <2>2. calls[c].op = "verify" /\ calls[c] \in CallRecords
    BY <2>1, CallsThemselves DEF Formed, PagesInv, CallsFine, Fine
  <2>3. calls[c].stale \in BOOLEAN
    BY <2>2 DEF CallRecords
  <2>4. totp' \in Columns /\ totp'.issued = totp.issued
    BY <1>0, <2>1, <2>3
  <2>. QED  BY <1>0, <2>1, <2>2, <2>4, AnswerForm
<1>5. CASE Status(c)
  <2>1. calls[c].op = "status" /\ Answered(c, TRUE, None) /\ UNCHANGED <<totp, session>>
    BY <1>5 DEF Status, Reaches, server
  <2>2. calls[c] # Idle
    BY <2>1 DEF Idle
  <2>. QED  BY <1>0, <2>1, <2>2, AnswerForm
<1>6. CASE Outside(c)
  <2>1. calls[c].op \in {"identity", "submit"} /\ UNCHANGED <<totp, session>>
    BY <1>6 DEF Outside, Reaches, server
  <2>2. PICK ok \in BOOLEAN : Answered(c, ok, None)
    BY <1>6 DEF Outside
  <2>3. calls[c] # Idle
    BY <2>1 DEF Idle
  <2>. QED  BY <1>0, <2>1, <2>2, <2>3, AnswerForm
<1>7. CASE Lost(c)
  <2>1. /\ calls[c] # Idle /\ calls[c].op # "pop" /\ Answered(c, FALSE, None)
        /\ UNCHANGED <<totp, session>>
    BY <1>7 DEF Lost, server
  <2>. QED  BY <1>0, <2>1, AnswerForm
<1>. QED  BY <1>1, <1>2, <1>3, <1>4, <1>5, <1>6, <1>7

\* The code is read for a visit, and is owed to it from then on, also when another
\* visit reads it before it is removed.
LEMMA ReadForm ==
  ASSUME FormInv, NEW c \in Calls, ReadStore(c)
  PROVE  FormInv'
<1>1. /\ calls[c] # Idle /\ calls[c].op = "pop" /\ calls[c].at = "sent"
      /\ UNCHANGED <<totp, session, held, page, going, store, opened, filled>>
      /\ calls[c] \in CallRecords
  BY CallsThemselves DEF ReadStore, Reaches, Idle, server, links, Formed
<1>2. PICK at \in {"got", "answered"}, ok \in BOOLEAN, v \in Links \union {None} :
        /\ calls' = [calls EXCEPT ![c] = [calls[c] EXCEPT !.at = at, !.ok = ok, !.value = v]]
        /\ v = store
        /\ at = "answered" => store = None
  <2>1. CASE store = None
    <3>1. calls' = [calls EXCEPT ![c].at = "answered", ![c].ok = TRUE, ![c].value = None]
      BY <2>1 DEF ReadStore, Answered
    <3>2. calls' = [calls EXCEPT ![c] = [calls[c] EXCEPT !.at = "answered", !.ok = TRUE,
                                                         !.value = None]]
      BY <3>1, CallsThemselves
    <3>. WITNESS "answered" \in {"got", "answered"}, TRUE \in BOOLEAN,
                 None \in Links \union {None}
    <3>. QED  BY <2>1, <3>2
  <2>2. CASE store # None
    <3>1. calls' = [calls EXCEPT ![c].at = "got", ![c].value = store]
      BY <2>2 DEF ReadStore
    <3>2. [calls[c] EXCEPT !.at = "got", !.value = store]
            = [calls[c] EXCEPT !.at = "got", !.ok = calls[c].ok, !.value = store]
      BY <1>1 DEF CallRecords
    <3>3. calls[c].ok \in BOOLEAN /\ store \in Links \union {None}
      BY <1>1 DEF CallRecords, FormInv, TypeOK
    <3>4. calls' = [calls EXCEPT ![c] = [calls[c] EXCEPT !.at = "got", !.ok = calls[c].ok,
                                                         !.value = store]]
      BY <3>1, <3>2, CallsThemselves
    <3>. USE <3>3
    <3>. WITNESS "got" \in {"got", "answered"}, calls[c].ok \in BOOLEAN,
                 store \in Links \union {None}
    <3>. QED  BY <3>4
  <2>. QED  BY <2>1, <2>2
<1>. DEFINE q == [calls[c] EXCEPT !.at = at, !.ok = ok, !.value = v]
<1>3. /\ q \in CallRecords /\ q.op = "pop" /\ q.mine = calls[c].mine
      /\ q.at = at /\ q.value = v
  BY <1>1 DEF CallRecords
<1>4. calls' = [calls EXCEPT ![c] = q]
  BY <1>2
<1>. HIDE DEF q
<1>5. Formed(q) /\ q # Idle
  BY <1>3, FormedFields
<1>6. /\ calls' = [d \in Calls |-> calls'[d]] /\ \A d \in Calls : Formed(calls'[d])
      /\ calls'[c] = q /\ \A d \in Calls \ {c} : calls'[d] = calls[d]
      /\ Mine(calls') = Mine(calls)
      /\ Waits(page', calls') /\ SecretsLeft'
  BY <1>1, <1>3, <1>4, <1>5, FurtherForm
<1>7. ASSUME NEW l \in Links
      PROVE  /\ filled'[l] + (IF store' = l THEN 1 ELSE 0)
                  + (IF Reads(calls', "answered", l) THEN 1 ELSE 0) <= opened'[l]
             /\ Reads(calls', "got", l) => filled'[l] + 1 <= opened'[l]
  <2>1. /\ filled[l] + (IF store = l THEN 1 ELSE 0)
             + (IF Reads(calls, "answered", l) THEN 1 ELSE 0) <= opened[l]
        /\ Reads(calls, "got", l) => filled[l] + 1 <= opened[l]
        /\ filled[l] \in Nat /\ opened[l] \in Nat
    BY DEF FormInv, CodesOwed, TypeOK
  <2>2. at = "answered" => v # l
    BY <1>2, AccountPagesAssumption
  <2>3. Reads(calls', "answered", l) => Reads(calls, "answered", l)
    BY <1>3, <1>6, <2>2 DEF Reads, Mine
  <2>4. Reads(calls', "got", l) => Reads(calls, "got", l) \/ store = l
    BY <1>2, <1>3, <1>6 DEF Reads, Mine
  <2>. QED  BY <1>1, <2>1, <2>3, <2>4
<1>8. \A d, e \in Mine(calls') : calls'[d].op = "pop" /\ calls'[e].op = "pop" => d = e
  <2>1. \A d \in Calls : calls'[d].op = calls[d].op
    BY <1>1, <1>3, <1>6
  <2>. QED  BY <1>6, <2>1, CallsThemselves DEF Mine
<1>9. CodesOwed'
  BY <1>7, <1>8 DEF CodesOwed
<1>. QED  BY <1>1, <1>6, <1>9, CallsThemselves, FormStays DEF FormInv, TypeOK, links

\* The store is emptied, and the visit has its answer.
LEMMA RemoveForm ==
  ASSUME FormInv, PagesInv, NEW c \in Calls, RemoveStore(c)
  PROVE  FormInv'
<1>. DEFINE q == [calls[c] EXCEPT !.at = "answered", !.ok = TRUE, !.value = calls[c].value]
<1>1. /\ calls[c] # Idle /\ calls[c].at = "got" /\ store' = None
      /\ UNCHANGED <<totp, session, held, page, going, opened, filled>>
      /\ calls[c] \in CallRecords
  BY CallsThemselves DEF RemoveStore, server, Formed
<1>0. calls[c].op = "pop"
  BY <1>1 DEF PagesInv, CallsFine, Fine
<1>2. /\ q \in CallRecords /\ q.op = "pop" /\ q.mine = calls[c].mine
      /\ q.at = "answered" /\ q.value = calls[c].value
  BY <1>0, <1>1 DEF CallRecords
<1>3. calls' = [calls EXCEPT ![c] = q]
  BY CallsThemselves DEF RemoveStore, Answered
<1>4. calls[c].value \in Links \union {None}
  BY <1>0, <1>1, CallsThemselves DEF Formed
<1>. HIDE DEF q
<1>5. Formed(q) /\ q # Idle
  BY <1>2, <1>4, FormedFields
<1>6. /\ calls' = [d \in Calls |-> calls'[d]] /\ \A d \in Calls : Formed(calls'[d])
      /\ calls'[c] = q /\ \A d \in Calls \ {c} : calls'[d] = calls[d]
      /\ Mine(calls') = Mine(calls)
      /\ Waits(page', calls') /\ SecretsLeft'
  BY <1>0, <1>1, <1>2, <1>3, <1>5, FurtherForm
<1>7. ASSUME NEW l \in Links
      PROVE  /\ filled'[l] + (IF store' = l THEN 1 ELSE 0)
                  + (IF Reads(calls', "answered", l) THEN 1 ELSE 0) <= opened'[l]
             /\ Reads(calls', "got", l) => filled'[l] + 1 <= opened'[l]
  <2>1. /\ filled[l] + (IF store = l THEN 1 ELSE 0)
             + (IF Reads(calls, "answered", l) THEN 1 ELSE 0) <= opened[l]
        /\ Reads(calls, "got", l) => filled[l] + 1 <= opened[l]
        /\ filled[l] \in Nat /\ opened[l] \in Nat
    BY DEF FormInv, CodesOwed, TypeOK
  <2>2. store' # l
    BY <1>1, AccountPagesAssumption
  <2>3. Reads(calls', "answered", l) => Reads(calls, "answered", l) \/ Reads(calls, "got", l)
    BY <1>0, <1>1, <1>2, <1>6 DEF Reads, Mine
  <2>4. Reads(calls', "got", l) => Reads(calls, "got", l)
    BY <1>0, <1>1, <1>2, <1>6 DEF Reads, Mine
  <2>. QED  BY <1>1, <2>1, <2>2, <2>3, <2>4
<1>8. \A d, e \in Mine(calls') : calls'[d].op = "pop" /\ calls'[e].op = "pop" => d = e
  <2>1. \A d \in Calls : calls'[d].op = calls[d].op
    BY <1>0, <1>2, <1>6
  <2>. QED  BY <1>6, <2>1, CallsThemselves DEF Mine
<1>9. CodesOwed'
  BY <1>7, <1>8 DEF CodesOwed
<1>10. TypeOK
  BY DEF FormInv
<1>. QED  BY <1>1, <1>6, <1>9, <1>10, CallsThemselves, FormHolds DEF TypeOK

\* Two pages that differ only in what nothing here is about.
Alike(q, p) ==
  /\ q.name = p.name /\ q.posts = p.posts /\ q.open = p.open /\ q.code = p.code
  /\ q.step = p.step /\ q.shown = p.shown /\ q.sent = p.sent /\ q.stage = p.stage

\* They are of the same form.
LEMMA AlikeForm ==
  ASSUME NEW p, PageShaped(p), NEW q \in PageRecords, Alike(q, p)
  PROVE  PageShaped(q) /\ q.name = p.name
BY DEF PageShaped, Unposted, Alike

\* A page that is ready again is the page it was.
LEMMA ReadyForm ==
  ASSUME NEW p, PageShaped(p), NEW q, q = [p EXCEPT !.busy = FALSE]
  PROVE  PageShaped(q) /\ q.name = p.name /\ ~q.busy
<1>0. p \in PageRecords
  BY DEF PageShaped
<1>1. q \in PageRecords
  BY <1>0 DEF PageRecords
<1>2. Alike(q, p) /\ ~q.busy
  BY <1>0 DEF PageRecords, Alike
<1>. QED  BY <1>1, <1>2, AlikeForm

\* What a page makes of an answer of its kinds is such a page, and the log-in page
\* is ready again.
LEMMA AfterForm ==
  ASSUME NEW p, PageShaped(p), NEW r \in CallRecords, Formed(r), r # Idle,
         r.op \in OpsOf(p.name)
  PROVE  /\ PageShaped(After(p, r)) /\ After(p, r).name = p.name
         /\ p.name = "login" => ~After(p, r).busy
<1>. DEFINE q == After(p, r)
<1>. SUFFICES PageShaped(q) /\ q.name = p.name /\ (p.name = "login" => ~q.busy)
  OBVIOUS
<1>0. /\ p \in PageRecords /\ p.posts <= 1 /\ Unposted(p)
      /\ p.open => p.name = "security"
      /\ p.step = "qr" => p.shown \in Secrets
  BY DEF PageShaped
<1>1. \/ p.name = "login" /\ r.op \in {"login", "login2FA"}
      \/ p.name = "security" /\ r.op \in {"status", "setup", "verify"}
      \/ p.name = "sign_up" /\ r.op \in {"pop", "identity", "submit"}
  BY <1>0 DEF OpsOf, PageRecords
<1>. USE 0 \in 0..2
<1>2. CASE r.op = "login"
  <2>1. q = AfterLogin(p, r)
    BY <1>2 DEF After
  <2>2. CASE r.ok /\ r.value = NeedsTotp
    <3>1. q = [p EXCEPT !.busy = FALSE, !.stage = "totp", !.code = None, !.sent = FALSE]
      BY <2>1, <2>2 DEF AfterLogin
    <3>. HIDE DEF q
    <3>2. q \in PageRecords
      BY <1>0, <3>1 DEF PageRecords
    <3>3. /\ q.name = p.name /\ q.posts = p.posts /\ q.open = p.open /\ q.code = None
          /\ q.step = p.step /\ q.shown = p.shown /\ ~q.busy
      BY <1>0, <3>1 DEF PageRecords
    <3>. QED  BY <1>0, <3>2, <3>3 DEF PageShaped, Unposted
  <2>3. CASE ~(r.ok /\ r.value = NeedsTotp)
    <3>1. q = [p EXCEPT !.busy = FALSE]
      BY <2>1, <2>3 DEF AfterLogin
    <3>. HIDE DEF q
    <3>. QED  BY <1>0, <3>1, ReadyForm
  <2>. QED  BY <2>2, <2>3
<1>3. CASE r.op \in {"login2FA", "verify"} /\ ~(r.op = "login2FA" /\ r.ok)
  <2>1. q = [p EXCEPT !.busy = FALSE, !.code = None, !.sent = FALSE, !.posts = 0]
    BY <1>3 DEF After, AfterCode, AfterVerify
  <2>. HIDE DEF q
  <2>2. q \in PageRecords
    BY <1>0, <2>1 DEF PageRecords
  <2>3. /\ q.name = p.name /\ q.posts = 0 /\ q.open = p.open /\ q.code = None
        /\ q.step = p.step /\ q.shown = p.shown /\ ~q.busy
    BY <1>0, <2>1 DEF PageRecords
  <2>. QED  BY <1>0, <2>2, <2>3 DEF PageShaped, Unposted
<1>4. CASE r.op = "setup" /\ r.ok
  <2>1. q = [p EXCEPT !.busy = FALSE, !.step = "qr", !.shown = r.value, !.sent = FALSE]
    BY <1>4 DEF After, AfterSetup
  <2>2. r.value \in Secrets
    BY <1>4 DEF Formed
  <2>. HIDE DEF q
  <2>3. q \in PageRecords
    BY <1>0, <2>1, <2>2 DEF PageRecords
  <2>4. /\ q.name = "security" /\ q.posts = p.posts /\ q.open = p.open
        /\ q.step = "qr" /\ q.shown = r.value /\ p.name = "security"
    BY <1>0, <1>1, <1>4, <2>1 DEF PageRecords
  <2>. QED  BY <1>0, <2>2, <2>3, <2>4 DEF PageShaped, Unposted
<1>5. CASE \/ r.op = "login2FA" /\ r.ok
           \/ r.op = "setup" /\ ~r.ok
           \/ r.op = "submit"
  <2>1. q = [p EXCEPT !.busy = FALSE]
    BY <1>5 DEF After, AfterCode, AfterSetup
  <2>. HIDE DEF q
  <2>. QED  BY <1>0, <2>1, ReadyForm
<1>6. CASE r.op = "status"
  <2>1. q = [p EXCEPT !.known = @ \/ r.ok]
    BY <1>6 DEF After
  <2>. HIDE DEF q
  <2>2. q \in PageRecords
    BY <1>0, <2>1 DEF PageRecords
  <2>3. Alike(q, p)
    BY <1>0, <2>1 DEF PageRecords, Alike
  <2>. QED  BY <1>1, <1>6, <2>2, <2>3, AlikeForm
<1>7. CASE r.op = "pop"
  <2>. DEFINE f == FormWith(p, r.value)
  <2>0. f \in Links \union {None, "typed"}
    BY <1>0, <1>7 DEF FormWith, PageRecords, Formed
  <2>1. q = [p EXCEPT !.form = f]
    BY <1>7 DEF After
  <2>. HIDE DEF q, f
  <2>2. q \in PageRecords
    BY <1>0, <2>0, <2>1 DEF PageRecords
  <2>3. Alike(q, p)
    BY <1>0, <2>1 DEF PageRecords, Alike
  <2>. QED  BY <1>1, <1>7, <2>2, <2>3, AlikeForm
<1>8. CASE r.op = "identity"
  <2>. DEFINE v == p.verified \/ r.ok
  <2>0. v \in BOOLEAN
    OBVIOUS
  <2>1. q = [p EXCEPT !.verified = v]
    BY <1>8 DEF After
  <2>. HIDE DEF q, v
  <2>2. q \in PageRecords
    BY <1>0, <2>0, <2>1 DEF PageRecords
  <2>3. Alike(q, p)
    BY <1>0, <2>1 DEF PageRecords, Alike
  <2>. QED  BY <1>1, <1>8, <2>2, <2>3, AlikeForm
<1>. QED  BY <1>1, <1>2, <1>3, <1>4, <1>5, <1>6, <1>7, <1>8

\* An answer is taken: the request goes, and a code that it read is in a form.
LEMMA ReceiveForm ==
  ASSUME FormInv, NEW c \in Calls, Receive(c)
  PROVE  FormInv'
<1>. DEFINE r == calls[c]
            rest == [calls EXCEPT ![c] = Idle]
<1>1. /\ r # Idle /\ r.at = "answered" /\ r \in CallRecords /\ Formed(r)
      /\ UNCHANGED <<totp, session, held, store, opened>>
      /\ IF r.mine THEN Render(After(page, r), rest) ELSE page' = page /\ calls' = rest
      /\ filled' = IF Fills(r) THEN [filled EXCEPT ![r.value] = @ + 1] ELSE filled
      /\ going' = (going \/ Welcomes(r))
  BY CallsThemselves DEF Receive, server, Formed
<1>2. /\ rest[c] = Idle /\ \A d \in Calls \ {c} : rest[d] = calls[d]
      /\ rest = [d \in Calls |-> rest[d]]
  BY CallsThemselves
<1>. HIDE DEF r, rest
<1>3. /\ Fewer(rest, calls) /\ Mine(rest) = Mine(calls) \ {c}
      /\ \A d \in Calls : Formed(rest[d])
  BY <1>2, CallsThemselves DEF Fewer, Mine, Formed
<1>4. /\ PageShaped(page') /\ Waits(page', calls') /\ SecretsLeft'
      /\ calls' = [d \in Calls |-> calls'[d]] /\ \A d \in Calls : Formed(calls'[d])
      /\ \A d \in Mine(calls') :
           calls'[d].op = "pop" => d \in Mine(rest) /\ calls'[d] = rest[d]
  <2>1. CASE r.mine
    <3>. DEFINE q == After(page, r)
    <3>1. c \in Mine(calls) /\ r.op \in OpsOf(page.name)
      BY <1>1, <2>1, CallsThemselves DEF Mine, Waits, r
    <3>2. PageShaped(q) /\ q.name = page.name /\ page.name = "login" => ~q.busy
      BY <1>1, <3>1, CallsThemselves, AfterForm
    <3>3. page.name = "login" => ~q.busy
      BY <1>1, <3>1, CallsThemselves, AfterForm
    <3>4. q.name = page.name /\ PageShaped(q)
      BY <1>1, <3>1, CallsThemselves, AfterForm
    <3>. HIDE DEF q
    <3>5. page.name = "login" => Mine(rest) = {}
      BY <1>3, <3>1, CallsThemselves DEF Waits
    <3>6. \A d \in Mine(rest) : rest[d].op \in OpsOf(page.name)
      BY <1>2, <1>3, CallsThemselves DEF Waits, Mine
    <3>7. Waits(q, rest)
      BY <3>3, <3>4, <3>5, <3>6 DEF Waits
    <3>8. Render(q, rest)
      BY <1>1, <2>1 DEF q
    <3>. QED  BY <1>1, <1>2, <1>3, <3>4, <3>7, <3>8, RenderForm
  <2>2. CASE ~r.mine
    <3>1. page' = page /\ calls' = rest /\ Mine(rest) = Mine(calls)
      BY <1>1, <1>3, <2>2 DEF Mine, r
    <3>2. \A d \in Mine(rest) : rest[d].op \in OpsOf(page.name)
      BY <1>2, <1>3, CallsThemselves DEF Waits, Mine
    <3>3. Waits(page, rest)
      BY <3>1, <3>2, CallsThemselves DEF Waits
    <3>4. SecretsLeft'
      BY <1>1, <1>2, <1>3, <3>1, SecretsStayLeft
    <3>. QED  BY <1>2, <1>3, <3>1, <3>3, <3>4, CallsThemselves
  <2>. QED  BY <2>1, <2>2
<1>5. \A d \in Mine(calls') : calls'[d].op = "pop" =>
        d \in Mine(calls) /\ d # c /\ calls'[d] = calls[d]
  BY <1>2, <1>3, <1>4 DEF Mine
<1>6. \A d, e \in Mine(calls') : calls'[d].op = "pop" /\ calls'[e].op = "pop" => d = e
  BY <1>5, CallsThemselves
<1>7. filled' \in [Links -> 0..(MaxOpens + 1)] /\ CodesOwed'
  <2>1. CASE ~Fills(r)
    <3>1. filled' = filled
      BY <1>1, <2>1
    <3>. QED  BY <1>1, <1>5, <1>6, <3>1, CodesStayOwed DEF FormInv, TypeOK
  <2>2. CASE Fills(r)
    <3>. DEFINE k == r.value
    <3>1. /\ c \in Mine(calls) /\ r.op = "pop" /\ k \in Links
          /\ filled' = [filled EXCEPT ![k] = @ + 1]
      BY <1>1, <2>2 DEF Fills, Formed, Mine, r
    <3>2. Reads(calls, "answered", k)
      BY <1>1, <3>1 DEF Reads, r
    <3>. HIDE DEF k
    <3>3. \A d \in Mine(calls') : calls'[d].op # "pop"
      BY <1>5, <3>1, CallsThemselves DEF r
    <3>4. /\ filled \in [Links -> 0..(MaxOpens + 1)] /\ MaxOpens \in Nat
          /\ opened \in [Links -> 0..MaxOpens]
      BY AccountPagesAssumption DEF FormInv, TypeOK
    <3>5. ASSUME NEW l \in Links
          PROVE  /\ filled[l] + (IF store = l THEN 1 ELSE 0)
                      + (IF Reads(calls, "answered", l) THEN 1 ELSE 0) <= opened[l]
                 /\ filled[l] \in Nat /\ opened[l] \in Nat /\ opened[l] <= MaxOpens
      BY <3>4 DEF FormInv, CodesOwed
    <3>6. filled[k] + 1 <= opened[k]
      BY <3>1, <3>2, <3>5
    <3>7. filled' \in [Links -> 0..(MaxOpens + 1)]
      <4>1. filled[k] + 1 \in 0..(MaxOpens + 1)
        BY <3>1, <3>4, <3>5, <3>6
      <4>. QED  BY <3>1, <3>4, <4>1
    <3>8. ASSUME NEW l \in Links
          PROVE  /\ filled'[l] + (IF store' = l THEN 1 ELSE 0)
                      + (IF Reads(calls', "answered", l) THEN 1 ELSE 0) <= opened'[l]
                 /\ Reads(calls', "got", l) => filled'[l] + 1 <= opened'[l]
      <4>1. ~Reads(calls', "answered", l) /\ ~Reads(calls', "got", l)
        BY <3>3 DEF Reads
      <4>2. filled'[l] = IF l = k THEN filled[l] + 1 ELSE filled[l]
        BY <3>1, <3>4
      <4>. QED  BY <1>1, <3>2, <3>5, <4>1, <4>2
    <3>. QED  BY <1>6, <3>7, <3>8 DEF CodesOwed
  <2>. QED  BY <2>1, <2>2
<1>8. /\ going' \in BOOLEAN /\ session' \in BOOLEAN /\ held' \subseteq Secrets
      /\ totp' \in [secret : Secrets \union {None}, on : BOOLEAN,
                    issued : 0..MaxSecrets, mixed : BOOLEAN]
      /\ store' \in Links \union {None} /\ opened' \in [Links -> 0..MaxOpens]
  BY <1>1 DEF FormInv, TypeOK
<1>. QED  BY <1>4, <1>7, <1>8, FormHolds

-----------------------------------------------------------------------------
(* The theorems                                                             *)

\* The browser opens on a page of that form, and nothing is under way.
LEMMA InitForm == Init => FormInv
<1>. SUFFICES ASSUME Init  PROVE FormInv
  OBVIOUS
<1>1. /\ page = Fresh("home", None) /\ calls = [c \in Calls |-> Idle]
      /\ store = None /\ opened = [l \in Links |-> 0] /\ filled = [l \in Links |-> 0]
      /\ session = FALSE /\ going = FALSE
  BY DEF Init
<1>2. MaxOpens \in Nat /\ MaxSecrets \in Nat \ {0}
  BY AccountPagesAssumption
<1>3. PageShaped(page)
  <2>1. page \in PageRecords
    BY <1>1, 0 \in 0..2 DEF Fresh, PageRecords
  <2>2. ~page.open /\ page.posts = 0 /\ page.step = "intro" /\ page.name = "home"
    BY <1>1 DEF Fresh
  <2>. QED  BY <2>1, <2>2 DEF PageShaped, Unposted
<1>4. Mine(calls) = {} /\ \A c \in Calls : Formed(calls[c])
  BY <1>1 DEF Mine, Formed
<1>5. Waits(page, calls)
  BY <1>1, <1>4 DEF Waits, Fresh
<1>6. totp \in [secret : Secrets \union {None}, on : BOOLEAN,
                issued : 0..MaxSecrets, mixed : BOOLEAN] /\ held \subseteq Secrets
  <2>1. None \in Secrets \union {None} /\ 1 \in Secrets \union {None}
        /\ 0 \in 0..MaxSecrets /\ 1 \in 0..MaxSecrets /\ 1 \in Secrets
    BY <1>2 DEF Secrets
  <2>2. CASE totp = [secret |-> None, on |-> FALSE, issued |-> 0, mixed |-> FALSE]
             /\ held = {}
    BY <2>1, <2>2
  <2>3. CASE totp = [secret |-> 1, on |-> TRUE, issued |-> 1, mixed |-> FALSE]
             /\ held = {1}
    BY <2>1, <2>3
  <2>. QED  BY <2>2, <2>3 DEF Init
<1>7. SecretsLeft
  <2>1. {c \in Calls : calls[c] # Idle} = {} /\ SetupCalls(calls) = {}
    BY <1>1 DEF SetupCalls, Idle
  <2>2. totp.issued + 0 <= MaxSecrets
    BY <1>2, <1>6
  <2>. QED  BY <2>1, <2>2, FS_EmptySet DEF SecretsLeft
<1>8. CodesOwed
  <2>1. \A l \in Links : store # l /\ filled[l] = 0 /\ opened[l] = 0
    BY <1>1, AccountPagesAssumption
  <2>2. \A l \in Links : ~Reads(calls, "answered", l) /\ ~Reads(calls, "got", l)
    BY <1>4 DEF Reads
  <2>. QED  BY <1>4, <2>1, <2>2 DEF CodesOwed
<1>9. TypeOK
  <2>1. /\ calls \in [Calls -> CallRecords \union {Idle}] /\ page \in PageRecords
        /\ store \in Links \union {None}
    BY <1>1, <1>3 DEF PageShaped
  <2>2. opened \in [Links -> 0..MaxOpens] /\ filled \in [Links -> 0..(MaxOpens + 1)]
    BY <1>1, <1>2
  <2>. QED  BY <1>1, <1>6, <2>1, <2>2 DEF TypeOK
<1>. QED  BY <1>3, <1>4, <1>5, <1>7, <1>8, <1>9 DEF FormInv

\* Every step keeps that form.
LEMMA NextForm == PagesInv /\ FormInv /\ [Next]_vars => FormInv'
<1>. SUFFICES ASSUME PagesInv, FormInv, [Next]_vars  PROVE FormInv'
  OBVIOUS
<1>1. CASE User
  <2>1. ASSUME NEW name \in {"home", "login", "security"}, Go(name, None)  PROVE FormInv'
    BY <2>1, GoForm
  <2>2. ASSUME NEW query \in Links \union {None}, Go("sign_up", query)  PROVE FormInv'
    BY <2>2, GoForm
  <2>3. ASSUME NEW l \in Links, OpenLink(l)  PROVE FormInv'
    BY <2>3, LinkForm
  <2>. QED  BY <1>1, <2>1, <2>2, <2>3, LoginForm, DigitsForm, ModalForm, SignUpFormForm
            DEF User
<1>2. CASE ComeHome
  BY <1>2, HomeForm
<1>3. ASSUME NEW c \in Calls, AtServer(c)  PROVE FormInv'
  <2>1. UNCHANGED <<held, page, going, links>>
    BY <1>3 DEF AtServer
  <2>. QED  BY <1>3, <2>1, GenerateForm, ServedForm DEF AtServer
<1>4. ASSUME NEW c \in Calls, ReadStore(c) \/ RemoveStore(c) \/ Receive(c)  PROVE FormInv'
  BY <1>4, ReadForm, RemoveForm, ReceiveForm
<1>5. ASSUME NEW c \in Calls, Lost(c) /\ UNCHANGED <<held, page, going, links>>
      PROVE  FormInv'
  BY <1>5, ServedForm
<1>6. CASE UNCHANGED vars
  <2>1. UNCHANGED vars
    BY <1>6
  <2>. QED  BY <2>1 DEF vars, FormInv, TypeOK, PageShaped, SecretsLeft, CodesOwed
<1>. QED  BY <1>1, <1>2, <1>3, <1>4, <1>5, <1>6 DEF Next, Proceed

\* What holds throughout of the type of the state, of what the pages wait for, and
\* of the codes that are kept for the sign-up page.
THEOREM FormInvariant == Spec => [](PagesInv /\ FormInv)
<1>. QED  BY InitPages, InitForm, NextPages, NextForm, PTL DEF Spec

\* The login page never posts a code twice by itself, and its buttons are disabled
\* exactly while an answer is awaited, for any number of requests and visits.
THEOREM ButtonsAreSound == Spec => []ButtonsSound
<1>1. FormInv => ButtonsSound
  <2>. SUFFICES ASSUME FormInv  PROVE ButtonsSound
    OBVIOUS
  <2>1. TypeOK /\ PageShaped(page) /\ Waits(page, calls)
    BY DEF FormInv
  <2>2. LoginPostsOnce
    BY <2>1 DEF PageShaped, LoginPostsOnce
  <2>3. BusyIsShown
    <3>. SUFFICES ASSUME page.name = "login"
                  PROVE  Cardinality(Mine(calls)) = IF page.busy THEN 1 ELSE 0
      BY DEF BusyIsShown, Mine
    <3>1. CASE page.busy
      <4>1. PICK c \in Calls : Mine(calls) = {c}
        BY <2>1, <3>1 DEF Waits
      <4>. QED  BY <3>1, <4>1, FS_Singleton
    <3>2. CASE ~page.busy
      BY <2>1, <3>2, FS_EmptySet DEF Waits
    <3>. QED  BY <3>1, <3>2
  <2>. QED  BY <2>1, <2>2, <2>3 DEF ButtonsSound
<1>. QED  BY <1>1, FormInvariant, PTL

\* A code that a link left for the sign-up page fills at most one form for every
\* time the link was opened, for any number of links and visits.
THEOREM CodesFillOneForm == Spec => []CodeFillsOneForm
<1>1. FormInv => CodeFillsOneForm
  <2>. SUFFICES ASSUME FormInv, NEW l \in Links  PROVE filled[l] <= opened[l]
    BY DEF CodeFillsOneForm
  <2>1. filled[l] + (IF store = l THEN 1 ELSE 0)
          + (IF Reads(calls, "answered", l) THEN 1 ELSE 0) <= opened[l]
    BY DEF FormInv, CodesOwed
  <2>2. filled[l] \in Nat /\ opened[l] \in Nat
    BY DEF FormInv, TypeOK
  <2>. QED  BY <2>1, <2>2
<1>. QED  BY <1>1, FormInvariant, PTL

=============================================================================
