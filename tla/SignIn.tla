----------------------------- MODULE SignIn -----------------------------
(***************************************************************************)
(* One person's way into the application: the Cognito account, the         *)
(* handlers under /auth, the cookies of the browsers and the pages of the  *)
(* web client in several tabs.                                             *)
(*                                                                         *)
(* Every tab runs the session query (/auth/me) on its own and has at most  *)
(* one other call under way; the handlers read and write in steps, so that *)
(* calls of different tabs interleave.  The person does the right thing on *)
(* each page, except for a bounded number of missteps (wrong passwords,    *)
(* other pages, expired cookies, failing servers, lost answers, ...).      *)
(*                                                                         *)
(* Invitations and removed users are the subject of Membership.            *)
(***************************************************************************)
EXTENDS ApiDocs, Naturals, FiniteSets

CONSTANTS
    Tabs,        \* tabs the person has open
    Browsers,    \* ways to spread the tabs over browsers, which hold the cookies
    Passwords,   \* passwords the person may choose
    MaxMissteps  \* bound on what the person, the network and the servers do wrong

ASSUME SignInAssumption ==
    /\ Browsers \subseteq [Tabs -> Tabs]
    /\ Cardinality(Passwords) > 1
    /\ MaxMissteps \in Nat

VARIABLES
    pool,           \* the person's account in the Cognito user pool
    user,           \* their row in users: sessionVersion (0: no row) and whether named
    organizations,  \* number of organizations created for them
    browser,        \* browser[t]: where a tab is open; chosen at the start
    jar,            \* jar[b]: the cookies of a browser
    tab,            \* tab[t]: page and session query of a tab
    call,           \* call[t]: the mutation a tab has under way
    missteps

vars == <<pool, user, organizations, browser, jar, tab, call, missteps>>
server == <<pool, user, organizations, browser>>

-----------------------------------------------------------------------------
(* Data *)

Account == [status : {"none", "unconfirmed", "confirmed"}, password : Passwords,
            code : BOOLEAN, reset : BOOLEAN]  \* codes that were mailed

Row == [version : Nat, named : BOOLEAN]
NoRow == [version |-> 0, named |-> FALSE]

\* CanonicalSession, as far as it is told apart; version 0: no such cookie.
Session == [version : Nat, onboarded : BOOLEAN]
NoSession == [version |-> 0, onboarded |-> FALSE]

AuthPages == {"login", "signup", "verify", "forgot", "reset", "complete"}
ProtectedPages == {"dashboard", "password"}
\* Two layouts, each with a query client of its own.
Layout(page) == CASE page \in AuthPages -> "auth"
                  [] page \in ProtectedPages -> "protected"
                  [] OTHER -> "none"

Tab == [page : AuthPages \cup ProtectedPages \cup {"hosted", "error"},
        shown : {"nobody", "new", "onboarded"},  \* data of the session query
        me : {"idle", "asked"}, sent : Session,  \* the query and its cookie
        cleared : BOOLEAN,   \* the query was removed, the component not rendered since
        tell : BOOLEAN,      \* the other tabs are to be told of a 401
        goal : {"none", "complete", "dashboard"}]  \* router.push after the refetch

Ops == {"login", "signup", "verify", "resend", "forgot", "reset", "complete",
        "logout", "change"}

Call == [op : Ops \cup {"none"}, pc : {"sent", "confirmed", "read", "accepted", "answered"},
         code : BOOLEAN, password : Passwords, new : Passwords,
         cookie : Session, row : Row, status : {0, 200, 400, 401, 403, 409, 422, 500},
         sets : {"nothing", "session", "cleared"}, signed : Session]

Password0 == CHOOSE p \in Passwords : TRUE

NoCall == [op |-> "none", pc |-> "answered", code |-> FALSE, password |-> Password0,
           new |-> Password0, cookie |-> NoSession, row |-> NoRow, status |-> 0,
           sets |-> "nothing", signed |-> NoSession]

\* verifyInternalUserSession.
Valid(session) == session.version > 0 /\ session.version = user.version

\* buildCanonicalSession, calculateOnboardingStatus.
Sign(row) == [version |-> row.version, onboarded |-> row.named]

\* What /auth/me says of a cookie.
View(session) == IF ~Valid(session) THEN "nobody"
                 ELSE IF session.onboarded THEN "onboarded" ELSE "new"

\* The cookies of a response are replaced, not extended.
Attach(cookies, more) == more

Init ==
    /\ pool = [status |-> "none", password |-> Password0, code |-> FALSE, reset |-> FALSE]
    /\ user = NoRow
    /\ organizations = 0
    /\ browser \in Browsers
    /\ jar = [b \in Tabs |-> [session |-> NoSession, others |-> {}]]
    /\ tab = [t \in Tabs |-> [page |-> "login", shown |-> "nobody", me |-> "asked",
                              sent |-> NoSession, cleared |-> FALSE, tell |-> FALSE,
                              goal |-> "none"]]
    /\ call = [t \in Tabs |-> NoCall]
    /\ missteps = 0

Cookie(t) == jar[browser[t]].session

Misstep == missteps < MaxMissteps /\ missteps' = missteps + 1

-----------------------------------------------------------------------------
(* The handlers under /auth *)

At(t, op, pc) == call[t].op = op /\ call[t].pc = pc

\* Every answer; what the handler still holds is forgotten.
Reply(t, status, sets, signed) ==
    call' = [call EXCEPT ![t] = [NoCall EXCEPT !.op = call[t].op, !.status = status,
                                               !.sets = sets, !.signed = signed]]
Answer(t, status) == Reply(t, status, "nothing", NoSession)
AnswerSigned(t, row) == Reply(t, 200, "session", Sign(row))
\* buildLogoutSuccessResponse.
AnswerCleared(t) == Reply(t, 200, "cleared", NoSession)

Advance(t, pc) == call' = [call EXCEPT ![t].pc = pc]

\* A faulty variant: an address that is taken is reported as an error of the service.
SignUpAnyway(t) ==
    /\ At(t, "signup", "sent")
    /\ \/ /\ pool.status = "none"
          /\ pool' = [status |-> "unconfirmed", password |-> call[t].password,
                      code |-> TRUE, reset |-> FALSE]
          /\ Answer(t, 200)
       \/ pool.status # "none" /\ Answer(t, 422) /\ UNCHANGED pool
    /\ UNCHANGED <<user, organizations>>

\* handleSignUp: Cognito creates the account and mails a code.
SignUp(t) ==
    /\ At(t, "signup", "sent")
    /\ \/ /\ pool.status = "none"
          /\ pool' = [status |-> "unconfirmed", password |-> call[t].password,
                      code |-> TRUE, reset |-> FALSE]
          /\ Answer(t, 200)
       \/ pool.status # "none" /\ Answer(t, 409) /\ UNCHANGED pool
    /\ UNCHANGED <<user, organizations>>

\* A faulty variant: the code is not used up.
ConfirmAgain(t) ==
    /\ At(t, "verify", "sent")
    /\ \/ /\ pool.status = "unconfirmed" /\ pool.code /\ call[t].code
          /\ pool' = [pool EXCEPT !.status = "confirmed"]
          /\ Advance(t, "confirmed")
       \/ /\ pool.status = "unconfirmed" => ~(pool.code /\ call[t].code)
          /\ Answer(t, IF pool.status = "confirmed" THEN 500 ELSE 400)
          /\ UNCHANGED pool
    /\ UNCHANGED <<user, organizations>>

\* confirmSignUp, first half: the account is confirmed before the login is tried.
ConfirmSignUp(t) ==
    /\ At(t, "verify", "sent")
    /\ \/ /\ pool.status = "unconfirmed" /\ pool.code /\ call[t].code
          /\ pool' = [pool EXCEPT !.status = "confirmed", !.code = FALSE]
          /\ Advance(t, "confirmed")
       \/ /\ pool.status = "unconfirmed" => ~(pool.code /\ call[t].code)
          /\ Answer(t, IF pool.status = "confirmed" THEN 500 ELSE 400)
          /\ UNCHANGED pool
    /\ UNCHANGED <<user, organizations>>

\* CognitoService.login and the reads of resolveActorFromTokens.
Login(t) ==
    /\ At(t, "login", "sent") \/ At(t, "verify", "confirmed")
    /\ LET known == pool.status # "none" /\ call[t].password = pool.password IN
       \/ ~known /\ Answer(t, 401)
       \/ known /\ pool.status = "unconfirmed" /\ Answer(t, 422)
       \/ /\ known /\ pool.status = "confirmed"
          /\ call' = [call EXCEPT ![t].pc = "read", ![t].row = user]
    /\ UNCHANGED server

\* A faulty variant: the organization is not created in the user's transaction.
CreateSessionOutside(t) ==
    /\ At(t, "login", "read") \/ At(t, "verify", "read")
    /\ \/ /\ call[t].row.version > 0
          /\ AnswerSigned(t, call[t].row)
          /\ UNCHANGED <<user, organizations>>
       \/ /\ call[t].row.version = 0 /\ user.version = 0
          /\ user' = [version |-> 1, named |-> FALSE]
          /\ organizations' = organizations + 1
          /\ AnswerSigned(t, user')
       \/ /\ call[t].row.version = 0 /\ user.version > 0
          /\ organizations' = organizations + 1
          /\ Answer(t, 500) /\ UNCHANGED user
    /\ UNCHANGED pool

\* createSessionFromTokens: the first login creates organization and user in one
\* transaction, which fails when another login has created the user meanwhile
\* (cognitoUserId is unique); any other session is made from the row as read.
CreateSession(t) ==
    /\ At(t, "login", "read") \/ At(t, "verify", "read")
    /\ \/ /\ call[t].row.version > 0
          /\ AnswerSigned(t, call[t].row)
          /\ UNCHANGED <<user, organizations>>
       \/ /\ call[t].row.version = 0 /\ user.version = 0
          /\ user' = [version |-> 1, named |-> FALSE]
          /\ organizations' = organizations + 1
          /\ AnswerSigned(t, user')
       \/ /\ call[t].row.version = 0 /\ user.version > 0
          /\ Answer(t, 500)
          /\ UNCHANGED <<user, organizations>>
    /\ UNCHANGED pool

\* authenticate; a logout without a good session is answered like any other.
Authenticate(t) ==
    /\ \E op \in {"complete", "logout", "change"} : At(t, op, "sent")
    /\ \/ ~Valid(call[t].cookie) /\ call[t].op = "logout" /\ AnswerCleared(t)
       \/ ~Valid(call[t].cookie) /\ call[t].op # "logout" /\ Answer(t, 401)
       \/ /\ Valid(call[t].cookie) /\ call[t].op = "complete" /\ call[t].cookie.onboarded
          /\ Answer(t, 403)
       \/ /\ Valid(call[t].cookie)
          /\ ~(call[t].op = "complete" /\ call[t].cookie.onboarded)
          /\ Advance(t, "accepted")
    /\ UNCHANGED server

\* A faulty variant: the version stays.
CompleteInPlace(t) ==
    /\ At(t, "complete", "accepted")
    /\ user' = [user EXCEPT !.named = TRUE]
    /\ AnswerSigned(t, user')
    /\ UNCHANGED <<pool, organizations>>

\* handleCompleteSignupInternal: names and version in one transaction, and a
\* session for the new version.
CompleteSignUp(t) ==
    /\ At(t, "complete", "accepted")
    /\ user' = [version |-> user.version + 1, named |-> TRUE]
    /\ AnswerSigned(t, user')
    /\ UNCHANGED <<pool, organizations>>

\* A faulty variant: the cookie is cleared, the version stays.
LogOutHere(t) ==
    /\ At(t, "logout", "accepted")
    /\ AnswerCleared(t)
    /\ UNCHANGED server

\* handleLogout.
LogOut(t) ==
    /\ At(t, "logout", "accepted")
    /\ user' = [user EXCEPT !.version = @ + 1]
    /\ AnswerCleared(t)
    /\ UNCHANGED <<pool, organizations>>

\* changeUserPassword: no refresh token is ever stored, so that the old password is
\* tried in a login.
ConfirmPassword(t) ==
    /\ At(t, "change", "accepted")
    /\ IF call[t].password = pool.password THEN Advance(t, "confirmed") ELSE Answer(t, 401)
    /\ UNCHANGED server

\* CognitoService.changePassword asks for the old password once more.
ChangePassword(t) ==
    /\ At(t, "change", "confirmed")
    /\ \/ /\ call[t].password = pool.password
          /\ pool' = [pool EXCEPT !.password = call[t].new]
          /\ Answer(t, 200)
       \/ call[t].password # pool.password /\ Answer(t, 400) /\ UNCHANGED pool
    /\ UNCHANGED <<user, organizations>>

\* handleResendVerification and handleForgotPassword answer 200 in any case; a
\* code is mailed to an unconfirmed, respectively a confirmed account.
SendCode(t) ==
    /\ At(t, "resend", "sent") \/ At(t, "forgot", "sent")
    /\ pool' = [pool EXCEPT
                  !.code = @ \/ (call[t].op = "resend" /\ pool.status = "unconfirmed"),
                  !.reset = @ \/ (call[t].op = "forgot" /\ pool.status = "confirmed")]
    /\ Answer(t, 200)
    /\ UNCHANGED <<user, organizations>>

\* confirmForgotPassword.
ResetPassword(t) ==
    /\ At(t, "reset", "sent")
    /\ \/ /\ pool.reset /\ call[t].code
          /\ pool' = [pool EXCEPT !.password = call[t].password, !.reset = FALSE]
          /\ Answer(t, 200)
       \/ ~(pool.reset /\ call[t].code) /\ Answer(t, 400) /\ UNCHANGED pool
    /\ UNCHANGED <<user, organizations>>

\* One step of the handler of tab t's call.
Handle(t) ==
    /\ \/ SignUp(t) \/ ConfirmSignUp(t) \/ Login(t) \/ CreateSession(t)
       \/ Authenticate(t) \/ CompleteSignUp(t) \/ LogOut(t) \/ ConfirmPassword(t)
       \/ ChangePassword(t) \/ SendCode(t) \/ ResetPassword(t)
    /\ UNCHANGED <<browser, jar, tab, missteps>>

\* Cognito, the database or the Lambda fails between two steps; the two handlers
\* that tell nothing answer as ever.  The gateway's 503 and 504, for a Lambda that
\* was cut off, are a 500 here: the client tells them apart in words only, and they are not
\* statuses of these endpoints.
Fail(t) ==
    /\ Misstep
    /\ call[t].pc # "answered"
    /\ Answer(t, IF call[t].op \in {"resend", "forgot"} THEN 200 ELSE 500)
    /\ UNCHANGED <<server, jar, tab>>

-----------------------------------------------------------------------------
(* The web client *)

\* A query client of its own, whose session query starts when it is mounted.
Fresh(page, session) ==
    LET asks == Layout(page) # "none"
    IN  [page |-> page, shown |-> "nobody", me |-> IF asks THEN "asked" ELSE "idle",
         sent |-> IF asks THEN session ELSE NoSession,
         cleared |-> FALSE, tell |-> FALSE, goal |-> "none"]

\* middleware: protected pages need a cookie that has not expired.
Guarded(page, session) ==
    IF page \in ProtectedPages /\ session.version = 0 THEN "login" ELSE page

\* router.push, router.replace: the client stays within a layout.
Enter(r, page, session) ==
    LET to == Guarded(page, session)
    IN  IF Layout(to) = Layout(r.page) THEN [r EXCEPT !.page = to, !.goal = "none"]
                                       ELSE Fresh(to, session)

\* isLoading.
Loading(r) == r.me = "asked" /\ r.shown = "nobody"

\* invalidateQueries: without data, the fetch under way is joined; a removed query
\* is not fetched.
Refetch(r, session) ==
    IF r.cleared \/ Loading(r) \/ Layout(r.page) = "none" THEN r
    ELSE [r EXCEPT !.me = "asked", !.sent = session]

\* onSuccess of login, verification and onboarding: the refetch, then the page.
AfterSignIn(r, goal, session) ==
    IF r.cleared \/ Layout(r.page) # "auth" THEN Enter(r, goal, session)
    ELSE [Refetch(r, session) EXCEPT !.goal = goal]

\* A faulty variant: an address that is not verified is an error like any other.
ShowError(c, r, session) ==
    IF c.status = 401 THEN [Refetch(r, session) EXCEPT !.tell = ~r.cleared] ELSE r
\* onError: most pages show the message; apiFetch has reported a 401 before.
AfterError(c, r, session) ==
    CASE c.op = "login" /\ c.status = 422 -> Enter(r, "verify", session)
      [] c.status = 401 -> [Refetch(r, session) EXCEPT !.tell = ~r.cleared]
      [] OTHER -> r

\* onSuccess of the mutations; two of them go on alike after an error.
After(c, r, session) ==
    CASE c.op = "forgot" -> Enter(r, "reset", session)
      [] c.op = "logout" -> Enter(r, "login", session)
      [] c.status # 200 -> AfterError(c, r, session)
      [] c.op \in {"login", "verify"}
            -> AfterSignIn(r, IF c.signed.onboarded THEN "dashboard" ELSE "complete", session)
      [] c.op = "complete" -> AfterSignIn(r, "dashboard", session)
      [] c.op = "signup" -> Enter(r, "verify", session)
      [] c.op = "reset" -> Enter(r, "login", session)
      [] OTHER -> r

\* The channel 'worklient_session_channel': queryClient.clear() in the other tabs.
\* What they show stays until they render, a fetch under way is given up.
Told(tabs, t) ==
    [u \in Tabs |->
        IF u = t \/ browser[u] # browser[t] \/ Layout(tabs[u].page) = "none" THEN tabs[u]
        ELSE [tabs[u] EXCEPT !.cleared = TRUE, !.tell = FALSE, !.sent = NoSession,
                             !.me = IF Loading(tabs[u]) THEN "asked" ELSE "idle"]]

Received(j, c) ==
    CASE c.sets = "session" -> [j EXCEPT !.session = c.signed]
      [] c.sets = "cleared" -> [session |-> NoSession, others |-> {}]
      [] OTHER -> j

\* The answer c of tab t's call reaches its page; status 0 is a network error.
Deliver(t, c) ==
    LET j == Received(jar[browser[t]], c)
        tabs == [tab EXCEPT ![t] = After(c, tab[t], j.session)]
        tells == c.op = "logout" \/ (c.status = 401 /\ tab[t].cleared)
    IN  /\ jar' = [jar EXCEPT ![browser[t]] = j]
        /\ tab' = IF tells THEN Told(tabs, t) ELSE tabs
        /\ call' = [call EXCEPT ![t] = NoCall]
        /\ UNCHANGED server

Arrive(t) ==
    /\ call[t].op # "none" /\ call[t].pc = "answered"
    /\ Deliver(t, call[t])
    /\ UNCHANGED missteps

\* The answer is lost, its cookies too: apiFetch reports a network error.
Lose(t) ==
    /\ Misstep
    /\ call[t].op # "none" /\ call[t].pc = "answered"
    /\ Deliver(t, [NoCall EXCEPT !.op = call[t].op])

\* The session query is done with r: others are told, then the page is pushed.
Settle(t, r, tells) ==
    LET done == [r EXCEPT !.me = "idle", !.sent = NoSession, !.tell = FALSE]
        tabs == [tab EXCEPT ![t] = IF r.goal = "none" THEN done
                                   ELSE Enter(done, r.goal, Cookie(t))]
    IN  tab' = IF tells THEN Told(tabs, t) ELSE tabs

\* handleMe: the claims of the cookie, when it is good.
AcceptMe(t) ==
    /\ tab[t].me = "asked" /\ ~tab[t].cleared
    /\ Valid(tab[t].sent)
    /\ Settle(t, [tab[t] EXCEPT !.shown = View(tab[t].sent)], tab[t].tell)
    /\ UNCHANGED <<server, jar, call, missteps>>

\* A refusal keeps the data the query had.  It is fetched again when it had some,
\* and the last refusal came more than 100 ms ago.
RefuseMe(t) ==
    /\ tab[t].me = "asked" /\ ~tab[t].cleared
    /\ ~Valid(tab[t].sent)
    /\ \/ Settle(t, tab[t], TRUE)
       \/ /\ tab[t].shown # "nobody"
          /\ tab' = [tab EXCEPT ![t].sent = Cookie(t), ![t].tell = TRUE]
    /\ UNCHANGED <<server, jar, call, missteps>>

\* An error of the server or the network; the query is not retried.
FailMe(t) ==
    /\ Misstep
    /\ tab[t].me = "asked" /\ ~tab[t].cleared
    /\ Settle(t, tab[t], tab[t].tell)
    /\ UNCHANGED <<server, jar, call>>

\* The refetch that a push waits for was given up.
Push(t) ==
    /\ tab[t].cleared /\ tab[t].goal # "none"
    /\ tab' = [tab EXCEPT ![t] = Enter(tab[t], tab[t].goal, Cookie(t))]
    /\ UNCHANGED <<server, jar, call, missteps>>

\* A removed query is made anew when its component renders.  Nothing in the client
\* causes that; if it could happen for ever, two tabs without a session could go on
\* telling one another for ever.
Render(t) ==
    /\ Misstep
    /\ tab[t].cleared /\ tab[t].goal = "none"
    /\ tab' = [tab EXCEPT ![t] = Fresh(tab[t].page, Cookie(t))]
    /\ UNCHANGED <<server, jar, call>>

\* SessionGate, and the redirects of the pages.
Target(r) ==
    CASE r.page \in ProtectedPages /\ r.shown = "nobody" -> "login"
      [] r.page \in ProtectedPages \cup {"verify"} /\ r.shown = "new" -> "complete"
      [] r.page \in {"verify", "complete"} /\ r.shown = "onboarded" -> "dashboard"
      [] OTHER -> r.page

Redirect(t) ==
    /\ ~Loading(tab[t])
    /\ Target(tab[t]) # tab[t].page
    /\ tab' = [tab EXCEPT ![t] = Enter(tab[t], Target(tab[t]), Cookie(t))]
    /\ UNCHANGED <<server, jar, call, missteps>>

-----------------------------------------------------------------------------
(* The person *)

Idle(t) == call[t].op = "none" /\ tab[t].goal = "none"

\* The page shows its form: most wait for the session, some need one.
Form(t) ==
    LET r == tab[t] IN
    /\ Idle(t)
    /\ r.page \in {"verify", "complete"} \cup ProtectedPages => ~Loading(r)
    /\ r.page = "verify" => r.shown = "nobody"
    /\ r.page = "complete" => r.shown = "new"
    /\ r.page \in ProtectedPages => r.shown = "onboarded"

Send(t, op, code, password, new) ==
    call' = [call EXCEPT ![t] =
        [NoCall EXCEPT !.op = op, !.pc = "sent", !.code = code, !.password = password,
            !.new = new,
            !.cookie = IF op \in {"complete", "logout", "change"} THEN Cookie(t)
                                                                  ELSE NoSession]]

\* What the person submits, with the latest code and the password of the account.
RightOps(page) ==
    CASE page = "login" /\ pool.status # "none" -> {"login"}
      [] page = "signup" /\ pool.status = "none" -> {"signup"}
      [] page = "verify" /\ pool.status = "unconfirmed"
            -> IF pool.code THEN {"verify"} ELSE {"resend"}
      [] page = "complete" -> {"complete"}
      [] OTHER -> {}

Submit(t) ==
    /\ Form(t)
    /\ \E op \in RightOps(tab[t].page) :
          Send(t, op, op = "verify",
               IF op \in {"login", "verify"} THEN pool.password ELSE Password0, Password0)
    /\ UNCHANGED <<server, jar, tab, missteps>>

\* Links: where to go when the page is not the one that helps.
Link(t) ==
    LET r == tab[t] IN
    CASE r.page = "login" /\ pool.status = "none" -> "signup"
      [] r.page = "signup" /\ pool.status # "none" -> "login"
      [] r.page = "verify" /\ Form(t) /\ pool.status # "unconfirmed" -> "login"
      [] r.page \in {"forgot", "reset", "hosted", "error"} -> "login"
      [] r.page = "complete" /\ ~Loading(r) /\ r.shown = "nobody" -> "login"
      [] r.page = "password" /\ Form(t) -> "dashboard"
      [] OTHER -> r.page

Follow(t) ==
    /\ Idle(t)
    /\ Link(t) # tab[t].page
    /\ tab' = [tab EXCEPT ![t] = Enter(tab[t], Link(t), Cookie(t))]
    /\ UNCHANGED <<server, jar, call, missteps>>

\* The page does not go with the cookie: its calls are refused, or it says that
\* nobody is logged in, or it waits for a query that was given up.
Troubled(t) ==
    LET r == tab[t] IN
    /\ Idle(t)
    /\ r.page \in {"verify", "complete"} \cup ProtectedPages
    /\ IF Loading(r) THEN r.cleared ELSE r.shown # View(Cookie(t))

Load(t, page) ==
    tab' = [tab EXCEPT ![t] = Fresh(Guarded(page, Cookie(t)), Cookie(t))]

Reload(t) ==
    /\ Troubled(t)
    /\ Load(t, tab[t].page)
    /\ UNCHANGED <<server, jar, call, missteps>>

\* handleCallback: the cookie with the state of the authorization never reached the
\* browser, so that the only answer is an error page.
Callback(t) ==
    /\ tab[t].page = "hosted"
    /\ "oauth" \notin jar[browser[t]].others
    /\ Load(t, "error")
    /\ UNCHANGED <<server, jar, call, missteps>>

-----------------------------------------------------------------------------
(* Missteps *)

Offered(page) ==
    CASE page \in AuthPages \ {"verify"} -> {page}
      [] page = "verify" -> {"verify", "resend"}
      [] page = "dashboard" -> {"logout"}
      [] page = "password" -> {"logout", "change"}
      [] OTHER -> {}

\* Whatever a page offers, with any code and any password.
SubmitAnything(t) ==
    /\ Misstep
    /\ Form(t)
    /\ \E op \in Offered(tab[t].page) \cap Ops, code \in BOOLEAN, p, q \in Passwords :
          /\ op \notin {"verify", "reset"} => ~code
          /\ op \notin {"login", "verify", "signup", "reset", "change"} => p = Password0
          /\ op # "change" => q = Password0
          /\ Send(t, op, code, p, q)
    /\ UNCHANGED <<server, jar, tab>>

\* An address is opened, perhaps the same again.
OpenPage(t) ==
    /\ Misstep
    /\ Idle(t)
    /\ \E page \in AuthPages \cup ProtectedPages : Load(t, page)
    /\ UNCHANGED <<server, jar, call>>

\* An invitation is opened.  Its page is not public; the response of
\* handleReviewerActivate keeps the last cookie it is given.
OpenInvitation(t) ==
    /\ Misstep
    /\ Idle(t)
    /\ \/ Cookie(t).version = 0 /\ Load(t, "login") /\ UNCHANGED jar
       \/ /\ Cookie(t).version > 0
          /\ jar' = [jar EXCEPT ![browser[t]].others =
                        @ \cup Attach({"oauth"}, {"activation"})]
          /\ Load(t, "hosted")
    /\ UNCHANGED <<server, call>>

\* The session cookie or a mailed code expires.
Expire ==
    /\ Misstep
    /\ \/ /\ \E b \in Tabs : /\ jar[b].session # NoSession
                             /\ jar' = [jar EXCEPT ![b].session = NoSession]
          /\ UNCHANGED pool
       \/ pool.code /\ pool' = [pool EXCEPT !.code = FALSE] /\ UNCHANGED jar
       \/ pool.reset /\ pool' = [pool EXCEPT !.reset = FALSE] /\ UNCHANGED jar
    /\ UNCHANGED <<user, organizations, browser, tab, call>>

Right(t) == Submit(t) \/ Follow(t)
Answered(t) == Handle(t) \/ Arrive(t)
Queried(t) == AcceptMe(t) \/ RefuseMe(t) \/ Push(t)

Wrong(t) == Fail(t) \/ Lose(t) \/ FailMe(t) \/ SubmitAnything(t) \/ OpenPage(t)
            \/ OpenInvitation(t) \/ Render(t)

Next ==
    \/ \E t \in Tabs : \/ Right(t) \/ Answered(t) \/ Queried(t) \/ Redirect(t)
                       \/ Reload(t) \/ Callback(t) \/ Wrong(t)
    \/ Expire

\* The servers answer, the client renders, and the person goes on; somebody who
\* keeps coming back to a page that does not work at last reloads it.
Fairness ==
    \A t \in Tabs : /\ WF_vars(Right(t)) /\ WF_vars(Answered(t)) /\ WF_vars(Queried(t))
                    /\ WF_vars(Redirect(t)) /\ SF_vars(Reload(t))

Spec == Init /\ [][Next]_vars /\ Fairness

-----------------------------------------------------------------------------
(* Properties *)

\* Types; a code is kept only while there is something it confirms.
TypeOK ==
    /\ pool \in Account
    /\ pool.code => pool.status = "unconfirmed"
    /\ pool.reset => pool.status = "confirmed"
    /\ user \in Row
    /\ organizations \in Nat
    /\ browser \in Browsers
    /\ jar \in [Tabs -> [session : Session, others : SUBSET {"oauth", "activation"}]]
    /\ tab \in [Tabs -> Tab]
    /\ call \in [Tabs -> Call]
    /\ missteps \in 0..MaxMissteps

\* However many first logins race, each account has one organization, and none is
\* left without its user (createOrganizationAndUser).
OneOrganizationEach == organizations = IF user.version = 0 THEN 0 ELSE 1

\* Every answer of /auth has a status its description names, except that a login
\* before the verification is answered 422 (BusinessRuleViolationError).
AuthAnswersAreDocumented ==
    \A t \in Tabs : call[t].op # "none" /\ call[t].pc = "answered" =>
        \/ <<call[t].status, call[t].op>> \in AuthDocumented
        \/ call[t].op = "login" /\ call[t].status = 422

\* Cookies in the browsers, in answers under way, and those that will be made of rows
\* a login has read.
Sessions == {jar[b].session : b \in Tabs} \cup {call[t].signed : t \in Tabs}
            \cup {Sign(call[t].row) : t \in Tabs}

\* The sessions in force in each browser, and the person, as others see them.
InForce(b) == IF Valid(jar[b].session)
              THEN {[account |-> "person", role |-> "OWNER",
                     named |-> jar[b].session.onboarded]}
              ELSE {}
Person == [status |-> IF user.version = 0 THEN "none" ELSE "member",
           role |-> IF user.version = 0 THEN "MEMBER" ELSE "OWNER",
           named |-> user.named]

\* Whatever races, fails or gets lost between tabs, handlers and Cognito, the cookies
\* behave like a table of sessions on the server: a session that is accepted says
\* what the row says, and an onboarding or a logout ends those of all browsers.
Table == INSTANCE SessionTable WITH
            Accounts <- {"person"}, Clients <- Tabs, Roles <- {"OWNER"}, Founders <- {},
            people <- [a \in {"person"} |-> Person],
            table <- [b \in Tabs |-> InForce(b)]
ImplementsSessionTable == Table!Spec

\* A logout that found its session good ends every session of the user, those of
\* other browsers and those on their way included (handleLogout).
LogoutEndsSessions ==
    [][\A t \in Tabs : LogOut(t) => \A s \in Sessions : s.version < user'.version]_vars

\* A tab shows the dashboard of a session that is good.
In(t) ==
    /\ tab[t].page = "dashboard" /\ tab[t].shown = "onboarded"
    /\ View(Cookie(t)) = "onboarded"

\* After their last misstep the person gets to the dashboard in each tab, and stays
\* there: no order of answers, broadcasts and failures leads to a page from which
\* neither the form it shows nor loading it again (Reload) gets on.
EveryoneGetsIn == \A t \in Tabs : <>[]In(t)
=============================================================================
