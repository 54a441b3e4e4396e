-------------------------- MODULE SignIn_proofs --------------------------
(***************************************************************************)
(* Proofs about SignIn, for any tabs in any browsers, any passwords and    *)
(* any number of missteps: one organization for each account, answers that *)
(* are documented, and logouts that end every session.                     *)
(***************************************************************************)
EXTENDS SignIn, TLAPS, FiniteSetTheorems

Pages == AuthPages \cup ProtectedPages \cup {"hosted", "error"}

\* An answer the description of its call names, or the known exception.
Expected(c) == \/ <<c.status, c.op>> \in AuthDocumented
               \/ c.op = "login" /\ c.status = 422

\* The statuses and what becomes of the cookies, as sets of their own.
Codes == {0, 200, 400, 401, 403, 409, 422, 500}
Effects == {"nothing", "session", "cleared"}
Stages == {"sent", "confirmed", "read", "accepted", "answered"}

-----------------------------------------------------------------------------
(* The inductive invariant *)

\* Whatever a call holds was made of a version the row u has had; it gets past
\* authentication only once there is a user, and past the confirmation only when
\* the account a is confirmed.
CallOK(c, u, a) ==
    /\ c.op = "none" => c.pc = "answered"
    /\ c.pc = "accepted" => u.version > 0
    /\ c.op = "verify" /\ c.pc = "confirmed" => a.status = "confirmed"
    /\ c.signed.version <= u.version /\ c.row.version <= u.version
    /\ c.op # "none" /\ c.pc = "answered" => Expected(c)

CallsOK == \A t \in Tabs : CallOK(call[t], user, pool)
JarsOK == \A b \in Tabs : jar[b].session.version <= user.version

Inv == TypeOK /\ OneOrganizationEach /\ CallsOK /\ JarsOK

\* The account and the user only move forward.
Forward == /\ user' \in Row /\ user.version <= user'.version
           /\ pool' \in Account
           /\ pool.status = "confirmed" => pool'.status = "confirmed"
           /\ pool'.code => pool'.status = "unconfirmed"
           /\ pool'.reset => pool'.status = "confirmed"

-----------------------------------------------------------------------------
(* Types of the data *)

LEMMA SessionTypes == NoSession \in Session /\ \A row \in Row : Sign(row) \in Session
BY DEF NoSession, Session, Row, Sign

LEMMA PasswordType == Password0 \in Passwords
<1>1. Passwords # {}
      BY SignInAssumption, FS_EmptySet
<1>2. QED BY <1>1 DEF Password0

LEMMA NoCallType ==
    /\ NoCall \in Call
    /\ NoCall.op = "none" /\ NoCall.pc = "answered" /\ NoCall.sets = "nothing"
    /\ NoCall.signed = NoSession /\ NoCall.row = NoRow /\ NoCall.status = 0
BY SessionTypes, PasswordType DEF NoCall, Call, Row, NoRow, Ops

\* The statuses of the description, as far as they are used here.
LEMMA Docs ==
    /\ \A op \in Ops : <<200, op>> \in AuthDocumented /\ <<500, op>> \in AuthDocumented
    /\ \A op \in {"login", "verify", "complete", "change"} : <<401, op>> \in AuthDocumented
    /\ \A op \in {"verify", "reset", "change"} : <<400, op>> \in AuthDocumented
    /\ <<403, "complete">> \in AuthDocumented
    /\ <<409, "signup">> \in AuthDocumented
BY DEF Ops, AuthDocumented, LoginDocs, LogoutDocs, SignUpDocs, VerificationDocs,
       OnboardingDocs, PasswordDocs

LEMMA GuardedType ==
    ASSUME NEW page \in Pages, NEW session \in Session
    PROVE  Guarded(page, session) \in Pages
BY DEF Guarded, Pages, AuthPages, ProtectedPages

LEMMA FreshType ==
    ASSUME NEW page \in Pages, NEW session \in Session
    PROVE  Fresh(page, session) \in Tab
BY SessionTypes DEF Fresh, Pages, Tab

LEMMA EnterType ==
    ASSUME NEW r \in Tab, NEW page \in Pages, NEW session \in Session
    PROVE  Enter(r, page, session) \in Tab
<1> DEFINE to == Guarded(page, session)
<1>1. to \in Pages
      BY GuardedType
<1>2. Fresh(to, session) \in Tab
      BY <1>1, FreshType
<1> HIDE DEF to
<1>3. [r EXCEPT !.page = to, !.goal = "none"] \in Tab
      BY <1>1 DEF Tab, Pages
<1>4. QED BY <1>2, <1>3 DEF Enter, to

LEMMA RefetchType ==
    ASSUME NEW r \in Tab, NEW session \in Session
    PROVE  Refetch(r, session) \in Tab
BY DEF Refetch, Tab

LEMMA AfterSignInType ==
    ASSUME NEW r \in Tab, NEW goal \in {"complete", "dashboard"}, NEW session \in Session
    PROVE  AfterSignIn(r, goal, session) \in Tab
<1>1. goal \in Pages
      BY DEF Pages, AuthPages, ProtectedPages
<1>2. Enter(r, goal, session) \in Tab
      BY <1>1, EnterType
<1> DEFINE f == Refetch(r, session)
<1>3. f \in Tab
      BY RefetchType
<1> HIDE DEF f
<1>4. [f EXCEPT !.goal = goal] \in Tab
      BY <1>3 DEF Tab
<1>5. QED BY <1>2, <1>4 DEF AfterSignIn, f

LEMMA AfterErrorType ==
    ASSUME NEW c, NEW r \in Tab, NEW session \in Session
    PROVE  AfterError(c, r, session) \in Tab
<1>1. Enter(r, "verify", session) \in Tab
      BY EnterType DEF Pages, AuthPages
<1> DEFINE f == Refetch(r, session)
<1>2. f \in Tab /\ r.cleared \in BOOLEAN
      BY RefetchType DEF Tab
<1> HIDE DEF f
<1>3. [f EXCEPT !.tell = ~r.cleared] \in Tab
      BY <1>2 DEF Tab
<1>4. QED BY <1>1, <1>3 DEF AfterError, f

LEMMA AfterType ==
    ASSUME NEW c, NEW r \in Tab, NEW session \in Session
    PROVE  After(c, r, session) \in Tab
<1>1. \A page \in {"reset", "login", "verify"} : Enter(r, page, session) \in Tab
      BY EnterType DEF Pages, AuthPages
<1>2. \A goal \in {"complete", "dashboard"} : AfterSignIn(r, goal, session) \in Tab
      BY AfterSignInType
<1>3. AfterError(c, r, session) \in Tab
      BY AfterErrorType
<1>4. QED BY <1>1, <1>2, <1>3 DEF After

LEMMA ToldType ==
    ASSUME NEW tabs \in [Tabs -> Tab], NEW t \in Tabs
    PROVE  Told(tabs, t) \in [Tabs -> Tab]
<1>1. ASSUME NEW u \in Tabs
      PROVE  [tabs[u] EXCEPT !.cleared = TRUE, !.tell = FALSE, !.sent = NoSession,
                             !.me = IF Loading(tabs[u]) THEN "asked" ELSE "idle"] \in Tab
  <2>1. tabs[u] \in Tab
        OBVIOUS
  <2>2. QED BY <2>1, SessionTypes DEF Tab
<1>2. QED BY <1>1 DEF Told

-----------------------------------------------------------------------------
(* Steps of the handlers *)

\* What a call holds stays right when account and user move forward.
LEMMA CallStays ==
    ASSUME TypeOK, Forward, NEW c \in Call, CallOK(c, user, pool)
    PROVE  CallOK(c, user', pool')
BY DEF TypeOK, Forward, Row, Call, Session, CallOK, Expected

\* A step of the handler of t, by what it leaves of the call.
LEMMA HandlerKeeps ==
    ASSUME Inv, Forward, NEW t \in Tabs, NEW n \in Call,
           call' = [call EXCEPT ![t] = n], CallOK(n, user', pool'),
           organizations' \in Nat, OneOrganizationEach',
           UNCHANGED <<browser, jar, tab>>, missteps' \in 0..MaxMissteps
    PROVE  Inv'
<1>1. TypeOK'
      BY DEF Inv, TypeOK, Forward
<1>2. CallsOK'
  <2> SUFFICES ASSUME NEW u \in Tabs PROVE CallOK(call'[u], user', pool')
      BY DEF CallsOK
  <2>1. CASE u = t
        BY <2>1 DEF Inv, TypeOK
  <2>2. CASE u # t
    <3>1. call'[u] = call[u] /\ call[u] \in Call /\ CallOK(call[u], user, pool)
          BY <2>2 DEF Inv, TypeOK, CallsOK
    <3>2. QED BY <3>1, CallStays DEF Inv
  <2>3. QED BY <2>1, <2>2
<1>3. JarsOK'
  <2>1. \A b \in Tabs : jar[b].session.version \in Nat
        BY DEF Inv, TypeOK, Session
  <2>2. QED BY <2>1 DEF Inv, JarsOK, Forward, TypeOK, Row
<1>4. QED BY <1>1, <1>2, <1>3 DEF Inv

LEMMA CallFields ==
    Call = [op : Ops \cup {"none"}, pc : Stages, code : BOOLEAN, password : Passwords,
            new : Passwords, cookie : Session, row : Row, status : Codes, sets : Effects,
            signed : Session]
BY DEF Call, Stages, Codes, Effects

\* An answered call.
AnswerOf(op, status, sets, signed) ==
    [NoCall EXCEPT !.op = op, !.status = status, !.sets = sets, !.signed = signed]

LEMMA AnsweredCall ==
    ASSUME NEW op \in Ops \cup {"none"}, NEW status \in Codes,
           NEW sets \in Effects, NEW signed \in Session
    PROVE  LET n == AnswerOf(op, status, sets, signed)
           IN  /\ n \in Call
               /\ n.op = op /\ n.status = status /\ n.sets = sets /\ n.signed = signed
               /\ n.pc = "answered" /\ n.row = NoRow
BY NoCallType, CallFields DEF AnswerOf

\* An answer that is expected, and signs no version the user has not had.
LEMMA ReplyKeeps ==
    ASSUME Inv, Forward, NEW t \in Tabs,
           NEW status \in Codes,
           NEW sets \in Effects, NEW signed \in Session,
           Reply(t, status, sets, signed), signed.version <= user'.version,
           call[t].op # "none",
           \/ <<status, call[t].op>> \in AuthDocumented
           \/ call[t].op = "login" /\ status = 422,
           organizations' \in Nat, OneOrganizationEach',
           UNCHANGED <<browser, jar, tab>>, missteps' \in 0..MaxMissteps
    PROVE  Inv'
<1>1. call[t] \in Call
      BY DEF Inv, TypeOK
<1> DEFINE n == AnswerOf(call[t].op, status, sets, signed)
<1>2. /\ n \in Call
      /\ n.op = call[t].op /\ n.status = status /\ n.pc = "answered"
      /\ n.signed = signed /\ n.row = NoRow
  <2>1. call[t].op \in Ops \cup {"none"}
        BY <1>1 DEF Call
  <2>2. QED BY <2>1, AnsweredCall
<1>4. call' = [call EXCEPT ![t] = n]
      BY DEF Reply, AnswerOf
<1> HIDE DEF n
<1>5. NoRow.version <= user'.version
      BY DEF Forward, Row, NoRow
<1>6. CallOK(n, user', pool')
      BY <1>2, <1>5 DEF CallOK, Expected
<1>7. QED BY <1>2, <1>4, <1>6, HandlerKeeps

LEMMA AnswerKeeps ==
    ASSUME Inv, Forward, NEW t \in Tabs,
           NEW status \in Codes,
           Answer(t, status), call[t].op # "none",
           \/ <<status, call[t].op>> \in AuthDocumented
           \/ call[t].op = "login" /\ status = 422,
           organizations' \in Nat, OneOrganizationEach',
           UNCHANGED <<browser, jar, tab>>, missteps' \in 0..MaxMissteps
    PROVE  Inv'
<1>1. NoSession.version <= user'.version
      BY DEF Forward, Row, NoSession
<1>2. Reply(t, status, "nothing", NoSession) /\ NoSession \in Session
      BY SessionTypes DEF Answer
<1>3. "nothing" \in Effects
      BY DEF Effects
<1>4. QED BY <1>1, <1>2, <1>3, ReplyKeeps

\* A call that goes on.
LEMMA AdvanceKeeps ==
    ASSUME Inv, Forward, NEW t \in Tabs, NEW pc \in {"confirmed", "read", "accepted"},
           NEW row \in Row, row.version <= user'.version,
           call' = [call EXCEPT ![t].pc = pc, ![t].row = row], call[t].op # "none",
           pc = "accepted" => user'.version > 0,
           call[t].op = "verify" /\ pc = "confirmed" => pool'.status = "confirmed",
           organizations' \in Nat, OneOrganizationEach',
           UNCHANGED <<browser, jar, tab>>, missteps' \in 0..MaxMissteps
    PROVE  Inv'
<1>1. call[t] \in Call /\ CallOK(call[t], user, pool)
      BY DEF Inv, TypeOK, CallsOK
<1> PICK n : n = [call[t] EXCEPT !.pc = pc, !.row = row]
    OBVIOUS
<1>2. /\ n \in Call
      /\ n.op = call[t].op /\ n.pc = pc /\ n.signed = call[t].signed /\ n.row = row
      BY <1>1, CallFields DEF Stages
<1>4. call' = [call EXCEPT ![t] = n]
      BY DEF Inv, TypeOK
<1>5. call[t].signed.version <= user'.version
      BY <1>1 DEF CallOK, Call, Session, Forward, Row, Inv, TypeOK
<1>6. CallOK(n, user', pool')
      BY <1>2, <1>5 DEF CallOK
<1>7. QED BY <1>2, <1>4, <1>6, HandlerKeeps

\* Nothing happens to the account and the user.
LEMMA Still ==
    ASSUME Inv, UNCHANGED <<pool, user, organizations>>
    PROVE  Forward /\ organizations' \in Nat /\ OneOrganizationEach'
BY DEF Inv, TypeOK, Forward, Row, OneOrganizationEach

\* Something happens to the account alone.
LEMMA AccountMoves ==
    ASSUME Inv, pool' \in Account, UNCHANGED <<user, organizations>>,
           pool.status = "confirmed" => pool'.status = "confirmed",
           pool'.code => pool'.status = "unconfirmed",
           pool'.reset => pool'.status = "confirmed"
    PROVE  Forward /\ organizations' \in Nat /\ OneOrganizationEach'
BY DEF Inv, TypeOK, Forward, Row, OneOrganizationEach

-----------------------------------------------------------------------------
(* The handlers *)

LEMMA CodesUsed == /\ {200, 400, 401, 403, 409, 422, 500} \subseteq Codes
                   /\ {"nothing", "session", "cleared"} \subseteq Effects
BY DEF Codes, Effects

\* What is known of a call under way.
LEMMA CallFacts ==
    ASSUME Inv, NEW t \in Tabs
    PROVE  /\ call[t] \in Call /\ CallOK(call[t], user, pool)
           /\ call[t].password \in Passwords /\ call[t].new \in Passwords
           /\ call[t].row \in Row /\ call[t].op \in Ops \cup {"none"}
BY CallFields DEF Inv, TypeOK, CallsOK

LEMMA UserFacts ==
    ASSUME Inv
    PROVE  /\ user \in Row /\ user.version \in Nat /\ user.named \in BOOLEAN
           /\ pool \in Account /\ pool.password \in Passwords
           /\ pool.code \in BOOLEAN /\ pool.reset \in BOOLEAN
           /\ pool.status \in {"none", "unconfirmed", "confirmed"}
           /\ organizations = IF user.version = 0 THEN 0 ELSE 1
BY DEF Inv, TypeOK, Row, Account, OneOrganizationEach

\* Every call may be answered 200, and 500.
LEMMA OrdinaryAnswer ==
    ASSUME Inv, Forward, NEW t \in Tabs, NEW status \in {200, 500},
           Answer(t, status), call[t].op # "none",
           organizations' \in Nat, OneOrganizationEach',
           UNCHANGED <<browser, jar, tab>>, missteps' \in 0..MaxMissteps
    PROVE  Inv'
<1>1. call[t].op \in Ops
      BY CallFacts
<1>2. <<200, call[t].op>> \in AuthDocumented /\ <<500, call[t].op>> \in AuthDocumented
      BY <1>1, Docs
<1>3. <<status, call[t].op>> \in AuthDocumented
      BY <1>2
<1>4. QED BY <1>3, CodesUsed, AnswerKeeps

LEMMA OrdinaryReply ==
    ASSUME Inv, Forward, NEW t \in Tabs, NEW sets \in Effects, NEW signed \in Session,
           Reply(t, 200, sets, signed), signed.version <= user'.version,
           call[t].op # "none",
           organizations' \in Nat, OneOrganizationEach',
           UNCHANGED <<browser, jar, tab>>, missteps' \in 0..MaxMissteps
    PROVE  Inv'
<1>1. call[t].op \in Ops
      BY CallFacts
<1>2. <<200, call[t].op>> \in AuthDocumented /\ 200 \in Codes
      BY <1>1, Docs, CodesUsed
<1>3. QED BY <1>2, ReplyKeeps

LEMMA SignUpInv ==
    ASSUME Inv, NEW t \in Tabs, SignUp(t),
           UNCHANGED <<browser, jar, tab>>, missteps' \in 0..MaxMissteps
    PROVE  Inv'
<1>1. /\ call[t].op = "signup" /\ "signup" \in Ops
      /\ UNCHANGED <<user, organizations>>
      BY DEF SignUp, At, Ops
<1>2. Forward /\ organizations' \in Nat /\ OneOrganizationEach'
  <2>1. CASE UNCHANGED pool
        BY <1>1, <2>1, Still
  <2>2. CASE /\ pool.status = "none"
             /\ pool' = [status |-> "unconfirmed", password |-> call[t].password,
                         code |-> TRUE, reset |-> FALSE]
    <3>1. pool' \in Account
          BY <2>2, CallFacts DEF Account
    <3>2. QED BY <1>1, <2>2, <3>1, AccountMoves
  <2>3. QED BY <2>1, <2>2 DEF SignUp
<1>3. CASE Answer(t, 200)
      BY <1>1, <1>2, <1>3, OrdinaryAnswer
<1>4. CASE Answer(t, 409)
      BY <1>1, <1>2, <1>4, CodesUsed, Docs, AnswerKeeps
<1>5. QED BY <1>3, <1>4 DEF SignUp

LEMMA ConfirmSignUpInv ==
    ASSUME Inv, NEW t \in Tabs, ConfirmSignUp(t),
           UNCHANGED <<browser, jar, tab>>, missteps' \in 0..MaxMissteps
    PROVE  Inv'
<1>1. /\ call[t].op = "verify" /\ "verify" \in Ops
      /\ UNCHANGED <<user, organizations>>
      BY DEF ConfirmSignUp, At, Ops
<1>2. CASE /\ pool' = [pool EXCEPT !.status = "confirmed", !.code = FALSE]
           /\ Advance(t, "confirmed")
  <2>1. pool' \in Account /\ pool'.status = "confirmed" /\ ~pool'.code
        BY <1>2, UserFacts DEF Account
  <2>2. Forward /\ organizations' \in Nat /\ OneOrganizationEach'
        BY <1>1, <2>1, AccountMoves
  <2>3. call' = [call EXCEPT ![t].pc = "confirmed", ![t].row = call[t].row]
        BY <1>2, CallFacts, CallFields DEF Advance, Inv, TypeOK
  <2>4. call[t].row \in Row /\ call[t].row.version <= user'.version
        BY <1>1, CallFacts DEF CallOK
  <2>5. QED BY <1>1, <2>1, <2>2, <2>3, <2>4, AdvanceKeeps
<1>3. CASE UNCHANGED pool /\ (Answer(t, 400) \/ Answer(t, 500))
  <2>1. Forward /\ organizations' \in Nat /\ OneOrganizationEach'
        BY <1>1, <1>3, Still
  <2>2. CASE Answer(t, 400)
        BY <1>1, <2>1, <2>2, CodesUsed, Docs, AnswerKeeps
  <2>3. CASE Answer(t, 500)
        BY <1>1, <2>1, <2>3, OrdinaryAnswer
  <2>4. QED BY <1>3, <2>2, <2>3
<1>4. QED BY <1>2, <1>3 DEF ConfirmSignUp

LEMMA LoginInv ==
    ASSUME Inv, NEW t \in Tabs, Login(t),
           UNCHANGED <<browser, jar, tab>>, missteps' \in 0..MaxMissteps
    PROVE  Inv'
<1>1. /\ call[t].op \in {"login", "verify"} /\ {"login", "verify"} \subseteq Ops
      /\ call[t].op = "verify" => call[t].pc = "confirmed"
      /\ UNCHANGED <<pool, user, organizations>>
      BY DEF Login, At, Ops, server
<1>2. Forward /\ organizations' \in Nat /\ OneOrganizationEach'
      BY <1>1, Still
<1>3. CASE Answer(t, 401)
      BY <1>1, <1>2, <1>3, CodesUsed, Docs, AnswerKeeps
<1>4. CASE pool.status = "unconfirmed" /\ Answer(t, 422)
  <2>1. call[t].op = "login"
        BY <1>1, <1>4, CallFacts DEF CallOK
  <2>2. QED BY <1>2, <1>4, <2>1, CodesUsed, AnswerKeeps
<1>5. CASE call' = [call EXCEPT ![t].pc = "read", ![t].row = user]
  <2>1. user.version <= user'.version
        BY <1>1, UserFacts
  <2>2. QED BY <1>1, <1>2, <1>5, <2>1, UserFacts, AdvanceKeeps
<1>6. QED BY <1>3, <1>4, <1>5 DEF Login

LEMMA CreateSessionInv ==
    ASSUME Inv, NEW t \in Tabs, CreateSession(t),
           UNCHANGED <<browser, jar, tab>>, missteps' \in 0..MaxMissteps
    PROVE  Inv'
<1>1. /\ call[t].op \in {"login", "verify"} /\ {"login", "verify"} \subseteq Ops
      /\ UNCHANGED pool
      BY DEF CreateSession, At, Ops
<1>2. CASE AnswerSigned(t, call[t].row) /\ UNCHANGED <<user, organizations>>
  <2>1. Forward /\ organizations' \in Nat /\ OneOrganizationEach'
        BY <1>1, <1>2, Still
  <2>2. /\ Sign(call[t].row) \in Session
        /\ Sign(call[t].row).version <= user'.version
        BY <1>2, CallFacts, SessionTypes DEF Sign, CallOK
  <2>3. QED BY <1>1, <1>2, <2>1, <2>2, CodesUsed, OrdinaryReply DEF AnswerSigned
<1>3. CASE /\ user.version = 0
           /\ user' = [version |-> 1, named |-> FALSE]
           /\ organizations' = organizations + 1
           /\ AnswerSigned(t, user')
  <2>1. Forward /\ organizations' \in Nat /\ OneOrganizationEach'
        BY <1>1, <1>3, UserFacts DEF Forward, Row, Inv, TypeOK, OneOrganizationEach
  <2>2. Sign(user') \in Session /\ Sign(user').version <= user'.version
        BY <1>3 DEF Sign, Session
  <2>3. QED BY <1>1, <1>3, <2>1, <2>2, CodesUsed, OrdinaryReply DEF AnswerSigned
<1>4. CASE Answer(t, 500) /\ UNCHANGED <<user, organizations>>
  <2>1. Forward /\ organizations' \in Nat /\ OneOrganizationEach'
        BY <1>1, <1>4, Still
  <2>2. QED BY <1>1, <1>4, <2>1, OrdinaryAnswer
<1>5. QED BY <1>2, <1>3, <1>4 DEF CreateSession

LEMMA AuthenticateInv ==
    ASSUME Inv, NEW t \in Tabs, Authenticate(t),
           UNCHANGED <<browser, jar, tab>>, missteps' \in 0..MaxMissteps
    PROVE  Inv'
<1>1. /\ call[t].op \in {"complete", "logout", "change"}
      /\ {"complete", "logout", "change"} \subseteq Ops
      /\ UNCHANGED <<pool, user, organizations>>
      BY DEF Authenticate, At, Ops, server
<1>2. Forward /\ organizations' \in Nat /\ OneOrganizationEach'
      BY <1>1, Still
<1>3. CASE AnswerCleared(t)
  <2>1. NoSession \in Session /\ NoSession.version <= user'.version
        BY <1>1, UserFacts, SessionTypes DEF NoSession
  <2>2. QED BY <1>1, <1>2, <1>3, <2>1, CodesUsed, OrdinaryReply DEF AnswerCleared
<1>4. CASE call[t].op # "logout" /\ Answer(t, 401)
  <2>1. <<401, call[t].op>> \in AuthDocumented
        BY <1>1, <1>4, Docs
  <2>2. QED BY <1>1, <1>2, <1>4, <2>1, CodesUsed, AnswerKeeps
<1>5. CASE call[t].op = "complete" /\ Answer(t, 403)
      BY <1>2, <1>5, CodesUsed, Docs, AnswerKeeps
<1>6. CASE Valid(call[t].cookie) /\ Advance(t, "accepted")
  <2>1. user'.version > 0
    <3>1. call[t].cookie.version \in Nat
          BY CallFacts, CallFields DEF Session
    <3>2. QED BY <1>1, <1>6, <3>1 DEF Valid
  <2>2. call' = [call EXCEPT ![t].pc = "accepted", ![t].row = call[t].row]
        BY <1>6, CallFacts, CallFields DEF Advance, Inv, TypeOK
  <2>3. call[t].row \in Row /\ call[t].row.version <= user'.version
        BY <1>1, CallFacts DEF CallOK
  <2>4. QED BY <1>1, <1>2, <2>1, <2>2, <2>3, AdvanceKeeps
<1>7. QED BY <1>3, <1>4, <1>5, <1>6 DEF Authenticate

LEMMA CompleteSignUpInv ==
    ASSUME Inv, NEW t \in Tabs, CompleteSignUp(t),
           UNCHANGED <<browser, jar, tab>>, missteps' \in 0..MaxMissteps
    PROVE  Inv'
<1>1. /\ call[t].op = "complete" /\ call[t].pc = "accepted"
      /\ user' = [version |-> user.version + 1, named |-> TRUE]
      /\ UNCHANGED <<pool, organizations>>
      BY DEF CompleteSignUp, At
<1>2. user.version > 0
      BY <1>1, CallFacts DEF CallOK
<1>3. Forward /\ organizations' \in Nat /\ OneOrganizationEach'
      BY <1>1, <1>2, UserFacts DEF Forward, Row, Inv, TypeOK, OneOrganizationEach
<1>4. Sign(user') \in Session /\ Sign(user').version <= user'.version
      BY <1>1, UserFacts DEF Sign, Session
<1>5. QED
      BY <1>1, <1>3, <1>4, CodesUsed, OrdinaryReply DEF CompleteSignUp, AnswerSigned

LEMMA LogOutInv ==
    ASSUME Inv, NEW t \in Tabs, LogOut(t),
           UNCHANGED <<browser, jar, tab>>, missteps' \in 0..MaxMissteps
    PROVE  Inv'
<1>1. /\ call[t].op = "logout" /\ call[t].pc = "accepted"
      /\ user' = [user EXCEPT !.version = @ + 1]
      /\ UNCHANGED <<pool, organizations>>
      BY DEF LogOut, At
<1>2. user.version > 0
      BY <1>1, CallFacts DEF CallOK
<1>3. user' \in Row /\ user'.version = user.version + 1
      BY <1>1, UserFacts DEF Row
<1>4. Forward /\ organizations' \in Nat /\ OneOrganizationEach'
      BY <1>1, <1>2, <1>3, UserFacts DEF Forward, Inv, TypeOK, OneOrganizationEach
<1>5. NoSession \in Session /\ NoSession.version <= user'.version
      BY <1>3, UserFacts, SessionTypes DEF NoSession
<1>6. QED BY <1>1, <1>4, <1>5, CodesUsed, OrdinaryReply DEF LogOut, AnswerCleared

LEMMA ConfirmPasswordInv ==
    ASSUME Inv, NEW t \in Tabs, ConfirmPassword(t),
           UNCHANGED <<browser, jar, tab>>, missteps' \in 0..MaxMissteps
    PROVE  Inv'
<1>1. call[t].op = "change" /\ UNCHANGED <<pool, user, organizations>>
      BY DEF ConfirmPassword, At, server
<1>2. Forward /\ organizations' \in Nat /\ OneOrganizationEach'
      BY <1>1, Still
<1>3. CASE Advance(t, "confirmed")
  <2>1. call' = [call EXCEPT ![t].pc = "confirmed", ![t].row = call[t].row]
        BY <1>3, CallFacts, CallFields DEF Advance, Inv, TypeOK
  <2>2. call[t].row \in Row /\ call[t].row.version <= user'.version
        BY <1>1, CallFacts DEF CallOK
  <2>3. QED BY <1>1, <1>2, <2>1, <2>2, AdvanceKeeps
<1>4. CASE Answer(t, 401)
      BY <1>1, <1>2, <1>4, CodesUsed, Docs, AnswerKeeps
<1>5. QED BY <1>3, <1>4 DEF ConfirmPassword

LEMMA ChangePasswordInv ==
    ASSUME Inv, NEW t \in Tabs, ChangePassword(t),
           UNCHANGED <<browser, jar, tab>>, missteps' \in 0..MaxMissteps
    PROVE  Inv'
<1>1. call[t].op = "change" /\ UNCHANGED <<user, organizations>>
      BY DEF ChangePassword, At
<1>2. Forward /\ organizations' \in Nat /\ OneOrganizationEach'
  <2>1. CASE UNCHANGED pool
        BY <1>1, <2>1, Still
  <2>2. CASE pool' = [pool EXCEPT !.password = call[t].new]
    <3>1. /\ pool' \in Account /\ pool'.status = pool.status
          /\ pool'.code = pool.code /\ pool'.reset = pool.reset
          BY <2>2, CallFacts, UserFacts DEF Account
    <3>2. QED BY <1>1, <3>1, AccountMoves DEF Inv, TypeOK
  <2>3. QED BY <2>1, <2>2 DEF ChangePassword
<1>3. CASE Answer(t, 200)
      BY <1>1, <1>2, <1>3, OrdinaryAnswer
<1>4. CASE Answer(t, 400)
      BY <1>1, <1>2, <1>4, CodesUsed, Docs, AnswerKeeps
<1>5. QED BY <1>3, <1>4 DEF ChangePassword

LEMMA SendCodeInv ==
    ASSUME Inv, NEW t \in Tabs, SendCode(t),
           UNCHANGED <<browser, jar, tab>>, missteps' \in 0..MaxMissteps
    PROVE  Inv'
<1>1. call[t].op \in {"resend", "forgot"} /\ UNCHANGED <<user, organizations>>
      BY DEF SendCode, At
<1> DEFINE code == pool.code \/ (call[t].op = "resend" /\ pool.status = "unconfirmed")
           reset == pool.reset \/ (call[t].op = "forgot" /\ pool.status = "confirmed")
<1>2. pool' = [pool EXCEPT !.code = code, !.reset = reset]
      BY DEF SendCode
<1>3. code \in BOOLEAN /\ reset \in BOOLEAN
      BY UserFacts
<1>4. (code => pool.status = "unconfirmed") /\ (reset => pool.status = "confirmed")
      BY DEF Inv, TypeOK
<1> HIDE DEF code, reset
<1>5. /\ pool' \in Account /\ pool'.status = pool.status
      /\ pool'.code = code /\ pool'.reset = reset
      BY <1>2, <1>3, UserFacts DEF Account
<1>6. Forward /\ organizations' \in Nat /\ OneOrganizationEach'
      BY <1>1, <1>4, <1>5, AccountMoves
<1>7. QED BY <1>1, <1>6, OrdinaryAnswer DEF SendCode

LEMMA ResetPasswordInv ==
    ASSUME Inv, NEW t \in Tabs, ResetPassword(t),
           UNCHANGED <<browser, jar, tab>>, missteps' \in 0..MaxMissteps
    PROVE  Inv'
<1>1. call[t].op = "reset" /\ UNCHANGED <<user, organizations>>
      BY DEF ResetPassword, At
<1>2. Forward /\ organizations' \in Nat /\ OneOrganizationEach'
  <2>1. CASE UNCHANGED pool
        BY <1>1, <2>1, Still
  <2>2. CASE pool' = [pool EXCEPT !.password = call[t].password, !.reset = FALSE]
    <3>1. /\ pool' \in Account /\ pool'.status = pool.status
          /\ pool'.code = pool.code /\ pool'.reset = FALSE
          BY <2>2, CallFacts, UserFacts DEF Account
    <3>2. QED BY <1>1, <3>1, AccountMoves DEF Inv, TypeOK
  <2>3. QED BY <2>1, <2>2 DEF ResetPassword
<1>3. CASE Answer(t, 200)
      BY <1>1, <1>2, <1>3, OrdinaryAnswer
<1>4. CASE Answer(t, 400)
      BY <1>1, <1>2, <1>4, CodesUsed, Docs, AnswerKeeps
<1>5. QED BY <1>3, <1>4 DEF ResetPassword

LEMMA HandleInv == ASSUME Inv, NEW t \in Tabs, Handle(t) PROVE Inv'
<1>1. UNCHANGED <<browser, jar, tab>> /\ missteps' \in 0..MaxMissteps
      BY DEF Handle, Inv, TypeOK
<1>2. QED
      BY <1>1, SignUpInv, ConfirmSignUpInv, LoginInv, CreateSessionInv, AuthenticateInv,
         CompleteSignUpInv, LogOutInv, ConfirmPasswordInv, ChangePasswordInv, SendCodeInv,
         ResetPasswordInv
         DEF Handle

LEMMA MisstepType == ASSUME Inv, Misstep PROVE missteps' \in 0..MaxMissteps
BY SignInAssumption DEF Inv, TypeOK, Misstep

LEMMA FailInv == ASSUME Inv, NEW t \in Tabs, Fail(t) PROVE Inv'
<1>1. UNCHANGED <<browser, jar, tab>> /\ missteps' \in 0..MaxMissteps
      BY MisstepType DEF Fail, server
<1>2. Forward /\ organizations' \in Nat /\ OneOrganizationEach'
      BY Still DEF Fail, server
<1>3. call[t].op # "none"
      BY CallFacts DEF Fail, CallOK
<1>4. Answer(t, 200) \/ Answer(t, 500)
      BY DEF Fail
<1>5. CASE Answer(t, 200)
      BY <1>1, <1>2, <1>3, <1>5, OrdinaryAnswer
<1>6. CASE Answer(t, 500)
      BY <1>1, <1>2, <1>3, <1>6, OrdinaryAnswer
<1>7. QED BY <1>4, <1>5, <1>6

-----------------------------------------------------------------------------
(* Steps of the client *)

\* The cookies of a browser.
Cookies == [session : Session, others : SUBSET {"oauth", "activation"}]

LEMMA ClientFacts ==
    ASSUME Inv, NEW t \in Tabs
    PROVE  /\ browser[t] \in Tabs
           /\ jar[browser[t]] \in Cookies
           /\ Cookie(t) \in Session /\ Cookie(t).version <= user.version
           /\ tab[t] \in Tab
           /\ tab \in [Tabs -> Tab] /\ jar \in [Tabs -> Cookies] /\ call \in [Tabs -> Call]
<1>1. browser[t] \in Tabs
      BY SignInAssumption DEF Inv, TypeOK
<1>2. jar[browser[t]] \in Cookies
      BY <1>1 DEF Inv, TypeOK, Cookies
<1>3. QED BY <1>1, <1>2 DEF Inv, TypeOK, JarsOK, Cookie, Cookies

\* The client works with what the servers gave it.
LEMMA ClientKeeps ==
    ASSUME Inv, UNCHANGED server, missteps' \in 0..MaxMissteps,
           tab' \in [Tabs -> Tab],
           jar' \in [Tabs -> Cookies],
           \A b \in Tabs : jar'[b].session.version <= user.version,
           call' \in [Tabs -> Call],
           \A t \in Tabs : CallOK(call'[t], user, pool)
    PROVE  Inv'
<1>1. TypeOK'
      BY DEF Inv, TypeOK, server, Cookies
<1>2. CallsOK' /\ JarsOK' /\ OneOrganizationEach'
      BY DEF Inv, CallsOK, JarsOK, OneOrganizationEach, server
<1>3. QED BY <1>1, <1>2 DEF Inv

\* A step that changes only what tabs show.
LEMMA TabsKeep ==
    ASSUME Inv, UNCHANGED <<server, jar, call>>, missteps' \in 0..MaxMissteps,
           tab' \in [Tabs -> Tab]
    PROVE  Inv'
<1>1. /\ jar' \in [Tabs -> Cookies] /\ call' \in [Tabs -> Call]
      /\ \A b \in Tabs : jar'[b].session.version <= user.version
      /\ \A t \in Tabs : CallOK(call'[t], user, pool)
      BY DEF Inv, TypeOK, CallsOK, JarsOK, Cookies
<1>2. QED BY <1>1, ClientKeeps

LEMMA TabKeeps ==
    ASSUME Inv, UNCHANGED <<server, jar, call>>, missteps' \in 0..MaxMissteps,
           NEW t \in Tabs, NEW r \in Tab, tab' = [tab EXCEPT ![t] = r]
    PROVE  Inv'
BY TabsKeep, ClientFacts

LEMMA MisstepsStay == ASSUME Inv, UNCHANGED missteps PROVE missteps' \in 0..MaxMissteps
BY DEF Inv, TypeOK

LEMMA ReceivedType ==
    ASSUME Inv, NEW j \in Cookies, j.session.version <= user.version,
           NEW c, c.signed \in Session, c.signed.version <= user.version
    PROVE  /\ Received(j, c) \in Cookies
           /\ Received(j, c).session.version <= user.version
<1>1. NoSession.version <= user.version
      BY UserFacts DEF NoSession
<1>2. QED BY <1>1, SessionTypes DEF Received, Cookies

LEMMA DeliverKeeps ==
    ASSUME Inv, NEW t \in Tabs, NEW c, c.signed \in Session,
           c.signed.version <= user.version,
           Deliver(t, c), missteps' \in 0..MaxMissteps
    PROVE  Inv'
<1> DEFINE j == Received(jar[browser[t]], c)
           tabs == [tab EXCEPT ![t] = After(c, tab[t], j.session)]
<1>1. j \in Cookies /\ j.session.version <= user.version
  <2>1. /\ jar[browser[t]] \in Cookies
        /\ jar[browser[t]].session.version <= user.version
        BY ClientFacts DEF Cookie
  <2>2. QED BY <2>1, ReceivedType
<1>2. tabs \in [Tabs -> Tab]
  <2>1. j.session \in Session
        BY <1>1 DEF Cookies
  <2>2. After(c, tab[t], j.session) \in Tab
        BY <2>1, ClientFacts, AfterType
  <2>3. QED BY <2>2, ClientFacts
<1>3. /\ jar' = [jar EXCEPT ![browser[t]] = j]
      /\ tab' = tabs \/ tab' = Told(tabs, t)
      /\ call' = [call EXCEPT ![t] = NoCall]
      /\ UNCHANGED server
      BY DEF Deliver
<1> HIDE DEF j, tabs
<1>4. tab' \in [Tabs -> Tab]
      BY <1>2, <1>3, ToldType
<1>5. /\ jar' \in [Tabs -> Cookies]
      /\ \A b \in Tabs : jar'[b].session.version <= user.version
      BY <1>1, <1>3, ClientFacts DEF Inv, JarsOK
<1>6. CallOK(NoCall, user, pool)
      BY NoCallType, UserFacts DEF CallOK, NoSession, NoRow
<1>7. /\ call' \in [Tabs -> Call]
      /\ \A u \in Tabs : CallOK(call'[u], user, pool)
      BY <1>3, <1>6, ClientFacts, NoCallType DEF Inv, CallsOK
<1>8. QED BY <1>3, <1>4, <1>5, <1>7, ClientKeeps

LEMMA ArriveInv == ASSUME Inv, NEW t \in Tabs, Arrive(t) PROVE Inv'
<1>1. call[t].signed \in Session /\ call[t].signed.version <= user.version
      BY CallFacts, CallFields DEF CallOK
<1>2. QED BY <1>1, MisstepsStay, DeliverKeeps DEF Arrive

LEMMA LoseInv == ASSUME Inv, NEW t \in Tabs, Lose(t) PROVE Inv'
<1> DEFINE c == [NoCall EXCEPT !.op = call[t].op]
<1>1. c.signed = NoSession
      BY NoCallType, CallFields
<1>2. c.signed \in Session /\ c.signed.version <= user.version
      BY <1>1, SessionTypes, UserFacts DEF NoSession
<1>3. Deliver(t, c) /\ missteps' \in 0..MaxMissteps
      BY MisstepType DEF Lose
<1> HIDE DEF c
<1>4. QED BY <1>2, <1>3, DeliverKeeps

LEMMA SettleKeeps ==
    ASSUME Inv, NEW t \in Tabs, NEW r \in Tab, NEW tells, Settle(t, r, tells),
           UNCHANGED <<server, jar, call>>, missteps' \in 0..MaxMissteps
    PROVE  Inv'
<1> DEFINE done == [r EXCEPT !.me = "idle", !.sent = NoSession, !.tell = FALSE]
           n == IF r.goal = "none" THEN done ELSE Enter(done, r.goal, Cookie(t))
           tabs == [tab EXCEPT ![t] = n]
<1>1. done \in Tab
      BY SessionTypes DEF Tab
<1>2. n \in Tab
  <2>1. r.goal \in Pages \cup {"none"}
        BY DEF Tab, Pages, AuthPages, ProtectedPages
  <2> HIDE DEF done
  <2>2. QED BY <1>1, <2>1, EnterType, ClientFacts
<1>3. tab' = tabs \/ tab' = Told(tabs, t)
      BY DEF Settle
<1> HIDE DEF n
<1>4. tabs \in [Tabs -> Tab]
      BY <1>2, ClientFacts
<1> HIDE DEF tabs
<1>5. tab' \in [Tabs -> Tab]
      BY <1>3, <1>4, ToldType
<1>6. QED BY <1>5, TabsKeep

LEMMA QueryInv ==
    ASSUME Inv, NEW t \in Tabs, AcceptMe(t) \/ RefuseMe(t) \/ FailMe(t)
    PROVE  Inv'
<1>1. UNCHANGED <<server, jar, call>> /\ missteps' \in 0..MaxMissteps
      BY MisstepType, MisstepsStay DEF AcceptMe, RefuseMe, FailMe
<1>2. tab[t] \in Tab /\ Cookie(t) \in Session
      BY ClientFacts
<1>3. CASE AcceptMe(t)
  <2> DEFINE v == View(tab[t].sent)
  <2>1. v \in {"nobody", "new", "onboarded"}
        BY DEF View
  <2> HIDE DEF v
  <2>2. [tab[t] EXCEPT !.shown = v] \in Tab
        BY <1>2, <2>1 DEF Tab
  <2>3. Settle(t, [tab[t] EXCEPT !.shown = v], tab[t].tell)
        BY <1>3 DEF AcceptMe, v
  <2>4. QED BY <1>1, <2>2, <2>3, SettleKeeps
<1>4. CASE Settle(t, tab[t], TRUE) \/ Settle(t, tab[t], tab[t].tell)
      BY <1>1, <1>2, <1>4, SettleKeeps
<1>5. CASE tab' = [tab EXCEPT ![t].sent = Cookie(t), ![t].tell = TRUE]
  <2>1. [tab[t] EXCEPT !.sent = Cookie(t), !.tell = TRUE] \in Tab
        BY <1>2 DEF Tab
  <2>2. tab' = [tab EXCEPT ![t] = [tab[t] EXCEPT !.sent = Cookie(t), !.tell = TRUE]]
        BY <1>5, ClientFacts
  <2>3. QED BY <1>1, <2>1, <2>2, TabKeeps
<1>6. QED BY <1>3, <1>4, <1>5 DEF RefuseMe, FailMe

\* A step of t that pushes or replaces its page.
LEMMA EnterKeeps ==
    ASSUME Inv, UNCHANGED <<server, jar, call>>, missteps' \in 0..MaxMissteps,
           NEW t \in Tabs, NEW page \in Pages,
           tab' = [tab EXCEPT ![t] = Enter(tab[t], page, Cookie(t))]
    PROVE  Inv'
<1>1. Enter(tab[t], page, Cookie(t)) \in Tab
      BY ClientFacts, EnterType
<1>2. QED BY <1>1, TabKeeps

LEMMA PagesUsed ==
    /\ AuthPages \cup ProtectedPages \cup {"hosted", "error"} \subseteq Pages
    /\ {"complete", "dashboard", "login", "signup", "hosted", "error"} \subseteq Pages
BY DEF Pages, AuthPages, ProtectedPages

LEMMA TabFields ==
    ASSUME Inv, NEW t \in Tabs
    PROVE  tab[t].page \in Pages /\ tab[t].goal \in {"none", "complete", "dashboard"}
BY ClientFacts DEF Tab, Pages

LEMMA PushInv == ASSUME Inv, NEW t \in Tabs, Push(t) PROVE Inv'
<1>1. tab[t].goal \in Pages
      BY TabFields, PagesUsed DEF Push
<1>2. QED BY <1>1, MisstepsStay, EnterKeeps DEF Push

LEMMA RenderInv == ASSUME Inv, NEW t \in Tabs, Render(t) PROVE Inv'
<1>1. Fresh(tab[t].page, Cookie(t)) \in Tab
      BY TabFields, ClientFacts, FreshType
<1>2. QED BY <1>1, MisstepType, TabKeeps DEF Render

LEMMA RedirectInv == ASSUME Inv, NEW t \in Tabs, Redirect(t) PROVE Inv'
<1>1. Target(tab[t]) \in Pages
      BY TabFields, PagesUsed DEF Target
<1>2. QED BY <1>1, MisstepsStay, EnterKeeps DEF Redirect

LEMMA FollowInv == ASSUME Inv, NEW t \in Tabs, Follow(t) PROVE Inv'
<1>1. Link(t) \in Pages
      BY TabFields, PagesUsed DEF Link
<1>2. QED BY <1>1, MisstepsStay, EnterKeeps DEF Follow

\* A page that is loaded anew.
LEMMA LoadType ==
    ASSUME Inv, NEW t \in Tabs, NEW page \in Pages, Load(t, page)
    PROVE  tab' \in [Tabs -> Tab]
<1>1. Fresh(Guarded(page, Cookie(t)), Cookie(t)) \in Tab
      BY ClientFacts, GuardedType, FreshType
<1>2. QED BY <1>1, ClientFacts DEF Load

LEMMA LoadInv ==
    ASSUME Inv, NEW t \in Tabs, Reload(t) \/ Callback(t) \/ OpenPage(t)
    PROVE  Inv'
<1>1. UNCHANGED <<server, jar, call>> /\ missteps' \in 0..MaxMissteps
      BY MisstepType, MisstepsStay DEF Reload, Callback, OpenPage
<1>2. \E page \in Pages : Load(t, page)
  <2>1. CASE Reload(t)
        BY <2>1, TabFields DEF Reload
  <2>2. CASE Callback(t)
        BY <2>2, PagesUsed DEF Callback
  <2>3. CASE OpenPage(t)
        BY <2>3, PagesUsed DEF OpenPage
  <2>4. QED BY <2>1, <2>2, <2>3
<1>3. QED BY <1>1, <1>2, LoadType, TabsKeep

LEMMA OpenInvitationInv == ASSUME Inv, NEW t \in Tabs, OpenInvitation(t) PROVE Inv'
<1>1. UNCHANGED <<server, call>> /\ missteps' \in 0..MaxMissteps
      BY MisstepType DEF OpenInvitation
<1>2. tab' \in [Tabs -> Tab]
      BY LoadType, PagesUsed DEF OpenInvitation
<1>3. /\ jar' \in [Tabs -> Cookies]
      /\ \A b \in Tabs : jar'[b].session.version <= user.version
  <2>1. CASE UNCHANGED jar
        BY <2>1, ClientFacts DEF Inv, JarsOK
  <2>2. CASE jar' = [jar EXCEPT ![browser[t]].others =
                        @ \cup Attach({"oauth"}, {"activation"})]
    <3> DEFINE o == jar[browser[t]].others \cup {"activation"}
               j == [jar[browser[t]] EXCEPT !.others = o]
    <3>1. o \in SUBSET {"oauth", "activation"}
          BY ClientFacts DEF Cookies
    <3>2. jar' = [jar EXCEPT ![browser[t]] = [jar[browser[t]] EXCEPT !.others = o]]
          BY <2>2, ClientFacts DEF Attach
    <3> HIDE DEF o
    <3>3. j \in Cookies /\ j.session = jar[browser[t]].session
          BY <3>1, ClientFacts DEF Cookies
    <3> HIDE DEF j
    <3>4. jar' = [jar EXCEPT ![browser[t]] = j]
          BY <3>2 DEF j
    <3>5. QED BY <3>3, <3>4, ClientFacts DEF Inv, JarsOK
  <2>3. QED BY <2>1, <2>2 DEF OpenInvitation
<1>4. /\ call' \in [Tabs -> Call]
      /\ \A u \in Tabs : CallOK(call'[u], user, pool)
      BY <1>1, CallFacts, ClientFacts
<1>5. QED BY <1>1, <1>2, <1>3, <1>4, ClientKeeps

-----------------------------------------------------------------------------
(* Steps of the person *)

\* A call that is made has been given nothing yet.
LEMMA SendKeeps ==
    ASSUME Inv, UNCHANGED <<server, jar, tab>>, missteps' \in 0..MaxMissteps,
           NEW t \in Tabs, NEW op \in Ops, NEW code \in BOOLEAN,
           NEW password \in Passwords, NEW new \in Passwords,
           Send(t, op, code, password, new)
    PROVE  Inv'
<1> DEFINE cookie == IF op \in {"complete", "logout", "change"} THEN Cookie(t)
                                                                ELSE NoSession
<1>1. cookie \in Session
      BY ClientFacts, SessionTypes
<1>2. call' = [call EXCEPT ![t] =
          [NoCall EXCEPT !.op = op, !.pc = "sent", !.code = code,
              !.password = password, !.new = new, !.cookie = cookie]]
      BY DEF Send
<1> HIDE DEF cookie
<1> PICK n : n = [NoCall EXCEPT !.op = op, !.pc = "sent", !.code = code,
                      !.password = password, !.new = new, !.cookie = cookie]
    OBVIOUS
<1>3. /\ n \in Call
      /\ n.op = op /\ n.pc = "sent" /\ n.signed = NoSession /\ n.row = NoRow
      BY <1>1, NoCallType, CallFields DEF Stages
<1>4. op # "none"
      BY DEF Ops
<1>5. CallOK(n, user, pool)
      BY <1>3, <1>4, UserFacts DEF CallOK, NoSession, NoRow
<1>6. call' = [call EXCEPT ![t] = n]
      BY <1>2
<1>7. /\ call' \in [Tabs -> Call]
      /\ \A u \in Tabs : CallOK(call'[u], user, pool)
      BY <1>3, <1>5, <1>6, ClientFacts, CallFacts
<1>8. /\ tab' \in [Tabs -> Tab] /\ jar' \in [Tabs -> Cookies]
      /\ \A b \in Tabs : jar'[b].session.version <= user.version
      BY ClientFacts DEF Inv, JarsOK
<1>9. QED BY <1>7, <1>8, ClientKeeps

LEMMA SubmitInv == ASSUME Inv, NEW t \in Tabs, Submit(t) PROVE Inv'
<1>1. UNCHANGED <<server, jar, tab>> /\ missteps' \in 0..MaxMissteps
      BY MisstepsStay DEF Submit
<1>2. PICK op \in RightOps(tab[t].page) :
          Send(t, op, op = "verify",
               IF op \in {"login", "verify"} THEN pool.password ELSE Password0, Password0)
      BY DEF Submit
<1>3. op \in Ops
      BY <1>2 DEF RightOps, Ops
<1>4. QED BY <1>1, <1>2, <1>3, UserFacts, PasswordType, SendKeeps

LEMMA SubmitAnythingInv == ASSUME Inv, NEW t \in Tabs, SubmitAnything(t) PROVE Inv'
<1>1. UNCHANGED <<server, jar, tab>> /\ missteps' \in 0..MaxMissteps
      BY MisstepType DEF SubmitAnything
<1>2. \E op \in Ops, code \in BOOLEAN, p, q \in Passwords : Send(t, op, code, p, q)
      BY DEF SubmitAnything
<1>3. QED BY <1>1, <1>2, SendKeeps

LEMMA ExpireInv == ASSUME Inv, Expire PROVE Inv'
<1>1. /\ UNCHANGED <<user, organizations, browser, tab, call>>
      /\ missteps' \in 0..MaxMissteps
      BY MisstepType DEF Expire
<1>2. ASSUME NEW b \in Tabs, jar' = [jar EXCEPT ![b].session = NoSession], UNCHANGED pool
      PROVE  Inv'
  <2> DEFINE j == [jar[b] EXCEPT !.session = NoSession]
  <2>1. j \in Cookies /\ j.session = NoSession
        BY SessionTypes DEF Inv, TypeOK, Cookies
  <2>2. jar' = [jar EXCEPT ![b] = [jar[b] EXCEPT !.session = NoSession]]
        BY <1>2
  <2> HIDE DEF j
  <2>3. jar' = [jar EXCEPT ![b] = j]
        BY <2>2 DEF j
  <2>4. NoSession.version <= user.version
        BY UserFacts DEF NoSession
  <2>5. /\ jar' \in [Tabs -> Cookies]
        /\ \A u \in Tabs : jar'[u].session.version <= user.version
        BY <2>1, <2>3, <2>4 DEF Inv, TypeOK, JarsOK, Cookies
  <2>6. /\ tab' \in [Tabs -> Tab] /\ call' \in [Tabs -> Call]
        /\ \A u \in Tabs : CallOK(call'[u], user, pool)
        BY <1>1, ClientFacts, CallFacts DEF Inv, TypeOK
  <2>7. QED BY <1>1, <1>2, <2>5, <2>6, ClientKeeps DEF server
<1>3. CASE /\ pool' = [pool EXCEPT !.code = FALSE] \/ pool' = [pool EXCEPT !.reset = FALSE]
           /\ UNCHANGED jar
  <2>1. /\ pool' \in Account /\ pool'.status = pool.status
        /\ pool'.code => pool.code
        /\ pool'.reset => pool.reset
        BY <1>3, UserFacts DEF Account
  <2>2. TypeOK'
        BY <1>1, <1>3, <2>1 DEF Inv, TypeOK
  <2>3. CallsOK' /\ JarsOK' /\ OneOrganizationEach'
        BY <1>1, <1>3, <2>1 DEF Inv, CallsOK, CallOK, Expected, JarsOK, OneOrganizationEach
  <2>4. QED BY <2>2, <2>3 DEF Inv
<1>4. QED BY <1>2, <1>3 DEF Expire

-----------------------------------------------------------------------------
(* The theorems *)

LEMMA InitInv == ASSUME Init PROVE Inv
<1>1. pool \in Account /\ ~pool.code /\ ~pool.reset
      BY PasswordType DEF Init, Account
<1>2. user \in Row /\ organizations = 0 /\ user.version = 0
      BY DEF Init, Row, NoRow
<1>3. /\ jar \in [Tabs -> Cookies]
      /\ \A b \in Tabs : jar[b].session.version <= user.version
      BY <1>2, SessionTypes DEF Init, Cookies, NoSession
<1>4. tab \in [Tabs -> Tab]
      BY SessionTypes DEF Init, Tab, AuthPages
<1>5. /\ call \in [Tabs -> Call]
      /\ \A t \in Tabs : CallOK(call[t], user, pool)
      BY <1>2, NoCallType DEF Init, CallOK, NoSession, NoRow
<1>6. TypeOK
  <2>1. browser \in Browsers /\ missteps \in 0..MaxMissteps
        BY SignInAssumption DEF Init
  <2>2. QED BY <1>1, <1>2, <1>3, <1>4, <1>5, <2>1 DEF TypeOK, Cookies
<1>7. QED BY <1>2, <1>3, <1>5, <1>6 DEF Inv, CallsOK, JarsOK, OneOrganizationEach

LEMMA StepInv == ASSUME Inv, [Next]_vars PROVE Inv'
<1>1. ASSUME NEW t \in Tabs, Right(t) \/ Answered(t) \/ Queried(t) \/ Redirect(t)
      PROVE  Inv'
      BY <1>1, SubmitInv, FollowInv, HandleInv, ArriveInv, QueryInv, PushInv, RedirectInv
         DEF Right, Answered, Queried
<1>2. ASSUME NEW t \in Tabs, Reload(t) \/ Callback(t) \/ Wrong(t)
      PROVE  Inv'
      BY <1>2, LoadInv, FailInv, LoseInv, QueryInv, SubmitAnythingInv, OpenInvitationInv,
         RenderInv DEF Wrong
<1>3. CASE UNCHANGED vars
      BY <1>3 DEF vars, Inv, TypeOK, OneOrganizationEach, CallsOK, CallOK, Expected, JarsOK
<1>4. QED BY <1>1, <1>2, <1>3, ExpireInv DEF Next

LEMMA Invariance == Spec => []Inv
BY InitInv, StepInv, PTL DEF Spec

\* Types, and codes that are kept only while there is something they confirm
\* (handleSignUp, confirmSignUp, confirmForgotPassword).
THEOREM TypeCorrect == Spec => []TypeOK
BY Invariance, PTL DEF Inv

\* However many first logins race, each account has one organization, and none is
\* left without its user (createOrganizationAndUser).
THEOREM OneOrganization == Spec => []OneOrganizationEach
BY Invariance, PTL DEF Inv

\* Every answer of /auth has a status its description names, but for the login
\* before the verification.
THEOREM AnswersDocumented == Spec => []AuthAnswersAreDocumented
<1>1. Inv => AuthAnswersAreDocumented
      BY DEF Inv, CallsOK, CallOK, Expected, AuthAnswersAreDocumented
<1>2. QED BY <1>1, Invariance, PTL

\* A logout that found its session good ends every session of the user: those of
\* other browsers, those on their way, and those a login is about to make
\* (handleLogout, incrementSessionVersion).
THEOREM LogoutEnds == Spec => LogoutEndsSessions
<1> DEFINE Ends == \A t \in Tabs :
                       LogOut(t) => \A s \in Sessions : s.version < user'.version
<1>1. ASSUME Inv PROVE \A s \in Sessions : s.version \in Nat /\ s.version <= user.version
  <2>1. \A b \in Tabs : /\ jar[b].session.version \in Nat
                        /\ jar[b].session.version <= user.version
        BY <1>1 DEF Inv, TypeOK, JarsOK, Session
  <2>2. \A t \in Tabs : /\ call[t].signed.version \in Nat
                        /\ call[t].signed.version <= user.version
                        /\ Sign(call[t].row).version \in Nat
                        /\ Sign(call[t].row).version <= user.version
        BY <1>1, CallFacts, CallFields DEF CallOK, Session, Row, Sign
  <2>3. QED BY <2>1, <2>2 DEF Sessions
<1>2. ASSUME Inv PROVE Ends
  <2>1. ASSUME NEW t \in Tabs, LogOut(t)
        PROVE  user'.version = user.version + 1 /\ user.version \in Nat
        BY <1>2, <2>1, UserFacts DEF LogOut, Row
  <2>2. QED BY <1>1, <1>2, <2>1
<1>3. Inv => [Ends]_vars
      BY <1>2
<1>4. QED BY <1>3, Invariance, PTL DEF LogoutEndsSessions

-----------------------------------------------------------------------------
(* The cookies implement a table of sessions *)

\* A session there is, or may still be signed, has a version the user has had.
LEMMA SessionsOld ==
    ASSUME Inv, NEW s \in Sessions
    PROVE  s \in Session /\ s.version \in Nat /\ s.version <= user.version
<1>1. \A b \in Tabs : jar[b].session \in Session /\ jar[b].session.version <= user.version
      BY DEF Inv, TypeOK, JarsOK
<1>2. \A t \in Tabs : /\ call[t].signed \in Session
                      /\ call[t].signed.version <= user.version
                      /\ Sign(call[t].row) \in Session
                      /\ Sign(call[t].row).version <= user.version
      BY CallFacts, CallFields, SessionTypes DEF CallOK, Sign
<1>3. s \in Session /\ s.version <= user.version
      BY <1>1, <1>2 DEF Sessions
<1>4. QED BY <1>3 DEF Session

\* With the current version it is a copy of the row: the version of a row that is
\* not there yet is 0, and so is that of no session.
SessionsTrue == \A s \in Sessions : s.version = user.version => s = Sign(user)
NewUsersOK == user.version = 0 => user = NoRow

Copies == Sessions \cup {NoSession, Sign(user')}

\* What a step may leave with the calls.
CallCopies == \A t \in Tabs : call'[t].signed \in Copies /\ Sign(call'[t].row) \in Copies

LEMMA OldCopies ==
    \A t \in Tabs : /\ call[t].signed \in Copies /\ Sign(call[t].row) \in Copies
                    /\ jar[t].session \in Copies
BY DEF Copies, Sessions

LEMMA ReplyCopies ==
    ASSUME Inv, NEW t \in Tabs, NEW status, NEW sets, NEW signed \in Copies,
           Reply(t, status, sets, signed)
    PROVE  CallCopies
<1> PICK n : n = [NoCall EXCEPT !.op = call[t].op, !.status = status, !.sets = sets,
                                !.signed = signed]
    OBVIOUS
<1>1. n.signed = signed /\ n.row = NoRow
      BY DEF NoCall
<1>2. call' = [call EXCEPT ![t] = n]
      BY DEF Reply
<1>3. Sign(NoRow) = NoSession
      BY DEF Sign, NoRow, NoSession
<1>4. ASSUME NEW u \in Tabs
      PROVE  call'[u].signed \in Copies /\ Sign(call'[u].row) \in Copies
  <2>1. CASE u = t
    <3>1. call'[u] = n
          BY <1>2, <2>1 DEF Inv, TypeOK
    <3>2. QED BY <1>1, <1>3, <3>1 DEF Copies
  <2>2. CASE u # t
    <3>1. call'[u] = call[u]
          BY <1>2, <2>2 DEF Inv, TypeOK
    <3>2. QED BY <3>1, OldCopies
  <2>3. QED BY <2>1, <2>2
<1>5. QED BY <1>4 DEF CallCopies

LEMMA AnswerCopies ==
    ASSUME Inv, NEW t \in Tabs, NEW status, Answer(t, status) \/ AnswerCleared(t)
    PROVE  CallCopies
<1>1. NoSession \in Copies
      BY DEF Copies
<1>2. QED BY <1>1, ReplyCopies DEF Answer, AnswerCleared

LEMMA AdvanceCopies ==
    ASSUME Inv, NEW t \in Tabs, NEW pc, Advance(t, pc)
    PROVE  CallCopies
<1>1. ASSUME NEW u \in Tabs
      PROVE  call'[u].signed = call[u].signed /\ call'[u].row = call[u].row
      BY CallFields DEF Advance, Inv, TypeOK
<1>2. QED BY <1>1, OldCopies DEF CallCopies

LEMMA LoginCopies ==
    ASSUME Inv, NEW t \in Tabs, Login(t)
    PROVE  CallCopies
<1>1. CASE Answer(t, 401) \/ Answer(t, 422)
      BY <1>1, AnswerCopies
<1>2. CASE call' = [call EXCEPT ![t].pc = "read", ![t].row = user]
  <2>1. ASSUME NEW u \in Tabs
        PROVE  /\ call'[u].signed = call[u].signed
               /\ call'[u].row = call[u].row \/ call'[u].row = user
        BY <1>2, CallFields DEF Inv, TypeOK
  <2>2. user' = user
        BY DEF Login, server
  <2>3. Sign(user) \in Copies
        BY <2>2 DEF Copies
  <2>4. QED BY <2>1, <2>3, OldCopies DEF CallCopies
<1>3. QED BY <1>1, <1>2 DEF Login

\* How the row of the user changes.
Joins == user.version = 0 /\ user' = [version |-> 1, named |-> FALSE]
Changes == /\ user.version > 0
           /\ \E named \in {user.named, TRUE} :
                 user' = [version |-> user.version + 1, named |-> named]

LEMMA HandlerCopies ==
    ASSUME Inv, NEW t \in Tabs, Handle(t)
    PROVE  CallCopies /\ UNCHANGED jar /\ (UNCHANGED user \/ Joins \/ Changes)
<1>1. UNCHANGED jar
      BY DEF Handle
<1>2. CASE SignUp(t) \/ ConfirmSignUp(t) \/ Authenticate(t) \/ ConfirmPassword(t)
           \/ ChangePassword(t) \/ SendCode(t) \/ ResetPassword(t)
  <2>1. UNCHANGED user
        BY <1>2 DEF SignUp, ConfirmSignUp, Authenticate, ConfirmPassword, ChangePassword,
                    SendCode, ResetPassword, server
  <2>2. \/ \E status \in Codes : Answer(t, status)
        \/ AnswerCleared(t) \/ Advance(t, "confirmed") \/ Advance(t, "accepted")
    <3>1. CASE SignUp(t) \/ ConfirmSignUp(t)
          BY <3>1, CodesUsed DEF SignUp, ConfirmSignUp
    <3>2. CASE Authenticate(t)
          BY <3>2, CodesUsed DEF Authenticate
    <3>3. CASE ConfirmPassword(t) \/ ChangePassword(t) \/ SendCode(t) \/ ResetPassword(t)
          BY <3>3, CodesUsed DEF ConfirmPassword, ChangePassword, SendCode, ResetPassword
    <3>4. QED BY <1>2, <3>1, <3>2, <3>3
  <2>3. QED BY <1>1, <2>1, <2>2, AnswerCopies, AdvanceCopies
<1>3. CASE Login(t)
  <2>1. UNCHANGED user
        BY <1>3 DEF Login, server
  <2>2. QED BY <1>1, <1>3, <2>1, LoginCopies
<1>4. CASE CreateSession(t)
  <2>1. Sign(call[t].row) \in Copies /\ Sign(user') \in Copies
        BY OldCopies DEF Copies
  <2>2. CallCopies
        BY <1>4, <2>1, ReplyCopies, AnswerCopies DEF CreateSession, AnswerSigned
  <2>3. UNCHANGED user \/ Joins
        BY <1>4 DEF CreateSession, Joins
  <2>4. QED BY <1>1, <2>2, <2>3
<1>5. CASE CompleteSignUp(t)
  <2>1. Sign(user') \in Copies
        BY DEF Copies
  <2>2. CallCopies
        BY <1>5, <2>1, ReplyCopies DEF CompleteSignUp, AnswerSigned
  <2>3. call[t].pc = "accepted"
        BY <1>5 DEF CompleteSignUp, At
  <2>4. user.version > 0
        BY <2>3, CallFacts DEF CallOK
  <2>5. Changes
        BY <1>5, <2>4 DEF CompleteSignUp, Changes
  <2>6. QED BY <1>1, <2>2, <2>5
<1>6. CASE LogOut(t)
  <2>1. CallCopies
        BY <1>6, AnswerCopies DEF LogOut
  <2>2. call[t].pc = "accepted"
        BY <1>6 DEF LogOut, At
  <2>3. user.version > 0
        BY <2>2, CallFacts DEF CallOK
  <2>4. user' = [version |-> user.version + 1, named |-> user.named]
        BY <1>6, UserFacts DEF LogOut, Row
  <2>5. Changes
        BY <2>3, <2>4 DEF Changes
  <2>6. QED BY <1>1, <2>1, <2>5
<1>7. QED BY <1>2, <1>3, <1>4, <1>5, <1>6 DEF Handle

\* What becomes of the cookies.
JarsKeep == \A b \in Tabs : jar'[b].session = jar[b].session
JarGets == \E c \in Tabs, s \in Sessions \cup {NoSession} : \A b \in Tabs :
               jar'[b].session = IF b = c THEN s ELSE jar[b].session

LEMMA DeliverCopies ==
    ASSUME Inv, NEW t \in Tabs, NEW c, c.signed \in Sessions \cup {NoSession}, Deliver(t, c)
    PROVE  CallCopies /\ UNCHANGED user /\ (JarsKeep \/ JarGets)
<1> PICK j : j = Received(jar[browser[t]], c)
    OBVIOUS
<1>1. /\ jar' = [jar EXCEPT ![browser[t]] = j]
      /\ call' = [call EXCEPT ![t] = NoCall] /\ UNCHANGED user
      BY DEF Deliver, server
<1>2. CallCopies
  <2>1. Sign(NoCall.row) = NoSession /\ NoCall.signed = NoSession
        BY NoCallType DEF Sign, NoRow, NoSession
  <2>2. \A u \in Tabs : call'[u] = NoCall \/ call'[u] = call[u]
        BY <1>1, ClientFacts
  <2>3. QED BY <2>1, <2>2, OldCopies DEF CallCopies, Copies
<1>3. /\ browser[t] \in Tabs /\ jar[browser[t]] \in Cookies
      /\ \A b \in Tabs : jar'[b] = IF b = browser[t] THEN j ELSE jar[b]
      BY <1>1, ClientFacts
<1>4. j.session \in {jar[browser[t]].session, c.signed, NoSession}
      BY <1>3 DEF Received, Cookies
<1>5. j.session \in Sessions \cup {NoSession}
      BY <1>3, <1>4 DEF Sessions
<1>6. JarGets
  <2>1. \A b \in Tabs :
           jar'[b].session = IF b = browser[t] THEN j.session ELSE jar[b].session
        BY <1>3
  <2>2. QED BY <1>3, <1>5, <2>1 DEF JarGets
<1>7. QED BY <1>1, <1>2, <1>6

LEMMA SendCopies ==
    ASSUME Inv, NEW t \in Tabs, NEW op, NEW code, NEW password, NEW new,
           Send(t, op, code, password, new)
    PROVE  CallCopies
<1> PICK n : n = [NoCall EXCEPT !.op = op, !.pc = "sent", !.code = code,
                     !.password = password, !.new = new,
                     !.cookie = IF op \in {"complete", "logout", "change"} THEN Cookie(t)
                                                                           ELSE NoSession]
    OBVIOUS
<1>1. n.signed = NoSession /\ n.row = NoRow
      BY DEF NoCall
<1>2. call' = [call EXCEPT ![t] = n]
      BY DEF Send
<1>3. Sign(NoRow) = NoSession
      BY DEF Sign, NoRow, NoSession
<1>4. \A u \in Tabs : call'[u] = n \/ call'[u] = call[u]
      BY <1>2, ClientFacts
<1>5. QED BY <1>1, <1>3, <1>4, OldCopies DEF CallCopies, Copies

LEMMA ExpireCopies ==
    ASSUME Inv, Expire
    PROVE  CallCopies /\ UNCHANGED user /\ (JarsKeep \/ JarGets)
<1>1. UNCHANGED <<user, call>>
      BY DEF Expire
<1>2. CASE UNCHANGED jar
      BY <1>1, <1>2, OldCopies DEF CallCopies, JarsKeep
<1>3. CASE \E b \in Tabs : jar' = [jar EXCEPT ![b].session = NoSession]
  <2> PICK b \in Tabs : jar' = [jar EXCEPT ![b].session = NoSession]
      BY <1>3
  <2>1. \A d \in Tabs : jar'[d].session = IF d = b THEN NoSession ELSE jar[d].session
        BY DEF Inv, TypeOK
  <2>2. QED BY <1>1, <2>1, OldCopies DEF CallCopies, JarGets
<1>4. QED BY <1>2, <1>3 DEF Expire

\* A step, as far as sessions go.
LEMMA StepCopies ==
    ASSUME Inv, [Next]_vars
    PROVE  /\ CallCopies
           /\ \/ UNCHANGED user /\ (JarsKeep \/ JarGets)
              \/ UNCHANGED jar /\ (Joins \/ Changes)
<1> DEFINE Goal == /\ CallCopies
                   /\ \/ UNCHANGED user /\ (JarsKeep \/ JarGets)
                      \/ UNCHANGED jar /\ (Joins \/ Changes)
<1>1. ASSUME UNCHANGED <<user, jar, call>> PROVE Goal
      BY <1>1, OldCopies DEF CallCopies, JarsKeep
<1>2. ASSUME NEW t \in Tabs, Handle(t) PROVE Goal
      BY <1>2, HandlerCopies DEF JarsKeep
<1>3. ASSUME NEW t \in Tabs, Arrive(t) PROVE Goal
  <2>1. call[t].signed \in Sessions
        BY DEF Sessions
  <2>2. QED BY <1>3, <2>1, DeliverCopies DEF Arrive
<1>4. ASSUME NEW t \in Tabs, Lose(t) PROVE Goal
  <2> PICK c : c = [NoCall EXCEPT !.op = call[t].op]
      OBVIOUS
  <2>1. c.signed = NoSession /\ Deliver(t, c)
        BY <1>4 DEF NoCall, Lose
  <2>2. QED BY <2>1, DeliverCopies
<1>5. ASSUME NEW t \in Tabs, Submit(t) \/ SubmitAnything(t) PROVE Goal
  <2>1. UNCHANGED <<user, jar>>
        BY <1>5 DEF Submit, SubmitAnything, server
  <2>2. \E op, code, password, new : Send(t, op, code, password, new)
        BY <1>5 DEF Submit, SubmitAnything
  <2>3. QED BY <2>1, <2>2, SendCopies DEF JarsKeep
<1>6. ASSUME NEW t \in Tabs, Fail(t) PROVE Goal
  <2>1. UNCHANGED <<user, jar>> /\ (Answer(t, 200) \/ Answer(t, 500))
        BY <1>6 DEF Fail, server
  <2>2. QED BY <2>1, AnswerCopies DEF JarsKeep
<1>7. ASSUME NEW t \in Tabs, OpenInvitation(t) PROVE Goal
  <2>1. UNCHANGED <<user, call>>
        BY <1>7 DEF OpenInvitation, server
  <2>2. JarsKeep
        BY <1>7, ClientFacts DEF OpenInvitation, JarsKeep, Cookies
  <2>3. QED BY <2>1, <2>2, OldCopies DEF CallCopies
<1>8. ASSUME NEW t \in Tabs,
             \/ Follow(t) \/ AcceptMe(t) \/ RefuseMe(t) \/ FailMe(t) \/ Push(t)
             \/ Redirect(t) \/ Render(t) \/ Reload(t) \/ Callback(t) \/ OpenPage(t)
      PROVE  Goal
  <2>1. UNCHANGED <<user, jar, call>>
        BY <1>8 DEF Follow, AcceptMe, RefuseMe, FailMe, Push, Redirect, Render, Reload,
                    Callback, OpenPage, server
  <2>2. QED BY <1>1, <2>1
<1>9. CASE Expire
      BY <1>9, ExpireCopies
<1>10. CASE UNCHANGED vars
       BY <1>1, <1>10 DEF vars
<1>11. ASSUME NEW t \in Tabs,
              Right(t) \/ Answered(t) \/ Queried(t) \/ Redirect(t) \/ Reload(t) \/ Callback(t)
       PROVE  Goal
  <2> HIDE DEF Goal
  <2>1. CASE Right(t) \/ Answered(t)
        BY <1>2, <1>3, <1>5, <1>8, <2>1 DEF Right, Answered
  <2>2. CASE Queried(t) \/ Redirect(t) \/ Reload(t) \/ Callback(t)
        BY <1>8, <2>2 DEF Queried
  <2>3. QED BY <1>11, <2>1, <2>2
<1>12. ASSUME NEW t \in Tabs, Wrong(t) PROVE Goal
  <2> HIDE DEF Goal
  <2>1. QED BY <1>4, <1>5, <1>6, <1>7, <1>8, <1>12 DEF Wrong
<1>13. CASE \E t \in Tabs :
                \/ Right(t) \/ Answered(t) \/ Queried(t) \/ Redirect(t)
                \/ Reload(t) \/ Callback(t) \/ Wrong(t)
  <2> HIDE DEF Goal
  <2>1. Goal
        BY <1>11, <1>12, <1>13
  <2>2. QED BY <2>1 DEF Goal
<1>14. QED BY <1>9, <1>10, <1>13 DEF Next

LEMMA UserSteps ==
    ASSUME Inv, UNCHANGED user \/ Joins \/ Changes
    PROVE  user' = user \/ user'.version > user.version
BY UserFacts DEF Joins, Changes

LEMMA TrueSteps ==
    ASSUME Inv, SessionsTrue, NewUsersOK, [Next]_vars
    PROVE  SessionsTrue' /\ NewUsersOK'
<1>1. \/ UNCHANGED user /\ (JarsKeep \/ JarGets)
      \/ UNCHANGED jar /\ (Joins \/ Changes)
      BY StepCopies
<1>2. user' = user \/ user'.version > user.version
      BY <1>1, UserSteps
<1>3. NewUsersOK'
      BY <1>1, UserFacts DEF NewUsersOK, Joins, Changes
<1>4. \A b \in Tabs : jar'[b].session \in Copies
      BY <1>1, OldCopies DEF JarsKeep, JarGets, Copies
<1>5. Sessions' \subseteq Copies
      BY <1>4, StepCopies DEF CallCopies, Sessions
<1>6. ASSUME NEW s \in Copies, s.version = user'.version PROVE s = Sign(user')
  <2>1. CASE s \in Sessions
    <3>1. s.version <= user.version /\ s.version \in Nat /\ user.version \in Nat
          BY <2>1, SessionsOld, UserFacts
    <3>2. user' = user
          BY <1>2, <1>6, <3>1
    <3>3. QED BY <1>6, <2>1, <3>2 DEF SessionsTrue
  <2>2. CASE s = NoSession
    <3>1. user'.version = 0
          BY <1>6, <2>2 DEF NoSession
    <3>2. user' = NoRow
          BY <1>3, <3>1 DEF NewUsersOK
    <3>3. QED BY <2>2, <3>2 DEF Sign, NoRow, NoSession
  <2>3. CASE s = Sign(user')
        BY <2>3
  <2>4. QED BY <2>1, <2>2, <2>3 DEF Copies
<1>7. SessionsTrue'
      BY <1>5, <1>6 DEF SessionsTrue
<1>8. QED BY <1>3, <1>7

People == [a \in {"person"} |-> Person]
Standing == [b \in Tabs |-> InForce(b)]

\* A session that is in force says what the row says.
LEMMA InForceTrue ==
    ASSUME Inv, SessionsTrue, NEW s \in Sessions, Valid(s)
    PROVE  /\ [account |-> "person", role |-> "OWNER", named |-> s.onboarded]
                 = Table!Entry("person")
           /\ user.version > 0
<1>1. s = Sign(user) /\ user.version > 0
      BY SessionsOld DEF SessionsTrue, Valid
<1>2. s.onboarded = user.named
      BY <1>1 DEF Sign
<1>3. Person.role = "OWNER" /\ Person.named = user.named
      BY <1>1 DEF Person
<1>4. QED BY <1>1, <1>2, <1>3 DEF Table!Entry

\* Where the user stays, cookies come and go.
LEMMA CookieTable ==
    ASSUME Inv, SessionsTrue, UNCHANGED user, JarsKeep \/ JarGets
    PROVE  [Table!Next]_(Table!vars)
<1>1. People' = People
      BY DEF People, Person
<1>2. CASE JarsKeep
  <2>1. \A b \in Tabs : InForce(b)' = InForce(b)
        BY <1>2 DEF JarsKeep, InForce, Valid
  <2>2. Standing' = Standing
        BY <2>1 DEF Standing
  <2>3. QED BY <1>1, <2>2 DEF Table!vars, People, Standing
<1>3. CASE JarGets
  <2> PICK c \in Tabs, s \in Sessions \cup {NoSession} : \A b \in Tabs :
               jar'[b].session = IF b = c THEN s ELSE jar[b].session
      BY <1>3 DEF JarGets
  <2>1. \A b \in Tabs : b # c => InForce(b)' = InForce(b)
        BY DEF InForce, Valid
  <2>2. CASE Valid(s)
    <3>1. s \in Sessions
          BY <2>2 DEF Valid, NoSession
    <3>2. InForce(c)' = {Table!Entry("person")}
          BY <2>2, <3>1, InForceTrue DEF InForce, Valid
    <3>3. Standing' = [Standing EXCEPT ![c] = {Table!Entry("person")}]
          BY <2>1, <3>2 DEF Standing
    <3>4. People["person"].status = "member"
          BY <2>2, <3>1, InForceTrue DEF People, Person
    <3>5. Table!Enter(c, "person")
          BY <1>1, <3>3, <3>4 DEF Table!Enter, People, Standing
    <3>6. QED BY <3>5 DEF Table!Next
  <2>3. CASE ~Valid(s)
    <3>1. InForce(c)' = {}
          BY <2>3 DEF InForce, Valid
    <3>2. Standing' = [Standing EXCEPT ![c] = {}]
          BY <2>1, <3>1 DEF Standing
    <3>3. Table!Leave(c)
          BY <1>1, <3>2 DEF Table!Leave, People, Standing
    <3>4. QED BY <3>3 DEF Table!Next
  <2>4. QED BY <2>2, <2>3
<1>4. QED BY <1>2, <1>3

\* The first login makes the row: no cookie is in force before or after.
LEMMA JoinTable ==
    ASSUME Inv, UNCHANGED jar, Joins
    PROVE  Table!Join("person")
<1>1. \A b \in Tabs : jar[b].session \in Sessions
      BY DEF Sessions
<1>2. \A b \in Tabs : InForce(b)' = InForce(b)
  <2> SUFFICES ASSUME NEW b \in Tabs PROVE ~Valid(jar[b].session) /\ ~Valid(jar[b].session)'
      BY DEF InForce
  <2>1. jar[b].session.version <= user.version /\ jar[b].session.version \in Nat
        BY <1>1, SessionsOld
  <2>2. user.version = 0 /\ user'.version = 1
        BY DEF Joins
  <2>3. QED BY <2>1, <2>2 DEF Valid
<1>3. Standing' = Standing
      BY <1>2 DEF Standing
<1>4. Person.status = "none" /\ Person' = Table!Newcomer("OWNER")
      BY DEF Joins, Person, Table!Newcomer
<1>5. /\ People["person"].status = "none"
      /\ People' = [People EXCEPT !["person"] = Table!Newcomer("OWNER")]
      BY <1>4 DEF People
<1>6. QED BY <1>3, <1>5 DEF Table!Join, People, Standing

\* A new version puts all cookies out of force.
LEMMA ChangeTable ==
    ASSUME Inv, UNCHANGED jar, Changes
    PROVE  Table!Change("person")
<1> PICK named \in {user.named, TRUE} :
        user' = [version |-> user.version + 1, named |-> named]
    BY DEF Changes
<1>1. \A b \in Tabs : jar[b].session \in Sessions
      BY DEF Sessions
<1>2. \A b \in Tabs : InForce(b)' = {}
  <2> SUFFICES ASSUME NEW b \in Tabs PROVE ~Valid(jar[b].session)'
      BY DEF InForce
  <2>1. jar[b].session.version <= user.version /\ jar[b].session.version \in Nat
        BY <1>1, SessionsOld
  <2>2. user'.version = user.version + 1 /\ user.version \in Nat
        BY UserFacts
  <2>3. QED BY <2>1, <2>2 DEF Valid
<1>3. \A b \in Tabs : \A s \in InForce(b) : s.account = "person"
      BY DEF InForce
<1>4. Standing' = Table!Without("person")
  <2>1. \A b \in Tabs : {s \in Standing[b] : s.account # "person"} = {}
        BY <1>3 DEF Standing
  <2>2. QED BY <1>2, <2>1 DEF Standing, Table!Without
<1>5. user.version > 0
      BY DEF Changes
<1>6. /\ Person = [status |-> "member", role |-> "OWNER", named |-> user.named]
      /\ Person' = [status |-> "member", role |-> "OWNER", named |-> named]
      BY <1>5, UserFacts DEF Person
<1>7. /\ People["person"] = Person
      /\ People' = [People EXCEPT !["person"] =
                       [status |-> "member", role |-> "OWNER", named |-> named]]
      BY <1>6 DEF People
<1>8. \E status \in {People["person"].status, "removed"},
         n \in {People["person"].named, TRUE},
         role \in IF \/ People["person"].status = "removed"
                     \/ People["person"].role = "OWNER"
                  THEN {People["person"].role} ELSE {"OWNER"} :
         People' = [People EXCEPT !["person"] =
                       [status |-> status, role |-> role, named |-> n]]
  <2>1. /\ People["person"].status = "member" /\ People["person"].role = "OWNER"
        /\ People["person"].named = user.named
        BY <1>6, <1>7
  <2> HIDE DEF People
  <2>2. QED BY <1>7, <2>1
<1>9. People["person"].status = "member"
      BY <1>6, <1>7
<1>10. QED BY <1>4, <1>8, <1>9 DEF Table!Change, People, Standing

\* Signed cookies with a version, in all browsers of a person, implement a table of
\* sessions on the server, whatever races, fails or gets lost between the tabs, the
\* handlers under /auth and Cognito (verifyInternalUserSession, processLogin,
\* handleLogout, handleCompleteSignupInternal).
THEOREM Implementation == Spec => ImplementsSessionTable
<1> DEFINE TrueInv == Inv /\ SessionsTrue /\ NewUsersOK
<1>1. Init => TrueInv
  <2> SUFFICES ASSUME Init PROVE SessionsTrue /\ NewUsersOK
      BY InitInv
  <2>1. user = NoRow /\ Sign(user) = NoSession
        BY DEF Init, Sign, NoRow, NoSession
  <2>2. \A s \in Sessions : s = NoSession
        BY NoCallType DEF Init, Sessions, Sign, NoRow, NoSession
  <2>3. QED BY <2>1, <2>2 DEF SessionsTrue, NewUsersOK
<1>2. TrueInv /\ [Next]_vars => TrueInv'
      BY StepInv, TrueSteps
<1>3. Init => Table!Init
  <2> SUFFICES ASSUME Init PROVE Table!Init
      OBVIOUS
  <2>1. \A b \in Tabs : InForce(b) = {}
        BY DEF Init, InForce, Valid, NoSession
  <2>2. Person = [status |-> "none", role |-> "MEMBER", named |-> FALSE]
        BY DEF Init, Person, NoRow
  <2>3. QED BY <2>1, <2>2 DEF Table!Init, Table!Newcomer
<1>4. TrueInv /\ [Next]_vars => [Table!Next]_(Table!vars)
  <2> SUFFICES ASSUME TrueInv, [Next]_vars PROVE [Table!Next]_(Table!vars)
      OBVIOUS
  <2>1. \/ UNCHANGED user /\ (JarsKeep \/ JarGets)
        \/ UNCHANGED jar /\ (Joins \/ Changes)
        BY StepCopies
  <2>2. CASE UNCHANGED user /\ (JarsKeep \/ JarGets)
        BY <2>2, CookieTable
  <2>3. CASE UNCHANGED jar /\ Joins
        BY <2>3, JoinTable DEF Table!Next
  <2>4. CASE UNCHANGED jar /\ Changes
        BY <2>4, ChangeTable DEF Table!Next
  <2>5. QED BY <2>1, <2>2, <2>3, <2>4
<1> HIDE DEF TrueInv
<1>5. QED BY <1>1, <1>2, <1>3, <1>4, PTL DEF Spec, ImplementsSessionTable, Table!Spec
=============================================================================
