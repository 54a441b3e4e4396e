---------------------------- MODULE Requests ----------------------------
(***************************************************************************)
(* The way of a request through the API: session, onboarding guard,        *)
(* validation, the row it names, authorization, service, answer.           *)
(*                                                                         *)
(* Several organizations share the database.  A request names rows by ids  *)
(* of its sender's choice.  Each read and each service call is one step;   *)
(* what happens inside a service is the subject of the other modules.  The *)
(* session of a request is a cookie, so that its role may be out of date.  *)
(***************************************************************************)
EXTENDS Routes, ApiDocs, Pagination

CONSTANTS
    Requests,  \* the requests of a behaviour
    Things,    \* rows of all tables, those that will be inserted included
    Kind,      \* Kind[x]: the table of the row
    Org,       \* Org[x]: the organization it belongs to
    Parent,    \* Parent[x]: the project of an item or link, the item of an
               \* attachment, comment or log entry; otherwise its organization's row
    Of,        \* Of[x]: author, addressee or owner of the row
    Absent,    \* rows that do not exist at first
    Users,     \* users whose browsers hold a session
    Starts,    \* [role, named] of those users at first
    Faults     \* may the database, S3 or the network fail?

Role == {"OWNER", "ADMIN", "MEMBER"}

ASSUME ThingsAssumption ==
    /\ Kind \in [Things -> Kinds]
    /\ Parent \in [Things -> Things]
    /\ \A x \in Things : Org[Parent[x]] = Org[x]
    /\ Absent \subseteq Things
    /\ Users \subseteq {x \in Things \ Absent : Kind[x] = "user"}
    /\ Users # {}
    /\ Starts \subseteq [Users -> [role : Role, named : BOOLEAN]]
    /\ Faults \in BOOLEAN

\* The organization of a user exists (a foreign key of users).
ASSUME OrganizationsAssumption ==
    \A x \in Absent, u \in Users : Kind[x] = "organization" => Org[x] # Org[u]

VARIABLES
    status,    \* status[x]: "absent", "active" or "closed" (archived, deleted,
               \* accepted)
    role,      \* role[u] in the table of users
    version,   \* sessionVersion[u]
    session,   \* the cookie of each user
    requests   \* requests[q]: its cookie, where it is, and what came of it

vars == <<status, role, version, session, requests>>
rows == <<status, role, version>>

-----------------------------------------------------------------------------
(* Data *)

\* Rows of the table of users.
Members == {x \in Things \ Absent : Kind[x] = "user"}

Session == [role : Role, version : Nat, named : BOOLEAN]

\* "revoked" is for the properties: the session was no longer good when the
\* request was sent; "changed" and "shown" are the rows its service has written
\* and those in its answer.
Request == [pc : {"unsent", "sent", "accepted", "loaded", "answered"},
            user : Users, cookie : Session, route : Routes, target : Things,
            revoked : BOOLEAN,
            answer : Statuses \cup {0}, shown : SUBSET Things,
            changed : SUBSET Things]

\* A faulty variant: only the row is looked at.
ValidRow(u, cookie) == status[u] = "active"
\* verifyInternalUserSession.
Valid(u, cookie) == status[u] = "active" /\ cookie.version = version[u]

\* The session is older than the last change of the user, or the user is gone.
Revoked(u) == status[u] = "closed" \/ session[u].version < version[u]

\* A faulty variant: the row is found by its id alone.
FindById(u, x) == status[x] = "active"
\* findById, findByIdScoped: the row, when it is of the organization and active.
Find(u, x) == Org[x] = Org[u] /\ status[x] = "active"

\* What the handler loads first: a link is reached through its project.
Loaded(x) == IF Kind[x] = "link" THEN Parent[x] ELSE x
\* What the service finds again; rows of an archived item or project are hidden.
Found(u, x) ==
    /\ Find(u, x)
    /\ Kind[x] \in {"attachment", "comment", "link"} => status[Parent[x]] = "active"

\* The action a handler asks for.
ActionOf(route, u, x) ==
    IF route.name = "deleteComment" /\ Of[x] = u THEN "DELETE_OWN_COMMENT" ELSE route.act

\* enforceGlobalRules: organization and soft deletion.
InScope(u, cookie, x) ==
    /\ Org[x] = Org[u]
    /\ status[x] = "closed" => cookie.role = "OWNER"

\* authorizeOrThrow; who accepts an invitation needs no permission.
Allowed(route, u, cookie, x) ==
    \/ route.does = "accept"
    \/ /\ route.loads => InScope(u, cookie, Loaded(x))
       /\ Can(cookie.role, ActionOf(route, u, x))
       /\ route.name = "getInvitations" => cookie.role \in {"OWNER", "ADMIN"}

Active(kind) == {y \in Things : Kind[y] = kind /\ status[y] = "active"}

\* A faulty variant: the condition on the organization is missing.
OfAnyOrganization(kind, u) == Active(kind)
\* listByOrganization, of every table that has one.
OfOrganization(kind, u) == {y \in Active(kind) : Org[y] = Org[u]}
\* listByReviewItem, listByProject: the rows below the one the request names.
Below(kind, x) == {y \in Active(kind) : Parent[y] = x}
\* listByUser: one's own notifications.
OwnNotifications(u) == {y \in OfOrganization("notification", u) : Of[y] = u}

\* buildVersionHistory adds the attachments of the item and its log.
Shown(route, u, x) ==
    CASE route.name = "getNotifications" -> OwnNotifications(u)
      [] route.does = "list" /\ route.on = "organization" /\ route.name # "getNotifications"
            -> OfOrganization(route.kind, u)
      [] route.does = "list" /\ route.on # "organization" -> Below(route.kind, x)
      [] route.name = "getReviewItem" -> {x} \cup Below("attachment", x) \cup Below("log", x)
      [] OTHER -> {x}

-----------------------------------------------------------------------------
\* A request that has not been sent yet.
Unsent == [pc |-> "unsent", user |-> CHOOSE u \in Users : TRUE,
           cookie |-> [role |-> "MEMBER", version |-> 1, named |-> FALSE],
           route |-> CHOOSE route \in Routes : TRUE, target |-> CHOOSE x \in Things : TRUE,
           revoked |-> FALSE, answer |-> 0, shown |-> {}, changed |-> {}]

Init ==
    /\ status = [x \in Things |-> IF x \in Absent THEN "absent" ELSE "active"]
    /\ version = [u \in Members |-> 1]
    /\ \E start \in Starts :
           /\ role = [u \in Members |-> IF u \in Users THEN start[u].role ELSE "OWNER"]
           /\ session = [u \in Users |->
                  [role |-> start[u].role, version |-> 1, named |-> start[u].named]]
    /\ requests = [q \in Requests |-> Unsent]

To(q, pc) ==
    /\ requests' = [requests EXCEPT ![q].pc = pc]
    /\ UNCHANGED <<rows, session>>

\* ErrorService, or the answer of the handler.
Answer(q, answer, shown, changed) ==
    requests' = [requests EXCEPT ![q].pc = "answered", ![q].answer = answer,
                                 ![q].shown = shown, ![q].changed = changed]
Refuse(q, answer) == Answer(q, answer, {}, {}) /\ UNCHANGED <<rows, session>>

\* A browser sends a request with an id of its choice, and its cookie.
Send(q) ==
    /\ requests[q].pc = "unsent"
    /\ \E u \in Users, route \in Routes :
        \E x \in {y \in Things : Kind[y] = route.on} :
           /\ route.on = "organization" => Org[x] = Org[u]
           /\ requests' = [requests EXCEPT ![q] =
                  [pc |-> "sent", user |-> u, cookie |-> session[u], route |-> route,
                   target |-> x, revoked |-> Revoked(u),
                   answer |-> 0, shown |-> {}, changed |-> {}]]
    /\ UNCHANGED <<rows, session>>

\* handleLogin after a revocation: the new session has what the row says now.
LogIn(u) ==
    /\ status[u] = "active"
    /\ ~Valid(u, session[u])
    /\ session' = [session EXCEPT ![u] = [@ EXCEPT !.role = role[u], !.version = version[u]]]
    /\ UNCHANGED <<rows, requests>>

\* completeSignUpInternal gives the user a name, with a new version, and renews the
\* session.
CompleteSignUp(u) ==
    /\ Valid(u, session[u])
    /\ ~session[u].named
    /\ version' = [version EXCEPT ![u] = @ + 1]
    /\ session' = [session EXCEPT ![u] =
                      [role |-> role[u], version |-> version[u] + 1, named |-> TRUE]]
    /\ UNCHANGED <<status, role, requests>>

\* authenticate.
RefuseSession(q) ==
    LET r == requests[q] IN
    /\ r.pc = "sent"
    /\ ~Valid(r.user, r.cookie)
    /\ Refuse(q, 401)

\* authenticate and the onboarding guard.
Authenticate(q) ==
    LET r == requests[q] IN
    /\ r.pc = "sent"
    /\ Valid(r.user, r.cookie)
    /\ IF r.cookie.named \/ r.route.does = "accept" THEN To(q, "accepted") ELSE Refuse(q, 403)

\* validateParams, validateQuery, validateBody.
RefuseMalformed(q) ==
    /\ requests[q].pc = "accepted"
    /\ requests[q].route.name \notin {"getOrganization", "postAcceptInvitation"}
    /\ Refuse(q, 400)

\* A faulty variant: who may not do something is told there is nothing.
PrepareHiding(q) ==
    LET r == requests[q]
        here == r.route.loads => Find(r.user, Loaded(r.target)) IN
    /\ r.pc = "accepted"
    /\ IF here /\ Allowed(r.route, r.user, r.cookie, r.target) THEN To(q, "loaded")
                                                              ELSE Refuse(q, 404)
\* The handler: the row is found and the action authorized.
Prepare(q) ==
    LET r == requests[q]
        here == r.route.loads => Find(r.user, Loaded(r.target)) IN
    /\ r.pc = "accepted"
    /\ CASE ~here -> Refuse(q, 404)
         [] here /\ ~Allowed(r.route, r.user, r.cookie, r.target) -> Refuse(q, 403)
         [] OTHER -> To(q, "loaded")

-----------------------------------------------------------------------------
(* The services *)

\* The number of rows a page is asked for: the client's choice, validated, but for
\* the log entries buildVersionHistory reads.
LimitOf(route) == IF route.name = "getReviewItem" THEN 1000 ELSE DefaultLimit

\* normalizePaginationParams raises an error that has no status of its own.
RefuseLimit(q) ==
    LET r == requests[q] IN
    /\ r.pc = "loaded" /\ r.route.does \in {"read", "list"}
    /\ LimitOf(r.route) \notin Limits
    /\ Refuse(q, 500)

\* What a handler that only reads has loaded is not looked for again.
Serves(r) ==
    CASE r.route.does = "accept" -> status[r.target] = "active"
      [] r.route.loads /\ r.route.does \in {"list", "read"} -> TRUE
      [] OTHER -> Found(r.user, r.target)

\* The row has gone, or it never was: 404; an invitation that is not pending: 422.
RefuseMissing(q) ==
    LET r == requests[q] IN
    /\ r.pc = "loaded"
    /\ ~Serves(r)
    /\ Refuse(q, IF r.route.does = "accept" /\ status[r.target] = "closed" THEN 422 ELSE 404)

\* A rule of the service is broken; its transaction is rolled back.
RefuseByRule(q, answer) ==
    /\ requests[q].pc = "loaded"
    /\ answer \in requests[q].route.also
    /\ Serves(requests[q])
    /\ Refuse(q, answer)

\* Any other error, of the database for instance.
RefuseByError(q) ==
    /\ Faults
    /\ requests[q].pc \in {"sent", "accepted", "loaded"}
    /\ Refuse(q, 500)

\* Reading.
ServeRead(q) ==
    LET r == requests[q] IN
    /\ r.pc = "loaded" /\ r.route.does \in {"read", "list"} /\ Serves(r)
    /\ LimitOf(r.route) \in Limits
    /\ Answer(q, r.route.ok, Shown(r.route, r.user, r.target), {})
    /\ UNCHANGED <<rows, session>>

\* An update that leaves the row active.
ServeUpdate(q) ==
    LET r == requests[q] IN
    /\ r.pc = "loaded" /\ r.route.does = "update" /\ Serves(r)
    /\ Answer(q, r.route.ok, {r.target}, {r.target})
    /\ UNCHANGED <<rows, session>>

\* handlePatchNotificationRead: only one's own.
ServeMark(q) ==
    LET r == requests[q] IN
    /\ r.pc = "loaded" /\ r.route.does = "mark" /\ Serves(r)
    /\ IF Of[r.target] = r.user
         THEN Answer(q, r.route.ok, {r.target}, {r.target}) /\ UNCHANGED <<rows, session>>
         ELSE Refuse(q, 403)

\* A row below the organization, the project or the item of the request.
ServeCreation(q) ==
    LET r == requests[q] IN
    /\ r.pc = "loaded" /\ r.route.does = "create" /\ Serves(r)
    /\ \E y \in Things :
           /\ status[y] = "absent" /\ Kind[y] = r.route.kind /\ Parent[y] = r.target
           /\ status' = [status EXCEPT ![y] = "active"]
           /\ Answer(q, r.route.ok, {y}, {y})
    /\ UNCHANGED <<role, version, session>>

\* A faulty variant: a state the column does not have.
ServeArchiving(q) ==
    LET r == requests[q] IN
    /\ r.pc = "loaded" /\ r.route.does \in {"close", "erase"} /\ Serves(r)
    /\ status' = [status EXCEPT ![r.target] = "archived"]
    /\ Answer(q, r.route.ok, {}, {r.target})
    /\ UNCHANGED <<role, version, session>>
\* Archiving and deleting.
ServeClosing(q) ==
    LET r == requests[q] IN
    /\ r.pc = "loaded" /\ r.route.does \in {"close", "erase"} /\ Serves(r)
    /\ status' = [status EXCEPT ![r.target] = "closed"]
    /\ Answer(q, r.route.ok, {}, {r.target})
    /\ UNCHANGED <<role, version, session>>

\* deleteComment erases before its log entry is written, generatePresignedUpload
\* commits a version before it signs: an error afterwards leaves that behind.
FailAfterwards(q) ==
    LET r == requests[q] IN
    /\ Faults
    /\ r.pc = "loaded" /\ r.route.name \in {"deleteComment", "postPresign"} /\ Serves(r)
    /\ status' = IF r.route.does = "erase" THEN [status EXCEPT ![r.target] = "closed"]
                                           ELSE status
    /\ Answer(q, 500, {}, {r.target})
    /\ UNCHANGED <<role, version, session>>

\* acceptInvitation: for the addressee; a user who has a row can accept only an
\* invitation as a reviewer, which adds a link to the project.
ServeAcceptance(q) ==
    LET r == requests[q] IN
    /\ r.pc = "loaded" /\ r.route.does = "accept"
    /\ status[r.target] = "active"
    /\ IF Of[r.target] = r.user /\ Kind[Parent[r.target]] = "project"
         THEN /\ status' = [status EXCEPT ![r.target] = "closed"]
              /\ Answer(q, r.route.ok, {}, {r.target})
              /\ UNCHANGED <<role, version, session>>
         ELSE Refuse(q, IF Of[r.target] = r.user THEN 500 ELSE 422)

\* removeUser: owners and admins are removed by owners, the last owner never by
\* itself.
MayRemove(u, cookie, x) ==
    /\ role[x] \in {"OWNER", "ADMIN"} => cookie.role = "OWNER"
    /\ role[x] = "OWNER" /\ x = u =>
           \E y \in Members \ {x} : Find(u, y) /\ role[y] = "OWNER"

ServeRemoval(q) ==
    LET r == requests[q] IN
    /\ r.pc = "loaded" /\ r.route.does = "remove" /\ Serves(r)
    /\ IF MayRemove(r.user, r.cookie, r.target)
         THEN /\ status' = [status EXCEPT ![r.target] = "closed"]
              /\ version' = [version EXCEPT ![r.target] = @ + 1]
              /\ Answer(q, r.route.ok, {}, {r.target})
              /\ UNCHANGED <<role, session>>
         ELSE Refuse(q, 403)

\* updateUserRole; the demotion of an owner fails in countActiveOwnersWithLock.
ServeRole(q, new) ==
    LET r == requests[q] IN
    /\ r.pc = "loaded" /\ r.route.does = "promote" /\ Serves(r)
    /\ role[r.target] = "OWNER" => new = "OWNER"
    /\ role' = [role EXCEPT ![r.target] = new]
    /\ version' = [version EXCEPT ![r.target] = @ + 1]
    /\ Answer(q, r.route.ok, {r.target}, {r.target})
    /\ UNCHANGED <<status, session>>

Serve(q) ==
    \/ RefuseMissing(q) \/ RefuseLimit(q) \/ RefuseByError(q) \/ FailAfterwards(q)
    \/ \E answer \in Statuses : RefuseByRule(q, answer)
    \/ ServeRead(q) \/ ServeUpdate(q) \/ ServeMark(q) \/ ServeClosing(q)
    \/ ServeCreation(q)
    \/ ServeAcceptance(q) \/ ServeRemoval(q)
    \/ \E new \in Role : ServeRole(q, new)

Next ==
    \/ \E u \in Users : LogIn(u) \/ CompleteSignUp(u)
    \/ \E q \in Requests :
        \/ Send(q) \/ RefuseSession(q) \/ Authenticate(q) \/ RefuseMalformed(q) \/ Prepare(q) \/ Serve(q)

Spec == Init /\ [][Next]_vars

-----------------------------------------------------------------------------
(* Properties *)

TypeOK ==
    /\ status \in [Things -> {"absent", "active", "closed"}]
    /\ role \in [Members -> Role]
    /\ version \in [Members -> Nat]
    /\ session \in [Users -> Session]
    /\ requests \in [Requests -> Request]

Foreign(r) == Org[r.target] # Org[r.user]

\* What a request shows or changes belongs to the organization of its sender,
\* whatever ids it names; an invitation is also shown to whom it is addressed.
OwnOrganizationOnly ==
    \A q \in Requests : \A x \in requests[q].shown \cup requests[q].changed :
        \/ Org[x] = Org[requests[q].user]
        \/ Kind[x] = "invitation" /\ Of[x] = requests[q].user

\* A row of another organization cannot be told from one that does not exist:
\* with the same cookie and on the same route, a request for either is refused
\* alike (tokens of invitations, which nobody can guess, aside; a link is looked for
\* in the project its path names).
ForeignLooksMissing ==
    \A p, q \in Requests :
        LET foreign == requests[p]
            missing == requests[q] IN
        /\ {foreign.pc, missing.pc} = {"answered"}
        /\ Foreign(foreign) /\ status[Loaded(missing.target)] = "absent"
        /\ foreign.cookie = missing.cookie /\ foreign.user = missing.user
        /\ foreign.route = missing.route /\ foreign.route.does # "accept"
        => \/ foreign.answer = missing.answer
           \/ {foreign.answer, missing.answer} \cap {400, 401, 500} # {}

\* Whoever was removed, or given another role, before sending a request learns
\* nothing and changes nothing with it; requests already on their way do.
RevokedSessionsDoNothing ==
    \A q \in Requests : requests[q].revoked =>
        requests[q].shown = {} /\ requests[q].changed = {}

\* Statuses the description leaves out: 201 where it has 200, 403 for somebody
\* without a name or a permission, 404 of the service, 409 of a lost race.
Gaps ==
    ({201} \X {"postProjects", "postReviewItems"})
    \cup ({403} \X {"getOrganization", "getProjects", "postProjects", "patchProject",
                    "getReviewItems", "postReviewItems", "postPresign"})
    \cup ({404} \X {"postReviewItems", "postPresign"})
    \cup ({409} \X {"patchUserRole", "postAcceptInvitation", "postReviewer",
                    "postArchive", "postAttachment"})

\* Every answer has a status the published description gives for its route, or
\* one of the known gaps; 400 and 422, which it mostly leaves out, aside.
AnswersAreDocumented ==
    \A q \in Requests : requests[q].pc = "answered" =>
        \/ requests[q].answer \in {400, 422}
        \/ <<requests[q].answer, requests[q].route.name>> \in Documented \cup Gaps

\* "Get review item" has an answer 200 (openapi.builder.ts): without a fault, no
\* request for an item the sender may see ends with an internal error.
ItemsCanBeRead ==
    \A q \in Requests :
        requests[q].pc = "answered" /\ requests[q].route.name = "getReviewItem"
            => requests[q].answer # 500
=============================================================================
