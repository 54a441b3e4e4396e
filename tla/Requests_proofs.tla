------------------------- MODULE Requests_proofs -------------------------
(***************************************************************************)
(* Proofs about Requests, for any number of requests, users and rows of    *)
(* any organizations: a request touches nothing of another organization,   *)
(* does not tell its rows from missing ones, and a revoked session does    *)
(* nothing.                                                                *)
(***************************************************************************)
EXTENDS Requests, TLAPS

-----------------------------------------------------------------------------
(* What is used of the routes *)

RouteOK(route) ==
    /\ route.on \in Kinds /\ route.kind \in Kinds
    /\ route.ok \in Statuses /\ route.also \subseteq Statuses
    /\ route.does = "accept" => route.on = "invitation"
    /\ route.does = "create" => route.kind # "user"
    /\ route.does \in {"remove", "promote"} => route.on = "user"
    /\ route.name \in {"deleteComment", "postPresign"} => route.does # "accept"
    /\ route.name = "deleteComment" => route.loads
    /\ route.on = "link" => route.loads
    /\ route.name = "getReviewItem" => route.does = "read"
    /\ route.name = "getNotifications" => route.on = "organization" /\ route.does = "list"

\* Facts about the table of routes, by looking at each of them.
LEMMA RoutesOK == \A route \in Routes : RouteOK(route)
<1>1. \A route \in OrganizationRoutes : RouteOK(route)
      BY DEF OrganizationRoutes, RouteOK, Kinds, Statuses
<1>2. \A route \in TeamRoutes : RouteOK(route)
      BY DEF TeamRoutes, RouteOK, Kinds, Statuses
<1>3. \A route \in InvitationRoutes : RouteOK(route)
      BY DEF InvitationRoutes, RouteOK, Kinds, Statuses
<1>4. \A route \in ProjectRoutes : RouteOK(route)
      BY DEF ProjectRoutes, RouteOK, Kinds, Statuses
<1>5. \A route \in ReviewerRoutes : RouteOK(route)
      BY DEF ReviewerRoutes, RouteOK, Kinds, Statuses
<1>6. \A route \in ItemRoutes : RouteOK(route)
      BY DEF ItemRoutes, RouteOK, Kinds, Statuses
<1>7. \A route \in WorkflowRoutes : RouteOK(route)
      BY DEF WorkflowRoutes, RouteOK, Kinds, Statuses
<1>8. \A route \in AttachmentRoutes : RouteOK(route)
      BY DEF AttachmentRoutes, RouteOK, Kinds, Statuses
<1>9. \A route \in CommentRoutes : RouteOK(route)
      BY DEF CommentRoutes, RouteOK, Kinds, Statuses
<1>10. \A route \in NotificationRoutes : RouteOK(route)
      BY DEF NotificationRoutes, RouteOK, Kinds, Statuses
<1>11. QED
      BY <1>1, <1>2, <1>3, <1>4, <1>5, <1>6, <1>7, <1>8, <1>9, <1>10 DEF Routes

LEMMA SomeRoute == \E route \in Routes : TRUE
<1>1. \E route \in OrganizationRoutes : TRUE
      BY DEF OrganizationRoutes
<1>2. QED BY <1>1 DEF Routes

-----------------------------------------------------------------------------
(* The inductive invariant *)

\* The row is of the kind the route asks for.
Placed(r) == r.pc # "unsent" => Kind[r.target] = r.route.on

\* A request whose session was revoked when it was sent gets no further than that,
\* since its session stays revoked.
Stale(r) == r.revoked =>
    /\ r.shown = {} /\ r.changed = {}
    /\ r.pc # "answered" =>
           /\ r.pc = "sent"
           /\ status[r.user] = "closed" \/ r.cookie.version < version[r.user]

Addressed(r, x) == \/ Org[x] = Org[r.user]
                   \/ Kind[x] = "invitation" /\ Of[x] = r.user
Own(r) ==
    /\ r.pc = "loaded" /\ r.route.loads => Org[r.target] = Org[r.user]
    /\ \A x \in r.shown \cup r.changed : Addressed(r, x)

\* Rows the sender must not be able to tell apart.
Hidden(r) == Foreign(r) \/ status[Loaded(r.target)] = "absent"
\* What a request for one of them is told: a matter of its cookie and route alone.
Permitted(r) == /\ Can(r.cookie.role, r.route.act)
                /\ r.route.name = "getInvitations" => r.cookie.role \in {"OWNER", "ADMIN"}
Verdict(r) == IF r.cookie.named /\ (r.route.loads \/ Permitted(r)) THEN 404 ELSE 403
Alike(r) == Hidden(r) /\ r.route.does # "accept" =>
    /\ r.pc \in {"accepted", "loaded"} => r.cookie.named
    /\ r.pc = "loaded" => ~r.route.loads /\ Permitted(r)
    /\ r.pc = "answered" => r.answer \in {400, 401, 500, Verdict(r)}

RequestOK(r) == Placed(r) /\ Stale(r) /\ Own(r) /\ Alike(r)
AllOK == \A q \in Requests : RequestOK(requests[q])
Inv == TypeOK /\ AllOK

\* Rows of a user whose session was revoked, and rows that do not exist yet.
RowsAdvance ==
    /\ \A x \in Things : /\ status[x] = "closed" => status'[x] = "closed"
                         /\ status'[x] = "absent" => status[x] = "absent"
    /\ \A u \in Users : version'[u] \in Nat /\ version[u] <= version'[u]

LEMMA UsersAreThings == Users \subseteq Members /\ Users \subseteq Things
BY ThingsAssumption DEF Members

LEMMA LoadedIsThing == \A x \in Things : Loaded(x) \in Things /\ Org[Loaded(x)] = Org[x]
BY ThingsAssumption DEF Loaded

LEMMA InitInv == Init => Inv
<1> SUFFICES ASSUME Init PROVE Inv
    OBVIOUS
<1>1. Unsent \in Request
  <2>1. (CHOOSE u \in Users : TRUE) \in Users
        BY ThingsAssumption
  <2>2. (CHOOSE route \in Routes : TRUE) \in Routes
        BY SomeRoute
  <2>3. (CHOOSE x \in Things : TRUE) \in Things
        BY ThingsAssumption
  <2>4. QED BY <2>1, <2>2, <2>3 DEF Unsent, Request, Session, Role
<1>2. TypeOK
  <2>1. status \in [Things -> {"absent", "active", "closed"}] /\ version \in [Members -> Nat]
        BY DEF Init
  <2>2. PICK start \in Starts :
           /\ role = [u \in Members |-> IF u \in Users THEN start[u].role ELSE "OWNER"]
           /\ session = [u \in Users |->
                  [role |-> start[u].role, version |-> 1, named |-> start[u].named]]
        BY DEF Init
  <2>3. \A u \in Users : start[u].role \in Role /\ start[u].named \in BOOLEAN
        BY ThingsAssumption
  <2>4. role \in [Members -> Role]
        BY <2>2, <2>3 DEF Role
  <2>5. session \in [Users -> Session]
        BY <2>2, <2>3 DEF Session
  <2>6. requests \in [Requests -> Request]
        BY <1>1 DEF Init
  <2>7. QED BY <2>1, <2>4, <2>5, <2>6 DEF TypeOK
<1>3. RequestOK(Unsent)
      BY DEF RequestOK, Placed, Stale, Own, Alike, Unsent
<1>4. AllOK
      BY <1>3 DEF AllOK, Init
<1>5. QED BY <1>2, <1>4 DEF Inv

-----------------------------------------------------------------------------
(* How requests move *)

\* A request that stays where it is keeps what is known of it while rows advance.
LEMMA Unmoved ==
    ASSUME TypeOK, RowsAdvance, NEW p \in Requests, RequestOK(requests[p]),
           requests'[p] = requests[p]
    PROVE  RequestOK(requests[p])'
<1> DEFINE r == requests[p]
<1>1. r \in Request /\ r.user \in Users /\ r.target \in Things
      BY DEF TypeOK, Request
<1>2. Placed(requests[p])' /\ Own(requests[p])'
      BY DEF RequestOK, Placed, Own, Addressed
<1>3. Stale(requests[p])'
  <2>1. status[r.user] = "closed" => status'[r.user] = "closed"
        BY <1>1, UsersAreThings DEF RowsAdvance
  <2>2. r.cookie.version < version[r.user] => r.cookie.version < version'[r.user]
    <3>1. r.cookie.version \in Nat
          BY <1>1 DEF Request, Session
    <3>2. /\ version[r.user] \in Nat /\ version'[r.user] \in Nat
               /\ version[r.user] <= version'[r.user]
          BY <1>1, UsersAreThings DEF RowsAdvance, TypeOK
    <3>3. QED BY <3>1, <3>2
  <2>3. QED BY <2>1, <2>2 DEF RequestOK, Stale
<1>4. Alike(requests[p])'
  <2>1. Hidden(requests[p])' => Hidden(requests[p])
        BY <1>1, LoadedIsThing DEF Hidden, RowsAdvance, Foreign, Loaded
  <2>2. QED BY <2>1 DEF RequestOK, Alike, Permitted, Verdict
<1>5. QED BY <1>2, <1>3, <1>4 DEF RequestOK

\* The rows stay as they are.
LEMMA StillRows == ASSUME TypeOK, UNCHANGED rows PROVE RowsAdvance
<1>1. \A u \in Users : version[u] \in Nat
      BY UsersAreThings DEF TypeOK
<1>2. QED BY <1>1 DEF RowsAdvance, rows

\* One request moves, the rest is where it was.
LEMMA OneMoves ==
    ASSUME TypeOK, AllOK, RowsAdvance, NEW q \in Requests,
           \A p \in Requests \ {q} : requests'[p] = requests[p],
           RequestOK(requests[q])'
    PROVE  AllOK'
<1>1. ASSUME NEW p \in Requests PROVE RequestOK(requests[p])'
  <2>1. CASE p = q
        BY <2>1
  <2>2. CASE p # q
    <3>1. RequestOK(requests[p]) /\ requests'[p] = requests[p]
          BY <2>2 DEF AllOK
    <3>2. QED BY <3>1, Unmoved
  <2>3. QED BY <2>1, <2>2
<1>2. QED BY <1>1 DEF AllOK

\* An answer changes the request in four fields.
LEMMA Answered ==
    ASSUME TypeOK, NEW q \in Requests, NEW a \in Statuses,
           NEW shown \in SUBSET Things, NEW changed \in SUBSET Things,
           Answer(q, a, shown, changed)
    PROVE  /\ requests' \in [Requests -> Request]
           /\ \A p \in Requests \ {q} : requests'[p] = requests[p]
           /\ LET r == requests[q]  n == requests'[q] IN
              /\ n.pc = "answered" /\ n.answer = a /\ n.shown = shown /\ n.changed = changed
              /\ n.user = r.user /\ n.cookie = r.cookie /\ n.route = r.route
              /\ n.target = r.target /\ n.revoked = r.revoked
<1> DEFINE n == [requests[q] EXCEPT !.pc = "answered", !.answer = a,
                                    !.shown = shown, !.changed = changed]
<1>1. requests[q] \in Request
      BY DEF TypeOK
<1>2. n \in Request
      BY <1>1 DEF Request
<1>3. requests' = [requests EXCEPT ![q] = n]
      BY DEF Answer, TypeOK
<1>4. requests'[q] = n
      BY <1>3 DEF TypeOK
<1>5. QED BY <1>1, <1>2, <1>3, <1>4 DEF TypeOK, Request

\* What a request is answered is right when it shows nothing of others, reveals
\* nothing of hidden rows and, for a revoked session, does nothing at all.
LEMMA AnswerOK ==
    ASSUME Inv, RowsAdvance, NEW q \in Requests, NEW a \in Statuses,
           NEW shown \in SUBSET Things, NEW changed \in SUBSET Things,
           Answer(q, a, shown, changed),
           requests[q].pc # "unsent",
           requests[q].revoked => shown = {} /\ changed = {},
           \A x \in shown \cup changed : Addressed(requests[q], x),
           Hidden(requests[q]) /\ requests[q].route.does # "accept"
               => a \in {400, 401, 500, Verdict(requests[q])}
    PROVE  requests' \in [Requests -> Request] /\ AllOK'
<1> DEFINE r == requests[q]  n == requests'[q]
<1>1. TypeOK /\ AllOK /\ RequestOK(r)
      BY DEF Inv, AllOK
<1>2. /\ requests' \in [Requests -> Request]
      /\ \A p \in Requests \ {q} : requests'[p] = requests[p]
      BY <1>1, Answered
<1>3. r \in Request
      BY <1>1 DEF TypeOK
<1>4. /\ n.pc = "answered" /\ n.answer = a /\ n.shown = shown /\ n.changed = changed
      /\ n.user = r.user /\ n.cookie = r.cookie /\ n.route = r.route
      /\ n.target = r.target /\ n.revoked = r.revoked
      BY <1>1, Answered
<1>5. Placed(requests[q])'
      BY <1>1, <1>4 DEF RequestOK, Placed
<1>6. Stale(requests[q])'
      BY <1>4 DEF Stale
<1>7. Own(requests[q])'
      BY <1>4 DEF Own, Addressed
<1>8. Alike(requests[q])'
  <2>1. Hidden(requests[q])' => Hidden(r)
        BY <1>3, <1>4, LoadedIsThing DEF Hidden, RowsAdvance, Foreign, Loaded, Request
  <2>2. Verdict(requests[q])' = Verdict(r)
        BY <1>4 DEF Verdict, Permitted
  <2>3. QED BY <1>4, <2>1, <2>2 DEF Alike
<1>9. QED BY <1>1, <1>2, <1>5, <1>6, <1>7, <1>8, OneMoves DEF RequestOK

\* A refusal shows and changes nothing.
LEMMA RefusalOK ==
    ASSUME Inv, NEW q \in Requests, NEW a \in Statuses, Refuse(q, a),
           requests[q].pc # "unsent",
           Hidden(requests[q]) /\ requests[q].route.does # "accept"
               => a \in {400, 401, 500, Verdict(requests[q])}
    PROVE  Inv'
<1>1. TypeOK /\ UNCHANGED <<rows, session>> /\ Answer(q, a, {}, {})
      BY DEF Inv, Refuse
<1>2. RowsAdvance
      BY <1>1, StillRows
<1>3. requests' \in [Requests -> Request] /\ AllOK'
      BY <1>1, <1>2, AnswerOK
<1>4. QED BY <1>1, <1>3 DEF Inv, TypeOK, rows

\* To the next stage, under what that stage asks for.
LEMMA ToOK ==
    ASSUME Inv, NEW q \in Requests, NEW pc \in {"accepted", "loaded"}, To(q, pc),
           LET r == requests[q] IN
           /\ r.pc # "unsent" /\ ~r.revoked
           /\ pc = "loaded" /\ r.route.loads => Org[r.target] = Org[r.user]
           /\ Hidden(r) /\ r.route.does # "accept" =>
                  /\ r.cookie.named
                  /\ pc = "loaded" => ~r.route.loads /\ Permitted(r)
    PROVE  Inv'
<1> DEFINE r == requests[q]  n == [r EXCEPT !.pc = pc]
<1>1. TypeOK /\ AllOK /\ RequestOK(r) /\ UNCHANGED <<rows, session>>
      BY DEF Inv, AllOK, To
<1>2. r \in Request
      BY <1>1 DEF TypeOK
<1>3. n \in Request
      BY <1>2 DEF Request
<1>4. requests' = [requests EXCEPT ![q] = n]
      BY DEF To
<1>5. /\ requests' \in [Requests -> Request] /\ requests'[q] = n
      /\ \A p \in Requests \ {q} : requests'[p] = requests[p]
      BY <1>1, <1>3, <1>4 DEF TypeOK
<1>6. /\ n.pc = pc /\ n.answer = r.answer /\ n.shown = r.shown /\ n.changed = r.changed
      /\ n.user = r.user /\ n.cookie = r.cookie /\ n.route = r.route
      /\ n.target = r.target /\ n.revoked = r.revoked
      BY <1>2 DEF Request
<1> HIDE DEF n
<1>7. Placed(requests[q])' /\ Stale(requests[q])'
      BY <1>1, <1>5, <1>6 DEF RequestOK, Placed, Stale
<1>8. Own(requests[q])'
      BY <1>1, <1>5, <1>6 DEF RequestOK, Own, Addressed
<1>9. Alike(requests[q])'
      BY <1>1, <1>5, <1>6 DEF Alike, Hidden, Permitted, Foreign, Loaded, rows
<1>10. RowsAdvance
      BY <1>1, StillRows
<1>11. AllOK'
      BY <1>1, <1>5, <1>7, <1>8, <1>9, <1>10, OneMoves DEF RequestOK
<1>12. QED BY <1>1, <1>5, <1>11 DEF Inv, TypeOK, rows

\* A request that was accepted has a good session.
LEMMA UnderWay ==
    ASSUME Inv, NEW q \in Requests
    PROVE  LET r == requests[q] IN
           /\ r \in Request /\ RouteOK(r.route) /\ RequestOK(r)
           /\ r.pc \in {"accepted", "loaded"} => ~r.revoked
<1>1. requests[q] \in Request /\ RequestOK(requests[q])
      BY DEF Inv, TypeOK, AllOK
<1>2. RouteOK(requests[q].route)
      BY <1>1, RoutesOK DEF Request
<1>3. QED BY <1>1, <1>2 DEF RequestOK, Stale

\* What a service finds belongs to the organization of the sender.
LEMMA ServesOwn ==
    ASSUME Inv, NEW q \in Requests, requests[q].pc = "loaded", Serves(requests[q]),
           requests[q].route.does # "accept"
    PROVE  Org[requests[q].target] = Org[requests[q].user] /\ ~Hidden(requests[q])
<1> DEFINE r == requests[q]
<1>1. r \in Request /\ RequestOK(r)
      BY UnderWay
<1>2. CASE r.route.loads /\ r.route.does \in {"list", "read"}
      BY <1>1, <1>2 DEF RequestOK, Own, Alike
<1>3. CASE Found(r.user, r.target)
  <2>1. Org[r.target] = Org[r.user] /\ status[r.target] = "active"
        BY <1>3 DEF Found, Find
  <2>2. Kind[r.target] = "link" => status[Parent[r.target]] = "active"
        BY <1>3 DEF Found
  <2>3. QED BY <2>1, <2>2 DEF Hidden, Foreign, Loaded
<1>4. QED BY <1>2, <1>3 DEF Serves

LEMMA ShownOwn ==
    ASSUME Inv, NEW q \in Requests, requests[q].route.does \in {"read", "list"},
           Org[requests[q].target] = Org[requests[q].user]
    PROVE  LET r == requests[q] IN
           /\ Shown(r.route, r.user, r.target) \in SUBSET Things
           /\ \A x \in Shown(r.route, r.user, r.target) : Org[x] = Org[r.user]
<1> DEFINE r == requests[q]
<1>1. r.target \in Things /\ RouteOK(r.route)
      BY UnderWay DEF Request
<1>2. \A kind : /\ OfOrganization(kind, r.user) \subseteq Things
                /\ \A y \in OfOrganization(kind, r.user) : Org[y] = Org[r.user]
      BY DEF OfOrganization, Active
<1>3. \A kind : /\ Below(kind, r.target) \subseteq Things
                /\ \A y \in Below(kind, r.target) : Org[y] = Org[r.user]
      BY ThingsAssumption DEF Below, Active
<1>4. /\ OwnNotifications(r.user) \subseteq Things
      /\ \A y \in OwnNotifications(r.user) : Org[y] = Org[r.user]
      BY <1>2 DEF OwnNotifications
<1>5. CASE r.route.name = "getNotifications"
  <2>1. r.route.does = "list" /\ r.route.on = "organization"
        BY <1>1, <1>5 DEF RouteOK
  <2>2. Shown(r.route, r.user, r.target) = OwnNotifications(r.user)
        BY <1>5, <2>1 DEF Shown
  <2>3. QED BY <1>4, <2>2
<1>6. CASE r.route.name = "getReviewItem"
      BY <1>1, <1>3, <1>6 DEF Shown, RouteOK
<1>7. CASE r.route.name \notin {"getNotifications", "getReviewItem"}
  <2>1. CASE r.route.does = "read"
        BY <1>1, <1>7, <2>1 DEF Shown
  <2>2. CASE r.route.does = "list"
        BY <1>2, <1>3, <1>7, <2>2 DEF Shown
  <2>3. QED BY <2>1, <2>2
<1>8. QED BY <1>5, <1>6, <1>7

-----------------------------------------------------------------------------
(* One lemma for each step *)

LEMMA SendInv == ASSUME Inv, NEW q \in Requests, Send(q) PROVE Inv'
<1>1. TypeOK /\ AllOK /\ UNCHANGED <<rows, session>>
      BY DEF Inv, Send
<1>2. PICK u \in Users, route \in Routes :
        \E x \in {y \in Things : Kind[y] = route.on} :
           requests' = [requests EXCEPT ![q] =
                  [pc |-> "sent", user |-> u, cookie |-> session[u], route |-> route,
                   target |-> x, revoked |-> Revoked(u),
                   answer |-> 0, shown |-> {}, changed |-> {}]]
      BY DEF Send
<1>3. PICK x \in Things : /\ Kind[x] = route.on
           /\ requests' = [requests EXCEPT ![q] =
                  [pc |-> "sent", user |-> u, cookie |-> session[u], route |-> route,
                   target |-> x, revoked |-> Revoked(u),
                   answer |-> 0, shown |-> {}, changed |-> {}]]
      BY <1>2
<1> DEFINE n == [pc |-> "sent", user |-> u, cookie |-> session[u], route |-> route,
                 target |-> x, revoked |-> Revoked(u),
                 answer |-> 0, shown |-> {}, changed |-> {}]
<1>4. Revoked(u) \in BOOLEAN
      BY DEF Revoked
<1>5. n \in Request
      BY <1>1, <1>4 DEF Request, TypeOK
<1>6. /\ requests' \in [Requests -> Request] /\ requests'[q] = n
      /\ \A p \in Requests \ {q} : requests'[p] = requests[p]
      BY <1>1, <1>3, <1>5 DEF TypeOK
<1>7. Placed(requests[q])' /\ Own(requests[q])' /\ Alike(requests[q])'
      BY <1>3, <1>6 DEF Placed, Own, Alike
<1>8. Stale(requests[q])'
  <2>1. /\ n.revoked = Revoked(u) /\ n.shown = {} /\ n.changed = {} /\ n.pc = "sent"
        /\ n.user = u /\ n.cookie = session[u]
        OBVIOUS
  <2> HIDE DEF n
  <2>2. Revoked(u) => status'[u] = "closed" \/ session[u].version < version'[u]
        BY <1>1 DEF Revoked, rows
  <2>3. QED BY <1>6, <2>1, <2>2 DEF Stale
<1>9. RowsAdvance
      BY <1>1, StillRows
<1>10. AllOK'
      BY <1>1, <1>6, <1>7, <1>8, <1>9, OneMoves DEF RequestOK
<1>11. QED BY <1>1, <1>6, <1>10 DEF Inv, TypeOK, rows

\* Every request stays where it is.
LEMMA AllUnmoved ==
    ASSUME TypeOK, AllOK, RowsAdvance, UNCHANGED requests
    PROVE  AllOK'
BY Unmoved DEF AllOK

LEMMA LogInInv == ASSUME Inv, NEW u \in Users, LogIn(u) PROVE Inv'
<1>1. TypeOK /\ AllOK /\ UNCHANGED <<rows, requests>>
      BY DEF Inv, LogIn
<1>2. AllOK'
      BY <1>1, StillRows, AllUnmoved
<1>3. role[u] \in Role /\ version[u] \in Nat /\ session[u] \in Session
      BY <1>1, UsersAreThings DEF TypeOK
<1>4. [session[u] EXCEPT !.role = role[u], !.version = version[u]] \in Session
      BY <1>3 DEF Session
<1>5. session' \in [Users -> Session]
  <2>1. session' = [session EXCEPT ![u] =
                       [session[u] EXCEPT !.role = role[u], !.version = version[u]]]
        BY <1>1 DEF LogIn, TypeOK
  <2>2. QED BY <1>1, <1>4, <2>1 DEF TypeOK
<1>6. QED BY <1>1, <1>2, <1>5 DEF Inv, TypeOK, rows

LEMMA CompleteSignUpInv == ASSUME Inv, NEW u \in Users, CompleteSignUp(u) PROVE Inv'
<1>1. TypeOK /\ AllOK /\ UNCHANGED <<status, role, requests>>
      BY DEF Inv, CompleteSignUp
<1>2. role[u] \in Role /\ version \in [Members -> Nat] /\ u \in Members
      BY <1>1, UsersAreThings DEF TypeOK
<1>3. version' = [version EXCEPT ![u] = version[u] + 1]
      BY DEF CompleteSignUp
<1>4. \A v \in Users : version'[v] \in Nat /\ version[v] <= version'[v]
      BY <1>2, <1>3, UsersAreThings
<1>5. RowsAdvance
      BY <1>1, <1>4 DEF RowsAdvance
<1>6. AllOK'
      BY <1>1, <1>5, AllUnmoved
<1>7. [role |-> role[u], version |-> version[u] + 1, named |-> TRUE] \in Session
      BY <1>2 DEF Session
<1>8. session' \in [Users -> Session]
      BY <1>1, <1>7 DEF CompleteSignUp, TypeOK
<1>9. version' \in [Members -> Nat]
      BY <1>2, <1>3
<1>10. QED BY <1>1, <1>6, <1>8, <1>9 DEF Inv, TypeOK

LEMMA RefuseSessionInv == ASSUME Inv, NEW q \in Requests, RefuseSession(q) PROVE Inv'
<1>1. Refuse(q, 401) /\ requests[q].pc # "unsent"
      BY DEF RefuseSession
<1>2. 401 \in Statuses
      BY DEF Statuses
<1>3. QED BY <1>1, <1>2, RefusalOK

LEMMA AuthenticateInv == ASSUME Inv, NEW q \in Requests, Authenticate(q) PROVE Inv'
<1> DEFINE r == requests[q]
<1>1. r \in Request /\ RequestOK(r)
      BY UnderWay
<1>2. r.pc = "sent" /\ Valid(r.user, r.cookie)
      BY DEF Authenticate
<1>3. ~r.revoked
  <2>1. version[r.user] \in Nat
        BY <1>1, UsersAreThings DEF Inv, TypeOK, Request
  <2>2. QED BY <1>1, <1>2, <2>1 DEF RequestOK, Stale, Valid
<1>4. CASE r.cookie.named \/ r.route.does = "accept"
  <2>1. To(q, "accepted")
        BY <1>4 DEF Authenticate
  <2>2. QED BY <1>2, <1>3, <1>4, <2>1, ToOK
<1>5. CASE ~(r.cookie.named \/ r.route.does = "accept")
  <2>1. Refuse(q, 403) /\ 403 \in Statuses
        BY <1>5 DEF Authenticate, Statuses
  <2>2. Verdict(r) = 403
        BY <1>5 DEF Verdict
  <2>3. QED BY <1>2, <2>1, <2>2, RefusalOK
<1>6. QED BY <1>4, <1>5

LEMMA RefuseMalformedInv == ASSUME Inv, NEW q \in Requests, RefuseMalformed(q) PROVE Inv'
<1>1. Refuse(q, 400) /\ requests[q].pc # "unsent"
      BY DEF RefuseMalformed
<1>2. 400 \in Statuses
      BY DEF Statuses
<1>3. QED BY <1>1, <1>2, RefusalOK

\* A hidden row is not found before the authorization, and not authorized by
\* anything that depends on it.
LEMMA PrepareInv == ASSUME Inv, NEW q \in Requests, Prepare(q) PROVE Inv'
<1> DEFINE r == requests[q]
           here == r.route.loads => Find(r.user, Loaded(r.target))
           allowed == Allowed(r.route, r.user, r.cookie, r.target)
<1>1. r \in Request /\ RequestOK(r) /\ RouteOK(r.route) /\ r.pc = "accepted" /\ ~r.revoked
      BY UnderWay DEF Prepare
<1>2. Org[Loaded(r.target)] = Org[r.target]
      BY <1>1, LoadedIsThing DEF Request
<1>3. Hidden(r) /\ here => ~r.route.loads
      BY <1>2 DEF Hidden, Foreign, Find
<1>4. r.route.does # "accept" /\ ~r.route.loads => (allowed <=> Permitted(r))
      BY <1>1 DEF Allowed, ActionOf, Permitted, RouteOK
<1>5. Hidden(r) /\ r.route.does # "accept" => r.cookie.named
      BY <1>1 DEF RequestOK, Alike
<1>6. {403, 404} \subseteq Statuses
      BY DEF Statuses
<1>7. CASE ~here
  <2>1. Refuse(q, 404) /\ r.route.loads
        BY <1>7 DEF Prepare
  <2>2. r.cookie.named => Verdict(r) = 404
        BY <2>1 DEF Verdict
  <2>3. QED BY <1>1, <1>5, <1>6, <2>1, <2>2, RefusalOK
<1>8. CASE here /\ ~allowed
  <2>1. Refuse(q, 403)
        BY <1>8 DEF Prepare
  <2>2. Hidden(r) /\ r.route.does # "accept" => Verdict(r) = 403
        BY <1>3, <1>4, <1>8 DEF Verdict
  <2>3. QED BY <1>1, <1>6, <2>1, <2>2, RefusalOK
<1>9. CASE here /\ allowed
  <2>1. To(q, "loaded")
        BY <1>9 DEF Prepare
  <2>2. r.route.loads => Org[r.target] = Org[r.user]
        BY <1>2, <1>9 DEF Find
  <2>3. Hidden(r) /\ r.route.does # "accept" => ~r.route.loads /\ Permitted(r)
        BY <1>3, <1>4, <1>9
  <2> HIDE DEF here, allowed
  <2>4. QED BY <1>1, <1>5, <2>1, <2>2, <2>3, ToOK
<1>10. QED BY <1>7, <1>8, <1>9

-----------------------------------------------------------------------------
(* The services *)

\* What a service refuses, it refuses a hidden row with 404, or 500.
LEMMA ServiceRefusal ==
    ASSUME Inv, NEW q \in Requests, NEW a \in Statuses, Refuse(q, a),
           requests[q].pc = "loaded",
           Serves(requests[q]) \/ a \in {404, 500} \/ requests[q].route.does = "accept"
    PROVE  Inv'
<1> DEFINE r == requests[q]
<1>1. Hidden(r) /\ r.route.does # "accept" => r.cookie.named /\ Permitted(r)
      BY UnderWay DEF RequestOK, Alike
<1>2. r.cookie.named /\ Permitted(r) => Verdict(r) = 404
      BY DEF Verdict
<1>3. Hidden(r) /\ r.route.does # "accept" => ~Serves(r)
      BY ServesOwn
<1>4. QED BY <1>1, <1>2, <1>3, RefusalOK

\* A service that answers has found a row of the organization.
LEMMA ServiceAnswer ==
    ASSUME Inv, RowsAdvance, NEW q \in Requests, NEW a \in Statuses,
           NEW shown \in SUBSET Things, NEW changed \in SUBSET Things,
           Answer(q, a, shown, changed),
           requests[q].pc = "loaded", Serves(requests[q]),
           requests[q].route.does # "accept",
           \A x \in shown \cup changed : Org[x] = Org[requests[q].target]
    PROVE  requests' \in [Requests -> Request] /\ AllOK'
<1> DEFINE r == requests[q]
<1>1. ~r.revoked
      BY UnderWay
<1>2. Org[r.target] = Org[r.user] /\ ~Hidden(r)
      BY ServesOwn
<1>3. \A x \in shown \cup changed : Addressed(r, x)
      BY <1>2 DEF Addressed
<1>4. QED BY <1>1, <1>2, <1>3, AnswerOK

LEMMA RefuseLimitInv == ASSUME Inv, NEW q \in Requests, RefuseLimit(q) PROVE Inv'
<1>1. Refuse(q, 500) /\ requests[q].pc = "loaded" /\ 500 \in Statuses
      BY DEF RefuseLimit, Statuses
<1>2. QED BY <1>1, ServiceRefusal

LEMMA RefuseMissingInv == ASSUME Inv, NEW q \in Requests, RefuseMissing(q) PROVE Inv'
<1>1. requests[q].pc = "loaded" /\ {404, 422} \subseteq Statuses
      BY DEF RefuseMissing, Statuses
<1>2. \/ Refuse(q, 404)
      \/ Refuse(q, 422) /\ requests[q].route.does = "accept"
      BY DEF RefuseMissing
<1>3. QED BY <1>1, <1>2, ServiceRefusal

LEMMA RefuseByRuleInv ==
    ASSUME Inv, NEW q \in Requests, NEW a \in Statuses, RefuseByRule(q, a)
    PROVE  Inv'
<1>1. Refuse(q, a) /\ requests[q].pc = "loaded" /\ Serves(requests[q])
      BY DEF RefuseByRule
<1>2. QED BY <1>1, ServiceRefusal

LEMMA RefuseByErrorInv == ASSUME Inv, NEW q \in Requests, RefuseByError(q) PROVE Inv'
<1>1. Refuse(q, 500) /\ requests[q].pc # "unsent" /\ 500 \in Statuses
      BY DEF RefuseByError, Statuses
<1>2. QED BY <1>1, RefusalOK

LEMMA ServeReadInv == ASSUME Inv, NEW q \in Requests, ServeRead(q) PROVE Inv'
<1> DEFINE r == requests[q]  shown == Shown(r.route, r.user, r.target)
<1>1. /\ r.pc = "loaded" /\ r.route.does \in {"read", "list"} /\ Serves(r)
      /\ Answer(q, r.route.ok, shown, {}) /\ UNCHANGED <<rows, session>>
      BY DEF ServeRead
<1>2. Org[r.target] = Org[r.user]
      BY <1>1, ServesOwn
<1>3. shown \in SUBSET Things /\ \A x \in shown : Org[x] = Org[r.target]
      BY <1>1, <1>2, ShownOwn
<1>4. RowsAdvance /\ r.route.ok \in Statuses
      BY <1>1, StillRows, UnderWay DEF Inv, RouteOK
<1> HIDE DEF shown
<1>5. requests' \in [Requests -> Request] /\ AllOK'
      BY <1>1, <1>3, <1>4, ServiceAnswer
<1>6. QED BY <1>1, <1>5 DEF Inv, TypeOK, rows

LEMMA ServeUpdateInv == ASSUME Inv, NEW q \in Requests, ServeUpdate(q) PROVE Inv'
<1> DEFINE r == requests[q]
<1>1. /\ r.pc = "loaded" /\ r.route.does = "update" /\ Serves(r)
      /\ Answer(q, r.route.ok, {r.target}, {r.target}) /\ UNCHANGED <<rows, session>>
      BY DEF ServeUpdate
<1>2. RowsAdvance /\ r.route.ok \in Statuses /\ {r.target} \in SUBSET Things
      BY <1>1, StillRows, UnderWay DEF Inv, RouteOK, Request
<1>3. requests' \in [Requests -> Request] /\ AllOK'
      BY <1>1, <1>2, ServiceAnswer
<1>4. QED BY <1>1, <1>3 DEF Inv, TypeOK, rows

LEMMA ServeMarkInv == ASSUME Inv, NEW q \in Requests, ServeMark(q) PROVE Inv'
<1> DEFINE r == requests[q]
<1>1. r.pc = "loaded" /\ r.route.does = "mark" /\ Serves(r)
      BY DEF ServeMark
<1>2. CASE Of[r.target] = r.user
  <2>1. Answer(q, r.route.ok, {r.target}, {r.target}) /\ UNCHANGED <<rows, session>>
        BY <1>2 DEF ServeMark
  <2>2. RowsAdvance /\ r.route.ok \in Statuses /\ {r.target} \in SUBSET Things
        BY <2>1, StillRows, UnderWay DEF Inv, RouteOK, Request
  <2>3. requests' \in [Requests -> Request] /\ AllOK'
        BY <1>1, <2>1, <2>2, ServiceAnswer
  <2>4. QED BY <2>1, <2>3 DEF Inv, TypeOK, rows
<1>3. CASE Of[r.target] # r.user
  <2>1. Refuse(q, 403) /\ 403 \in Statuses
        BY <1>3 DEF ServeMark, Statuses
  <2>2. QED BY <1>1, <2>1, ServiceRefusal
<1>4. QED BY <1>2, <1>3

\* A row is inserted or closed.
LEMMA RowChanges ==
    ASSUME TypeOK, NEW x \in Things, NEW state \in {"active", "closed"},
           state = "active" => status[x] = "absent",
           status' = [status EXCEPT ![x] = state], UNCHANGED version
    PROVE  RowsAdvance /\ status' \in [Things -> {"absent", "active", "closed"}]
<1>1. \A u \in Users : version'[u] \in Nat /\ version[u] <= version'[u]
      BY UsersAreThings DEF TypeOK
<1>2. QED BY <1>1 DEF RowsAdvance, TypeOK

LEMMA ServeCreationInv == ASSUME Inv, NEW q \in Requests, ServeCreation(q) PROVE Inv'
<1> DEFINE r == requests[q]
<1>1. /\ r.pc = "loaded" /\ r.route.does = "create" /\ Serves(r)
      /\ UNCHANGED <<role, version, session>>
      BY DEF ServeCreation
<1>2. PICK y \in Things :
         /\ status[y] = "absent" /\ Parent[y] = r.target
         /\ status' = [status EXCEPT ![y] = "active"]
         /\ Answer(q, r.route.ok, {y}, {y})
      BY DEF ServeCreation
<1>3. RowsAdvance /\ status' \in [Things -> {"absent", "active", "closed"}]
      BY <1>1, <1>2, RowChanges DEF Inv
<1>4. r.route.ok \in Statuses
      BY UnderWay DEF RouteOK
<1>5. Org[y] = Org[r.target]
      BY <1>2, ThingsAssumption
<1>6. requests' \in [Requests -> Request] /\ AllOK'
      BY <1>1, <1>2, <1>3, <1>4, <1>5, ServiceAnswer
<1>7. QED BY <1>1, <1>3, <1>6 DEF Inv, TypeOK

LEMMA ServeClosingInv == ASSUME Inv, NEW q \in Requests, ServeClosing(q) PROVE Inv'
<1> DEFINE r == requests[q]
<1>1. /\ r.pc = "loaded" /\ r.route.does \in {"close", "erase"} /\ Serves(r)
      /\ status' = [status EXCEPT ![r.target] = "closed"]
      /\ Answer(q, r.route.ok, {}, {r.target})
      /\ UNCHANGED <<role, version, session>>
      BY DEF ServeClosing
<1>2. r.target \in Things /\ r.route.ok \in Statuses
      BY UnderWay DEF Request, RouteOK
<1>3. RowsAdvance /\ status' \in [Things -> {"absent", "active", "closed"}]
      BY <1>1, <1>2, RowChanges DEF Inv
<1>4. requests' \in [Requests -> Request] /\ AllOK'
      BY <1>1, <1>2, <1>3, ServiceAnswer
<1>5. QED BY <1>1, <1>3, <1>4 DEF Inv, TypeOK

LEMMA FailAfterwardsInv == ASSUME Inv, NEW q \in Requests, FailAfterwards(q) PROVE Inv'
<1> DEFINE r == requests[q]
<1>1. /\ r.pc = "loaded" /\ r.route.name \in {"deleteComment", "postPresign"} /\ Serves(r)
      /\ Answer(q, 500, {}, {r.target})
      /\ UNCHANGED <<role, version, session>>
      BY DEF FailAfterwards
<1>2. r.target \in Things /\ r.route.does # "accept" /\ 500 \in Statuses
      BY <1>1, UnderWay DEF Request, RouteOK, Statuses
<1>3. RowsAdvance /\ status' \in [Things -> {"absent", "active", "closed"}]
  <2>1. CASE status' = [status EXCEPT ![r.target] = "closed"]
        BY <1>1, <1>2, <2>1, RowChanges DEF Inv
  <2>2. CASE status' = status
        BY <1>1, <2>2, StillRows DEF Inv, TypeOK, rows
  <2>3. QED BY <2>1, <2>2 DEF FailAfterwards
<1>4. requests' \in [Requests -> Request] /\ AllOK'
      BY <1>1, <1>2, <1>3, ServiceAnswer
<1>5. QED BY <1>1, <1>3, <1>4 DEF Inv, TypeOK

LEMMA ServeAcceptanceInv == ASSUME Inv, NEW q \in Requests, ServeAcceptance(q) PROVE Inv'
<1> DEFINE r == requests[q]
<1>1. r.pc = "loaded" /\ r.route.does = "accept"
      BY DEF ServeAcceptance
<1>2. r.target \in Things /\ r.route.ok \in Statuses /\ Kind[r.target] = "invitation" /\ ~r.revoked
      BY <1>1, UnderWay DEF Request, RouteOK, RequestOK, Placed
<1>3. CASE Of[r.target] = r.user /\ Kind[Parent[r.target]] = "project"
  <2>1. /\ status' = [status EXCEPT ![r.target] = "closed"]
        /\ Answer(q, r.route.ok, {}, {r.target})
        /\ UNCHANGED <<role, version, session>>
        BY <1>3 DEF ServeAcceptance
  <2>2. RowsAdvance /\ status' \in [Things -> {"absent", "active", "closed"}]
        BY <1>2, <2>1, RowChanges DEF Inv
  <2>3. Addressed(r, r.target)
        BY <1>2, <1>3 DEF Addressed
  <2>4. requests' \in [Requests -> Request] /\ AllOK'
        BY <1>1, <1>2, <2>1, <2>2, <2>3, AnswerOK
  <2>5. QED BY <2>1, <2>2, <2>4 DEF Inv, TypeOK
<1>4. CASE ~(Of[r.target] = r.user /\ Kind[Parent[r.target]] = "project")
  <2>1. {500, 422} \subseteq Statuses /\ (Refuse(q, 500) \/ Refuse(q, 422))
        BY <1>4 DEF ServeAcceptance, Statuses
  <2>2. QED BY <1>1, <2>1, ServiceRefusal
<1>5. QED BY <1>3, <1>4

\* A user is given a new version.
LEMMA VersionGrows ==
    ASSUME TypeOK, NEW x, version' = [version EXCEPT ![x] = @ + 1]
    PROVE  /\ version' \in [Members -> Nat]
           /\ \A u \in Users : version'[u] \in Nat /\ version[u] <= version'[u]
<1>1. \A u \in Members : version[u] \in Nat /\ version'[u] \in {version[u], version[u] + 1}
      BY DEF TypeOK
<1>2. version' = [u \in Members |-> version'[u]]
      BY DEF TypeOK
<1>3. \A u \in Members : version'[u] \in Nat /\ version[u] <= version'[u]
      BY <1>1
<1>4. version' \in [Members -> Nat]
      BY <1>2, <1>3
<1>5. QED BY <1>3, <1>4, UsersAreThings

LEMMA ServeRemovalInv == ASSUME Inv, NEW q \in Requests, ServeRemoval(q) PROVE Inv'
<1> DEFINE r == requests[q]
<1>1. r.pc = "loaded" /\ r.route.does = "remove" /\ Serves(r)
      BY DEF ServeRemoval
<1>2. r.target \in Things /\ r.route.ok \in Statuses
      BY UnderWay DEF Request, RouteOK
<1>3. CASE MayRemove(r.user, r.cookie, r.target)
  <2>1. /\ status' = [status EXCEPT ![r.target] = "closed"]
        /\ version' = [version EXCEPT ![r.target] = @ + 1]
        /\ Answer(q, r.route.ok, {}, {r.target})
        /\ UNCHANGED <<role, session>>
        BY <1>3 DEF ServeRemoval
  <2>2. /\ version' \in [Members -> Nat]
        /\ \A u \in Users : version'[u] \in Nat /\ version[u] <= version'[u]
        BY <2>1, VersionGrows DEF Inv
  <2>3. RowsAdvance /\ status' \in [Things -> {"absent", "active", "closed"}]
        BY <1>2, <2>1, <2>2 DEF RowsAdvance, Inv, TypeOK
  <2>4. requests' \in [Requests -> Request] /\ AllOK'
        BY <1>1, <1>2, <2>1, <2>3, ServiceAnswer
  <2>5. QED BY <2>1, <2>2, <2>3, <2>4 DEF Inv, TypeOK
<1>4. CASE ~MayRemove(r.user, r.cookie, r.target)
  <2>1. Refuse(q, 403) /\ 403 \in Statuses
        BY <1>4 DEF ServeRemoval, Statuses
  <2>2. QED BY <1>1, <2>1, ServiceRefusal
<1>5. QED BY <1>3, <1>4

LEMMA ServeRoleInv ==
    ASSUME Inv, NEW q \in Requests, NEW new \in Role, ServeRole(q, new)
    PROVE  Inv'
<1> DEFINE r == requests[q]
<1>1. /\ r.pc = "loaded" /\ r.route.does = "promote" /\ Serves(r)
      /\ role' = [role EXCEPT ![r.target] = new]
      /\ version' = [version EXCEPT ![r.target] = @ + 1]
      /\ Answer(q, r.route.ok, {r.target}, {r.target})
      /\ UNCHANGED <<status, session>>
      BY DEF ServeRole
<1>2. {r.target} \in SUBSET Things /\ r.route.ok \in Statuses
      BY UnderWay DEF Request, RouteOK
<1>3. /\ version' \in [Members -> Nat]
      /\ \A u \in Users : version'[u] \in Nat /\ version[u] <= version'[u]
      BY <1>1, VersionGrows DEF Inv
<1>4. RowsAdvance
      BY <1>1, <1>3 DEF RowsAdvance
<1>5. role' \in [Members -> Role]
      BY <1>1 DEF Inv, TypeOK
<1>6. requests' \in [Requests -> Request] /\ AllOK'
      BY <1>1, <1>2, <1>4, ServiceAnswer
<1>7. QED BY <1>1, <1>3, <1>5, <1>6 DEF Inv, TypeOK

-----------------------------------------------------------------------------
(* The theorems *)

LEMMA StepInv == ASSUME Inv, [Next]_vars PROVE Inv'
<1>1. CASE UNCHANGED vars
  <2>1. UNCHANGED <<rows, session, requests>>
        BY <1>1 DEF vars, rows
  <2>2. AllOK'
        BY <2>1, StillRows, AllUnmoved DEF Inv
  <2>3. QED BY <2>1, <2>2 DEF Inv, TypeOK, rows
<1>2. ASSUME NEW u \in Users, LogIn(u) \/ CompleteSignUp(u) PROVE Inv'
      BY <1>2, LogInInv, CompleteSignUpInv
<1>3. ASSUME NEW q \in Requests,
             Send(q) \/ RefuseSession(q) \/ Authenticate(q) \/ RefuseMalformed(q) \/ Prepare(q)
      PROVE  Inv'
      BY <1>3, SendInv, RefuseSessionInv, AuthenticateInv, RefuseMalformedInv, PrepareInv
<1>4. ASSUME NEW q \in Requests, Serve(q) PROVE Inv'
  <2>1. CASE RefuseMissing(q) \/ RefuseLimit(q) \/ RefuseByError(q) \/ FailAfterwards(q)
        BY <2>1, RefuseMissingInv, RefuseLimitInv, RefuseByErrorInv, FailAfterwardsInv
  <2>2. CASE \E answer \in Statuses : RefuseByRule(q, answer)
        BY <2>2, RefuseByRuleInv
  <2>3. CASE \/ ServeRead(q) \/ ServeUpdate(q) \/ ServeMark(q) \/ ServeClosing(q)
             \/ ServeCreation(q)
        BY <2>3, ServeReadInv, ServeUpdateInv, ServeMarkInv, ServeClosingInv, ServeCreationInv
  <2>4. CASE ServeAcceptance(q) \/ ServeRemoval(q)
        BY <2>4, ServeAcceptanceInv, ServeRemovalInv
  <2>5. CASE \E new \in Role : ServeRole(q, new)
        BY <2>5, ServeRoleInv
  <2>6. QED BY <1>4, <2>1, <2>2, <2>3, <2>4, <2>5 DEF Serve
<1>5. QED BY <1>1, <1>2, <1>3, <1>4 DEF Next

LEMMA Invariance == Spec => []Inv
<1>1. Inv /\ [Next]_vars => Inv'
      BY StepInv
<1>2. QED BY InitInv, <1>1, PTL DEF Spec

\* Every reachable state is well typed, whatever rows and users there are.
THEOREM TypeCorrect == Spec => []TypeOK
<1>1. Inv => TypeOK
      BY DEF Inv
<1>2. QED BY <1>1, Invariance, PTL

\* Tenants are isolated: whatever ids a request names, what it shows and what it
\* changes belongs to the organization of its sender, or is an invitation addressed
\* to them (the handlers and the organization every repository call is given).
THEOREM Isolation == Spec => []OwnOrganizationOnly
<1>1. Inv => OwnOrganizationOnly
      BY DEF Inv, AllOK, RequestOK, Own, Addressed, OwnOrganizationOnly
<1>2. QED BY <1>1, Invariance, PTL

\* A row of another organization looks like one that does not exist: the refusal of
\* a request for either depends on its cookie and its route alone.
THEOREM Indistinguishable == Spec => []ForeignLooksMissing
<1>1. Inv => ForeignLooksMissing
  <2> SUFFICES ASSUME Inv, NEW p \in Requests, NEW q \in Requests,
                      {requests[p].pc, requests[q].pc} = {"answered"},
                      Foreign(requests[p]), status[Loaded(requests[q].target)] = "absent",
                      requests[p].cookie = requests[q].cookie,
                      requests[p].route = requests[q].route,
                      requests[p].route.does # "accept"
               PROVE  \/ requests[p].answer = requests[q].answer
                      \/ {requests[p].answer, requests[q].answer} \cap {400, 401, 500} # {}
      BY DEF ForeignLooksMissing
  <2>1. requests[p].pc = "answered" /\ requests[q].pc = "answered"
        OBVIOUS
  <2>2. requests[p].answer \in {400, 401, 500, Verdict(requests[p])}
        BY <2>1 DEF Inv, AllOK, RequestOK, Alike, Hidden
  <2>3. requests[q].answer \in {400, 401, 500, Verdict(requests[q])}
        BY <2>1 DEF Inv, AllOK, RequestOK, Alike, Hidden
  <2>4. Verdict(requests[p]) = Verdict(requests[q])
        BY DEF Verdict, Permitted
  <2>5. CASE requests[p].answer \in {400, 401, 500}
        BY <2>5
  <2>6. CASE requests[q].answer \in {400, 401, 500}
        BY <2>6
  <2>7. QED BY <2>2, <2>3, <2>4, <2>5, <2>6
<1>2. QED BY <1>1, Invariance, PTL

\* A session that was revoked before its request was sent shows and changes nothing
\* (verifyInternalUserSession).
THEOREM RevokedNothing == Spec => []RevokedSessionsDoNothing
<1>1. Inv => RevokedSessionsDoNothing
      BY DEF Inv, AllOK, RequestOK, Stale, RevokedSessionsDoNothing
<1>2. QED BY <1>1, Invariance, PTL

-----------------------------------------------------------------------------
(* Every answer is documented *)

\* A status that a route may answer with.
Fits(answer, route) ==
    answer \in {400, 422} \/ <<answer, route.name>> \in Documented \cup Gaps

\* What the services answer fits, and so do the refusals before them, where they
\* can happen: 403 when something is authorized, 404 when a row is looked for that
\* may be missing.
RouteFits(route) ==
    /\ Fits(route.ok, route) /\ \A answer \in route.also : Fits(answer, route)
    /\ Fits(401, route) /\ Fits(500, route)
    /\ route.does # "accept" => Fits(403, route)
    /\ route.on # "organization" => Fits(404, route)
    /\ route.loads \/ route.does \in {"close", "erase", "remove", "accept"}
           => route.on # "organization"

\* The tables of a group of routes are all that its proof opens.
LEMMA DocsAreDocumented ==
    /\ OrganizationDocs \subseteq Documented /\ TeamDocs \subseteq Documented
    /\ InvitationDocs \subseteq Documented /\ MemberDocs \subseteq Documented
    /\ ProjectDocs \subseteq Documented /\ OneProjectDocs \subseteq Documented
    /\ ReviewerDocs \subseteq Documented /\ OneReviewerDocs \subseteq Documented
    /\ ItemDocs \subseteq Documented /\ WorkflowDocs \subseteq Documented
    /\ ChangesDocs \subseteq Documented /\ ActivityDocs \subseteq Documented
    /\ AttachmentDocs \subseteq Documented /\ OneAttachmentDocs \subseteq Documented
    /\ CommentDocs \subseteq Documented /\ OneCommentDocs \subseteq Documented
    /\ NotificationDocs \subseteq Documented
BY DEF Documented

LEMMA RoutesFit == \A route \in Routes : RouteFits(route)
<1> USE DocsAreDocumented DEF RouteFits, Fits, Gaps
<1>1. \A route \in OrganizationRoutes : RouteFits(route)
      BY DEF OrganizationRoutes, OrganizationDocs
<1>2. \A route \in TeamRoutes : RouteFits(route)
      BY DEF TeamRoutes, TeamDocs, MemberDocs
<1>3. \A route \in InvitationRoutes : RouteFits(route)
      BY DEF InvitationRoutes, TeamDocs, InvitationDocs
<1>4. \A route \in ProjectRoutes : RouteFits(route)
      BY DEF ProjectRoutes, ProjectDocs, OneProjectDocs
<1>5. \A route \in ReviewerRoutes : RouteFits(route)
      BY DEF ReviewerRoutes, ReviewerDocs, OneReviewerDocs
<1>6. \A route \in ItemRoutes : RouteFits(route)
      BY DEF ItemRoutes, ItemDocs, ChangesDocs, ActivityDocs
<1>7. \A route \in WorkflowRoutes : RouteFits(route)
      BY DEF WorkflowRoutes, WorkflowDocs, ChangesDocs
<1>8. \A route \in AttachmentRoutes : RouteFits(route)
      BY DEF AttachmentRoutes, ActivityDocs, AttachmentDocs, OneAttachmentDocs
<1>9. \A route \in CommentRoutes : RouteFits(route)
      BY DEF CommentRoutes, CommentDocs, OneCommentDocs
<1>10. \A route \in NotificationRoutes : RouteFits(route)
      BY DEF NotificationRoutes, NotificationDocs
<1> HIDE DEF RouteFits
<1>11. QED
      BY <1>1, <1>2, <1>3, <1>4, <1>5, <1>6, <1>7, <1>8, <1>9, <1>10 DEF Routes

\* No route deletes an organization, and a request that names none of its own
\* choice is about the one of its sender.
OrganizationsStay ==
    \A x \in Things \ Absent : Kind[x] = "organization" => status[x] = "active"
AtHome(r) ==
    r.pc # "unsent" /\ r.route.on = "organization" => Org[r.target] = Org[r.user]
AllAtHome == \A q \in Requests : AtHome(requests[q])

DocsInv == OrganizationsStay /\ AllAtHome /\ AnswersAreDocumented

LEMMA Fitting ==
    ASSUME Inv, NEW q \in Requests
    PROVE  requests[q] \in Request /\ RouteFits(requests[q].route)
BY RoutesFit DEF Inv, TypeOK, Request

\* An answer that fits keeps the requests in order.
LEMMA FittingAnswer ==
    ASSUME Inv, DocsInv, NEW q \in Requests, NEW a \in Statuses,
           NEW shown \in SUBSET Things, NEW changed \in SUBSET Things,
           Answer(q, a, shown, changed), requests[q].pc # "unsent",
           Fits(a, requests[q].route)
    PROVE  AllAtHome' /\ AnswersAreDocumented'
<1> DEFINE r == requests[q]  n == requests'[q]
<1>1. /\ \A p \in Requests \ {q} : requests'[p] = requests[p]
      /\ n.answer = a /\ n.user = r.user /\ n.route = r.route /\ n.target = r.target
      BY Answered DEF Inv
<1>2. AllAtHome'
      BY <1>1 DEF DocsInv, AllAtHome, AtHome
<1>3. AnswersAreDocumented'
      BY <1>1 DEF DocsInv, AnswersAreDocumented, Fits
<1>4. QED BY <1>2, <1>3

LEMMA FittingRefusal ==
    ASSUME Inv, DocsInv, NEW q \in Requests, NEW a \in Statuses, Refuse(q, a),
           requests[q].pc # "unsent", Fits(a, requests[q].route)
    PROVE  DocsInv'
<1>1. AllAtHome' /\ AnswersAreDocumented'
      BY FittingAnswer DEF Refuse
<1>2. OrganizationsStay'
      BY DEF Refuse, rows, DocsInv, OrganizationsStay
<1>3. QED BY <1>1, <1>2 DEF DocsInv

\* A request that goes on answers nothing.
LEMMA FittingTo ==
    ASSUME Inv, DocsInv, NEW q \in Requests, NEW pc \in {"accepted", "loaded"}, To(q, pc),
           requests[q].pc # "unsent"
    PROVE  DocsInv'
<1> DEFINE r == requests[q]  n == requests'[q]
<1>1. /\ \A p \in Requests \ {q} : requests'[p] = requests[p]
      /\ n.pc = pc /\ n.user = r.user /\ n.route = r.route /\ n.target = r.target
  <2>1. r \in Request /\ requests \in [Requests -> Request]
        BY DEF Inv, TypeOK
  <2>2. QED BY <2>1 DEF To, Request
<1>2. AllAtHome' /\ AnswersAreDocumented'
      BY <1>1 DEF DocsInv, AllAtHome, AtHome, AnswersAreDocumented
<1>3. OrganizationsStay'
      BY DEF To, rows, DocsInv, OrganizationsStay
<1>4. QED BY <1>2, <1>3 DEF DocsInv

\* A row that is no organization may be closed, and any may be inserted.
LEMMA OrganizationsKept ==
    ASSUME Inv, OrganizationsStay, NEW x \in Things, NEW state,
           status' = [status EXCEPT ![x] = state],
           state = "active" \/ Kind[x] # "organization"
    PROVE  OrganizationsStay'
BY DEF Inv, TypeOK, OrganizationsStay

\* The organization of a session is always found.
LEMMA OwnOrganizationFound ==
    ASSUME Inv, DocsInv, NEW q \in Requests, requests[q].pc # "unsent",
           requests[q].route.on = "organization", requests[q].route.does # "accept"
    PROVE  Serves(requests[q])
<1> DEFINE r == requests[q]
<1>1. r \in Request /\ Kind[r.target] = "organization"
      BY UnderWay DEF RequestOK, Placed
<1>2. Org[r.target] = Org[r.user]
      BY DEF DocsInv, AllAtHome, AtHome
<1>3. r.target \in Things \ Absent
      BY <1>1, <1>2, OrganizationsAssumption DEF Request
<1>4. status[r.target] = "active"
      BY <1>1, <1>3 DEF DocsInv, OrganizationsStay
<1>5. QED BY <1>1, <1>2, <1>4 DEF Serves, Found, Find

LEMMA SendDocs == ASSUME Inv, DocsInv, NEW q \in Requests, Send(q) PROVE DocsInv'
<1> DEFINE n == requests'[q]
<1>1. PICK u \in Users, route \in Routes : \E x \in {y \in Things : Kind[y] = route.on} :
           /\ route.on = "organization" => Org[x] = Org[u]
           /\ requests' = [requests EXCEPT ![q] =
                  [pc |-> "sent", user |-> u, cookie |-> session[u], route |-> route,
                   target |-> x, revoked |-> Revoked(u),
                   answer |-> 0, shown |-> {}, changed |-> {}]]
      BY DEF Send
<1>2. PICK x \in Things :
           /\ route.on = "organization" => Org[x] = Org[u]
           /\ requests' = [requests EXCEPT ![q] =
                  [pc |-> "sent", user |-> u, cookie |-> session[u], route |-> route,
                   target |-> x, revoked |-> Revoked(u),
                   answer |-> 0, shown |-> {}, changed |-> {}]]
      BY <1>1
<1>3. /\ \A p \in Requests \ {q} : requests'[p] = requests[p]
      /\ n.pc = "sent" /\ n.user = u /\ n.route = route /\ n.target = x
      BY <1>2 DEF Inv, TypeOK
<1>4. AllAtHome' /\ AnswersAreDocumented'
      BY <1>2, <1>3 DEF DocsInv, AllAtHome, AtHome, AnswersAreDocumented
<1>5. OrganizationsStay'
      BY DEF Send, rows, DocsInv, OrganizationsStay
<1>6. QED BY <1>4, <1>5 DEF DocsInv

\* What happens to a request before its service.
LEMMA EntranceDocs ==
    ASSUME Inv, DocsInv, NEW q \in Requests,
           RefuseSession(q) \/ Authenticate(q) \/ RefuseMalformed(q) \/ Prepare(q)
    PROVE  DocsInv'
<1> DEFINE r == requests[q]
<1>1. RouteFits(r.route) /\ {400, 401, 403, 404} \subseteq Statuses
      BY Fitting DEF Statuses
<1>2. CASE RefuseSession(q)
      BY <1>1, <1>2, FittingRefusal DEF RefuseSession, RouteFits
<1>3. CASE Authenticate(q)
  <2>1. \/ To(q, "accepted")
        \/ r.route.does # "accept" /\ Refuse(q, 403)
        BY <1>3 DEF Authenticate
  <2>2. r.pc = "sent"
        BY <1>3 DEF Authenticate
  <2>3. QED BY <1>1, <2>1, <2>2, FittingRefusal, FittingTo DEF RouteFits
<1>4. CASE RefuseMalformed(q)
  <2>1. r.pc = "accepted" /\ Refuse(q, 400) /\ Fits(400, r.route)
        BY <1>4 DEF RefuseMalformed, Fits
  <2>2. QED BY <1>1, <2>1, FittingRefusal
<1>5. CASE Prepare(q)
  <2>1. \/ To(q, "loaded")
        \/ r.route.loads /\ Refuse(q, 404)
        \/ r.route.does # "accept" /\ Refuse(q, 403)
        BY <1>5 DEF Prepare, Allowed
  <2>2. r.pc = "accepted"
        BY <1>5 DEF Prepare
  <2>3. QED BY <1>1, <2>1, <2>2, FittingRefusal, FittingTo DEF RouteFits
<1>6. QED BY <1>2, <1>3, <1>4, <1>5

LEMMA ServiceRefusalDocs ==
    ASSUME Inv, DocsInv, NEW q \in Requests,
           \/ RefuseMissing(q) \/ RefuseLimit(q) \/ RefuseByError(q)
           \/ \E answer \in Statuses : RefuseByRule(q, answer)
    PROVE  DocsInv'
<1> DEFINE r == requests[q]
<1>1. RouteFits(r.route) /\ {404, 422, 500} \subseteq Statuses
      BY Fitting DEF Statuses
<1>2. CASE RefuseMissing(q)
  <2>1. r.pc = "loaded" /\ ~Serves(r) /\ (Refuse(q, 404) \/ Refuse(q, 422))
        BY <1>2 DEF RefuseMissing
  <2>2. r.route.on # "organization"
    <3>1. r.route.does = "accept" => r.route.on # "organization"
          BY <1>1 DEF RouteFits
    <3>2. QED BY <2>1, <3>1, OwnOrganizationFound
  <2>3. Fits(404, r.route) /\ Fits(422, r.route)
        BY <1>1, <2>2 DEF RouteFits, Fits
  <2>4. QED BY <1>1, <2>1, <2>3, FittingRefusal
<1>3. CASE RefuseLimit(q)
      BY <1>1, <1>3, FittingRefusal DEF RefuseLimit, RouteFits
<1>4. CASE RefuseByError(q)
      BY <1>1, <1>4, FittingRefusal DEF RefuseByError, RouteFits
<1>5. CASE \E answer \in Statuses : RefuseByRule(q, answer)
  <2>1. PICK answer \in Statuses : RefuseByRule(q, answer)
        BY <1>5
  <2>2. r.pc = "loaded" /\ answer \in r.route.also /\ Refuse(q, answer)
        BY <2>1 DEF RefuseByRule
  <2>3. Fits(answer, r.route)
        BY <1>1, <2>2 DEF RouteFits
  <2>4. QED BY <2>2, <2>3, FittingRefusal
<1>6. QED BY <1>2, <1>3, <1>4, <1>5

\* A service that answers in the end.
LEMMA ServiceDocs ==
    ASSUME Inv, DocsInv, NEW q \in Requests,
           \/ ServeRead(q) \/ ServeUpdate(q) \/ ServeMark(q) \/ ServeClosing(q)
           \/ ServeCreation(q) \/ FailAfterwards(q)
           \/ ServeAcceptance(q) \/ ServeRemoval(q)
           \/ \E new \in Role : ServeRole(q, new)
    PROVE  DocsInv'
<1> DEFINE r == requests[q]
           Served(shown, changed) == Answer(q, r.route.ok, shown, changed)
<1>1. RouteFits(r.route) /\ {403, 422, 500} \subseteq Statuses
      BY Fitting DEF Statuses
<1>2. r \in Request /\ r.route.ok \in Statuses /\ RequestOK(r)
      BY UnderWay DEF RouteOK
<1>3. Fits(r.route.ok, r.route) /\ Fits(422, r.route) /\ Fits(500, r.route)
      BY <1>1 DEF RouteFits, Fits
<1>4. r.pc = "loaded"
      BY DEF ServeRead, ServeUpdate, ServeMark, ServeClosing, ServeCreation, FailAfterwards,
             ServeAcceptance, ServeRemoval, ServeRole
<1>5. r.target \in Things /\ Kind[r.target] = r.route.on
      BY <1>2, <1>4 DEF Request, RequestOK, Placed
\* An answer that leaves the rows of organizations alone.
<1>6. ASSUME NEW a \in Statuses, Fits(a, r.route),
             NEW shown \in SUBSET Things, NEW changed \in SUBSET Things,
             Answer(q, a, shown, changed),
             \/ UNCHANGED status
             \/ \E x \in Things, state \in {"active", "closed"} :
                   /\ status' = [status EXCEPT ![x] = state]
                   /\ state = "active" \/ Kind[x] # "organization"
      PROVE  DocsInv'
  <2>1. AllAtHome' /\ AnswersAreDocumented'
        BY <1>4, <1>6, FittingAnswer
  <2>2. OrganizationsStay'
        BY <1>6, OrganizationsKept DEF DocsInv, OrganizationsStay
  <2>3. QED BY <2>1, <2>2 DEF DocsInv
<1>7. CASE ServeRead(q)
  <2>1. Shown(r.route, r.user, r.target) \in SUBSET Things
        BY <1>5 DEF Shown, OwnNotifications, OfOrganization, Below, Active
  <2>2. QED BY <1>2, <1>3, <1>6, <1>7, <2>1 DEF ServeRead, rows
<1>8. CASE ServeUpdate(q)
      BY <1>2, <1>3, <1>5, <1>6, <1>8 DEF ServeUpdate, rows
<1>9. CASE ServeMark(q)
  <2>1. CASE Of[r.target] = r.user
        BY <1>2, <1>3, <1>5, <1>6, <1>9, <2>1 DEF ServeMark, rows
  <2>2. CASE Of[r.target] # r.user
    <3>1. Refuse(q, 403) /\ r.route.does # "accept"
          BY <1>9, <2>2 DEF ServeMark
    <3>2. QED BY <1>1, <1>4, <3>1, FittingRefusal DEF RouteFits
  <2>3. QED BY <2>1, <2>2
<1>10. CASE ServeClosing(q)
  <2>1. r.route.on # "organization"
        BY <1>1, <1>10 DEF ServeClosing, RouteFits
  <2>2. /\ status' = [status EXCEPT ![r.target] = "closed"]
        /\ Answer(q, r.route.ok, {}, {r.target})
        BY <1>10 DEF ServeClosing
  <2>3. QED BY <1>2, <1>3, <1>5, <1>6, <2>1, <2>2
<1>11. CASE ServeCreation(q)
  <2>1. PICK y \in Things : /\ status' = [status EXCEPT ![y] = "active"]
                            /\ Answer(q, r.route.ok, {y}, {y})
        BY <1>11 DEF ServeCreation
  <2>2. QED BY <1>2, <1>3, <1>6, <2>1
<1>12. CASE FailAfterwards(q)
  <2>1. /\ Answer(q, 500, {}, {r.target})
        /\ \/ UNCHANGED status
           \/ r.route.does = "erase" /\ status' = [status EXCEPT ![r.target] = "closed"]
        BY <1>12 DEF FailAfterwards
  <2>2. r.route.does = "erase" => r.route.on # "organization"
        BY <1>1 DEF RouteFits
  <2>3. QED BY <1>1, <1>3, <1>5, <1>6, <2>1, <2>2
<1>13. CASE ServeAcceptance(q)
  <2>1. r.route.on # "organization"
        BY <1>1, <1>13 DEF ServeAcceptance, RouteFits
  <2>2. \/ /\ status' = [status EXCEPT ![r.target] = "closed"]
           /\ Answer(q, r.route.ok, {}, {r.target})
        \/ Refuse(q, 500) \/ Refuse(q, 422)
        BY <1>13 DEF ServeAcceptance
  <2>3. CASE Refuse(q, 500) \/ Refuse(q, 422)
        BY <1>1, <1>3, <1>4, <2>3, FittingRefusal
  <2>4. CASE /\ status' = [status EXCEPT ![r.target] = "closed"]
             /\ Answer(q, r.route.ok, {}, {r.target})
        BY <1>2, <1>3, <1>5, <1>6, <2>1, <2>4
  <2>5. QED BY <2>2, <2>3, <2>4
<1>14. CASE ServeRemoval(q)
  <2>1. r.route.on # "organization" /\ r.route.does # "accept"
        BY <1>1, <1>14 DEF ServeRemoval, RouteFits
  <2>2. \/ /\ status' = [status EXCEPT ![r.target] = "closed"]
           /\ Answer(q, r.route.ok, {}, {r.target})
        \/ Refuse(q, 403)
        BY <1>14 DEF ServeRemoval
  <2>3. CASE Refuse(q, 403)
        BY <1>1, <1>4, <2>1, <2>3, FittingRefusal DEF RouteFits
  <2>4. CASE /\ status' = [status EXCEPT ![r.target] = "closed"]
             /\ Answer(q, r.route.ok, {}, {r.target})
        BY <1>2, <1>3, <1>5, <1>6, <2>1, <2>4
  <2>5. QED BY <2>2, <2>3, <2>4
<1>15. ASSUME NEW new \in Role, ServeRole(q, new) PROVE DocsInv'
      BY <1>2, <1>3, <1>5, <1>6, <1>15 DEF ServeRole
<1>16. QED
      BY <1>7, <1>8, <1>9, <1>10, <1>11, <1>12, <1>13, <1>14, <1>15

LEMMA DocsStep == ASSUME Inv, DocsInv, [Next]_vars PROVE DocsInv'
<1>1. ASSUME UNCHANGED <<status, requests>> PROVE DocsInv'
      BY <1>1 DEF DocsInv, OrganizationsStay, AllAtHome, AtHome, AnswersAreDocumented
<1>2. CASE UNCHANGED vars
      BY <1>1, <1>2 DEF vars
<1>3. CASE \E u \in Users : LogIn(u) \/ CompleteSignUp(u)
      BY <1>1, <1>3 DEF LogIn, CompleteSignUp, rows
<1>4. ASSUME NEW q \in Requests,
             Send(q) \/ RefuseSession(q) \/ Authenticate(q) \/ RefuseMalformed(q) \/ Prepare(q)
      PROVE  DocsInv'
      BY <1>4, SendDocs, EntranceDocs
<1>5. ASSUME NEW q \in Requests, Serve(q) PROVE DocsInv'
      BY <1>5, ServiceRefusalDocs, ServiceDocs DEF Serve
<1>6. QED BY <1>2, <1>3, <1>4, <1>5 DEF Next

\* Whatever the rows and the users are and in whatever order requests interleave,
\* no answer has a status that the published description, or the list of its known
\* gaps, does not name for the route (ErrorService; buildOpenAPISpec).
THEOREM AnswersDocumented == Spec => []AnswersAreDocumented
<1>1. Init => DocsInv
  <2> SUFFICES ASSUME Init PROVE DocsInv
      OBVIOUS
  <2>1. \A q \in Requests : requests[q].pc = "unsent"
        BY DEF Init, Unsent
  <2>2. QED BY <2>1 DEF Init, DocsInv, OrganizationsStay, AllAtHome, AtHome,
                        AnswersAreDocumented
<1>2. Inv /\ DocsInv /\ [Next]_vars => DocsInv'
      BY DocsStep
<1>3. DocsInv => AnswersAreDocumented
      BY DEF DocsInv
<1>4. QED BY <1>1, <1>2, <1>3, Invariance, PTL DEF Spec
=============================================================================
