# A verification project for campaign-approval

campaign-approval is a multi-tenant service in which an agency's team uploads
creative work, sends it to external reviewers, and collects their approvals.
It is a TypeScript API on AWS Lambda (`src/api`) over PostgreSQL (Prisma), with
an SQS queue and worker Lambdas for e-mail and reminders, Cognito for
identities, and a Next.js client (`src/client`).

This directory holds TLA+ models of the API's state machines, TLC
configurations that check them on small instances, and TLAPS proofs of their
main properties for every value of the constants. The code is the reference;
`PROJECT.json` maps each definition to the lines it models.

Run a check with `tlc -config X.cfg MCX.tla` and a proof with
`tlapm X_proofs.tla`; the proofs about `InvitationEmail` and `Reminders`, the two
workers, are in `Workers_proofs`.

## 1. Inventory

There is no long-lived server process. Every HTTP request is a Lambda
invocation that runs a handful of database statements; requests run in
parallel, may be cut off by a timeout between any two statements, and share
nothing but PostgreSQL (READ COMMITTED, Prisma's default), the cookies they
hand out, and the queue. What is hard in this code is therefore what happens
between two statements.

| Component | State | Operations | Hard part | What makes it correct |
| --- | --- | --- | --- | --- |
| Review workflow (`review-workflow.service.ts`, `lib/fsm`) | `review_items` row: status, version, archivedAt; activity log | send, approve, request changes, archive | status chosen before the transaction, optimistic lock in it, log and notifications in the same transaction | one decision per version, a connected log on the map as long as no client is ahead of the item, nothing on archived items |
| Attachments (`attachment.service.ts`) | `attachments`, S3 keys with clients | presign (may raise the version), confirm, delete | three requests that interleave with the workflow of the same item; the version is parsed from a key | a key never runs ahead of the item's version |
| Invitation e-mails (`invitation.service.ts`, `sqs.service.ts`, `email.worker.ts`) | invitation, notification (`sentAt`), queue, batches in flight | invite, enqueue, process a batch, redrive | at-least-once delivery, batches fail as a whole, provider answers get lost | `sentAt` and deletion imply an e-mail, bounded duplicates, the queue drains |
| Team and sessions (`organization.service.ts`, `lib/auth`) | `users` rows: role, archivedAt, sessionVersion; signed cookies | login, sign-up by invitation, logout, onboarding, change of role, removal | sessions carry the role; checks precede writes | a session accepted is a session that tells the truth; revocation and removal are final; an owner remains |
| Projects (`project.service.ts`, `review-item.service.ts`) | `projects`, `review_items` | create, rename, archive; create and archive items | uniqueness and emptiness are checked by queries that nothing holds | few namesakes; an archived project closes |
| Reviewers (`project.service.ts`, `invitation.service.ts`, `actor-resolution.service.ts`) | `reviewers`, `project_reviewers`, invitations, sessions | invite, accept, log in, remove | three tables, three kinds of request, one story | links, invitations and reviewers agree; removal is final |
| Notifications (`notification.service.ts`, `workflow-events/`) | `notifications` with an idempotency key | create for an event, mark as read, list | a recipient that is refused rolls back what wanted to notify it | an action that passed its checks takes effect |
| Comments (`comment.service.ts`) | `comments`, activity log | add, delete, list | deletion runs outside the transaction that logs it; handler and service check at different moments | the log tells the truth, only who may deletes |
| Review reminders (`review-reminder.worker.ts`) | `lastReminderSentAt`, activity log | hourly run | runs overlap, per-item failures are swallowed, lists and cutoffs grow old | mark and log entry together, reminders spaced, each item gets its turn |
| Pagination (`lib/pagination`) | none | pages by cursor | rows that come and go between pages, equal times, full last pages | no row twice, none lost |
| The way of a request (`lib/router`, `lib/handlers`, `lib/auth`, `lib/validation`, `lib/errors`, the handlers) | cookies; every table | 32 routes behind a session | some handlers load a row before they authorize, some after; ids of other tenants; sessions revoked while requests are under way | tenants stay apart and cannot probe each other; documented answers |
| OpenAPI generator (`lib/openapi`) | none | one status table per route | statuses are decided far from it | agrees with the answers |
| Cognito and the handlers under `/auth` (`cognito.service.ts`, `handlers/auth.ts`) | account in the user pool, first organization, cookies | sign up, verify, log in, onboard, log out, passwords | two services without a common transaction; lost answers; first logins race | one organization each; logout ends every session |
| Web client (`src/client`: session query, its channel between tabs, gate, middleware, pages under `(auth)`) | page and query of each tab | submit, redirect, refetch, broadcast | tabs share cookies but not query clients, and tell each other of a 401 | everyone gets in at last |
| Terraform | queue and schedule settings | | | constants of the models, see section 8 |

The components interact through the database only, with two exceptions: the
workflow calls the notification code inside its transaction (so that a refused
recipient undoes a decision), and invitations put a job on the queue after
their commit.

## 2. Plan

The order is that of importance to the product: the workflow first, then what
leaves the system (e-mail), then who may use it.

1. `ReviewLifecycle`, `ReviewItem`, `ReviewItem_proofs` - done.
2. `InvitationEmail` and its proofs - done.
3. `SessionTable`, `Membership`, `Membership_proofs` - done.
4. `Projects`, `ReviewerAccess` and their proofs - done.
5. `Pagination`, `Comments` and their proofs - done. Pages turned out to be
   best stated as sets under an order, not as a recursion over a sequence: the
   database has no sequence, and the lemmas about pages are provable then.
6. `Reminders` and its proofs - done.
7. `Routes`, `ApiDocs`, `Requests` and the proofs that tenants stay apart and
   that answers are documented - done. This is the composition of all endpoints: what the other modules take
   apart into statements is one step there.
8. `SignIn`: Cognito, the handlers under `/auth` and the client's tabs, and its
   proofs - done.
9. A module of its own for notifications (rounds, idempotency keys, jobs after
   the commit) was planned and is not written: every recipient of an event is
   refused before a row is inserted (run `workflow_recipients`), so that its
   states are not reachable.
10. Left: reviewers as actors of `Requests` and their onboarding, should the
    session of a reviewer ever be accepted (theorem `RefusedForGood`).
11. Left to prove: abstract specifications of a reviewer's membership in a
    project and of the delivery of an invitation, which `ReviewerAccess` and
    `InvitationEmail` would implement; so far their promises are invariants
    and action properties.

## 3. Modules

Every model treats a request as its database statements. A read is an action
that puts what it read into a record of the request; a conditional update, with
what follows it up to COMMIT, is one action, because the row stays locked and
nobody sees the rest before COMMIT. `Abandon` removes a request at any point:
an error, a lost response, a Lambda timeout. Ids of requests bound how many are
in flight at a time, never how many there are.

Every module ends with the properties it is checked against. Where a mistake
in the code is easy to imagine, a `faulty variant` of the action stands before
it; no specification uses these, they serve to see that a property can fail.

### ReviewLifecycle and ReviewItem

`ReviewLifecycle` is the promise: four atomic actions on status, version and
archived. `ReviewItem` is the code.

| Code | Model |
| --- | --- |
| row of `review_items` | `item` |
| rows of `attachments`, keys that clients hold | `attachments`, `issued` |
| activity log entries of the workflow | `log` |
| users, linked reviewers | `users`, `reviewers` |
| `applyWorkflowAction`, up to the transaction | `LoadDecision` |
| `executeTransition`: reload, version and attachment checks | `CheckDecision` |
| `updateMany`, log, notifications, COMMIT | `CommitDecision` |
| `generatePresignedUpload`, `incrementVersionIfNeeded` | `LoadUpload`, `CheckUpload`, `CommitUpload` |
| `confirmUpload`, `deleteAttachment` | `LoadConfirmation`, `CommitConfirmation`, `LoadDeletion`, `CommitDeletion` |
| `archiveReviewItem` | `ArchiveReviewItem` |

Two details of the code are kept on purpose. The version of a confirmed file is
parsed from the random tail of its key (`parts[4]`, while the version is
`parts[3]`), so `LeadingInt` gives what `parseInt` makes of each tail. And
`validateRecipientInvariant` wants exactly one identifying field, so a
recipient is the set of its fields.

A body may name any `expectedVersion`: the schema takes every positive one, and
nothing compares it with the version that was loaded. A client that is *ahead* -
it names a version the item did not have yet when its request read it - may have
an edge that was chosen on one status applied to the next. The model has these
clients. `ahead` remembers the versions they take (a variable for the
properties: no action of the code reads it), and the promise has an action of its
own for them, `DecideAhead`, which leaves the map but still takes one version,
respects the archiving, and leaves a draft by sending it only. So the log and
the refinement hold for every client, and say exactly where the map is given up.

The body of a confirmation may name any key as well: `ConfirmableKeys` are those
that were issued and some that a client makes up (`MadeUp`).

### InvitationEmail

The request (`InviteReviewer` or `InviteUser` and `StoreNotification`, then
`EnqueueEmailJob` or `GiveUp`), the queue (`Receive`, `DeadLetter`) and the
worker (`CheckNotification`, `SendEmail`, `MarkAsSent`, `Settle`, `TimeOut`).
SQS and the provider are external; they are modelled from `sqs.service.ts`, the
worker, and the Terraform modules that set batch size, visibility timeout and
redrive policy. The provider may accept an e-mail whose answer is lost.
`Messages` are the SQS messages that may ever be made: the SDK retries a
`SendMessage` whose answer is lost, and stops retrying (`RetriesAssumption`).

### SessionTable and Membership

`SessionTable` is the promise: the server keeps a table with the session of each
browser, a session says what its user's row says, and every change of a row
deletes the sessions of its user everywhere. The code has no such table.
`Membership` is the code; it maps to the promise by what is in force
(`InForce`): the cookies whose user is here and has their version, without the
version. `SignIn` implements the same module, for the browsers of one person:
there, requests are taken apart into the steps of the handlers, and answers
take time to arrive or get lost. That a session says what its row says
(`SessionsStayFresh`) and that nobody comes back (`RemovalIsFinal`) follow from
the table and are proved as theorems, but not checked by the run.

A row of `users` per account, invitations, a cookie per browser, requests
after authentication, and first logins that accept an invitation. `Authenticate`
is `AuthService.authenticate` with the rules of `rbac-policies.ts`; from then
on the request works with the role of the cookie, as the handlers do.
`countActiveOwnersWithLock` is `SELECT COUNT(*) ... FOR UPDATE`, which
PostgreSQL refuses: `DemotionCounted` says that an owner is never demoted.

### Projects

The rows of projects and items, and requests that are let in by a query
(`CheckNewName`, `LoadProject`, `LoadForArchive`, `LoadForItem`), perhaps check
again (`CheckName`, `CountItems`), and write (`CreateProject`, `UpdateProject`,
`ArchiveProject`, `CreateReviewItem`). The queries go through the shared
client or run at READ COMMITTED, and no index keeps names unique.
`UpdateProject` has no condition on `archivedAt`, like the code. Names are
model values: trimming and case are gone.

### ReviewerAccess

Invitations, links and reviewers of several projects. A person is an e-mail
address with its account; `users` are the people who have a row in `users` of
whatever organization. An acceptance is one transaction over three tables,
which the unique indexes may roll back. A removal keeps its transaction open
between the update of the link and COMMIT (`CountLinks`, `RemoveReviewer`),
because two removals each count the links that the other has not committed.
Onboarding, logout and every other request of a reviewer are missing from
`Next`: `verifyReviewerSession` accepts no session that the code can issue
(theorem `RefusedForGood`), so they cannot happen.

### Pagination and Comments

`Pagination` has no state: `Beyond` is `createCursorWhereCondition`, `Take` is
`findMany` with `take: limit + 1` and the `slice` after it, `NextCursor` is
`determineNextCursor`. A cursor is the set of the row it was made from, empty
for the first page.

`Comments` is one item with its comments. Adding is one transaction
(`InsertComment`, `CommitComment`; a comment is "open" in between and seen by
nobody else). Deleting is not: `deleteScoped` uses the shared client, so that
`DeleteRow` commits by itself and `LogDeletion` is another step, which
`Abandon` may keep from happening. `createdAt` is taken at the insertion, not
at the commit; a comment may therefore appear behind a cursor, which is why
`WalksAreComplete` speaks of comments that were there all along. `walk` is one
client that reads page after page.

### Reminders

Runs of the worker on the items of one organization. `StartRun` reads settings,
cutoff and eligible items; `Remind`, `FailItem` and `SkipItem` are the
transaction of one item with its three outcomes; `Crash` stops a run between
two of them, as often as it likes: every run may be stopped by the timeout of its
Lambda, since the list has no bound. Times are ages in ticks, capped where nothing tells older from
older. `system` says whether a row with the id `system` exists in `users`: the
log entry names it as its actor, and a foreign key refuses it otherwise.
`Touch`, `ArchiveItem`, `UpdateSettings` and `ReviewersChange` are the rest of
the system.

### Routes, ApiDocs and Requests

`Routes` has one record for each handler behind a session (what it loads and
when, which action it authorizes, what it does to which table) and the rules of
`rbac-policies.ts`. `ApiDocs` has the statuses of `buildOpenAPISpec`.
`Requests` takes a request through session check, onboarding guard, validation,
the handler's load, authorization and the service, one step each, over the rows
of several organizations. Services that other modules take apart are one step;
what they may refuse with is in the route (`also`). A session is a cookie, so
its role may be out of date. `LogIn` and `CompleteSignUp` renew it.

### SignIn

One person: account in the pool, row in `users`, cookies of the browsers, and
several tabs. A call to `/auth` runs in steps (`ConfirmSignUp`, `Login`,
`CreateSession`; `Authenticate`, `CompleteSignUp`, `LogOut`, ...), because
Cognito and PostgreSQL do not commit together. A tab has a page, the data of its
session query, and whether the query was removed by a message of another tab
(`Told`): `queryClient.clear()` keeps what is shown, gives up the fetch, and
nothing renders the component again. `Fresh` and `Enter` tell a mount of a new
layout, with a query client of its own, from a navigation within one. Whatever
goes wrong, on purpose or not, is a misstep, and their number is bounded.

## 4. Runs

Runs that pass:

| Run | Instance | Distinct states | What it shows |
| --- | --- | --- | --- |
| `review_item` | 2 requests at a time, 1 user, 1 reviewer, one issued key tail (it begins with a digit) and one made up, 4 versions, any `expectedVersion` | 3,421,600 | what a request read stays true as long as the version is the one it read, and no key runs ahead of the item (`RequestsStayFresh`); the log is one connected history that leaves the map only where a client was ahead (`AuditTrail`); no decision on an archived item; the interleaved requests implement `ReviewLifecycle` |
| `invitation_email` | 2 invitations, 3 messages (one job twice in the queue), 2 invocations, batches of 2, 2 receives | 126,500 | no job overtakes its notification; deletion implies an e-mail; a settled invitation is silent; nobody is sent more e-mails than the receipts of their messages; every message leaves the queue |
| `membership` | founder and one account, 1 browser, 2 requests at a time, 3 session versions, 2 invitations | 3,333,380 | cookies with versions implement `SessionTable`, so that accepted sessions tell the truth, every change ends them, and removal is final; one invitation, one member; a change of role never takes the last owner away |
| `projects` | 3 projects, 2 names, 2 items, 2 requests at a time | 59,981 | the race in the check of a name yields at most as many namesakes as there are requests at a time; an archived project gets no items but from requests that saw it active |
| `reviewer_access` | 2 projects, 2 people, 2 requests at a time, 3 session versions | 1,031,838 | links, invitations and reviewers agree; a removal is final |
| `comments` | an owner, a member, a reviewer, 2 requests at a time, 2 comments on 2 instants, pages of one | 6,823,632 | pages neither lose nor repeat a comment; the log tells the truth about comments although deletion and log do not commit together; only who may deletes |
| `reminders` | 2 items, 2 overlapping runs, an interval of one tick, runs of up to one tick, stopped at any time | 239,264 | mark and log entry are one; reminders keep their distance from each other and from changes; while runs reach the end of their lists, an item stays due only by failing itself, turn after turn (`ItemsGetTheirTurn`) |
| `requests` | 2 requests over all 32 routes, 2 users with changing roles, another organization, ids that lead to no row, faults | 1,975,476 | nothing of another organization is shown or changed; its rows cannot be told from missing ones; a revoked session does nothing; every answer has a documented status or a known gap |
| `sign_in` | 2 tabs in one browser or in two, 2 passwords, 2 missteps | 771,721 | one organization for each account; cookies implement `SessionTable`; a logout ends every session, those on their way included; after the last misstep each tab gets to the dashboard and stays there |

Runs that end in a counterexample, each against a sentence of the repository:

| Run | Sentence | What happens |
| --- | --- | --- |
| `workflow_recipients` | a recipient needs one identifying field at least (`notification.service.ts:297`, `:323`) | every resolved recipient has two, `validateRecipientInvariant` refuses it inside the transaction, and the send, approval or request for changes is rolled back |
| `last_owner` | "Cannot remove the last OWNER from the organization" | two owners leave, or remove each other, at the same time |
| `read_item` | "Retrieve a specific review item by ID", 200 "Review item details" (`openapi.builder.ts:1094`) | the version history is read with limit 1000, which the shared pagination refuses with an error that has no status: 500 in every case |

### Bounds, and why they are enough

* Two requests at a time: every race in this code is between the check of one
  request and the write of another. More requests follow one another, because
  an id is used again as soon as its request is gone. In `requests` an id is
  used once, since the properties compare finished requests: two are enough to
  compare a foreign row with a missing one and to revoke the session of the
  other. The proofs hold for any number.
* Versions (`MaxVersion`): four versions of an item admit a draft, a send, a
  decision and a further upload. Actions that would pass the bound are
  disabled; for sessions three versions give each session two successors.
  `Abandon` keeps a request that meets the bound from blocking.
* Invitations and messages: two invitations make a choice between pending
  ones, and a job that is twice in the queue makes duplicates.
* Three projects with two requests tell the bound of `FewNamesakes` from the
  number of projects.
* Two comments on two instants with pages of one make every case of the order:
  the same instant, a later one, a full page that is the last, a row that
  appears behind the cursor, a row that goes before it is reached. Page sizes
  above one and longer lists are covered by the theorem `WalksComplete`.
* Reminders: an interval of one tick with runs that last one tick lets a run
  work with a cutoff that is out of date, which two runs need to remind twice.
* `requests`: the rows of `MCRequests` are one of each table in each
  organization, one that does not exist, and those that a creation inserts.
* `sign_in`: with two missteps an answer is lost and then something else goes
  wrong while the person repairs it; two tabs are what the broadcast needs.
* `InvitationEmail` and `Projects` really stop: when every message is deleted
  or dead, and when all ids are used. So do `Requests`, when every request is
  answered, and `SignIn`, when every tab shows the dashboard and no misstep is
  left. Their configurations do not check deadlock. All others do.
* Symmetry is used only where sets of model values are interchangeable and no
  liveness property is checked.

### Fairness

`InvitationEmail` (`QueueDrains`): AWS polls the queue (`Receive`), an
invocation goes on until it settles or is cut off (`Process`, `Settle`), and
the redrive policy is applied (`DeadLetter`). Nothing is assumed of the
database, the provider or the requests: each `Process` step may fail every
time, and `TimeOut` may cut off every invocation. What drains the queue is the
receive count.

`Reminders` has none: its specification lets every run be stopped, as the
timeout of its Lambda does over a list without a bound. `ItemsGetTheirTurn`
names what it needs in its own premise, that runs reach the end of their lists
again and again. Settings, links and items may change at any time; the property
is about items that stay due meanwhile, by the worker's own condition.

`SignIn` (`EveryoneGetsIn`): the servers answer, the client handles answers and
redirects, and the person does what the page asks for. `Reload` has strong
fairness: a page that shows something else than the cookie stands for may
repair itself between two moments at which it could be reloaded, and somebody
who meets it again and again reloads at last. The property therefore does not say
that the client needs no reload: a tab that is told of a 401 while its query is
under way does keep its loader until somebody loads the page again. Every failure is a misstep, and
their number is bounded: nobody gets in while every answer is lost. A new
rendering of a component whose query was removed is a misstep too, since
nothing in the client causes one.

## 5. Proofs

| Module | Theorem | States |
| --- | --- | --- |
| `ReviewItem_proofs` | `TypeCorrect`, `Freshness`, `KeysCommitted`, `ArchiveIsFinal` | what requests have read and clients were told, and that no decision follows the archiving, for all constants |
| | `Audit`, `Implementation` | the log and the refinement of `ReviewLifecycle`, whatever versions the clients send |
| `Workers_proofs`, on `InvitationEmail` | `TypeCorrect`, `Committed`, `SentBacked`, `DeletedBacked`, `SentFinal`, `Few` | the safety properties of the run, and that `sentAt` implies an e-mail |
| on `Reminders` | `ReminderTypeCorrect`, `Whole`, `Spaced` | the safety properties of the run |
| `Membership_proofs` | `TypeCorrect`, `NoDemotionOfLastOwner`, `OneInvitation` | the invariants of the run, and the action property |
| | `Implementation` | the refinement of `SessionTable` |
| | `Freshness`, `RevocationFinal`, `RemovalFinal` | a session with the current version tells the truth, one that was revoked is never accepted again, a removed user never comes back |
| `Projects_proofs` | `TypeCorrect`, `FewNames`, `ArchivingCloses` | all properties of the run |
| `ReviewerAccess_proofs` | `TypeCorrect`, `OneStory`, `RowsFollowLinks`, `RemovalFinal` | all properties of the run |
| | `RefusedForGood` | no request of a reviewer is ever accepted |
| `Comments_proofs` | `TypeCorrect`, `WalksComplete`, `AuditTrue`, `DeletionsTheirs` | all properties of the run |
| `Requests_proofs` | `TypeCorrect`, `Isolation`, `Indistinguishable`, `RevokedNothing`, `AnswersDocumented` | all properties of the run |
| `SignIn_proofs` | `TypeCorrect`, `OneOrganization`, `AnswersDocumented`, `LogoutEnds` | the safety properties of the run |
| | `Implementation` | the refinement of `SessionTable` |

All follow one pattern: an inductive invariant, a lemma that reduces every
action to the few ways in which it changes the state at hand, and the
properties from those.

* `ReviewItem`: `RequestsStayFresh` is what the optimistic lock buys. It is
  inductive with the types because whatever changes the status also raises the
  version. A commit under an unchanged version therefore finds the status that
  the transaction read, and for a client that is not ahead this is also the one its
  edge was chosen on: that gives the refinement. `Drafts` adds what holds for
  the others: while the item is a draft, every decision under way was chosen on a
  draft, so that a draft is left by sending it only.
* `InvitationEmail`: a message is in the batch of one invocation at most, and
  only there is its record worked on (`BatchesOK`); what a record has come to is
  backed by an e-mail (`RecordsOK`); and a request has no message anywhere until
  its notification exists (`RequestsOK`). For the bound on duplicates, each e-mail
  is charged to a receipt of a message (`EmailsOK`): a message that is being
  worked on still has the e-mail of its last receipt before it, and has been
  received (`ReceiptsOK`). The used receipts of an invitation are a subset of
  the pairs of its messages and `1..MaxReceive`, whose number the theorems on
  finite sets give.
* `Membership`: rows only advance (`RowStep`): a row here takes its next
  version with every change, and once removed stays removed. Sessions are
  copies of rows, so an equal version means an equal role. Needed besides is
  what requests in flight rely on (`InFlightOK`): who acted has a row.
  The refinement of `SessionTable` comes from one lemma: when a row takes its
  next version, no cookie of its user is in force any longer
  (`RowEndsSessions`), since none has a version above the row's, and the cookies
  of others are untouched; the browser that asked has an older cookie, none, or
  the one signed from the new row (`OneCookie`).
* `Projects`: `FewNamesakes` is not inductive; the projects that are about to
  take a name must be counted with those that have it (`Claims`). A request
  passes the check only while nobody else has the name, and then the claims
  are projects of requests in flight, of which there are at most as many as
  ids. The cardinalities come from the theorems on finite sets.
* `ReviewerAccess`: a request to remove relies on a link, and no link goes
  back to having never been there (`RemovalsHaveLinks`).
* `Comments`: two lemmas on pages carry the walk. A page is a beginning of the
  list (`PageIsPrefix`): what it leaves out is older than all it has. A page
  without a next cursor is the whole rest (`LastPageIsAll`): a page that is not
  full leaves nothing out. Both count the rows before a row, and need that a
  finite set of rows has a newest and an oldest one, which follows from the
  well-foundedness of the strict subsets of a finite set. With them,
  `WalkOK` is inductive: nothing seen lies beyond the cursor, and what stayed
  is seen once or lies beyond. For the log, an open transaction has a comment
  of its own (`RequestsOK`).
* `Reminders`: the three safety properties are inductive together. The age of
  mark and entry is the same in every state, so the condition of the UPDATE
  speaks of both.
* `Requests`: isolation relates two requests in one state, yet the invariant
  speaks of one (`Alike`): what a request for a hidden row is told is
  `Verdict`, a function of its cookie and its route alone. Two hidden rows then
  get the same answer, or one of the answers that no row has any part in (400,
  401, 500). `Stale` says that a revoked session does not pass the check,
  because versions only grow and a removed user stays removed. For the
  documented statuses, `RoutesFit` compares `Routes` with `ApiDocs` group by
  group: what a service answers, and each refusal before it where it can happen.
  Where it can happen is what the invariant adds: no route closes an
  organization (`OrganizationsStay`), and a request about the organization is
  about that of its sender (`AllAtHome`), so that routes on it never answer 404.
* `SignIn`: whatever a call holds - a row it read, a session it signed - has a
  version that the user's row has had (`CallsOK`), and so has every cookie
  (`JarsOK`). An organization is made in the transaction that makes the row,
  which the unique index lets happen once. A logout takes a version above all
  of those. For the refinement, `StepCopies` says of every step that the
  sessions after it are copies of earlier ones or signed from the new row, and
  that either the row stays or the cookies do; with it, a session with the
  current version is a copy of the row (`SessionsTrue`). The first login is a
  `Join`, an onboarding or a logout a `Change`, and the arrival of an answer
  an `Enter` or, when its session is out of date by then, a `Leave`.

Assumed are the named assumptions of the modules only: bounds are positive
numbers, the founder is an account, the messages' jobs are invitations, the
messages of one invitation are finite in number, the organization of a user is
no missing one, items, requests and comments are finite in number, the limit of a page is one that
`normalizePaginationParams` accepts, and the parent of a row belongs to its
organization.

## 6. Only model-checked

* `QueueDrains`, `ItemsGetTheirTurn` and `EveryoneGetsIn` are liveness
  properties and out of the reach of TLAPS.
* The runs that end in a counterexample are behaviours of the models and need
  no proof.

## 7. What the checks do not say

A request's statements are what the code issues; that Prisma sends no others
and that PostgreSQL runs READ COMMITTED is taken from their documentation.
Nested reads through the shared client inside a transaction take a second
connection of the pool; exhaustion of the pool is not modelled. Time appears as
events only, or in ticks: an invitation expires, an invocation is cut off.
`orderBy` objects with two keys are taken to order by both, as the code means
them.

Behaviours that the models have and no property forbids, although a message of
the code or a document suggests otherwise:

* "Cannot upload attachment to archived review item"
  (`attachment.service.ts:132`): the check precedes the update, which has no
  condition on `archivedAt`, so an item archived in between gets a new version
  and status.
* "REVIEW_ITEM_REQUIRES_ATTACHMENT" (`review-workflow.service.ts:280`): the
  only attachment may be deleted between the count and the update.
* "Validation occurs within transaction boundary"
  (`docs/ENGINEERING_STANDARD.md:55`): the edge of a decision is chosen before
  its transaction, and only the `expectedVersion` of the body is compared in it.
  A client that sends one ahead of what the item has may have its update match
  an item in another status: the log then has an entry that is no edge of the
  map. `DecideAhead` and `ahead` stand for these decisions.
* The version recorded for a confirmed file is whatever its key's tail begins
  with (`VersionFromKey`), for keys that were issued and keys that were not. No
  sentence of the repository says what it should be, so no property does.
* "Cannot archive project with active review items"
  (`project.service.ts:224`): an item may be created in a project that is
  archived meanwhile.
* "Complete onboarding for reviewers" (`openapi.builder.ts:2449`): it needs the
  session of a reviewer, and none is accepted (`RefusedForGood`).
* The reminder worker logs with the actor `system`, which is a foreign key
  into `users`: without such a row every reminder fails. With one, the recipients
  of a reminder are refused like all others, so that an item of a project with
  reviewers fails too, and stays due.
* A run of that worker that is stopped every hour, before the end of its list,
  starves the items it does not reach: the list has no order and no bound, and
  the time of the Lambda has one.
* The state cookie of an OAuth authorization never reaches the browser, because
  the cookies of a response are replaced by the next ones attached
  (`cors.ts:25`): its callback is always refused.
* A failed logout looks to its user like one that succeeded
  (`top-bar.tsx:38`), and a refetch that is refused keeps the session that is
  shown until the page is loaded again. `EveryoneGetsIn` allows for the latter
  with `Reload`.
* A tab that is told of a 401 while its session query is under way keeps its loader
  (`session-context.tsx:62`, `Told`) until it is loaded again.
* Statuses that the published description leaves out are listed in `Gaps`
  (`Requests`) and in `AuthAnswersAreDocumented` (`SignIn`); 400 and 422 are
  left out of the comparison in `Requests`, because the description rarely has
  them.

## 8. Not modelled

* Requests of reviewers beyond the guards of `ReviewItem` and `Comments` (which
  keep the reviewers' side of the handlers as they are written), and the
  onboarding of reviewers: no session of a reviewer is accepted.
* Notifications of events, their idempotency keys and their e-mail jobs: no
  recipient of an event passes its validation.
* Profile and settings forms, most pages of the web client (they show dummy
  data and call nothing), bodies and schemas: single writes, or a choice between
  well formed and not.
* Tokens, signatures, S3, the e-mail provider, the user pool: external,
  present as the outcomes that the code handles.
* The gateway's own answers: the 503 or 504 for a Lambda that was cut off is a 500
  in `SignIn`, which the client tells apart in words only.
* The session of a reviewer that the same browser gets when a reviewer accepts an
  invitation to a team by its token (`acceptInvitationAfterSession`): `Membership`
  keeps the acceptance and loses the answer, `ReviewerAccess` keeps the login.
* Logging, the texts and schemas of the OpenAPI generator, Terraform beyond the
  queue and the schedule: without state, or of build time.
