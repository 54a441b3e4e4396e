-------------------------- MODULE InvitationEmail --------------------------
(***************************************************************************)
(* From an invitation to the e-mail: the request that stores the           *)
(* invitation and its notification and then puts a job on the SQS queue,   *)
(* and the e-mail worker, a Lambda function that receives batches of jobs. *)
(*                                                                         *)
(* The queue delivers at least once.  A batch is settled as a whole: when  *)
(* every record was processed its messages are deleted, when one failed,   *)
(* or the invocation timed out, all of them become visible again, until    *)
(* the redrive policy moves them to the dead-letter queue.  A message is   *)
(* in one invocation at a time, because the visibility timeout (60 s)      *)
(* exceeds the timeout of the function (15 s).                             *)
(***************************************************************************)
EXTENDS Naturals, FiniteSets

CONSTANTS
    Invitations,   \* invitations, each with its notification and e-mail job
    Messages,      \* messages that the SDK's retries may make of the jobs
    Job,           \* Job[m]: the invitation that message m is about
    Workers,       \* concurrent invocations of the e-mail worker
    BatchSize,     \* batch_size of the event source mapping
    MaxReceive     \* maxReceiveCount of the redrive policy

ASSUME QueueAssumption == /\ BatchSize \in Nat \ {0}
                          /\ MaxReceive \in Nat \ {0}
                          /\ Job \in [Messages -> Invitations]
\* The SDK stops retrying.
ASSUME RetriesAssumption ==
    \A i \in Invitations : IsFiniteSet({m \in Messages : Job[m] = i})

VARIABLES
    request,        \* progress of the request that makes the invitation
    notification,   \* the row of notifications: its sentAt, once it exists
    place,          \* where each message is
    receives,       \* ApproximateReceiveCount of each message
    batch,          \* the messages of each invocation
    record,         \* progress of processEmailJob on each message
    emails          \* e-mails the provider has accepted, per invitation

vars == <<request, notification, place, receives, batch, record, emails>>

MessagesOf(i) == {m \in Messages : Job[m] = i}

TypeOK ==
    /\ request \in [Invitations -> {"none", "invited", "stored", "done"}]
    /\ notification \in [Invitations -> {"absent", "unsent", "sent"}]
    /\ place \in [Messages -> {"nowhere", "queue", "worker", "deleted", "dead"}]
    /\ receives \in [Messages -> 0..MaxReceive]
    /\ batch \in [Workers -> SUBSET Messages]
    /\ record \in [Messages -> {"idle", "started", "unsent", "emailed", "fulfilled", "rejected"}]
    /\ emails \in [Invitations -> Nat]

Init ==
    /\ request = [i \in Invitations |-> "none"]
    /\ notification = [i \in Invitations |-> "absent"]
    /\ place = [m \in Messages |-> "nowhere"]
    /\ receives = [m \in Messages |-> 0]
    /\ batch = [w \in Workers |-> {}]
    /\ record = [m \in Messages |-> "idle"]
    /\ emails = [i \in Invitations |-> 0]

-----------------------------------------------------------------------------
(* The request *)

\* A reviewer's invitation and its notification are one transaction.
InviteReviewer(i) ==
    /\ request[i] = "none"
    /\ request' = [request EXCEPT ![i] = "stored"]
    /\ notification' = [notification EXCEPT ![i] = "unsent"]
    /\ UNCHANGED <<place, receives, batch, record, emails>>

\* An internal user's invitation is stored first, its notification then.
InviteUser(i) ==
    /\ request[i] = "none"
    /\ request' = [request EXCEPT ![i] = "invited"]
    /\ UNCHANGED <<notification, place, receives, batch, record, emails>>

StoreNotification(i) ==
    /\ request[i] = "invited"
    /\ request' = [request EXCEPT ![i] = "stored"]
    /\ notification' = [notification EXCEPT ![i] = "unsent"]
    /\ UNCHANGED <<place, receives, batch, record, emails>>

\* A faulty variant: the job is sent before its notification is stored.
EnqueueEarly(i) ==
    /\ request[i] \in {"invited", "stored"}
    /\ request' = [request EXCEPT ![i] = "done"]
    /\ \E new \in SUBSET MessagesOf(i) \ {{}} :
         place' = [m \in Messages |-> IF m \in new THEN "queue" ELSE place[m]]
    /\ UNCHANGED <<notification, receives, batch, record, emails>>

\* SendMessage, retried by the SDK: one message at least is in the queue.
EnqueueEmailJob(i) ==
    /\ request[i] = "stored"
    /\ request' = [request EXCEPT ![i] = "done"]
    /\ \E new \in SUBSET MessagesOf(i) \ {{}} :
         place' = [m \in Messages |-> IF m \in new THEN "queue" ELSE place[m]]
    /\ UNCHANGED <<notification, receives, batch, record, emails>>

\* An error or a crash after the first commit.  The error is logged and
\* swallowed, so that the caller gets its invitation, but nobody tries again.
GiveUp(i) ==
    /\ request[i] \in {"invited", "stored"}
    /\ request' = [request EXCEPT ![i] = "done"]
    /\ UNCHANGED <<notification, place, receives, batch, record, emails>>

-----------------------------------------------------------------------------
(* The queue and the worker *)

Start(w, new) ==
    /\ batch' = [batch EXCEPT ![w] = new]
    /\ place' = [m \in Messages |-> IF m \in new THEN "worker" ELSE place[m]]
    /\ record' = [m \in Messages |-> IF m \in new THEN "started" ELSE record[m]]

\* Faulty variants: the redrive policy lets a message come back once more,
\* or counts nothing.
ReceiveOnceMore(w) ==
    /\ batch[w] = {}
    /\ \E new \in SUBSET {m \in Messages : place[m] = "queue" /\ receives[m] <= MaxReceive} :
         /\ new # {} /\ Cardinality(new) <= BatchSize
         /\ Start(w, new)
         /\ receives' = [m \in Messages |-> IF m \in new THEN receives[m] + 1 ELSE receives[m]]
    /\ UNCHANGED <<request, notification, emails>>
ReceiveUncounted(w) ==
    /\ batch[w] = {}
    /\ \E new \in SUBSET {m \in Messages : place[m] = "queue"} :
         /\ new # {} /\ Cardinality(new) <= BatchSize
         /\ Start(w, new)
    /\ UNCHANGED <<request, notification, receives, emails>>

\* An invocation starts with a batch of visible messages.
Receive(w) ==
    /\ batch[w] = {}
    /\ \E new \in SUBSET {m \in Messages : place[m] = "queue" /\ receives[m] < MaxReceive} :
         /\ new # {} /\ Cardinality(new) <= BatchSize
         /\ Start(w, new)
         /\ receives' = [m \in Messages |-> IF m \in new THEN receives[m] + 1 ELSE receives[m]]
    /\ UNCHANGED <<request, notification, emails>>

\* A message that comes back once too often goes to the dead-letter queue.
DeadLetter(m) ==
    /\ place[m] = "queue" /\ receives[m] = MaxReceive
    /\ place' = [place EXCEPT ![m] = "dead"]
    /\ UNCHANGED <<request, notification, receives, batch, record, emails>>

\* Where processEmailJob stands with record m; the records of a batch
\* interleave (Promise.allSettled).
Advance(m, to) == record' = [record EXCEPT ![m] = to]

\* A faulty variant: the worker ignores sentAt.
CheckNothing(m) ==
    /\ record[m] = "started"
    /\ Advance(m, "unsent")
    /\ UNCHANGED <<request, notification, place, receives, batch, emails>>

\* The worker reads the notification: it returns when there is none or when
\* sentAt is set, and throws when the job cannot be parsed or the read fails.
CheckNotification(m) ==
    /\ record[m] = "started"
    /\ \/ Advance(m, IF notification[Job[m]] = "unsent" THEN "unsent" ELSE "fulfilled")
       \/ Advance(m, "rejected")
    /\ UNCHANGED <<request, notification, place, receives, batch, emails>>

\* The provider accepts the e-mail and says so, accepts it and the answer is
\* lost, or refuses it.
SendEmail(m) ==
    /\ record[m] = "unsent"
    /\ \/ Advance(m, "emailed") /\ emails' = [emails EXCEPT ![Job[m]] = @ + 1]
       \/ Advance(m, "rejected") /\ emails' = [emails EXCEPT ![Job[m]] = @ + 1]
       \/ Advance(m, "rejected") /\ UNCHANGED emails
    /\ UNCHANGED <<request, notification, place, receives, batch>>

\* sentAt is set after the e-mail was sent, or the update fails.
MarkAsSent(m) ==
    /\ record[m] = "emailed"
    /\ \/ /\ notification' = [notification EXCEPT ![Job[m]] = "sent"]
          /\ Advance(m, "fulfilled")
       \/ UNCHANGED notification /\ Advance(m, "rejected")
    /\ UNCHANGED <<request, place, receives, batch, emails>>

\* The invocation of w ends and its messages go to p.
End(w, p) ==
    /\ batch' = [batch EXCEPT ![w] = {}]
    /\ place' = [m \in Messages |-> IF m \in batch[w] THEN p ELSE place[m]]
    /\ record' = [m \in Messages |-> IF m \in batch[w] THEN "idle" ELSE record[m]]
    /\ UNCHANGED <<request, notification, receives, emails>>

\* A faulty variant: a failed record does not fail its batch.
SettleAll(w) ==
    /\ batch[w] # {}
    /\ \A m \in batch[w] : record[m] \in {"fulfilled", "rejected"}
    /\ End(w, "deleted")

\* Every record has settled: one failure and the handler throws.
Settle(w) ==
    /\ batch[w] # {}
    /\ \A m \in batch[w] : record[m] \in {"fulfilled", "rejected"}
    /\ End(w, IF \E m \in batch[w] : record[m] = "rejected" THEN "queue" ELSE "deleted")

\* The invocation is cut off by a timeout or a crash.
TimeOut(w) ==
    /\ batch[w] # {}
    /\ End(w, "queue")

-----------------------------------------------------------------------------
Process(m) == CheckNotification(m) \/ SendEmail(m) \/ MarkAsSent(m)

Next ==
    \/ \E i \in Invitations : InviteReviewer(i) \/ InviteUser(i) \/ StoreNotification(i)
                              \/ EnqueueEmailJob(i) \/ GiveUp(i)
    \/ \E w \in Workers : Receive(w) \/ Settle(w) \/ TimeOut(w)
    \/ \E m \in Messages : Process(m) \/ DeadLetter(m)

\* Lambda keeps polling the queue, an invocation that runs goes on until it
\* settles or is cut off, and the queue applies its redrive policy.  Nothing
\* is assumed of the requests, of the database or of the provider.
Fairness ==
    /\ \A w \in Workers : WF_vars(Receive(w)) /\ WF_vars(Settle(w))
    /\ \A m \in Messages : WF_vars(Process(m)) /\ WF_vars(DeadLetter(m))

Spec == Init /\ [][Next]_vars /\ Fairness

-----------------------------------------------------------------------------
(* Properties *)

\* A job is only ever in the queue when its notification is committed: the
\* worker never takes the silent exit for a notification it cannot find.
MessagesAreCommitted ==
    \A m \in Messages : place[m] # "nowhere" => notification[Job[m]] # "absent"

\* sentAt, and the deletion of a message, stand for an e-mail that was sent.
SentMeansEmailed ==
    \A i \in Invitations : notification[i] = "sent" => emails[i] > 0
DeletedMeansEmailed ==
    \A m \in Messages : place[m] = "deleted" => emails[Job[m]] > 0

\* sentAt silences an invitation for good, whatever is redelivered: a further
\* e-mail can only come from a record that read sentAt before it was set.
Silent(i) == /\ notification[i] = "sent"
             /\ \A m \in MessagesOf(i) : record[m] # "unsent"
SentIsFinal ==
    [][\A i \in Invitations : Silent(i) => Silent(i)' /\ emails'[i] = emails[i]]_vars

\* However batches are cut, time out and are delivered again, and whatever answers
\* of the provider get lost, nobody is sent more e-mails than the receipts that the
\* redrive policy grants the messages of their invitation.
FewDuplicates ==
    \A i \in Invitations : emails[i] <= Cardinality(MessagesOf(i)) * MaxReceive

\* Every message leaves the queue: its e-mail was sent or it is kept for
\* inspection in the dead-letter queue.
QueueDrains ==
    \A m \in Messages : place[m] = "queue" ~> place[m] \in {"deleted", "dead"}

=============================================================================
