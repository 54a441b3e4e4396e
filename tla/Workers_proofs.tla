--------------------------- MODULE Workers_proofs ---------------------------
(***************************************************************************)
(* Proofs about the two workers: InvitationEmail, for any invitations,     *)
(* messages and invocations, any size of a batch and any number of         *)
(* deliveries, and Reminders, for any items and overlapping runs.          *)
(***************************************************************************)
EXTENDS InvitationEmail, Reminders, FiniteSetTheorems, TLAPS

USE DEF vars

\* A notification is stored before its job is sent, and a job is sent once.
RequestsOK ==
    \A i \in Invitations :
        /\ request[i] \in {"none", "invited"} => notification[i] = "absent"
        /\ request[i] = "stored" => notification[i] # "absent"
        /\ request[i] # "done" => \A m \in MessagesOf(i) : place[m] = "nowhere"

\* A message is in one invocation at a time, and only there is it worked on.
BatchesOK ==
    /\ \A w \in Workers : \A m \in batch[w] : place[m] = "worker"
    /\ \A w, v \in Workers : w # v => batch[w] \cap batch[v] = {}
    /\ \A m \in Messages : record[m] # "idle" => place[m] = "worker"

\* What a record has come to is backed by an e-mail.
RecordsOK ==
    \A m \in Messages : record[m] \in {"emailed", "fulfilled"} => emails[Job[m]] > 0

Inv == /\ TypeOK /\ RequestsOK /\ BatchesOK /\ RecordsOK
       /\ MessagesAreCommitted /\ SentMeansEmailed /\ DeletedMeansEmailed

-----------------------------------------------------------------------------
(* The steps, by what they change *)

\* The request of i goes on, up to its notification.
Stores(i) ==
    /\ request[i] \in {"none", "invited"}
    /\ \/ /\ request' = [request EXCEPT ![i] = "stored"]
          /\ notification' = [notification EXCEPT ![i] = "unsent"]
       \/ /\ request[i] = "none" /\ request' = [request EXCEPT ![i] = "invited"]
          /\ UNCHANGED notification
    /\ UNCHANGED <<place, receives, batch, record, emails>>

\* Record m goes on, with what that does to the notification and the e-mails.
Works(m) ==
    /\ record[m] \in {"started", "unsent", "emailed"}
    /\ \E to \in {"unsent", "emailed", "fulfilled", "rejected"} :
         /\ record' = [record EXCEPT ![m] = to]
         /\ to = "unsent" => notification[Job[m]] = "unsent"
         /\ to \in {"emailed", "fulfilled"} => emails'[Job[m]] > 0
    /\ \/ UNCHANGED emails
       \/ record[m] = "unsent" /\ emails' = [emails EXCEPT ![Job[m]] = @ + 1]
    /\ \/ UNCHANGED notification
       \/ record[m] = "emailed" /\ notification' = [notification EXCEPT ![Job[m]] = "sent"]
    /\ UNCHANGED <<request, place, receives, batch>>

LEMMA Fields ==
    ASSUME TypeOK
    PROVE  /\ \A m \in Messages : Job[m] \in Invitations
           /\ \A i \in Invitations : emails[i] \in Nat
           /\ \A w \in Workers : batch[w] \subseteq Messages
  BY QueueAssumption DEF TypeOK

LEMMA StoreSteps ==
    ASSUME NEW i \in Invitations, InviteReviewer(i) \/ InviteUser(i) \/ StoreNotification(i)
    PROVE  Stores(i)
  BY DEF InviteReviewer, InviteUser, StoreNotification, Stores

LEMMA WorkSteps ==
    ASSUME Inv, NEW m \in Messages, Process(m)
    PROVE  Works(m)
<1>1. /\ Job[m] \in Invitations /\ emails[Job[m]] \in Nat
      /\ notification[Job[m]] \in {"absent", "unsent", "sent"}
  BY Fields DEF Inv, TypeOK
<1>2. CASE CheckNotification(m)
  <2>1. notification[Job[m]] # "absent"
    BY <1>2 DEF Inv, BatchesOK, MessagesAreCommitted, CheckNotification
  <2>2. notification[Job[m]] = "sent" => emails[Job[m]] > 0
    BY <1>1 DEF Inv, SentMeansEmailed
  <2> QED BY <1>1, <1>2, <2>1, <2>2 DEF CheckNotification, Advance, Works
<1>3. CASE SendEmail(m)
  <2>1. emails' = [emails EXCEPT ![Job[m]] = @ + 1] => emails'[Job[m]] > 0
    BY <1>1 DEF Inv, TypeOK
  <2> QED BY <1>3, <2>1 DEF SendEmail, Advance, Works
<1>4. CASE MarkAsSent(m)
  <2>1. emails[Job[m]] > 0
    BY <1>4 DEF MarkAsSent, Inv, RecordsOK
  <2> QED BY <1>4, <2>1 DEF MarkAsSent, Advance, Works
<1> QED BY <1>2, <1>3, <1>4 DEF Process

-----------------------------------------------------------------------------
(* Every step keeps the invariant *)

LEMMA StoresKeeps ==
    ASSUME Inv, NEW i \in Invitations, Stores(i)
    PROVE  Inv'
<1> USE DEF Inv
<1>1. TypeOK'
  BY DEF Stores, TypeOK
<1>2. RequestsOK'
  BY DEF Stores, RequestsOK, TypeOK, MessagesOf
<1>3. BatchesOK' /\ RecordsOK' /\ DeletedMeansEmailed'
  BY DEF Stores, BatchesOK, RecordsOK, DeletedMeansEmailed
<1>4. MessagesAreCommitted'
  BY Fields DEF Stores, MessagesAreCommitted, TypeOK
<1>5. SentMeansEmailed'
  BY DEF Stores, SentMeansEmailed, TypeOK
<1> QED BY <1>1, <1>2, <1>3, <1>4, <1>5

LEMMA EnqueueKeeps ==
    ASSUME Inv, NEW i \in Invitations, EnqueueEmailJob(i)
    PROVE  Inv'
<1> USE DEF Inv
<1>1. PICK new \in SUBSET MessagesOf(i) \ {{}} :
          place' = [m \in Messages |-> IF m \in new THEN "queue" ELSE place[m]]
  BY DEF EnqueueEmailJob
<1>2. \A m \in new : m \in Messages /\ Job[m] = i /\ place[m] = "nowhere" /\ record[m] = "idle"
  BY <1>1 DEF MessagesOf, EnqueueEmailJob, RequestsOK, BatchesOK
<1>3. /\ request[i] = "stored" /\ request' = [request EXCEPT ![i] = "done"]
      /\ UNCHANGED <<notification, receives, batch, record, emails>>
  BY DEF EnqueueEmailJob
<1>4. TypeOK'
  BY <1>1, <1>3 DEF TypeOK
<1>5. RequestsOK'
  BY <1>1, <1>2, <1>3 DEF RequestsOK, TypeOK, MessagesOf
<1>6. BatchesOK'
  <2>1. \A w \in Workers : \A m \in batch[w] : m \in Messages /\ m \notin new
    BY <1>2, Fields DEF BatchesOK
  <2> QED BY <1>1, <1>2, <1>3, <2>1 DEF BatchesOK
<1>7. RecordsOK' /\ SentMeansEmailed' /\ DeletedMeansEmailed'
  BY <1>1, <1>3 DEF RecordsOK, SentMeansEmailed, DeletedMeansEmailed
<1>8. MessagesAreCommitted'
  BY <1>1, <1>2, <1>3 DEF MessagesAreCommitted, RequestsOK
<1> QED BY <1>4, <1>5, <1>6, <1>7, <1>8

LEMMA GiveUpKeeps ==
    ASSUME Inv, NEW i \in Invitations, GiveUp(i)
    PROVE  Inv'
  BY DEF GiveUp, Inv, TypeOK, RequestsOK, BatchesOK, RecordsOK, MessagesAreCommitted,
         SentMeansEmailed, DeletedMeansEmailed

LEMMA ReceiveKeeps ==
    ASSUME Inv, NEW w \in Workers, Receive(w)
    PROVE  Inv'
<1> USE DEF Inv
<1>1. PICK new \in SUBSET {m \in Messages : place[m] = "queue" /\ receives[m] < MaxReceive} :
          /\ Start(w, new)
          /\ receives' = [m \in Messages |-> IF m \in new THEN receives[m] + 1 ELSE receives[m]]
  BY DEF Receive
<1>2. \A m \in new : m \in Messages /\ place[m] = "queue" /\ receives[m] < MaxReceive
  OBVIOUS
<1>3. /\ batch' = [batch EXCEPT ![w] = new]
      /\ place' = [m \in Messages |-> IF m \in new THEN "worker" ELSE place[m]]
      /\ record' = [m \in Messages |-> IF m \in new THEN "started" ELSE record[m]]
      /\ UNCHANGED <<request, notification, emails>>
  BY <1>1 DEF Start, Receive
<1>4. TypeOK'
  <2>1. receives' \in [Messages -> 0..MaxReceive]
    BY <1>1, <1>2, QueueAssumption DEF TypeOK
  <2> QED BY <1>2, <1>3, <2>1 DEF TypeOK
<1>5. RequestsOK'
  BY <1>2, <1>3 DEF RequestsOK, MessagesOf
<1>6. BatchesOK'
  <2>1. \A v \in Workers : batch'[v] = IF v = w THEN new ELSE batch[v]
    BY <1>3 DEF TypeOK
  <2>2. \A v \in Workers : batch[v] \cap new = {}
    BY <1>2 DEF BatchesOK
  <2>3. \A v, u \in Workers : v # u => batch'[v] \cap batch'[u] = {}
    BY <2>1, <2>2 DEF BatchesOK
  <2> QED BY <1>2, <1>3, <2>1, <2>3, Fields DEF BatchesOK
<1>7. RecordsOK' /\ SentMeansEmailed' /\ DeletedMeansEmailed'
  BY <1>3 DEF RecordsOK, SentMeansEmailed, DeletedMeansEmailed
<1>8. MessagesAreCommitted'
  BY <1>2, <1>3 DEF MessagesAreCommitted
<1> QED BY <1>4, <1>5, <1>6, <1>7, <1>8

\* The end of an invocation; its messages are only deleted when each of them
\* was worked off.
LEMMA EndKeeps ==
    ASSUME Inv, NEW w \in Workers, NEW p \in {"queue", "deleted"}, End(w, p),
           p = "deleted" => \A m \in batch[w] : record[m] = "fulfilled"
    PROVE  Inv'
<1> USE DEF Inv
<1>1. /\ batch' = [batch EXCEPT ![w] = {}]
      /\ place' = [m \in Messages |-> IF m \in batch[w] THEN p ELSE place[m]]
      /\ record' = [m \in Messages |-> IF m \in batch[w] THEN "idle" ELSE record[m]]
      /\ UNCHANGED <<request, notification, receives, emails>>
  BY DEF End
<1>2. \A m \in batch[w] : m \in Messages /\ place[m] = "worker"
  BY Fields DEF BatchesOK
<1>3. TypeOK'
  BY <1>1 DEF TypeOK
<1>4. RequestsOK'
  BY <1>1, <1>2 DEF RequestsOK, MessagesOf
<1>5. BatchesOK'
  <2>1. ASSUME NEW v \in Workers, NEW m \in batch'[v]  PROVE place'[m] = "worker"
    <3>1. v # w /\ m \in batch[v] /\ m \in Messages
      BY <1>1, <2>1, Fields DEF TypeOK
    <3>2. m \notin batch[w]
      BY <3>1 DEF BatchesOK
    <3> QED BY <1>1, <3>1, <3>2 DEF BatchesOK
  <2>2. ASSUME NEW m \in Messages, record'[m] # "idle"  PROVE place'[m] = "worker"
    BY <1>1, <2>2 DEF BatchesOK
  <2>3. \A v, u \in Workers : v # u => batch'[v] \cap batch'[u] = {}
    BY <1>1 DEF BatchesOK, TypeOK
  <2> QED BY <2>1, <2>2, <2>3 DEF BatchesOK
<1>6. RecordsOK' /\ SentMeansEmailed'
  BY <1>1 DEF RecordsOK, SentMeansEmailed
<1>7. DeletedMeansEmailed'
  BY <1>1, <1>2 DEF RecordsOK, DeletedMeansEmailed
<1>8. MessagesAreCommitted'
  BY <1>1, <1>2 DEF MessagesAreCommitted
<1> QED BY <1>3, <1>4, <1>5, <1>6, <1>7, <1>8

LEMMA WorksKeeps ==
    ASSUME Inv, NEW m \in Messages, Works(m)
    PROVE  Inv'
<1> USE DEF Inv
<1>1. PICK to \in {"unsent", "emailed", "fulfilled", "rejected"} :
         /\ record' = [record EXCEPT ![m] = to]
         /\ to \in {"emailed", "fulfilled"} => emails'[Job[m]] > 0
  BY DEF Works
<1>2. /\ \A i \in Invitations : emails'[i] \in Nat /\ emails'[i] >= emails[i]
      /\ DOMAIN emails' = Invitations
      /\ emails' \in [Invitations -> Nat]
  BY Fields DEF Works, TypeOK
<1>3. /\ record[m] \in {"started", "unsent", "emailed"}
      /\ UNCHANGED <<request, place, receives, batch>>
      /\ \/ UNCHANGED notification
         \/ record[m] = "emailed" /\ notification' = [notification EXCEPT ![Job[m]] = "sent"]
  BY DEF Works
<1>4. TypeOK'
  BY <1>1, <1>2, <1>3 DEF TypeOK
<1>5. place[m] = "worker" /\ notification[Job[m]] # "absent" /\ Job[m] \in Invitations
  BY <1>3, Fields DEF BatchesOK, MessagesAreCommitted
<1>6. RequestsOK'
  BY <1>3, <1>5 DEF RequestsOK, TypeOK, MessagesOf
<1>7. BatchesOK'
  BY <1>1, <1>3, <1>5 DEF BatchesOK, TypeOK
<1>8. RecordsOK' /\ DeletedMeansEmailed'
  BY <1>1, <1>2, <1>3, Fields DEF RecordsOK, DeletedMeansEmailed, TypeOK
<1>9. SentMeansEmailed'
  BY <1>2, <1>3, Fields DEF SentMeansEmailed, RecordsOK, TypeOK
<1>10. MessagesAreCommitted'
  BY <1>3, Fields DEF MessagesAreCommitted, TypeOK
<1> QED BY <1>4, <1>6, <1>7, <1>8, <1>9, <1>10

LEMMA DeadLetterKeeps ==
    ASSUME Inv, NEW m \in Messages, DeadLetter(m)
    PROVE  Inv'
<1> USE DEF Inv, DeadLetter
<1>1. TypeOK' /\ RequestsOK'
  BY DEF TypeOK, RequestsOK, MessagesOf
<1>2. BatchesOK'
  BY Fields DEF BatchesOK, TypeOK
<1>3. RecordsOK' /\ SentMeansEmailed'
  BY DEF RecordsOK, SentMeansEmailed
<1>4. DeletedMeansEmailed' /\ MessagesAreCommitted'
  BY DEF DeletedMeansEmailed, MessagesAreCommitted, TypeOK
<1> QED BY <1>1, <1>2, <1>3, <1>4

LEMMA Invariance == Spec => []Inv
<1>1. Init => Inv
  <2> SUFFICES ASSUME Init  PROVE Inv
    OBVIOUS
  <2>1. TypeOK
    <3>1. 0 \in 0..MaxReceive
      BY QueueAssumption
    <3> QED BY <3>1 DEF Init, TypeOK
  <2>2. RequestsOK /\ MessagesAreCommitted
    BY DEF Init, RequestsOK, MessagesAreCommitted, MessagesOf
  <2>3. BatchesOK /\ RecordsOK
    BY DEF Init, BatchesOK, RecordsOK
  <2>4. SentMeansEmailed /\ DeletedMeansEmailed
    BY DEF Init, SentMeansEmailed, DeletedMeansEmailed
  <2> QED BY <2>1, <2>2, <2>3, <2>4 DEF Inv
<1>2. Inv /\ [Next]_vars => Inv'
  <2> SUFFICES ASSUME Inv, [Next]_vars  PROVE Inv'
    OBVIOUS
  <2>1. CASE \E i \in Invitations : InviteReviewer(i) \/ InviteUser(i) \/ StoreNotification(i)
    BY <2>1, StoreSteps, StoresKeeps
  <2>2. CASE \E i \in Invitations : EnqueueEmailJob(i) \/ GiveUp(i)
    BY <2>2, EnqueueKeeps, GiveUpKeeps
  <2>3. CASE \E w \in Workers : Receive(w)
    BY <2>3, ReceiveKeeps
  <2>4. CASE \E w \in Workers : Settle(w)
    <3>1. PICK w \in Workers : Settle(w)
      BY <2>4
    <3>2. CASE \E m \in batch[w] : record[m] = "rejected"
      BY <3>1, <3>2, EndKeeps DEF Settle
    <3>3. CASE ~\E m \in batch[w] : record[m] = "rejected"
      BY <3>1, <3>3, EndKeeps DEF Settle
    <3> QED BY <3>2, <3>3
  <2>5. CASE \E w \in Workers : TimeOut(w)
    BY <2>5, EndKeeps DEF TimeOut
  <2>6. CASE \E m \in Messages : Process(m)
    BY <2>6, WorkSteps, WorksKeeps
  <2>7. CASE \E m \in Messages : DeadLetter(m)
    BY <2>7, DeadLetterKeeps
  <2>8. CASE UNCHANGED vars
    BY <2>8 DEF Inv, TypeOK, RequestsOK, BatchesOK, RecordsOK, MessagesAreCommitted,
                SentMeansEmailed, DeletedMeansEmailed, MessagesOf
  <2> QED BY <2>1, <2>2, <2>3, <2>4, <2>5, <2>6, <2>7, <2>8 DEF Next
<1> QED BY <1>1, <1>2, PTL DEF Spec

\* Every reachable state is well typed: in particular no message is received
\* more often than the redrive policy allows.
THEOREM TypeCorrect == Spec => []TypeOK
  BY Invariance, PTL DEF Inv

\* The worker finds the notification of every message it can be given: both
\* ways to invite commit it before enqueueEmailJob.
THEOREM Committed == Spec => []MessagesAreCommitted
  BY Invariance, PTL DEF Inv

\* sentAt stands for an e-mail that was sent, whichever record set it.
THEOREM SentBacked == Spec => []SentMeansEmailed
  BY Invariance, PTL DEF Inv

\* The messages of a batch are only deleted when an e-mail went out for each.
THEOREM DeletedBacked == Spec => []DeletedMeansEmailed
  BY Invariance, PTL DEF Inv

-----------------------------------------------------------------------------
(* An invitation that is silent stays silent *)

Stays(i) == Silent(i)' /\ emails'[i] = emails[i]

LEMMA StoresSilent ==
    ASSUME Inv, NEW i \in Invitations, NEW j \in Invitations, Stores(j), Silent(i)
    PROVE  Stays(i)
<1>1. j # i
  BY DEF Stores, Silent, Inv, RequestsOK
<1> QED BY <1>1 DEF Stores, Silent, Stays, MessagesOf, Inv, TypeOK

LEMMA WorksSilent ==
    ASSUME Inv, NEW i \in Invitations, NEW m \in Messages, Works(m), Silent(i)
    PROVE  Stays(i)
<1>1. PICK to \in {"unsent", "emailed", "fulfilled", "rejected"} :
         /\ record' = [record EXCEPT ![m] = to]
         /\ to = "unsent" => notification[Job[m]] = "unsent"
  BY DEF Works
<1>2. Job[m] = i => record[m] # "unsent" /\ to # "unsent"
  BY <1>1 DEF Silent, MessagesOf
<1>3. notification'[i] = "sent"
  BY DEF Works, Silent, Inv, TypeOK
<1>4. \A n \in MessagesOf(i)' : record'[n] # "unsent"
  BY <1>1, <1>2 DEF Silent, MessagesOf, Inv, TypeOK
<1>5. emails'[i] = emails[i]
  BY <1>2, Fields DEF Works, Inv, TypeOK
<1> QED BY <1>3, <1>4, <1>5 DEF Silent, Stays

\* The steps of the queue: they leave the notifications and the e-mails alone
\* and bring no record to the point of sending.
LEMMA QueueSilent ==
    ASSUME NEW i \in Invitations, Silent(i), UNCHANGED <<notification, emails>>,
           \A m \in Messages : record'[m] = record[m] \/ record'[m] \in {"idle", "started"}
    PROVE  Stays(i)
  BY DEF Silent, Stays, MessagesOf

\* sentAt silences an invitation for good once no record of its messages is
\* past the check: redelivery and other invitations never send it again.
THEOREM SentFinal == Spec => SentIsFinal
<1>1. Inv /\ [Next]_vars => [\A i \in Invitations : Silent(i) => Silent(i)' /\ emails'[i] = emails[i]]_vars
  <2> SUFFICES ASSUME Inv, Next, NEW i \in Invitations, Silent(i)  PROVE Stays(i)
    BY DEF Stays
  <2>1. CASE \E j \in Invitations : InviteReviewer(j) \/ InviteUser(j) \/ StoreNotification(j)
    BY <2>1, StoreSteps, StoresSilent
  <2>2. CASE \E j \in Invitations : EnqueueEmailJob(j) \/ GiveUp(j)
    BY <2>2, QueueSilent DEF EnqueueEmailJob, GiveUp
  <2>3. CASE \E w \in Workers : Receive(w)
    BY <2>3, QueueSilent DEF Receive, Start
  <2>4. CASE \E w \in Workers : Settle(w) \/ TimeOut(w)
    BY <2>4, QueueSilent DEF Settle, TimeOut, End
  <2>5. CASE \E m \in Messages : Process(m)
    BY <2>5, WorkSteps, WorksSilent
  <2>6. CASE \E m \in Messages : DeadLetter(m)
    BY <2>6, QueueSilent DEF DeadLetter
  <2> QED BY <2>1, <2>2, <2>3, <2>4, <2>5, <2>6 DEF Next
<1> QED BY <1>1, Invariance, PTL DEF Spec, SentIsFinal

-----------------------------------------------------------------------------
(* At most one e-mail for each receipt *)

\* How many receipts of m are used up: the one that is being worked on still has
\* its e-mail before it.
UsedUp(m) == receives[m] - IF record[m] \in {"started", "unsent"} THEN 1 ELSE 0
Used(i) == {c \in MessagesOf(i) \X (1..MaxReceive) : c[2] <= UsedUp(c[1])}

ReceiptsOK == \A m \in Messages : record[m] # "idle" => receives[m] > 0
EmailsOK == \A i \in Invitations : emails[i] <= Cardinality(Used(i))

LEMMA UsedFinite ==
    ASSUME NEW i \in Invitations
    PROVE  /\ IsFiniteSet(MessagesOf(i) \X (1..MaxReceive))
           /\ Cardinality(MessagesOf(i) \X (1..MaxReceive))
                = Cardinality(MessagesOf(i)) * MaxReceive
           /\ IsFiniteSet(Used(i)) /\ IsFiniteSet(Used(i)')
<1>1. IsFiniteSet(MessagesOf(i))
      BY RetriesAssumption DEF MessagesOf
<1>2. IsFiniteSet(1..MaxReceive) /\ Cardinality(1..MaxReceive) = MaxReceive
      BY QueueAssumption, FS_Interval
<1>3. /\ IsFiniteSet(MessagesOf(i) \X (1..MaxReceive))
      /\ Cardinality(MessagesOf(i) \X (1..MaxReceive))
           = Cardinality(MessagesOf(i)) * MaxReceive
      BY <1>1, <1>2, FS_Product
<1>4. Used(i) \in SUBSET (MessagesOf(i) \X (1..MaxReceive))
      BY DEF Used
<1>5. Used(i)' \in SUBSET (MessagesOf(i) \X (1..MaxReceive))
      BY DEF Used, MessagesOf
<1>6. QED BY <1>3, <1>4, <1>5, FS_Subset

\* No e-mail is sent, and no receipt comes back.
LEMMA NothingSent ==
    ASSUME TypeOK, TypeOK', EmailsOK, UNCHANGED emails,
           \A m \in Messages : UsedUp(m) <= UsedUp(m)'
    PROVE  EmailsOK'
<1> SUFFICES ASSUME NEW i \in Invitations
             PROVE  emails'[i] <= Cardinality(Used(i)')
    BY DEF EmailsOK
<1>1. Used(i) \in SUBSET Used(i)'
  <2> SUFFICES ASSUME NEW m \in MessagesOf(i), NEW k \in 1..MaxReceive,
                      k <= UsedUp(m)
               PROVE  k <= UsedUp(m)'
      BY DEF Used, MessagesOf
  <2>1. m \in Messages
        BY DEF MessagesOf
  <2>2. UsedUp(m) \in Int /\ UsedUp(m)' \in Int
        BY <2>1, QueueAssumption DEF TypeOK, UsedUp
  <2>3. UsedUp(m) <= UsedUp(m)'
        BY <2>1
  <2>4. k \in Int
        BY QueueAssumption
  <2>5. QED BY <2>2, <2>3, <2>4
<1>2. Cardinality(Used(i)) <= Cardinality(Used(i)')
      BY <1>1, UsedFinite, FS_Subset
<1>3. Cardinality(Used(i)) \in Nat /\ Cardinality(Used(i)') \in Nat
      BY UsedFinite, FS_CardinalityType
<1>4. emails[i] \in Nat /\ emails[i] <= Cardinality(Used(i))
      BY DEF TypeOK, EmailsOK
<1>5. QED BY <1>2, <1>3, <1>4

\* An e-mail uses up the receipt at hand.
LEMMA OneSent ==
    ASSUME TypeOK, EmailsOK, ReceiptsOK, NEW m \in Messages, record[m] = "unsent",
           NEW to \in {"emailed", "rejected"}, record' = [record EXCEPT ![m] = to],
           emails' = [emails EXCEPT ![Job[m]] = @ + 1], UNCHANGED receives
    PROVE  EmailsOK'
<1> DEFINE c == <<m, receives[m]>>
<1>1. /\ Job[m] \in Invitations /\ m \in MessagesOf(Job[m])
      /\ receives[m] \in 1..MaxReceive
      BY Fields, QueueAssumption DEF TypeOK, MessagesOf, ReceiptsOK
<1>2. \A n \in Messages : n # m => UsedUp(n)' = UsedUp(n)
      BY DEF UsedUp, TypeOK
<1>3. UsedUp(m) = receives[m] - 1 /\ UsedUp(m)' = receives[m]
      BY DEF UsedUp, TypeOK
<1>4. \A i \in Invitations : i # Job[m] => Used(i)' = Used(i)
      BY <1>2 DEF Used, MessagesOf
<1>5. c \notin Used(Job[m]) /\ Used(Job[m])' = Used(Job[m]) \cup {c}
  <2>1. \A k \in 1..MaxReceive : k <= receives[m] <=> k <= receives[m] - 1 \/ k = receives[m]
        BY <1>1, QueueAssumption
  <2>2. ~(receives[m] <= receives[m] - 1)
        BY <1>1
  <2>3. c \notin Used(Job[m])
        BY <1>3, <2>2 DEF Used
  <2>4. ASSUME NEW n \in MessagesOf(Job[m]), NEW k \in 1..MaxReceive
        PROVE  k <= UsedUp(n)' <=> k <= UsedUp(n) \/ <<n, k>> = c
        BY <1>2, <1>3, <2>1 DEF MessagesOf
  <2>5. /\ Used(Job[m]) = {d \in MessagesOf(Job[m]) \X (1..MaxReceive) :
                              d[2] <= UsedUp(d[1])}
        /\ Used(Job[m])' = {d \in MessagesOf(Job[m]) \X (1..MaxReceive) :
                              d[2] <= UsedUp(d[1])'}
        /\ c \in MessagesOf(Job[m]) \X (1..MaxReceive)
        BY <1>1 DEF Used, MessagesOf
  <2> HIDE DEF c
  <2>6. QED BY <2>3, <2>4, <2>5
<1>6. Cardinality(Used(Job[m])') = Cardinality(Used(Job[m])) + 1
      BY <1>1, <1>5, UsedFinite, FS_AddElement
<1>7. Cardinality(Used(Job[m])) \in Nat
      BY <1>1, UsedFinite, FS_CardinalityType
<1>8. ASSUME NEW i \in Invitations PROVE emails'[i] <= Cardinality(Used(i)')
  <2>1. emails[i] \in Nat /\ emails[i] <= Cardinality(Used(i))
        BY DEF TypeOK, EmailsOK
  <2>2. CASE i = Job[m]
        BY <1>6, <1>7, <2>1, <2>2 DEF TypeOK
  <2>3. CASE i # Job[m]
        BY <1>4, <2>1, <2>3 DEF TypeOK
  <2>4. QED BY <2>2, <2>3
<1>9. QED BY <1>8 DEF EmailsOK

LEMMA EmailSteps ==
    ASSUME Inv, Inv', ReceiptsOK, EmailsOK, [Next]_vars
    PROVE  ReceiptsOK' /\ EmailsOK'
<1> DEFINE Goal == ReceiptsOK' /\ EmailsOK'
<1>1. TypeOK /\ TypeOK' /\ BatchesOK
      BY DEF Inv
<1>2. \A m \in Messages : receives[m] \in Nat /\ receives'[m] \in Nat
      BY <1>1, QueueAssumption DEF TypeOK
<1>3. CASE UNCHANGED <<receives, record, emails>>
      BY <1>1, <1>2, <1>3, NothingSent DEF ReceiptsOK, UsedUp
<1>4. ASSUME NEW w \in Workers, Receive(w) PROVE Goal
  <2>1. PICK new \in SUBSET {m \in Messages : place[m] = "queue" /\ receives[m] < MaxReceive} :
            /\ Start(w, new)
            /\ receives' = [m \in Messages |-> IF m \in new THEN receives[m] + 1
                                                            ELSE receives[m]]
        BY <1>4 DEF Receive
  <2>2. \A m \in new : record[m] = "idle"
        BY <1>1 DEF BatchesOK
  <2>3. \A m \in Messages : UsedUp(m) = UsedUp(m)' /\ UsedUp(m) \in Int
        BY <1>2, <2>1, <2>2 DEF Start, UsedUp
  <2>4. \A m \in Messages : UsedUp(m) <= UsedUp(m)'
        BY <2>3
  <2>5. ReceiptsOK'
        BY <1>2, <2>1 DEF Start, ReceiptsOK
  <2>6. QED BY <1>1, <1>4, <2>4, <2>5, NothingSent DEF Receive
<1>5. ASSUME NEW w \in Workers, NEW p, End(w, p) PROVE Goal
  <2>1. \A m \in Messages : UsedUp(m) <= UsedUp(m)'
        BY <1>2, <1>5 DEF End, UsedUp
  <2>2. ReceiptsOK'
        BY <1>5 DEF End, ReceiptsOK
  <2>3. QED BY <1>1, <1>5, <2>1, <2>2, NothingSent DEF End
<1>6. ASSUME NEW m \in Messages, Process(m) PROVE Goal
  <2>1. record[m] # "idle" /\ UNCHANGED receives
        BY <1>6 DEF Process, CheckNotification, SendEmail, MarkAsSent
  <2>2. PICK to \in {"unsent", "emailed", "fulfilled", "rejected"} :
            record' = [record EXCEPT ![m] = to]
        BY <1>6 DEF Process, CheckNotification, SendEmail, MarkAsSent, Advance
  <2>3. ReceiptsOK'
        BY <1>1, <2>1, <2>2 DEF ReceiptsOK, TypeOK
  <2>4. CASE UNCHANGED emails /\ (record[m] = "started" \/ to # "unsent")
    <3>1. \A n \in Messages : UsedUp(n) <= UsedUp(n)'
          BY <1>1, <1>2, <2>1, <2>2, <2>4 DEF UsedUp, TypeOK
    <3>2. QED BY <1>1, <2>3, <2>4, <3>1, NothingSent
  <2>5. CASE /\ record[m] = "unsent" /\ to \in {"emailed", "rejected"}
             /\ emails' = [emails EXCEPT ![Job[m]] = @ + 1]
        BY <1>1, <2>1, <2>2, <2>3, <2>5, OneSent
  <2>6. \/ UNCHANGED emails /\ (record[m] = "started" \/ to # "unsent")
        \/ /\ record[m] = "unsent" /\ to \in {"emailed", "rejected"}
           /\ emails' = [emails EXCEPT ![Job[m]] = @ + 1]
        BY <1>1, <1>6, <2>2
           DEF Process, CheckNotification, SendEmail, MarkAsSent, Advance, TypeOK
  <2>7. QED BY <2>4, <2>5, <2>6
<1>7. QED
      BY <1>3, <1>4, <1>5, <1>6
         DEF Next, InviteReviewer, InviteUser, StoreNotification, EnqueueEmailJob, GiveUp,
             Settle, TimeOut, DeadLetter

\* However often batches fail, time out and come back, nobody is sent more e-mails
\* than receipts were granted to the messages of their invitation
\* (processEmailJob, the redrive policy).
THEOREM Few == Spec => []FewDuplicates
<1>1. Init => ReceiptsOK /\ EmailsOK
  <2> SUFFICES ASSUME Init PROVE ReceiptsOK /\ EmailsOK
      OBVIOUS
  <2>1. ReceiptsOK
        BY DEF Init, ReceiptsOK
  <2>2. \A i \in Invitations : Cardinality(Used(i)) \in Nat
        BY UsedFinite, FS_CardinalityType
  <2>3. QED BY <2>1, <2>2 DEF Init, EmailsOK
<1>2. Inv /\ Inv' /\ ReceiptsOK /\ EmailsOK /\ [Next]_vars => ReceiptsOK' /\ EmailsOK'
      BY EmailSteps
<1>3. Inv /\ EmailsOK => FewDuplicates
  <2> SUFFICES ASSUME Inv, EmailsOK, NEW i \in Invitations
               PROVE  emails[i] <= Cardinality(MessagesOf(i)) * MaxReceive
      BY DEF FewDuplicates
  <2>1. Used(i) \in SUBSET (MessagesOf(i) \X (1..MaxReceive))
        BY DEF Used
  <2>2. Cardinality(Used(i)) <= Cardinality(MessagesOf(i) \X (1..MaxReceive))
        BY <2>1, UsedFinite, FS_Subset
  <2>3. /\ Cardinality(Used(i)) \in Nat
        /\ Cardinality(MessagesOf(i) \X (1..MaxReceive)) \in Nat
        BY UsedFinite, FS_CardinalityType
  <2>4. emails[i] \in Nat /\ emails[i] <= Cardinality(Used(i))
        BY DEF Inv, TypeOK, EmailsOK
  <2>5. emails[i] <= Cardinality(MessagesOf(i) \X (1..MaxReceive))
        BY <2>2, <2>3, <2>4
  <2>6. QED BY <2>5, UsedFinite
<1>4. QED BY <1>1, <1>2, <1>3, Invariance, PTL DEF Spec

-----------------------------------------------------------------------------
(* Reminders *)

USE IntervalsAssumption, BoundsAssumption

\* Ages stay in their range when time passes.
LEMMA OlderType ==
    ASSUME NEW age \in [Items -> Age]
    PROVE  Older(age) \in [Items -> Age]
BY DEF Older, Age, Old, Least

\* The inductive invariant: what is to be proved needs only the types.
ReminderInv == ReminderTypeOK /\ RemindersAreWhole /\ RemindersAreSpaced

LEMMA ReminderInitInv == ReminderInit => ReminderInv
BY DEF ReminderInit, ReminderInv, ReminderTypeOK, RemindersAreWhole, RemindersAreSpaced, Settings, Age,
       Old, Intervals

\* Leaving an item behind keeps the runs well formed.
LEMMA DoneType ==
    ASSUME ReminderTypeOK, NEW r \in runs, NEW i \in Items, Done(r, i)
    PROVE  /\ runs' \subseteq Run
           /\ \A s, t \in runs' : s.id = t.id => s = t
<1> DEFINE n == [r EXCEPT !.todo = @ \ {i}]
<1>1. n \in Run /\ n.id = r.id
      BY DEF ReminderTypeOK, Run
<1>2. runs' = (runs \ {r}) \cup {n}
      BY DEF Done
<1>3. QED BY <1>1, <1>2 DEF ReminderTypeOK

\* A run is added under an id that no other run has.
LEMMA AddedRun ==
    ASSUME ReminderTypeOK, NEW n, n \in Run, \A r \in runs : r.id # n.id,
           runs' = runs \cup {n}
    PROVE  /\ runs' \subseteq Run
           /\ \A s, t \in runs' : s.id = t.id => s = t
BY DEF ReminderTypeOK

\* Every run is replaced by one of the same id.
LEMMA ReplacedRuns ==
    ASSUME ReminderTypeOK, NEW F, \A r \in runs : F[r] \in Run /\ F[r].id = r.id,
           runs' = {F[r] : r \in runs}
    PROVE  /\ runs' \subseteq Run
           /\ \A s, t \in runs' : s.id = t.id => s = t
<1>1. runs' \subseteq Run
      OBVIOUS
<1>2. ASSUME NEW s \in runs', NEW t \in runs', s.id = t.id PROVE s = t
  <2>1. PICK p \in runs : s = F[p]
        OBVIOUS
  <2>2. PICK q \in runs : t = F[q]
        OBVIOUS
  <2>3. p.id = q.id
        BY <1>2, <2>1, <2>2
  <2>4. p = q
        BY <2>3 DEF ReminderTypeOK
  <2>5. QED BY <2>1, <2>2, <2>4
<1>3. QED BY <1>1, <1>2

LEMMA ReminderStepInv == ReminderInv /\ [ReminderNext]_reminderVars => ReminderInv'
<1> SUFFICES ASSUME ReminderInv, [ReminderNext]_reminderVars PROVE ReminderInv'
    OBVIOUS
<1> USE DEF ReminderInv
<1>1. ASSUME NEW q \in Runs, StartRun(q) PROVE ReminderInv'
  <2> DEFINE n == [id |-> q, interval |-> settings.interval, elapsed |-> 0,
                   todo |-> {i \in Items : Eligible(i, settings.interval, 0)}]
  <2>1. n \in Run
        BY DEF Run, ReminderTypeOK, Settings
  <2>2. runs' = runs \cup {n} /\ \A r \in runs : r.id # q
        BY <1>1 DEF StartRun
  <2>3. /\ runs' \subseteq Run
        /\ \A s, t \in runs' : s.id = t.id => s = t
    <3>1. n.id = q
          OBVIOUS
    <3>2. \A r \in runs : r.id # n.id
          BY <2>2, <3>1
    <3> HIDE DEF n
    <3>3. QED BY <2>1, <2>2, <3>2, AddedRun
  <2>4. QED BY <1>1, <2>3 DEF StartRun, items, ReminderTypeOK, RemindersAreWhole, RemindersAreSpaced
<1>2. ASSUME NEW r \in runs, NEW i \in Items, Remind(r, i) PROVE ReminderInv'
  <2>1. /\ runs' \subseteq Run
        /\ \A s, t \in runs' : s.id = t.id => s = t
        BY <1>2, DoneType DEF Remind
  <2>2. early' = {}
    <3>1. r.interval >= MinInterval /\ r.interval \in Int /\ r.elapsed \in Nat
          BY DEF ReminderTypeOK, Run, Intervals
    <3>2. touched[i] > MinInterval /\ reminded[i] > MinInterval
          BY <1>2, <3>1 DEF Remind, Eligible, ReminderTypeOK, Age, Old
    <3>3. Least(touched[i], reminded[i]) > MinInterval
          BY <3>2 DEF Least
    <3>4. QED BY <1>2, <3>3 DEF Remind, RemindersAreSpaced
  <2>3. 0 \in Age
        BY DEF Age, Old
  <2>4. ReminderTypeOK'
        BY <1>2, <2>1, <2>2, <2>3 DEF Remind, ReminderTypeOK
  <2>5. RemindersAreWhole'
        BY <1>2 DEF Remind, ReminderTypeOK, RemindersAreWhole
  <2>6. QED BY <2>2, <2>4, <2>5 DEF RemindersAreSpaced
<1>3. ASSUME NEW r \in runs, NEW i \in Items, FailItem(r, i) \/ SkipItem(r, i) PROVE ReminderInv'
  <2>1. /\ runs' \subseteq Run
        /\ \A s, t \in runs' : s.id = t.id => s = t
        BY <1>3, DoneType DEF FailItem, SkipItem
  <2>2. QED BY <1>3, <2>1 DEF FailItem, SkipItem, items, ReminderTypeOK, RemindersAreWhole,
                              RemindersAreSpaced
<1>4. ASSUME NEW r \in runs, EndRun(r) PROVE ReminderInv'
      BY <1>4 DEF EndRun, items, ReminderTypeOK, RemindersAreWhole, RemindersAreSpaced
<1>5. ASSUME NEW r \in runs, Crash(r) PROVE ReminderInv'
      BY <1>5 DEF Crash, items, ReminderTypeOK, RemindersAreWhole, RemindersAreSpaced
<1>6. ASSUME NEW i \in Items, Touch(i) \/ ArchiveItem(i) PROVE ReminderInv'
  <2>1. 0 \in Age
        BY DEF Age, Old
  <2>2. status' \in [Items -> {"pending", "other", "archived"}]
        BY <1>6 DEF Touch, ArchiveItem, ReminderTypeOK
  <2>3. QED BY <1>6, <2>1, <2>2 DEF Touch, ArchiveItem, ReminderTypeOK, RemindersAreWhole,
                                    RemindersAreSpaced
<1>7. ASSUME NEW i \in Items, ReviewersChange(i) PROVE ReminderInv'
      BY <1>7 DEF ReviewersChange, items, ReminderTypeOK, RemindersAreWhole, RemindersAreSpaced
<1>8. CASE UpdateSettings
      BY <1>8 DEF UpdateSettings, items, ReminderTypeOK, RemindersAreWhole, RemindersAreSpaced
<1>9. CASE Tick
  <2>1. /\ touched' \in [Items -> Age] /\ reminded' \in [Items -> Age]
        /\ logged' \in [Items -> Age]
        BY <1>9, OlderType DEF Tick, ReminderTypeOK
  <2> DEFINE F == [r \in runs |-> [r EXCEPT !.elapsed = @ + 1]]
  <2>2. \A r \in runs : F[r] \in Run /\ F[r].id = r.id
        BY <1>9 DEF Tick, ReminderTypeOK, Run
  <2>3. runs' = {F[r] : r \in runs}
        BY <1>9 DEF Tick
  <2>4. /\ runs' \subseteq Run
        /\ \A s, t \in runs' : s.id = t.id => s = t
    <3> HIDE DEF F
    <3> QED BY <2>2, <2>3, ReplacedRuns
  <2>5. RemindersAreWhole'
        BY <1>9 DEF Tick, RemindersAreWhole, Older
  <2>6. QED BY <1>9, <2>1, <2>4, <2>5 DEF Tick, ReminderTypeOK, RemindersAreSpaced
<1>10. CASE UNCHANGED reminderVars
      BY <1>10 DEF reminderVars, items, ReminderTypeOK, RemindersAreWhole, RemindersAreSpaced
<1>11. QED
      BY <1>1, <1>2, <1>3, <1>4, <1>5, <1>6, <1>7, <1>8, <1>9, <1>10
      DEF ReminderNext, RunStep

LEMMA ReminderInvariance == ReminderSpec => []ReminderInv
BY ReminderInitInv, ReminderStepInv, PTL DEF ReminderSpec

\* Every reachable state has the types of ReminderTypeOK, for all items, runs, intervals
\* and bounds (review-reminder.worker.ts).
THEOREM ReminderTypeCorrect == ReminderSpec => []ReminderTypeOK
BY ReminderInvariance, PTL DEF ReminderInv

\* The mark on an item and the entry in the log are set together, whatever fails
\* in between (processReviewItemReminder).
THEOREM Whole == ReminderSpec => []RemindersAreWhole
BY ReminderInvariance, PTL DEF ReminderInv

\* No reminder comes earlier than the least interval that can be configured
\* (updateLastReminderSentAtIfEligible).
THEOREM Spaced == ReminderSpec => []RemindersAreSpaced
BY ReminderInvariance, PTL DEF ReminderInv
=============================================================================
