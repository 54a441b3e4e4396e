---------------------------- MODULE Reminders ----------------------------
(***************************************************************************)
(* The review reminder worker on the items of one organization.             *)
(*                                                                          *)
(* EventBridge starts a run every hour, and delivers an event at least      *)
(* once, so that runs may overlap.  A run reads the settings of the         *)
(* organization, fixes the cutoff date, reads the eligible items and then   *)
(* takes them one after the other, each in a transaction of its own: a      *)
(* conditional UPDATE of lastReminderSentAt, the log entry, the event.  The *)
(* row stays locked from the UPDATE to the end of the transaction, which is *)
(* one step here.  The error of an item is swallowed and the run goes on.   *)
(* The organizations of a run are independent (Promise.allSettled).         *)
(*                                                                          *)
(* Times are ages in ticks, capped where nothing tells older from older.    *)
(* The specification is ReminderSpec, so that the proofs about both workers *)
(* can share a module (Workers_proofs).                                     *)
(***************************************************************************)
EXTENDS Integers

CONSTANTS
    Items,        \* review items of the organization, each in its own project
    Runs,         \* runs of the worker that may overlap
    MinInterval,  \* bounds of reminderIntervalDays, in ticks
    MaxInterval,
    RunTime       \* ticks a run may last (the Lambda is stopped after 15 s)

ASSUME IntervalsAssumption == /\ MinInterval \in Nat \ {0}
                              /\ MaxInterval \in Nat /\ MinInterval <= MaxInterval
ASSUME BoundsAssumption    == RunTime \in Nat

VARIABLES
    status,    \* status[i]: "pending" (PENDING_REVIEW), "other" or "archived"
    touched,   \* touched[i]: age of updatedAt
    reminded,  \* reminded[i]: age of lastReminderSentAt, Old when it is null
    logged,    \* logged[i]: age of the last REMINDER_SENT entry, Old without one
    settings,  \* reminderEnabled and reminderIntervalDays of the organization
    linked,    \* items whose project has an active reviewer
    system,    \* is there a row in users with the id 'system'?
    runs,      \* runs in progress
    early      \* items reminded within the shortest interval after a change or
               \* another reminder (for the properties)

items == <<status, touched, reminded, logged, early>>
reminderVars  == <<items, settings, linked, system, runs>>

-----------------------------------------------------------------------------
Intervals == MinInterval..MaxInterval
\* No cutoff lies further back than Old - 1.
Old == MaxInterval + RunTime + 1
Age == 0..Old

Settings == [enabled : BOOLEAN, interval : Intervals]
Run == [id : Runs, interval : Intervals, elapsed : 0..RunTime, todo : SUBSET Items]

Least(a, b) == IF a < b THEN a ELSE b
Older(age)  == [i \in Items |-> Least(age[i] + 1, Old)]

\* The condition of findEligibleForReminder and updateLastReminderSentAtIfEligible
\* for the cutoff of a run that started "elapsed" ticks ago.
Eligible(i, interval, elapsed) ==
    /\ status[i] = "pending"
    /\ touched[i] > interval + elapsed
    /\ reminded[i] > interval + elapsed

\* What follows the UPDATE succeeds when the log entry finds its actor, the user
\* 'system', in users, and when there is nobody to notify: no recipient passes
\* validateRecipientInvariant.
Deliverable(i) == system /\ i \notin linked

ReminderInit ==
    /\ status = [i \in Items |-> "pending"]
    /\ touched = [i \in Items |-> 0]
    /\ reminded = [i \in Items |-> Old]
    /\ logged = [i \in Items |-> Old]
    /\ early = {}
    /\ settings \in Settings
    /\ linked \in SUBSET Items
    /\ system \in BOOLEAN
    /\ runs = {}

(* The worker *)

\* handler, processOrganizationReminders: settings, cutoff, eligible items.
StartRun(q) ==
    /\ \A r \in runs : r.id # q
    /\ settings.enabled
    /\ runs' = runs \cup {[id |-> q, interval |-> settings.interval, elapsed |-> 0,
                           todo |-> {i \in Items : Eligible(i, settings.interval, 0)}]}
    /\ UNCHANGED <<items, settings, linked, system>>

\* A faulty variant: the run goes on without having left the item behind.
DoneTwice(r, i) == runs' = runs \cup {[r EXCEPT !.todo = @ \ {i}]}
Done(r, i) == runs' = (runs \ {r}) \cup {[r EXCEPT !.todo = @ \ {i}]}

\* A faulty variant: the UPDATE selects the row by its id alone.
RemindUnchecked(r, i) ==
    /\ i \in r.todo
    /\ status[i] = "pending"
    /\ Deliverable(i)
    /\ reminded' = [reminded EXCEPT ![i] = 0]
    /\ touched' = [touched EXCEPT ![i] = 0]
    /\ logged' = [logged EXCEPT ![i] = 0]
    /\ early' = IF Least(touched[i], reminded[i]) > MinInterval THEN early
                                                               ELSE early \cup {i}
    /\ Done(r, i)
    /\ UNCHANGED <<status, settings, linked, system>>

\* processReviewItemReminder: the row still matches, the reminder is committed;
\* the UPDATE also sets updatedAt.
Remind(r, i) ==
    /\ i \in r.todo
    /\ Eligible(i, r.interval, r.elapsed)
    /\ Deliverable(i)
    /\ reminded' = [reminded EXCEPT ![i] = 0]
    /\ touched' = [touched EXCEPT ![i] = 0]
    /\ logged' = [logged EXCEPT ![i] = 0]
    /\ early' = IF Least(touched[i], reminded[i]) > MinInterval THEN early
                                                            ELSE early \cup {i}
    /\ Done(r, i)
    /\ UNCHANGED <<status, settings, linked, system>>

\* A faulty variant: the UPDATE runs on the shared client and stays.
FailItemMarked(r, i) ==
    /\ i \in r.todo
    /\ Eligible(i, r.interval, r.elapsed)
    /\ ~Deliverable(i)
    /\ reminded' = [reminded EXCEPT ![i] = 0]
    /\ Done(r, i)
    /\ UNCHANGED <<status, touched, logged, early, settings, linked, system>>

\* A faulty variant: the error of an item ends the run.
FailItemStops(r, i) ==
    /\ i \in r.todo
    /\ Eligible(i, r.interval, r.elapsed)
    /\ ~Deliverable(i)
    /\ runs' = (runs \ {r}) \cup {[r EXCEPT !.todo = {}]}
    /\ UNCHANGED <<items, settings, linked, system>>

\* The transaction of the item is rolled back and processReviewItem swallows the
\* error.
FailItem(r, i) ==
    /\ i \in r.todo
    /\ Eligible(i, r.interval, r.elapsed)
    /\ ~Deliverable(i)
    /\ Done(r, i)
    /\ UNCHANGED <<items, settings, linked, system>>

\* The UPDATE matches no row: the item has changed, or another run was first.
SkipItem(r, i) ==
    /\ i \in r.todo
    /\ ~Eligible(i, r.interval, r.elapsed)
    /\ Done(r, i)
    /\ UNCHANGED <<items, settings, linked, system>>

EndRun(r) ==
    /\ r.todo = {}
    /\ runs' = runs \ {r}
    /\ UNCHANGED <<items, settings, linked, system>>

\* The Lambda is stopped between two items, this run or every run.
Crash(r) ==
    /\ runs' = runs \ {r}
    /\ UNCHANGED <<items, settings, linked, system>>

(* The rest of the system *)

\* A decision or an upload: updatedAt is set, and the status may change.
Touch(i) ==
    /\ status[i] # "archived"
    /\ status' \in {[status EXCEPT ![i] = s] : s \in {"pending", "other"}}
    /\ touched' = [touched EXCEPT ![i] = 0]
    /\ UNCHANGED <<reminded, logged, early, settings, linked, system, runs>>

ArchiveItem(i) ==
    /\ status[i] # "archived"
    /\ status' = [status EXCEPT ![i] = "archived"]
    /\ touched' = [touched EXCEPT ![i] = 0]
    /\ UNCHANGED <<reminded, logged, early, settings, linked, system, runs>>

\* updateOrganization, of the reminder settings.
UpdateSettings ==
    /\ settings' \in Settings \ {settings}
    /\ UNCHANGED <<items, linked, system, runs>>

ReviewersChange(i) ==
    /\ linked' = IF i \in linked THEN linked \ {i} ELSE linked \cup {i}
    /\ UNCHANGED <<items, settings, system, runs>>

\* Time passes; no run outlives RunTime.
Tick ==
    /\ \A r \in runs : r.elapsed < RunTime
    /\ touched' = Older(touched)
    /\ reminded' = Older(reminded)
    /\ logged' = Older(logged)
    /\ runs' = {[r EXCEPT !.elapsed = @ + 1] : r \in runs}
    /\ UNCHANGED <<status, early, settings, linked, system>>

RunStep(q) ==
    \E r \in runs : /\ r.id = q
                    /\ \/ \E i \in Items : Remind(r, i) \/ FailItem(r, i) \/ SkipItem(r, i)
                       \/ EndRun(r)

ReminderNext ==
    \/ \E q \in Runs : StartRun(q) \/ RunStep(q)
    \/ \E r \in runs : Crash(r)
    \/ \E i \in Items : Touch(i) \/ ArchiveItem(i) \/ ReviewersChange(i)
    \/ UpdateSettings \/ Tick

ReminderSpec == ReminderInit /\ [][ReminderNext]_reminderVars

-----------------------------------------------------------------------------
(* Properties *)

\* Types, and one record for each run.
ReminderTypeOK ==
    /\ status \in [Items -> {"pending", "other", "archived"}]
    /\ touched \in [Items -> Age]
    /\ reminded \in [Items -> Age]
    /\ logged \in [Items -> Age]
    /\ early \subseteq Items
    /\ settings \in Settings
    /\ linked \subseteq Items
    /\ system \in BOOLEAN
    /\ runs \subseteq Run
    /\ \A r, s \in runs : r.id = s.id => r = s

\* A reminder is recorded as a whole or not at all: the mark on the item that keeps
\* it from being reminded again is there exactly when the log says so, although
\* most transactions fail after the mark has been set (processReviewItemReminder).
RemindersAreWhole == \A i \in Items : reminded[i] = logged[i]

\* No reminder follows another reminder, or any other change of its item, within
\* the shortest interval ever configured, with runs that overlap and work with an
\* old list and an old cutoff (updateLastReminderSentAtIfEligible).
RemindersAreSpaced == early = {}

\* The worker's condition for taking an item into its list.
Due(i) == settings.enabled /\ Eligible(i, settings.interval, 0)

\* While runs reach the end of their lists again and again, an item stays due
\* through its own failures only, one after the other: the failures of other items
\* take nothing from its turn (processReviewItem).  Nothing is said of a system in
\* which every run is stopped, and an item with somebody to remind does stay due.
ItemsGetTheirTurn ==
    \A i \in Items :
        /\ []<><<\E r \in runs : EndRun(r)>>_reminderVars
        /\ <>[]Due(i)
        => []<><<\E r \in runs : FailItem(r, i)>>_reminderVars
=============================================================================
