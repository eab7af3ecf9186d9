-------------------------- MODULE ReminderSchedule --------------------------
(***************************************************************************)
(* How apps/backend keeps the reminders of one event: the `reminder`       *)
(* column of its row, and the `event_notification` rows that the worker    *)
(* claims when they are due.                                               *)
(*                                                                         *)
(* Saving reminder settings replaces the rows in one transaction.  Saving  *)
(* the event does not: it updates the event if nobody else has since it    *)
(* was read, and then reads, deletes and re-inserts the rows in statements *)
(* of their own, so that other requests, the clock, the worker and         *)
(* failures come in between.  Every statement or transaction is one step.  *)
(***************************************************************************)
EXTENDS Integers, FiniteSetsExt

CONSTANTS
    Request,       \* API requests that may be in flight at once
    Lead,          \* minutes_before values
    Start,         \* instants an event may start at
    Minute,        \* instants per minute
    LastInstant,   \* bound: the clock stops here
    MaxCopies,     \* bound: rows with the same type and lead
    MaxRequests,   \* bound: requests
    MaxFailures,   \* bound: requests that fail or are cut off midway
    Scenarios,     \* the cases to look at
    None,          \* no reminder
    Keep           \* a field the request leaves out

\* What the event is: the owner's own, a recurring one of theirs, or the copy of
\* an event they are invited to; whether its requests come one after the other;
\* and how many of them there are.
Scenario ==
    [event : {"own", "series", "invitation"}, alone : BOOLEAN, requests : 0 .. MaxRequests]

ASSUME ScheduleAssumption ==
    /\ Lead \subseteq Nat
    /\ Start \subseteq Nat
    /\ Minute \in Nat \ {0}
    /\ LastInstant \in Nat
    /\ MaxCopies \in Nat \ {0}
    /\ MaxRequests \in Nat
    /\ MaxFailures \in Nat
    /\ Scenarios \subseteq Scenario
    /\ None \notin Lead \cup Start
    /\ Keep \notin Lead \cup Start \cup {None}

Type == {"email", "browser"}
Copy == 1 .. MaxCopies

\* What a reminder is configured as; copies tell equal ones apart.
Config == [type : Type, lead : Lead, copy : Copy]
Row == [type : Type, lead : Lead, copy : Copy, at : Int, of : Start, sent : BOOLEAN]

VARIABLES
    scenario,  \* the case, chosen once
    now,       \* the clock
    event,     \* the calendar_event row: whether it is there, its start, its reminder
    version,   \* its updated_at: a new value with every write
    rows,      \* its event_notification rows; `of` is the start they were computed from
    pc,        \* where each request stands
    seen,      \* the version an update has read
    ask,       \* the start and reminder it asks for
    from,      \* the start it schedules reminders for
    asOf,      \* the instant at which a save of settings looked at the clock
    todo,      \* reminders it is still to insert
    missed,    \* reminders that a delete of them has not seen: inserted since it looked
    requests,  \* requests left
    failures,  \* failures left
    broken     \* what went wrong with the rows since settings were last saved: a rebuild was
               \* cut off, the event started before the last of them was inserted, or a
               \* delete of reminders crossed a save

eventVars == <<event, version, rows>>
requestVars == <<pc, seen, ask, from, asOf, todo, missed>>
vars == <<scenario, now, eventVars, requestVars, requests, failures, broken>>

IsSeries == scenario.event = "series"
IsInvitation == scenario.event = "invitation"

Live == event.state = "live"
Idle(h) == pc[h] = "idle"
NoAsk == [start |-> Keep, reminder |-> Keep, notify |-> TRUE]

Init ==
    /\ scenario \in Scenarios
    /\ now = 0
    /\ event \in [state : {"none"}, start : Start, reminder : {None}]
    /\ version = 0
    /\ rows = {}
    /\ pc = [h \in Request |-> "idle"]
    /\ seen = [h \in Request |-> 0]
    /\ ask = [h \in Request |-> NoAsk]
    /\ from = [h \in Request |-> None]
    /\ asOf = [h \in Request |-> 0]
    /\ todo = [h \in Request |-> {}]
    /\ missed = [h \in Request |-> {}]
    /\ requests = scenario.requests
    /\ failures = MaxFailures
    /\ broken = {}

-----------------------------------------------------------------------------
(* When a reminder fires                                                     *)

\* Mutant: rounds the other way.
RoundToNextMinute(i) == (i - (i % Minute)) + Minute

RoundToMinute(i) == i - (i % Minute)

CalculateNotificationTime(start, lead) == RoundToMinute(start - lead * Minute)

\* For an event that has not started: at its lead time, or on the next minute
\* when that has passed.
ReminderTime(start, lead, i) ==
    LET t == CalculateNotificationTime(start, lead)
    IN  IF t > i THEN t ELSE RoundToMinute(i) + Minute

RowOf(c, k, start, i) ==
    [type |-> c.type, lead |-> c.lead, copy |-> k,
     at |-> ReminderTime(start, c.lead, i), of |-> start, sent |-> FALSE]

EmailConfig(m) == [type |-> "email", lead |-> m, copy |-> 1]
ConfigOf(r) == [type |-> r.type, lead |-> r.lead, copy |-> r.copy]
EmailLeads(S) == {c.lead : c \in {d \in S : d.type = "email"}}

-----------------------------------------------------------------------------
(* Requests                                                                  *)

Begin(h) ==
    /\ Idle(h)
    /\ scenario.alone => \A g \in Request : Idle(g)
    /\ requests > 0
    /\ requests' = requests - 1

Goto(h, p) == pc' = [pc EXCEPT ![h] = p]

WriteEvent(e) == event' = e /\ version' = version + 1

\* The reminder that a save of the event with this reminder schedules.
EventReminder(m, notify) == IF m \in Lead \ {0} /\ notify THEN {EmailConfig(m)} ELSE {}

\* The request is answered, or dropped.
Done(h) ==
    /\ Goto(h, "idle")
    /\ seen' = [seen EXCEPT ![h] = 0]
    /\ ask' = [ask EXCEPT ![h] = NoAsk]
    /\ from' = [from EXCEPT ![h] = None]
    /\ asOf' = [asOf EXCEPT ![h] = 0]
    /\ todo' = [todo EXCEPT ![h] = {}]

\* These are inserted: a delete of reminders that has looked does not see them.
Inserted(S) ==
    missed' = [g \in Request |-> IF pc[g] = "clear" THEN missed[g] \cup S ELSE missed[g]]

\* It goes on to insert these reminders, if any.
Insert(h, configs) ==
    \/ configs = {} /\ Done(h)
    \/ /\ configs # {}
       /\ Goto(h, "insert")
       /\ todo' = [todo EXCEPT ![h] = configs]
       /\ UNCHANGED <<seen, ask, from, asOf>>

\* Creating, or duplicating, an event: its row, then its reminder.  The copy of
\* an invitation is imported without one.
Create(h) ==
    /\ Begin(h)
    /\ event.state = "none"
    /\ \E s \in Start, m \in Lead \cup {None}, notify \in BOOLEAN :
        /\ IsInvitation => m = None
        /\ WriteEvent([state |-> "live", start |-> s, reminder |-> m])
        /\ todo' = [todo EXCEPT ![h] = EventReminder(m, notify)]
        /\ Goto(h, IF EventReminder(m, notify) = {} THEN "idle" ELSE "insert")
        /\ from' = [from EXCEPT ![h] = IF EventReminder(m, notify) = {} THEN None ELSE s]
    /\ UNCHANGED <<scenario, now, rows, seen, ask, asOf, missed, failures, broken>>

\* An update reads the event and the owner's settings ...
BeginUpdate(h) ==
    /\ Begin(h)
    /\ Live
    /\ ~IsInvitation
    /\ \E s \in Start \cup {Keep}, m \in Lead \cup {None, Keep}, notify \in BOOLEAN :
        /\ ask' = [ask EXCEPT ![h] = [start |-> s, reminder |-> m, notify |-> notify]]
        /\ from' = [from EXCEPT ![h] = IF s = Keep THEN event.start ELSE s]
    /\ seen' = [seen EXCEPT ![h] = version]
    /\ Goto(h, "update")
    /\ UNCHANGED <<scenario, now, eventVars, asOf, todo, missed, failures, broken>>

\* Mutant: the update does not look at updated_at.
UnchangedSinceAny(h) == TRUE

UnchangedSince(h) == version = seen[h]

Given(field, old) == IF field = Keep THEN old ELSE field

\* ... writes the event if it is as it was read, and refuses otherwise ...
ApplyUpdate(h) ==
    /\ pc[h] = "update"
    /\ IF Live /\ UnchangedSince(h)
       THEN /\ WriteEvent([event EXCEPT !.start = Given(ask[h].start, @),
                                        !.reminder = Given(ask[h].reminder, @)])
            /\ Goto(h, "plan")
            /\ UNCHANGED <<seen, ask, from, asOf, todo>>
       ELSE Done(h) /\ UNCHANGED <<event, version>>
    /\ UNCHANGED <<scenario, now, rows, missed, requests, failures, broken>>

Existing == {ConfigOf(r) : r \in rows}

\* ... reads the reminders to rebuild ...
PlanReminders(h) ==
    /\ pc[h] = "plan"
    /\ todo' = [todo EXCEPT ![h] =
        IF ask[h].reminder = Keep THEN Existing
        ELSE EventReminder(ask[h].reminder, ask[h].notify)]
    /\ Goto(h, "delete")
    /\ UNCHANGED <<scenario, now, eventVars, seen, ask, from, asOf, missed, requests, failures,
                  broken>>

\* Mutant: reminders that are waiting are left in place.
LeftByDeleteUnsent == {r \in rows : ~r.sent}

LeftByDelete == {}

\* ... deletes the old ones ...
DeleteOld(h) ==
    /\ pc[h] = "delete"
    /\ rows' = LeftByDelete
    /\ Insert(h, todo[h])
    /\ UNCHANGED <<scenario, now, event, version, missed, requests, failures, broken>>

FreeCopies(c) == {k \in Copy : \A r \in rows : ConfigOf(r) # [c EXCEPT !.copy = k]}

\* Mutant: the insert does not need the event.
HasEventAlways == TRUE

\* The rows' foreign key.
HasEvent == Live

\* ... and inserts the new ones: none once the event has started, and an error
\* when it is gone.
InsertNext(h) ==
    /\ pc[h] = "insert"
    /\ \E c \in todo[h] :
        \/ /\ from[h] <= now
           /\ Insert(h, todo[h] \ {c})
           /\ UNCHANGED missed
           /\ broken' = broken \cup (IF rows # {} THEN {"late"} ELSE {})
           /\ UNCHANGED rows
        \/ /\ from[h] > now /\ HasEvent
           /\ \E k \in FreeCopies(c) :
                /\ \A i \in FreeCopies(c) : k <= i
                /\ rows' = rows \cup {RowOf(c, k, from[h], now)}
                /\ Inserted({[c EXCEPT !.copy = k]})
           /\ Insert(h, todo[h] \ {c})
           /\ UNCHANGED broken
        \/ /\ from[h] > now /\ ~HasEvent
           /\ Done(h)
           /\ UNCHANGED <<rows, missed, broken>>
    /\ UNCHANGED <<scenario, now, event, version, requests, failures>>

\* Mutant: the column follows the longest lead.
ReminderFieldLast(S) == IF EmailLeads(S) = {} THEN None ELSE Max(EmailLeads(S))

ReminderField(S) == IF EmailLeads(S) = {} THEN None ELSE Min(EmailLeads(S))

\* Mutant: the settings that are kept stay as they were.
ReplacedByKeeping(S) == rows \cup S

ReplacedBy(S) == S

\* Saving settings: the event is read, and the enabled ones are scheduled ...
BeginSet(h) ==
    /\ Begin(h)
    /\ Live
    /\ \E S \in SUBSET [type : Type, lead : Lead, copy : {1}] :
        /\ ask' = [ask EXCEPT ![h].reminder = ReminderField(S)]
        /\ todo' = [todo EXCEPT ![h] = IF event.start <= now THEN {} ELSE S]
    /\ from' = [from EXCEPT ![h] = event.start]
    /\ asOf' = [asOf EXCEPT ![h] = now]
    /\ Goto(h, "set")
    /\ UNCHANGED <<scenario, now, eventVars, seen, missed, failures, broken>>

\* ... and replace the rows, together with the column, in one transaction.
CommitSet(h) ==
    /\ pc[h] = "set"
    /\ IF Live
       THEN LET saved == {RowOf(c, 1, from[h], asOf[h]) : c \in todo[h]}
            IN  /\ WriteEvent([event EXCEPT !.reminder = ask[h].reminder])
                /\ rows' = ReplacedBy(saved)
                /\ Inserted({ConfigOf(r) : r \in saved})
                /\ broken' = {}
       ELSE UNCHANGED <<eventVars, missed, broken>>
    /\ Done(h)
    /\ UNCHANGED <<scenario, now, requests, failures>>

\* Deleting the reminders is one transaction as well, but its first statement
\* deletes the rows it sees, without a lock on the event ...
DeleteReminders(h) ==
    /\ Begin(h)
    /\ Live
    /\ Goto(h, "clear")
    /\ UNCHANGED <<scenario, now, eventVars, seen, ask, from, asOf, todo, missed, failures,
                  broken>>

\* ... and its second clears the column, whatever was inserted in between.
ClearReminder(h) ==
    /\ pc[h] = "clear"
    /\ IF Live
       THEN /\ WriteEvent([event EXCEPT !.reminder = None])
            /\ rows' = {r \in rows : ConfigOf(r) \in missed[h]}
            /\ broken' = broken \cup (IF rows' # {} THEN {"crossed"} ELSE {})
       ELSE UNCHANGED <<eventVars, broken>>
    /\ Done(h)
    /\ missed' = [missed EXCEPT ![h] = {}]
    /\ UNCHANGED <<scenario, now, requests, failures>>

DeleteEvent(h) ==
    /\ Begin(h)
    /\ Live
    /\ WriteEvent([event EXCEPT !.state = "deleted"])
    /\ rows' = {}
    /\ UNCHANGED <<scenario, now, requestVars, failures, broken>>

\* An invitation that is declined and removed: its reminders are deleted ...
PurgeReminders(h) ==
    /\ Begin(h)
    /\ Live
    /\ IsInvitation
    /\ rows' = {}
    /\ Goto(h, "purge")
    /\ UNCHANGED <<scenario, now, event, version, seen, ask, from, asOf, todo, missed, failures,
                  broken>>

\* The foreign key's ON DELETE CASCADE.
Cascades == {}

\* ... and then, by a statement of its own, the event.
PurgeEvent(h) ==
    /\ pc[h] = "purge"
    /\ IF Live
       THEN WriteEvent([event EXCEPT !.state = "deleted"]) /\ rows' = Cascades
       ELSE UNCHANGED eventVars
    /\ Done(h)
    /\ UNCHANGED <<scenario, now, missed, requests, failures, broken>>

\* Saves that leave start and reminder alone: bulk moves, sealed content and
\* updates that give neither a time nor a reminder.
Touch(h) ==
    /\ Begin(h)
    /\ Live
    /\ WriteEvent(event)
    /\ UNCHANGED <<scenario, now, rows, requestVars, failures, broken>>

\* Editing a whole series writes its row and leaves its reminders.
EditSeries(h) ==
    /\ Begin(h)
    /\ Live
    /\ IsSeries /\ ~IsInvitation
    /\ \E s \in Start \cup {Keep}, m \in Lead \cup {Keep} :
        WriteEvent([event EXCEPT !.start = Given(s, @), !.reminder = Given(m, @)])
    /\ UNCHANGED <<scenario, now, rows, requestVars, failures, broken>>

\* So does importing the organizer's change of an invitation.
ImportInvitation(h) ==
    /\ Begin(h)
    /\ Live
    /\ IsInvitation
    /\ \E s \in Start : WriteEvent([event EXCEPT !.start = s])
    /\ UNCHANGED <<scenario, now, rows, requestVars, failures, broken>>

\* A statement fails or the server goes down: what is committed stays.
Abort(h) ==
    /\ ~Idle(h)
    /\ failures > 0
    /\ failures' = failures - 1
    /\ broken' = broken \cup (IF pc[h] \in {"plan", "delete", "insert"} THEN {"cut"} ELSE {})
    /\ Done(h)
    /\ missed' = [missed EXCEPT ![h] = {}]
    /\ UNCHANGED <<scenario, now, eventVars, requests>>

-----------------------------------------------------------------------------
Due(r) == r.at <= now /\ ~r.sent

\* The worker's transaction: due rows are marked sent and their jobs queued.
ClaimDue ==
    /\ \E r \in rows : Due(r)
    /\ rows' = {IF Due(r) THEN [r EXCEPT !.sent = TRUE] ELSE r : r \in rows}
    /\ UNCHANGED <<scenario, now, event, version, requestVars, requests, failures, broken>>

TimePasses ==
    /\ now < LastInstant
    /\ now' = now + 1
    /\ UNCHANGED <<scenario, eventVars, requestVars, requests, failures, broken>>

UpdateStep(h) == ApplyUpdate(h) \/ PlanReminders(h) \/ DeleteOld(h) \/ InsertNext(h)

Next ==
    \/ \E h \in Request :
        \/ Create(h) \/ BeginUpdate(h) \/ UpdateStep(h)
        \/ BeginSet(h) \/ CommitSet(h) \/ DeleteReminders(h) \/ ClearReminder(h)
        \/ DeleteEvent(h) \/ PurgeReminders(h) \/ PurgeEvent(h)
        \/ Touch(h) \/ EditSeries(h) \/ ImportInvitation(h)
        \/ Abort(h)
    \/ ClaimDue
    \/ TimePasses

Spec == Init /\ [][Next]_vars

-----------------------------------------------------------------------------
TypeOK ==
    /\ scenario \in Scenarios
    /\ now \in 0 .. LastInstant
    /\ event \in [state : {"none", "live", "deleted"}, start : Start, reminder : Lead \cup {None}]
    /\ version \in Nat
    /\ rows \in SUBSET Row
    /\ pc \in [Request -> {"idle", "update", "plan", "delete", "insert", "set", "clear", "purge"}]
    /\ seen \in [Request -> Nat]
    /\ ask \in [Request -> [start : Start \cup {Keep}, reminder : Lead \cup {None, Keep}, notify : BOOLEAN]]
    /\ from \in [Request -> Start \cup {None}]
    /\ asOf \in [Request -> Nat]
    /\ todo \in [Request -> SUBSET Config]
    /\ missed \in [Request -> SUBSET Config]
    /\ requests \in 0 .. MaxRequests
    /\ failures \in 0 .. MaxFailures
    /\ broken \subseteq {"cut", "late", "crossed"}

Quiet == \A h \in Request : Idle(h)
Upcoming == Live /\ event.start > now

\* One request at a time writes the reminders, or only saves and deletes of the
\* reminders themselves do.  (Updates that overlap double them, and editing a series
\* leaves them behind.)
Undisturbed == IsInvitation \/ (scenario.alone /\ ~IsSeries)

\* The event's reminder column is the shortest lead of its email reminders,
\* whenever no request is under way, unless something went wrong since settings
\* were last saved: `set`, `create`, `update` and `delete` keep the two in step
\* across the clock, the worker and each other, and one more save puts right what
\* they did not.  (A rebuild that is cut off, or during which the event starts,
\* drops the reminders that are still to be inserted and leaves the column; and a
\* delete of reminders that crosses a save clears the column and leaves the saved
\* reminders.)
ColumnFollowsRows ==
    Undisturbed /\ Quiet /\ Upcoming /\ broken = {} /\ EmailLeads(rows) # {} =>
        event.reminder = Min(EmailLeads(rows))

\* Once a save is done, every reminder was computed from the start the event
\* now has, unless a rebuild was cut off since settings were last saved: none is left behind at the old time.
\* (Importing the organizer's change of an invitation does leave them.)
RowsFollowStart ==
    Undisturbed /\ ~IsInvitation /\ Quiet /\ "cut" \notin broken => \A r \in rows : r.of = event.start

DistinctRows == \A r, q \in rows : r.type = q.type /\ r.lead = q.lead => r = q

\* No event has two reminders of the same type and lead time, as `set` refuses.
OneRowPerLead == Undisturbed => DistinctRows

\* An update, or a save of settings, that is still under way when the event is
\* deleted leaves no reminder of it behind for the worker.
NoOrphans == ~Live => rows = {}

\* When an update has written the event, the start it goes on to schedule
\* reminders for is the event's, although it was read before the write.
ReschedulesCurrentStart ==
    [][\A h \in Request : pc[h] = "update" /\ pc'[h] = "plan" => from[h] = event'.start]_vars

\* A reminder of an upcoming event fires on a whole minute ahead: the last one
\* that is not after its lead time, or the very next one when that has passed.
FiresOnTime ==
    \A s \in Start, m \in Lead :
        s > now =>
            LET t == ReminderTime(s, m, now)
                ahead == {i \in now + 1 .. s : i % Minute = 0 /\ i <= s - m * Minute}
            IN  /\ t % Minute = 0
                /\ t > now
                /\ ahead # {} => t = Max(ahead)
                /\ ahead = {} => t <= now + Minute
=============================================================================
