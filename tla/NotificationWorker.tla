------------------------- MODULE NotificationWorker -------------------------
(***************************************************************************)
(* The reminder delivery worker of apps/notifications.                     *)
(*                                                                         *)
(* Every few seconds a worker process starts a tick.  A tick claims due    *)
(* `event_notification` rows (queueing one `notification_job` row per      *)
(* channel in the same transaction), leases the available jobs, and then   *)
(* delivers them one after the other by mail or push, writing the outcome  *)
(* of each back to its row.  Ticks overlap, worker processes overlap       *)
(* during a deploy, and a tick may be dropped at any await by its timeout  *)
(* or by the end of its process.                                           *)
(*                                                                         *)
(* Every SQL statement or transaction is one step, and so is every         *)
(* delivery request.  Instants are kept as the time left until them, so    *)
(* TimePasses is the only clock.                                           *)
(***************************************************************************)
EXTENDS Integers, FiniteSets

CONSTANTS
    Reminder,          \* event_notification rows of one account
    Prefs,             \* the notification settings it may have
    Device,            \* push tokens of that account
    ReminderDevice,    \* those registered by the Calendar app
    Worker,            \* worker processes
    Slot,              \* ticks of one process that may run at once
    MaxCopies,         \* bound: rows per reminder and channel
    MaxAttempts,       \* MAX_ATTEMPTS
    NoDeviceAttempts,  \* attempts before a push without devices is skipped
    ClaimLimit,        \* CLAIM_LIMIT and the LIMIT of CLAIM_DUE
    TickTimeout,       \* TICK_TIMEOUT
    Lease,             \* the lease CLAIM_PENDING takes
    Drain,             \* DRAIN
    RetryBase,         \* RETRY_BASE
    RetryCap,          \* RETRY_CAP
    HasMailer,         \* a mailer is configured
    HasApns,           \* APNs is configured
    MaxDisruptions,    \* bound: crashes, deploys, timeouts, failed statements
    None               \* no job

Channel == {"email", "push"}
Tick == Worker \X Slot

(***************************************************************************)
(* A job row is identified by the reminder and channel it carries and a    *)
(* copy number (the table's ids are random and never reused).              *)
(***************************************************************************)
Job == Reminder \X Channel \X (1 .. MaxCopies)
ReminderOf(j) == j[1]
ChannelOf(j) == j[2]

ASSUME TimeAssumption ==
    /\ TickTimeout \in Nat \ {0}
    /\ Lease \in Nat
    /\ Drain \in Nat
    /\ TickTimeout < Lease
    /\ TickTimeout < Drain

ASSUME RetryAssumption ==
    /\ RetryBase \in Nat \ {0}
    /\ RetryCap \in Nat
    /\ RetryBase <= RetryCap
    /\ MaxAttempts \in Nat \ {0}
    /\ NoDeviceAttempts \in Nat

ASSUME BoundAssumption ==
    /\ MaxCopies \in Nat
    /\ MaxDisruptions \in Nat
    /\ ClaimLimit \in Nat \ {0}

Settings == [email : BOOLEAN, push : BOOLEAN, own : BOOLEAN]

ASSUME SetAssumption ==
    /\ Prefs \subseteq Settings
    /\ ReminderDevice \subseteq Device
    /\ HasMailer \in BOOLEAN
    /\ HasApns \in BOOLEAN
    /\ None \notin Job

VARIABLES
    \* event_notification rows, and what their owner chose
    reminder,   \* "scheduled", "due" or, once is_sent, "claimed"
    prefs,      \* email and push settings, and whether the mail is their own
    gone,       \* reminders whose event was deleted
    device,     \* enabled push_device rows
    \* notification_job rows
    status,     \* "absent", "pending", "sent" or "skipped"
    fallback,   \* payload.emailFallback
    attempts,   \* attempts
    wait,       \* time left until available_at
    \* running ticks
    pc,         \* where the tick stands
    left,       \* time left of its timeout
    claim,      \* attempts of each job it still holds, 0 for the others
    cur,        \* the job being delivered
    todo,       \* devices still to be sent to
    allSent,    \* no device has failed so far
    \* worker processes
    mode,       \* "running", "draining" or "stopped"
    drain,      \* time left of the shutdown wait
    \* the environment and what it has seen
    budget,     \* disruptions left
    tries,      \* deliveries of a job that were started
    mails,      \* times the mail server accepted a job's mail
    got         \* devices that accepted a job's push

rowVars == <<reminder, prefs, gone, device>>
jobVars == <<status, fallback, attempts, wait>>
tickVars == <<pc, left, claim, cur, todo, allSent>>
procVars == <<mode, drain>>
seenVars == <<tries, mails, got>>
vars == <<rowVars, jobVars, tickVars, procVars, budget, seenVars>>

Pc == {"idle", "due", "claim", "deliver", "mail", "push", "skip", "sent", "failed"}
Delivering == {"mail", "push", "skip", "sent", "failed"}
NoClaim == [j \in Job |-> 0]
Busy(t) == pc[t] # "idle"
Holds(t, j) == claim[t][j] > 0

-----------------------------------------------------------------------------
Init ==
    /\ reminder = [r \in Reminder |-> "scheduled"]
    /\ prefs \in [Reminder -> Prefs]
    /\ gone = {}
    /\ device \in SUBSET Device
    /\ status = [j \in Job |-> "absent"]
    /\ fallback = [j \in Job |-> FALSE]
    /\ attempts = [j \in Job |-> 0]
    /\ wait = [j \in Job |-> 0]
    /\ pc = [t \in Tick |-> "idle"]
    /\ left = [t \in Tick |-> 0]
    /\ claim = [t \in Tick |-> NoClaim]
    /\ cur = [t \in Tick |-> None]
    /\ todo = [t \in Tick |-> {}]
    /\ allSent = [t \in Tick |-> TRUE]
    /\ mode = [w \in Worker |-> "running"]
    /\ drain = [w \in Worker |-> 0]
    /\ budget = MaxDisruptions
    /\ tries = [j \in Job |-> 0]
    /\ mails = [j \in Job |-> 0]
    /\ got = [j \in Job |-> {}]

-----------------------------------------------------------------------------
(* The account: settings are read when a reminder is claimed, devices and    *)
(* the event when a job is delivered.                                        *)

\* The reminder's notification_time has passed.
BecomesDue(r) ==
    /\ reminder[r] = "scheduled"
    /\ reminder' = [reminder EXCEPT ![r] = "due"]
    /\ UNCHANGED <<prefs, gone, device, jobVars, tickVars, procVars, budget, seenVars>>

\* Deleting an event removes its reminders but leaves queued jobs behind.
DeleteEvent(r) ==
    /\ r \notin gone
    /\ gone' = gone \cup {r}
    /\ UNCHANGED <<reminder, prefs, device, jobVars, tickVars, procVars, budget, seenVars>>

RegisterDevice(d) ==
    /\ d \notin device
    /\ device' = device \cup {d}
    /\ UNCHANGED <<reminder, prefs, gone, jobVars, tickVars, procVars, budget, seenVars>>

UnregisterDevice(d) ==
    /\ d \in device
    /\ device' = device \ {d}
    /\ UNCHANGED <<reminder, prefs, gone, jobVars, tickVars, procVars, budget, seenVars>>

-----------------------------------------------------------------------------
(* Ticks                                                                     *)

\* A disruption the environment may still cause.
Disrupt == budget > 0 /\ budget' = budget - 1

MayStart(w) == mode[w] = "running"

\* The interval fires: a new tick runs beside those still going.
StartTick(t) ==
    /\ MayStart(t[1])
    /\ ~Busy(t)
    /\ pc' = [pc EXCEPT ![t] = "due"]
    /\ left' = [left EXCEPT ![t] = TickTimeout]
    /\ UNCHANGED <<rowVars, jobVars, claim, cur, todo, allSent, procVars, budget, seenVars>>

EmailDeferredToPush(r) ==
    prefs[r].email /\ prefs[r].push /\ device # {} /\ prefs[r].own

\* Mutant: the email is queued beside the push that stands in for it.
ChannelsForBoth(r) ==
    {c \in Channel :
        \/ c = "email" /\ prefs[r].email
        \/ c = "push" /\ prefs[r].push /\ device # {}}

ChannelsFor(r) ==
    {c \in Channel :
        \/ c = "email" /\ prefs[r].email /\ ~EmailDeferredToPush(r)
        \/ c = "push" /\ prefs[r].push /\ device # {}}

\* The row that a queued job of this reminder and channel becomes.
FreshJob(r, c) ==
    CHOOSE j \in Job : ReminderOf(j) = r /\ ChannelOf(j) = c /\ status[j] = "absent"

CanQueue(r, c) ==
    \E j \in Job : ReminderOf(j) = r /\ ChannelOf(j) = c /\ status[j] = "absent"

\* Rows are queued in one statement with status pending, no attempts, due now.
InsertJobs(new) ==
    /\ attempts' = [j \in Job |-> IF j \in new THEN 0 ELSE attempts[j]]
    /\ wait' = [j \in Job |-> IF j \in new THEN 0 ELSE wait[j]]

DueReminders == {r \in Reminder : reminder[r] = "due" /\ r \notin gone}

\* SQL's LIMIT: all the rows there are, or as many as the limit allows.
Limited(S, rows) ==
    /\ S \subseteq rows
    /\ Cardinality(S) <= ClaimLimit
    /\ Cardinality(S) < ClaimLimit => S = rows

\* One transaction marks due reminders sent and queues their jobs.
ClaimDueRows(S) ==
    LET new == UNION {{FreshJob(r, c) : c \in ChannelsFor(r)} : r \in S}
    IN  /\ \A r \in S : \A c \in ChannelsFor(r) : CanQueue(r, c)
        /\ reminder' = [r \in Reminder |-> IF r \in S THEN "claimed" ELSE reminder[r]]
        /\ status' = [j \in Job |-> IF j \in new THEN "pending" ELSE status[j]]
        /\ fallback' =
            [j \in Job |-> IF j \in new
                           THEN ChannelOf(j) = "push" /\ EmailDeferredToPush(ReminderOf(j))
                           ELSE fallback[j]]
        /\ InsertJobs(new)

\* process goes on to the pending jobs whether or not claim_due succeeded.
ClaimDue(t) ==
    /\ pc[t] = "due"
    /\ pc' = [pc EXCEPT ![t] = "claim"]
    /\ \/ \E S \in SUBSET DueReminders :
            /\ Limited(S, DueReminders)
            /\ ClaimDueRows(S)
            /\ UNCHANGED budget
       \/ /\ Disrupt
          /\ UNCHANGED <<reminder, jobVars>>
    /\ UNCHANGED <<prefs, gone, device, left, claim, cur, todo, allSent, procVars, seenVars>>

\* Mutant: the claim forgets available_at.
ClaimableIgnoringLease(j) == status[j] = "pending"

\* Mutant: the claim leaves exhausted jobs to nobody.
ClaimableWithAttemptsLeft(j) == status[j] = "pending" /\ wait[j] = 0 /\ attempts[j] < MaxAttempts

Claimable(j) == status[j] = "pending" /\ wait[j] = 0

\* Counts the attempt and leases the row; the lease is what keeps others away.
LeaseJobs(S) ==
    /\ attempts' = [j \in Job |-> IF j \in S THEN attempts[j] + 1 ELSE attempts[j]]
    /\ wait' = [j \in Job |-> IF j \in S THEN Lease ELSE wait[j]]

\* A failed claim ends the tick, even when the statement took effect.
ClaimPending(t) ==
    /\ pc[t] = "claim"
    /\ \/ \E S \in SUBSET {j \in Job : Claimable(j)} :
            /\ Limited(S, {j \in Job : Claimable(j)})
            /\ LeaseJobs(S)
            /\ \/ /\ pc' = [pc EXCEPT ![t] = IF S = {} THEN "idle" ELSE "deliver"]
                  /\ claim' = [claim EXCEPT ![t] =
                        [j \in Job |-> IF j \in S THEN attempts[j] + 1 ELSE 0]]
                  /\ UNCHANGED budget
               \/ /\ Disrupt
                  /\ pc' = [pc EXCEPT ![t] = "idle"]
                  /\ UNCHANGED claim
       \/ /\ Disrupt
          /\ pc' = [pc EXCEPT ![t] = "idle"]
          /\ UNCHANGED <<attempts, wait, claim>>
    /\ left' = [left EXCEPT ![t] = IF pc'[t] = "idle" THEN 0 ELSE left[t]]
    /\ UNCHANGED <<rowVars, status, fallback, cur, todo, allSent, procVars, seenVars>>

\* The claimed batch is done.
EndTick(t) ==
    /\ pc[t] = "deliver"
    /\ \A j \in Job : ~Holds(t, j)
    /\ pc' = [pc EXCEPT ![t] = "idle"]
    /\ left' = [left EXCEPT ![t] = 0]
    /\ UNCHANGED <<rowVars, jobVars, claim, cur, todo, allSent, procVars, budget, seenVars>>

-----------------------------------------------------------------------------
(* Delivering the claimed jobs, one after the other                          *)

Exhausted(a) == a >= MaxAttempts

EmailStep(r) ==
    IF ~HasMailer THEN "skip" ELSE IF r \in gone THEN "failed" ELSE "mail"

PushStep(r, a) ==
    IF ~HasApns THEN "skip"
    ELSE IF device = {} THEN IF a >= NoDeviceAttempts THEN "skip" ELSE "failed"
    ELSE IF device \cap ReminderDevice = {} THEN "skip"
    ELSE IF r \in gone THEN "failed" ELSE "push"

DispatchStep(j, a) ==
    IF Exhausted(a) THEN "skip"
    ELSE IF ChannelOf(j) = "email" THEN EmailStep(ReminderOf(j))
    ELSE PushStep(ReminderOf(j), a)

\* The lookups before a delivery; a failed query fails the job.
Dispatch(t, j) ==
    /\ pc[t] = "deliver"
    /\ Holds(t, j)
    /\ LET step == DispatchStep(j, claim[t][j])
       IN  \/ /\ pc' = [pc EXCEPT ![t] = step]
              /\ todo' = [todo EXCEPT ![t] = IF step = "push" THEN device \cap ReminderDevice ELSE {}]
              /\ tries' = [tries EXCEPT ![j] = IF step \in {"mail", "push"} THEN @ + 1 ELSE @]
              /\ UNCHANGED budget
           \/ /\ step # "skip"
              /\ Disrupt
              /\ pc' = [pc EXCEPT ![t] = "failed"]
              /\ UNCHANGED <<todo, tries>>
    /\ cur' = [cur EXCEPT ![t] = j]
    /\ allSent' = [allSent EXCEPT ![t] = TRUE]
    /\ UNCHANGED <<rowVars, jobVars, left, claim, procVars, mails, got>>

\* One submission to the mail server: accepted, refused, or accepted with the
\* answer lost.
SendMail(t) ==
    /\ pc[t] = "mail"
    /\ \/ /\ mails' = [mails EXCEPT ![cur[t]] = @ + 1]
          /\ \/ pc' = [pc EXCEPT ![t] = "sent"] /\ UNCHANGED budget
             \/ pc' = [pc EXCEPT ![t] = "failed"] /\ Disrupt
       \/ /\ pc' = [pc EXCEPT ![t] = "failed"]
          /\ UNCHANGED <<mails, budget>>
    /\ UNCHANGED <<rowVars, jobVars, left, claim, cur, todo, allSent, procVars, tries, got>>

\* A push counts as sent only when every addressed device accepted it.
PushOutcome(sentToAll) == IF sentToAll THEN "sent" ELSE "failed"

\* One APNs request: accepted, rejected, unregistered (the row is deleted), or
\* accepted with the answer lost.
SendToDevice(t, d) ==
    /\ pc[t] = "push"
    /\ d \in todo[t]
    /\ todo' = [todo EXCEPT ![t] = @ \ {d}]
    /\ \/ /\ got' = [got EXCEPT ![cur[t]] = @ \cup {d}]
          /\ \/ UNCHANGED <<allSent, budget>>
             \/ Disrupt /\ allSent' = [allSent EXCEPT ![t] = FALSE]
          /\ UNCHANGED device
       \/ /\ allSent' = [allSent EXCEPT ![t] = FALSE]
          /\ device' \in {device, device \ {d}}
          /\ UNCHANGED <<got, budget>>
    /\ pc' = [pc EXCEPT ![t] = IF todo[t] = {d} THEN PushOutcome(allSent'[t]) ELSE "push"]
    /\ UNCHANGED <<reminder, prefs, gone, jobVars, left, claim, cur, procVars, tries, mails>>

\* The tick turns to its next job.
NextJob(t) ==
    /\ pc' = [pc EXCEPT ![t] = "deliver"]
    /\ claim' = [claim EXCEPT ![t][cur[t]] = 0]
    /\ cur' = [cur EXCEPT ![t] = None]
    /\ allSent' = [allSent EXCEPT ![t] = TRUE]
    /\ UNCHANGED <<left, todo>>

\* mark_sent; its failure is only logged, and the lease runs on.
MarkSent(t) ==
    /\ pc[t] = "sent"
    /\ \/ status' = [status EXCEPT ![cur[t]] = "sent"] /\ UNCHANGED budget
       \/ Disrupt /\ UNCHANGED status
    /\ NextJob(t)
    /\ UNCHANGED <<rowVars, fallback, attempts, wait, procVars, seenVars>>

Doubling[a \in Nat] == IF a <= 1 THEN RetryBase ELSE 2 * Doubling[a - 1]

\* 15 s doubling per attempt, at most 15 minutes.
RetryDelay(a) == IF Doubling[a] \in 1 .. RetryCap THEN Doubling[a] ELSE RetryCap

\* mark_failed puts the row back whatever its status is.
MarkFailed(t) ==
    /\ pc[t] = "failed"
    /\ \/ /\ status' = [status EXCEPT ![cur[t]] = "pending"]
          /\ wait' = [wait EXCEPT ![cur[t]] = RetryDelay(claim[t][cur[t]])]
          /\ UNCHANGED budget
       \/ Disrupt /\ UNCHANGED <<status, wait>>
    /\ NextJob(t)
    /\ UNCHANGED <<rowVars, fallback, attempts, procVars, seenVars>>

QueuesFallback(j) == ChannelOf(j) = "push" /\ fallback[j]

\* Mutant: the job is skipped without its email.
SkipRowsAlone(j) ==
    /\ status' = [status EXCEPT ![j] = "skipped"]
    /\ UNCHANGED <<fallback, attempts, wait>>

\* One transaction: the job is skipped and the email it stood in for queued.
SkipRows(j) ==
    LET new == IF QueuesFallback(j) THEN {FreshJob(ReminderOf(j), "email")} ELSE {}
    IN  /\ QueuesFallback(j) => CanQueue(ReminderOf(j), "email")
        /\ status' = [i \in Job |-> IF i = j THEN "skipped"
                                    ELSE IF i \in new THEN "pending" ELSE status[i]]
        /\ fallback' = [i \in Job |-> IF i \in new THEN FALSE ELSE fallback[i]]
        /\ InsertJobs(new)

\* skip: a transaction that fails, or whose answer is lost, fails the job.
Skip(t) ==
    /\ pc[t] = "skip"
    /\ \/ SkipRows(cur[t]) /\ NextJob(t) /\ UNCHANGED budget
       \/ /\ Disrupt
          /\ SkipRows(cur[t]) \/ UNCHANGED jobVars
          /\ pc' = [pc EXCEPT ![t] = "failed"]
          /\ UNCHANGED <<left, claim, cur, todo, allSent>>
    /\ UNCHANGED <<rowVars, procVars, seenVars>>

-----------------------------------------------------------------------------
(* Time, timeouts and the life of a worker process                           *)

\* The future of the tick is dropped; what it holds stays leased.
DropTicks(T) ==
    /\ pc' = [t \in Tick |-> IF t \in T THEN "idle" ELSE pc[t]]
    /\ left' = [t \in Tick |-> IF t \in T THEN 0 ELSE left[t]]
    /\ claim' = [t \in Tick |-> IF t \in T THEN NoClaim ELSE claim[t]]
    /\ cur' = [t \in Tick |-> IF t \in T THEN None ELSE cur[t]]
    /\ todo' = [t \in Tick |-> IF t \in T THEN {} ELSE todo[t]]
    /\ allSent' = [t \in Tick |-> IF t \in T THEN TRUE ELSE allSent[t]]

TicksOf(w) == {t \in Tick : t[1] = w}

TickTimesOut(t) ==
    /\ Busy(t)
    /\ left[t] = 0
    /\ Disrupt
    /\ DropTicks({t})
    /\ UNCHANGED <<rowVars, jobVars, procVars, seenVars>>

\* A panic in a tick, or the host, ends the process with all its ticks.
Crash(w) ==
    /\ mode[w] # "stopped"
    /\ Disrupt
    /\ mode' = [mode EXCEPT ![w] = "stopped"]
    /\ drain' = [drain EXCEPT ![w] = 0]
    /\ DropTicks(TicksOf(w))
    /\ UNCHANGED <<rowVars, jobVars, seenVars>>

\* A deploy: no new ticks, and the process waits for the running ones.
Shutdown(w) ==
    /\ mode[w] = "running"
    /\ Disrupt
    /\ mode' = [mode EXCEPT ![w] = "draining"]
    /\ drain' = [drain EXCEPT ![w] = Drain]
    /\ UNCHANGED <<rowVars, jobVars, tickVars, seenVars>>

Exit(w) ==
    /\ mode[w] = "draining"
    /\ drain[w] = 0 \/ \A t \in TicksOf(w) : ~Busy(t)
    /\ mode' = [mode EXCEPT ![w] = "stopped"]
    /\ drain' = [drain EXCEPT ![w] = 0]
    /\ DropTicks(TicksOf(w))
    /\ UNCHANGED <<rowVars, jobVars, budget, seenVars>>

Restart(w) ==
    /\ mode[w] = "stopped"
    /\ mode' = [mode EXCEPT ![w] = "running"]
    /\ UNCHANGED <<rowVars, jobVars, tickVars, drain, budget, seenVars>>

Less(n) == IF n > 0 THEN n - 1 ELSE 0

\* Timers are punctual: time does not pass a deadline before it is acted on.
TimePasses ==
    /\ \A t \in Tick : Busy(t) => left[t] > 0
    /\ \A w \in Worker : mode[w] = "draining" => drain[w] > 0
    /\ wait' = [j \in Job |-> Less(wait[j])]
    /\ left' = [t \in Tick |-> Less(left[t])]
    /\ drain' = [w \in Worker |-> Less(drain[w])]
    /\ UNCHANGED <<rowVars, status, fallback, attempts, pc, claim, cur, todo, allSent, mode, budget, seenVars>>

TickStep(t) ==
    \/ ClaimDue(t)
    \/ ClaimPending(t)
    \/ EndTick(t)
    \/ \E j \in Job : Dispatch(t, j)
    \/ SendMail(t)
    \/ \E d \in Device : SendToDevice(t, d)
    \/ MarkSent(t)
    \/ MarkFailed(t)
    \/ Skip(t)

Account ==
    \/ \E r \in Reminder : BecomesDue(r) \/ DeleteEvent(r)
    \/ \E d \in Device : RegisterDevice(d) \/ UnregisterDevice(d)

Process ==
    \E w \in Worker : Crash(w) \/ Shutdown(w) \/ Exit(w) \/ Restart(w)

Next ==
    \/ Account
    \/ \E t \in Tick : StartTick(t) \/ TickStep(t) \/ TickTimesOut(t)
    \/ Process
    \/ TimePasses

Spec == Init /\ [][Next]_vars

(***************************************************************************)
(* Fairness: the interval keeps firing while a process runs, a stopped     *)
(* process is restarted by its host, every await completes, timers run.    *)
(* Nothing is assumed of the account, of the mail server's or APNs'        *)
(* answers, or of the disruptions, which are merely finite in number.      *)
(***************************************************************************)
Fairness ==
    /\ \A t \in Tick : WF_vars(StartTick(t)) /\ WF_vars(TickStep(t))
    /\ \A w \in Worker : WF_vars(Exit(w)) /\ WF_vars(Restart(w))
    /\ WF_vars(TimePasses)

FairSpec == Spec /\ Fairness

-----------------------------------------------------------------------------
TypeOK ==
    /\ reminder \in [Reminder -> {"scheduled", "due", "claimed"}]
    /\ prefs \in [Reminder -> Prefs]
    /\ gone \in SUBSET Reminder
    /\ device \in SUBSET Device
    /\ status \in [Job -> {"absent", "pending", "sent", "skipped"}]
    /\ fallback \in [Job -> BOOLEAN]
    /\ attempts \in [Job -> Nat]
    /\ wait \in [Job -> Nat]
    /\ pc \in [Tick -> Pc]
    /\ left \in [Tick -> Nat]
    /\ claim \in [Tick -> [Job -> Nat]]
    /\ cur \in [Tick -> Job \cup {None}]
    /\ \A t \in Tick : pc[t] \in Delivering => cur[t] \in Job
    /\ todo \in [Tick -> SUBSET Device]
    /\ allSent \in [Tick -> BOOLEAN]
    /\ mode \in [Worker -> {"running", "draining", "stopped"}]
    /\ drain \in [Worker -> Nat]
    /\ budget \in 0 .. MaxDisruptions
    /\ tries \in [Job -> Nat]
    /\ mails \in [Job -> Nat]
    /\ got \in [Job -> SUBSET Device]

\* No job is in the hands of two ticks, of one process or of two: the lease
\* outlives the tick that took it, however slowly that tick delivers its batch.
LeaseExclusive ==
    \A t1, t2 \in Tick : \A j \in Job : Holds(t1, j) /\ Holds(t2, j) => t1 = t2

\* A job is handed to the mail server or to APNs at most MAX_ATTEMPTS - 1
\* times, over all retries, expired leases, crashes and lost answers.
AttemptsBounded == \A j \in Job : tries[j] < MaxAttempts

EmailRows(r) == {j \in Job : ReminderOf(j) = r /\ ChannelOf(j) = "email" /\ status[j] # "absent"}

\* A reminder email the owner asked for is never lost: once the reminder is
\* claimed there is an email job, or a push job standing in for it that has
\* not been skipped.  It holds across crashes between any two statements.
EmailNotLost ==
    \A r \in Reminder :
        reminder[r] = "claimed" /\ prefs[r].email =>
            \/ EmailRows(r) # {}
            \/ \E j \in Job : /\ ReminderOf(j) = r
                              /\ QueuesFallback(j)
                              /\ status[j] \in {"pending", "sent"}

Disruptions == MaxDisruptions - budget

\* The mail server accepts a job's mail once, and once more per crash, timeout
\* or failed statement at most: retries alone never mail a reminder twice.
OnlyDisruptionsRemail == \A j \in Job : mails[j] <= 1 + Disruptions

\* A reminder gets one email job, whether claim_due or a skipped push queued
\* it, and one more per lost answer of a skip at most.
OnlyDisruptionsRequeue == \A r \in Reminder : Cardinality(EmailRows(r)) <= 1 + Disruptions

\* The shutdown wait is long enough: a process whose wait has run out has no
\* tick left that its exit would cut off.
DrainCutsNoTick ==
    \A w \in Worker : mode[w] = "draining" /\ drain[w] = 0 => \A t \in TicksOf(w) : ~Busy(t)

\* A sent job stays sent: no other tick's mark_failed, which does not look at
\* the status, puts it back.
SentIsFinal == [][\A j \in Job : status[j] = "sent" => status'[j] = "sent"]_status

\* Every due reminder is claimed in the end, unless its event is deleted, and
\* every job queued for it is sent or skipped: none stays leased, exhausted or
\* without a device for ever.
RemindersSettle ==
    /\ \A r \in Reminder : reminder[r] = "due" ~> reminder[r] = "claimed" \/ r \in gone
    /\ \A j \in Job : status[j] = "pending" ~> status[j] \in {"sent", "skipped"}

-----------------------------------------------------------------------------
(* The inductive invariant behind the safety properties                      *)

\* A tick has at most TickTimeout left and works on a job it holds; what it
\* holds it leased for longer than it may still run, at the attempt it counted,
\* and nobody has marked it sent.
HandInv ==
    \A t \in Tick :
        /\ left[t] <= TickTimeout
        /\ pc[t] \in Delivering => Holds(t, cur[t])
        /\ \A j \in Job : Holds(t, j) =>
            /\ pc[t] \in Delivering \cup {"deliver"}
            /\ wait[j] > left[t]
            /\ claim[t][j] = attempts[j]
            /\ status[j] \in {"pending", "skipped"}

\* Deliveries started are counted attempts; a job in hand that is not being
\* delivered has one attempt counted that was not started yet.
TriesInv ==
    \A j \in Job :
        /\ status[j] = "absent" => attempts[j] = 0
        /\ tries[j] <= attempts[j]
        /\ tries[j] < MaxAttempts
        /\ \A t \in Tick : Holds(t, j) /\ (pc[t] = "deliver" \/ cur[t] # j) => tries[j] < attempts[j]

\* A tick of a draining process ends before the wait for it does.
DrainInv ==
    \A t \in Tick : mode[t[1]] = "draining" /\ Busy(t) => left[t] < drain[t[1]]

\* Unless it is marked sent, or about to be, every accepted mail of a job has
\* cost a disruption.
MailInv ==
    \A j \in Job :
        /\ mails[j] <= 1 + Disruptions
        /\ \/ status[j] = "sent"
           \/ \E t \in Tick : pc[t] = "sent" /\ cur[t] = j
           \/ mails[j] <= Disruptions

IndInv == TypeOK /\ HandInv /\ LeaseExclusive /\ TriesInv /\ DrainInv /\ MailInv /\ EmailNotLost

\* README: "No duplicate reminders: email is skipped when the reminder push
\* goes out and the account email is the user's own Solace mailbox".
NoDuplicateReminder ==
    \A i, j \in Job :
        /\ ReminderOf(i) = ReminderOf(j) /\ QueuesFallback(i) /\ ChannelOf(j) = "email"
        /\ Disruptions = 0
        => got[i] = {} \/ mails[j] = 0
=============================================================================
