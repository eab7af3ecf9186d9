----------------------- MODULE ReminderScheduleProofs -----------------------
(***************************************************************************)
(* Safety of ReminderSchedule for any number of concurrent requests, any   *)
(* lead times and starts, and any bounds.                                  *)
(***************************************************************************)
EXTENDS ReminderSchedule, WellFoundedInduction, TLAPS

\* A nonempty set of lead times has a shortest one.
LEMMA MinType ==
  ASSUME NEW S \in SUBSET Nat, S # {}
  PROVE  Min(S) \in S
<1> DEFINE R == {ss \in Nat \X Nat : ss[1] < ss[2]}
<1>0. R = OpToRel(<, Nat)
  BY Zenon DEF OpToRel
<1>1. PICK x \in S : \A y \in S : <<y, x>> \notin R
  <2>1. IsWellFoundedOn(R, Nat)
    BY <1>0, NatLessThanWellFounded, Zenon
  <2> HIDE DEF R
  <2> QED
    BY <2>1, WFMin
<1>2. ASSUME NEW y \in S PROVE x <= y
  <2>1. x \in Nat /\ y \in Nat
    OBVIOUS
  <2>2. y < x => <<y, x>> \in R
    BY <2>1
  <2>3. ~(y < x)
    BY <1>1, <2>2
  <2>4. QED
    BY <2>1, <2>3
<1>3. QED
  BY <1>2 DEF Min

\* The lead times of email reminders are lead times.
LEMMA EmailLeadsType ==
  ASSUME NEW S \in SUBSET (Config \cup Row)
  PROVE  EmailLeads(S) \in SUBSET Lead
  BY DEF EmailLeads, Config, Row

\* The reminder column gets a lead time or none.
LEMMA ReminderFieldType ==
  ASSUME NEW S \in SUBSET Config
  PROVE  ReminderField(S) \in Lead \cup {None}
<1>1. EmailLeads(S) \in SUBSET Lead
  BY EmailLeadsType
<1>2. EmailLeads(S) \in SUBSET Nat
  BY <1>1, ScheduleAssumption
<1>3. EmailLeads(S) # {} => Min(EmailLeads(S)) \in EmailLeads(S)
  BY <1>2, MinType
<1>4. QED
  BY <1>1, <1>3 DEF ReminderField

\* Rounding an instant gives an instant.
LEMMA RoundType == ASSUME NEW i \in Int PROVE RoundToMinute(i) \in Int
  BY ScheduleAssumption DEF RoundToMinute

\* A reminder's instant is one.
LEMMA ReminderTimeType ==
  ASSUME NEW s \in Start, NEW m \in Lead, NEW i \in Nat
  PROVE  ReminderTime(s, m, i) \in Int
<1>1. s \in Nat /\ m \in Nat /\ Minute \in Nat
  BY ScheduleAssumption
<1>2. s - m * Minute \in Int
  BY <1>1
<1>3. CalculateNotificationTime(s, m) \in Int
  BY <1>2, RoundType DEF CalculateNotificationTime
<1>4. RoundToMinute(i) + Minute \in Int
  BY <1>1, RoundType
<1>5. QED
  BY <1>3, <1>4 DEF ReminderTime

\* What is inserted is a row.
LEMMA RowOfType ==
  ASSUME NEW c \in Config, NEW k \in Copy, NEW s \in Start, NEW i \in Nat
  PROVE  RowOf(c, k, s, i) \in Row
<1>1. c.lead \in Lead /\ c.type \in Type
  BY DEF Config
<1>2. ReminderTime(s, c.lead, i) \in Int
  BY <1>1, ReminderTimeType
<1>3. QED
  BY <1>1, <1>2 DEF RowOf, Row

\* What an event's own reminder schedules.
LEMMA EventReminderType ==
  ASSUME NEW m, NEW notify
  PROVE  EventReminder(m, notify) \in SUBSET Config
  BY ScheduleAssumption DEF EventReminder, EmailConfig, Config, Copy, Type

Asked == [start : Start \cup {Keep}, reminder : Lead \cup {None, Keep}, notify : BOOLEAN]
Phase == {"idle", "update", "plan", "delete", "insert", "set", "clear", "purge"}

RequestTypeOK ==
    /\ pc \in [Request -> Phase]
    /\ seen \in [Request -> Nat]
    /\ ask \in [Request -> Asked]
    /\ from \in [Request -> Start \cup {None}]
    /\ asOf \in [Request -> Nat]
    /\ todo \in [Request -> SUBSET Config]

RowTypeOK ==
    /\ event \in [state : {"none", "live", "deleted"}, start : Start, reminder : Lead \cup {None}]
    /\ version \in Nat
    /\ rows \in SUBSET Row

CounterTypeOK ==
    /\ now \in 0 .. LastInstant
    /\ scenario \in Scenarios
    /\ requests \in 0 .. MaxRequests
    /\ failures \in 0 .. MaxFailures
    /\ broken \in SUBSET {"cut", "late", "crossed"}
    /\ missed \in [Request -> SUBSET Config]

\* The type invariant by its parts.
LEMMA TypeParts == TypeOK <=> RequestTypeOK /\ RowTypeOK /\ CounterTypeOK
  BY DEF TypeOK, RequestTypeOK, RowTypeOK, CounterTypeOK, Asked, Phase

\* The same after a step.
LEMMA TypePartsNext == TypeOK' <=> RequestTypeOK' /\ RowTypeOK' /\ CounterTypeOK'
  BY DEF TypeOK, RequestTypeOK, RowTypeOK, CounterTypeOK, Asked, Phase

\* A finished request is of its type.
LEMMA DoneType ==
  ASSUME RequestTypeOK, NEW h \in Request, Done(h)
  PROVE  RequestTypeOK'
<1>1. NoAsk \in Asked
  BY DEF NoAsk, Asked
<1>2. QED
  BY <1>1 DEF RequestTypeOK, Done, Goto, Phase

\* What deletes of reminders have not seen are reminders.
LEMMA InsertedType ==
  ASSUME missed \in [Request -> SUBSET Config], NEW S \in SUBSET Config, Inserted(S)
  PROVE  missed' \in [Request -> SUBSET Config]
  BY DEF Inserted

\* So is one that goes on to insert.
LEMMA InsertType ==
  ASSUME RequestTypeOK, NEW h \in Request, NEW C \in SUBSET Config, Insert(h, C)
  PROVE  RequestTypeOK'
<1>1. CASE C = {} /\ Done(h)
  BY <1>1, DoneType
<1>2. CASE C # {} /\ UNCHANGED <<seen, ask, from, asOf>>
  BY <1>2 DEF RequestTypeOK, Insert, Goto, Phase, Done
<1>3. QED
  BY <1>1, <1>2 DEF Insert

-----------------------------------------------------------------------------
(* What a request knows at each point.  The start it schedules reminders for *)
(* is the event's as long as nobody has written the event since it was read, *)
(* because every write gives the event a new version.                        *)

PhaseOf(g) ==
    /\ pc[g] \in {"update", "plan", "delete", "insert", "set"} => from[g] \in Start
    /\ pc[g] = "set" => ask[g].reminder \in Lead \cup {None}
    /\ pc[g] = "update" =>
        /\ seen[g] <= version
        /\ seen[g] = version => from[g] = Given(ask[g].start, event.start)

PhaseInv == \A g \in Request : PhaseOf(g)

\* Every write of the event gives it a new version.
Versioned == (event' = event /\ version' = version) \/ version' = version + 1

\* A request that does not step keeps what it knows.
LEMMA OtherKeeps ==
  ASSUME TypeOK, NEW g \in Request, PhaseOf(g), Versioned,
         pc'[g] = pc[g], ask'[g] = ask[g], seen'[g] = seen[g], from'[g] = from[g]
  PROVE  PhaseOf(g)'
<1> USE DEF PhaseOf
<1>1. seen[g] \in Nat /\ version \in Nat
  BY DEF TypeOK
<1>2. CASE event' = event /\ version' = version
  BY <1>2 DEF Given
<1>3. CASE version' = version + 1
  BY <1>1, <1>3
<1>4. QED
  BY <1>2, <1>3 DEF Versioned

\* A finished request knows nothing.
LEMMA DoneKnows ==
  ASSUME TypeOK, NEW h \in Request, PhaseInv, Versioned, Done(h)
  PROVE  PhaseInv'
<1>1. PhaseOf(h)'
  BY DEF TypeOK, Done, Goto, PhaseOf
<1>2. ASSUME NEW g \in Request, g # h PROVE PhaseOf(g)'
  <2>1. pc'[g] = pc[g] /\ ask'[g] = ask[g] /\ seen'[g] = seen[g] /\ from'[g] = from[g]
    BY <1>2 DEF TypeOK, Done, Goto
  <2>2. QED
    BY <2>1, OtherKeeps DEF PhaseInv
<1>3. QED
  BY <1>1, <1>2 DEF PhaseInv

\* A request that goes on to insert keeps the start it inserts for.
LEMMA InsertKnows ==
  ASSUME TypeOK, NEW h \in Request, PhaseInv, Versioned, NEW C, Insert(h, C), from[h] \in Start
  PROVE  PhaseInv'
<1>1. CASE C = {} /\ Done(h)
  BY <1>1, DoneKnows
<1>2. CASE /\ Goto(h, "insert")
           /\ UNCHANGED <<seen, ask, from, asOf>>
  <2>1. PhaseOf(h)'
    BY <1>2 DEF TypeOK, Goto, PhaseOf
  <2>2. ASSUME NEW g \in Request, g # h PROVE PhaseOf(g)'
    <3>1. pc'[g] = pc[g] /\ ask'[g] = ask[g] /\ seen'[g] = seen[g] /\ from'[g] = from[g]
      BY <1>2, <2>2 DEF TypeOK, Goto
    <3>2. QED
      BY <3>1, OtherKeeps DEF PhaseInv
  <2>3. QED
    BY <2>1, <2>2 DEF PhaseInv
<1>3. QED
  BY <1>1, <1>2 DEF Insert

\* A request that is answered at once leaves the others what they know.
LEMMA AtOnceKnows ==
  ASSUME TypeOK, PhaseInv, Versioned, UNCHANGED requestVars
  PROVE  PhaseInv'
<1>1. ASSUME NEW g \in Request PROVE PhaseOf(g)'
  <2>1. pc'[g] = pc[g] /\ ask'[g] = ask[g] /\ seen'[g] = seen[g] /\ from'[g] = from[g]
    BY DEF requestVars
  <2>2. QED
    BY <2>1, OtherKeeps DEF PhaseInv
<1>2. QED
  BY <1>1 DEF PhaseInv

\* The initial state satisfies the invariant.
LEMMA InitInv == Init => TypeOK /\ PhaseInv /\ NoOrphans
<1> SUFFICES ASSUME Init PROVE TypeOK /\ PhaseInv /\ NoOrphans
  OBVIOUS
<1>1. RequestTypeOK
  BY DEF Init, RequestTypeOK, NoAsk, Asked, Phase
<1>2. RowTypeOK
  BY DEF Init, RowTypeOK
<1>3. CounterTypeOK
  <2>1. now \in 0 .. LastInstant
    BY ScheduleAssumption DEF Init
  <2>2. scenario \in Scenarios /\ requests \in 0 .. MaxRequests /\ failures \in 0 .. MaxFailures
    BY ScheduleAssumption DEF Init, Scenario
  <2>3. broken \in SUBSET {"cut", "late", "crossed"} /\ missed \in [Request -> SUBSET Config]
    BY DEF Init
  <2>4. QED
    BY <2>1, <2>2, <2>3 DEF CounterTypeOK
<1>4. PhaseInv
  BY DEF Init, PhaseInv, PhaseOf
<1>5. NoOrphans
  BY DEF Init, NoOrphans
<1>6. QED
  BY <1>1, <1>2, <1>3, <1>4, <1>5, TypeParts

-----------------------------------------------------------------------------
(* Each action keeps the types, what requests know, and the rows of events   *)
(* that are gone empty.                                                      *)

Inv == TypeOK /\ PhaseInv /\ NoOrphans

\* The invariant by its parts, after a step.
LEMMA InvNext ==
  ASSUME RequestTypeOK', RowTypeOK', CounterTypeOK', PhaseInv', NoOrphans'
  PROVE  Inv'
  BY TypePartsNext DEF Inv

\* A request that begins leaves a number of requests.
LEMMA BeginType ==
  ASSUME CounterTypeOK, NEW h, Begin(h)
  PROVE  requests' \in 0 .. MaxRequests
  BY ScheduleAssumption DEF CounterTypeOK, Begin

\* Writing the event gives it a new version.
LEMMA WriteVersioned == ASSUME NEW e, WriteEvent(e) PROVE Versioned
  BY DEF WriteEvent, Versioned

\* `create` and `duplicate` keep the invariant.
LEMMA CreateKeeps ==
  ASSUME Inv, NEW h \in Request, Create(h)
  PROVE  Inv'
<1>1. PICK s \in Start, m \in Lead \cup {None}, notify \in BOOLEAN :
        /\ WriteEvent([state |-> "live", start |-> s, reminder |-> m])
        /\ todo' = [todo EXCEPT ![h] = EventReminder(m, notify)]
        /\ Goto(h, IF EventReminder(m, notify) = {} THEN "idle" ELSE "insert")
        /\ from' = [from EXCEPT ![h] = IF EventReminder(m, notify) = {} THEN None ELSE s]
  BY DEF Create
<1>2. RequestTypeOK /\ RowTypeOK /\ CounterTypeOK /\ TypeOK
  BY TypeParts DEF Inv
<1>3. UNCHANGED <<scenario, now, rows, seen, ask, asOf, missed, failures, broken>> /\ Begin(h)
  BY DEF Create
<1>4. RequestTypeOK'
  BY <1>1, <1>2, <1>3, EventReminderType DEF RequestTypeOK, Goto, Phase
<1>5. RowTypeOK'
  BY <1>1, <1>2, <1>3 DEF RowTypeOK, WriteEvent
<1>6. CounterTypeOK'
  BY <1>2, <1>3, BeginType DEF CounterTypeOK
<1>7. PhaseInv'
  <2>1. PhaseOf(h)'
    BY <1>1, <1>2 DEF TypeOK, PhaseOf, Goto
  <2>2. ASSUME NEW g \in Request, g # h PROVE PhaseOf(g)'
    <3>1. pc'[g] = pc[g] /\ from'[g] = from[g]
      BY <1>1, <1>2, <2>2 DEF TypeOK, Goto
    <3>2. ask'[g] = ask[g] /\ seen'[g] = seen[g]
      BY <1>3
    <3>3. QED
      BY <1>1, <1>2, <3>1, <3>2, OtherKeeps, WriteVersioned DEF Inv, PhaseInv
  <2>3. QED
    BY <2>1, <2>2 DEF PhaseInv
<1>8. NoOrphans'
  BY <1>1 DEF NoOrphans, Live, WriteEvent
<1>9. QED
  BY <1>4, <1>5, <1>6, <1>7, <1>8, InvNext

\* An update that reads the event keeps it.
LEMMA BeginUpdateKeeps ==
  ASSUME Inv, NEW h \in Request, BeginUpdate(h)
  PROVE  Inv'
<1>1. PICK s \in Start \cup {Keep}, m \in Lead \cup {None, Keep}, notify \in BOOLEAN :
        /\ ask' = [ask EXCEPT ![h] = [start |-> s, reminder |-> m, notify |-> notify]]
        /\ from' = [from EXCEPT ![h] = IF s = Keep THEN event.start ELSE s]
  BY DEF BeginUpdate
<1>2. RequestTypeOK /\ RowTypeOK /\ CounterTypeOK /\ TypeOK
  BY TypeParts DEF Inv
<1>3. /\ UNCHANGED <<scenario, now, event, version, rows, asOf, todo, missed, failures, broken>>
      /\ seen' = [seen EXCEPT ![h] = version]
      /\ Goto(h, "update")
      /\ Begin(h)
  BY DEF BeginUpdate, eventVars
<1>4. RequestTypeOK'
  <2>1. [start |-> s, reminder |-> m, notify |-> notify] \in Asked
    BY DEF Asked
  <2>2. version \in Nat /\ event.start \in Start
    BY <1>2 DEF RowTypeOK
  <2>3. ask' \in [Request -> Asked]
    BY <1>1, <1>2, <2>1 DEF RequestTypeOK
  <2>4. from' \in [Request -> Start \cup {None}]
    BY <1>1, <1>2, <2>2 DEF RequestTypeOK
  <2>5. seen' \in [Request -> Nat] /\ pc' \in [Request -> Phase]
    BY <1>2, <1>3, <2>2 DEF RequestTypeOK, Goto, Phase
  <2>6. QED
    BY <1>2, <1>3, <2>3, <2>4, <2>5 DEF RequestTypeOK
<1>5. RowTypeOK'
  BY <1>2, <1>3 DEF RowTypeOK
<1>6. CounterTypeOK'
  BY <1>2, <1>3, BeginType DEF CounterTypeOK
<1>7. PhaseInv'
  <2>1. PhaseOf(h)'
    <3>1. /\ pc'[h] = "update"
          /\ seen'[h] = version
          /\ ask'[h].start = s
          /\ from'[h] = IF s = Keep THEN event.start ELSE s
      BY <1>1, <1>2, <1>3 DEF TypeOK, Goto
    <3>2. from'[h] \in Start
      BY <3>1, <1>2 DEF RowTypeOK
    <3>3. version \in Nat
      BY <1>2 DEF RowTypeOK
    <3>4. QED
      BY <3>1, <3>2, <3>3, <1>3 DEF PhaseOf, Given
  <2>2. ASSUME NEW g \in Request, g # h PROVE PhaseOf(g)'
    <3>1. pc'[g] = pc[g] /\ from'[g] = from[g] /\ ask'[g] = ask[g] /\ seen'[g] = seen[g]
      BY <1>1, <1>2, <1>3, <2>2 DEF TypeOK, Goto
    <3>2. Versioned
      BY <1>3 DEF Versioned
    <3>3. QED
      BY <1>2, <3>1, <3>2, OtherKeeps DEF Inv, PhaseInv
  <2>3. QED
    BY <2>1, <2>2 DEF PhaseInv
<1>8. NoOrphans'
  BY <1>3 DEF Inv, NoOrphans, Live
<1>9. QED
  BY <1>4, <1>5, <1>6, <1>7, <1>8, InvNext

\* An update that writes the event, or refuses, keeps it.
LEMMA ApplyUpdateKeeps ==
  ASSUME Inv, NEW h \in Request, ApplyUpdate(h)
  PROVE  Inv'
<1>1. RequestTypeOK /\ RowTypeOK /\ CounterTypeOK /\ TypeOK /\ PhaseInv
  BY TypeParts DEF Inv
<1>2. pc[h] = "update" /\ UNCHANGED <<scenario, now, rows, missed, requests, failures, broken>>
  BY DEF ApplyUpdate
<1>3. CASE Live /\ UnchangedSince(h)
  <2>1. /\ WriteEvent([event EXCEPT !.start = Given(ask[h].start, @),
                                    !.reminder = Given(ask[h].reminder, @)])
        /\ Goto(h, "plan")
        /\ UNCHANGED <<seen, ask, from, asOf, todo>>
    BY <1>3 DEF ApplyUpdate
  <2>2. ask[h] \in Asked
    BY <1>1 DEF RequestTypeOK
  <2>3. RequestTypeOK'
    BY <1>1, <2>1 DEF RequestTypeOK, Goto, Phase
  <2>4. RowTypeOK'
    <3>1. /\ Given(ask[h].start, event.start) \in Start
          /\ Given(ask[h].reminder, event.reminder) \in Lead \cup {None}
      BY <1>1, <2>2 DEF RowTypeOK, Given, Asked
    <3>2. event' = [event EXCEPT !.start = Given(ask[h].start, event.start),
                                 !.reminder = Given(ask[h].reminder, event.reminder)]
      BY <1>1, <2>1 DEF WriteEvent, RowTypeOK
    <3>3. event' \in [state : {"none", "live", "deleted"}, start : Start, reminder : Lead \cup {None}]
      BY <1>1, <3>1, <3>2 DEF RowTypeOK
    <3>4. QED
      BY <1>1, <1>2, <2>1, <3>3 DEF RowTypeOK, WriteEvent
  <2>5. CounterTypeOK'
    BY <1>1, <1>2 DEF CounterTypeOK
  <2>6. PhaseInv'
    <3>1. PhaseOf(h)'
      BY <1>1, <1>2, <2>1 DEF TypeOK, PhaseInv, PhaseOf, Goto
    <3>2. ASSUME NEW g \in Request, g # h PROVE PhaseOf(g)'
      <4>1. pc'[g] = pc[g] /\ from'[g] = from[g] /\ ask'[g] = ask[g] /\ seen'[g] = seen[g]
        BY <1>1, <2>1, <3>2 DEF TypeOK, Goto
      <4>2. QED
        BY <1>1, <2>1, <4>1, OtherKeeps, WriteVersioned DEF PhaseInv
    <3>3. QED
      BY <3>1, <3>2 DEF PhaseInv
  <2>7. NoOrphans'
    BY <1>1, <1>3, <2>1 DEF NoOrphans, Live, WriteEvent, RowTypeOK
  <2>8. QED
    BY <2>3, <2>4, <2>5, <2>6, <2>7, InvNext
<1>4. CASE ~(Live /\ UnchangedSince(h))
  <2>1. Done(h) /\ UNCHANGED <<event, version>>
    BY <1>4 DEF ApplyUpdate
  <2>2. PhaseInv'
    BY <1>1, <2>1, DoneKnows DEF Versioned
  <2>3. RequestTypeOK'
    BY <1>1, <2>1, DoneType
  <2>4. RowTypeOK' /\ CounterTypeOK'
    BY <1>1, <1>2, <2>1 DEF RowTypeOK, CounterTypeOK
  <2>5. NoOrphans'
    BY <1>2, <2>1 DEF Inv, NoOrphans, Live
  <2>6. QED
    BY <2>2, <2>3, <2>4, <2>5, InvNext
<1>5. QED
  BY <1>3, <1>4

\* An update that reads the reminders keeps it.
LEMMA PlanRemindersKeeps ==
  ASSUME Inv, NEW h \in Request, PlanReminders(h)
  PROVE  Inv'
<1>1. RequestTypeOK /\ RowTypeOK /\ CounterTypeOK /\ TypeOK /\ PhaseInv
  BY TypeParts DEF Inv
<1>2. /\ pc[h] = "plan"
      /\ Goto(h, "delete")
      /\ UNCHANGED <<scenario, now, event, version, rows, seen, ask, from, asOf, missed, requests,
                    failures, broken>>
  BY DEF PlanReminders, eventVars
<1>3. RequestTypeOK'
  <2>1. Existing \in SUBSET Config
    BY <1>1 DEF RowTypeOK, Existing, ConfigOf, Config, Row
  <2>2. EventReminder(ask[h].reminder, ask[h].notify) \in SUBSET Config
    BY EventReminderType
  <2>3. todo' \in [Request -> SUBSET Config]
    BY <1>1, <2>1, <2>2 DEF PlanReminders, RequestTypeOK
  <2>4. QED
    BY <1>1, <1>2, <2>3 DEF RequestTypeOK, Goto, Phase
<1>4. RowTypeOK' /\ CounterTypeOK'
  BY <1>1, <1>2 DEF RowTypeOK, CounterTypeOK
<1>5. PhaseInv'
  <2>1. PhaseOf(h)'
    BY <1>1, <1>2 DEF TypeOK, PhaseInv, PhaseOf, Goto
  <2>2. ASSUME NEW g \in Request, g # h PROVE PhaseOf(g)'
    <3>1. pc'[g] = pc[g] /\ from'[g] = from[g] /\ ask'[g] = ask[g] /\ seen'[g] = seen[g]
      BY <1>1, <1>2, <2>2 DEF TypeOK, Goto
    <3>2. Versioned
      BY <1>2 DEF Versioned
    <3>3. QED
      BY <1>1, <3>1, <3>2, OtherKeeps DEF PhaseInv
  <2>3. QED
    BY <2>1, <2>2 DEF PhaseInv
<1>6. NoOrphans'
  BY <1>2 DEF Inv, NoOrphans, Live
<1>7. QED
  BY <1>3, <1>4, <1>5, <1>6, InvNext

\* An update that deletes the old reminders keeps it.
LEMMA DeleteOldKeeps ==
  ASSUME Inv, NEW h \in Request, DeleteOld(h)
  PROVE  Inv'
<1>1. RequestTypeOK /\ RowTypeOK /\ CounterTypeOK /\ TypeOK /\ PhaseInv
  BY TypeParts DEF Inv
<1>2. /\ pc[h] = "delete"
      /\ rows' = {}
      /\ Insert(h, todo[h])
      /\ UNCHANGED <<scenario, now, event, version, missed, requests, failures, broken>>
  BY DEF DeleteOld, LeftByDelete
<1>3. RequestTypeOK'
  <2>1. todo[h] \in SUBSET Config
    BY <1>1 DEF RequestTypeOK
  <2>2. QED
    BY <1>1, <1>2, <2>1, InsertType
<1>4. RowTypeOK' /\ CounterTypeOK'
  BY <1>1, <1>2 DEF RowTypeOK, CounterTypeOK
<1>5. PhaseInv'
  <2>1. from[h] \in Start
    BY <1>1, <1>2 DEF PhaseInv, PhaseOf
  <2>2. Versioned
    BY <1>2 DEF Versioned
  <2>3. QED
    BY <1>1, <1>2, <2>1, <2>2, InsertKnows
<1>6. NoOrphans'
  BY <1>2 DEF NoOrphans
<1>7. QED
  BY <1>3, <1>4, <1>5, <1>6, InvNext

\* Inserting a reminder, or failing to, keeps it.
LEMMA InsertNextKeeps ==
  ASSUME Inv, NEW h \in Request, InsertNext(h)
  PROVE  Inv'
<1>1. RequestTypeOK /\ RowTypeOK /\ CounterTypeOK /\ TypeOK /\ PhaseInv
  BY TypeParts DEF Inv
<1>2. pc[h] = "insert" /\ UNCHANGED <<scenario, now, event, version, requests, failures>>
  BY DEF InsertNext
<1>3. from[h] \in Start /\ Versioned
  BY <1>1, <1>2 DEF PhaseInv, PhaseOf, Versioned
<1>4. now \in Nat
  BY <1>1, ScheduleAssumption DEF CounterTypeOK
<1>5. PICK c \in todo[h] :
        \/ Insert(h, todo[h] \ {c}) /\ UNCHANGED <<rows, missed>>
        \/ /\ HasEvent
           /\ \E k \in FreeCopies(c) : /\ rows' = rows \cup {RowOf(c, k, from[h], now)}
                                      /\ Inserted({[c EXCEPT !.copy = k]})
           /\ Insert(h, todo[h] \ {c})
        \/ Done(h) /\ UNCHANGED <<rows, missed>>
  BY DEF InsertNext
<1>6. c \in Config /\ todo[h] \ {c} \in SUBSET Config
  BY <1>1 DEF RequestTypeOK
<1>7. CounterTypeOK'
  <2>1. \A k \in FreeCopies(c) : [c EXCEPT !.copy = k] \in Config
    BY <1>6 DEF Config, FreeCopies
  <2>2. missed' = missed \/ \E k \in FreeCopies(c) : Inserted({[c EXCEPT !.copy = k]})
    BY <1>5
  <2>3. missed' \in [Request -> SUBSET Config]
    BY <1>1, <2>1, <2>2, InsertedType DEF CounterTypeOK
  <2>4. QED
    BY <1>1, <1>2, <2>3 DEF CounterTypeOK, InsertNext
<1>8. CASE Insert(h, todo[h] \ {c}) /\ UNCHANGED rows
  <2>1. RequestTypeOK' /\ PhaseInv'
    BY <1>1, <1>3, <1>6, <1>8, InsertType, InsertKnows
  <2>2. RowTypeOK' /\ NoOrphans'
    BY <1>1, <1>2, <1>8 DEF RowTypeOK, Inv, NoOrphans, Live
  <2>3. QED
    BY <1>7, <2>1, <2>2, InvNext
<1>9. CASE /\ HasEvent
           /\ \E k \in FreeCopies(c) : rows' = rows \cup {RowOf(c, k, from[h], now)}
           /\ Insert(h, todo[h] \ {c})
  <2>1. RequestTypeOK' /\ PhaseInv'
    BY <1>1, <1>3, <1>6, <1>9, InsertType, InsertKnows
  <2>2. PICK k \in Copy : rows' = rows \cup {RowOf(c, k, from[h], now)}
    BY <1>9 DEF FreeCopies
  <2>3. RowOf(c, k, from[h], now) \in Row
    BY <1>3, <1>4, <1>6, RowOfType
  <2>4. RowTypeOK'
    BY <1>1, <1>2, <2>2, <2>3 DEF RowTypeOK
  <2>5. NoOrphans'
    BY <1>2, <1>9 DEF NoOrphans, HasEvent, Live
  <2>6. QED
    BY <1>7, <2>1, <2>4, <2>5, InvNext
<1>10. CASE Done(h) /\ UNCHANGED rows
  <2>1. RequestTypeOK' /\ PhaseInv'
    BY <1>1, <1>3, <1>10, DoneType, DoneKnows
  <2>2. RowTypeOK' /\ NoOrphans'
    BY <1>1, <1>2, <1>10 DEF RowTypeOK, Inv, NoOrphans, Live
  <2>3. QED
    BY <1>7, <2>1, <2>2, InvNext
<1>11. QED
  BY <1>5, <1>8, <1>9, <1>10

\* A save of settings that reads the event keeps it.
LEMMA BeginSetKeeps ==
  ASSUME Inv, NEW h \in Request, BeginSet(h)
  PROVE  Inv'
<1>1. RequestTypeOK /\ RowTypeOK /\ CounterTypeOK /\ TypeOK /\ PhaseInv
  BY TypeParts DEF Inv
<1>2. PICK S \in SUBSET [type : Type, lead : Lead, copy : {1}] :
        /\ ask' = [ask EXCEPT ![h].reminder = ReminderField(S)]
        /\ todo' = [todo EXCEPT ![h] = IF event.start <= now THEN {} ELSE S]
  BY DEF BeginSet
<1>3. /\ from' = [from EXCEPT ![h] = event.start]
      /\ asOf' = [asOf EXCEPT ![h] = now]
      /\ Goto(h, "set")
      /\ Begin(h)
      /\ UNCHANGED <<scenario, now, event, version, rows, seen, missed, failures, broken>>
  BY DEF BeginSet, eventVars
<1>4. S \in SUBSET Config
  BY ScheduleAssumption DEF Config, Copy
<1>5. ReminderField(S) \in Lead \cup {None}
  BY <1>4, ReminderFieldType
<1>6. event.start \in Start /\ now \in Nat
  BY <1>1, ScheduleAssumption DEF RowTypeOK, CounterTypeOK
<1>7. RequestTypeOK'
  <2>1. ask' \in [Request -> Asked]
    BY <1>1, <1>2, <1>5 DEF RequestTypeOK, Asked
  <2>2. todo' \in [Request -> SUBSET Config]
    BY <1>1, <1>2, <1>4 DEF RequestTypeOK
  <2>3. from' \in [Request -> Start \cup {None}] /\ asOf' \in [Request -> Nat]
    BY <1>1, <1>3, <1>6 DEF RequestTypeOK
  <2>4. QED
    BY <1>1, <1>3, <2>1, <2>2, <2>3 DEF RequestTypeOK, Goto, Phase
<1>8. RowTypeOK'
  BY <1>1, <1>3 DEF RowTypeOK
<1>9. CounterTypeOK'
  BY <1>1, <1>3, BeginType DEF CounterTypeOK
<1>10. PhaseInv'
  <2>1. PhaseOf(h)'
    <3>1. pc'[h] = "set" /\ from'[h] = event.start
      BY <1>1, <1>3 DEF TypeOK, Goto
    <3>2. ask'[h].reminder = ReminderField(S)
      BY <1>1, <1>2 DEF TypeOK
    <3>3. QED
      BY <1>5, <1>6, <3>1, <3>2 DEF PhaseOf
  <2>2. ASSUME NEW g \in Request, g # h PROVE PhaseOf(g)'
    <3>1. pc'[g] = pc[g] /\ from'[g] = from[g] /\ ask'[g] = ask[g] /\ seen'[g] = seen[g]
      BY <1>1, <1>2, <1>3, <2>2 DEF TypeOK, Goto
    <3>2. Versioned
      BY <1>3 DEF Versioned
    <3>3. QED
      BY <1>1, <3>1, <3>2, OtherKeeps DEF PhaseInv
  <2>3. QED
    BY <2>1, <2>2 DEF PhaseInv
<1>11. NoOrphans'
  BY <1>3 DEF Inv, NoOrphans, Live
<1>12. QED
  BY <1>7, <1>8, <1>9, <1>10, <1>11, InvNext

\* The transaction of a save of settings keeps it.
LEMMA CommitSetKeeps ==
  ASSUME Inv, NEW h \in Request, CommitSet(h)
  PROVE  Inv'
<1>1. RequestTypeOK /\ RowTypeOK /\ CounterTypeOK /\ TypeOK /\ PhaseInv
  BY TypeParts DEF Inv
<1>2. pc[h] = "set" /\ Done(h) /\ UNCHANGED <<scenario, now, requests, failures>>
  BY DEF CommitSet
<1>3. RequestTypeOK'
  BY <1>1, <1>2, DoneType
<1>4. CASE Live
  <2>1. /\ WriteEvent([event EXCEPT !.reminder = ask[h].reminder])
        /\ rows' = {RowOf(c, 1, from[h], asOf[h]) : c \in todo[h]}
        /\ Inserted({ConfigOf(r) : r \in {RowOf(c, 1, from[h], asOf[h]) : c \in todo[h]}})
        /\ broken' = {}
    BY <1>4 DEF CommitSet, ReplacedBy
  <2>2. /\ from[h] \in Start
        /\ ask[h].reminder \in Lead \cup {None}
        /\ asOf[h] \in Nat
        /\ todo[h] \in SUBSET Config
        /\ 1 \in Copy
    BY <1>1, <1>2, ScheduleAssumption DEF PhaseInv, PhaseOf, RequestTypeOK, Copy
  <2>3. \A c \in todo[h] : RowOf(c, 1, from[h], asOf[h]) \in Row
    BY <2>2, RowOfType
  <2>4. RowTypeOK'
    <3>1. event' \in [state : {"none", "live", "deleted"}, start : Start, reminder : Lead \cup {None}]
      BY <1>1, <2>1, <2>2 DEF RowTypeOK, WriteEvent
    <3>2. rows' \in SUBSET Row
      BY <2>1, <2>3
    <3>3. QED
      BY <1>1, <2>1, <3>1, <3>2 DEF RowTypeOK, WriteEvent
  <2>5. CounterTypeOK'
    <3>1. \A r \in Row : ConfigOf(r) \in Config
      BY DEF Row, ConfigOf, Config
    <3>2. missed' \in [Request -> SUBSET Config]
      BY <1>1, <2>1, <2>3, <3>1, InsertedType DEF CounterTypeOK
    <3>3. QED
      BY <1>1, <1>2, <2>1, <3>2 DEF CounterTypeOK
  <2>6. PhaseInv'
    BY <1>1, <1>2, <2>1, DoneKnows, WriteVersioned
  <2>7. NoOrphans'
    BY <1>1, <1>4, <2>1 DEF NoOrphans, Live, WriteEvent, RowTypeOK
  <2>8. QED
    BY <1>3, <2>4, <2>5, <2>6, <2>7, InvNext
<1>5. CASE ~Live
  <2>1. UNCHANGED <<event, version, rows, missed, broken>>
    BY <1>5 DEF CommitSet, eventVars
  <2>2. RowTypeOK' /\ CounterTypeOK'
    BY <1>1, <1>2, <2>1 DEF RowTypeOK, CounterTypeOK
  <2>3. PhaseInv'
    BY <1>1, <1>2, <2>1, DoneKnows DEF Versioned
  <2>4. NoOrphans'
    BY <2>1 DEF Inv, NoOrphans, Live
  <2>5. QED
    BY <1>3, <2>2, <2>3, <2>4, InvNext
<1>6. QED
  BY <1>4, <1>5

\* Requests that write the event and are answered at once keep it.
LEMMA AtOnceKeeps ==
  ASSUME Inv, NEW h \in Request,
         DeleteEvent(h) \/ Touch(h) \/ EditSeries(h) \/ ImportInvitation(h)
  PROVE  Inv'
<1>1. RequestTypeOK /\ RowTypeOK /\ CounterTypeOK /\ TypeOK /\ PhaseInv
  BY TypeParts DEF Inv
<1>2. /\ Begin(h)
      /\ Live
      /\ UNCHANGED <<scenario, now, pc, seen, ask, from, asOf, todo, missed, failures, broken>>
  BY DEF DeleteEvent, Touch, EditSeries, ImportInvitation, requestVars
<1>3. RequestTypeOK'
  BY <1>1, <1>2 DEF RequestTypeOK
<1>4. CounterTypeOK'
  BY <1>1, <1>2, BeginType DEF CounterTypeOK
<1>5. /\ event' \in [state : {"none", "live", "deleted"}, start : Start, reminder : Lead \cup {None}]
      /\ version' = version + 1
      /\ rows' = {} \/ (rows' = rows /\ event'.state = "live")
  <2>1. CASE DeleteEvent(h)
    BY <1>1, <2>1 DEF DeleteEvent, WriteEvent, RowTypeOK
  <2>2. CASE Touch(h)
    BY <1>1, <1>2, <2>2 DEF Touch, WriteEvent, RowTypeOK, Live
  <2>3. CASE EditSeries(h)
    <3>1. PICK s \in Start \cup {Keep}, m \in Lead \cup {Keep} :
            WriteEvent([event EXCEPT !.start = Given(s, event.start),
                                     !.reminder = Given(m, event.reminder)])
      BY <1>1, <2>3 DEF EditSeries, RowTypeOK
    <3>2. /\ Given(s, event.start) \in Start
          /\ Given(m, event.reminder) \in Lead \cup {None}
      BY <1>1 DEF Given, RowTypeOK
    <3>3. rows' = rows
      BY <2>3 DEF EditSeries
    <3>4. QED
      BY <1>1, <1>2, <3>1, <3>2, <3>3 DEF WriteEvent, RowTypeOK, Live
  <2>4. CASE ImportInvitation(h)
    BY <1>1, <1>2, <2>4 DEF ImportInvitation, WriteEvent, RowTypeOK, Live
  <2>5. QED
    BY <2>1, <2>2, <2>3, <2>4
<1>6. RowTypeOK'
  BY <1>1, <1>5 DEF RowTypeOK
<1>7. PhaseInv'
  BY <1>1, <1>2, <1>5, AtOnceKnows DEF Versioned, requestVars
<1>8. NoOrphans'
  BY <1>5 DEF NoOrphans, Live
<1>9. QED
  BY <1>3, <1>4, <1>6, <1>7, <1>8, InvNext

\* The two statements of a delete of reminders keep it.
LEMMA ClearKeeps ==
  ASSUME Inv, NEW h \in Request, DeleteReminders(h) \/ ClearReminder(h)
  PROVE  Inv'
<1>1. RequestTypeOK /\ RowTypeOK /\ CounterTypeOK /\ TypeOK /\ PhaseInv
  BY TypeParts DEF Inv
<1>2. CASE DeleteReminders(h)
  <2>1. /\ Begin(h)
        /\ Goto(h, "clear")
        /\ UNCHANGED <<scenario, now, event, version, rows, seen, ask, from, asOf, todo, missed,
                      failures, broken>>
    BY <1>2 DEF DeleteReminders, eventVars
  <2>2. RequestTypeOK' /\ RowTypeOK'
    BY <1>1, <2>1 DEF RequestTypeOK, RowTypeOK, Goto, Phase
  <2>3. CounterTypeOK'
    BY <1>1, <2>1, BeginType DEF CounterTypeOK
  <2>4. PhaseInv'
    <3>1. PhaseOf(h)'
      BY <1>1, <2>1 DEF TypeOK, Goto, PhaseOf
    <3>2. ASSUME NEW g \in Request, g # h PROVE PhaseOf(g)'
      <4>1. pc'[g] = pc[g] /\ from'[g] = from[g] /\ ask'[g] = ask[g] /\ seen'[g] = seen[g]
        BY <1>1, <2>1, <3>2 DEF TypeOK, Goto
      <4>2. Versioned
        BY <2>1 DEF Versioned
      <4>3. QED
        BY <1>1, <4>1, <4>2, OtherKeeps DEF PhaseInv
    <3>3. QED
      BY <3>1, <3>2 DEF PhaseInv
  <2>5. NoOrphans'
    BY <2>1 DEF Inv, NoOrphans, Live
  <2>6. QED
    BY <2>2, <2>3, <2>4, <2>5, InvNext
<1>3. CASE ClearReminder(h)
  <2>1. /\ Done(h)
        /\ missed' = [missed EXCEPT ![h] = {}]
        /\ UNCHANGED <<scenario, now, requests, failures>>
        /\ broken' = broken \/ broken' = broken \cup {"crossed"} \/ broken' = broken \cup {}
    BY <1>3 DEF ClearReminder
  <2>2. \/ /\ WriteEvent([event EXCEPT !.reminder = None])
           /\ rows' \subseteq rows
        \/ UNCHANGED <<event, version, rows>>
    BY <1>3 DEF ClearReminder, eventVars
  <2>3. Versioned
    BY <2>2, WriteVersioned DEF Versioned
  <2>4. RequestTypeOK' /\ PhaseInv'
    BY <1>1, <2>1, <2>3, DoneType, DoneKnows
  <2>5. RowTypeOK'
    BY <1>1, <2>2 DEF RowTypeOK, WriteEvent
  <2>6. CounterTypeOK'
    BY <1>1, <2>1 DEF CounterTypeOK
  <2>7. NoOrphans'
    BY <1>1, <2>2 DEF Inv, NoOrphans, Live, WriteEvent, RowTypeOK
  <2>8. QED
    BY <2>4, <2>5, <2>6, <2>7, InvNext
<1>4. QED
  BY <1>2, <1>3

\* The two steps of a purge keep it.
LEMMA PurgeKeeps ==
  ASSUME Inv, NEW h \in Request, PurgeReminders(h) \/ PurgeEvent(h)
  PROVE  Inv'
<1>1. RequestTypeOK /\ RowTypeOK /\ CounterTypeOK /\ TypeOK /\ PhaseInv
  BY TypeParts DEF Inv
<1>2. CASE PurgeReminders(h)
  <2>1. /\ Begin(h)
        /\ rows' = {}
        /\ Goto(h, "purge")
        /\ UNCHANGED <<scenario, now, event, version, seen, ask, from, asOf, todo, missed, failures,
                      broken>>
    BY <1>2 DEF PurgeReminders
  <2>2. RequestTypeOK'
    BY <1>1, <2>1 DEF RequestTypeOK, Goto, Phase
  <2>3. RowTypeOK'
    BY <1>1, <2>1 DEF RowTypeOK
  <2>4. CounterTypeOK'
    BY <1>1, <2>1, BeginType DEF CounterTypeOK
  <2>5. PhaseInv'
    <3>1. PhaseOf(h)'
      BY <1>1, <2>1 DEF TypeOK, Goto, PhaseOf
    <3>2. ASSUME NEW g \in Request, g # h PROVE PhaseOf(g)'
      <4>1. pc'[g] = pc[g] /\ from'[g] = from[g] /\ ask'[g] = ask[g] /\ seen'[g] = seen[g]
        BY <1>1, <2>1, <3>2 DEF TypeOK, Goto
      <4>2. Versioned
        BY <2>1 DEF Versioned
      <4>3. QED
        BY <1>1, <4>1, <4>2, OtherKeeps DEF PhaseInv
    <3>3. QED
      BY <3>1, <3>2 DEF PhaseInv
  <2>6. NoOrphans'
    BY <2>1 DEF NoOrphans
  <2>7. QED
    BY <2>2, <2>3, <2>4, <2>5, <2>6, InvNext
<1>3. CASE PurgeEvent(h)
  <2>1. Done(h) /\ UNCHANGED <<scenario, now, missed, requests, failures, broken>>
    BY <1>3 DEF PurgeEvent
  <2>2. \/ WriteEvent([event EXCEPT !.state = "deleted"]) /\ rows' = {}
        \/ UNCHANGED <<event, version, rows>>
    BY <1>3 DEF PurgeEvent, Cascades, eventVars
  <2>3. Versioned
    BY <2>2, WriteVersioned DEF Versioned
  <2>4. RequestTypeOK' /\ PhaseInv'
    BY <1>1, <2>1, <2>3, DoneType, DoneKnows
  <2>5. RowTypeOK'
    BY <1>1, <2>2 DEF RowTypeOK, WriteEvent
  <2>6. CounterTypeOK'
    BY <1>1, <2>1 DEF CounterTypeOK
  <2>7. NoOrphans'
    BY <2>2 DEF Inv, NoOrphans, Live
  <2>8. QED
    BY <2>4, <2>5, <2>6, <2>7, InvNext
<1>4. QED
  BY <1>2, <1>3

\* A request that is cut off keeps it.
LEMMA AbortKeeps ==
  ASSUME Inv, NEW h \in Request, Abort(h)
  PROVE  Inv'
<1>1. RequestTypeOK /\ RowTypeOK /\ CounterTypeOK /\ TypeOK /\ PhaseInv
  BY TypeParts DEF Inv
<1>2. /\ Done(h)
      /\ UNCHANGED <<scenario, now, event, version, rows, requests>>
      /\ failures > 0 /\ failures' = failures - 1
  BY DEF Abort, eventVars
<1>3. RequestTypeOK' /\ PhaseInv'
  BY <1>1, <1>2, DoneType, DoneKnows DEF Versioned
<1>4. CounterTypeOK'
  <2>1. broken' \in SUBSET {"cut", "late", "crossed"} /\ missed' \in [Request -> SUBSET Config]
    BY <1>1 DEF Abort, CounterTypeOK
  <2>2. failures' \in 0 .. MaxFailures
    BY <1>1, <1>2, ScheduleAssumption DEF CounterTypeOK
  <2>3. QED
    BY <1>1, <1>2, <2>1, <2>2 DEF CounterTypeOK
<1>5. RowTypeOK' /\ NoOrphans'
  BY <1>1, <1>2 DEF RowTypeOK, Inv, NoOrphans, Live
<1>6. QED
  BY <1>3, <1>4, <1>5, InvNext

\* The worker's claim and the clock keep it.
LEMMA WorkerAndClockKeep ==
  ASSUME Inv, ClaimDue \/ TimePasses
  PROVE  Inv'
<1>1. RequestTypeOK /\ RowTypeOK /\ CounterTypeOK /\ TypeOK /\ PhaseInv
  BY TypeParts DEF Inv
<1>2. UNCHANGED <<scenario, event, version, pc, seen, ask, from, asOf, todo, missed, requests,
                 failures, broken>>
  BY DEF ClaimDue, TimePasses, eventVars, requestVars
<1>3. RequestTypeOK'
  BY <1>1, <1>2 DEF RequestTypeOK
<1>4. PhaseInv'
  BY <1>1, <1>2, AtOnceKnows DEF Versioned, requestVars
<1>5. CounterTypeOK'
  <2>1. now' \in 0 .. LastInstant
    BY <1>1, ScheduleAssumption DEF ClaimDue, TimePasses, CounterTypeOK
  <2>2. QED
    BY <1>1, <1>2, <2>1 DEF CounterTypeOK
<1>6. rows' \in SUBSET Row /\ (rows = {} => rows' = {})
  <2>1. \A r \in Row : [r EXCEPT !.sent = TRUE] \in Row
    BY DEF Row
  <2>2. CASE ClaimDue
    BY <1>1, <2>1, <2>2 DEF ClaimDue, RowTypeOK
  <2>3. CASE TimePasses
    BY <1>1, <2>3 DEF TimePasses, eventVars, RowTypeOK
  <2>4. QED
    BY <2>2, <2>3
<1>7. RowTypeOK' /\ NoOrphans'
  BY <1>1, <1>2, <1>6 DEF RowTypeOK, Inv, NoOrphans, Live
<1>8. QED
  BY <1>3, <1>4, <1>5, <1>7, InvNext

\* Every step keeps the invariant.
LEMMA NextInv == Inv /\ [Next]_vars => Inv'
<1> SUFFICES ASSUME Inv, [Next]_vars PROVE Inv'
  OBVIOUS
<1>1. CASE UNCHANGED vars
  <2>1. TypeOK'
    BY <1>1 DEF Inv, TypeOK, vars, eventVars, requestVars
  <2>2. PhaseInv'
    BY <1>1, AtOnceKnows DEF Inv, vars, eventVars, requestVars, Versioned
  <2>3. NoOrphans'
    BY <1>1 DEF Inv, NoOrphans, Live, vars, eventVars
  <2>4. QED
    BY <2>1, <2>2, <2>3 DEF Inv
<1>2. CASE Next
  <2>1. ASSUME NEW h \in Request, Create(h) \/ BeginUpdate(h) PROVE Inv'
    BY <2>1, CreateKeeps, BeginUpdateKeeps
  <2>2. ASSUME NEW h \in Request, UpdateStep(h) PROVE Inv'
    BY <2>2, ApplyUpdateKeeps, PlanRemindersKeeps, DeleteOldKeeps, InsertNextKeeps DEF UpdateStep
  <2>3. ASSUME NEW h \in Request, BeginSet(h) \/ CommitSet(h) PROVE Inv'
    BY <2>3, BeginSetKeeps, CommitSetKeeps
  <2>4. ASSUME NEW h \in Request,
               DeleteEvent(h) \/ Touch(h) \/ EditSeries(h) \/ ImportInvitation(h)
        PROVE  Inv'
    BY <2>4, AtOnceKeeps
  <2>5. ASSUME NEW h \in Request,
               \/ DeleteReminders(h) \/ ClearReminder(h)
               \/ PurgeReminders(h) \/ PurgeEvent(h)
        PROVE  Inv'
    BY <2>5, ClearKeeps, PurgeKeeps
  <2>6. ASSUME NEW h \in Request, Abort(h) PROVE Inv'
    BY <2>6, AbortKeeps
  <2>7. ASSUME ClaimDue \/ TimePasses PROVE Inv'
    BY <2>7, WorkerAndClockKeep
  <2>8. QED
    BY ONLY <1>2, <2>1, <2>2, <2>3, <2>4, <2>5, <2>6, <2>7 DEF Next
<1>3. QED
  BY <1>1, <1>2

\* The invariant holds throughout.
LEMMA InvAlways == Spec => []Inv
<1>1. Init => Inv
  BY InitInv DEF Inv
<1>2. QED
  BY <1>1, NextInv, PTL DEF Spec

\* The tables and requests keep their types; in particular a reschedule always
\* has a start to work from.
THEOREM ScheduleTypeCorrect == Spec => []TypeOK
<1>1. Inv => TypeOK
  BY DEF Inv
<1>2. QED
  BY <1>1, InvAlways, PTL

\* Whatever number of updates, saves of settings and deletes of an event run at
\* once, and whichever of them is cut off, no reminder outlives the event.
THEOREM NoOrphansAlways == Spec => []NoOrphans
<1>1. Inv => NoOrphans
  BY DEF Inv
<1>2. QED
  BY <1>1, InvAlways, PTL

\* Only a write that met the version it had read goes on to reschedule.
LEMMA OnlyApplyPlans ==
  ASSUME TypeOK, Next, NEW h \in Request, pc[h] = "update", pc'[h] = "plan"
  PROVE  ApplyUpdate(h) /\ UnchangedSince(h) /\ Live
<1>1. ASSUME NEW g \in Request, ApplyUpdate(g)
      PROVE  g = h /\ UnchangedSince(h) /\ Live
  BY <1>1 DEF TypeOK, ApplyUpdate, Done, Goto
<1>2. ASSUME NEW g \in Request, Create(g) \/ BeginUpdate(g) PROVE FALSE
  BY <1>2 DEF TypeOK, Create, BeginUpdate, Goto
<1>3. ASSUME NEW g \in Request, PlanReminders(g) \/ DeleteOld(g) \/ InsertNext(g) PROVE FALSE
  BY <1>3 DEF TypeOK, PlanReminders, DeleteOld, InsertNext, Insert, Done, Goto
<1>4. ASSUME NEW g \in Request, BeginSet(g) \/ CommitSet(g) \/ Abort(g) PROVE FALSE
  BY <1>4 DEF TypeOK, BeginSet, CommitSet, Abort, Done, Goto
<1>5. ASSUME NEW g \in Request,
             \/ DeleteReminders(g) \/ ClearReminder(g)
             \/ PurgeReminders(g) \/ PurgeEvent(g)
      PROVE  FALSE
  BY <1>5 DEF TypeOK, DeleteReminders, ClearReminder, PurgeReminders, PurgeEvent, Done, Goto
<1>6. ASSUME NEW g \in Request,
             DeleteEvent(g) \/ Touch(g) \/ EditSeries(g) \/ ImportInvitation(g)
      PROVE  FALSE
  BY <1>6 DEF DeleteEvent, Touch, EditSeries, ImportInvitation, requestVars
<1>7. ASSUME ClaimDue \/ TimePasses PROVE FALSE
  BY <1>7 DEF ClaimDue, TimePasses, requestVars
<1>8. QED
  BY ONLY Next, <1>1, <1>2, <1>3, <1>4, <1>5, <1>6, <1>7 DEF Next, UpdateStep

\* The start that an update reschedules for is the one it has just written,
\* although it was read before the write: every write gives the event a new
\* version, and the update has met the version it read.
THEOREM ReschedulesCurrentStartAlways == Spec => ReschedulesCurrentStart
<1>1. ASSUME Inv, [Next]_vars
      PROVE  [\A h \in Request : pc[h] = "update" /\ pc'[h] = "plan" => from[h] = event'.start]_vars
  <2> SUFFICES ASSUME Next, NEW h \in Request, pc[h] = "update", pc'[h] = "plan"
               PROVE  from[h] = event'.start
    BY <1>1
  <2>1. ApplyUpdate(h) /\ UnchangedSince(h) /\ Live
    BY <1>1, OnlyApplyPlans DEF Inv
  <2>2. from[h] = Given(ask[h].start, event.start)
    BY <1>1, <2>1 DEF Inv, PhaseInv, PhaseOf, UnchangedSince
  <2>3. event'.start = Given(ask[h].start, event.start)
    BY <1>1, <2>1 DEF Inv, TypeOK, ApplyUpdate, WriteEvent
  <2>4. QED
    BY <2>2, <2>3
<1>2. QED
  BY <1>1, InvAlways, PTL DEF Spec, ReschedulesCurrentStart

-----------------------------------------------------------------------------
(* The copy of an invitation: its reminders are only written by saves of     *)
(* settings, in one transaction with the column, and by deletes of them,     *)
(* whose two statements a save may come between.                             *)

InvitationInv ==
    /\ \A g \in Request : pc[g] \in {"idle", "set", "clear", "purge"}
    /\ \A g \in Request : pc[g] = "set" =>
        /\ \A c \in todo[g] : c.copy = 1
        /\ todo[g] # {} => ask[g].reminder = ReminderField(todo[g])
    /\ DistinctRows
    /\ broken = {} /\ EmailLeads(rows) # {} => event.reminder = Min(EmailLeads(rows))

\* What is left of the invariant when rows and requests are.
LEMMA InvitationKept ==
  ASSUME InvitationInv, UNCHANGED <<pc, todo, ask, rows, broken>>, event'.reminder = event.reminder
  PROVE  InvitationInv'
  BY DEF InvitationInv, DistinctRows, EmailLeads

\* Nothing is wrong with no reminders.
LEMMA NoRows ==
  ASSUME rows' = {}
  PROVE  DistinctRows' /\ EmailLeads(rows') = {}
  BY DEF DistinctRows, EmailLeads

\* Reading an event for a save of its settings plans each of them once.
LEMMA BeginSetInvitation ==
  ASSUME Inv, InvitationInv, NEW h \in Request, BeginSet(h)
  PROVE  InvitationInv'
<1>1. PICK S \in SUBSET [type : Type, lead : Lead, copy : {1}] :
        /\ ask' = [ask EXCEPT ![h].reminder = ReminderField(S)]
        /\ todo' = [todo EXCEPT ![h] = IF event.start <= now THEN {} ELSE S]
  BY DEF BeginSet
<1>2. pc' = [pc EXCEPT ![h] = "set"] /\ UNCHANGED <<rows, event, broken>>
  BY DEF BeginSet, Goto, eventVars
<1>3. /\ pc'[h] = "set"
      /\ todo'[h] = {} \/ todo'[h] = S
      /\ ask'[h].reminder = ReminderField(S)
  BY <1>1, <1>2 DEF Inv, TypeOK
<1>4. ASSUME NEW g \in Request, g # h
      PROVE  pc'[g] = pc[g] /\ todo'[g] = todo[g] /\ ask'[g] = ask[g]
  BY <1>1, <1>2, <1>4 DEF Inv, TypeOK
<1>5. \A g \in Request : pc'[g] \in {"idle", "set", "clear", "purge"}
  BY <1>3, <1>4 DEF InvitationInv
<1>6. ASSUME NEW g \in Request, pc'[g] = "set"
      PROVE  /\ \A c \in todo'[g] : c.copy = 1
             /\ todo'[g] # {} => ask'[g].reminder = ReminderField(todo'[g])
  <2>1. CASE g = h
    BY <1>3, <2>1
  <2>2. CASE g # h
    BY <1>4, <1>6, <2>2 DEF InvitationInv
  <2>3. QED
    BY <2>1, <2>2
<1>7. DistinctRows' /\ (broken' = {} /\ EmailLeads(rows') # {}
                        => event'.reminder = Min(EmailLeads(rows')))
  BY <1>2 DEF InvitationInv, DistinctRows
<1>8. QED
  BY <1>5, <1>6, <1>7 DEF InvitationInv

\* A request that is answered plans nothing.
LEMMA DoneInvitation ==
  ASSUME Inv, InvitationInv, NEW h \in Request, Done(h)
  PROVE  /\ \A g \in Request : pc'[g] \in {"idle", "set", "clear", "purge"}
         /\ \A g \in Request : pc'[g] = "set" =>
                /\ \A c \in todo'[g] : c.copy = 1
                /\ todo'[g] # {} => ask'[g].reminder = ReminderField(todo'[g])
<1>1. pc'[h] = "idle"
  BY DEF Inv, TypeOK, Done, Goto
<1>2. ASSUME NEW g \in Request, g # h
      PROVE  pc'[g] = pc[g] /\ todo'[g] = todo[g] /\ ask'[g] = ask[g]
  BY <1>2 DEF Inv, TypeOK, Done, Goto
<1>3. QED
  BY <1>1, <1>2 DEF InvitationInv

\* The transaction writes the column and the rows it belongs to.
LEMMA CommitSetInvitation ==
  ASSUME Inv, InvitationInv, NEW h \in Request, CommitSet(h)
  PROVE  InvitationInv'
<1>1. pc[h] = "set" /\ Done(h) /\ todo[h] \in SUBSET Config
  BY DEF CommitSet, Inv, TypeOK
<1>2. CASE Live
  <2>1. /\ event' = [event EXCEPT !.reminder = ask[h].reminder]
        /\ rows' = {RowOf(c, 1, from[h], asOf[h]) : c \in todo[h]}
    BY <1>2 DEF CommitSet, ReplacedBy, WriteEvent
  <2>2. event'.reminder = ask[h].reminder
    BY <2>1 DEF Inv, TypeOK
  <2>3. \A c \in todo[h] : c = [type |-> c.type, lead |-> c.lead, copy |-> 1]
    BY <1>1 DEF InvitationInv, Config
  <2> DEFINE R(c) == RowOf(c, 1, from[h], asOf[h])
  <2>10. \A c : R(c).type = c.type /\ R(c).lead = c.lead
    BY DEF RowOf
  <2>4. DistinctRows'
    <3>1. \A c, d \in todo[h] : c.type = d.type /\ c.lead = d.lead => c = d
      BY <2>3
    <3>2. rows' = {R(c) : c \in todo[h]}
      BY <2>1
    <3> HIDE DEF R
    <3>3. QED
      BY <2>10, <3>1, <3>2 DEF DistinctRows
  <2>5. EmailLeads(rows') = EmailLeads(todo[h])
    <3>1. rows' = {R(c) : c \in todo[h]}
      BY <2>1
    <3> HIDE DEF R
    <3>2. QED
      BY <2>10, <3>1 DEF EmailLeads
  <2>6. EmailLeads(todo[h]) # {} => event'.reminder = Min(EmailLeads(todo[h]))
    <3>1. EmailLeads(todo[h]) # {} => todo[h] # {}
      BY DEF EmailLeads
    <3>2. QED
      BY <1>1, <2>2, <3>1 DEF InvitationInv, ReminderField
  <2>7. QED
    BY <1>1, <2>4, <2>5, <2>6, DoneInvitation DEF InvitationInv
<1>3. CASE ~Live
  <2>1. UNCHANGED <<event, rows, broken>>
    BY <1>3 DEF CommitSet, eventVars
  <2>2. QED
    BY <1>1, <2>1, DoneInvitation DEF InvitationInv, DistinctRows
<1>4. QED
  BY <1>2, <1>3

\* Marking reminders sent changes none of their lead times.
LEMMA ClaimDueInvitation ==
  ASSUME Inv, InvitationInv, ClaimDue
  PROVE  InvitationInv'
<1> DEFINE Sent(r) == IF Due(r) THEN [r EXCEPT !.sent = TRUE] ELSE r
<1>1. rows' = {Sent(r) : r \in rows} /\ rows \in SUBSET Row
  BY DEF ClaimDue, Inv, TypeOK
<1>2. UNCHANGED <<pc, todo, ask, event, broken>>
  BY DEF ClaimDue, requestVars
<1>3. \A r \in rows : Sent(r).type = r.type /\ Sent(r).lead = r.lead
  BY <1>1 DEF Row
<1>4. DistinctRows'
  <2> HIDE DEF Sent
  <2> QED
    BY <1>1, <1>3 DEF InvitationInv, DistinctRows
<1>5. EmailLeads(rows') = EmailLeads(rows)
  <2> HIDE DEF Sent
  <2> QED
    BY <1>1, <1>3 DEF EmailLeads
<1>6. QED
  BY <1>2, <1>4, <1>5 DEF InvitationInv

\* Every step on the copy of an invitation keeps the invariant.
LEMMA InvitationNext ==
  ASSUME IsInvitation, Inv, InvitationInv, [Next]_vars
  PROVE  InvitationInv'
<1>1. CASE UNCHANGED vars \/ TimePasses
  BY <1>1, InvitationKept DEF vars, eventVars, requestVars, TimePasses
<1>2. ASSUME NEW h \in Request, Create(h) PROVE InvitationInv'
  <2>1. PICK s \in Start, notify \in BOOLEAN :
          /\ WriteEvent([state |-> "live", start |-> s, reminder |-> None])
          /\ todo' = [todo EXCEPT ![h] = EventReminder(None, notify)]
          /\ Goto(h, IF EventReminder(None, notify) = {} THEN "idle" ELSE "insert")
    BY <1>2 DEF Create
  <2>2. EventReminder(None, notify) = {}
    BY ScheduleAssumption DEF EventReminder
  <2>3. rows = {} /\ rows' = rows /\ ask' = ask
    BY <1>2 DEF Create, Inv, NoOrphans, Live
  <2>4. DistinctRows' /\ EmailLeads(rows') = {}
    BY <2>3, NoRows
  <2>5. pc' = [pc EXCEPT ![h] = "idle"]
    BY <2>1, <2>2 DEF Goto
  <2>6. ASSUME NEW g \in Request, g # h PROVE pc'[g] = pc[g] /\ todo'[g] = todo[g]
    BY <2>1, <2>5, <2>6 DEF Inv, TypeOK
  <2>7. pc'[h] = "idle"
    BY <2>5 DEF Inv, TypeOK
  <2>8. QED
    BY <2>3, <2>4, <2>6, <2>7 DEF InvitationInv
<1>3. ASSUME NEW h \in Request, BeginUpdate(h) \/ UpdateStep(h) \/ EditSeries(h) PROVE FALSE
  BY <1>3 DEF InvitationInv, BeginUpdate, UpdateStep, ApplyUpdate, PlanReminders,
              DeleteOld, InsertNext, EditSeries
<1>4. ASSUME NEW h \in Request, BeginSet(h) \/ CommitSet(h) PROVE InvitationInv'
  BY <1>4, BeginSetInvitation, CommitSetInvitation
<1>5. ASSUME NEW h \in Request, DeleteEvent(h) PROVE InvitationInv'
  <2>1. rows' = {} /\ UNCHANGED <<pc, todo, ask>>
    BY <1>5 DEF DeleteEvent, requestVars
  <2>2. QED
    BY <2>1, NoRows DEF InvitationInv
<1>6. ASSUME NEW h \in Request, Touch(h) \/ ImportInvitation(h) PROVE InvitationInv'
  <2>1. UNCHANGED <<pc, todo, ask, rows, broken>>
    BY <1>6 DEF Touch, ImportInvitation, requestVars
  <2>2. event'.reminder = event.reminder
    BY <1>6 DEF Touch, ImportInvitation, WriteEvent, Inv, TypeOK
  <2>3. QED
    BY <2>1, <2>2, InvitationKept
<1>7. ASSUME NEW h \in Request, PurgeReminders(h) PROVE InvitationInv'
  <2>1. rows' = {} /\ pc' = [pc EXCEPT ![h] = "purge"] /\ UNCHANGED <<todo, ask>>
    BY <1>7 DEF PurgeReminders, Goto
  <2>2. pc'[h] = "purge" /\ \A g \in Request : g # h => pc'[g] = pc[g]
    BY <2>1 DEF Inv, TypeOK
  <2>3. QED
    BY <2>1, <2>2, NoRows DEF InvitationInv
<1>8. ASSUME NEW h \in Request, PurgeEvent(h) \/ Abort(h) PROVE InvitationInv'
  <2>1. Done(h) /\ (rows' = {} \/ (UNCHANGED <<event, rows>> /\ broken \subseteq broken'))
    BY <1>8 DEF PurgeEvent, Abort, Cascades, eventVars
  <2>2. CASE rows' = {}
    BY <2>1, <2>2, NoRows, DoneInvitation DEF InvitationInv
  <2>3. CASE UNCHANGED <<event, rows>> /\ broken \subseteq broken'
    BY <2>1, <2>3, DoneInvitation DEF InvitationInv, DistinctRows
  <2>4. QED
    BY <2>1, <2>2, <2>3
<1>9. ASSUME ClaimDue PROVE InvitationInv'
  BY <1>9, ClaimDueInvitation
<1>10. ASSUME NEW h \in Request, DeleteReminders(h) PROVE InvitationInv'
  <2>1. pc' = [pc EXCEPT ![h] = "clear"] /\ UNCHANGED <<event, rows, todo, ask, broken>>
    BY <1>10 DEF DeleteReminders, Goto, eventVars
  <2>2. pc'[h] = "clear" /\ \A g \in Request : g # h => pc'[g] = pc[g]
    BY <2>1 DEF Inv, TypeOK
  <2>3. QED
    BY <2>1, <2>2 DEF InvitationInv, DistinctRows
<1>11. ASSUME NEW h \in Request, ClearReminder(h) PROVE InvitationInv'
  <2>1. /\ Done(h)
        /\ \/ UNCHANGED <<event, rows, broken>>
           \/ rows' = {}
           \/ rows' \subseteq rows /\ broken' # {}
    BY <1>11 DEF ClearReminder, eventVars
  <2>2. DistinctRows'
    BY <2>1 DEF InvitationInv, DistinctRows
  <2>3. broken' = {} /\ EmailLeads(rows') # {} => event'.reminder = Min(EmailLeads(rows'))
    BY <2>1, NoRows DEF InvitationInv
  <2>4. QED
    BY <2>1, <2>2, <2>3, DoneInvitation DEF InvitationInv
<1>12. QED
  BY ONLY [Next]_vars, <1>1, <1>2, <1>3, <1>4, <1>5, <1>6, <1>7, <1>8, <1>9, <1>10, <1>11 DEF Next

\* An event stays what it is.
LEMMA ScenarioKept == [Next]_vars => scenario' = scenario
  BY DEF vars, Next, Create, BeginUpdate, UpdateStep, ApplyUpdate, PlanReminders, DeleteOld,
         InsertNext, BeginSet, CommitSet, DeleteReminders, ClearReminder, DeleteEvent,
         PurgeReminders,
         PurgeEvent, Touch, EditSeries, ImportInvitation, Abort, ClaimDue, TimePasses

-----------------------------------------------------------------------------
(* The owner's own event, whose requests come one after the other: what one  *)
(* request under way makes of the rows, between its statements.              *)

Solo == scenario.alone /\ ~IsSeries /\ ~IsInvitation

Alike(c, d) == c.type = d.type /\ c.lead = d.lead

NoneAlike(S) == \A c, d \in S : Alike(c, d) => c = d

\* The column is the shortest lead of these.
Agrees(S) == EmailLeads(S) # {} => event.reminder = Min(EmailLeads(S))

\* Where the reminders are, and what the column says of them, while h is the
\* one request under way.
SoloPhase(h) ==
    /\ pc[h] # "purge"
    /\ pc[h] \in {"plan", "delete", "insert", "set"} => from[h] = event.start
    /\ pc[h] \in {"delete", "insert", "set"} => NoneAlike(todo[h])
    /\ pc[h] = "insert" => \A c \in todo[h], r \in rows : ~Alike(c, r)
    /\ pc[h] = "set" /\ todo[h] # {} => ask[h].reminder = ReminderField(todo[h])
    /\ "cut" \notin broken /\ pc[h] \notin {"plan", "delete"} => \A r \in rows : r.of = event.start
    /\ broken = {} =>
        /\ pc[h] \in {"idle", "update", "set", "clear"} => Agrees(rows)
        /\ pc[h] = "plan" /\ ask[h].reminder = Keep => Agrees(rows)
        /\ pc[h] = "plan" /\ ask[h].reminder # Keep => event.reminder = ask[h].reminder
        /\ pc[h] = "delete" => Agrees(todo[h])
        /\ pc[h] = "insert" => Agrees(rows \cup todo[h]) \/ (rows = {} /\ from[h] <= now)

OthersIdle(h) == \A g \in Request \ {h} : Idle(g)

SoloInv ==
    /\ DistinctRows
    /\ Request = {} => rows = {}
    /\ Request # {} => \E h \in Request : OthersIdle(h) /\ SoloPhase(h)

\* Two sets of the same types and leads have the same email leads.
LEMMA SameLeads ==
  ASSUME NEW S, NEW T, \A c \in S : \E d \in T : Alike(c, d), \A d \in T : \E c \in S : Alike(c, d)
  PROVE  EmailLeads(S) = EmailLeads(T)
<1>1. ASSUME NEW x \in EmailLeads(S) PROVE x \in EmailLeads(T)
  BY DEF EmailLeads, Alike
<1>2. ASSUME NEW x \in EmailLeads(T) PROVE x \in EmailLeads(S)
  BY DEF EmailLeads, Alike
<1>3. QED
  BY <1>1, <1>2

\* An event's own reminder is the column.
LEMMA OwnReminder ==
  ASSUME NEW m \in Lead \cup {None}, NEW n
  PROVE  /\ NoneAlike(EventReminder(m, n))
         /\ EmailLeads(EventReminder(m, n)) # {} => m = Min(EmailLeads(EventReminder(m, n)))
<1>1. CASE EventReminder(m, n) = {}
  BY <1>1 DEF NoneAlike, EmailLeads
<1>2. CASE EventReminder(m, n) = {EmailConfig(m)} /\ m \in Lead
  <2>1. EmailLeads(EventReminder(m, n)) = {m}
    <3>1. EmailConfig(m).type = "email" /\ EmailConfig(m).lead = m
      BY DEF EmailConfig
    <3>2. EmailLeads({EmailConfig(m)}) = {m}
      BY <3>1 DEF EmailLeads
    <3>3. QED
      BY <1>2, <3>2
  <2>2. {m} \in SUBSET Nat
    BY <1>2, ScheduleAssumption
  <2>3. Min({m}) \in {m}
    BY <2>2, MinType
  <2>4. QED
    BY <1>2, <2>1, <2>3 DEF NoneAlike
<1>3. QED
  BY <1>1, <1>2, ScheduleAssumption DEF EventReminder

\* The request that steps is the one under way.
LEMMA SoloAt ==
  ASSUME SoloInv, NEW h \in Request, ~Idle(h) \/ \A g \in Request : Idle(g)
  PROVE  OthersIdle(h) /\ SoloPhase(h)
<1>1. PICK k \in Request : OthersIdle(k) /\ SoloPhase(k)
  BY DEF SoloInv
<1>2. CASE k = h
  BY <1>1, <1>2
<1>3. CASE k # h
  <2>1. \A g \in Request : pc[g] = "idle"
    BY <1>1, <1>3 DEF OthersIdle, Idle
  <2>2. QED
    BY <1>1, <2>1 DEF SoloPhase, OthersIdle, Idle
<1>4. QED
  BY <1>2, <1>3

LEMMA SoloNext ==
  ASSUME NEW h \in Request, OthersIdle(h)', SoloPhase(h)', DistinctRows'
  PROVE  SoloInv'
  BY DEF SoloInv

\* The others stay idle.
LEMMA OthersStay ==
  ASSUME TypeOK, NEW h \in Request, OthersIdle(h), NEW p, Goto(h, p)
  PROVE  OthersIdle(h)' /\ pc'[h] = p
  BY DEF TypeOK, Goto, OthersIdle, Idle

\* A request ends with the rows as they should be.
LEMMA DoneSolo ==
  ASSUME TypeOK, NEW h \in Request, OthersIdle(h), Done(h), DistinctRows',
         "cut" \notin broken' => \A r \in rows' : r.of = event'.start,
         broken' = {} => Agrees(rows)'
  PROVE  SoloInv'
<1>1. OthersIdle(h)' /\ pc'[h] = "idle"
  BY OthersStay DEF Done
<1>2. SoloPhase(h)'
  BY <1>1 DEF SoloPhase
<1>3. QED
  BY <1>1, <1>2, SoloNext

\* A request is answered at once, with the rows as they should be.
LEMMA AtOnceSolo ==
  ASSUME SoloInv, NEW h \in Request, \A g \in Request : Idle(g), pc' = pc, DistinctRows',
         "cut" \notin broken' => \A r \in rows' : r.of = event'.start,
         broken' = {} => Agrees(rows)'
  PROVE  SoloInv'
<1>1. OthersIdle(h)' /\ pc'[h] = "idle"
  BY DEF OthersIdle, Idle
<1>2. SoloPhase(h)'
  BY <1>1 DEF SoloPhase
<1>3. QED
  BY <1>1, <1>2, SoloNext

\* Without reminders nothing is wrong.
LEMMA NoneWrong ==
  ASSUME rows' = {}
  PROVE  DistinctRows' /\ Agrees(rows)' /\ \A r \in rows' : r.of = event'.start
  BY DEF DistinctRows, Agrees, EmailLeads

\* A new event has the reminder it was given, or gets it.
LEMMA CreateSolo ==
  ASSUME Solo, Inv, SoloInv, NEW h \in Request, Create(h)
  PROVE  SoloInv'
<1>1. PICK s \in Start, m \in Lead \cup {None}, n \in BOOLEAN :
        /\ event' = [state |-> "live", start |-> s, reminder |-> m]
        /\ todo' = [todo EXCEPT ![h] = EventReminder(m, n)]
        /\ Goto(h, IF EventReminder(m, n) = {} THEN "idle" ELSE "insert")
        /\ from' = [from EXCEPT ![h] = IF EventReminder(m, n) = {} THEN None ELSE s]
  BY DEF Create, WriteEvent
<1>2. TypeOK /\ rows = {} /\ rows' = {} /\ \A g \in Request : Idle(g)
  BY DEF Create, Begin, Inv, NoOrphans, Live, Solo
<1>3. OthersIdle(h)
  BY <1>2, SoloAt
<1>4. todo'[h] = EventReminder(m, n)
  BY <1>1, <1>2 DEF TypeOK
<1>5. CASE EventReminder(m, n) = {}
  <2>1. Goto(h, "idle")
    BY <1>1, <1>5
  <2>2. OthersIdle(h)' /\ pc'[h] = "idle"
    BY <1>2, <1>3, <2>1, OthersStay
  <2>3. SoloPhase(h)'
    BY <1>2, <2>2, NoneWrong DEF SoloPhase
  <2>4. QED
    BY <1>2, <2>2, <2>3, NoneWrong, SoloNext
<1>6. CASE EventReminder(m, n) # {}
  <2>1. Goto(h, "insert")
    BY <1>1, <1>6
  <2>2. OthersIdle(h)' /\ pc'[h] = "insert"
    BY <1>2, <1>3, <2>1, OthersStay
  <2>3. from'[h] = event'.start
    BY <1>1, <1>2, <1>6 DEF TypeOK
  <2>4. NoneAlike(todo'[h]) /\ Agrees(rows \cup todo[h])'
    BY <1>1, <1>2, <1>4, OwnReminder DEF Agrees
  <2>5. SoloPhase(h)'
    BY <1>2, <2>2, <2>3, <2>4 DEF SoloPhase, NoneAlike
  <2>6. QED
    BY <1>2, <2>2, <2>5, NoneWrong, SoloNext
<1>7. QED
  BY <1>5, <1>6

\* What an update reads is as it should be.
LEMMA BeginUpdateSolo ==
  ASSUME Solo, Inv, SoloInv, NEW h \in Request, BeginUpdate(h)
  PROVE  SoloInv'
<1>1. TypeOK /\ (\A g \in Request : Idle(g)) /\ Goto(h, "update") /\ UNCHANGED <<event, rows, broken>>
  BY DEF BeginUpdate, Begin, Inv, Solo, eventVars
<1>2. OthersIdle(h) /\ SoloPhase(h) /\ pc[h] = "idle"
  BY <1>1, SoloAt DEF Idle
<1>3. OthersIdle(h)' /\ pc'[h] = "update"
  BY <1>1, <1>2, OthersStay
<1>4. SoloPhase(h)'
  BY <1>1, <1>2, <1>3 DEF SoloPhase, Agrees
<1>5. DistinctRows'
  BY <1>1 DEF SoloInv, DistinctRows
<1>6. QED
  BY <1>3, <1>4, <1>5, SoloNext

\* It writes the event, or ends.
LEMMA ApplyUpdateSolo ==
  ASSUME Solo, Inv, SoloInv, NEW h \in Request, ApplyUpdate(h)
  PROVE  SoloInv'
<1>1. TypeOK /\ pc[h] = "update" /\ rows' = rows /\ broken' = broken
  BY DEF ApplyUpdate, Inv
<1>2. OthersIdle(h) /\ SoloPhase(h)
  BY <1>1, SoloAt DEF Idle
<1>3. DistinctRows'
  BY <1>1 DEF SoloInv, DistinctRows
<1>4. CASE ~(Live /\ UnchangedSince(h))
  <2>1. Done(h) /\ event' = event
    BY <1>4 DEF ApplyUpdate
  <2>2. QED
    BY <1>1, <1>2, <1>3, <2>1, DoneSolo DEF SoloPhase, Agrees
<1>5. CASE Live /\ UnchangedSince(h)
  <2>1. /\ event' = [event EXCEPT !.start = Given(ask[h].start, @), !.reminder = Given(ask[h].reminder, @)]
        /\ Goto(h, "plan") /\ from' = from /\ ask' = ask
    BY <1>5 DEF ApplyUpdate, WriteEvent
  <2>2. OthersIdle(h)' /\ pc'[h] = "plan"
    BY <1>1, <1>2, <2>1, OthersStay
  <2>3. event'.start = Given(ask[h].start, event.start)
          /\ event'.reminder = Given(ask[h].reminder, event.reminder)
    BY <1>1, <2>1 DEF TypeOK
  <2>4. from[h] = Given(ask[h].start, event.start)
    BY <1>1, <1>5 DEF Inv, PhaseInv, PhaseOf, UnchangedSince
  <2>5. SoloPhase(h)'
    BY <1>1, <1>2, <2>1, <2>2, <2>3, <2>4 DEF SoloPhase, Agrees, Given
  <2>6. QED
    BY <1>3, <2>2, <2>5, SoloNext
<1>6. QED
  BY <1>4, <1>5

\* The reminders to rebuild are those there are, or the one asked for.
LEMMA PlanRemindersSolo ==
  ASSUME Solo, Inv, SoloInv, NEW h \in Request, PlanReminders(h)
  PROVE  SoloInv'
<1>1. /\ TypeOK /\ pc[h] = "plan" /\ UNCHANGED <<event, rows, broken, from, ask>> /\ Goto(h, "delete")
      /\ todo'[h] = IF ask[h].reminder = Keep THEN Existing
                    ELSE EventReminder(ask[h].reminder, ask[h].notify)
  BY DEF PlanReminders, Inv, TypeOK, eventVars
<1>2. OthersIdle(h) /\ SoloPhase(h) /\ DistinctRows
  BY <1>1, SoloAt DEF Idle, SoloInv
<1>3. OthersIdle(h)' /\ pc'[h] = "delete"
  BY <1>1, <1>2, OthersStay
<1>4. NoneAlike(todo'[h]) /\ (broken = {} => Agrees(todo[h])')
  <2>1. CASE ask[h].reminder = Keep
    <3>1. \A c \in Existing : \E r \in rows : c = ConfigOf(r) /\ Alike(c, r)
      BY DEF Existing, ConfigOf, Alike
    <3>2. ASSUME NEW r \in rows PROVE \E c \in Existing : Alike(c, r)
      <4>1. ConfigOf(r) \in Existing
        BY DEF Existing
      <4>2. Alike(ConfigOf(r), r)
        BY DEF ConfigOf, Alike
      <4>3. QED
        BY <4>1, <4>2
    <3>3. EmailLeads(Existing) = EmailLeads(rows)
      BY <3>1, <3>2, SameLeads
    <3>4. NoneAlike(Existing)
      BY <1>2, <3>1 DEF NoneAlike, DistinctRows, Alike
    <3>5. broken = {} => Agrees(rows)
      BY <1>1, <1>2, <2>1 DEF SoloPhase
    <3>6. todo'[h] = Existing
      BY <1>1, <2>1
    <3>7. QED
      BY <1>1, <3>3, <3>4, <3>5, <3>6 DEF Agrees
  <2>2. CASE ask[h].reminder # Keep
    <3>1. ask[h].reminder \in Lead \cup {None}
      BY <1>1, <2>2 DEF TypeOK
    <3>2. broken = {} => event'.reminder = ask[h].reminder
      BY <1>1, <1>2, <2>2 DEF SoloPhase
    <3>3. todo'[h] = EventReminder(ask[h].reminder, ask[h].notify)
      BY <1>1, <2>2
    <3>4. QED
      BY <3>1, <3>2, <3>3, OwnReminder DEF Agrees
  <2>3. QED
    BY <2>1, <2>2
<1>5. SoloPhase(h)'
  BY <1>1, <1>2, <1>3, <1>4 DEF SoloPhase
<1>6. DistinctRows'
  BY <1>1, <1>2 DEF DistinctRows
<1>7. QED
  BY <1>3, <1>5, <1>6, SoloNext

\* The old reminders go, all those to insert are left.
LEMMA DeleteOldSolo ==
  ASSUME Solo, Inv, SoloInv, NEW h \in Request, DeleteOld(h)
  PROVE  SoloInv'
<1>1. TypeOK /\ pc[h] = "delete" /\ UNCHANGED <<event, broken>> /\ rows' = {} /\ Insert(h, todo[h])
  BY DEF DeleteOld, Inv, LeftByDelete
<1>2. OthersIdle(h) /\ SoloPhase(h)
  BY <1>1, SoloAt DEF Idle
<1>3. CASE Done(h)
  BY <1>1, <1>2, <1>3, NoneWrong, DoneSolo
<1>4. CASE Goto(h, "insert") /\ todo' = [todo EXCEPT ![h] = todo[h]] /\ UNCHANGED <<seen, ask, from, asOf>>
  <2>1. OthersIdle(h)' /\ pc'[h] = "insert"
    BY <1>1, <1>2, <1>4, OthersStay
  <2>2. todo'[h] = todo[h] /\ from'[h] = from[h]
    BY <1>1, <1>4 DEF TypeOK
  <2>3. broken' = {} => Agrees(rows \cup todo[h])'
    BY <1>1, <1>2, <2>2 DEF SoloPhase, Agrees
  <2>4. SoloPhase(h)'
    BY <1>1, <1>2, <2>1, <2>2, <2>3 DEF SoloPhase
  <2>5. QED
    BY <1>1, <2>1, <2>4, NoneWrong, SoloNext
<1>5. QED
  BY <1>1, <1>3, <1>4 DEF Insert

\* A reminder is inserted, or dropped because the event has started.
LEMMA InsertNextSolo ==
  ASSUME Solo, Inv, SoloInv, NEW h \in Request, InsertNext(h)
  PROVE  SoloInv'
<1>1. TypeOK /\ pc[h] = "insert" /\ event' = event /\ now' = now /\ now \in Nat /\ from[h] \in Start
  BY ScheduleAssumption DEF InsertNext, Inv, TypeOK, PhaseInv, PhaseOf
<1>2. OthersIdle(h) /\ SoloPhase(h) /\ DistinctRows
  BY <1>1, SoloAt DEF Idle, SoloInv
<1>3. PICK c \in todo[h] :
        \/ /\ from[h] <= now
           /\ Insert(h, todo[h] \ {c})
           /\ broken' = broken \cup (IF rows # {} THEN {"late"} ELSE {})
           /\ rows' = rows
        \/ /\ from[h] > now
           /\ \E k \in FreeCopies(c) : rows' = rows \cup {RowOf(c, k, from[h], now)}
           /\ Insert(h, todo[h] \ {c})
           /\ broken' = broken
        \/ ~Live /\ Done(h) /\ rows' = rows /\ broken' = broken
  BY DEF InsertNext, HasEvent
<1>4. /\ from[h] = event.start /\ NoneAlike(todo[h]) /\ (\A d \in todo[h], r \in rows : ~Alike(d, r))
      /\ "cut" \notin broken => \A r \in rows : r.of = event.start
      /\ broken = {} => Agrees(rows \cup todo[h]) \/ (rows = {} /\ from[h] <= now)
  BY <1>1, <1>2 DEF SoloPhase
<1>5. CASE ~Live /\ Done(h) /\ rows' = rows
  <2>1. rows' = {}
    BY <1>5 DEF Inv, NoOrphans
  <2>2. QED
    BY <1>1, <1>2, <1>5, <2>1, NoneWrong, DoneSolo
\* What is left after a step that inserts.
<1>6. ASSUME Insert(h, todo[h] \ {c}), DistinctRows',
             \A d \in todo[h] \ {c}, r \in rows' : ~Alike(d, r),
             "cut" \notin broken' => \A r \in rows' : r.of = event.start,
             broken' = {} => \/ EmailLeads(rows' \cup (todo[h] \ {c})) # {} =>
                                    event.reminder = Min(EmailLeads(rows' \cup (todo[h] \ {c})))
                             \/ rows' = {} /\ from[h] <= now
      PROVE  SoloInv'
  <2>1. CASE todo[h] \ {c} = {} /\ Done(h)
    <3>1. broken' = {} => Agrees(rows)'
      <4>1. CASE rows' = {}
        BY <4>1, NoneWrong
      <4>2. CASE rows' # {}
        <5>1. rows' \cup (todo[h] \ {c}) = rows'
          BY <2>1
        <5>2. QED
          BY <1>1, <1>6, <4>2, <5>1 DEF Agrees
      <4>3. QED
        BY <4>1, <4>2
    <3>2. QED
      BY <1>1, <1>2, <1>6, <2>1, <3>1, DoneSolo
  <2>2. CASE Goto(h, "insert") /\ todo' = [todo EXCEPT ![h] = todo[h] \ {c}]
          /\ UNCHANGED <<seen, ask, from, asOf>>
    <3>1. OthersIdle(h)' /\ pc'[h] = "insert"
      BY <1>1, <1>2, <2>2, OthersStay
    <3>2. todo'[h] = todo[h] \ {c} /\ from'[h] = from[h]
      BY <1>1, <2>2 DEF TypeOK
    <3>3. NoneAlike(todo'[h])
      BY <1>4, <3>2 DEF NoneAlike
    <3>4. broken' = {} => Agrees(rows \cup todo[h])' \/ (rows' = {} /\ from'[h] <= now')
      BY <1>1, <1>6, <3>2 DEF Agrees
    <3>5. SoloPhase(h)'
      BY <1>1, <1>4, <1>6, <3>1, <3>2, <3>3, <3>4 DEF SoloPhase
    <3>6. QED
      BY <1>6, <3>1, <3>5, SoloNext
  <2>3. QED
    BY <1>6, <2>1, <2>2 DEF Insert
<1>7. CASE /\ from[h] <= now
           /\ Insert(h, todo[h] \ {c})
           /\ broken' = broken \cup (IF rows # {} THEN {"late"} ELSE {})
           /\ rows' = rows
  <2>1. broken' = {} => broken = {} /\ rows' = {} /\ from[h] <= now
    BY <1>7
  <2>2. "cut" \notin broken' => \A r \in rows' : r.of = event.start
    BY <1>4, <1>7
  <2>3. DistinctRows' /\ \A d \in todo[h] \ {c}, r \in rows' : ~Alike(d, r)
    BY <1>2, <1>4, <1>7 DEF DistinctRows
  <2>4. QED
    BY <1>6, <1>7, <2>1, <2>2, <2>3
<1>8. CASE /\ from[h] > now
           /\ \E k \in FreeCopies(c) : rows' = rows \cup {RowOf(c, k, from[h], now)}
           /\ Insert(h, todo[h] \ {c})
           /\ broken' = broken
  <2>1. PICK k, x : x = RowOf(c, k, from[h], now) /\ rows' = rows \cup {x}
    BY <1>8
  <2>2. Alike(c, x) /\ x.of = event.start
    BY <1>4, <2>1 DEF RowOf, Alike
  <2>3. DistinctRows'
    BY <1>2, <1>4, <2>1, <2>2 DEF DistinctRows, Alike
  <2>4. \A d \in todo[h] \ {c}, r \in rows' : ~Alike(d, r)
    BY <1>4, <2>1, <2>2 DEF Alike, NoneAlike
  <2>5. EmailLeads(rows' \cup (todo[h] \ {c})) = EmailLeads(rows \cup todo[h])
    <3>1. \A r \in rows' \cup (todo[h] \ {c}) : \E d \in rows \cup todo[h] : Alike(r, d)
      BY <2>1, <2>2 DEF Alike
    <3>2. \A d \in rows \cup todo[h] : \E r \in rows' \cup (todo[h] \ {c}) : Alike(r, d)
      BY <2>1, <2>2 DEF Alike
    <3>3. QED
      BY <3>1, <3>2, SameLeads
  <2>6. ~(from[h] <= now)
    <3>1. from[h] \in Nat
      BY <1>1, ScheduleAssumption
    <3>2. QED
      BY <1>1, <1>8, <3>1
  <2>7. QED
    BY <1>4, <1>6, <1>8, <2>1, <2>2, <2>3, <2>4, <2>5, <2>6 DEF Agrees
<1>9. QED
  BY <1>3, <1>5, <1>7, <1>8

\* A save of settings plans each of them once.
LEMMA BeginSetSolo ==
  ASSUME Solo, Inv, SoloInv, NEW h \in Request, BeginSet(h)
  PROVE  SoloInv'
<1>1. PICK S \in SUBSET [type : Type, lead : Lead, copy : {1}] :
        /\ ask' = [ask EXCEPT ![h].reminder = ReminderField(S)]
        /\ todo' = [todo EXCEPT ![h] = IF event.start <= now THEN {} ELSE S]
  BY DEF BeginSet
<1>2. /\ TypeOK /\ (\A g \in Request : Idle(g)) /\ Goto(h, "set") /\ UNCHANGED <<event, rows, broken>>
      /\ from'[h] = event.start
  BY DEF BeginSet, Begin, Inv, Solo, eventVars, TypeOK
<1>3. OthersIdle(h) /\ SoloPhase(h) /\ pc[h] = "idle"
  BY <1>2, SoloAt DEF Idle
<1>4. OthersIdle(h)' /\ pc'[h] = "set"
  BY <1>2, <1>3, OthersStay
<1>5. todo'[h] \in {S, {}} /\ ask'[h].reminder = ReminderField(S)
  BY <1>1, <1>2 DEF TypeOK
<1>6. NoneAlike(todo'[h])
  <2>1. \A c \in S : c = [type |-> c.type, lead |-> c.lead, copy |-> 1]
    OBVIOUS
  <2>2. QED
    BY <1>5, <2>1 DEF NoneAlike, Alike
<1>7. SoloPhase(h)'
  BY <1>2, <1>3, <1>4, <1>5, <1>6 DEF SoloPhase, Agrees
<1>8. DistinctRows'
  BY <1>2 DEF SoloInv, DistinctRows
<1>9. QED
  BY <1>4, <1>7, <1>8, SoloNext

\* The transaction writes the column and the rows it belongs to.
LEMMA CommitSetSolo ==
  ASSUME Solo, Inv, SoloInv, NEW h \in Request, CommitSet(h)
  PROVE  SoloInv'
<1>1. TypeOK /\ pc[h] = "set" /\ Done(h)
  BY DEF CommitSet, Inv
<1>2. OthersIdle(h) /\ SoloPhase(h) /\ DistinctRows
  BY <1>1, SoloAt DEF Idle, SoloInv
<1>3. CASE ~Live
  <2>1. rows' = {}
    BY <1>3 DEF CommitSet, eventVars, Inv, NoOrphans
  <2>2. QED
    BY <1>1, <1>2, <2>1, NoneWrong, DoneSolo
<1>4. CASE Live
  <2>1. /\ event' = [event EXCEPT !.reminder = ask[h].reminder]
        /\ rows' = {RowOf(c, 1, from[h], asOf[h]) : c \in todo[h]}
    BY <1>4 DEF CommitSet, ReplacedBy, WriteEvent
  <2>2. event'.reminder = ask[h].reminder /\ event'.start = event.start
    BY <1>1, <2>1 DEF TypeOK
  <2>3. from[h] = event.start /\ NoneAlike(todo[h]) /\ (todo[h] # {}
          => ask[h].reminder = ReminderField(todo[h]))
    BY <1>1, <1>2 DEF SoloPhase
  <2> DEFINE R(c) == RowOf(c, 1, from[h], asOf[h])
  <2>4. \A c : R(c).type = c.type /\ R(c).lead = c.lead /\ R(c).of = from[h]
    BY DEF RowOf
  <2>5. rows' = {R(c) : c \in todo[h]}
    BY <2>1
  <2> HIDE DEF R
  <2>6. DistinctRows'
    BY <2>3, <2>4, <2>5 DEF DistinctRows, NoneAlike, Alike
  <2>7. \A r \in rows' : r.of = event'.start
    BY <2>2, <2>3, <2>4, <2>5
  <2>8. Agrees(rows)'
    <3>1. EmailLeads(rows') = EmailLeads(todo[h])
      BY <2>4, <2>5 DEF EmailLeads
    <3>2. EmailLeads(todo[h]) # {} => todo[h] # {}
      BY DEF EmailLeads
    <3>3. QED
      BY <2>2, <2>3, <3>1, <3>2 DEF Agrees, ReminderField
  <2>9. QED
    BY <1>1, <1>2, <2>6, <2>7, <2>8, DoneSolo
<1>5. QED
  BY <1>3, <1>4

\* A request that is cut off, in the middle of a rebuild or not.
LEMMA AbortSolo ==
  ASSUME Solo, Inv, SoloInv, NEW h \in Request, Abort(h)
  PROVE  SoloInv'
<1>1. /\ TypeOK /\ Done(h) /\ UNCHANGED <<event, rows>> /\ ~Idle(h)
      /\ broken' = broken \cup (IF pc[h] \in {"plan", "delete", "insert"} THEN {"cut"} ELSE {})
  BY DEF Abort, Inv, eventVars
<1>2. OthersIdle(h) /\ SoloPhase(h) /\ DistinctRows
  BY <1>1, SoloAt DEF SoloInv
<1>3. pc[h] \in {"idle", "update", "plan", "delete", "insert", "set", "clear", "purge"}
  BY <1>1 DEF TypeOK
<1>4. DistinctRows'
  BY <1>1, <1>2 DEF DistinctRows
<1>5. CASE pc[h] \in {"plan", "delete", "insert"}
  BY <1>1, <1>2, <1>4, <1>5, DoneSolo
<1>6. CASE pc[h] \notin {"plan", "delete", "insert"}
  BY <1>1, <1>2, <1>3, <1>4, <1>6, DoneSolo DEF SoloPhase, Agrees
<1>7. QED
  BY <1>5, <1>6

\* Requests that are answered at once.
LEMMA OneStatementSolo ==
  ASSUME Solo, Inv, SoloInv, NEW h \in Request, DeleteEvent(h) \/ Touch(h)
  PROVE  SoloInv'
<1>1. (\A g \in Request : Idle(g)) /\ pc' = pc /\ broken' = broken
  BY DEF DeleteEvent, Touch, Begin, Solo, requestVars
<1>2. CASE DeleteEvent(h)
  <2>1. rows' = {}
    BY <1>2 DEF DeleteEvent
  <2>2. QED
    BY <1>1, <2>1, NoneWrong, AtOnceSolo
<1>3. CASE Touch(h)
  <2>1. event' = event /\ rows' = rows
    BY <1>3 DEF Touch, WriteEvent
  <2>2. SoloPhase(h) /\ pc[h] = "idle" /\ DistinctRows
    BY <1>1, SoloAt DEF Idle, SoloInv
  <2>3. DistinctRows'
    BY <2>1, <2>2 DEF DistinctRows
  <2>4. QED
    BY <1>1, <2>1, <2>2, <2>3, AtOnceSolo DEF SoloPhase, Agrees
<1>4. QED
  BY <1>2, <1>3

\* With nothing else under way a delete of reminders misses none of them.
NoneMissed == \A g \in Request : missed[g] = {}

\* The rows go, and then the column.
LEMMA ClearSolo ==
  ASSUME Solo, Inv, SoloInv, NoneMissed, NEW h \in Request, DeleteReminders(h) \/ ClearReminder(h)
  PROVE  SoloInv'
<1>1. CASE DeleteReminders(h)
  <2>1. TypeOK /\ (\A g \in Request : Idle(g)) /\ Goto(h, "clear") /\ UNCHANGED <<event, rows, broken>>
    BY <1>1 DEF DeleteReminders, Begin, Inv, Solo, eventVars
  <2>2. OthersIdle(h) /\ SoloPhase(h) /\ pc[h] = "idle"
    BY <2>1, SoloAt DEF Idle
  <2>3. OthersIdle(h)' /\ pc'[h] = "clear"
    BY <2>1, <2>2, OthersStay
  <2>4. SoloPhase(h)'
    BY <2>1, <2>2, <2>3 DEF SoloPhase, Agrees
  <2>5. DistinctRows'
    BY <2>1 DEF SoloInv, DistinctRows
  <2>6. QED
    BY <2>3, <2>4, <2>5, SoloNext
<1>2. CASE ClearReminder(h)
  <2>1. TypeOK /\ pc[h] = "clear" /\ Done(h)
    BY <1>2 DEF ClearReminder, Inv
  <2>2. OthersIdle(h)
    BY <2>1, SoloAt DEF Idle
  <2>3. rows' = {}
    <3>1. CASE Live
      BY <1>2, <3>1 DEF ClearReminder, NoneMissed
    <3>2. CASE ~Live
      BY <1>2, <3>2 DEF ClearReminder, Inv, NoOrphans, eventVars
    <3>3. QED
      BY <3>1, <3>2
  <2>4. QED
    BY <2>1, <2>2, <2>3, NoneWrong, DoneSolo
<1>3. QED
  BY <1>1, <1>2

\* The worker and the clock change neither leads nor starts.
LEMMA WorkerAndClockSolo ==
  ASSUME Solo, Inv, SoloInv, ClaimDue \/ TimePasses
  PROVE  SoloInv'
<1>1. UNCHANGED <<pc, ask, from, todo, event, broken>> /\ now \in Nat /\ now' \in {now, now + 1}
  BY ScheduleAssumption DEF ClaimDue, TimePasses, requestVars, eventVars, Inv, TypeOK
<1>2. /\ \A r \in rows' : \E q \in rows : Alike(r, q) /\ r.of = q.of
      /\ \A q \in rows : \E r \in rows' : Alike(r, q)
      /\ DistinctRows'
  <2>1. CASE TimePasses
    <3>1. rows' = rows
      BY <2>1 DEF TimePasses, eventVars
    <3>2. QED
      BY <3>1 DEF SoloInv, DistinctRows, Alike
  <2>2. CASE ClaimDue
    <3> DEFINE Sent(r) == IF Due(r) THEN [r EXCEPT !.sent = TRUE] ELSE r
    <3>1. rows' = {Sent(r) : r \in rows} /\ rows \in SUBSET Row
      BY <2>2 DEF ClaimDue, Inv, TypeOK
    <3>2. \A r \in rows : Sent(r).type = r.type /\ Sent(r).lead = r.lead /\ Sent(r).of = r.of
      BY <3>1 DEF Row
    <3> HIDE DEF Sent
    <3>3. QED
      BY <3>1, <3>2 DEF SoloInv, DistinctRows, Alike
  <2>3. QED
    BY <2>1, <2>2
<1>3. (rows = {} <=> rows' = {}) /\ EmailLeads(rows') = EmailLeads(rows)
  BY <1>2, SameLeads
<1>4. ASSUME NEW h \in Request, OthersIdle(h), SoloPhase(h)
      PROVE  OthersIdle(h)' /\ SoloPhase(h)'
  <2>1. OthersIdle(h)'
    BY <1>1, <1>4 DEF OthersIdle, Idle
  <2>2. EmailLeads(rows' \cup todo[h]) = EmailLeads(rows \cup todo[h])
    <3>1. \A r \in rows' \cup todo[h] : \E d \in rows \cup todo[h] : Alike(r, d)
      BY <1>2 DEF Alike
    <3>2. \A d \in rows \cup todo[h] : \E r \in rows' \cup todo[h] : Alike(r, d)
      BY <1>2 DEF Alike
    <3>3. QED
      BY <3>1, <3>2, SameLeads
  <2>3. pc[h] = "insert" => \A c \in todo[h], r \in rows' : ~Alike(c, r)
    BY <1>2, <1>4 DEF SoloPhase, Alike
  <2>4. pc[h] = "insert" => from[h] \in Start
    BY <1>4 DEF Inv, PhaseInv, PhaseOf
  <2>5. pc[h] = "insert" /\ from[h] <= now => from[h] <= now'
    <3>1. pc[h] = "insert" => from[h] \in Nat
      BY <2>4, ScheduleAssumption
    <3>2. QED
      BY <1>1, <3>1
  <2>6. SoloPhase(h)'
    BY <1>1, <1>2, <1>3, <1>4, <2>2, <2>3, <2>5 DEF SoloPhase, Agrees
  <2>7. QED
    BY <2>1, <2>6
<1>5. QED
  BY <1>2, <1>3, <1>4 DEF SoloInv

\* Every step on such an event keeps the invariant.
LEMMA SoloStep ==
  ASSUME Solo, Inv, SoloInv, NoneMissed, [Next]_vars
  PROVE  SoloInv'
<1>1. CASE UNCHANGED vars
  <2>1. UNCHANGED <<event, rows, pc, ask, from, todo, broken, now>>
    BY <1>1 DEF vars, eventVars, requestVars
  <2>2. ASSUME NEW h \in Request, OthersIdle(h), SoloPhase(h) PROVE OthersIdle(h)' /\ SoloPhase(h)'
    <3>1. OthersIdle(h)'
      BY <2>1, <2>2 DEF OthersIdle, Idle
    <3>2. /\ Agrees(rows)' <=> Agrees(rows)
          /\ Agrees(todo[h])' <=> Agrees(todo[h])
          /\ Agrees(rows \cup todo[h])' <=> Agrees(rows \cup todo[h])
      BY <2>1 DEF Agrees
    <3>3. SoloPhase(h)'
      BY <2>1, <2>2, <3>2 DEF SoloPhase
    <3>4. QED
      BY <3>1, <3>3
  <2>3. QED
    BY <2>1, <2>2 DEF SoloInv, DistinctRows
<1>2. ASSUME NEW h \in Request, Create(h) \/ BeginUpdate(h) PROVE SoloInv'
  BY <1>2, CreateSolo, BeginUpdateSolo
<1>3. ASSUME NEW h \in Request, UpdateStep(h) PROVE SoloInv'
  BY <1>3, ApplyUpdateSolo, PlanRemindersSolo, DeleteOldSolo, InsertNextSolo DEF UpdateStep
<1>4. ASSUME NEW h \in Request, BeginSet(h) \/ CommitSet(h) \/ Abort(h) PROVE SoloInv'
  BY <1>4, BeginSetSolo, CommitSetSolo, AbortSolo
<1>5. ASSUME NEW h \in Request, DeleteEvent(h) \/ Touch(h) PROVE SoloInv'
  BY <1>5, OneStatementSolo
<1>6. ASSUME NEW h \in Request, PurgeReminders(h) \/ EditSeries(h) \/ ImportInvitation(h) PROVE FALSE
  BY <1>6 DEF Solo, PurgeReminders, EditSeries, ImportInvitation
<1>7. ASSUME NEW h \in Request, PurgeEvent(h) PROVE FALSE
  <2>1. pc[h] = "purge"
    BY <1>7 DEF PurgeEvent
  <2>2. QED
    BY <2>1, SoloAt DEF Idle, SoloPhase
<1>8. ASSUME ClaimDue \/ TimePasses PROVE SoloInv'
  BY <1>8, WorkerAndClockSolo
<1>9. ASSUME NEW h \in Request, DeleteReminders(h) \/ ClearReminder(h) PROVE SoloInv'
  BY <1>9, ClearSolo
<1>10. QED
  BY ONLY [Next]_vars, <1>1, <1>2, <1>3, <1>4, <1>5, <1>6, <1>7, <1>8, <1>9 DEF Next

\* No reminder is inserted beside a delete of them.
LEMMA NoneMissedStep ==
  ASSUME Solo, Inv, SoloInv, NoneMissed, [Next]_vars
  PROVE  NoneMissed'
<1>1. missed \in [Request -> SUBSET Config]
  BY DEF Inv, TypeOK
<1>2. ASSUME NEW h \in Request, NEW S, Inserted(S), pc[h] \in {"insert", "set"}
      PROVE  NoneMissed'
  <2>1. OthersIdle(h)
    BY <1>2, SoloAt DEF Idle
  <2>2. \A g \in Request : pc[g] # "clear"
    BY <1>2, <2>1 DEF OthersIdle, Idle
  <2>3. QED
    BY <1>2, <2>2 DEF Inserted, NoneMissed
<1>3. ASSUME NEW h \in Request, InsertNext(h) PROVE NoneMissed'
  <2>1. pc[h] = "insert" /\ (missed' = missed \/ \E S : Inserted(S))
    BY <1>3 DEF InsertNext
  <2>2. QED
    BY <1>2, <2>1 DEF NoneMissed
<1>4. ASSUME NEW h \in Request, CommitSet(h) PROVE NoneMissed'
  <2>1. pc[h] = "set" /\ (missed' = missed \/ \E S : Inserted(S))
    BY <1>4 DEF CommitSet
  <2>2. QED
    BY <1>2, <2>1 DEF NoneMissed
<1>5. ASSUME NEW h \in Request, ClearReminder(h) \/ Abort(h) PROVE NoneMissed'
  BY <1>1, <1>5 DEF ClearReminder, Abort, NoneMissed
<1>6. ASSUME NEW h \in Request,
             \/ Create(h) \/ BeginUpdate(h) \/ ApplyUpdate(h) \/ PlanReminders(h) \/ DeleteOld(h)
             \/ BeginSet(h) \/ DeleteReminders(h) \/ DeleteEvent(h) \/ PurgeReminders(h)
             \/ PurgeEvent(h) \/ Touch(h) \/ EditSeries(h) \/ ImportInvitation(h)
      PROVE  missed' = missed
  BY <1>6 DEF Create, BeginUpdate, ApplyUpdate, PlanReminders, DeleteOld, BeginSet,
     DeleteReminders, DeleteEvent, PurgeReminders, PurgeEvent, Touch, EditSeries,
     ImportInvitation, requestVars
<1>7. ASSUME ClaimDue \/ TimePasses \/ UNCHANGED vars PROVE missed' = missed
  BY <1>7 DEF ClaimDue, TimePasses, vars, requestVars
<1>8. missed' = missed => NoneMissed'
  BY DEF NoneMissed
<1>9. QED
  BY ONLY [Next]_vars, <1>3, <1>4, <1>5, <1>6, <1>7, <1>8 DEF Next, UpdateStep

-----------------------------------------------------------------------------
(* Both kinds of event together.                                             *)

Reminders ==
    /\ Inv
    /\ IsInvitation => InvitationInv
    /\ Solo => SoloInv /\ NoneMissed

LEMMA RemindersAlways == Spec => []Reminders
<1>1. Init => Reminders
  <2> SUFFICES ASSUME Init PROVE Reminders
    OBVIOUS
  <2>1. Inv
    BY InitInv DEF Inv
  <2>2. rows = {} /\ \A h \in Request : pc[h] = "idle"
    BY DEF Init
  <2>3. InvitationInv
    BY <2>2 DEF InvitationInv, DistinctRows, EmailLeads
  <2>4. SoloInv
    BY <2>2 DEF SoloInv, DistinctRows, OthersIdle, Idle, SoloPhase, Agrees, EmailLeads
  <2>5. NoneMissed
    BY DEF Init, NoneMissed
  <2>6. QED
    BY <2>1, <2>3, <2>4, <2>5 DEF Reminders
<1>2. Reminders /\ [Next]_vars => Reminders'
  <2> SUFFICES ASSUME Reminders, [Next]_vars PROVE Reminders'
    OBVIOUS
  <2>1. scenario' = scenario
    BY ScenarioKept
  <2>2. Inv'
    BY NextInv DEF Reminders
  <2>3. IsInvitation => InvitationInv'
    BY InvitationNext DEF Reminders
  <2>4. Solo => SoloInv' /\ NoneMissed'
    BY SoloStep, NoneMissedStep DEF Reminders
  <2>5. QED
    BY <2>1, <2>2, <2>3, <2>4 DEF Reminders, IsInvitation, Solo, IsSeries
<1>3. QED
  BY <1>1, <1>2, PTL DEF Spec

\* What SoloInv says when no request is under way.
LEMMA SoloQuiet ==
  ASSUME SoloInv, Quiet
  PROVE  /\ broken = {} => Agrees(rows)
         /\ "cut" \notin broken => \A r \in rows : r.of = event.start
<1>1. CASE Request = {}
  BY <1>1 DEF SoloInv, Agrees, EmailLeads
<1>2. CASE Request # {}
  BY <1>2 DEF SoloInv, SoloPhase, Quiet, Idle
<1>3. QED
  BY <1>1, <1>2

\* ColumnFollowsRows, whatever the numbers of reminders, saves and failures:
\* the copy of an invitation, where saves and deletes of its reminders overlap,
\* and an event of the owner's own, saved by several statements of one request
\* at a time.
THEOREM ColumnFollowsRowsAlways == Spec => []ColumnFollowsRows
<1>1. Reminders => ColumnFollowsRows
  BY SoloQuiet DEF Reminders, InvitationInv, ColumnFollowsRows, Undisturbed, Solo, Agrees
<1>2. QED
  BY <1>1, RemindersAlways, PTL

\* OneRowPerLead likewise: no reminder is doubled by a rebuild.
THEOREM OneRowPerLeadAlways == Spec => []OneRowPerLead
<1>1. Reminders => OneRowPerLead
  BY DEF Reminders, InvitationInv, SoloInv, OneRowPerLead, Undisturbed, Solo
<1>2. QED
  BY <1>1, RemindersAlways, PTL

\* RowsFollowStart: after any sequence of moves, saves and failures no reminder
\* of the owner's own event is left behind at the old time.
THEOREM RowsFollowStartAlways == Spec => []RowsFollowStart
<1>1. Reminders => RowsFollowStart
  BY SoloQuiet DEF Reminders, RowsFollowStart, Undisturbed, Solo
<1>2. QED
  BY <1>1, RemindersAlways, PTL

-----------------------------------------------------------------------------
(* When a reminder fires.                                                    *)

\* Rounding to the minute gives the last whole minute that is not later.
LEMMA Rounds ==
  ASSUME NEW x \in Int
  PROVE  /\ RoundToMinute(x) \in Int /\ RoundToMinute(x) % Minute = 0
         /\ RoundToMinute(x) <= x /\ x < RoundToMinute(x) + Minute
         /\ (RoundToMinute(x) + Minute) % Minute = 0
         /\ \A i \in Int : i % Minute = 0 /\ i <= x => i <= RoundToMinute(x)
<1>1. Minute \in Nat /\ Minute > 0
  BY ScheduleAssumption
<1>2. PICK q \in Int, r \in Int : x = Minute * q + r /\ r = x % Minute /\ 0 <= r /\ r < Minute
  <2>1. /\ x \div Minute \in Int /\ x % Minute \in Int /\ 0 <= x % Minute /\ x % Minute < Minute
        /\ x = Minute * (x \div Minute) + (x % Minute)
    BY <1>1
  <2>2. QED
    BY <2>1
<1>3. RoundToMinute(x) = Minute * q
  BY <1>1, <1>2 DEF RoundToMinute
<1>4. (Minute * q) % Minute = 0 /\ (Minute * q + Minute) % Minute = 0
  <2>1. (Minute * q) % Minute = 0 /\ (Minute * (q + 1)) % Minute = 0
    BY <1>1
  <2>2. Minute * (q + 1) = Minute * q + Minute
    BY <1>1
  <2>3. QED
    BY <2>1, <2>2
<1>5. ASSUME NEW i \in Int, i % Minute = 0, i <= x PROVE i <= Minute * q
  <2>1. PICK j \in Int : i = Minute * j
    <3>1. i \div Minute \in Int /\ i = Minute * (i \div Minute) + (i % Minute)
      BY <1>1
    <3>2. QED
      BY <1>1, <1>5, <3>1
  <2>2. Minute * j < Minute * (q + 1)
    BY <1>1, <1>2, <1>5, <2>1
  <2>3. j < q + 1
    BY <1>1, <2>2
  <2>4. j <= q
    BY <2>3
  <2>5. QED
    BY <1>1, <2>1, <2>4
<1>6. Minute * q \in Int /\ Minute * q <= x /\ x < Minute * q + Minute
  BY <1>1, <1>2
<1>7. QED
  BY <1>3, <1>4, <1>5, <1>6

\* FiresOnTime, for every start, lead time and length of a minute: a reminder
\* fires on the last whole minute before its lead time, or on the next one.
THEOREM FiresOnTimeAlways == Spec => []FiresOnTime
<1>1. Inv => FiresOnTime
  <2> SUFFICES ASSUME Inv, NEW s \in Start, NEW m \in Lead, s > now
               PROVE  LET t == ReminderTime(s, m, now)
                          ahead == {i \in now + 1 .. s : i % Minute = 0 /\ i <= s - m * Minute}
                      IN  /\ t % Minute = 0
                          /\ t > now
                          /\ ahead # {} => t = Max(ahead)
                          /\ ahead = {} => t <= now + Minute
    BY DEF FiresOnTime
  <2> DEFINE t == ReminderTime(s, m, now)
             ahead == {i \in now + 1 .. s : i % Minute = 0 /\ i <= s - m * Minute}
  <2>1. now \in Nat /\ s \in Nat /\ m \in Nat /\ Minute \in Nat /\ Minute > 0
    BY ScheduleAssumption DEF Inv, TypeOK
  <2>2. PICK x \in Int : x = s - m * Minute /\ x <= s
    <3>1. m * Minute \in Nat
      BY <2>1
    <3>2. QED
      BY <2>1, <3>1
  <2>3. PICK w \in Int : /\ w = RoundToMinute(x) /\ w % Minute = 0 /\ w <= x
                         /\ \A i \in Int : i % Minute = 0 /\ i <= x => i <= w
    BY Rounds
  <2>4. PICK v \in Int : /\ v = RoundToMinute(now) + Minute /\ v % Minute = 0 /\ now < v /\ v <= now + Minute
    <3>1. PICK u \in Int : u = RoundToMinute(now) /\ u <= now /\ now < u + Minute /\ (u + Minute) % Minute = 0
      <4>1. PICK y \in Int : y = now
        BY <2>1
      <4>2. QED
        BY <2>1, <4>1, Rounds
    <3>2. QED
      BY <2>1, <3>1
  <2>5. t = IF w > now THEN w ELSE v
    BY <2>2, <2>3, <2>4 DEF ReminderTime, CalculateNotificationTime
  <2>6. ahead = {i \in now + 1 .. s : i % Minute = 0 /\ i <= x}
    BY <2>2
  <2> HIDE DEF t, ahead
  <2>7. t % Minute = 0 /\ t > now
    BY <2>1, <2>3, <2>4, <2>5
  <2>8. w > now => w \in ahead
    BY <2>1, <2>2, <2>3, <2>6
  <2>9. ahead = {} => t <= now + Minute
    BY <2>4, <2>5, <2>8
  <2>10. ASSUME ahead # {} PROVE t = Max(ahead)
    <3>1. \A i \in ahead : i \in Int /\ i > now /\ i <= w
      BY <2>1, <2>3, <2>6
    <3>2. w > now
      BY <2>1, <2>10, <3>1
    <3>3. t = w /\ w \in ahead
      BY <2>5, <2>8, <3>2
    <3>4. \A i \in ahead : w >= i
      BY <3>1
    <3>5. \A y \in ahead : (\A i \in ahead : y >= i) => y = w
      BY <3>1, <3>3
    <3>6. QED
      BY <3>3, <3>4, <3>5 DEF Max
  <2>11. QED
    BY <2>7, <2>9, <2>10 DEF t, ahead
<1>2. QED
  BY <1>1, InvAlways, PTL
=============================================================================
