---------------------- MODULE NotificationWorkerProofs ----------------------
(***************************************************************************)
(* Safety of NotificationWorker for any number of reminders, devices,      *)
(* worker processes and overlapping ticks, and any timing constants with   *)
(* TickTimeout < Lease and TickTimeout < Drain.                            *)
(***************************************************************************)
EXTENDS NotificationWorker, FiniteSetTheorems, TLAPS

\* A retry delay is a number of time units, whatever the attempt.
LEMMA RetryDelayType == ASSUME NEW a PROVE RetryDelay(a) \in Nat
  BY RetryAssumption DEF RetryDelay

\* What is left of a budget is a number.
LEMMA DifferenceType == ASSUME NEW a \in Nat, NEW b \in 0 .. a PROVE a - b \in Nat
  OBVIOUS

\* Running down a timer keeps it a number.
LEMMA LessType == ASSUME NEW n \in Nat PROVE Less(n) \in Nat
  BY DEF Less

\* Updating a function within its range keeps its type.
LEMMA UpdateType ==
  ASSUME NEW A, NEW B, NEW f \in [A -> B], NEW x \in A, NEW v \in B
  PROVE  [f EXCEPT ![x] = v] \in [A -> B]
  OBVIOUS

\* The row a new job takes was absent and is one of its reminder and channel.
LEMMA FreshJobType ==
  ASSUME NEW r, NEW c, CanQueue(r, c)
  PROVE  /\ FreshJob(r, c) \in Job
         /\ ReminderOf(FreshJob(r, c)) = r
         /\ ChannelOf(FreshJob(r, c)) = c
         /\ status[FreshJob(r, c)] = "absent"
  BY DEF FreshJob, CanQueue

\* The initial state has the types of the tables, ticks and processes.
LEMMA TypeInit == Init => TypeOK
  BY BoundAssumption, SetAssumption DEF Init, TypeOK, NoClaim, Pc, Delivering


TickTypeOK ==
    /\ pc \in [Tick -> Pc]
    /\ left \in [Tick -> Nat]
    /\ claim \in [Tick -> [Job -> Nat]]
    /\ cur \in [Tick -> Job \cup {None}]
    /\ \A t \in Tick : pc[t] \in Delivering => cur[t] \in Job
    /\ todo \in [Tick -> SUBSET Device]
    /\ allSent \in [Tick -> BOOLEAN]

\* A disruption is taken from the budget, or the budget is left alone.
LEMMA BudgetType ==
  ASSUME TypeOK, Disrupt \/ UNCHANGED budget
  PROVE  budget' \in 0 .. MaxDisruptions
  BY BoundAssumption DEF TypeOK, Disrupt

\* Turning to the next job keeps the types of the tick.
LEMMA NextJobType ==
  ASSUME TypeOK, NEW t \in Tick, cur[t] \in Job, NextJob(t)
  PROVE  TickTypeOK'
<1> USE DEF TypeOK, NextJob
<1>1. pc' \in [Tick -> Pc]
  BY DEF Pc
<1>2. claim' \in [Tick -> [Job -> Nat]]
  <2>1. [claim[t] EXCEPT ![cur[t]] = 0] \in [Job -> Nat]
    OBVIOUS
  <2>2. QED
    BY <2>1
<1>3. cur' \in [Tick -> Job \cup {None}]
  OBVIOUS
<1>4. allSent' \in [Tick -> BOOLEAN]
  OBVIOUS
<1>5. \A s \in Tick : pc'[s] \in Delivering => cur'[s] \in Job
  BY DEF Delivering
<1>6. QED
  BY <1>1, <1>2, <1>3, <1>4, <1>5 DEF TickTypeOK

\* Dropping ticks keeps their types.
LEMMA DropTicksType ==
  ASSUME TypeOK, NEW T, DropTicks(T)
  PROVE  TickTypeOK'
  BY DEF TypeOK, TickTypeOK, DropTicks, Pc, Delivering, NoClaim

\* Every step keeps the types; one step per action of the worker.
LEMMA TypeNext == TypeOK /\ [Next]_vars => TypeOK'
<1> SUFFICES ASSUME TypeOK, [Next]_vars PROVE TypeOK'
  OBVIOUS
<1> USE DEF TypeOK
<1>1. CASE Account
  BY <1>1 DEF Account, BecomesDue, DeleteEvent, RegisterDevice, UnregisterDevice,
     jobVars, tickVars, procVars, seenVars
<1>2. ASSUME NEW t \in Tick, StartTick(t) PROVE TypeOK'
  BY <1>2, TimeAssumption DEF StartTick, Pc, Delivering, rowVars, jobVars, procVars, seenVars
<1>3. ASSUME NEW t \in Tick, ClaimDue(t) PROVE TypeOK'
  <2>1. budget' \in 0 .. MaxDisruptions
    BY <1>3, BudgetType DEF ClaimDue
  <2>2. pc' \in [Tick -> Pc]
    BY <1>3 DEF ClaimDue, Pc
  <2>3. /\ reminder' \in [Reminder -> {"scheduled", "due", "claimed"}]
        /\ status' \in [Job -> {"absent", "pending", "sent", "skipped"}]
        /\ fallback' \in [Job -> BOOLEAN]
        /\ attempts' \in [Job -> Nat]
        /\ wait' \in [Job -> Nat]
    <3>1. CASE \E S \in SUBSET DueReminders : ClaimDueRows(S)
      <4>1. PICK S \in SUBSET DueReminders : ClaimDueRows(S)
        BY <3>1
      <4>2. reminder' \in [Reminder -> {"scheduled", "due", "claimed"}]
        BY <4>1 DEF ClaimDueRows
      <4>3. status' \in [Job -> {"absent", "pending", "sent", "skipped"}]
        BY <4>1 DEF ClaimDueRows
      <4>4. fallback' \in [Job -> BOOLEAN]
        BY <4>1 DEF ClaimDueRows
      <4>5. attempts' \in [Job -> Nat] /\ wait' \in [Job -> Nat]
        BY <4>1 DEF ClaimDueRows, InsertJobs
      <4>6. QED
        BY <4>2, <4>3, <4>4, <4>5
    <3>2. CASE UNCHANGED <<reminder, jobVars>>
      BY <3>2 DEF jobVars
    <3>3. QED
      BY <1>3, <3>1, <3>2 DEF ClaimDue
  <2>4. QED
    BY <1>3, <2>1, <2>2, <2>3 DEF ClaimDue, Delivering, procVars, seenVars
<1>4. ASSUME NEW t \in Tick, ClaimPending(t) PROVE TypeOK'
  <2>1. budget' \in 0 .. MaxDisruptions
    BY <1>4, BudgetType DEF ClaimPending
  <2>2. pc' \in [Tick -> Pc] /\ left' \in [Tick -> Nat]
    BY <1>4 DEF ClaimPending, Pc
  <2>3. attempts' \in [Job -> Nat] /\ wait' \in [Job -> Nat]
    <3>1. CASE \E S \in SUBSET Job : LeaseJobs(S)
      BY <3>1, TimeAssumption DEF LeaseJobs
    <3>2. CASE UNCHANGED <<attempts, wait>>
      BY <3>2
    <3>3. QED
      BY <1>4, <3>1, <3>2 DEF ClaimPending
  <2>4. claim' \in [Tick -> [Job -> Nat]]
    <3>1. \A S : [j \in Job |-> IF j \in S THEN attempts[j] + 1 ELSE 0] \in [Job -> Nat]
      OBVIOUS
    <3>2. CASE \E S : claim' = [claim EXCEPT ![t] = [j \in Job |-> IF j \in S THEN attempts[j] + 1 ELSE 0]]
      BY <3>1, <3>2
    <3>3. CASE UNCHANGED claim
      BY <3>3
    <3>4. UNCHANGED claim
            \/ \E S : claim' = [claim EXCEPT ![t] = [j \in Job |-> IF j \in S THEN attempts[j] + 1 ELSE 0]]
      BY ONLY <1>4 DEF ClaimPending
    <3>5. QED
      BY <3>2, <3>3, <3>4
  <2>5. QED
    BY <1>4, <2>1, <2>2, <2>3, <2>4 DEF ClaimPending, Delivering, rowVars, procVars, seenVars
<1>5. ASSUME NEW t \in Tick, EndTick(t) PROVE TypeOK'
  BY <1>5 DEF EndTick, Pc, Delivering, rowVars, jobVars, procVars, seenVars
<1>6. ASSUME NEW t \in Tick, NEW j \in Job, Dispatch(t, j) PROVE TypeOK'
  <2>1. budget' \in 0 .. MaxDisruptions
    BY <1>6, BudgetType DEF Dispatch
  <2>2. pc' \in [Tick -> Pc]
    <3>1. DispatchStep(j, claim[t][j]) \in Pc
      BY DEF DispatchStep, EmailStep, PushStep, Pc
    <3>2. "failed" \in Pc
      BY DEF Pc
    <3>3. pc' \in {[pc EXCEPT ![t] = DispatchStep(j, claim[t][j])], [pc EXCEPT ![t] = "failed"]}
      BY ONLY <1>6 DEF Dispatch
    <3>4. pc \in [Tick -> Pc]
      OBVIOUS
    <3>5. [pc EXCEPT ![t] = DispatchStep(j, claim[t][j])] \in [Tick -> Pc]
      BY ONLY <3>1, <3>4, t \in Tick, UpdateType
    <3>6. [pc EXCEPT ![t] = "failed"] \in [Tick -> Pc]
      BY ONLY <3>2, <3>4, t \in Tick, UpdateType
    <3>7. QED
      BY ONLY <3>3, <3>5, <3>6
  <2>3. todo' \in [Tick -> SUBSET Device]
    <3>1. device \cap ReminderDevice \in SUBSET Device /\ {} \in SUBSET Device
      OBVIOUS
    <3>2. \/ todo' = [todo EXCEPT ![t] = device \cap ReminderDevice]
          \/ todo' = [todo EXCEPT ![t] = {}]
          \/ todo' = todo
      BY <1>6 DEF Dispatch
    <3>3. QED
      BY <3>1, <3>2
  <2>4. tries' \in [Job -> Nat]
    <3>1. tries' = [tries EXCEPT ![j] = @ + 1] \/ tries' = tries
      BY <1>6 DEF Dispatch
    <3>2. QED
      BY <3>1
  <2>5. cur' \in [Tick -> Job \cup {None}] /\ allSent' \in [Tick -> BOOLEAN]
    BY <1>6 DEF Dispatch
  <2>6. QED
    BY <1>6, <2>1, <2>2, <2>3, <2>4, <2>5 DEF Dispatch, Delivering, rowVars, jobVars, procVars
<1>7. ASSUME NEW t \in Tick, SendMail(t) PROVE TypeOK'
  <2>1. budget' \in 0 .. MaxDisruptions
    BY <1>7, BudgetType DEF SendMail
  <2>2. pc' \in [Tick -> Pc]
    <3>1. pc' = [pc EXCEPT ![t] = "sent"] \/ pc' = [pc EXCEPT ![t] = "failed"]
      BY <1>7 DEF SendMail
    <3>2. QED
      BY <3>1 DEF Pc
  <2>3. [mails EXCEPT ![cur[t]] = mails[cur[t]] + 1] \in [Job -> Nat]
    BY <1>7 DEF SendMail, Delivering
  <2>4. mails' \in [Job -> Nat]
    BY <1>7, <2>3 DEF SendMail
  <2>5. QED
    BY <1>7, <2>1, <2>2, <2>4 DEF SendMail, Delivering, rowVars, jobVars, procVars
<1>8. ASSUME NEW t \in Tick, NEW d \in Device, SendToDevice(t, d) PROVE TypeOK'
  <2>1. budget' \in 0 .. MaxDisruptions
    BY <1>8, BudgetType DEF SendToDevice
  <2>2. pc' \in [Tick -> Pc]
    BY <1>8 DEF SendToDevice, PushOutcome, Pc
  <2>3. todo' \in [Tick -> SUBSET Device] /\ allSent' \in [Tick -> BOOLEAN] /\ device' \in SUBSET Device
    BY <1>8 DEF SendToDevice
  <2>4. got' \in [Job -> SUBSET Device]
    <3>1. cur[t] \in Job /\ got[cur[t]] \cup {d} \in SUBSET Device
      BY <1>8 DEF SendToDevice, Delivering
    <3>2. got' = [got EXCEPT ![cur[t]] = got[cur[t]] \cup {d}] \/ got' = got
      BY <1>8 DEF SendToDevice
    <3>3. got \in [Job -> SUBSET Device]
      OBVIOUS
    <3>4. [got EXCEPT ![cur[t]] = got[cur[t]] \cup {d}] \in [Job -> SUBSET Device]
      BY ONLY <3>1, <3>3, UpdateType
    <3>5. QED
      BY ONLY <3>2, <3>3, <3>4
  <2>5. QED
    BY <1>8, <2>1, <2>2, <2>3, <2>4 DEF SendToDevice, Delivering, jobVars, procVars
<1>9. ASSUME NEW t \in Tick, MarkSent(t) PROVE TypeOK'
  <2>1. budget' \in 0 .. MaxDisruptions
    BY <1>9, BudgetType DEF MarkSent
  <2>2. TickTypeOK'
    BY <1>9, NextJobType DEF MarkSent, Delivering
  <2>3. status' \in [Job -> {"absent", "pending", "sent", "skipped"}]
    BY <1>9 DEF MarkSent
  <2>4. QED
    BY <1>9, <2>1, <2>2, <2>3 DEF MarkSent, TickTypeOK, rowVars, procVars, seenVars
<1>10. ASSUME NEW t \in Tick, MarkFailed(t) PROVE TypeOK'
  <2>1. budget' \in 0 .. MaxDisruptions
    BY <1>10, BudgetType DEF MarkFailed
  <2>2. TickTypeOK'
    BY <1>10, NextJobType DEF MarkFailed, Delivering
  <2>3. status' \in [Job -> {"absent", "pending", "sent", "skipped"}]
    BY <1>10 DEF MarkFailed
  <2>4. wait' \in [Job -> Nat]
    <3>1. cur[t] \in Job /\ RetryDelay(claim[t][cur[t]]) \in Nat
      BY <1>10, RetryDelayType DEF MarkFailed, Delivering
    <3>2. QED
      BY <1>10, <3>1 DEF MarkFailed
  <2>5. QED
    BY <1>10, <2>1, <2>2, <2>3, <2>4 DEF MarkFailed, TickTypeOK, rowVars, procVars, seenVars
<1>11. ASSUME NEW t \in Tick, Skip(t) PROVE TypeOK'
  <2>1. budget' \in 0 .. MaxDisruptions
    BY <1>11, BudgetType DEF Skip
  <2>2. TickTypeOK'
    <3>1. CASE NextJob(t)
      BY <1>11, <3>1, NextJobType DEF Skip, Delivering
    <3>2. CASE pc' = [pc EXCEPT ![t] = "failed"] /\ UNCHANGED <<left, claim, cur, todo, allSent>>
      BY <1>11, <3>2 DEF Skip, TickTypeOK, Pc, Delivering
    <3>3. QED
      BY <1>11, <3>1, <3>2 DEF Skip
  <2>3. /\ status' \in [Job -> {"absent", "pending", "sent", "skipped"}]
        /\ fallback' \in [Job -> BOOLEAN]
        /\ attempts' \in [Job -> Nat]
        /\ wait' \in [Job -> Nat]
    <3>1. CASE SkipRows(cur[t])
      BY <3>1 DEF SkipRows, InsertJobs
    <3>2. CASE UNCHANGED jobVars
      BY <3>2 DEF jobVars
    <3>3. QED
      BY <1>11, <3>1, <3>2 DEF Skip
  <2>4. QED
    BY <1>11, <2>1, <2>2, <2>3 DEF Skip, TickTypeOK, rowVars, procVars, seenVars
<1>12. ASSUME NEW t \in Tick, TickTimesOut(t) PROVE TypeOK'
  BY DropTicksType, <1>12, BoundAssumption DEF TickTypeOK, TickTimesOut, Disrupt, rowVars, jobVars,
     procVars, seenVars
<1>13. CASE Process
  <2>1. ASSUME NEW w \in Worker, Crash(w) PROVE TypeOK'
    BY DropTicksType, <2>1, BoundAssumption DEF TickTypeOK, Crash, Disrupt, rowVars, jobVars, seenVars
  <2>2. ASSUME NEW w \in Worker, Shutdown(w) PROVE TypeOK'
    BY <2>2, BoundAssumption, TimeAssumption DEF Shutdown, Disrupt, rowVars, jobVars, tickVars, seenVars
  <2>3. ASSUME NEW w \in Worker, Exit(w) PROVE TypeOK'
    BY DropTicksType, <2>3 DEF TickTypeOK, Exit, rowVars, jobVars, seenVars
  <2>4. ASSUME NEW w \in Worker, Restart(w) PROVE TypeOK'
    BY <2>4 DEF Restart, rowVars, jobVars, tickVars, seenVars
  <2>5. QED
    BY <1>13, <2>1, <2>2, <2>3, <2>4 DEF Process
<1>14. CASE TimePasses
  BY <1>14, LessType DEF TimePasses, rowVars, seenVars
<1>15. CASE UNCHANGED vars
  BY <1>15 DEF vars, rowVars, jobVars, tickVars, procVars, seenVars
<1>16. QED
  BY <1>1, <1>2, <1>3, <1>4, <1>5, <1>6, <1>7, <1>8, <1>9, <1>10, <1>11, <1>12, <1>13, <1>14, <1>15
     DEF Next, TickStep

\* The type invariant holds of every reachable state.
THEOREM TypeCorrect == Spec => []TypeOK
  BY TypeInit, TypeNext, PTL DEF Spec

-----------------------------------------------------------------------------
(* What ticks hold                                                           *)

\* Initially no tick runs or holds a job.
LEMMA HandInit == Init => HandInv /\ LeaseExclusive
  BY TimeAssumption DEF Init, HandInv, LeaseExclusive, Holds, NoClaim, Delivering

\* Turning to the next job releases the current one and holds nothing new.
LEMMA NextJobHolds ==
  ASSUME TypeOK, NEW t \in Tick, cur[t] \in Job, NextJob(t)
  PROVE  /\ \A s \in Tick : s # t => pc'[s] = pc[s] /\ claim'[s] = claim[s] /\ cur'[s] = cur[s]
         /\ pc'[t] = "deliver"
         /\ \A j \in Job : claim'[t][j] = IF j = cur[t] THEN 0 ELSE claim[t][j]
         /\ left' = left
  BY DEF TypeOK, NextJob

\* A claim moves only its own tick, to "deliver" or back to "idle".
LEMMA ClaimPendingTicks ==
  ASSUME TypeOK, NEW t \in Tick, ClaimPending(t)
  PROVE  /\ pc[t] = "claim" /\ pc'[t] \in {"idle", "deliver"} /\ left'[t] \in {left[t], 0}
         /\ cur' = cur
         /\ \A s \in Tick : s # t => pc'[s] = pc[s] /\ left'[s] = left[s] /\ claim'[s] = claim[s]
<1>1. PICK c \in {"idle", "deliver"} : pc' = [pc EXCEPT ![t] = c]
  BY ONLY ClaimPending(t) DEF ClaimPending
<1>2. UNCHANGED claim \/ \E f : claim' = [claim EXCEPT ![t] = f]
  BY ONLY ClaimPending(t) DEF ClaimPending
<1>3. PICK n \in {left[t], 0} : left' = [left EXCEPT ![t] = n]
  BY ONLY ClaimPending(t) DEF ClaimPending
<1>4. pc[t] = "claim" /\ cur' = cur
  BY DEF ClaimPending
<1>5. QED
  BY <1>1, <1>2, <1>3, <1>4 DEF TypeOK

\* Dropped ticks hold nothing; the others are as before.
LEMMA DropTicksHolds ==
  ASSUME TypeOK, NEW T, DropTicks(T)
  PROVE  \A s \in Tick :
           /\ s \in T => pc'[s] = "idle" /\ left'[s] = 0 /\ (\A j \in Job : claim'[s][j] = 0)
           /\ s \notin T => pc'[s] = pc[s] /\ left'[s] = left[s] /\ claim'[s] = claim[s] /\ cur'[s] = cur[s]
  BY DEF TypeOK, DropTicks, NoClaim

\* Steps that leave the job rows' leases, attempts and status alone and do not
\* move a tick in or out of delivery keep the invariant.
LEMMA HandFrame ==
  ASSUME TypeOK, HandInv, LeaseExclusive,
         UNCHANGED <<left, claim, cur, pc, wait, attempts, status>>
  PROVE  HandInv' /\ LeaseExclusive'
  BY DEF HandInv, LeaseExclusive, Holds

\* Every step keeps what ticks hold leased to them alone.
LEMMA HandNext ==
  TypeOK /\ TypeOK' /\ HandInv /\ LeaseExclusive /\ [Next]_vars => HandInv' /\ LeaseExclusive'
<1> SUFFICES ASSUME TypeOK, TypeOK', HandInv, LeaseExclusive, [Next]_vars
             PROVE  HandInv' /\ LeaseExclusive'
  OBVIOUS
<1> USE TimeAssumption
<1>1. CASE Account
  BY <1>1, HandFrame DEF Account, BecomesDue, DeleteEvent, RegisterDevice, UnregisterDevice, jobVars, tickVars
<1>2. ASSUME NEW t \in Tick, StartTick(t) PROVE HandInv' /\ LeaseExclusive'
  BY <1>2 DEF StartTick, jobVars, HandInv, LeaseExclusive, Holds, Delivering, TypeOK, Busy
<1>3. ASSUME NEW t \in Tick, ClaimDue(t) PROVE HandInv' /\ LeaseExclusive'
  <2>1. \A j \in Job : status[j] # "absent" =>
           status'[j] = status[j] /\ attempts'[j] = attempts[j] /\ wait'[j] = wait[j]
    <3>1. ASSUME NEW S \in SUBSET DueReminders, ClaimDueRows(S)
          PROVE  \A j \in Job : status[j] # "absent" =>
                   status'[j] = status[j] /\ attempts'[j] = attempts[j] /\ wait'[j] = wait[j]
      BY <3>1, FreshJobType DEF ClaimDueRows, InsertJobs
    <3>2. QED
      BY <1>3, <3>1 DEF ClaimDue, jobVars
  <2>2. UNCHANGED <<left, claim, cur>> /\ pc[t] = "due" /\ pc'[t] = "claim"
        /\ \A s \in Tick : s # t => pc'[s] = pc[s]
    BY <1>3 DEF ClaimDue, TypeOK
  <2>3. QED
    BY <2>1, <2>2 DEF HandInv, LeaseExclusive, Holds, Delivering
<1>4. ASSUME NEW t \in Tick, ClaimPending(t) PROVE HandInv' /\ LeaseExclusive'
  <2>1. PICK S \in SUBSET {j \in Job : Claimable(j)} :
          \/ LeaseJobs(S)
               /\ claim' = [claim EXCEPT ![t] = [j \in Job |-> IF j \in S THEN attempts[j] + 1 ELSE 0]]
             /\ pc' = [pc EXCEPT ![t] = IF S = {} THEN "idle" ELSE "deliver"]
          \/ (LeaseJobs(S) \/ UNCHANGED <<attempts, wait>>) /\ UNCHANGED claim
             /\ pc' = [pc EXCEPT ![t] = "idle"]
    BY <1>4 DEF ClaimPending
  <2>2. \A s \in Tick : \A j \in S : ~Holds(s, j) /\ status[j] = "pending"
    BY DEF Claimable, HandInv, TypeOK
  <2>3. \A j \in Job : j \notin S => attempts'[j] = attempts[j] /\ wait'[j] = wait[j]
    BY <2>1 DEF LeaseJobs
  <2>4. status' = status /\ cur' = cur /\ pc[t] = "claim" /\ \A j \in Job : ~Holds(t, j)
    BY <1>4 DEF ClaimPending, HandInv, Delivering
  <2>5. \A s \in Tick : s # t => pc'[s] = pc[s] /\ left'[s] = left[s] /\ claim'[s] = claim[s]
    BY <1>4, ClaimPendingTicks
  <2>6. left'[t] <= TickTimeout /\ left'[t] \in Nat /\ pc'[t] \in {"idle", "deliver"}
    BY <1>4, <2>1 DEF ClaimPending, TypeOK, HandInv
  <2>7. \A j \in Job : claim'[t][j] > 0 =>
          j \in S /\ pc'[t] = "deliver" /\ claim'[t][j] = attempts'[j] /\ wait'[j] = Lease
    <3>1. CASE LeaseJobs(S)
            /\ claim' = [claim EXCEPT ![t] = [j \in Job |-> IF j \in S THEN attempts[j] + 1 ELSE 0]]
             /\ pc' = [pc EXCEPT ![t] = IF S = {} THEN "idle" ELSE "deliver"]
      BY <3>1 DEF LeaseJobs, TypeOK
    <3>2. CASE UNCHANGED claim
      BY <2>4, <3>2 DEF Holds
    <3>3. QED
      BY <2>1, <3>1, <3>2
  <2>8. \A s \in Tick : \A j \in Job : Holds(s, j)' =>
          IF s = t THEN j \in S ELSE j \notin S /\ Holds(s, j)
    BY <2>2, <2>5, <2>7 DEF Holds
  <2>9. LeaseExclusive'
    BY <2>8 DEF LeaseExclusive
  <2>10. HandInv'
    BY <2>2, <2>3, <2>4, <2>5, <2>6, <2>7, <2>8 DEF HandInv, Holds, Delivering
  <2>11. QED
    BY <2>9, <2>10
<1>5. ASSUME NEW t \in Tick, EndTick(t) PROVE HandInv' /\ LeaseExclusive'
  BY <1>5 DEF EndTick, jobVars, HandInv, LeaseExclusive, Holds, Delivering, TypeOK
<1>6. ASSUME NEW t \in Tick, NEW j \in Job, Dispatch(t, j) PROVE HandInv' /\ LeaseExclusive'
  <2>1. pc'[t] \in Delivering
    BY <1>6 DEF Dispatch, DispatchStep, EmailStep, PushStep, Delivering, TypeOK
  <2>2. cur'[t] = j /\ \A s \in Tick : s # t => pc'[s] = pc[s] /\ cur'[s] = cur[s]
    BY <1>6 DEF Dispatch, TypeOK
  <2>3. UNCHANGED <<left, claim, status, attempts, wait>>
    BY <1>6 DEF Dispatch, jobVars
  <2>4. QED
    BY <1>6, <2>1, <2>2, <2>3 DEF Dispatch, HandInv, LeaseExclusive, Holds
<1>7. ASSUME NEW t \in Tick, SendMail(t) PROVE HandInv' /\ LeaseExclusive'
  BY <1>7 DEF SendMail, jobVars, HandInv, LeaseExclusive, Holds, Delivering, TypeOK
<1>8. ASSUME NEW t \in Tick, NEW d \in Device, SendToDevice(t, d) PROVE HandInv' /\ LeaseExclusive'
  <2>1. pc[t] = "push" /\ pc'[t] \in Delivering
    BY <1>8 DEF SendToDevice, PushOutcome, Delivering, TypeOK
  <2>2. \A s \in Tick : s # t => pc'[s] = pc[s]
    BY <1>8 DEF SendToDevice, TypeOK
  <2>3. UNCHANGED <<left, claim, cur, status, attempts, wait>>
    BY <1>8 DEF SendToDevice, jobVars
  <2>4. QED
    BY <2>1, <2>2, <2>3 DEF HandInv, LeaseExclusive, Holds, Delivering
<1>9. ASSUME NEW t \in Tick, MarkSent(t) PROVE HandInv' /\ LeaseExclusive'
  <2>1. cur[t] \in Job /\ Holds(t, cur[t])
    BY <1>9 DEF MarkSent, HandInv, TypeOK, Delivering
  <2>2. \A j \in Job : j # cur[t] => status'[j] = status[j]
    BY <1>9, <2>1 DEF MarkSent, TypeOK
  <2>3. UNCHANGED <<attempts, wait>>
    BY <1>9 DEF MarkSent
  <2>4. NextJob(t)
    BY <1>9 DEF MarkSent
  <2>5. QED
    BY <2>1, <2>2, <2>3, <2>4, NextJobHolds DEF HandInv, LeaseExclusive, Holds, Delivering
<1>10. ASSUME NEW t \in Tick, MarkFailed(t) PROVE HandInv' /\ LeaseExclusive'
  <2>1. cur[t] \in Job /\ Holds(t, cur[t])
    BY <1>10 DEF MarkFailed, HandInv, TypeOK, Delivering
  <2>2. \A j \in Job : j # cur[t] => status'[j] = status[j] /\ wait'[j] = wait[j]
    BY <1>10, <2>1 DEF MarkFailed, TypeOK
  <2>3. UNCHANGED attempts
    BY <1>10 DEF MarkFailed
  <2>4. NextJob(t)
    BY <1>10 DEF MarkFailed
  <2>5. QED
    BY <2>1, <2>2, <2>3, <2>4, NextJobHolds DEF HandInv, LeaseExclusive, Holds, Delivering
<1>11. ASSUME NEW t \in Tick, Skip(t) PROVE HandInv' /\ LeaseExclusive'
  <2>1. cur[t] \in Job /\ Holds(t, cur[t])
    BY <1>11 DEF Skip, HandInv, TypeOK, Delivering
  <2>2. \A j \in Job : status[j] # "absent" =>
          /\ attempts'[j] = attempts[j] /\ wait'[j] = wait[j]
          /\ IF j = cur[t] THEN status'[j] \in {status[j], "skipped"} ELSE status'[j] = status[j]
    <3>1. CASE SkipRows(cur[t])
      BY <3>1, FreshJobType DEF SkipRows, InsertJobs
    <3>2. CASE UNCHANGED jobVars
      BY <3>2 DEF jobVars
    <3>3. QED
      BY <1>11, <3>1, <3>2 DEF Skip
  <2>3. CASE NextJob(t)
    BY <2>1, <2>2, <2>3, NextJobHolds DEF HandInv, LeaseExclusive, Holds, Delivering
  <2>4. CASE pc' = [pc EXCEPT ![t] = "failed"] /\ UNCHANGED <<left, claim, cur>>
    <3>1. pc[t] = "skip" /\ pc'[t] = "failed" /\ \A s \in Tick : s # t => pc'[s] = pc[s]
      BY <1>11, <2>4 DEF Skip, TypeOK
    <3>2. QED
      BY <2>1, <2>2, <2>4, <3>1 DEF HandInv, LeaseExclusive, Holds, Delivering
  <2>5. QED
    BY <1>11, <2>3, <2>4 DEF Skip
<1>12. ASSUME NEW T, DropTicks(T), UNCHANGED <<status, attempts, wait>> PROVE HandInv' /\ LeaseExclusive'
  BY <1>12, DropTicksHolds DEF HandInv, LeaseExclusive, Holds, Delivering
<1>13. ASSUME NEW t \in Tick, TickTimesOut(t) PROVE HandInv' /\ LeaseExclusive'
  BY <1>12, <1>13 DEF TickTimesOut, jobVars
<1>14. CASE Process
  <2>1. ASSUME NEW w \in Worker, Crash(w) \/ Exit(w) PROVE HandInv' /\ LeaseExclusive'
    BY <1>12, <2>1 DEF Crash, Exit, jobVars
  <2>2. ASSUME NEW w \in Worker, Shutdown(w) \/ Restart(w) PROVE HandInv' /\ LeaseExclusive'
    BY <2>2, HandFrame DEF Shutdown, Restart, jobVars, tickVars
  <2>3. QED
    BY <1>14, <2>1, <2>2 DEF Process
<1>15. CASE TimePasses
  BY <1>15 DEF TimePasses, Less, HandInv, LeaseExclusive, Holds, Delivering, TypeOK, Busy
<1>16. CASE UNCHANGED vars
  BY <1>16, HandFrame DEF vars, jobVars, tickVars
<1>17. QED
  BY <1>1, <1>2, <1>3, <1>4, <1>5, <1>6, <1>7, <1>8, <1>9, <1>10, <1>11, <1>13, <1>14, <1>15, <1>16
     DEF Next, TickStep

\* The hand invariant and lease exclusivity hold of every reachable state.
LEMMA HandCorrect == Spec => [](TypeOK /\ HandInv /\ LeaseExclusive)
<1>1. Init => TypeOK /\ HandInv /\ LeaseExclusive
  BY TypeInit, HandInit
<1>2. TypeOK /\ HandInv /\ LeaseExclusive /\ [Next]_vars => (TypeOK /\ HandInv /\ LeaseExclusive)'
  BY TypeNext, HandNext
<1>3. QED
  BY <1>1, <1>2, PTL DEF Spec

\* Whatever the timing, no two ticks, of one process or of two, ever hold the
\* same job: CLAIM_PENDING's lease outlives the tick timeout.
THEOREM LeaseExclusiveAlways == Spec => []LeaseExclusive
  BY HandCorrect, PTL

\* Rows are never removed, and a queued row keeps its fallback flag.
LEMMA RowsStay ==
  TypeOK /\ [Next]_vars =>
    \A j \in Job : status[j] # "absent" => status'[j] # "absent" /\ fallback'[j] = fallback[j]
<1> SUFFICES ASSUME TypeOK, [Next]_vars, NEW j \in Job, status[j] # "absent"
             PROVE  status'[j] # "absent" /\ fallback'[j] = fallback[j]
  OBVIOUS
<1>1. CASE UNCHANGED <<status, fallback>>
  BY <1>1
<1>2. ASSUME NEW t \in Tick, ClaimDue(t) PROVE status'[j] # "absent" /\ fallback'[j] = fallback[j]
  <2>1. ASSUME NEW S \in SUBSET DueReminders, ClaimDueRows(S)
        PROVE  status'[j] # "absent" /\ fallback'[j] = fallback[j]
    BY <2>1, FreshJobType DEF ClaimDueRows
  <2>2. QED
    BY <1>2, <2>1 DEF ClaimDue, jobVars
<1>3. ASSUME NEW t \in Tick, MarkSent(t) \/ MarkFailed(t)
      PROVE  status'[j] # "absent" /\ fallback'[j] = fallback[j]
  BY <1>3 DEF MarkSent, MarkFailed, TypeOK
<1>4. ASSUME NEW t \in Tick, Skip(t) PROVE status'[j] # "absent" /\ fallback'[j] = fallback[j]
  <2>1. CASE SkipRows(cur[t])
    BY <2>1, FreshJobType DEF SkipRows
  <2>2. QED
    BY <1>4, <2>1 DEF Skip, jobVars
<1>5. QED
  BY <1>1, <1>2, <1>3, <1>4
     DEF Next, TickStep, Account, BecomesDue, DeleteEvent, RegisterDevice, UnregisterDevice, StartTick,
         ClaimPending, EndTick, Dispatch, SendMail, SendToDevice, TickTimesOut, Process, Crash, Shutdown,
         Exit, Restart, TimePasses, vars, jobVars

\* A step never takes a job out of `sent`, given what ticks hold.
LEMMA SentStep ==
  TypeOK /\ HandInv /\ [Next]_vars => \A j \in Job : status[j] = "sent" => status'[j] = "sent"
<1> SUFFICES ASSUME TypeOK, HandInv, [Next]_vars, NEW j \in Job, status[j] = "sent"
             PROVE  status'[j] = "sent"
  OBVIOUS
<1>1. CASE status' = status
  BY <1>1
<1>2. ASSUME NEW t \in Tick, ClaimDue(t) PROVE status'[j] = "sent"
  <2>1. ASSUME NEW S \in SUBSET DueReminders, ClaimDueRows(S) PROVE status'[j] = "sent"
    BY <2>1, FreshJobType DEF ClaimDueRows
  <2>2. QED
    BY <1>2, <2>1 DEF ClaimDue, jobVars
<1>3. ASSUME NEW t \in Tick, MarkSent(t) PROVE status'[j] = "sent"
  BY <1>3 DEF MarkSent, TypeOK
<1>4. ASSUME NEW t \in Tick, MarkFailed(t) PROVE status'[j] = "sent"
  <2>1. cur[t] \in Job /\ cur[t] # j
    BY <1>4 DEF MarkFailed, TypeOK, HandInv, Delivering
  <2>2. QED
    BY <1>4, <2>1 DEF MarkFailed, TypeOK
<1>5. ASSUME NEW t \in Tick, Skip(t) PROVE status'[j] = "sent"
  <2>1. cur[t] \in Job /\ cur[t] # j
    BY <1>5 DEF Skip, TypeOK, HandInv, Delivering
  <2>2. CASE SkipRows(cur[t])
    BY <2>1, <2>2, FreshJobType DEF SkipRows
  <2>3. QED
    BY <1>5, <2>2 DEF Skip, jobVars
<1>6. QED
  BY <1>1, <1>2, <1>3, <1>4, <1>5
     DEF Next, TickStep, Account, BecomesDue, DeleteEvent, RegisterDevice, UnregisterDevice, StartTick,
         ClaimPending, EndTick, Dispatch, SendMail, SendToDevice, TickTimesOut, Process, Crash, Shutdown,
         Exit, Restart, TimePasses, vars, jobVars

\* mark_failed, which does not look at the status, never undoes mark_sent.
THEOREM SentIsFinalAlways == Spec => SentIsFinal
<1>1. TypeOK /\ HandInv /\ [Next]_vars => [\A j \in Job : status[j] = "sent" => status'[j] = "sent"]_status
  BY SentStep
<1>2. QED
  BY <1>1, HandCorrect, PTL DEF Spec, SentIsFinal
-----------------------------------------------------------------------------
(* How often a job is delivered                                              *)

\* Nothing was started before any attempt was counted.
LEMMA TriesInit == Init => TriesInv
  BY RetryAssumption DEF Init, TriesInv, Holds, NoClaim

\* Only Dispatch starts a delivery, and only below the limit.
LEMMA TriesNext ==
  TypeOK /\ TypeOK' /\ HandInv /\ LeaseExclusive /\ TriesInv /\ [Next]_vars => TriesInv'
<1> SUFFICES ASSUME TypeOK, TypeOK', HandInv, LeaseExclusive, TriesInv, [Next]_vars
             PROVE  TriesInv'
  OBVIOUS
<1>0. \A j \in Job : status'[j] = "absent" => status[j] = "absent"
  BY RowsStay
<1>1. ASSUME UNCHANGED <<attempts, tries>>,
             \A s \in Tick : \A j \in Job :
               Holds(s, j)' /\ (pc'[s] = "deliver" \/ cur'[s] # j)
               => Holds(s, j) /\ (pc[s] = "deliver" \/ cur[s] # j)
      PROVE  TriesInv'
  BY <1>0, <1>1 DEF TriesInv
<1>2. ASSUME NEW t \in Tick, pc'[t] # "deliver", UNCHANGED <<attempts, tries, claim, cur>>,
             \A s \in Tick : s # t => pc'[s] = pc[s]
      PROVE  TriesInv'
  BY <1>1, <1>2 DEF Holds
<1>3. ASSUME NEW t \in Tick, StartTick(t) \/ EndTick(t) \/ SendMail(t) PROVE TriesInv'
  <2>1. pc'[t] # "deliver" /\ \A s \in Tick : s # t => pc'[s] = pc[s]
    BY <1>3 DEF StartTick, EndTick, SendMail, TypeOK
  <2>2. QED
    BY <1>2, <1>3, <2>1 DEF StartTick, EndTick, SendMail, jobVars, seenVars
<1>4. ASSUME NEW t \in Tick, NEW d \in Device, SendToDevice(t, d) PROVE TriesInv'
  <2>1. pc'[t] # "deliver" /\ \A s \in Tick : s # t => pc'[s] = pc[s]
    BY <1>4 DEF SendToDevice, PushOutcome, TypeOK
  <2>2. QED
    BY <1>2, <1>4, <2>1 DEF SendToDevice, jobVars
<1>5. ASSUME NEW t \in Tick, ClaimDue(t) PROVE TriesInv'
  <2>1. pc'[t] # "deliver" /\ \A s \in Tick : s # t => pc'[s] = pc[s]
    BY <1>5 DEF ClaimDue, TypeOK
  <2>2. \A j \in Job : attempts'[j] = attempts[j]
    <3>1. ASSUME NEW S \in SUBSET DueReminders, ClaimDueRows(S), NEW j \in Job
          PROVE  attempts'[j] = attempts[j]
      BY <3>1, FreshJobType DEF ClaimDueRows, InsertJobs, TriesInv
    <3>2. QED
      BY <1>5, <3>1 DEF ClaimDue, jobVars
  <2>3. attempts' = attempts
    BY <2>2 DEF TypeOK
  <2>4. QED
    BY <1>2, <1>5, <2>1, <2>3 DEF ClaimDue, seenVars
<1>6. ASSUME NEW t \in Tick, ClaimPending(t) PROVE TriesInv'
  <2>1. PICK S \in SUBSET {j \in Job : Claimable(j)} :
          \/ LeaseJobs(S)
               /\ claim' = [claim EXCEPT ![t] = [j \in Job |-> IF j \in S THEN attempts[j] + 1 ELSE 0]]
          \/ (LeaseJobs(S) \/ UNCHANGED <<attempts, wait>>) /\ UNCHANGED claim
    BY <1>6 DEF ClaimPending
  <2>2. \A j \in Job : /\ j \notin S => attempts'[j] = attempts[j]
                       /\ j \in S => attempts'[j] \in {attempts[j], attempts[j] + 1} /\ status[j] = "pending"
    BY <2>1 DEF LeaseJobs, Claimable
  <2>3. \A j \in Job : attempts'[j] >= attempts[j]
    <3>1. \A j \in Job : attempts[j] \in Nat
      BY DEF TypeOK
    <3>2. QED
      BY <2>2, <3>1
  <2>4. \A s \in Tick : s # t => pc'[s] = pc[s] /\ claim'[s] = claim[s] /\ cur'[s] = cur[s]
    BY <1>6, ClaimPendingTicks
  <2>5. \A j \in Job : ~Holds(t, j)
    BY <1>6 DEF ClaimPending, HandInv, Delivering
  <2>6. \A j \in Job : Holds(t, j)' => attempts'[j] = attempts[j] + 1
    BY <2>1, <2>5 DEF LeaseJobs, Holds, TypeOK
  <2>7. tries' = tries /\ status' = status
    BY <1>6 DEF ClaimPending, seenVars
  <2>8. ASSUME NEW j \in Job, NEW s \in Tick, Holds(s, j)', pc'[s] = "deliver" \/ cur'[s] # j
        PROVE  tries'[j] < attempts'[j]
    <3>1. CASE s = t
      BY <2>6, <2>7, <2>8, <3>1 DEF TriesInv, TypeOK
    <3>2. CASE s # t
      BY <2>3, <2>4, <2>7, <2>8, <3>2 DEF TriesInv, TypeOK, Holds
    <3>3. QED
      BY <3>1, <3>2
  <2>9. \A j \in Job : /\ status'[j] = "absent" => attempts'[j] = 0
                       /\ tries'[j] <= attempts'[j] /\ tries'[j] < MaxAttempts
    BY <2>2, <2>3, <2>7 DEF TriesInv, TypeOK
  <2>10. QED
    BY <2>8, <2>9 DEF TriesInv
<1>7. ASSUME NEW t \in Tick, NEW j \in Job, Dispatch(t, j) PROVE TriesInv'
  <2>1. Holds(t, j) /\ claim[t][j] = attempts[j] /\ tries[j] < attempts[j]
    BY <1>7 DEF Dispatch, HandInv, TriesInv
  <2>2. UNCHANGED <<attempts, claim, status>>
    BY <1>7 DEF Dispatch, jobVars
  <2>3. \A s \in Tick : s # t => pc'[s] = pc[s] /\ cur'[s] = cur[s]
    BY <1>7 DEF Dispatch, TypeOK
  <2>4. pc[t] = "deliver" /\ pc'[t] # "deliver" /\ cur'[t] = j
    BY <1>7 DEF Dispatch, DispatchStep, EmailStep, PushStep, TypeOK
  <2>5. \A i \in Job : i # j => tries'[i] = tries[i]
    BY <1>7 DEF Dispatch, TypeOK
  <2>6. tries'[j] = tries[j] \/ (tries'[j] = tries[j] + 1 /\ claim[t][j] < MaxAttempts)
    <3>1. DispatchStep(j, claim[t][j]) \in {"mail", "push"} => ~Exhausted(claim[t][j])
      BY DEF DispatchStep
    <3>2. claim[t][j] \in Nat /\ MaxAttempts \in Nat
      BY RetryAssumption DEF TypeOK
    <3>3. QED
      BY <1>7, <3>1, <3>2 DEF Dispatch, Exhausted, TypeOK
  <2>7. \A i \in Job : \A s \in Tick : s # t => ~(Holds(s, i) /\ i = j)
    BY <2>1 DEF LeaseExclusive
  <2>8. ASSUME NEW i \in Job, NEW s \in Tick, Holds(s, i)', pc'[s] = "deliver" \/ cur'[s] # i
        PROVE  tries'[i] < attempts'[i]
    <3>1. Holds(s, i) /\ i # j /\ (pc[s] = "deliver" \/ cur[s] # i)
      BY <2>2, <2>3, <2>4, <2>7, <2>8 DEF Holds
    <3>2. QED
      BY <2>2, <2>5, <3>1 DEF TriesInv
  <2>9. \A i \in Job : tries'[i] <= attempts'[i] /\ tries'[i] < MaxAttempts
    <3>1. tries[j] \in Nat /\ attempts[j] \in Nat /\ MaxAttempts \in Nat
      BY RetryAssumption DEF TypeOK
    <3>2. tries'[j] <= attempts'[j] /\ tries'[j] < MaxAttempts
      BY <2>1, <2>2, <2>6, <3>1 DEF TriesInv
    <3>3. QED
      BY <2>2, <2>5, <3>2 DEF TriesInv
  <2>10. QED
    BY <2>2, <2>8, <2>9 DEF TriesInv
<1>8. ASSUME NEW t \in Tick, cur[t] \in Job, NextJob(t), UNCHANGED <<attempts, tries>> PROVE TriesInv'
  <2>1. \A s \in Tick : \A j \in Job :
          Holds(s, j)' /\ (pc'[s] = "deliver" \/ cur'[s] # j)
          => Holds(s, j) /\ (pc[s] = "deliver" \/ cur[s] # j)
    BY <1>8, NextJobHolds DEF Holds
  <2>2. QED
    BY <1>1, <1>8, <2>1
<1>9. ASSUME NEW t \in Tick, MarkSent(t) \/ MarkFailed(t) PROVE TriesInv'
  BY <1>8, <1>9 DEF MarkSent, MarkFailed, seenVars, TypeOK, Delivering
<1>10. ASSUME NEW t \in Tick, Skip(t) PROVE TriesInv'
  <2>1. cur[t] \in Job
    BY <1>10 DEF Skip, TypeOK, Delivering
  <2>2. \A j \in Job : attempts'[j] = attempts[j]
    <3>1. ASSUME SkipRows(cur[t]), NEW j \in Job PROVE attempts'[j] = attempts[j]
      BY <3>1, FreshJobType DEF SkipRows, InsertJobs, TriesInv
    <3>2. QED
      BY <1>10, <3>1 DEF Skip, jobVars
  <2>3. attempts' = attempts /\ tries' = tries
    BY <1>10, <2>2 DEF TypeOK, Skip, seenVars
  <2>4. CASE NextJob(t)
    BY <1>8, <2>1, <2>3, <2>4
  <2>5. CASE pc' = [pc EXCEPT ![t] = "failed"] /\ UNCHANGED <<left, claim, cur, todo, allSent>>
    BY <1>2, <2>3, <2>5 DEF TypeOK
  <2>6. QED
    BY <1>10, <2>4, <2>5 DEF Skip
<1>11. ASSUME NEW T, DropTicks(T), UNCHANGED <<attempts, tries>> PROVE TriesInv'
  BY <1>1, <1>11, DropTicksHolds DEF Holds
<1>12. ASSUME NEW t \in Tick, TickTimesOut(t) PROVE TriesInv'
  BY <1>11, <1>12 DEF TickTimesOut, jobVars, seenVars
<1>13. ASSUME NEW w \in Worker, Crash(w) \/ Exit(w) PROVE TriesInv'
  BY <1>11, <1>13 DEF Crash, Exit, jobVars, seenVars
<1>14. ASSUME UNCHANGED <<pc, claim, cur, attempts, tries>> PROVE TriesInv'
  BY <1>1, <1>14 DEF Holds
<1>15. CASE Account \/ TimePasses \/ UNCHANGED vars
  BY <1>14, <1>15 DEF Account, BecomesDue, DeleteEvent, RegisterDevice, UnregisterDevice, TimePasses,
     vars, jobVars, tickVars, seenVars
<1>16. ASSUME NEW w \in Worker, Shutdown(w) \/ Restart(w) PROVE TriesInv'
  BY <1>14, <1>16 DEF Shutdown, Restart, jobVars, tickVars, seenVars
<1>17. QED
  BY <1>3, <1>4, <1>5, <1>6, <1>7, <1>9, <1>10, <1>12, <1>13, <1>15, <1>16 DEF Next, TickStep, Process

\* Over all retries, expired leases, crashes and lost answers, a job is handed
\* to the mail server or to APNs fewer than MAX_ATTEMPTS times.
THEOREM AttemptsBoundedAlways == Spec => []AttemptsBounded
<1>1. Init => TypeOK /\ HandInv /\ LeaseExclusive /\ TriesInv
  BY TypeInit, HandInit, TriesInit
<1>2. TypeOK /\ HandInv /\ LeaseExclusive /\ TriesInv /\ [Next]_vars
      => (TypeOK /\ HandInv /\ LeaseExclusive /\ TriesInv)'
  BY TypeNext, HandNext, TriesNext
<1>3. TriesInv => AttemptsBounded
  BY DEF TriesInv, AttemptsBounded
<1>4. QED
  BY <1>1, <1>2, <1>3, PTL DEF Spec
-----------------------------------------------------------------------------
(* The email a reminder owes                                                 *)

\* A job becomes skipped only in the transaction that queues its fallback.
LEMMA SkippedStep ==
  ASSUME TypeOK, [Next]_vars, NEW j \in Job, status[j] # "skipped", status'[j] = "skipped"
  PROVE  SkipRows(j)
<1>1. CASE status' = status
  BY <1>1
<1>2. ASSUME NEW t \in Tick, ClaimDue(t) PROVE SkipRows(j)
  <2>1. ASSUME NEW S \in SUBSET DueReminders, ClaimDueRows(S) PROVE FALSE
    BY <2>1 DEF ClaimDueRows
  <2>2. QED
    BY <1>2, <2>1 DEF ClaimDue, jobVars
<1>3. ASSUME NEW t \in Tick, MarkSent(t) \/ MarkFailed(t) PROVE SkipRows(j)
  BY <1>3 DEF MarkSent, MarkFailed, TypeOK
<1>4. ASSUME NEW t \in Tick, Skip(t) PROVE SkipRows(j)
  <2>1. CASE SkipRows(cur[t])
    <3>1. cur[t] = j
      BY <2>1 DEF SkipRows
    <3>2. QED
      BY <2>1, <3>1
  <2>2. QED
    BY <1>4, <2>1 DEF Skip, jobVars
<1>5. QED
  BY <1>1, <1>2, <1>3, <1>4
     DEF Next, TickStep, Account, BecomesDue, DeleteEvent, RegisterDevice, UnregisterDevice, StartTick,
         ClaimPending, EndTick, Dispatch, SendMail, SendToDevice, TickTimesOut, Process, Crash, Shutdown,
         Exit, Restart, TimePasses, vars, jobVars

\* A reminder becomes claimed only in the transaction that queues its jobs.
LEMMA ClaimedStep ==
  ASSUME TypeOK, [Next]_vars, NEW r \in Reminder, reminder[r] # "claimed", reminder'[r] = "claimed"
  PROVE  \E S \in SUBSET Reminder : r \in S /\ ClaimDueRows(S)
<1>1. CASE reminder' = reminder
  BY <1>1
<1>2. ASSUME NEW t \in Tick, ClaimDue(t)
      PROVE  \E S \in SUBSET Reminder : r \in S /\ ClaimDueRows(S)
  <2>1. ASSUME NEW S \in SUBSET DueReminders, ClaimDueRows(S) PROVE r \in S
    BY <2>1 DEF ClaimDueRows
  <2>2. QED
    BY <1>2, <2>1 DEF ClaimDue, DueReminders
<1>3. ASSUME NEW q \in Reminder, BecomesDue(q)
      PROVE  \E S \in SUBSET Reminder : r \in S /\ ClaimDueRows(S)
  BY <1>3 DEF BecomesDue, TypeOK
<1>4. ASSUME NEW t \in Tick, TickStep(t) PROVE ClaimDue(t) \/ reminder' = reminder
  BY ONLY <1>4 DEF TickStep, ClaimPending, EndTick, Dispatch, SendMail, SendToDevice, MarkSent, MarkFailed,
     Skip, rowVars
<1>5. ASSUME NEW t \in Tick, StartTick(t) \/ TickTimesOut(t) PROVE reminder' = reminder
  BY ONLY <1>5 DEF StartTick, TickTimesOut, rowVars
<1>6. ASSUME Account PROVE reminder' = reminder \/ \E q \in Reminder : BecomesDue(q)
  BY ONLY <1>6 DEF Account, DeleteEvent, RegisterDevice, UnregisterDevice
<1>7. ASSUME Process \/ TimePasses \/ UNCHANGED vars PROVE reminder' = reminder
  BY ONLY <1>7 DEF Process, Crash, Shutdown, Exit, Restart, TimePasses, vars, rowVars
<1>8. QED
  BY <1>1, <1>2, <1>3, <1>4, <1>5, <1>6, <1>7 DEF Next

\* The worker never changes the owner's settings.
LEMMA PrefsStep ==
  ASSUME [Next]_vars
  PROVE  prefs' = prefs
<1>1. ASSUME NEW t \in Tick, TickStep(t) PROVE prefs' = prefs
  BY ONLY <1>1 DEF TickStep, ClaimDue, ClaimPending, EndTick, Dispatch, SendMail, SendToDevice, MarkSent,
     MarkFailed, Skip, rowVars
<1>2. ASSUME NEW t \in Tick, StartTick(t) \/ TickTimesOut(t) PROVE prefs' = prefs
  BY ONLY <1>2 DEF StartTick, TickTimesOut, rowVars
<1>3. ASSUME Account \/ Process \/ TimePasses \/ UNCHANGED vars PROVE prefs' = prefs
  BY ONLY <1>3 DEF Account, BecomesDue, DeleteEvent, RegisterDevice, UnregisterDevice, Process, Crash,
     Shutdown, Exit, Restart, TimePasses, vars, rowVars
<1>4. QED
  BY <1>1, <1>2, <1>3 DEF Next

\* Every step keeps the owed email queued.
LEMMA EmailNext ==
  TypeOK /\ TypeOK' /\ EmailNotLost /\ [Next]_vars => EmailNotLost'
<1> SUFFICES ASSUME TypeOK, TypeOK', EmailNotLost, [Next]_vars, NEW r \in Reminder,
                    reminder'[r] = "claimed", prefs'[r].email
             PROVE  \/ EmailRows(r)' # {}
                    \/ \E j \in Job : /\ ReminderOf(j) = r
                                      /\ QueuesFallback(j)'
                                      /\ status'[j] \in {"pending", "sent"}
  BY DEF EmailNotLost
<1>0. prefs' = prefs
  BY PrefsStep
<1>1. ASSUME NEW j \in Job, ReminderOf(j) = r, ChannelOf(j) = "email", status'[j] # "absent"
      PROVE  EmailRows(r)' # {}
  BY <1>1 DEF EmailRows
<1>2. CASE reminder[r] = "claimed"
  <2>1. CASE EmailRows(r) # {}
    <3>1. PICK j \in Job : ReminderOf(j) = r /\ ChannelOf(j) = "email" /\ status[j] # "absent"
      BY <2>1 DEF EmailRows
    <3>2. QED
      BY <1>1, <3>1, RowsStay
  <2>2. ASSUME NEW j \in Job, ReminderOf(j) = r, QueuesFallback(j), status[j] \in {"pending", "sent"}
        PROVE  \/ EmailRows(r)' # {}
               \/ QueuesFallback(j)' /\ status'[j] \in {"pending", "sent"}
    <3>1. QueuesFallback(j)' /\ status'[j] # "absent"
      BY <2>2, RowsStay DEF QueuesFallback
    <3>2. CASE status'[j] = "skipped"
      <4>1. SkipRows(j)
        BY <2>2, <3>2, SkippedStep
      <4>2. CanQueue(r, "email")
        BY <2>2, <4>1 DEF SkipRows
      <4>3. status'[FreshJob(r, "email")] # "absent"
        BY <2>2, <4>1, <4>2, FreshJobType DEF SkipRows
      <4>4. QED
        BY <1>1, <4>2, <4>3, FreshJobType
    <3>3. QED
      BY <3>1, <3>2 DEF TypeOK
  <2>3. QED
    BY <1>0, <1>2, <2>1, <2>2 DEF EmailNotLost
<1>3. CASE reminder[r] # "claimed"
  <2>1. PICK S \in SUBSET Reminder : r \in S /\ ClaimDueRows(S)
    BY <1>3, ClaimedStep
  <2>2. ASSUME NEW c \in ChannelsFor(r)
        PROVE  /\ FreshJob(r, c) \in Job
               /\ ReminderOf(FreshJob(r, c)) = r /\ ChannelOf(FreshJob(r, c)) = c
               /\ status'[FreshJob(r, c)] = "pending"
               /\ fallback'[FreshJob(r, c)] = (c = "push" /\ EmailDeferredToPush(r))
    <3>1. CanQueue(r, c)
      BY <2>1, <2>2 DEF ClaimDueRows
    <3>2. /\ FreshJob(r, c) \in Job
          /\ ReminderOf(FreshJob(r, c)) = r /\ ChannelOf(FreshJob(r, c)) = c
      BY <3>1, FreshJobType
    <3>3. FreshJob(r, c) \in UNION {{FreshJob(q, e) : e \in ChannelsFor(q)} : q \in S}
      BY <2>1, <2>2
    <3>4. QED
      BY <2>1, <3>2, <3>3 DEF ClaimDueRows
  <2>3. CASE EmailDeferredToPush(r)
    <3>1. "push" \in ChannelsFor(r)
      BY <2>3 DEF ChannelsFor, Channel, EmailDeferredToPush
    <3>2. QED
      BY <2>2, <2>3, <3>1 DEF QueuesFallback
  <2>4. CASE ~EmailDeferredToPush(r)
    <3>1. "email" \in ChannelsFor(r)
      BY <1>0, <2>4 DEF ChannelsFor, Channel
    <3>2. QED
      BY <1>1, <2>2, <3>1
  <2>5. QED
    BY <2>3, <2>4
<1>4. QED
  BY <1>2, <1>3

\* From the moment a reminder is claimed, an email its owner asked for is
\* queued, or stood in for by a push job that was not skipped.
THEOREM EmailNotLostAlways == Spec => []EmailNotLost
<1>1. Init => TypeOK /\ EmailNotLost
  BY TypeInit DEF Init, EmailNotLost
<1>2. TypeOK /\ EmailNotLost /\ [Next]_vars => (TypeOK /\ EmailNotLost)'
  BY TypeNext, EmailNext
<1>3. QED
  BY <1>1, <1>2, PTL DEF Spec
-----------------------------------------------------------------------------
(* Shutdown                                                                  *)

\* A draining process keeps more of its wait than its ticks of their timeout.
LEMMA DrainNext ==
  TypeOK /\ TypeOK' /\ HandInv /\ DrainInv /\ [Next]_vars => DrainInv'
<1> SUFFICES ASSUME TypeOK, TypeOK', HandInv, DrainInv, [Next]_vars
             PROVE  DrainInv'
  OBVIOUS
<1>0. \A t \in Tick : t[1] \in Worker
  BY DEF Tick
<1>1. ASSUME NEW t \in Tick, UNCHANGED <<mode, drain>>, Busy(t), left'[t] \in {left[t], 0},
             \A s \in Tick : s # t => pc'[s] = pc[s] /\ left'[s] = left[s]
      PROVE  DrainInv'
  <2>1. \A s \in Tick : left[s] \in Nat /\ drain[s[1]] \in Nat
    BY <1>0 DEF TypeOK
  <2>2. ASSUME NEW s \in Tick, mode'[s[1]] = "draining", pc'[s] # "idle"
        PROVE  left'[s] < drain'[s[1]]
    <3>1. left[s] < drain[s[1]]
      BY <1>1, <2>2 DEF DrainInv, Busy
    <3>2. left'[s] \in {left[s], 0}
      BY <1>1
    <3>3. QED
      BY <1>1, <2>1, <3>1, <3>2
  <2>3. QED
    BY <2>2 DEF DrainInv, Busy
<1>2. ASSUME NEW t \in Tick, StartTick(t) PROVE DrainInv'
  BY <1>2 DEF StartTick, MayStart, procVars, DrainInv, Busy, TypeOK
<1>3. ASSUME NEW t \in Tick, ClaimDue(t) \/ EndTick(t) \/ SendMail(t) PROVE DrainInv'
  <2>1. Busy(t) /\ \A s \in Tick : s # t => pc'[s] = pc[s] /\ left'[s] = left[s]
    BY <1>3 DEF ClaimDue, EndTick, SendMail, Busy, TypeOK
  <2>2. left'[t] \in {left[t], 0}
    BY <1>3 DEF ClaimDue, EndTick, SendMail, TypeOK
  <2>3. QED
    BY <1>1, <1>3, <2>1, <2>2 DEF ClaimDue, EndTick, SendMail, procVars
<1>4. ASSUME NEW t \in Tick, ClaimPending(t) PROVE DrainInv'
  <2>1. Busy(t) /\ \A s \in Tick : s # t => pc'[s] = pc[s] /\ left'[s] = left[s]
    BY <1>4, ClaimPendingTicks DEF Busy
  <2>2. left'[t] \in {left[t], 0}
    BY <1>4, ClaimPendingTicks
  <2>3. QED
    BY <1>1, <1>4, <2>1, <2>2 DEF ClaimPending, procVars
<1>5. ASSUME NEW t \in Tick, NEW j \in Job, Dispatch(t, j) PROVE DrainInv'
  <2>1. Busy(t) /\ left' = left /\ \A s \in Tick : s # t => pc'[s] = pc[s]
    BY <1>5 DEF Dispatch, Busy, TypeOK
  <2>2. QED
    BY <1>1, <1>5, <2>1 DEF Dispatch, procVars
<1>6. ASSUME NEW t \in Tick, NEW d \in Device, SendToDevice(t, d) PROVE DrainInv'
  <2>1. Busy(t) /\ left' = left /\ \A s \in Tick : s # t => pc'[s] = pc[s]
    BY <1>6 DEF SendToDevice, Busy, TypeOK
  <2>2. QED
    BY <1>1, <1>6, <2>1 DEF SendToDevice, procVars
<1>7. ASSUME NEW t \in Tick, MarkSent(t) \/ MarkFailed(t) \/ Skip(t) PROVE DrainInv'
  <2>1. Busy(t) /\ left' = left /\ \A s \in Tick : s # t => pc'[s] = pc[s]
    BY <1>7 DEF MarkSent, MarkFailed, Skip, NextJob, Busy, TypeOK
  <2>2. QED
    BY <1>1, <1>7, <2>1 DEF MarkSent, MarkFailed, Skip, procVars
<1>8. ASSUME NEW t \in Tick, TickTimesOut(t) PROVE DrainInv'
  BY <1>8, DropTicksHolds DEF TickTimesOut, procVars, DrainInv, Busy
<1>9. ASSUME NEW w \in Worker, Crash(w) \/ Exit(w) PROVE DrainInv'
  <2>1. DropTicks(TicksOf(w)) /\ mode'[w] = "stopped"
    BY <1>9 DEF Crash, Exit, TypeOK
  <2>2. \A v \in Worker : v # w => mode'[v] = mode[v] /\ drain'[v] = drain[v]
    BY <1>9 DEF Crash, Exit, TypeOK
  <2>3. \A t \in Tick : t \in TicksOf(w) <=> t[1] = w
    BY DEF TicksOf
  <2>4. QED
    BY <1>0, <2>1, <2>2, <2>3, DropTicksHolds DEF DrainInv, Busy
<1>10. ASSUME NEW w \in Worker, Shutdown(w) PROVE DrainInv'
  <2>1. drain'[w] = Drain /\ \A v \in Worker : v # w => mode'[v] = mode[v] /\ drain'[v] = drain[v]
    BY <1>10 DEF Shutdown, TypeOK
  <2>2. \A t \in Tick : left[t] < Drain
    BY TimeAssumption DEF HandInv, TypeOK
  <2>3. QED
    BY <1>0, <1>10, <2>1, <2>2 DEF Shutdown, tickVars, DrainInv, Busy
<1>11. ASSUME NEW w \in Worker, Restart(w) PROVE DrainInv'
  BY <1>0, <1>11 DEF Restart, tickVars, DrainInv, Busy, TypeOK
<1>12. CASE TimePasses
  BY <1>0, <1>12 DEF TimePasses, Less, DrainInv, Busy, TypeOK
<1>13. CASE Account \/ UNCHANGED vars
  BY <1>13 DEF Account, BecomesDue, DeleteEvent, RegisterDevice, UnregisterDevice,
     vars, tickVars, procVars, DrainInv, Busy
<1>14. QED
  BY <1>2, <1>3, <1>4, <1>5, <1>6, <1>7, <1>8, <1>9, <1>10, <1>11, <1>12, <1>13 DEF Next, TickStep, Process

\* The shutdown wait never cuts off a running tick, because TICK_TIMEOUT < DRAIN:
\* by the time it has run out every tick has ended or timed out.
THEOREM DrainCutsNoTickAlways == Spec => []DrainCutsNoTick
<1>1. Init => TypeOK /\ HandInv /\ LeaseExclusive /\ DrainInv
  BY TypeInit, HandInit DEF Init, DrainInv, Busy, Tick
<1>2. TypeOK /\ HandInv /\ LeaseExclusive /\ DrainInv /\ [Next]_vars
      => (TypeOK /\ HandInv /\ LeaseExclusive /\ DrainInv)'
  BY TypeNext, HandNext, DrainNext
<1>3. TypeOK /\ DrainInv => DrainCutsNoTick
  BY DEF TypeOK, DrainInv, DrainCutsNoTick, TicksOf
<1>4. QED
  BY <1>1, <1>2, <1>3, PTL DEF Spec
-----------------------------------------------------------------------------
(* Duplicate mail                                                            *)

\* A tick that drops out of "sent" marks its job sent, or is disrupted.
LEMMA SentTickStep ==
  ASSUME TypeOK, DrainInv, [Next]_vars, budget' = budget,
         NEW t \in Tick, pc[t] = "sent"
  PROVE  (pc'[t] = "sent" /\ cur'[t] = cur[t]) \/ status'[cur[t]] = "sent"
<1> DEFINE Kept == pc'[t] = "sent" /\ cur'[t] = cur[t]
           Done == status'[cur[t]] = "sent"
<1>0. ~Disrupt /\ cur[t] \in Job /\ Busy(t)
  BY DEF Disrupt, TypeOK, Delivering, Busy
<1>1. ASSUME NEW s \in Tick, StartTick(s) \/ ClaimDue(s) \/ EndTick(s) \/ SendMail(s) PROVE Kept
  BY <1>0, <1>1 DEF StartTick, ClaimDue, EndTick, SendMail, Busy, TypeOK
<1>2. ASSUME NEW s \in Tick, ClaimPending(s) PROVE Kept
  BY <1>2 DEF ClaimPending, TypeOK
<1>3. ASSUME NEW s \in Tick, NEW j \in Job, Dispatch(s, j) PROVE Kept
  BY <1>3 DEF Dispatch, TypeOK
<1>4. ASSUME NEW s \in Tick, NEW d \in Device, SendToDevice(s, d) PROVE Kept
  BY <1>4 DEF SendToDevice, TypeOK
<1>5. ASSUME NEW s \in Tick, MarkSent(s) PROVE Kept \/ Done
  BY <1>0, <1>5 DEF MarkSent, NextJob, TypeOK
<1>6. ASSUME NEW s \in Tick, MarkFailed(s) \/ Skip(s) PROVE Kept
  BY <1>0, <1>6 DEF MarkFailed, Skip, NextJob, TypeOK
<1>7. ASSUME NEW w \in Worker, Exit(w) PROVE Kept
  <2>1. t \notin TicksOf(w)
    <3>1. ASSUME t \in TicksOf(w) PROVE drain[w] = 0 /\ left[t] < drain[w]
      BY <1>0, <1>7, <3>1 DEF Exit, DrainInv, TicksOf
    <3>2. left[t] \in Nat
      BY DEF TypeOK
    <3>3. QED
      BY <3>1, <3>2
  <2>2. QED
    BY <1>7, <2>1, DropTicksHolds DEF Exit
<1>8. CASE UNCHANGED <<pc, cur>>
  BY <1>8
<1>9. QED
  BY <1>0, <1>1, <1>2, <1>3, <1>4, <1>5, <1>6, <1>7, <1>8
     DEF Next, TickStep, Account, BecomesDue, DeleteEvent, RegisterDevice, UnregisterDevice, TickTimesOut,
         Process, Crash, Shutdown, Restart, TimePasses, vars, tickVars

\* Only SendMail gets a mail accepted.
LEMMA MailStep ==
  ASSUME [Next]_vars
  PROVE  mails' = mails \/ \E t \in Tick : SendMail(t)
<1>1. ASSUME NEW t \in Tick, TickStep(t) PROVE mails' = mails \/ SendMail(t)
  BY ONLY <1>1 DEF TickStep, ClaimDue, ClaimPending, EndTick, Dispatch, SendToDevice, MarkSent,
     MarkFailed, Skip, seenVars
<1>2. ASSUME NEW t \in Tick, StartTick(t) \/ TickTimesOut(t) PROVE mails' = mails
  BY ONLY <1>2 DEF StartTick, TickTimesOut, seenVars
<1>3. ASSUME Account \/ Process \/ TimePasses \/ UNCHANGED vars PROVE mails' = mails
  BY ONLY <1>3 DEF Account, BecomesDue, DeleteEvent, RegisterDevice, UnregisterDevice, Process, Crash,
     Shutdown, Exit, Restart, TimePasses, vars, seenVars
<1>4. QED
  BY <1>1, <1>2, <1>3 DEF Next

\* The budget goes down by one with every disruption and never up.
LEMMA BudgetStep ==
  ASSUME [Next]_vars
  PROVE  budget' = budget \/ Disrupt
<1>1. ASSUME NEW t \in Tick, TickStep(t) PROVE budget' = budget \/ Disrupt
  BY ONLY <1>1 DEF TickStep, ClaimDue, ClaimPending, EndTick, Dispatch, SendMail, SendToDevice, MarkSent,
     MarkFailed, Skip
<1>2. ASSUME NEW t \in Tick, StartTick(t) \/ TickTimesOut(t) PROVE budget' = budget \/ Disrupt
  BY <1>2 DEF StartTick, TickTimesOut
<1>3. CASE Account \/ Process
  BY <1>3 DEF Account, BecomesDue, DeleteEvent, RegisterDevice, UnregisterDevice, Process, Crash, Shutdown,
     Exit, Restart
<1>4. CASE TimePasses \/ UNCHANGED vars
  BY <1>4 DEF TimePasses, vars
<1>5. QED
  BY <1>1, <1>2, <1>3, <1>4 DEF Next

\* A second accepted mail is paid for by a disruption.
LEMMA MailNext ==
  TypeOK /\ TypeOK' /\ HandInv /\ LeaseExclusive /\ DrainInv /\ MailInv /\ [Next]_vars => MailInv'
<1> SUFFICES ASSUME TypeOK, TypeOK', HandInv, LeaseExclusive, DrainInv, MailInv, [Next]_vars,
                    NEW j \in Job
             PROVE  /\ mails'[j] <= 1 + Disruptions'
                    /\ \/ status'[j] = "sent"
                       \/ \E t \in Tick : pc'[t] = "sent" /\ cur'[t] = j
                       \/ mails'[j] <= Disruptions'
  BY DEF MailInv
<1>0. mails[j] \in Nat /\ mails'[j] \in Nat /\ Disruptions \in Nat /\ Disruptions' \in Nat
  <2>1. mails[j] \in Nat /\ mails'[j] \in Nat
    BY DEF TypeOK
  <2>2. budget \in 0 .. MaxDisruptions /\ budget' \in 0 .. MaxDisruptions
    BY DEF TypeOK
  <2>3. MaxDisruptions - budget \in Nat /\ MaxDisruptions - budget' \in Nat
    BY <2>2, DifferenceType, BoundAssumption
  <2>4. QED
    BY <2>1, <2>3 DEF Disruptions
<1>1. \/ budget' = budget /\ Disruptions' = Disruptions
      \/ Disrupt /\ Disruptions' = Disruptions + 1
  <2>1. budget \in 0 .. MaxDisruptions
    BY DEF TypeOK
  <2>2. QED
    BY <2>1, BudgetStep, BoundAssumption DEF Disruptions, Disrupt
<1>2. CASE mails' = mails
  <2>1. CASE Disruptions' = Disruptions + 1
    BY <1>0, <1>2, <2>1 DEF MailInv
  <2>2. CASE budget' = budget /\ Disruptions' = Disruptions
    <3>1. CASE status[j] = "sent"
      BY <1>2, <2>2, <3>1, SentStep DEF MailInv
    <3>2. ASSUME NEW t \in Tick, pc[t] = "sent", cur[t] = j
          PROVE  status'[j] = "sent" \/ (pc'[t] = "sent" /\ cur'[t] = j)
      BY <2>2, <3>2, SentTickStep
    <3>3. QED
      BY <1>2, <2>2, <3>1, <3>2 DEF MailInv
  <2>3. QED
    BY <1>1, <2>1, <2>2
<1>3. ASSUME NEW t \in Tick, SendMail(t)
      PROVE  /\ mails'[j] <= 1 + Disruptions'
             /\ \/ status'[j] = "sent"
                \/ \E s \in Tick : pc'[s] = "sent" /\ cur'[s] = j
                \/ mails'[j] <= Disruptions'
  <2>1. pc[t] = "mail" /\ cur[t] \in Job /\ Holds(t, cur[t]) /\ status' = status /\ cur' = cur
    BY <1>3 DEF SendMail, HandInv, TypeOK, Delivering, jobVars
  <2>2. \A s \in Tick : s # t => pc'[s] = pc[s]
    BY <1>3 DEF SendMail, TypeOK
  <2>3. CASE j # cur[t]
    <3>1. mails'[j] = mails[j]
      BY <1>3, <2>1, <2>3 DEF SendMail, TypeOK
    <3>2. \A s \in Tick : pc[s] = "sent" /\ cur[s] = j => pc'[s] = "sent" /\ cur'[s] = j
      BY <2>1, <2>2
    <3>3. QED
      BY <1>0, <1>1, <2>1, <3>1, <3>2 DEF MailInv
  <2>4. CASE j = cur[t]
    <3>1. \A s \in Tick : ~(pc[s] = "sent" /\ cur[s] = j)
      BY <2>1, <2>4 DEF HandInv, LeaseExclusive, Delivering
    <3>2. mails[j] <= Disruptions
      BY <2>1, <2>4, <3>1 DEF MailInv, HandInv
    <3>3. CASE mails' = mails
      BY <1>0, <1>1, <3>2, <3>3
    <3>4. CASE mails'[j] = mails[j] + 1
      <4>1. pc'[t] = "sent" \/ Disrupt
        BY <1>3, <2>1, <2>4, <3>4, <1>0 DEF SendMail, TypeOK
      <4>2. CASE pc'[t] = "sent"
        BY <1>0, <1>1, <2>1, <2>4, <3>2, <3>4, <4>2
      <4>3. CASE Disruptions' = Disruptions + 1
        BY <1>0, <3>2, <3>4, <4>3
      <4>4. ~(Disrupt /\ budget' = budget)
        BY DEF Disrupt, TypeOK
      <4>5. QED
        BY <1>1, <4>1, <4>2, <4>3, <4>4
    <3>5. QED
      BY <1>3, <2>1, <2>4, <3>3, <3>4 DEF SendMail, TypeOK
  <2>5. QED
    BY <2>3, <2>4
<1>4. QED
  BY <1>2, <1>3, MailStep

\* However often a job is retried, its mail is accepted at most once more than
\* there were crashes, timeouts and failed statements.
THEOREM OnlyDisruptionsRemailAlways == Spec => []OnlyDisruptionsRemail
<1> DEFINE I == TypeOK /\ HandInv /\ LeaseExclusive /\ DrainInv /\ MailInv
<1>1. Init => I
  <2>1. Init => MailInv
    BY BoundAssumption DEF Init, MailInv, Disruptions
  <2>2. QED
    BY <2>1, TypeInit, HandInit DEF Init, DrainInv, Busy, Tick
<1>2. I /\ [Next]_vars => I'
  BY TypeNext, HandNext, DrainNext, MailNext
<1>3. I => OnlyDisruptionsRemail
  BY DEF MailInv, OnlyDisruptionsRemail
<1>4. QED
  BY <1>1, <1>2, <1>3, PTL DEF Spec
-----------------------------------------------------------------------------
(* How many emails a reminder is queued                                      *)

\* The jobs of one reminder and channel are finitely many.
LEMMA EmailRowsFinite ==
  ASSUME NEW r \in Reminder
  PROVE  IsFiniteSet(EmailRows(r)) /\ Cardinality(EmailRows(r)) \in Nat
<1> DEFINE Row(n) == <<r, "email", n>>
           Rows == {Row(n) : n \in 1 .. MaxCopies}
           row == [n \in 1 .. MaxCopies |-> Row(n)]
<1>1. IsFiniteSet(Rows)
  <2>1. IsFiniteSet(1 .. MaxCopies)
    BY BoundAssumption, FS_Interval
  <2>2. row \in Surjection(1 .. MaxCopies, Rows)
    BY DEF Surjection
  <2>3. QED
    BY <2>1, <2>2, FS_Surjection
<1>2. EmailRows(r) \subseteq Rows
  BY DEF EmailRows, Job, ReminderOf, ChannelOf
<1>3. QED
  BY <1>1, <1>2, FS_Subset, FS_CardinalityType

\* A push job that still may queue the email it stands in for: it has not been
\* skipped, or the skip was disrupted and the tick is about to put it back.
MayStillQueue(j) == QueuesFallback(j) /\ (status[j] # "skipped" \/ \E t \in Tick : Holds(t, j))

\* A reminder has no jobs before it is claimed and at most one push job that
\* stands in for its email; unless that job has handed over, every email row
\* has cost a disruption.
RequeueInv ==
    \A r \in Reminder :
        /\ reminder[r] # "claimed" => \A j \in Job : ReminderOf(j) = r => status[j] = "absent"
        /\ \A j \in Job : ReminderOf(j) = r /\ QueuesFallback(j) =>
            /\ status[j] # "absent"
            /\ \A i \in Job : ReminderOf(i) = r /\ QueuesFallback(i) => i = j
            /\ MayStillQueue(j) => Cardinality(EmailRows(r)) <= Disruptions
        /\ Cardinality(EmailRows(r)) <= 1 + Disruptions

\* Disruptions are counted up by the step that is one.
LEMMA DisruptionStep ==
  ASSUME TypeOK, TypeOK', [Next]_vars
  PROVE  /\ Disruptions \in Nat /\ Disruptions' \in Nat
         /\ \/ budget' = budget /\ Disruptions' = Disruptions
            \/ Disrupt /\ Disruptions' = Disruptions + 1
<1>1. budget \in 0 .. MaxDisruptions /\ budget' \in 0 .. MaxDisruptions
  BY DEF TypeOK
<1>2. Disruptions \in Nat /\ Disruptions' \in Nat
  BY <1>1, DifferenceType, BoundAssumption DEF Disruptions
<1>3. budget' = budget => Disruptions' = Disruptions
  BY DEF Disruptions
<1>4. Disrupt => Disruptions' = Disruptions + 1
  BY <1>1, BoundAssumption DEF Disruptions, Disrupt
<1>5. QED
  BY <1>2, <1>3, <1>4, BudgetStep

\* A step that inserts no row, and lets no push job back, keeps the count.
LEMMA RequeueFrame ==
  ASSUME TypeOK, TypeOK', RequeueInv, [Next]_vars, fallback' = fallback,
         \A r \in Reminder : reminder'[r] # "claimed" => reminder[r] # "claimed",
         \A j \in Job : status'[j] = "absent" <=> status[j] = "absent",
         \A j \in Job : MayStillQueue(j)' => MayStillQueue(j)
  PROVE  RequeueInv'
<1> SUFFICES ASSUME NEW r \in Reminder
    PROVE  /\ reminder'[r] # "claimed" => \A j \in Job : ReminderOf(j) = r => status'[j] = "absent"
           /\ \A j \in Job : ReminderOf(j) = r /\ QueuesFallback(j)' =>
               /\ status'[j] # "absent"
               /\ \A i \in Job : ReminderOf(i) = r /\ QueuesFallback(i)' => i = j
               /\ MayStillQueue(j)' => Cardinality(EmailRows(r)') <= Disruptions'
           /\ Cardinality(EmailRows(r)') <= 1 + Disruptions'
  BY DEF RequeueInv
<1>1. EmailRows(r)' = EmailRows(r)
  BY DEF EmailRows
<1>2. \A j \in Job : QueuesFallback(j)' = QueuesFallback(j)
  BY DEF QueuesFallback
<1>3. PICK n \in Nat : n = Cardinality(EmailRows(r))
  BY EmailRowsFinite
<1>4. Disruptions \in Nat /\ Disruptions' \in Nat /\ Disruptions <= Disruptions'
  BY DisruptionStep
<1>5. Cardinality(EmailRows(r)') = n
  BY <1>1, <1>3
<1>6. n <= 1 + Disruptions'
  BY <1>3, <1>4 DEF RequeueInv
<1>7. ASSUME NEW j \in Job, ReminderOf(j) = r, QueuesFallback(j), MayStillQueue(j) PROVE n <= Disruptions'
  BY <1>3, <1>4, <1>7 DEF RequeueInv
<1>8. QED
  BY <1>2, <1>5, <1>6, <1>7 DEF RequeueInv

\* Claiming due reminders queues each of them one email at most.
LEMMA RequeueClaim ==
  ASSUME TypeOK, TypeOK', RequeueInv, [Next]_vars,
         NEW S \in SUBSET DueReminders, ClaimDueRows(S), claim' = claim, UNCHANGED <<prefs, device>>
  PROVE  RequeueInv'
<1> DEFINE new == UNION {{FreshJob(r, c) : c \in ChannelsFor(r)} : r \in S}
<1>1. ASSUME NEW r \in S, NEW c \in ChannelsFor(r)
      PROVE  /\ FreshJob(r, c) \in Job
             /\ ReminderOf(FreshJob(r, c)) = r /\ ChannelOf(FreshJob(r, c)) = c
  <2>1. CanQueue(r, c)
    BY DEF ClaimDueRows
  <2>2. QED
    BY <2>1, FreshJobType
<1>2. ASSUME NEW j \in new
      PROVE  ReminderOf(j) \in S /\ j = FreshJob(ReminderOf(j), ChannelOf(j))
             /\ ChannelOf(j) \in ChannelsFor(ReminderOf(j))
  BY <1>1
<1>3. /\ reminder' = [r \in Reminder |-> IF r \in S THEN "claimed" ELSE reminder[r]]
      /\ status' = [j \in Job |-> IF j \in new THEN "pending" ELSE status[j]]
      /\ fallback' = [j \in Job |-> IF j \in new
                                    THEN ChannelOf(j) = "push" /\ EmailDeferredToPush(ReminderOf(j))
                                    ELSE fallback[j]]
  BY DEF ClaimDueRows
<1> SUFFICES ASSUME NEW r \in Reminder
    PROVE  /\ reminder'[r] # "claimed" => \A j \in Job : ReminderOf(j) = r => status'[j] = "absent"
           /\ \A j \in Job : ReminderOf(j) = r /\ QueuesFallback(j)' =>
               /\ status'[j] # "absent"
               /\ \A i \in Job : ReminderOf(i) = r /\ QueuesFallback(i)' => i = j
               /\ MayStillQueue(j)' => Cardinality(EmailRows(r)') <= Disruptions'
           /\ Cardinality(EmailRows(r)') <= 1 + Disruptions'
  BY DEF RequeueInv
<1>4. Disruptions \in Nat /\ Disruptions' \in Nat /\ Disruptions <= Disruptions'
  BY DisruptionStep
<1> HIDE DEF new
<1>5. CASE r \notin S
  <2>1. \A j \in Job : ReminderOf(j) = r => j \notin new
    BY <1>2, <1>5
  <2>2. \A j \in Job : ReminderOf(j) = r => status'[j] = status[j] /\ fallback'[j] = fallback[j]
    BY <1>3, <2>1
  <2>3. EmailRows(r)' = EmailRows(r)
    BY <2>2 DEF EmailRows
  <2>4. \A j \in Job : ReminderOf(j) = r => QueuesFallback(j)' = QueuesFallback(j)
    BY <2>2 DEF QueuesFallback
  <2>5. \A j \in Job : ReminderOf(j) = r => MayStillQueue(j)' = MayStillQueue(j)
    BY <2>2, <2>4 DEF MayStillQueue, Holds
  <2>6. PICK n \in Nat : n = Cardinality(EmailRows(r))
    BY EmailRowsFinite
  <2>7. Cardinality(EmailRows(r)') = n
    BY <2>3, <2>6
  <2>8. n <= 1 + Disruptions'
    BY <2>6, <1>4 DEF RequeueInv
  <2>9. ASSUME NEW j \in Job, ReminderOf(j) = r, QueuesFallback(j), MayStillQueue(j) PROVE n <= Disruptions'
    BY <2>6, <2>9, <1>4 DEF RequeueInv
  <2>10. reminder'[r] = reminder[r]
    BY <1>3, <1>5
  <2>11. QED
    BY <2>2, <2>4, <2>5, <2>7, <2>8, <2>9, <2>10 DEF RequeueInv
<1>6. CASE r \in S
  <2>1. \A j \in Job : ReminderOf(j) = r => status[j] = "absent"
    BY <1>6 DEF RequeueInv, DueReminders
  <2>2. \A j \in Job : ReminderOf(j) = r => ~QueuesFallback(j)
    BY <2>1 DEF RequeueInv
  <2>3. reminder'[r] = "claimed"
    BY <1>3, <1>6
  <2>4. ASSUME NEW j \in Job, ReminderOf(j) = r, QueuesFallback(j)'
        PROVE  j \in new /\ ChannelOf(j) = "push" /\ EmailDeferredToPush(r)
    BY <1>3, <2>2, <2>4 DEF QueuesFallback
  <2>5. EmailRows(r)' \subseteq {FreshJob(r, "email")}
    BY <1>2, <1>3, <2>1 DEF EmailRows
  <2>6. EmailDeferredToPush(r) => EmailRows(r)' = {}
    <3>1. ASSUME EmailDeferredToPush(r), NEW j \in EmailRows(r)' PROVE FALSE
      <4>1. j \in Job /\ ReminderOf(j) = r /\ ChannelOf(j) = "email" /\ j \in new
        BY <1>3, <2>1 DEF EmailRows
      <4>2. "email" \in ChannelsFor(r)
        BY <4>1, <1>2
      <4>3. QED
        BY <3>1, <4>2 DEF ChannelsFor
    <3>2. QED
      BY <3>1
  <2>7. Cardinality(EmailRows(r)') <= 1 /\ (EmailDeferredToPush(r) => Cardinality(EmailRows(r)') = 0)
    <3>1. CASE EmailRows(r)' = {}
      BY <3>1, FS_EmptySet
    <3>2. CASE EmailRows(r)' = {FreshJob(r, "email")}
      <4>1. Cardinality(EmailRows(r)') = 1
        BY <3>2, FS_Singleton
      <4>2. ~EmailDeferredToPush(r)
        BY <2>6, <3>2
      <4>3. QED
        BY <4>1, <4>2
    <3>3. QED
      BY <2>5, <3>1, <3>2
  <2>8. ASSUME NEW j \in Job, ReminderOf(j) = r, QueuesFallback(j)'
        PROVE  /\ status'[j] # "absent"
               /\ Cardinality(EmailRows(r)') <= Disruptions'
               /\ \A i \in Job : ReminderOf(i) = r /\ QueuesFallback(i)' => i = j
    <3>1. j \in new /\ ChannelOf(j) = "push" /\ EmailDeferredToPush(r)
      BY <2>4, <2>8
    <3>2. status'[j] # "absent"
      BY <1>3, <3>1
    <3>3. Cardinality(EmailRows(r)') <= Disruptions'
      BY <1>4, <2>7, <3>1
    <3>4. ASSUME NEW i \in Job, ReminderOf(i) = r, QueuesFallback(i)' PROVE i = j
      BY <1>2, <2>4, <2>8, <3>1, <3>4
    <3>5. QED
      BY <3>2, <3>3, <3>4
  <2>9. Cardinality(EmailRows(r)') <= 1 + Disruptions'
    <3>1. PICK d \in Nat : d = Disruptions'
      BY <1>4
    <3>2. Cardinality(EmailRows(r)') \in {0, 1}
      <4>1. CASE EmailRows(r)' = {}
        BY <4>1, FS_EmptySet
      <4>2. CASE EmailRows(r)' = {FreshJob(r, "email")}
        BY <4>2, FS_Singleton
      <4>3. QED
        BY <2>5, <4>1, <4>2
    <3>3. PICK k \in {0, 1} : k = Cardinality(EmailRows(r)')
      BY <3>2
    <3>4. k <= 1 + d
      OBVIOUS
    <3>5. QED
      BY <3>1, <3>3, <3>4
  <2>10. QED
    BY <2>3, <2>8, <2>9
<1>7. QED
  BY <1>5, <1>6

\* A skip queues the email its push job stood in for; the job hands over for
\* good, or the step is a disruption.
LEMMA RequeueSkip ==
  ASSUME TypeOK, TypeOK', HandInv, LeaseExclusive, RequeueInv, [Next]_vars,
         NEW t \in Tick, Skip(t), SkipRows(cur[t])
  PROVE  RequeueInv'
<1>1. PICK p \in Job : p = cur[t] /\ Holds(t, p)
  BY DEF Skip, TypeOK, HandInv, Delivering
<1>2. /\ reminder' = reminder
      /\ \A s \in Tick : s # t => claim'[s] = claim[s]
      /\ \/ claim' = claim /\ Disrupt
         \/ ~Holds(t, p)' /\ \A j \in Job : Holds(t, j)' => Holds(t, j)
  <2>1. reminder' = reminder
    BY DEF Skip, rowVars
  <2>2. CASE NextJob(t)
    BY <1>1, <2>1, <2>2, NextJobHolds DEF Holds
  <2>3. CASE claim' = claim /\ Disrupt
    BY <2>1, <2>3
  <2>4. NextJob(t) \/ (claim' = claim /\ Disrupt)
    BY DEF Skip
  <2>5. QED
    BY <2>2, <2>3, <2>4
<1>3. \A s \in Tick : \A j \in Job : Holds(s, j)' => Holds(s, j)
  BY <1>2 DEF Holds
<1>4. CASE ~QueuesFallback(p)
  <2>1. \A j \in Job : status'[j] = (IF j = p THEN "skipped" ELSE status[j]) /\ fallback'[j] = fallback[j]
    BY <1>1, <1>4 DEF SkipRows
  <2>2. fallback' = fallback
    BY <2>1 DEF TypeOK
  <2>3. status[p] \in {"pending", "skipped"}
    BY <1>1 DEF HandInv
  <2>4. \A j \in Job : MayStillQueue(j)' => MayStillQueue(j)
    BY <1>3, <1>4, <2>1 DEF MayStillQueue, QueuesFallback
  <2>5. \A j \in Job : status'[j] = "absent" <=> status[j] = "absent"
    BY <2>1, <2>3
  <2>6. QED
    BY <1>2, <2>2, <2>4, <2>5, RequeueFrame
<1>5. CASE QueuesFallback(p)
  <2> DEFINE q == ReminderOf(p)
             n == FreshJob(q, "email")
  <2>0. q \in Reminder
    BY DEF ReminderOf, Job
  <2>1. CanQueue(q, "email")
    BY <1>1, <1>5 DEF SkipRows
  <2>2. /\ n \in Job /\ ReminderOf(n) = q /\ ChannelOf(n) = "email" /\ status[n] = "absent" /\ n # p
    BY <1>5, <2>1, FreshJobType DEF QueuesFallback
  <2>3. \A j \in Job : /\ status'[j] = (IF j = p THEN "skipped" ELSE IF j = n THEN "pending" ELSE status[j])
                       /\ fallback'[j] = (IF j = n THEN FALSE ELSE fallback[j])
    BY <1>1, <1>5 DEF SkipRows
  <2> HIDE DEF n
  <2>4. ~QueuesFallback(n) /\ status[p] # "absent"
    BY <1>1, <2>2 DEF QueuesFallback, HandInv
  <2>5. \A j \in Job : QueuesFallback(j)' = QueuesFallback(j)
    BY <2>2, <2>3 DEF QueuesFallback, TypeOK
  <2>6. \A j \in Job : j # p /\ MayStillQueue(j)' => MayStillQueue(j)
    BY <1>3, <2>3, <2>4, <2>5 DEF MayStillQueue
  <2>7. ASSUME NEW r \in Reminder, r # q PROVE EmailRows(r)' = EmailRows(r)
    BY <2>2, <2>3, <2>4, <2>7 DEF EmailRows
  <2>8. EmailRows(q)' = EmailRows(q) \cup {n}
    <3>1. ASSUME NEW j \in Job PROVE j \in EmailRows(q)' <=> j \in EmailRows(q) \/ j = n
      BY <2>2, <2>3, <2>4 DEF EmailRows
    <3>2. QED
      BY <3>1, <2>2 DEF EmailRows
  <2>9. n \notin EmailRows(q)
    BY <2>2 DEF EmailRows
  <2>10. PICK k \in Nat : k = Cardinality(EmailRows(q))
    BY <2>0, EmailRowsFinite
  <2>11. Cardinality(EmailRows(q)') = k + 1
    <3>1. IsFiniteSet(EmailRows(q))
      BY <2>0, EmailRowsFinite
    <3>2. QED
      BY <2>8, <2>9, <2>10, <3>1, FS_AddElement
  <2>12. Disruptions \in Nat /\ Disruptions' \in Nat /\ Disruptions <= Disruptions'
         /\ (Disrupt => Disruptions' = Disruptions + 1)
    <3>1. Disrupt => budget' # budget
      BY DEF Disrupt, TypeOK
    <3>2. QED
      BY <3>1, DisruptionStep
  <2>13. k <= Disruptions
    BY <1>1, <1>5, <2>0, <2>10 DEF RequeueInv, MayStillQueue
  <2>14. \A j \in Job : ReminderOf(j) = q /\ QueuesFallback(j) => j = p
    BY <1>5, <2>0 DEF RequeueInv
  <2>15. MayStillQueue(p)' => Disrupt
    <3>1. ASSUME NEW s \in Tick, Holds(s, p)' PROVE Disrupt
      <4>1. s = t
        BY <1>1, <1>3, <3>1 DEF LeaseExclusive
      <4>2. QED
        BY <1>2, <3>1, <4>1
    <3>2. status'[p] = "skipped"
      BY <2>3
    <3>3. QED
      BY <3>1, <3>2 DEF MayStillQueue
  <2> SUFFICES ASSUME NEW r \in Reminder
      PROVE  /\ reminder'[r] # "claimed" => \A j \in Job : ReminderOf(j) = r => status'[j] = "absent"
             /\ \A j \in Job : ReminderOf(j) = r /\ QueuesFallback(j)' =>
                 /\ status'[j] # "absent"
                 /\ \A i \in Job : ReminderOf(i) = r /\ QueuesFallback(i)' => i = j
                 /\ MayStillQueue(j)' => Cardinality(EmailRows(r)') <= Disruptions'
             /\ Cardinality(EmailRows(r)') <= 1 + Disruptions'
    BY DEF RequeueInv
  <2>16. CASE r = q
    <3>1. reminder'[r] = "claimed"
      BY <1>2, <2>0, <2>4, <2>16 DEF RequeueInv, TypeOK
    <3>2. Cardinality(EmailRows(r)') = k + 1
      BY <2>11, <2>16
    <3>3. k + 1 <= 1 + Disruptions'
      BY <2>10, <2>12, <2>13
    <3>4. MayStillQueue(p)' => k + 1 <= Disruptions'
      BY <2>10, <2>12, <2>13, <2>15
    <3>5. QED
      BY <2>3, <2>5, <2>14, <2>16, <3>1, <3>2, <3>3, <3>4
  <2>17. CASE r # q
    <3>1. PICK m \in Nat : m = Cardinality(EmailRows(r))
      BY EmailRowsFinite
    <3>2. Cardinality(EmailRows(r)') = m
      BY <2>7, <2>17, <3>1
    <3>3. m <= 1 + Disruptions'
      BY <2>12, <3>1 DEF RequeueInv
    <3>4. ASSUME NEW j \in Job, ReminderOf(j) = r, QueuesFallback(j), MayStillQueue(j) PROVE m <= Disruptions'
      BY <2>12, <3>1, <3>4 DEF RequeueInv
    <3>5. \A j \in Job : ReminderOf(j) = r => j # p /\ status'[j] = status[j]
      BY <2>2, <2>3, <2>17
    <3>6. QED
      BY <1>2, <2>5, <2>6, <3>2, <3>3, <3>4, <3>5 DEF RequeueInv
  <2>18. QED
    BY <2>16, <2>17
<1>6. QED
  BY <1>4, <1>5

\* Every step keeps the count of email rows.
LEMMA RequeueNext ==
  TypeOK /\ TypeOK' /\ HandInv /\ LeaseExclusive /\ RequeueInv /\ [Next]_vars => RequeueInv'
<1> SUFFICES ASSUME TypeOK, TypeOK', HandInv, LeaseExclusive, RequeueInv, [Next]_vars PROVE RequeueInv'
  OBVIOUS
<1>1. ASSUME fallback' = fallback, reminder' = reminder, status' = status,
             \A t \in Tick : \A j \in Job : Holds(t, j)' => Holds(t, j)
      PROVE  RequeueInv'
  BY <1>1, RequeueFrame DEF MayStillQueue, QueuesFallback
<1>2. ASSUME NEW r \in Reminder, BecomesDue(r) PROVE RequeueInv'
  <2>1. \A q \in Reminder : reminder'[q] # "claimed" => reminder[q] # "claimed"
    BY <1>2 DEF BecomesDue, TypeOK
  <2>2. QED
    BY <1>2, <2>1, RequeueFrame DEF BecomesDue, jobVars, tickVars, MayStillQueue, QueuesFallback, Holds
<1>3. ASSUME NEW t \in Tick, ClaimDue(t) PROVE RequeueInv'
  <2>1. CASE \E S \in SUBSET DueReminders : ClaimDueRows(S)
    BY <1>3, <2>1, RequeueClaim DEF ClaimDue
  <2>2. CASE UNCHANGED <<reminder, jobVars>>
    BY <1>1, <1>3, <2>2 DEF ClaimDue, jobVars, Holds
  <2>3. QED
    BY <1>3, <2>1, <2>2 DEF ClaimDue
<1>4. ASSUME NEW t \in Tick, ClaimPending(t) PROVE RequeueInv'
  <2>1. \A s \in Tick : \A j \in Job : Holds(s, j)' => Holds(s, j) \/ status[j] = "pending"
    <3>1. CASE claim' = claim
      BY <3>1 DEF Holds
    <3>2. ASSUME NEW S \in SUBSET {j \in Job : Claimable(j)},
                 claim' = [claim EXCEPT ![t] = [j \in Job |-> IF j \in S THEN attempts[j] + 1 ELSE 0]]
          PROVE  \A s \in Tick : \A j \in Job : Holds(s, j)' => Holds(s, j) \/ status[j] = "pending"
      BY <3>2 DEF Holds, Claimable, TypeOK
    <3>3. claim' = claim \/
          \E S \in SUBSET {j \in Job : Claimable(j)} :
            claim' = [claim EXCEPT ![t] = [j \in Job |-> IF j \in S THEN attempts[j] + 1 ELSE 0]]
      BY ONLY <1>4 DEF ClaimPending
    <3>4. QED
      BY <3>1, <3>2, <3>3
  <2>2. status' = status /\ fallback' = fallback /\ reminder' = reminder
    BY <1>4 DEF ClaimPending, rowVars
  <2>3. \A j \in Job : MayStillQueue(j)' => MayStillQueue(j)
    BY <2>1, <2>2 DEF MayStillQueue, QueuesFallback
  <2>4. QED
    BY <2>2, <2>3, RequeueFrame
<1>5. ASSUME NEW t \in Tick, MarkSent(t) \/ MarkFailed(t) PROVE RequeueInv'
  <2>1. PICK p \in Job : p = cur[t] /\ Holds(t, p)
    BY <1>5 DEF MarkSent, MarkFailed, TypeOK, HandInv, Delivering
  <2>2. status[p] # "absent"
    BY <2>1 DEF HandInv
  <2>3. fallback' = fallback /\ reminder' = reminder
    BY <1>5 DEF MarkSent, MarkFailed, rowVars
  <2>4. \A j \in Job : status'[j] = status[j] \/ (j = p /\ status'[j] \in {"sent", "pending"})
    BY <1>5, <2>1 DEF MarkSent, MarkFailed, TypeOK
  <2>5. NextJob(t)
    BY <1>5 DEF MarkSent, MarkFailed
  <2>6. \A s \in Tick : \A j \in Job : Holds(s, j)' => Holds(s, j)
    BY <2>1, <2>5, NextJobHolds DEF Holds
  <2>7. \A j \in Job : MayStillQueue(j)' => MayStillQueue(j)
    BY <2>1, <2>3, <2>4, <2>6 DEF MayStillQueue, QueuesFallback
  <2>8. \A j \in Job : status'[j] = "absent" <=> status[j] = "absent"
    BY <2>2, <2>4
  <2>9. QED
    BY <2>3, <2>7, <2>8, RequeueFrame
<1>6. ASSUME NEW t \in Tick, Skip(t) PROVE RequeueInv'
  <2>1. CASE SkipRows(cur[t])
    BY <1>6, <2>1, RequeueSkip
  <2>2. CASE UNCHANGED jobVars /\ UNCHANGED claim
    BY <1>1, <1>6, <2>2 DEF Skip, jobVars, rowVars, Holds
  <2>3. QED
    BY <1>6, <2>1, <2>2 DEF Skip
<1>7. ASSUME NEW T, DropTicks(T), UNCHANGED <<rowVars, jobVars>> PROVE RequeueInv'
  <2>1. \A s \in Tick : \A j \in Job : Holds(s, j)' => Holds(s, j)
    BY <1>7, DropTicksHolds DEF Holds
  <2>2. QED
    BY <1>1, <1>7, <2>1 DEF rowVars, jobVars
<1>8. CASE UNCHANGED <<reminder, status, fallback, claim>>
  BY <1>1, <1>8 DEF Holds
<1>9. CASE Account
  BY <1>2, <1>8, <1>9 DEF Account, DeleteEvent, RegisterDevice, UnregisterDevice, jobVars, tickVars
<1>10. ASSUME NEW t \in Tick, TickStep(t) PROVE RequeueInv'
  BY <1>3, <1>4, <1>5, <1>6, <1>8, <1>10
     DEF TickStep, EndTick, Dispatch, SendMail, SendToDevice, rowVars, jobVars
<1>11. CASE Process
  BY <1>7, <1>8, <1>11 DEF Process, Crash, Shutdown, Exit, Restart, rowVars, jobVars, tickVars
<1>12. CASE TimePasses \/ UNCHANGED vars
  BY <1>8, <1>12 DEF TimePasses, vars, rowVars, jobVars, tickVars
<1>13. ASSUME NEW t \in Tick, StartTick(t) \/ TickTimesOut(t) PROVE RequeueInv'
  BY <1>7, <1>8, <1>13 DEF StartTick, TickTimesOut, rowVars, jobVars
<1>14. QED
  BY <1>9, <1>10, <1>11, <1>12, <1>13 DEF Next

\* However often a push is skipped, put back and skipped again, its reminder
\* gets one email job, and one more per lost answer of a skip at most.
THEOREM OnlyDisruptionsRequeueAlways == Spec => []OnlyDisruptionsRequeue
<1> DEFINE I == TypeOK /\ HandInv /\ LeaseExclusive /\ RequeueInv
<1>1. Init => I
  <2>1. ASSUME Init PROVE RequeueInv
    <3>1. \A r \in Reminder : EmailRows(r) = {}
      BY <2>1 DEF Init, EmailRows
    <3>2. Disruptions = 0
      BY <2>1, BoundAssumption DEF Init, Disruptions
    <3>3. Cardinality({}) = 0
      BY FS_EmptySet
    <3>4. \A j \in Job : ~QueuesFallback(j) /\ status[j] = "absent"
      BY <2>1 DEF Init, QueuesFallback
    <3>5. QED
      BY <3>1, <3>2, <3>3, <3>4 DEF RequeueInv
  <2>2. QED
    BY <2>1, TypeInit, HandInit
<1>2. I /\ [Next]_vars => I'
  BY TypeNext, HandNext, RequeueNext
<1>3. I => OnlyDisruptionsRequeue
  BY DEF RequeueInv, OnlyDisruptionsRequeue
<1>4. QED
  BY <1>1, <1>2, <1>3, PTL DEF Spec
=============================================================================
