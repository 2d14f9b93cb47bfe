--------------------------- MODULE BackgroundProofs ---------------------------
(***************************************************************************)
(* Proofs about what the backend runs for its user.  TaskQueue, for any    *)
(* tasks, workers, users and limits: retries, cancellations and the        *)
(* recorded outcomes.  PluginLifecycle, concurrent requests and later      *)
(* builds included: only a handler that was verified is run and a request  *)
(* id has one answer; one request at a time, what is enabled was verified  *)
(* and an update plan is applied once.                                     *)
(***************************************************************************)
EXTENDS MCBackground, FiniteSetTheorems, WellFoundedInduction, TLAPS

-----------------------------------------------------------------------------
(* TaskQueue. *)
Leased == {"run", "complete", "fail"}

(* A task without a row has version 0, and no thread works on it. *)
RowExists ==
    /\ \A t \in Task : queue[t].status = "absent" => queue[t].version = 0
    /\ \A w \in Worker : phase[w] # "idle" => queue[task[w]].status # "absent"

(* A lease is no newer than its task's row, and while it is as new the limit
   of attempts it carries is the row's. *)
LeaseIsHonest ==
    \A w \in Worker : phase[w] \in Leased =>
        /\ lease[w].version <= queue[task[w]].version
        /\ lease[w].version = queue[task[w]].version =>
               lease[w].max_attempts = queue[task[w]].max_attempts

(* The version under which a task completed is past or the row is completed. *)
CompletedVersionIsClosed ==
    \A a \in attempts : a.status = "completed" =>
        /\ a.version <= queue[a.task].version
        /\ a.version = queue[a.task].version => queue[a.task].status = "completed"

(* The inductive invariant. *)
IInv ==
    /\ TypeOK
    /\ RowExists
    /\ LeaseIsHonest
    /\ CompletedVersionIsClosed
    /\ CompletedOncePerVersion
    /\ OutcomeIsRecorded
    /\ RetriesAreBounded

-----------------------------------------------------------------------------
(* The updates of a queue row keep its type. *)
LEMMA RowUpdates ==
    ASSUME NEW r \in Row, NEW s \in Status, NEW n \in Nat, NEW m \in Nat, NEW b \in BOOLEAN
    PROVE  /\ [r EXCEPT !.status = s, !.current_attempt = n] \in Row
           /\ [r EXCEPT !.status = s, !.due = b] \in Row
           /\ [r EXCEPT !.status = s, !.version = n] \in Row
           /\ [r EXCEPT !.status = s, !.version = n, !.max_attempts = m, !.due = b] \in Row
BY DEF Row

LEMMA FieldUpdates ==
    ASSUME NEW r \in Row
    PROVE  /\ [r EXCEPT !.due = TRUE] \in Row
           /\ [r EXCEPT !.status = "completed"] \in Row
BY DEF Row, Status, Stopped

(* Every step keeps the types of the tables and of the threads. *)
LEMMA Typing ==
    ASSUME TypeOK, [Next]_vars
    PROVE  TypeOK'
<1> USE DEF TypeOK
<1>1. ASSUME NEW t \in Task, Enqueue(t) PROVE TypeOK'
  <2>1. PICK n \in Limit : queue' = [queue EXCEPT ![t] =
            [status |-> "pending", current_attempt |-> 0, max_attempts |-> n,
             version |-> 1, due |-> TRUE]]
    BY <1>1 DEF Enqueue
  <2>2. queue' \in [Task -> Row]
    BY <2>1, LimitAssumption DEF Row, Status, Claimable, Stopped
  <2>3. events' \subseteq Event
    BY <1>1 DEF Enqueue, Log, Event
  <2> QED
    BY <1>1, <2>2, <2>3 DEF Enqueue, workerVars, userVars
<1>2. ASSUME NEW t \in Task, BecomeDue(t) PROVE TypeOK'
  <2> DEFINE new == [queue[t] EXCEPT !.due = TRUE]
  <2>2. new \in Row
    BY FieldUpdates
  <2>3. queue' = [queue EXCEPT ![t] = new]
    BY <1>2 DEF BecomeDue
  <2> HIDE DEF new
  <2>1. queue' \in [Task -> Row]
    BY <2>2, <2>3
  <2> QED
    BY <1>2, <2>1 DEF BecomeDue, workerVars, userVars
<1>3. ASSUME NEW w \in Worker, Select(w) PROVE TypeOK'
  BY <1>3 DEF Select, userVars
<1>4. ASSUME NEW w \in Worker, Claim(w) PROVE TypeOK'
  <2>1. queue' \in [Task -> Row]
    <3> DEFINE new == [queue[task[w]] EXCEPT !.status = "processing",
                          !.current_attempt = row[w].current_attempt + 1]
    <3> queue[task[w]] \in Row /\ row[w].current_attempt + 1 \in Nat
      BY DEF Row
    <3>1. new \in Row
      BY RowUpdates DEF Status
    <3>2. queue' = queue \/ queue' = [queue EXCEPT ![task[w]] = new]
      BY <1>4 DEF Claim
    <3> QED
      BY <3>1, <3>2
  <2>2. events' \subseteq Event
    BY <1>4 DEF Claim, Log, Event, Row
  <2>3. phase' \in [Worker -> {"idle", "claim", "claimed", "run", "complete", "fail"}]
    BY <1>4 DEF Claim
  <2> QED
    BY <1>4, <2>1, <2>2, <2>3 DEF Claim, userVars
<1>5. ASSUME NEW w \in Worker, ReadBack(w) PROVE TypeOK'
  <2>1. lease' \in [Worker -> Lease]
    BY <1>5 DEF ReadBack, Lease, Row
  <2> QED
    BY <1>5, <2>1 DEF ReadBack, userVars
<1>6. ASSUME NEW w \in Worker, Handle(w) PROVE TypeOK'
  BY <1>6 DEF Handle, userVars
<1>7. ASSUME NEW w \in Worker, Complete(w) PROVE TypeOK'
  <2>1. queue' \in [Task -> Row]
    <3> DEFINE new == [queue[task[w]] EXCEPT !.status = "completed"]
    <3> queue[task[w]] \in Row
      OBVIOUS
    <3>1. new \in Row
      BY FieldUpdates
    <3>2. queue' = queue \/ queue' = [queue EXCEPT ![task[w]] = new]
      BY <1>7 DEF Complete
    <3> HIDE DEF new
    <3> QED
      BY <3>1, <3>2
  <2>2. attempts' \subseteq Attempt
    BY <1>7 DEF Complete, Record, Attempt, Lease
  <2>3. events' \subseteq Event
    BY <1>7 DEF Complete, Log, Event, Lease
  <2>4. phase' \in [Worker -> {"idle", "claim", "claimed", "run", "complete", "fail"}]
    BY <1>7 DEF Complete
  <2> QED
    BY <1>7, <2>1, <2>2, <2>3, <2>4 DEF Complete, userVars
<1>8. ASSUME NEW w \in Worker, Fail(w) PROVE TypeOK'
  <2>1. FailedStatus(w) \in Status /\ (~MayRetry(w)) \in BOOLEAN
    BY DEF FailedStatus, Status, Stopped, Claimable
  <2>2. queue' \in [Task -> Row]
    <3> DEFINE new == [queue[task[w]] EXCEPT !.status = FailedStatus(w),
                                             !.due = ~MayRetry(w)]
    <3> queue[task[w]] \in Row
      OBVIOUS
    <3>1. new \in Row
      BY <2>1, RowUpdates
    <3>2. queue' = queue \/ queue' = [queue EXCEPT ![task[w]] = new]
      BY <1>8 DEF Fail
    <3> QED
      BY <3>1, <3>2
  <2>3. attempts' \subseteq Attempt
    BY <1>8 DEF Fail, Record, Attempt, Lease
  <2>4. events' \subseteq Event
    BY <1>8 DEF Fail, Log, Event, Lease
  <2> QED
    BY <1>8, <2>2, <2>3, <2>4 DEF Fail, userVars
<1>9. ASSUME NEW u \in User, Request(u) PROVE TypeOK'
  BY <1>9 DEF Request, workerVars
<1>10. ASSUME NEW u \in User, Cancel(u) PROVE TypeOK'
  <2>1. queue' \in [Task -> Row]
    <3> DEFINE new == [queue[subject[u]] EXCEPT !.status = "cancelled",
                                                !.version = queue[subject[u]].version + 1]
    <3> queue[subject[u]] \in Row /\ queue[subject[u]].version + 1 \in Nat
      BY DEF Row
    <3>1. new \in Row
      BY RowUpdates DEF Status, Stopped
    <3>2. queue' = queue \/ queue' = [queue EXCEPT ![subject[u]] = new]
      BY <1>10 DEF Cancel
    <3> HIDE DEF new
    <3> QED
      BY <3>1, <3>2
  <2>2. attempts' \subseteq Attempt
    BY <1>10 DEF Cancel, Record, Attempt, Row
  <2>3. events' \subseteq Event
    BY <1>10 DEF Cancel, Log, Event, Row
  <2> QED
    BY <1>10, <2>1, <2>2, <2>3 DEF Cancel, workerVars
<1>11. ASSUME NEW u \in User, Requeue(u) PROVE TypeOK'
  <2>1. NewLimit(u) \in Nat
    BY DEF NewLimit, Row
  <2>2. queue' \in [Task -> Row]
    <3> DEFINE new == [queue[subject[u]] EXCEPT !.status = "pending",
                         !.version = queue[subject[u]].version + 1,
                         !.max_attempts = NewLimit(u), !.due = TRUE]
    <3> queue[subject[u]] \in Row /\ queue[subject[u]].version + 1 \in Nat
      BY DEF Row
    <3>1. new \in Row
      BY <2>1, RowUpdates DEF Status, Claimable
    <3>2. queue' = [queue EXCEPT ![subject[u]] = new]
      BY <1>11 DEF Requeue
    <3> HIDE DEF new
    <3> QED
      BY <3>1, <3>2
  <2>3. events' \subseteq Event
    BY <1>11 DEF Requeue, Log, Event, Row
  <2> QED
    BY <1>11, <2>2, <2>3 DEF Requeue, workerVars
<1>12. ASSUME LockTimeout \/ Crash PROVE TypeOK'
  BY <1>12 DEF LockTimeout, Crash, userVars, workerVars
<1>13. ASSUME UNCHANGED vars PROVE TypeOK'
  BY <1>13 DEF vars, workerVars, userVars
<1> QED
  BY <1>1, <1>2, <1>3, <1>4, <1>5, <1>6, <1>7, <1>8, <1>9, <1>10, <1>11, <1>12, <1>13
     DEF Next, Calm, Work

-----------------------------------------------------------------------------
(* What a step may do to the row of a task: nothing, or one of the updates of
   the code. *)
Kept(t)      == queue'[t] = queue[t]
Created(t)   == /\ queue[t].status = "absent"
                /\ queue'[t].status = "pending" /\ queue'[t].version = 1
Delayed(t)   == /\ queue[t].status \in Claimable
                /\ queue'[t] = [queue[t] EXCEPT !.due = TRUE]
Started(t)   == /\ queue[t].status \in Claimable
                /\ queue'[t].status = "processing"
                /\ queue'[t].version = queue[t].version
                /\ queue'[t].max_attempts = queue[t].max_attempts
Finished(t)  == \E w \in Worker :
                /\ phase[w] = "complete" /\ task[w] = t /\ Holds(w)
                /\ queue'[t] = [queue[t] EXCEPT !.status = "completed"]
                /\ Record(t, lease[w].attempt, lease[w].version, "completed")
GaveUp(t)    == \E w \in Worker :
                /\ phase[w] = "fail" /\ task[w] = t /\ Holds(w)
                /\ queue'[t] = [queue[t] EXCEPT !.status = FailedStatus(w),
                                                !.due = ~MayRetry(w)]
                /\ Record(t, lease[w].attempt, lease[w].version, "failed")
Requested(t) == /\ queue'[t].status \in {"cancelled", "pending"}
                /\ queue'[t].version = queue[t].version + 1

LEMMA RowStep ==
    ASSUME TypeOK, [Next]_vars, NEW t \in Task
    PROVE  \/ Kept(t) \/ Created(t) \/ Delayed(t) \/ Started(t)
           \/ Finished(t) \/ GaveUp(t) \/ Requested(t)
<1> USE DEF TypeOK
<1>1. ASSUME NEW s \in Task, Enqueue(s) PROVE Kept(t) \/ Created(t)
  BY <1>1 DEF Enqueue, Kept, Created
<1>2. ASSUME NEW s \in Task, BecomeDue(s) PROVE Kept(t) \/ Delayed(t)
  BY <1>2 DEF BecomeDue, Kept, Delayed
<1>3. ASSUME NEW w \in Worker, Claim(w) PROVE Kept(t) \/ Started(t)
  <2>1. CASE UNCHANGED queue
    BY <2>1 DEF Kept
  <2>2. CASE /\ StillClaimable(w)
             /\ queue' = [queue EXCEPT ![task[w]] =
                    [@ EXCEPT !.status = "processing",
                              !.current_attempt = row[w].current_attempt + 1]]
    <3>1. queue[t] \in Row /\ task[w] \in Task
      OBVIOUS
    <3>2. CASE t # task[w]
      BY <2>2, <3>2 DEF Kept
    <3>3. CASE t = task[w]
      <4>1. queue'[t] = [queue[t] EXCEPT !.status = "processing",
                            !.current_attempt = row[w].current_attempt + 1]
        BY <2>2, <3>1, <3>3
      <4> QED
        BY <2>2, <3>1, <3>3, <4>1 DEF StillClaimable, Started, Row
    <3> QED
      BY <3>2, <3>3
  <2> QED
    BY <1>3, <2>1, <2>2 DEF Claim
<1>4. ASSUME NEW w \in Worker, Complete(w) PROVE Kept(t) \/ Finished(t)
  BY <1>4 DEF Complete, Kept, Finished
<1>5. ASSUME NEW w \in Worker, Fail(w) PROVE Kept(t) \/ GaveUp(t)
  BY <1>5, ZenonT(60) DEF Fail, Kept, GaveUp
<1>6. ASSUME NEW u \in User, Cancel(u) PROVE Kept(t) \/ Requested(t)
  <2>1. CASE UNCHANGED queue
    BY <2>1 DEF Kept
  <2>2. CASE queue' = [queue EXCEPT ![subject[u]] =
                [@ EXCEPT !.status = "cancelled", !.version = queue[subject[u]].version + 1]]
    BY <2>2 DEF Kept, Requested, Row
  <2> QED
    BY <1>6, <2>1, <2>2 DEF Cancel
<1>7. ASSUME NEW u \in User, Requeue(u) PROVE Kept(t) \/ Requested(t)
  BY <1>7 DEF Requeue, Kept, Requested, Row
<1>8. ASSUME UNCHANGED queue PROVE Kept(t)
  BY <1>8 DEF Kept
<1> QED
  BY <1>1, <1>2, <1>3, <1>4, <1>5, <1>6, <1>7, <1>8
     DEF Next, Calm, Work, Select, ReadBack, Handle, Request, LockTimeout, Crash, vars

(* The version of a row never falls, and only a request raises it: until then
   the limit of attempts stays, and so does a completed row. *)
LEMMA RowIsMonotone ==
    ASSUME TypeOK, RowExists, [Next]_vars, NEW t \in Task
    PROVE  /\ queue'[t].version >= queue[t].version
           /\ queue[t].status # "absent" => queue'[t].status # "absent"
           /\ queue'[t].status = "absent" => queue'[t] = queue[t]
           /\ queue'[t].version = queue[t].version =>
                /\ queue'[t].max_attempts = queue[t].max_attempts
                /\ queue[t].status = "completed" => queue'[t] = queue[t]
<1>1. queue[t] \in Row /\ queue[t].version \in Nat
  BY DEF TypeOK, Row
<1>2. CASE Kept(t)
  BY <1>1, <1>2 DEF Kept
<1>3. CASE Created(t)
  BY <1>1, <1>3 DEF Created, RowExists
<1>4. CASE Delayed(t)
  BY <1>1, <1>4 DEF Delayed, Claimable, Row
<1>5. CASE Started(t)
  BY <1>1, <1>5 DEF Started, Claimable
<1>6. CASE Finished(t)
  BY <1>1, <1>6 DEF Finished, Holds, Row
<1>7. CASE GaveUp(t)
  BY <1>1, <1>7 DEF GaveUp, Holds, Row, FailedStatus
<1>8. CASE Requested(t)
  BY <1>1, <1>8 DEF Requested
<1> QED
  BY <1>2, <1>3, <1>4, <1>5, <1>6, <1>7, <1>8, RowStep

(* A worker in a phase that holds a lease has just read it back, or held the
   same lease before. *)
LEMMA LeaseStep ==
    ASSUME TypeOK, [Next]_vars, NEW w \in Worker
    PROVE  /\ phase'[w] \in Leased =>
                \/ ReadBack(w)
                \/ phase[w] \in Leased /\ lease'[w] = lease[w] /\ task'[w] = task[w]
           /\ phase'[w] # "idle" =>
                \/ UNCHANGED queue /\ queue[task'[w]].status # "absent"
                \/ phase[w] # "idle" /\ task'[w] = task[w]
<1> QED
  BY ZenonT(60)
     DEF TypeOK, Leased, Next, Calm, Work, Enqueue, BecomeDue, Select, Claim, ReadBack, Handle,
         Complete, Fail, Request, Cancel, Requeue, LockTimeout, Crash, vars, workerVars, userVars,
         Claimable

(* Rows of task_attempt are only added, and a completed one only by complete
   under a lease that still holds. *)
LEMMA AttemptStep ==
    ASSUME TypeOK, [Next]_vars
    PROVE  /\ attempts \subseteq attempts'
           /\ \A a \in attempts' : a.status = "completed" =>
                \/ a \in attempts
                \/ \E w \in Worker :
                    /\ Holds(w)
                    /\ a = [task |-> task[w], attempt |-> lease[w].attempt,
                            version |-> lease[w].version, status |-> "completed"]
                    /\ queue' = [queue EXCEPT ![task[w]].status = "completed"]
                    /\ attempts' = attempts \cup {a}
<1>1. ASSUME NEW w \in Worker, Complete(w)
      PROVE  \/ UNCHANGED attempts
             \/ /\ Holds(w)
                /\ queue' = [queue EXCEPT ![task[w]].status = "completed"]
                /\ Record(task[w], lease[w].attempt, lease[w].version, "completed")
  BY <1>1 DEF Complete
<1>2. ASSUME NEW w \in Worker, Fail(w)
      PROVE  \/ UNCHANGED attempts
             \/ Record(task[w], lease[w].attempt, lease[w].version, "failed")
  BY <1>2 DEF Fail
<1>3. ASSUME NEW u \in User, Cancel(u)
      PROVE  \/ UNCHANGED attempts
             \/ Record(subject[u], found[u].current_attempt, found[u].version, "cancelled")
  BY <1>3 DEF Cancel
<1>4. \/ UNCHANGED attempts
      \/ \E w \in Worker : Complete(w) \/ Fail(w)
      \/ \E u \in User : Cancel(u)
  BY DEF Next, Calm, Work, Enqueue, BecomeDue, Select, Claim, ReadBack, Handle, Request,
         Requeue, LockTimeout, Crash, vars
<1>5. CASE UNCHANGED attempts
  BY <1>5
<1>6. ASSUME NEW w \in Worker, Complete(w), ~UNCHANGED attempts
      PROVE  /\ Holds(w)
             /\ queue' = [queue EXCEPT ![task[w]].status = "completed"]
             /\ attempts' = attempts \cup
                    {[task |-> task[w], attempt |-> lease[w].attempt,
                      version |-> lease[w].version, status |-> "completed"]}
  BY <1>1, <1>6 DEF Record
<1>7. CASE \E w \in Worker : Complete(w)
  BY <1>5, <1>6, <1>7
<1>8. ASSUME NEW t, NEW n, NEW v, Record(t, n, v, "failed") \/ Record(t, n, v, "cancelled")
      PROVE  /\ attempts \subseteq attempts'
             /\ \A a \in attempts' : a.status = "completed" => a \in attempts
  BY <1>8 DEF Record
<1>9. CASE (\E w \in Worker : Fail(w)) \/ (\E u \in User : Cancel(u))
  BY <1>2, <1>3, <1>5, <1>8, <1>9
<1> QED
  BY <1>4, <1>5, <1>7, <1>9

-----------------------------------------------------------------------------
(* What the rows, the leases and the attempts promise each other is kept by
   every step. *)
LEMMA Invariant ==
    ASSUME IInv, [Next]_vars
    PROVE  IInv'
<1>0. TypeOK /\ TypeOK' /\ RowExists
  BY Typing DEF IInv
<1>1. RowExists'
  <2>1. ASSUME NEW t \in Task, queue'[t].status = "absent" PROVE queue'[t].version = 0
    BY <1>0, <2>1, RowIsMonotone DEF RowExists
  <2>2. ASSUME NEW w \in Worker, phase'[w] # "idle"
        PROVE  queue'[task'[w]].status # "absent"
    <3>1. task'[w] \in Task
      BY <1>0 DEF TypeOK
    <3> QED
      BY <1>0, <2>2, <3>1, LeaseStep, RowIsMonotone DEF RowExists
  <2> QED
    BY <2>1, <2>2 DEF RowExists
<1>2. LeaseIsHonest'
  <2> SUFFICES ASSUME NEW w \in Worker, phase'[w] \in Leased
               PROVE  /\ lease'[w].version <= queue'[task'[w]].version
                      /\ lease'[w].version = queue'[task'[w]].version =>
                            lease'[w].max_attempts = queue'[task'[w]].max_attempts
    BY DEF LeaseIsHonest
  <2>1. CASE ReadBack(w)
    BY <1>0, <2>1 DEF ReadBack, TypeOK, Row
  <2>2. CASE phase[w] \in Leased /\ lease'[w] = lease[w] /\ task'[w] = task[w]
    <3>1. /\ lease[w].version <= queue[task[w]].version
          /\ lease[w].version = queue[task[w]].version =>
                lease[w].max_attempts = queue[task[w]].max_attempts
      BY <2>2 DEF IInv, LeaseIsHonest
    <3>2. /\ task[w] \in Task /\ lease[w].version \in Nat
          /\ queue[task[w]].version \in Nat /\ queue'[task[w]].version \in Nat
      BY <1>0 DEF TypeOK, Row, Lease
    <3>3. /\ queue'[task[w]].version >= queue[task[w]].version
          /\ queue'[task[w]].version = queue[task[w]].version =>
                queue'[task[w]].max_attempts = queue[task[w]].max_attempts
      BY <1>0, <3>2, RowIsMonotone
    <3> QED
      BY <2>2, <3>1, <3>2, <3>3
  <2> QED
    BY <1>0, <2>1, <2>2, LeaseStep
<1>3. CompletedVersionIsClosed'
  <2> SUFFICES ASSUME NEW a \in attempts', a.status = "completed"
               PROVE  /\ a.version <= queue'[a.task].version
                      /\ a.version = queue'[a.task].version =>
                            queue'[a.task].status = "completed"
    BY DEF CompletedVersionIsClosed
  <2>1. /\ a.task \in Task /\ a.version \in Nat
        /\ queue[a.task].version \in Nat /\ queue'[a.task].version \in Nat
    BY <1>0 DEF TypeOK, Attempt, Row
  <2>2. CASE a \in attempts
    <3>1. /\ a.version <= queue[a.task].version
          /\ a.version = queue[a.task].version => queue[a.task].status = "completed"
      BY <2>2 DEF IInv, CompletedVersionIsClosed
    <3>2. /\ queue'[a.task].version >= queue[a.task].version
          /\ queue'[a.task].version = queue[a.task].version =>
                (queue[a.task].status = "completed" => queue'[a.task] = queue[a.task])
      BY <1>0, <2>1, RowIsMonotone
    <3> QED
      BY <2>1, <3>1, <3>2
  <2>3. CASE \E w \in Worker :
                /\ Holds(w)
                /\ a = [task |-> task[w], attempt |-> lease[w].attempt,
                        version |-> lease[w].version, status |-> "completed"]
                /\ queue' = [queue EXCEPT ![task[w]].status = "completed"]
    BY <1>0, <2>1, <2>3 DEF Holds, TypeOK, Row
  <2> QED
    BY <1>0, <2>2, <2>3, AttemptStep
<1>4. CompletedOncePerVersion'
  <2> SUFFICES ASSUME NEW a \in attempts', NEW b \in attempts',
                      a.status = "completed", b.status = "completed",
                      a.task = b.task, a.version = b.version
               PROVE  a = b
    BY DEF CompletedOncePerVersion
  <2>1. CASE a \in attempts /\ b \in attempts
    BY <2>1 DEF IInv, CompletedOncePerVersion
  <2>2. ASSUME NEW c \in attempts, c.status = "completed",
               NEW w \in Worker, Holds(w), c.task = task[w], c.version = lease[w].version
        PROVE  FALSE
    BY <2>2 DEF IInv, CompletedVersionIsClosed, Holds
  <2>3. CASE a \notin attempts
    <3>1. PICK w \in Worker :
            /\ Holds(w)
            /\ a = [task |-> task[w], attempt |-> lease[w].attempt,
                    version |-> lease[w].version, status |-> "completed"]
            /\ attempts' = attempts \cup {a}
      BY <1>0, <2>3, AttemptStep
    <3> QED
      BY <2>2, <3>1
  <2>4. CASE b \notin attempts
    <3>1. PICK w \in Worker :
            /\ Holds(w)
            /\ b = [task |-> task[w], attempt |-> lease[w].attempt,
                    version |-> lease[w].version, status |-> "completed"]
            /\ attempts' = attempts \cup {b}
      BY <1>0, <2>4, AttemptStep
    <3> QED
      BY <2>2, <3>1
  <2> QED
    BY <2>1, <2>3, <2>4
<1>5. OutcomeIsRecorded'
  <2> SUFFICES ASSUME NEW t \in Task
               PROVE  /\ queue'[t].status = "completed" => Recorded(t, "completed")'
                      /\ queue'[t].status \in {"retrying", "dead_letter"} =>
                            Recorded(t, "failed")'
    BY DEF OutcomeIsRecorded
  <2>1. queue[t] \in Row /\ attempts \subseteq attempts'
    BY <1>0, AttemptStep DEF TypeOK
  <2>2. /\ queue[t].status = "completed" => Recorded(t, "completed")
        /\ queue[t].status \in {"retrying", "dead_letter"} => Recorded(t, "failed")
    BY DEF IInv, OutcomeIsRecorded
  <2>3. CASE Kept(t) \/ Delayed(t)
    BY <2>1, <2>2, <2>3 DEF Kept, Delayed, Recorded, Row
  <2>4. CASE Created(t) \/ Started(t) \/ Requested(t)
    BY <2>4 DEF Created, Started, Requested
  <2>5. CASE Finished(t)
    BY <2>1, <2>5 DEF Finished, Holds, Record, Recorded, Row
  <2>6. CASE GaveUp(t)
    BY <2>1, <2>6 DEF GaveUp, Holds, Record, Recorded, Row, FailedStatus
  <2> QED
    BY <1>0, <2>3, <2>4, <2>5, <2>6, RowStep
<1>6. RetriesAreBounded'
  <2> SUFFICES ASSUME NEW t \in Task
               PROVE  /\ queue'[t].status = "retrying" =>
                            queue'[t].current_attempt < queue'[t].max_attempts
                      /\ queue'[t].status = "dead_letter" =>
                            queue'[t].current_attempt >= queue'[t].max_attempts
    BY DEF RetriesAreBounded
  <2>1. queue[t] \in Row
    BY <1>0 DEF TypeOK
  <2>2. /\ queue[t].status = "retrying" =>
             queue[t].current_attempt < queue[t].max_attempts
        /\ queue[t].status = "dead_letter" =>
             queue[t].current_attempt >= queue[t].max_attempts
    BY DEF IInv, RetriesAreBounded
  <2>3. CASE Kept(t) \/ Delayed(t)
    BY <2>1, <2>2, <2>3 DEF Kept, Delayed, Row
  <2>4. CASE Created(t) \/ Started(t) \/ Requested(t)
    BY <2>4 DEF Created, Started, Requested
  <2>5. CASE Finished(t)
    BY <2>1, <2>5 DEF Finished, Row
  <2>6. CASE GaveUp(t)
    <3>1. PICK w \in Worker :
            /\ phase[w] = "fail" /\ task[w] = t /\ Holds(w)
            /\ queue'[t] = [queue[t] EXCEPT !.status = FailedStatus(w), !.due = ~MayRetry(w)]
      BY <2>6 DEF GaveUp
    <3>2. /\ lease[w].attempt = queue[t].current_attempt
          /\ lease[w].max_attempts = queue[t].max_attempts
      BY <3>1 DEF Holds, IInv, LeaseIsHonest, Leased
    <3>3. /\ queue'[t].status = FailedStatus(w)
          /\ queue'[t].current_attempt = queue[t].current_attempt
          /\ queue'[t].max_attempts = queue[t].max_attempts
      BY <2>1, <3>1 DEF Row
    <3> QED
      BY <2>1, <3>2, <3>3 DEF FailedStatus, MayRetry, Row
  <2> QED
    BY <1>0, <2>3, <2>4, <2>5, <2>6, RowStep
<1> QED
  BY <1>0, <1>1, <1>2, <1>3, <1>4, <1>5, <1>6 DEF IInv

LEMMA InitialInvariant ==
    ASSUME Init
    PROVE  IInv
<1>1. IInv
  <2>1. (CHOOSE t \in Task : TRUE) \in Task
    BY TaskAssumption
  <2>2. NoRow \in Row /\ NoLease \in Lease
    BY DEF NoRow, NoLease, Row, Lease, Status
  <2>3. TypeOK
    BY <2>1, <2>2 DEF Init, TypeOK
  <2>4. RowExists
    BY DEF Init, RowExists, NoRow
  <2>5. LeaseIsHonest /\ CompletedVersionIsClosed /\ CompletedOncePerVersion
    BY DEF Init, LeaseIsHonest, Leased, CompletedVersionIsClosed, CompletedOncePerVersion
  <2>6. OutcomeIsRecorded /\ RetriesAreBounded
    BY DEF Init, OutcomeIsRecorded, RetriesAreBounded, NoRow
  <2> QED
    BY <2>3, <2>4, <2>5, <2>6 DEF IInv
<1> QED
  BY <1>1

THEOREM Invariance == Spec => []IInv
<1>1. Init => IInv
  BY InitialInvariant
<1>2. IInv /\ [Next]_vars => IInv'
  BY Invariant
<1> QED
  BY <1>1, <1>2, PTL DEF Spec

(* The tables and the threads keep their types. *)
THEOREM TypeCorrect == Spec => []TypeOK
<1>1. IInv => TypeOK
  BY DEF IInv
<1> QED
  BY <1>1, Invariance, PTL

(* The queue retries by itself only while attempts are left, and gives up only
   when there are none, even though fail decides from the limit its worker
   read when it claimed. *)
THEOREM RetriesBounded == Spec => []RetriesAreBounded
<1>1. IInv => RetriesAreBounded
  BY DEF IInv
<1> QED
  BY <1>1, Invariance, PTL

(* A row that shows an outcome has the task_attempt row of that outcome. *)
THEOREM OutcomesRecorded == Spec => []OutcomeIsRecorded
<1>1. IInv => OutcomeIsRecorded
  BY DEF IInv
<1> QED
  BY <1>1, Invariance, PTL

(* However many workers run a task, under one version it completes once. *)
THEOREM CompletedOnce == Spec => []CompletedOncePerVersion
<1>1. IInv => CompletedOncePerVersion
  BY DEF IInv
<1> QED
  BY <1>1, Invariance, PTL

(* No late claim, completion or failure touches a cancelled task. *)
THEOREM CancelledStays == Spec => CancelledIsLeftAlone
<1>1. ASSUME TypeOK, [Next]_vars, NEW t \in Task,
             queue[t].status = "cancelled", queue'[t] # queue[t]
      PROVE  /\ queue'[t].version > queue[t].version
             /\ queue'[t].status \in {"pending", "cancelled"}
  <2>1. queue[t].version \in Nat
    BY <1>1 DEF TypeOK, Row
  <2>2. Requested(t)
    BY <1>1, RowStep DEF Kept, Created, Delayed, Started, Finished, GaveUp, Holds, Claimable
  <2> QED
    BY <2>1, <2>2 DEF Requested
<1>2. TypeOK /\ [Next]_vars =>
        [\A t \in Task :
            queue[t].status = "cancelled" /\ queue'[t] # queue[t]
                => /\ queue'[t].version > queue[t].version
                   /\ queue'[t].status \in {"pending", "cancelled"}]_vars
  BY <1>1
<1> QED
  BY <1>2, TypeCorrect, PTL DEF Spec, CancelledIsLeftAlone

(* What the queue shows of a task is right, whoever works on it. *)
THEOREM OutcomesRight == Spec => []OutcomesHold
<1>1. IInv => OutcomesHold
  BY DEF IInv, OutcomesHold
<1> QED
  BY <1>1, Invariance, PTL

-----------------------------------------------------------------------------
(* Dispatches that do not overlap: one thread runs run_one. *)
OneDispatcher == \A v, w \in Worker : v = w

(* What is added to IInv when dispatches do not overlap: the number of the current
   attempt only grows, and every attempt that has an outcome was current once. *)
OpenInv ==
    /\ IInv
    /\ \A t \in Task : queue[t].status = "absent" => queue[t].current_attempt = 0
    /\ \A w \in Worker : phase[w] = "claim" =>
            row[w].current_attempt = queue[task[w]].current_attempt
    /\ \A u \in User : request[u] # "none" =>
            found[u].current_attempt <= queue[subject[u]].current_attempt
    /\ \A a \in attempts : a.attempt <= queue[a.task].current_attempt
    /\ AttemptInProgressIsOpen

(* A request, and a failure, leave the number of the current attempt alone and take the
   task out of processing. *)
LEMMA NumberKept ==
    ASSUME TypeOK, queue' # queue,
           \/ \E w \in Worker : Complete(w) \/ Fail(w)
           \/ \E u \in User : Cancel(u) \/ Requeue(u)
    PROVE  \E s \in Task : \E new :
            /\ queue' = [queue EXCEPT ![s] = new]
            /\ new.current_attempt = queue[s].current_attempt
            /\ new.status # "processing"
<1> DEFINE Goal(s, new) == /\ queue' = [queue EXCEPT ![s] = new]
                           /\ new.current_attempt = queue[s].current_attempt
                           /\ new.status # "processing"
<1>1. ASSUME NEW w \in Worker, Complete(w) PROVE \E s \in Task : \E new : Goal(s, new)
  <2> DEFINE new == [queue[task[w]] EXCEPT !.status = "completed"]
  <2>1. queue' = [queue EXCEPT ![task[w]] = new]
    BY <1>1 DEF Complete
  <2>2. task[w] \in Task /\ queue[task[w]] \in Row
    BY DEF TypeOK
  <2>3. new.current_attempt = queue[task[w]].current_attempt /\ new.status = "completed"
    BY <2>2 DEF Row
  <2> HIDE DEF new
  <2> QED BY <2>1, <2>2, <2>3
<1>2. ASSUME NEW w \in Worker, Fail(w) PROVE \E s \in Task : \E new : Goal(s, new)
  <2> DEFINE new == [queue[task[w]] EXCEPT !.status = FailedStatus(w), !.due = ~MayRetry(w)]
  <2>1. queue' = [queue EXCEPT ![task[w]] = new]
    BY <1>2 DEF Fail
  <2>2. task[w] \in Task /\ queue[task[w]] \in Row
    BY DEF TypeOK
  <2>3. new.current_attempt = queue[task[w]].current_attempt /\ new.status = FailedStatus(w)
    BY <2>2 DEF Row
  <2> HIDE DEF new
  <2> QED BY <2>1, <2>2, <2>3 DEF FailedStatus
<1>3. ASSUME NEW u \in User, Cancel(u) PROVE \E s \in Task : \E new : Goal(s, new)
  <2> DEFINE new == [queue[subject[u]] EXCEPT !.status = "cancelled",
                        !.version = queue[subject[u]].version + 1]
  <2>1. queue' = [queue EXCEPT ![subject[u]] = new]
    BY <1>3 DEF Cancel
  <2>2. subject[u] \in Task /\ queue[subject[u]] \in Row
    BY DEF TypeOK
  <2>3. new.current_attempt = queue[subject[u]].current_attempt /\ new.status = "cancelled"
    BY <2>2 DEF Row
  <2> HIDE DEF new
  <2> QED BY <2>1, <2>2, <2>3
<1>4. ASSUME NEW u \in User, Requeue(u) PROVE \E s \in Task : \E new : Goal(s, new)
  <2> DEFINE new == [queue[subject[u]] EXCEPT !.status = "pending",
                        !.version = queue[subject[u]].version + 1,
                        !.max_attempts = NewLimit(u), !.due = TRUE]
  <2>1. queue' = [queue EXCEPT ![subject[u]] = new]
    BY <1>4 DEF Requeue
  <2>2. subject[u] \in Task /\ queue[subject[u]] \in Row
    BY DEF TypeOK
  <2>3. new.current_attempt = queue[subject[u]].current_attempt /\ new.status = "pending"
    BY <2>2 DEF Row
  <2> HIDE DEF new
  <2> QED BY <2>1, <2>2, <2>3
<1> QED
  BY <1>1, <1>2, <1>3, <1>4

(* Only a claim changes the number of the current attempt, and it is the next one. *)
Numbered(t) == queue'[t].current_attempt = queue[t].current_attempt

LEMMA AttemptNumbers ==
    ASSUME OpenInv, [Next]_vars, NEW t \in Task
    PROVE  \/ Numbered(t)
           \/ \E w \in Worker :
                /\ Claim(w) /\ StillClaimable(w) /\ task[w] = t
                /\ queue'[t] = [queue[t] EXCEPT !.status = "processing",
                                    !.current_attempt = queue[t].current_attempt + 1]
<1>0. queue \in [Task -> Row] /\ queue[t] \in Row /\ task \in [Worker -> Task]
      /\ subject \in [User -> Task]
  BY DEF OpenInv, IInv, TypeOK
<1>1. ASSUME NEW s \in Task, Enqueue(s) PROVE Numbered(t)
  BY <1>0, <1>1 DEF Enqueue, Numbered, OpenInv, Row
<1>2. ASSUME NEW s \in Task, BecomeDue(s) PROVE Numbered(t)
  BY <1>0, <1>2 DEF BecomeDue, Numbered, Row
<1>3. ASSUME \/ \E w \in Worker : Complete(w) \/ Fail(w)
             \/ \E u \in User : Cancel(u) \/ Requeue(u)
      PROVE  Numbered(t)
  <2>1. CASE queue' = queue
    BY <2>1 DEF Numbered
  <2>2. CASE queue' # queue
    <3>1. PICK s \in Task :
            \E new : /\ queue' = [queue EXCEPT ![s] = new]
                     /\ new.current_attempt = queue[s].current_attempt
      BY <1>3, <2>2, NumberKept DEF OpenInv, IInv
    <3> QED BY <1>0, <3>1 DEF Numbered
  <2> QED BY <2>1, <2>2
<1>5. ASSUME NEW w \in Worker, Claim(w)
      PROVE  \/ Numbered(t)
             \/ /\ StillClaimable(w) /\ task[w] = t
                /\ queue'[t] = [queue[t] EXCEPT !.status = "processing",
                                    !.current_attempt = queue[t].current_attempt + 1]
  <2>1. row[w].current_attempt = queue[task[w]].current_attempt
    BY <1>5 DEF Claim, OpenInv
  <2>2. \/ queue' = queue
        \/ /\ StillClaimable(w)
           /\ queue' = [queue EXCEPT ![task[w]] =
                [queue[task[w]] EXCEPT !.status = "processing",
                          !.current_attempt = queue[task[w]].current_attempt + 1]]
    BY <1>5, <2>1 DEF Claim
  <2> QED BY <1>0, <2>2 DEF Numbered
<1>6. ASSUME UNCHANGED queue PROVE Numbered(t)
  BY <1>6 DEF Numbered
<1> QED
  BY <1>1, <1>2, <1>3, <1>5, <1>6
     DEF Next, Calm, Work, Select, ReadBack, Handle, Request, LockTimeout, Crash, vars

(* Only a claim puts a task into processing. *)
LEMMA StartedByClaim ==
    ASSUME TypeOK, [Next]_vars, NEW t \in Task,
           queue[t].status # "processing", queue'[t].status = "processing"
    PROVE  \E w \in Worker : Claim(w) /\ StillClaimable(w) /\ task[w] = t
<1>1. queue[t] \in Row
  BY DEF TypeOK
<1>2. ASSUME NEW w \in Worker, Claim(w) PROVE StillClaimable(w) /\ task[w] = t
  BY <1>2 DEF Claim, TypeOK
<1>5. ASSUME NEW s \in Task, Enqueue(s) \/ BecomeDue(s) PROVE FALSE
  BY <1>1, <1>5, SMTT(30) DEF Enqueue, BecomeDue, TypeOK, Row
<1>6. ASSUME \/ \E w \in Worker : Complete(w) \/ Fail(w)
             \/ \E u \in User : Cancel(u) \/ Requeue(u)
      PROVE  FALSE
  <2>1. PICK s \in Task :
          \E new : queue' = [queue EXCEPT ![s] = new] /\ new.status # "processing"
    <3>1. queue' # queue
      OBVIOUS
    <3> QED BY <1>6, <3>1, NumberKept
  <2> QED BY <2>1 DEF TypeOK
<1>8. ASSUME UNCHANGED queue PROVE FALSE
  BY <1>8
<1> QED
  BY <1>2, <1>5, <1>6, <1>8
     DEF Next, Calm, Work, Select, ReadBack, Handle, Request, LockTimeout, Crash, vars

(* The number of the current attempt never falls. *)
LEMMA AttemptsGrow ==
    ASSUME OpenInv, [Next]_vars, NEW t \in Task
    PROVE  /\ queue[t].current_attempt \in Nat /\ queue'[t].current_attempt \in Nat
           /\ queue[t].current_attempt <= queue'[t].current_attempt
<1>1. queue[t] \in Row /\ queue[t].current_attempt \in Nat
  BY DEF OpenInv, IInv, TypeOK, Row
<1>2. CASE Numbered(t)
  BY <1>1, <1>2 DEF Numbered
<1>3. CASE queue'[t] = [queue[t] EXCEPT !.status = "processing",
                            !.current_attempt = queue[t].current_attempt + 1]
  <2>1. queue'[t].current_attempt = queue[t].current_attempt + 1
    BY <1>1, <1>3 DEF Row
  <2> QED BY <1>1, <2>1
<1> QED
  BY <1>2, <1>3, AttemptNumbers

(* An outcome is recorded for an attempt that is or was current, by a step that takes
   the task out of processing. *)
LEMMA OutcomeStep ==
    ASSUME OpenInv, [Next]_vars
    PROVE  \/ UNCHANGED attempts
           \/ \E t \in Task, n \in Nat, version \in Nat,
                 status \in {"completed", "failed", "cancelled"} :
                /\ Record(t, n, version, status)
                /\ n <= queue[t].current_attempt
                /\ queue'[t].status # "processing"
<1>0. TypeOK
  BY DEF OpenInv, IInv
<1>1. ASSUME NEW w \in Worker, Complete(w) \/ Fail(w), ~UNCHANGED attempts
      PROVE  \E status \in {"completed", "failed"} :
                /\ Record(task[w], lease[w].attempt, lease[w].version, status)
                /\ lease[w].attempt = queue[task[w]].current_attempt
                /\ queue'[task[w]].status # "processing"
  <2>1. task[w] \in Task /\ queue[task[w]] \in Row
    BY <1>0 DEF TypeOK
  <2>2. CASE Complete(w)
    BY <1>0, <1>1, <2>1, <2>2 DEF Complete, Holds, TypeOK, Row
  <2>3. CASE Fail(w)
    <3>1. /\ Holds(w)
          /\ Record(task[w], lease[w].attempt, lease[w].version, "failed")
          /\ queue' = [queue EXCEPT ![task[w]] =
                [queue[task[w]] EXCEPT !.status = FailedStatus(w), !.due = ~MayRetry(w)]]
      BY <1>1, <2>3 DEF Fail
    <3>2. queue'[task[w]].status = FailedStatus(w)
      BY <1>0, <2>1, <3>1 DEF TypeOK, Row
    <3> QED BY <3>1, <3>2 DEF FailedStatus, Holds
  <2> QED BY <1>1, <2>2, <2>3
<1>2. ASSUME NEW u \in User, Cancel(u), ~UNCHANGED attempts
      PROVE  /\ Record(subject[u], found[u].current_attempt, found[u].version, "cancelled")
             /\ found[u].current_attempt <= queue[subject[u]].current_attempt
             /\ queue'[subject[u]].status # "processing"
  <2>1. subject[u] \in Task /\ queue[subject[u]] \in Row
    BY <1>0 DEF TypeOK
  <2>2. /\ Record(subject[u], found[u].current_attempt, found[u].version, "cancelled")
        /\ queue' = [queue EXCEPT ![subject[u]] = [queue[subject[u]] EXCEPT
                        !.status = "cancelled", !.version = queue[subject[u]].version + 1]]
    BY <1>2 DEF Cancel
  <2>3. queue'[subject[u]].status = "cancelled"
    BY <1>0, <2>1, <2>2 DEF TypeOK, Row
  <2> QED BY <1>2, <2>2, <2>3 DEF Cancel, OpenInv
<1>3. \/ UNCHANGED attempts
      \/ \E w \in Worker : Complete(w) \/ Fail(w)
      \/ \E u \in User : Cancel(u)
  BY DEF Next, Calm, Work, Enqueue, BecomeDue, Select, Claim, ReadBack, Handle, Request,
         Requeue, LockTimeout, Crash, vars
<1>4. ASSUME NEW w \in Worker, Complete(w) \/ Fail(w), ~UNCHANGED attempts
      PROVE  \E t \in Task, n \in Nat, version \in Nat,
                 status \in {"completed", "failed", "cancelled"} :
                /\ Record(t, n, version, status)
                /\ n <= queue[t].current_attempt
                /\ queue'[t].status # "processing"
  <2>1. task[w] \in Task /\ lease[w].attempt \in Nat /\ lease[w].version \in Nat
    BY <1>0 DEF TypeOK, Lease
  <2> QED BY <1>1, <1>4, <2>1
<1>5. ASSUME NEW u \in User, Cancel(u), ~UNCHANGED attempts
      PROVE  \E t \in Task, n \in Nat, version \in Nat,
                 status \in {"completed", "failed", "cancelled"} :
                /\ Record(t, n, version, status)
                /\ n <= queue[t].current_attempt
                /\ queue'[t].status # "processing"
  <2>1. subject[u] \in Task /\ found[u].current_attempt \in Nat /\ found[u].version \in Nat
    BY <1>0 DEF TypeOK, Row
  <2> QED BY <1>2, <1>5, <2>1
<1> QED
  BY <1>3, <1>4, <1>5

LEMMA OpenNext ==
    ASSUME OneDispatcher, OpenInv, [Next]_vars
    PROVE  OpenInv'
<1>0. IInv' /\ TypeOK /\ TypeOK'
  BY Invariant, Typing DEF OpenInv, IInv
<1>1. \A t \in Task : queue'[t].status = "absent" => queue'[t].current_attempt = 0
  <2>1. ASSUME NEW t \in Task, queue'[t].status = "absent" PROVE queue'[t] = queue[t]
    BY <2>1, RowIsMonotone DEF OpenInv, IInv
  <2> QED BY <2>1 DEF OpenInv
<1>2. \A w \in Worker : phase'[w] = "claim" =>
            row'[w].current_attempt = queue'[task'[w]].current_attempt
  <2> SUFFICES ASSUME NEW w \in Worker, phase'[w] = "claim"
               PROVE  row'[w].current_attempt = queue'[task'[w]].current_attempt
    OBVIOUS
  <2>1. CASE Select(w)
    BY <1>0, <2>1 DEF Select, TypeOK
  <2>2. CASE phase[w] = "claim" /\ task'[w] = task[w] /\ row'[w] = row[w]
    <3>1. task[w] \in Task /\ row[w].current_attempt = queue[task[w]].current_attempt
      BY <1>0, <2>2 DEF OpenInv, TypeOK
    <3>2. ASSUME NEW v \in Worker, Claim(v) PROVE FALSE
      <4>1. v = w
        BY DEF OneDispatcher
      <4> QED BY <1>0, <3>2, <4>1 DEF Claim, TypeOK
    <3>3. Numbered(task[w])
      BY <3>1, <3>2, AttemptNumbers
    <3> QED BY <2>2, <3>1, <3>3 DEF Numbered
  <2>3. Select(w) \/ (phase[w] = "claim" /\ task'[w] = task[w] /\ row'[w] = row[w])
    <3>1. ASSUME NEW v \in Worker, Select(v) \/ Work(v) PROVE Select(w)
      <4>1. v = w
        BY DEF OneDispatcher
      <4>2. ~Work(w)
        BY <1>0 DEF TypeOK, Work, Claim, ReadBack, Handle, Complete, Fail
      <4> QED BY <3>1, <4>1, <4>2
    <3>2. ASSUME UNCHANGED workerVars
          PROVE  phase[w] = "claim" /\ task'[w] = task[w] /\ row'[w] = row[w]
      BY <3>2 DEF workerVars
    <3>3. ASSUME LockTimeout \/ Crash
          PROVE  phase[w] = "claim" /\ task'[w] = task[w] /\ row'[w] = row[w]
      BY <1>0, <3>3 DEF LockTimeout, Crash, workerVars, TypeOK
    <3>4. ASSUME \/ \E t \in Task : Enqueue(t) \/ BecomeDue(t)
                 \/ \E u \in User : Request(u) \/ Cancel(u) \/ Requeue(u)
                 \/ UNCHANGED vars
          PROVE  UNCHANGED workerVars
      BY <3>4 DEF Enqueue, BecomeDue, Request, Cancel, Requeue, vars
    <3> QED BY <3>1, <3>2, <3>3, <3>4 DEF Next, Calm
  <2> QED BY <2>1, <2>2, <2>3
<1>3. \A u \in User : request'[u] # "none" =>
            found'[u].current_attempt <= queue'[subject'[u]].current_attempt
  <2> SUFFICES ASSUME NEW u \in User, request'[u] # "none"
               PROVE  found'[u].current_attempt <= queue'[subject'[u]].current_attempt
    OBVIOUS
  <2>1. CASE Request(u)
    <3>1. PICK t \in Task : subject'[u] = t /\ found'[u] = queue[t] /\ queue' = queue
      BY <1>0, <2>1 DEF Request, TypeOK
    <3> QED BY <3>1, AttemptsGrow
  <2>2. CASE request[u] # "none" /\ subject'[u] = subject[u] /\ found'[u] = found[u]
    <3>1. subject[u] \in Task /\ found[u].current_attempt \in Nat
          /\ found[u].current_attempt <= queue[subject[u]].current_attempt
      BY <1>0, <2>2 DEF OpenInv, TypeOK, Row
    <3> QED BY <2>2, <3>1, AttemptsGrow
  <2>3. Request(u) \/ (request[u] # "none" /\ subject'[u] = subject[u] /\ found'[u] = found[u])
    <3>1. ASSUME NEW v \in User, Request(v), v # u
          PROVE  request[u] # "none" /\ subject'[u] = subject[u] /\ found'[u] = found[u]
      BY <1>0, <3>1 DEF Request, TypeOK
    <3>2. ASSUME NEW v \in User, Cancel(v) \/ Requeue(v)
          PROVE  request[u] # "none" /\ subject'[u] = subject[u] /\ found'[u] = found[u]
      BY <1>0, <3>2 DEF Cancel, Requeue, TypeOK
    <3>3. ASSUME LockTimeout \/ Crash
          PROVE  request[u] # "none" /\ subject'[u] = subject[u] /\ found'[u] = found[u]
      BY <1>0, <3>3 DEF LockTimeout, Crash, userVars, TypeOK
    <3>4. ASSUME \/ \E t \in Task : Enqueue(t) \/ BecomeDue(t)
                 \/ \E w \in Worker : Select(w) \/ Work(w)
                 \/ UNCHANGED vars
          PROVE  UNCHANGED userVars
      BY <3>4 DEF Enqueue, BecomeDue, Select, Work, Claim, ReadBack, Handle, Complete, Fail, vars
    <3> QED BY <3>1, <3>2, <3>3, <3>4 DEF Next, Calm, userVars
  <2> QED BY <2>1, <2>2, <2>3
<1>4. \A a \in attempts' : a.attempt <= queue'[a.task].current_attempt
  <2> SUFFICES ASSUME NEW a \in attempts' PROVE a.attempt <= queue'[a.task].current_attempt
    OBVIOUS
  <2>1. a.task \in Task /\ a.attempt \in Nat
    BY <1>0 DEF TypeOK, Attempt
  <2>2. a.attempt <= queue[a.task].current_attempt
    BY OutcomeStep DEF OpenInv, Record
  <2> QED BY <2>1, <2>2, AttemptsGrow
<1>5. AttemptInProgressIsOpen'
  <2> SUFFICES ASSUME NEW t \in Task, queue'[t].status = "processing",
                      NEW a \in attempts', a.task = t, a.attempt = queue'[t].current_attempt
               PROVE  FALSE
    BY DEF AttemptInProgressIsOpen, Taken
  <2>1. a \in attempts
    <3>1. CASE a \notin attempts
      BY <3>1, OutcomeStep DEF Record
    <3> QED BY <3>1
  <2>2. a.attempt <= queue[t].current_attempt /\ queue[t].current_attempt \in Nat
    BY <2>1, AttemptsGrow DEF OpenInv
  <2>3. CASE \E w \in Worker :
                queue'[t] = [queue[t] EXCEPT !.status = "processing",
                                    !.current_attempt = queue[t].current_attempt + 1]
    <3>1. queue'[t].current_attempt = queue[t].current_attempt + 1
      BY <1>0, <2>3 DEF TypeOK, Row
    <3> QED BY <2>2, <3>1
  <2>4. CASE Numbered(t)
    <3>1. queue[t].status # "processing"
      BY <2>1, <2>4 DEF OpenInv, AttemptInProgressIsOpen, Taken, Numbered
    <3>4. PICK w \in Worker : Claim(w) /\ StillClaimable(w) /\ task[w] = t
      BY <1>0, <3>1, StartedByClaim
    <3>5. queue'[t].current_attempt = queue[t].current_attempt + 1
      <4>1. row[w].current_attempt = queue[t].current_attempt
        BY <3>4 DEF Claim, OpenInv
      <4>2. queue[t] \in Row
        BY <1>0 DEF TypeOK
      <4>3. queue'[t] = [queue[t] EXCEPT !.status = "processing",
                            !.current_attempt = queue[t].current_attempt + 1]
        BY <1>0, <3>4, <4>1 DEF Claim, TypeOK
      <4> QED BY <4>2, <4>3 DEF Row
    <3> QED BY <2>2, <2>4, <3>5 DEF Numbered
  <2> QED BY <2>3, <2>4, AttemptNumbers
<1> QED
  BY <1>0, <1>1, <1>2, <1>3, <1>4, <1>5 DEF OpenInv

(* While dispatches do not overlap, the attempt in progress has no outcome yet, so that
   complete, fail and, after a crash, cancel can still record one. *)
THEOREM AttemptsStayOpen ==
    ASSUME OneDispatcher
    PROVE  Spec => []AttemptInProgressIsOpen
<1>1. Init => OpenInv
  <2>1. Init => IInv
    BY InitialInvariant
  <2> QED BY <2>1 DEF Init, OpenInv, AttemptInProgressIsOpen, NoRow, Taken
<1>2. OpenInv /\ [Next]_vars => OpenInv'
  BY OpenNext
<1>3. OpenInv => AttemptInProgressIsOpen
  BY DEF OpenInv
<1> QED
  BY <1>1, <1>2, <1>3, PTL DEF Spec

-----------------------------------------------------------------------------
(* PluginLifecycle. *)
Optional(S) == S \cup {Absent}

Outcome == {"ok", "error", "plugin_disabled"}

Holding == [from : Optional(Version), sound : BOOLEAN, plan : Nat,
            version : Optional(Version), request : Optional(PluginRequest),
            input : Optional(PluginInput), outcome : Optional(Outcome)]

Steps == {"idle", "audit", "install", "enable", "disable", "preview", "choose", "switch",
          "rollback", "health", "lookup", "run", "record"}

Types ==
    /\ PluginTypeOK
    /\ runs \in [PluginRequest -> Optional(Run)]
    /\ step \in [Caller -> Steps]
    /\ held \in [Caller -> Holding]
    /\ applied \in Seq(Nat)

(* The release staged under a version is the registered one, and passed the scan. *)
Verified(v) == v \in Version /\ releases[v] = registry[v] /\ registry[v] \in Clean

(* What a request read before its next step and still holds when it takes it. *)
RequestIsSound(c) ==
    /\ step[c] = "install" => held[c].version \in Version /\ Registered(held[c].version)
    /\ step[c] \in {"enable", "disable"} => installed # Absent
    /\ step[c] = "preview" => held[c].version \in Version /\ Registered(held[c].version)
    /\ step[c] \in {"choose", "switch"} =>
        installed # Absent /\ held[c].from \in Version /\ Verified(held[c].version)
    /\ step[c] = "switch" =>
        /\ held[c].plan <= Len(plans)
        /\ held[c].version # held[c].from => held[c].plan # 0
    /\ step[c] = "rollback" => installed # Absent /\ held[c].version \in Version
    /\ step[c] \in {"health", "lookup", "run", "record"} => Verified(held[c].version)
    /\ step[c] \in {"lookup", "run", "record"} =>
        held[c].request \in PluginRequest /\ held[c].input \in PluginInput
    /\ step[c] = "record" => held[c].outcome \in Outcome

(* An answer that was not a refusal is what the run of its request id says. *)
AnswersStand ==
    \A a \in answers : a[3] # "plugin_quarantined" =>
        /\ a[1] \in PluginRequest /\ runs[a[1]] # Absent
        /\ a[3] = IF runs[a[1]].input = a[2] THEN runs[a[1]].outcome
                  ELSE "idempotency_conflict"

(* What was run stays the release of its version. *)
ExecutedStands == \A e \in executed : e[1] \in Version /\ e[2] \in Clean /\ releases[e[1]] = e[2]

(* The inductive invariant. *)
LifecycleInv ==
    /\ Types
    /\ \A c \in Caller : RequestIsSound(c)
    /\ AnswersStand
    /\ ExecutedStands

-----------------------------------------------------------------------------
(* One request at a time. *)
OneAtATime == \A c, d \in Caller : step[c] # "idle" /\ step[d] # "idle" => c = d

(* What it read is still so. *)
RequestIsFresh(c) ==
    /\ step[c] = "enable" /\ held[c].sound => releases[installed.current] \in Clean
    /\ step[c] = "switch" /\ held[c].version # held[c].from =>
        plans[held[c].plan].approval # "applied"

PlansAreSound ==
    \A i \in DOMAIN plans : applied[i] <= IF plans[i].approval = "applied" THEN 1 ELSE 0

(* The inductive invariant of one request at a time, beside LifecycleInv. *)
AlonePluginInv ==
    /\ OneAtATime
    /\ \A c \in Caller : RequestIsFresh(c)
    /\ EnabledIsVerified
    /\ PlansAreSound

-----------------------------------------------------------------------------
(* What a step of a caller leaves as it was for the other callers. *)
LeavesOthers(c) ==
    /\ registry' = registry
    /\ \A v \in Version : releases[v] # Absent => releases'[v] = releases[v]
    /\ installed # Absent => installed' # Absent
    /\ Len(plans') >= Len(plans)
    /\ \A d \in Caller : d # c => step'[d] = step[d] /\ held'[d] = held[d]

LEMMA NothingHeld ==
    /\ Nothing \in Holding
    /\ \A c \in Caller : step[c] \in {"idle", "audit"} => RequestIsSound(c)
BY DEF Nothing, Holding, Optional, RequestIsSound

LEMMA GoParts ==
    ASSUME Types, NEW c \in Caller, NEW next \in Steps, NEW h \in Holding, Go(c, next, h)
    PROVE  /\ step' \in [Caller -> Steps]
           /\ held' \in [Caller -> Holding]
           /\ step'[c] = next /\ held'[c] = h
           /\ \A d \in Caller : d # c => step'[d] = step[d] /\ held'[d] = held[d]
BY DEF Types, Go

LEMMA OthersStaySound ==
    ASSUME PluginAssumption, LifecycleInv, Types', NEW c \in Caller, LeavesOthers(c),
           NEW d \in Caller, d # c
    PROVE  RequestIsSound(d)'
<1>1. RequestIsSound(d) /\ step'[d] = step[d] /\ held'[d] = held[d]
  BY DEF LifecycleInv, LeavesOthers
<1>2. \A v \in Version : registry'[v] = registry[v]
  BY DEF LeavesOthers
<1>3. \A v : Verified(v) => Verified(v)'
  BY DEF LeavesOthers, Verified, PluginAssumption
<1>4. Len(plans) \in Nat /\ Len(plans') \in Nat /\ Len(plans') >= Len(plans) /\ held[d].plan \in Nat
  BY DEF LifecycleInv, Types, PluginTypeOK, LeavesOthers, Holding
<1>5. held[d].plan <= Len(plans) => held[d].plan <= Len(plans')
  BY <1>4
<1>6. installed # Absent => installed' # Absent
  BY DEF LeavesOthers
<1> QED
  BY <1>1, <1>2, <1>3, <1>5, <1>6 DEF RequestIsSound, Registered

(* A step that reads keeps the invariant if what it holds next is sound. *)
LEMMA ReadingStep ==
    ASSUME PluginAssumption, LifecycleInv, NEW c \in Caller, NEW next \in Steps,
           NEW h \in Holding, Go(c, next, h), UNCHANGED <<registry, Tables, History>>,
           RequestIsSound(c)'
    PROVE  LifecycleInv'
<1> USE DEF Tables, History
<1>1. Types'
  BY GoParts DEF LifecycleInv, Types, PluginTypeOK
<1>2. LeavesOthers(c)
  <2>1. Len(plans) \in Nat
    BY DEF LifecycleInv, Types, PluginTypeOK
  <2> QED BY <2>1, GoParts DEF LeavesOthers, LifecycleInv
<1>3. \A d \in Caller : RequestIsSound(d)'
  BY <1>1, <1>2, OthersStaySound
<1>4. AnswersStand' /\ ExecutedStands'
  BY DEF LifecycleInv, AnswersStand, ExecutedStands
<1> QED BY <1>1, <1>3, <1>4 DEF LifecycleInv

LEMMA IdleStep ==
    ASSUME PluginAssumption, LifecycleInv, NEW c \in Caller, NEW next \in {"idle", "audit"},
           Go(c, next, Nothing), UNCHANGED <<registry, Tables, History>>
    PROVE  LifecycleInv'
<1>1. step'[c] = next /\ next \in Steps /\ Nothing \in Holding
  BY GoParts, NothingHeld DEF LifecycleInv, Steps
<1>2. RequestIsSound(c)'
  BY <1>1 DEF RequestIsSound
<1> QED BY <1>1, <1>2, ReadingStep

LEMMA InstalledFields ==
    ASSUME Types, installed # Absent
    PROVE  /\ installed \in Installation
           /\ installed.current \in Version /\ installed.previous \in Optional(Version)
BY DEF Types, PluginTypeOK, Installation, Optional

LEMMA ExecutableIsVerified ==
    ASSUME NEW v \in Version, Executable(v)
    PROVE  Verified(v)
BY DEF Executable, Verified, Safe

(* A finite, non-empty set of natural numbers has a greatest element. *)
LEMMA GreatestOfFinite ==
    ASSUME NEW T \in SUBSET Nat, T # {}, IsFiniteSet(T)
    PROVE  \E x \in T : \A y \in T : y <= x
<1> DEFINE From(x) == {y \in T : x <= y}
<1> DEFINE Tails == {From(x) : x \in T}
<1>1. Tails \subseteq FiniteSubsetsOf(Nat)
  <2>1. \A x \in T : IsFiniteSet(From(x))
    BY FS_Subset
  <2> QED BY <2>1 DEF FiniteSubsetsOf
<1>2. Tails # {}
  OBVIOUS
<1> HIDE DEF Tails
<1>3. PICK B \in Tails : \A D \in Tails : <<D, B>> \notin StrictSubsetOrdering(Nat)
  BY <1>1, <1>2, WFMin, FS_StrictSubsetOrderingWellFounded, Zenon
<1>4. PICK x \in T : B = From(x)
  BY DEF Tails
<1>5. ASSUME NEW y \in T, x < y PROVE FALSE
  <2>1. From(y) \in Tails
    BY DEF Tails
  <2>2. x \in Nat /\ y \in Nat /\ x < y
    BY <1>5
  <2> SUFFICES x \in From(x) /\ From(y) \subseteq From(x) /\ x \notin From(y)
               => <<From(y), B>> \in StrictSubsetOrdering(Nat)
    <3>1. x \in From(x) /\ x \notin From(y)
      BY <2>2
    <3>2. ASSUME NEW z \in From(y) PROVE z \in From(x)
      <4>1. z \in T /\ z \in Nat /\ y <= z
        OBVIOUS
      <4>2. x <= z
        BY <4>1, <2>2
      <4> QED BY <4>1, <4>2
    <3> QED BY <3>1, <3>2, <2>1, <1>3
  <2>3. From(y) \in SUBSET Nat /\ From(x) \in SUBSET Nat
    OBVIOUS
  <2> HIDE DEF From
  <2> QED BY <1>4, <2>3 DEF StrictSubsetOrdering
<1>6. \A y \in T : y <= x
  <2> SUFFICES ASSUME NEW y \in T PROVE y <= x
    OBVIOUS
  <2>1. x \in Nat /\ y \in Nat /\ ~(x < y)
    BY <1>5
  <2> QED BY <2>1
<1> QED
  BY <1>6, Zenon

LEMMA NewestIsRegistered ==
    ASSUME PluginAssumption, NEW v \in Version, Registered(v)
    PROVE  Newest \in Version /\ Registered(Newest)
<1> DEFINE T == {w \in Version : Registered(w)}
<1>1. T \in SUBSET Nat /\ T # {} /\ IsFiniteSet(T)
  BY FS_Subset DEF PluginAssumption
<1> HIDE DEF T
<1>2. PICK newest \in T : \A y \in T : y <= newest
  BY <1>1, GreatestOfFinite
<1>3. \E x \in Version : Registered(x) /\ \A w \in Version : Registered(w) => w <= x
  BY <1>2 DEF T
<1> QED BY <1>3 DEF Newest

LEMMA LatestPlanIsPlan ==
    ASSUME plans \in Seq(Plan), NEW v
    PROVE  /\ LatestPlan(v) \in 0..Len(plans)
           /\ LatestPlan(v) # 0 => plans[LatestPlan(v)].candidate = v
<1> DEFINE T == {i \in DOMAIN plans : plans[i].candidate = v}
<1>1. T \in SUBSET Nat /\ Len(plans) \in Nat /\ IsFiniteSet(T)
  <2>1. Len(plans) \in Nat /\ T \in SUBSET (1..Len(plans))
    OBVIOUS
  <2>2. IsFiniteSet(1..Len(plans))
    BY <2>1, FS_Interval
  <2> QED BY <2>1, <2>2, FS_Subset
<1>2. CASE T = {}
  BY <1>2, <1>1 DEF LatestPlan
<1>3. CASE T # {}
  <2>1. LatestPlan(v) = CHOOSE i \in T : \A j \in T : j <= i
    BY <1>3 DEF LatestPlan
  <2>2. T \subseteq 1..Len(plans) /\ \A i \in T : plans[i].candidate = v
    OBVIOUS
  <2> HIDE DEF T
  <2>3. \E i \in T : \A j \in T : j <= i
    BY <1>1, <1>3, GreatestOfFinite
  <2>4. LatestPlan(v) \in T
    BY <2>1, <2>3
  <2>5. LatestPlan(v) \in 1..Len(plans) /\ plans[LatestPlan(v)].candidate = v
    BY <2>2, <2>4, Zenon
  <2> QED BY <1>1, <2>5
<1> QED BY <1>2, <1>3

-----------------------------------------------------------------------------
(* One lemma per step; those that only read come first. *)
LEMMA AskInstallStep ==
    ASSUME PluginAssumption, LifecycleInv, NEW c \in Caller, AskInstall(c)
    PROVE  LifecycleInv'
<1>1. PICK v \in Version : /\ Registered(v)
                           /\ Go(c, "install",
                                 [Nothing EXCEPT !.from = InstalledVersion, !.version = v])
  BY DEF AskInstall
<1> DEFINE h == [Nothing EXCEPT !.from = InstalledVersion, !.version = v]
<1>2. h \in Holding /\ h.version = v /\ "install" \in Steps
  BY InstalledFields DEF LifecycleInv, InstalledVersion, Nothing, Holding, Optional, Steps
<1> HIDE DEF h
<1>3. step'[c] = "install" /\ held'[c] = h
  BY <1>1, <1>2, GoParts DEF LifecycleInv, h
<1>4. UNCHANGED <<registry, Tables, History>>
  BY DEF AskInstall
<1>5. RequestIsSound(c)'
  BY <1>1, <1>2, <1>3, <1>4 DEF RequestIsSound, Registered
<1> QED BY <1>1, <1>2, <1>4, <1>5, ReadingStep DEF h

LEMMA AskEnabledStep ==
    ASSUME PluginAssumption, LifecycleInv, NEW c \in Caller, AskEnabled(c)
    PROVE  LifecycleInv'
<1> DEFINE sound == installed.status # "quarantined" /\ Executable(installed.current)
<1> DEFINE h == [Nothing EXCEPT !.sound = sound]
<1>1. PICK next \in {"enable", "disable"} : Go(c, next, h)
  BY DEF AskEnabled
<1>2. h \in Holding /\ next \in Steps
  <2>1. sound \in BOOLEAN
    OBVIOUS
  <2> HIDE DEF sound
  <2> QED BY <2>1 DEF Nothing, Holding, Optional, Steps
<1> HIDE DEF h
<1>3. step'[c] = next /\ installed # Absent
  BY <1>1, <1>2, GoParts DEF LifecycleInv, AskEnabled
<1>4. UNCHANGED <<registry, Tables, History>>
  BY DEF AskEnabled
<1>5. RequestIsSound(c)'
  BY <1>3, <1>4 DEF RequestIsSound, Tables
<1> QED BY <1>1, <1>2, <1>4, <1>5, ReadingStep

LEMMA AskPreviewStep ==
    ASSUME PluginAssumption, LifecycleInv, NEW c \in Caller, AskPreview(c)
    PROVE  LifecycleInv'
<1>1. installed # Absent /\ Registered(installed.current) /\ installed.current \in Version
  BY InstalledFields DEF AskPreview, LifecycleInv
<1>2. Newest \in Version /\ Registered(Newest)
  BY <1>1, NewestIsRegistered
<1> DEFINE h == [Nothing EXCEPT !.version = Newest]
<1>3. h \in Holding /\ h.version = Newest /\ "preview" \in Steps
  BY <1>2 DEF Nothing, Holding, Optional, Steps
<1> HIDE DEF h
<1>4. Go(c, "preview", h) /\ UNCHANGED <<registry, Tables, History>>
  BY DEF AskPreview, h
<1>5. step'[c] = "preview" /\ held'[c] = h
  BY <1>3, <1>4, GoParts DEF LifecycleInv
<1>6. RequestIsSound(c)'
  BY <1>2, <1>3, <1>4, <1>5 DEF RequestIsSound, Registered
<1> QED BY <1>3, <1>4, <1>6, ReadingStep

LEMMA AskSwitchStep ==
    ASSUME PluginAssumption, LifecycleInv, NEW c \in Caller, AskSwitch(c)
    PROVE  LifecycleInv'
<1>1. PICK v \in Version :
        /\ Executable(v)
        /\ Go(c, "choose", [Nothing EXCEPT !.from = installed.current, !.version = v])
  BY DEF AskSwitch
<1>2. installed # Absent /\ UNCHANGED <<registry, Tables, History>>
  BY DEF AskSwitch
<1>3. installed.current \in Version /\ Verified(v)
  BY <1>1, <1>2, InstalledFields, ExecutableIsVerified DEF LifecycleInv
<1> DEFINE h == [Nothing EXCEPT !.from = installed.current, !.version = v]
<1>4. h \in Holding /\ h.version = v /\ h.from = installed.current /\ "choose" \in Steps
  BY <1>3 DEF Nothing, Holding, Optional, Steps
<1> HIDE DEF h
<1>5. step'[c] = "choose" /\ held'[c] = h
  BY <1>1, <1>4, GoParts DEF LifecycleInv, h
<1>6. RequestIsSound(c)'
  BY <1>2, <1>3, <1>4, <1>5 DEF RequestIsSound, Verified, Tables
<1> QED BY <1>1, <1>2, <1>4, <1>6, ReadingStep DEF h

LEMMA ChoosePlanStep ==
    ASSUME PluginAssumption, LifecycleInv, NEW c \in Caller, ChoosePlan(c)
    PROVE  LifecycleInv'
<1> DEFINE v == held[c].version
<1> DEFINE plan == LatestPlan(v)
<1> DEFINE h == [held[c] EXCEPT !.plan = plan]
<1>1. step[c] = "choose" /\ UNCHANGED <<registry, Tables, History>>
  BY DEF ChoosePlan
<1>2. \/ (v = held[c].from \/ Pending(plan)) /\ Go(c, "switch", h)
      \/ Finish(c)
  BY DEF ChoosePlan
<1>3. CASE Finish(c)
  BY <1>1, <1>3, IdleStep DEF Finish
<1>4. CASE (v = held[c].from \/ Pending(plan)) /\ Go(c, "switch", h)
  <2>1. plan \in 0..Len(plans) /\ Len(plans) \in Nat
    BY LatestPlanIsPlan DEF LifecycleInv, Types, PluginTypeOK
  <2>2. v = held[c].from \/ plan # 0
    BY <1>4 DEF Pending
  <2>3. /\ h \in Holding /\ h.version = v /\ h.from = held[c].from /\ h.plan = plan
        /\ "switch" \in Steps
    <3>1. held[c] \in Holding /\ plan \in Nat
      BY <2>1 DEF LifecycleInv, Types
    <3> HIDE DEF plan
    <3> QED BY <3>1 DEF Holding, Steps
  <2>4. step'[c] = "switch" /\ held'[c] = h
    BY <1>4, <2>3, GoParts DEF LifecycleInv
  <2>5. installed # Absent /\ held[c].from \in Version /\ Verified(v)
    BY <1>1 DEF LifecycleInv, RequestIsSound
  <2> HIDE DEF h, v, plan
  <2>6. RequestIsSound(c)'
    BY <1>1, <2>1, <2>2, <2>3, <2>4, <2>5 DEF RequestIsSound, Verified, Tables
  <2> QED BY <1>1, <1>4, <2>3, <2>6, ReadingStep
<1> QED BY <1>2, <1>3, <1>4

LEMMA AskRollbackStep ==
    ASSUME PluginAssumption, LifecycleInv, NEW c \in Caller, AskRollback(c)
    PROVE  LifecycleInv'
<1>1. installed # Absent /\ UNCHANGED <<registry, Tables, History>>
  BY DEF AskRollback
<1>2. RollbackTarget \in Version
  BY <1>1, InstalledFields DEF LifecycleInv, RollbackTarget, Optional
<1> DEFINE sound == Executable(RollbackTarget)
<1> DEFINE h == [Nothing EXCEPT !.version = RollbackTarget, !.sound = sound]
<1>3. h \in Holding /\ h.version = RollbackTarget /\ "rollback" \in Steps
  <2>1. sound \in BOOLEAN
    BY DEF Executable
  <2> HIDE DEF sound
  <2> QED BY <1>2, <2>1 DEF Nothing, Holding, Optional, Steps
<1>4. Go(c, "rollback", h)
  BY DEF AskRollback
<1> HIDE DEF h
<1>5. step'[c] = "rollback" /\ held'[c] = h
  BY <1>3, <1>4, GoParts DEF LifecycleInv
<1>6. RequestIsSound(c)'
  BY <1>1, <1>2, <1>3, <1>5 DEF RequestIsSound, Tables
<1> QED BY <1>1, <1>3, <1>4, <1>6, ReadingStep

LEMMA AskHealthStep ==
    ASSUME PluginAssumption, LifecycleInv, NEW c \in Caller, AskHealth(c)
    PROVE  LifecycleInv'
<1>1. UNCHANGED <<registry, Tables, History>>
  BY DEF AskHealth
<1>2. installed.current \in Version /\ Verified(installed.current)
  BY InstalledFields, ExecutableIsVerified DEF AskHealth, LifecycleInv
<1> DEFINE h == [Nothing EXCEPT !.version = installed.current]
<1>3. h \in Holding /\ h.version = installed.current /\ "health" \in Steps
  BY <1>2 DEF Nothing, Holding, Optional, Steps
<1>4. Go(c, "health", h)
  BY DEF AskHealth
<1> HIDE DEF h
<1>5. step'[c] = "health" /\ held'[c] = h
  BY <1>3, <1>4, GoParts DEF LifecycleInv
<1>6. RequestIsSound(c)'
  BY <1>1, <1>2, <1>3, <1>5 DEF RequestIsSound, Verified, Tables
<1> QED BY <1>1, <1>3, <1>4, <1>6, ReadingStep

-----------------------------------------------------------------------------
(* The steps that write. *)
Grows == \A v \in Version : releases[v] # Absent => releases'[v] = releases[v]

LEMMA StageGrows ==
    ASSUME PluginAssumption, PluginTypeOK, NEW v \in Version, Stage(v)
    PROVE  releases' \in ReleaseTable /\ Grows
BY DEF Stage, PluginTypeOK, Registry, ReleaseTable, Grows

LEMMA ExecutedStays ==
    ASSUME PluginAssumption, ExecutedStands, Grows, executed' = executed
    PROVE  ExecutedStands'
<1> SUFFICES ASSUME NEW e \in executed
             PROVE  e[1] \in Version /\ e[2] \in Clean /\ releases'[e[1]] = e[2]
  BY DEF ExecutedStands
<1>1. e[1] \in Version /\ e[2] \in Clean /\ releases[e[1]] = e[2]
  BY DEF ExecutedStands
<1>2. e[2] # Absent
  BY <1>1 DEF PluginAssumption
<1> QED BY <1>1, <1>2 DEF Grows

LEMMA AnswersStay ==
    ASSUME AnswersStand, UNCHANGED <<runs, answers>>
    PROVE  AnswersStand'
BY DEF AnswersStand

(* The end of a request's transaction. *)
LEMMA WriteStep ==
    ASSUME PluginAssumption, LifecycleInv, NEW c \in Caller, NEW next \in {"idle", "audit"},
           Go(c, next, Nothing), registry' = registry, Grows,
           installed # Absent => installed' # Absent,
           Len(plans') >= Len(plans),
           PluginTypeOK', runs' \in [PluginRequest -> Optional(Run)], applied' \in Seq(Nat),
           AnswersStand', ExecutedStands'
    PROVE  LifecycleInv'
<1>1. step'[c] = next /\ next \in Steps /\ Nothing \in Holding
  BY GoParts, NothingHeld DEF LifecycleInv, Steps
<1>2. Types'
  BY <1>1, GoParts DEF LifecycleInv, Types
<1>3. LeavesOthers(c)
  BY <1>1, GoParts DEF LifecycleInv, LeavesOthers, Grows
<1>4. RequestIsSound(c)'
  BY <1>1 DEF RequestIsSound
<1>5. \A d \in Caller : RequestIsSound(d)'
  BY <1>2, <1>3, <1>4, OthersStaySound
<1> QED BY <1>2, <1>5 DEF LifecycleInv

LEMMA AuditStep ==
    ASSUME PluginAssumption, LifecycleInv, NEW c \in Caller, Audit(c)
    PROVE  LifecycleInv'
BY IdleStep DEF Audit, Finish

LEMMA InstallStep ==
    ASSUME PluginAssumption, LifecycleInv, NEW c \in Caller, Install(c)
    PROVE  LifecycleInv'
<1> DEFINE from == held[c].from
<1> DEFINE v == held[c].version
<1> DEFINE entry == [current |-> v, previous |-> Absent, enabled |-> FALSE,
                status |-> IF SafeToInstall(registry[v]) THEN "installed" ELSE "quarantined"]
<1>1. step[c] = "install" /\ UNCHANGED <<registry, History>>
  BY DEF Install
<1>2. v \in Version /\ Types /\ PluginTypeOK
  BY <1>1 DEF LifecycleInv, RequestIsSound, Types
<1>3. CASE UNCHANGED Tables /\ \E next \in {"idle", "audit"} : Go(c, next, Nothing)
  BY <1>1, <1>3, IdleStep
<1>4. CASE /\ Stage(v) /\ Audited(c)
           /\ \/ UNCHANGED installed
              \/ installed = Absent /\ installed' = entry
           /\ UNCHANGED <<plans, runs>>
  <2>1. releases' \in ReleaseTable /\ Grows
    BY <1>2, <1>4, StageGrows
  <2>2. entry \in Installation
    BY <1>2 DEF Installation
  <2>3. installed' \in Installation \cup {Absent} /\ (installed # Absent => installed' # Absent)
    BY <1>2, <1>4, <2>2 DEF PluginTypeOK
  <2>4. PluginTypeOK' /\ runs' \in [PluginRequest -> Optional(Run)] /\ applied' \in Seq(Nat)
    BY <1>1, <1>2, <1>4, <2>1, <2>3 DEF PluginTypeOK, Types, History
  <2>5. AnswersStand' /\ ExecutedStands'
    BY <1>1, <1>4, <2>1, AnswersStay, ExecutedStays DEF LifecycleInv, History
  <2>6. Len(plans') >= Len(plans)
    BY <1>2, <1>4 DEF PluginTypeOK
  <2> QED BY <1>1, <1>4, <2>1, <2>3, <2>4, <2>5, <2>6, WriteStep DEF Audited
<1> QED
  BY <1>3, <1>4 DEF Install, Audited, Finish

LEMMA InstallationWritten ==
    ASSUME PluginAssumption, LifecycleInv, NEW c \in Caller, NEW entry \in Installation,
           installed' = entry, Audited(c),
           UNCHANGED <<registry, releases, plans, runs, History>>
    PROVE  LifecycleInv'
<1>1. Grows /\ Len(plans') >= Len(plans) /\ Types /\ PluginTypeOK
  BY DEF LifecycleInv, Types, PluginTypeOK, Grows
<1>2. installed' # Absent
  BY DEF PluginAssumption
<1>3. PluginTypeOK' /\ runs' \in [PluginRequest -> Optional(Run)] /\ applied' \in Seq(Nat)
  BY <1>1 DEF PluginTypeOK, Types, History
<1>4. AnswersStand' /\ ExecutedStands'
  BY <1>1, AnswersStay, ExecutedStays DEF LifecycleInv, History
<1> QED BY <1>1, <1>2, <1>3, <1>4, WriteStep DEF Audited

LEMMA SetEnabledStep ==
    ASSUME PluginAssumption, LifecycleInv, NEW c \in Caller, SetEnabled(c)
    PROVE  LifecycleInv'
<1>1. step[c] \in {"enable", "disable"} /\ UNCHANGED <<registry, releases, plans, runs, History>>
  BY DEF SetEnabled
<1>2. installed \in Installation
  BY <1>1, InstalledFields DEF LifecycleInv, RequestIsSound
<1>3. CASE Finish(c) /\ UNCHANGED installed
  BY <1>1, <1>3, IdleStep DEF Finish, Tables, History
<1>4. CASE Audited(c) /\ installed' = [installed EXCEPT !.enabled = step[c] = "enable",
                !.status = IF ~held[c].sound THEN "quarantined"
                           ELSE IF step[c] = "enable" THEN "enabled" ELSE "disabled"]
  <2> DEFINE status == IF ~held[c].sound THEN "quarantined"
                           ELSE IF step[c] = "enable" THEN "enabled" ELSE "disabled"
  <2> DEFINE enabled == step[c] = "enable"
  <2>1. status \in {"enabled", "disabled", "quarantined"} /\ enabled \in BOOLEAN
    OBVIOUS
  <2>2. installed' = [installed EXCEPT !.enabled = enabled, !.status = status]
    BY <1>4
  <2> HIDE DEF status, enabled
  <2>3. [installed EXCEPT !.enabled = enabled, !.status = status] \in Installation
    BY <1>2, <2>1 DEF Installation
  <2> QED BY <1>1, <1>4, <2>2, <2>3, InstallationWritten
<1> QED BY <1>3, <1>4 DEF SetEnabled

LEMMA RollbackStep ==
    ASSUME PluginAssumption, LifecycleInv, NEW c \in Caller, Rollback(c)
    PROVE  LifecycleInv'
<1> DEFINE status == IF held[c].sound THEN "rolled_back" ELSE "quarantined"
<1> DEFINE v == held[c].version
<1> DEFINE entry == [installed EXCEPT !.current = v, !.enabled = FALSE, !.status = status]
<1>1. /\ step[c] = "rollback" /\ Audited(c) /\ installed' = entry
      /\ UNCHANGED <<registry, releases, plans, runs, History>>
  BY DEF Rollback
<1>2. installed \in Installation /\ v \in Version
  BY <1>1, InstalledFields DEF LifecycleInv, RequestIsSound
<1>3. status \in {"rolled_back", "quarantined"}
  OBVIOUS
<1>4. entry \in Installation
  <2> HIDE DEF status, v
  <2> QED BY <1>2, <1>3 DEF Installation
<1> QED BY <1>1, <1>4, InstallationWritten

LEMMA PreviewStep ==
    ASSUME PluginAssumption, LifecycleInv, NEW c \in Caller, Preview(c)
    PROVE  LifecycleInv'
<1> DEFINE v == held[c].version
<1>1. PICK approval \in {"pending", "rejected"} :
        plans' = Append(plans, [candidate |-> v, approval |-> approval])
  BY DEF Preview
<1>2. /\ step[c] = "preview" /\ Len(plans) < MaxPlans /\ Stage(v) /\ Audited(c)
      /\ applied' = Append(applied, 0)
      /\ UNCHANGED <<registry, installed, runs, answers, executed>>
  BY DEF Preview
<1>3. v \in Version /\ Types /\ PluginTypeOK
  BY <1>2 DEF LifecycleInv, RequestIsSound, Types
<1>4. releases' \in ReleaseTable /\ Grows
  BY <1>2, <1>3, StageGrows
<1> DEFINE plan == [candidate |-> v, approval |-> approval]
<1>5. plan \in Plan
  BY <1>3 DEF Plan
<1> HIDE DEF plan, v
<1>6. plans' = Append(plans, plan)
  BY <1>1 DEF plan, v
<1>7. /\ plans' \in Seq(Plan) /\ Len(plans') = Len(plans) + 1 /\ Len(plans) \in Nat
      /\ applied' \in Seq(Nat) /\ Len(applied') = Len(applied) + 1
  BY <1>2, <1>3, <1>5, <1>6 DEF Types, PluginTypeOK
<1>8. DOMAIN applied' = DOMAIN plans'
  <2>1. Len(applied) = Len(plans)
    BY <1>3 DEF Types, PluginTypeOK
  <2> QED BY <2>1, <1>7
<1>9. PluginTypeOK' /\ runs' \in [PluginRequest -> Optional(Run)] /\ Len(plans') >= Len(plans)
  <2>1. Len(plans') <= MaxPlans /\ Len(plans') >= Len(plans)
    BY <1>2, <1>7 DEF PluginAssumption
  <2> QED BY <1>2, <1>3, <1>4, <1>7, <1>8, <2>1 DEF PluginTypeOK, Types
<1>10. AnswersStand' /\ ExecutedStands'
  BY <1>2, <1>4, AnswersStay, ExecutedStays DEF LifecycleInv
<1> QED BY <1>2, <1>4, <1>7, <1>9, <1>10, WriteStep DEF Audited

LEMMA SwitchStep ==
    ASSUME PluginAssumption, LifecycleInv, NEW c \in Caller, Switch(c)
    PROVE  LifecycleInv'
<1> DEFINE v == held[c].version
<1> DEFINE from == held[c].from
<1> DEFINE plan == held[c].plan
<1>1. /\ step[c] = "switch" /\ Audited(c) /\ MarkApplied(plan)
      /\ installed' = [installed EXCEPT !.previous = from, !.current = v]
      /\ applied' = IF v = from THEN applied ELSE [applied EXCEPT ![plan] = @ + 1]
      /\ UNCHANGED <<registry, releases, runs, answers, executed>>
  BY DEF Switch
<1>2. /\ installed \in Installation /\ v \in Version /\ from \in Version
      /\ plan <= Len(plans) /\ (v # from => plan # 0)
  BY <1>1, InstalledFields DEF LifecycleInv, RequestIsSound, Verified
<1>3. Types /\ PluginTypeOK /\ plan \in Nat /\ Len(plans) \in Nat /\ Grows
  BY <1>1 DEF LifecycleInv, Types, PluginTypeOK, Holding, Grows
<1> HIDE DEF v, from, plan
<1>4. installed' \in Installation /\ installed' # Absent
  BY <1>1, <1>2 DEF Installation, PluginAssumption
<1>5. plans' \in Seq(Plan) /\ Len(plans') = Len(plans)
  <2>1. CASE plan = 0
    BY <2>1, <1>1, <1>3 DEF MarkApplied, PluginTypeOK
  <2>2. CASE plan # 0
    <3> DEFINE entry == [plans[plan] EXCEPT !.approval = "applied"]
    <3>1. plan \in 1..Len(plans) /\ plans[plan] \in Plan
      BY <2>2, <1>2, <1>3 DEF PluginTypeOK
    <3>2. entry \in Plan
      BY <3>1 DEF Plan
    <3>3. plans' = [plans EXCEPT ![plan] = entry]
      BY <1>1, <2>2 DEF MarkApplied
    <3> HIDE DEF entry
    <3> QED BY <3>1, <3>2, <3>3, <1>3 DEF PluginTypeOK
  <2> QED BY <2>1, <2>2
<1>6. applied' \in Seq(Nat) /\ DOMAIN applied' = DOMAIN applied
  <2>1. CASE v = from
    BY <2>1, <1>1, <1>3 DEF Types
  <2>2. CASE v # from
    <3>1. plan \in DOMAIN applied /\ applied \in Seq(Nat)
      BY <2>2, <1>2, <1>3 DEF PluginTypeOK, Types
    <3>2. applied' = [applied EXCEPT ![plan] = applied[plan] + 1] /\ applied[plan] + 1 \in Nat
      BY <1>1, <2>2, <3>1
    <3> QED BY <3>1, <3>2
  <2> QED BY <2>1, <2>2
<1>7. DOMAIN plans' = DOMAIN plans
  BY <1>3, <1>5 DEF PluginTypeOK
<1>8. PluginTypeOK' /\ runs' \in [PluginRequest -> Optional(Run)] /\ Len(plans') >= Len(plans)
  <2>1. Len(plans') <= MaxPlans /\ Len(plans') >= Len(plans)
    BY <1>3, <1>5 DEF PluginTypeOK
  <2> QED BY <1>1, <1>3, <1>4, <1>5, <1>6, <1>7, <2>1 DEF PluginTypeOK, Types
<1>9. AnswersStand' /\ ExecutedStands'
  BY <1>1, <1>3, AnswersStay, ExecutedStays DEF LifecycleInv
<1> QED BY <1>1, <1>3, <1>4, <1>6, <1>8, <1>9, WriteStep DEF Audited

LEMMA ExecutedGrows ==
    ASSUME PluginAssumption, ExecutedStands, NEW v, Verified(v), UNCHANGED <<registry, releases>>,
           executed' = executed \cup {<<v, registry[v]>>}
    PROVE  ExecutedStands'
<1>1. \A e \in executed : e[1] \in Version /\ e[2] \in Clean /\ releases'[e[1]] = e[2]
  BY DEF ExecutedStands
<1> DEFINE e == <<v, registry[v]>>
<1>2. e[1] \in Version /\ e[2] \in Clean /\ releases'[e[1]] = e[2]
  BY DEF Verified
<1> HIDE DEF e
<1>3. executed' = executed \cup {e}
  BY DEF e
<1> QED BY <1>1, <1>2, <1>3 DEF ExecutedStands

LEMMA HealthStep ==
    ASSUME PluginAssumption, LifecycleInv, NEW c \in Caller, Health(c)
    PROVE  LifecycleInv'
<1>1. /\ step[c] = "health" /\ Audited(c) /\ UNCHANGED <<registry, Tables, answers, applied>>
      /\ executed' = executed \cup {<<held[c].version, registry[held[c].version]>>}
  BY DEF Health
<1>2. Verified(held[c].version) /\ Types /\ PluginTypeOK
  BY <1>1 DEF LifecycleInv, RequestIsSound, Types
<1>3. ExecutedStands' /\ AnswersStand'
  BY <1>1, <1>2, ExecutedGrows, AnswersStay DEF LifecycleInv, Tables
<1>4. PluginTypeOK' /\ runs' \in [PluginRequest -> Optional(Run)] /\ applied' \in Seq(Nat)
  BY <1>1, <1>2 DEF PluginTypeOK, Types, Tables
<1>5. Len(plans') >= Len(plans) /\ Grows
  BY <1>1, <1>2 DEF PluginTypeOK, Grows, Tables
<1> QED BY <1>1, <1>3, <1>4, <1>5, WriteStep DEF Audited, Tables

LEMMA AnswerGiven ==
    ASSUME AnswersStand, NEW r, NEW i, NEW x, answers' = answers \cup {<<r, i, x>>},
           \A q \in PluginRequest : runs[q] # Absent => runs'[q] = runs[q],
           x # "plugin_quarantined" =>
             /\ r \in PluginRequest /\ runs'[r] # Absent
             /\ x = IF runs'[r].input = i THEN runs'[r].outcome ELSE "idempotency_conflict"
    PROVE  AnswersStand'
<1>1. ASSUME NEW a \in answers, a[3] # "plugin_quarantined"
      PROVE  /\ a[1] \in PluginRequest /\ runs'[a[1]] # Absent
             /\ a[3] = IF runs'[a[1]].input = a[2] THEN runs'[a[1]].outcome
                       ELSE "idempotency_conflict"
  <2>1. /\ a[1] \in PluginRequest /\ runs[a[1]] # Absent
        /\ a[3] = IF runs[a[1]].input = a[2] THEN runs[a[1]].outcome
                  ELSE "idempotency_conflict"
    BY <1>1 DEF AnswersStand
  <2>2. runs'[a[1]] = runs[a[1]]
    BY <2>1
  <2> QED BY <2>1, <2>2
<1> DEFINE b == <<r, i, x>>
<1>2. b[1] = r /\ b[2] = i /\ b[3] = x
  OBVIOUS
<1> HIDE DEF b
<1>3. answers' = answers \cup {b}
  BY DEF b
<1>4. ASSUME b[3] # "plugin_quarantined"
      PROVE  /\ b[1] \in PluginRequest /\ runs'[b[1]] # Absent
             /\ b[3] = IF runs'[b[1]].input = b[2] THEN runs'[b[1]].outcome
                       ELSE "idempotency_conflict"
  BY <1>2, <1>4
<1> QED BY <1>1, <1>3, <1>4 DEF AnswersStand

LEMMA AskInvokeStep ==
    ASSUME PluginAssumption, LifecycleInv, NEW c \in Caller, AskInvoke(c)
    PROVE  LifecycleInv'
<1> DEFINE current == installed.current
<1> DEFINE sound == installed.enabled /\ installed.status # "quarantined"
<1>1. installed # Absent /\ UNCHANGED <<registry, Tables, executed, applied>>
  BY DEF AskInvoke
<1>2. installed \in Installation /\ current \in Version
  BY <1>1, InstalledFields DEF LifecycleInv
<1>3. PICK r \in PluginRequest, i \in PluginInput :
        \/ /\ Executable(current)
           /\ Go(c, "lookup", [Nothing EXCEPT !.request = r, !.input = i,
                    !.sound = sound, !.version = current])
           /\ UNCHANGED answers
        \/ /\ answers' = answers \cup {<<r, i, "plugin_quarantined">>}
           /\ UNCHANGED <<step, held>>
  BY DEF AskInvoke
<1>4. CASE /\ Executable(current)
           /\ Go(c, "lookup", [Nothing EXCEPT !.request = r, !.input = i,
                    !.sound = sound, !.version = current])
           /\ UNCHANGED answers
  <2> DEFINE h == [Nothing EXCEPT !.request = r, !.input = i, !.sound = sound, !.version = current]
  <2>1. Verified(current)
    BY <1>2, <1>4, ExecutableIsVerified
  <2>2. sound \in BOOLEAN
    BY <1>2 DEF Installation
  <2> HIDE DEF sound, current
  <2>3. h \in Holding /\ h.version = current /\ h.request = r /\ h.input = i /\ "lookup" \in Steps
    BY <1>2, <2>2 DEF Nothing, Holding, Optional, Steps
  <2>4. Go(c, "lookup", h) /\ UNCHANGED <<registry, Tables, History>>
    BY <1>1, <1>4 DEF History
  <2> HIDE DEF h
  <2>5. step'[c] = "lookup" /\ held'[c] = h
    BY <2>3, <2>4, GoParts DEF LifecycleInv
  <2>6. RequestIsSound(c)'
    BY <2>1, <2>3, <2>4, <2>5 DEF RequestIsSound, Verified, Tables
  <2> QED BY <2>3, <2>4, <2>6, ReadingStep
<1>5. CASE /\ answers' = answers \cup {<<r, i, "plugin_quarantined">>}
           /\ UNCHANGED <<step, held>>
  <2>1. UNCHANGED <<registry, releases, installed, plans, runs, step, held, executed, applied>>
    BY <1>1, <1>5 DEF Tables
  <2>2. AnswersStand'
    BY <1>5, <2>1, AnswerGiven DEF LifecycleInv
  <2>3. Types' /\ ExecutedStands'
    BY <2>1 DEF LifecycleInv, Types, PluginTypeOK, ExecutedStands
  <2>4. \A d \in Caller : RequestIsSound(d)'
    BY <2>1 DEF LifecycleInv, RequestIsSound, Registered, Verified
  <2> QED BY <2>2, <2>3, <2>4 DEF LifecycleInv
<1> QED BY <1>3, <1>4, <1>5

LEMMA LookupStep ==
    ASSUME PluginAssumption, LifecycleInv, NEW c \in Caller, Lookup(c)
    PROVE  LifecycleInv'
<1> DEFINE r == held[c].request
<1> DEFINE i == held[c].input
<1> DEFINE run == runs[r]
<1> DEFINE x == IF run.input = i THEN run.outcome ELSE "idempotency_conflict"
<1>1. step[c] = "lookup" /\ UNCHANGED <<registry, Tables, executed, applied>>
  BY DEF Lookup
<1>2. r \in PluginRequest /\ i \in PluginInput /\ Verified(held[c].version) /\ Types /\ PluginTypeOK
  BY <1>1 DEF LifecycleInv, RequestIsSound, Types
<1>3. CASE run # Absent /\ answers' = answers \cup {<<r, i, x>>} /\ Finish(c)
  <2>1. AnswersStand'
    BY <1>1, <1>2, <1>3, AnswerGiven DEF LifecycleInv, Tables
  <2>2. Grows /\ ExecutedStands'
    BY <1>1, ExecutedStays DEF LifecycleInv, Tables, Grows
  <2>3. PluginTypeOK' /\ runs' \in [PluginRequest -> Optional(Run)] /\ applied' \in Seq(Nat)
        /\ Len(plans') >= Len(plans)
    BY <1>1, <1>2 DEF PluginTypeOK, Types, Tables
  <2> QED BY <1>1, <1>3, <2>1, <2>2, <2>3, WriteStep DEF Finish, Tables
<1>4. CASE run = Absent /\ Go(c, "run", held[c]) /\ UNCHANGED answers
  <2>1. held[c] \in Holding /\ "run" \in Steps
    BY <1>2 DEF Types, Steps
  <2>2. step'[c] = "run" /\ held'[c] = held[c]
    BY <1>2, <1>4, <2>1, GoParts
  <2>3. RequestIsSound(c)'
    BY <1>1, <1>2, <2>2 DEF RequestIsSound, Verified, Tables
  <2> QED BY <1>1, <1>4, <2>1, <2>3, ReadingStep DEF History
<1> QED BY <1>3, <1>4 DEF Lookup

LEMMA ExecuteStep ==
    ASSUME PluginAssumption, LifecycleInv, NEW c \in Caller, Execute(c)
    PROVE  LifecycleInv'
<1>1. step[c] = "run" /\ UNCHANGED <<registry, Tables, answers, applied>>
  BY DEF Execute
<1>2. /\ held[c].request \in PluginRequest /\ held[c].input \in PluginInput
      /\ Verified(held[c].version) /\ Types /\ PluginTypeOK /\ held[c] \in Holding
  BY <1>1 DEF LifecycleInv, RequestIsSound, Types
<1>3. PICK outcome \in Outcome :
        /\ Go(c, "record", [held[c] EXCEPT !.outcome = outcome])
        /\ \/ executed' = executed \cup {<<held[c].version, registry[held[c].version]>>}
           \/ UNCHANGED executed
  BY DEF Execute, Outcome
<1> DEFINE h == [held[c] EXCEPT !.outcome = outcome]
<1>4. /\ h \in Holding /\ h.outcome = outcome /\ h.version = held[c].version
      /\ h.request = held[c].request /\ h.input = held[c].input
      /\ "record" \in Steps
  BY <1>2 DEF Holding, Optional, Steps
<1>5. Go(c, "record", h)
  BY <1>3
<1> HIDE DEF h
<1>6. /\ step'[c] = "record" /\ held'[c] = h
      /\ step' \in [Caller -> Steps] /\ held' \in [Caller -> Holding]
      /\ \A d \in Caller : d # c => step'[d] = step[d] /\ held'[d] = held[d]
  BY <1>2, <1>4, <1>5, GoParts
<1>7. RequestIsSound(c)'
  BY <1>1, <1>2, <1>4, <1>6 DEF RequestIsSound, Verified, Tables
<1>8. Types'
  BY <1>1, <1>2, <1>6 DEF Types, PluginTypeOK, Tables
<1>9. LeavesOthers(c) /\ Grows
  BY <1>1, <1>2, <1>6 DEF LeavesOthers, Grows, Tables, PluginTypeOK
<1>10. \A d \in Caller : RequestIsSound(d)'
  BY <1>7, <1>8, <1>9, OthersStaySound
<1>11. ExecutedStands'
  BY <1>1, <1>2, <1>3, <1>9, ExecutedGrows, ExecutedStays DEF LifecycleInv, Tables
<1>12. AnswersStand'
  BY <1>1, AnswersStay DEF LifecycleInv, Tables
<1> QED BY <1>8, <1>10, <1>11, <1>12 DEF LifecycleInv

LEMMA RecordStep ==
    ASSUME PluginAssumption, LifecycleInv, NEW c \in Caller, RecordRun(c)
    PROVE  LifecycleInv'
<1> DEFINE r == held[c].request
<1> DEFINE entry == [input |-> held[c].input, version |-> held[c].version,
                     outcome |-> held[c].outcome]
<1>1. /\ step[c] = "record" /\ Finish(c)
      /\ UNCHANGED <<registry, releases, installed, plans, executed, applied>>
  BY DEF RecordRun
<1>2. /\ r \in PluginRequest /\ held[c].input \in PluginInput /\ held[c].outcome \in Outcome
      /\ held[c].version \in Version /\ Types /\ PluginTypeOK
  BY <1>1 DEF LifecycleInv, RequestIsSound, Types, Verified
<1>3. entry \in Run /\ entry # Absent
  BY <1>2 DEF Run, Outcome, PluginAssumption
<1>4. runs' \in [PluginRequest -> Optional(Run)] /\ AnswersStand'
  <2>1. CASE /\ runs[r] = Absent /\ runs' = [runs EXCEPT ![r] = entry]
             /\ answers' = answers \cup {<<r, held[c].input, held[c].outcome>>}
    <3>1. runs'[r] = entry /\ \A q \in PluginRequest : runs[q] # Absent => runs'[q] = runs[q]
      BY <1>2, <2>1 DEF Types
    <3>2. entry.input = held[c].input /\ entry.outcome = held[c].outcome
      OBVIOUS
    <3> HIDE DEF entry
    <3>3. AnswersStand'
      BY <1>2, <1>3, <2>1, <3>1, <3>2, AnswerGiven DEF LifecycleInv
    <3>4. runs' \in [PluginRequest -> Optional(Run)]
      BY <1>2, <1>3, <2>1 DEF Types, Optional
    <3> QED BY <3>3, <3>4
  <2>2. CASE UNCHANGED <<runs, answers>>
    BY <1>2, <2>2, AnswersStay DEF LifecycleInv, Types
  <2> QED BY <2>1, <2>2 DEF RecordRun
<1>5. PluginTypeOK' /\ applied' \in Seq(Nat) /\ Len(plans') >= Len(plans)
  BY <1>1, <1>2, <1>4 DEF PluginTypeOK, Types, Optional
<1>6. Grows /\ ExecutedStands'
  BY <1>1, ExecutedStays DEF LifecycleInv, Grows
<1> QED BY <1>1, <1>4, <1>5, <1>6, WriteStep DEF Finish

LEMMA RestartStep ==
    ASSUME PluginAssumption, LifecycleInv, Restart
    PROVE  LifecycleInv'
<1>1. /\ registry' \in Build /\ UNCHANGED <<Tables, History>>
      /\ step' = [c \in Caller |-> "idle"] /\ held' = [c \in Caller |-> Nothing]
  BY DEF Restart
<1>2. registry' \in Registry
  BY <1>1 DEF PluginAssumption, Registry
<1>3. Types'
  BY <1>1, <1>2, NothingHeld DEF LifecycleInv, Types, PluginTypeOK, Tables, History, Steps
<1>4. \A d \in Caller : RequestIsSound(d)'
  BY <1>1 DEF RequestIsSound
<1>5. AnswersStand' /\ ExecutedStands'
  BY <1>1 DEF LifecycleInv, AnswersStand, ExecutedStands, Tables, History
<1> QED BY <1>3, <1>4, <1>5 DEF LifecycleInv

-----------------------------------------------------------------------------
LEMMA LifecycleInit ==
    ASSUME PluginAssumption, PluginInit
    PROVE  LifecycleInv
<1>1. registry \in Registry
  BY DEF PluginInit, PluginAssumption, Registry
<1>2. plans \in Seq(Plan) /\ Len(plans) = 0 /\ applied \in Seq(Nat) /\ DOMAIN applied = DOMAIN plans
  BY DEF PluginInit
<1>3. Types
  BY <1>1, <1>2, NothingHeld
     DEF PluginInit, Types, PluginTypeOK, ReleaseTable, Optional, Steps, PluginAssumption
<1>4. \A c \in Caller : RequestIsSound(c)
  BY DEF PluginInit, RequestIsSound
<1>5. AnswersStand /\ ExecutedStands
  BY DEF PluginInit, AnswersStand, ExecutedStands
<1> QED BY <1>3, <1>4, <1>5 DEF LifecycleInv

LEMMA LifecycleNext ==
    ASSUME PluginAssumption, LifecycleInv, [PluginNext]_pluginVars
    PROVE  LifecycleInv'
<1>1. CASE UNCHANGED pluginVars
  BY <1>1 DEF pluginVars, LifecycleInv, Types, PluginTypeOK, RequestIsSound, Registered, Verified,
        AnswersStand, ExecutedStands
<1>2. CASE Restart
  BY <1>2, RestartStep
<1>3. ASSUME NEW c \in Caller,
        \/ AskInstall(c) \/ Install(c) \/ Audit(c)
        \/ AskEnabled(c) \/ SetEnabled(c)
        \/ AskPreview(c) \/ Preview(c)
        \/ AskSwitch(c) \/ ChoosePlan(c) \/ Switch(c)
        \/ AskRollback(c) \/ Rollback(c)
        \/ AskHealth(c) \/ Health(c)
        \/ AskInvoke(c) \/ Lookup(c) \/ Execute(c) \/ RecordRun(c)
      PROVE LifecycleInv'
  BY <1>3, AskInstallStep, InstallStep, AuditStep, AskEnabledStep, SetEnabledStep,
     AskPreviewStep, PreviewStep, AskSwitchStep, ChoosePlanStep, SwitchStep, AskRollbackStep,
     RollbackStep, AskHealthStep, HealthStep, AskInvokeStep, LookupStep, ExecuteStep, RecordStep
<1> QED BY <1>1, <1>2, <1>3 DEF PluginNext

LEMMA LifecycleInvSuffices ==
    ASSUME LifecycleInv
    PROVE  PluginRunsVerified /\ OneAnswer
<1>1. PluginRunsVerified
  BY DEF LifecycleInv, Types, ExecutedStands, PluginRunsVerified, RunsVerified
<1>2. OneAnswer
  BY DEF LifecycleInv, AnswersStand, OneAnswer
<1> QED BY <1>1, <1>2

LEMMA Lifecycle == ASSUME PluginAssumption PROVE PluginSpec => []LifecycleInv
<1>1. PluginInit => LifecycleInv
  BY LifecycleInit
<1>2. LifecycleInv /\ [PluginNext]_pluginVars => LifecycleInv'
  BY LifecycleNext
<1> QED BY <1>1, <1>2, PTL DEF PluginSpec

(* Whatever other requests and later builds change in between, invoke and
   healthcheck run a handler only if its manifest is the one staged under its
   version and passed the scan. *)
THEOREM RunSafety == ASSUME PluginAssumption PROVE PluginSpec => []PluginRunsVerified
<1>1. LifecycleInv => PluginRunsVerified
  BY LifecycleInvSuffices
<1> QED BY <1>1, Lifecycle, PTL

(* A request id of invoke has one run, and every caller that repeats the request
   is told its outcome, after a restart too. *)
THEOREM AnswerSafety == ASSUME PluginAssumption PROVE PluginSpec => []OneAnswer
<1>1. LifecycleInv => OneAnswer
  BY LifecycleInvSuffices
<1> QED BY <1>1, Lifecycle, PTL

-----------------------------------------------------------------------------
(* One request at a time. *)
LEMMA EnabledStays ==
    ASSUME PluginAssumption, Types, EnabledIsVerified, Grows, installed' = installed
    PROVE  EnabledIsVerified'
<1> SUFFICES ASSUME installed # Absent, installed.enabled
             PROVE  releases'[installed.current] \in Clean
  BY DEF EnabledIsVerified
<1>1. installed.current \in Version /\ releases[installed.current] \in Clean
  BY InstalledFields DEF EnabledIsVerified
<1>2. releases[installed.current] # Absent
  BY <1>1 DEF PluginAssumption
<1> QED BY <1>1, <1>2 DEF Grows

(* A step of the one request under way, or of one that starts. *)
LEMMA AloneStep ==
    ASSUME LifecycleInv, AlonePluginInv, PluginAlone, NEW c \in Caller, NEW next \in Steps,
           NEW h \in Holding, Go(c, next, h), step[c] # "idle" \/ next # "idle",
           RequestIsFresh(c)', EnabledIsVerified', PlansAreSound'
    PROVE  AlonePluginInv'
<1>1. /\ step'[c] = next
      /\ \A d \in Caller : d # c => step'[d] = step[d]
  BY GoParts DEF LifecycleInv
<1>2. \A d \in Caller : d # c => step'[d] = "idle"
  BY <1>1 DEF AlonePluginInv, OneAtATime, PluginAlone
<1>3. \A d \in Caller : RequestIsFresh(d)'
  BY <1>2 DEF RequestIsFresh
<1>4. OneAtATime'
  BY DEF PluginAlone, OneAtATime
<1> QED BY <1>3, <1>4 DEF AlonePluginInv

LEMMA QuietStep ==
    ASSUME PluginAssumption, LifecycleInv, AlonePluginInv, PluginAlone, NEW c \in Caller,
           NEW next \in Steps, NEW h \in Holding, Go(c, next, h),
           step[c] # "idle" \/ next # "idle", next \notin {"enable", "switch"},
           UNCHANGED <<installed, plans, applied>>, Grows
    PROVE  AlonePluginInv'
<1>1. step'[c] = next
  BY GoParts DEF LifecycleInv
<1>2. RequestIsFresh(c)'
  BY <1>1 DEF RequestIsFresh
<1>3. EnabledIsVerified'
  BY EnabledStays DEF LifecycleInv, AlonePluginInv
<1>4. PlansAreSound'
  BY DEF AlonePluginInv, PlansAreSound
<1> QED BY <1>2, <1>3, <1>4, AloneStep

LEMMA QuietRequest ==
    ASSUME PluginAssumption, LifecycleInv, AlonePluginInv, PluginAlone, NEW c \in Caller,
           \/ AskInstall(c) \/ Audit(c) \/ AskPreview(c) \/ AskSwitch(c) \/ AskRollback(c)
           \/ AskHealth(c) \/ Health(c) \/ AskInvoke(c) \/ Lookup(c) \/ Execute(c) \/ RecordRun(c)
    PROVE  AlonePluginInv'
<1>1. UNCHANGED <<releases, installed, plans, applied>>
  BY DEF AskInstall, Audit, AskPreview, AskSwitch, AskRollback, AskHealth, Health, AskInvoke,
     Lookup, Execute, RecordRun, Tables, History
<1>2. Grows /\ Types'
  <2>1. LifecycleInv'
    BY AskInstallStep, AuditStep, AskPreviewStep, AskSwitchStep, AskRollbackStep, AskHealthStep,
       HealthStep, AskInvokeStep, LookupStep, ExecuteStep, RecordStep
  <2> QED BY <1>1, <2>1 DEF Grows, LifecycleInv
<1>3. \/ \E next \in Steps \ {"enable", "switch"} : \E h :
            Go(c, next, h) /\ (step[c] # "idle" \/ next # "idle")
      \/ UNCHANGED <<step, held>>
  <2> DEFINE Quiet == Steps \ {"enable", "switch"}
  <2>0. /\ {"idle", "audit", "install", "choose", "lookup"} \subseteq Quiet
        /\ step[c] # "idle" \/ "install" # "idle"
        /\ "choose" # "idle" /\ "lookup" # "idle"
    BY DEF Steps
  <2> HIDE DEF Quiet
  <2>1. CASE AskInstall(c)
    <3>1. PICK v \in Version :
            Go(c, "install", [Nothing EXCEPT !.from = InstalledVersion, !.version = v])
      BY <2>1 DEF AskInstall
    <3>2. \E next \in Quiet : \E h : Go(c, next, h) /\ (step[c] # "idle" \/ next # "idle")
      BY <2>0, <3>1, Zenon
    <3> QED BY <3>2 DEF Quiet
  <2>2. CASE Audit(c)
    BY <2>2 DEF Audit, Finish, Steps
  <2>3. CASE AskPreview(c)
    BY <2>3 DEF AskPreview, Steps
  <2>4. CASE AskSwitch(c)
    <3>1. PICK v \in Version :
            Go(c, "choose", [Nothing EXCEPT !.from = installed.current, !.version = v])
      BY <2>4 DEF AskSwitch
    <3>2. \E next \in Quiet : \E h : Go(c, next, h) /\ (step[c] # "idle" \/ next # "idle")
      BY <2>0, <3>1, Zenon
    <3> QED BY <3>2 DEF Quiet
  <2>5. CASE AskRollback(c)
    BY <2>5 DEF AskRollback, Steps
  <2>6. CASE AskHealth(c)
    BY <2>6 DEF AskHealth, Steps
  <2>7. CASE Health(c)
    BY <2>7 DEF Health, Audited, Steps
  <2>8. CASE AskInvoke(c)
    <3>1. \/ UNCHANGED <<step, held>>
          \/ \E h : Go(c, "lookup", h)
      BY <2>8, Zenon DEF AskInvoke
    <3>2. ASSUME NEW h, Go(c, "lookup", h)
          PROVE  \E next \in Quiet : \E k : Go(c, next, k) /\ (step[c] # "idle" \/ next # "idle")
      BY <2>0, <3>2, Zenon
    <3> QED BY <3>1, <3>2 DEF Quiet
  <2>9. CASE Lookup(c)
    BY <2>9 DEF Lookup, Finish, Steps
  <2>10. CASE Execute(c)
    BY <2>10 DEF Execute, Steps
  <2>11. CASE RecordRun(c)
    BY <2>11 DEF RecordRun, Finish, Steps
  <2> QED BY <2>1, <2>2, <2>3, <2>4, <2>5, <2>6, <2>7, <2>8, <2>9, <2>10, <2>11
<1>4. CASE UNCHANGED <<step, held>>
  BY <1>1, <1>4 DEF AlonePluginInv, OneAtATime, RequestIsFresh, EnabledIsVerified, PlansAreSound
<1>5. ASSUME NEW next \in Steps \ {"enable", "switch"}, NEW h, Go(c, next, h),
             step[c] # "idle" \/ next # "idle"
      PROVE  AlonePluginInv'
  <2>1. h \in Holding
    BY <1>2, <1>5 DEF Go, LifecycleInv, Types
  <2> QED BY <1>1, <1>2, <1>5, <2>1, QuietStep
<1> QED BY <1>3, <1>4, <1>5

LEMMA AloneInstall ==
    ASSUME PluginAssumption, LifecycleInv, AlonePluginInv, PluginAlone, NEW c \in Caller, Install(c)
    PROVE  AlonePluginInv'
<1> DEFINE v == held[c].version
<1>1. /\ step[c] = "install" /\ UNCHANGED <<plans, applied>>
      /\ \E next \in {"idle", "audit"} : Go(c, next, Nothing)
      /\ UNCHANGED releases \/ Stage(v)
      /\ \/ installed' = installed
         \/ installed' # Absent => ~installed'.enabled
  BY DEF Install, Audited, Finish, Tables, History
<1>2. v \in Version /\ PluginTypeOK /\ Types
  BY <1>1 DEF LifecycleInv, RequestIsSound, Types
<1>3. Grows
  BY <1>1, <1>2, StageGrows DEF Grows
<1>4. EnabledIsVerified'
  BY <1>1, <1>2, <1>3, EnabledStays DEF AlonePluginInv, EnabledIsVerified
<1>5. PlansAreSound'
  BY <1>1 DEF AlonePluginInv, PlansAreSound
<1>6. PICK next \in {"idle", "audit"} : Go(c, next, Nothing)
  BY <1>1
<1>7. next \in Steps /\ Nothing \in Holding
  BY NothingHeld DEF Steps
<1>8. step'[c] = next
  BY <1>2, <1>6, <1>7, GoParts
<1>9. RequestIsFresh(c)'
  BY <1>8 DEF RequestIsFresh
<1> QED BY <1>1, <1>4, <1>5, <1>6, <1>7, <1>9, AloneStep

LEMMA AloneAskEnabled ==
    ASSUME PluginAssumption, LifecycleInv, AlonePluginInv, PluginAlone, NEW c \in Caller,
           AskEnabled(c)
    PROVE  AlonePluginInv'
<1> DEFINE sound == installed.status # "quarantined" /\ Executable(installed.current)
<1> DEFINE h == [Nothing EXCEPT !.sound = sound]
<1>1. PICK next \in {"enable", "disable"} : Go(c, next, h)
  BY DEF AskEnabled
<1>2. UNCHANGED <<registry, Tables, History>>
  BY DEF AskEnabled
<1>3. sound => releases[installed.current] \in Clean
  BY DEF Executable, Safe
<1>4. h \in Holding /\ h.sound = sound /\ next \in Steps
  <2>1. sound \in BOOLEAN
    OBVIOUS
  <2> HIDE DEF sound
  <2> QED BY <2>1 DEF Nothing, Holding, Optional, Steps
<1> HIDE DEF h, sound
<1>5. step'[c] = next /\ held'[c] = h
  BY <1>1, <1>4, GoParts DEF LifecycleInv
<1>6. RequestIsFresh(c)'
  BY <1>2, <1>3, <1>4, <1>5 DEF RequestIsFresh, Tables
<1>7. EnabledIsVerified' /\ PlansAreSound'
  BY <1>2 DEF AlonePluginInv, EnabledIsVerified, PlansAreSound, Tables, History
<1> QED BY <1>1, <1>4, <1>6, <1>7, AloneStep

LEMMA AloneChoosePlan ==
    ASSUME PluginAssumption, LifecycleInv, AlonePluginInv, PluginAlone, NEW c \in Caller,
           ChoosePlan(c)
    PROVE  AlonePluginInv'
<1> DEFINE v == held[c].version
<1> DEFINE plan == LatestPlan(v)
<1> DEFINE h == [held[c] EXCEPT !.plan = plan]
<1>1. step[c] = "choose" /\ UNCHANGED <<registry, Tables, History>>
  BY DEF ChoosePlan
<1>2. /\ EnabledIsVerified' /\ PlansAreSound' /\ Grows
      /\ UNCHANGED <<installed, plans, applied>>
  BY <1>1 DEF AlonePluginInv, EnabledIsVerified, PlansAreSound, Tables, History, Grows
<1>3. CASE Finish(c)
  <2>1. "idle" \in Steps /\ Nothing \in Holding
    BY NothingHeld DEF Steps
  <2> QED BY <1>1, <1>2, <1>3, <2>1, QuietStep DEF Finish
<1>4. CASE (v = held[c].from \/ Pending(plan)) /\ Go(c, "switch", h)
  <2>1. plan \in Nat /\ held[c] \in Holding
    BY LatestPlanIsPlan DEF LifecycleInv, Types, PluginTypeOK
  <2>2. v # held[c].from => plans[plan].approval # "applied"
    BY <1>4 DEF Pending
  <2> HIDE DEF plan
  <2>3. /\ h \in Holding /\ h.version = v /\ h.from = held[c].from /\ h.plan = plan
        /\ "switch" \in Steps
    BY <2>1 DEF Holding, Steps
  <2> HIDE DEF h, v
  <2>4. step'[c] = "switch" /\ held'[c] = h
    BY <1>4, <2>3, GoParts DEF LifecycleInv
  <2>5. RequestIsFresh(c)'
    BY <1>2, <2>2, <2>3, <2>4 DEF RequestIsFresh
  <2> QED BY <1>1, <1>2, <1>4, <2>3, <2>5, AloneStep
<1> QED BY <1>3, <1>4 DEF ChoosePlan

(* A request that ends with the installation and the plans written. *)
LEMMA AloneWrite ==
    ASSUME LifecycleInv, AlonePluginInv, PluginAlone, NEW c \in Caller, Audited(c),
           step[c] # "idle", EnabledIsVerified', PlansAreSound'
    PROVE  AlonePluginInv'
<1>1. "audit" \in Steps /\ Nothing \in Holding
  BY NothingHeld DEF Steps
<1>2. step'[c] = "audit"
  BY <1>1, GoParts DEF LifecycleInv, Audited
<1>3. RequestIsFresh(c)'
  BY <1>2 DEF RequestIsFresh
<1> QED BY <1>1, <1>3, AloneStep DEF Audited

LEMMA AloneSetEnabled ==
    ASSUME PluginAssumption, LifecycleInv, AlonePluginInv, PluginAlone, NEW c \in Caller,
           SetEnabled(c)
    PROVE  AlonePluginInv'
<1>1. /\ step[c] \in {"enable", "disable"}
      /\ UNCHANGED <<registry, releases, plans, runs, History>>
  BY DEF SetEnabled
<1>2. PlansAreSound' /\ Grows /\ applied' = applied
  BY <1>1 DEF AlonePluginInv, PlansAreSound, History, Grows
<1>3. installed \in Installation
  BY <1>1, InstalledFields DEF LifecycleInv, RequestIsSound
<1>4. CASE Finish(c) /\ UNCHANGED installed
  <2>1. "idle" \in Steps /\ Nothing \in Holding
    BY NothingHeld DEF Steps
  <2> QED BY <1>1, <1>2, <1>4, <2>1, QuietStep DEF Finish
<1>5. CASE /\ step[c] = "disable" \/ held[c].sound
           /\ Audited(c)
           /\ installed' = [installed EXCEPT !.enabled = step[c] = "enable",
                !.status = IF ~held[c].sound THEN "quarantined"
                           ELSE IF step[c] = "enable" THEN "enabled" ELSE "disabled"]
  <2> DEFINE status == IF ~held[c].sound THEN "quarantined"
                           ELSE IF step[c] = "enable" THEN "enabled" ELSE "disabled"
  <2> DEFINE enabled == step[c] = "enable"
  <2>1. enabled => releases[installed.current] \in Clean
    BY <1>1, <1>5 DEF AlonePluginInv, RequestIsFresh
  <2>2. installed' = [installed EXCEPT !.enabled = enabled, !.status = status]
    BY <1>5
  <2> HIDE DEF status, enabled
  <2>3. installed'.enabled = enabled /\ installed'.current = installed.current
    BY <1>3, <2>2 DEF Installation
  <2>4. EnabledIsVerified'
    BY <1>1, <2>1, <2>3 DEF EnabledIsVerified
  <2> QED BY <1>1, <1>2, <1>5, <2>4, AloneWrite
<1> QED BY <1>4, <1>5 DEF SetEnabled

LEMMA AlonePreview ==
    ASSUME PluginAssumption, LifecycleInv, AlonePluginInv, PluginAlone, NEW c \in Caller,
           Preview(c)
    PROVE  AlonePluginInv'
<1> DEFINE v == held[c].version
<1>1. PICK approval \in {"pending", "rejected"} :
        plans' = Append(plans, [candidate |-> v, approval |-> approval])
  BY DEF Preview
<1>2. /\ step[c] = "preview" /\ Stage(v) /\ Audited(c) /\ installed' = installed
      /\ applied' = Append(applied, 0)
  BY DEF Preview
<1>3. v \in Version /\ Types /\ PluginTypeOK
  BY <1>2 DEF LifecycleInv, RequestIsSound, Types
<1>4. EnabledIsVerified'
  BY <1>2, <1>3, StageGrows, EnabledStays DEF AlonePluginInv
<1> DEFINE plan == [candidate |-> v, approval |-> approval]
<1>5. plan \in Plan /\ plan.approval # "applied"
  BY <1>3 DEF Plan
<1> HIDE DEF plan, v
<1>6. plans' = Append(plans, plan)
  BY <1>1 DEF plan, v
<1>7. plans \in Seq(Plan) /\ applied \in Seq(Nat) /\ Len(applied) = Len(plans)
  BY <1>3 DEF Types, PluginTypeOK
<1>8. ASSUME NEW i \in DOMAIN plans'
      PROVE  applied'[i] <= IF plans'[i].approval = "applied" THEN 1 ELSE 0
  <2>1. CASE i = Len(plans) + 1
    <3>1. plans'[i] = plan /\ applied'[i] = 0
      BY <2>1, <1>2, <1>5, <1>6, <1>7
    <3> QED BY <3>1, <1>5
  <2>2. CASE i # Len(plans) + 1
    <3>1. i \in DOMAIN plans /\ plans'[i] = plans[i] /\ applied'[i] = applied[i]
      BY <2>2, <1>2, <1>5, <1>6, <1>7, <1>8
    <3> QED BY <3>1 DEF AlonePluginInv, PlansAreSound
  <2> QED BY <2>1, <2>2
<1>9. PlansAreSound'
  BY <1>8 DEF PlansAreSound
<1> QED BY <1>2, <1>4, <1>9, AloneWrite

LEMMA AloneSwitch ==
    ASSUME PluginAssumption, LifecycleInv, AlonePluginInv, PluginAlone, NEW c \in Caller,
           Switch(c)
    PROVE  AlonePluginInv'
<1> DEFINE v == held[c].version
<1> DEFINE from == held[c].from
<1> DEFINE plan == held[c].plan
<1>1. /\ step[c] = "switch" /\ Audited(c) /\ MarkApplied(plan)
      /\ installed' = [installed EXCEPT !.previous = from, !.current = v]
      /\ applied' = IF v = from THEN applied ELSE [applied EXCEPT ![plan] = @ + 1]
      /\ UNCHANGED <<registry, releases, runs, answers, executed>>
  BY DEF Switch
<1>2. /\ installed \in Installation /\ Verified(v)
      /\ plan <= Len(plans) /\ (v # from => plan # 0)
  BY <1>1, InstalledFields DEF LifecycleInv, RequestIsSound
<1>3. /\ plan \in Nat /\ plans \in Seq(Plan) /\ applied \in Seq(Nat)
      /\ Len(applied) = Len(plans)
  BY DEF LifecycleInv, Types, PluginTypeOK, Holding
<1>4. v # from => plans[plan].approval # "applied"
  BY <1>1 DEF AlonePluginInv, RequestIsFresh
<1> HIDE DEF v, from, plan
<1>5. installed'.current = v
  BY <1>1, <1>2 DEF Installation
<1>6. EnabledIsVerified'
  BY <1>1, <1>2, <1>5 DEF EnabledIsVerified, Verified
<1>7. PlansAreSound'
  <2>1. CASE plan = 0
    BY <2>1, <1>1, <1>2 DEF MarkApplied, AlonePluginInv, PlansAreSound
  <2>2. CASE plan # 0
    <3>1. plan \in DOMAIN plans /\ plans[plan] \in Plan
      BY <2>2, <1>2, <1>3
    <3> DEFINE entry == [plans[plan] EXCEPT !.approval = "applied"]
    <3>2. plans' = [plans EXCEPT ![plan] = entry] /\ entry.approval = "applied"
      BY <1>1, <2>2, <3>1 DEF MarkApplied, Plan
    <3> HIDE DEF entry
    <3>3. /\ \A i \in DOMAIN plans : applied[i] \in Nat
          /\ \A i \in DOMAIN plans :
                applied[i] <= IF plans[i].approval = "applied" THEN 1 ELSE 0
      BY <1>3 DEF AlonePluginInv, PlansAreSound
    <3>4. applied'[plan] <= 1
      BY <1>1, <1>3, <1>4, <3>1, <3>3
    <3>5. \A i \in DOMAIN plans : i # plan => applied'[i] = applied[i] /\ plans'[i] = plans[i]
      BY <1>1, <1>3, <3>2
    <3>6. plans'[plan].approval = "applied" /\ DOMAIN plans' = DOMAIN plans
      BY <1>3, <3>1, <3>2
    <3> QED BY <3>3, <3>4, <3>5, <3>6 DEF PlansAreSound
  <2> QED BY <2>1, <2>2
<1> QED BY <1>1, <1>6, <1>7, AloneWrite

LEMMA AloneRollback ==
    ASSUME PluginAssumption, LifecycleInv, AlonePluginInv, PluginAlone, NEW c \in Caller,
           Rollback(c)
    PROVE  AlonePluginInv'
<1> DEFINE status == IF held[c].sound THEN "rolled_back" ELSE "quarantined"
<1> DEFINE v == held[c].version
<1>1. /\ step[c] = "rollback" /\ Audited(c)
      /\ installed' = [installed EXCEPT !.current = v, !.enabled = FALSE, !.status = status]
      /\ UNCHANGED <<plans, applied>>
  BY DEF Rollback, History
<1>2. installed \in Installation
  BY <1>1, InstalledFields DEF LifecycleInv, RequestIsSound
<1> HIDE DEF status, v
<1>3. ~installed'.enabled
  BY <1>1, <1>2 DEF Installation
<1>4. EnabledIsVerified' /\ PlansAreSound'
  BY <1>1, <1>3 DEF EnabledIsVerified, AlonePluginInv, PlansAreSound
<1> QED BY <1>1, <1>4, AloneWrite

LEMMA AloneNext ==
    ASSUME PluginAssumption, LifecycleInv, AlonePluginInv, [PluginNext /\ PluginAlone]_pluginVars
    PROVE  AlonePluginInv'
<1>1. CASE UNCHANGED pluginVars
  BY <1>1 DEF pluginVars, AlonePluginInv, OneAtATime, RequestIsFresh, EnabledIsVerified,
        PlansAreSound
<1>2. CASE Restart
  <2>1. /\ step' = [c \in Caller |-> "idle"]
        /\ UNCHANGED <<releases, installed, plans, applied>>
    BY <1>2 DEF Restart, Tables, History
  <2> QED BY <2>1 DEF AlonePluginInv, OneAtATime, RequestIsFresh, EnabledIsVerified, PlansAreSound
<1>3. ASSUME NEW c \in Caller, PluginAlone,
        \/ AskInstall(c) \/ Install(c) \/ Audit(c)
        \/ AskEnabled(c) \/ SetEnabled(c)
        \/ AskPreview(c) \/ Preview(c)
        \/ AskSwitch(c) \/ ChoosePlan(c) \/ Switch(c)
        \/ AskRollback(c) \/ Rollback(c)
        \/ AskHealth(c) \/ Health(c)
        \/ AskInvoke(c) \/ Lookup(c) \/ Execute(c) \/ RecordRun(c)
      PROVE AlonePluginInv'
  BY <1>3, QuietRequest, AloneInstall, AloneAskEnabled, AloneSetEnabled, AlonePreview,
     AloneChoosePlan, AloneSwitch, AloneRollback
<1> QED BY <1>1, <1>2, <1>3 DEF PluginNext

(* What the behaviours of MCBackground do to the plugin. *)
LEMMA BackgroundPlugin ==
    ASSUME [BackgroundNext]_<<area, alone, vars, pluginVars>>
    PROVE  /\ alone' = alone
           /\ [PluginNext]_pluginVars
           /\ alone => [PluginNext /\ PluginAlone]_pluginVars
BY DEF BackgroundNext

(* With one request at a time, an enabled plugin's release passed the scan when it
   was staged, and an update plan moves the installation at most once, after every
   sequence of installs, previews, switches, rollbacks and restarts. *)
THEOREM UpdateSafety ==
    ASSUME PluginAssumption
    PROVE  BackgroundSpec => []AloneUpdatesAreVerified
<1> DEFINE AloneKept == LifecycleInv /\ (alone => AlonePluginInv)
<1>1. BackgroundInit => AloneKept
  <2>1. PluginInit => AlonePluginInv
    BY DEF PluginInit, AlonePluginInv, OneAtATime, RequestIsFresh, EnabledIsVerified, PlansAreSound
  <2> QED BY <2>1, LifecycleInit DEF BackgroundInit
<1>2. AloneKept /\ [BackgroundNext]_<<area, alone, vars, pluginVars>> => AloneKept'
  BY BackgroundPlugin, LifecycleNext, AloneNext
<1>3. LifecycleInv /\ AlonePluginInv => UpdatesAreVerified
  <2> SUFFICES ASSUME LifecycleInv, AlonePluginInv PROVE UpdatesAreVerified
    OBVIOUS
  <2>1. ASSUME NEW i \in DOMAIN applied PROVE applied[i] <= 1
    <3>1. i \in DOMAIN plans /\ applied[i] \in Nat
      BY DEF LifecycleInv, Types, PluginTypeOK
    <3> QED BY <3>1 DEF AlonePluginInv, PlansAreSound
  <2> QED BY <2>1 DEF AlonePluginInv, UpdatesAreVerified, PlanAppliedOnce
<1>4. AloneKept => AloneUpdatesAreVerified
  BY <1>3 DEF AloneUpdatesAreVerified
<1> HIDE DEF AloneKept
<1> QED BY <1>1, <1>2, <1>4, PTL DEF BackgroundSpec
===============================================================================
