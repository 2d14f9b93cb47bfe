------------------------------ MODULE TaskQueue ------------------------------
(***************************************************************************)
(* The durable task queue: db/task_repository.py with the workers of       *)
(* services/task_service.py and the cancel, resume and retry requests of   *)
(* api/tasks.py.  All of them run on threads, and several run at a time.   *)
(*                                                                         *)
(* Under SQLite's rules (see CommandService) a SELECT before a             *)
(* transaction's first write is not part of it: claim_next, cancel and     *)
(* _requeue read a row in one step and write in a later one; their writes, *)
(* and the whole of complete and fail, are one step each.  Of the columns, *)
(* progress, payload, result and last_error steer nothing and are left     *)
(* out; available_at is reduced to whether it has passed.  The queue holds *)
(* one stage: every SELECT is limited to one.  Status `finalizing' lives   *)
(* only inside complete's transaction, and no code sets `failed'.          *)
(***************************************************************************)
EXTENDS Integers, FiniteSets

CONSTANTS
    Task,         \* task ids
    Worker,       \* threads that execute run_one
    User,         \* threads that execute cancel, resume or retry requests
    Limit,        \* values of max_attempts at creation
    MaxVersion    \* bound: a request starts only on a task below this version

ASSUME TaskAssumption  == Task # {}
ASSUME LimitAssumption == Limit \subseteq Nat \ {0} /\ MaxVersion \in Nat

Stopped   == {"completed", "cancelled", "dead_letter"}
Claimable == {"pending", "retrying"}
Status    == Stopped \cup Claimable \cup {"absent", "processing"}

Row     == [status : Status, current_attempt : Nat, max_attempts : Nat,
            version : Nat, due : BOOLEAN]
Lease   == [version : Nat, attempt : Nat, max_attempts : Nat]
Attempt == [task : Task, attempt : Nat, version : Nat,
            status : {"completed", "failed", "cancelled"}]
Event   == [type : {"enqueued", "started", "completed", "retry_scheduled",
                    "dead_lettered", "cancelled", "resumed", "manual_retry"},
            task : Task, version : Nat]

NoRow   == [status |-> "absent", current_attempt |-> 0, max_attempts |-> 0,
            version |-> 0, due |-> FALSE]
NoLease == [version |-> 0, attempt |-> 0, max_attempts |-> 0]

VARIABLES
    queue,     \* task_queue: the row of every task
    attempts,  \* task_attempt
    events,    \* the task's domain_event rows
    phase,     \* where each worker is in run_one
    task,      \* the task each worker selected
    row,       \* that task's row as claim_next selected it
    lease,     \* what claim_next returned to the worker
    request,   \* what each user thread is doing
    subject,   \* to which task
    found      \* that task's row as _locked_row selected it

workerVars == <<phase, task, row, lease>>
userVars   == <<request, subject, found>>
vars       == <<queue, attempts, events, workerVars, userVars>>

-----------------------------------------------------------------------------
Init ==
    /\ queue = [t \in Task |-> NoRow]
    /\ attempts = {}
    /\ events = {}
    /\ phase = [w \in Worker |-> "idle"]
    /\ task = [w \in Worker |-> CHOOSE t \in Task : TRUE]
    /\ row = [w \in Worker |-> NoRow]
    /\ lease = [w \in Worker |-> NoLease]
    /\ request = [u \in User |-> "none"]
    /\ subject = [u \in User |-> CHOOSE t \in Task : TRUE]
    /\ found = [u \in User |-> NoRow]

Log(type, t, version) ==
    events' = events \cup {[type |-> type, task |-> t, version |-> version]}

Record(t, n, version, status) ==
    attempts' = attempts \cup
        {[task |-> t, attempt |-> n, version |-> version, status |-> status]}

(* The primary key of task_attempt. *)
Taken(t, n) == \E a \in attempts : a.task = t /\ a.attempt = n

Enqueue(t) ==
    /\ queue[t].status = "absent"
    /\ \E n \in Limit :
        queue' = [queue EXCEPT ![t] = [status |-> "pending", current_attempt |-> 0,
                     max_attempts |-> n, version |-> 1, due |-> TRUE]]
    /\ Log("enqueued", t, 1)
    /\ UNCHANGED <<attempts, workerVars, userVars>>

(* A retry's delay runs out. *)
BecomeDue(t) ==
    /\ queue[t].status \in Claimable
    /\ ~queue[t].due
    /\ queue' = [queue EXCEPT ![t].due = TRUE]
    /\ UNCHANGED <<attempts, events, workerVars, userVars>>

-----------------------------------------------------------------------------
(* claim_next: the SELECT.  Which due task is the oldest is left open. *)
Select(w) ==
    /\ phase[w] = "idle"
    /\ \E t \in Task :
        /\ queue[t].status \in Claimable
        /\ queue[t].due
        /\ task' = [task EXCEPT ![w] = t]
        /\ row' = [row EXCEPT ![w] = queue[t]]
    /\ phase' = [phase EXCEPT ![w] = "claim"]
    /\ UNCHANGED <<queue, attempts, events, lease, userVars>>

(* The WHERE clause of claim_next's UPDATE. *)
StillClaimable(w) ==
    /\ queue[task[w]].version = row[w].version
    /\ queue[task[w]].status \in Claimable

(* claim_next: the UPDATE and the task.started event. *)
Claim(w) ==
    /\ phase[w] = "claim"
    /\ LET t == task[w] IN
        \/ /\ StillClaimable(w)
           /\ queue' = [queue EXCEPT ![t] =
                [@ EXCEPT !.status = "processing",
                          !.current_attempt = row[w].current_attempt + 1]]
           /\ Log("started", t, row[w].version)
           /\ phase' = [phase EXCEPT ![w] = "claimed"]
        \/ /\ ~StillClaimable(w)
           /\ phase' = [phase EXCEPT ![w] = "idle"]
           /\ UNCHANGED <<queue, events>>
    /\ UNCHANGED <<attempts, task, row, lease, userVars>>

(* claim_next: the lease is made from a SELECT after the COMMIT. *)
ReadBack(w) ==
    /\ phase[w] = "claimed"
    /\ LET now == queue[task[w]] IN
        lease' = [lease EXCEPT ![w] = [version |-> now.version,
                     attempt |-> row[w].current_attempt + 1,
                     max_attempts |-> now.max_attempts]]
    /\ phase' = [phase EXCEPT ![w] = "run"]
    /\ UNCHANGED <<queue, attempts, events, task, row, userVars>>

(* Mutant: an exception of the handler ends the thread. *)
Handle_Uncaught(w) ==
    /\ phase[w] = "run"
    /\ \E next \in {"complete", "idle"} : phase' = [phase EXCEPT ![w] = next]
    /\ UNCHANGED <<queue, attempts, events, task, row, lease, userVars>>

(* The handler returns, or it raises, is missing, or returns what
   _validate_task_json rejects. *)
Handle(w) ==
    /\ phase[w] = "run"
    /\ \E next \in {"complete", "fail"} : phase' = [phase EXCEPT ![w] = next]
    /\ UNCHANGED <<queue, attempts, events, task, row, lease, userVars>>

(* Mutant: the lease is checked against the attempt, not the version. *)
Holds_AnyVersion(w) ==
    /\ queue[task[w]].current_attempt = lease[w].attempt
    /\ queue[task[w]].status \notin {"absent", "completed"}

(* The WHERE clause of complete and fail; StaleTaskLease when it is false. *)
Holds(w) ==
    /\ queue[task[w]].version = lease[w].version
    /\ queue[task[w]].current_attempt = lease[w].attempt
    /\ queue[task[w]].status = "processing"

Complete(w) ==
    /\ phase[w] = "complete"
    /\ LET t == task[w] IN
        \/ /\ ~Holds(w)
           /\ phase' = [phase EXCEPT ![w] = "idle"]
           /\ UNCHANGED <<queue, attempts, events>>
        \/ /\ Holds(w) /\ Taken(t, lease[w].attempt)   \* IntegrityError
           /\ phase' = [phase EXCEPT ![w] = "fail"]
           /\ UNCHANGED <<queue, attempts, events>>
        \/ /\ Holds(w) /\ ~Taken(t, lease[w].attempt)
           /\ Record(t, lease[w].attempt, lease[w].version, "completed")
           /\ queue' = [queue EXCEPT ![t].status = "completed"]
           /\ Log("completed", t, lease[w].version)
           /\ phase' = [phase EXCEPT ![w] = "idle"]
    /\ UNCHANGED <<task, row, lease, userVars>>

(* Mutant: one retry too many. *)
MayRetry_OneMore(w) == lease[w].attempt <= lease[w].max_attempts

MayRetry(w) == lease[w].attempt < lease[w].max_attempts

(* Mutant: the status the schema allows and the code does not use. *)
FailedStatus_Failed(w) == IF MayRetry(w) THEN "retrying" ELSE "failed"

FailedStatus(w) == IF MayRetry(w) THEN "retrying" ELSE "dead_letter"

Fail(w) ==
    /\ phase[w] = "fail"
    /\ phase' = [phase EXCEPT ![w] = "idle"]
    /\ LET t == task[w] IN
        \/ /\ ~Holds(w) \/ Taken(t, lease[w].attempt)   \* the error reaches the caller
           /\ UNCHANGED <<queue, attempts, events>>
        \/ /\ Holds(w) /\ ~Taken(t, lease[w].attempt)
           /\ Record(t, lease[w].attempt, lease[w].version, "failed")
           /\ queue' = [queue EXCEPT ![t] =
                [@ EXCEPT !.status = FailedStatus(w), !.due = ~MayRetry(w)]]
           /\ Log(IF MayRetry(w) THEN "retry_scheduled" ELSE "dead_lettered",
                  t, lease[w].version)
    /\ UNCHANGED <<task, row, lease, userVars>>

-----------------------------------------------------------------------------
(* The statuses a request accepts; with any other it is refused. *)
Accepts(kind) ==
    CASE kind = "cancel" -> Status \ (Stopped \cup {"absent"})
      [] kind = "resume" -> {"cancelled"}
      [] kind = "retry"  -> {"dead_letter"}

(* cancel, resume, manual_retry: the SELECT of _locked_row, and the refusal. *)
Request(u) ==
    /\ request[u] = "none"
    /\ \E t \in Task, kind \in {"cancel", "resume", "retry"} :
        /\ queue[t].version < MaxVersion
        /\ queue[t].status \in Accepts(kind)
        /\ request' = [request EXCEPT ![u] = kind]
        /\ subject' = [subject EXCEPT ![u] = t]
        /\ found' = [found EXCEPT ![u] = queue[t]]
    /\ UNCHANGED <<queue, attempts, events, workerVars>>

(* cancel: the INSERT, the UPDATE (WHERE task_id only) and the event. *)
Cancel(u) ==
    /\ request[u] = "cancel"
    /\ request' = [request EXCEPT ![u] = "none"]
    /\ LET t == subject[u]
           running == found[u].status = "processing"
       IN
        \/ /\ running /\ Taken(t, found[u].current_attempt)   \* IntegrityError
           /\ UNCHANGED <<queue, attempts, events>>
        \/ /\ ~(running /\ Taken(t, found[u].current_attempt))
           /\ IF running
              THEN Record(t, found[u].current_attempt, found[u].version, "cancelled")
              ELSE UNCHANGED attempts
           /\ queue' = [queue EXCEPT ![t] =
                [@ EXCEPT !.status = "cancelled", !.version = queue[t].version + 1]]
           /\ Log("cancelled", t, found[u].version + 1)
    /\ UNCHANGED <<subject, found, workerVars>>

NewLimit(u) ==
    IF request[u] = "retry" /\ found[u].current_attempt >= found[u].max_attempts
    THEN found[u].current_attempt + 1
    ELSE found[u].max_attempts

(* Mutants: the attempts are numbered afresh; the version is kept. *)
Requeue_FromZero(u) ==
    /\ request[u] \in {"resume", "retry"}
    /\ request' = [request EXCEPT ![u] = "none"]
    /\ queue' = [queue EXCEPT ![subject[u]] =
                    [status |-> "pending", version |-> @.version + 1, current_attempt |-> 0,
                     max_attempts |-> NewLimit(u), due |-> TRUE]]
    /\ UNCHANGED <<attempts, events, subject, found, workerVars>>
Requeue_SameVersion(u) ==
    /\ request[u] \in {"resume", "retry"}
    /\ request' = [request EXCEPT ![u] = "none"]
    /\ queue' = [queue EXCEPT ![subject[u]] =
                    [@ EXCEPT !.status = "pending", !.max_attempts = NewLimit(u), !.due = TRUE]]
    /\ UNCHANGED <<attempts, events, subject, found, workerVars>>

(* _requeue: the UPDATE (WHERE task_id only) and the event. *)
Requeue(u) ==
    /\ request[u] \in {"resume", "retry"}
    /\ request' = [request EXCEPT ![u] = "none"]
    /\ LET t == subject[u] IN
        /\ queue' = [queue EXCEPT ![t] =
                [@ EXCEPT !.status = "pending", !.version = queue[t].version + 1,
                          !.max_attempts = NewLimit(u), !.due = TRUE]]
        /\ Log(IF request[u] = "resume" THEN "resumed" ELSE "manual_retry",
               t, found[u].version + 1)
    /\ UNCHANGED <<attempts, subject, found, workerVars>>

-----------------------------------------------------------------------------
(* "database is locked" rolls a write back: complete's error leads to fail,
   the others reach the caller. *)
LockTimeout ==
    \/ \E w \in Worker :
        /\ phase[w] \in {"claim", "complete", "fail"}
        /\ phase' = [phase EXCEPT ![w] = IF @ = "complete" THEN "fail" ELSE "idle"]
        /\ UNCHANGED <<queue, attempts, events, task, row, lease, userVars>>
    \/ \E u \in User :
        /\ request[u] # "none"
        /\ request' = [request EXCEPT ![u] = "none"]
        /\ UNCHANGED <<queue, attempts, events, subject, found, workerVars>>

(* The backend dies; nothing on its restart looks at the queue. *)
Crash ==
    /\ phase' = [w \in Worker |-> "idle"]
    /\ request' = [u \in User |-> "none"]
    /\ UNCHANGED <<queue, attempts, events, task, row, lease, subject, found>>

Work(w) == Claim(w) \/ ReadBack(w) \/ Handle(w) \/ Complete(w) \/ Fail(w)

Calm ==
    \/ \E t \in Task : Enqueue(t) \/ BecomeDue(t)
    \/ \E w \in Worker : Select(w) \/ Work(w)
    \/ \E u \in User : Request(u) \/ Cancel(u) \/ Requeue(u)

Next == Calm \/ LockTimeout \/ Crash

Spec == Init /\ [][Next]_vars

-----------------------------------------------------------------------------
(* Every variable has its type. *)
TypeOK ==
    /\ queue \in [Task -> Row]
    /\ attempts \subseteq Attempt
    /\ events \subseteq Event
    /\ phase \in [Worker -> {"idle", "claim", "claimed", "run", "complete", "fail"}]
    /\ task \in [Worker -> Task]
    /\ row \in [Worker -> Row]
    /\ lease \in [Worker -> Lease]
    /\ request \in [User -> {"none", "cancel", "resume", "retry"}]
    /\ subject \in [User -> Task]
    /\ found \in [User -> Row]

(* A cancelled task stays as the cancellation left it until a user asks for
   more: no late claim, completion or failure of a worker that knew the task
   before touches it. *)
CancelledIsLeftAlone ==
    [][\A t \in Task :
        queue[t].status = "cancelled" /\ queue'[t] # queue[t]
            => /\ queue'[t].version > queue[t].version
               /\ queue'[t].status \in {"pending", "cancelled"}]_vars

Recorded(t, status) ==
    [task |-> t, attempt |-> queue[t].current_attempt, version |-> queue[t].version,
     status |-> status] \in attempts

(* The outcome a row shows is the outcome of its current attempt, recorded
   under the version it ran for: not that of an attempt which was cancelled
   or overtaken. *)
OutcomeIsRecorded ==
    \A t \in Task :
        /\ queue[t].status = "completed" => Recorded(t, "completed")
        /\ queue[t].status \in {"retrying", "dead_letter"} => Recorded(t, "failed")

(* Between two user requests a task completes at most once, however many
   workers ran it. *)
CompletedOncePerVersion ==
    \A a, b \in attempts :
        /\ a.status = "completed" /\ b.status = "completed"
        /\ a.task = b.task /\ a.version = b.version
        => a = b

(* The queue retries by itself only while attempts are left, and gives up only
   when there are none. *)
RetriesAreBounded ==
    \A t \in Task :
        /\ queue[t].status = "retrying" =>
             queue[t].current_attempt < queue[t].max_attempts
        /\ queue[t].status = "dead_letter" =>
             queue[t].current_attempt >= queue[t].max_attempts

(* The attempt in progress has no outcome yet: so that complete, fail and,
   after a crash, cancel can still record one. *)
AttemptInProgressIsOpen ==
    \A t \in Task :
        queue[t].status = "processing" => ~Taken(t, queue[t].current_attempt)

(* "task cannot be cancelled from its current state": completed is final. *)
CancelSparesCompleted ==
    [][\A t \in Task :
        queue[t].status = "completed" => queue'[t].status # "cancelled"]_vars

(* The queue has its types, and a row that shows an outcome is right about it: the
   outcome is recorded, a task completes once per version however many workers run it,
   and the queue gives up only when no attempt is left. *)
OutcomesHold ==
    TypeOK /\ OutcomeIsRecorded /\ CompletedOncePerVersion /\ RetriesAreBounded
=============================================================================
