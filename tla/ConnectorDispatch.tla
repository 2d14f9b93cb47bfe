--------------------------- MODULE ConnectorDispatch ---------------------------
(***************************************************************************)
(* How connector syncs are dispatched: the sync, scheduled/run, schedule,  *)
(* pause and resume requests of api/source_connectors.py, and the dispatch *)
(* requests of api/tasks.py, over the task queue and the schedule in a     *)
(* connector's config.  A sync request enqueues a task, has run_one        *)
(* execute the task that has been available longest in the stage, and      *)
(* advances the connector's schedule.  TaskQueue models the queue's rows   *)
(* and FolderSync one sync; here a task is ready, waits for its retry, or  *)
(* is being executed, and a sync succeeds or fails.                        *)
(***************************************************************************)
EXTENDS Integers, FiniteSets, SequencesExt

CONSTANTS
    Connector,    \* source connectors
    Request,      \* threads that execute sync, scheduled/run and dispatch requests
    MaxAttempts,  \* attempts of a task, 3 in TaskService.enqueue
    MaxTasks,     \* bound: tasks ever enqueued
    None

ASSUME BoundAssumption == MaxAttempts \in Nat \ {0} /\ MaxTasks \in Nat
ASSUME NoneAssumption  == None \notin Connector

Task     == [id : 1..MaxTasks, connector : Connector, attempt : 0..MaxAttempts]
Schedule == [enabled : BOOLEAN, due : BOOLEAN]
Never    == [enabled |-> FALSE, due |-> FALSE]

VARIABLES
    status,    \* of each connector, "active" or "paused"
    schedule,  \* schedule_enabled, and whether next_run_at has passed
    ready,     \* the due tasks by available_at
    waiting,   \* the tasks whose retry is not yet due
    created,   \* how many tasks there have been
    phase,     \* where each request is
    batch,     \* the connectors it has yet to serve
    serving,   \* the connector it is serving, None for a dispatch request
    selected,  \* the task claim_next selected
    config,    \* the schedule advance_schedule read
    earned     \* history: the connector served was synced since its enqueue

queueVars   == <<ready, waiting, created>>
requestVars == <<phase, batch, serving, selected, config>>
vars == <<status, schedule, queueVars, requestVars, earned>>

-----------------------------------------------------------------------------
Init ==
    /\ status = [c \in Connector |-> "active"]
    /\ schedule = [c \in Connector |-> Never]
    /\ ready = <<>>
    /\ waiting = {}
    /\ created = 0
    /\ phase = [q \in Request |-> "idle"]
    /\ batch = [q \in Request |-> {}]
    /\ serving = [q \in Request |-> None]
    /\ selected = [q \in Request |-> None]
    /\ config = [q \in Request |-> Never]
    /\ earned = [q \in Request |-> FALSE]

(* set_schedule overwrites all that a schedule consists of. *)
SetSchedule ==
    /\ \E c \in Connector, on \in BOOLEAN :
        /\ schedule' = [schedule EXCEPT ![c] = [enabled |-> on, due |-> FALSE]]
    /\ UNCHANGED <<status, queueVars, requestVars, earned>>

SetStatus ==
    /\ \E c \in Connector, s \in {"active", "paused"} : status' = [status EXCEPT ![c] = s]
    /\ UNCHANGED <<schedule, queueVars, requestVars, earned>>

(* Time: next_run_at or a retry's available_at passes. *)
TimePasses ==
    \/ /\ \E c \in Connector :
            /\ schedule[c].enabled
            /\ schedule' = [schedule EXCEPT ![c].due = TRUE]
       /\ UNCHANGED <<status, queueVars, requestVars, earned>>
    \/ /\ \E t \in waiting :
            /\ waiting' = waiting \ {t}
            /\ ready' = Append(ready, t)
       /\ UNCHANGED <<status, schedule, created, requestVars, earned>>

Go(q, next) == phase' = [phase EXCEPT ![q] = next]

(* The sync request. *)
AskSync(q) ==
    /\ phase[q] = "idle"
    /\ \E c \in Connector : batch' = [batch EXCEPT ![q] = {c}]
    /\ Go(q, "next")
    /\ UNCHANGED <<status, schedule, queueVars, serving, selected, config, earned>>

Due(c) == status[c] = "active" /\ schedule[c].enabled /\ schedule[c].due

(* The scheduled/run request: list_due. *)
AskScheduled(q) ==
    /\ phase[q] = "idle"
    /\ \E c \in Connector : Due(c)
    /\ batch' = [batch EXCEPT ![q] = {c \in Connector : Due(c)}]
    /\ Go(q, "next")
    /\ UNCHANGED <<status, schedule, queueVars, serving, selected, config, earned>>

(* A dispatch request of the task API runs the stage for no connector of its own;
   further batches of it are further requests. *)
AskDispatch(q) ==
    /\ phase[q] = "idle"
    /\ Go(q, "select")
    /\ UNCHANGED <<status, schedule, queueVars, batch, serving, selected, config, earned>>

(* enqueue, for the next connector of the request. *)
Enqueue(q) ==
    /\ phase[q] = "next"
    /\ created < MaxTasks
    /\ \E c \in batch[q] :
        /\ batch' = [batch EXCEPT ![q] = @ \ {c}]
        /\ serving' = [serving EXCEPT ![q] = c]
        /\ ready' = Append(ready, [id |-> created + 1, connector |-> c, attempt |-> 0])
    /\ created' = created + 1
    /\ earned' = [earned EXCEPT ![q] = FALSE]
    /\ Go(q, "select")
    /\ UNCHANGED <<status, schedule, waiting, selected, config>>

(* The answer, with which the request's local variables go. *)
Respond(q) ==
    /\ phase[q] = "next"
    /\ batch[q] = {}
    /\ Go(q, "idle")
    /\ serving' = [serving EXCEPT ![q] = None]
    /\ selected' = [selected EXCEPT ![q] = None]
    /\ config' = [config EXCEPT ![q] = Never]
    /\ earned' = [earned EXCEPT ![q] = FALSE]
    /\ UNCHANGED <<status, schedule, queueVars, batch>>

(* claim_next: the SELECT. *)
Select(q) ==
    /\ phase[q] = "select"
    /\ \/ /\ ready = <<>>
          /\ Go(q, "next")
          /\ UNCHANGED selected
       \/ /\ ready # <<>>
          /\ selected' = [selected EXCEPT ![q] = Head(ready)]
          /\ Go(q, "claim")
    /\ UNCHANGED <<status, schedule, queueVars, batch, serving, config, earned>>

(* Mutant: the UPDATE does not ask for the row's status. *)
Claim_Unguarded(q) ==
    /\ phase[q] = "claim"
    /\ ready' = Remove(ready, selected[q])
    /\ Go(q, "handle")
    /\ UNCHANGED <<status, schedule, waiting, created, batch, serving, selected,
                   config, earned>>

(* claim_next: the UPDATE; another request may have been first. *)
Claim(q) ==
    /\ phase[q] = "claim"
    /\ \/ /\ \E i \in DOMAIN ready :
                ready[i] = selected[q] /\ ready' = RemoveAt(ready, i)
          /\ Go(q, "handle")
       \/ /\ ~Contains(ready, selected[q])
          /\ Go(q, "next")
          /\ UNCHANGED ready
    /\ UNCHANGED <<status, schedule, waiting, created, batch, serving, selected,
                   config, earned>>

(* Only a sync request has a schedule to advance. *)
AfterSync(q) == IF serving[q] = None THEN "next" ELSE "advance"

(* The handler's sync succeeds: complete. *)
Succeed(q) ==
    /\ phase[q] = "handle"
    /\ status[selected[q].connector] = "active"
    /\ earned' = [p \in Request |->
            earned[p] \/ serving[p] = selected[q].connector]
    /\ Go(q, AfterSync(q))
    /\ UNCHANGED <<status, schedule, queueVars, batch, serving, selected, config>>

(* Mutant: the schedule advances whatever became of the task. *)
FailTask_Advance(q) ==
    /\ phase[q] = "handle"
    /\ Go(q, AfterSync(q))
    /\ UNCHANGED <<status, schedule, queueVars, batch, serving, selected, config, earned>>

(* It fails, as it must when the connector is paused: fail. *)
FailTask(q) ==
    /\ phase[q] = "handle"
    /\ LET t == [selected[q] EXCEPT !.attempt = @ + 1] IN
        waiting' = IF t.attempt < MaxAttempts THEN waiting \cup {t} ELSE waiting
    /\ Go(q, "next")
    /\ UNCHANGED <<status, schedule, ready, created, batch, serving, selected,
                   config, earned>>

(* advance_schedule: the read ... *)
ReadSchedule(q) ==
    /\ phase[q] = "advance"
    /\ config' = [config EXCEPT ![q] = schedule[serving[q]]]
    /\ Go(q, IF schedule[serving[q]].enabled THEN "write" ELSE "next")
    /\ UNCHANGED <<status, schedule, queueVars, batch, serving, selected, earned>>

(* ... and the write of the whole config. *)
WriteSchedule(q) ==
    /\ phase[q] = "write"
    /\ schedule' = [schedule EXCEPT ![serving[q]] = [config[q] EXCEPT !.due = FALSE]]
    /\ Go(q, "next")
    /\ UNCHANGED <<status, queueVars, batch, serving, selected, config, earned>>

(* An error ends one connector's turn; a task that was claimed stays so. *)
Break(q) ==
    /\ phase[q] \in {"select", "claim", "handle", "advance", "write"}
    /\ Go(q, "next")
    /\ UNCHANGED <<status, schedule, queueVars, batch, serving, selected, config, earned>>

Next ==
    \/ SetSchedule
    \/ SetStatus
    \/ TimePasses
    \/ \E q \in Request :
        \/ AskSync(q)
        \/ AskScheduled(q)
        \/ AskDispatch(q)
        \/ Enqueue(q)
        \/ Respond(q)
        \/ Select(q)
        \/ Claim(q)
        \/ Succeed(q)
        \/ FailTask(q)
        \/ ReadSchedule(q)
        \/ WriteSchedule(q)
        \/ Break(q)

Spec == Init /\ [][Next]_vars

-----------------------------------------------------------------------------
(* Every variable has its type. *)
TypeOK ==
    /\ status \in [Connector -> {"active", "paused"}]
    /\ schedule \in [Connector -> Schedule]
    /\ ready \in Seq(Task)
    /\ waiting \subseteq Task
    /\ created \in 0..MaxTasks
    /\ phase \in [Request -> {"idle", "next", "select", "claim", "handle", "advance", "write"}]
    /\ batch \in [Request -> SUBSET Connector]
    /\ serving \in [Request -> Connector \cup {None}]
    /\ selected \in [Request -> Task \cup {None}]
    /\ config \in [Request -> Schedule]
    /\ earned \in [Request -> BOOLEAN]

(* Of the requests that race for a task one executes it, and no task is both
   executed and still to be had. *)
ClaimIsExclusive ==
    \A q \in Request : phase[q] = "handle" =>
        /\ \A p \in Request \ {q} :
            phase[p] = "handle" => selected[p].id # selected[q].id
        /\ \A t \in Range(ready) \cup waiting : t.id # selected[q].id

(* A schedule is advanced only for a connector that has been synced since the
   request asked for it. *)
AdvanceIsEarned == \A q \in Request : phase[q] \in {"advance", "write"} => earned[q]
=============================================================================
