---------------------------- MODULE SourceBreaker ----------------------------
(***************************************************************************)
(* The circuit breaker of one job source: the retry loop of collect in     *)
(* services/opportunity_radar_service.py and the job_source_policy row of  *)
(* db/job_staging_repository.py, which collecting threads and the policy   *)
(* requests of api/job_radar.py read in one step and overwrite in a later  *)
(* one.  The rate limit, the last error and the source's health steer none *)
(* of this and are left out; max_retries is a constant.                    *)
(***************************************************************************)
EXTENDS Integers

CONSTANTS
    Collector,   \* threads that execute collect
    User,        \* threads that execute a policy request
    Threshold,   \* the failure thresholds in use
    Retries,     \* max_retries
    MaxFailures, \* bound: failures in a row
    None

Policy  == [failures : Nat, threshold : Threshold, disabled : BOOLEAN]
Request == [enabled : BOOLEAN \cup {None}, threshold : Threshold \cup {None},
            reset : BOOLEAN]

(* No thread serves both kinds of requests; a threshold is 1..20. *)
BreakerAssumption ==
    /\ Collector \cap User = {}
    /\ Threshold \subseteq 1..20 /\ Threshold # {}
    /\ Retries \in Nat /\ MaxFailures \in Nat
    /\ None \notin Request

VARIABLES
    policy,   \* job_source_policy
    phase,    \* where each collector is
    attempt,  \* the turn of its loop
    current,  \* the policy it, or a user's request, has read
    request,  \* what each user asks for, None when nothing
    streak    \* history: failures since the last success or reset

vars == <<policy, phase, attempt, current, request, streak>>

-----------------------------------------------------------------------------
(* ensure_source_policy has inserted the row. *)
Init ==
    /\ policy \in [failures : {0}, threshold : Threshold, disabled : {FALSE}]
    /\ phase = [c \in Collector |-> "idle"]
    /\ attempt = [c \in Collector |-> 0]
    /\ current = [p \in Collector \cup User |-> policy]
    /\ request = [u \in User |-> None]
    /\ streak = 0

Go(c, next) == phase' = [phase EXCEPT ![c] = next]

(* collect: a disabled source is refused. *)
Start(c) ==
    /\ phase[c] = "idle"
    /\ ~policy.disabled
    /\ attempt' = [attempt EXCEPT ![c] = 0]
    /\ Go(c, "search")
    /\ UNCHANGED <<policy, current, request, streak>>

(* source.search returns or raises. *)
Search(c) ==
    /\ phase[c] = "search"
    /\ \E next \in {"succeeded", "failed"} : Go(c, next)
    /\ UNCHANGED <<policy, attempt, current, request, streak>>

(* record_source_success; its own error, a lock timeout, counts as a failure of
   the source, for the call is inside the try. *)
RecordSuccess(c) ==
    /\ phase[c] = "succeeded"
    /\ \/ /\ policy' = [policy EXCEPT !.failures = 0]
          /\ streak' = 0
          /\ Go(c, "idle")
       \/ /\ Go(c, "failed")
          /\ UNCHANGED <<policy, streak>>
    /\ UNCHANGED <<attempt, current, request>>

(* record_source_failure: the read ... *)
ReadPolicy(c) ==
    /\ phase[c] = "failed"
    /\ streak < MaxFailures
    /\ current' = [current EXCEPT ![c] = policy]
    /\ Go(c, "record")
    /\ UNCHANGED <<policy, attempt, request, streak>>

(* Mutant: one failure more than the threshold. *)
Trips_Beyond(failures, threshold) == failures > threshold

Trips(failures, threshold) == failures >= threshold

(* ... and the write of what was computed from it. *)
RecordFailure(c) ==
    /\ phase[c] = "record"
    /\ LET failures == current[c].failures + 1 IN
        policy' = [policy EXCEPT !.failures = failures,
                     !.disabled = Trips(failures, current[c].threshold)]
    /\ streak' = streak + 1
    /\ Go(c, "loop")
    /\ UNCHANGED <<attempt, current, request>>

(* Mutant: one turn too many. *)
Loop_Beyond(c) ==
    /\ phase[c] = "loop"
    /\ \/ /\ attempt[c] > Retries \/ policy.disabled
          /\ Go(c, "idle")
          /\ UNCHANGED attempt
       \/ /\ attempt[c] <= Retries /\ ~policy.disabled
          /\ Go(c, "search")
          /\ attempt' = [attempt EXCEPT ![c] = @ + 1]
    /\ UNCHANGED <<policy, current, request, streak>>

(* The policy is read back, and the loop goes on or ends. *)
Loop(c) ==
    /\ phase[c] = "loop"
    /\ \/ /\ attempt[c] >= Retries \/ policy.disabled
          /\ Go(c, "idle")
          /\ UNCHANGED attempt
       \/ /\ attempt[c] < Retries /\ ~policy.disabled
          /\ Go(c, "search")
          /\ attempt' = [attempt EXCEPT ![c] = @ + 1]
    /\ UNCHANGED <<policy, current, request, streak>>

(* update_source_policy: the read ... *)
Ask(u) ==
    /\ request[u] = None
    /\ \E r \in Request : request' = [request EXCEPT ![u] = r]
    /\ current' = [current EXCEPT ![u] = policy]
    /\ UNCHANGED <<policy, phase, attempt, streak>>

Clears(r) == r.reset \/ r.enabled = TRUE

(* Mutant: enabling a source keeps its count. *)
Updated_KeepCount(old, r) ==
    [failures  |-> IF r.reset THEN 0 ELSE old.failures,
     threshold |-> IF r.threshold = None THEN old.threshold ELSE r.threshold,
     disabled  |-> IF r.enabled = None THEN old.disabled ELSE ~r.enabled]

Updated(old, r) ==
    [failures  |-> IF Clears(r) THEN 0 ELSE old.failures,
     threshold |-> IF r.threshold = None THEN old.threshold ELSE r.threshold,
     disabled  |-> IF r.enabled = None THEN old.disabled ELSE ~r.enabled]

(* ... and the write of every column. *)
Update(u) ==
    /\ request[u] # None
    /\ policy' = Updated(current[u], request[u])
    /\ streak' = IF Clears(request[u]) THEN 0 ELSE streak
    /\ request' = [request EXCEPT ![u] = None]
    /\ UNCHANGED <<phase, attempt, current>>

(* A lock timeout or the end of the process. *)
Abort ==
    /\ \/ /\ \E c \in Collector : phase[c] # "idle" /\ Go(c, "idle")
          /\ UNCHANGED request
       \/ /\ \E u \in User : request[u] # None /\ request' = [request EXCEPT ![u] = None]
          /\ UNCHANGED phase
    /\ UNCHANGED <<policy, attempt, current, streak>>

Next ==
    \/ \E c \in Collector :
        \/ Start(c)
        \/ Search(c)
        \/ RecordSuccess(c)
        \/ ReadPolicy(c)
        \/ RecordFailure(c)
        \/ Loop(c)
    \/ \E u \in User : Ask(u) \/ Update(u)
    \/ Abort

Spec == Init /\ [][Next]_vars

(* One collect or policy request at a time. *)
Active == {c \in Collector : phase[c] # "idle"} \cup {u \in User : request[u] # None}
Alone  == \A p, q \in Active' : p = q

-----------------------------------------------------------------------------
(* Every variable has its type. *)
TypeOK ==
    /\ policy \in Policy
    /\ phase \in [Collector -> {"idle", "search", "succeeded", "failed", "record", "loop"}]
    /\ attempt \in [Collector -> 0..Retries]
    /\ current \in [Collector \cup User -> Policy]
    /\ request \in [User -> Request \cup {None}]
    /\ streak \in 0..MaxFailures

(* The count is the number of failures in a row. *)
CountIsExact == policy.failures = streak

(* The failure that brings a row of failures to the threshold, over any number
   of collects, disables the source: "disabled after repeated failures". *)
TripsAtThreshold ==
    [][streak' > streak /\ streak' >= policy.threshold => policy'.disabled]_vars
=============================================================================
