------------------------------ MODULE FolderSync ------------------------------
(***************************************************************************)
(* The synchronisation of one local-folder connector: sync of              *)
(* services/source_connector_service.py with the tables of                 *)
(* db/source_connector_repository.py.  A sync reads the folder file by     *)
(* file while the user goes on editing it, writes each change in a         *)
(* transaction of its own, and shares the tables with other syncs of the   *)
(* same connector: nothing keeps two of them apart.  A run is one          *)
(* execution of sync and its source_sync_run row.  Counts, times and the   *)
(* artifact store, which only grows, are left out; a manifest is the       *)
(* function from files to contents that it hashes.  The connector has the  *)
(* delete policy that create gives every local folder, mark_deleted.       *)
(***************************************************************************)
EXTENDS FiniteSets

CONSTANTS
    File,     \* relative paths
    Content,  \* contents, which their SHA-256 identifies
    Run,      \* executions of sync
    None

Manifest == [File -> Content \cup {None}]
Resource == [status : {"absent"}, fingerprint : {None}]
            \cup [status : {"active", "source_deleted"}, fingerprint : Content]
Nothing  == [f \in File |-> None]

VARIABLES
    folder,     \* the files on disk
    connector,  \* source_connector: its status and sync_cursor
    resources,  \* source_resource
    runs,       \* source_sync_run
    phase,      \* where each sync is
    existing,   \* source_resource as existing_resources returned it
    todo,       \* the files of _files that are still to be read
    current,    \* the file that has been read and is to be stored
    seen,       \* what the sync has read
    missing,    \* what mark_missing found missing
    quiet,      \* history: nothing has interfered since the sync's snapshot
    gone        \* history: the files that were absent at some moment of the sync

syncVars == <<phase, existing, todo, current, seen, missing>>
vars     == <<folder, connector, resources, runs, syncVars, quiet, gone>>

Present == {f \in File : folder[f] # None}
Working == {"snapshot", "list", "read", "store", "mark", "sweep", "finish"}

-----------------------------------------------------------------------------
Init ==
    /\ folder \in Manifest
    /\ connector = [status |-> "active", cursor |-> None]
    /\ resources = [f \in File |-> [status |-> "absent", fingerprint |-> None]]
    /\ runs = [r \in Run |-> [status |-> "none", cursor |-> None]]
    /\ phase = [r \in Run |-> "get"]
    /\ existing = [r \in Run |-> resources]
    /\ todo = [r \in Run |-> {}]
    /\ current = [r \in Run |-> None]
    /\ seen = [r \in Run |-> Nothing]
    /\ missing = [r \in Run |-> {}]
    /\ quiet = [r \in Run |-> FALSE]
    /\ gone = [r \in Run |-> {}]

(* The user creates, changes or removes a file. *)
Edit ==
    /\ \E f \in File, x \in Content \cup {None} :
        /\ folder[f] # x
        /\ folder' = [folder EXCEPT ![f] = x]
        /\ gone' = IF x = None THEN [r \in Run |-> gone[r] \cup {f}] ELSE gone
    /\ quiet' = [r \in Run |-> FALSE]
    /\ UNCHANGED <<connector, resources, runs, syncVars>>

(* set_status *)
SetStatus ==
    /\ \E s \in {"active", "paused"} : connector' = [connector EXCEPT !.status = s]
    /\ UNCHANGED <<folder, resources, runs, syncVars, quiet, gone>>

Go(r, next) == phase' = [phase EXCEPT ![r] = next]

(* The other syncs that see the tables change under them. *)
Disturb(r) == quiet' = [q \in Run |-> quiet[q] /\ q = r]

-----------------------------------------------------------------------------
(* repository.get: a paused connector is refused. *)
Get(r) ==
    /\ phase[r] = "get"
    /\ Go(r, IF connector.status = "paused" THEN "done" ELSE "start")
    /\ UNCHANGED <<folder, connector, resources, runs, existing, todo, current, seen,
                   missing, quiet, gone>>

StartRun(r) ==
    /\ phase[r] = "start"
    /\ runs' = [runs EXCEPT ![r].status = "processing"]
    /\ gone' = [gone EXCEPT ![r] = File \ Present]
    /\ Go(r, "snapshot")
    /\ UNCHANGED <<folder, connector, resources, existing, todo, current, seen, missing, quiet>>

Snapshot(r) ==
    /\ phase[r] = "snapshot"
    /\ existing' = [existing EXCEPT ![r] = resources]
    /\ quiet' = [quiet EXCEPT ![r] = TRUE]
    /\ Go(r, "list")
    /\ UNCHANGED <<folder, connector, resources, runs, todo, current, seen, missing, gone>>

(* _files *)
ListFiles(r) ==
    /\ phase[r] = "list"
    /\ todo' = [todo EXCEPT ![r] = Present]
    /\ Go(r, "read")
    /\ UNCHANGED <<folder, connector, resources, runs, existing, current, seen, missing, quiet, gone>>

(* Mutant: a known fingerprint is skipped, deleted in the table or not. *)
Unchanged_AnyStatus(r, f) == existing[r][f].fingerprint = folder[f]

(* The file is as the snapshot has it. *)
Unchanged(r, f) ==
    /\ existing[r][f].fingerprint = folder[f]
    /\ existing[r][f].status = "active"

(* Mutant: a file that has vanished since it was listed is no error. *)
ReadFile_Vanished(r) ==
    /\ phase[r] = "read"
    /\ \E f \in todo[r] :
        /\ todo' = [todo EXCEPT ![r] = @ \ {f}]
        /\ seen' = [seen EXCEPT ![r][f] = folder[f]]
        /\ current' = [current EXCEPT ![r] = f]
    /\ Go(r, "store")
    /\ UNCHANGED <<folder, connector, resources, runs, existing, missing, quiet, gone>>

(* One turn of the loop, up to upsert_resource: sizes, read_bytes, the skip. *)
ReadFile(r) ==
    /\ phase[r] = "read"
    /\ \E f \in todo[r] :
        /\ folder[f] # None
        /\ todo' = [todo EXCEPT ![r] = @ \ {f}]
        /\ seen' = [seen EXCEPT ![r][f] = folder[f]]
        /\ \/ /\ Unchanged(r, f)
              /\ UNCHANGED <<phase, current>>
           \/ /\ ~Unchanged(r, f)
              /\ current' = [current EXCEPT ![r] = f]
              /\ Go(r, "store")
    /\ UNCHANGED <<folder, connector, resources, runs, existing, missing, quiet, gone>>

(* upsert_resource *)
Upsert(r) ==
    /\ phase[r] = "store"
    /\ LET f == current[r] IN
        resources' = [resources EXCEPT ![f] =
            [status |-> "active", fingerprint |-> seen[r][f]]]
    /\ Disturb(r)
    /\ Go(r, "read")
    /\ UNCHANGED <<folder, connector, runs, existing, todo, current, seen, missing, gone>>

EndOfList(r) ==
    /\ phase[r] = "read"
    /\ todo[r] = {}
    /\ Go(r, "mark")
    /\ UNCHANGED <<folder, connector, resources, runs, existing, todo, current, seen,
                   missing, quiet, gone>>

IsMissing(r, f) == seen[r][f] = None /\ resources[f].status = "active"

(* mark_missing: its SELECT ... *)
Mark(r) ==
    /\ phase[r] = "mark"
    /\ missing' = [missing EXCEPT ![r] = {f \in File : IsMissing(r, f)}]
    /\ Go(r, IF missing'[r] = {} THEN "finish" ELSE "sweep")
    /\ UNCHANGED <<folder, connector, resources, runs, existing, todo, current, seen, quiet, gone>>

(* ... and its UPDATEs. *)
Sweep(r) ==
    /\ phase[r] = "sweep"
    /\ resources' = [f \in File |->
            IF f \in missing[r] THEN [resources[f] EXCEPT !.status = "source_deleted"]
            ELSE resources[f]]
    /\ Disturb(r)
    /\ Go(r, "finish")
    /\ UNCHANGED <<folder, connector, runs, existing, todo, current, seen, missing, gone>>

(* complete_run; the SELECT after its COMMIT may still fail. *)
CompleteRun(r) ==
    /\ phase[r] = "finish"
    /\ runs' = [runs EXCEPT ![r] = [status |-> "completed", cursor |-> seen[r]]]
    /\ connector' = [connector EXCEPT !.cursor = seen[r]]
    /\ \E next \in {"done", "failing"} : Go(r, next)
    /\ UNCHANGED <<folder, resources, existing, todo, current, seen, missing, quiet, gone>>

(* Mutant: a file that cannot be read ends the list. *)
Break_EndsList(r) ==
    /\ phase[r] = "read"
    /\ todo' = [todo EXCEPT ![r] = {}]
    /\ UNCHANGED <<folder, connector, resources, runs, phase, existing, current, seen,
                   missing, quiet, gone>>

(* An exception: the root or a file is gone, changed or too large, the
   database is locked. *)
Break(r) ==
    /\ phase[r] \in Working
    /\ Go(r, "failing")
    /\ UNCHANGED <<folder, connector, resources, runs, existing, todo, current, seen,
                   missing, quiet, gone>>

(* Mutant: no trigger. *)
Immutable_Never(r) == FALSE

(* The trigger "completed sync runs are immutable". *)
Immutable(r) == runs[r].status # "processing"

(* fail_run; the trigger or a lock may refuse it. *)
FailRun(r) ==
    /\ phase[r] = "failing"
    /\ \/ UNCHANGED runs
       \/ ~Immutable(r) /\ runs' = [runs EXCEPT ![r].status = "failed"]
    /\ Go(r, "done")
    /\ UNCHANGED <<folder, connector, resources, existing, todo, current, seen,
                   missing, quiet, gone>>

(* The process dies; on its restart nothing looks at the runs. *)
Crash ==
    /\ phase' = [r \in Run |-> IF phase[r] = "get" THEN "get" ELSE "done"]
    /\ UNCHANGED <<folder, connector, resources, runs, existing, todo, current, seen,
                   missing, quiet, gone>>

Next ==
    \/ Edit
    \/ SetStatus
    \/ Crash
    \/ \E r \in Run :
        \/ Get(r)
        \/ StartRun(r)
        \/ Snapshot(r)
        \/ ListFiles(r)
        \/ ReadFile(r)
        \/ Upsert(r)
        \/ EndOfList(r)
        \/ Mark(r)
        \/ Sweep(r)
        \/ CompleteRun(r)
        \/ Break(r)
        \/ FailRun(r)

Spec == Init /\ [][Next]_vars

-----------------------------------------------------------------------------
(* Every variable has its type. *)
TypeOK ==
    /\ folder \in Manifest
    /\ connector \in [status : {"active", "paused"}, cursor : Manifest \cup {None}]
    /\ resources \in [File -> Resource]
    /\ runs \in [Run -> [status : {"none", "processing", "completed", "failed"},
                         cursor : Manifest \cup {None}]]
    /\ phase \in [Run -> Working \cup {"get", "start", "failing", "done"}]
    /\ existing \in [Run -> [File -> Resource]]
    /\ todo \in [Run -> SUBSET File]
    /\ current \in [Run -> File \cup {None}]
    /\ seen \in [Run -> Manifest]
    /\ missing \in [Run -> SUBSET File]
    /\ quiet \in [Run -> BOOLEAN]
    /\ gone \in [Run -> SUBSET File]

Mirrors(f) ==
    /\ (resources[f].status = "active") <=> (folder[f] # None)
    /\ folder[f] # None => resources[f].fingerprint = folder[f]

(* A sync that nothing interferes with repairs whatever earlier, failed,
   interrupted or overlapping syncs left behind: it ends with the table and
   its manifest equal to the folder. *)
QuietSyncIsExact ==
    \A r \in Run :
        quiet[r] /\ phase[r] = "finish" => seen[r] = folder /\ \A f \in File : Mirrors(f)

(* No sync, however many overlap, fail or are interrupted, marks a file
   deleted that was in the folder all the time the sync ran. *)
NoPresentFileIsDeleted ==
    [][\A f \in File :
        resources[f].status # "source_deleted" /\ resources'[f].status = "source_deleted"
            => \E r \in Run : phase[r] = "sweep" /\ f \in gone[r]]_vars

(* The trigger's "completed sync runs are immutable", also when an error is
   reported after the completion was committed: the failure of a sync never
   takes back a completion, nor a late completion a failure. *)
FinishedRunIsFinal ==
    [][\A r \in Run :
        runs[r].status \in {"completed", "failed"} => runs'[r] = runs[r]]_vars
=============================================================================
