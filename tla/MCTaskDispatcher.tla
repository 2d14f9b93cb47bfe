--------------------------- MODULE MCTaskDispatcher ---------------------------
(* TaskQueue with dispatches that do not overlap, and its liveness.  The      *)
(* variable calm says that no crash and no lock timeout has happened so far.  *)
EXTENDS TaskQueue

VARIABLE calm

DispatcherInit == Init /\ calm = TRUE

DispatcherNext ==
    \/ Calm /\ UNCHANGED calm
    \/ (LockTimeout \/ Crash) /\ calm' = FALSE

(* A worker thread that has selected a task keeps running; dispatching and the
   users' requests are not fair. *)
DispatcherSpec ==
    /\ DispatcherInit
    /\ [][DispatcherNext]_<<vars, calm>>
    /\ \A w \in Worker : WF_<<vars, calm>>(Work(w) /\ UNCHANGED calm)

(* A task in processing is finished, retried, given up or cancelled, whatever
   the users request, unless the backend crashes or is locked out of a write. *)
ProcessingEnds ==
    \A t \in Task :
        (queue[t].status = "processing" /\ calm)
            ~> (queue[t].status # "processing" \/ ~calm)
=============================================================================
