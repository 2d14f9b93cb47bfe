--------------------------- MODULE ConnectorsProofs ---------------------------
(***************************************************************************)
(* Proofs about the source connectors.  FolderSync: a sync that nothing    *)
(* interferes with leaves the table as the folder is, a file that is there *)
(* is never marked deleted, and a finished run stays as it ended.          *)
(* ConnectorDispatch: of the requests that race for a task one executes it *)
(* and, with one connector, a schedule is advanced only after its sync.    *)
(***************************************************************************)
EXTENDS MCConnectors, TLAPS

-----------------------------------------------------------------------------
(* FolderSync.  A run's row follows its sync. *)
FollowsRow(r) ==
    /\ place[r] \in {"get", "start"} => runs[r].status = "none"
    /\ place[r] \in F!Working => runs[r].status = "processing"

(* A file that was there all the time is yet to be read or has been read, so that it is
   not among the missing. *)
SeesPresent(r) ==
    /\ place[r] \in {"get", "start", "snapshot", "list"} => seen[r] = F!Nothing
    /\ place[r] = "mark" => todo[r] = {}
    /\ \A f \in File :
        /\ place[r] \in F!Working /\ folder[f] = None => f \in gone[r]
        /\ place[r] \in {"read", "store", "mark"} /\ f \notin gone[r]
            => seen[r][f] # None \/ f \in todo[r]

(* What is about to be written is what was read and found. *)
WritesFound(r) ==
    /\ place[r] = "store" => current[r] \in File /\ seen[r][current[r]] # None
    /\ place[r] = "sweep" => \A f \in missing[r] :
        f \in gone[r] /\ resources[f].status # "absent"

Untouched(r, f) == seen[r][f] = None /\ resources[f] = existing[r][f]

Stored(r, f) == seen[r][f] = folder[f] /\ F!Mirrors(f) /\ folder[f] # None

(* Where a sync that nothing interferes with has got to. *)
OnCourse(r) == quiet[r] =>
    /\ place[r] = "list" => \A f \in File : Untouched(r, f)
    /\ place[r] \in {"read", "store"} => \A f \in File :
        \/ Untouched(r, f) /\ (f \in todo[r] <=> folder[f] # None)
        \/ Stored(r, f) /\ f \notin todo[r]
        \/ place[r] = "store" /\ current[r] = f /\ seen[r][f] = folder[f] /\ f \notin todo[r]
    /\ place[r] \in {"mark", "sweep"} => \A f \in File :
        seen[r][f] = folder[f] /\ (folder[f] # None => F!Mirrors(f))
    /\ place[r] = "sweep" => missing[r] = {f \in File : F!IsMissing(r, f)}
    /\ place[r] = "finish" => \A f \in File : seen[r][f] = folder[f] /\ F!Mirrors(f)

RunHolds(r) == FollowsRow(r) /\ SeesPresent(r) /\ WritesFound(r) /\ OnCourse(r)

(* The inductive invariant of the syncs of a folder. *)
FolderInv == F!TypeOK /\ \A r \in Run : RunHolds(r)

(* What a step leaves of one run. *)
SameRun(r) ==
    /\ place'[r] = place[r] /\ runs'[r] = runs[r] /\ existing'[r] = existing[r]
    /\ todo'[r] = todo[r] /\ current'[r] = current[r] /\ seen'[r] = seen[r]
    /\ missing'[r] = missing[r] /\ gone'[r] = gone[r]

LEMMA RunKept ==
    ASSUME NEW r \in Run, FolderInv, SameRun(r), quiet'[r] = quiet[r],
           UNCHANGED <<folder, resources>>
    PROVE  RunHolds(r)'
BY DEF FolderInv, SameRun, RunHolds, FollowsRow, SeesPresent, WritesFound, OnCourse,
       Untouched, Stored, F!Mirrors, F!IsMissing

(* Another sync writes to the table. *)
LEMMA RunDisturbed ==
    ASSUME NEW r \in Run, FolderInv, SameRun(r), ~quiet'[r], UNCHANGED folder,
           \A f \in File : resources[f].status # "absent" => resources'[f].status # "absent"
    PROVE  RunHolds(r)'
<1>1. RunHolds(r) /\ missing[r] \subseteq File
    BY DEF FolderInv, F!TypeOK
<1>2. FollowsRow(r)' /\ SeesPresent(r)'
    BY <1>1 DEF SameRun, RunHolds, FollowsRow, SeesPresent
<1>3. WritesFound(r)'
    BY <1>1 DEF SameRun, RunHolds, WritesFound
<1>4. OnCourse(r)'
    BY DEF OnCourse
<1> QED BY <1>2, <1>3, <1>4 DEF RunHolds

(* The user edits a file: every sync is disturbed. *)
LEMMA EditStep ==
    ASSUME ContentAssumption, FolderInv, F!Edit
    PROVE  FolderInv'
<1>1. PICK f \in File, x \in Content \cup {None} :
        /\ folder' = [folder EXCEPT ![f] = x]
        /\ gone' = IF x = None THEN [r \in Run |-> gone[r] \cup {f}] ELSE gone
    BY DEF F!Edit
<1>2. /\ quiet' = [r \in Run |-> FALSE]
      /\ UNCHANGED <<connector, resources, runs, place, existing, todo, current, seen, missing>>
    BY DEF F!Edit, F!syncVars
<1>3. F!TypeOK'
    BY <1>1, <1>2 DEF FolderInv, F!TypeOK, F!Manifest
<1>4. ASSUME NEW r \in Run PROVE RunHolds(r)'
    <2>1. RunHolds(r) /\ gone[r] \subseteq gone'[r] /\ ~quiet'[r]
          /\ (\A g \in File : folder'[g] = None => folder[g] = None \/ g \in gone'[r])
        BY <1>1, <1>2 DEF FolderInv, F!TypeOK, F!Manifest
    <2>2. FollowsRow(r)' /\ WritesFound(r)' /\ OnCourse(r)'
        BY <1>2, <2>1 DEF RunHolds, FollowsRow, WritesFound, OnCourse
    <2>3. SeesPresent(r)'
        BY <1>2, <2>1 DEF RunHolds, SeesPresent
    <2> QED BY <2>2, <2>3 DEF RunHolds
<1> QED BY <1>3, <1>4 DEF FolderInv

LEMMA SetStatusStep ==
    ASSUME FolderInv, F!SetStatus
    PROVE  FolderInv'
<1>1. /\ UNCHANGED <<folder, resources, runs, place, existing, todo, current, seen, missing,
                     quiet, gone>>
      /\ connector' \in [status : {"active", "paused"}, cursor : F!Manifest \cup {None}]
    BY DEF F!SetStatus, F!syncVars, FolderInv, F!TypeOK
<1>2. F!TypeOK'
    BY <1>1 DEF FolderInv, F!TypeOK
<1>3. \A r \in Run : RunHolds(r)'
    BY <1>1, RunKept DEF SameRun
<1> QED BY <1>2, <1>3 DEF FolderInv

(* The process dies. *)
LEMMA CrashStep ==
    ASSUME FolderInv, F!Crash
    PROVE  FolderInv'
<1>1. /\ UNCHANGED <<folder, connector, resources, runs, existing, todo, current, seen,
                     missing, quiet, gone>>
      /\ place' = [r \in Run |-> IF place[r] = "get" THEN "get" ELSE "done"]
    BY DEF F!Crash
<1>2. F!TypeOK'
    BY <1>1 DEF FolderInv, F!TypeOK
<1>3. ASSUME NEW r \in Run PROVE RunHolds(r)'
    BY <1>1 DEF FolderInv, RunHolds, FollowsRow, SeesPresent, WritesFound, OnCourse, F!Working
<1> QED BY <1>2, <1>3 DEF FolderInv

(* The steps in which a sync only moves or remembers: the table stays. *)
QuietStep(r) ==
    /\ UNCHANGED <<folder, connector, resources>>
    /\ \A q \in Run \ {r} : SameRun(q) /\ quiet'[q] = quiet[q]

LEMMA QuietStepHolds ==
    ASSUME FolderInv, NEW r \in Run, QuietStep(r), F!TypeOK', RunHolds(r)'
    PROVE  FolderInv'
<1>1. ASSUME NEW q \in Run \ {r} PROVE RunHolds(q)'
    BY RunKept DEF QuietStep
<1> QED BY <1>1 DEF FolderInv

LEMMA GetStep ==
    ASSUME FolderInv, NEW r \in Run, F!Get(r)
    PROVE  FolderInv'
<1>1. QuietStep(r) /\ F!TypeOK'
    BY DEF F!Get, F!Go, FolderInv, F!TypeOK, QuietStep, SameRun
<1>2. RunHolds(r)'
    BY DEF F!Get, F!Go, FolderInv, F!TypeOK, RunHolds, FollowsRow, SeesPresent, WritesFound,
           OnCourse, F!Working
<1> QED BY <1>1, <1>2, QuietStepHolds

LEMMA StartRunStep ==
    ASSUME FolderInv, NEW r \in Run, F!StartRun(r)
    PROVE  FolderInv'
<1>1. QuietStep(r) /\ F!TypeOK'
    BY DEF F!StartRun, F!Go, FolderInv, F!TypeOK, QuietStep, SameRun, F!Present, F!Working
<1>2. /\ place[r] = "start" /\ place'[r] = "snapshot" /\ runs'[r].status = "processing"
      /\ gone'[r] = File \ F!Present /\ UNCHANGED <<folder, seen>>
    BY DEF F!StartRun, F!Go, FolderInv, F!TypeOK
<1>3. RunHolds(r)'
    BY <1>2 DEF FolderInv, RunHolds, FollowsRow, SeesPresent, WritesFound,
           OnCourse, F!Working, F!Present
<1> QED BY <1>1, <1>3, QuietStepHolds

LEMMA SnapshotStep ==
    ASSUME FolderInv, NEW r \in Run, F!Snapshot(r)
    PROVE  FolderInv'
<1>1. QuietStep(r) /\ F!TypeOK'
    BY DEF F!Snapshot, F!Go, FolderInv, F!TypeOK, QuietStep, SameRun, F!Working
<1>2. /\ place[r] = "snapshot" /\ place'[r] = "list" /\ existing'[r] = resources
      /\ UNCHANGED <<folder, resources, runs, seen, gone, todo>>
    BY DEF F!Snapshot, F!Go, FolderInv, F!TypeOK
<1>3. FollowsRow(r)' /\ SeesPresent(r)' /\ WritesFound(r)'
    BY <1>2 DEF FolderInv, RunHolds, FollowsRow, SeesPresent, WritesFound, F!Working
<1>4. OnCourse(r)'
    BY <1>2 DEF FolderInv, RunHolds, SeesPresent, OnCourse, Untouched, F!Nothing
<1> QED BY <1>1, <1>3, <1>4, QuietStepHolds DEF RunHolds

LEMMA ListFilesStep ==
    ASSUME FolderInv, NEW r \in Run, F!ListFiles(r)
    PROVE  FolderInv'
<1>1. QuietStep(r) /\ F!TypeOK'
    BY DEF F!ListFiles, F!Go, FolderInv, F!TypeOK, QuietStep, SameRun, F!Working, F!Present
<1>2. /\ place[r] = "list" /\ place'[r] = "read" /\ todo'[r] = F!Present
      /\ UNCHANGED <<folder, resources, runs, seen, gone, existing, quiet>>
    BY DEF F!ListFiles, F!Go, FolderInv, F!TypeOK
<1>3. FollowsRow(r)' /\ SeesPresent(r)' /\ WritesFound(r)'
    BY <1>2 DEF FolderInv, RunHolds, FollowsRow, SeesPresent, WritesFound, F!Working, F!Present
<1>4. OnCourse(r)'
    BY <1>2 DEF FolderInv, RunHolds, OnCourse, Untouched, F!Present
<1> QED BY <1>1, <1>3, <1>4, QuietStepHolds DEF RunHolds

(* A file that is as the snapshot has it is not stored again, and need not be. *)
LEMMA ReadFileStep ==
    ASSUME ContentAssumption, FolderInv, NEW r \in Run, F!ReadFile(r)
    PROVE  FolderInv'
<1>1. PICK f \in todo[r] :
        /\ folder[f] # None
        /\ todo' = [todo EXCEPT ![r] = @ \ {f}]
        /\ seen' = [seen EXCEPT ![r][f] = folder[f]]
        /\ \/ F!Unchanged(r, f) /\ UNCHANGED <<place, current>>
           \/ ~F!Unchanged(r, f) /\ current' = [current EXCEPT ![r] = f]
              /\ place' = [place EXCEPT ![r] = "store"]
    BY DEF F!ReadFile, F!Go
<1>2. /\ UNCHANGED <<folder, connector, resources, runs, existing, missing, quiet, gone>>
      /\ place[r] = "read" /\ f \in File
    BY DEF F!ReadFile, FolderInv, F!TypeOK
<1>3. QuietStep(r) /\ F!TypeOK'
    <2>1. seen[r] \in F!Manifest /\ folder[f] \in Content
        BY <1>1, <1>2 DEF FolderInv, F!TypeOK, F!Manifest
    <2>2. seen' \in [Run -> F!Manifest] /\ \A q \in Run \ {r} : seen'[q] = seen[q]
        <3>1. [seen[r] EXCEPT ![f] = folder[f]] \in F!Manifest
            BY <1>2, <2>1 DEF F!Manifest
        <3> QED BY <1>1, <3>1 DEF FolderInv, F!TypeOK
    <2>3. /\ place' \in [Run -> F!Working \cup {"get", "start", "failing", "done"}]
          /\ current' \in [Run -> File \cup {None}]
          /\ todo' \in [Run -> SUBSET File]
        <3>1. todo' \in [Run -> SUBSET File] /\ current' \in [Run -> File \cup {None}]
            BY <1>1, <1>2 DEF FolderInv, F!TypeOK
        <3> QED BY <1>1, <3>1 DEF FolderInv, F!TypeOK, F!Working
    <2>4. F!TypeOK'
        BY <1>2, <2>2, <2>3 DEF FolderInv, F!TypeOK
    <2>5. ASSUME NEW q \in Run \ {r} PROVE SameRun(q) /\ quiet'[q] = quiet[q]
        BY <1>1, <1>2, <2>2 DEF FolderInv, F!TypeOK, SameRun
    <2> QED BY <1>2, <2>4, <2>5 DEF QuietStep
<1>4. /\ todo'[r] = todo[r] \ {f} /\ seen'[r][f] = folder[f]
      /\ \A g \in File \ {f} : seen'[r][g] = seen[r][g]
      /\ \/ F!Unchanged(r, f) /\ place'[r] = "read"
         \/ place'[r] = "store" /\ current'[r] = f
    BY <1>1, <1>2 DEF FolderInv, F!TypeOK, F!Manifest
<1>5. FollowsRow(r)' /\ WritesFound(r)'
    BY <1>1, <1>2, <1>4 DEF FolderInv, RunHolds, FollowsRow, WritesFound, F!Working
<1>6. SeesPresent(r)'
    BY <1>1, <1>2, <1>4 DEF FolderInv, RunHolds, SeesPresent, F!Working
<1>7. OnCourse(r)'
    <2> SUFFICES ASSUME quiet[r] PROVE OnCourse(r)'
        BY <1>2 DEF OnCourse
    <2>1. \A g \in File : \/ Untouched(r, g) /\ (g \in todo[r] <=> folder[g] # None)
                          \/ Stored(r, g) /\ g \notin todo[r]
        BY <1>2 DEF FolderInv, RunHolds, OnCourse
    <2>2. Untouched(r, f)
        BY <1>1, <1>2, <2>1
    <2>3. ASSUME F!Unchanged(r, f) PROVE Stored(r, f)'
        BY <1>1, <1>2, <1>4, <2>2, <2>3 DEF F!Unchanged, Untouched, Stored, F!Mirrors
    <2>4. ASSUME NEW g \in File \ {f}
          PROVE  \/ Untouched(r, g)' /\ (g \in todo'[r] <=> folder'[g] # None)
                 \/ Stored(r, g)' /\ g \notin todo'[r]
        BY <1>2, <1>4, <2>1 DEF Untouched, Stored, F!Mirrors
    <2>5. \/ Stored(r, f)' /\ f \notin todo'[r]
          \/ place'[r] = "store" /\ current'[r] = f /\ seen'[r][f] = folder'[f]
             /\ f \notin todo'[r]
        BY <1>2, <1>4, <2>3
    <2>6. place'[r] \in {"read", "store"}
        BY <1>4
    <2> QED BY <2>4, <2>5, <2>6 DEF OnCourse
<1> QED BY <1>3, <1>5, <1>6, <1>7, QuietStepHolds DEF RunHolds

(* A write to the table disturbs the syncs of others. *)
LEMMA WriteStepHolds ==
    ASSUME FolderInv, NEW r \in Run, UNCHANGED folder, F!Disturb(r),
           \A f \in File : resources[f].status # "absent" => resources'[f].status # "absent",
           \A q \in Run \ {r} : SameRun(q),
           F!TypeOK', RunHolds(r)'
    PROVE  FolderInv'
<1>1. ASSUME NEW q \in Run \ {r} PROVE RunHolds(q)'
    <2>1. ~quiet'[q]
        BY DEF F!Disturb
    <2> QED BY <2>1, RunDisturbed
<1> QED BY <1>1 DEF FolderInv

LEMMA UpsertStep ==
    ASSUME ContentAssumption, FolderInv, NEW r \in Run, F!Upsert(r)
    PROVE  FolderInv'
<1> DEFINE f == current[r]
           row == [status |-> "active", fingerprint |-> seen[r][f]]
<1>1. /\ UNCHANGED <<folder, connector, runs, existing, todo, current, seen, missing, gone>>
      /\ place[r] = "store" /\ place' = [place EXCEPT ![r] = "read"]
      /\ resources' = [resources EXCEPT ![f] = row]
      /\ F!Disturb(r)
    BY DEF F!Upsert, F!Go
<1>2. f \in File /\ seen[r][f] # None /\ seen[r][f] \in Content
    BY <1>1 DEF FolderInv, RunHolds, WritesFound, F!TypeOK, F!Manifest
<1>3. row \in F!Resource /\ row.status = "active" /\ row.fingerprint = seen[r][f]
    BY <1>2 DEF F!Resource
<1> HIDE DEF row
<1>4. /\ resources' \in [File -> F!Resource] /\ resources'[f] = row
      /\ \A g \in File \ {f} : resources'[g] = resources[g]
      /\ quiet' \in [Run -> BOOLEAN] /\ quiet'[r] = quiet[r]
      /\ place' \in [Run -> F!Working \cup {"get", "start", "failing", "done"}]
      /\ place'[r] = "read" /\ \A q \in Run \ {r} : place'[q] = place[q]
    BY <1>1, <1>2, <1>3 DEF F!Disturb, FolderInv, F!TypeOK, F!Working
<1>5. F!TypeOK'
    BY <1>1, <1>4 DEF FolderInv, F!TypeOK
<1>6. FollowsRow(r)' /\ SeesPresent(r)' /\ WritesFound(r)'
    BY <1>1, <1>4 DEF FolderInv, RunHolds, FollowsRow, SeesPresent, WritesFound, F!Working
<1>7. OnCourse(r)'
    <2> SUFFICES ASSUME quiet[r] PROVE OnCourse(r)'
        BY <1>4 DEF OnCourse
    <2>1. ASSUME NEW g \in File \ {f}
          PROVE  \/ Untouched(r, g)' /\ (g \in todo'[r] <=> folder'[g] # None)
                 \/ Stored(r, g)' /\ g \notin todo'[r]
        <3>1. \/ Untouched(r, g) /\ (g \in todo[r] <=> folder[g] # None)
              \/ Stored(r, g) /\ g \notin todo[r]
            BY <1>1 DEF FolderInv, RunHolds, OnCourse
        <3> QED BY <1>1, <1>4, <3>1 DEF Untouched, Stored, F!Mirrors
    <2>2. seen[r][f] = folder[f] /\ f \notin todo[r]
        BY <1>1, <1>2 DEF FolderInv, RunHolds, OnCourse, Untouched, Stored
    <2>3. Stored(r, f)'
        BY <1>1, <1>2, <1>3, <1>4, <2>2 DEF Stored, F!Mirrors
    <2> QED BY <1>1, <1>4, <2>1, <2>2, <2>3 DEF OnCourse
<1>8. \A q \in Run \ {r} : SameRun(q)
    BY <1>1, <1>4 DEF SameRun
<1>9. \A g \in File : resources[g].status # "absent" => resources'[g].status # "absent"
    BY <1>3, <1>4
<1> QED BY <1>1, <1>5, <1>6, <1>7, <1>8, <1>9, WriteStepHolds DEF RunHolds

LEMMA EndOfListStep ==
    ASSUME FolderInv, NEW r \in Run, F!EndOfList(r)
    PROVE  FolderInv'
<1>1. QuietStep(r) /\ F!TypeOK'
    BY DEF F!EndOfList, F!Go, FolderInv, F!TypeOK, QuietStep, SameRun, F!Working
<1>2. /\ place[r] = "read" /\ place'[r] = "mark" /\ todo[r] = {}
      /\ UNCHANGED <<folder, resources, runs, existing, todo, seen, gone, quiet>>
    BY DEF F!EndOfList, F!Go, FolderInv, F!TypeOK
<1>3. FollowsRow(r)' /\ SeesPresent(r)' /\ WritesFound(r)'
    BY <1>2 DEF FolderInv, RunHolds, FollowsRow, SeesPresent, WritesFound, F!Working
<1>4. OnCourse(r)'
    BY <1>2 DEF FolderInv, RunHolds, OnCourse, Untouched, Stored, F!Mirrors
<1> QED BY <1>1, <1>3, <1>4, QuietStepHolds DEF RunHolds

(* What mark_missing finds was absent at some moment of the sync. *)
LEMMA MarkStep ==
    ASSUME FolderInv, NEW r \in Run, F!Mark(r)
    PROVE  FolderInv'
<1> DEFINE lost == {f \in File : F!IsMissing(r, f)}
<1>1. /\ UNCHANGED <<folder, connector, resources, runs, existing, todo, current, seen,
                     quiet, gone>>
      /\ place[r] = "mark"
      /\ missing' = [missing EXCEPT ![r] = lost]
      /\ place' = [place EXCEPT ![r] = IF missing'[r] = {} THEN "finish" ELSE "sweep"]
    BY DEF F!Mark, F!Go
<1>2. /\ missing'[r] = lost /\ missing' \in [Run -> SUBSET File]
      /\ \A q \in Run \ {r} : missing'[q] = missing[q] /\ place'[q] = place[q]
      /\ place' \in [Run -> F!Working \cup {"get", "start", "failing", "done"}]
      /\ place'[r] = IF lost = {} THEN "finish" ELSE "sweep"
    BY <1>1 DEF FolderInv, F!TypeOK, F!Working
<1>3. QuietStep(r) /\ F!TypeOK'
    BY <1>1, <1>2 DEF FolderInv, F!TypeOK, QuietStep, SameRun
<1>4. FollowsRow(r)' /\ SeesPresent(r)'
    BY <1>1, <1>2 DEF FolderInv, RunHolds, FollowsRow, SeesPresent, F!Working
<1>5. \A f \in lost : f \in gone[r] /\ resources[f].status # "absent"
    BY <1>1 DEF FolderInv, RunHolds, SeesPresent, F!IsMissing
<1>6. WritesFound(r)'
    BY <1>1, <1>2, <1>5 DEF WritesFound
<1>7. OnCourse(r)'
    <2> SUFFICES ASSUME quiet[r] PROVE OnCourse(r)'
        BY <1>1 DEF OnCourse
    <2>1. \A f \in File : seen[r][f] = folder[f] /\ (folder[f] # None => F!Mirrors(f))
        BY <1>1 DEF FolderInv, RunHolds, OnCourse
    <2>2. CASE lost # {}
        BY <1>1, <1>2, <2>1, <2>2 DEF OnCourse, F!Mirrors, F!IsMissing
    <2>3. CASE lost = {}
        <3>1. \A f \in File : F!Mirrors(f)
            BY <2>1, <2>3 DEF F!Mirrors, F!IsMissing
        <3> QED BY <1>1, <1>2, <2>1, <2>3, <3>1 DEF OnCourse, F!Mirrors
    <2> QED BY <2>2, <2>3
<1> QED BY <1>3, <1>4, <1>6, <1>7, QuietStepHolds DEF RunHolds

LEMMA SweepStep ==
    ASSUME FolderInv, NEW r \in Run, F!Sweep(r)
    PROVE  FolderInv'
<1>1. /\ UNCHANGED <<folder, connector, runs, existing, todo, current, seen, missing, gone>>
      /\ place[r] = "sweep" /\ place' = [place EXCEPT ![r] = "finish"]
      /\ resources' = [f \in File |->
            IF f \in missing[r] THEN [resources[f] EXCEPT !.status = "source_deleted"]
            ELSE resources[f]]
      /\ F!Disturb(r)
    BY DEF F!Sweep, F!Go
<1>2. \A f \in File :
        IF f \in missing[r]
        THEN /\ resources'[f] = [resources[f] EXCEPT !.status = "source_deleted"]
             /\ resources[f].status # "absent"
        ELSE resources'[f] = resources[f]
    BY <1>1 DEF FolderInv, RunHolds, WritesFound
<1>3. \A f \in File :
        /\ resources'[f] \in F!Resource
        /\ resources'[f].status = IF f \in missing[r] THEN "source_deleted"
                                  ELSE resources[f].status
        /\ resources'[f].fingerprint = resources[f].fingerprint
    <2> SUFFICES ASSUME NEW f \in File
                 PROVE  /\ resources'[f] \in F!Resource
                        /\ resources'[f].status = IF f \in missing[r] THEN "source_deleted"
                                                  ELSE resources[f].status
                        /\ resources'[f].fingerprint = resources[f].fingerprint
        OBVIOUS
    <2>1. PICK row \in F!Resource : row = resources[f]
        BY DEF FolderInv, F!TypeOK
    <2>2. CASE f \in missing[r]
        <3>1. row \in [status : {"active", "source_deleted"}, fingerprint : Content]
            BY <1>2, <2>1, <2>2 DEF F!Resource
        <3>2. resources'[f] = [row EXCEPT !.status = "source_deleted"]
            BY <1>2, <2>1, <2>2
        <3> QED BY <2>1, <2>2, <3>1, <3>2 DEF F!Resource
    <2> QED BY <1>2, <2>1, <2>2
<1>4. /\ resources' \in [File -> F!Resource]
      /\ quiet' \in [Run -> BOOLEAN] /\ quiet'[r] = quiet[r]
      /\ place' \in [Run -> F!Working \cup {"get", "start", "failing", "done"}]
      /\ place'[r] = "finish" /\ \A q \in Run \ {r} : place'[q] = place[q]
    BY <1>1, <1>3 DEF F!Disturb, FolderInv, F!TypeOK, F!Working
<1>5. F!TypeOK'
    BY <1>1, <1>4 DEF FolderInv, F!TypeOK
<1>6. FollowsRow(r)' /\ SeesPresent(r)' /\ WritesFound(r)'
    BY <1>1, <1>4 DEF FolderInv, RunHolds, FollowsRow, SeesPresent, WritesFound, F!Working
<1>7. OnCourse(r)'
    <2> SUFFICES ASSUME quiet[r] PROVE OnCourse(r)'
        BY <1>4 DEF OnCourse
    <2>1. /\ \A f \in File : seen[r][f] = folder[f] /\ (folder[f] # None => F!Mirrors(f))
          /\ missing[r] = {f \in File : F!IsMissing(r, f)}
        BY <1>1 DEF FolderInv, RunHolds, OnCourse
    <2>2. \A f \in File : F!Mirrors(f)'
        BY <1>1, <1>3, <2>1 DEF F!Mirrors, F!IsMissing
    <2> QED BY <1>1, <1>4, <2>1, <2>2 DEF OnCourse
<1>8. \A q \in Run \ {r} : SameRun(q)
    BY <1>1, <1>4 DEF SameRun
<1>9. \A f \in File : resources[f].status # "absent" => resources'[f].status # "absent"
    BY <1>3
<1> QED BY <1>1, <1>5, <1>6, <1>7, <1>8, <1>9, WriteStepHolds DEF RunHolds

LEMMA CompleteRunStep ==
    ASSUME FolderInv, NEW r \in Run, F!CompleteRun(r)
    PROVE  FolderInv'
<1>1. /\ UNCHANGED <<folder, resources, existing, todo, current, seen, missing, quiet, gone>>
      /\ runs' = [runs EXCEPT ![r] = [status |-> "completed", cursor |-> seen[r]]]
      /\ connector' = [connector EXCEPT !.cursor = seen[r]]
      /\ \E next \in {"done", "failing"} : place' = [place EXCEPT ![r] = next]
    BY DEF F!CompleteRun, F!Go
<1>2. seen[r] \in F!Manifest
    BY DEF FolderInv, F!TypeOK
<1>3. /\ F!TypeOK'
      /\ place'[r] \in {"done", "failing"}
      /\ \A q \in Run \ {r} : place'[q] = place[q] /\ runs'[q] = runs[q]
    BY <1>1, <1>2 DEF FolderInv, F!TypeOK
<1>4. RunHolds(r)'
    BY <1>3 DEF RunHolds, FollowsRow, SeesPresent, WritesFound, OnCourse, F!Working
<1>5. \A q \in Run \ {r} : SameRun(q) /\ quiet'[q] = quiet[q]
    BY <1>1, <1>3 DEF SameRun
<1>6. ASSUME NEW q \in Run \ {r} PROVE RunHolds(q)'
    BY <1>1, <1>5, RunKept
<1> QED BY <1>3, <1>4, <1>6 DEF FolderInv

LEMMA FailingStep ==
    ASSUME FolderInv, NEW r \in Run, F!Break(r) \/ F!FailRun(r)
    PROVE  FolderInv'
<1>1. /\ UNCHANGED <<folder, connector, resources, existing, todo, current, seen, missing,
                     quiet, gone>>
      /\ \E next \in {"done", "failing"} : place' = [place EXCEPT ![r] = next]
      /\ UNCHANGED runs \/ runs' = [runs EXCEPT ![r].status = "failed"]
    BY DEF F!Break, F!FailRun, F!Go
<1>2. /\ F!TypeOK' /\ place'[r] \in {"done", "failing"}
      /\ \A q \in Run \ {r} : place'[q] = place[q] /\ runs'[q] = runs[q]
    <2>1. /\ place' \in [Run -> F!Working \cup {"get", "start", "failing", "done"}]
          /\ place'[r] \in {"done", "failing"}
          /\ \A q \in Run \ {r} : place'[q] = place[q]
        BY <1>1 DEF FolderInv, F!TypeOK
    <2>2. /\ runs' \in [Run -> [status : {"none", "processing", "completed", "failed"},
                                cursor : F!Manifest \cup {None}]]
          /\ \A q \in Run \ {r} : runs'[q] = runs[q]
        <3>1. PICK row \in [status : {"none", "processing", "completed", "failed"},
                            cursor : F!Manifest \cup {None}] : row = runs[r]
            BY DEF FolderInv, F!TypeOK
        <3>2. UNCHANGED runs
              \/ runs' = [runs EXCEPT ![r] = [row EXCEPT !.status = "failed"]]
            BY <1>1, <3>1
        <3>3. [row EXCEPT !.status = "failed"]
                \in [status : {"none", "processing", "completed", "failed"},
                     cursor : F!Manifest \cup {None}]
            BY <3>1
        <3>4. CASE runs' = [runs EXCEPT ![r] = [row EXCEPT !.status = "failed"]]
            BY <3>3, <3>4 DEF FolderInv, F!TypeOK
        <3> QED BY <3>2, <3>4 DEF FolderInv, F!TypeOK
    <2> QED BY <1>1, <2>1, <2>2 DEF FolderInv, F!TypeOK
<1>3. QuietStep(r)
    BY <1>1, <1>2 DEF QuietStep, SameRun
<1>4. RunHolds(r)'
    BY <1>2 DEF RunHolds, FollowsRow, SeesPresent, WritesFound, OnCourse, F!Working
<1> QED BY <1>2, <1>3, <1>4, QuietStepHolds

LEMMA FolderStep ==
    ASSUME ContentAssumption, FolderInv, [F!Next]_F!vars
    PROVE  FolderInv'
<1>1. CASE UNCHANGED F!vars
    <2>1. UNCHANGED <<folder, connector, resources, runs, place, existing, todo, current,
                      seen, missing, quiet, gone>>
        BY <1>1 DEF F!vars, F!syncVars
    <2>2. F!TypeOK'
        BY <2>1 DEF FolderInv, F!TypeOK
    <2>3. ASSUME NEW r \in Run PROVE RunHolds(r)'
        BY <2>1, RunKept DEF SameRun
    <2> QED BY <2>2, <2>3 DEF FolderInv
<1>2. CASE F!Next
    BY <1>2, EditStep, SetStatusStep, CrashStep, GetStep, StartRunStep, SnapshotStep,
       ListFilesStep, ReadFileStep, UpsertStep, EndOfListStep, MarkStep, SweepStep,
       CompleteRunStep, FailingStep
    DEF F!Next
<1> QED BY <1>1, <1>2

LEMMA FolderStart == F!Init => FolderInv
<1> SUFFICES ASSUME F!Init PROVE FolderInv
    OBVIOUS
<1>1. F!Nothing \in F!Manifest /\ resources \in [File -> F!Resource]
    BY DEF F!Init, F!Nothing, F!Manifest, F!Resource
<1>2. F!TypeOK
    BY <1>1 DEF F!Init, F!TypeOK
<1>3. ASSUME NEW r \in Run PROVE RunHolds(r)
    BY DEF F!Init, RunHolds, FollowsRow, SeesPresent, WritesFound, OnCourse, F!Working
<1> QED BY <1>2, <1>3 DEF FolderInv

LEMMA FolderInvariance ==
    ASSUME ContentAssumption
    PROVE  F!Spec => []FolderInv
BY FolderStart, FolderStep, PTL DEF F!Spec

(* For any number of syncs and files: whatever earlier syncs that failed, overlapped or
   were interrupted have left in the table, a sync that nothing interferes with ends with
   the table and its manifest equal to the folder. *)
THEOREM TableSafety ==
    ASSUME ContentAssumption
    PROVE  F!Spec => []TableIsExact
<1>1. FolderInv => TableIsExact
    <2> SUFFICES ASSUME FolderInv, NEW r \in Run, quiet[r], place[r] = "finish"
                 PROVE  seen[r] = folder /\ \A f \in File : F!Mirrors(f)
        BY DEF TableIsExact, F!QuietSyncIsExact, FolderInv
    <2>1. \A f \in File : seen[r][f] = folder[f] /\ F!Mirrors(f)
        BY DEF FolderInv, RunHolds, OnCourse
    <2>2. seen[r] \in F!Manifest /\ folder \in F!Manifest
        BY DEF FolderInv, F!TypeOK
    <2> QED BY <2>1, <2>2 DEF F!Manifest
<1> QED BY <1>1, FolderInvariance, PTL

(* However many syncs overlap, fail or are interrupted, none marks a file deleted that was
   in the folder all the time the sync ran. *)
THEOREM DeletionSafety ==
    ASSUME ContentAssumption
    PROVE  F!Spec => NoPresentFileIsDeleted
<1> DEFINE Deletes(f) ==
        resources[f].status # "source_deleted" /\ resources'[f].status = "source_deleted"
<1>1. ASSUME FolderInv, [F!Next]_F!vars, NEW f \in File, Deletes(f)
      PROVE  \E r \in Run : place[r] = "sweep" /\ f \in gone[r]
    <2>1. CASE UNCHANGED resources
        BY <1>1, <2>1
    <2>2. CASE \E r \in Run : F!Sweep(r)
        <3>1. PICK r \in Run : F!Sweep(r)
            BY <2>2
        <3>2. place[r] = "sweep" /\ f \in missing[r]
            BY <1>1, <3>1 DEF F!Sweep
        <3> QED BY <1>1, <3>2 DEF FolderInv, RunHolds, WritesFound
    <2>3. CASE \E r \in Run : F!Upsert(r)
        BY <1>1, <2>3 DEF F!Upsert, FolderInv, F!TypeOK
    <2> QED BY <1>1, <2>1, <2>2, <2>3
            DEF F!vars, F!Next, F!Edit, F!SetStatus, F!Crash, F!Get,
                F!StartRun, F!Snapshot, F!ListFiles, F!ReadFile, F!EndOfList, F!Mark,
                F!CompleteRun, F!Break, F!FailRun
<1>2. FolderInv /\ [F!Next]_F!vars
      => [\A f \in File : Deletes(f) => \E r \in Run : place[r] = "sweep" /\ f \in gone[r]]_F!vars
    BY <1>1
<1> QED BY <1>2, FolderInvariance, PTL
        DEF F!Spec, NoPresentFileIsDeleted, F!NoPresentFileIsDeleted

(* A run that is completed or failed stays as it is: an error after the completion was
   committed takes nothing back, and no late completion a failure. *)
THEOREM RunFinality ==
    ASSUME ContentAssumption
    PROVE  F!Spec => FinishedRunIsFinal
<1>1. ASSUME FolderInv, [F!Next]_F!vars, NEW r \in Run,
             runs[r].status \in {"completed", "failed"}
      PROVE  runs'[r] = runs[r]
    <2>1. CASE UNCHANGED runs
        BY <2>1
    <2>2. CASE \E q \in Run : F!StartRun(q) \/ F!CompleteRun(q) \/ F!FailRun(q)
        <3>1. PICK q \in Run : F!StartRun(q) \/ F!CompleteRun(q) \/ F!FailRun(q)
            BY <2>2
        <3>2. CASE q = r
            BY <1>1, <3>1, <3>2
               DEF FolderInv, RunHolds, FollowsRow, F!Working, F!StartRun, F!CompleteRun,
                   F!FailRun, F!Immutable
        <3>3. CASE q # r
            BY <1>1, <3>1, <3>3 DEF F!StartRun, F!CompleteRun, F!FailRun, FolderInv, F!TypeOK
        <3> QED BY <3>2, <3>3
    <2> QED BY <1>1, <2>1, <2>2
            DEF F!vars, F!Next, F!Edit, F!SetStatus, F!Crash, F!Get,
                F!Snapshot, F!ListFiles, F!ReadFile, F!Upsert, F!EndOfList, F!Mark,
                F!Sweep, F!Break
<1>2. FolderInv /\ [F!Next]_F!vars
      => [\A r \in Run :
            runs[r].status \in {"completed", "failed"} => runs'[r] = runs[r]]_F!vars
    BY <1>1
<1> QED BY <1>2, FolderInvariance, PTL
        DEF F!Spec, FinishedRunIsFinal, F!FinishedRunIsFinal

-----------------------------------------------------------------------------
(* ConnectorDispatch.  A task is in one place: due, waiting for its retry, or with the one
   request that executes it. *)
Executes(q) == phase[q] = "handle"

IdsAreKnown ==
    /\ \A i \in DOMAIN ready : ready[i].id <= created
    /\ \A t \in waiting : t.id <= created
    /\ \A q \in Request : Executes(q) => selected[q].id <= created

TasksApart ==
    /\ \A i, j \in DOMAIN ready : ready[i].id = ready[j].id => i = j
    /\ \A t, u \in waiting : t.id = u.id => t = u
    /\ \A i \in DOMAIN ready : \A t \in waiting : ready[i].id # t.id

ExecutedOnce ==
    \A q \in Request : Executes(q) =>
        /\ \A i \in DOMAIN ready : ready[i].id # selected[q].id
        /\ \A t \in waiting : t.id # selected[q].id
        /\ \A p \in Request : Executes(p) /\ selected[p].id = selected[q].id => p = q

RequestsKnow ==
    \A q \in Request :
        /\ phase[q] \in {"claim", "handle"} => selected[q] \in Task
        /\ phase[q] \in {"advance", "write"} => serving[q] \in Connector

(* The inductive invariant of dispatching. *)
DispatchInv == TypeOK /\ IdsAreKnown /\ TasksApart /\ ExecutedOnce /\ RequestsKnow

(* RemoveAt takes out one element and keeps the others in their order. *)
LEMMA RemoveAtKeeps ==
    ASSUME NEW T, NEW s \in Seq(T), NEW i \in DOMAIN s
    PROVE  /\ RemoveAt(s, i) \in Seq(T)
           /\ Len(RemoveAt(s, i)) = Len(s) - 1
           /\ \A j \in DOMAIN RemoveAt(s, i) :
                RemoveAt(s, i)[j] = s[IF j < i THEN j ELSE j + 1]
           /\ \A j \in DOMAIN RemoveAt(s, i) :
                (IF j < i THEN j ELSE j + 1) \in DOMAIN s \ {i}
<1>1. i \in 1..Len(s) /\ Len(s) \in Nat
    OBVIOUS
<1>2. /\ SubSeq(s, 1, i - 1) \in Seq(T) /\ Len(SubSeq(s, 1, i - 1)) = i - 1
      /\ \A j \in 1..(i - 1) : SubSeq(s, 1, i - 1)[j] = s[j]
    BY <1>1
<1>3. /\ SubSeq(s, i + 1, Len(s)) \in Seq(T)
      /\ Len(SubSeq(s, i + 1, Len(s))) = Len(s) - i
      /\ \A j \in 1..(Len(s) - i) : SubSeq(s, i + 1, Len(s))[j] = s[i + j]
    BY <1>1
<1> DEFINE before == SubSeq(s, 1, i - 1)
           after == SubSeq(s, i + 1, Len(s))
<1>4. /\ before \o after \in Seq(T) /\ Len(before \o after) = Len(before) + Len(after)
      /\ \A j \in 1..(Len(before) + Len(after)) :
            (before \o after)[j] = IF j <= Len(before) THEN before[j]
                                   ELSE after[j - Len(before)]
    <2>1. before \in Seq(T) /\ after \in Seq(T)
        BY <1>2, <1>3
    <2> HIDE DEF before, after
    <2> QED BY <2>1
<1>5. RemoveAt(s, i) = before \o after
    BY DEF RemoveAt
<1>6. Len(before) = i - 1 /\ Len(after) = Len(s) - i
    BY <1>2, <1>3
<1>7. ASSUME NEW j \in 1..(Len(s) - 1)
      PROVE  (before \o after)[j] = s[IF j < i THEN j ELSE j + 1]
    <2>1. CASE j < i
        BY <1>1, <1>2, <1>4, <1>6, <2>1
    <2>2. CASE j >= i
        <3> DEFINE k == j - (i - 1)
        <3>1. k \in 1..(Len(s) - i) /\ i + k = j + 1
            BY <1>1, <2>2
        <3> HIDE DEF k
        <3>2. after[k] = s[j + 1]
            BY <1>3, <3>1
        <3>3. (before \o after)[j] = after[j - Len(before)]
            <4>1. j \in 1..(Len(before) + Len(after)) /\ ~(j <= Len(before))
                BY <1>1, <1>6, <2>2
            <4> HIDE DEF before, after
            <4> QED BY <1>4, <4>1
        <3>4. j - Len(before) = k
            BY <1>6 DEF k
        <3> HIDE DEF before, after
        <3> QED BY <1>1, <2>2, <3>2, <3>3, <3>4
    <2> HIDE DEF before, after
    <2>3. j < i \/ j >= i
        BY <1>1
    <2> QED BY <2>1, <2>2, <2>3
<1> HIDE DEF before, after
<1>8. Len(before \o after) = Len(s) - 1 /\ DOMAIN (before \o after) = 1..(Len(s) - 1)
    BY <1>1, <1>4, <1>6, SMTT(30)
<1>9. ASSUME NEW j \in 1..(Len(s) - 1) PROVE (IF j < i THEN j ELSE j + 1) \in DOMAIN s \ {i}
    BY <1>1
<1> QED BY <1>4, <1>5, <1>7, <1>8, <1>9

(* Steps that touch neither the queue nor what is selected, and start no execution. *)
LEMMA QueueKept ==
    ASSUME DispatchInv, UNCHANGED <<ready, waiting, created, selected>>,
           \A q \in Request : phase'[q] = "handle" => phase[q] = "handle"
    PROVE  IdsAreKnown' /\ TasksApart' /\ ExecutedOnce'
BY DEF DispatchInv, IdsAreKnown, TasksApart, ExecutedOnce, Executes

LEMMA OutsideStep ==
    ASSUME DispatchInv, SetSchedule \/ SetStatus
    PROVE  DispatchInv'
<1>1. UNCHANGED <<ready, waiting, created, phase, batch, serving, selected, config, earned>>
    BY DEF SetSchedule, SetStatus, queueVars, requestVars
<1>2. status' \in [Connector -> {"active", "paused"}] /\ schedule' \in [Connector -> Schedule]
    <2>1. \A on \in BOOLEAN : [enabled |-> on, due |-> FALSE] \in Schedule
        BY DEF Schedule
    <2> QED BY <2>1 DEF SetSchedule, SetStatus, DispatchInv, TypeOK
<1>3. TypeOK' /\ RequestsKnow'
    BY <1>1, <1>2 DEF DispatchInv, TypeOK, RequestsKnow
<1> QED BY <1>1, <1>3, QueueKept DEF DispatchInv

LEMMA TimePassesStep ==
    ASSUME DispatchInv, TimePasses
    PROVE  DispatchInv'
<1>1. CASE UNCHANGED queueVars
    <2>1. /\ UNCHANGED <<ready, waiting, created, phase, batch, serving, selected, config,
                         earned, status>>
        BY <1>1 DEF TimePasses, queueVars, requestVars
    <2>2. schedule' \in [Connector -> Schedule]
        <3>1. ASSUME NEW row \in Schedule PROVE [row EXCEPT !.due = TRUE] \in Schedule
            BY DEF Schedule
        <3>2. CASE \E c \in Connector : schedule' = [schedule EXCEPT ![c].due = TRUE]
            BY <3>1, <3>2 DEF DispatchInv, TypeOK
        <3>3. CASE UNCHANGED schedule
            BY <3>3 DEF DispatchInv, TypeOK
        <3> QED BY <3>2, <3>3 DEF TimePasses
    <2>3. TypeOK' /\ RequestsKnow'
        BY <2>1, <2>2 DEF DispatchInv, TypeOK, RequestsKnow
    <2> QED BY <2>1, <2>3, QueueKept DEF DispatchInv
<1>2. CASE \E t \in waiting : waiting' = waiting \ {t} /\ ready' = Append(ready, t)
                              /\ UNCHANGED <<status, schedule, created, requestVars, earned>>
    <2>1. PICK t \in waiting : waiting' = waiting \ {t} /\ ready' = Append(ready, t)
                               /\ UNCHANGED <<status, schedule, created, requestVars, earned>>
        BY <1>2
    <2>2. UNCHANGED <<status, schedule, created, phase, batch, serving, selected, config, earned>>
        BY <2>1 DEF requestVars
    <2>3. /\ ready' \in Seq(Task) /\ Len(ready') = Len(ready) + 1 /\ Len(ready) \in Nat
          /\ ready'[Len(ready) + 1] = t
          /\ \A i \in DOMAIN ready : ready'[i] = ready[i]
          /\ DOMAIN ready' = DOMAIN ready \cup {Len(ready) + 1}
          /\ Len(ready) + 1 \notin DOMAIN ready
        BY <2>1 DEF DispatchInv, TypeOK
    <2>4. TypeOK' /\ RequestsKnow'
        BY <2>1, <2>2, <2>3 DEF DispatchInv, TypeOK, RequestsKnow
    <2>5. IdsAreKnown'
        BY <2>1, <2>2, <2>3 DEF DispatchInv, IdsAreKnown, Executes
    <2>6. TasksApart'
        BY <2>1, <2>2, <2>3 DEF DispatchInv, TasksApart
    <2>7. ExecutedOnce'
        BY <2>1, <2>2, <2>3 DEF DispatchInv, ExecutedOnce, Executes
    <2> QED BY <2>4, <2>5, <2>6, <2>7 DEF DispatchInv
<1> QED BY <1>1, <1>2 DEF TimePasses, queueVars

(* The steps of a request that neither enqueue, claim nor give back a task. *)
LEMMA RequestStep ==
    ASSUME NoneAssumption, DispatchInv, NEW q \in Request,
           AskSync(q) \/ AskScheduled(q) \/ AskDispatch(q) \/ Respond(q) \/ Select(q)
           \/ Succeed(q) \/ ReadSchedule(q) \/ WriteSchedule(q) \/ Break(q)
    PROVE  DispatchInv'
<1>1. UNCHANGED <<ready, waiting, created, status>>
    BY DEF AskSync, AskScheduled, AskDispatch, Respond, Select, Succeed, ReadSchedule,
           WriteSchedule, Break, queueVars
<1>2. /\ phase' \in [Request -> {"idle", "next", "select", "claim", "handle", "advance", "write"}]
      /\ phase'[q] # "handle" /\ \A p \in Request \ {q} : phase'[p] = phase[p]
    BY DEF AskSync, AskScheduled, AskDispatch, Respond, Select, Succeed, ReadSchedule,
           WriteSchedule, Break, Go, AfterSync, DispatchInv, TypeOK
<1>3. /\ batch' \in [Request -> SUBSET Connector]
      /\ serving' \in [Request -> Connector \cup {None}]
      /\ earned' \in [Request -> BOOLEAN]
    <2>1. CASE AskScheduled(q)
        BY <2>1 DEF AskScheduled, DispatchInv, TypeOK
    <2>2. CASE Succeed(q)
        <3>1. \A p \in Request :
                (earned[p] \/ serving[p] = selected[q].connector) \in BOOLEAN
            BY DEF DispatchInv, TypeOK
        <3> QED BY <2>2, <3>1 DEF Succeed, DispatchInv, TypeOK
    <2>3. CASE AskSync(q)
        <3>1. PICK c \in Connector : batch' = [batch EXCEPT ![q] = {c}]
            BY <2>3 DEF AskSync
        <3> QED BY <2>3, <3>1 DEF AskSync, DispatchInv, TypeOK
    <2>4. CASE Respond(q)
        <3>1. /\ batch' = batch /\ serving' = [serving EXCEPT ![q] = None]
              /\ earned' = [earned EXCEPT ![q] = FALSE]
            BY <2>4 DEF Respond
        <3> QED BY <3>1 DEF DispatchInv, TypeOK
    <2>5. CASE UNCHANGED <<batch, serving, earned>>
        BY <2>5 DEF DispatchInv, TypeOK
    <2> QED BY <2>1, <2>2, <2>3, <2>4, <2>5
            DEF AskDispatch, Select, ReadSchedule, WriteSchedule, Break
<1>4. /\ selected' \in [Request -> Task \cup {None}]
      /\ \A p \in Request \ {q} : selected'[p] = selected[p]
      /\ phase'[q] = "claim" => selected'[q] \in Task
    <2>1. CASE Select(q)
        <3>1. ready # <<>> => Head(ready) \in Task
            BY DEF DispatchInv, TypeOK
        <3> QED BY <2>1, <3>1 DEF Select, Go, DispatchInv, TypeOK
    <2>2. CASE Respond(q)
        BY <2>2 DEF Respond, Go, DispatchInv, TypeOK
    <2>3. CASE ~Select(q) /\ ~Respond(q)
        BY <2>3 DEF AskSync, AskScheduled, AskDispatch, Succeed, ReadSchedule,
                    WriteSchedule, Break, Go, AfterSync, DispatchInv, TypeOK
    <2> QED BY <2>1, <2>2, <2>3
<1>5. /\ \A p \in Request \ {q} : serving'[p] = serving[p]
      /\ phase'[q] \in {"advance", "write"} => serving'[q] \in Connector
    <2>1. CASE Succeed(q)
        BY <2>1 DEF Succeed, AfterSync, Go, DispatchInv, TypeOK
    <2>2. CASE ReadSchedule(q)
        BY <2>2 DEF ReadSchedule, Go, DispatchInv, TypeOK, RequestsKnow
    <2>3. CASE ~Succeed(q) /\ ~ReadSchedule(q)
        BY <2>3 DEF AskSync, AskScheduled, AskDispatch, Respond, Select, WriteSchedule,
                    Break, Go, DispatchInv, TypeOK
    <2> QED BY <2>1, <2>2, <2>3
<1>6. schedule' \in [Connector -> Schedule] /\ config' \in [Request -> Schedule]
    <2>1. CASE ReadSchedule(q)
        <3>1. serving[q] \in Connector
            BY <2>1 DEF ReadSchedule, DispatchInv, RequestsKnow
        <3> QED BY <2>1, <3>1 DEF ReadSchedule, DispatchInv, TypeOK
    <2>2. CASE WriteSchedule(q)
        <3>2. config[q] \in Schedule
            BY DEF DispatchInv, TypeOK
        <3>1. [config[q] EXCEPT !.due = FALSE] \in Schedule
            BY <3>2 DEF Schedule
        <3> QED BY <2>2, <3>1 DEF WriteSchedule, DispatchInv, TypeOK
    <2>3. CASE Respond(q)
        <3>1. Never \in Schedule
            BY DEF Never, Schedule
        <3> QED BY <2>3, <3>1 DEF Respond, DispatchInv, TypeOK
    <2>4. CASE ~ReadSchedule(q) /\ ~WriteSchedule(q) /\ ~Respond(q)
        BY <2>4 DEF AskSync, AskScheduled, AskDispatch, Select, Succeed, Break, DispatchInv, TypeOK
    <2> QED BY <2>1, <2>2, <2>3, <2>4
<1>7. TypeOK' /\ RequestsKnow'
    BY <1>1, <1>2, <1>3, <1>4, <1>5, <1>6 DEF DispatchInv, TypeOK, RequestsKnow
<1>8. IdsAreKnown' /\ TasksApart' /\ ExecutedOnce'
    BY <1>1, <1>2, <1>4 DEF DispatchInv, IdsAreKnown, TasksApart, ExecutedOnce, Executes
<1> QED BY <1>7, <1>8 DEF DispatchInv

(* A new task has a number that no other one has. *)
LEMMA EnqueueStep ==
    ASSUME BoundAssumption, DispatchInv, NEW q \in Request, Enqueue(q)
    PROVE  DispatchInv'
<1> PICK n : n = created + 1
    OBVIOUS
<1>0. n \in 1..MaxTasks /\ created \in Nat /\ created < n
    BY DEF Enqueue, BoundAssumption, DispatchInv, TypeOK
<1>1. PICK c \in Connector :
        /\ batch' = [batch EXCEPT ![q] = @ \ {c}]
        /\ serving' = [serving EXCEPT ![q] = c]
        /\ created' = n
        /\ ready' = Append(ready, [id |-> n, connector |-> c, attempt |-> 0])
    BY DEF Enqueue, DispatchInv, TypeOK
<1>2. /\ UNCHANGED <<status, schedule, waiting, selected, config>>
      /\ phase' = [phase EXCEPT ![q] = "select"]
      /\ earned' = [earned EXCEPT ![q] = FALSE]
    BY DEF Enqueue, Go
<1>3. PICK t \in Task : t = [id |-> n, connector |-> c, attempt |-> 0] /\ t.id = n
    <2>1. [id |-> n, connector |-> c, attempt |-> 0] \in Task
        BY <1>0 DEF BoundAssumption, Task
    <2> QED BY <2>1
<1>4. /\ ready' \in Seq(Task) /\ Len(ready) \in Nat
      /\ ready'[Len(ready) + 1] = t
      /\ \A i \in DOMAIN ready : ready'[i] = ready[i]
      /\ DOMAIN ready' = DOMAIN ready \cup {Len(ready) + 1}
    BY <1>1, <1>3 DEF DispatchInv, TypeOK
<1>5. TypeOK' /\ RequestsKnow'
    BY <1>0, <1>1, <1>2, <1>4 DEF DispatchInv, TypeOK, RequestsKnow, BoundAssumption
<1>6. /\ \A i \in DOMAIN ready : ready[i].id <= created /\ ready[i].id <= n /\ ready[i].id # n
      /\ \A u \in waiting : u.id <= created /\ u.id <= n /\ u.id # n
      /\ \A p \in Request : Executes(p) => selected[p].id <= n /\ selected[p].id # n
    <2>1. \A u \in Task : u.id <= created => u.id <= n /\ u.id # n
        BY <1>0 DEF Task
    <2>2. \A i \in DOMAIN ready : ready[i] \in Task
        BY DEF DispatchInv, TypeOK
    <2> QED BY <2>1, <2>2 DEF DispatchInv, IdsAreKnown, TypeOK, RequestsKnow, Executes
<1>7. \A p \in Request : Executes(p)' => Executes(p) /\ p # q
    BY <1>2 DEF Executes, DispatchInv, TypeOK
<1>8. IdsAreKnown'
    BY <1>0, <1>1, <1>2, <1>3, <1>4, <1>6, <1>7 DEF IdsAreKnown
<1>9. TasksApart'
    BY <1>1, <1>2, <1>3, <1>4, <1>6 DEF DispatchInv, TasksApart
<1>10. ExecutedOnce'
    BY <1>1, <1>2, <1>3, <1>4, <1>6, <1>7 DEF DispatchInv, ExecutedOnce
<1> QED BY <1>5, <1>8, <1>9, <1>10 DEF DispatchInv

(* A claim that finds its task takes it out of the queue; nobody else executes it. *)
LEMMA ClaimStep ==
    ASSUME DispatchInv, NEW q \in Request, Claim(q)
    PROVE  DispatchInv'
<1>1. UNCHANGED <<status, schedule, waiting, created, batch, serving, selected, config, earned>>
      /\ phase[q] = "claim"
    BY DEF Claim
<1>2. CASE UNCHANGED ready /\ phase' = [phase EXCEPT ![q] = "next"]
    <2>1. TypeOK' /\ RequestsKnow' /\ \A p \in Request : phase'[p] = "handle" => phase[p] = "handle"
        BY <1>1, <1>2 DEF DispatchInv, TypeOK, RequestsKnow
    <2> QED BY <1>1, <1>2, <2>1, QueueKept DEF DispatchInv
<1>3. CASE \E i \in DOMAIN ready :
            /\ ready[i] = selected[q] /\ ready' = RemoveAt(ready, i)
            /\ phase' = [phase EXCEPT ![q] = "handle"]
    <2>1. PICK i \in DOMAIN ready : ready[i] = selected[q] /\ ready' = RemoveAt(ready, i)
        BY <1>3
    <2>2. ready \in Seq(Task) /\ DOMAIN ready \subseteq Nat
        BY DEF DispatchInv, TypeOK
    <2>3. /\ ready' \in Seq(Task)
          /\ \A j \in DOMAIN ready' : ready'[j] = ready[IF j < i THEN j ELSE j + 1]
          /\ \A j \in DOMAIN ready' : (IF j < i THEN j ELSE j + 1) \in DOMAIN ready \ {i}
        BY <2>1, <2>2, RemoveAtKeeps
    <2>4. DOMAIN ready' \subseteq Nat
        BY <2>3
    <2>5. /\ phase' = [phase EXCEPT ![q] = "handle"]
          /\ \A p \in Request : Executes(p)' => Executes(p) \/ p = q
        BY <1>3 DEF Executes, DispatchInv, TypeOK
    <2>6. TypeOK' /\ RequestsKnow'
        BY <1>1, <2>3, <2>5 DEF DispatchInv, TypeOK, RequestsKnow
    <2>7. \A j \in DOMAIN ready' : \E k \in DOMAIN ready \ {i} : ready'[j] = ready[k]
        BY <2>3
    <2>8. \A p \in Request : Executes(p) => selected[p].id # selected[q].id
        BY <2>1 DEF DispatchInv, ExecutedOnce
    <2>9. IdsAreKnown'
        BY <1>1, <2>1, <2>5, <2>7 DEF DispatchInv, IdsAreKnown
    <2>10. TasksApart'
        <3>1. ASSUME NEW j \in DOMAIN ready', NEW k \in DOMAIN ready', ready'[j].id = ready'[k].id
              PROVE  j = k
            <4>1. (IF j < i THEN j ELSE j + 1) = (IF k < i THEN k ELSE k + 1)
                BY <2>3, <3>1 DEF DispatchInv, TasksApart
            <4> QED BY <2>2, <2>4, <4>1
        <3> QED BY <1>1, <2>7, <3>1 DEF DispatchInv, TasksApart
    <2>11. ExecutedOnce'
        <3> SUFFICES ASSUME NEW p \in Request, Executes(p)'
                     PROVE  /\ \A j \in DOMAIN ready' : ready'[j].id # selected[p].id
                            /\ \A t \in waiting : t.id # selected[p].id
                            /\ \A o \in Request : Executes(o)' /\ selected[o].id = selected[p].id
                                => o = p
            BY <1>1 DEF ExecutedOnce
        <3>1. CASE p = q
            BY <2>1, <2>5, <2>7, <2>8, <3>1 DEF DispatchInv, TasksApart
        <3>2. CASE p # q
            BY <2>5, <2>7, <2>8, <3>2 DEF DispatchInv, ExecutedOnce
        <3> QED BY <3>1, <3>2
    <2> QED BY <2>6, <2>9, <2>10, <2>11 DEF DispatchInv
<1> QED BY <1>2, <1>3 DEF Claim, Go

(* A task that failed waits for its retry, unless it was the last one. *)
LEMMA FailTaskStep ==
    ASSUME BoundAssumption, DispatchInv, NEW q \in Request, FailTask(q)
    PROVE  DispatchInv'
<1>1. /\ UNCHANGED <<status, schedule, ready, created, batch, serving, selected, config, earned>>
      /\ phase[q] = "handle" /\ phase' = [phase EXCEPT ![q] = "next"]
    BY DEF FailTask, Go
<1>2. PICK row \in Task : row = selected[q]
    BY <1>1 DEF DispatchInv, RequestsKnow
<1>3. PICK t : t = [row EXCEPT !.attempt = @ + 1]
    OBVIOUS
<1>4. t.id = row.id /\ (t.attempt < MaxAttempts => t \in Task)
    BY <1>2, <1>3 DEF Task, BoundAssumption
<1>5. waiting' = waiting \/ (waiting' = waiting \cup {t} /\ t \in Task)
    BY <1>2, <1>3, <1>4 DEF FailTask
<1>6. \A p \in Request : Executes(p)' => Executes(p) /\ p # q
    BY <1>1 DEF Executes, DispatchInv, TypeOK
<1>7. /\ t.id <= created
      /\ \A i \in DOMAIN ready : ready[i].id # t.id
      /\ \A u \in waiting : u.id # t.id
      /\ \A p \in Request \ {q} : Executes(p) => selected[p].id # t.id
    BY <1>1, <1>2, <1>4 DEF DispatchInv, IdsAreKnown, ExecutedOnce, Executes
<1>8. TypeOK' /\ RequestsKnow'
    BY <1>1, <1>5 DEF DispatchInv, TypeOK, RequestsKnow
<1>9. IdsAreKnown' /\ TasksApart' /\ ExecutedOnce'
    BY <1>1, <1>5, <1>6, <1>7 DEF DispatchInv, IdsAreKnown, TasksApart, ExecutedOnce
<1> QED BY <1>8, <1>9 DEF DispatchInv

LEMMA DispatchStart == Init => DispatchInv
<1> SUFFICES ASSUME Init PROVE DispatchInv
    OBVIOUS
<1>1. TypeOK
    BY BoundAssumption DEF BoundAssumption, Init, TypeOK, Never, Schedule
<1> QED BY <1>1
        DEF Init, DispatchInv, IdsAreKnown, TasksApart, ExecutedOnce, RequestsKnow, Executes

LEMMA DispatchStep ==
    ASSUME DispatchInv, [Next]_vars
    PROVE  DispatchInv'
<1>1. CASE UNCHANGED vars
    <2>1. UNCHANGED <<status, schedule, ready, waiting, created, phase, batch, serving,
                      selected, config, earned>>
        BY <1>1 DEF vars, queueVars, requestVars
    <2>2. TypeOK' /\ RequestsKnow'
        BY <2>1 DEF DispatchInv, TypeOK, RequestsKnow
    <2> QED BY <2>1, <2>2, QueueKept DEF DispatchInv
<1>2. CASE Next
    BY <1>2, BoundAssumption, NoneAssumption, OutsideStep, TimePassesStep, RequestStep,
       EnqueueStep, ClaimStep, FailTaskStep
    DEF Next
<1> QED BY <1>1, <1>2

LEMMA DispatchInvariance == Spec => []DispatchInv
BY DispatchStart, DispatchStep, PTL DEF Spec

(* However many connectors and requests: of the requests that race for a task one executes
   it, and no task is both executed and still to be had. *)
THEOREM ClaimSafety == Spec => []ClaimIsExclusive
<1>1. DispatchInv => ClaimIsExclusive
    BY DEF DispatchInv, ClaimIsExclusive, ExecutedOnce, Executes, Range
<1> QED BY <1>1, DispatchInvariance, PTL

-----------------------------------------------------------------------------
(* The schedule that a request advances is its own connector's, the task that it ran may
   be another's: with one connector the two are the same. *)
OneConnector == \A c, d \in Connector : c = d

LEMMA AdvanceStep ==
    ASSUME OneConnector, DispatchInv, AdvanceIsEarned, [Next]_vars
    PROVE  AdvanceIsEarned'
<1> SUFFICES ASSUME NEW q \in Request, phase'[q] \in {"advance", "write"} PROVE earned'[q]
    BY DEF AdvanceIsEarned
<1>1. CASE UNCHANGED vars
    BY <1>1 DEF vars, requestVars, AdvanceIsEarned
<1>2. CASE UNCHANGED <<phase, earned>>
    BY <1>2 DEF AdvanceIsEarned
<1>3. ASSUME NEW p \in Request, Succeed(p) PROVE earned'[q]
    <2>1. /\ phase[p] = "handle" /\ phase' = [phase EXCEPT ![p] = AfterSync(p)]
          /\ earned' = [r \in Request |-> earned[r] \/ serving[r] = selected[p].connector]
        BY <1>3 DEF Succeed, Go
    <2>2. CASE q # p
        BY <2>1, <2>2 DEF AdvanceIsEarned, DispatchInv, TypeOK
    <2>3. CASE q = p
        <3>1. serving[q] \in Connector
            BY <2>1, <2>3 DEF AfterSync, DispatchInv, TypeOK
        <3>2. selected[p].connector \in Connector
            BY <2>1 DEF DispatchInv, RequestsKnow, Task
        <3> QED BY <2>1, <2>3, <3>1, <3>2 DEF OneConnector
    <2> QED BY <2>2, <2>3
<1>4. ASSUME NEW p \in Request,
             AskSync(p) \/ AskScheduled(p) \/ AskDispatch(p) \/ Enqueue(p) \/ Respond(p)
             \/ Select(p) \/ Claim(p) \/ FailTask(p) \/ Break(p)
      PROVE  earned'[q]
    <2>1. /\ phase'[p] \notin {"advance", "write"}
          /\ \A r \in Request \ {p} : phase'[r] = phase[r] /\ earned'[r] = earned[r]
        BY <1>4 DEF AskSync, AskScheduled, AskDispatch, Enqueue, Respond, Select, Claim,
                    FailTask, Break, Go, DispatchInv, TypeOK
    <2> QED BY <2>1 DEF AdvanceIsEarned
<1>5. ASSUME NEW p \in Request, ReadSchedule(p) \/ WriteSchedule(p) PROVE earned'[q]
    BY <1>5 DEF ReadSchedule, WriteSchedule, Go, AdvanceIsEarned, DispatchInv, TypeOK
<1> QED BY <1>1, <1>2, <1>3, <1>4, <1>5
        DEF Next, SetSchedule, SetStatus, TimePasses, requestVars

(* With one connector, and any number of requests: one request executes a task, and a
   schedule is advanced only after a sync that succeeded since the request asked for it. *)
THEOREM DispatchSafety ==
    ASSUME OneConnector
    PROVE  Spec => []DispatchHolds
<1>1. Init => AdvanceIsEarned
    BY DEF Init, AdvanceIsEarned
<1>2. DispatchInv /\ AdvanceIsEarned /\ [Next]_vars
      => AdvanceIsEarned'
    BY AdvanceStep
<1>3. DispatchInv /\ AdvanceIsEarned => DispatchHolds
    BY DEF DispatchInv, DispatchHolds, ClaimIsExclusive, ExecutedOnce, Executes, Range
<1> QED BY <1>1, <1>2, <1>3, DispatchInvariance, PTL DEF Spec
===============================================================================
