---------------------------- MODULE ProjectsProofs ----------------------------
(***************************************************************************)
(* Proofs about Projects, ProjectScans and Contexts: the levels, the       *)
(* evidence that goes stale and the course of tasks, in whatever order     *)
(* rows come; the rescans of any tree that is edited meanwhile; and the    *)
(* contexts that are compiled from any candidates, and recorded.           *)
(***************************************************************************)
EXTENDS MCProjects, FiniteSetTheorems, WellFoundedInduction, TLAPS

(* What is appended stands at the end, and what was there stays. *)
LEMMA AppendGrows ==
    ASSUME NEW T, NEW s \in Seq(T), NEW x \in T
    PROVE  /\ Append(s, x) \in Seq(T) /\ Len(s) \in Nat
           /\ Len(Append(s, x)) = Len(s) + 1
           /\ Append(s, x)[Len(s) + 1] = x
           /\ \A i \in DOMAIN s : Append(s, x)[i] = s[i]
           /\ DOMAIN s = 1..Len(s)
           /\ DOMAIN Append(s, x) = DOMAIN s \cup {Len(s) + 1}
OBVIOUS

-----------------------------------------------------------------------------
(* Projects.  The rows of project_evidence: a revision is the first one, or marks it
   stale. *)
StaleOnce(e) ==
    /\ Len(evidence[e]) <= 2
    /\ Len(evidence[e]) = 1 => evidence[e][1].freshness = "current"
    /\ Len(evidence[e]) = 2 =>
        evidence[e][2] = [evidence[e][1] EXCEPT !.freshness = "stale"]

EvidenceInv == \A e \in Evidence : StaleOnce(e)

(* What backs a row of project_capability_basis. *)
Backed(b) ==
    IF b.evidence = None
    THEN b.kind = "resume_approval" /\ <<b.state, b.revision>> \in approvals
    ELSE /\ b.kind # "resume_approval"
         /\ b.evidence_revision \in DOMAIN evidence[b.evidence]
         /\ P!EvidenceBacks(evidence[b.evidence][b.evidence_revision], b.kind)

BasisInv == \A b \in basis : Backed(b)

(* Each status of a task is one that the last one allows. *)
TaskCourse(t) ==
    \A r \in DOMAIN tasks[t] :
        /\ r = 1 => tasks[t][r].status = "proposed"
        /\ r > 1 => tasks[t][r].status \in P!AllowedFrom(tasks[t][r - 1].status)
        /\ tasks[t][r].gap = tasks[t][1].gap
        /\ tasks[t][r].capability = GapCapability[tasks[t][1].gap]

(* The inductive invariant of projects. *)
ProjectInv ==
    /\ P!ProjectTypeOK
    /\ EvidenceInv
    /\ BasisInv
    /\ P!LevelIsEarned
    /\ \A t \in Task : TaskCourse(t)

(* A level is earned, with bases that stand on rows that are there. *)
Earned(s, r) ==
    LET bs == P!BasisOf(s, r) IN
    /\ \A b \in bs : b.evidence # None =>
        LET row == evidence[b.evidence][b.evidence_revision] IN
        /\ row.project = levels[s][r].project
        /\ row.status = "accepted"
        /\ row.authority # "ai_inferred"
    /\ levels[s][r].level # "existing" =>
        \E b \in bs : b.evidence = None \/
            evidence[b.evidence][b.evidence_revision].kind \in {"change", "validation"} \/
            evidence[b.evidence][b.evidence_revision].authority = "user_confirmed"
    /\ levels[s][r].level = "resume_ready" => <<s, r>> \in approvals

LEMMA EarnedIsEarned ==
    P!LevelIsEarned <=> \A s \in State : \A r \in DOMAIN levels[s] : Earned(s, r)
BY DEF P!LevelIsEarned, Earned

(* Rows are only added. *)
RowsStay ==
    /\ \A e \in Evidence : \A i \in DOMAIN evidence[e] :
        i \in DOMAIN evidence'[e] /\ evidence'[e][i] = evidence[e][i]
    /\ approvals \subseteq approvals'

LEMMA BackedStays ==
    ASSUME RowsStay, NEW b, b.evidence \in Evidence \cup {None}, Backed(b)
    PROVE  /\ Backed(b)'
           /\ b.evidence # None =>
                evidence'[b.evidence][b.evidence_revision]
                = evidence[b.evidence][b.evidence_revision]
<1>1. CASE b.evidence = None
    BY <1>1 DEF RowsStay, Backed
<1>2. CASE b.evidence # None
    <2>1. /\ b.evidence_revision \in DOMAIN evidence'[b.evidence]
          /\ evidence'[b.evidence][b.evidence_revision]
             = evidence[b.evidence][b.evidence_revision]
        BY <1>2 DEF RowsStay, Backed
    <2> QED BY <1>2, <2>1 DEF Backed, P!EvidenceBacks
<1> QED BY <1>1, <1>2

LEMMA EarnedStays ==
    ASSUME ProjectInv, RowsStay, NEW s \in State, NEW r, Earned(s, r),
           P!BasisOf(s, r)' = P!BasisOf(s, r), levels'[s][r] = levels[s][r]
    PROVE  Earned(s, r)'
<1>1. \A b \in P!BasisOf(s, r) :
        b.evidence # None => evidence'[b.evidence][b.evidence_revision]
                             = evidence[b.evidence][b.evidence_revision]
    <2> SUFFICES ASSUME NEW b \in P!BasisOf(s, r)
                 PROVE  b.evidence # None => evidence'[b.evidence][b.evidence_revision]
                                             = evidence[b.evidence][b.evidence_revision]
        OBVIOUS
    <2>1. b \in basis /\ b.evidence \in Evidence \cup {None} /\ Backed(b)
        BY DEF ProjectInv, P!ProjectTypeOK, P!BasisTable, P!BasisRow, P!BasisOf, BasisInv
    <2> QED BY <2>1, BackedStays
<1>2. levels[s][r].level = "resume_ready" => <<s, r>> \in approvals'
    BY DEF RowsStay, Earned
<1> QED BY <1>1, <1>2 DEF Earned

(* The part of the invariant that a step leaves alone. *)
LEMMA TasksKept ==
    ASSUME ProjectInv, UNCHANGED tasks
    PROVE  tasks' \in P!TaskTable /\ \A t \in Task : TaskCourse(t)'
BY DEF ProjectInv, P!ProjectTypeOK, P!TaskTable, P!TaskRow, P!Status, TaskCourse,
       P!AllowedFrom

(* Evidence enters, or goes stale: what bases stand on is still there. *)
LEMMA EvidenceStep ==
    ASSUME ProjectInv, P!InsertEvidence \/ P!MarkStale
    PROVE  ProjectInv'
<1>1. UNCHANGED <<approvals, basis, levels, tasks>>
    BY DEF P!InsertEvidence, P!MarkStale
<1>2. evidence \in [Evidence -> Seq(P!EvidenceRow)]
    BY DEF ProjectInv, P!ProjectTypeOK, P!EvidenceTable
<1>3. PICK e \in Evidence, row \in P!EvidenceRow :
        /\ evidence' = [evidence EXCEPT ![e] = Append(evidence[e], row)]
        /\ \/ Len(evidence[e]) = 0 /\ row.freshness = "current"
           \/ Len(evidence[e]) = 1 /\ row = [evidence[e][1] EXCEPT !.freshness = "stale"]
    <2>1. CASE P!InsertEvidence
        BY <1>2, <2>1 DEF P!InsertEvidence, P!Appended
    <2>2. CASE P!MarkStale
        <3>1. PICK e \in Evidence : evidence[e] # <<>> /\ P!StageStale(e)
            BY <2>2 DEF P!MarkStale
        <3>2. evidence[e] \in Seq(P!EvidenceRow) /\ Len(evidence[e]) \in 1..2
            <4>1. PICK log \in Seq(P!EvidenceRow) : log = evidence[e]
                BY <1>2
            <4>2. PICK len \in Nat : len = Len(log) /\ (log # <<>> => len # 0)
                OBVIOUS
            <4>3. Len(evidence[e]) <= 2
                BY DEF ProjectInv, EvidenceInv, StaleOnce
            <4>4. len # 0 /\ len <= 2
                BY <3>1, <4>1, <4>2, <4>3
            <4>5. len \in 1..2
                BY <4>4
            <4> QED BY <4>1, <4>2, <4>5
        <3>3. PICK first \in P!EvidenceRow : first = evidence[e][1]
            BY <3>2
        <3>4. Len(evidence[e]) = 1
            <4>1. Len(evidence[e]) = 2 =>
                    evidence[e][2] = [first EXCEPT !.freshness = "stale"]
                BY <3>3 DEF ProjectInv, EvidenceInv, StaleOnce
            <4>2. [first EXCEPT !.freshness = "stale"].freshness = "stale"
                BY <3>3 DEF P!EvidenceRow
            <4>3. evidence[e][Len(evidence[e])].freshness = "current"
                BY <3>1 DEF P!StageStale, P!LatestEvidence
            <4>4. Len(evidence[e]) # 2
                BY <4>1, <4>2, <4>3
            <4> QED BY <3>2, <4>4
        <3>5. PICK row : row = [first EXCEPT !.freshness = "stale"]
            OBVIOUS
        <3>6. row \in P!EvidenceRow
            BY <3>3, <3>5 DEF P!EvidenceRow, P!Authoritative
        <3>7. evidence' = [evidence EXCEPT ![e] = Append(evidence[e], row)]
            BY <3>1, <3>3, <3>4, <3>5 DEF P!StageStale, P!LatestEvidence, P!Appended
        <3> QED BY <3>3, <3>4, <3>5, <3>6, <3>7
    <2> QED BY <2>1, <2>2
<1>4. PICK old \in Seq(P!EvidenceRow) : old = evidence[e]
    BY <1>2
<1>5. /\ evidence' \in [Evidence -> Seq(P!EvidenceRow)]
      /\ evidence'[e] = Append(old, row)
      /\ \A d \in Evidence \ {e} : evidence'[d] = evidence[d]
    BY <1>2, <1>3, <1>4
<1>6. RowsStay
    BY <1>1, <1>4, <1>5 DEF RowsStay
<1>7. EvidenceInv'
    <2>1. ASSUME NEW d \in Evidence \ {e} PROVE StaleOnce(d)'
        BY <1>5 DEF ProjectInv, EvidenceInv, StaleOnce
    <2>2. CASE Len(old) = 0
        <3>1. Len(evidence'[e]) = 1 /\ evidence'[e][1] = row
            BY <1>4, <1>5, <2>2
        <3>2. row.freshness = "current"
            BY <1>3, <1>4, <2>2
        <3>3. StaleOnce(e)'
            BY <3>1, <3>2 DEF StaleOnce
        <3> QED BY <2>1, <3>3 DEF EvidenceInv
    <2>3. CASE Len(old) = 1
        <3>1. Len(evidence'[e]) = 2 /\ evidence'[e][2] = row /\ evidence'[e][1] = old[1]
            BY <1>4, <1>5, <2>3, AppendGrows
        <3>2. row = [old[1] EXCEPT !.freshness = "stale"]
            BY <1>3, <1>4, <2>3
        <3>3. StaleOnce(e)'
            BY <3>1, <3>2 DEF StaleOnce
        <3> QED BY <2>1, <3>3 DEF EvidenceInv
    <2> QED BY <1>3, <1>4, <2>2, <2>3
<1>8. BasisInv'
    <2> SUFFICES ASSUME NEW b \in basis PROVE Backed(b)'
        BY <1>1 DEF BasisInv
    <2>1. b.evidence \in Evidence \cup {None} /\ Backed(b)
        BY DEF ProjectInv, P!ProjectTypeOK, P!BasisTable, P!BasisRow, BasisInv
    <2> QED BY <1>6, <2>1, BackedStays
<1>9. P!LevelIsEarned'
    <2> SUFFICES ASSUME NEW s \in State, NEW r \in DOMAIN levels[s] PROVE Earned(s, r)'
        BY <1>1 DEF P!LevelIsEarned, Earned
    <2>1. Earned(s, r)
        BY EarnedIsEarned DEF ProjectInv
    <2>2. P!BasisOf(s, r)' = P!BasisOf(s, r) /\ levels'[s][r] = levels[s][r]
        BY <1>1 DEF P!BasisOf
    <2> QED BY <1>6, <2>1, <2>2, EarnedStays
<1>10. P!ProjectTypeOK'
    BY <1>1, <1>5, TasksKept
       DEF ProjectInv, P!ProjectTypeOK, P!EvidenceTable, P!BasisTable, P!LevelTable
<1> QED BY <1>1, <1>7, <1>8, <1>9, <1>10, TasksKept DEF ProjectInv

(* The user approves a level that is there or is to come. *)
LEMMA ApproveStep ==
    ASSUME ProjectInv, P!Approve
    PROVE  ProjectInv'
<1>1. UNCHANGED <<evidence, basis, levels, tasks>> /\ RowsStay
    BY DEF P!Approve, RowsStay
<1>2. BasisInv'
    <2> SUFFICES ASSUME NEW b \in basis PROVE Backed(b)'
        BY <1>1 DEF BasisInv
    <2>1. b.evidence \in Evidence \cup {None} /\ Backed(b)
        BY DEF ProjectInv, P!ProjectTypeOK, P!BasisTable, P!BasisRow, BasisInv
    <2> QED BY <1>1, <2>1, BackedStays
<1>3. P!LevelIsEarned'
    <2> SUFFICES ASSUME NEW s \in State, NEW r \in DOMAIN levels[s] PROVE Earned(s, r)'
        BY <1>1 DEF P!LevelIsEarned, Earned
    <2>1. Earned(s, r)
        BY EarnedIsEarned DEF ProjectInv
    <2>2. P!BasisOf(s, r)' = P!BasisOf(s, r) /\ levels'[s][r] = levels[s][r]
        BY <1>1 DEF P!BasisOf
    <2> QED BY <1>1, <2>1, <2>2, EarnedStays
<1>4. P!ProjectTypeOK' /\ EvidenceInv'
    BY <1>1, TasksKept DEF ProjectInv, P!ProjectTypeOK, EvidenceInv, StaleOnce, P!EvidenceTable,
                           P!BasisTable, P!LevelTable
<1> QED BY <1>1, <1>2, <1>3, <1>4, TasksKept DEF ProjectInv

(* A basis is for a revision that is still to come. *)
LEMMA InsertBasisStep ==
    ASSUME ProjectInv, P!InsertBasis
    PROVE  ProjectInv'
<1>1. UNCHANGED <<evidence, approvals, levels, tasks>> /\ RowsStay
    BY DEF P!InsertBasis, RowsStay
<1>2. PICK b \in P!BasisRow :
        /\ P!Open(b.state, b.revision) /\ Backed(b) /\ basis' = basis \cup {b}
    BY DEF P!InsertBasis, Backed, P!ApprovalBacks
<1>3. basis' \in P!BasisTable
    BY <1>2 DEF ProjectInv, P!ProjectTypeOK, P!BasisTable
<1>4. BasisInv'
    <2>1. \A c : Backed(c)' <=> Backed(c)
        BY <1>1 DEF Backed, P!EvidenceBacks
    <2> QED BY <1>2, <2>1 DEF ProjectInv, BasisInv
<1>5. P!LevelIsEarned'
    <2> SUFFICES ASSUME NEW s \in State, NEW r \in DOMAIN levels[s] PROVE Earned(s, r)'
        BY <1>1 DEF P!LevelIsEarned, Earned
    <2>1. Earned(s, r)
        BY EarnedIsEarned DEF ProjectInv
    <2>2. levels[s] \in Seq(P!LevelRow)
        BY DEF ProjectInv, P!ProjectTypeOK, P!LevelTable
    <2>3. r \in Nat /\ Len(levels[s]) \in Nat /\ r <= Len(levels[s])
        BY <2>2
    <2>4. ~(b.state = s /\ b.revision = r)
        BY <1>2, <2>3 DEF P!Open
    <2>5. P!BasisOf(s, r)' = P!BasisOf(s, r) /\ levels'[s][r] = levels[s][r]
        BY <1>1, <1>2, <2>4 DEF P!BasisOf
    <2> QED BY <1>1, <2>1, <2>5, EarnedStays
<1>6. P!ProjectTypeOK' /\ EvidenceInv'
    BY <1>1, <1>3, TasksKept
       DEF ProjectInv, P!ProjectTypeOK, EvidenceInv, StaleOnce, P!EvidenceTable, P!LevelTable
<1> QED BY <1>1, <1>4, <1>5, <1>6, TasksKept DEF ProjectInv

(* What suffices for a level, of bases that are backed. *)
LEMMA SufficientShows ==
    ASSUME ProjectInv, NEW s \in State, NEW r, NEW level \in P!Level,
           P!Sufficient({b.kind : b \in P!BasisOf(s, r)}, level)
    PROVE  /\ level # "existing" =>
                \E b \in P!BasisOf(s, r) : b.evidence = None \/
                    evidence[b.evidence][b.evidence_revision].kind \in {"change", "validation"} \/
                    evidence[b.evidence][b.evidence_revision].authority = "user_confirmed"
           /\ level = "resume_ready" => <<s, r>> \in approvals
<1>1. \A b \in P!BasisOf(s, r) : Backed(b) /\ b.state = s /\ b.revision = r
    BY DEF ProjectInv, BasisInv, P!BasisOf
<1>2. CASE level = "existing"
    BY <1>2
<1>3. CASE level \in {"understood", "modified"}
    <2>1. \E b \in P!BasisOf(s, r) : b.kind = "user_confirmation"
        BY <1>3 DEF P!Sufficient
    <2> QED BY <1>1, <1>3, <2>1 DEF Backed, P!EvidenceBacks
<1>4. CASE level \in {"validated", "resume_ready"}
    <2>1. \E b \in P!BasisOf(s, r) : b.kind = "validation_evidence"
        BY <1>4 DEF P!Sufficient
    <2>2. level = "resume_ready" => \E b \in P!BasisOf(s, r) : b.kind = "resume_approval"
        BY <1>4 DEF P!Sufficient
    <2>3. level = "resume_ready" => <<s, r>> \in approvals
        BY <1>1, <2>2 DEF Backed
    <2> QED BY <1>1, <1>4, <2>1, <2>3 DEF Backed, P!EvidenceBacks
<1> QED BY <1>2, <1>3, <1>4 DEF P!Level

LEMMA InsertLevelStep ==
    ASSUME ProjectInv, P!InsertLevel
    PROVE  ProjectInv'
<1>1. UNCHANGED <<evidence, approvals, basis, tasks>> /\ RowsStay
    BY DEF P!InsertLevel, RowsStay
<1>2. levels \in [State -> Seq(P!LevelRow)]
    BY DEF ProjectInv, P!ProjectTypeOK, P!LevelTable
<1>3. PICK s \in State, row \in P!LevelRow :
        /\ P!SameProject(P!BasisOf(s, Len(levels[s]) + 1), row.project)
        /\ P!Sufficient({b.kind : b \in P!BasisOf(s, Len(levels[s]) + 1)}, row.level)
        /\ levels' = [levels EXCEPT ![s] = Append(levels[s], row)]
    BY DEF P!InsertLevel, P!Appended
<1>4. PICK old \in Seq(P!LevelRow) : old = levels[s]
    BY <1>2
<1>5. PICK n : n = Len(old) + 1
    OBVIOUS
<1>6. /\ levels' \in [State -> Seq(P!LevelRow)]
      /\ \A t \in State \ {s} : levels'[t] = levels[t]
      /\ levels'[s][n] = row
      /\ \A i \in DOMAIN levels[s] : levels'[s][i] = levels[s][i]
      /\ DOMAIN levels'[s] = DOMAIN levels[s] \cup {n}
    BY <1>2, <1>3, <1>4, <1>5, AppendGrows
<1>7. \A t \in State : \A r : P!BasisOf(t, r)' = P!BasisOf(t, r)
    BY <1>1 DEF P!BasisOf
<1>8. Earned(s, n)'
    <2>1. row.level \in P!Level
        BY <1>3 DEF P!LevelRow
    <2>2. /\ P!SameProject(P!BasisOf(s, n), row.project)
          /\ P!Sufficient({b.kind : b \in P!BasisOf(s, n)}, row.level)
        BY <1>3, <1>4, <1>5
    <2>3. \A b \in P!BasisOf(s, n) : b.evidence # None =>
            /\ evidence[b.evidence][b.evidence_revision].project = row.project
            /\ evidence[b.evidence][b.evidence_revision].status = "accepted"
            /\ evidence[b.evidence][b.evidence_revision].authority # "ai_inferred"
        BY <2>2 DEF P!SameProject, ProjectInv, BasisInv, P!BasisOf, Backed, P!EvidenceBacks
    <2>4. /\ row.level # "existing" =>
                \E b \in P!BasisOf(s, n) : b.evidence = None \/
                    evidence[b.evidence][b.evidence_revision].kind \in {"change", "validation"} \/
                    evidence[b.evidence][b.evidence_revision].authority = "user_confirmed"
          /\ row.level = "resume_ready" => <<s, n>> \in approvals
        BY <2>1, <2>2, SufficientShows
    <2> QED BY <1>1, <1>6, <1>7, <2>3, <2>4 DEF Earned
<1>9. P!LevelIsEarned'
    <2> SUFFICES ASSUME NEW t \in State, NEW r \in DOMAIN levels'[t] PROVE Earned(t, r)'
        BY DEF P!LevelIsEarned, Earned
    <2>1. CASE t = s /\ r = n
        BY <1>8, <2>1
    <2>2. CASE ~(t = s /\ r = n)
        <3>1. r \in DOMAIN levels[t] /\ levels'[t][r] = levels[t][r]
            BY <1>6, <2>2
        <3>2. Earned(t, r)
            BY <3>1, EarnedIsEarned DEF ProjectInv
        <3> QED BY <1>1, <1>7, <3>1, <3>2, EarnedStays
    <2> QED BY <2>1, <2>2
<1>10. P!ProjectTypeOK' /\ EvidenceInv'
    BY <1>1, <1>6, TasksKept
       DEF ProjectInv, P!ProjectTypeOK, EvidenceInv, StaleOnce, P!EvidenceTable, P!BasisTable, P!LevelTable
<1>11. BasisInv'
    BY <1>1 DEF ProjectInv, BasisInv, Backed, P!EvidenceBacks
<1> QED BY <1>1, <1>9, <1>10, <1>11, TasksKept DEF ProjectInv

(* A task is proposed, or takes a step that its status allows. *)
LEMMA TaskStep ==
    ASSUME ProjectInv, P!TaskNext
    PROVE  ProjectInv'
<1>1. UNCHANGED <<evidence, approvals, basis, levels>>
    BY DEF P!TaskNext, P!ProposeTask, P!TransitionTask
<1>2. tasks \in [Task -> Seq(P!TaskRow)]
    BY DEF ProjectInv, P!ProjectTypeOK, P!TaskTable
<1>3. PICK t \in Task, row \in P!TaskRow :
        /\ tasks' = [tasks EXCEPT ![t] = Append(tasks[t], row)]
        /\ \/ /\ tasks[t] = <<>> /\ row.status = "proposed"
              /\ row.capability = GapCapability[row.gap]
           \/ /\ tasks[t] # <<>>
              /\ row.status \in P!AllowedFrom(tasks[t][Len(tasks[t])].status)
              /\ row.gap = tasks[t][Len(tasks[t])].gap
              /\ row.capability = tasks[t][Len(tasks[t])].capability
    <2>1. CASE P!ProposeTask
        <3>1. PICK t \in Task, project \in Project, gap \in Gap, capability \in Capability,
                   actor \in User \cup Agent :
                P!StageTask(t, [project |-> project, gap |-> gap, capability |-> capability,
                                status |-> "proposed", by |-> actor])
            BY <2>1 DEF P!ProposeTask
        <3>2. [project |-> project, gap |-> gap, capability |-> capability,
               status |-> "proposed", by |-> actor] \in P!TaskRow
            BY DEF P!TaskRow, P!Status
        <3> QED BY <3>1, <3>2 DEF P!StageTask, P!Appended
    <2>2. CASE P!TransitionTask
        <3>1. PICK t \in Task, to \in P!Status, actor \in User \cup Agent :
                tasks[t] # <<>> /\ P!StageStatus(t, to, actor)
            BY <2>2 DEF P!TransitionTask
        <3>2. PICK last \in P!TaskRow : last = tasks[t][Len(tasks[t])]
            <4>1. PICK log \in Seq(P!TaskRow) : log = tasks[t]
                BY <1>2
            <4> QED BY <3>1, <4>1
        <3>3. PICK row : row = [last EXCEPT !.status = to, !.by = actor]
            OBVIOUS
        <3>4. row \in P!TaskRow /\ row.status = to /\ row.gap = last.gap
              /\ row.capability = last.capability
            BY <3>2, <3>3 DEF P!TaskRow
        <3>5. tasks' = [tasks EXCEPT ![t] = Append(tasks[t], row)]
              /\ to \in P!AllowedFrom(last.status)
            BY <3>1, <3>2, <3>3 DEF P!StageStatus, P!LatestTask, P!Appended
        <3> QED BY <3>1, <3>2, <3>4, <3>5
    <2> QED BY <2>1, <2>2 DEF P!TaskNext
<1>4. PICK old \in Seq(P!TaskRow) : old = tasks[t]
    BY <1>2
<1>5. PICK n : n = Len(old) + 1
    OBVIOUS
<1>6. /\ tasks' \in [Task -> Seq(P!TaskRow)]
      /\ \A u \in Task \ {t} : tasks'[u] = tasks[u]
      /\ tasks'[t] = Append(old, row) /\ tasks'[t][n] = row
      /\ \A i \in DOMAIN old : tasks'[t][i] = old[i]
      /\ DOMAIN tasks'[t] = DOMAIN old \cup {n}
      /\ DOMAIN old = 1..Len(old) /\ Len(old) \in Nat
    BY <1>2, <1>3, <1>4, <1>5, AppendGrows
<1>7. TaskCourse(t)'
    <2>1. TaskCourse(t)
        BY DEF ProjectInv
    <2>2. ASSUME NEW r \in DOMAIN old
          PROVE  /\ r = 1 => tasks'[t][r].status = "proposed"
                 /\ r > 1 => tasks'[t][r].status \in P!AllowedFrom(tasks'[t][r - 1].status)
                 /\ tasks'[t][r].gap = tasks'[t][1].gap
                 /\ tasks'[t][r].capability = GapCapability[tasks'[t][1].gap]
        <3>1. r \in Nat /\ 1 \in DOMAIN old /\ (r > 1 => r - 1 \in DOMAIN old)
            BY <1>6
        <3>2. /\ tasks'[t][r] = tasks[t][r] /\ tasks'[t][1] = tasks[t][1]
              /\ r > 1 => tasks'[t][r - 1] = tasks[t][r - 1]
            BY <1>4, <1>6, <3>1
        <3> QED BY <1>4, <2>1, <3>2 DEF TaskCourse
    <2>3. /\ n = 1 => tasks'[t][n].status = "proposed"
          /\ n > 1 => tasks'[t][n].status \in P!AllowedFrom(tasks'[t][n - 1].status)
          /\ tasks'[t][n].gap = tasks'[t][1].gap
          /\ tasks'[t][n].capability = GapCapability[tasks'[t][1].gap]
        <3>1. CASE old = <<>>
            BY <1>3, <1>4, <1>5, <1>6, <3>1
        <3>2. CASE old # <<>>
            <4>1. /\ n - 1 = Len(old) /\ n > 1 /\ n - 1 \in DOMAIN old /\ 1 \in DOMAIN old
                BY <1>5, <1>6, <3>2
            <4>2. tasks'[t][n - 1] = tasks[t][n - 1] /\ tasks'[t][1] = tasks[t][1]
                BY <1>4, <1>6, <4>1
            <4>3. /\ row.status \in P!AllowedFrom(tasks[t][n - 1].status)
                  /\ row.gap = tasks[t][n - 1].gap
                  /\ row.capability = tasks[t][n - 1].capability
                BY <1>3, <1>4, <3>2, <4>1
            <4>4. /\ tasks[t][n - 1].gap = tasks[t][1].gap
                  /\ tasks[t][n - 1].capability = GapCapability[tasks[t][1].gap]
                BY <1>4, <2>1, <4>1 DEF TaskCourse
            <4> QED BY <1>6, <4>1, <4>2, <4>3, <4>4
        <3> QED BY <3>1, <3>2
    <2> QED BY <1>6, <2>2, <2>3 DEF TaskCourse
<1>8. \A u \in Task \ {t} : TaskCourse(u)'
    BY <1>6 DEF ProjectInv, TaskCourse
<1>9. P!ProjectTypeOK' /\ EvidenceInv'
    BY <1>1, <1>6 DEF ProjectInv, P!ProjectTypeOK, EvidenceInv, StaleOnce, P!EvidenceTable,
                      P!BasisTable, P!LevelTable, P!TaskTable
<1>10. BasisInv'
    BY <1>1 DEF ProjectInv, BasisInv, Backed, P!EvidenceBacks
<1>11. P!LevelIsEarned'
    <2> SUFFICES ASSUME NEW s \in State, NEW r \in DOMAIN levels[s] PROVE Earned(s, r)'
        BY <1>1 DEF P!LevelIsEarned, Earned
    <2>1. Earned(s, r) /\ RowsStay
        BY <1>1, EarnedIsEarned DEF ProjectInv, RowsStay
    <2>2. P!BasisOf(s, r)' = P!BasisOf(s, r) /\ levels'[s][r] = levels[s][r]
        BY <1>1 DEF P!BasisOf
    <2> QED BY <2>1, <2>2, EarnedStays
<1> QED BY <1>7, <1>8, <1>9, <1>10, <1>11 DEF ProjectInv

LEMMA ProjectStart == P!ProjectInit => ProjectInv
<1> SUFFICES ASSUME P!ProjectInit PROVE ProjectInv
    OBVIOUS
<1>1. P!ProjectTypeOK
    BY DEF P!ProjectInit, P!ProjectTypeOK, P!EvidenceTable, P!BasisTable, P!LevelTable,
           P!TaskTable
<1>2. /\ \A e \in Evidence : evidence[e] = <<>>
      /\ \A s \in State : DOMAIN levels[s] = {}
      /\ \A t \in Task : DOMAIN tasks[t] = {}
      /\ basis = {}
    BY DEF P!ProjectInit
<1>3. EvidenceInv
    BY <1>2 DEF EvidenceInv, StaleOnce
<1>4. BasisInv
    BY <1>2 DEF BasisInv
<1>5. P!LevelIsEarned
    BY <1>2 DEF P!LevelIsEarned
<1>6. \A t \in Task : TaskCourse(t)
    BY <1>2 DEF TaskCourse
<1> QED BY <1>1, <1>3, <1>4, <1>5, <1>6 DEF ProjectInv

LEMMA ProjectStep ==
    ASSUME ProjectInv, [P!ProjectNext]_P!projectVars
    PROVE  ProjectInv'
<1>1. CASE UNCHANGED P!projectVars
    <2>1. UNCHANGED <<evidence, approvals, basis, levels, tasks>>
        BY <1>1 DEF P!projectVars
    <2>2. P!ProjectTypeOK' /\ EvidenceInv' /\ \A t \in Task : TaskCourse(t)'
        BY <2>1, TasksKept
           DEF ProjectInv, P!ProjectTypeOK, EvidenceInv, StaleOnce, P!EvidenceTable,
               P!BasisTable, P!LevelTable
    <2>3. BasisInv' /\ P!LevelIsEarned'
        BY <2>1 DEF ProjectInv, BasisInv, Backed, P!EvidenceBacks, P!LevelIsEarned, P!BasisOf
    <2> QED BY <2>2, <2>3 DEF ProjectInv
<1>2. CASE P!LevelNext
    BY <1>2, EvidenceStep, ApproveStep, InsertBasisStep, InsertLevelStep DEF P!LevelNext
<1>3. CASE P!TaskNext
    BY <1>3, TaskStep
<1> QED BY <1>1, <1>2, <1>3 DEF P!ProjectNext

LEMMA PlaceAfter ==
    \A k, len \in Nat : k >= 1 /\ k <= len /\ k # len =>
        k + 1 \in 1..len /\ k + 1 > 1 /\ (k + 1) - 1 = k
OBVIOUS

(* Each status follows one that allows it: what has ended is the end, and a completion has
   three statuses before it. *)
LEMMA CourseRuns ==
    ASSUME ProjectInv
    PROVE  P!TasksRunTheirCourse
<1> SUFFICES ASSUME NEW t \in Task, NEW r \in DOMAIN tasks[t]
             PROVE  /\ tasks[t][r].status = "completed" =>
                        /\ r > 3
                        /\ tasks[t][r - 1].status = "awaiting_validation"
                        /\ tasks[t][r - 2].status = "in_progress"
                    /\ tasks[t][r].status \in {"completed", "cancelled"} => r = Len(tasks[t])
                    /\ tasks[t][r].gap = tasks[t][1].gap
                    /\ tasks[t][r].capability = GapCapability[tasks[t][1].gap]
    BY DEF P!TasksRunTheirCourse
<1>1. PICK log \in Seq(P!TaskRow) : log = tasks[t]
    BY DEF ProjectInv, P!ProjectTypeOK, P!TaskTable
<1>2. r \in Nat /\ r >= 1 /\ r <= Len(log) /\ DOMAIN log = 1..Len(log) /\ Len(log) \in Nat
    BY <1>1
<1>3. \A i \in DOMAIN log :
        /\ i = 1 => log[i].status = "proposed"
        /\ i > 1 => log[i].status \in P!AllowedFrom(log[i - 1].status)
        /\ log[i].gap = log[1].gap /\ log[i].capability = GapCapability[log[1].gap]
    BY <1>1 DEF ProjectInv, TaskCourse
<1>4. \A from : P!AllowedFrom(from) \subseteq P!Status
      /\ ("completed" \in P!AllowedFrom(from) => from = "awaiting_validation")
      /\ ("awaiting_validation" \in P!AllowedFrom(from) => from = "in_progress")
      /\ (from \in {"completed", "cancelled"} => P!AllowedFrom(from) = {})
      /\ "proposed" \notin P!AllowedFrom(from)
    BY DEF P!AllowedFrom, P!Status
<1>5. ASSUME log[r].status = "completed"
      PROVE  r > 3 /\ log[r - 1].status = "awaiting_validation"
             /\ log[r - 2].status = "in_progress"
    <2>1. r > 1 /\ r - 1 \in DOMAIN log /\ log[r - 1].status = "awaiting_validation"
        BY <1>2, <1>3, <1>4, <1>5
    <2>2. r - 1 > 1 /\ r - 2 \in DOMAIN log /\ (r - 1) - 1 = r - 2
        BY <1>2, <1>3, <2>1
    <2>3. log[r - 2].status = "in_progress"
        BY <1>3, <1>4, <2>1, <2>2
    <2>4. r - 2 > 1
        BY <1>2, <1>3, <2>2, <2>3
    <2> QED BY <1>2, <2>1, <2>3, <2>4
<1>6. ASSUME log[r].status \in {"completed", "cancelled"} PROVE r = Len(log)
    <2> SUFFICES ASSUME r # Len(log) PROVE FALSE
        BY Zenon
    <2>1. PICK len \in Nat, k \in Nat : len = Len(log) /\ k = r
        BY <1>2
    <2>2. k >= 1 /\ k <= len /\ k # len
        BY <1>1, <1>2, <2>1
    <2>3. k + 1 \in 1..len /\ k + 1 > 1 /\ (k + 1) - 1 = k
        BY <2>2, PlaceAfter
    <2>4. log[r + 1].status \in P!AllowedFrom(log[r].status)
        BY <1>2, <1>3, <2>1, <2>3
    <2> QED BY <1>4, <1>6, <2>4
<1> QED BY <1>1, <1>3, <1>5, <1>6

(* For any number of projects, evidence, levels and tasks, in whatever order rows come:
   a level is earned by evidence and approvals, evidence goes stale once and keeps the
   rest, and tasks run their course. *)
THEOREM LevelSafety == P!ProjectSpec => []LevelsAreEarned
<1>1. ProjectInv => LevelsAreEarned
    <2> SUFFICES ASSUME ProjectInv PROVE LevelsAreEarned
        OBVIOUS
    <2>1. P!StaleKeepsTheRest
        <3> SUFFICES ASSUME NEW e \in Evidence, NEW r \in DOMAIN evidence[e]
                     PROVE  (r > 1 => evidence[e][r]
                                      = [evidence[e][1] EXCEPT !.freshness = "stale"])
                            /\ r <= 2
            BY DEF P!StaleKeepsTheRest
        <3>1. PICK log \in Seq(P!EvidenceRow) : log = evidence[e]
            BY DEF ProjectInv, P!ProjectTypeOK, P!EvidenceTable
        <3>2. r \in Nat /\ r >= 1 /\ r <= Len(log) /\ Len(log) \in Nat
            BY <3>1
        <3>3. StaleOnce(e)
            BY DEF ProjectInv, EvidenceInv
        <3>4. Len(log) <= 2
            BY <3>1, <3>3 DEF StaleOnce
        <3>5. PICK len \in Nat, k \in Nat : len = Len(log) /\ k = r
            BY <3>2
        <3>6. k >= 1 /\ k <= len /\ len <= 2
            BY <3>2, <3>4, <3>5
        <3>7. k <= 2 /\ (k > 1 => k = 2 /\ len = 2)
            BY <3>6
        <3> QED BY <3>1, <3>3, <3>5, <3>7 DEF StaleOnce
    <2> QED BY <2>1, CourseRuns DEF ProjectInv, LevelsAreEarned
<1> QED BY <1>1, ProjectStart, ProjectStep, PTL DEF P!ProjectSpec

-----------------------------------------------------------------------------
(* Project scans.  First what a listing of a directory is. *)

(* A finite, non-empty set of natural numbers has a greatest element. *)
LEMMA GreatestOfFinite ==
    ASSUME NEW T \in SUBSET Nat, T # {}, IsFiniteSet(T)
    PROVE  \E x \in T : \A y \in T : y <= x
<1> DEFINE From(x) == {y \in T : x <= y}
<1> DEFINE Tails == {From(x) : x \in T}
<1>1. Tails \subseteq FiniteSubsetsOf(Nat)
    <2>1. \A x \in T : IsFiniteSet(From(x))
        BY FS_Subset
    <2> QED BY <2>1 DEF FiniteSubsetsOf
<1>2. Tails # {}
    OBVIOUS
<1> HIDE DEF Tails
<1>3. PICK B \in Tails : \A D \in Tails : <<D, B>> \notin StrictSubsetOrdering(Nat)
    BY <1>1, <1>2, WFMin, FS_StrictSubsetOrderingWellFounded, Zenon
<1>4. PICK x \in T : B = From(x)
    BY DEF Tails
<1>5. ASSUME NEW y \in T, x < y PROVE FALSE
    <2>1. From(y) \in Tails
        BY DEF Tails
    <2>2. x \in Nat /\ y \in Nat /\ x < y
        BY <1>5
    <2> SUFFICES x \in From(x) /\ From(y) \subseteq From(x) /\ x \notin From(y)
                 => <<From(y), B>> \in StrictSubsetOrdering(Nat)
        <3>1. x \in From(x) /\ x \notin From(y)
            BY <2>2
        <3>2. ASSUME NEW z \in From(y) PROVE z \in From(x)
            <4>1. z \in T /\ z \in Nat /\ y <= z
                OBVIOUS
            <4>2. x <= z
                BY <4>1, <2>2
            <4> QED BY <4>1, <4>2
        <3> QED BY <3>1, <3>2, <2>1, <1>3
    <2>3. From(y) \in SUBSET Nat /\ From(x) \in SUBSET Nat
        OBVIOUS
    <2> HIDE DEF From
    <2> QED BY <1>4, <2>3 DEF StrictSubsetOrdering
<1>6. \A y \in T : y <= x
    <2> SUFFICES ASSUME NEW y \in T PROVE y <= x
        OBVIOUS
    <2>1. x \in Nat /\ y \in Nat /\ ~(x < y)
        BY <1>5
    <2> QED BY <2>1
<1> QED
    BY <1>6, Zenon

(* The sets of an instance are the sets of this module. *)
LEMMA SameSets ==
    ASSUME NEW T
    PROVE  /\ S!IsFiniteSet(T) <=> IsFiniteSet(T)
           /\ S!Cardinality(T) = Cardinality(T)
<1>1. S!IsFiniteSet(T) <=> IsFiniteSet(T)
    BY DEF S!IsFiniteSet, IsFiniteSet
<1>2. S!Cardinality(T) = Cardinality(T)
    BY DEF S!Cardinality, Cardinality
<1> QED BY <1>1, <1>2

(* A list of T in the order of its keys. *)
Sorted(T, key) ==
    {list \in S!SetToSeqs(T) :
        \A i, j \in DOMAIN list : i < j => key[list[i]] < key[list[j]]}

(* A finite set whose members have keys of their own can be listed in their order. *)
LEMMA FiniteIsSorted ==
    ASSUME NEW T, IsFiniteSet(T), NEW key \in [T -> Nat],
           \A x, y \in T : key[x] = key[y] => x = y
    PROVE  Sorted(T, key) # {}
<1> DEFINE Bad == {U \in SUBSET T : Sorted(U, key) = {}}
<1> SUFFICES ASSUME Bad # {} PROVE FALSE
    OBVIOUS
<1>1. Bad \subseteq FiniteSubsetsOf(T)
    BY FS_Subset DEF FiniteSubsetsOf
<1> HIDE DEF Bad
<1>2. PICK B \in Bad : \A D \in Bad : <<D, B>> \notin StrictSubsetOrdering(T)
    BY <1>1, WFMin, FS_StrictSubsetOrderingWellFounded, Zenon
<1>3. B \in SUBSET T /\ Sorted(B, key) = {} /\ IsFiniteSet(B)
    BY FS_Subset DEF Bad
<1>4. B # {}
    <2> SUFFICES ASSUME B = {} PROVE FALSE
        OBVIOUS
    <2>1. Cardinality({}) = 0
        BY FS_EmptySet
    <2>2. S!SetToSeqs({}) = {f \in [1..0 -> {}] : \A i, j \in 1..0 : i # j => f[i] # f[j]}
        BY <2>1, SameSets DEF S!SetToSeqs
    <2>3. PICK list : list = [i \in 1..0 |-> CHOOSE x \in {} : TRUE]
        OBVIOUS
    <2>4. \A i : i \notin 1..0
        OBVIOUS
    <2>5. DOMAIN list = 1..0 /\ list \in [1..0 -> {}]
        BY <2>3, <2>4
    <2>6. list \in S!SetToSeqs({})
        BY <2>2, <2>4, <2>5
    <2>7. list \in Sorted({}, key)
        BY <2>4, <2>5, <2>6 DEF Sorted
    <2> QED BY <1>3, <2>7
<1>5. PICK x \in B : \A y \in B : key[y] <= key[x]
    <2>1. PICK Keys : Keys = {key[y] : y \in B}
        OBVIOUS
    <2>2. IsFiniteSet(Keys)
        <3>1. PICK f : f = [y \in B |-> key[y]]
            OBVIOUS
        <3>2. f \in [B -> Keys] /\ \A k \in Keys : \E y \in B : f[y] = k
            BY <2>1, <3>1
        <3>3. f \in Surjection(B, Keys)
            BY <3>2 DEF Surjection
        <3> QED BY <1>3, <3>3, FS_Surjection
    <2>3. Keys \in SUBSET Nat /\ Keys # {}
        BY <1>3, <1>4, <2>1
    <2>4. PICK k \in Keys : \A l \in Keys : l <= k
        BY <2>2, <2>3, GreatestOfFinite
    <2> QED BY <2>1, <2>4
<1>6. PICK R : R = B \ {x}
    OBVIOUS
<1>7. Sorted(R, key) # {}
    <2>1. R \in SUBSET T /\ R # B /\ R \subseteq B
        BY <1>3, <1>6
    <2>2. <<R, B>> \in StrictSubsetOrdering(T)
        BY <1>3, <2>1 DEF StrictSubsetOrdering
    <2>3. R \notin Bad
        BY <1>2, <2>2
    <2> QED BY <2>1, <2>3 DEF Bad
<1>8. PICK n \in Nat : n = Cardinality(R) /\ Cardinality(B) = n + 1
    <2>1. IsFiniteSet(R) /\ Cardinality(R) = Cardinality(B) - 1
        BY <1>3, <1>6, FS_RemoveElement
    <2>2. Cardinality(R) \in Nat /\ Cardinality(B) \in Nat
        BY <1>3, <2>1, FS_CardinalityType
    <2> QED BY <2>1, <2>2
<1>9. PICK rest \in Sorted(R, key) : TRUE
    BY <1>7
<1>10. /\ rest \in [1..n -> R]
       /\ \A i, j \in 1..n : i # j => rest[i] # rest[j]
       /\ \A i, j \in 1..n : i < j => key[rest[i]] < key[rest[j]]
    BY <1>8, <1>9, SameSets DEF Sorted, S!SetToSeqs
<1>11. PICK list : list = [i \in 1..(n + 1) |-> IF i = n + 1 THEN x ELSE rest[i]]
    OBVIOUS
<1>12. \A i \in 1..(n + 1) : i \in 1..n \/ i = n + 1
    OBVIOUS
<1>13. list \in [1..(n + 1) -> B] /\ DOMAIN list = 1..(n + 1)
    BY <1>6, <1>10, <1>11, <1>12
<1>14. ASSUME NEW i \in 1..(n + 1), NEW j \in 1..(n + 1), i < j
       PROVE  key[list[i]] < key[list[j]]
    <2>1. i \in 1..n
        BY <1>14
    <2>2. list[i] = rest[i] /\ rest[i] \in R
        BY <1>10, <1>11, <2>1
    <2>3. CASE j = n + 1
        <3>1. list[j] = x /\ rest[i] \in T /\ x \in T /\ rest[i] # x /\ rest[i] \in B
            BY <1>3, <1>6, <1>11, <2>2, <2>3
        <3>2. key[rest[i]] # key[x] /\ key[rest[i]] <= key[x]
            BY <1>5, <3>1
        <3>3. key[rest[i]] \in Nat /\ key[x] \in Nat
            BY <3>1
        <3> QED BY <2>2, <3>1, <3>2, <3>3
    <2>4. CASE j \in 1..n
        BY <1>10, <1>11, <1>14, <2>1, <2>2, <2>4
    <2> QED BY <1>12, <2>3, <2>4
<1>15. \A i, j \in 1..(n + 1) : i # j => list[i] # list[j]
    <2> SUFFICES ASSUME NEW i \in 1..(n + 1), NEW j \in 1..(n + 1), i # j,
                        list[i] = list[j]
                 PROVE  FALSE
        OBVIOUS
    <2>1. i < j \/ j < i
        OBVIOUS
    <2>2. key[list[i]] \in Nat
        BY <1>3, <1>13
    <2> QED BY <1>14, <2>1, <2>2
<1>16. list \in Sorted(B, key)
    BY <1>8, <1>13, <1>14, <1>15, SameSets DEF Sorted, S!SetToSeqs
<1> QED BY <1>3, <1>16

(* A path is its directory's, with its name. *)
LEMMA PathParts ==
    ASSUME NEW p \in Seq(Nat), p # <<>>
    PROVE  /\ S!Front(p) \in Seq(Nat) /\ Len(p) \in Nat /\ Len(p) >= 1
           /\ Len(S!Front(p)) = Len(p) - 1
           /\ \A i \in 1..(Len(p) - 1) : S!Front(p)[i] = p[i]
           /\ S!Last(p) = p[Len(p)] /\ S!Last(p) \in Nat
<1>1. PICK n \in Nat : n = Len(p) /\ n >= 1
    OBVIOUS
<1>2. PICK f : f = SubSeq(p, 1, n - 1)
    OBVIOUS
<1>3. f \in Seq(Nat) /\ Len(f) = n - 1 /\ \A i \in 1..(n - 1) : f[i] = p[i]
    BY <1>1, <1>2
<1>4. S!Front(p) = f
    BY <1>1, <1>2 DEF S!Front
<1>5. S!Last(p) = p[n] /\ p[n] \in Nat
    BY <1>1 DEF S!Last
<1> QED BY <1>1, <1>3, <1>4, <1>5

LEMMA SamePath ==
    ASSUME NEW p \in Seq(Nat), NEW q \in Seq(Nat), p # <<>>, q # <<>>,
           S!Front(p) = S!Front(q), S!Last(p) = S!Last(q)
    PROVE  p = q
<1>1. PICK n \in Nat : n = Len(p) /\ n = Len(q) /\ n >= 1
    BY PathParts
<1>2. \A i \in 1..(n - 1) : S!Front(p)[i] = p[i] /\ S!Front(q)[i] = q[i]
    BY <1>1, PathParts
<1>3. p[n] = q[n]
    BY <1>1, PathParts
<1>4. \A i \in 1..n : i \in 1..(n - 1) \/ i = n
    BY <1>1
<1>5. p \in [1..n -> Nat] /\ q \in [1..n -> Nat]
    <2>1. p \in [1..Len(p) -> Nat] /\ q \in [1..Len(q) -> Nat]
        OBVIOUS
    <2> QED BY <1>1, <2>1
<1> QED BY <1>2, <1>3, <1>4, <1>5

LEMMA PrefixMeans ==
    ASSUME NEW p \in Seq(Nat), NEW q \in Seq(Nat)
    PROVE  S!IsPrefix(p, q) <=> Len(p) <= Len(q) /\ \A i \in 1..Len(p) : p[i] = q[i]
<1>1. PICK m \in Nat, n \in Nat : m = Len(p) /\ n = Len(q)
    OBVIOUS
<1>2. SubSeq(p, 1, m) \in Seq(Nat) /\ Len(SubSeq(p, 1, m)) = m
      /\ \A i \in 1..m : SubSeq(p, 1, m)[i] = p[i]
    BY <1>1
<1>3. ASSUME m <= n
      PROVE  SubSeq(q, 1, m) \in Seq(Nat) /\ Len(SubSeq(q, 1, m)) = m
             /\ \A i \in 1..m : SubSeq(q, 1, m)[i] = q[i]
    BY <1>1, <1>3
<1>4. ASSUME m <= n
      PROVE  SubSeq(p, 1, m) = SubSeq(q, 1, m) <=> \A i \in 1..m : p[i] = q[i]
    BY <1>2, <1>3, <1>4
<1> QED BY <1>1, <1>4 DEF S!IsPrefix

(* Neither of two paths leads to the other. *)
Apart(p, q) == ~S!IsPrefix(p, q) /\ ~S!IsPrefix(q, p)

(* What stands in one directory is apart, and is apart from all that the directory is
   apart from. *)
LEMMA SiblingsApart ==
    ASSUME NEW p \in Seq(Nat), NEW q \in Seq(Nat), p # <<>>, q # <<>>,
           S!Front(p) = S!Front(q), p # q
    PROVE  Apart(p, q)
<1>1. PICK n \in Nat : n = Len(p) /\ n = Len(q) /\ n >= 1
    BY PathParts
<1>2. p[n] # q[n]
    BY <1>1, SamePath DEF S!Last
<1>3. n \in 1..n
    BY <1>1
<1> QED BY <1>1, <1>2, <1>3, PrefixMeans DEF Apart

LEMMA ChildApart ==
    ASSUME NEW p \in Seq(Nat), NEW q \in Seq(Nat), p # <<>>, NEW dir \in Seq(Nat),
           S!Front(p) = dir, Apart(dir, q)
    PROVE  Apart(p, q)
<1>1. PICK m \in Nat, n \in Nat, d \in Nat :
        m = Len(p) /\ n = Len(q) /\ d = Len(dir) /\ m = d + 1
    BY PathParts
<1>2. \A i \in 1..d : dir[i] = p[i]
    BY <1>1, PathParts
<1>3. ~(d <= n /\ \A i \in 1..d : dir[i] = q[i])
    BY <1>1, PrefixMeans DEF Apart
<1>4. ~(n <= d /\ \A i \in 1..n : q[i] = dir[i])
    BY <1>1, PrefixMeans DEF Apart
<1>5. ASSUME S!IsPrefix(p, q) PROVE FALSE
    <2>1. m <= n /\ \A i \in 1..m : p[i] = q[i]
        <3>1. Len(p) <= Len(q) /\ \A i \in 1..Len(p) : p[i] = q[i]
            BY <1>5, PrefixMeans
        <3> QED BY <1>1, <3>1
    <2>2. \A i \in 1..d : i \in 1..m
        BY <1>1
    <2>3. d <= n
        BY <1>1, <2>1
    <2> QED BY <1>2, <1>3, <2>1, <2>2, <2>3
<1>6. ASSUME S!IsPrefix(q, p) PROVE FALSE
    <2>1. n <= m /\ \A i \in 1..n : q[i] = p[i]
        <3>1. Len(q) <= Len(p) /\ \A i \in 1..Len(q) : q[i] = p[i]
            BY <1>6, PrefixMeans
        <3> QED BY <1>1, <3>1
    <2>2. CASE n <= d
        <3>1. \A i \in 1..n : i \in 1..d
            BY <2>2
        <3> QED BY <1>2, <1>4, <2>1, <2>2, <3>1
    <2>3. CASE n = m
        <3>1. d <= n /\ \A i \in 1..d : i \in 1..n
            BY <1>1, <2>3
        <3> QED BY <1>2, <1>3, <2>1, <3>1
    <2> QED BY <1>1, <2>1, <2>2, <2>3
<1> QED BY <1>5, <1>6 DEF Apart

(* The entries of a directory that a walk goes on to. *)
ToWalk(s, path) == {p \in S!Children(path) : ~S!HardDenied(p) /\ S!Relevant(s, p)}

LEMMA ListingOf ==
    ASSUME S!ScanAssumption, NEW s, NEW path
    PROVE  /\ S!Listed(s, path) \in Seq(Path)
           /\ \A i \in DOMAIN S!Listed(s, path) :
                /\ S!Listed(s, path)[i] \in ToWalk(s, path)
                /\ \A j \in DOMAIN S!Listed(s, path) :
                    i # j => S!Listed(s, path)[i] # S!Listed(s, path)[j]
<1>1. PICK T : T = ToWalk(s, path)
    OBVIOUS
<1>2. T \subseteq Path /\ \A p \in T : p \in Seq(Nat) /\ p # <<>> /\ S!Front(p) = path
    BY <1>1 DEF ToWalk, S!Children, S!ScanAssumption
<1>3. IsFiniteSet(T)
    BY <1>2, SameSets, FS_Subset DEF S!ScanAssumption
<1>4. PICK key : key = [p \in T |-> S!Last(p)]
    OBVIOUS
<1>5. key \in [T -> Nat]
    BY <1>2, <1>4, PathParts
<1>6. \A p, q \in T : key[p] = key[q] => p = q
    BY <1>2, <1>4, SamePath
<1>7. PICK list \in S!SetToSeqs(T) :
        \A i, j \in DOMAIN list : i < j => key[list[i]] < key[list[j]]
    BY <1>3, <1>5, <1>6, FiniteIsSorted DEF Sorted
<1>8. \A l \in S!SetToSeqs(T) : \A i \in DOMAIN l :
        /\ l \in [1..Cardinality(T) -> T] /\ DOMAIN l = 1..Cardinality(T) /\ l[i] \in T
        /\ \A j \in DOMAIN l : i # j => l[i] # l[j]
    BY SameSets DEF S!SetToSeqs
<1>9. \A i, j \in DOMAIN list : i < j => S!Last(list[i]) < S!Last(list[j])
    BY <1>4, <1>7, <1>8
<1>10. S!Listed(s, path) \in S!SetToSeqs(T)
    BY <1>1, <1>7, <1>9 DEF S!Listed, ToWalk
<1>11. S!Listed(s, path) \in [1..Cardinality(T) -> T]
    BY <1>10, SameSets DEF S!SetToSeqs
<1>12. S!Listed(s, path) \in Seq(Path)
    BY <1>2, <1>3, <1>11, FS_CardinalityType
<1> QED BY <1>1, <1>8, <1>10, <1>12

(* A file that is being read, an entry, and a rescan. *)
Opening == [path : Path, node : Node, before : Nat, first : Nat]

Entry == [path : Path, node : Node, content : Nat \X Nat]

Difference == [added : SUBSET Path, removed : SUBSET Path, changed : SUBSET Path]

Rescan ==
    [at : {"walk", "walked", "commit"}, command : Command, scope : Scope, todo : Seq(Path),
     open : Opening \cup {None}, entries : SUBSET Entry, previous : Nat,
     diff : Difference \cup {None}]

(* The file stays the one that was opened, and its version only grows. *)
OpeningHolds(x) ==
    x.open # None =>
        /\ ~S!HardDenied(x.open.path) /\ S!Permits(x.scope, x.open.path)
        /\ x.open.node # Outside /\ nodes[x.open.node] # None
        /\ x.open.before <= nodes[x.open.node].version
        /\ x.open.first # 0 => /\ x.open.before <= x.open.first
                               /\ x.open.first <= nodes[x.open.node].version

EntryHolds(s, e) ==
    /\ e.node # Outside /\ ~S!HardDenied(e.path) /\ S!Permits(s, e.path)
    /\ e.content[1] = e.content[2]

EntriesHold(s, entries) ==
    \A e \in entries :
        /\ EntryHolds(s, e)
        /\ \A f \in entries : f.path = e.path => f = e

(* What is still to be walked is apart from all that has been read. *)
WalkHolds(x) ==
    /\ EntriesHold(x.scope, x.entries)
    /\ \A i \in DOMAIN x.todo :
        /\ ~S!HardDenied(x.todo[i])
        /\ \A j \in DOMAIN x.todo : i # j => Apart(x.todo[i], x.todo[j])
        /\ x.open # None => Apart(x.todo[i], x.open.path)
        /\ \A e \in x.entries : Apart(x.todo[i], e.path)
    /\ x.open # None => \A e \in x.entries : e.path # x.open.path
    /\ x.at # "walk" => x.open = None /\ x.entries # {}

(* A history that has been read is the beginning of the one there is. *)
HistoryHolds(x) ==
    x.at = "commit" =>
        /\ x.previous \in 0..Len(manifests)
        /\ x.diff = S!Diff(S!EntriesOf(x.previous), x.entries)

RescanHolds(x) == x \in Rescan /\ OpeningHolds(x) /\ WalkHolds(x) /\ HistoryHolds(x)

ManifestRows ==
    [command : Command, scope : Scope, entries : SUBSET Entry, at : 1..MaxTime]

ManifestsHold ==
    /\ manifests \in Seq(ManifestRows)
    /\ \A i \in DOMAIN manifests :
        manifests[i].entries # {} /\ EntriesHold(manifests[i].scope, manifests[i].entries)

(* While the clock never goes back, manifests stand in the order of their times, and the
   last one lists what is known. *)
ClockHolds ==
    /\ now \in 0..MaxTime
    /\ steady =>
        /\ \A i \in DOMAIN manifests :
            /\ manifests[i].at <= now
            /\ \A j \in DOMAIN manifests : i < j => manifests[i].at < manifests[j].at
        /\ known = S!Files(S!EntriesOf(Len(manifests)))

(* The inductive invariant of scans. *)
ScanInv ==
    /\ S!TreeTypeOK
    /\ scan \in [Scanner -> Rescan \cup {None}]
    /\ \A c \in Scanner : scan[c] # None => RescanHolds(scan[c])
    /\ ManifestsHold
    /\ ClockHolds
    /\ S!AnswersAreDerivable

LEMMA NotEmpty ==
    ASSUME NEW T, NEW s \in Seq(T), s # <<>>
    PROVE  Len(s) >= 1
OBVIOUS

(* A history has a latest manifest, which is the last one while the clock never goes
   back. *)
LEMMA LatestIsThere ==
    ASSUME S!ScanAssumption, ScanInv
    PROVE  /\ S!LatestManifest \in 0..Len(manifests)
           /\ steady => S!LatestManifest = Len(manifests)
<1>1. PICK n \in Nat : n = Len(manifests) /\ DOMAIN manifests = 1..n
    <2>1. manifests \in Seq(ManifestRows)
        BY DEF ScanInv, ManifestsHold
    <2> QED BY <2>1
<1>2. CASE manifests = <<>>
    BY <1>1, <1>2 DEF S!LatestManifest
<1>3. CASE manifests # <<>>
    <2>1. n >= 1
        <3>1. manifests \in Seq(ManifestRows)
            BY DEF ScanInv, ManifestsHold
        <3>2. n >= 1
            BY <1>1, <1>3, <3>1, NotEmpty, Zenon
        <3> QED BY <3>2
    <2>2. \A i \in 1..n : manifests[i].at \in 1..MaxTime
        <3>1. manifests \in Seq(ManifestRows)
            BY DEF ScanInv, ManifestsHold
        <3>2. \A i \in 1..n : manifests[i] \in ManifestRows
            BY <1>1, <3>1
        <3> QED BY <3>2 DEF ManifestRows
    <2>3. PICK Times : Times = {manifests[i].at : i \in 1..n}
        OBVIOUS
    <2>4. Times \in SUBSET Nat /\ Times # {} /\ IsFiniteSet(Times)
        <3>1. 1 \in Int /\ MaxTime \in Int
            BY DEF S!ScanAssumption
        <3>2. IsFiniteSet(1..MaxTime)
            BY <3>1, FS_Interval
        <3>3. Times \subseteq 1..MaxTime
            BY <2>2, <2>3
        <3>4. 1 \in 1..n
            BY <2>1
        <3>5. Times # {}
            BY <2>3, <3>4
        <3>6. Times \in SUBSET Nat
            BY <3>1, <3>3
        <3> QED BY <3>2, <3>3, <3>5, <3>6, FS_Subset
    <2>5. PICK t \in Times : \A u \in Times : u <= t
        BY <2>4, GreatestOfFinite
    <2>6. \E i \in DOMAIN manifests :
            \A j \in DOMAIN manifests : manifests[j].at <= manifests[i].at
        BY <1>1, <2>3, <2>5
    <2>7. PICK k : k = S!LatestManifest
        OBVIOUS
    <2>8. k \in 1..n /\ \A j \in 1..n : manifests[j].at <= manifests[k].at
        BY <1>1, <1>3, <2>6, <2>7 DEF S!LatestManifest
    <2>9. ASSUME steady PROVE k = n
        <3> SUFFICES ASSUME k # n PROVE FALSE
            OBVIOUS
        <3>1. n \in 1..n /\ k < n
            BY <2>1, <2>8
        <3>2. manifests[k].at < manifests[n].at
            BY <1>1, <2>8, <2>9, <3>1 DEF ScanInv, ClockHolds
        <3>3. manifests[n].at <= manifests[k].at
            BY <2>8, <3>1
        <3>4. manifests[k].at \in Int /\ manifests[n].at \in Int
            BY <2>2, <2>8, <3>1
        <3> QED BY <3>2, <3>3, <3>4
    <2>10. k \in 0..n
        BY <2>8
    <2> QED BY <1>1, <2>7, <2>9, <2>10
<1> QED BY <1>2, <1>3

(* A thread takes a step of its own scan. *)
LEMMA ThreadStep ==
    ASSUME ScanInv, NEW c \in Scanner, NEW to, S!Step(c, to), to = None \/ RescanHolds(to)
    PROVE  ScanInv'
<1>1. UNCHANGED <<tree, nodes, manifests, now, steady, known>> /\ answer' = None
    BY DEF S!Step
<1>2. \A d \in Scanner : scan'[d] = IF d = c THEN to ELSE scan[d]
    BY DEF S!Step, ScanInv
<1>3. scan' \in [Scanner -> Rescan \cup {None}]
    BY DEF S!Step, ScanInv, RescanHolds
<1>4. S!TreeTypeOK'
    BY <1>1 DEF ScanInv, S!TreeTypeOK
<1>5. ManifestsHold'
    BY <1>1 DEF ScanInv, ManifestsHold
<1>6. ClockHolds'
    BY <1>1 DEF ScanInv, ClockHolds, S!EntriesOf
<1>7. ASSUME NEW x, RescanHolds(x) PROVE RescanHolds(x)'
    BY <1>1, <1>7 DEF RescanHolds, OpeningHolds, HistoryHolds, S!EntriesOf
<1>8. ASSUME NEW d \in Scanner, scan'[d] # None PROVE RescanHolds(scan[d])'
    <2>1. PICK x : x = scan'[d]
        OBVIOUS
    <2>2. RescanHolds(x)
        BY <1>2, <1>8, <2>1 DEF ScanInv
    <2> QED BY <1>7, <2>1, <2>2
<1>9. S!AnswersAreDerivable'
    BY <1>1 DEF S!AnswersAreDerivable
<1> QED BY <1>3, <1>4, <1>5, <1>6, <1>8, <1>9 DEF ScanInv

(* Paths are the sequences of their names. *)
LEMMA PathsAreNamed ==
    ASSUME S!ScanAssumption, NEW p \in Path
    PROVE  p \in Seq(Nat) /\ p # <<>>
BY DEF S!ScanAssumption

LEMMA ApartTurned ==
    ASSUME NEW p, NEW q, Apart(p, q)
    PROVE  Apart(q, p)
BY DEF Apart

LEMMA ApartDiffer ==
    ASSUME NEW p \in Seq(Nat), NEW q \in Seq(Nat), Apart(p, q)
    PROVE  p # q
BY PrefixMeans DEF Apart

(* What comes after the first of a list. *)
LEMMA RestOfList ==
    ASSUME NEW T, NEW list \in Seq(T), list # <<>>
    PROVE  /\ 1 \in DOMAIN list /\ Head(list) = list[1] /\ Head(list) \in T
           /\ Tail(list) \in Seq(T)
           /\ \A i \in DOMAIN Tail(list) :
                i + 1 \in DOMAIN list /\ Tail(list)[i] = list[i + 1] /\ i + 1 # 1 /\ i \in Nat
OBVIOUS

LEMMA ScanStep ==
    ASSUME S!ScanAssumption, ScanInv, NEW c \in Scanner, S!Scan(c)
    PROVE  ScanInv'
<1>1. PICK command \in Command, s \in Scope :
        S!Step(c, [at |-> "walk", command |-> command, scope |-> s,
                   todo |-> S!Listed(s, <<>>), open |-> None,
                   entries |-> {}, previous |-> 0, diff |-> None])
    BY DEF S!Scan
<1>2. PICK list : list = S!Listed(s, <<>>)
    OBVIOUS
<1>3. PICK x : x = [at |-> "walk", command |-> command, scope |-> s, todo |-> list,
                    open |-> None, entries |-> {}, previous |-> 0, diff |-> None]
    OBVIOUS
<1>4. list \in Seq(Path)
      /\ \A i \in DOMAIN list :
            /\ list[i] \in ToWalk(s, <<>>)
            /\ \A j \in DOMAIN list : i # j => list[i] # list[j]
    BY <1>2, ListingOf
<1>5. x \in Rescan
    BY <1>3, <1>4 DEF Rescan
<1>6. \A i \in DOMAIN list :
        /\ ~S!HardDenied(list[i])
        /\ \A j \in DOMAIN list : i # j => Apart(list[i], list[j])
    <2> SUFFICES ASSUME NEW i \in DOMAIN list, NEW j \in DOMAIN list
                 PROVE  ~S!HardDenied(list[i]) /\ (i # j => Apart(list[i], list[j]))
        OBVIOUS
    <2>1. /\ list[i] \in Path /\ list[j] \in Path /\ ~S!HardDenied(list[i])
          /\ S!Front(list[i]) = S!Front(list[j])
        BY <1>4 DEF ToWalk, S!Children
    <2> QED BY <1>4, <2>1, SiblingsApart, PathsAreNamed
<1>7. OpeningHolds(x) /\ WalkHolds(x) /\ HistoryHolds(x)
    BY <1>3, <1>6 DEF OpeningHolds, WalkHolds, HistoryHolds, EntriesHold
<1>8. S!Step(c, x)
    BY <1>1, <1>2, <1>3
<1> QED BY <1>5, <1>7, <1>8, ThreadStep DEF RescanHolds

(* A directory's entries take the place of the directory. *)
LEMMA DirectoryStep ==
    ASSUME S!ScanAssumption, NEW x \in Rescan, x.todo # <<>>, x.open = None,
           WalkHolds(x), x.at = "walk", NEW y,
           y = [x EXCEPT !.todo = S!Listed(x.scope, Head(x.todo)) \o Tail(x.todo)]
    PROVE  y \in Rescan /\ WalkHolds(y)
<1>1. PICK dir \in Path, rest \in Seq(Path) :
        /\ dir = Head(x.todo) /\ rest = Tail(x.todo)
        /\ 1 \in DOMAIN x.todo /\ dir = x.todo[1]
        /\ \A i \in DOMAIN rest :
            i + 1 \in DOMAIN x.todo /\ rest[i] = x.todo[i + 1] /\ i + 1 # 1 /\ i \in Nat
    BY RestOfList DEF Rescan
<1>2. PICK list : list = S!Listed(x.scope, dir)
    OBVIOUS
<1>3. list \in Seq(Path)
      /\ \A i \in DOMAIN list :
            /\ list[i] \in ToWalk(x.scope, dir)
            /\ \A j \in DOMAIN list : i # j => list[i] # list[j]
    BY <1>2, ListingOf
<1>4. PICK m \in Nat, n \in Nat :
        m = Len(list) /\ n = Len(rest) /\ DOMAIN list = 1..m /\ DOMAIN rest = 1..n
    BY <1>1, <1>3
<1>5. PICK todo : todo = list \o rest
    OBVIOUS
<1>6. /\ todo \in Seq(Path) /\ DOMAIN todo = 1..(m + n)
      /\ \A i \in DOMAIN todo :
            todo[i] = IF i \in DOMAIN list THEN list[i] ELSE rest[i - m]
      /\ \A i \in DOMAIN todo : i \notin DOMAIN list => i - m \in DOMAIN rest
    BY <1>1, <1>3, <1>4, <1>5
<1>7. y = [x EXCEPT !.todo = todo]
    BY <1>1, <1>2, <1>5
<1>8. y \in Rescan /\ y.todo = todo /\ y.at = x.at /\ y.scope = x.scope
      /\ y.open = x.open /\ y.entries = x.entries
    BY <1>6, <1>7 DEF Rescan
<1>9. \A i \in DOMAIN list :
        /\ list[i] \in Path /\ ~S!HardDenied(list[i]) /\ S!Front(list[i]) = dir
        /\ list[i] \in Seq(Nat) /\ list[i] # <<>>
    BY <1>3, PathsAreNamed DEF ToWalk, S!Children
<1>10. \A i \in DOMAIN rest :
        /\ rest[i] \in Path /\ ~S!HardDenied(rest[i]) /\ Apart(dir, rest[i])
        /\ \A e \in x.entries : Apart(rest[i], e.path)
    BY <1>1 DEF WalkHolds
<1>11. \A i, j \in DOMAIN rest : i # j => Apart(rest[i], rest[j])
    <2> SUFFICES ASSUME NEW i \in DOMAIN rest, NEW j \in DOMAIN rest, i # j
                 PROVE  Apart(rest[i], rest[j])
        OBVIOUS
    <2>1. i + 1 # j + 1
        BY <1>1
    <2> QED BY <1>1, <2>1 DEF WalkHolds
<1>12. dir \in Seq(Nat) /\ \A e \in x.entries : e.path \in Seq(Nat) /\ Apart(dir, e.path)
    BY <1>1, PathsAreNamed DEF WalkHolds, Rescan, Entry
<1>13. \A i \in DOMAIN list :
        /\ \A j \in DOMAIN list : i # j => Apart(list[i], list[j])
        /\ \A j \in DOMAIN rest : Apart(list[i], rest[j]) /\ Apart(rest[j], list[i])
        /\ \A e \in x.entries : Apart(list[i], e.path)
    <2> SUFFICES ASSUME NEW i \in DOMAIN list
                 PROVE  /\ \A j \in DOMAIN list : i # j => Apart(list[i], list[j])
                        /\ \A j \in DOMAIN rest :
                            Apart(list[i], rest[j]) /\ Apart(rest[j], list[i])
                        /\ \A e \in x.entries : Apart(list[i], e.path)
        OBVIOUS
    <2>1. \A j \in DOMAIN list : i # j => Apart(list[i], list[j])
        BY <1>3, <1>9, SiblingsApart
    <2>2. \A j \in DOMAIN rest : rest[j] \in Seq(Nat)
        BY <1>10, PathsAreNamed
    <2>3. \A j \in DOMAIN rest : Apart(list[i], rest[j])
        BY <1>9, <1>10, <1>12, <2>2, ChildApart
    <2>4. \A e \in x.entries : Apart(list[i], e.path)
        BY <1>9, <1>12, ChildApart
    <2> QED BY <2>1, <2>3, <2>4, ApartTurned
<1>14. \A i \in DOMAIN todo :
        /\ ~S!HardDenied(todo[i])
        /\ \A j \in DOMAIN todo : i # j => Apart(todo[i], todo[j])
        /\ \A e \in x.entries : Apart(todo[i], e.path)
    <2> SUFFICES ASSUME NEW i \in DOMAIN todo
                 PROVE  /\ ~S!HardDenied(todo[i])
                        /\ \A j \in DOMAIN todo : i # j => Apart(todo[i], todo[j])
                        /\ \A e \in x.entries : Apart(todo[i], e.path)
        OBVIOUS
    <2>1. ASSUME NEW j \in DOMAIN todo, i # j PROVE Apart(todo[i], todo[j])
        <3>1. i - m # j - m
            BY <1>4, <1>6, <2>1
        <3> QED BY <1>6, <1>11, <1>13, <2>1, <3>1
    <2>2. ~S!HardDenied(todo[i]) /\ \A e \in x.entries : Apart(todo[i], e.path)
        BY <1>6, <1>9, <1>10, <1>13
    <2> QED BY <2>1, <2>2
<1> QED BY <1>8, <1>14 DEF WalkHolds

(* A directory is entered, or a file that the scope permits is opened. *)
LEMMA OpenStep ==
    ASSUME S!ScanAssumption, ScanInv, NEW c \in Scanner, S!OpenChild(c)
    PROVE  ScanInv'
<1>1. PICK x \in Rescan : x = scan[c] /\ RescanHolds(x) /\ x.at = "walk" /\ x.open = None
                          /\ x.todo # <<>>
    BY DEF S!OpenChild, ScanInv, RescanHolds
<1>2. PICK path, node, rest :
        path = Head(x.todo) /\ node = S!Opened(path) /\ rest = Tail(x.todo)
    OBVIOUS
<1>3. path \in Path /\ path = x.todo[1] /\ 1 \in DOMAIN x.todo /\ rest \in Seq(Path)
      /\ \A i \in DOMAIN rest :
            i + 1 \in DOMAIN x.todo /\ rest[i] = x.todo[i + 1] /\ i + 1 # 1 /\ i \in Nat
    BY <1>1, <1>2, RestOfList DEF Rescan
<1>4. CASE node = None
    <2>1. S!Step(c, None)
        BY <1>1, <1>2, <1>4 DEF S!OpenChild
    <2> QED BY <2>1, ThreadStep
<1>5. CASE node # None /\ nodes[node].kind = "dir"
    <2>1. PICK y : y = [x EXCEPT !.todo = S!Listed(x.scope, Head(x.todo)) \o Tail(x.todo)]
        OBVIOUS
    <2>2. S!Step(c, y)
        BY <1>1, <1>2, <1>5, <2>1 DEF S!OpenChild
    <2>3. y \in Rescan /\ WalkHolds(y)
        BY <1>1, <2>1, DirectoryStep DEF RescanHolds
    <2>4. y.at = x.at /\ y.open = x.open
        BY <2>1 DEF Rescan
    <2>5. OpeningHolds(y) /\ HistoryHolds(y)
        BY <1>1, <2>4 DEF OpeningHolds, HistoryHolds
    <2> QED BY <2>2, <2>3, <2>5, ThreadStep DEF RescanHolds
<1>6. CASE node # None /\ nodes[node].kind # "dir"
    <2>1. PICK open : open = IF ~S!Permits(x.scope, path) THEN None
                             ELSE [path |-> path, node |-> node,
                                   before |-> nodes[node].version, first |-> 0]
        OBVIOUS
    <2>2. PICK y : y = [x EXCEPT !.todo = rest, !.open = open]
        OBVIOUS
    <2>3. S!Step(c, y)
        BY <1>1, <1>2, <1>6, <2>1, <2>2 DEF S!OpenChild
    <2>4. /\ node \in Node /\ node # Outside /\ nodes[node] # None
          /\ nodes[node].version \in Nat
        <3>1. tree[path] # None /\ node = tree[path]
            BY <1>2, <1>6 DEF S!Opened
        <3>2. node \in Node /\ node # Outside /\ nodes[node] # None
            BY <1>3, <3>1 DEF ScanInv, S!TreeTypeOK
        <3>3. nodes[node] \in S!NodeState
            BY <3>2 DEF ScanInv, S!TreeTypeOK
        <3> QED BY <3>2, <3>3 DEF S!NodeState
    <2>5. open \in Opening \cup {None}
        BY <1>3, <2>1, <2>4 DEF Opening
    <2>6. /\ y \in Rescan /\ y.todo = rest /\ y.open = open /\ y.at = x.at
          /\ y.scope = x.scope /\ y.entries = x.entries
        BY <1>3, <2>2, <2>5 DEF Rescan
    <2>7. ~S!HardDenied(path) /\ \A i \in DOMAIN rest :
            /\ ~S!HardDenied(rest[i]) /\ Apart(rest[i], path)
            /\ \A j \in DOMAIN rest : i # j => Apart(rest[i], rest[j])
            /\ \A e \in x.entries : Apart(rest[i], e.path)
        <3>1. ~S!HardDenied(path)
            BY <1>1, <1>3 DEF RescanHolds, WalkHolds
        <3>2. ASSUME NEW i \in DOMAIN rest
              PROVE  /\ ~S!HardDenied(rest[i]) /\ Apart(rest[i], path)
                     /\ \A e \in x.entries : Apart(rest[i], e.path)
            BY <1>1, <1>3 DEF RescanHolds, WalkHolds
        <3>3. ASSUME NEW i \in DOMAIN rest, NEW j \in DOMAIN rest, i # j
              PROVE  Apart(rest[i], rest[j])
            <4>1. i + 1 # j + 1
                BY <1>3, <3>3
            <4> QED BY <1>1, <1>3, <4>1 DEF RescanHolds, WalkHolds
        <3> QED BY <3>1, <3>2, <3>3
    <2>8. \A e \in x.entries : e.path # path
        <3> SUFFICES ASSUME NEW e \in x.entries PROVE e.path # path
            OBVIOUS
        <3>1. Apart(path, e.path)
            BY <1>1, <1>3 DEF RescanHolds, WalkHolds
        <3>2. e.path \in Path
            BY DEF Rescan, Entry
        <3> QED BY <1>3, <3>1, <3>2, ApartDiffer, PathsAreNamed
    <2>9. open # None =>
            /\ open.path = path /\ open.node = node /\ open.before = nodes[node].version
            /\ open.first = 0 /\ S!Permits(x.scope, path)
        BY <2>1
    <2>10. WalkHolds(y)
        BY <1>1, <2>6, <2>7, <2>8, <2>9 DEF RescanHolds, WalkHolds
    <2>11. OpeningHolds(y)
        BY <2>4, <2>6, <2>7, <2>9 DEF OpeningHolds
    <2>12. HistoryHolds(y)
        BY <1>1, <2>6 DEF HistoryHolds
    <2> QED BY <2>3, <2>6, <2>10, <2>11, <2>12, ThreadStep DEF RescanHolds
<1> QED BY <1>4, <1>5, <1>6

(* What is being read has a node with a version. *)
LEMMA OpenedNode ==
    ASSUME ScanInv, NEW x \in Rescan, RescanHolds(x), x.open # None
    PROVE  /\ x.open \in Opening /\ nodes[x.open.node] \in S!NodeState
           /\ nodes[x.open.node].version \in Nat \ {0}
<1>1. x.open \in Opening
    BY DEF Rescan
<1>2. nodes[x.open.node] \in S!NodeState
    BY <1>1 DEF ScanInv, S!TreeTypeOK, RescanHolds, OpeningHolds, Opening
<1> QED BY <1>1, <1>2 DEF S!NodeState

LEMMA FirstStep ==
    ASSUME ScanInv, NEW c \in Scanner, S!ReadFirst(c)
    PROVE  ScanInv'
<1>1. PICK x \in Rescan : x = scan[c] /\ RescanHolds(x) /\ x.open # None
    BY DEF S!ReadFirst, ScanInv, RescanHolds
<1>2. PICK v \in Nat \ {0} : v = nodes[x.open.node].version
    BY <1>1, OpenedNode
<1>3. PICK open : open = [x.open EXCEPT !.first = v]
    OBVIOUS
<1>4. PICK y : y = [x EXCEPT !.open = open]
    OBVIOUS
<1>5. S!Step(c, y)
    BY <1>1, <1>2, <1>3, <1>4 DEF S!ReadFirst
<1>6. /\ open \in Opening /\ open.path = x.open.path /\ open.node = x.open.node
      /\ open.before = x.open.before /\ open.first = v
    BY <1>1, <1>3, OpenedNode DEF Opening
<1>7. /\ y \in Rescan /\ y.open = open /\ y.todo = x.todo /\ y.at = x.at
      /\ y.scope = x.scope /\ y.entries = x.entries /\ y.previous = x.previous
      /\ y.diff = x.diff
    BY <1>4, <1>6 DEF Rescan
<1>8. OpeningHolds(y)
    BY <1>1, <1>2, <1>6, <1>7 DEF RescanHolds, OpeningHolds
<1>9. WalkHolds(y)
    BY <1>1, <1>6, <1>7 DEF RescanHolds, WalkHolds
<1>10. HistoryHolds(y)
    BY <1>1, <1>7 DEF RescanHolds, HistoryHolds
<1> QED BY <1>5, <1>7, <1>8, <1>9, <1>10, ThreadStep DEF RescanHolds

(* A file is listed when its version has not changed since before the first part. *)
LEMMA RestStep ==
    ASSUME S!ScanAssumption, ScanInv, NEW c \in Scanner, S!ReadRest(c)
    PROVE  ScanInv'
<1>1. PICK x \in Rescan :
        x = scan[c] /\ RescanHolds(x) /\ x.open # None /\ x.open.first # 0
    BY DEF S!ReadRest, ScanInv, RescanHolds
<1>2. PICK v \in Nat \ {0} : v = nodes[x.open.node].version
    BY <1>1, OpenedNode
<1>3. CASE ~S!SameFile(x.open)
    <2>1. S!Step(c, None)
        BY <1>1, <1>3 DEF S!ReadRest
    <2> QED BY <2>1, ThreadStep
<1>4. CASE S!SameFile(x.open)
    <2>1. PICK entry : entry = [path |-> x.open.path, node |-> x.open.node,
                                content |-> <<x.open.first, v>>]
        OBVIOUS
    <2>2. PICK y : y = [x EXCEPT !.open = None, !.entries = x.entries \cup {entry}]
        OBVIOUS
    <2>3. S!Step(c, y)
        BY <1>1, <1>2, <1>4, <2>1, <2>2 DEF S!ReadRest
    <2>4. x.open \in Opening
        BY <1>1, OpenedNode
    <2>5. entry \in Entry
        BY <1>2, <2>1, <2>4 DEF Entry, Opening
    <2>6. /\ y \in Rescan /\ y.open = None /\ y.todo = x.todo /\ y.at = x.at
          /\ y.scope = x.scope /\ y.entries = x.entries \cup {entry}
          /\ y.previous = x.previous /\ y.diff = x.diff
        BY <2>2, <2>5 DEF Rescan
    <2>7. x.open.first = v
        <3>1. x.open.before = v /\ x.open.before <= x.open.first /\ x.open.first <= v
            BY <1>1, <1>2, <1>4 DEF S!SameFile, RescanHolds, OpeningHolds
        <3>2. x.open.first \in Nat
            BY <2>4 DEF Opening
        <3> QED BY <1>2, <3>1, <3>2
    <2>8. entry.path = x.open.path /\ entry.node = x.open.node
          /\ entry.content[1] = entry.content[2]
        BY <2>1, <2>7
    <2>9. EntryHolds(x.scope, entry)
        BY <1>1, <2>8 DEF EntryHolds, RescanHolds, OpeningHolds
    <2>10. \A e \in x.entries : e.path # entry.path
        BY <1>1, <2>8 DEF RescanHolds, WalkHolds
    <2>11. EntriesHold(y.scope, y.entries)
        BY <1>1, <2>6, <2>9, <2>10 DEF RescanHolds, WalkHolds, EntriesHold
    <2>12. \A i \in DOMAIN x.todo : Apart(x.todo[i], entry.path)
        BY <1>1, <2>8 DEF RescanHolds, WalkHolds
    <2>13. x.at = "walk"
        BY <1>1 DEF RescanHolds, WalkHolds
    <2>14. WalkHolds(y)
        <3>1. \A i \in DOMAIN x.todo :
                /\ ~S!HardDenied(x.todo[i])
                /\ \A j \in DOMAIN x.todo : i # j => Apart(x.todo[i], x.todo[j])
                /\ \A e \in x.entries \cup {entry} : Apart(x.todo[i], e.path)
            BY <1>1, <2>12 DEF RescanHolds, WalkHolds
        <3> QED BY <2>6, <2>11, <2>13, <3>1 DEF WalkHolds
    <2>15. OpeningHolds(y) /\ HistoryHolds(y)
        BY <2>6, <2>13 DEF OpeningHolds, HistoryHolds
    <2> QED BY <2>3, <2>6, <2>14, <2>15, ThreadStep DEF RescanHolds
<1> QED BY <1>3, <1>4

LEMMA WalkedStep ==
    ASSUME ScanInv, NEW c \in Scanner, S!Walked(c)
    PROVE  ScanInv'
<1>1. PICK x \in Rescan : x = scan[c] /\ RescanHolds(x) /\ x.open = None
    BY DEF S!Walked, ScanInv, RescanHolds
<1>2. CASE x.entries = {}
    <2>1. S!Step(c, None)
        BY <1>1, <1>2 DEF S!Walked
    <2> QED BY <2>1, ThreadStep
<1>3. CASE x.entries # {}
    <2>1. PICK y : y = [x EXCEPT !.at = "walked"]
        OBVIOUS
    <2>2. S!Step(c, y)
        BY <1>1, <1>3, <2>1 DEF S!Walked
    <2>3. /\ y \in Rescan /\ y.open = x.open /\ y.todo = x.todo /\ y.at = "walked"
          /\ y.scope = x.scope /\ y.entries = x.entries
        BY <2>1 DEF Rescan
    <2>4. WalkHolds(y)
        BY <1>1, <1>3, <2>3 DEF RescanHolds, WalkHolds
    <2>5. OpeningHolds(y) /\ HistoryHolds(y)
        BY <1>1, <2>3 DEF OpeningHolds, HistoryHolds
    <2> QED BY <2>2, <2>3, <2>4, <2>5, ThreadStep DEF RescanHolds
<1> QED BY <1>2, <1>3

(* The entries of a manifest that is there. *)
LEMMA EntriesAreThere ==
    ASSUME ScanInv, NEW i \in 0..Len(manifests)
    PROVE  S!EntriesOf(i) \in SUBSET Entry
<1>1. manifests \in Seq(ManifestRows)
    BY DEF ScanInv, ManifestsHold
<1>2. CASE i = 0
    BY <1>2 DEF S!EntriesOf
<1>3. CASE i # 0
    <2>1. i \in 1..Len(manifests)
        BY <1>1, <1>3
    <2>2. manifests[i] \in ManifestRows
        BY <1>1, <2>1
    <2> QED BY <1>3, <2>2 DEF S!EntriesOf, ManifestRows
<1> QED BY <1>2, <1>3

LEMMA HistoryStep ==
    ASSUME S!ScanAssumption, ScanInv, NEW c \in Scanner, S!ReadHistory(c)
    PROVE  ScanInv'
<1>1. PICK x \in Rescan : x = scan[c] /\ RescanHolds(x) /\ x.at = "walked"
    BY DEF S!ReadHistory, ScanInv, RescanHolds
<1>2. PICK latest \in 0..Len(manifests) : latest = S!LatestManifest
    BY LatestIsThere
<1>3. PICK before : before = S!EntriesOf(latest)
    OBVIOUS
<1>4. PICK diff : diff = S!Diff(before, x.entries)
    OBVIOUS
<1>5. PICK y : y = [x EXCEPT !.at = "commit", !.previous = latest, !.diff = diff]
    OBVIOUS
<1>6. S!Step(c, y)
    BY <1>1, <1>2, <1>3, <1>4, <1>5 DEF S!ReadHistory
<1>7. diff \in Difference
    <2>1. before \in SUBSET Entry /\ x.entries \in SUBSET Entry
        BY <1>2, <1>3, EntriesAreThere DEF Rescan
    <2>2. S!Files(before) \in SUBSET Path /\ S!Files(x.entries) \in SUBSET Path
        BY <2>1 DEF S!Files, Entry
    <2> QED BY <1>4, <2>2 DEF S!Diff, Difference
<1>8. latest \in Nat
    <2>1. manifests \in Seq(ManifestRows)
        BY DEF ScanInv, ManifestsHold
    <2> QED BY <1>2, <2>1
<1>9. /\ y \in Rescan /\ y.open = x.open /\ y.todo = x.todo /\ y.at = "commit"
      /\ y.scope = x.scope /\ y.entries = x.entries /\ y.previous = latest /\ y.diff = diff
    BY <1>5, <1>7, <1>8 DEF Rescan
<1>10. WalkHolds(y)
    BY <1>1, <1>9 DEF RescanHolds, WalkHolds
<1>11. OpeningHolds(y)
    BY <1>1, <1>9 DEF RescanHolds, WalkHolds, OpeningHolds
<1>12. HistoryHolds(y)
    BY <1>3, <1>4, <1>9 DEF HistoryHolds
<1> QED BY <1>6, <1>9, <1>10, <1>11, <1>12, ThreadStep DEF RescanHolds

(* A manifest that builds on the latest one is added to it, and so are its differences to
   what is known. *)
LEMMA CommitStep ==
    ASSUME S!ScanAssumption, ScanInv, NEW c \in Scanner, S!CommitRescan(c)
    PROVE  ScanInv'
<1>1. PICK x \in Rescan : x = scan[c] /\ RescanHolds(x) /\ x.at = "commit"
    BY DEF S!CommitRescan, ScanInv, RescanHolds
<1>2. PICK t \in 1..MaxTime : /\ steady => t > now
                              /\ now' = t
                              /\ S!StageManifest(x.previous,
                                                 [command |-> x.command, scope |-> x.scope,
                                                  entries |-> x.entries, at |-> t])
    BY <1>1 DEF S!CommitRescan
<1>3. PICK row : row = [command |-> x.command, scope |-> x.scope,
                        entries |-> x.entries, at |-> t]
    OBVIOUS
<1>4. /\ known' = (known \ x.diff.removed) \cup x.diff.added
      /\ scan' = [scan EXCEPT ![c] = None]
      /\ answer' = [manifest |-> Len(manifests) + 1, previous |-> x.previous, diff |-> x.diff]
      /\ UNCHANGED <<tree, nodes, steady>>
    BY <1>1 DEF S!CommitRescan, S!Answer
<1>5. x.previous = S!LatestManifest /\ manifests' = Append(manifests, row)
    BY <1>2, <1>3 DEF S!StageManifest, S!BuildsOnLatest
<1>6. row \in ManifestRows /\ row.entries = x.entries /\ row.scope = x.scope /\ row.at = t
    BY <1>3 DEF ManifestRows, Rescan
<1>7. manifests \in Seq(ManifestRows)
    BY DEF ScanInv, ManifestsHold
<1>8. PICK n \in Nat :
        /\ n = Len(manifests) /\ n + 1 = Len(manifests')
        /\ manifests' \in Seq(ManifestRows)
        /\ manifests'[n + 1] = row
        /\ DOMAIN manifests = 1..n /\ DOMAIN manifests' = 1..(n + 1)
        /\ \A i \in 1..n : manifests'[i] = manifests[i]
    <2>1. PICK n \in Nat : n = Len(manifests)
        BY <1>7
    <2>2. DOMAIN manifests = 1..n /\ DOMAIN manifests' = 1..n \cup {n + 1}
        BY <1>5, <1>6, <1>7, <2>1, AppendGrows
    <2> QED BY <1>5, <1>6, <1>7, <2>1, <2>2, AppendGrows
<1>9. \A i \in 1..(n + 1) : i \in 1..n \/ i = n + 1
    OBVIOUS
<1>10. \A i \in 0..n : i \in 0..(n + 1) /\ (S!EntriesOf(i))' = S!EntriesOf(i)
    BY <1>8 DEF S!EntriesOf
<1>11. (S!EntriesOf(n + 1))' = x.entries
    <2>1. n + 1 # 0
        OBVIOUS
    <2> QED BY <1>6, <1>8, <2>1 DEF S!EntriesOf
<1>12. ASSUME NEW z, RescanHolds(z) PROVE RescanHolds(z)'
    <2>1. OpeningHolds(z)'
        BY <1>4, <1>12 DEF RescanHolds, OpeningHolds
    <2>2. HistoryHolds(z)'
        BY <1>8, <1>10, <1>12 DEF RescanHolds, HistoryHolds
    <2> QED BY <1>12, <2>1, <2>2 DEF RescanHolds
<1>13. /\ (scan \in [Scanner -> Rescan \cup {None}])'
       /\ \A d \in Scanner : (scan[d] # None => RescanHolds(scan[d]))'
    <2>1. (scan \in [Scanner -> Rescan \cup {None}])'
        BY <1>4 DEF ScanInv
    <2>2. ASSUME NEW d \in Scanner PROVE (scan[d] # None => RescanHolds(scan[d]))'
        <3>1. PICK z : z = scan'[d]
            OBVIOUS
        <3>2. CASE z # None
            <4>1. z = scan[d]
                BY <1>4, <3>1, <3>2 DEF ScanInv
            <4>2. RescanHolds(z)'
                BY <1>12, <3>2, <4>1 DEF ScanInv
            <4> QED BY <3>1, <4>2
        <3> QED BY <3>1, <3>2
    <2> QED BY <2>1, <2>2
<1>14. ManifestsHold'
    <2>1. row.entries # {} /\ EntriesHold(row.scope, row.entries)
        BY <1>1, <1>6 DEF RescanHolds, WalkHolds
    <2>2. \A i \in 1..n :
            manifests[i].entries # {} /\ EntriesHold(manifests[i].scope, manifests[i].entries)
        BY <1>8 DEF ScanInv, ManifestsHold
    <2> QED BY <1>8, <1>9, <2>1, <2>2 DEF ManifestsHold
<1>15. ClockHolds'
    <2>1. now' \in 0..MaxTime
        BY <1>2 DEF S!ScanAssumption
    <2>2. ASSUME steady
          PROVE  \A i \in 1..(n + 1) :
                    /\ manifests'[i].at <= now'
                    /\ \A j \in 1..(n + 1) : i < j => manifests'[i].at < manifests'[j].at
        <3>1. now \in Int /\ t \in Int /\ t > now /\ now' = t
            BY <1>2, <2>2 DEF ScanInv, ClockHolds, S!ScanAssumption
        <3>2. \A i \in 1..n :
                /\ manifests[i].at <= now
                /\ \A j \in 1..n : i < j => manifests[i].at < manifests[j].at
            BY <1>8, <2>2 DEF ScanInv, ClockHolds
        <3>3. \A i \in 1..n : manifests[i].at \in Int
            <4>1. \A i \in 1..n : manifests[i] \in ManifestRows
                BY <1>7, <1>8
            <4>2. \A i \in 1..n : manifests[i].at \in 1..MaxTime
                BY <4>1 DEF ManifestRows
            <4> QED BY <4>2 DEF S!ScanAssumption
        <3> SUFFICES ASSUME NEW i \in 1..(n + 1), NEW j \in 1..(n + 1)
                     PROVE  /\ manifests'[i].at <= now'
                            /\ i < j => manifests'[i].at < manifests'[j].at
            OBVIOUS
        <3>4. CASE i = n + 1
            <4>1. ~(i < j)
                BY <3>4
            <4> QED BY <1>6, <1>8, <3>1, <3>4, <4>1
        <3>5. CASE i \in 1..n
            <4>1. manifests'[i].at = manifests[i].at /\ manifests[i].at <= now
                  /\ manifests[i].at \in Int
                BY <1>8, <3>2, <3>3, <3>5
            <4>2. manifests[i].at < t /\ manifests[i].at <= t
                BY <3>1, <4>1
            <4>3. CASE j = n + 1
                BY <1>6, <1>8, <3>1, <4>1, <4>2, <4>3
            <4>4. CASE j \in 1..n
                BY <1>8, <3>1, <3>2, <3>5, <4>1, <4>2, <4>4
            <4> QED BY <1>9, <4>3, <4>4
        <3> QED BY <1>9, <3>4, <3>5
    <2>3. ASSUME steady PROVE known' = S!Files(x.entries)
        <3>1. PICK before : before = S!Files(S!EntriesOf(n))
            OBVIOUS
        <3>2. x.previous = n
            BY <1>5, <1>8, <2>3, LatestIsThere
        <3>3. known = before
            BY <1>8, <2>3, <3>1 DEF ScanInv, ClockHolds
        <3>4. x.diff.added = S!Files(x.entries) \ before
              /\ x.diff.removed = before \ S!Files(x.entries)
            BY <1>1, <3>1, <3>2 DEF RescanHolds, HistoryHolds, S!Diff
        <3> QED BY <1>4, <3>3, <3>4
    <2>4. S!Files(S!EntriesOf(Len(manifests)))' = S!Files(x.entries)
        BY <1>8, <1>11 DEF S!Files
    <2> QED BY <1>4, <1>8, <2>1, <2>2, <2>3, <2>4 DEF ClockHolds
<1>16. S!TreeTypeOK'
    BY <1>4 DEF ScanInv, S!TreeTypeOK
<1>17. S!AnswersAreDerivable'
    <2>1. /\ answer'.manifest = n + 1 /\ answer'.previous = x.previous
          /\ answer'.diff = x.diff
        BY <1>4, <1>8
    <2>2. x.previous \in 0..n /\ x.diff = S!Diff(S!EntriesOf(x.previous), x.entries)
        BY <1>1, <1>8 DEF RescanHolds, HistoryHolds
    <2>3. n + 1 \in DOMAIN manifests' /\ x.previous \in 0..Len(manifests')
        BY <1>8, <1>10, <2>2
    <2>4. x.diff = S!Diff((S!EntriesOf(x.previous))', (S!EntriesOf(n + 1))')
        BY <1>10, <1>11, <2>2
    <2> QED BY <2>1, <2>3, <2>4 DEF S!AnswersAreDerivable
<1> QED BY <1>13, <1>14, <1>15, <1>16, <1>17 DEF ScanInv

(* Entries with the same contents, one for each path, differ alike from any others. *)
OnePerPath(entries) == \A e, f \in entries : f.path = e.path => f = e

LEMMA SameFilesListed ==
    ASSUME NEW a, NEW b, S!Contents(a) = S!Contents(b)
    PROVE  \A e \in a : \E f \in b : f.path = e.path /\ f.content = e.content
<1> SUFFICES ASSUME NEW e \in a PROVE \E f \in b : f.path = e.path /\ f.content = e.content
    OBVIOUS
<1>1. <<e.path, e.content>> \in S!Contents(b)
    BY DEF S!Contents
<1>2. PICK f \in b : <<e.path, e.content>> = <<f.path, f.content>>
    BY <1>1 DEF S!Contents
<1> QED BY <1>2

LEMMA SameContent ==
    ASSUME NEW a, NEW b, OnePerPath(a), OnePerPath(b), S!Contents(a) = S!Contents(b),
           NEW p \in S!Files(a)
    PROVE  p \in S!Files(b) /\ S!ContentOf(a, p) = S!ContentOf(b, p)
<1>1. PICK e \in a : e.path = p
    BY DEF S!Files
<1>2. PICK f \in b : f.path = p /\ f.content = e.content
    BY <1>1, SameFilesListed
<1>3. (CHOOSE g \in a : g.path = p) = e /\ (CHOOSE g \in b : g.path = p) = f
    BY <1>1, <1>2 DEF OnePerPath
<1> QED BY <1>2, <1>3 DEF S!Files, S!ContentOf

LEMMA SameDifference ==
    ASSUME NEW a, NEW b, OnePerPath(a), OnePerPath(b), S!Contents(a) = S!Contents(b),
           NEW before
    PROVE  S!Diff(before, a) = S!Diff(before, b)
<1>1. \A p \in S!Files(a) : p \in S!Files(b) /\ S!ContentOf(a, p) = S!ContentOf(b, p)
    BY SameContent
<1>2. \A p \in S!Files(b) : p \in S!Files(a)
    BY SameContent
<1>3. S!Files(a) = S!Files(b)
    BY <1>1, <1>2
<1> QED BY <1>1, <1>3 DEF S!Diff

(* A repeated rescan has listed what the recorded manifest lists. *)
LEMMA ReplayStep ==
    ASSUME S!ScanAssumption, ScanInv, NEW c \in Scanner, S!ReplayRescan(c)
    PROVE  ScanInv'
<1>1. PICK x \in Rescan : x = scan[c] /\ RescanHolds(x) /\ x.at = "commit"
    BY DEF S!ReplayRescan, ScanInv, RescanHolds
<1>2. PICK i \in DOMAIN manifests : S!SameManifest(manifests[i], x) /\ S!Answer(c, i)
    BY <1>1 DEF S!ReplayRescan, S!Recorded
<1>3. /\ answer' = [manifest |-> i, previous |-> x.previous, diff |-> x.diff]
      /\ UNCHANGED <<tree, nodes, steady, manifests, now, known>>
      /\ scan' = [scan EXCEPT ![c] = None]
    BY <1>1, <1>2 DEF S!ReplayRescan, S!Answer
<1>4. \A d \in Scanner : scan'[d] = IF d = c THEN None ELSE scan[d]
    BY <1>3 DEF ScanInv
<1>5. scan' \in [Scanner -> Rescan \cup {None}]
    BY <1>3 DEF ScanInv
<1>6. S!TreeTypeOK' /\ ManifestsHold' /\ ClockHolds'
    BY <1>3 DEF ScanInv, S!TreeTypeOK, ManifestsHold, ClockHolds, S!EntriesOf
<1>7. ASSUME NEW d \in Scanner, scan'[d] # None PROVE RescanHolds(scan[d])'
    <2>1. PICK z : z = scan'[d]
        OBVIOUS
    <2>2. RescanHolds(z)
        BY <1>4, <1>7, <2>1 DEF ScanInv
    <2>3. RescanHolds(z)'
        BY <1>3, <2>2 DEF RescanHolds, OpeningHolds, HistoryHolds, S!EntriesOf
    <2> QED BY <2>1, <2>3
<1>8. S!AnswersAreDerivable'
    <2>1. /\ EntriesHold(manifests[i].scope, manifests[i].entries)
          /\ EntriesHold(x.scope, x.entries)
        BY <1>1, <1>2 DEF ScanInv, ManifestsHold, RescanHolds, WalkHolds
    <2>2. OnePerPath(manifests[i].entries) /\ OnePerPath(x.entries)
        BY <2>1 DEF EntriesHold, OnePerPath
    <2>3. S!Diff(S!EntriesOf(x.previous), x.entries)
            = S!Diff(S!EntriesOf(x.previous), manifests[i].entries)
        BY <1>2, <2>2, SameDifference DEF S!SameManifest
    <2>4. i # 0
        <3>1. manifests \in Seq(ManifestRows)
            BY DEF ScanInv, ManifestsHold
        <3> QED BY <1>2, <3>1
    <2>5. manifests[i].entries = S!EntriesOf(i)
        BY <2>4 DEF S!EntriesOf
    <2>6. /\ x.previous \in 0..Len(manifests)
          /\ x.diff = S!Diff(S!EntriesOf(x.previous), S!EntriesOf(i))
        BY <1>1, <2>3, <2>5 DEF RescanHolds, HistoryHolds
    <2>7. (S!EntriesOf(x.previous))' = S!EntriesOf(x.previous)
          /\ (S!EntriesOf(i))' = S!EntriesOf(i)
        BY <1>3 DEF S!EntriesOf
    <2>8. answer'.manifest = i /\ answer'.previous = x.previous /\ answer'.diff = x.diff
        BY <1>3
    <2> QED BY <1>2, <1>3, <2>6, <2>7, <2>8 DEF S!AnswersAreDerivable
<1> QED BY <1>5, <1>6, <1>7, <1>8 DEF ScanInv

(* The user's edits: nothing that is open is another file afterwards, and its version
   grows. *)
TreeMoves ==
    /\ UNCHANGED <<scan, manifests, now, steady, known>>
    /\ answer' \in {answer, None}
    /\ \A n \in Node : nodes[n] # None =>
        /\ nodes'[n] # None
        /\ nodes'[n].version \in Nat /\ nodes[n].version <= nodes'[n].version

LEMMA EditStep ==
    ASSUME ScanInv, TreeMoves, S!TreeTypeOK'
    PROVE  ScanInv'
<1>1. ASSUME NEW x, RescanHolds(x) PROVE RescanHolds(x)'
    <2>1. OpeningHolds(x)'
        <3> SUFFICES ASSUME x.open # None PROVE OpeningHolds(x)'
            BY DEF OpeningHolds
        <3>1. x \in Rescan
            BY <1>1 DEF RescanHolds
        <3>2. x.open \in Opening /\ nodes[x.open.node].version \in Nat
            BY <1>1, <3>1, OpenedNode
        <3>3. /\ x.open.node \in Node /\ x.open.before \in Nat /\ x.open.first \in Nat
            BY <3>2 DEF Opening
        <3>4. /\ ~S!HardDenied(x.open.path) /\ S!Permits(x.scope, x.open.path)
              /\ x.open.node # Outside /\ nodes[x.open.node] # None
              /\ x.open.before <= nodes[x.open.node].version
              /\ x.open.first # 0 => /\ x.open.before <= x.open.first
                                     /\ x.open.first <= nodes[x.open.node].version
            BY <1>1 DEF RescanHolds, OpeningHolds
        <3>5. /\ nodes'[x.open.node] # None
              /\ nodes'[x.open.node].version \in Nat
              /\ nodes[x.open.node].version <= nodes'[x.open.node].version
            BY <3>3, <3>4 DEF TreeMoves
        <3>6. /\ x.open.before <= nodes'[x.open.node].version
              /\ x.open.first # 0 => x.open.first <= nodes'[x.open.node].version
            BY <3>2, <3>3, <3>4, <3>5
        <3> QED BY <3>4, <3>5, <3>6 DEF OpeningHolds
    <2>2. HistoryHolds(x)'
        BY <1>1 DEF TreeMoves, RescanHolds, HistoryHolds, S!EntriesOf
    <2> QED BY <1>1, <2>1, <2>2 DEF RescanHolds
<1>2. ManifestsHold'
    BY DEF ScanInv, ManifestsHold, TreeMoves
<1>3. ClockHolds'
    BY DEF ScanInv, ClockHolds, TreeMoves, S!EntriesOf
<1>4. scan' = scan
    BY DEF TreeMoves
<1>5. \A d \in Scanner : (scan[d] # None => RescanHolds(scan[d]))'
    BY <1>1, <1>4 DEF ScanInv
<1>6. S!AnswersAreDerivable'
    BY DEF ScanInv, S!AnswersAreDerivable, TreeMoves, S!EntriesOf
<1> QED BY <1>2, <1>3, <1>4, <1>5, <1>6 DEF ScanInv

LEMMA TreeStep ==
    ASSUME S!ScanAssumption, ScanInv, S!Create \/ S!Edit \/ S!Delete
    PROVE  ScanInv'
<1>1. /\ tree \in [Path -> (Node \ {Outside}) \cup {None}]
      /\ nodes \in [Node -> S!NodeState \cup {None}]
      /\ Outside \in Node /\ nodes[Outside] # None
      /\ \A p \in Path : tree[p] # None => nodes[tree[p]] # None
    BY DEF ScanInv, S!TreeTypeOK, S!ScanAssumption
<1>2. None \notin S!NodeState
    BY DEF S!ScanAssumption
<1>3. \A n \in Node : nodes[n] # None => nodes[n] \in S!NodeState /\ nodes[n].version \in Nat
    <2>1. \A state \in S!NodeState : state.version \in Nat
        BY DEF S!NodeState
    <2> QED BY <1>1, <2>1
<1>4. CASE S!Create
    <2>1. PICK p \in Path, n \in Node, kind \in {"file", "link"} :
            /\ nodes[n] = None
            /\ tree' = [tree EXCEPT ![p] = n]
            /\ nodes' = [nodes EXCEPT ![n] = [kind |-> kind, version |-> 1]]
            /\ answer' = None
            /\ UNCHANGED <<scan, manifests, now, steady, known>>
        BY <1>4 DEF S!Create
    <2>2. PICK state \in S!NodeState : state = [kind |-> kind, version |-> 1]
        <3>1. 1 \in Nat \ {0} /\ kind \in {"file", "dir", "link"}
            BY <2>1
        <3>2. [kind |-> kind, version |-> 1] \in S!NodeState
            BY <3>1, Zenon DEF S!NodeState
        <3> QED BY <3>2
    <2>3. n # Outside /\ state # None
        BY <1>1, <1>2, <2>1
    <2>4. \A m \in Node : nodes'[m] = IF m = n THEN state ELSE nodes[m]
        BY <1>1, <2>1, <2>2
    <2>5. \A q \in Path : tree'[q] = IF q = p THEN n ELSE tree[q]
        BY <1>1, <2>1
    <2>6. S!TreeTypeOK'
        <3>1. tree' \in [Path -> (Node \ {Outside}) \cup {None}]
            BY <1>1, <2>1, <2>3
        <3>2. nodes' \in [Node -> S!NodeState \cup {None}]
            BY <1>1, <2>1, <2>2
        <3>3. nodes'[Outside] # None
            BY <1>1, <2>3, <2>4
        <3>4. \A q \in Path : tree'[q] # None => nodes'[tree'[q]] # None
            BY <1>1, <2>3, <2>4, <2>5
        <3> QED BY <3>1, <3>2, <3>3, <3>4 DEF S!TreeTypeOK
    <2>7. TreeMoves
        BY <1>3, <2>1, <2>4 DEF TreeMoves
    <2> QED BY <2>6, <2>7, EditStep
<1>5. CASE S!Edit
    <2>1. PICK p \in Path :
            /\ tree[p] # None
            /\ nodes' = [nodes EXCEPT ![tree[p]].version = @ + 1]
            /\ answer' = None
            /\ UNCHANGED <<tree, scan, manifests, now, steady, known>>
        BY <1>5 DEF S!Edit
    <2>2. PICK n \in Node : n = tree[p] /\ nodes[n] # None
        BY <1>1, <2>1
    <2>3. PICK old \in S!NodeState : old = nodes[n]
        BY <1>3, <2>2
    <2>4. PICK state : state = [old EXCEPT !.version = old.version + 1]
        OBVIOUS
    <2>5. state \in S!NodeState /\ state.version = old.version + 1 /\ state # None
          /\ old.version \in Nat
        BY <1>2, <2>3, <2>4 DEF S!NodeState
    <2>6. nodes' = [nodes EXCEPT ![n] = state]
        BY <2>1, <2>2, <2>3, <2>4
    <2>7. \A m \in Node : nodes'[m] = IF m = n THEN state ELSE nodes[m]
        BY <1>1, <2>6
    <2>8. S!TreeTypeOK'
        BY <1>1, <2>1, <2>5, <2>6, <2>7 DEF S!TreeTypeOK
    <2>9. TreeMoves
        BY <1>3, <2>1, <2>3, <2>5, <2>7 DEF TreeMoves
    <2> QED BY <2>8, <2>9, EditStep
<1>6. CASE S!Delete
    <2>1. PICK p \in Path :
            /\ tree' = [tree EXCEPT ![p] = None]
            /\ answer' = None
            /\ UNCHANGED <<nodes, scan, manifests, now, steady, known>>
        BY <1>6 DEF S!Delete
    <2>2. S!TreeTypeOK'
        BY <1>1, <2>1 DEF S!TreeTypeOK
    <2>3. TreeMoves
        BY <1>3, <2>1 DEF TreeMoves
    <2> QED BY <2>2, <2>3, EditStep
<1> QED BY <1>4, <1>5, <1>6

LEMMA ScanStart ==
    ASSUME S!ScanAssumption, S!TreeTypeOK, S!ScanInit
    PROVE  ScanInv
<1>1. scan \in [Scanner -> Rescan \cup {None}] /\ \A c \in Scanner : scan[c] = None
    BY DEF S!ScanInit
<1>2. manifests = <<>> /\ Len(manifests) = 0 /\ DOMAIN manifests = {}
    BY DEF S!ScanInit
<1>3. ManifestsHold
    BY <1>2 DEF ManifestsHold
<1>4. S!Files(S!EntriesOf(Len(manifests))) = {}
    BY <1>2 DEF S!Files, S!EntriesOf
<1>5. ClockHolds
    BY <1>2, <1>4 DEF S!ScanInit, ClockHolds, S!ScanAssumption
<1>6. S!AnswersAreDerivable
    BY DEF S!ScanInit, S!AnswersAreDerivable
<1> QED BY <1>1, <1>3, <1>5, <1>6 DEF ScanInv

LEMMA ScansStep ==
    ASSUME S!ScanAssumption, ScanInv, [S!ScanNext]_S!scanVars
    PROVE  ScanInv'
<1>1. CASE UNCHANGED S!scanVars
    <2>1. UNCHANGED <<tree, nodes, scan, manifests, now, steady, known, answer>>
        BY <1>1 DEF S!scanVars
    <2>2. S!TreeTypeOK'
        BY <2>1 DEF ScanInv, S!TreeTypeOK
    <2>3. TreeMoves
        BY <2>1 DEF ScanInv, S!TreeTypeOK, S!NodeState, TreeMoves
    <2> QED BY <2>2, <2>3, EditStep
<1>2. CASE S!Create \/ S!Edit \/ S!Delete
    BY <1>2, TreeStep
<1>3. ASSUME NEW c \in Scanner,
             \/ S!Scan(c) \/ S!OpenChild(c) \/ S!ReadFirst(c) \/ S!ReadRest(c) \/ S!Walked(c)
             \/ S!ReadHistory(c) \/ S!CommitRescan(c) \/ S!ReplayRescan(c)
             \/ S!RefuseRescan(c)
      PROVE  ScanInv'
    <2>1. CASE S!RefuseRescan(c)
        BY <2>1, ThreadStep DEF S!RefuseRescan
    <2> QED BY <1>3, <2>1, ScanStep, OpenStep, FirstStep, RestStep, WalkedStep, HistoryStep,
               CommitStep, ReplayStep
<1> QED BY <1>1, <1>2, <1>3 DEF S!ScanNext

(* For any files, scopes, threads and repetitions: a scan lists what the scope permits, as
   it was; the differences that manifests were recorded with add up to the latest one
   while the clock never goes back; and every difference that is returned is the one from
   a recorded manifest, or from none, to the recorded one it is returned with. *)
THEOREM ScanSafety ==
    ASSUME S!ScanAssumption
    PROVE  S!ScanSpec => []ScansAreFaithful
<1>1. ScanInv => ScansAreFaithful
    <2> SUFFICES ASSUME ScanInv PROVE ScansAreFaithful
        OBVIOUS
    <2>1. \A i \in DOMAIN manifests :
            /\ manifests[i].scope \in Scope /\ manifests[i].entries \in SUBSET Entry
            /\ manifests[i].entries # {}
            /\ EntriesHold(manifests[i].scope, manifests[i].entries)
        <3>1. manifests \in Seq(ManifestRows)
            BY DEF ScanInv, ManifestsHold
        <3>2. \A i \in DOMAIN manifests : manifests[i] \in ManifestRows
            BY <3>1
        <3> QED BY <3>2 DEF ScanInv, ManifestsHold, ManifestRows
    <2>2. S!ScanTypeOK
        BY <2>1 DEF S!ScanTypeOK, S!ManifestRow, EntriesHold, Entry, ScanInv, ClockHolds
    <2>3. S!ReadsOnlyThePermitted
        BY <2>1 DEF S!ReadsOnlyThePermitted, EntriesHold, EntryHolds, S!HardDenied,
                    S!Permits, S!Within
    <2>4. S!EntriesAreWhole
        BY <2>1 DEF S!EntriesAreWhole, EntriesHold, EntryHolds
    <2>5. S!DiffsAddUp
        BY LatestIsThere DEF S!DiffsAddUp, ScanInv, ClockHolds
    <2>6. S!AnswersAreDerivable
        BY DEF ScanInv
    <2> QED BY <2>2, <2>3, <2>4, <2>5, <2>6 DEF ScansAreFaithful
<1>2. S!TreeTypeOK /\ S!ScanInit => ScanInv
    BY ScanStart
<1>3. ScanInv /\ [S!ScanNext]_S!scanVars => ScanInv'
    BY ScansStep
<1> QED BY <1>1, <1>2, <1>3, PTL DEF S!ScanSpec

-----------------------------------------------------------------------------
(* Contexts.  The sets of its instance are the sets of this module. *)
LEMMA SameSizes ==
    ASSUME NEW T
    PROVE  C!Cardinality(T) = Cardinality(T)
BY DEF C!Cardinality, Cardinality

LEMMA SameFinite ==
    ASSUME NEW T
    PROVE  C!IsFiniteSet(T) <=> IsFiniteSet(T)
BY DEF C!IsFiniteSet, IsFiniteSet

(* What comes before each member of a set, when they come one after another. *)
Orders(before) ==
    /\ IsFiniteSet(DOMAIN before)
    /\ \A x \in DOMAIN before : before[x] \subseteq DOMAIN before /\ x \notin before[x]
    /\ \A x, y \in DOMAIN before : x # y => x \in before[y] \/ y \in before[x]
    /\ \A x, y \in DOMAIN before : x \in before[y] => before[x] \subseteq before[y]

(* The later a member comes, the more there are before it. *)
LEMMA MoreBefore ==
    ASSUME NEW before, Orders(before), NEW x \in DOMAIN before
    PROVE  /\ Cardinality(before[x]) \in Nat
           /\ Cardinality(DOMAIN before) \in Nat
           /\ Cardinality(before[x]) < Cardinality(DOMAIN before)
           /\ \A y \in DOMAIN before :
                x \in before[y] => Cardinality(before[x]) < Cardinality(before[y])
<1>1. IsFiniteSet(DOMAIN before) /\ before[x] \in SUBSET DOMAIN before /\ x \notin before[x]
    BY DEF Orders
<1>2. /\ Cardinality(before[x]) \in Nat /\ Cardinality(DOMAIN before) \in Nat
      /\ Cardinality(before[x]) <= Cardinality(DOMAIN before)
      /\ Cardinality(before[x]) # Cardinality(DOMAIN before)
    BY <1>1, FS_Subset, FS_CardinalityType
<1>3. ASSUME NEW y \in DOMAIN before, x \in before[y]
      PROVE  Cardinality(before[x]) < Cardinality(before[y])
    <2>1. before[y] \in SUBSET DOMAIN before /\ before[x] \in SUBSET before[y]
        BY <1>3 DEF Orders
    <2>2. IsFiniteSet(before[y])
        BY <1>1, <2>1, FS_Subset
    <2>3. /\ Cardinality(before[x]) <= Cardinality(before[y])
          /\ Cardinality(before[x]) # Cardinality(before[y])
        BY <1>1, <1>3, <2>1, <2>2, FS_Subset
    <2>4. Cardinality(before[y]) \in Nat
        BY <2>2, FS_CardinalityType
    <2> QED BY <1>2, <2>3, <2>4
<1> QED BY <1>2, <1>3

(* No two have as many before them. *)
LEMMA AsManyBefore ==
    ASSUME NEW before, Orders(before), NEW x \in DOMAIN before, NEW y \in DOMAIN before,
           Cardinality(before[x]) = Cardinality(before[y])
    PROVE  x = y
<1>1. ASSUME x # y
      PROVE  FALSE
    <2>1. x \in before[y] \/ y \in before[x]
        BY <1>1 DEF Orders
    <2>2. Cardinality(before[x]) < Cardinality(before[y])
            \/ Cardinality(before[y]) < Cardinality(before[x])
        BY <2>1, MoreBefore
    <2>3. Cardinality(before[x]) \in Nat /\ Cardinality(before[y]) \in Nat
        BY MoreBefore
    <2> QED BY <2>2, <2>3
<1> QED BY <1>1

(* A list of the members of a set, each once, as they come. *)
InTurn(list, before) ==
    /\ list \in [1..Cardinality(DOMAIN before) -> DOMAIN before]
    /\ \A n \in DOMAIN list : Cardinality(before[list[n]]) = n - 1
    /\ \A x \in DOMAIN before : \E n \in DOMAIN list : list[n] = x
    /\ \A i, j \in DOMAIN list : i < j <=> list[i] \in before[list[j]]

LEMMA InOrderLists ==
    ASSUME NEW before, Orders(before)
    PROVE  InTurn(C!InOrder(before), before)
<1> DEFINE D == DOMAIN before
           N == Cardinality(D)
           list == C!InOrder(before)
           rank == [x \in D |-> Cardinality(before[x]) + 1]
<1>1. IsFiniteSet(D) /\ N \in Nat
    BY FS_CardinalityType DEF Orders
<1>2. \A x \in D : rank[x] \in 1..N
    <2> SUFFICES ASSUME NEW x \in D PROVE rank[x] \in 1..N
        OBVIOUS
    <2>1. Cardinality(before[x]) \in Nat /\ Cardinality(before[x]) < N
        BY MoreBefore
    <2> QED BY <1>1, <2>1
<1>3. \A x, y \in D : rank[x] = rank[y] => x = y
    <2> SUFFICES ASSUME NEW x \in D, NEW y \in D, rank[x] = rank[y] PROVE x = y
        OBVIOUS
    <2>1. Cardinality(before[x]) \in Nat /\ Cardinality(before[y]) \in Nat
        BY MoreBefore
    <2>2. Cardinality(before[x]) = Cardinality(before[y])
        BY <2>1
    <2> QED BY <2>2, AsManyBefore
<1>4. rank \in Injection(D, 1..N)
    BY <1>2, <1>3 DEF Injection, IsInjective
<1>5. IsFiniteSet(1..N) /\ Cardinality(1..N) = N
    BY <1>1, FS_Interval
<1>6. rank \in Surjection(D, 1..N)
    BY <1>4, <1>5, FS_Injection
<1>7. \A n \in 1..N : \E x \in D : rank[x] = n
    BY <1>6 DEF Surjection
<1>8. list = [n \in 1..N |-> CHOOSE x \in D : Cardinality(before[x]) = n - 1]
    BY SameSizes DEF C!InOrder
<1>9. ASSUME NEW n \in 1..N
      PROVE  list[n] \in D /\ Cardinality(before[list[n]]) = n - 1
    <2>1. PICK x \in D : rank[x] = n
        BY <1>7
    <2>2. Cardinality(before[x]) \in Nat
        BY MoreBefore
    <2>3. Cardinality(before[x]) = n - 1
        BY <2>1, <2>2
    <2> QED BY <1>8, <2>3
<1>10. list \in [1..N -> D]
    BY <1>8, <1>9
<1>11. ASSUME NEW x \in D
       PROVE  \E n \in 1..N : list[n] = x
    <2>1. PICK n \in 1..N : n = rank[x]
        BY <1>2
    <2>2. Cardinality(before[x]) \in Nat
        BY MoreBefore
    <2>3. Cardinality(before[list[n]]) = Cardinality(before[x]) /\ list[n] \in D
        BY <1>9, <2>1, <2>2
    <2>4. list[n] = x
        BY <2>3, AsManyBefore
    <2> QED BY <2>4
<1>12. ASSUME NEW i \in 1..N, NEW j \in 1..N
       PROVE  i < j <=> list[i] \in before[list[j]]
    <2>1. /\ list[i] \in D /\ Cardinality(before[list[i]]) = i - 1
          /\ list[j] \in D /\ Cardinality(before[list[j]]) = j - 1
        BY <1>9
    <2>2. CASE list[i] \in before[list[j]]
        <3>1. Cardinality(before[list[i]]) < Cardinality(before[list[j]])
            BY <2>1, <2>2, MoreBefore
        <3> QED BY <1>1, <2>1, <2>2, <3>1
    <2>3. CASE list[i] \notin before[list[j]] /\ list[i] # list[j]
        <3>1. list[j] \in before[list[i]]
            BY <2>1, <2>3 DEF Orders
        <3>2. Cardinality(before[list[j]]) < Cardinality(before[list[i]])
            BY <2>1, <3>1, MoreBefore
        <3> QED BY <1>1, <2>1, <2>3, <3>2
    <2>4. CASE list[i] = list[j]
        <3>1. i - 1 = j - 1
            BY <2>1, <2>4
        <3>2. list[i] \notin before[list[j]]
            BY <2>1, <2>4 DEF Orders
        <3> QED BY <1>1, <3>1, <3>2
    <2> QED BY <2>2, <2>3, <2>4
<1> QED BY <1>9, <1>10, <1>11, <1>12 DEF InTurn

(* There is one such list: what is listed as it comes is listed in order. *)
LEMMA OneOrder ==
    ASSUME NEW before, Orders(before), NEW M \in Nat, NEW f \in [1..M -> DOMAIN before],
           \A x \in DOMAIN before : \E n \in 1..M : f[n] = x,
           \A i, j \in 1..M : i < j => f[i] \in before[f[j]]
    PROVE  f = C!InOrder(before) /\ M = Cardinality(DOMAIN before)
<1> DEFINE D == DOMAIN before
           N == Cardinality(D)
           list == C!InOrder(before)
<1>1. \A i, j \in 1..M : f[i] = f[j] => i = j
    <2> SUFFICES ASSUME NEW i \in 1..M, NEW j \in 1..M, i # j PROVE f[i] # f[j]
        OBVIOUS
    <2>1. i < j \/ j < i
        OBVIOUS
    <2>2. f[i] \in before[f[j]] \/ f[j] \in before[f[i]]
        BY <2>1
    <2> QED BY <2>2 DEF Orders
<1>2. f \in Bijection(1..M, D)
    BY <1>1 DEF Bijection, Injection, Surjection, IsInjective
<1>3. N = M
    BY <1>2, FS_CountingElements DEF ExistsBijection
<1>4. ASSUME NEW n \in 1..M
      PROVE  Cardinality(before[f[n]]) = n - 1
    <2> DEFINE front == [i \in 1..(n - 1) |-> f[i]]
    <2>1. ASSUME NEW x \in before[f[n]]
          PROVE  \E i \in 1..(n - 1) : front[i] = x
        <3>1. x \in D /\ f[n] \in D
            BY DEF Orders
        <3>2. PICK i \in 1..M : f[i] = x
            BY <3>1
        <3>3. i # n
            BY <3>1, <3>2 DEF Orders
        <3>4. ~(n < i)
            <4>1. ASSUME n < i
                  PROVE  FALSE
                <5>1. f[n] \in before[f[i]]
                    BY <4>1
                <5>2. before[f[n]] \subseteq before[f[i]]
                    BY <3>1, <3>2, <5>1 DEF Orders
                <5> QED BY <3>1, <3>2, <5>2 DEF Orders
            <4> QED BY <4>1
        <3>5. i \in 1..(n - 1)
            BY <3>3, <3>4
        <3> QED BY <3>2, <3>5
    <2>2. \A i \in 1..(n - 1) : i \in 1..M /\ i < n
        OBVIOUS
    <2>3. \A i \in 1..(n - 1) : front[i] = f[i] /\ f[i] \in before[f[n]]
        BY <2>2
    <2>4. front \in [1..(n - 1) -> before[f[n]]]
        BY <2>3
    <2>5. \A i, j \in 1..(n - 1) : front[i] = front[j] => i = j
        BY <1>1, <2>2, <2>3
    <2>6. front \in Bijection(1..(n - 1), before[f[n]])
        BY <2>1, <2>4, <2>5 DEF Bijection, Injection, Surjection, IsInjective
    <2> HIDE DEF front
    <2>7. ExistsBijection(1..(n - 1), before[f[n]])
        BY <2>6 DEF ExistsBijection
    <2>8. n - 1 \in Nat
        OBVIOUS
    <2> QED BY <2>7, <2>8, FS_CountingElements
<1>5. InTurn(list, before)
    BY InOrderLists
<1>6. list \in [1..M -> D]
    BY <1>3, <1>5 DEF InTurn
<1>7. \A n \in 1..M : f[n] = list[n]
    <2> SUFFICES ASSUME NEW n \in 1..M PROVE f[n] = list[n]
        OBVIOUS
    <2>1. Cardinality(before[list[n]]) = n - 1
        BY <1>5, <1>6 DEF InTurn
    <2>2. list[n] \in D /\ f[n] \in D
        BY <1>6
    <2> QED BY <1>4, <2>1, <2>2, AsManyBefore
<1>8. f = list
    BY <1>6, <1>7
<1> QED BY <1>3, <1>8

(* Two sets whose members come alike are listed alike. *)
LEMMA AlikeInOrder ==
    ASSUME NEW one, Orders(one), NEW two, Orders(two),
           NEW t \in [DOMAIN one -> DOMAIN two],
           \A y \in DOMAIN two : \E x \in DOMAIN one : t[x] = y,
           \A x, y \in DOMAIN one : x \in one[y] => t[x] \in two[t[y]]
    PROVE  /\ Cardinality(DOMAIN two) = Cardinality(DOMAIN one)
           /\ DOMAIN C!InOrder(two) = DOMAIN C!InOrder(one)
           /\ \A n \in DOMAIN C!InOrder(one) : C!InOrder(two)[n] = t[C!InOrder(one)[n]]
<1> DEFINE list == C!InOrder(one)
           M == Cardinality(DOMAIN one)
           f == [n \in 1..M |-> t[list[n]]]
<1>1. InTurn(list, one)
    BY InOrderLists
<1>2. M \in Nat
    BY FS_CardinalityType DEF Orders
<1>3. list \in [1..M -> DOMAIN one] /\ DOMAIN list = 1..M
    BY <1>1 DEF InTurn
<1> HIDE DEF list, M
<1>4. f \in [1..M -> DOMAIN two] /\ \A n \in 1..M : f[n] = t[list[n]]
    BY <1>3
<1>5. \A y \in DOMAIN two : \E n \in 1..M : f[n] = y
    <2> SUFFICES ASSUME NEW y \in DOMAIN two PROVE \E n \in 1..M : f[n] = y
        OBVIOUS
    <2>1. PICK x \in DOMAIN one : t[x] = y
        OBVIOUS
    <2>2. PICK n \in 1..M : list[n] = x
        BY <1>1, <1>3 DEF InTurn
    <2> QED BY <1>4, <2>1, <2>2
<1>6. \A i, j \in 1..M : i < j => f[i] \in two[f[j]]
    BY <1>1, <1>3, <1>4 DEF InTurn
<1> HIDE DEF f
<1>7. f = C!InOrder(two) /\ M = Cardinality(DOMAIN two)
    BY <1>2, <1>4, <1>5, <1>6, OneOrder
<1>8. DOMAIN f = 1..M
    BY <1>4
<1> QED BY <1>3, <1>4, <1>7, <1>8 DEF list, M

(* A list whose entries number as many as its places has no entry twice. *)
LEMMA NoneTwice ==
    ASSUME NEW n \in Nat, NEW f, Cardinality({f[i] : i \in 1..n}) = n
    PROVE  \A i, j \in 1..n : i # j => f[i] # f[j]
<1> DEFINE T == {f[i] : i \in 1..n}
           g == [i \in 1..n |-> f[i]]
<1>1. IsFiniteSet(1..n) /\ Cardinality(1..n) = n
    BY FS_Interval
<1>2. g \in Surjection(1..n, T)
    BY DEF Surjection
<1>3. g \in Injection(1..n, T)
    BY <1>1, <1>2, FS_Surjection
<1>4. \A i, j \in 1..n : g[i] = g[j] => i = j
    BY <1>3 DEF Injection, IsInjective
<1> QED BY <1>4

(* A request that is within its boundary. *)
Sound(r) ==
    /\ r \in [candidates : Seq(Candidate), allowed : SUBSET Nat, explicit : SUBSET Nat,
              terms : SUBSET Nat, max : Nat, knowledge : Seq(Nat)]
    /\ C!WithinBoundary(r)

LEMMA EachOnce ==
    ASSUME NEW r, Sound(r)
    PROVE  /\ Len(r.candidates) \in Nat /\ DOMAIN r.candidates = 1..Len(r.candidates)
           /\ \A i \in DOMAIN r.candidates : r.candidates[i] \in Candidate
           /\ \A i, j \in DOMAIN r.candidates :
                r.candidates[i].id = r.candidates[j].id => i = j
           /\ Len(r.knowledge) \in Nat /\ DOMAIN r.knowledge = 1..Len(r.knowledge)
           /\ \A i \in DOMAIN r.knowledge : r.knowledge[i] \in Nat
           /\ \A i, j \in DOMAIN r.knowledge : r.knowledge[i] = r.knowledge[j] => i = j
           /\ r.max \in Nat
<1>1. r.candidates \in Seq(Candidate) /\ r.knowledge \in Seq(Nat) /\ r.max \in Nat
    BY DEF Sound
<1> DEFINE K == Len(r.candidates)
           L == Len(r.knowledge)
           ids == [i \in 1..K |-> r.candidates[i].id]
<1>2. /\ K \in Nat /\ DOMAIN r.candidates = 1..K
      /\ \A i \in 1..K : r.candidates[i] \in Candidate
    BY <1>1
<1>3. /\ L \in Nat /\ DOMAIN r.knowledge = 1..L /\ \A i \in 1..L : r.knowledge[i] \in Nat
    BY <1>1
<1>4. C!Ids(r.candidates) = {ids[i] : i \in 1..K}
    BY <1>2 DEF C!Ids
<1>5. C!Range(r.knowledge) = {r.knowledge[i] : i \in 1..L}
    BY <1>3 DEF C!Range
<1>6. Cardinality(C!Ids(r.candidates)) = K /\ Cardinality(C!Range(r.knowledge)) = L
    BY SameSizes DEF Sound, C!WithinBoundary
<1>7. \A i, j \in 1..K : i # j => ids[i] # ids[j]
    <2>1. Cardinality({ids[i] : i \in 1..K}) = K
        BY <1>4, <1>6
    <2> HIDE DEF ids
    <2> QED BY <1>2, <2>1, NoneTwice
<1>8. \A i, j \in 1..L : i # j => r.knowledge[i] # r.knowledge[j]
    BY <1>3, <1>5, <1>6, NoneTwice
<1> QED BY <1>1, <1>2, <1>3, <1>7, <1>8

(* How each candidate fares. *)
LEMMA JudgedOnce ==
    ASSUME C!ContextAssumption, NEW r, Sound(r), NEW i \in DOMAIN r.candidates
    PROVE  LET c == r.candidates[i]
               item == C!Judgements(r)[i]
           IN  /\ item \in C!AssetItem
               /\ item = [ref |-> C!Ref(c), reason |-> item.reason, matched |-> item.matched]
               /\ item.reason = "explicit_reference" <=>
                    c.class \in r.allowed /\ c.id \in r.explicit
               /\ item.reason = "relevance_term_match" <=>
                    c.class \in r.allowed /\ c.id \notin r.explicit /\ r.terms \cap c.terms # {}
               /\ item.reason = "relevance_term_match" => item.matched = r.terms \cap c.terms
               /\ item.reason # "relevance_term_match" => item.matched = {}
               /\ item.reason \notin C!SelectionReason => item.reason \in C!ExclusionReason
               /\ IsFiniteSet(item.matched)
<1> DEFINE c == r.candidates[i]
           item == C!Judgements(r)[i]
<1>1. c \in Candidate
    BY EachOnce
<1>2. item = C!Judged(r, c)
    BY DEF C!Judgements
<1>3. r.terms \cap c.terms \in SUBSET UNION {x.terms : x \in Candidate}
    BY <1>1
<1>4. IsFiniteSet(r.terms \cap c.terms) /\ IsFiniteSet({})
    <2>1. IsFiniteSet(c.terms)
        BY <1>1, SameFinite DEF C!ContextAssumption
    <2> QED BY <2>1, FS_Subset, FS_EmptySet
<1>5. \E reason \in C!SelectionReason \cup C!ExclusionReason,
         matched \in {{}, r.terms \cap c.terms} :
        /\ item = [ref |-> C!Ref(c), reason |-> reason, matched |-> matched]
        /\ reason = "explicit_reference" <=> c.class \in r.allowed /\ c.id \in r.explicit
        /\ reason = "relevance_term_match" <=>
             c.class \in r.allowed /\ c.id \notin r.explicit /\ r.terms \cap c.terms # {}
        /\ reason = "relevance_term_match" => matched = r.terms \cap c.terms
        /\ reason # "relevance_term_match" => matched = {}
    <2> HIDE DEF c
    <2>1. CASE c.class \notin r.allowed
        <3>1. item = [ref |-> C!Ref(c), reason |-> "asset_class_not_allowed", matched |-> {}]
            BY <1>2, <2>1 DEF C!Judged, C!Item
        <3> QED BY <2>1, <3>1 DEF C!ExclusionReason
    <2>2. CASE c.class \in r.allowed /\ c.id \in r.explicit
        <3>1. item = [ref |-> C!Ref(c), reason |-> "explicit_reference", matched |-> {}]
            BY <1>2, <2>2 DEF C!Judged, C!Item
        <3> QED BY <2>2, <3>1 DEF C!SelectionReason
    <2>3. CASE c.class \in r.allowed /\ c.id \notin r.explicit /\ r.terms \cap c.terms = {}
        <3>1. item = [ref |-> C!Ref(c), reason |-> "no_relevance_match", matched |-> {}]
            BY <1>2, <2>3 DEF C!Judged, C!Item
        <3> /\ "no_relevance_match" \in C!SelectionReason \cup C!ExclusionReason
            /\ {} \in {{}, r.terms \cap c.terms}
            BY DEF C!ExclusionReason
        <3> WITNESS "no_relevance_match" \in C!SelectionReason \cup C!ExclusionReason,
                    {} \in {{}, r.terms \cap c.terms}
        <3> HIDE DEF item
        <3> QED BY <2>3, <3>1
    <2>4. CASE c.class \in r.allowed /\ c.id \notin r.explicit /\ r.terms \cap c.terms # {}
        <3>1. item = [ref |-> C!Ref(c), reason |-> "relevance_term_match",
                      matched |-> r.terms \cap c.terms]
            BY <1>2, <2>4 DEF C!Judged, C!Item
        <3> QED BY <2>4, <3>1 DEF C!SelectionReason
    <2> QED BY <2>1, <2>2, <2>3, <2>4
<1> HIDE DEF c, item
<1>6. PICK reason \in C!SelectionReason \cup C!ExclusionReason,
           matched \in {{}, r.terms \cap c.terms} :
        /\ item = [ref |-> C!Ref(c), reason |-> reason, matched |-> matched]
        /\ reason = "explicit_reference" <=> c.class \in r.allowed /\ c.id \in r.explicit
        /\ reason = "relevance_term_match" <=>
             c.class \in r.allowed /\ c.id \notin r.explicit /\ r.terms \cap c.terms # {}
        /\ reason = "relevance_term_match" => matched = r.terms \cap c.terms
        /\ reason # "relevance_term_match" => matched = {}
    BY <1>5
<1>7. item.reason = reason /\ item.matched = matched
    BY <1>6
<1>8. C!Ref(c) \in {C!Ref(x) : x \in Candidate}
    BY <1>1
<1>9. item \in C!AssetItem
    BY <1>3, <1>6, <1>8 DEF C!AssetItem
<1>10. IsFiniteSet(item.matched)
    BY <1>4, <1>6, <1>7
<1>11. item.reason \notin C!SelectionReason => item.reason \in C!ExclusionReason
    BY <1>6, <1>7
<1> QED BY <1>6, <1>7, <1>9, <1>10, <1>11 DEF c, item

(* What sorting compares. *)
Comparable(item) ==
    /\ item.ref.class \in Nat /\ item.ref.id \in Nat
    /\ Cardinality(item.matched) \in Nat

LEMMA RefsInOrder ==
    /\ \A p, q : Comparable(p) /\ Comparable(q) =>
        /\ ~(C!RefBefore(p.ref, q.ref) /\ C!RefBefore(q.ref, p.ref))
        /\ p.ref.id # q.ref.id => C!RefBefore(p.ref, q.ref) \/ C!RefBefore(q.ref, p.ref)
    /\ \A p, q, s : Comparable(p) /\ Comparable(q) /\ Comparable(s) =>
        (C!RefBefore(p.ref, q.ref) /\ C!RefBefore(q.ref, s.ref) => C!RefBefore(p.ref, s.ref))
<1> QED BY DEF Comparable, C!RefBefore

LEMMA ItemsInOrder ==
    /\ \A p, q : Comparable(p) /\ Comparable(q) =>
        /\ ~(C!Before(p, q) /\ C!Before(q, p))
        /\ p.ref.id # q.ref.id => C!Before(p, q) \/ C!Before(q, p)
    /\ \A p, q, s : Comparable(p) /\ Comparable(q) /\ Comparable(s) =>
        (C!Before(p, q) /\ C!Before(q, s) => C!Before(p, s))
<1> DEFINE Named(p) == IF p.reason = "explicit_reference" THEN 1 ELSE 0
           Matched(p) == Cardinality(p.matched)
<1>1. \A p, q : C!Before(p, q) <=>
        \/ Named(p) > Named(q)
        \/ Named(p) = Named(q) /\ Matched(p) > Matched(q)
        \/ Named(p) = Named(q) /\ Matched(p) = Matched(q) /\ C!RefBefore(p.ref, q.ref)
    BY SameSizes DEF C!Before, C!Score
<1>2. \A p : Comparable(p) => Matched(p) \in Nat
    BY DEF Comparable
<1>3. \A p : Named(p) \in Nat
    OBVIOUS
<1> HIDE DEF Named, Matched
<1>4. \A p, q : Comparable(p) /\ Comparable(q) =>
        /\ ~(C!Before(p, q) /\ C!Before(q, p))
        /\ p.ref.id # q.ref.id => C!Before(p, q) \/ C!Before(q, p)
    BY <1>1, <1>2, <1>3, RefsInOrder
<1>5. \A p, q, s : Comparable(p) /\ Comparable(q) /\ Comparable(s) =>
        (C!Before(p, q) /\ C!Before(q, s) => C!Before(p, s))
    BY <1>1, <1>2, <1>3, RefsInOrder
<1> QED BY <1>4, <1>5

LEMMA Compared ==
    ASSUME C!ContextAssumption, NEW r, Sound(r), NEW i \in DOMAIN r.candidates
    PROVE  /\ Comparable(C!Judgements(r)[i])
           /\ C!Judgements(r)[i].ref = C!Ref(r.candidates[i])
           /\ C!Judgements(r)[i].ref.id = r.candidates[i].id
<1> DEFINE c == r.candidates[i]
           item == C!Judgements(r)[i]
<1>1. c \in Candidate
    BY EachOnce
<1>2. c.id \in Nat /\ c.class \in Nat
    BY <1>1 DEF C!ContextAssumption
<1>3. item.ref = C!Ref(c) /\ IsFiniteSet(item.matched)
    <2>1. /\ item = [ref |-> C!Ref(c), reason |-> item.reason, matched |-> item.matched]
          /\ IsFiniteSet(item.matched)
        BY JudgedOnce
    <2> HIDE DEF item, c
    <2> QED BY <2>1
<1>4. item.ref.id = c.id /\ item.ref.class = c.class
    BY <1>3 DEF C!Ref
<1>5. Cardinality(item.matched) \in Nat
    BY <1>3, FS_CardinalityType
<1> QED BY <1>2, <1>3, <1>4, <1>5 DEF Comparable

(* The ranked, the rest and the knowledge are sorted by orders in which no two are
   equal: what they were listed in makes no difference. *)
LEMMA RankedOrder ==
    ASSUME C!ContextAssumption, NEW r, Sound(r)
    PROVE  LET judged == C!Judgements(r)
               before == C!RankedBefore(judged)
           IN  /\ Orders(before)
               /\ DOMAIN before = C!Ranking(judged)
               /\ C!Ranking(judged) \subseteq DOMAIN r.candidates
               /\ \A i, j \in C!Ranking(judged) :
                    i \in before[j] <=> C!Before(judged[i], judged[j])
<1> DEFINE judged == C!Judgements(r)
           before == C!RankedBefore(judged)
           D == C!Ranking(judged)
<1>1. DOMAIN judged = DOMAIN r.candidates
    BY DEF C!Judgements
<1>2. D \subseteq DOMAIN r.candidates
    BY <1>1 DEF C!Ranking
<1>3. \A i \in D : Comparable(judged[i]) /\ judged[i].ref.id = r.candidates[i].id
    BY <1>2, Compared
<1>4. \A i, j \in D : i # j => judged[i].ref.id # judged[j].ref.id
    BY <1>2, <1>3, EachOnce
<1> HIDE DEF judged
<1>5. DOMAIN before = D
    BY DEF C!RankedBefore
<1>6. \A j \in D : before[j] =
        {i \in D : C!Before(judged[i], judged[j]) \/ (~C!Before(judged[j], judged[i]) /\ i < j)}
    BY DEF C!RankedBefore
<1> HIDE DEF before, D
<1>7. \A i \in D : ~C!Before(judged[i], judged[i])
    BY <1>3, ItemsInOrder
<1>8. \A i, j \in D : i # j => C!Before(judged[i], judged[j]) \/ C!Before(judged[j], judged[i])
    BY <1>3, <1>4, ItemsInOrder
<1>9. \A i \in D : ~(i < i)
    BY <1>2, EachOnce
<1>10. \A i, j \in D : i \in before[j] <=> C!Before(judged[i], judged[j])
    BY <1>3, <1>6, <1>7, <1>8, <1>9, ItemsInOrder
<1>11. \A j \in D : before[j] \subseteq D
    BY <1>6
<1>12. IsFiniteSet(D)
    <2>1. DOMAIN r.candidates = 1..Len(r.candidates) /\ Len(r.candidates) \in Nat
        BY EachOnce
    <2>2. IsFiniteSet(DOMAIN r.candidates)
        BY <2>1, FS_Interval
    <2> QED BY <1>2, <2>2, FS_Subset
<1>13. \A i, j \in D : i \in before[j] => before[i] \subseteq before[j]
    BY <1>3, <1>10, <1>11, ItemsInOrder
<1> QED BY <1>2, <1>5, <1>7, <1>8, <1>10, <1>11, <1>12, <1>13 DEF Orders, judged, before, D

LEMMA LeftOrder ==
    ASSUME C!ContextAssumption, NEW r, Sound(r), NEW left \in SUBSET DOMAIN r.candidates
    PROVE  LET judged == C!Judgements(r)
               before == C!LeftBefore(judged, left)
           IN  /\ Orders(before)
               /\ DOMAIN before = left
               /\ \A i, j \in left :
                    i \in before[j] <=> C!RefBefore(judged[i].ref, judged[j].ref)
<1> DEFINE judged == C!Judgements(r)
           before == C!LeftBefore(judged, left)
<1>1. \A i \in left : Comparable(judged[i]) /\ judged[i].ref.id = r.candidates[i].id
    BY Compared
<1>2. \A i, j \in left : i # j => judged[i].ref.id # judged[j].ref.id
    BY <1>1, EachOnce
<1> HIDE DEF judged
<1>3. DOMAIN before = left
    BY DEF C!LeftBefore
<1>4. \A j \in left : before[j] = {i \in left : C!RefBefore(judged[i].ref, judged[j].ref)}
    BY DEF C!LeftBefore
<1> HIDE DEF before
<1>5. \A i \in left : ~C!RefBefore(judged[i].ref, judged[i].ref)
    BY <1>1, RefsInOrder
<1>6. \A i, j \in left : i # j =>
        C!RefBefore(judged[i].ref, judged[j].ref) \/ C!RefBefore(judged[j].ref, judged[i].ref)
    BY <1>1, <1>2, RefsInOrder
<1>7. \A i, j \in left : i \in before[j] <=> C!RefBefore(judged[i].ref, judged[j].ref)
    BY <1>4
<1>8. \A j \in left : before[j] \subseteq left
    BY <1>4
<1>9. IsFiniteSet(left)
    BY EachOnce, FS_Interval, FS_Subset
<1>10. \A i, j \in left : i \in before[j] => before[i] \subseteq before[j]
    BY <1>1, <1>7, <1>8, RefsInOrder
<1> QED BY <1>3, <1>5, <1>6, <1>7, <1>8, <1>9, <1>10 DEF Orders, judged, before

(* The places of numbers that are all different, in the order of the numbers. *)
Lower(numbers) == [j \in DOMAIN numbers |-> {i \in DOMAIN numbers : numbers[i] < numbers[j]}]

LEMMA LowerOrder ==
    ASSUME NEW n \in Nat, NEW numbers \in [1..n -> Nat],
           \A i, j \in 1..n : numbers[i] = numbers[j] => i = j
    PROVE  Orders(Lower(numbers)) /\ DOMAIN Lower(numbers) = 1..n
<1> DEFINE before == Lower(numbers)
<1>1. DOMAIN before = 1..n
    BY DEF Lower
<1>2. \A j \in 1..n : before[j] = {i \in 1..n : numbers[i] < numbers[j]}
    BY DEF Lower
<1> HIDE DEF before
<1>3. \A i, j \in 1..n : numbers[i] \in Nat /\ numbers[j] \in Nat
    OBVIOUS
<1>4. \A i, j \in 1..n : i # j => i \in before[j] \/ j \in before[i]
    BY <1>2, <1>3
<1>5. \A i, j \in 1..n : i \in before[j] => before[i] \subseteq before[j]
    BY <1>2, <1>3
<1>6. \A i \in 1..n : before[i] \subseteq 1..n /\ i \notin before[i]
    BY <1>2, <1>3
<1>7. IsFiniteSet(1..n)
    BY FS_Interval
<1> QED BY <1>1, <1>4, <1>5, <1>6, <1>7 DEF Orders, before

-----------------------------------------------------------------------------
(* What is chosen of a request's candidates, and what is left, by their places. *)
Chosen(r) == C!Kept(C!Judgements(r), r.max)
Rest(r) == DOMAIN r.candidates \ C!Range(Chosen(r))
Refused(r) == C!InOrder(C!LeftBefore(C!Judgements(r), Rest(r)))

LEMMA ChosenFirst ==
    ASSUME C!ContextAssumption, NEW r, Sound(r)
    PROVE  LET judged == C!Judgements(r)
               ranked == C!InOrder(C!RankedBefore(judged))
               size == Cardinality(C!Ranking(judged))
               kept == IF r.max < size THEN r.max ELSE size
           IN  /\ size \in Nat /\ kept \in Nat
               /\ DOMAIN Chosen(r) = 1..kept
               /\ \A n \in 1..kept : n \in 1..size /\ Chosen(r)[n] = ranked[n]
               /\ \A n \in 1..kept : Chosen(r)[n] \in C!Ranking(judged)
               /\ \A i, j \in 1..kept : Chosen(r)[i] = Chosen(r)[j] => i = j
<1> DEFINE judged == C!Judgements(r)
           before == C!RankedBefore(judged)
           D == C!Ranking(judged)
           ranked == C!InOrder(before)
           size == Cardinality(D)
           kept == IF r.max < size THEN r.max ELSE size
<1>1. Orders(before) /\ DOMAIN before = D
    BY RankedOrder
<1>2. InTurn(ranked, before)
    BY <1>1, InOrderLists
<1>3. size \in Nat /\ r.max \in Nat
    BY <1>1, EachOnce, FS_CardinalityType DEF Orders
<1>4. ranked \in [1..size -> D]
    BY <1>1, <1>2 DEF InTurn
<1>5. Chosen(r) = SubSeq(ranked, 1, IF r.max < Len(ranked) THEN r.max ELSE Len(ranked))
    BY DEF Chosen, C!Kept
<1> HIDE DEF judged, before, D, ranked, size
<1>6. Len(ranked) = size /\ ranked \in Seq(D)
    BY <1>3, <1>4
<1>7. kept \in Nat /\ kept <= size
    BY <1>3
<1>8. Chosen(r) = SubSeq(ranked, 1, kept)
    BY <1>5, <1>6
<1> HIDE DEF kept
<1>9. DOMAIN Chosen(r) = 1..kept /\ \A n \in 1..kept : Chosen(r)[n] = ranked[n]
    BY <1>3, <1>4, <1>6, <1>7, <1>8
<1>10. \A n \in 1..kept : n \in 1..size
    BY <1>3, <1>7
<1>11. \A n \in 1..kept : Chosen(r)[n] \in D
    BY <1>4, <1>9, <1>10
<1>12. \A i, j \in 1..kept : Chosen(r)[i] = Chosen(r)[j] => i = j
    <2> SUFFICES ASSUME NEW i \in 1..kept, NEW j \in 1..kept, i # j
                 PROVE  Chosen(r)[i] # Chosen(r)[j]
        OBVIOUS
    <2>1. ranked[i] \in before[ranked[j]] \/ ranked[j] \in before[ranked[i]]
        <3>1. i < j \/ j < i
            BY <1>7
        <3>2. i \in DOMAIN ranked /\ j \in DOMAIN ranked
            BY <1>4, <1>10
        <3> QED BY <1>2, <3>1, <3>2 DEF InTurn
    <2>2. ranked[i] \in D /\ ranked[j] \in D
        BY <1>4, <1>10
    <2> QED BY <1>1, <1>9, <2>1, <2>2 DEF Orders
<1> QED BY <1>3, <1>7, <1>9, <1>10, <1>11, <1>12 DEF judged, before, D, ranked, size, kept

LEMMA RefusedInTurn ==
    ASSUME C!ContextAssumption, NEW r, Sound(r)
    PROVE  /\ Orders(C!LeftBefore(C!Judgements(r), Rest(r)))
           /\ InTurn(Refused(r), C!LeftBefore(C!Judgements(r), Rest(r)))
           /\ DOMAIN Refused(r) = 1..Cardinality(Rest(r))
           /\ Cardinality(Rest(r)) \in Nat
           /\ \A n \in DOMAIN Refused(r) : Refused(r)[n] \in Rest(r)
<1>1. Rest(r) \in SUBSET DOMAIN r.candidates
    BY DEF Rest
<1>2. /\ Orders(C!LeftBefore(C!Judgements(r), Rest(r)))
      /\ DOMAIN C!LeftBefore(C!Judgements(r), Rest(r)) = Rest(r)
    BY <1>1, LeftOrder
<1>3. InTurn(Refused(r), C!LeftBefore(C!Judgements(r), Rest(r)))
    BY <1>2, InOrderLists DEF Refused
<1>4. Cardinality(Rest(r)) \in Nat
    BY <1>2, FS_CardinalityType DEF Orders
<1> QED BY <1>2, <1>3, <1>4 DEF InTurn

(* The candidate of an id. *)
LEMMA TheCandidate ==
    ASSUME NEW r, Sound(r), NEW i \in DOMAIN r.candidates, NEW ref,
           ref.id = r.candidates[i].id
    PROVE  C!CandidateOf(r, ref) = r.candidates[i]
BY EachOnce DEF C!CandidateOf

(* What a request compiles to. *)
LEMMA Compilation ==
    ASSUME C!ContextAssumption, NEW r, Sound(r)
    PROVE  LET judged == C!Judgements(r)
               c == C!Compile(r)
           IN  /\ c = [assets |-> c.assets, knowledge |-> c.knowledge, manifest |-> c.manifest]
               /\ c.manifest = [included |-> c.manifest.included,
                                excluded |-> c.manifest.excluded,
                                knowledge |-> c.knowledge,
                                hash |-> <<c.assets, c.knowledge>>]
               /\ c.assets = [n \in DOMAIN Chosen(r) |-> r.candidates[Chosen(r)[n]]]
               /\ c.knowledge = C!Ascending(r.knowledge)
               /\ c.manifest.included = [n \in DOMAIN Chosen(r) |-> judged[Chosen(r)[n]]]
               /\ c.manifest.excluded =
                    [n \in DOMAIN Refused(r) |-> C!LeftOut(judged[Refused(r)[n]])]
<1> DEFINE judged == C!Judgements(r)
           c == C!Compile(r)
           included == [n \in DOMAIN Chosen(r) |-> judged[Chosen(r)[n]]]
           excluded == [n \in DOMAIN Refused(r) |-> C!LeftOut(judged[Refused(r)[n]])]
           assets == [n \in DOMAIN included |-> C!CandidateOf(r, included[n].ref)]
<1>1. DOMAIN judged = DOMAIN r.candidates
    BY DEF C!Judgements
<1>2. C!Select(r) = [included |-> included, excluded |-> excluded]
    BY <1>1 DEF C!Select, Chosen, Rest, Refused
<1>3. C!Select(r).included = included /\ C!Select(r).excluded = excluded
    BY <1>2
<1>4. c = [assets |-> assets, knowledge |-> C!Ascending(r.knowledge),
           manifest |-> [included |-> included, excluded |-> excluded,
                         knowledge |-> C!Ascending(r.knowledge),
                         hash |-> <<assets, C!Ascending(r.knowledge)>>]]
    BY <1>3 DEF C!Compile, C!InputHash
<1>5. assets = [n \in DOMAIN Chosen(r) |-> r.candidates[Chosen(r)[n]]]
    <2>1. ASSUME NEW n \in DOMAIN Chosen(r)
          PROVE  C!CandidateOf(r, included[n].ref) = r.candidates[Chosen(r)[n]]
        <3>1. Chosen(r)[n] \in C!Ranking(judged)
            BY ChosenFirst
        <3>2. Chosen(r)[n] \in DOMAIN r.candidates
            BY <3>1, RankedOrder
        <3>3. included[n].ref.id = r.candidates[Chosen(r)[n]].id
            BY <3>2, Compared
        <3> QED BY <3>2, <3>3, TheCandidate
    <2>2. DOMAIN included = DOMAIN Chosen(r)
        OBVIOUS
    <2> QED BY <2>1, <2>2
<1> HIDE DEF assets, included, excluded, c
<1>6. /\ c.assets = assets /\ c.knowledge = C!Ascending(r.knowledge)
      /\ c.manifest = [included |-> included, excluded |-> excluded,
                       knowledge |-> C!Ascending(r.knowledge),
                       hash |-> <<assets, C!Ascending(r.knowledge)>>]
    BY <1>4
<1>7. c.manifest.included = included /\ c.manifest.excluded = excluded
    BY <1>6
<1>8. /\ c = [assets |-> c.assets, knowledge |-> c.knowledge, manifest |-> c.manifest]
      /\ c.manifest = [included |-> c.manifest.included,
                       excluded |-> c.manifest.excluded,
                       knowledge |-> c.knowledge,
                       hash |-> <<c.assets, c.knowledge>>]
    BY <1>4, <1>6, <1>7
<1> QED BY <1>5, <1>6, <1>7, <1>8 DEF c, included, excluded

(* What the compiler makes has the types that the tables want. *)
LEMMA NumbersAscend ==
    ASSUME NEW r, Sound(r)
    PROVE  LET order == C!InOrder(Lower(r.knowledge))
           IN  /\ Orders(Lower(r.knowledge))
               /\ C!Ascending(r.knowledge) = [n \in DOMAIN order |-> r.knowledge[order[n]]]
               /\ order \in [1..Len(r.knowledge) -> 1..Len(r.knowledge)]
               /\ C!Ascending(r.knowledge) \in Seq(Nat)
<1> DEFINE K == Len(r.knowledge)
           order == C!InOrder(Lower(r.knowledge))
<1>1. K \in Nat /\ r.knowledge \in [1..K -> Nat]
    <2>1. r.knowledge \in Seq(Nat)
        BY DEF Sound
    <2> QED BY <2>1
<1>2. \A i, j \in 1..K : r.knowledge[i] = r.knowledge[j] => i = j
    BY EachOnce
<1>3. Orders(Lower(r.knowledge)) /\ DOMAIN Lower(r.knowledge) = 1..K
    BY <1>1, <1>2, LowerOrder
<1>4. Cardinality(1..K) = K
    BY <1>1, FS_Interval
<1>5. order \in [1..K -> 1..K]
    BY <1>3, <1>4, InOrderLists DEF InTurn
<1>6. C!Ascending(r.knowledge) = [n \in DOMAIN order |-> r.knowledge[order[n]]]
    BY DEF C!Ascending, Lower
<1> HIDE DEF order, K
<1>7. C!Ascending(r.knowledge) \in [1..K -> Nat]
    BY <1>1, <1>5, <1>6
<1>8. C!Ascending(r.knowledge) \in Seq(Nat)
    BY <1>1, <1>7
<1> QED BY <1>3, <1>5, <1>6, <1>8 DEF order, K

LEMMA CompiledTypes ==
    ASSUME C!ContextAssumption, NEW r, Sound(r)
    PROVE  LET c == C!Compile(r)
           IN  /\ c.assets \in Seq(Candidate)
               /\ c.knowledge \in Seq(Nat)
               /\ c.manifest \in C!ContextManifest
               /\ C!ParentOf(c.manifest) \in C!ParentRow
<1> DEFINE judged == C!Judgements(r)
           c == C!Compile(r)
           D == DOMAIN r.candidates
<1>1. \A i \in D : judged[i] \in C!AssetItem /\ r.candidates[i] \in Candidate
    BY JudgedOnce, EachOnce
<1>2. \A i \in D : C!LeftOut(judged[i]) \in C!AssetItem
    BY <1>1 DEF C!LeftOut, C!AssetItem, C!ExclusionReason
<1>3. \A n \in DOMAIN Chosen(r) : Chosen(r)[n] \in D
    <2> SUFFICES ASSUME NEW n \in DOMAIN Chosen(r) PROVE Chosen(r)[n] \in D
        OBVIOUS
    <2>1. Chosen(r)[n] \in C!Ranking(judged)
        BY ChosenFirst
    <2> QED BY <2>1, RankedOrder
<1>4. \A n \in DOMAIN Refused(r) : Refused(r)[n] \in D
    BY RefusedInTurn DEF Rest
<1>5. \E n \in Nat : DOMAIN Chosen(r) = 1..n
    BY ChosenFirst
<1>6. PICK kept \in Nat : DOMAIN Chosen(r) = 1..kept
    BY <1>5
<1>7. PICK left \in Nat : DOMAIN Refused(r) = 1..left
    BY RefusedInTurn
<1>8. /\ c.manifest = [included |-> c.manifest.included, excluded |-> c.manifest.excluded,
                       knowledge |-> c.knowledge, hash |-> <<c.assets, c.knowledge>>]
      /\ c.assets = [n \in DOMAIN Chosen(r) |-> r.candidates[Chosen(r)[n]]]
      /\ c.knowledge = C!Ascending(r.knowledge)
      /\ c.manifest.included = [n \in DOMAIN Chosen(r) |-> judged[Chosen(r)[n]]]
      /\ c.manifest.excluded = [n \in DOMAIN Refused(r) |-> C!LeftOut(judged[Refused(r)[n]])]
    BY Compilation
<1> HIDE DEF c, judged, D
<1>9. c.assets \in [1..kept -> Candidate]
    <2>1. \A n \in 1..kept : r.candidates[Chosen(r)[n]] \in Candidate
        BY <1>1, <1>3, <1>6
    <2>2. c.assets = [n \in 1..kept |-> r.candidates[Chosen(r)[n]]]
        BY <1>6, <1>8
    <2> QED BY <2>1, <2>2
<1>10. c.manifest.included \in [1..kept -> C!AssetItem]
    BY <1>1, <1>3, <1>6, <1>8
<1>11. c.manifest.excluded \in [1..left -> C!AssetItem]
    BY <1>2, <1>4, <1>7, <1>8
<1>12. /\ c.assets \in Seq(Candidate)
       /\ c.manifest.included \in Seq(C!AssetItem)
       /\ c.manifest.excluded \in Seq(C!AssetItem)
    BY <1>6, <1>7, <1>9, <1>10, <1>11
<1>13. c.knowledge \in Seq(Nat)
    BY <1>8, NumbersAscend
<1>14. <<c.assets, c.knowledge>> \in Seq(Candidate) \X Seq(Nat)
    BY <1>12, <1>13
<1> DEFINE in == c.manifest.included
           ex == c.manifest.excluded
           hash == <<c.assets, c.knowledge>>
<1> HIDE DEF in, ex, hash
<1>15. c.manifest = [included |-> in, excluded |-> ex, knowledge |-> c.knowledge, hash |-> hash]
    BY <1>8 DEF in, ex, hash
<1>16. /\ in \in Seq(C!AssetItem) /\ ex \in Seq(C!AssetItem)
       /\ hash \in Seq(Candidate) \X Seq(Nat)
    BY <1>12, <1>14 DEF in, ex, hash
<1>17. c.manifest \in C!ContextManifest
    BY <1>13, <1>15, <1>16 DEF C!ContextManifest
<1>18. C!ParentOf(c.manifest) \in C!ParentRow
    <2>1. C!ParentOf(c.manifest) = [included |-> Len(in), excluded |-> Len(ex),
                                    knowledge |-> Len(c.knowledge), hash |-> hash]
        BY <1>15 DEF C!ParentOf
    <2>2. Len(in) \in Nat /\ Len(ex) \in Nat /\ Len(c.knowledge) \in Nat
        BY <1>13, <1>16
    <2> HIDE DEF C!ParentOf
    <2> QED BY <1>16, <2>1, <2>2 DEF C!ParentRow
<1> QED BY <1>12, <1>13, <1>17, <1>18 DEF c

-----------------------------------------------------------------------------
(* What comes first is asked for by name if the other is, and matches no worse unless it
   is. *)
LEMMA FirstIsBetter ==
    ASSUME NEW p, NEW q, Comparable(p), Comparable(q), C!Before(p, q)
    PROVE  /\ q.reason = "explicit_reference" => p.reason = "explicit_reference"
           /\ \/ p.reason = "explicit_reference"
              \/ Cardinality(p.matched) >= Cardinality(q.matched)
<1> DEFINE P1 == IF p.reason = "explicit_reference" THEN 1 ELSE 0
           Q1 == IF q.reason = "explicit_reference" THEN 1 ELSE 0
<1>1. C!Score(p) = <<P1, Cardinality(p.matched)>> /\ C!Score(q) = <<Q1, Cardinality(q.matched)>>
    BY SameSizes DEF C!Score
<1>2. Cardinality(p.matched) \in Nat /\ Cardinality(q.matched) \in Nat
    BY DEF Comparable
<1>3. P1 > Q1 \/ (P1 = Q1 /\ Cardinality(p.matched) >= Cardinality(q.matched))
    BY <1>1, <1>2 DEF C!Before
<1> QED BY <1>2, <1>3

(* The limit of one request: which of its candidates get in. *)
LimitOf(r, assets) ==
    LET In == C!Ids(assets)
        Matches(c) == Cardinality(c.terms \cap r.terms)
        Eligible == {i \in DOMAIN r.candidates : r.candidates[i].class \in r.allowed}
    IN  /\ \A i \in DOMAIN r.candidates \ Eligible : r.candidates[i].id \notin In
        /\ \A i \in Eligible : r.candidates[i].id \in r.explicit => r.candidates[i].id \in In
        /\ \A i \in Eligible :
            (r.candidates[i].id \notin In /\ Matches(r.candidates[i]) > 0) =>
                /\ Cardinality(In) = r.max
                /\ \A c \in C!Range(assets) :
                    c.id \in r.explicit \/ Matches(c) >= Matches(r.candidates[i])

LEMMA LimitIsKept ==
    ASSUME C!ContextAssumption, NEW r, Sound(r)
    PROVE  LimitOf(r, C!Compile(r).assets)
<1> DEFINE judged == C!Judgements(r)
           before == C!RankedBefore(judged)
           D == C!Ranking(judged)
           ranked == C!InOrder(before)
           size == Cardinality(D)
           kept == IF r.max < size THEN r.max ELSE size
           assets == C!Compile(r).assets
           cand == r.candidates
<1>1. /\ Orders(before) /\ DOMAIN before = D /\ D \subseteq DOMAIN cand
      /\ \A i, j \in D : i \in before[j] <=> C!Before(judged[i], judged[j])
    BY RankedOrder
<1>2. /\ size \in Nat /\ kept \in Nat
      /\ DOMAIN Chosen(r) = 1..kept
      /\ \A n \in 1..kept : n \in 1..size /\ Chosen(r)[n] = ranked[n]
      /\ \A n \in 1..kept : Chosen(r)[n] \in D
      /\ \A i, j \in 1..kept : Chosen(r)[i] = Chosen(r)[j] => i = j
    BY ChosenFirst
<1>3. /\ ranked \in [1..size -> D]
      /\ \A n \in 1..size : Cardinality(before[ranked[n]]) = n - 1
      /\ \A x \in D : \E n \in 1..size : ranked[n] = x
      /\ \A i, j \in 1..size : i < j <=> ranked[i] \in before[ranked[j]]
    BY <1>1, InOrderLists DEF InTurn
<1>4. assets = [n \in 1..kept |-> cand[Chosen(r)[n]]]
    <2>1. assets = [n \in DOMAIN Chosen(r) |-> cand[Chosen(r)[n]]]
        BY Compilation
    <2> HIDE DEF assets, cand, kept
    <2> QED BY <1>2, <2>1
<1>5. \A i \in DOMAIN cand :
        /\ Comparable(judged[i])
        /\ judged[i].reason = "explicit_reference" <=>
                cand[i].class \in r.allowed /\ cand[i].id \in r.explicit
        /\ judged[i].reason = "relevance_term_match" <=>
                cand[i].class \in r.allowed /\ cand[i].id \notin r.explicit
                    /\ r.terms \cap cand[i].terms # {}
        /\ judged[i].reason = "relevance_term_match" =>
                judged[i].matched = r.terms \cap cand[i].terms
    BY JudgedOnce, Compared
<1>6. \A i \in DOMAIN cand : i \in D <=>
        judged[i].reason \in {"explicit_reference", "relevance_term_match"}
    BY DEF C!Ranking, C!SelectionReason, C!Judgements
<1>7. \A i, j \in DOMAIN cand : cand[i].id = cand[j].id => i = j
    BY EachOnce
<1>8. r.max \in Nat /\ IsFiniteSet(DOMAIN cand)
    <2>1. DOMAIN cand = 1..Len(cand) /\ Len(cand) \in Nat /\ r.max \in Nat
        BY EachOnce
    <2> QED BY <2>1, FS_Interval
<1> HIDE DEF judged, before, D, ranked, size, assets, cand
<1>9. C!Ids(assets) = {cand[Chosen(r)[n]].id : n \in 1..kept}
    BY <1>4 DEF C!Ids
<1> HIDE DEF kept
<1>10. \A i \in DOMAIN cand : cand[i].id \in C!Ids(assets) <=> \E n \in 1..kept : Chosen(r)[n] = i
    BY <1>1, <1>2, <1>7, <1>9
<1>11. ASSUME NEW i \in DOMAIN cand, cand[i].class \notin r.allowed
       PROVE  cand[i].id \notin C!Ids(assets)
    BY <1>2, <1>5, <1>6, <1>10, <1>11
<1>12. ASSUME NEW i \in DOMAIN cand, cand[i].class \in r.allowed, cand[i].id \in r.explicit
       PROVE  cand[i].id \in C!Ids(assets)
    <2>1. i \in D /\ judged[i].reason = "explicit_reference"
        BY <1>5, <1>6, <1>12
    <2>2. PICK n \in 1..size : ranked[n] = i
        BY <1>3, <2>1
    <2>3. C!Explicit(r) =
            {x \in DOMAIN cand : cand[x].id \in r.explicit /\ cand[x].class \in r.allowed}
        BY DEF C!Explicit, cand
    <2>4. ASSUME NEW x \in before[i]
          PROVE  x \in C!Explicit(r) \ {i}
        <3>1. x \in D /\ x # i /\ x \in DOMAIN cand
            BY <1>1, <2>1 DEF Orders
        <3>2. C!Before(judged[x], judged[i])
            BY <1>1, <2>1, <3>1
        <3>3. judged[x].reason = "explicit_reference"
            BY <1>5, <2>1, <3>1, <3>2, FirstIsBetter
        <3> QED BY <1>5, <2>3, <3>1, <3>3
    <2>5. IsFiniteSet(C!Explicit(r)) /\ i \in C!Explicit(r)
        BY <1>8, <1>12, <2>3, FS_Subset
    <2>6. /\ IsFiniteSet(C!Explicit(r) \ {i})
          /\ Cardinality(C!Explicit(r) \ {i}) = Cardinality(C!Explicit(r)) - 1
        BY <2>5, FS_RemoveElement
    <2>7. before[i] \in SUBSET (C!Explicit(r) \ {i})
        BY <2>4
    <2>8. Cardinality(before[i]) <= Cardinality(C!Explicit(r)) - 1
        BY <2>6, <2>7, FS_Subset
    <2>9. Cardinality(C!Explicit(r)) <= r.max /\ Cardinality(C!Explicit(r)) \in Nat
        BY <2>5, SameSizes, FS_CardinalityType DEF Sound, C!WithinBoundary
    <2>10. Cardinality(before[i]) = n - 1
        BY <1>3, <2>2
    <2>11. n <= r.max
        BY <1>8, <2>8, <2>9, <2>10
    <2>12. n \in 1..kept
        BY <1>2, <1>8, <2>11 DEF kept
    <2> QED BY <1>2, <1>10, <2>2, <2>12
<1>13. ASSUME NEW i \in DOMAIN cand, cand[i].class \in r.allowed, cand[i].id \notin C!Ids(assets),
              Cardinality(cand[i].terms \cap r.terms) > 0
       PROVE  /\ Cardinality(C!Ids(assets)) = r.max
              /\ \A c \in C!Range(assets) :
                    \/ c.id \in r.explicit
                    \/ Cardinality(c.terms \cap r.terms)
                            >= Cardinality(cand[i].terms \cap r.terms)
    <2>1. cand[i].terms \cap r.terms = r.terms \cap cand[i].terms
        OBVIOUS
    <2>2. r.terms \cap cand[i].terms # {}
        BY <1>13, <2>1, FS_EmptySet
    <2>3. cand[i].id \notin r.explicit
        BY <1>12, <1>13
    <2>4. /\ i \in D /\ judged[i].reason = "relevance_term_match"
          /\ judged[i].matched = cand[i].terms \cap r.terms
        BY <1>5, <1>6, <1>13, <2>1, <2>2, <2>3
    <2>5. PICK n \in 1..size : ranked[n] = i
        BY <1>3, <2>4
    <2>6. n \notin 1..kept
        BY <1>2, <1>10, <1>13, <2>5
    <2>7. kept = r.max /\ kept < n
        BY <1>2, <1>8, <2>6 DEF kept
    <2>8. Cardinality(C!Ids(assets)) = kept
        <3> DEFINE names == [a \in 1..kept |-> cand[Chosen(r)[a]].id]
        <3>1. \A a, b \in 1..kept : names[a] = names[b] => a = b
            BY <1>1, <1>2, <1>7
        <3>2. names \in Bijection(1..kept, C!Ids(assets))
            BY <1>9, <3>1 DEF Bijection, Injection, Surjection, IsInjective
        <3> HIDE DEF names
        <3>3. ExistsBijection(1..kept, C!Ids(assets))
            BY <3>2 DEF ExistsBijection
        <3> QED BY <1>2, <3>3, FS_CountingElements
    <2>9. ASSUME NEW c \in C!Range(assets), c.id \notin r.explicit
          PROVE  Cardinality(c.terms \cap r.terms) >= Cardinality(cand[i].terms \cap r.terms)
        <3>1. PICK a \in 1..kept : c = cand[Chosen(r)[a]]
            BY <1>4, <2>9 DEF C!Range
        <3>2. PICK x : x = Chosen(r)[a]
            OBVIOUS
        <3>3. x \in D /\ x \in DOMAIN cand /\ c = cand[x] /\ x = ranked[a] /\ a \in 1..size
            BY <1>1, <1>2, <3>1, <3>2
        <3>4. a < n
            BY <1>2, <2>7
        <3>5. x \in before[i]
            BY <1>3, <2>5, <3>3, <3>4
        <3>6. C!Before(judged[x], judged[i])
            BY <1>1, <2>4, <3>3, <3>5
        <3>7. judged[x].reason = "relevance_term_match"
            BY <1>5, <1>6, <2>9, <3>3
        <3>8. judged[x].matched = r.terms \cap c.terms
            BY <1>5, <3>3, <3>7
        <3>9. r.terms \cap c.terms = c.terms \cap r.terms
            OBVIOUS
        <3>10. Comparable(judged[x]) /\ Comparable(judged[i])
            BY <1>5, <3>3
        <3>11. Cardinality(judged[x].matched) >= Cardinality(judged[i].matched)
            BY <3>6, <3>7, <3>10, FirstIsBetter
        <3> QED BY <2>4, <3>8, <3>9, <3>11
    <2> QED BY <2>7, <2>8, <2>9
<1> QED BY <1>11, <1>12, <1>13 DEF LimitOf, cand, assets

-----------------------------------------------------------------------------
(* A request that lists the same candidates otherwise: t says where each has gone. *)
Permuted(r, other, t) ==
    /\ other \in [candidates : Seq(Candidate), allowed : SUBSET Nat, explicit : SUBSET Nat,
                  terms : SUBSET Nat, max : Nat, knowledge : Seq(Nat)]
    /\ other.allowed = r.allowed /\ other.explicit = r.explicit /\ other.terms = r.terms
    /\ other.max = r.max /\ other.knowledge = r.knowledge
    /\ DOMAIN other.candidates = DOMAIN r.candidates
    /\ t \in [DOMAIN r.candidates -> DOMAIN r.candidates]
    /\ \A i, j \in DOMAIN r.candidates : t[i] = t[j] => i = j
    /\ \A j \in DOMAIN r.candidates : \E i \in DOMAIN r.candidates : t[i] = j
    /\ \A i \in DOMAIN r.candidates : other.candidates[t[i]] = r.candidates[i]

LEMMA PermutedIsSound ==
    ASSUME NEW r, Sound(r), NEW other, NEW t, Permuted(r, other, t)
    PROVE  Sound(other)
<1> DEFINE D == DOMAIN r.candidates
<1>1. /\ DOMAIN other.candidates = D /\ t \in [D -> D]
      /\ \A i, j \in D : t[i] = t[j] => i = j
      /\ \A j \in D : \E i \in D : t[i] = j
      /\ \A i \in D : other.candidates[t[i]] = r.candidates[i]
    BY DEF Permuted
<1>2. D = 1..Len(r.candidates) /\ Len(r.candidates) \in Nat
    BY EachOnce
<1>3. other.candidates \in Seq(Candidate)
    BY DEF Permuted
<1>4. Len(other.candidates) = Len(r.candidates)
    <2>1. Len(other.candidates) \in Nat /\ DOMAIN other.candidates = 1..Len(other.candidates)
        BY <1>3
    <2> QED BY <1>1, <1>2, <2>1
<1> HIDE DEF D
<1>5. C!Ids(other.candidates) = C!Ids(r.candidates)
    <2>1. \A i \in D : t[i] \in D
        BY <1>1
    <2>2. \A x : x \in C!Ids(r.candidates) <=> \E i \in D : x = r.candidates[i].id
        BY DEF C!Ids, D
    <2>3. \A x : x \in C!Ids(other.candidates) <=> \E i \in D : x = other.candidates[i].id
        BY <1>1 DEF C!Ids
    <2> QED BY <1>1, <2>1, <2>2, <2>3
<1>6. Cardinality(C!Explicit(other)) = Cardinality(C!Explicit(r))
    <2> DEFINE from == C!Explicit(r)
               to == C!Explicit(other)
               turned == [i \in from |-> t[i]]
    <2>1. from = {i \in D : r.candidates[i].id \in r.explicit
                                /\ r.candidates[i].class \in r.allowed}
        BY DEF C!Explicit, D
    <2>2. to = {i \in D : other.candidates[i].id \in r.explicit
                            /\ other.candidates[i].class \in r.allowed}
        BY <1>1 DEF C!Explicit, Permuted
    <2> HIDE DEF from, to
    <2>3. \A i \in from : i \in D /\ t[i] \in to
        BY <1>1, <2>1, <2>2
    <2>4. \A j \in to : \E i \in from : t[i] = j
        BY <1>1, <2>1, <2>2
    <2>5. turned \in Bijection(from, to)
        BY <1>1, <2>3, <2>4 DEF Bijection, Injection, Surjection, IsInjective
    <2> HIDE DEF turned
    <2>6. ExistsBijection(from, to)
        BY <2>5 DEF ExistsBijection
    <2>7. IsFiniteSet(from)
        <3>1. IsFiniteSet(D) /\ from \in SUBSET D
            BY <1>2, <2>1, FS_Interval
        <3> QED BY <3>1, FS_Subset
    <2>8. Cardinality(to) = Cardinality(from)
        BY <2>6, <2>7, FS_Bijection
    <2> QED BY <2>8 DEF from, to
<1>7. C!WithinBoundary(other)
    BY <1>4, <1>5, <1>6, SameSizes DEF Permuted, Sound, C!WithinBoundary
<1> QED BY <1>7 DEF Sound, Permuted

LEMMA PermutedJudgements ==
    ASSUME NEW r, NEW other, NEW t, Permuted(r, other, t), NEW i \in DOMAIN r.candidates
    PROVE  C!Judgements(other)[t[i]] = C!Judgements(r)[i]
<1>1. /\ t[i] \in DOMAIN other.candidates
      /\ other.candidates[t[i]] = r.candidates[i]
    BY DEF Permuted
<1>2. C!Judged(other, r.candidates[i]) = C!Judged(r, r.candidates[i])
    BY DEF C!Judged, Permuted
<1> QED BY <1>1, <1>2 DEF C!Judgements

LEMMA PermutedChosen ==
    ASSUME C!ContextAssumption, NEW r, Sound(r), NEW other, NEW t, Permuted(r, other, t)
    PROVE  /\ DOMAIN Chosen(other) = DOMAIN Chosen(r)
           /\ \A n \in DOMAIN Chosen(r) : Chosen(other)[n] = t[Chosen(r)[n]]
<1> DEFINE D == DOMAIN r.candidates
           one == C!RankedBefore(C!Judgements(r))
           two == C!RankedBefore(C!Judgements(other))
           j1 == C!Judgements(r)
           j2 == C!Judgements(other)
           R1 == C!Ranking(C!Judgements(r))
           R2 == C!Ranking(C!Judgements(other))
           turned == [i \in R1 |-> t[i]]
<1>1. Sound(other)
    BY PermutedIsSound
<1>2. /\ DOMAIN other.candidates = D /\ t \in [D -> D]
      /\ \A j \in D : \E i \in D : t[i] = j
    BY DEF Permuted
<1>3. \A i \in D : j2[t[i]] = j1[i]
    BY PermutedJudgements
<1>4. /\ Orders(one) /\ DOMAIN one = R1 /\ R1 \subseteq D
      /\ \A i, j \in R1 : i \in one[j] <=> C!Before(j1[i], j1[j])
    BY RankedOrder
<1>5. /\ Orders(two) /\ DOMAIN two = R2 /\ R2 \subseteq D
      /\ \A i, j \in R2 : i \in two[j] <=> C!Before(j2[i], j2[j])
    BY <1>1, <1>2, RankedOrder
<1>6. /\ R1 = {i \in D : j1[i].reason \in C!SelectionReason}
      /\ R2 = {i \in D : j2[i].reason \in C!SelectionReason}
    BY <1>2 DEF C!Ranking, C!Judgements
<1>7. LET k1 == IF r.max < Cardinality(R1) THEN r.max ELSE Cardinality(R1)
          k2 == IF r.max < Cardinality(R2) THEN r.max ELSE Cardinality(R2)
      IN  /\ DOMAIN Chosen(r) = 1..k1
          /\ \A n \in 1..k1 : n \in 1..Cardinality(R1) /\ Chosen(r)[n] = C!InOrder(one)[n]
          /\ DOMAIN Chosen(other) = 1..k2
          /\ \A n \in 1..k2 : Chosen(other)[n] = C!InOrder(two)[n]
    <2>1. other.max = r.max
        BY DEF Permuted
    <2> QED BY <1>1, <2>1, ChosenFirst
<1>8. DOMAIN C!InOrder(one) = 1..Cardinality(R1)
    BY <1>4, InOrderLists DEF InTurn
<1> HIDE DEF one, two, j1, j2, R1, R2, D
<1>9. \A i \in R1 : t[i] \in R2
    BY <1>2, <1>3, <1>4, <1>6
<1>10. turned \in [DOMAIN one -> DOMAIN two]
    BY <1>4, <1>5, <1>9
<1>11. \A j \in DOMAIN two : \E i \in DOMAIN one : turned[i] = j
    <2> SUFFICES ASSUME NEW j \in R2 PROVE \E i \in R1 : turned[i] = j
        BY <1>4, <1>5
    <2>1. PICK i \in D : t[i] = j
        BY <1>2, <1>5
    <2>2. i \in R1
        BY <1>3, <1>6, <2>1
    <2> QED BY <2>1, <2>2
<1>12. \A i, j \in DOMAIN one : i \in one[j] => turned[i] \in two[turned[j]]
    BY <1>3, <1>4, <1>5, <1>9
<1>13. \A n \in 1..Cardinality(R1) : C!InOrder(one)[n] \in R1
    BY <1>4, InOrderLists DEF InTurn
<1>14. \A i \in R1 : turned[i] = t[i]
    OBVIOUS
<1> HIDE DEF turned
<1>15. /\ Cardinality(R2) = Cardinality(R1)
       /\ \A n \in DOMAIN C!InOrder(one) : C!InOrder(two)[n] = turned[C!InOrder(one)[n]]
    BY <1>4, <1>5, <1>10, <1>11, <1>12, AlikeInOrder
<1> QED BY <1>7, <1>8, <1>13, <1>14, <1>15

LEMMA PermutedRest ==
    ASSUME C!ContextAssumption, NEW r, Sound(r), NEW other, NEW t, Permuted(r, other, t)
    PROVE  \A i \in DOMAIN r.candidates : i \in Rest(r) <=> t[i] \in Rest(other)
<1> DEFINE D == DOMAIN r.candidates
<1>1. /\ DOMAIN other.candidates = D /\ t \in [D -> D]
      /\ \A i, j \in D : t[i] = t[j] => i = j
    BY DEF Permuted
<1>2. /\ DOMAIN Chosen(other) = DOMAIN Chosen(r)
      /\ \A n \in DOMAIN Chosen(r) : Chosen(other)[n] = t[Chosen(r)[n]]
    BY PermutedChosen
<1>3. \A n \in DOMAIN Chosen(r) : Chosen(r)[n] \in D
    <2> SUFFICES ASSUME NEW n \in DOMAIN Chosen(r) PROVE Chosen(r)[n] \in D
        OBVIOUS
    <2>1. Chosen(r)[n] \in C!Ranking(C!Judgements(r))
        BY ChosenFirst
    <2> QED BY <2>1, RankedOrder
<1>4. \A i \in D : i \in C!Range(Chosen(r)) <=> t[i] \in C!Range(Chosen(other))
    <2>1. \A i : i \in C!Range(Chosen(r)) <=> \E n \in DOMAIN Chosen(r) : Chosen(r)[n] = i
        BY DEF C!Range
    <2>2. \A i : i \in C!Range(Chosen(other)) <=>
                    \E n \in DOMAIN Chosen(other) : Chosen(other)[n] = i
        BY DEF C!Range
    <2> QED BY <1>1, <1>2, <1>3, <2>1, <2>2
<1> QED BY <1>1, <1>4 DEF Rest

LEMMA PermutedRefused ==
    ASSUME C!ContextAssumption, NEW r, Sound(r), NEW other, NEW t, Permuted(r, other, t)
    PROVE  /\ DOMAIN Refused(other) = DOMAIN Refused(r)
           /\ \A n \in DOMAIN Refused(r) : Refused(other)[n] = t[Refused(r)[n]]
<1> DEFINE D == DOMAIN r.candidates
           j1 == C!Judgements(r)
           j2 == C!Judgements(other)
           L1 == Rest(r)
           L2 == Rest(other)
           one == C!LeftBefore(j1, L1)
           two == C!LeftBefore(j2, L2)
           turned == [i \in L1 |-> t[i]]
<1>1. Sound(other)
    BY PermutedIsSound
<1>2. /\ DOMAIN other.candidates = D /\ t \in [D -> D]
      /\ \A j \in D : \E i \in D : t[i] = j
    BY DEF Permuted
<1>3. \A i \in D : j2[t[i]] = j1[i]
    BY PermutedJudgements
<1>4. L1 \in SUBSET D /\ L2 \in SUBSET D /\ \A i \in D : i \in L1 <=> t[i] \in L2
    BY <1>2, PermutedRest DEF Rest
<1>5. /\ Orders(one) /\ DOMAIN one = L1
      /\ \A i, j \in L1 : i \in one[j] <=> C!RefBefore(j1[i].ref, j1[j].ref)
    BY <1>4, LeftOrder
<1>6. /\ Orders(two) /\ DOMAIN two = L2
      /\ \A i, j \in L2 : i \in two[j] <=> C!RefBefore(j2[i].ref, j2[j].ref)
    BY <1>1, <1>2, <1>4, LeftOrder
<1>7. Refused(r) = C!InOrder(one) /\ Refused(other) = C!InOrder(two)
    BY DEF Refused
<1>8. \A n \in DOMAIN Refused(r) : Refused(r)[n] \in L1
    BY RefusedInTurn
<1> HIDE DEF one, two, j1, j2, L1, L2, D
<1>9. \A i \in L1 : t[i] \in L2
    BY <1>4
<1>10. turned \in [DOMAIN one -> DOMAIN two]
    BY <1>5, <1>6, <1>9
<1>11. \A j \in DOMAIN two : \E i \in DOMAIN one : turned[i] = j
    BY <1>2, <1>4, <1>5, <1>6
<1>12. \A i, j \in DOMAIN one : i \in one[j] => turned[i] \in two[turned[j]]
    BY <1>3, <1>4, <1>5, <1>6, <1>9
<1>13. \A i \in L1 : turned[i] = t[i]
    OBVIOUS
<1> HIDE DEF turned
<1>14. /\ DOMAIN C!InOrder(two) = DOMAIN C!InOrder(one)
       /\ \A n \in DOMAIN C!InOrder(one) : C!InOrder(two)[n] = turned[C!InOrder(one)[n]]
    BY <1>5, <1>6, <1>10, <1>11, <1>12, AlikeInOrder
<1> QED BY <1>7, <1>8, <1>13, <1>14

(* The same is chosen and refused, for the same reasons and in the same order. *)
LEMMA PermutedCompiles ==
    ASSUME C!ContextAssumption, NEW r, Sound(r), NEW other, NEW t, Permuted(r, other, t)
    PROVE  C!Compile(other).manifest = C!Compile(r).manifest
<1> DEFINE D == DOMAIN r.candidates
           j1 == C!Judgements(r)
           j2 == C!Judgements(other)
           c1 == C!Compile(r)
           c2 == C!Compile(other)
<1>1. Sound(other) /\ other.knowledge = r.knowledge
    BY PermutedIsSound DEF Permuted
<1>2. \A i \in D : j2[t[i]] = j1[i] /\ other.candidates[t[i]] = r.candidates[i]
    <2>1. \A i \in D : j2[t[i]] = j1[i]
        BY PermutedJudgements
    <2>2. \A i \in D : other.candidates[t[i]] = r.candidates[i]
        BY DEF Permuted
    <2> QED BY <2>1, <2>2
<1>3. \A n \in DOMAIN Chosen(r) : Chosen(r)[n] \in D
    <2> SUFFICES ASSUME NEW n \in DOMAIN Chosen(r) PROVE Chosen(r)[n] \in D
        OBVIOUS
    <2>1. Chosen(r)[n] \in C!Ranking(j1)
        BY ChosenFirst
    <2> QED BY <2>1, RankedOrder
<1>4. \A n \in DOMAIN Refused(r) : Refused(r)[n] \in D
    BY RefusedInTurn DEF Rest
<1>5. /\ DOMAIN Chosen(other) = DOMAIN Chosen(r)
      /\ \A n \in DOMAIN Chosen(r) : Chosen(other)[n] = t[Chosen(r)[n]]
      /\ DOMAIN Refused(other) = DOMAIN Refused(r)
      /\ \A n \in DOMAIN Refused(r) : Refused(other)[n] = t[Refused(r)[n]]
    BY PermutedChosen, PermutedRefused
<1>6. /\ c1.manifest = [included |-> c1.manifest.included, excluded |-> c1.manifest.excluded,
                        knowledge |-> c1.knowledge, hash |-> <<c1.assets, c1.knowledge>>]
      /\ c1.assets = [n \in DOMAIN Chosen(r) |-> r.candidates[Chosen(r)[n]]]
      /\ c1.knowledge = C!Ascending(r.knowledge)
      /\ c1.manifest.included = [n \in DOMAIN Chosen(r) |-> j1[Chosen(r)[n]]]
      /\ c1.manifest.excluded = [n \in DOMAIN Refused(r) |-> C!LeftOut(j1[Refused(r)[n]])]
    BY Compilation
<1>7. /\ c2.manifest = [included |-> c2.manifest.included, excluded |-> c2.manifest.excluded,
                        knowledge |-> c2.knowledge, hash |-> <<c2.assets, c2.knowledge>>]
      /\ c2.assets = [n \in DOMAIN Chosen(other) |-> other.candidates[Chosen(other)[n]]]
      /\ c2.knowledge = C!Ascending(r.knowledge)
      /\ c2.manifest.included = [n \in DOMAIN Chosen(other) |-> j2[Chosen(other)[n]]]
      /\ c2.manifest.excluded = [n \in DOMAIN Refused(other) |-> C!LeftOut(j2[Refused(other)[n]])]
    BY <1>1, Compilation
<1> HIDE DEF D, j1, j2, c1, c2
<1>8. c2.assets = c1.assets
    BY <1>2, <1>3, <1>5, <1>6, <1>7
<1>9. c2.manifest.included = c1.manifest.included
    BY <1>2, <1>3, <1>5, <1>6, <1>7
<1>10. c2.manifest.excluded = c1.manifest.excluded
    BY <1>2, <1>4, <1>5, <1>6, <1>7
<1>11. c2.knowledge = c1.knowledge
    BY <1>6, <1>7
<1>12. c2.manifest = c1.manifest
    BY <1>6, <1>7, <1>8, <1>9, <1>10, <1>11
<1> QED BY <1>12 DEF c1, c2

(* Candidates that are listed the other way round. *)
LEMMA TurnedCandidates ==
    ASSUME C!ContextAssumption, NEW r, Sound(r)
    PROVE  C!Compile([r EXCEPT !.candidates = C!Reverse(@)]).manifest = C!Compile(r).manifest
<1> DEFINE K == Len(r.candidates)
           turned == C!Reverse(r.candidates)
           t == [i \in 1..K |-> K - i + 1]
<1>1. /\ r.candidates \in Seq(Candidate) /\ DOMAIN r.candidates = 1..K /\ K \in Nat
      /\ \A i \in 1..K : r.candidates[i] \in Candidate
    BY EachOnce DEF Sound
<1>2. PICK other : other = [r EXCEPT !.candidates = turned]
    OBVIOUS
<1>3. turned = [i \in 1..K |-> r.candidates[(K - i) + 1]]
    BY DEF C!Reverse
<1> HIDE DEF turned
<1>4. \A i \in 1..K : (K - i) + 1 \in 1..K /\ K - ((K - i) + 1) + 1 = i
    BY <1>1
<1>5. turned \in [1..K -> Candidate]
    BY <1>1, <1>3, <1>4
<1>6. turned \in Seq(Candidate) /\ DOMAIN turned = 1..K
    BY <1>1, <1>5
<1>7. /\ other.candidates = turned
      /\ other.allowed = r.allowed /\ other.explicit = r.explicit /\ other.terms = r.terms
      /\ other.max = r.max /\ other.knowledge = r.knowledge
      /\ other \in [candidates : Seq(Candidate), allowed : SUBSET Nat, explicit : SUBSET Nat,
                    terms : SUBSET Nat, max : Nat, knowledge : Seq(Nat)]
    BY <1>2, <1>6 DEF Sound
<1>8. /\ t \in [1..K -> 1..K] /\ \A i \in 1..K : t[i] \in 1..K /\ t[t[i]] = i
      /\ \A i \in 1..K : turned[t[i]] = r.candidates[i]
    BY <1>1, <1>3, <1>4
<1>9. \A i, j \in 1..K : t[i] = t[j] => i = j
    BY <1>1
<1> HIDE DEF t
<1>10. \A j \in 1..K : \E i \in 1..K : t[i] = j
    BY <1>8
<1>11. Permuted(r, other, t)
    BY <1>1, <1>6, <1>7, <1>8, <1>9, <1>10 DEF Permuted
<1>12. C!Compile(other).manifest = C!Compile(r).manifest
    BY <1>11, PermutedCompiles
<1> QED BY <1>2, <1>12 DEF turned

(* Knowledge that is listed the other way round. *)
LEMMA TurnedKnowledge ==
    ASSUME C!ContextAssumption, NEW r, Sound(r)
    PROVE  C!Compile([r EXCEPT !.knowledge = C!Reverse(@)]).manifest = C!Compile(r).manifest
<1> DEFINE K == Len(r.knowledge)
           k1 == r.knowledge
           k2 == C!Reverse(r.knowledge)
           t == [i \in 1..K |-> K - i + 1]
           one == Lower(k1)
           two == Lower(k2)
<1>1. /\ k1 \in [1..K -> Nat] /\ DOMAIN k1 = 1..K /\ K \in Nat
      /\ \A i, j \in 1..K : k1[i] = k1[j] => i = j
    <2>1. k1 \in Seq(Nat)
        BY DEF Sound
    <2>2. \A i, j \in DOMAIN k1 : k1[i] = k1[j] => i = j
        BY EachOnce
    <2> HIDE DEF k1
    <2>3. K = Len(k1)
        BY DEF k1
    <2> QED BY <2>1, <2>2, <2>3
<1>2. PICK other : other = [r EXCEPT !.knowledge = k2]
    OBVIOUS
<1>3. k2 = [i \in 1..K |-> k1[(K - i) + 1]]
    BY DEF C!Reverse
<1> HIDE DEF k1, k2
<1>4. \A i \in 1..K : (K - i) + 1 \in 1..K /\ K - ((K - i) + 1) + 1 = i
    BY <1>1
<1>5. k2 \in [1..K -> Nat]
    BY <1>1, <1>3, <1>4
<1>6. k2 \in Seq(Nat) /\ Len(k2) = K
    BY <1>1, <1>5
<1>7. /\ other.knowledge = k2 /\ other.candidates = r.candidates
      /\ other.allowed = r.allowed /\ other.explicit = r.explicit /\ other.terms = r.terms
      /\ other.max = r.max
      /\ other \in [candidates : Seq(Candidate), allowed : SUBSET Nat, explicit : SUBSET Nat,
                    terms : SUBSET Nat, max : Nat, knowledge : Seq(Nat)]
    BY <1>2, <1>6 DEF Sound
<1>8. /\ t \in [1..K -> 1..K] /\ \A i \in 1..K : t[i] \in 1..K /\ t[t[i]] = i
      /\ \A i \in 1..K : k2[t[i]] = k1[i]
    BY <1>1, <1>3, <1>4
<1>9. \A i, j \in 1..K : t[i] = t[j] => i = j
    BY <1>1
<1> HIDE DEF t, K
<1>10. \A j \in 1..K : \E i \in 1..K : t[i] = j
    BY <1>8
<1>11. \A i, j \in 1..K : k2[i] = k2[j] => i = j
    <2> SUFFICES ASSUME NEW i \in 1..K, NEW j \in 1..K, k2[i] = k2[j]
                 PROVE  i = j
        OBVIOUS
    <2>1. PICK p \in 1..K : t[p] = i
        BY <1>10
    <2>2. PICK q \in 1..K : t[q] = j
        BY <1>10
    <2>3. k1[p] = k1[q]
        BY <1>8, <2>1, <2>2
    <2> QED BY <1>1, <2>1, <2>2, <2>3
<1>12. C!Range(k2) = C!Range(k1)
    <2>1. \A x : x \in C!Range(k1) <=> \E i \in 1..K : k1[i] = x
        BY <1>1 DEF C!Range
    <2>2. \A x : x \in C!Range(k2) <=> \E i \in 1..K : k2[i] = x
        BY <1>5 DEF C!Range
    <2>3. ASSUME NEW x \in C!Range(k1)
          PROVE  x \in C!Range(k2)
        <3>1. PICK i \in 1..K : k1[i] = x
            BY <2>1, <2>3
        <3>2. t[i] \in 1..K /\ k2[t[i]] = x
            BY <1>8, <3>1
        <3> QED BY <2>2, <3>2
    <2>4. ASSUME NEW x \in C!Range(k2)
          PROVE  x \in C!Range(k1)
        <3>1. PICK j \in 1..K : k2[j] = x
            BY <2>2, <2>4
        <3>2. PICK i \in 1..K : t[i] = j
            BY <1>10
        <3>3. k1[i] = x
            BY <1>8, <3>1, <3>2
        <3> QED BY <2>1, <3>3
    <2> QED BY <2>3, <2>4
<1>13. Sound(other)
    <2>1. C!Explicit(other) = C!Explicit(r)
        BY <1>7 DEF C!Explicit
    <2>2. C!WithinBoundary(other)
        BY <1>6, <1>7, <1>12, <2>1 DEF Sound, C!WithinBoundary, K, k1
    <2> QED BY <1>7, <2>2 DEF Sound
<1>14. Orders(one) /\ DOMAIN one = 1..K /\ Orders(two) /\ DOMAIN two = 1..K
    BY <1>1, <1>5, <1>11, LowerOrder
<1>15. \A i, j \in 1..K : i \in one[j] => t[i] \in two[t[j]]
    BY <1>1, <1>5, <1>8 DEF Lower
<1>16. InTurn(C!InOrder(one), one)
    BY <1>14, InOrderLists
<1> HIDE DEF one, two
<1>17. /\ DOMAIN C!InOrder(two) = DOMAIN C!InOrder(one)
       /\ \A n \in DOMAIN C!InOrder(one) : C!InOrder(two)[n] = t[C!InOrder(one)[n]]
    <2>1. t \in [DOMAIN one -> DOMAIN two]
        BY <1>8, <1>14
    <2>2. \A y \in DOMAIN two : \E x \in DOMAIN one : t[x] = y
        BY <1>10, <1>14
    <2>3. \A x, y \in DOMAIN one : x \in one[y] => t[x] \in two[t[y]]
        BY <1>14, <1>15
    <2>4. Orders(one) /\ Orders(two)
        BY <1>14
    <2> QED BY <2>1, <2>2, <2>3, <2>4, AlikeInOrder
<1>18. \A n \in DOMAIN C!InOrder(one) : C!InOrder(one)[n] \in 1..K
    BY <1>14, <1>16 DEF InTurn
<1>19. /\ C!Ascending(k1) = [n \in DOMAIN C!InOrder(one) |-> k1[C!InOrder(one)[n]]]
       /\ C!Ascending(k2) = [n \in DOMAIN C!InOrder(two) |-> k2[C!InOrder(two)[n]]]
    BY DEF C!Ascending, one, two, Lower
<1>20. C!Ascending(k2) = C!Ascending(k1)
    BY <1>8, <1>17, <1>18, <1>19
<1>21. C!Judgements(other) = C!Judgements(r)
    BY <1>7 DEF C!Judgements, C!Judged
<1>22. Chosen(other) = Chosen(r)
    BY <1>7, <1>21 DEF Chosen
<1>23. Refused(other) = Refused(r)
    BY <1>7, <1>21, <1>22 DEF Refused, Rest
<1>24. /\ C!Compile(r).manifest =
            [included |-> C!Compile(r).manifest.included,
             excluded |-> C!Compile(r).manifest.excluded,
             knowledge |-> C!Compile(r).knowledge,
             hash |-> <<C!Compile(r).assets, C!Compile(r).knowledge>>]
       /\ C!Compile(other).manifest =
            [included |-> C!Compile(other).manifest.included,
             excluded |-> C!Compile(other).manifest.excluded,
             knowledge |-> C!Compile(other).knowledge,
             hash |-> <<C!Compile(other).assets, C!Compile(other).knowledge>>]
    BY <1>13, Compilation
<1>25. /\ C!Compile(other).assets = C!Compile(r).assets
       /\ C!Compile(other).manifest.included = C!Compile(r).manifest.included
       /\ C!Compile(other).manifest.excluded = C!Compile(r).manifest.excluded
    <2> DEFINE Assets(q) == [n \in DOMAIN Chosen(q) |-> q.candidates[Chosen(q)[n]]]
               In(q) == [n \in DOMAIN Chosen(q) |-> C!Judgements(q)[Chosen(q)[n]]]
               Out(q) == [n \in DOMAIN Refused(q) |->
                            C!LeftOut(C!Judgements(q)[Refused(q)[n]])]
    <2>1. /\ C!Compile(r).assets = Assets(r)
          /\ C!Compile(r).manifest.included = In(r)
          /\ C!Compile(r).manifest.excluded = Out(r)
        BY Compilation
    <2>2. /\ C!Compile(other).assets = Assets(other)
          /\ C!Compile(other).manifest.included = In(other)
          /\ C!Compile(other).manifest.excluded = Out(other)
        BY <1>13, Compilation
    <2>3. Assets(other) = Assets(r) /\ In(other) = In(r) /\ Out(other) = Out(r)
        BY <1>7, <1>21, <1>22, <1>23
    <2> QED BY <2>1, <2>2, <2>3
<1>26. C!Compile(other).knowledge = C!Compile(r).knowledge
    <2>1. C!Compile(r).knowledge = C!Ascending(r.knowledge)
        BY Compilation
    <2>2. C!Compile(other).knowledge = C!Ascending(other.knowledge)
        BY <1>13, Compilation
    <2> QED BY <1>7, <1>20, <2>1, <2>2 DEF k1
<1>27. C!Compile(other).manifest = C!Compile(r).manifest
    BY <1>24, <1>25, <1>26
<1> QED BY <1>2, <1>27 DEF k2

-----------------------------------------------------------------------------
(* Rows that are numbered from zero are read in the order of their numbers. *)
ByNumber(rows) == C!InOrder([q \in rows |-> {p \in rows : p.ordinal < q.ordinal}])

LEMMA ReadInOrder ==
    ASSUME NEW n \in Nat, NEW rows, NEW f \in [1..n -> rows],
           \A row \in rows : \E i \in 1..n : f[i] = row,
           \A i \in 1..n : f[i].ordinal = i - 1
    PROVE  ByNumber(rows) = f
<1> DEFINE before == [q \in rows |-> {p \in rows : p.ordinal < q.ordinal}]
<1>1. DOMAIN before = rows
    OBVIOUS
<1>2. \A i, j \in 1..n : f[i] \in before[f[j]] <=> i < j
    <2> SUFFICES ASSUME NEW i \in 1..n, NEW j \in 1..n
                 PROVE  f[i] \in before[f[j]] <=> i < j
        OBVIOUS
    <2>1. f[i] \in before[f[j]] <=> f[i].ordinal < f[j].ordinal
        OBVIOUS
    <2>2. f[i].ordinal = i - 1 /\ f[j].ordinal = j - 1
        OBVIOUS
    <2> QED BY <2>1, <2>2
<1>3. \A q \in rows : before[q] \subseteq rows
    OBVIOUS
<1> HIDE DEF before
<1>4. IsFiniteSet(rows)
    <2>1. f \in Surjection(1..n, rows)
        BY DEF Surjection
    <2> QED BY <2>1, FS_Interval, FS_Surjection
<1>5. \A q \in rows : q \notin before[q]
    <2> SUFFICES ASSUME NEW q \in rows PROVE q \notin before[q]
        OBVIOUS
    <2>1. PICK i \in 1..n : f[i] = q
        OBVIOUS
    <2>2. ~(i < i)
        OBVIOUS
    <2> QED BY <1>2, <2>1, <2>2
<1>6. \A p, q \in rows : p # q => p \in before[q] \/ q \in before[p]
    <2> SUFFICES ASSUME NEW p \in rows, NEW q \in rows, p # q
                 PROVE  p \in before[q] \/ q \in before[p]
        OBVIOUS
    <2>1. PICK i \in 1..n : f[i] = p
        OBVIOUS
    <2>2. PICK j \in 1..n : f[j] = q
        OBVIOUS
    <2>3. i < j \/ j < i
        BY <2>1, <2>2
    <2> QED BY <1>2, <2>1, <2>2, <2>3
<1>7. \A p, q \in rows : p \in before[q] => before[p] \subseteq before[q]
    <2> SUFFICES ASSUME NEW p \in rows, NEW q \in rows, p \in before[q], NEW x \in before[p]
                 PROVE  x \in before[q]
        OBVIOUS
    <2>1. PICK i \in 1..n : f[i] = p
        OBVIOUS
    <2>2. PICK j \in 1..n : f[j] = q
        OBVIOUS
    <2>3. PICK l \in 1..n : f[l] = x
        BY <1>3
    <2>4. l < i /\ i < j
        BY <1>2, <2>1, <2>2, <2>3
    <2>5. l < j
        BY <2>4
    <2> QED BY <1>2, <2>2, <2>3, <2>5
<1>8. Orders(before)
    BY <1>1, <1>3, <1>4, <1>5, <1>6, <1>7 DEF Orders
<1>9. f = C!InOrder(before)
    BY <1>1, <1>2, <1>8, OneOrder
<1> QED BY <1>9 DEF before, ByNumber

(* The rows of a manifest's knowledge. *)
KnownOf(m, manifest) ==
    {[manifest |-> m, ordinal |-> i - 1, id |-> manifest.knowledge[i]] :
        i \in DOMAIN manifest.knowledge}

(* The tables hold a manifest. *)
Recorded(m, manifest) ==
    /\ C!RowsOf(m, "included") = C!Numbered(m, "included", manifest.included)
    /\ C!RowsOf(m, "excluded") = C!Numbered(m, "excluded", manifest.excluded)
    /\ {row \in knowledgeRows : row.manifest = m} = KnownOf(m, manifest)
    /\ parents[m] = C!ParentOf(manifest)

LEMMA ItemsReadBack ==
    ASSUME NEW m, NEW d, NEW X, NEW items \in Seq(X)
    PROVE  LET rows == C!Numbered(m, d, items)
               list == ByNumber(rows)
           IN  [i \in DOMAIN list |-> list[i].item] = items
<1> DEFINE rows == C!Numbered(m, d, items)
           list == ByNumber(rows)
           n == Len(items)
           f == [i \in 1..n |->
                    [manifest |-> m, ordinal |-> i - 1, disposition |-> d, item |-> items[i]]]
<1>1. n \in Nat /\ DOMAIN items = 1..n /\ items = [i \in 1..n |-> items[i]]
    OBVIOUS
<1>2. rows = {f[i] : i \in 1..n}
    BY <1>1 DEF C!Numbered
<1>3. \A i \in 1..n : f[i].ordinal = i - 1 /\ f[i].item = items[i]
    OBVIOUS
<1> HIDE DEF rows, n
<1>4. f \in [1..n -> rows] /\ \A row \in rows : \E i \in 1..n : f[i] = row
    BY <1>2
<1>5. DOMAIN f = 1..n
    OBVIOUS
<1> HIDE DEF f
<1>6. list = f
    BY <1>1, <1>3, <1>4, ReadInOrder
<1> HIDE DEF list
<1>7. [i \in DOMAIN list |-> list[i].item] = [i \in 1..n |-> items[i]]
    BY <1>3, <1>5, <1>6
<1> QED BY <1>1, <1>7 DEF list, rows

LEMMA KnownReadBack ==
    ASSUME NEW m, NEW manifest, manifest.knowledge \in Seq(Nat)
    PROVE  LET rows == KnownOf(m, manifest)
               list == ByNumber(rows)
           IN  [i \in DOMAIN list |-> list[i].id] = manifest.knowledge
<1> DEFINE items == manifest.knowledge
           rows == KnownOf(m, manifest)
           list == ByNumber(rows)
           n == Len(items)
           f == [i \in 1..n |-> [manifest |-> m, ordinal |-> i - 1, id |-> items[i]]]
<1>1. n \in Nat /\ DOMAIN items = 1..n /\ items = [i \in 1..n |-> items[i]]
    OBVIOUS
<1>2. rows = {f[i] : i \in 1..n}
    BY <1>1 DEF KnownOf
<1>3. \A i \in 1..n : f[i].ordinal = i - 1 /\ f[i].id = items[i]
    OBVIOUS
<1> HIDE DEF rows, n, items
<1>4. f \in [1..n -> rows] /\ \A row \in rows : \E i \in 1..n : f[i] = row
    BY <1>2
<1>5. DOMAIN f = 1..n
    OBVIOUS
<1> HIDE DEF f
<1>6. list = f
    BY <1>1, <1>3, <1>4, ReadInOrder
<1> HIDE DEF list
<1>7. [i \in DOMAIN list |-> list[i].id] = [i \in 1..n |-> items[i]]
    BY <1>3, <1>5, <1>6
<1> QED BY <1>1, <1>7 DEF list, rows, items

(* A manifest is read back as it was staged. *)
LEMMA ReadBack ==
    ASSUME NEW m, NEW manifest \in C!ContextManifest, Recorded(m, manifest)'
    PROVE  C!ReadManifest(m) = manifest
<1> DEFINE included == ByNumber(C!RowsOf(m, "included")')
           excluded == ByNumber(C!RowsOf(m, "excluded")')
           ids == ByNumber({row \in knowledgeRows' : row.manifest = m})
<1>1. /\ manifest = [included |-> manifest.included, excluded |-> manifest.excluded,
                     knowledge |-> manifest.knowledge, hash |-> manifest.hash]
      /\ manifest.included \in Seq(C!AssetItem)
      /\ manifest.excluded \in Seq(C!AssetItem)
      /\ manifest.knowledge \in Seq(Nat)
    BY DEF C!ContextManifest
<1>2. /\ C!RowsOf(m, "included")' = C!Numbered(m, "included", manifest.included)
      /\ C!RowsOf(m, "excluded")' = C!Numbered(m, "excluded", manifest.excluded)
      /\ {row \in knowledgeRows' : row.manifest = m} = KnownOf(m, manifest)
      /\ parents'[m] = C!ParentOf(manifest)
    BY DEF Recorded
<1>3. [i \in DOMAIN included |-> included[i].item] = manifest.included
    BY <1>1, <1>2, ItemsReadBack
<1>4. [i \in DOMAIN excluded |-> excluded[i].item] = manifest.excluded
    BY <1>1, <1>2, ItemsReadBack
<1>5. [i \in DOMAIN ids |-> ids[i].id] = manifest.knowledge
    <2>1. ids = ByNumber(KnownOf(m, manifest))
        BY <1>2
    <2> HIDE DEF ids
    <2>2. manifest.knowledge \in Seq(Nat)
        BY <1>1
    <2>3. [i \in DOMAIN ByNumber(KnownOf(m, manifest)) |-> ByNumber(KnownOf(m, manifest))[i].id]
            = manifest.knowledge
        BY <2>2, KnownReadBack
    <2> QED BY <2>1, <2>3
<1>6. parents'[m].hash = manifest.hash
    BY <1>2 DEF C!ParentOf
<1>7. C!ReadManifest(m) = [included |-> [i \in DOMAIN included |-> included[i].item],
                           excluded |-> [i \in DOMAIN excluded |-> excluded[i].item],
                           knowledge |-> [i \in DOMAIN ids |-> ids[i].id],
                           hash |-> parents'[m].hash]
    BY DEF C!ReadManifest, ByNumber
<1> QED BY <1>1, <1>3, <1>4, <1>5, <1>6, <1>7

-----------------------------------------------------------------------------
(* The tables hold nothing of a manifest. *)
NothingOf(m) ==
    /\ C!RowsOf(m, "included") = {} /\ C!RowsOf(m, "excluded") = {}
    /\ {row \in knowledgeRows : row.manifest = m} = {}

(* What a manifest is that its parent row has sealed. *)
SealedAs(m) ==
    /\ asked[m] \in Request
    /\ Sound(asked[m])
    /\ Recorded(m, C!Compile(asked[m]).manifest)

(* The use of a key is the manifest that was recorded. *)
AnswerOf(k) ==
    \E m \in Manifest :
        parents[m] # None /\ commands[k] = <<m, C!Compile(asked[m]).manifest>>

(* The inductive invariant of contexts: the tables hold what each sealed manifest's
   request compiles to, and so do the commands and the contexts that were handed out. *)
ContextInv ==
    /\ C!ContextTypeOK
    /\ DOMAIN parents = Manifest /\ DOMAIN asked = Manifest /\ DOMAIN commands = Key
    /\ \A m \in Manifest : parents[m] = None => NothingOf(m)
    /\ \A m \in Manifest : parents[m] # None => SealedAs(m)
    /\ \A k \in Key : commands[k] # None => AnswerOf(k)
    /\ \A h \in handed :
        /\ h.id \in Manifest /\ parents[h.id] # None
        /\ h.context = C!Compile(asked[h.id])

LEMMA ContextStart == C!ContextInit => ContextInv
<1> SUFFICES ASSUME C!ContextInit PROVE ContextInv
    OBVIOUS
<1>1. /\ assetRows = {} /\ knowledgeRows = {} /\ handed = {}
      /\ parents = [m \in Manifest |-> None]
      /\ commands = [k \in Key |-> None]
      /\ asked = [m \in Manifest |-> None]
    BY DEF C!ContextInit
<1>2. C!ContextTypeOK
    BY <1>1 DEF C!ContextTypeOK, C!AssetTable, C!KnowledgeTable
<1>3. \A m \in Manifest : NothingOf(m)
    BY <1>1 DEF NothingOf, C!RowsOf
<1> QED BY <1>1, <1>2, <1>3 DEF ContextInv

(* What is already used is answered again as it was. *)
LEMMA AnsweredAgain ==
    ASSUME C!ContextAssumption, ContextInv, NEW k \in Key, NEW m \in Manifest,
           NEW r \in Request, Sound(r), commands[k] # None,
           C!Record(k, m, r, C!Compile(r))
    PROVE  ContextInv'
<1> DEFINE c == C!Compile(r)
           old == C!Compile(asked[m])
<1>1. /\ commands[k] = <<m, c.manifest>>
      /\ UNCHANGED <<assetRows, knowledgeRows, parents, commands, asked>>
      /\ handed' = handed \cup
            {[id |-> m, context |-> [c EXCEPT !.manifest = C!ReadManifest(m)]]}
    BY DEF C!Record, C!Commit
<1>2. PICK n \in Manifest : /\ parents[n] # None
                            /\ commands[k] = <<n, C!Compile(asked[n]).manifest>>
    BY DEF ContextInv, AnswerOf
<1>3. n = m /\ c.manifest = old.manifest /\ parents[m] # None
    BY <1>1, <1>2
<1>4. SealedAs(m)
    BY <1>3 DEF ContextInv
<1>5. /\ c = [assets |-> c.assets, knowledge |-> c.knowledge, manifest |-> c.manifest]
      /\ c.manifest.hash = <<c.assets, c.knowledge>>
    <2>1. /\ c = [assets |-> c.assets, knowledge |-> c.knowledge, manifest |-> c.manifest]
          /\ c.manifest = [included |-> c.manifest.included,
                           excluded |-> c.manifest.excluded,
                           knowledge |-> c.knowledge,
                           hash |-> <<c.assets, c.knowledge>>]
        BY Compilation
    <2> HIDE DEF c
    <2> QED BY <2>1
<1>6. /\ old = [assets |-> old.assets, knowledge |-> old.knowledge, manifest |-> old.manifest]
      /\ old.manifest.hash = <<old.assets, old.knowledge>>
    <2>1. /\ old = [assets |-> old.assets, knowledge |-> old.knowledge,
                    manifest |-> old.manifest]
          /\ old.manifest = [included |-> old.manifest.included,
                             excluded |-> old.manifest.excluded,
                             knowledge |-> old.knowledge,
                             hash |-> <<old.assets, old.knowledge>>]
        BY <1>4, Compilation DEF SealedAs
    <2> HIDE DEF old
    <2> QED BY <2>1
<1>7. Recorded(m, old.manifest)
    BY <1>4 DEF SealedAs
<1>8. PICK manifest : manifest = old.manifest
    OBVIOUS
<1>9. Recorded(m, manifest)'
    BY <1>1, <1>7, <1>8 DEF Recorded, C!RowsOf
<1>10. manifest \in C!ContextManifest
    BY <1>4, <1>8, CompiledTypes DEF SealedAs
<1>11. C!ReadManifest(m) = manifest
    BY <1>9, <1>10, ReadBack
<1> HIDE DEF c, old
<1>12. c = old
    BY <1>3, <1>5, <1>6
<1>13. [c EXCEPT !.manifest = C!ReadManifest(m)] = c
    BY <1>3, <1>5, <1>8, <1>11
<1>14. handed' = handed \cup {[id |-> m, context |-> C!Compile(asked[m])]}
    BY <1>1, <1>12, <1>13 DEF old
<1>15. C!ContextTypeOK'
    BY <1>1 DEF ContextInv, C!ContextTypeOK, C!CountsMatch
<1>16. \A x \in Manifest : parents'[x] = None => NothingOf(x)'
    BY <1>1 DEF ContextInv, NothingOf, C!RowsOf
<1>17. \A x \in Manifest : parents'[x] # None => SealedAs(x)'
    BY <1>1 DEF ContextInv, SealedAs, Recorded, C!RowsOf
<1>18. \A x \in Key : commands'[x] # None => AnswerOf(x)'
    BY <1>1 DEF ContextInv, AnswerOf
<1>19. \A h \in handed' : /\ h.id \in Manifest /\ parents'[h.id] # None
                          /\ h.context = C!Compile(asked'[h.id])
    BY <1>1, <1>3, <1>14 DEF ContextInv
<1> QED BY <1>1, <1>15, <1>16, <1>17, <1>18, <1>19 DEF ContextInv

(* The rows that a manifest is given. *)
LEMMA StagedRows ==
    ASSUME C!ContextAssumption, ContextInv, NEW m \in Manifest,
           NEW manifest \in C!ContextManifest, C!StageManifest(m, manifest)
    PROVE  /\ Recorded(m, manifest)'
           /\ parents[m] = None /\ DOMAIN parents' = Manifest
           /\ \A x \in Manifest \ {m} :
                /\ parents'[x] = parents[x]
                /\ \A d \in C!Disposition : C!RowsOf(x, d)' = C!RowsOf(x, d)
                /\ {row \in knowledgeRows' : row.manifest = x}
                        = {row \in knowledgeRows : row.manifest = x}
           /\ assetRows' \in C!AssetTable
           /\ knowledgeRows' \in C!KnowledgeTable
           /\ C!CountsMatch(m, C!ParentOf(manifest), assetRows', knowledgeRows')
<1> DEFINE in == C!Numbered(m, "included", manifest.included)
           ex == C!Numbered(m, "excluded", manifest.excluded)
           ids == KnownOf(m, manifest)
<1>1. /\ parents[m] = None
      /\ \A row \in in \cup ex : C!Reasoned(row)
      /\ assetRows' = assetRows \cup (in \cup ex)
      /\ knowledgeRows' = knowledgeRows \cup ids
      /\ C!CountsMatch(m, C!ParentOf(manifest), assetRows', knowledgeRows')
      /\ parents' = [parents EXCEPT ![m] = C!ParentOf(manifest)]
    BY DEF C!StageManifest, C!Unsealed, KnownOf
<1>2. /\ manifest.included \in Seq(C!AssetItem)
      /\ manifest.excluded \in Seq(C!AssetItem)
      /\ manifest.knowledge \in Seq(Nat)
    BY DEF C!ContextManifest
<1>3. DOMAIN parents = Manifest
    BY DEF ContextInv
<1>4. ASSUME NEW d \in C!Disposition, NEW items \in Seq(C!AssetItem),
             NEW row \in C!Numbered(m, d, items)
      PROVE  row \in C!AssetRow /\ row.manifest = m /\ row.disposition = d
    <2>1. PICK i \in DOMAIN items : row = [manifest |-> m, ordinal |-> i - 1,
                                           disposition |-> d, item |-> items[i]]
        BY <1>4 DEF C!Numbered
    <2>2. i - 1 \in Nat /\ items[i] \in C!AssetItem
        OBVIOUS
    <2> QED BY <2>1, <2>2 DEF C!AssetRow
<1>5. "included" \in C!Disposition /\ "excluded" \in C!Disposition
    BY DEF C!Disposition
<1>6. \A row \in in : row \in C!AssetRow /\ row.manifest = m /\ row.disposition = "included"
    BY <1>2, <1>4, <1>5
<1>7. \A row \in ex : row \in C!AssetRow /\ row.manifest = m /\ row.disposition = "excluded"
    BY <1>2, <1>4, <1>5
<1>8. \A row \in ids : row \in [manifest : Manifest, ordinal : Nat, id : Nat] /\ row.manifest = m
    <2> SUFFICES ASSUME NEW row \in ids
                 PROVE  row \in [manifest : Manifest, ordinal : Nat, id : Nat] /\ row.manifest = m
        OBVIOUS
    <2> DEFINE items == manifest.knowledge
    <2>1. PICK i \in DOMAIN items :
            row = [manifest |-> m, ordinal |-> i - 1, id |-> items[i]]
        BY DEF KnownOf
    <2>2. items \in Seq(Nat)
        BY <1>2
    <2> HIDE DEF items
    <2>3. i - 1 \in Nat /\ items[i] \in Nat
        BY <2>2
    <2> QED BY <2>1, <2>3
<1>9. NothingOf(m)
    BY <1>1 DEF ContextInv
<1>10. assetRows \in C!AssetTable /\ knowledgeRows \in C!KnowledgeTable
    BY DEF ContextInv, C!ContextTypeOK
<1> HIDE DEF in, ex, ids
<1>11. assetRows' \in C!AssetTable
    BY <1>1, <1>6, <1>7, <1>10 DEF C!AssetTable
<1>12. knowledgeRows' \in C!KnowledgeTable
    BY <1>1, <1>8, <1>10 DEF C!KnowledgeTable
<1>13. \A row \in assetRows : ~(row.manifest = m /\ row.disposition = "included")
                           /\ ~(row.manifest = m /\ row.disposition = "excluded")
    BY <1>9 DEF NothingOf, C!RowsOf
<1>14. C!RowsOf(m, "included")' = in
    BY <1>1, <1>6, <1>7, <1>13 DEF C!RowsOf
<1>15. C!RowsOf(m, "excluded")' = ex
    BY <1>1, <1>6, <1>7, <1>13 DEF C!RowsOf
<1>16. {row \in knowledgeRows' : row.manifest = m} = ids
    BY <1>1, <1>8, <1>9 DEF NothingOf
<1>17. parents'[m] = C!ParentOf(manifest)
    BY <1>1, <1>3
<1>18. Recorded(m, manifest)'
    BY <1>14, <1>15, <1>16, <1>17 DEF Recorded, in, ex, ids
<1>19. ASSUME NEW x \in Manifest \ {m}
       PROVE  /\ parents'[x] = parents[x]
              /\ \A d \in C!Disposition : C!RowsOf(x, d)' = C!RowsOf(x, d)
              /\ {row \in knowledgeRows' : row.manifest = x}
                      = {row \in knowledgeRows : row.manifest = x}
    <2>1. parents'[x] = parents[x]
        BY <1>1, <1>3
    <2>2. \A d \in C!Disposition : C!RowsOf(x, d)' = C!RowsOf(x, d)
        BY <1>1, <1>6, <1>7 DEF C!RowsOf
    <2>3. {row \in knowledgeRows' : row.manifest = x} = {row \in knowledgeRows : row.manifest = x}
        BY <1>1, <1>8
    <2> QED BY <2>1, <2>2, <2>3
<1> QED BY <1>1, <1>3, <1>11, <1>12, <1>18, <1>19

(* The counts of a manifest are of its own rows. *)
LEMMA CountsOfOwnRows ==
    ASSUME NEW x, NEW parent,
           \A d \in C!Disposition : C!RowsOf(x, d)' = C!RowsOf(x, d),
           {row \in knowledgeRows' : row.manifest = x}
                = {row \in knowledgeRows : row.manifest = x},
           C!CountsMatch(x, parent, assetRows, knowledgeRows)
    PROVE  C!CountsMatch(x, parent, assetRows', knowledgeRows')
<1>1. "included" \in C!Disposition /\ "excluded" \in C!Disposition
    BY DEF C!Disposition
<1>2. \A d \in C!Disposition :
        {row \in assetRows' : row.manifest = x /\ row.disposition = d}
            = {row \in assetRows : row.manifest = x /\ row.disposition = d}
    BY DEF C!RowsOf
<1> QED BY <1>1, <1>2 DEF C!CountsMatch

(* A manifest is recorded for the first use of a key. *)
LEMMA RecordedFirst ==
    ASSUME C!ContextAssumption, ContextInv, NEW k \in Key, NEW m \in Manifest,
           NEW r \in Request, Sound(r), commands[k] = None,
           C!Record(k, m, r, C!Compile(r))
    PROVE  ContextInv'
<1> DEFINE c == C!Compile(r)
<1>1. /\ C!StageManifest(m, c.manifest)
      /\ commands' = [commands EXCEPT ![k] = <<m, c.manifest>>]
      /\ asked' = [asked EXCEPT ![m] = r]
      /\ handed' = handed \cup
            {[id |-> m, context |-> [c EXCEPT !.manifest = C!ReadManifest(m)]]}
    BY DEF C!Record, C!Commit
<1>2. PICK manifest : manifest = c.manifest
    OBVIOUS
<1>3. manifest \in C!ContextManifest /\ C!ParentOf(manifest) \in C!ParentRow
    BY <1>2, CompiledTypes
<1>4. C!StageManifest(m, manifest)
    BY <1>1, <1>2
<1>5. /\ Recorded(m, manifest)'
      /\ parents[m] = None /\ DOMAIN parents' = Manifest
      /\ \A x \in Manifest \ {m} :
            /\ parents'[x] = parents[x]
            /\ \A d \in C!Disposition : C!RowsOf(x, d)' = C!RowsOf(x, d)
            /\ {row \in knowledgeRows' : row.manifest = x}
                    = {row \in knowledgeRows : row.manifest = x}
      /\ assetRows' \in C!AssetTable
      /\ knowledgeRows' \in C!KnowledgeTable
      /\ C!CountsMatch(m, C!ParentOf(manifest), assetRows', knowledgeRows')
    BY <1>3, <1>4, StagedRows
<1>6. /\ DOMAIN asked = Manifest /\ DOMAIN commands = Key
      /\ \A x \in Manifest : parents[x] # None => SealedAs(x)
      /\ \A x \in Manifest : parents[x] = None => NothingOf(x)
    BY DEF ContextInv
<1>7. /\ asked'[m] = r /\ DOMAIN asked' = Manifest /\ DOMAIN commands' = Key
      /\ \A x \in Manifest \ {m} : asked'[x] = asked[x]
      /\ commands'[k] = <<m, manifest>>
      /\ \A x \in Key \ {k} : commands'[x] = commands[x]
    BY <1>1, <1>2, <1>6
<1>8. parents'[m] = C!ParentOf(manifest) /\ parents'[m] # None
    BY <1>3, <1>5 DEF Recorded, C!ContextAssumption
<1>9. C!ReadManifest(m) = manifest
    BY <1>3, <1>5, ReadBack
<1>10. [c EXCEPT !.manifest = C!ReadManifest(m)] = c
    <2>1. c = [assets |-> c.assets, knowledge |-> c.knowledge, manifest |-> c.manifest]
        BY Compilation
    <2> HIDE DEF c
    <2> QED BY <1>2, <1>9, <2>1
<1>11. SealedAs(m)'
    <2>1. PICK q : q = asked'[m] /\ q = r
        BY <1>7
    <2>2. Recorded(m, C!Compile(q).manifest)'
        BY <1>2, <1>5, <2>1
    <2> QED BY <2>1, <2>2 DEF SealedAs
<1>12. ASSUME NEW x \in Manifest \ {m}, parents'[x] # None
       PROVE  SealedAs(x)'
    <2>1. SealedAs(x)
        BY <1>5, <1>6, <1>12
    <2>2. "included" \in C!Disposition /\ "excluded" \in C!Disposition
        BY DEF C!Disposition
    <2>3. PICK q : q = asked[x] /\ q = asked'[x]
        BY <1>7
    <2>4. Recorded(x, C!Compile(q).manifest)
        BY <2>1, <2>3 DEF SealedAs
    <2>5. Recorded(x, C!Compile(q).manifest)'
        BY <1>5, <2>2, <2>4 DEF Recorded
    <2> QED BY <2>1, <2>3, <2>5 DEF SealedAs
<1>13. ASSUME NEW x \in Manifest, parents'[x] = None
       PROVE  NothingOf(x)'
    <2>1. x # m /\ NothingOf(x)
        BY <1>5, <1>6, <1>8, <1>13
    <2>2. "included" \in C!Disposition /\ "excluded" \in C!Disposition
        BY DEF C!Disposition
    <2> QED BY <1>5, <2>1, <2>2 DEF NothingOf
<1>14. C!ContextTypeOK'
    <2>1. ASSUME NEW x \in Manifest, parents'[x] # None
          PROVE  /\ parents'[x] \in C!ParentRow
                 /\ C!CountsMatch(x, parents'[x], assetRows', knowledgeRows')
        <3>1. CASE x = m
            BY <1>3, <1>5, <1>8, <3>1
        <3>2. CASE x # m
            <4>1. /\ parents[x] \in C!ParentRow /\ parents'[x] = parents[x]
                  /\ C!CountsMatch(x, parents[x], assetRows, knowledgeRows)
                BY <1>5, <2>1, <3>2 DEF ContextInv, C!ContextTypeOK
            <4>2. /\ \A d \in C!Disposition : C!RowsOf(x, d)' = C!RowsOf(x, d)
                  /\ {row \in knowledgeRows' : row.manifest = x}
                        = {row \in knowledgeRows : row.manifest = x}
                BY <1>5, <3>2
            <4>3. C!CountsMatch(x, parents[x], assetRows', knowledgeRows')
                BY <4>1, <4>2, CountsOfOwnRows
            <4> QED BY <4>1, <4>3
        <3> QED BY <3>1, <3>2
    <2> QED BY <1>5, <2>1 DEF C!ContextTypeOK
<1>15. ASSUME NEW x \in Key, commands'[x] # None
       PROVE  AnswerOf(x)'
    <2>1. CASE x = k
        BY <1>2, <1>7, <1>8, <2>1 DEF AnswerOf
    <2>2. CASE x # k
        <3>1. commands'[x] = commands[x] /\ AnswerOf(x)
            BY <1>7, <1>15, <2>2 DEF ContextInv
        <3>2. PICK n \in Manifest :
                parents[n] # None /\ commands[x] = <<n, C!Compile(asked[n]).manifest>>
            BY <3>1 DEF AnswerOf
        <3>3. n # m /\ parents'[n] # None /\ asked'[n] = asked[n]
            BY <1>5, <1>7, <3>2
        <3> QED BY <3>1, <3>2, <3>3 DEF AnswerOf
    <2> QED BY <2>1, <2>2
<1>16. ASSUME NEW h \in handed'
       PROVE  /\ h.id \in Manifest /\ parents'[h.id] # None
              /\ h.context = C!Compile(asked'[h.id])
    <2>1. CASE h \in handed
        <3>1. /\ h.id \in Manifest /\ parents[h.id] # None
              /\ h.context = C!Compile(asked[h.id])
            BY <2>1 DEF ContextInv
        <3>2. parents'[h.id] # None /\ asked'[h.id] = asked[h.id]
            BY <1>5, <1>7, <3>1
        <3> QED BY <3>1, <3>2
    <2>2. CASE h = [id |-> m, context |-> C!Compile(r)]
        BY <1>7, <1>8, <2>2
    <2> QED BY <1>1, <1>10, <2>1, <2>2
<1> QED BY <1>5, <1>7, <1>11, <1>12, <1>13, <1>14, <1>15, <1>16 DEF ContextInv

LEMMA ContextStep ==
    ASSUME C!ContextAssumption, ContextInv, [C!ContextNext]_C!contextVars
    PROVE  ContextInv'
<1>1. CASE UNCHANGED C!contextVars
    BY <1>1 DEF C!contextVars, ContextInv, C!ContextTypeOK, C!CountsMatch, NothingOf, C!RowsOf,
                SealedAs, Recorded, AnswerOf
<1>2. CASE C!ContextNext
    <2>1. PICK r \in Request : C!CompileAndRecord(r)
        BY <1>2 DEF C!ContextNext
    <2>2. Sound(r)
        BY <2>1 DEF C!CompileAndRecord, Sound, C!ContextAssumption
    <2>3. PICK k \in Key, m \in Manifest : C!Record(k, m, r, C!Compile(r))
        BY <2>1 DEF C!CompileAndRecord
    <2> QED BY <2>2, <2>3, AnsweredAgain, RecordedFirst
<1> QED BY <1>1, <1>2

(* What was handed out is recorded, in one order, and the weakest are cut. *)
LEMMA HandedAsRecorded ==
    ASSUME C!ContextAssumption, ContextInv
    PROVE  ContextsAreRecorded
<1>1. C!ContextTypeOK
    BY DEF ContextInv
<1>2. ASSUME NEW h \in handed
      PROVE  /\ h.id \in Manifest /\ Sound(asked[h.id])
             /\ Recorded(h.id, C!Compile(asked[h.id]).manifest)
             /\ h.context = C!Compile(asked[h.id])
    BY <1>2 DEF ContextInv, SealedAs
<1>3. C!HandedIsRecorded
    <2> SUFFICES ASSUME NEW h \in handed
                 PROVE  /\ h.context.manifest.included =
                            [i \in DOMAIN h.context.assets |->
                                [ref |-> C!Ref(h.context.assets[i]),
                                 reason |-> h.context.manifest.included[i].reason,
                                 matched |-> h.context.manifest.included[i].matched]]
                        /\ \A row \in C!RowsOf(h.id, "included") :
                            h.context.manifest.included[row.ordinal + 1] = row.item
                        /\ \A g \in handed : g.id = h.id => g.context = h.context
        BY DEF C!HandedIsRecorded
    <2> DEFINE r == asked[h.id]
               c == C!Compile(asked[h.id])
               judged == C!Judgements(asked[h.id])
    <2>1. Sound(r) /\ h.context = c /\ Recorded(h.id, c.manifest)
        BY <1>2
    <2>2. /\ c.assets = [n \in DOMAIN Chosen(r) |-> r.candidates[Chosen(r)[n]]]
          /\ c.manifest.included = [n \in DOMAIN Chosen(r) |-> judged[Chosen(r)[n]]]
        BY <2>1, Compilation
    <2>3. ASSUME NEW n \in DOMAIN Chosen(r)
          PROVE  judged[Chosen(r)[n]] = [ref |-> C!Ref(r.candidates[Chosen(r)[n]]),
                                         reason |-> judged[Chosen(r)[n]].reason,
                                         matched |-> judged[Chosen(r)[n]].matched]
        <3>1. Chosen(r)[n] \in C!Ranking(judged)
            BY <2>1, ChosenFirst
        <3>2. Chosen(r)[n] \in DOMAIN r.candidates
            BY <2>1, <3>1, RankedOrder
        <3> QED BY <2>1, <3>2, JudgedOnce
    <2>4. C!RowsOf(h.id, "included") = C!Numbered(h.id, "included", c.manifest.included)
        BY <2>1 DEF Recorded
    <2>5. \A g \in handed : g.id = h.id => g.context = c
        BY <1>2
    <2>6. c.manifest.included \in Seq(C!AssetItem)
        BY <2>1, CompiledTypes DEF C!ContextManifest
    <2> HIDE DEF r, c, judged
    <2>7. c.manifest.included =
            [i \in DOMAIN c.assets |->
                [ref |-> C!Ref(c.assets[i]),
                 reason |-> c.manifest.included[i].reason,
                 matched |-> c.manifest.included[i].matched]]
        BY <2>2, <2>3
    <2>8. \A row \in C!RowsOf(h.id, "included") :
            c.manifest.included[row.ordinal + 1] = row.item
        <3> SUFFICES ASSUME NEW row \in C!RowsOf(h.id, "included")
                     PROVE  c.manifest.included[row.ordinal + 1] = row.item
            OBVIOUS
        <3> DEFINE items == c.manifest.included
        <3>1. PICK i \in DOMAIN items :
                row = [manifest |-> h.id, ordinal |-> i - 1, disposition |-> "included",
                       item |-> items[i]]
            BY <2>4 DEF C!Numbered
        <3>2. DOMAIN items \in SUBSET Nat
            BY <2>6
        <3> HIDE DEF items
        <3>3. row.ordinal + 1 = i /\ row.item = items[i]
            BY <3>1, <3>2
        <3>4. items[row.ordinal + 1] = row.item
            BY <3>3
        <3> QED BY <3>4 DEF items
    <2> QED BY <2>1, <2>5, <2>7, <2>8
<1>4. C!OrderDoesNotMatter
    BY <1>2, TurnedCandidates, TurnedKnowledge DEF C!OrderDoesNotMatter
<1>5. C!LimitCutsTheWeakest
    <2>1. \A h \in handed : LimitOf(asked[h.id], h.context.assets)
        BY <1>2, LimitIsKept
    <2> QED BY <2>1, SameSizes DEF C!LimitCutsTheWeakest, LimitOf
<1> QED BY <1>1, <1>3, <1>4, <1>5 DEF ContextsAreRecorded

(* A context that is handed out is the recorded one, in every retry; the order in which
   candidates and knowledge are listed makes no difference to it; and its limit cuts
   nothing that matches better than what it keeps: for any candidates and requests, and
   any number of manifests and keys. *)
THEOREM ContextSafety ==
    ASSUME C!ContextAssumption
    PROVE  C!ContextSpec => []ContextsAreRecorded
<1>1. C!ContextInit => ContextInv
    BY ContextStart
<1>2. ContextInv /\ [C!ContextNext]_C!contextVars => ContextInv'
    BY ContextStep
<1>3. ContextInv => ContextsAreRecorded
    BY HandedAsRecorded
<1> QED BY <1>1, <1>2, <1>3, PTL DEF C!ContextSpec
=============================================================================
