-------------------------------- MODULE Projects --------------------------------
(***************************************************************************)
(* What projects show: evidence that goes stale, capability levels that    *)
(* rest on it, and the tasks that are to close a gap.                      *)
(* services/project_scan_service.py (mark_stale_evidence),                 *)
(* services/project_service.py and db/project_writes.py over the tables of *)
(* migration 0004.  Evidence, approvals, bases and levels enter by no      *)
(* service of the repository: their actions are the inserts that the       *)
(* tables' triggers let through, in whatever order they come.              *)
(***************************************************************************)
EXTENDS Integers, Sequences, FiniteSets

CONSTANTS
    Project,
    Evidence,          \* ids of project evidence
    State,             \* ids of capability levels
    Task, Gap,         \* ids of tasks, and of match gaps
    Capability,
    GapCapability,     \* the capability of each gap
    User, Agent,
    MaxRevision,
    None

VARIABLES
    evidence,   \* project_evidence, by evidence: first to last
    approvals,  \* the approvals of levels by the user
    basis,      \* project_capability_basis
    levels,     \* project_capability_state, by state: first to last
    tasks       \* project_enhancement_task, by task: first to last

projectVars == <<evidence, approvals, basis, levels, tasks>>

Authority == {"code_verified", "document_supported", "user_confirmed", "ai_inferred"}

ClaimKind == {"technical_observation", "change", "validation", "ownership"}

Level == {"existing", "understood", "modified", "validated", "resume_ready"}

BasisKind ==
    {"code_evidence", "document_evidence", "user_confirmation", "change_evidence",
     "validation_evidence", "resume_approval"}

Status == {"proposed", "ready", "in_progress", "awaiting_validation", "completed", "cancelled"}

(* enforce_evidence_authority: no agent's inference is accepted, and code says
   nothing of who owns it. *)
Authoritative(row) ==
    /\ row.authority = "ai_inferred" => row.status # "accepted"
    /\ row.authority = "code_verified" => row.kind # "ownership"

(* Evidence as it was accepted; claim kinds and authorities that the triggers do
   not tell apart are one. *)
EvidenceRow ==
    {row \in [project : Project, authority : Authority, kind : ClaimKind,
              status : {"proposed", "accepted"}, freshness : {"current", "stale"}] :
        Authoritative(row)}

BasisRow ==
    [state : State, revision : 1..MaxRevision, kind : BasisKind,
     evidence : Evidence \cup {None}, evidence_revision : 0..MaxRevision]

LevelRow == [project : Project, level : Level]

TaskRow ==
    [project : Project, gap : Gap, capability : Capability, status : Status,
     by : User \cup Agent]

(* The tables are append-only: a revision follows the last one. *)
Appended(rows, row) == Append(rows, row)

ProjectInit ==
    /\ evidence = [e \in Evidence |-> <<>>]
    /\ approvals = {}
    /\ basis = {}
    /\ levels = [s \in State |-> <<>>]
    /\ tasks = [t \in Task |-> <<>>]

-----------------------------------------------------------------------------
(* Evidence enters with its manifest, already reviewed or not. *)
InsertEvidence ==
    /\ \E e \in Evidence, row \in EvidenceRow :
        /\ evidence[e] = <<>>
        /\ row.freshness = "current"
        /\ evidence' = [evidence EXCEPT ![e] = Appended(@, row)]
    /\ UNCHANGED <<approvals, basis, levels, tasks>>

(* get_evidence: the latest revision, or the exact one. *)
LatestEvidence(e) == evidence[e][Len(evidence[e])]

(* Mutant: what is marked is proposed anew. *)
StageStale_Reopen(e) ==
    /\ LatestEvidence(e).freshness = "current"
    /\ evidence' = [evidence EXCEPT ![e] =
            Appended(@, [LatestEvidence(e) EXCEPT !.freshness = "stale", !.status = "proposed"])]

(* ProjectEvidenceStaleWrite.stage *)
StageStale(e) ==
    /\ LatestEvidence(e).freshness = "current"
    /\ evidence' = [evidence EXCEPT ![e] =
            Appended(@, [LatestEvidence(e) EXCEPT !.freshness = "stale"])]

(* mark_stale_evidence; the manifest that is the reason is of the same project. *)
MarkStale ==
    /\ \E e \in Evidence :
        /\ evidence[e] # <<>>
        /\ Len(evidence[e]) < MaxRevision
        /\ StageStale(e)
    /\ UNCHANGED <<approvals, basis, levels, tasks>>

-----------------------------------------------------------------------------
Approve ==
    /\ \E s \in State, r \in 1..MaxRevision : approvals' = approvals \cup {<<s, r>>}
    /\ UNCHANGED <<evidence, basis, levels, tasks>>

(* trg_project_capability_basis_append_only *)
Open(s, r) == r > Len(levels[s])

(* Mutant: the review is not looked at. *)
EvidenceBacks_Any(row, kind) ==
    kind \in {"change_evidence", "validation_evidence"} \/ row.authority # "ai_inferred"

(* trg_project_capability_basis_evidence_authority *)
EvidenceBacks(row, kind) ==
    /\ row.status = "accepted"
    /\ row.authority # "ai_inferred"
    /\ \/ kind = "code_evidence" /\ row.authority = "code_verified"
       \/ kind = "document_evidence" /\ row.authority = "document_supported"
       \/ kind = "user_confirmation" /\ row.authority = "user_confirmed"
       \/ kind = "change_evidence" /\ row.kind = "change"
       \/ kind = "validation_evidence" /\ row.kind = "validation"

(* trg_project_capability_basis_approval_authority: for exactly this revision. *)
ApprovalBacks(s, r) == <<s, r>> \in approvals

InsertBasis ==
    /\ \E b \in BasisRow :
        /\ Open(b.state, b.revision)
        /\ IF b.kind = "resume_approval"
           THEN /\ b.evidence = None
                /\ b.evidence_revision = 0
                /\ ApprovalBacks(b.state, b.revision)
           ELSE /\ b.evidence # None
                /\ b.evidence_revision \in DOMAIN evidence[b.evidence]
                /\ EvidenceBacks(evidence[b.evidence][b.evidence_revision], b.kind)
        /\ basis' = basis \cup {b}
    /\ UNCHANGED <<evidence, approvals, levels, tasks>>

BasisOf(s, r) == {b \in basis : b.state = s /\ b.revision = r}

(* trg_project_capability_state_basis_scope *)
SameProject(bs, project) ==
    \A b \in bs : b.evidence # None => evidence[b.evidence][b.evidence_revision].project = project

(* trg_project_capability_insert_basis and state_requires_appropriate_basis *)
Sufficient(kinds, level) ==
    CASE level = "existing" ->
            kinds \cap {"code_evidence", "document_evidence", "user_confirmation"} # {}
      [] level = "understood" -> "user_confirmation" \in kinds
      [] level = "modified" -> {"change_evidence", "user_confirmation"} \subseteq kinds
      [] level = "validated" -> "validation_evidence" \in kinds
      [] level = "resume_ready" -> {"validation_evidence", "resume_approval"} \subseteq kinds

(* trg_project_capability_stable_identity *)
SameIdentity(s, project) == \A r \in DOMAIN levels[s] : levels[s][r].project = project

InsertLevel ==
    /\ \E s \in State, row \in LevelRow :
        LET r == Len(levels[s]) + 1 IN
        /\ r <= MaxRevision
        /\ SameProject(BasisOf(s, r), row.project)
        /\ Sufficient({b.kind : b \in BasisOf(s, r)}, row.level)
        /\ SameIdentity(s, row.project)
        /\ levels' = [levels EXCEPT ![s] = Appended(@, row)]
    /\ UNCHANGED <<evidence, approvals, basis, tasks>>

-----------------------------------------------------------------------------
(* ProjectEnhancementTaskWrite.stage: the gap is a canonical one. *)
StageTask(t, row) ==
    /\ tasks[t] = <<>>
    /\ row.status = "proposed"
    /\ row.capability = GapCapability[row.gap]
    /\ tasks' = [tasks EXCEPT ![t] = Appended(@, row)]

ProposeTask ==
    /\ \E t \in Task, project \in Project, gap \in Gap, capability \in Capability,
          actor \in User \cup Agent :
        StageTask(t, [project |-> project, gap |-> gap, capability |-> capability,
                      status |-> "proposed", by |-> actor])
    /\ UNCHANGED <<evidence, approvals, basis, levels>>

(* Mutant: what is under way can be completed without a validation. *)
AllowedFrom_Skip(from) ==
    CASE from = "proposed" -> {"ready", "in_progress", "cancelled"}
      [] from = "ready" -> {"in_progress", "cancelled"}
      [] from = "in_progress" -> {"awaiting_validation", "completed", "cancelled"}
      [] from = "awaiting_validation" -> {"completed", "in_progress"}
      [] OTHER -> {}

(* ALLOWED_ENHANCEMENT_TRANSITIONS *)
AllowedFrom(from) ==
    CASE from = "proposed" -> {"ready", "in_progress", "cancelled"}
      [] from = "ready" -> {"in_progress", "cancelled"}
      [] from = "in_progress" -> {"awaiting_validation", "cancelled"}
      [] from = "awaiting_validation" -> {"completed", "in_progress"}
      [] OTHER -> {}

LatestTask(t) == tasks[t][Len(tasks[t])]

(* ProjectEnhancementTaskStatusWrite.stage: everything else is copied. *)
StageStatus(t, to, actor) ==
    /\ to \in AllowedFrom(LatestTask(t).status)
    /\ tasks' = [tasks EXCEPT ![t] =
            Appended(@, [LatestTask(t) EXCEPT !.status = to, !.by = actor])]

TransitionTask ==
    /\ \E t \in Task, to \in Status, actor \in User \cup Agent :
        /\ tasks[t] # <<>>
        /\ Len(tasks[t]) < 2 * MaxRevision + 2
        /\ StageStatus(t, to, actor)
    /\ UNCHANGED <<evidence, approvals, basis, levels>>

LevelNext == InsertEvidence \/ MarkStale \/ Approve \/ InsertBasis \/ InsertLevel

TaskNext == ProposeTask \/ TransitionTask

ProjectNext == LevelNext \/ TaskNext

ProjectSpec == ProjectInit /\ [][ProjectNext]_projectVars

-----------------------------------------------------------------------------
(* The tables of migration 0004. *)
EvidenceTable == [Evidence -> Seq(EvidenceRow)]
BasisTable == SUBSET BasisRow
LevelTable == [State -> Seq(LevelRow)]
TaskTable == [Task -> Seq(TaskRow)]

(* The rows satisfy the tables' constraints. *)
ProjectTypeOK ==
    /\ evidence \in EvidenceTable
    /\ basis \in BasisTable
    /\ levels \in LevelTable
    /\ tasks \in TaskTable

(* A level is earned, in whatever order its bases came: each of them is accepted
   evidence of the level's own project that no agent inferred, and only what the
   user has approved in this very revision is ready for a resume. *)
LevelIsEarned ==
    \A s \in State : \A r \in DOMAIN levels[s] :
        LET bs == BasisOf(s, r) IN
        /\ \A b \in bs : b.evidence # None =>
            LET row == evidence[b.evidence][b.evidence_revision] IN
            /\ row.project = levels[s][r].project
            /\ row.status = "accepted"
            /\ row.authority # "ai_inferred"
        /\ levels[s][r].level # "existing" =>
            \E b \in bs : b.evidence = None \/
                evidence[b.evidence][b.evidence_revision].kind \in {"change", "validation"} \/
                evidence[b.evidence][b.evidence_revision].authority = "user_confirmed"
        /\ levels[s][r].level = "resume_ready" => <<s, r>> \in approvals

(* Evidence goes stale once, and keeps what it said and how it was judged. *)
StaleKeepsTheRest ==
    \A e \in Evidence : \A r \in DOMAIN evidence[e] :
        /\ r > 1 => evidence[e][r] = [evidence[e][1] EXCEPT !.freshness = "stale"]
        /\ r <= 2

(* A completed task has been worked on and has awaited its validation, whatever
   detours it took; what has ended stays ended; and all along it is about the gap,
   and the capability, that it was proposed for. *)
TasksRunTheirCourse ==
    \A t \in Task : \A r \in DOMAIN tasks[t] :
        /\ tasks[t][r].status = "completed" =>
            /\ r > 3
            /\ tasks[t][r - 1].status = "awaiting_validation"
            /\ tasks[t][r - 2].status = "in_progress"
        /\ tasks[t][r].status \in {"completed", "cancelled"} => r = Len(tasks[t])
        /\ tasks[t][r].gap = tasks[t][1].gap
        /\ tasks[t][r].capability = GapCapability[tasks[t][1].gap]
=============================================================================
