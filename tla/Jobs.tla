--------------------------------- MODULE Jobs ---------------------------------
(***************************************************************************)
(* Jobs and their requirements: services/job_service.py and                *)
(* db/job_writes.py over the tables of migration 0008.  A job is a list of *)
(* page revisions; a requirement quotes one of them, is proposed and then  *)
(* reviewed by the user, who maps it to a capability of an official graph. *)
(* Every operation is one command, as in Facts.                            *)
(***************************************************************************)
EXTENDS Integers, Sequences, FiniteSets

CONSTANTS
    Job, Requirement,   \* ids
    Page,               \* contents of a job page
    Scope,              \* evidence scopes a requirement may ask for
    Capability, GraphVersion,
    OfficialNode,       \* capability_node: the pairs that released graphs hold
    User, Agent,        \* actors
    MaxJobRevision,
    None

JobAssumption == MaxJobRevision \in Nat

VARIABLES
    jobs,         \* job_revision, by job: first to last
    requirements  \* job_requirement_revision, by requirement: first to last

jobVars == <<jobs, requirements>>

Mapping == [capability : Capability, graph : GraphVersion]

(* A requirement's rows: a review is complete, an accepted one is mapped. *)
RequirementRow ==
    {row \in [job : Job, job_revision : 1..MaxJobRevision, scopes : (SUBSET Scope) \ {{}},
              maps : Mapping \cup {None},
              status : {"proposed", "accepted", "rejected", "superseded"},
              proposed_by : User \cup Agent, reviewed_by : User \cup {None}] :
        /\ (row.status = "proposed") <=> (row.reviewed_by = None)
        /\ row.status = "accepted" => row.maps # None}

(* A revision enters its table together with its scopes and its evidence, and
   never changes. *)
SealedRevision(rows, row) == Append(rows, row)

(* JobRequirement's validators. *)
Complete(row) ==
    /\ (row.status = "proposed") <=> (row.reviewed_by = None)
    /\ row.reviewed_by \notin Agent
    /\ row.status = "accepted" => row.maps # None

(* get_requirement: the row of an exact revision with what is listed beside it. *)
ReadRequirement(q, r) == requirements[q][r]

JobInit ==
    /\ jobs = [j \in Job |-> <<>>]
    /\ requirements = [q \in Requirement |-> <<>>]

(* JobRevisionWrite.stage *)
StageJob(j, page) == jobs' = [jobs EXCEPT ![j] = SealedRevision(@, page)]

RecordRevision ==
    /\ \E j \in Job, page \in Page :
        /\ Len(jobs[j]) < MaxJobRevision
        /\ StageJob(j, page)
    /\ UNCHANGED requirements

(* The exact revision of the job a requirement quotes has been recorded. *)
Quotable(j, r) == r \in DOMAIN jobs[j]

(* Mutant: any capability of any graph. *)
Official_Any(maps) == TRUE

(* capability_node holds the pair. *)
Official(maps) == maps # None /\ <<maps.capability, maps.graph>> \in OfficialNode

(* JobRequirementWrite.stage *)
StageRequirement(q, row) ==
    /\ Quotable(row.job, row.job_revision)
    /\ row.status = "accepted" => Official(row.maps)
    /\ requirements[q] # <<>> => requirements[q][1].job = row.job
    /\ requirements' = [requirements EXCEPT ![q] = SealedRevision(@, row)]

(* Whoever proposes may already name a capability; it is checked on acceptance. *)
ProposeRequirement(actor) ==
    /\ \E q \in Requirement, j \in Job, r \in 1..MaxJobRevision, scopes \in (SUBSET Scope) \ {{}},
          maps \in Mapping \cup {None} :
        /\ requirements[q] = <<>>
        /\ StageRequirement(q, [job |-> j, job_revision |-> r, scopes |-> scopes, maps |-> maps,
                                status |-> "proposed", proposed_by |-> actor,
                                reviewed_by |-> None])
    /\ UNCHANGED jobs

Reviewable(q, r) ==
    r = Len(requirements[q]) /\ r > 0 /\ requirements[q][r].status = "proposed"

(* The review replaces the proposed mapping by the user's, none included. *)
ReviewRequirement(actor) ==
    /\ actor \in User
    /\ \E q \in Requirement, decision \in {"accepted", "rejected", "superseded"},
          maps \in Mapping \cup {None} :
        \E r \in DOMAIN requirements[q] :
            LET row == [ReadRequirement(q, r) EXCEPT !.status = decision, !.maps = maps,
                                                     !.reviewed_by = actor] IN
            /\ Reviewable(q, r)
            /\ Complete(row)
            /\ StageRequirement(q, row)
    /\ UNCHANGED jobs

JobNext ==
    \/ RecordRevision
    \/ \E actor \in User \cup Agent : ProposeRequirement(actor) \/ ReviewRequirement(actor)

JobSpec == JobInit /\ [][JobNext]_jobVars

-----------------------------------------------------------------------------
(* The tables of migration 0008. *)
JobTable == [Job -> Seq(Page)]
RequirementTable == [Requirement -> Seq(RequirementRow)]

(* The rows satisfy the tables' constraints. *)
JobTypeOK ==
    /\ jobs \in JobTable
    /\ \A j \in Job : Len(jobs[j]) <= MaxJobRevision
    /\ requirements \in RequirementTable

(* An accepted requirement can be traced: a user accepted it, it quotes a recorded
   revision of its job, maps to a released capability, and what was accepted is what
   was proposed. *)
AcceptedIsTraceable ==
    \A q \in Requirement : \A r \in DOMAIN requirements[q] :
        LET row == requirements[q][r] IN
        /\ row.job_revision \in DOMAIN jobs[row.job]
        /\ row.status = "accepted" =>
            /\ r = 2
            /\ row.reviewed_by \in User
            /\ <<row.maps.capability, row.maps.graph>> \in OfficialNode
            /\ LET proposal == requirements[q][1] IN
                /\ proposal.status = "proposed"
                /\ <<row.job, row.job_revision, row.scopes>> =
                    <<proposal.job, proposal.job_revision, proposal.scopes>>
=============================================================================
