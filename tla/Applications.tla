----------------------------- MODULE Applications -----------------------------
(***************************************************************************)
(* Applications, their interviews and their outcomes                       *)
(* (services/application_service.py, services/interview_service.py and     *)
(* their writes), and the turns of an interview session.  Every change is  *)
(* a command of the user that names the revision it was written against.   *)
(* The services build the next revision from that stored revision, which   *)
(* never changes, and the write path commits it only on top of it, so a    *)
(* command is one action here; only a session turn reads before it writes. *)
(* Dates, rounds and wording are left out.                                 *)
(***************************************************************************)
EXTENDS Integers, Sequences, NoValue

CONSTANTS
    Opportunity,        \* exact opportunity revisions
    Application, Interview, Outcome, Session,
    Resume,             \* resume revisions
    Receipt, OtherEvidence,
    Turn,               \* threads that append a session turn
    MaxApplicationRevision, MaxTurns

EvidenceRef == Receipt \cup OtherEvidence

(* The values of a column are never the null of that column. *)
ApplicationAssumption ==
    /\ None \notin Opportunity \cup Resume \cup EvidenceRef
    /\ None \notin {"user_confirmed", "portal_receipt"}
    /\ MaxApplicationRevision \in Nat
    /\ MaxTurns \in Nat

Preparation == {"preparing", "ready_for_review"}
Schedulable == {"submitted_by_user", "screen", "oa", "interview", "offer"}
State == Preparation \cup Schedulable \cup {"rejected", "withdrawn", "closed"}

(* application_revision_record with its CHECKs: model_copy validates nothing, so
   they are what stops a malformed revision. *)
ApplicationRow ==
    {row \in [state : State, resume : Resume \cup {None},
              authority : {"user_confirmed", "portal_receipt", None},
              receipt : EvidenceRef \cup {None}] :
        /\ row.state \in Preparation => row.authority = None /\ row.receipt = None
        /\ row.state \notin Preparation => row.resume # None /\ row.authority # None
        /\ row.authority = "portal_receipt" => row.receipt # None}

(* interview_revision_record. *)
InterviewRow == [status : {"scheduled", "completed", "cancelled"}, evidence : SUBSET EvidenceRef]

(* outcome_record, with the CHECK on a portal receipt. *)
OutcomeRow ==
    {row \in [application : Application, revision : 1..MaxApplicationRevision,
              authority : {"user_confirmed", "portal_receipt"}, evidence : SUBSET EvidenceRef] :
        row.authority = "portal_receipt" => row.evidence # {}}

VARIABLES
    applied,       \* application_identity: the opportunity revision applied for
    applications,  \* application_revision_record, revision by revision
    interviewed,   \* interview_identity: the application revision interviewed for
    interviews,    \* interview_revision_record, revision by revision
    outcomes,      \* outcome_record with its evidence
    turns,         \* interview_session_event
    speaking       \* what each thread appending a turn has read

applicationVars == <<applied, applications, interviewed, interviews, outcomes, turns, speaking>>

Silent == [session |-> None, interview |-> None, refs |-> {}, last |-> 0]

ApplicationInit ==
    /\ applied = [a \in Application |-> None]
    /\ applications = [a \in Application |-> <<>>]
    /\ interviewed = [i \in Interview |-> None]
    /\ interviews = [i \in Interview |-> <<>>]
    /\ outcomes = [o \in Outcome |-> None]
    /\ turns = {}
    /\ speaking = [t \in Turn |-> Silent]

(* _is_submission_receipt *)
IsReceipt(evidence) == evidence \in Receipt

(* trg_application_submission_stable: what has been submitted cannot change. *)
SubmissionStable(a, row) ==
    \A n \in DOMAIN applications[a] :
        LET prior == applications[a][n] IN
        prior.authority # None =>
            /\ prior.resume = row.resume
            /\ prior.authority = row.authority
            /\ prior.receipt = row.receipt

(* ApplicationWrite.stage on top of the newest revision. *)
StageApplication(a, opportunity, row) ==
    /\ Len(applications[a]) < MaxApplicationRevision
    /\ applied[a] \in {None, opportunity}
    /\ row.authority = "portal_receipt" => IsReceipt(row.receipt)
    /\ row \in ApplicationRow
    /\ SubmissionStable(a, row)
    /\ applied' = [applied EXCEPT ![a] = opportunity]
    /\ applications' = [applications EXCEPT ![a] = Append(@, row)]
    /\ UNCHANGED <<interviewed, interviews, outcomes, turns, speaking>>

CreateApplication(a) ==
    /\ applications[a] = <<>>
    /\ \E opportunity \in Opportunity :
        StageApplication(a, opportunity,
            [state |-> "preparing", resume |-> None, authority |-> None, receipt |-> None])

(* _exact_application: the revision the command names is the newest one when the
   command commits. *)
Exact(a) == applications[a][Len(applications[a])]

Revise(a, row) == StageApplication(a, applied[a], row)

SetPreparationState(a) ==
    /\ applications[a] # <<>>
    /\ \/ /\ Exact(a).state = "preparing"
          /\ Revise(a, [Exact(a) EXCEPT !.state = "ready_for_review"])
       \/ /\ Exact(a).state = "ready_for_review"
          /\ Revise(a, [Exact(a) EXCEPT !.state = "preparing"])

AttachPreparedResume(a) ==
    /\ applications[a] # <<>>
    /\ Exact(a).state \in Preparation
    /\ \E resume \in Resume : Revise(a, [Exact(a) EXCEPT !.resume = resume])

(* Mutant: a submission is recorded again. *)
RecordSubmission_Again(a) ==
    /\ applications[a] # <<>>
    /\ Exact(a).state \in {"ready_for_review", "submitted_by_user"}
    /\ \E resume \in Resume :
        Revise(a, [state |-> "submitted_by_user", resume |-> resume,
                   authority |-> "user_confirmed", receipt |-> None])

(* The resume submitted need not be the one attached before. *)
RecordSubmission(a) ==
    /\ applications[a] # <<>>
    /\ Exact(a).state = "ready_for_review"
    /\ \E resume \in Resume :
        \/ Revise(a, [state |-> "submitted_by_user", resume |-> resume,
                      authority |-> "user_confirmed", receipt |-> None])
        \/ \E receipt \in Receipt :
            Revise(a, [state |-> "submitted_by_user", resume |-> resume,
                       authority |-> "portal_receipt", receipt |-> receipt])

(* _POST_SUBMISSION_TRANSITIONS *)
PostSubmission ==
    LET end == {"offer", "rejected", "withdrawn", "closed"} IN
    [state \in State |->
        CASE state = "submitted_by_user" -> end \cup {"screen", "oa", "interview"}
          [] state = "screen" -> end \cup {"oa", "interview"}
          [] state = "oa" -> end \cup {"interview"}
          [] state = "interview" -> end
          [] OTHER -> {}]

AdvanceState(a) ==
    /\ applications[a] # <<>>
    /\ \E state \in PostSubmission[Exact(a).state] :
        Revise(a, [Exact(a) EXCEPT !.state = state])

(* record_outcome and OutcomeWrite.stage: an outcome is of a revision, not
   necessarily the newest one, and is not compared with its state. *)
RecordOutcome(o) ==
    /\ outcomes[o] = None
    /\ \E a \in Application : \E n \in DOMAIN applications[a] :
       \E authority \in {"user_confirmed", "portal_receipt"}, refs \in SUBSET EvidenceRef :
        /\ applications[a][n].state \notin Preparation
        /\ authority = "portal_receipt" => \E e \in refs : IsReceipt(e)
        /\ outcomes' = [outcomes EXCEPT ![o] =
            [application |-> a, revision |-> n, authority |-> authority, evidence |-> refs]]
    /\ UNCHANGED <<applied, applications, interviewed, interviews, turns, speaking>>

(* InterviewWrite.stage on top of the newest revision. *)
StageInterview(i, identity, row) ==
    /\ interviewed[i] \in {None, identity}
    /\ row \in InterviewRow
    /\ interviews[i] = <<>> => row.status = "scheduled"
    /\ interviewed' = [interviewed EXCEPT ![i] = identity]
    /\ interviews' = [interviews EXCEPT ![i] = Append(@, row)]
    /\ UNCHANGED <<applied, applications, outcomes, turns, speaking>>

(* Mutant: the application need not have been submitted. *)
ScheduleInterview_Early(i) ==
    /\ interviews[i] = <<>>
    /\ \E a \in Application : \E n \in DOMAIN applications[a] :
        StageInterview(i, <<a, n>>, [status |-> "scheduled", evidence |-> {}])

(* The revision may be an old one: the newest may be terminal. *)
ScheduleInterview(i) ==
    /\ interviews[i] = <<>>
    /\ \E a \in Application : \E n \in DOMAIN applications[a], refs \in SUBSET EvidenceRef :
        /\ applications[a][n].state \in Schedulable
        /\ StageInterview(i, <<a, n>>, [status |-> "scheduled", evidence |-> refs])

(* Mutant: an interview that is over can be completed or cancelled. *)
InterviewTransition_Again(i, status, refs) ==
    /\ interviews[i] # <<>>
    /\ Len(interviews[i]) < 3
    /\ StageInterview(i, interviewed[i], [status |-> status, evidence |-> refs])

(* _transition *)
InterviewTransition(i, status, refs) ==
    /\ interviews[i] # <<>>
    /\ interviews[i][Len(interviews[i])].status = "scheduled"
    /\ StageInterview(i, interviewed[i], [status |-> status, evidence |-> refs])

(* complete_interview may replace the evidence, cancel_interview keeps it. *)
EndInterview(i) ==
    /\ interviews[i] # <<>>
    /\ \/ \E refs \in SUBSET EvidenceRef : InterviewTransition(i, "completed", refs)
       \/ InterviewTransition(i, "cancelled", interviews[i][Len(interviews[i])].evidence)

(* append_session_event, and the reading of the last sequence number: the
   interview's newest revision must hold the evidence the turn cites; the
   session may be another interview's. *)
Speak(t) ==
    /\ speaking[t] = Silent
    /\ \E i \in Interview, s \in Session :
        /\ interviews[i] # <<>>
        /\ \E refs \in SUBSET interviews[i][Len(interviews[i])].evidence :
            LET sequences == {e.sequence : e \in {x \in turns : x.session = s}} IN
            speaking' = [speaking EXCEPT ![t] =
                [session |-> s, interview |-> i, refs |-> refs,
                 last |-> CHOOSE n \in sequences \cup {0} : \A m \in sequences : m <= n]]
    /\ UNCHANGED <<applied, applications, interviewed, interviews, outcomes, turns>>

(* Mutant: no UNIQUE(session_id, sequence). *)
Free_Any(s, n) == TRUE

(* uq_interview_session_sequence *)
Free(s, n) == ~\E e \in turns : e.session = s /\ e.sequence = n

AppendTurn(t) ==
    /\ speaking[t] # Silent
    /\ LET said == speaking[t]  n == said.last + 1 IN
        turns' = IF Free(said.session, n) /\ n <= MaxTurns
                 THEN turns \cup {[session |-> said.session, sequence |-> n,
                                   interview |-> said.interview, refs |-> said.refs]}
                 ELSE turns
    /\ speaking' = [speaking EXCEPT ![t] = Silent]
    /\ UNCHANGED <<applied, applications, interviewed, interviews, outcomes>>

ApplicationNext ==
    \/ \E a \in Application :
        CreateApplication(a) \/ SetPreparationState(a) \/ AttachPreparedResume(a)
            \/ RecordSubmission(a) \/ AdvanceState(a)
    \/ \E o \in Outcome : RecordOutcome(o)
    \/ \E i \in Interview : ScheduleInterview(i) \/ EndInterview(i)
    \/ \E t \in Turn : Speak(t) \/ AppendTurn(t)

ApplicationSpec == ApplicationInit /\ [][ApplicationNext]_applicationVars

-----------------------------------------------------------------------------
(* Every stored row satisfies its table's constraints, and an interview and an
   outcome name a stored revision (the foreign keys). *)
ApplicationTypeOK ==
    /\ \A a \in Application : \A n \in DOMAIN applications[a] :
        applications[a][n] \in ApplicationRow
    /\ \A a \in Application : applied[a] = None <=> applications[a] = <<>>
    /\ \A i \in Interview :
        /\ interviews[i] # <<>> =>
            interviewed[i][2] \in DOMAIN applications[interviewed[i][1]]
        /\ \A n \in DOMAIN interviews[i] : interviews[i][n] \in InterviewRow
    /\ \A o \in Outcome : outcomes[o] # None =>
        /\ outcomes[o] \in OutcomeRow
        /\ outcomes[o].revision \in DOMAIN applications[outcomes[o].application]

Rank(state) ==
    CASE state = "submitted_by_user" -> 1 [] state = "screen" -> 2 [] state = "oa" -> 3
      [] state = "interview" -> 4 [] OTHER -> 5

(* Once submitted, an application only moves on: no revision after the
   submission repeats or goes back to an earlier stage, nothing follows a final
   one, and every one carries the resume, authority and receipt submitted. *)
SubmittedMovesOn ==
    \A a \in Application : \A m, n \in DOMAIN applications[a] :
        LET before == applications[a][m]  after == applications[a][n] IN
        (m < n /\ before.state \notin Preparation) =>
            /\ after.state \notin Preparation
            /\ Rank(before.state) < Rank(after.state)
            /\ after = [before EXCEPT !.state = after.state]

(* Whatever was attached, scheduled or recorded in which order, an interview and
   an outcome stand for an application that has been submitted, with the very
   submission its newest revision carries. *)
StandsOnSubmission ==
    LET Submitted(a, n) ==
            /\ applications[a][n].authority # None
            /\ applications[a][n].resume = Exact(a).resume
            /\ applications[a][n].receipt = Exact(a).receipt
    IN /\ \A i \in Interview : interviews[i] # <<>> =>
            Submitted(interviewed[i][1], interviewed[i][2])
       /\ \A o \in Outcome : outcomes[o] # None =>
            Submitted(outcomes[o].application, outcomes[o].revision)

(* An interview ends at most once, whoever completes or cancels it. *)
EndsOnce ==
    \A i \in Interview :
        /\ Len(interviews[i]) <= 2
        /\ \A n \in DOMAIN interviews[i] : interviews[i][n].status = "scheduled" <=> n = 1

(* An application is submitted once and its later revisions carry what was submitted;
   interviews and outcomes rest on that submission; and an interview ends at most once,
   whoever completes or cancels it. *)
SubmissionsHold == ApplicationTypeOK /\ SubmittedMovesOn /\ StandsOnSubmission /\ EndsOnce

(* Concurrent turns of a session are numbered without a gap or a repetition, and
   cite only evidence that some revision of their interview held. *)
TurnsAreNumbered ==
    \A s \in Session :
        LET said == {e \in turns : e.session = s} IN
        /\ \A e, f \in said : e.sequence = f.sequence => e = f
        /\ \A e \in said : e.sequence = 1 \/ \E f \in said : f.sequence = e.sequence - 1
        /\ \A e \in said : \E n \in DOMAIN interviews[e.interview] :
            e.refs \subseteq interviews[e.interview][n].evidence
=============================================================================
