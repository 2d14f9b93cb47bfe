--------------------------------- MODULE Facts ---------------------------------
(***************************************************************************)
(* Career facts: services/fact_service.py and db/fact_writes.py over the   *)
(* tables of migration 0010.  A claim is proposed with its evidence,       *)
(* reviewed, and then stands behind the facts promoted from it.  Every     *)
(* write is one command: the revision it expects is compared in the        *)
(* transaction that appends the next one, and the rows a service reads     *)
(* before the transaction can never change, so an operation is one step.   *)
(* A value stands for a claim's type and value, an evidence set for the    *)
(* numbered list of references.                                            *)
(***************************************************************************)
EXTENDS Integers, Sequences, FiniteSets, NoValue

CONSTANTS
    Claim, Fact,        \* ids
    Subject, Value, Candidate,
    Evidence,           \* ids of references that may exist
    User, Rule, Agent,  \* actors: "user", "rule:..." and everybody else
    MaxFactRevision

Actor == User \cup Rule \cup Agent

ASSUME NoneAssumption == None \notin Actor

Authority == {"user_asserted", "document_supported", "rule_verified"}

VARIABLES
    evidence,  \* evidence_ref
    claims,    \* extracted_claim_revision with its evidence, by claim: first to last
    facts,     \* fact_revision with its evidence, by fact: first to last
    owner      \* fact_identity: the candidate a fact belongs to

factVars == <<evidence, claims, facts, owner>>

(* A claim's rows: the review fields come with the decision. *)
ClaimRow ==
    {row \in [subject : Subject, value : Value, refs : (SUBSET Evidence) \ {{}},
              status : {"proposed", "accepted", "rejected", "superseded"},
              proposed_by : Actor, reviewed_by : User \cup Rule \cup {None}] :
        (row.status = "proposed") <=> (row.reviewed_by = None)}

FactRow ==
    [subject : Subject, value : Value, refs : SUBSET Evidence, authority : Authority,
     claim : Claim, claim_revision : {1, 2}, verified_by : User \cup Rule]

(* A revision enters its table together with its evidence, complete and in order,
   and neither ever changes. *)
Sealed(rows, row) == Append(rows, row)

(* get_claim: the row of an exact revision with the evidence listed beside it. *)
ReadClaim(c, r) == claims[c][r]

FactInit ==
    /\ evidence = {}
    /\ claims = [c \in Claim |-> <<>>]
    /\ facts = [f \in Fact |-> <<>>]
    /\ owner = [f \in Fact |-> None]

(* Documents and job pages register the references they can be cited by. *)
RegisterEvidence ==
    /\ \E e \in Evidence \ evidence : evidence' = evidence \cup {e}
    /\ UNCHANGED <<claims, facts, owner>>

(* _require_evidence_refs *)
Registered(refs) == refs \subseteq evidence

(* ExtractedClaimWrite.stage: the identity is new. *)
StageClaim(c, row) ==
    /\ claims[c] = <<>>
    /\ Registered(row.refs)
    /\ claims' = [claims EXCEPT ![c] = Sealed(@, row)]

ProposeClaim(actor) ==
    /\ \E c \in Claim, s \in Subject, v \in Value, refs \in (SUBSET Evidence) \ {{}} :
        StageClaim(c, [subject |-> s, value |-> v, refs |-> refs, status |-> "proposed",
                       proposed_by |-> actor, reviewed_by |-> None])
    /\ UNCHANGED <<evidence, facts, owner>>

(* Mutant: any revision can be reviewed. *)
Proposal_Any(c, r) == r \in DOMAIN claims[c]

(* The exact revision a review expects is a proposal, and it is the last one. *)
Proposal(c, r) == r = Len(claims[c]) /\ r > 0 /\ claims[c][r].status = "proposed"

(* Mutant: the proposer is not compared. *)
MayReview_Anyone(actor, row) == actor \in User \cup Rule

(* Users and rules review, never their own proposal. *)
MayReview(actor, row) == actor \in User \cup Rule /\ actor # row.proposed_by

(* ClaimReviewWrite.stage: a revision is appended to the claim. *)
StageReview(c, row) ==
    /\ Registered(row.refs)
    /\ claims' = [claims EXCEPT ![c] = Sealed(@, row)]

ReviewClaim(actor) ==
    /\ \E c \in Claim, decision \in {"accepted", "rejected", "superseded"} :
        \E r \in DOMAIN claims[c] :
            /\ Proposal(c, r)
            /\ MayReview(actor, ReadClaim(c, r))
            /\ StageReview(c, [ReadClaim(c, r) EXCEPT !.status = decision, !.reviewed_by = actor])
    /\ UNCHANGED <<evidence, facts, owner>>

(* The exact revision a promotion names has been accepted. *)
Accepted(c, r) == r \in DOMAIN claims[c] /\ claims[c][r].status = "accepted"

(* Mutant: the value of a first promotion is the caller's. *)
Carries_Override(row, v, refs) == TRUE

(* The first revision of a fact is its claim, word for word. *)
Carries(row, v, refs) == row.value = v /\ row.refs = refs

(* FactPromotionWrite.stage: the candidate a fact belongs to is the first one's. *)
StageFact(f, row, k) ==
    /\ Accepted(row.claim, row.claim_revision)
    /\ facts[f] = <<>> => Carries(ReadClaim(row.claim, row.claim_revision), row.value, row.refs)
    /\ Registered(row.refs)
    /\ facts[f] # <<>> => owner[f] = k
    /\ facts' = [facts EXCEPT ![f] = Sealed(@, row)]
    /\ owner' = [owner EXCEPT ![f] = k]

(* promote_fact: a correction names an accepted claim as well, but may say
   something else and cite other evidence. *)
PromoteFact(actor) ==
    /\ actor \in User \cup Rule
    /\ \E f \in Fact, c \in Claim, v \in Value, refs \in SUBSET evidence,
          authority \in Authority, k \in Candidate \cup {None} :
        \E r \in DOMAIN claims[c] :
            /\ Len(facts[f]) < MaxFactRevision
            /\ StageFact(f, [subject |-> ReadClaim(c, r).subject, value |-> v, refs |-> refs,
                             authority |-> authority, claim |-> c, claim_revision |-> r,
                             verified_by |-> actor], k)
    /\ UNCHANGED <<evidence, claims>>

FactNext ==
    \/ RegisterEvidence
    \/ \E actor \in Actor : ProposeClaim(actor) \/ ReviewClaim(actor) \/ PromoteFact(actor)

FactSpec == FactInit /\ [][FactNext]_factVars

-----------------------------------------------------------------------------
(* The tables of migrations 0007 and 0010: references that never change, and
   revisions numbered from one. *)
EvidenceTable == SUBSET Evidence
ClaimTable == [Claim -> Seq(ClaimRow)]
FactTable == [Fact -> Seq(FactRow)]
OwnerTable == [Fact -> Candidate \cup {None}]

(* The rows satisfy the tables' constraints. *)
FactTypeOK ==
    /\ evidence \in EvidenceTable
    /\ claims \in ClaimTable
    /\ facts \in FactTable
    /\ owner \in OwnerTable

(* A claim is decided at most once, and the decision changes nothing else of it. *)
DecidedOnce ==
    \A c \in Claim :
        /\ Len(claims[c]) <= 2
        /\ Len(claims[c]) = 2 =>
            /\ claims[c][1].status = "proposed"
            /\ claims[c][2] = [claims[c][1] EXCEPT !.status = claims[c][2].status,
                                                   !.reviewed_by = claims[c][2].reviewed_by]

StandsOnClaim(row) ==
    /\ row.claim_revision \in DOMAIN claims[row.claim]
    /\ LET claim == claims[row.claim][row.claim_revision] IN
        /\ claim.status = "accepted"
        /\ claim.reviewed_by \in User \cup Rule
        /\ claim.reviewed_by # claim.proposed_by
        /\ claim.subject = row.subject

(* Behind every revision of a fact stand three actors' steps: somebody proposed the
   claim, a user or a rule that is not the proposer accepted it, a user or a rule
   promoted it.  No agent, and no single actor, makes a fact. *)
TwoActorsBehindAFact ==
    \A f \in Fact : \A r \in DOMAIN facts[f] : StandsOnClaim(facts[f][r])

(* What a fact first said is what was reviewed: its value and its evidence are those
   of the accepted claim, and there is evidence. *)
FirstSaysWhatWasReviewed ==
    \A f \in Fact :
        facts[f] # <<>> =>
            LET row == facts[f][1]  claim == claims[row.claim][row.claim_revision] IN
            /\ row.value = claim.value
            /\ row.refs = claim.refs
            /\ row.refs # {}

(* The tables hold what was reviewed: a claim is decided once, two actors stand behind
   every fact, no agent alone, and a fact first says what its claim said. *)
FactsAreReviewed ==
    FactTypeOK /\ DecidedOnce /\ TwoActorsBehindAFact /\ FirstSaysWhatWasReviewed
=============================================================================
