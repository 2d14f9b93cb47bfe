----------------------------- MODULE EvidenceProofs -----------------------------
(***************************************************************************)
(* What Facts, Jobs, Matching and Capabilities promise, proved for any     *)
(* number of claims, facts, requirements, assessments, candidates and      *)
(* actors.  A reviewed claim never changes again (ClaimsOnlyGrow), so that *)
(* what was true of a claim when a fact was promoted from it stays true;   *)
(* nor does what was resolved for an assessment, or a released version of  *)
(* the graph.  The rest of each inductive invariant says what reviewed     *)
(* rows look like and what a planned review holds.                         *)
(***************************************************************************)
EXTENDS MCEvidence, FiniteSetTheorems, WellFoundedInduction, TLAPS

(* The tables are sequences of rows. *)
Tables ==
    /\ evidence \subseteq Evidence
    /\ claims \in [Claim -> Seq(ClaimRow)]
    /\ facts \in [Fact -> Seq(FactRow)]
    /\ owner \in [Fact -> Candidate \cup {None}]

(* An accepted claim was accepted by a user or a rule that did not propose it. *)
AcceptedByAnother ==
    \A c \in Claim : \A r \in DOMAIN claims[c] :
        claims[c][r].status = "accepted" =>
            /\ claims[c][r].reviewed_by \in User \cup Rule
            /\ claims[c][r].reviewed_by # claims[c][r].proposed_by

(* A second revision is a decision, which cannot be reviewed again. *)
DecisionIsFinal ==
    \A c \in Claim : Len(claims[c]) = 2 => claims[c][2].status # "proposed"

ClaimInv == AcceptedByAnother /\ DecidedOnce /\ DecisionIsFinal

IInv == Tables /\ ClaimInv /\ TwoActorsBehindAFact /\ FirstSaysWhatWasReviewed

-----------------------------------------------------------------------------
(* A claim begins with a proposal (propose_claim of fact_service.py). *)
Begins(c, row) ==
    /\ claims[c] = <<>>
    /\ row.status = "proposed"
    /\ claims' = [claims EXCEPT ![c] = Append(@, row)]

Last(c) == claims[c][Len(claims[c])]

(* A proposal is decided (review_claim). *)
Decides(c, actor, decision) ==
    /\ actor \in User \cup Rule
    /\ Len(claims[c]) > 0
    /\ Last(c).status = "proposed"
    /\ actor # Last(c).proposed_by
    /\ claims' = [claims EXCEPT
                    ![c] = Append(@, [Last(c) EXCEPT !.status = decision, !.reviewed_by = actor])]

Decision == {"accepted", "rejected", "superseded"}

(* A step keeps the claims, begins one, or decides one. *)
LEMMA ClaimStep ==
    ASSUME Tables, [FactNext]_factVars
    PROVE  \/ claims' = claims
           \/ \E c \in Claim, row \in ClaimRow : Begins(c, row)
           \/ \E c \in Claim, actor \in Actor, decision \in Decision :
                 Decides(c, actor, decision)
<1>1. CASE UNCHANGED factVars
    BY <1>1 DEF factVars
<1>2. CASE RegisterEvidence
    BY <1>2 DEF RegisterEvidence
<1>3. ASSUME NEW actor \in Actor, ProposeClaim(actor)
      PROVE  \E c \in Claim, row \in ClaimRow : Begins(c, row)
    <2>1. PICK c \in Claim, s \in Subject, v \in Value, refs \in (SUBSET Evidence) \ {{}} :
            StageClaim(c, [subject |-> s, value |-> v, refs |-> refs, status |-> "proposed",
                           proposed_by |-> actor, reviewed_by |-> None])
        BY <1>3 DEF ProposeClaim
    <2> DEFINE row == [subject |-> s, value |-> v, refs |-> refs, status |-> "proposed",
                       proposed_by |-> actor, reviewed_by |-> None]
    <2>2. row \in ClaimRow
        BY DEF ClaimRow
    <2>3. Begins(c, row)
        BY <2>1 DEF StageClaim, Sealed, Begins
    <2> QED BY <2>2, <2>3
<1>4. ASSUME NEW actor \in Actor, ReviewClaim(actor)
      PROVE  \E c \in Claim, decision \in Decision : Decides(c, actor, decision)
    BY <1>4 DEF ReviewClaim, Proposal, MayReview, ReadClaim, StageReview, Sealed, Decides,
                Last, Decision
<1>5. ASSUME NEW actor \in Actor, PromoteFact(actor)
      PROVE  claims' = claims
    BY <1>5 DEF PromoteFact
<1> QED BY <1>1, <1>2, <1>3, <1>4, <1>5 DEF FactNext

(* A revision of a claim is never changed: the tables only grow. *)
LEMMA ClaimsOnlyGrow ==
    ASSUME Tables, [FactNext]_factVars,
           NEW c \in Claim, NEW r \in DOMAIN claims[c]
    PROVE  r \in DOMAIN claims'[c] /\ claims'[c][r] = claims[c][r]
<1>1. ASSUME NEW d \in Claim, NEW row, claims' = [claims EXCEPT ![d] = Append(@, row)]
      PROVE  r \in DOMAIN claims'[c] /\ claims'[c][r] = claims[c][r]
    <2>1. claims[c] \in Seq(ClaimRow) /\ claims[d] \in Seq(ClaimRow)
        BY DEF Tables
    <2>2. CASE c # d
        <3>1. claims'[c] = claims[c]
            BY <1>1, <2>2 DEF Tables
        <3> QED BY <3>1
    <2>3. CASE c = d
        <3>1. claims'[c] = Append(claims[c], row)
            BY <1>1, <2>3 DEF Tables
        <3>2. r \in 1..Len(claims[c])
            BY <2>1
        <3> QED BY <2>1, <3>1, <3>2
    <2> QED BY <2>2, <2>3
<1>2. CASE claims' = claims
    BY <1>2
<1> QED BY <1>1, <1>2, ClaimStep DEF Begins, Decides

-----------------------------------------------------------------------------
(* Rows have their types.  That a proposal is what has no reviewer needs that
   nobody is called None. *)
LEMMA TablesKept ==
    ASSUME Tables, ClaimInv, [FactNext]_factVars
    PROVE  Tables'
<1>1. claims' \in [Claim -> Seq(ClaimRow)]
    <2>1. CASE claims' = claims
        BY <2>1 DEF Tables
    <2>2. ASSUME NEW c \in Claim, NEW row \in ClaimRow, Begins(c, row)
          PROVE  claims' \in [Claim -> Seq(ClaimRow)]
        BY <2>2 DEF Tables, Begins
    <2>3. ASSUME NEW c \in Claim, NEW actor \in Actor, NEW decision \in Decision,
                 Decides(c, actor, decision)
          PROVE  claims' \in [Claim -> Seq(ClaimRow)]
        <3>1. claims[c] \in Seq(ClaimRow) /\ Last(c) \in ClaimRow
            BY <2>3 DEF Tables, Last, Decides
        <3>2. [Last(c) EXCEPT !.status = decision, !.reviewed_by = actor] \in ClaimRow
            BY <2>3, <3>1, NoneAssumption DEF ClaimRow, Decision, Decides, Actor
        <3>3. Append(claims[c], [Last(c) EXCEPT !.status = decision, !.reviewed_by = actor])
                 \in Seq(ClaimRow)
            BY <3>1, <3>2
        <3> QED BY <2>3, <3>3 DEF Tables, Decides
    <2> QED BY <2>1, <2>2, <2>3, ClaimStep
<1>2. evidence' \subseteq Evidence /\ facts' \in [Fact -> Seq(FactRow)]
      /\ owner' \in [Fact -> Candidate \cup {None}]
    <2>1. CASE UNCHANGED factVars
        BY <2>1 DEF factVars, Tables
    <2>2. CASE RegisterEvidence
        BY <2>2 DEF RegisterEvidence, Tables
    <2>3. ASSUME NEW actor \in Actor, ProposeClaim(actor) \/ ReviewClaim(actor)
          PROVE  UNCHANGED <<evidence, facts, owner>>
        BY <2>3 DEF ProposeClaim, ReviewClaim
    <2>4. ASSUME NEW actor \in Actor, PromoteFact(actor)
          PROVE  /\ evidence' \subseteq Evidence /\ facts' \in [Fact -> Seq(FactRow)]
                 /\ owner' \in [Fact -> Candidate \cup {None}]
        <3>1. PICK f \in Fact, c \in Claim, v \in Value, refs \in SUBSET evidence,
                   authority \in Authority, k \in Candidate \cup {None} :
                \E r \in DOMAIN claims[c] :
                    StageFact(f, [subject |-> ReadClaim(c, r).subject, value |-> v,
                                  refs |-> refs, authority |-> authority, claim |-> c,
                                  claim_revision |-> r, verified_by |-> actor], k)
            BY <2>4 DEF PromoteFact
        <3>2. PICK r \in DOMAIN claims[c] :
                StageFact(f, [subject |-> ReadClaim(c, r).subject, value |-> v,
                              refs |-> refs, authority |-> authority, claim |-> c,
                              claim_revision |-> r, verified_by |-> actor], k)
            BY <3>1
        <3> DEFINE row == [subject |-> ReadClaim(c, r).subject, value |-> v, refs |-> refs,
                           authority |-> authority, claim |-> c, claim_revision |-> r,
                           verified_by |-> actor]
        <3>3. claims[c] \in Seq(ClaimRow) /\ claims[c][r] \in ClaimRow /\ r \in {1, 2}
            <4>1. claims[c] \in Seq(ClaimRow)
                BY DEF Tables
            <4>2. r \in 1..Len(claims[c])
                BY <4>1
            <4>3. Len(claims[c]) <= 2
                BY DEF ClaimInv, DecidedOnce
            <4> QED BY <4>1, <4>2, <4>3
        <3>4. row \in FactRow
            BY <2>4, <3>3 DEF FactRow, ClaimRow, ReadClaim, Tables, PromoteFact
        <3>5. Append(facts[f], row) \in Seq(FactRow)
            BY <3>4 DEF Tables
        <3> QED BY <2>4, <3>2, <3>5 DEF PromoteFact, StageFact, Sealed, Tables
    <2> QED BY <2>1, <2>2, <2>3, <2>4 DEF FactNext, Tables
<1> QED BY <1>1, <1>2 DEF Tables

(* What reviewed claims look like is kept by proposals and reviews. *)
LEMMA ClaimInvKept ==
    ASSUME Tables, ClaimInv, [FactNext]_factVars
    PROVE  ClaimInv'
<1>1. CASE claims' = claims
    BY <1>1 DEF ClaimInv, AcceptedByAnother, DecidedOnce, DecisionIsFinal
<1>2. ASSUME NEW d \in Claim, NEW row \in ClaimRow, Begins(d, row)
      PROVE  ClaimInv'
    <2>1. claims'[d] = <<row>> /\ \A c \in Claim : c # d => claims'[c] = claims[c]
        BY <1>2 DEF Begins, Tables
    <2>2. Len(claims'[d]) = 1 /\ DOMAIN claims'[d] = {1} /\ claims'[d][1] = row
        BY <2>1
    <2>3. row.status = "proposed"
        BY <1>2 DEF Begins
    <2>4. AcceptedByAnother'
        BY <2>1, <2>2, <2>3 DEF ClaimInv, AcceptedByAnother
    <2>5. DecidedOnce'
        <3>1. SUFFICES ASSUME NEW c \in Claim PROVE DecidedOnce!(c)'
            BY DEF DecidedOnce
        <3>2. CASE c = d
            BY <2>2, <3>2
        <3>3. CASE c # d
            BY <2>1, <3>3 DEF ClaimInv, DecidedOnce
        <3> QED BY <3>2, <3>3
    <2>6. DecisionIsFinal'
        BY <2>1, <2>2 DEF ClaimInv, DecisionIsFinal
    <2> QED BY <2>4, <2>5, <2>6 DEF ClaimInv
<1>3. ASSUME NEW d \in Claim, NEW actor \in Actor, NEW decision \in Decision,
             Decides(d, actor, decision)
      PROVE  ClaimInv'
    <2> DEFINE old == claims[d][1]
               new == [old EXCEPT !.status = decision, !.reviewed_by = actor]
    <2>1. claims[d] \in Seq(ClaimRow)
        BY DEF Tables
    <2>2. Len(claims[d]) = 1
        <3>1. Len(claims[d]) > 0 /\ claims[d][Len(claims[d])].status = "proposed"
            BY <1>3 DEF Decides, Last
        <3>2. Len(claims[d]) <= 2 /\ (Len(claims[d]) = 2 => claims[d][2].status # "proposed")
            BY DEF ClaimInv, DecidedOnce, DecisionIsFinal
        <3>3. Len(claims[d]) # 2
            BY <3>1, <3>2
        <3>4. Len(claims[d]) \in Nat
            BY <2>1
        <3>5. Len(claims[d]) > 0 /\ Len(claims[d]) <= 2
            BY <3>1, <3>2
        <3>6. \A n \in Nat : n > 0 /\ n <= 2 /\ n # 2 => n = 1
            OBVIOUS
        <3> QED BY <3>3, <3>4, <3>5, <3>6, Zenon
    <2>3. /\ old \in ClaimRow /\ old.status = "proposed"
          /\ actor \in User \cup Rule /\ actor # old.proposed_by
        BY <1>3, <2>1, <2>2 DEF Decides, Last
    <2>4. claims'[d] = Append(claims[d], new) /\ \A c \in Claim : c # d => claims'[c] = claims[c]
        BY <1>3, <2>2 DEF Decides, Tables, Last
    <2> HIDE DEF new
    <2>5. Len(claims'[d]) = 2 /\ DOMAIN claims'[d] = {1, 2}
          /\ claims'[d][1] = old /\ claims'[d][2] = new
        BY <2>1, <2>2, <2>4
    <2>6. /\ new.status = decision /\ new.reviewed_by = actor
          /\ new.proposed_by = old.proposed_by
        BY <2>3 DEF ClaimRow, new
    <2> HIDE DEF old
    <2>7. AcceptedByAnother'
        <3>1. SUFFICES ASSUME NEW c \in Claim, NEW r \in DOMAIN claims'[c],
                              claims'[c][r].status = "accepted"
                       PROVE  /\ claims'[c][r].reviewed_by \in User \cup Rule
                              /\ claims'[c][r].reviewed_by # claims'[c][r].proposed_by
            BY DEF AcceptedByAnother
        <3>2. CASE c = d
            <4>1. r = 1 \/ r = 2
                BY <2>5, <3>2
            <4>2. r # 1
                BY <2>3, <2>5, <3>1, <3>2
            <4> QED BY <2>3, <2>5, <2>6, <3>2, <4>1, <4>2
        <3>3. CASE c # d
            BY <2>4, <3>1, <3>3 DEF ClaimInv, AcceptedByAnother
        <3> QED BY <3>2, <3>3
    <2>8. DecidedOnce'
        <3>1. SUFFICES ASSUME NEW c \in Claim PROVE DecidedOnce!(c)'
            BY DEF DecidedOnce
        <3>2. CASE c = d
            <4>1. new = [old EXCEPT !.status = new.status, !.reviewed_by = new.reviewed_by]
                BY <2>6 DEF new
            <4>2. claims'[d][2] = [claims'[d][1] EXCEPT
                                     !.status = claims'[d][2].status,
                                     !.reviewed_by = claims'[d][2].reviewed_by]
                BY <2>5, <4>1, Zenon
            <4>3. Len(claims'[d]) <= 2 /\ claims'[d][1].status = "proposed"
                BY <2>3, <2>5
            <4> QED BY <3>2, <4>2, <4>3, Zenon
        <3>3. CASE c # d
            BY <2>4, <3>3 DEF ClaimInv, DecidedOnce
        <3> QED BY <3>2, <3>3
    <2>9. DecisionIsFinal'
        BY <2>4, <2>5, <2>6 DEF ClaimInv, DecisionIsFinal, Decision
    <2> QED BY <2>7, <2>8, <2>9 DEF ClaimInv
<1> QED BY <1>1, <1>2, <1>3, ClaimStep

-----------------------------------------------------------------------------
(* What a fact is promoted from is read in the step that promotes it, and stays as it
   was read, for claims only grow. *)
LEMMA FactsStandOnClaims ==
    ASSUME IInv, [FactNext]_factVars
    PROVE  TwoActorsBehindAFact' /\ FirstSaysWhatWasReviewed'
<1> USE DEF IInv
<1>1. CASE UNCHANGED facts
    <2>1. ASSUME NEW f \in Fact, NEW r \in DOMAIN facts'[f]
          PROVE  LET row == facts[f][r] IN
                 /\ facts'[f] = facts[f]
                 /\ row.claim \in Claim
                 /\ row.claim_revision \in DOMAIN claims'[row.claim]
                 /\ claims'[row.claim][row.claim_revision] = claims[row.claim][row.claim_revision]
        <3>1. facts'[f] = facts[f] /\ facts[f] \in Seq(FactRow) /\ r \in DOMAIN facts[f]
            BY <1>1 DEF Tables
        <3>2. facts[f][r] \in FactRow
            BY <3>1
        <3>3. facts[f][r].claim \in Claim
            BY <3>2 DEF FactRow
        <3>4. facts[f][r].claim_revision \in DOMAIN claims[facts[f][r].claim]
            <4>1. StandsOnClaim(facts[f][r])
                BY <3>1, Zenon DEF TwoActorsBehindAFact
            <4> QED BY <4>1 DEF StandsOnClaim
        <3> QED BY <3>1, <3>3, <3>4, ClaimsOnlyGrow
    <2>2. TwoActorsBehindAFact'
        BY <2>1 DEF TwoActorsBehindAFact, StandsOnClaim
    <2>3. FirstSaysWhatWasReviewed'
        <3>1. SUFFICES ASSUME NEW f \in Fact, facts'[f] # <<>>
                       PROVE  FirstSaysWhatWasReviewed!(f)'
            BY DEF FirstSaysWhatWasReviewed
        <3>2. facts'[f] = facts[f] /\ facts[f] \in Seq(FactRow)
            BY <1>1 DEF Tables
        <3>3. 1 \in DOMAIN facts'[f]
            BY <3>1, <3>2
        <3> QED BY <2>1, <3>1, <3>2, <3>3 DEF FirstSaysWhatWasReviewed
    <2> QED BY <2>2, <2>3
<1>2. ASSUME NEW actor \in Actor, PromoteFact(actor)
      PROVE  TwoActorsBehindAFact' /\ FirstSaysWhatWasReviewed'
    <2>1. PICK g \in Fact, c \in Claim, v \in Value, refs \in SUBSET evidence,
               authority \in Authority, k \in Candidate \cup {None} :
            \E r \in DOMAIN claims[c] :
                StageFact(g, [subject |-> ReadClaim(c, r).subject, value |-> v,
                              refs |-> refs, authority |-> authority, claim |-> c,
                              claim_revision |-> r, verified_by |-> actor], k)
        BY <1>2 DEF PromoteFact
    <2>2. PICK r \in DOMAIN claims[c] :
            StageFact(g, [subject |-> ReadClaim(c, r).subject, value |-> v,
                          refs |-> refs, authority |-> authority, claim |-> c,
                          claim_revision |-> r, verified_by |-> actor], k)
        BY <2>1
    <2> DEFINE new == [subject |-> ReadClaim(c, r).subject, value |-> v,
                       refs |-> refs, authority |-> authority, claim |-> c,
                       claim_revision |-> r, verified_by |-> actor]
    <2>3. claims' = claims
        BY <1>2 DEF PromoteFact
    <2>4. /\ new.claim = c /\ new.claim_revision = r /\ new.subject = claims[c][r].subject
          /\ new.value = v /\ new.refs = refs
        BY DEF ReadClaim
    <2>5. /\ claims[c][r].status = "accepted"
          /\ facts[g] = <<>> => claims[c][r].value = v /\ claims[c][r].refs = refs
          /\ facts' = [facts EXCEPT ![g] = Append(@, new)]
        BY <2>2, <2>4 DEF StageFact, Accepted, Carries, ReadClaim, Sealed
    <2>6. claims[c][r] \in ClaimRow
        BY DEF Tables
    <2> HIDE DEF new
    <2>7. facts[g] \in Seq(FactRow)
        BY DEF Tables
    <2>8. facts'[g] = Append(facts[g], new) /\ \A f \in Fact : f # g => facts'[f] = facts[f]
        BY <2>5 DEF Tables
    <2>9. ASSUME NEW f \in Fact, NEW i \in DOMAIN facts'[f]
          PROVE  \/ i \in DOMAIN facts[f] /\ facts'[f][i] = facts[f][i]
                 \/ f = g /\ facts'[f][i] = new /\ (i = 1 => facts[g] = <<>>)
        <3>1. CASE f # g
            BY <2>8, <3>1
        <3>2. CASE f = g
            <4>1. i \in 1..(Len(facts[g]) + 1) /\ Len(facts[g]) \in Nat
                BY <2>7, <2>8, <3>2
            <4>2. CASE i = Len(facts[g]) + 1
                BY <2>7, <2>8, <3>2, <4>2
            <4>3. CASE i # Len(facts[g]) + 1
                BY <2>7, <2>8, <3>2, <4>1, <4>3
            <4> QED BY <4>2, <4>3
        <3> QED BY <3>1, <3>2
    <2>10. TwoActorsBehindAFact'
        <3> SUFFICES ASSUME NEW f \in Fact, NEW i \in DOMAIN facts'[f]
                     PROVE  StandsOnClaim(facts[f][i])'
            BY DEF TwoActorsBehindAFact
        <3>1. StandsOnClaim(new)
            BY <2>4, <2>5 DEF ClaimInv, AcceptedByAnother, StandsOnClaim
        <3>2. i \in DOMAIN facts[f] => StandsOnClaim(facts[f][i])
            BY DEF TwoActorsBehindAFact
        <3>3. StandsOnClaim(facts'[f][i])
            BY <2>9, <3>1, <3>2
        <3> QED BY <2>3, <3>3 DEF StandsOnClaim
    <2>11. FirstSaysWhatWasReviewed'
        <3>1. SUFFICES ASSUME NEW f \in Fact, facts'[f] # <<>>
                       PROVE  FirstSaysWhatWasReviewed!(f)'
            BY DEF FirstSaysWhatWasReviewed
        <3>2. 1 \in DOMAIN facts'[f]
            <4>1. CASE f = g
                BY <2>7, <2>8, <4>1
            <4>2. CASE f # g
                <5>1. facts[f] \in Seq(FactRow) /\ facts[f] # <<>>
                    BY <2>8, <3>1, <4>2 DEF Tables
                <5> QED BY <2>8, <4>2, <5>1
            <4> QED BY <4>1, <4>2
        <3>3. CASE 1 \in DOMAIN facts[f] /\ facts'[f][1] = facts[f][1]
            BY <2>3, <3>3 DEF FirstSaysWhatWasReviewed, Tables
        <3>4. CASE facts'[f][1] = new /\ facts[g] = <<>>
            <4>1. claims[c][r].value = v /\ claims[c][r].refs = refs
                BY <2>5, <3>4
            <4>2. refs # {}
                BY <2>6, <4>1 DEF ClaimRow
            <4>3. /\ facts'[f][1].claim = c /\ facts'[f][1].claim_revision = r
                  /\ facts'[f][1].value = v /\ facts'[f][1].refs = refs
                BY <2>4, <3>4
            <4>4. claims'[facts'[f][1].claim][facts'[f][1].claim_revision] = claims[c][r]
                BY <2>3, <4>3
            <4> QED BY <4>1, <4>2, <4>3, <4>4, Zenon
        <3> QED BY <2>9, <3>2, <3>3, <3>4
    <2> QED BY <2>10, <2>11
<1>3. UNCHANGED facts \/ \E actor \in Actor : PromoteFact(actor)
    BY DEF FactNext, factVars, RegisterEvidence, ProposeClaim, ReviewClaim
<1> QED BY <1>1, <1>2, <1>3

-----------------------------------------------------------------------------
(* The inductive invariant. *)
THEOREM Inductive == FactSpec => []IInv
<1>1. FactInit => IInv
    BY DEF FactInit, IInv, Tables, ClaimInv, AcceptedByAnother, DecidedOnce, DecisionIsFinal,
           TwoActorsBehindAFact, FirstSaysWhatWasReviewed
<1>2. IInv /\ [FactNext]_factVars => IInv'
    BY TablesKept, ClaimInvKept, FactsStandOnClaims DEF IInv
<1> QED BY <1>1, <1>2, PTL DEF FactSpec

(* The rows satisfy the constraints of the tables of migration 0010; review_claim
   decides a claim at most once and changes nothing else of it; promote_fact makes no
   fact, and corrects none, that one actor or an agent alone stands behind; and what a
   fact first said stays what was reviewed, with its evidence. *)
THEOREM FactsReviewed == FactSpec => []FactsAreReviewed
<1>1. IInv => FactTypeOK
    BY DEF IInv, Tables, FactTypeOK, EvidenceTable, ClaimTable, FactTable, OwnerTable
<1>2. IInv => DecidedOnce /\ TwoActorsBehindAFact /\ FirstSaysWhatWasReviewed
    BY DEF IInv, ClaimInv
<1>3. IInv => FactsAreReviewed
    BY <1>1, <1>2 DEF FactsAreReviewed
<1> QED BY <1>3, Inductive, PTL

-----------------------------------------------------------------------------
(* Jobs.  A requirement has a proposal and at most one decision; what it quotes was
   recorded, and an accepted one is mapped to a released capability. *)
QuotesHold ==
    \A q \in Requirement : \A r \in DOMAIN requirements[q] :
        requirements[q][r].job_revision \in DOMAIN jobs[requirements[q][r].job]

ProposedThenDecided ==
    \A q \in Requirement :
        /\ Len(requirements[q]) <= 2
        /\ requirements[q] # <<>> => requirements[q][1].status = "proposed"
        /\ Len(requirements[q]) = 2 => requirements[q][2].status # "proposed"

(* The inductive invariant of requirements. *)
JobInv == M!JobTypeOK /\ QuotesHold /\ ProposedThenDecided /\ M!AcceptedIsTraceable

(* The first row of a requirement, or the user's decision of it. *)
Stages(q, row) ==
    /\ M!StageRequirement(q, row)
    /\ row \in M!RequirementRow
    /\ requirements[q] = <<>> => row.status = "proposed"
    /\ requirements[q] # <<>> =>
        /\ Len(requirements[q]) = 1
        /\ row.status # "proposed"
        /\ <<row.job, row.job_revision, row.scopes>> =
            <<requirements[q][1].job, requirements[q][1].job_revision, requirements[q][1].scopes>>

LEMMA ProposalStages ==
    ASSUME M!JobAssumption, JobInv, NEW actor \in User \cup Agent, M!ProposeRequirement(actor)
    PROVE  jobs' = jobs /\ \E q \in Requirement, row \in M!RequirementRow : Stages(q, row)
<1>1. PICK q \in Requirement, j \in Job, r \in 1..MaxJobRevision, scopes \in (SUBSET Scope) \ {{}},
           maps \in M!Mapping \cup {None} :
        /\ requirements[q] = <<>>
        /\ M!StageRequirement(q, [job |-> j, job_revision |-> r, scopes |-> scopes,
                maps |-> maps, status |-> "proposed", proposed_by |-> actor,
                reviewed_by |-> None])
    BY DEF M!ProposeRequirement
<1> DEFINE proposal == [job |-> j, job_revision |-> r, scopes |-> scopes, maps |-> maps,
                        status |-> "proposed", proposed_by |-> actor, reviewed_by |-> None]
<1>2. proposal \in M!RequirementRow /\ proposal.status = "proposed"
    BY DEF M!RequirementRow
<1>3. Stages(q, proposal)
    BY <1>1, <1>2 DEF Stages
<1> QED BY <1>2, <1>3 DEF M!ProposeRequirement

LEMMA ReviewStages ==
    ASSUME M!JobAssumption, JobInv, NEW actor \in User \cup Agent, M!ReviewRequirement(actor)
    PROVE  jobs' = jobs /\ \E q \in Requirement, row \in M!RequirementRow : Stages(q, row)
<1>1. PICK q \in Requirement, decision \in {"accepted", "rejected", "superseded"},
           maps \in M!Mapping \cup {None} :
        \E r \in DOMAIN requirements[q] :
            LET row == [requirements[q][r] EXCEPT !.status = decision, !.maps = maps,
                                                  !.reviewed_by = actor] IN
            M!Reviewable(q, r) /\ M!Complete(row) /\ M!StageRequirement(q, row)
    BY DEF M!ReviewRequirement, M!ReadRequirement
<1>2. requirements[q] \in Seq(M!RequirementRow) /\ Len(requirements[q]) \in Nat
    BY DEF JobInv, M!JobTypeOK, M!RequirementTable
<1> DEFINE row == [requirements[q][1] EXCEPT !.status = decision, !.maps = maps,
                                             !.reviewed_by = actor]
<1>3. /\ Len(requirements[q]) = 1
      /\ M!Complete(row) /\ M!StageRequirement(q, row)
    <2>1. PICK r \in DOMAIN requirements[q] :
            LET new == [requirements[q][r] EXCEPT !.status = decision, !.maps = maps,
                                                  !.reviewed_by = actor] IN
            M!Reviewable(q, r) /\ M!Complete(new) /\ M!StageRequirement(q, new)
        BY <1>1
    <2>2. r = Len(requirements[q]) /\ r > 0 /\ requirements[q][r].status = "proposed"
        BY <2>1 DEF M!Reviewable
    <2>3. r = 1
        <3>1. Len(requirements[q]) <= 2
              /\ (Len(requirements[q]) = 2 => requirements[q][2].status # "proposed")
            BY DEF JobInv, ProposedThenDecided
        <3>2. r \in Nat /\ r > 0 /\ r <= 2 /\ r # 2
            BY <1>2, <2>2, <3>1
        <3> QED BY <3>2
    <2> QED BY <2>1, <2>2, <2>3
<1>4. requirements[q][1] \in M!RequirementRow
    BY <1>2, <1>3
<1>5. /\ row \in M!RequirementRow
      /\ row.status = decision
      /\ <<row.job, row.job_revision, row.scopes>> =
            <<requirements[q][1].job, requirements[q][1].job_revision, requirements[q][1].scopes>>
    <2>1. actor \in User
        BY DEF M!ReviewRequirement
    <2>2. requirements[q][1] \in [job : Job, job_revision : 1..MaxJobRevision,
            scopes : (SUBSET Scope) \ {{}}, maps : M!Mapping \cup {None},
            status : {"proposed", "accepted", "rejected", "superseded"},
            proposed_by : User \cup Agent, reviewed_by : User \cup {None}]
        BY <1>4 DEF M!RequirementRow
    <2>3. row \in [job : Job, job_revision : 1..MaxJobRevision,
            scopes : (SUBSET Scope) \ {{}}, maps : M!Mapping \cup {None},
            status : {"proposed", "accepted", "rejected", "superseded"},
            proposed_by : User \cup Agent, reviewed_by : User \cup {None}]
        BY <2>1, <2>2
    <2>4. row \in M!RequirementRow
        BY <1>3, <2>3 DEF M!RequirementRow, M!Complete
    <2> QED BY <2>2, <2>4
<1>6. Stages(q, row)
    <2> HIDE DEF row
    <2> QED BY <1>2, <1>3, <1>5 DEF Stages
<1> QED BY <1>5, <1>6 DEF M!ReviewRequirement

LEMMA StagedRow ==
    ASSUME M!JobAssumption, JobInv, jobs' = jobs,
           NEW q \in Requirement, NEW row \in M!RequirementRow, Stages(q, row)
    PROVE  JobInv'
<1>1. /\ requirements' = [requirements EXCEPT ![q] = Append(@, row)]
      /\ row.job_revision \in DOMAIN jobs[row.job]
      /\ row.status = "accepted" => <<row.maps.capability, row.maps.graph>> \in OfficialNode
    BY DEF Stages, M!StageRequirement, M!SealedRevision, M!Quotable, M!Official
<1>2. /\ requirements \in [Requirement -> Seq(M!RequirementRow)]
      /\ Len(requirements[q]) \in Nat /\ requirements[q] \in Seq(M!RequirementRow)
    BY DEF JobInv, M!JobTypeOK, M!RequirementTable
<1>3. M!JobTypeOK'
    BY <1>1, <1>2 DEF JobInv, M!JobTypeOK, M!RequirementTable, M!JobTable
<1> DEFINE n == Len(requirements[q])
<1>4. /\ requirements'[q] = Append(requirements[q], row)
      /\ Len(requirements'[q]) = n + 1 /\ DOMAIN requirements'[q] = 1..(n + 1)
      /\ DOMAIN requirements[q] = 1..n
      /\ requirements'[q][n + 1] = row
      /\ \A r \in 1..n : requirements'[q][r] = requirements[q][r]
      /\ \A p \in Requirement \ {q} : requirements'[p] = requirements[p]
    BY <1>1, <1>2
<1>5. /\ n = 0 => row.status = "proposed"
      /\ n # 0 => /\ n = 1 /\ row.status # "proposed" /\ requirements[q][1].status = "proposed"
                  /\ <<row.job, row.job_revision, row.scopes>> =
                        <<requirements[q][1].job, requirements[q][1].job_revision,
                          requirements[q][1].scopes>>
    BY <1>2 DEF Stages, JobInv, ProposedThenDecided
<1>6. QuotesHold'
    <2> SUFFICES ASSUME NEW p \in Requirement, NEW r \in DOMAIN requirements'[p]
                 PROVE  requirements'[p][r].job_revision
                            \in DOMAIN jobs[requirements'[p][r].job]
        BY DEF QuotesHold
    <2>1. \/ requirements'[p][r] = row
          \/ r \in DOMAIN requirements[p] /\ requirements'[p][r] = requirements[p][r]
        BY <1>2, <1>4
    <2> HIDE DEF n
    <2> QED BY <1>1, <2>1 DEF JobInv, QuotesHold
<1>7. ProposedThenDecided'
    <2> SUFFICES ASSUME NEW p \in Requirement
                 PROVE  /\ Len(requirements'[p]) <= 2
                        /\ requirements'[p] # <<>> => requirements'[p][1].status = "proposed"
                        /\ Len(requirements'[p]) = 2 => requirements'[p][2].status # "proposed"
        BY DEF ProposedThenDecided
    <2>1. CASE p # q
        BY <1>4, <2>1 DEF JobInv, ProposedThenDecided
    <2>2. CASE p = q
        <3>1. n = 0 \/ n = 1
            BY <1>5
        <3> QED BY <1>2, <1>4, <1>5, <2>2, <3>1
    <2> QED BY <2>1, <2>2
<1>8. M!AcceptedIsTraceable'
    <2> SUFFICES ASSUME NEW p \in Requirement, NEW r \in DOMAIN requirements'[p],
                        requirements'[p][r].status = "accepted"
                 PROVE  /\ r = 2
                        /\ requirements'[p][r].reviewed_by \in User
                        /\ <<requirements'[p][r].maps.capability, requirements'[p][r].maps.graph>>
                              \in OfficialNode
                        /\ requirements'[p][1].status = "proposed"
                        /\ <<requirements'[p][r].job, requirements'[p][r].job_revision,
                             requirements'[p][r].scopes>> =
                           <<requirements'[p][1].job, requirements'[p][1].job_revision,
                             requirements'[p][1].scopes>>
        BY <1>6 DEF M!AcceptedIsTraceable, QuotesHold
    <2>1. CASE p # q \/ r # n + 1
        <3>1. /\ r \in DOMAIN requirements[p] /\ requirements'[p][r] = requirements[p][r]
              /\ r # 1 => requirements'[p][1] = requirements[p][1]
            BY <1>2, <1>4, <2>1
        <3> HIDE DEF n
        <3> QED BY <3>1 DEF JobInv, M!AcceptedIsTraceable
    <2>2. CASE p = q /\ r = n + 1
        <3>1. requirements'[p][r] = row /\ n = 1
            BY <1>4, <1>5, <2>2
        <3>2. requirements'[p][1] = requirements[q][1]
            BY <1>4, <2>2, <3>1
        <3>3. row.status # "proposed" => row.reviewed_by \in User
            BY DEF M!RequirementRow
        <3> QED BY <1>1, <1>5, <2>2, <3>1, <3>2, <3>3
    <2> QED BY <2>1, <2>2
<1> QED BY <1>3, <1>6, <1>7, <1>8 DEF JobInv

LEMMA JobRecorded ==
    ASSUME M!JobAssumption, JobInv, M!RecordRevision
    PROVE  JobInv'
<1>1. PICK j \in Job, page \in Page :
        Len(jobs[j]) < MaxJobRevision /\ jobs' = [jobs EXCEPT ![j] = Append(@, page)]
    BY DEF M!RecordRevision, M!StageJob, M!SealedRevision
<1>2. jobs \in [Job -> Seq(Page)] /\ requirements' = requirements
    BY DEF JobInv, M!JobTypeOK, M!JobTable, M!RecordRevision
<1>3. /\ jobs' \in [Job -> Seq(Page)]
      /\ \A k \in Job : /\ Len(jobs'[k]) = IF k = j THEN Len(jobs[k]) + 1 ELSE Len(jobs[k])
                        /\ DOMAIN jobs[k] \subseteq DOMAIN jobs'[k]
    BY <1>1, <1>2
<1>4. M!JobTypeOK'
    <2>1. \A k \in Job : Len(jobs[k]) \in Nat /\ Len(jobs[k]) <= MaxJobRevision
        BY <1>2 DEF JobInv, M!JobTypeOK
    <2>2. \A k \in Job : Len(jobs'[k]) <= MaxJobRevision
        BY <1>1, <1>3, <2>1 DEF M!JobAssumption
    <2> QED BY <1>2, <1>3, <2>2 DEF JobInv, M!JobTypeOK, M!JobTable, M!RequirementTable
<1>5. \A q \in Requirement : \A r \in DOMAIN requirements[q] :
        requirements[q][r].job_revision \in DOMAIN jobs'[requirements[q][r].job]
    <2> SUFFICES ASSUME NEW q \in Requirement, NEW r \in DOMAIN requirements[q]
                 PROVE  requirements[q][r].job_revision
                            \in DOMAIN jobs'[requirements[q][r].job]
        OBVIOUS
    <2>1. requirements[q] \in Seq(M!RequirementRow)
        BY DEF JobInv, M!JobTypeOK, M!RequirementTable
    <2>2. requirements[q][r].job \in Job
        BY <2>1 DEF M!RequirementRow
    <2>3. requirements[q][r].job_revision \in DOMAIN jobs[requirements[q][r].job]
        BY DEF JobInv, QuotesHold
    <2> QED BY <1>3, <2>2, <2>3
<1> QED
    BY <1>2, <1>4, <1>5
    DEF JobInv, QuotesHold, ProposedThenDecided, M!AcceptedIsTraceable

LEMMA JobStart ==
    ASSUME M!JobAssumption
    PROVE  M!JobInit => JobInv
BY DEF M!JobInit, M!JobAssumption, JobInv, M!JobTypeOK, M!JobTable, M!RequirementTable,
       QuotesHold, ProposedThenDecided, M!AcceptedIsTraceable

LEMMA JobUntouched ==
    ASSUME JobInv, UNCHANGED <<jobs, requirements>>
    PROVE  JobInv'
BY DEF JobInv, M!JobTypeOK, M!JobTable, M!RequirementTable, QuotesHold, ProposedThenDecided,
       M!AcceptedIsTraceable

LEMMA JobStep ==
    ASSUME M!JobAssumption, JobInv, M!JobNext
    PROVE  JobInv'
<1>1. ASSUME NEW actor \in User \cup Agent,
             M!ProposeRequirement(actor) \/ M!ReviewRequirement(actor)
      PROVE  JobInv'
    BY <1>1, ProposalStages, ReviewStages, StagedRow
<1> QED BY <1>1, JobRecorded DEF M!JobNext

(* Whoever proposes what, an accepted requirement was accepted by a user, who may be the
   one that proposed it, quotes a recorded revision of its job, maps to a capability that
   a released graph holds, and is what was proposed. *)
THEOREM RequirementSafety ==
    ASSUME M!JobAssumption
    PROVE  M!JobSpec => []RequirementsAreTraceable
<1>1. JobInv /\ [M!JobNext]_(M!jobVars) => JobInv'
    BY JobStep, JobUntouched DEF M!jobVars
<1>2. JobInv => RequirementsAreTraceable
    BY DEF JobInv, RequirementsAreTraceable
<1> QED BY JobStart, <1>1, <1>2, PTL DEF M!JobSpec

-----------------------------------------------------------------------------
(* Matching.  Rows are added and none is changed, so that what an assessment was made
   from is still there as it was. *)
MatchTables ==
    /\ personal \in M!PersonalTable
    /\ bindings \in M!BindingTable
    /\ evidenceRows \in M!EvidenceTable
    /\ DOMAIN assessments = Assessment
    /\ DOMAIN resolved = Matcher

(* What a binding refers to has been recorded. *)
BindingsStand ==
    \A b \in Binding : bindings[b] # None =>
        /\ bindings[b].revision \in DOMAIN personal[bindings[b].state]
        /\ bindings[b].source # None =>
            bindings[b].source_revision \in DOMAIN evidenceRows[bindings[b].source]

(* What a thread has resolved refers to recorded rows: the candidate's states, one of
   each capability, and bindings to those. *)
InputsHold(inputs) ==
    /\ \A key \in inputs.requirements :
        key[1] \in Requirement /\ key[2] \in DOMAIN requirements[key[1]]
    /\ \A s \in inputs.states :
        /\ s[1] \in PersonalState /\ s[2] \in DOMAIN personal[s[1]]
        /\ PersonOf[s[1]] = inputs.person
    /\ \A s, t \in inputs.states : CapabilityOf[s[1]] = CapabilityOf[t[1]] => s = t
    /\ \A b \in inputs.bindings :
        /\ b \in Binding /\ bindings[b] # None
        /\ <<bindings[b].state, bindings[b].revision>> \in inputs.states

ResolvedHold == \A m \in Matcher : resolved[m] # None => InputsHold(resolved[m])

(* A stored assessment is what its inputs give. *)
AssessmentStands(stored) ==
    /\ InputsHold(stored.inputs)
    /\ stored.results = M!Results(stored.inputs)
    /\ stored.gaps = M!Gaps(stored.results)

AssessmentsStand == \A a \in M!Stored : AssessmentStands(assessments[a])

(* The inductive invariant of matching. *)
MatchInv ==
    JobInv /\ MatchTables /\ BindingsStand /\ ResolvedHold /\ AssessmentsStand

(* No row that is there is changed. *)
RowsStay ==
    /\ \A q \in Requirement : \A r \in DOMAIN requirements[q] :
        r \in DOMAIN requirements'[q] /\ requirements'[q][r] = requirements[q][r]
    /\ \A s \in PersonalState : \A r \in DOMAIN personal[s] :
        r \in DOMAIN personal'[s] /\ personal'[s][r] = personal[s][r]
    /\ \A e \in ProjectEvidence : \A r \in DOMAIN evidenceRows[e] :
        r \in DOMAIN evidenceRows'[e] /\ evidenceRows'[e][r] = evidenceRows[e][r]
    /\ \A b \in Binding : bindings[b] # None => bindings'[b] = bindings[b]

(* A table of sequences to one of which a row is appended. *)
LEMMA AppendedTable ==
    ASSUME NEW D, NEW T, NEW f \in [D -> Seq(T)], NEW d \in D, NEW x \in T, NEW g,
           g = [f EXCEPT ![d] = Append(@, x)]
    PROVE  /\ g \in [D -> Seq(T)]
           /\ \A e \in D : \A i \in DOMAIN f[e] : i \in DOMAIN g[e] /\ g[e][i] = f[e][i]
<1>1. Append(f[d], x) \in Seq(T)
    OBVIOUS
<1>2. \A i \in DOMAIN f[d] : i \in DOMAIN Append(f[d], x) /\ Append(f[d], x)[i] = f[d][i]
    OBVIOUS
<1>3. g[d] = Append(f[d], x) /\ \A e \in D \ {d} : g[e] = f[e]
    OBVIOUS
<1> QED BY <1>1, <1>2, <1>3

(* A step of jobs keeps its invariant and every requirement's rows. *)
LEMMA RequirementsStay ==
    ASSUME M!JobAssumption, JobInv, M!JobNext
    PROVE  \A q \in Requirement : \A r \in DOMAIN requirements[q] :
               r \in DOMAIN requirements'[q] /\ requirements'[q][r] = requirements[q][r]
<1>1. CASE M!RecordRevision
    BY <1>1 DEF M!RecordRevision
<1>2. CASE \E p \in Requirement, row \in M!RequirementRow : Stages(p, row)
    <2>1. PICK p \in Requirement, row \in M!RequirementRow : Stages(p, row)
        BY <1>2
    <2>2. requirements' = [requirements EXCEPT ![p] = Append(@, row)]
        BY <2>1 DEF Stages, M!StageRequirement, M!SealedRevision
    <2>3. requirements \in [Requirement -> Seq(M!RequirementRow)]
        BY DEF JobInv, M!JobTypeOK, M!RequirementTable
    <2> QED BY <2>2, <2>3, AppendedTable
<1> QED BY <1>1, <1>2, ProposalStages, ReviewStages DEF M!JobNext

(* What was resolved still refers to the same rows, and gives the same results. *)
LEMMA ResultsStay ==
    ASSUME MatchTables, BindingsStand, RowsStay, NEW inputs, InputsHold(inputs)
    PROVE  InputsHold(inputs)' /\ M!Results(inputs)' = M!Results(inputs)
<1>1. \A key \in inputs.requirements : M!Named(key)' = M!Named(key)
    BY DEF InputsHold, RowsStay, M!Named
<1>2. \A s \in inputs.states : personal'[s[1]][s[2]] = personal[s[1]][s[2]]
    BY DEF InputsHold, RowsStay
<1>3. \A b \in inputs.bindings : bindings'[b] = bindings[b]
    BY DEF InputsHold, RowsStay
<1>4. ASSUME NEW b \in inputs.bindings
      PROVE  M!Qualified(bindings[b])' <=> M!Qualified(bindings[b])
    <2>1. b \in Binding /\ bindings[b] # None
        BY DEF InputsHold
    <2>2. bindings[b] \in M!BindingRow
        BY <2>1 DEF MatchTables, M!BindingTable
    <2>3. CASE bindings[b].source = None
        BY <1>3, <2>3 DEF M!Qualified
    <2>4. CASE bindings[b].source # None
        <3>1. bindings[b].source \in ProjectEvidence
            BY <2>2, <2>4 DEF M!BindingRow
        <3>2. bindings[b].source_revision \in DOMAIN evidenceRows[bindings[b].source]
            BY <2>1, <2>4 DEF BindingsStand
        <3>3. evidenceRows'[bindings[b].source][bindings[b].source_revision] =
              evidenceRows[bindings[b].source][bindings[b].source_revision]
            BY <3>1, <3>2 DEF RowsStay
        <3> QED BY <1>3, <3>3 DEF M!Qualified, M!Source
    <2> QED BY <2>3, <2>4
<1>5. ASSUME NEW c PROVE M!Recorded(inputs.states, c)' = M!Recorded(inputs.states, c)
    BY <1>2 DEF M!Recorded
<1>6. ASSUME NEW c PROVE M!Supported(inputs.bindings, c)' = M!Supported(inputs.bindings, c)
    BY <1>3, <1>4 DEF M!Supported
<1>7. ASSUME NEW key \in inputs.requirements
      PROVE  M!Assess(key, inputs.states, inputs.bindings, inputs.projects)' =
             M!Assess(key, inputs.states, inputs.bindings, inputs.projects)
    BY <1>1, <1>5, <1>6 DEF M!Assess
<1>8. M!Results(inputs)' = M!Results(inputs)
    BY <1>7 DEF M!Results
<1>9. InputsHold(inputs)'
    BY DEF InputsHold, RowsStay, MatchTables, M!PersonalTable
<1> QED BY <1>8, <1>9

(* A step that only adds rows leaves what was resolved and assessed standing. *)
LEMMA RowsAdded ==
    ASSUME MatchInv, RowsStay, JobInv', MatchTables', BindingsStand',
           UNCHANGED <<resolved, assessments>>
    PROVE  MatchInv'
<1>1. MatchTables /\ BindingsStand
    BY DEF MatchInv
<1>2. ResolvedHold'
    <2> SUFFICES ASSUME NEW m \in Matcher, resolved'[m] # None PROVE InputsHold(resolved[m])'
        BY DEF ResolvedHold
    <2>1. InputsHold(resolved[m])
        BY DEF MatchInv, ResolvedHold
    <2> QED BY <1>1, <2>1, ResultsStay
<1>3. AssessmentsStand'
    <2> SUFFICES ASSUME NEW a \in Assessment, assessments[a] # None
                 PROVE  AssessmentStands(assessments[a])'
        BY DEF AssessmentsStand, M!Stored
    <2> DEFINE stored == assessments[a]
    <2>1. AssessmentStands(stored)
        BY DEF MatchInv, AssessmentsStand, M!Stored
    <2>2. InputsHold(stored.inputs)' /\ M!Results(stored.inputs)' = M!Results(stored.inputs)
        BY <1>1, <2>1, ResultsStay DEF AssessmentStands
    <2> QED BY <2>1, <2>2 DEF AssessmentStands, M!Gaps
<1> QED BY <1>2, <1>3 DEF MatchInv

LEMMA JobsMeanwhile ==
    ASSUME M!JobAssumption, MatchInv, M!JobNext, UNCHANGED M!matchVars
    PROVE  MatchInv'
<1>1. JobInv' /\ UNCHANGED <<personal, bindings, evidenceRows, resolved, assessments>>
    BY JobStep DEF MatchInv, M!matchVars
<1>2. RowsStay
    BY <1>1, RequirementsStay DEF MatchInv, RowsStay
<1> QED BY <1>1, <1>2, RowsAdded
        DEF MatchInv, MatchTables, BindingsStand, M!PersonalTable, M!BindingTable,
            M!EvidenceTable

LEMMA StateRecorded ==
    ASSUME MatchInv, M!RecordPersonalState
    PROVE  MatchInv'
<1>1. PICK s \in PersonalState, scopes \in SUBSET Scope :
        personal' = [personal EXCEPT ![s] = Append(@, scopes)]
    BY DEF M!RecordPersonalState
<1>2. UNCHANGED <<jobs, requirements, bindings, evidenceRows, resolved, assessments>>
    BY DEF M!RecordPersonalState, M!jobVars
<1>3. personal \in [PersonalState -> Seq(SUBSET Scope)]
    BY DEF MatchInv, MatchTables, M!PersonalTable
<1>4. /\ personal' \in [PersonalState -> Seq(SUBSET Scope)]
      /\ \A p \in PersonalState : \A r \in DOMAIN personal[p] :
            r \in DOMAIN personal'[p] /\ personal'[p][r] = personal[p][r]
    BY <1>1, <1>3, AppendedTable
<1>5. RowsStay
    BY <1>2, <1>4 DEF RowsStay
<1>6. MatchTables'
    BY <1>2, <1>4 DEF MatchInv, MatchTables, M!PersonalTable, M!BindingTable, M!EvidenceTable
<1>7. BindingsStand'
    <2> SUFFICES ASSUME NEW b \in Binding, bindings[b] # None
                 PROVE  /\ bindings[b].revision \in DOMAIN personal'[bindings[b].state]
                        /\ bindings[b].source # None =>
                            bindings[b].source_revision
                                \in DOMAIN evidenceRows[bindings[b].source]
        BY <1>2 DEF BindingsStand
    <2>1. bindings[b] \in M!BindingRow
        BY DEF MatchInv, MatchTables, M!BindingTable
    <2>2. bindings[b].state \in PersonalState
        BY <2>1 DEF M!BindingRow
    <2> QED BY <1>4, <2>2 DEF MatchInv, BindingsStand
<1> QED BY <1>2, <1>5, <1>6, <1>7, RowsAdded, JobUntouched DEF MatchInv

LEMMA EvidenceRecorded ==
    ASSUME MatchInv, M!RecordProjectEvidence
    PROVE  MatchInv'
<1>1. PICK e \in ProjectEvidence, row \in M!EvidenceRow :
        evidenceRows' = [evidenceRows EXCEPT ![e] = Append(@, row)]
    BY DEF M!RecordProjectEvidence
<1>2. UNCHANGED <<jobs, requirements, personal, bindings, resolved, assessments>>
    BY DEF M!RecordProjectEvidence, M!jobVars
<1>3. evidenceRows \in [ProjectEvidence -> Seq(M!EvidenceRow)]
    BY DEF MatchInv, MatchTables, M!EvidenceTable
<1>4. /\ evidenceRows' \in [ProjectEvidence -> Seq(M!EvidenceRow)]
      /\ \A p \in ProjectEvidence : \A r \in DOMAIN evidenceRows[p] :
            r \in DOMAIN evidenceRows'[p] /\ evidenceRows'[p][r] = evidenceRows[p][r]
    BY <1>1, <1>3, AppendedTable
<1>5. RowsStay
    BY <1>2, <1>4 DEF RowsStay
<1>6. MatchTables'
    BY <1>2, <1>4 DEF MatchInv, MatchTables, M!PersonalTable, M!BindingTable, M!EvidenceTable
<1>7. BindingsStand'
    <2> SUFFICES ASSUME NEW b \in Binding, bindings[b] # None
                 PROVE  /\ bindings[b].revision \in DOMAIN personal[bindings[b].state]
                        /\ bindings[b].source # None =>
                            bindings[b].source_revision
                                \in DOMAIN evidenceRows'[bindings[b].source]
        BY <1>2 DEF BindingsStand
    <2>1. bindings[b] \in M!BindingRow
        BY DEF MatchInv, MatchTables, M!BindingTable
    <2>2. bindings[b].source # None => bindings[b].source \in ProjectEvidence
        BY <2>1 DEF M!BindingRow
    <2> QED BY <1>4, <2>2 DEF MatchInv, BindingsStand
<1> QED BY <1>2, <1>5, <1>6, <1>7, RowsAdded, JobUntouched DEF MatchInv

LEMMA Bound ==
    ASSUME MatchInv, M!Bind
    PROVE  MatchInv'
<1>1. PICK b \in Binding, row \in M!BindingRow :
        /\ bindings[b] = None
        /\ row.revision \in DOMAIN personal[row.state]
        /\ row.source # None => row.source_revision \in DOMAIN evidenceRows[row.source]
        /\ bindings' = [bindings EXCEPT ![b] = row]
    BY DEF M!Bind
<1>2. UNCHANGED <<jobs, requirements, personal, evidenceRows, resolved, assessments>>
    BY DEF M!Bind, M!jobVars
<1>3. bindings \in [Binding -> M!BindingRow \cup {None}]
    BY DEF MatchInv, MatchTables, M!BindingTable
<1>4. /\ bindings' \in [Binding -> M!BindingRow \cup {None}]
      /\ bindings'[b] = row /\ \A c \in Binding \ {b} : bindings'[c] = bindings[c]
    BY <1>1, <1>3
<1>5. RowsStay
    BY <1>1, <1>2, <1>4 DEF RowsStay
<1>6. MatchTables'
    BY <1>2, <1>4 DEF MatchInv, MatchTables, M!PersonalTable, M!BindingTable, M!EvidenceTable
<1>7. BindingsStand'
    BY <1>1, <1>2, <1>4 DEF MatchInv, BindingsStand
<1> QED BY <1>2, <1>5, <1>6, <1>7, RowsAdded, JobUntouched DEF MatchInv

(* A candidate without two states of one capability has one revision of each to assess. *)
LEMMA OneStateEach ==
    ASSUME NEW person, NEW keys, M!Unambiguous(person, keys),
           NEW s \in M!CurrentStates(person, keys), NEW t \in M!CurrentStates(person, keys),
           CapabilityOf[s[1]] = CapabilityOf[t[1]]
    PROVE  s = t
<1>1. ASSUME NEW c \in M!CapabilitiesOf(keys),
             NEW p \in M!StatesOf(person, c), NEW q \in M!StatesOf(person, c)
      PROVE  p = q
    BY DEF M!Unambiguous
<1>2. PICK c \in M!CapabilitiesOf(keys) :
        \E p \in M!StatesOf(person, c) : s = <<p, Len(personal[p])>>
    BY DEF M!CurrentStates
<1>3. PICK d \in M!CapabilitiesOf(keys) :
        \E q \in M!StatesOf(person, d) : t = <<q, Len(personal[q])>>
    BY DEF M!CurrentStates
<1>6. PICK p \in M!StatesOf(person, c) : s = <<p, Len(personal[p])>>
    BY <1>2
<1>7. PICK q \in M!StatesOf(person, d) : t = <<q, Len(personal[q])>>
    BY <1>3
<1>4. CapabilityOf[p] = c /\ CapabilityOf[q] = d
    BY DEF M!StatesOf
<1>5. c = d
    BY <1>4, <1>6, <1>7
<1> QED BY <1>1, <1>5, <1>6, <1>7

(* A thread resolves rows that are there. *)
LEMMA Resolved ==
    ASSUME MatchInv, NEW m \in Matcher, M!Resolve(m)
    PROVE  MatchInv'
<1>1. PICK keys \in SUBSET M!RequirementKey :
        \E o, person, projects :
          /\ M!Unambiguous(person, keys)
          /\ resolved' = [resolved EXCEPT ![m] =
                M!Manifest(o, person, keys, M!CurrentStates(person, keys), projects)]
    BY Zenon DEF M!Resolve
<1>9. PICK o, person, projects :
        /\ M!Unambiguous(person, keys)
        /\ resolved' = [resolved EXCEPT ![m] =
            M!Manifest(o, person, keys, M!CurrentStates(person, keys), projects)]
    BY <1>1
<1>2. UNCHANGED <<jobs, requirements, personal, bindings, evidenceRows, assessments>>
    BY DEF M!Resolve, M!jobVars
<1> DEFINE new == M!Manifest(o, person, keys, M!CurrentStates(person, keys), projects)
<1>3. InputsHold(new)
    <2>1. /\ new.requirements = keys
          /\ new.states = M!CurrentStates(person, keys)
          /\ new.person = person
          /\ new.bindings = M!BindingsOf(M!CurrentStates(person, keys))
        BY DEF M!Manifest
    <2>2. ASSUME NEW key \in keys
          PROVE  key[1] \in Requirement /\ key[2] \in DOMAIN requirements[key[1]]
        BY DEF M!RequirementKey
    <2>3. ASSUME NEW s \in M!CurrentStates(person, keys)
          PROVE  /\ s[1] \in PersonalState /\ s[2] \in DOMAIN personal[s[1]]
                 /\ PersonOf[s[1]] = person
        <3>1. PICK p \in PersonalState :
                /\ personal[p] # <<>> /\ s = <<p, Len(personal[p])>>
                /\ PersonOf[p] = person
            BY DEF M!CurrentStates, M!StatesOf
        <3>2. p \in PersonalState /\ personal[p] # <<>>
            BY <3>1
        <3>3. personal[p] \in Seq(SUBSET Scope)
            BY <3>2 DEF MatchInv, MatchTables, M!PersonalTable
        <3>4. Len(personal[p]) \in DOMAIN personal[p]
            BY <3>2, <3>3
        <3> QED BY <3>1, <3>2, <3>4
    <2>4. ASSUME NEW b \in new.bindings
          PROVE  /\ b \in Binding /\ bindings[b] # None
                 /\ <<bindings[b].state, bindings[b].revision>> \in M!CurrentStates(person, keys)
        BY <2>1 DEF M!BindingsOf
    <2>5. ASSUME NEW s \in M!CurrentStates(person, keys), NEW t \in M!CurrentStates(person, keys),
                 CapabilityOf[s[1]] = CapabilityOf[t[1]]
          PROVE  s = t
        BY <1>9, <2>5, OneStateEach
    <2> HIDE DEF new
    <2> QED BY <2>1, <2>2, <2>3, <2>4, <2>5 DEF InputsHold
<1> HIDE DEF new
<1>4. DOMAIN resolved = Matcher
    BY DEF MatchInv, MatchTables
<1>5. /\ DOMAIN resolved' = Matcher
      /\ \A n \in Matcher : resolved'[n] = new \/ resolved'[n] = resolved[n]
    BY <1>9, <1>4 DEF new
<1>6. ASSUME NEW inputs, InputsHold(inputs)
      PROVE  InputsHold(inputs)' /\ M!Results(inputs)' = M!Results(inputs)
    <2>1. RowsStay
        BY <1>2 DEF RowsStay
    <2> QED BY <1>6, <2>1, ResultsStay DEF MatchInv
<1>7. ResolvedHold'
    BY <1>3, <1>5, <1>6 DEF MatchInv, ResolvedHold
<1>8. AssessmentsStand'
    BY <1>2, <1>6 DEF MatchInv, AssessmentsStand, AssessmentStands, M!Stored, M!Gaps
<1> QED BY <1>2, <1>5, <1>7, <1>8, JobUntouched
        DEF MatchInv, MatchTables, BindingsStand, M!PersonalTable, M!BindingTable,
            M!EvidenceTable

(* An assessment is stored with what it was made from. *)
LEMMA Assessed ==
    ASSUME MatchInv, NEW m \in Matcher, M!RecordAssessment(m)
    PROVE  MatchInv'
<1> DEFINE inputs == resolved[m]
           new == [inputs |-> inputs, results |-> M!Results(inputs),
                   gaps |-> M!Gaps(M!Results(inputs))]
<1>1. PICK a \in Assessment : assessments' = [assessments EXCEPT ![a] = new]
    BY DEF M!RecordAssessment, M!StageAssessment
<1>2. /\ resolved[m] # None
      /\ resolved' = [resolved EXCEPT ![m] = None]
      /\ UNCHANGED <<jobs, requirements, personal, bindings, evidenceRows>>
    BY DEF M!RecordAssessment, M!jobVars
<1>3. AssessmentStands(new)
    BY <1>2 DEF AssessmentStands, MatchInv, ResolvedHold
<1> HIDE DEF new
<1>4. DOMAIN resolved = Matcher /\ DOMAIN assessments = Assessment
    BY DEF MatchInv, MatchTables
<1>5. /\ DOMAIN resolved' = Matcher /\ DOMAIN assessments' = Assessment
      /\ \A n \in Matcher : resolved'[n] = None \/ resolved'[n] = resolved[n]
      /\ \A b \in Assessment : assessments'[b] = new \/ assessments'[b] = assessments[b]
    BY <1>1, <1>2, <1>4
<1>6. ASSUME NEW used, InputsHold(used)
      PROVE  InputsHold(used)' /\ M!Results(used)' = M!Results(used)
    <2>1. RowsStay
        BY <1>2 DEF RowsStay
    <2> QED BY <1>6, <2>1, ResultsStay DEF MatchInv
<1>7. ResolvedHold'
    BY <1>5, <1>6 DEF MatchInv, ResolvedHold
<1>8. ASSUME NEW stored, AssessmentStands(stored) PROVE AssessmentStands(stored)'
    BY <1>6, <1>8 DEF AssessmentStands, M!Gaps
<1>9. AssessmentsStand'
    BY <1>3, <1>5, <1>8 DEF MatchInv, AssessmentsStand, M!Stored
<1> QED BY <1>2, <1>5, <1>7, <1>9, JobUntouched
        DEF MatchInv, MatchTables, BindingsStand, M!PersonalTable, M!BindingTable,
            M!EvidenceTable

-----------------------------------------------------------------------------
(* What an assessment says of a requirement. *)
LEMMA WhatIsAssessed ==
    ASSUME MatchInv, NEW a \in M!Stored, NEW key,
           key \in DOMAIN assessments[a].results \/ key \in assessments[a].inputs.requirements
    PROVE  LET inputs == assessments[a].inputs  result == assessments[a].results[key] IN
           /\ a \in Assessment /\ InputsHold(inputs)
           /\ key \in DOMAIN assessments[a].results /\ key \in inputs.requirements
           /\ result = M!Assess(key, inputs.states, inputs.bindings, inputs.projects)
           /\ key \in assessments[a].gaps <=> result.class # "covered"
           /\ M!Named(key).scopes \subseteq Scope
<1> DEFINE inputs == assessments[a].inputs
<1>1. /\ InputsHold(inputs)
      /\ assessments[a].results = M!Results(inputs)
      /\ assessments[a].gaps = M!Gaps(assessments[a].results)
    BY DEF MatchInv, AssessmentsStand, AssessmentStands
<1>2. DOMAIN assessments[a].results = inputs.requirements
    BY <1>1 DEF M!Results
<1>3. key \in inputs.requirements
    BY <1>2
<1>4. assessments[a].results[key] =
            M!Assess(key, inputs.states, inputs.bindings, inputs.projects)
    BY <1>1, <1>3 DEF M!Results
<1>5. key \in assessments[a].gaps <=> assessments[a].results[key].class # "covered"
    BY <1>1, <1>2, <1>3 DEF M!Gaps
<1>6. M!Named(key).scopes \subseteq Scope
    <2>1. key[1] \in Requirement /\ key[2] \in DOMAIN requirements[key[1]]
        BY <1>1, <1>3 DEF InputsHold
    <2>2. requirements[key[1]] \in Seq(M!RequirementRow)
        BY <2>1 DEF MatchInv, JobInv, M!JobTypeOK, M!RequirementTable
    <2>3. M!Named(key) \in M!RequirementRow
        BY <2>1, <2>2 DEF M!Named
    <2> QED BY <2>3 DEF M!RequirementRow
<1> QED BY <1>1, <1>2, <1>3, <1>4, <1>5, <1>6 DEF M!Stored

(* A result names the scopes that are recorded and supported, and what is missing. *)
LEMMA ResultOf ==
    ASSUME NEW key, NEW states, NEW bs, NEW projects
    PROVE  LET result == M!Assess(key, states, bs, projects)
               scopes == M!Named(key).scopes
               capability == M!Named(key).maps.capability
           IN  /\ result.covered = scopes \cap M!Recorded(states, capability)
                                          \cap M!Supported(bs, capability)
               /\ result.missing = scopes \ result.covered
               /\ result.class \in M!Classification
               /\ result.class = "covered" <=> result.covered = scopes
               /\ result = [covered |-> result.covered, missing |-> result.missing,
                            class |-> result.class]
BY DEF M!Assess, M!Classification

LEMMA RowsAreAssessments ==
    ASSUME MatchInv, NEW a \in M!Stored
    PROVE  M!AssessmentRow(assessments[a]) /\ M!Replay(a) \in {"same", "drifted"}
<1> DEFINE stored == assessments[a]
<1>1. /\ stored.results = M!Results(stored.inputs)
      /\ stored.gaps = M!Gaps(stored.results)
    BY DEF MatchInv, AssessmentsStand, AssessmentStands
<1>2. DOMAIN stored.results = stored.inputs.requirements
    BY <1>1 DEF M!Results
<1>3. ASSUME NEW key \in DOMAIN stored.results
      PROVE  stored.results[key] \in M!ResultRow
    BY WhatIsAssessed, ResultOf DEF M!ResultRow
<1>4. M!Readable(stored)
    BY <1>1, <1>2 DEF M!Readable, M!Gapped, M!Gaps
<1> HIDE DEF stored
<1>5. M!AssessmentRow(stored)
    BY <1>1, <1>2, <1>3 DEF M!AssessmentRow, M!Gaps
<1>6. M!Replay(a) \in {"same", "drifted"}
    BY <1>1, <1>4 DEF M!Replay, stored
<1> QED BY <1>5, <1>6 DEF stored

LEMMA EarnedScopes ==
    ASSUME MatchInv
    PROVE  M!CoveredIsEarned
<1> SUFFICES ASSUME NEW a \in M!Stored, NEW key \in DOMAIN assessments[a].results,
                    key \notin assessments[a].gaps, NEW scope \in M!Named(key).scopes
             PROVE  \E s \in assessments[a].inputs.states, b \in assessments[a].inputs.bindings :
                        /\ CapabilityOf[s[1]] = M!Named(key).maps.capability
                        /\ PersonOf[s[1]] = assessments[a].inputs.person
                        /\ scope \in personal[s[1]][s[2]]
                        /\ <<bindings[b].state, bindings[b].revision>> = s
                        /\ scope \in bindings[b].scopes
                        /\ M!Qualified(bindings[b])
    BY DEF M!CoveredIsEarned, M!Qualified, M!Source
<1> DEFINE inputs == assessments[a].inputs
           capability == M!Named(key).maps.capability
<1>1. scope \in M!Recorded(inputs.states, capability)
                \cap M!Supported(inputs.bindings, capability)
    BY WhatIsAssessed, ResultOf
<1>2. PICK s \in inputs.states :
        CapabilityOf[s[1]] = capability /\ scope \in personal[s[1]][s[2]]
    BY <1>1 DEF M!Recorded
<1>3. PICK b \in inputs.bindings :
        /\ CapabilityOf[bindings[b].state] = capability
        /\ scope \in bindings[b].scopes /\ M!Qualified(bindings[b])
    BY <1>1 DEF M!Supported
<1>4. InputsHold(inputs)
    BY WhatIsAssessed
<1> DEFINE bound == <<bindings[b].state, bindings[b].revision>>
<1>5. bound \in inputs.states /\ CapabilityOf[bound[1]] = capability
    BY <1>3, <1>4 DEF InputsHold
<1> HIDE DEF bound
<1>6. bound = s /\ PersonOf[s[1]] = inputs.person
    BY <1>2, <1>4, <1>5 DEF InputsHold
<1> QED BY <1>2, <1>3, <1>6 DEF bound

LEMMA CompleteGaps ==
    ASSUME MatchInv
    PROVE  M!GapsAreComplete
<1> SUFFICES ASSUME NEW a \in M!Stored, NEW key \in DOMAIN assessments[a].results
             PROVE  LET result == assessments[a].results[key] IN
                    /\ result.covered \cup result.missing = M!Named(key).scopes
                    /\ result.covered \cap result.missing = {}
                    /\ key \in assessments[a].gaps <=> result.missing # {}
    BY DEF M!GapsAreComplete
<1> DEFINE result == assessments[a].results[key]
           scopes == M!Named(key).scopes
<1>1. /\ result.covered \subseteq scopes
      /\ result.missing = scopes \ result.covered
      /\ result.class = "covered" <=> result.covered = scopes
      /\ key \in assessments[a].gaps <=> result.class # "covered"
    BY WhatIsAssessed, ResultOf
<1> HIDE DEF result, scopes
<1>2. result.covered \cup result.missing = scopes /\ result.covered \cap result.missing = {}
    BY <1>1
<1>3. result.covered = scopes <=> result.missing = {}
    BY <1>1
<1> QED BY <1>1, <1>2, <1>3 DEF result, scopes

(* From the same states, more bindings and more projects support no less. *)
LEMMA MoreSupportsMore ==
    ASSUME NEW key, NEW states, NEW bs, NEW cs, bs \subseteq cs,
           NEW projects, NEW others, projects \subseteq others
    PROVE  M!Rank(M!Assess(key, states, bs, projects).class) <=
           M!Rank(M!Assess(key, states, cs, others).class)
<1> DEFINE capability == M!Named(key).maps.capability
           scopes == M!Named(key).scopes
           recorded == scopes \cap M!Recorded(states, capability)
           less == scopes \cap M!Supported(bs, capability)
           more == scopes \cap M!Supported(cs, capability)
           Near(ps) == \E p \in ps : ProjectCapability[p[1]] = capability
           Class(supported, near) ==
                IF recorded \cap supported = scopes THEN "covered"
                ELSE IF recorded # {} \/ supported # {} \/ near
                     THEN "quick_to_strengthen" ELSE "clear_gap"
<1>1. /\ M!Assess(key, states, bs, projects).class = Class(less, Near(projects))
      /\ M!Assess(key, states, cs, others).class = Class(more, Near(others))
    BY DEF M!Assess
<1>2. M!Supported(bs, capability) \subseteq M!Supported(cs, capability)
    BY DEF M!Supported
<1>3. less \subseteq more /\ (Near(projects) => Near(others))
    BY <1>2
<1>4. recorded \subseteq scopes /\ less \subseteq scopes /\ more \subseteq scopes
    OBVIOUS
<1> HIDE DEF capability, scopes, recorded, less, more, Near
<1>5. /\ Class(less, Near(projects)) = "covered" => Class(more, Near(others)) = "covered"
      /\ Class(less, Near(projects)) = "quick_to_strengthen" =>
            Class(more, Near(others)) \in {"covered", "quick_to_strengthen"}
      /\ Class(less, Near(projects)) \in M!Classification
      /\ Class(more, Near(others)) \in M!Classification
    BY <1>3, <1>4 DEF M!Classification
<1> HIDE DEF Class
<1> QED BY <1>1, <1>5 DEF M!Rank, M!Classification

LEMMA NeverHurts ==
    ASSUME MatchInv
    PROVE  M!EvidenceNeverHurts
<1> SUFFICES ASSUME NEW a \in M!Stored, NEW b \in M!Stored,
                    assessments[a].inputs.states = assessments[b].inputs.states,
                    assessments[a].inputs.bindings \subseteq assessments[b].inputs.bindings,
                    assessments[a].inputs.projects \subseteq assessments[b].inputs.projects,
                    NEW key \in assessments[a].inputs.requirements
                                    \cap assessments[b].inputs.requirements
             PROVE  M!Rank(assessments[a].results[key].class) <=
                    M!Rank(assessments[b].results[key].class)
    BY DEF M!EvidenceNeverHurts
<1> DEFINE x == assessments[a].inputs
           y == assessments[b].inputs
<1>1. /\ assessments[a].results[key] = M!Assess(key, x.states, x.bindings, x.projects)
      /\ assessments[b].results[key] = M!Assess(key, x.states, y.bindings, y.projects)
    BY WhatIsAssessed
<1>2. M!Rank(M!Assess(key, x.states, x.bindings, x.projects).class) <=
      M!Rank(M!Assess(key, x.states, y.bindings, y.projects).class)
    BY MoreSupportsMore
<1> QED BY <1>1, <1>2

(* While jobs are recorded, requirements reviewed, states, evidence and bindings added and
   threads assess between each other's steps, a stored assessment covers a requirement only
   by what the candidate recorded of its capability and qualified evidence supports, names
   every gap, is no worse for more evidence, and is found again by a replay. *)
THEOREM AssessmentSafety ==
    ASSUME M!JobAssumption
    PROVE  M!MatchSpec => []AssessmentsHold
<1>1. M!JobInit /\ M!MatchInit => MatchInv
    <2> SUFFICES ASSUME M!JobInit, M!MatchInit PROVE MatchInv
        OBVIOUS
    <2>1. JobInv
        BY JobStart
    <2>2. MatchTables
        BY DEF M!MatchInit, M!NothingMatched, MatchTables, M!PersonalTable, M!BindingTable,
               M!EvidenceTable
    <2>3. BindingsStand /\ ResolvedHold /\ AssessmentsStand
        BY DEF M!MatchInit, M!NothingMatched, BindingsStand, ResolvedHold, AssessmentsStand,
               M!Stored
    <2> QED BY <2>1, <2>2, <2>3 DEF MatchInv
<1>2. ASSUME MatchInv,
             [M!MatchNext \/ (M!JobNext /\ UNCHANGED M!matchVars)]_<<M!jobVars, M!matchVars>>
      PROVE  MatchInv'
    <2>1. CASE UNCHANGED <<M!jobVars, M!matchVars>>
        <3>1. UNCHANGED <<jobs, requirements, personal, bindings, evidenceRows, resolved,
                          assessments>>
            BY <2>1 DEF M!jobVars, M!matchVars
        <3>2. RowsStay
            BY <3>1 DEF RowsStay
        <3> QED BY <1>2, <3>1, <3>2, RowsAdded, JobUntouched
                DEF MatchInv, MatchTables, BindingsStand, M!PersonalTable, M!BindingTable,
                    M!EvidenceTable
    <2>2. CASE M!RecordProjectState
        <3>1. UNCHANGED <<jobs, requirements, personal, bindings, evidenceRows, resolved,
                          assessments>>
            BY <2>2 DEF M!RecordProjectState, M!jobVars
        <3>2. RowsStay
            BY <3>1 DEF RowsStay
        <3> QED BY <1>2, <3>1, <3>2, RowsAdded, JobUntouched
                DEF MatchInv, MatchTables, BindingsStand, M!PersonalTable, M!BindingTable,
                    M!EvidenceTable
    <2> QED BY <1>2, <2>1, <2>2, JobsMeanwhile, StateRecorded, EvidenceRecorded, Bound,
               Resolved, Assessed DEF M!MatchNext
<1>3. MatchInv => AssessmentsHold
    <2> SUFFICES ASSUME MatchInv PROVE AssessmentsHold
        OBVIOUS
    <2>1. M!MatchTypeOK /\ M!ReplayFindsTheSame
        BY RowsAreAssessments DEF M!MatchTypeOK, M!ReplayFindsTheSame, MatchInv, MatchTables
    <2> QED BY <2>1, EarnedScopes, CompleteGaps, NeverHurts DEF AssessmentsHold
<1> QED BY <1>1, <1>2, <1>3, PTL DEF M!MatchSpec

-----------------------------------------------------------------------------
(* Capabilities.  A released version never changes, and every acceptance releases one:
   what the versions hold is what was accepted. *)
InGraph(n) == candidates[n] # None /\ candidates[n].status = "accepted"

(* The graph's versions: finitely many, none newer than the clock while it is steady. *)
VersionsHold ==
    /\ IsFiniteSet(G!Released)
    /\ \A n \in Node : n \in G!Released <=> InGraph(n)
    /\ \A n \in G!Released : versions[n].nodes \subseteq G!Released
    /\ steady => \A n \in G!Released : versions[n].at <= now

(* The release of a plan carries over a version as it was released. *)
ReleaseHolds(release) ==
    /\ release.parent \in G!Released \cup {None}
    /\ release.carried = IF release.parent = None THEN {} ELSE versions[release.parent].nodes
    /\ release = [parent |-> release.parent, carried |-> release.carried]

(* A review that was planned is one its actor may make of the candidate. *)
PlanHolds(plan) ==
    /\ plan.node \in Node /\ candidates[plan.node] # None
    /\ plan.status \in {"accepted", "merged", "ignored"}
    /\ plan.actor \in User \cup Rule /\ plan.actor # None
    /\ plan.status \in {"accepted", "merged"} => plan.actor \in User
    /\ plan.actor # candidates[plan.node].discovered_by
    /\ plan.target \in Node \cup {None}
    /\ (plan.status = "merged") <=> (plan.target # None)
    /\ IF plan.status = "accepted" THEN ReleaseHolds(plan.release) ELSE plan.release = None

PlansHold == \A c \in Reviewer : planned[c] # None => PlanHolds(planned[c])

(* The inductive invariant of the graph. *)
GraphInv ==
    /\ G!CapabilityTypeOK
    /\ DOMAIN planned = Reviewer
    /\ VersionsHold
    /\ PlansHold
    /\ AcceptancesHold

(* A finite, non-empty set of natural numbers has a greatest element. *)
LEMMA GreatestOfFinite ==
    ASSUME NEW T \in SUBSET Nat, T # {}, IsFiniteSet(T)
    PROVE  \E x \in T : \A y \in T : y <= x
<1> DEFINE From(x) == {y \in T : x <= y}
<1> DEFINE Tails == {From(x) : x \in T}
<1>1. Tails \subseteq FiniteSubsetsOf(Nat)
    <2>1. \A x \in T : IsFiniteSet(From(x))
        BY FS_Subset
    <2> QED BY <2>1 DEF FiniteSubsetsOf
<1>2. Tails # {}
    OBVIOUS
<1> HIDE DEF Tails
<1>3. PICK B \in Tails : \A D \in Tails : <<D, B>> \notin StrictSubsetOrdering(Nat)
    BY <1>1, <1>2, WFMin, FS_StrictSubsetOrderingWellFounded, Zenon
<1>4. PICK x \in T : B = From(x)
    BY DEF Tails
<1>5. ASSUME NEW y \in T, x < y PROVE FALSE
    <2>1. From(y) \in Tails
        BY DEF Tails
    <2>2. x \in Nat /\ y \in Nat /\ x < y
        BY <1>5
    <2> SUFFICES x \in From(x) /\ From(y) \subseteq From(x) /\ x \notin From(y)
                 => <<From(y), B>> \in StrictSubsetOrdering(Nat)
        <3>1. x \in From(x) /\ x \notin From(y)
            BY <2>2
        <3>2. ASSUME NEW z \in From(y) PROVE z \in From(x)
            <4>1. z \in T /\ z \in Nat /\ y <= z
                OBVIOUS
            <4>2. x <= z
                BY <4>1, <2>2
            <4> QED BY <4>1, <4>2
        <3> QED BY <3>1, <3>2, <2>1, <1>3
    <2>3. From(y) \in SUBSET Nat /\ From(x) \in SUBSET Nat
        OBVIOUS
    <2> HIDE DEF From
    <2> QED BY <1>4, <2>3 DEF StrictSubsetOrdering
<1>6. \A y \in T : y <= x
    <2> SUFFICES ASSUME NEW y \in T PROVE y <= x
        OBVIOUS
    <2>1. x \in Nat /\ y \in Nat /\ ~(x < y)
        BY <1>5
    <2> QED BY <2>1
<1> QED
    BY <1>6, Zenon

(* A graph that has versions has a latest one. *)
LEMMA LatestIsReleased ==
    ASSUME G!CapabilityAssumption, GraphInv
    PROVE  G!Latest \in G!Released \/ (G!Latest = None /\ G!Released = {})
<1>1. CASE G!Released = {}
    BY <1>1 DEF G!Latest
<1>2. CASE G!Released # {}
    <2>1. \A n \in G!Released : n \in Nat /\ versions[n].at \in Nat
        BY DEF GraphInv, G!CapabilityTypeOK, G!VersionTable, G!Released, G!Version,
               G!CapabilityAssumption
    <2> DEFINE Times == {versions[n].at : n \in G!Released}
    <2>2. Times \in SUBSET Nat /\ Times # {} /\ IsFiniteSet(Times)
        <3>1. Times \in SUBSET Nat /\ Times # {}
            BY <1>2, <2>1
        <3>2. Times \subseteq 0..MaxTime
            BY DEF GraphInv, G!CapabilityTypeOK, G!VersionTable, G!Released, G!Version
        <3>3. IsFiniteSet(Times)
            <4>1. IsFiniteSet(0..MaxTime)
                BY FS_Interval DEF G!CapabilityAssumption
            <4> HIDE DEF Times
            <4> QED BY <3>2, <4>1, FS_Subset
        <3> QED BY <3>1, <3>3
    <2>3. PICK t \in Times : \A u \in Times : u <= t
        <3> HIDE DEF Times
        <3> QED BY <2>2, GreatestOfFinite
    <2> DEFINE Newest == {n \in G!Released : versions[n].at = t}
    <2>4. Newest \in SUBSET Nat /\ Newest # {} /\ IsFiniteSet(Newest)
        <3>1. Newest \in SUBSET Nat /\ Newest # {}
            BY <2>1, <2>3
        <3>2. IsFiniteSet(Newest)
            BY FS_Subset DEF GraphInv, VersionsHold
        <3> QED BY <3>1, <3>2
    <2>5. PICK m \in Newest : \A n \in Newest : n <= m
        <3> HIDE DEF Newest
        <3> QED BY <2>4, GreatestOfFinite
    <2>6. m \in G!Released /\ \A n \in G!Released \ {m} : G!Newer(m, n)
        <3> SUFFICES ASSUME NEW n \in G!Released, n # m PROVE G!Newer(m, n)
            BY <2>5
        <3>1. versions[n].at <= t /\ versions[m].at = t
              /\ versions[n].at \in Nat /\ t \in Nat /\ n \in Nat /\ m \in Nat
            BY <2>1, <2>3, <2>5
        <3>2. versions[n].at = t => n <= m
            BY <2>5
        <3> QED BY <3>1, <3>2 DEF G!Newer
    <2> QED BY <1>2, <2>6 DEF G!Latest
<1> QED BY <1>1, <1>2

(* A version that becomes later than every other one becomes the latest. *)
LEMMA LatestIsLast ==
    ASSUME NEW n \in G!Released', versions'[n].at \in Nat,
           \A m \in G!Released' \ {n} :
                versions'[m].at \in Nat /\ versions'[m].at < versions'[n].at
    PROVE  G!Latest' = n
<1>1. \A m \in G!Released' \ {n} : G!Newer(n, m)'
    BY DEF G!Newer
<1>2. ASSUME NEW m \in G!Released', \A k \in G!Released' \ {m} : G!Newer(m, k)'
      PROVE  m = n
    <2> SUFFICES ASSUME m # n PROVE FALSE
        OBVIOUS
    <2>1. G!Newer(m, n)'
        BY <1>2
    <2> QED BY <2>1 DEF G!Newer
<1> QED BY <1>1, <1>2 DEF G!Latest

(* What a step that releases nothing and decides nothing leaves as it was. *)
LEMMA GraphUntouched ==
    ASSUME GraphInv, UNCHANGED <<candidates, versions, receipts, now, steady>>,
           DOMAIN planned' = Reviewer, PlansHold'
    PROVE  GraphInv'
<1>1. G!Released' = G!Released /\ G!Latest' = G!Latest
    BY DEF G!Latest, G!Newer, G!Released
<1>2. G!CapabilityTypeOK'
    BY DEF GraphInv, G!CapabilityTypeOK, G!CandidateTable, G!VersionTable
<1>3. VersionsHold'
    BY <1>1 DEF GraphInv, VersionsHold, InGraph
<1>4. G!AcceptedStaysInLatest'
    BY <1>1 DEF GraphInv, AcceptancesHold, G!AcceptedStaysInLatest
<1>5. G!VersionAddsOne' /\ G!LetInByAnotherUser'
    BY <1>1 DEF GraphInv, AcceptancesHold, G!VersionAddsOne, G!LetInByAnotherUser
<1>6. G!RetryFindsItsReceipt'
    BY DEF GraphInv, AcceptancesHold, G!RetryFindsItsReceipt, G!Replay
<1> QED BY <1>2, <1>3, <1>4, <1>5, <1>6 DEF GraphInv, AcceptancesHold

LEMMA PlansUntouched ==
    ASSUME UNCHANGED <<candidates, versions>>,
           \A c \in Reviewer : planned'[c] # None => PlanHolds(planned'[c])
    PROVE  PlansHold'
BY DEF PlansHold, PlanHolds, ReleaseHolds, G!Released

LEMMA PlanReviewStep ==
    ASSUME G!CapabilityAssumption, GraphInv, NEW c \in Reviewer, NEW actor \in User \cup Rule,
           G!PlanReview(c, actor)
    PROVE  GraphInv'
<1>1. PICK n \in Node, status \in {"accepted", "merged", "ignored"}, target \in Node \cup {None} :
        /\ candidates[n] # None
        /\ candidates[n].status = "pending"
        /\ G!MayDecide(actor, status, candidates[n])
        /\ G!Explicit([candidates[n] EXCEPT !.status = status, !.reviewed_by = actor,
                                            !.target = target])
        /\ planned' = [planned EXCEPT ![c] =
                [node |-> n, status |-> status, actor |-> actor, target |-> target,
                 release |-> IF status = "accepted" THEN G!PlanRelease ELSE None]]
    BY DEF G!PlanReview
<1>2. UNCHANGED <<candidates, versions, receipts, now, steady>>
    BY DEF G!PlanReview
<1> DEFINE plan == [node |-> n, status |-> status, actor |-> actor, target |-> target,
                    release |-> IF status = "accepted" THEN G!PlanRelease ELSE None]
<1>3. PlanHolds(plan)
    <2>1. candidates[n] \in G!CandidateRow
        BY <1>1 DEF GraphInv, G!CapabilityTypeOK, G!CandidateTable
    <2>2. actor # None /\ ((status = "merged") <=> (target # None))
        <3>1. candidates[n] \in [status : {"pending", "accepted", "merged", "ignored"},
                discovered_by : G!Actor, reviewed_by : User \cup Rule \cup {None},
                target : Node \cup {None}]
            BY <2>1 DEF G!CandidateRow
        <3> QED BY <1>1, <3>1 DEF G!Explicit
    <2>3. status = "accepted" => ReleaseHolds(G!PlanRelease)
        BY LatestIsReleased DEF ReleaseHolds, G!PlanRelease, G!Nodes
    <2> QED BY <1>1, <2>2, <2>3 DEF PlanHolds, G!MayDecide
<1>4. PlansHold'
    <2>1. ASSUME NEW d \in Reviewer, planned'[d] # None PROVE PlanHolds(planned'[d])
        <3>1. planned'[d] = plan \/ planned'[d] = planned[d]
            BY <1>1 DEF GraphInv
        <3> HIDE DEF plan
        <3> QED BY <1>3, <2>1, <3>1 DEF GraphInv, PlansHold
    <2> QED BY <1>2, <2>1, PlansUntouched
<1>5. DOMAIN planned' = Reviewer
    BY <1>1 DEF GraphInv
<1> QED BY <1>2, <1>4, <1>5, GraphUntouched

LEMMA RefuseReviewStep ==
    ASSUME G!CapabilityAssumption, GraphInv, NEW c \in Reviewer, G!RefuseReview(c)
    PROVE  GraphInv'
<1>1. UNCHANGED <<candidates, versions, receipts, now, steady>>
      /\ planned' = [planned EXCEPT ![c] = None]
    BY DEF G!RefuseReview
<1>2. PlansHold' /\ DOMAIN planned' = Reviewer
    BY <1>1 DEF GraphInv, PlansHold, PlanHolds, ReleaseHolds, G!Released
<1> QED BY <1>1, <1>2, GraphUntouched

(* What the commit of a planned review writes of its candidate. *)
LEMMA CommittedRow ==
    ASSUME G!CapabilityAssumption, GraphInv, NEW c \in Reviewer, planned[c] # None,
           NEW t, G!StageReview(planned[c], t)
    PROVE  LET plan == planned[c]
               n == plan.node
           IN  /\ PlanHolds(plan)
               /\ candidates[n] # None /\ candidates[n].status = "pending"
               /\ candidates' \in G!CandidateTable
               /\ candidates'[n] # None
               /\ candidates'[n].status = plan.status
               /\ candidates'[n].reviewed_by = plan.actor
               /\ candidates'[n].target = plan.target
               /\ candidates'[n].discovered_by = candidates[n].discovered_by
               /\ \A m \in Node \ {n} : candidates'[m] = candidates[m]
<1> DEFINE plan == planned[c]
           n == plan.node
           row == [candidates[n] EXCEPT !.status = plan.status, !.reviewed_by = plan.actor,
                                        !.target = plan.target]
<1>1. PlanHolds(plan)
    BY DEF GraphInv, PlansHold
<1>2. n \in Node /\ candidates[n] # None
    BY <1>1 DEF PlanHolds
<1>3. candidates[n].status = "pending" /\ candidates' = [candidates EXCEPT ![n] = row]
    BY DEF G!StageReview, G!StillPending
<1>4. candidates \in [Node -> G!CandidateRow \cup {None}]
    BY DEF GraphInv, G!CapabilityTypeOK, G!CandidateTable
<1> DEFINE Rows == [status : {"pending", "accepted", "merged", "ignored"},
                    discovered_by : G!Actor, reviewed_by : User \cup Rule \cup {None},
                    target : Node \cup {None}]
<1>5. candidates[n] \in Rows
    BY <1>2, <1>4 DEF G!CandidateRow
<1>6. /\ plan.status \in {"accepted", "merged", "ignored"}
      /\ plan.actor \in User \cup Rule /\ plan.actor # None
      /\ plan.target \in Node \cup {None}
      /\ (plan.status = "merged") <=> (plan.target # None)
    BY <1>1 DEF PlanHolds
<1> HIDE DEF n, plan
<1>7. /\ row \in Rows
      /\ row.status = plan.status /\ row.reviewed_by = plan.actor /\ row.target = plan.target
      /\ row.discovered_by = candidates[n].discovered_by
    BY <1>5, <1>6
<1> HIDE DEF row
<1>8. row \in G!CandidateRow /\ row # None
    <2>1. row \in G!CandidateRow
        BY <1>6, <1>7 DEF G!CandidateRow
    <2> QED BY <2>1 DEF G!CapabilityAssumption
<1>9. /\ candidates' \in [Node -> G!CandidateRow \cup {None}]
      /\ candidates'[n] = row
      /\ \A m \in Node \ {n} : candidates'[m] = candidates[m]
    BY <1>2, <1>3, <1>4, <1>8
<1> QED BY <1>1, <1>2, <1>3, <1>7, <1>8, <1>9 DEF G!CandidateTable, n, plan

(* What an acceptance releases. *)
LEMMA CommittedVersion ==
    ASSUME G!CapabilityAssumption, GraphInv, NEW c \in Reviewer, planned[c] # None,
           NEW t \in 1..MaxTime, G!StageReview(planned[c], t), planned[c].status = "accepted"
    PROVE  LET n == planned[c].node
               release == planned[c].release
           IN  /\ n \in Node /\ n \notin G!Released
               /\ ReleaseHolds(release)
               /\ release.parent = G!Latest
               /\ versions' \in G!VersionTable
               /\ versions'[n].parent = release.parent
               /\ versions'[n].at = t
               /\ versions'[n].nodes = release.carried \cup {n}
               /\ \A m \in Node \ {n} : versions'[m] = versions[m]
               /\ G!Released' = G!Released \cup {n}
<1> DEFINE n == planned[c].node
           release == planned[c].release
           version == [parent |-> release.parent, at |-> t, nodes |-> release.carried \cup {n}]
<1>1. n \in Node /\ ReleaseHolds(release)
    BY DEF GraphInv, PlansHold, PlanHolds
<1>2. /\ release.parent = G!Latest /\ versions[n] = None
      /\ versions' = [versions EXCEPT ![n] = version]
    BY DEF G!StageReview, G!StageRelease, G!StillLatest
<1>3. versions \in [Node -> G!Version \cup {None}]
    BY DEF GraphInv, G!CapabilityTypeOK, G!VersionTable
<1> HIDE DEF n, release
<1>4. release.parent \in Node \cup {None} /\ release.carried \subseteq Node
    <2>1. G!Released \subseteq Node /\ \A m \in G!Released : versions[m].nodes \subseteq Node
        BY <1>3 DEF G!Released, G!Version
    <2> QED BY <1>1, <2>1 DEF ReleaseHolds
<1>5. version \in G!Version
    <2>1. t \in 0..MaxTime
        BY DEF G!CapabilityAssumption
    <2> QED BY <1>1, <1>4, <2>1 DEF G!Version
<1>6. /\ version # None
      /\ version.parent = release.parent /\ version.at = t
      /\ version.nodes = release.carried \cup {n}
    BY <1>5 DEF G!CapabilityAssumption
<1> HIDE DEF version
<1>7. /\ versions' \in [Node -> G!Version \cup {None}]
      /\ versions'[n] = version
      /\ \A m \in Node \ {n} : versions'[m] = versions[m]
    BY <1>1, <1>2, <1>3, <1>5
<1>8. n \notin G!Released /\ G!Released' = G!Released \cup {n}
    BY <1>1, <1>2, <1>6, <1>7 DEF G!Released
<1> QED BY <1>1, <1>2, <1>6, <1>7, <1>8 DEF G!VersionTable, n, release

LEMMA OtherPlansHold ==
    ASSUME G!CapabilityAssumption, GraphInv, NEW c \in Reviewer, planned[c] # None,
           NEW t \in 1..MaxTime, G!StageReview(planned[c], t),
           planned' = [planned EXCEPT ![c] = None]
    PROVE  PlansHold' /\ DOMAIN planned' = Reviewer
<1>1. /\ \A m \in Node : candidates[m] # None =>
            /\ candidates'[m] # None
            /\ candidates'[m].discovered_by = candidates[m].discovered_by
    BY CommittedRow
<1>2. \A m \in G!Released : m \in G!Released' /\ versions'[m] = versions[m]
    <2>1. CASE planned[c].status = "accepted"
        BY <2>1, CommittedVersion DEF G!Released
    <2>2. CASE planned[c].status # "accepted"
        BY <2>2 DEF G!StageReview, G!Released
    <2> QED BY <2>1, <2>2
<1>3. ASSUME NEW release, ReleaseHolds(release) PROVE ReleaseHolds(release)'
    BY <1>2, <1>3 DEF ReleaseHolds
<1>4. ASSUME NEW plan, PlanHolds(plan) PROVE PlanHolds(plan)'
    BY <1>1, <1>3, <1>4 DEF PlanHolds
<1>5. DOMAIN planned' = Reviewer
      /\ \A d \in Reviewer : planned'[d] # None => planned'[d] = planned[d]
    BY DEF GraphInv
<1> QED BY <1>4, <1>5 DEF GraphInv, PlansHold

(* A merged or ignored candidate enters no version. *)
LEMMA DecideStep ==
    ASSUME G!CapabilityAssumption, GraphInv, NEW c \in Reviewer, G!CommitReview(c),
           planned[c].status # "accepted"
    PROVE  GraphInv'
<1>1. PICK t \in 1..MaxTime : G!Stamp(t) /\ now' = t /\ G!StageReview(planned[c], t)
    BY DEF G!CommitReview
<1> DEFINE plan == planned[c]
           n == plan.node
<1>2. /\ planned[c] # None
      /\ receipts' = [receipts EXCEPT ![n] = plan.release]
      /\ planned' = [planned EXCEPT ![c] = None]
      /\ steady' = steady
    BY DEF G!CommitReview
<1>3. /\ PlanHolds(plan)
      /\ candidates[n] # None /\ candidates[n].status = "pending"
      /\ candidates' \in G!CandidateTable
      /\ candidates'[n] # None
      /\ candidates'[n].status = plan.status
      /\ candidates'[n].reviewed_by = plan.actor
      /\ candidates'[n].target = plan.target
      /\ candidates'[n].discovered_by = candidates[n].discovered_by
      /\ \A m \in Node \ {n} : candidates'[m] = candidates[m]
    BY <1>1, <1>2, CommittedRow
<1>4. /\ versions' = versions
      /\ plan.status = "merged" => plan.target \in G!Released
    BY <1>1 DEF G!StageReview
<1>5. G!Released' = G!Released /\ G!Latest' = G!Latest
    BY <1>4 DEF G!Latest, G!Newer, G!Released
<1>6. n \in Node /\ plan.release = None /\ plan.status # "accepted"
    BY <1>3 DEF PlanHolds
<1>7. \A m \in Node : InGraph(m)' <=> InGraph(m)
    BY <1>3, <1>6 DEF InGraph
<1>8. G!CapabilityTypeOK'
    <2>1. now' \in 0..MaxTime
        BY <1>1 DEF G!CapabilityAssumption
    <2>2. receipts' \in [Node -> G!Release \cup {None}]
        BY <1>2, <1>6 DEF GraphInv, G!CapabilityTypeOK
    <2> QED BY <1>2, <1>3, <1>4, <2>1, <2>2 DEF GraphInv, G!CapabilityTypeOK, G!VersionTable
<1>9. VersionsHold'
    <2>1. ASSUME steady, NEW m \in G!Released PROVE versions[m].at <= now'
        <3>1. versions[m].at \in Nat /\ versions[m].at <= now /\ now \in Nat
            BY <2>1 DEF GraphInv, VersionsHold, G!CapabilityTypeOK, G!VersionTable, G!Version,
                        G!Released, G!CapabilityAssumption
        <3>2. now' > now /\ now' \in Nat
            BY <1>1, <2>1 DEF G!Stamp, G!CapabilityAssumption
        <3> QED BY <3>1, <3>2
    <2> QED BY <1>2, <1>4, <1>5, <1>7, <2>1 DEF GraphInv, VersionsHold
<1>10. PlansHold' /\ DOMAIN planned' = Reviewer
    BY <1>1, <1>2, OtherPlansHold
<1>11. G!AcceptedStaysInLatest'
    <2>1. {m \in Node : InGraph(m)'} = {m \in Node : InGraph(m)}
        BY <1>7
    <2> QED BY <1>2, <1>4, <1>5, <2>1
            DEF GraphInv, AcceptancesHold, G!AcceptedStaysInLatest, InGraph
<1>12. G!VersionAddsOne'
    BY <1>4, <1>5 DEF GraphInv, AcceptancesHold, G!VersionAddsOne
<1>13. G!LetInByAnotherUser'
    <2> HIDE DEF n, plan
    <2>1. plan.status = "merged" => plan.actor \in User /\ plan.actor # candidates[n].discovered_by
        BY <1>3 DEF PlanHolds, n
    <2> QED BY <1>3, <1>4, <1>5, <1>6, <2>1
            DEF GraphInv, AcceptancesHold, G!LetInByAnotherUser
<1>14. G!RetryFindsItsReceipt'
    <2> SUFFICES ASSUME NEW m \in Node, InGraph(m)'
                 PROVE  G!Replay(m)' = receipts'[m]
        BY DEF G!RetryFindsItsReceipt, InGraph
    <2>1. m # n /\ InGraph(m)
        BY <1>3, <1>6, <1>7 DEF InGraph
    <2>2. receipts'[m] = receipts[m]
        BY <1>2, <2>1 DEF GraphInv, G!CapabilityTypeOK
    <2> QED BY <1>4, <2>1, <2>2
            DEF GraphInv, AcceptancesHold, G!RetryFindsItsReceipt, G!Replay, InGraph
<1> QED BY <1>8, <1>9, <1>10, <1>11, <1>12, <1>13, <1>14 DEF GraphInv, AcceptancesHold

(* An accepted candidate enters a version of its own, on top of the latest one. *)
LEMMA AcceptStep ==
    ASSUME G!CapabilityAssumption, GraphInv, NEW c \in Reviewer, G!CommitReview(c),
           planned[c].status = "accepted"
    PROVE  GraphInv'
<1>1. PICK t \in 1..MaxTime : G!Stamp(t) /\ now' = t /\ G!StageReview(planned[c], t)
    BY DEF G!CommitReview
<1> DEFINE plan == planned[c]
           n == plan.node
           release == plan.release
<1>2. /\ planned[c] # None
      /\ receipts' = [receipts EXCEPT ![n] = release]
      /\ planned' = [planned EXCEPT ![c] = None]
      /\ steady' = steady
    BY DEF G!CommitReview
<1>3. /\ PlanHolds(plan)
      /\ candidates' \in G!CandidateTable
      /\ candidates'[n] # None
      /\ candidates'[n].status = "accepted"
      /\ candidates'[n].reviewed_by = plan.actor
      /\ candidates'[n].discovered_by = candidates[n].discovered_by
      /\ \A m \in Node \ {n} : candidates'[m] = candidates[m]
    BY <1>1, <1>2, CommittedRow
<1>4. /\ n \in Node /\ n \notin G!Released
      /\ ReleaseHolds(release)
      /\ release.parent = G!Latest
      /\ versions' \in G!VersionTable
      /\ versions'[n].parent = release.parent
      /\ versions'[n].at = t
      /\ versions'[n].nodes = release.carried \cup {n}
      /\ \A m \in Node \ {n} : versions'[m] = versions[m]
      /\ G!Released' = G!Released \cup {n}
    BY <1>1, <1>2, CommittedVersion
<1>5. plan.actor \in User /\ plan.actor # candidates[n].discovered_by
    BY <1>3 DEF PlanHolds
<1> HIDE DEF n, release
<1>6. /\ G!Released \subseteq Node
      /\ \A m \in G!Released : versions[m] \in G!Version /\ versions[m].nodes \subseteq G!Released
    BY DEF GraphInv, VersionsHold, G!Released, G!CapabilityTypeOK, G!VersionTable
<1>7. release.carried \subseteq G!Released
    BY <1>4, <1>6 DEF ReleaseHolds
<1>8. \A m \in Node : InGraph(m)' <=> (m = n \/ InGraph(m))
    BY <1>3, <1>4 DEF InGraph
<1>9. G!CapabilityTypeOK'
    <2>1. now' \in 0..MaxTime
        BY <1>1 DEF G!CapabilityAssumption
    <2>2. release \in G!Release
        <3>1. release.parent \in Node \cup {None} /\ release.carried \subseteq Node
            BY <1>4, <1>6, <1>7 DEF ReleaseHolds
        <3> QED BY <1>4, <3>1 DEF ReleaseHolds, G!Release
    <2>3. receipts' \in [Node -> G!Release \cup {None}]
        BY <1>2, <2>2 DEF GraphInv, G!CapabilityTypeOK
    <2> QED BY <1>2, <1>3, <1>4, <2>1, <2>3 DEF GraphInv, G!CapabilityTypeOK
<1>10. \A m \in G!Released : steady => /\ versions[m].at \in Nat
                                       /\ versions[m].at < t
    <2> SUFFICES ASSUME NEW m \in G!Released, steady
                 PROVE  versions[m].at \in Nat /\ versions[m].at < t
        OBVIOUS
    <2>1. versions[m].at \in Nat /\ versions[m].at <= now /\ now \in Nat
        BY <1>6 DEF GraphInv, VersionsHold, G!CapabilityTypeOK, G!Version,
                    G!CapabilityAssumption
    <2>2. t > now /\ t \in Nat
        BY <1>1 DEF G!Stamp, G!CapabilityAssumption
    <2> QED BY <2>1, <2>2
<1>11. VersionsHold'
    <2>1. IsFiniteSet(G!Released)'
        BY <1>4, FS_AddElement DEF GraphInv, VersionsHold
    <2>2. \A m \in Node : m \in G!Released' <=> InGraph(m)'
        BY <1>4, <1>8 DEF GraphInv, VersionsHold
    <2>3. \A m \in G!Released' : versions'[m].nodes \subseteq G!Released'
        BY <1>4, <1>6, <1>7
    <2>4. ASSUME steady, NEW m \in G!Released' PROVE versions'[m].at <= now'
        <3>1. CASE m = n
            BY <1>1, <1>4, <3>1
        <3>2. CASE m # n
            <4>1. m \in G!Released /\ versions'[m] = versions[m]
                BY <1>4, <1>6, <2>4, <3>2
            <4> QED BY <1>1, <1>10, <2>4, <4>1
        <3> QED BY <3>1, <3>2
    <2> QED BY <1>2, <2>1, <2>2, <2>3, <2>4 DEF VersionsHold
<1>12. PlansHold' /\ DOMAIN planned' = Reviewer
    BY <1>1, <1>2, OtherPlansHold
<1>13. G!AcceptedStaysInLatest'
    <2> SUFFICES ASSUME steady
                 PROVE  versions'[G!Latest'].nodes = {m \in Node : InGraph(m)'}
        BY <1>2 DEF G!AcceptedStaysInLatest, InGraph
    <2>1. G!Latest' = n
        <3>1. \A m \in G!Released' \ {n} :
                versions'[m].at \in Nat /\ versions'[m].at < versions'[n].at
            BY <1>4, <1>6, <1>10
        <3>2. versions'[n].at \in Nat /\ n \in G!Released'
            BY <1>4
        <3> QED BY <3>1, <3>2, LatestIsLast
    <2>2. release.carried = {m \in Node : InGraph(m)}
        <3>1. CASE G!Released = {}
            BY <1>7, <3>1 DEF GraphInv, VersionsHold
        <3>2. CASE G!Released # {}
            <4>1. G!Latest \in G!Released
                BY <3>2, LatestIsReleased
            <4>2. G!Latest # None
                BY <1>6, <4>1 DEF G!CapabilityAssumption
            <4>3. versions[G!Latest].nodes = {m \in Node : InGraph(m)}
                BY <3>2 DEF GraphInv, AcceptancesHold, G!AcceptedStaysInLatest, InGraph
            <4> QED BY <1>4, <4>2, <4>3 DEF ReleaseHolds
        <3> QED BY <3>1, <3>2
    <2>3. {m \in Node : InGraph(m)'} = {m \in Node : InGraph(m)} \cup {n}
        BY <1>4, <1>8
    <2> QED BY <1>4, <2>1, <2>2, <2>3
<1>14. G!VersionAddsOne'
    <2> SUFFICES ASSUME NEW m \in G!Released'
                 PROVE  /\ versions'[m].parent \in G!Released' \cup {None}
                        /\ versions'[m].nodes =
                            {m} \cup (IF versions'[m].parent = None THEN {}
                                      ELSE versions'[versions'[m].parent].nodes)
        BY DEF G!VersionAddsOne
    <2>1. \A k \in G!Released : versions'[k] = versions[k]
        BY <1>4, <1>6
    <2>2. CASE m = n
        BY <1>4, <2>1, <2>2 DEF ReleaseHolds
    <2>3. CASE m # n
        <3>1. m \in G!Released
            BY <1>4, <2>3
        <3>2. /\ versions[m].parent \in G!Released \cup {None}
              /\ versions[m].nodes =
                    {m} \cup (IF versions[m].parent = None THEN {}
                              ELSE versions[versions[m].parent].nodes)
            BY <3>1 DEF GraphInv, AcceptancesHold, G!VersionAddsOne
        <3> QED BY <1>4, <2>1, <3>1, <3>2
    <2> QED BY <2>2, <2>3
<1>15. G!LetInByAnotherUser'
    <2> SUFFICES ASSUME NEW m \in Node, candidates'[m] # None,
                        candidates'[m].status \in {"accepted", "merged"}
                 PROVE  /\ candidates'[m].reviewed_by \in User
                        /\ candidates'[m].reviewed_by # candidates'[m].discovered_by
                        /\ candidates'[m].status = "merged" =>
                                candidates'[m].target \in G!Released'
        BY DEF G!LetInByAnotherUser
    <2>1. CASE m = n
        BY <1>3, <1>5, <2>1
    <2>2. CASE m # n
        BY <1>3, <1>4, <2>2 DEF GraphInv, AcceptancesHold, G!LetInByAnotherUser
    <2> QED BY <2>1, <2>2
<1>16. G!RetryFindsItsReceipt'
    <2> SUFFICES ASSUME NEW m \in Node, InGraph(m)'
                 PROVE  G!Replay(m)' = receipts'[m]
        BY DEF G!RetryFindsItsReceipt, InGraph
    <2>1. CASE m = n
        <3>1. receipts'[m] = release
            BY <1>2, <1>4, <2>1 DEF GraphInv, G!CapabilityTypeOK
        <3>2. (release.carried \cup {n}) \ {n} = release.carried
            BY <1>4, <1>7
        <3> QED BY <1>4, <2>1, <3>1, <3>2 DEF G!Replay, ReleaseHolds
    <2>2. CASE m # n
        <3>1. InGraph(m) /\ versions'[m] = versions[m] /\ receipts'[m] = receipts[m]
            BY <1>2, <1>4, <1>8, <2>2 DEF GraphInv, G!CapabilityTypeOK
        <3>2. G!Replay(m) = receipts[m]
            BY <3>1 DEF GraphInv, AcceptancesHold, G!RetryFindsItsReceipt, InGraph
        <3> QED BY <3>1, <3>2 DEF G!Replay
    <2> QED BY <2>1, <2>2
<1> QED BY <1>9, <1>11, <1>12, <1>13, <1>14, <1>15, <1>16 DEF GraphInv, AcceptancesHold

LEMMA ProposeCandidateStep ==
    ASSUME G!CapabilityAssumption, GraphInv, NEW actor \in G!Actor, G!ProposeCandidate(actor)
    PROVE  GraphInv'
<1> DEFINE row == [status |-> "pending", discovered_by |-> actor, reviewed_by |-> None,
                   target |-> None]
<1>1. PICK n \in Node : candidates[n] = None /\ candidates' = [candidates EXCEPT ![n] = row]
    BY DEF G!ProposeCandidate, G!StageCandidate
<1>2. UNCHANGED <<versions, receipts, now, steady, planned>>
    BY DEF G!ProposeCandidate
<1>3. row \in G!CandidateRow /\ row # None /\ row.status = "pending"
    <2>1. row \in G!CandidateRow /\ row.status = "pending"
        BY DEF G!CandidateRow
    <2> QED BY <2>1 DEF G!CapabilityAssumption
<1> HIDE DEF row
<1>4. /\ candidates' \in G!CandidateTable
      /\ candidates'[n] = row
      /\ \A m \in Node \ {n} : candidates'[m] = candidates[m]
    BY <1>1, <1>3 DEF GraphInv, G!CapabilityTypeOK, G!CandidateTable
<1>5. G!Released' = G!Released /\ G!Latest' = G!Latest
    BY <1>2 DEF G!Latest, G!Newer, G!Released
<1>6. \A m \in Node : InGraph(m)' <=> InGraph(m)
    BY <1>1, <1>3, <1>4 DEF InGraph
<1>7. G!CapabilityTypeOK'
    BY <1>2, <1>4 DEF GraphInv, G!CapabilityTypeOK, G!VersionTable
<1>8. VersionsHold'
    BY <1>2, <1>5, <1>6 DEF GraphInv, VersionsHold
<1>9. PlansHold' /\ DOMAIN planned' = Reviewer
    <2>1. \A plan : PlanHolds(plan) => PlanHolds(plan)'
        BY <1>1, <1>2, <1>4, <1>5 DEF PlanHolds, ReleaseHolds
    <2> QED BY <1>2, <2>1 DEF GraphInv, PlansHold
<1>10. G!AcceptedStaysInLatest'
    <2>1. {m \in Node : InGraph(m)'} = {m \in Node : InGraph(m)}
        BY <1>6
    <2> QED BY <1>2, <1>5, <2>1
            DEF GraphInv, AcceptancesHold, G!AcceptedStaysInLatest, InGraph
<1>11. G!VersionAddsOne'
    BY <1>2, <1>5 DEF GraphInv, AcceptancesHold, G!VersionAddsOne
<1>12. G!LetInByAnotherUser'
    BY <1>3, <1>4, <1>5 DEF GraphInv, AcceptancesHold, G!LetInByAnotherUser
<1>13. G!RetryFindsItsReceipt'
    BY <1>2, <1>6 DEF GraphInv, AcceptancesHold, G!RetryFindsItsReceipt, G!Replay, InGraph
<1> QED BY <1>2, <1>7, <1>8, <1>9, <1>10, <1>11, <1>12, <1>13 DEF GraphInv, AcceptancesHold

(* Whatever reviewers accept at once, a graph version adds to the one it was released on
   a single capability, found by one actor and let in by another, a user; while the clock
   never goes back, the latest version holds everything that was accepted; and a repeated
   acceptance finds the release its receipt is about. *)
THEOREM AcceptanceSafety ==
    ASSUME G!CapabilityAssumption
    PROVE  G!CapabilitySpec => []AcceptancesHold
<1>1. G!CapabilityInit => GraphInv
    <2> SUFFICES ASSUME G!CapabilityInit PROVE GraphInv
        OBVIOUS
    <2>1. G!Released = {} /\ \A n \in Node : candidates[n] = None
        BY DEF G!CapabilityInit, G!Released
    <2>2. G!CapabilityTypeOK /\ DOMAIN planned = Reviewer /\ PlansHold
        BY DEF G!CapabilityInit, G!CapabilityTypeOK, G!CandidateTable, G!VersionTable,
               G!CapabilityAssumption, PlansHold
    <2>3. VersionsHold
        BY <2>1, FS_EmptySet DEF VersionsHold, InGraph
    <2>4. AcceptancesHold
        BY <2>1, <2>2 DEF AcceptancesHold, G!AcceptedStaysInLatest, G!VersionAddsOne,
                          G!LetInByAnotherUser, G!RetryFindsItsReceipt
    <2> QED BY <2>2, <2>3, <2>4 DEF GraphInv
<1>2. GraphInv /\ [G!CapabilityNext]_(G!capabilityVars) => GraphInv'
    <2> SUFFICES ASSUME GraphInv, [G!CapabilityNext]_(G!capabilityVars) PROVE GraphInv'
        OBVIOUS
    <2>1. CASE UNCHANGED G!capabilityVars
        <3>1. UNCHANGED <<candidates, versions, receipts, now, steady, planned>>
            BY <2>1 DEF G!capabilityVars
        <3>2. PlansHold' /\ DOMAIN planned' = Reviewer
            BY <3>1, PlansUntouched DEF GraphInv, PlansHold
        <3> QED BY <3>1, <3>2, GraphUntouched
    <2>2. ASSUME NEW c \in Reviewer, G!CommitReview(c) PROVE GraphInv'
        BY <2>2, AcceptStep, DecideStep
    <2> QED BY <2>1, <2>2, ProposeCandidateStep, PlanReviewStep, RefuseReviewStep
            DEF G!CapabilityNext
<1>3. GraphInv => AcceptancesHold
    BY DEF GraphInv
<1> QED BY <1>1, <1>2, <1>3, PTL DEF G!CapabilitySpec
=============================================================================
