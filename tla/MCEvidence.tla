------------------------------ MODULE MCEvidence ------------------------------
(***************************************************************************)
(* Small instances of Facts, Jobs, Capabilities and Matching for TLC.  A   *)
(* behaviour belongs to one of them.  Matching starts from requirements    *)
(* that have been accepted, which Jobs explores for one requirement, with  *)
(* personal states and a project's evidence recorded, and sees MaxRecords  *)
(* records; all but one of the graph's candidates are found by an agent.   *)
(***************************************************************************)
EXTENDS Facts, Functions

CONSTANTS
    Job, Requirement, Page, Scope, Capability, GraphVersion, OfficialNode, MaxJobRevision,
    Reviewer, Node, MaxTime,
    Matcher, Assessment, MatchedOpportunity, Person, PersonalState, Binding, ProjectEvidence,
    ProjectState, JobOf, PersonOf, CapabilityOf, ProjectCapability, MaxRevision, MaxRecords

VARIABLES
    area,  \* the part a behaviour belongs to
    jobs, requirements,
    candidates, versions, receipts, now, steady, planned,
    personal, bindings, evidenceRows, proximity, resolved, assessments

jVars == <<jobs, requirements>>
cVars == <<candidates, versions, receipts, now, steady, planned>>
mVars == <<personal, bindings, evidenceRows, proximity, resolved, assessments>>

AJob == CHOOSE j \in Job : TRUE
ACapability == CHOOSE c \in Capability : TRUE
AGraph == CHOOSE g \in GraphVersion : TRUE
APerson == CHOOSE p \in Person : TRUE
ARequirement == CHOOSE q \in Requirement : TRUE
AState == CHOOSE s \in PersonalState : TRUE
OtherCapability == CHOOSE c \in Capability \ {ACapability} : TRUE

TwoNodes == {ACapability, OtherCapability} \X {AGraph}

(* One job is matched with one candidate's states of two capabilities, of which its
   requirements ask for one each. *)
OneJob == [o \in MatchedOpportunity |-> <<AJob, 1>>]
OnePerson == [s \in PersonalState |-> APerson]
EachCapability == [s \in PersonalState |-> IF s = AState THEN ACapability ELSE OtherCapability]
NearOneCapability == [p \in ProjectState |-> ACapability]

G == INSTANCE Capabilities
M == INSTANCE Matching WITH Opportunity <- MatchedOpportunity

ASSUME EvidenceAssumption == M!JobAssumption /\ G!CapabilityAssumption

(* A requirement that the user has accepted. *)
AnAccepted(q) ==
    LET proposal == [job |-> AJob, job_revision |-> 1, scopes |-> Scope, maps |-> None,
                     status |-> "proposed", proposed_by |-> CHOOSE a \in Agent : TRUE,
                     reviewed_by |-> None]
    IN  <<proposal,
          [proposal EXCEPT !.status = "accepted", !.reviewed_by = CHOOSE u \in User : TRUE,
                           !.maps = [capability |-> IF q = ARequirement THEN ACapability
                                                  ELSE OtherCapability,
                                   graph |-> AGraph]]>>

(* What has been written for assessments to be made from. *)
Records ==
    LET Total(f) == FoldFunction(LAMBDA x, y : x + y, 0, f)
    IN  Total([s \in PersonalState |-> Len(personal[s])])
        + Cardinality({b \in Binding : bindings[b] # None})
        + Total([e \in ProjectEvidence |-> Len(evidenceRows[e])])
        + Total([p \in ProjectState |-> proximity[p]])

(* Ids are given in order: which is which makes no difference. *)
InOrder(rows) == \A i \in DOMAIN rows : rows[i] # None => \A j \in 1..i : rows[j] # None

(* Of the second capability's state there is one revision, whose bindings cite a
   document and support every scope; and every assessment is of both requirements. *)
AboutOne ==
    /\ \A s \in PersonalState \ {AState} : Len(personal'[s]) = 1
    /\ \A b \in Binding : bindings'[b] # None /\ bindings'[b].state # AState =>
            /\ <<bindings'[b].scopes, bindings'[b].source>> = <<Scope, None>>
            /\ bindings'[b].authority # "ai_inferred"
    /\ \A m \in Matcher : resolved'[m] # None =>
            resolved'[m].requirements = {<<q, 2>> : q \in Requirement}

Init ==
    /\ area \in {"facts", "jobs", "graph", "matching"}
    /\ FactInit
    /\ G!CapabilityInit
    /\ M!NothingMatched
    /\ IF area = "matching"
       THEN /\ personal \in {row \in [PersonalState -> {<<{}>>, <<Scope>>}] :
                            \A s \in PersonalState \ {AState} : row[s] = <<Scope>>}
            /\ evidenceRows \in [ProjectEvidence ->
                    {<<row>> : row \in {r \in M!EvidenceRow : r.accepted /\ r.current}}]
            /\ jobs = [j \in Job |-> <<CHOOSE page \in Page : TRUE>>]
            /\ requirements = [q \in Requirement |-> AnAccepted(q)]
       ELSE /\ M!JobInit
            /\ personal = [s \in PersonalState |-> <<>>]
            /\ evidenceRows = [e \in ProjectEvidence |-> <<>>]

Next ==
    /\ \/ /\ area = "facts"
          /\ FactNext
          /\ UNCHANGED <<jVars, cVars, mVars>>
       \/ /\ area = "jobs"
          /\ M!JobNext
          /\ \A q \in Requirement \ {ARequirement} : requirements'[q] = <<>>
          /\ UNCHANGED <<factVars, cVars, mVars>>
       \/ /\ area = "graph"
          /\ G!CapabilityNext
          /\ \A n \in Node \ {1} :
                candidates'[n] # None => candidates'[n].discovered_by \in Agent
          /\ UNCHANGED <<factVars, jVars, mVars>>
       \/ /\ area = "matching"
          /\ M!MatchNext
          /\ Records' <= MaxRecords
          /\ AboutOne
          /\ InOrder(bindings') /\ InOrder(assessments')
          /\ UNCHANGED <<factVars, cVars>>
    /\ UNCHANGED area

Spec == Init /\ [][Next]_<<area, factVars, jVars, cVars, mVars>>

(* An accepted requirement was accepted by a user, quotes a recorded revision of its
   job, maps to a released capability, and is what was proposed. *)
RequirementsAreTraceable == M!JobTypeOK /\ M!AcceptedIsTraceable

(* A graph version adds one capability, found by one actor and let in by another, a
   user, to the version it was released on; while the clock never goes back, the latest
   holds every capability that reviewers accepted, whatever they accepted at once; and
   a repeated acceptance is recognised however much has been released since. *)
AcceptancesHold ==
    /\ G!CapabilityTypeOK
    /\ G!AcceptedStaysInLatest
    /\ G!VersionAddsOne
    /\ G!LetInByAnotherUser
    /\ G!RetryFindsItsReceipt

(* A requirement goes without a gap only if each of its scopes is supported by a binding
   of its own capability that no agent inferred and whose evidence was accepted and
   current, a result says what is missing, more evidence never makes an
   assessment worse, and replay finds what was found, whatever was recorded since. *)
AssessmentsHold ==
    /\ M!MatchTypeOK
    /\ M!ReplayFindsTheSame
    /\ M!CoveredIsEarned
    /\ M!GapsAreComplete
    /\ M!EvidenceNeverHurts
=============================================================================
