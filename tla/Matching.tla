------------------------------- MODULE Matching -------------------------------
(***************************************************************************)
(* Matching a candidate with an opportunity: services/match_resolver.py,   *)
(* core/match_gap/policy.py, services/match_service.py and                 *)
(* db/match_writes.py over the tables of migration 0009.  The resolver     *)
(* reads the candidate's current states and their evidence, the policy     *)
(* classifies every requirement, and the assessment is stored with the     *)
(* list of everything it was made from, so that it can be made again.      *)
(* Personal states and bindings are written by nothing in the repository.  *)
(***************************************************************************)
EXTENDS Jobs

CONSTANTS
    Matcher,          \* threads that assess
    Assessment, Opportunity,
    JobOf,            \* the job revision each opportunity is about
    Person,           \* candidates
    PersonalState, PersonOf, CapabilityOf,   \* ids of states, whose and of what
    Binding,
    ProjectEvidence,  \* ids of evidence that projects give
    ProjectState, ProjectCapability,         \* ids of a project's states, and of what
    MaxRevision

VARIABLES
    personal,     \* personal_capability_state: the scopes of each revision, by state
    bindings,     \* capability_evidence_binding
    evidenceRows, \* project_evidence, by evidence: first to last revision
    proximity,    \* project_capability_state: the number of revisions
    resolved,     \* the policy input each thread holds
    assessments   \* match_assessment with its results and gaps

matchVars == <<personal, bindings, evidenceRows, proximity, resolved, assessments>>

(* The authorities an agent's inference is not, are not told apart. *)
Authority == {"ai_inferred", "user_confirmed"}

BindingRow ==
    [state : PersonalState, revision : 1..MaxRevision, authority : Authority,
     scopes : (SUBSET Scope) \ {{}}, source : ProjectEvidence \cup {None},
     source_revision : 0..MaxRevision]

Classification == {"covered", "quick_to_strengthen", "clear_gap"}

ResultRow == [covered : SUBSET Scope, missing : SUBSET Scope, class : Classification]

EvidenceRow == [authority : Authority, accepted : BOOLEAN, current : BOOLEAN]

NothingMatched ==
    /\ bindings = [b \in Binding |-> None]
    /\ proximity = [p \in ProjectState |-> 0]
    /\ resolved = [m \in Matcher |-> None]
    /\ assessments = [a \in Assessment |-> None]

MatchInit ==
    /\ personal = [s \in PersonalState |-> <<>>]
    /\ evidenceRows = [e \in ProjectEvidence |-> <<>>]
    /\ NothingMatched

(* A candidate's next state of a capability. *)
RecordPersonalState ==
    /\ \E s \in PersonalState, scopes \in SUBSET Scope :
        /\ Len(personal[s]) < MaxRevision
        /\ personal' = [personal EXCEPT ![s] = Append(@, scopes)]
    /\ UNCHANGED <<bindings, evidenceRows, proximity, resolved, assessments, jobVars>>

(* Evidence bound to an exact revision of a state: a document's reference, or an
   exact revision of a project's evidence. *)
Bind ==
    /\ \E b \in Binding, row \in BindingRow :
        /\ bindings[b] = None
        /\ row.revision \in DOMAIN personal[row.state]
        /\ IF row.source = None THEN row.source_revision = 0
           ELSE row.source_revision \in DOMAIN evidenceRows[row.source]
        /\ bindings' = [bindings EXCEPT ![b] = row]
    /\ UNCHANGED <<personal, evidenceRows, proximity, resolved, assessments, jobVars>>

(* Project evidence is scanned, reviewed and found stale in revisions of its own. *)
RecordProjectEvidence ==
    /\ \E e \in ProjectEvidence, row \in EvidenceRow :
        /\ Len(evidenceRows[e]) < MaxRevision
        /\ evidenceRows' = [evidenceRows EXCEPT ![e] = Append(@, row)]
    /\ UNCHANGED <<personal, bindings, proximity, resolved, assessments, jobVars>>

RecordProjectState ==
    /\ \E p \in ProjectState :
        /\ proximity[p] < MaxRevision
        /\ proximity' = [proximity EXCEPT ![p] = @ + 1]
    /\ UNCHANGED <<personal, bindings, evidenceRows, resolved, assessments, jobVars>>

-----------------------------------------------------------------------------
(* The resolver: a requirement is named with its exact revision. *)
Named(key) == requirements[key[1]][key[2]]

RequirementKey ==
    UNION {{<<q, r>> : r \in DOMAIN requirements[q]} : q \in Requirement}

(* _validate_and_index and _validate_results: what can enter an assessment. *)
Admissible(o, keys) ==
    /\ keys # {}
    /\ \A k1, k2 \in keys : k1[1] = k2[1] => k1 = k2
    /\ \A k \in keys :
        /\ Named(k).status = "accepted"
        /\ <<Named(k).job, Named(k).job_revision>> = JobOf[o]

CapabilitiesOf(keys) == {Named(k).maps.capability : k \in keys}

(* The states a candidate has of a capability. *)
StatesOf(person, capability) ==
    {s \in PersonalState : personal[s] # <<>> /\ PersonOf[s] = person
                            /\ CapabilityOf[s] = capability}

(* _current_personal_state: more than one identity is refused. *)
Unambiguous(person, keys) ==
    \A capability \in CapabilitiesOf(keys) : \A s, t \in StatesOf(person, capability) : s = t

CurrentStates(person, keys) ==
    {<<s, Len(personal[s])>> : s \in UNION {StatesOf(person, c) : c \in CapabilitiesOf(keys)}}

BindingsOf(states) ==
    {b \in Binding : bindings[b] # None /\ <<bindings[b].state, bindings[b].revision>> \in states}

(* Mutant: the evidence as it is by now. *)
Source_Latest(row) == evidenceRows[row.source][Len(evidenceRows[row.source])]

(* get_evidence: the exact revision a binding cites. *)
Source(row) == evidenceRows[row.source][row.source_revision]

(* A binding keeps the authority of the project's evidence. *)
Consistent(bs) ==
    \A b \in bs : bindings[b].source # None => Source(bindings[b]).authority = bindings[b].authority

-----------------------------------------------------------------------------
(* Mutant: what an agent inferred counts. *)
Qualified_Inferred(row) ==
    row.source = None \/ (Source(row).accepted /\ Source(row).current)

(* Mutant: evidence that has gone stale counts. *)
Qualified_Stale(row) ==
    /\ row.authority # "ai_inferred"
    /\ row.source = None \/ Source(row).accepted

(* _binding_is_qualified *)
Qualified(row) ==
    /\ row.authority # "ai_inferred"
    /\ row.source = None \/ (Source(row).accepted /\ Source(row).current)

(* The bindings and the recorded scopes of one capability. *)
Recorded(states, capability) ==
    UNION {personal[s[1]][s[2]] : s \in {x \in states : CapabilityOf[x[1]] = capability}}

(* Mutant: evidence of any capability counts. *)
Supported_Other(bs, capability) ==
    UNION {bindings[b].scopes : b \in {x \in bs : Qualified(bindings[x])}}

Supported(bs, capability) ==
    UNION {bindings[b].scopes :
            b \in {x \in bs : CapabilityOf[bindings[x].state] = capability /\ Qualified(bindings[x])}}

(* Mutant: one covered scope covers a requirement. *)
Assess_Partial(key, states, bs, projects) ==
    LET row == Named(key)  capability == row.maps.capability
        covered == row.scopes \cap Recorded(states, capability) \cap Supported(bs, capability)
    IN  [covered |-> covered,
         missing |-> row.scopes \ covered,
         class |-> IF covered # {} THEN "covered" ELSE "clear_gap"]

(* Mutant: inferred evidence weakens a requirement. *)
Assess_Penalty(key, states, bs, projects) ==
    LET row == Named(key)  capability == row.maps.capability
        recorded == row.scopes \cap Recorded(states, capability)
        supported == row.scopes \cap Supported(bs, capability)
        covered == recorded \cap supported
    IN  [covered |-> covered,
         missing |-> row.scopes \ covered,
         class |-> IF covered = row.scopes THEN "covered"
                   ELSE IF /\ \A b \in bs : bindings[b].authority # "ai_inferred"
                           /\ \/ recorded # {} \/ supported # {}
                              \/ \E p \in projects : ProjectCapability[p[1]] = capability
                        THEN "quick_to_strengthen" ELSE "clear_gap"]

(* _assess_requirement: a scope is covered when the candidate has recorded it and
   qualified evidence supports it; a project's state only brings it near. *)
Assess(key, states, bs, projects) ==
    LET row == Named(key)  capability == row.maps.capability
        recorded == row.scopes \cap Recorded(states, capability)
        supported == row.scopes \cap Supported(bs, capability)
        covered == recorded \cap supported
    IN  [covered |-> covered,
         missing |-> row.scopes \ covered,
         class |-> IF covered = row.scopes THEN "covered"
                   ELSE IF recorded # {} \/ supported # {}
                           \/ \E p \in projects : ProjectCapability[p[1]] = capability
                        THEN "quick_to_strengthen" ELSE "clear_gap"]

Results(inputs) ==
    [key \in inputs.requirements |->
        Assess(key, inputs.states, inputs.bindings, inputs.projects)]

(* _build_manifest: what an assessment is made from, by exact references. *)
Manifest(o, person, keys, states, projects) ==
    [opportunity |-> o, person |-> person, requirements |-> keys, states |-> states,
     bindings |-> BindingsOf(states), projects |-> projects]

(* resolve: what an assessment is made from is named by exact revisions.  The
   caller names the requirements and the projects' states. *)
Resolve(m) ==
    /\ resolved[m] = None
    /\ \E o \in Opportunity, person \in Person, keys \in SUBSET RequirementKey,
          projects \in SUBSET {p \in ProjectState \X (1..MaxRevision) : p[2] <= proximity[p[1]]} :
        /\ Admissible(o, keys)
        /\ Unambiguous(person, keys)
        /\ \A p1, p2 \in projects : p1[1] = p2[1] => p1 = p2
        /\ \A p \in projects : ProjectCapability[p[1]] \in CapabilitiesOf(keys)
        /\ LET states == CurrentStates(person, keys) IN
            /\ Consistent(BindingsOf(states))
            /\ resolved' = [resolved EXCEPT ![m] = Manifest(o, person, keys, states, projects)]
    /\ UNCHANGED <<personal, bindings, evidenceRows, proximity, assessments, jobVars>>

(* record_assessment: one gap for every result that is not covered. *)
Gaps(results) == {key \in DOMAIN results : results[key].class # "covered"}

(* _validate_frozen_inputs: the opportunity is still about that job revision, the
   capabilities are official, and the states are the candidate's. *)
Frozen(inputs) ==
    /\ JobOf[inputs.opportunity][2] \in DOMAIN jobs[JobOf[inputs.opportunity][1]]
    /\ \A k \in inputs.requirements :
        <<Named(k).maps.capability, Named(k).maps.graph>> \in OfficialNode
    /\ \A s \in inputs.states : PersonOf[s[1]] = inputs.person

(* _validate_gaps *)
Gapped(results, gaps) ==
    /\ gaps \subseteq DOMAIN results
    /\ \A key \in DOMAIN results : key \in gaps <=> results[key].class # "covered"

(* MatchAssessmentWrite.stage, with _validate_results: the requirements are still
   accepted ones of the opportunity's job, and every gap belongs to a result. *)
StageAssessment(a, inputs, results) ==
    /\ assessments[a] = None
    /\ Frozen(inputs)
    /\ Admissible(inputs.opportunity, inputs.requirements)
    /\ Gapped(results, Gaps(results))
    /\ assessments' = [assessments EXCEPT ![a] =
            [inputs |-> inputs, results |-> results, gaps |-> Gaps(results)]]

RecordAssessment(m) ==
    /\ resolved[m] # None
    /\ \E a \in Assessment : StageAssessment(a, resolved[m], Results(resolved[m]))
    /\ resolved' = [resolved EXCEPT ![m] = None]
    /\ UNCHANGED <<personal, bindings, evidenceRows, proximity, jobVars>>

MatchNext ==
    \/ RecordPersonalState \/ Bind \/ RecordProjectEvidence \/ RecordProjectState
    \/ \E m \in Matcher : Resolve(m) \/ RecordAssessment(m)

(* Jobs are recorded and requirements reviewed meanwhile. *)
MatchSpec ==
    /\ JobInit /\ MatchInit
    /\ [][MatchNext \/ (JobNext /\ UNCHANGED matchVars)]_<<jobVars, matchVars>>

Stored == {a \in Assessment : assessments[a] # None}

(* get_assessment: a stored assessment that disagrees with itself is not read. *)
Readable(stored) ==
    /\ DOMAIN stored.results = stored.inputs.requirements
    /\ Gapped(stored.results, stored.gaps)

(* resolve_manifest: the listed references, read again one by one. *)
ResolveManifest(inputs) == [inputs EXCEPT !.bindings = BindingsOf(inputs.states)]

(* A binding that has been added to a listed state since is a
   drift that a replay reports. *)
Drifted(inputs) == ResolveManifest(inputs) # inputs

(* The answer to replay. *)
Replay(a) ==
    LET stored == assessments[a] IN
    IF ~Readable(stored) THEN "unreadable"
    ELSE IF Drifted(stored.inputs) THEN "drifted"
    ELSE IF Results(stored.inputs) # stored.results THEN "differs" ELSE "same"

-----------------------------------------------------------------------------
(* The tables of migrations 0003, 0004 and 0009. *)
PersonalTable == [PersonalState -> Seq(SUBSET Scope)]
BindingTable == [Binding -> BindingRow \cup {None}]
EvidenceTable == [ProjectEvidence -> Seq(EvidenceRow)]

AssessmentRow(stored) ==
    /\ DOMAIN stored.results = stored.inputs.requirements
    /\ \A key \in DOMAIN stored.results : stored.results[key] \in ResultRow
    /\ stored.gaps \subseteq DOMAIN stored.results

(* The rows satisfy the tables' constraints. *)
MatchTypeOK ==
    /\ personal \in PersonalTable
    /\ bindings \in BindingTable
    /\ evidenceRows \in EvidenceTable
    /\ \A a \in Stored : AssessmentRow(assessments[a])

(* A stored assessment can be made again: unless its bindings have drifted, which is
   reported as such, a replay finds the stored results, whatever has happened since to the
   candidate's states, the projects' evidence and the projects' states. *)
ReplayFindsTheSame ==
    \A a \in Stored : Replay(a) \in {"same", "drifted"}

(* A requirement is covered only scope by scope: each is recorded in the candidate's
   own state of the requirement's capability, and supported by a binding to that very
   revision of the state, which no agent inferred and whose source was accepted and
   current in the revision it cites.  Everything else has its gap. *)
CoveredIsEarned ==
    \A a \in Stored : \A key \in DOMAIN assessments[a].results :
        LET inputs == assessments[a].inputs IN
        key \notin assessments[a].gaps =>
            \A scope \in Named(key).scopes : \E s \in inputs.states, b \in inputs.bindings :
                /\ CapabilityOf[s[1]] = Named(key).maps.capability
                /\ PersonOf[s[1]] = inputs.person
                /\ scope \in personal[s[1]][s[2]]
                /\ <<bindings[b].state, bindings[b].revision>> = s
                /\ scope \in bindings[b].scopes
                /\ bindings[b].authority # "ai_inferred"
                /\ bindings[b].source # None =>
                    LET cited == evidenceRows[bindings[b].source][bindings[b].source_revision]
                    IN  cited.accepted /\ cited.current

(* A result says what is missing, and only a complete one goes without a gap. *)
GapsAreComplete ==
    \A a \in Stored : \A key \in DOMAIN assessments[a].results :
        LET result == assessments[a].results[key] IN
        /\ result.covered \cup result.missing = Named(key).scopes
        /\ result.covered \cap result.missing = {}
        /\ key \in assessments[a].gaps <=> result.missing # {}

Rank(class) == CASE class = "covered" -> 2 [] class = "quick_to_strengthen" -> 1 [] OTHER -> 0

(* More evidence never hurts: of two assessments of a requirement from the same
   personal states, the one with more bindings and projects is no worse. *)
EvidenceNeverHurts ==
    \A a, b \in Stored :
        LET x == assessments[a].inputs  y == assessments[b].inputs IN
        (x.states = y.states /\ x.bindings \subseteq y.bindings /\ x.projects \subseteq y.projects) =>
            \A key \in x.requirements \cap y.requirements :
                Rank(assessments[a].results[key].class) <= Rank(assessments[b].results[key].class)
=============================================================================
