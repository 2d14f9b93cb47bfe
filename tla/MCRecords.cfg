\* One claim behind a fact after another, a job's requirements, three candidates for the
\* graph, one job matched; one application, three drafts, two patches of a resume.
SPECIFICATION RecordsSpec
CONSTANTS
    Claim = {c1, c2}
    Fact = {f1}
    Subject = {s1}
    Value = {v1, v2}
    Candidate = {}
    Evidence = {e1}
    User = {u1}
    Rule = {r1}
    Agent = {a1}
    MaxFactRevision = 2
    Job = {j1}
    Requirement = {q1, q2}
    Page = {g1, g2}
    Scope = {p1, p2}
    Capability = {k1, k2, k3}
    GraphVersion = {w1}
    OfficialNode <- TwoNodes
    MaxJobRevision = 2
    Reviewer = {t1, t2}
    Node = {1, 2, 3}
    MaxTime = 3
    Matcher = {m1}
    Assessment = {1, 2}
    MatchedOpportunity = {o1}
    Opportunity = {o1}
    Person = {h1}
    PersonalState = {y1, y2}
    Binding = {1, 2}
    ProjectEvidence = {d1}
    ProjectState = {z1}
    JobOf <- OneJob
    PersonOf <- OnePerson
    CapabilityOf <- EachCapability
    ProjectCapability <- NearOneCapability
    MaxRevision = 2
    MaxRecords = 5
    None = None
    Application = {a1}
    Interview = {i1}
    Outcome = {x1}
    Session = {s1}
    Resume = {w1, w2}
    Receipt = {e1}
    OtherEvidence = {}
    Turn = {t1, t2}
    MaxApplicationRevision = 5
    MaxTurns = 2
    Client = {c1, c2}
    Message = {m1, m2, m3}
    spare = m3
    Body = {b1}
    Reason = {r1, r2}
    DailyLimits = {1, 2}
    MaxDay = 2
    ResumeCandidate = {k1}
    Patch = {p1, p2}
    Revision = {v1}
    MaxBase = 2
    Item = {item1, item2, item3}
    Operation <- FewOperations
    item1 = item1
    item2 = item2
    item3 = item3
    Profile = {t1}
    Title = {n1, n2}
    TypstOutput = {f1, f2}
INVARIANTS
    FactsAreReviewed
    RequirementsAreTraceable
    AcceptancesHold
    AssessmentsHold
    SubmissionsHold
    TurnsAreNumbered
    DraftsAreDecidedOnce
    ChangedOnlyByReview
    AnsweredIsStored
PROPERTIES
    LimitsAndEndsHold
CHECK_DEADLOCK FALSE
