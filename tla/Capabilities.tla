----------------------------- MODULE Capabilities -----------------------------
(***************************************************************************)
(* The official capability graph: services/capability_review_service.py    *)
(* and db/capability_writes.py.  A candidate is proposed, reviewed, and on *)
(* acceptance a new version of the graph is released that carries over the *)
(* latest one.  The service reads the latest version and plans the release *)
(* outside the transaction that writes it; which version is the latest is  *)
(* decided by the time of its release.  Candidate n becomes capability n   *)
(* in version n.  Relations are carried over as the nodes are, and nothing *)
(* creates one; names, layers and evidence are left out.                   *)
(***************************************************************************)
EXTENDS Integers, FiniteSets

CONSTANTS
    Reviewer,   \* threads that review
    Node,       \* candidates, numbered in the order of their ids
    User, Rule, Agent,
    MaxTime,
    None

VARIABLES
    candidates,  \* candidate_capability_node
    versions,    \* capability_graph_version and capability_node, by version
    receipts,    \* the release that the idempotency record of a review is about
    now,         \* the clock commands are stamped with
    steady,      \* whether the clock never goes back
    planned      \* the review each thread is about to commit

capabilityVars == <<candidates, versions, receipts, now, steady, planned>>

Actor == User \cup Rule \cup Agent

CandidateRow ==
    {row \in [status : {"pending", "accepted", "merged", "ignored"}, discovered_by : Actor,
              reviewed_by : User \cup Rule \cup {None}, target : Node \cup {None}] :
        /\ (row.status = "pending") <=> (row.reviewed_by = None)
        /\ (row.status = "merged") <=> (row.target # None)}

Version == [parent : Node \cup {None}, at : 0..MaxTime, nodes : SUBSET Node]

Release == [parent : Node \cup {None}, carried : SUBSET Node]

(* Ids are ordered; None is no value of these types. *)
CapabilityAssumption ==
    /\ Node \subseteq Nat /\ MaxTime \in Nat
    /\ None \notin Node \cup CandidateRow \cup Version

(* Mutant: a target is not tied to a merge. *)
Explicit_Loose(row) ==
    (row.status = "pending") <=> (row.reviewed_by = None)

(* CandidateCapabilityNode's validator. *)
Explicit(row) ==
    /\ (row.status = "pending") <=> (row.reviewed_by = None)
    /\ row.reviewed_by \notin Agent
    /\ (row.status = "merged") <=> (row.target # None)

CapabilityInit ==
    /\ candidates = [n \in Node |-> None]
    /\ versions = [n \in Node |-> None]
    /\ receipts = [n \in Node |-> None]
    /\ now = 0
    /\ steady \in BOOLEAN
    /\ planned = [c \in Reviewer |-> None]

Released == {n \in Node : versions[n] # None}

(* ORDER BY released_at DESC, graph_version_id DESC LIMIT 1 *)
Newer(m, n) ==
    \/ versions[m].at > versions[n].at
    \/ versions[m].at = versions[n].at /\ m > n

Latest ==
    IF Released = {} THEN None
    ELSE CHOOSE m \in Released : \A n \in Released \ {m} : Newer(m, n)

(* Two commits do not share an instant; the system clock may be set back. *)
Stamp(t) == t \in 1..MaxTime /\ (steady => t > now)

(* CandidateCapabilityProposeWrite.stage *)
StageCandidate(n, row) ==
    /\ candidates[n] = None
    /\ candidates' = [candidates EXCEPT ![n] = row]

ProposeCandidate(actor) ==
    /\ \E n \in Node :
        StageCandidate(n, [status |-> "pending", discovered_by |-> actor, reviewed_by |-> None,
                           target |-> None])
    /\ UNCHANGED <<versions, receipts, now, steady, planned>>

(* list_nodes and list_relations of a version *)
Nodes(n) == versions[n].nodes

(* Mutant: only the release that is new is planned. *)
PlanRelease_Bare == [parent |-> Latest, carried |-> {}]

(* _plan_release *)
PlanRelease ==
    [parent |-> Latest, carried |-> IF Latest = None THEN {} ELSE Nodes(Latest)]

(* Mutant: rules may accept, and a user may accept what the user found. *)
MayDecide_Anyone(actor, status, row) == actor \notin Agent

(* Who may decide: nobody what he discovered; only a user accepts or merges. *)
MayDecide(actor, status, row) ==
    /\ actor \in User \cup Rule
    /\ status \in {"accepted", "merged"} => actor \in User
    /\ actor # row.discovered_by

(* review_candidate, up to its command *)
PlanReview(c, actor) ==
    /\ planned[c] = None
    /\ \E n \in Node, status \in {"accepted", "merged", "ignored"}, target \in Node \cup {None} :
        /\ candidates[n] # None
        /\ candidates[n].status = "pending"
        /\ MayDecide(actor, status, candidates[n])
        /\ Explicit([candidates[n] EXCEPT !.status = status, !.reviewed_by = actor,
                                          !.target = target])
        /\ planned' = [planned EXCEPT ![c] =
                [node |-> n, status |-> status, actor |-> actor, target |-> target,
                 release |-> IF status = "accepted" THEN PlanRelease ELSE None]]
    /\ UNCHANGED <<candidates, versions, receipts, now, steady>>

(* Mutant: the parent is not compared with the latest version again. *)
StillLatest_Any(release) == TRUE

(* The released graph has not changed during the review. *)
StillLatest(release) == release.parent = Latest

(* Mutant: the status is not compared again. *)
StillPending_Any(n) == TRUE

(* The command expects revision 1 of the candidate, and the row is pending. *)
StillPending(n) == candidates[n].status = "pending"

(* _stage_release: the rows of the new version, released at t. *)
StageRelease(n, release, t) ==
    /\ StillLatest(release)
    /\ versions[n] = None
    /\ versions' = [versions EXCEPT ![n] = [parent |-> release.parent, at |-> t,
                                            nodes |-> release.carried \cup {n}]]

(* CandidateCapabilityReviewWrite.stage *)
StageReview(plan, t) ==
    /\ StillPending(plan.node)
    /\ plan.status = "merged" => plan.target \in Released
    /\ IF plan.status = "accepted" THEN StageRelease(plan.node, plan.release, t)
       ELSE UNCHANGED versions
    /\ candidates' = [candidates EXCEPT ![plan.node] =
            [@ EXCEPT !.status = plan.status, !.reviewed_by = plan.actor,
                      !.target = plan.target]]

(* _commit_review: the decision and the release, in one transaction. *)
CommitReview(c) ==
    /\ planned[c] # None
    /\ \E t \in 1..MaxTime :
        /\ Stamp(t)
        /\ now' = t
        /\ StageReview(planned[c], t)
    /\ receipts' = [receipts EXCEPT ![planned[c].node] = planned[c].release]
    /\ planned' = [planned EXCEPT ![c] = None]
    /\ UNCHANGED steady

(* The command is refused, and so is the review. *)
RefuseReview(c) ==
    /\ planned[c] # None
    /\ LET plan == planned[c] IN
        \/ ~StillPending(plan.node)
        \/ plan.status = "merged" /\ plan.target \notin Released
        \/ plan.status = "accepted" /\ ~StillLatest(plan.release)
    /\ planned' = [planned EXCEPT ![c] = None]
    /\ UNCHANGED <<candidates, versions, receipts, now, steady>>

CapabilityNext ==
    \/ \E actor \in Actor : ProposeCandidate(actor)
    \/ \E c \in Reviewer :
        \/ \E actor \in User \cup Rule : PlanReview(c, actor)
        \/ CommitReview(c)
        \/ RefuseReview(c)

CapabilitySpec == CapabilityInit /\ [][CapabilityNext]_capabilityVars

(* Mutant: the node the release added is taken for a carried one. *)
Replay_Whole(n) == [parent |-> versions[n].parent, carried |-> versions[n].nodes]

(* _replay_review: the release an accepted review is repeated with. *)
Replay(n) == [parent |-> versions[n].parent, carried |-> versions[n].nodes \ {n}]

-----------------------------------------------------------------------------
(* The tables of migration 0003. *)
CandidateTable == [Node -> CandidateRow \cup {None}]
VersionTable == [Node -> Version \cup {None}]

(* The rows satisfy the tables' constraints. *)
CapabilityTypeOK ==
    /\ candidates \in CandidateTable
    /\ versions \in VersionTable
    /\ receipts \in [Node -> Release \cup {None}]
    /\ now \in 0..MaxTime
    /\ steady \in BOOLEAN

(* While the clock never goes back, no acceptance is lost: whatever two reviewers
   accept at once, the latest version holds every accepted capability. *)
AcceptedStaysInLatest ==
    (steady /\ Released # {}) =>
        versions[Latest].nodes =
            {n \in Node : candidates[n] # None /\ candidates[n].status = "accepted"}

(* Whatever the clock does, a version is the one it was released on plus a single
   capability, and its first ancestor started from nothing. *)
VersionAddsOne ==
    \A n \in Released :
        /\ versions[n].parent \in Released \cup {None}
        /\ versions[n].nodes =
            {n} \cup (IF versions[n].parent = None THEN {}
                      ELSE versions[versions[n].parent].nodes)

(* What has entered the graph, alone or merged into another capability, was found by
   one actor and let in by another, a user. *)
LetInByAnotherUser ==
    \A n \in Node :
        (candidates[n] # None /\ candidates[n].status \in {"accepted", "merged"}) =>
            /\ candidates[n].reviewed_by \in User
            /\ candidates[n].reviewed_by # candidates[n].discovered_by
            /\ candidates[n].status = "merged" => candidates[n].target \in Released

(* A repeated acceptance is recognised as the one that was committed, however much
   has been released since: it asks for the very release its receipt is about. *)
RetryFindsItsReceipt ==
    \A n \in Node :
        (candidates[n] # None /\ candidates[n].status = "accepted") => Replay(n) = receipts[n]
=============================================================================
