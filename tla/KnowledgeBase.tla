----------------------------- MODULE KnowledgeBase -----------------------------
(***************************************************************************)
(* Knowledge pages and the reviews that change them: db/                   *)
(* knowledge_repository.py behind api/knowledge.py.  A review reads the    *)
(* proposal, then the page, in autocommit, and writes in one transaction;  *)
(* a revision's key (knowledge_id, revision) is unique.  Text, evidence    *)
(* references, links, chunks and slugs are left out: they are functions of *)
(* a revision or unique by constraint.                                     *)
(***************************************************************************)
EXTENDS Integers, FiniteSets

CONSTANTS
    Reviewer,     \* threads that execute a review or a rollback
    Document,     \* pages that come from an import
    Proposal,     \* proposals; one without a target makes a page of its own
    Operation,    \* wiki operations
    MaxRevision,  \* bound: revisions of a page
    None

Page   == Document \cup Proposal
Source == {"import", "rollback", "rename"} \cup Proposal
Entry  == [revision : 1..MaxRevision, status : {"proposed", "approved", "archived"}]

VARIABLES
    entries,     \* knowledge_entry
    revisions,   \* knowledge_revision: what made each revision of a page
    proposals,   \* knowledge_proposal
    operations,  \* wiki_operation_proposal
    parent,      \* wiki_page_metadata.parent_knowledge_id
    kstep,       \* what each reviewer does next
    kheld,       \* what it has read
    approvals,   \* history: the revisions that approvals have made
    reviews      \* history: committed reviews of each proposal

knowledgeVars == <<entries, revisions, proposals, operations, parent, kstep, kheld,
                   approvals, reviews>>

Idle == [item |-> None, decision |-> None, page |-> None, current |-> 0]

Init ==
    /\ entries = [k \in Page |-> None]
    /\ revisions = [k \in Page |-> [n \in 1..MaxRevision |-> None]]
    /\ proposals = [p \in Proposal |-> None]
    /\ operations = [o \in Operation |-> None]
    /\ parent = [k \in Page |-> None]
    /\ kstep = [r \in Reviewer |-> "idle"]
    /\ kheld = [r \in Reviewer |-> Idle]
    /\ approvals = {}
    /\ reviews = [p \in Proposal |-> 0]

Known == {k \in Page : entries[k] # None}
Revision(k) == IF k \in Known THEN entries[k].revision ELSE 0

Step(r, next, holding) ==
    /\ kstep' = [kstep EXCEPT ![r] = next]
    /\ kheld' = [kheld EXCEPT ![r] = holding]

Done(r) == Step(r, "idle", Idle)

Items == <<proposals, operations>>

-----------------------------------------------------------------------------
(* import_document: a page it knows is returned as it is. *)
Import(d) ==
    /\ d \notin Known
    /\ entries' = [entries EXCEPT ![d] = [revision |-> 1, status |-> "proposed"]]
    /\ revisions' = [revisions EXCEPT ![d][1] = "import"]
    /\ UNCHANGED <<Items, parent, kstep, kheld, approvals, reviews>>

(* create_proposal; the base revision it records is never read again. *)
Propose(p) ==
    /\ proposals[p] = None
    /\ \E k \in Known \cup {p} :
        proposals' = [proposals EXCEPT ![p] = [target |-> k, status |-> "pending"]]
    /\ UNCHANGED <<entries, revisions, operations, parent, kstep, kheld, approvals, reviews>>

(* create_wiki_operation_proposal: "a page cannot be moved under itself". *)
ProposeOperation(o) ==
    /\ operations[o] = None
    /\ \E k \in Known, kind \in {"move", "rename", "archive"}, above \in Known :
        /\ kind = "move" => above # k
        /\ operations' = [operations EXCEPT ![o] =
                [target |-> k, kind |-> kind, status |-> "pending",
                 parent |-> IF kind = "move" THEN above ELSE None]]
    /\ UNCHANGED <<entries, revisions, proposals, parent, kstep, kheld, approvals, reviews>>

-----------------------------------------------------------------------------
Row(item) == IF item \in Proposal THEN proposals[item] ELSE operations[item]

(* Mutant: a reviewed item can be reviewed again. *)
Reviewable_Again(item) == Row(item) # None

Reviewable(item) == IF Row(item) = None THEN FALSE ELSE Row(item).status = "pending"

(* review_proposal and review_wiki_operation_proposal: the item is read ... *)
AskReview(r) ==
    /\ kstep[r] = "idle"
    /\ \E item \in Proposal \cup Operation, decision \in {"approved", "rejected"} :
        /\ Reviewable(item)
        /\ Step(r, "target", [item |-> item, decision |-> decision,
                              page |-> Row(item).target, current |-> 0])
    /\ UNCHANGED <<entries, revisions, Items, parent, approvals, reviews>>

(* ... then the page's current revision, whatever the item's base revision was. *)
ReadTarget(r) ==
    /\ kstep[r] = "target"
    /\ Step(r, "write", [kheld[r] EXCEPT !.current = Revision(kheld[r].page)])
    /\ UNCHANGED <<entries, revisions, Items, parent, approvals, reviews>>

(* Mutant: a revision is inserted over one that has its number. *)
Vacant_Replace(k, n) == n <= MaxRevision

(* The primary key of knowledge_revision. *)
Vacant(k, n) == n <= MaxRevision /\ revisions[k][n] = None

Insert(k, n, source) == revisions' = [revisions EXCEPT ![k][n] = source]

(* The approved content becomes the page's next revision, the first one with
   the page itself. *)
ApproveProposal(r) ==
    /\ kstep[r] = "write" /\ kheld[r].item \in Proposal /\ kheld[r].decision = "approved"
    /\ LET p == kheld[r].item  k == kheld[r].page  n == kheld[r].current + 1
           possible == Vacant(k, n) /\ (n = 1 => k \notin Known) IN
        \/ /\ possible
           /\ entries' = [entries EXCEPT ![k] = [revision |-> n, status |-> "approved"]]
           /\ Insert(k, n, p)
           /\ proposals' = [proposals EXCEPT ![p].status = "approved"]
           /\ approvals' = approvals \cup {<<k, n, p>>}
           /\ reviews' = [reviews EXCEPT ![p] = @ + 1]
        \/ /\ ~possible
           /\ UNCHANGED <<entries, revisions, proposals, approvals, reviews>>
    /\ Done(r)
    /\ UNCHANGED <<operations, parent>>

RejectProposal(r) ==
    /\ kstep[r] = "write" /\ kheld[r].item \in Proposal /\ kheld[r].decision = "rejected"
    /\ proposals' = [proposals EXCEPT ![kheld[r].item].status = "rejected"]
    /\ reviews' = [reviews EXCEPT ![kheld[r].item] = @ + 1]
    /\ Done(r)
    /\ UNCHANGED <<entries, revisions, operations, parent, approvals>>

Close(o, decision) == operations' = [operations EXCEPT ![o].status = decision]

RejectOperation(r) ==
    /\ kstep[r] = "write" /\ kheld[r].item \in Operation /\ kheld[r].decision = "rejected"
    /\ Close(kheld[r].item, "rejected")
    /\ Done(r)
    /\ UNCHANGED <<entries, revisions, proposals, parent, approvals, reviews>>

Approved(r, kind) ==
    /\ kstep[r] = "write" /\ kheld[r].item \in Operation /\ kheld[r].decision = "approved"
    /\ operations[kheld[r].item].kind = kind

Move(r) ==
    /\ Approved(r, "move")
    /\ parent' = [parent EXCEPT ![kheld[r].page] = operations[kheld[r].item].parent]
    /\ Close(kheld[r].item, "approved")
    /\ Done(r)
    /\ UNCHANGED <<entries, revisions, proposals, approvals, reviews>>

Archive(r) ==
    /\ Approved(r, "archive")
    /\ entries' = [entries EXCEPT ![kheld[r].page].status = "archived"]
    /\ Close(kheld[r].item, "approved")
    /\ Done(r)
    /\ UNCHANGED <<revisions, proposals, parent, approvals, reviews>>

(* Mutant: the page keeps its revision number. *)
Rename_KeepRevision(r) ==
    /\ Approved(r, "rename")
    /\ Vacant(kheld[r].page, kheld[r].current + 1)
    /\ Insert(kheld[r].page, kheld[r].current + 1, "rename")
    /\ Close(kheld[r].item, "approved")
    /\ Done(r)
    /\ UNCHANGED <<entries, proposals, parent, approvals, reviews>>

(* A new title is a new revision with the current content; a new slug alone,
   or one another page took, changes no revision. *)
Rename(r) ==
    /\ Approved(r, "rename")
    /\ LET k == kheld[r].page  n == kheld[r].current + 1 IN
        \/ /\ Vacant(k, n)
           /\ entries' = [entries EXCEPT ![k].revision = n]
           /\ Insert(k, n, "rename")
           /\ Close(kheld[r].item, "approved")
        \/ /\ Close(kheld[r].item, "approved")
           /\ UNCHANGED <<entries, revisions>>
        \/ UNCHANGED <<entries, revisions, operations>>
    /\ Done(r)
    /\ UNCHANGED <<proposals, parent, approvals, reviews>>

(* rollback: the new number is computed before the transaction ... *)
AskRollback(r) ==
    /\ kstep[r] = "idle"
    /\ \E k \in Known : Step(r, "rollback", [Idle EXCEPT !.page = k, !.current = Revision(k)])
    /\ UNCHANGED <<entries, revisions, Items, parent, approvals, reviews>>

(* ... and fails if it has been taken since. *)
Rollback(r) ==
    /\ kstep[r] = "rollback"
    /\ LET k == kheld[r].page  n == kheld[r].current + 1 IN
        \/ /\ Vacant(k, n)
           /\ Insert(k, n, "rollback")
           /\ entries' = [entries EXCEPT ![k] = [revision |-> n, status |-> "approved"]]
        \/ /\ ~Vacant(k, n)
           /\ UNCHANGED <<entries, revisions>>
    /\ Done(r)
    /\ UNCHANGED <<Items, parent, approvals, reviews>>

(* A transaction fails or the process ends. *)
Abort(r) ==
    /\ kstep[r] # "idle"
    /\ Done(r)
    /\ UNCHANGED <<entries, revisions, Items, parent, approvals, reviews>>

Next ==
    \/ \E d \in Document : Import(d)
    \/ \E p \in Proposal : Propose(p)
    \/ \E o \in Operation : ProposeOperation(o)
    \/ \E r \in Reviewer :
        \/ AskReview(r) \/ ReadTarget(r)
        \/ ApproveProposal(r) \/ RejectProposal(r)
        \/ RejectOperation(r) \/ Move(r) \/ Archive(r) \/ Rename(r)
        \/ AskRollback(r) \/ Rollback(r)
        \/ Abort(r)

Spec == Init /\ [][Next]_knowledgeVars

(* At most one review or rollback is under way. *)
KnowledgeAlone ==
    \A r, s \in Reviewer : kstep'[r] # "idle" /\ kstep'[s] # "idle" => r = s

-----------------------------------------------------------------------------
(* The tables of migrations 0015 and 0033. *)
RevisionTable == [Page -> [1..MaxRevision -> Source \cup {None}]]
ProposalRow == [target : Page, status : {"pending", "approved", "rejected"}]
ProposalTable == [Proposal -> {None} \cup ProposalRow]
OperationRow ==
    [target : Page, kind : {"move", "rename", "archive"}, parent : Page \cup {None},
     status : {"pending", "approved", "rejected"}]
OperationTable == [Operation -> {None} \cup OperationRow]
ParentTable == [Page -> Page \cup {None}]

(* A page may have a revision, proposals and operations are two tables, and NULL
   is none of the values a column may have. *)
KnowledgeAssumption ==
    /\ MaxRevision \in Nat \ {0}
    /\ Proposal \cap Operation = {}
    /\ None \notin Entry \cup ProposalRow \cup OperationRow
    /\ None \notin Source

(* Every variable has its type. *)
TypeOK ==
    /\ \A k \in Page : entries[k] \in Entry \cup {None}
    /\ revisions \in RevisionTable
    /\ proposals \in ProposalTable
    /\ operations \in OperationTable
    /\ parent \in ParentTable
    /\ kstep \in [Reviewer -> {"idle", "target", "write", "rollback"}]
    /\ \A r \in Reviewer : kheld[r].current \in 0..MaxRevision

(* A page's revisions are numbered without a gap up to its current one, through
   concurrent approvals, renames and rollbacks: search joins on that number. *)
CurrentIsLatest ==
    \A k \in Page : {n \in 1..MaxRevision : revisions[k][n] # None} = 1..Revision(k)

(* The text a user approved stays in the page's history under the number it
   was given: no concurrent approval or rollback takes its place. *)
ApprovalsKept == \A a \in approvals : revisions[a[1]][a[2]] = a[3]

(* Both, through concurrent approvals, renames and rollbacks. *)
PagesKeepApprovals == TypeOK /\ CurrentIsLatest /\ ApprovalsKept

(* A proposal is decided once: "knowledge proposal has already been reviewed". *)
ReviewedOnce == \A p \in Proposal : reviews[p] <= 1

(* Following the parents of a page never leads back to it: "a wiki page cannot
   be moved under itself". *)
Above(k) ==
    LET above[n \in 0..Cardinality(Page)] ==
            IF n = 0 THEN {parent[k]} \ {None}
            ELSE above[n - 1] \cup ({parent[j] : j \in above[n - 1]} \ {None})
    IN above[Cardinality(Page)]
NoPageUnderItself == \A k \in Page : k \notin Above(k)
=============================================================================
