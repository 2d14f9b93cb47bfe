------------------------------- MODULE MCReviews -------------------------------
(***************************************************************************)
(* Small instances of KnowledgeBase and MemoryStore for TLC.  They share   *)
(* no state: a behaviour belongs to one of them, and the other one stays   *)
(* as it started.                                                          *)
(***************************************************************************)
EXTENDS Integers, TLC

CONSTANTS
    Reviewer, Document, Proposal, Operation, MaxRevision,
    MemoryUser, Memory, Draft, MaxMemoryRevision, None

VARIABLES
    area,   \* the module a behaviour belongs to
    alone,  \* at most one review is under way
    entries, revisions, proposals, operations, parent, kstep, kheld, approvals, reviews,
    items, contents, drafts, mstep, mheld, confirmed, ahead, revived

kVars == <<entries, revisions, proposals, operations, parent, kstep, kheld, approvals, reviews>>
mVars == <<items, contents, drafts, mstep, mheld, confirmed, ahead, revived>>

K == INSTANCE KnowledgeBase
M == INSTANCE MemoryStore

ASSUME ReviewsAssumption == K!KnowledgeAssumption /\ M!MemoryAssumption

Init ==
    /\ area \in {"knowledge", "memory"}
    /\ alone \in BOOLEAN
    /\ K!Init
    /\ M!Init

Next ==
    /\ \/ /\ area = "knowledge"
          /\ K!Next
          /\ alone => K!KnowledgeAlone
          /\ UNCHANGED mVars
       \/ /\ area = "memory"
          /\ M!Next
          /\ alone => M!MemoryAlone
          /\ UNCHANGED kVars
    /\ UNCHANGED <<area, alone>>

Spec == Init /\ [][Next]_<<area, alone, kVars, mVars>>

(* Threads and proposals are interchangeable: every property is an invariant. *)
Symmetry == Permutations(Reviewer) \cup Permutations(Proposal) \cup Permutations(MemoryUser)

(* No page is, through its parents, under itself. *)
NoPageUnderItself == K!NoPageUnderItself

(* A page's revisions are numbered without a gap up to its current one, and the text a
   user approved stays among them under its number, through concurrent approvals,
   renames and rollbacks. *)
PagesKeepApprovals == K!PagesKeepApprovals

(* A deleted memory is confirmed again only by a proposal that named a revision the
   memory did not have yet, and the current revision of a memory says that it is
   deleted, or what was confirmed. *)
MemoriesHold == M!MemoriesHold

(* With one request at a time, a proposal of knowledge or memory is decided once. *)
AloneDecidedOnce == alone => K!ReviewedOnce /\ M!ConfirmedOnce
=============================================================================
