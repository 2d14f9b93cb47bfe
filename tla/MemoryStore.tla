------------------------------ MODULE MemoryStore ------------------------------
(***************************************************************************)
(* Memories and the reviews that confirm them: db/memory_repository.py     *)
(* behind api/memory.py.  A proposal for a memory carries the revision it  *)
(* was written against, which the review compares; a deletion is one more  *)
(* revision.  Scopes, types, sources and search ranking are left out: a    *)
(* proposal may not change its memory's scope or type.                     *)
(***************************************************************************)
EXTENDS Integers

CONSTANTS
    MemoryUser,     \* threads that execute a review or a deletion
    Memory,         \* memory ids
    Draft,          \* proposal ids
    MaxMemoryRevision,
    None

Deleted == "[deleted]"

VARIABLES
    items,      \* memory_item
    contents,   \* memory_revision: what each revision says
    drafts,     \* memory_proposal
    mstep,      \* what each thread does next
    mheld,      \* what it has read
    confirmed,  \* history: how often each proposal has been confirmed
    ahead,      \* history: proposals that named a revision their memory did not have yet
    revived     \* history: proposals whose approval confirmed a deleted memory

memoryVars == <<items, contents, drafts, mstep, mheld, confirmed, ahead, revived>>

Nothing == [draft |-> None, decision |-> None, memory |-> None, current |-> 0]

Init ==
    /\ items = [m \in Memory |-> None]
    /\ contents = [m \in Memory |-> [n \in 1..MaxMemoryRevision |-> None]]
    /\ drafts = [d \in Draft |-> None]
    /\ mstep = [u \in MemoryUser |-> "idle"]
    /\ mheld = [u \in MemoryUser |-> Nothing]
    /\ confirmed = [d \in Draft |-> 0]
    /\ ahead = {}
    /\ revived = {}

Stored == {m \in Memory : items[m] # None}
Current(m) == IF m \in Stored THEN items[m].revision ELSE 0
Alive(m) == m \in Stored /\ items[m].status = "confirmed"

Step(u, next, holding) ==
    /\ mstep' = [mstep EXCEPT ![u] = next]
    /\ mheld' = [mheld EXCEPT ![u] = holding]

Done(u) == Step(u, "idle", Nothing)

(* create_proposal and propose_consolidation: a target must not be deleted, and its
   current revision is the base unless the request names one, which may be any from
   1 on.  The row is inserted after its target was read, but nothing reads the row in
   between. *)
Draw(d) ==
    /\ drafts[d] = None
    /\ \/ /\ drafts' = [drafts EXCEPT ![d] = [target |-> None, base |-> None, status |-> "pending"]]
          /\ UNCHANGED ahead
       \/ \E m \in Memory, base \in 1..MaxMemoryRevision :
            /\ Alive(m)
            /\ drafts' = [drafts EXCEPT ![d] =
                 [target |-> m, base |-> base, status |-> "pending"]]
            /\ ahead' = IF base > Current(m) THEN ahead \cup {d} ELSE ahead
    /\ UNCHANGED <<items, contents, mstep, mheld, confirmed, revived>>

(* Mutant: a reviewed proposal can be reviewed again. *)
AskReview_Again(u) ==
    /\ mstep[u] = "idle"
    /\ \E d \in Draft, decision \in {"approved", "rejected"} :
        /\ drafts[d] # None
        /\ Step(u, "target", [Nothing EXCEPT !.draft = d, !.decision = decision])
    /\ UNCHANGED <<items, contents, drafts, confirmed, ahead, revived>>

(* review_proposal: the proposal ... *)
AskReview(u) ==
    /\ mstep[u] = "idle"
    /\ \E d \in Draft, decision \in {"approved", "rejected"} :
        /\ drafts[d] # None
        /\ drafts[d].status = "pending"
        /\ Step(u, "target", [Nothing EXCEPT !.draft = d, !.decision = decision])
    /\ UNCHANGED <<items, contents, drafts, confirmed, ahead, revived>>

(* Mutant: the base revision is not compared. *)
UpToDate_Any(d) == drafts[d].target \in Stored

UpToDate(d) == drafts[d].base = Current(drafts[d].target)

(* ... then its memory, which must still be at the base revision; a proposal
   without one gets a new memory. *)
ReadTarget(u) ==
    /\ mstep[u] = "target"
    /\ LET d == mheld[u].draft IN
        \/ /\ mheld[u].decision = "rejected"
           /\ Step(u, "reject", mheld[u])
        \/ /\ mheld[u].decision = "approved"
           /\ drafts[d].target = None
           /\ \E m \in Memory \ Stored : Step(u, "confirm", [mheld[u] EXCEPT !.memory = m])
        \/ /\ mheld[u].decision = "approved"
           /\ drafts[d].target # None
           /\ IF UpToDate(d)
              THEN Step(u, "confirm", [mheld[u] EXCEPT !.memory = drafts[d].target,
                                            !.current = Current(drafts[d].target)])
              ELSE Done(u)
    /\ UNCHANGED <<items, contents, drafts, confirmed, ahead, revived>>

(* Mutant: INSERT OR REPLACE. *)
Vacant_Replace(m, n) == n <= MaxMemoryRevision

(* The primary keys of memory_item and memory_revision. *)
Vacant(m, n) ==
    /\ n <= MaxMemoryRevision
    /\ contents[m][n] = None
    /\ n = 1 => m \notin Stored

Confirm(u) ==
    /\ mstep[u] = "confirm"
    /\ LET m == mheld[u].memory  n == mheld[u].current + 1  d == mheld[u].draft IN
        \/ /\ Vacant(m, n)
           /\ items' = [items EXCEPT ![m] = [revision |-> n, status |-> "confirmed"]]
           /\ contents' = [contents EXCEPT ![m][n] = d]
           /\ drafts' = [drafts EXCEPT ![d].status = "approved"]
           /\ confirmed' = [confirmed EXCEPT ![d] = @ + 1]
           /\ revived' = IF m \in Stored /\ ~Alive(m) THEN revived \cup {d} ELSE revived
           /\ UNCHANGED ahead
        \/ /\ ~Vacant(m, n)
           /\ UNCHANGED <<items, contents, drafts, confirmed, ahead, revived>>
    /\ Done(u)

Reject(u) ==
    /\ mstep[u] = "reject"
    /\ drafts' = [drafts EXCEPT ![mheld[u].draft].status = "rejected"]
    /\ Done(u)
    /\ UNCHANGED <<items, contents, confirmed, ahead, revived>>

(* tombstone: the memory ... *)
AskDelete(u) ==
    /\ mstep[u] = "idle"
    /\ \E m \in Memory :
        /\ Alive(m)
        /\ Step(u, "delete", [Nothing EXCEPT !.memory = m, !.current = Current(m)])
    /\ UNCHANGED <<items, contents, drafts, confirmed, ahead, revived>>

(* Mutant: the deletion leaves the revision number alone. *)
Delete_SameRevision(u) ==
    /\ mstep[u] = "delete"
    /\ items' = [items EXCEPT ![mheld[u].memory].status = "tombstoned"]
    /\ Done(u)
    /\ UNCHANGED <<contents, drafts, confirmed, ahead, revived>>

(* ... and its last revision. *)
Delete(u) ==
    /\ mstep[u] = "delete"
    /\ LET m == mheld[u].memory  n == mheld[u].current + 1 IN
        \/ /\ Vacant(m, n)
           /\ items' = [items EXCEPT ![m] = [revision |-> n, status |-> "tombstoned"]]
           /\ contents' = [contents EXCEPT ![m][n] = Deleted]
        \/ /\ ~Vacant(m, n)
           /\ UNCHANGED <<items, contents>>
    /\ Done(u)
    /\ UNCHANGED <<drafts, confirmed, ahead, revived>>

Abort(u) ==
    /\ mstep[u] # "idle"
    /\ Done(u)
    /\ UNCHANGED <<items, contents, drafts, confirmed, ahead, revived>>

Next ==
    \/ \E d \in Draft : Draw(d)
    \/ \E u \in MemoryUser :
        \/ AskReview(u) \/ ReadTarget(u) \/ Confirm(u) \/ Reject(u)
        \/ AskDelete(u) \/ Delete(u)
        \/ Abort(u)

Spec == Init /\ [][Next]_memoryVars

(* At most one review or deletion is under way. *)
MemoryAlone ==
    \A u, v \in MemoryUser : mstep'[u] # "idle" /\ mstep'[v] # "idle" => u = v

-----------------------------------------------------------------------------
(* The tables of migration 0026. *)
ItemRow == [revision : 1..MaxMemoryRevision, status : {"confirmed", "tombstoned"}]
ItemTable == [Memory -> {None} \cup ItemRow]
RevisionTable == [Memory -> [1..MaxMemoryRevision -> Draft \cup {Deleted, None}]]
DraftRow ==
    [target : Memory \cup {None}, base : (1..MaxMemoryRevision) \cup {None},
     status : {"pending", "approved", "rejected"}]
DraftTable == [Draft -> {None} \cup DraftRow]

(* NULL is none of the values a column may have. *)
MemoryAssumption ==
    /\ MaxMemoryRevision \in Nat
    /\ None \notin ItemRow \cup DraftRow
    /\ None \notin Draft \cup {Deleted}

(* Every variable has its type. *)
TypeOK ==
    /\ items \in ItemTable
    /\ contents \in RevisionTable
    /\ drafts \in DraftTable
    /\ mstep \in [MemoryUser -> {"idle", "target", "confirm", "reject", "delete"}]

(* A deleted memory is confirmed again only by a proposal that named, when it was
   made, a revision the memory did not have yet: no proposal written against what was
   there brings back what is deleted before or while it is reviewed. *)
DeletedStaysDeleted == revived \subseteq ahead

(* The current revision of a deleted memory is the one that says so, and a
   confirmed memory's says what a user confirmed. *)
CurrentContent ==
    \A m \in Stored :
        /\ Alive(m) => contents[m][Current(m)] \in Draft
        /\ ~Alive(m) => contents[m][Current(m)] = Deleted

(* All three, whoever reviews and deletes at once. *)
MemoriesHold == TypeOK /\ DeletedStaysDeleted /\ CurrentContent

(* A proposal is confirmed once: "memory proposal has already been reviewed". *)
ConfirmedOnce == \A d \in Draft : confirmed[d] <= 1
=============================================================================
