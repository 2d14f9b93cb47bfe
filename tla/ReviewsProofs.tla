------------------------------ MODULE ReviewsProofs ------------------------------
(***************************************************************************)
(* Proofs about MemoryStore and KnowledgeBase: whoever reviews, renames,   *)
(* rolls back and deletes at once, a deleted memory is not confirmed       *)
(* again and the text a user approved stays in its page's history; one     *)
(* request at a time, a proposal is decided once.                          *)
(***************************************************************************)
EXTENDS MCReviews, TLAPS

(* A thread's reading of a memory. *)
MemoryHeld ==
    [draft : Draft \cup {None}, decision : {"approved", "rejected", None},
     memory : Memory \cup {None}, current : 0..MaxMemoryRevision]

(* A memory's revisions are numbered without a gap up to its current one. *)
MemoryNumbered(m) ==
    \A n \in 1..MaxMemoryRevision : contents[m][n] = None <=> n > M!Current(m)

(* Unless its request was ahead of the memory, a proposal's base is no later than its
   memory's revision, and before it if the memory has been deleted. *)
DraftIsBased(d) ==
    drafts[d] # None /\ drafts[d].target # None =>
        \/ d \in ahead
        \/ /\ drafts[d].base \in 1..M!Current(drafts[d].target)
           /\ drafts[d].base = M!Current(drafts[d].target) => M!Alive(drafts[d].target)

(* What a thread holds was the memory's revision, at which it was not deleted unless
   the proposal was ahead of it. *)
MemoryStepIsSound(u) ==
    /\ mstep[u] \in {"target", "confirm", "reject"} =>
        mheld[u].draft \in Draft /\ drafts[mheld[u].draft] # None
    /\ mstep[u] = "target" => mheld[u].current = 0
    /\ mstep[u] = "confirm" =>
        /\ mheld[u].memory \in Memory
        /\ mheld[u].current <= M!Current(mheld[u].memory)
        /\ mheld[u].memory \in M!Stored /\ mheld[u].current = M!Current(mheld[u].memory) =>
              M!Alive(mheld[u].memory) \/ mheld[u].draft \in ahead
    /\ mstep[u] = "delete" =>
        /\ mheld[u].memory \in M!Stored
        /\ mheld[u].current \in 1..M!Current(mheld[u].memory)

(* The inductive invariant of MemoryStore. *)
MemoryInv ==
    /\ M!TypeOK /\ M!DeletedStaysDeleted /\ M!CurrentContent
    /\ mheld \in [MemoryUser -> MemoryHeld]
    /\ \A m \in Memory : MemoryNumbered(m)
    /\ \A d \in Draft : DraftIsBased(d)
    /\ \A u \in MemoryUser : MemoryStepIsSound(u)

(* One request at a time: only the thread that is reviewing a proposal confirms it, and
   not one that has been confirmed. *)
MemoryAloneInv ==
    /\ confirmed \in [Draft -> {0, 1}]
    /\ \A d \in Draft : confirmed[d] = 1 => drafts[d] # None /\ drafts[d].status # "pending"
    /\ \A u, v \in MemoryUser : mstep[u] # "idle" /\ mstep[v] # "idle" => u = v
    /\ \A u \in MemoryUser :
        mstep[u] \in {"target", "confirm", "reject"} => drafts[mheld[u].draft].status = "pending"

-----------------------------------------------------------------------------
(* A reviewer's reading of a page. *)
PageHeld ==
    [item : Proposal \cup Operation \cup {None}, decision : {"approved", "rejected", None},
     page : K!Page \cup {None}, current : 0..MaxRevision]

(* A page's revisions are numbered without a gap up to its current one. *)
PageNumbered(k) ==
    \A n \in 1..MaxRevision : revisions[k][n] = None <=> n > K!Revision(k)

(* What a reviewer holds: the item, its page, and the revision the page had. *)
PageStepIsSound(r) ==
    /\ kstep[r] \in {"target", "write"} =>
        /\ kheld[r].item \in Proposal \cup Operation
        /\ kheld[r].page \in K!Page
        /\ kheld[r].item \in Operation => kheld[r].page \in K!Known
        /\ K!Row(kheld[r].item) # None
    /\ kstep[r] = "write" => kheld[r].current <= K!Revision(kheld[r].page)
    /\ kstep[r] = "rollback" =>
        /\ kheld[r].page \in K!Known
        /\ kheld[r].current \in 1..K!Revision(kheld[r].page)

(* The inductive invariant of KnowledgeBase. *)
KnowledgeInv ==
    /\ K!TypeOK /\ K!ApprovalsKept
    /\ DOMAIN entries = K!Page
    /\ kheld \in [Reviewer -> PageHeld]
    /\ approvals \subseteq K!Page \X (1..MaxRevision) \X Proposal
    /\ \A k \in K!Page : PageNumbered(k)
    /\ \A o \in Operation : operations[o] # None => operations[o].target \in K!Known
    /\ \A r \in Reviewer : PageStepIsSound(r)

(* One request at a time: what is being reviewed has not been decided. *)
HoldsPending(r) == kstep[r] \in {"target", "write"} => K!Row(kheld[r].item).status = "pending"

KnowledgeAloneInv ==
    /\ reviews \in [Proposal -> {0, 1}]
    /\ \A p \in Proposal : reviews[p] = 1 => proposals[p] # None /\ proposals[p].status # "pending"
    /\ \A r, s \in Reviewer : kstep[r] # "idle" /\ kstep[s] # "idle" => r = s
    /\ \A r \in Reviewer : HoldsPending(r)

AloneInv == alone => MemoryAloneInv /\ KnowledgeAloneInv

-----------------------------------------------------------------------------
(* Before its first revision is stored, there is no memory. *)
LEMMA MemoryStart == M!Init => MemoryInv
<1> SUFFICES ASSUME M!Init PROVE MemoryInv
  OBVIOUS
<1>1. M!MemoryAssumption
  BY ReviewsAssumption
<1>2. M!TypeOK
  BY <1>1 DEF M!Init, M!TypeOK, M!ItemTable, M!RevisionTable, M!DraftTable, M!MemoryAssumption
<1>3. M!Stored = {} /\ \A m \in Memory : M!Current(m) = 0
  BY DEF M!Init, M!Stored, M!Current
<1>4. M!DeletedStaysDeleted /\ M!CurrentContent
  BY <1>3 DEF M!Init, M!DeletedStaysDeleted, M!CurrentContent
<1>5. mheld \in [MemoryUser -> MemoryHeld]
  BY <1>1 DEF M!Init, M!Nothing, MemoryHeld, M!MemoryAssumption
<1>6. \A m \in Memory : MemoryNumbered(m)
  BY <1>3 DEF M!Init, MemoryNumbered
<1>7. \A d \in Draft : DraftIsBased(d)
  BY DEF M!Init, DraftIsBased
<1>8. \A u \in MemoryUser : MemoryStepIsSound(u)
  BY DEF M!Init, MemoryStepIsSound
<1> QED BY <1>2, <1>4, <1>5, <1>6, <1>7, <1>8 DEF MemoryInv

(* What a step does to a memory: nothing, or its next revision. *)
Extends(m, status, text) ==
    LET n == M!Current(m) + 1 IN
    /\ n \in 1..MaxMemoryRevision
    /\ items'[m] = [revision |-> n, status |-> status]
    /\ contents'[m] = [contents[m] EXCEPT ![n] = text]

MemoryGrows(m) ==
    \/ items'[m] = items[m] /\ contents'[m] = contents[m]
    \/ \E d \in Draft : Extends(m, "confirmed", d)
    \/ Extends(m, "tombstoned", M!Deleted)

LEMMA MemoryRow ==
    ASSUME MemoryInv, NEW m \in Memory
    PROVE  /\ contents[m] \in [1..MaxMemoryRevision -> Draft \cup {M!Deleted, None}]
           /\ m \notin M!Stored => M!Current(m) = 0
           /\ m \in M!Stored => /\ items[m] \in M!ItemRow
                              /\ M!Current(m) = items[m].revision
                              /\ M!Current(m) \in 1..MaxMemoryRevision
           /\ M!Current(m) \in 0..MaxMemoryRevision
<1>1. M!MemoryAssumption
  BY ReviewsAssumption
<1>2. items[m] \in {None} \cup M!ItemRow
      /\ contents[m] \in [1..MaxMemoryRevision -> Draft \cup {M!Deleted, None}]
  BY DEF MemoryInv, M!TypeOK, M!ItemTable, M!RevisionTable
<1>3. \A row \in M!ItemRow : row.revision \in 1..MaxMemoryRevision
  BY DEF M!ItemRow
<1> QED BY <1>1, <1>2, <1>3 DEF M!Stored, M!Current, M!MemoryAssumption

LEMMA ExtendedMemory ==
    ASSUME MemoryInv, NEW m \in Memory, NEW status \in {"confirmed", "tombstoned"},
           NEW text \in Draft \cup {M!Deleted}, Extends(m, status, text)
    PROVE  /\ items'[m] \in M!ItemRow
           /\ m \in M!Stored'
           /\ M!Current(m)' = M!Current(m) + 1
           /\ M!Alive(m)' <=> status = "confirmed"
           /\ contents'[m][M!Current(m)'] = text
           /\ MemoryNumbered(m)'
<1> DEFINE n == M!Current(m) + 1
<1>1. None \notin M!ItemRow /\ text # None /\ MaxMemoryRevision \in Nat
  BY ReviewsAssumption DEF M!MemoryAssumption
<1>2. M!Current(m) \in 0..MaxMemoryRevision
      /\ contents[m] \in [1..MaxMemoryRevision -> Draft \cup {M!Deleted, None}]
  BY MemoryRow
<1>3. /\ n \in 1..MaxMemoryRevision
      /\ items'[m] = [revision |-> n, status |-> status]
      /\ contents'[m] = [contents[m] EXCEPT ![n] = text]
  BY DEF Extends
<1> HIDE DEF n
<1>4. items'[m] \in M!ItemRow /\ items'[m].revision = n /\ items'[m].status = status
  BY <1>3 DEF M!ItemRow
<1>5. m \in M!Stored' /\ M!Current(m)' = n /\ (M!Alive(m)' <=> status = "confirmed")
  BY <1>1, <1>4 DEF M!Stored, M!Current, M!Alive
<1>6. contents'[m][n] = text
  BY <1>2, <1>3
<1>7. ASSUME NEW i \in 1..MaxMemoryRevision
      PROVE  contents'[m][i] = None <=> i > n
  <2>1. contents[m][i] = None <=> i > M!Current(m)
    BY DEF MemoryInv, MemoryNumbered
  <2>2. i # n => contents'[m][i] = contents[m][i]
    BY <1>2, <1>3
  <2> QED BY <1>1, <1>2, <1>6, <2>1, <2>2 DEF n
<1>8. MemoryNumbered(m)'
  BY <1>5, <1>7 DEF MemoryNumbered
<1> QED BY <1>4, <1>5, <1>6, <1>8 DEF n

(* A memory's revision grows, and while it does not grow the memory stays as it is. *)
LEMMA GrownMemory ==
    ASSUME MemoryInv, NEW m \in Memory, MemoryGrows(m)
    PROVE  /\ M!Current(m)' \in Nat
           /\ M!Current(m) <= M!Current(m)'
           /\ m \in M!Stored => m \in M!Stored'
           /\ M!Current(m)' = M!Current(m) =>
                /\ m \in M!Stored <=> m \in M!Stored'
                /\ M!Alive(m) <=> M!Alive(m)'
           /\ MemoryNumbered(m)'
           /\ m \in M!Stored' =>
                /\ M!Alive(m)' => contents'[m][M!Current(m)'] \in Draft
                /\ ~M!Alive(m)' => contents'[m][M!Current(m)'] = M!Deleted
<1>1. M!Current(m) \in 0..MaxMemoryRevision /\ MaxMemoryRevision \in Nat
  BY MemoryRow, ReviewsAssumption DEF M!MemoryAssumption
<1>2. CASE items'[m] = items[m] /\ contents'[m] = contents[m]
  <2>1. /\ m \in M!Stored <=> m \in M!Stored'
        /\ M!Current(m)' = M!Current(m)
        /\ M!Alive(m) <=> M!Alive(m)'
    BY <1>2 DEF M!Stored, M!Current, M!Alive
  <2>2. MemoryNumbered(m) /\ M!CurrentContent
    BY DEF MemoryInv
  <2> QED BY <1>1, <1>2, <2>1, <2>2 DEF MemoryNumbered, M!CurrentContent
<1>3. CASE \E d \in Draft : Extends(m, "confirmed", d)
  <2>1. PICK d \in Draft : Extends(m, "confirmed", d)
    BY <1>3
  <2> QED BY <1>1, <2>1, ExtendedMemory
<1>4. CASE Extends(m, "tombstoned", M!Deleted)
  BY <1>1, <1>4, ExtendedMemory
<1> QED BY <1>2, <1>3, <1>4 DEF MemoryGrows
-----------------------------------------------------------------------------
(* A proposal keeps its memory, its base and how it was made. *)
DraftKeeps(d) ==
    drafts[d] # None =>
        /\ drafts'[d] # None
        /\ drafts'[d].target = drafts[d].target
        /\ drafts'[d].base = drafts[d].base
        /\ d \in ahead => d \in ahead'

LEMMA DraftOfRow ==
    ASSUME MemoryInv, NEW d \in Draft, drafts[d] # None
    PROVE  /\ drafts[d] \in M!DraftRow
           /\ drafts[d].target \in Memory \cup {None}
<1>1. drafts[d] \in {None} \cup M!DraftRow
  BY DEF MemoryInv, M!TypeOK, M!DraftTable
<1> QED BY <1>1 DEF M!DraftRow

LEMMA DecidedDraft ==
    ASSUME MemoryInv, NEW d \in Draft, drafts[d] # None,
           NEW status \in {"approved", "rejected"},
           drafts' = [drafts EXCEPT ![d].status = status], UNCHANGED ahead
    PROVE  /\ drafts' \in M!DraftTable
           /\ \A e \in Draft : DraftKeeps(e)
           /\ drafts'[d] # None /\ drafts'[d].status = status
           /\ \A e \in Draft \ {d} : drafts'[e] = drafts[e]
<1>1. drafts \in [Draft -> {None} \cup M!DraftRow] /\ drafts[d] \in M!DraftRow
  BY DraftOfRow DEF MemoryInv, M!TypeOK, M!DraftTable
<1>2. None \notin M!DraftRow
  BY ReviewsAssumption DEF M!MemoryAssumption
<1>3. drafts'[d] = [drafts[d] EXCEPT !.status = status]
      /\ \A e \in Draft \ {d} : drafts'[e] = drafts[e]
  BY <1>1
<1>4. /\ drafts'[d] \in M!DraftRow
      /\ drafts'[d].target = drafts[d].target
      /\ drafts'[d].base = drafts[d].base
      /\ drafts'[d].status = status
  BY <1>1, <1>3 DEF M!DraftRow
<1>5. drafts' \in M!DraftTable
  BY <1>1, <1>3, <1>4 DEF M!DraftTable
<1> QED BY <1>2, <1>3, <1>4, <1>5 DEF DraftKeeps

LEMMA DrawnDraft ==
    ASSUME MemoryInv, NEW d \in Draft, M!Draw(d)
    PROVE  /\ drafts' \in M!DraftTable
           /\ \A e \in Draft : DraftKeeps(e)
           /\ DraftIsBased(d)'
           /\ \A e \in Draft \ {d} : drafts'[e] = drafts[e]
           /\ drafts'[d] # None => drafts'[d].status = "pending"
<1>1. drafts \in [Draft -> {None} \cup M!DraftRow] /\ drafts[d] = None
  BY DEF MemoryInv, M!TypeOK, M!DraftTable, M!Draw
<1>2. UNCHANGED <<items, contents>> /\ (\A e \in Draft : e \in ahead => e \in ahead')
  BY DEF M!Draw
<1>3. \A m \in Memory : M!Current(m)' = M!Current(m) /\ (M!Alive(m)' <=> M!Alive(m))
  BY <1>2 DEF M!Current, M!Alive, M!Stored
<1>4. CASE drafts' = [drafts EXCEPT ![d] = [target |-> None, base |-> None, status |-> "pending"]]
  <2> DEFINE row == [target |-> None, base |-> None, status |-> "pending"]
  <2>1. row \in M!DraftRow /\ row.target = None /\ row.status = "pending"
    BY DEF M!DraftRow
  <2>2. drafts' = [drafts EXCEPT ![d] = row]
    BY <1>4
  <2> HIDE DEF row
  <2> QED BY <1>1, <1>2, <2>1, <2>2 DEF M!DraftTable, DraftKeeps, DraftIsBased
<1>5. ASSUME NEW m \in Memory, NEW base \in 1..MaxMemoryRevision, M!Alive(m),
             base > M!Current(m) => d \in ahead',
             drafts' = [drafts EXCEPT ![d] = [target |-> m, base |-> base, status |-> "pending"]]
      PROVE  /\ drafts' \in M!DraftTable
             /\ \A e \in Draft : DraftKeeps(e)
             /\ DraftIsBased(d)'
             /\ \A e \in Draft \ {d} : drafts'[e] = drafts[e]
             /\ drafts'[d] # None => drafts'[d].status = "pending"
  <2> DEFINE row == [target |-> m, base |-> base, status |-> "pending"]
  <2>1. M!Current(m) \in 0..MaxMemoryRevision /\ MaxMemoryRevision \in Nat
    BY MemoryRow, ReviewsAssumption DEF M!MemoryAssumption
  <2>2. row \in M!DraftRow /\ row.target = m /\ row.base = base /\ row.status = "pending"
    BY <2>1 DEF M!DraftRow
  <2>3. drafts' = [drafts EXCEPT ![d] = row]
    BY <1>5
  <2> HIDE DEF row
  <2>4. /\ drafts'[d] = row /\ drafts' \in M!DraftTable
        /\ \A e \in Draft \ {d} : drafts'[e] = drafts[e]
    BY <1>1, <2>2, <2>3 DEF M!DraftTable
  <2>5. d \in ahead' \/ base \in 1..M!Current(m)
    BY <1>5, <2>1
  <2>6. DraftIsBased(d)'
    BY <1>3, <1>5, <2>2, <2>4, <2>5 DEF DraftIsBased
  <2> QED BY <1>1, <1>2, <2>2, <2>4, <2>6 DEF DraftKeeps
<1> QED
  BY <1>4, <1>5 DEF M!Draw

(* A thread's next step and what it holds. *)
LEMMA SteppedThread ==
    ASSUME MemoryInv, NEW u \in MemoryUser,
           NEW next \in {"idle", "target", "confirm", "reject", "delete"},
           NEW holding \in MemoryHeld, M!Step(u, next, holding)
    PROVE  /\ mstep' \in [MemoryUser -> {"idle", "target", "confirm", "reject", "delete"}]
           /\ mheld' \in [MemoryUser -> MemoryHeld]
           /\ mstep'[u] = next /\ mheld'[u] = holding
           /\ \A w \in MemoryUser \ {u} : mstep'[w] = mstep[w] /\ mheld'[w] = mheld[w]
BY DEF MemoryInv, M!TypeOK, M!Step

LEMMA NothingHeld == M!Nothing \in MemoryHeld
BY ReviewsAssumption DEF M!Nothing, MemoryHeld, M!MemoryAssumption

(* What a thread holds stays sound whatever the others do. *)
LEMMA KeptThread ==
    ASSUME MemoryInv, \A m \in Memory : MemoryGrows(m), \A d \in Draft : DraftKeeps(d),
           NEW w \in MemoryUser, mstep'[w] = mstep[w], mheld'[w] = mheld[w]
    PROVE  MemoryStepIsSound(w)'
<1>1. MemoryStepIsSound(w) /\ mheld[w] \in MemoryHeld
  BY DEF MemoryInv
<1>2. mheld[w].current \in Nat
  BY <1>1, ReviewsAssumption DEF MemoryHeld, M!MemoryAssumption
<1>3. ASSUME mstep[w] \in {"target", "confirm", "reject"}
      PROVE  /\ mheld'[w].draft \in Draft /\ drafts'[mheld'[w].draft] # None
             /\ mheld[w].draft \in ahead => mheld[w].draft \in ahead'
  BY <1>1, <1>3 DEF MemoryStepIsSound, DraftKeeps
<1>4. ASSUME mstep[w] = "confirm"
      PROVE  /\ mheld[w].memory \in Memory
             /\ mheld[w].current <= M!Current(mheld[w].memory)'
             /\ mheld[w].memory \in M!Stored' /\ mheld[w].current = M!Current(mheld[w].memory)' =>
                   M!Alive(mheld[w].memory)' \/ mheld[w].draft \in ahead'
  <2>1. PICK m \in Memory : m = mheld[w].memory
    BY <1>1, <1>4 DEF MemoryStepIsSound
  <2>2. /\ mheld[w].current <= M!Current(m)
        /\ m \in M!Stored /\ mheld[w].current = M!Current(m) =>
              M!Alive(m) \/ mheld[w].draft \in ahead'
    BY <1>1, <1>3, <1>4, <2>1 DEF MemoryStepIsSound
  <2>3. M!Current(m) \in Nat
    BY MemoryRow, ReviewsAssumption DEF M!MemoryAssumption
  <2>4. /\ M!Current(m)' \in Nat /\ M!Current(m) <= M!Current(m)'
        /\ M!Current(m)' = M!Current(m) =>
            (m \in M!Stored <=> m \in M!Stored') /\ (M!Alive(m) <=> M!Alive(m)')
    BY GrownMemory
  <2>5. /\ mheld[w].current <= M!Current(m)'
        /\ m \in M!Stored' /\ mheld[w].current = M!Current(m)' =>
              M!Alive(m)' \/ mheld[w].draft \in ahead'
    BY <1>2, <2>2, <2>3, <2>4
  <2> QED BY <2>1, <2>5
<1>5. ASSUME mstep[w] = "delete"
      PROVE  /\ mheld[w].memory \in M!Stored'
             /\ mheld[w].current \in 1..M!Current(mheld[w].memory)'
  <2>1. PICK m \in M!Stored : m = mheld[w].memory
    BY <1>1, <1>5 DEF MemoryStepIsSound
  <2>2. m \in Memory
    BY DEF M!Stored
  <2>3. mheld[w].current \in 1..M!Current(m) /\ M!Current(m) \in Nat
    BY <1>1, <1>5, <2>1, <2>2, MemoryRow, ReviewsAssumption
       DEF MemoryStepIsSound, M!MemoryAssumption
  <2>4. m \in M!Stored' /\ M!Current(m)' \in Nat /\ M!Current(m) <= M!Current(m)'
    BY <2>2, GrownMemory
  <2>5. mheld[w].current \in 1..M!Current(m)'
    BY <2>3, <2>4
  <2> QED BY <2>1, <2>4, <2>5
<1>6. mstep[w] = "target" => mheld[w].current = 0
  BY <1>1 DEF MemoryStepIsSound
<1> QED BY <1>3, <1>4, <1>5, <1>6 DEF MemoryStepIsSound

LEMMA KeptDraft ==
    ASSUME MemoryInv, \A m \in Memory : MemoryGrows(m), NEW d \in Draft,
           drafts[d] # None, DraftKeeps(d)
    PROVE  DraftIsBased(d)'
<1>1. SUFFICES ASSUME drafts[d].target # None, d \notin ahead
               PROVE  /\ drafts[d].base \in 1..M!Current(drafts[d].target)'
                      /\ drafts[d].base = M!Current(drafts[d].target)' =>
                            M!Alive(drafts[d].target)'
  BY DEF DraftIsBased, DraftKeeps
<1>2. PICK m \in Memory : m = drafts[d].target /\ m = drafts'[d].target
  BY <1>1, DraftOfRow DEF DraftKeeps
<1>3. /\ drafts[d].base \in 1..M!Current(m)
      /\ drafts[d].base = M!Current(m) => M!Alive(m)
  BY <1>1, <1>2 DEF MemoryInv, DraftIsBased
<1>4. M!Current(m) \in Nat
  BY MemoryRow, ReviewsAssumption DEF M!MemoryAssumption
<1>5. /\ M!Current(m)' \in Nat /\ M!Current(m) <= M!Current(m)'
      /\ M!Current(m)' = M!Current(m) => (M!Alive(m) <=> M!Alive(m)')
  BY GrownMemory
<1>6. /\ drafts[d].base \in 1..M!Current(m)'
      /\ drafts[d].base = M!Current(m)' => M!Alive(m)'
  BY <1>3, <1>4, <1>5
<1> QED BY <1>2, <1>6

(* What is left of a step once its tables are known: the thread that takes it. *)
LEMMA MemoryAfter ==
    ASSUME MemoryInv, \A m \in Memory : MemoryGrows(m), \A d \in Draft : DraftKeeps(d),
           items' \in M!ItemTable, contents' \in M!RevisionTable, drafts' \in M!DraftTable,
           \A d \in Draft : drafts[d] # None \/ drafts'[d] = None,
           M!DeletedStaysDeleted',
           NEW u \in MemoryUser,
           NEW next \in {"idle", "target", "confirm", "reject", "delete"},
           NEW holding \in MemoryHeld, M!Step(u, next, holding), MemoryStepIsSound(u)'
    PROVE  MemoryInv'
<1>1. /\ mstep' \in [MemoryUser -> {"idle", "target", "confirm", "reject", "delete"}]
      /\ mheld' \in [MemoryUser -> MemoryHeld]
      /\ \A w \in MemoryUser \ {u} : mstep'[w] = mstep[w] /\ mheld'[w] = mheld[w]
  BY SteppedThread
<1>2. M!TypeOK'
  BY <1>1 DEF M!TypeOK, M!ItemTable, M!RevisionTable, M!DraftTable, M!ItemRow, M!DraftRow
<1>3. M!CurrentContent'
  BY GrownMemory DEF M!CurrentContent, M!Stored
<1>4. \A m \in Memory : MemoryNumbered(m)'
  BY GrownMemory
<1>5. ASSUME NEW d \in Draft PROVE DraftIsBased(d)'
  <2>1. CASE drafts[d] # None
    BY <2>1, KeptDraft
  <2>2. CASE drafts'[d] = None
    BY <2>2 DEF DraftIsBased
  <2> QED BY <2>1, <2>2
<1>6. \A w \in MemoryUser : MemoryStepIsSound(w)'
  BY <1>1, KeptThread
<1> QED BY <1>1, <1>2, <1>3, <1>4, <1>5, <1>6 DEF MemoryInv

LEMMA MemoryRead ==
    ASSUME MemoryInv, UNCHANGED <<items, contents, drafts, ahead, revived>>,
           NEW u \in MemoryUser,
           NEW next \in {"idle", "target", "confirm", "reject", "delete"},
           NEW holding \in MemoryHeld, M!Step(u, next, holding), MemoryStepIsSound(u)'
    PROVE  MemoryInv'
<1>1. \A m \in Memory : MemoryGrows(m)
  BY DEF MemoryGrows
<1>2. \A d \in Draft : DraftKeeps(d)
  BY DEF DraftKeeps
<1>3. /\ items' \in M!ItemTable /\ contents' \in M!RevisionTable /\ drafts' \in M!DraftTable
      /\ \A d \in Draft : drafts[d] # None \/ drafts'[d] = None
      /\ M!DeletedStaysDeleted'
  BY DEF MemoryInv, M!TypeOK, M!DeletedStaysDeleted
<1> QED BY <1>1, <1>2, <1>3, MemoryAfter

(* A thread that has nothing to do holds nothing. *)
LEMMA IdleIsSound ==
    ASSUME MemoryInv, NEW u \in MemoryUser, M!Done(u)
    PROVE  MemoryStepIsSound(u)'
<1>1. mstep'[u] = "idle"
  BY NothingHeld, SteppedThread DEF M!Done
<1> QED BY <1>1 DEF MemoryStepIsSound

LEMMA MemoryDraw == ASSUME MemoryInv, NEW d \in Draft, M!Draw(d) PROVE MemoryInv'
<1>1. UNCHANGED <<items, contents, mstep, mheld, revived>> /\ ahead \subseteq ahead'
  BY DEF M!Draw
<1>2. \A m \in Memory : MemoryGrows(m)
  BY <1>1 DEF MemoryGrows
<1>3. /\ drafts' \in M!DraftTable
      /\ \A e \in Draft : DraftKeeps(e)
      /\ DraftIsBased(d)'
      /\ \A e \in Draft \ {d} : drafts'[e] = drafts[e]
  BY DrawnDraft
<1>4. M!TypeOK' /\ M!DeletedStaysDeleted' /\ mheld' \in [MemoryUser -> MemoryHeld]
  BY <1>1, <1>3 DEF MemoryInv, M!TypeOK, M!DeletedStaysDeleted,
                    M!ItemTable, M!RevisionTable, M!DraftTable
<1>5. M!CurrentContent'
  BY <1>2, GrownMemory DEF M!CurrentContent, M!Stored
<1>6. \A m \in Memory : MemoryNumbered(m)'
  BY <1>2, GrownMemory
<1>7. ASSUME NEW e \in Draft PROVE DraftIsBased(e)'
  <2>1. CASE e # d /\ drafts[e] = None
    BY <1>3, <2>1 DEF DraftIsBased
  <2>2. CASE drafts[e] # None
    BY <1>2, <1>3, <2>2, KeptDraft
  <2> QED BY <1>3, <2>1, <2>2
<1>8. \A w \in MemoryUser : MemoryStepIsSound(w)'
  BY <1>1, <1>2, <1>3, KeptThread
<1> QED BY <1>4, <1>5, <1>6, <1>7, <1>8 DEF MemoryInv

LEMMA MemoryAskReview == ASSUME MemoryInv, NEW u \in MemoryUser, M!AskReview(u) PROVE MemoryInv'
<1>1. PICK d \in Draft, decision \in {"approved", "rejected"} :
        /\ drafts[d] # None
        /\ M!Step(u, "target", [M!Nothing EXCEPT !.draft = d, !.decision = decision])
  BY DEF M!AskReview
<1> DEFINE holding == [M!Nothing EXCEPT !.draft = d, !.decision = decision]
<1>2. holding \in MemoryHeld /\ holding.draft = d /\ holding.current = 0
  BY NothingHeld DEF MemoryHeld, M!Nothing
<1>3. M!Step(u, "target", holding)
  BY <1>1
<1> HIDE DEF holding
<1>4. mstep'[u] = "target" /\ mheld'[u] = holding
  BY <1>2, <1>3, SteppedThread
<1>5. UNCHANGED <<items, contents, drafts, ahead, revived>>
  BY DEF M!AskReview
<1>6. MemoryStepIsSound(u)'
  BY <1>1, <1>2, <1>4, <1>5 DEF MemoryStepIsSound
<1> QED BY <1>2, <1>3, <1>5, <1>6, MemoryRead

LEMMA MemoryReadTarget == ASSUME MemoryInv, NEW u \in MemoryUser, M!ReadTarget(u) PROVE MemoryInv'
<1>1. UNCHANGED <<items, contents, drafts, ahead, revived>> /\ mstep[u] = "target"
  BY DEF M!ReadTarget
<1>2. mheld[u] \in MemoryHeld /\ MemoryStepIsSound(u)
  BY DEF MemoryInv
<1>3. PICK d \in Draft : d = mheld[u].draft /\ drafts[d] # None
  BY <1>1, <1>2 DEF MemoryStepIsSound
<1>4. ASSUME M!Step(u, "reject", mheld[u]) PROVE MemoryInv'
  <2>1. mstep'[u] = "reject" /\ mheld'[u] = mheld[u]
    BY <1>2, <1>4, SteppedThread
  <2>2. MemoryStepIsSound(u)'
    BY <1>1, <1>3, <2>1 DEF MemoryStepIsSound
  <2> QED BY <1>1, <1>2, <1>4, <2>2, MemoryRead
<1>5. ASSUME NEW m \in Memory \ M!Stored, M!Step(u, "confirm", [mheld[u] EXCEPT !.memory = m])
      PROVE  MemoryInv'
  <2> DEFINE holding == [mheld[u] EXCEPT !.memory = m]
  <2>1. /\ holding \in MemoryHeld /\ holding.draft = d /\ holding.memory = m
        /\ holding.current = mheld[u].current
    BY <1>2, <1>3 DEF MemoryHeld
  <2>2. M!Step(u, "confirm", holding)
    BY <1>5
  <2> HIDE DEF holding
  <2>3. mstep'[u] = "confirm" /\ mheld'[u] = holding
    BY <2>1, <2>2, SteppedThread
  <2>4. mheld[u].current = 0 /\ M!Current(m) = 0
    BY <1>1, <1>2, <1>5, MemoryRow DEF MemoryStepIsSound
  <2>5. m \notin M!Stored' /\ M!Current(m)' = M!Current(m)
    BY <1>1, <1>5 DEF M!Stored, M!Current
  <2>6. MemoryStepIsSound(u)'
    BY <1>1, <1>3, <1>5, <2>1, <2>3, <2>4, <2>5 DEF MemoryStepIsSound
  <2> QED BY <1>1, <2>1, <2>2, <2>6, MemoryRead
<1>6. ASSUME drafts[d].target # None, M!UpToDate(d),
             M!Step(u, "confirm", [mheld[u] EXCEPT !.memory = drafts[d].target,
                                        !.current = M!Current(drafts[d].target)])
      PROVE  MemoryInv'
  <2>1. PICK m \in Memory : m = drafts[d].target
    BY <1>3, <1>6, DraftOfRow
  <2> DEFINE holding == [mheld[u] EXCEPT !.memory = m, !.current = M!Current(m)]
  <2>2. /\ holding \in MemoryHeld /\ holding.draft = d /\ holding.memory = m
        /\ holding.current = M!Current(m)
    BY <1>2, <1>3, MemoryRow DEF MemoryHeld
  <2>3. M!Step(u, "confirm", holding)
    BY <1>6, <2>1
  <2> HIDE DEF holding
  <2>4. mstep'[u] = "confirm" /\ mheld'[u] = holding
    BY <2>2, <2>3, SteppedThread
  <2>5. M!Alive(m) \/ d \in ahead
    BY <1>3, <1>6, <2>1 DEF M!UpToDate, MemoryInv, DraftIsBased
  <2>6. M!Current(m)' = M!Current(m) /\ (M!Alive(m)' <=> M!Alive(m))
    BY <1>1 DEF M!Stored, M!Current, M!Alive
  <2>7. M!Current(m) \in Nat
    BY MemoryRow, ReviewsAssumption DEF M!MemoryAssumption
  <2>8. MemoryStepIsSound(u)'
    BY <1>1, <1>3, <2>2, <2>4, <2>5, <2>6, <2>7 DEF MemoryStepIsSound
  <2> QED BY <1>1, <2>2, <2>3, <2>8, MemoryRead
<1>7. ASSUME M!Done(u) PROVE MemoryInv'
  BY <1>1, <1>7, NothingHeld, IdleIsSound, MemoryRead DEF M!Done
<1> QED
  BY <1>3, <1>4, <1>5, <1>6, <1>7 DEF M!ReadTarget

(* The revision that a writer adds is the next one. *)
LEMMA NextRevision ==
    ASSUME MemoryInv, NEW m \in Memory, NEW c \in 0..M!Current(m), M!Vacant(m, c + 1)
    PROVE  c = M!Current(m) /\ c + 1 \in 1..MaxMemoryRevision
<1>1. M!Current(m) \in Nat /\ MaxMemoryRevision \in Nat
  BY MemoryRow, ReviewsAssumption DEF M!MemoryAssumption
<1>2. c + 1 \in 1..MaxMemoryRevision /\ contents[m][c + 1] = None
  BY <1>1 DEF M!Vacant
<1>3. c + 1 > M!Current(m)
  BY <1>2 DEF MemoryInv, MemoryNumbered
<1> QED BY <1>1, <1>2, <1>3

LEMMA ExtendedTables ==
    ASSUME MemoryInv, NEW m \in Memory, NEW c, c = M!Current(m), c + 1 \in 1..MaxMemoryRevision,
           NEW status \in {"confirmed", "tombstoned"}, NEW text \in Draft \cup {M!Deleted},
           items' = [items EXCEPT ![m] = [revision |-> c + 1, status |-> status]],
           contents' = [contents EXCEPT ![m][c + 1] = text]
    PROVE  /\ items' \in M!ItemTable /\ contents' \in M!RevisionTable
           /\ Extends(m, status, text)
           /\ \A o \in Memory \ {m} : MemoryGrows(o)
<1>1. items \in [Memory -> {None} \cup M!ItemRow]
      /\ contents \in [Memory -> [1..MaxMemoryRevision -> Draft \cup {M!Deleted, None}]]
  BY DEF MemoryInv, M!TypeOK, M!ItemTable, M!RevisionTable
<1>2. [revision |-> c + 1, status |-> status] \in M!ItemRow
  BY DEF M!ItemRow
<1>3. items' \in M!ItemTable /\ contents' \in M!RevisionTable
  BY <1>1, <1>2 DEF M!ItemTable, M!RevisionTable
<1>4. /\ items'[m] = [revision |-> c + 1, status |-> status]
      /\ contents'[m] = [contents[m] EXCEPT ![c + 1] = text]
      /\ \A o \in Memory \ {m} : items'[o] = items[o] /\ contents'[o] = contents[o]
  BY <1>1
<1> QED BY <1>3, <1>4 DEF Extends, MemoryGrows

LEMMA MemoryConfirm == ASSUME MemoryInv, NEW u \in MemoryUser, M!Confirm(u) PROVE MemoryInv'
<1>1. mstep[u] = "confirm" /\ M!Done(u)
  BY DEF M!Confirm
<1>2. mheld[u] \in MemoryHeld /\ MemoryStepIsSound(u) /\ MemoryStepIsSound(u)'
  BY <1>1, IdleIsSound DEF MemoryInv
<1>3. PICK m \in Memory, d \in Draft, c \in Nat :
        m = mheld[u].memory /\ d = mheld[u].draft /\ c = mheld[u].current
  BY <1>1, <1>2, ReviewsAssumption DEF MemoryStepIsSound, MemoryHeld, M!MemoryAssumption
<1>4. drafts[d] # None /\ c <= M!Current(m) 
      /\ (m \in M!Stored /\ c = M!Current(m) => M!Alive(m) \/ d \in ahead)
  BY <1>1, <1>2, <1>3 DEF MemoryStepIsSound
<1>5. c \in 0..M!Current(m)
  BY <1>4, MemoryRow, ReviewsAssumption DEF M!MemoryAssumption
<1>6. ASSUME M!Vacant(m, c + 1),
             items' = [items EXCEPT ![m] = [revision |-> c + 1, status |-> "confirmed"]],
             contents' = [contents EXCEPT ![m][c + 1] = d],
             drafts' = [drafts EXCEPT ![d].status = "approved"],
             revived' = IF m \in M!Stored /\ ~M!Alive(m) THEN revived \cup {d} ELSE revived,
             UNCHANGED ahead
      PROVE  MemoryInv'
  <2>1. c = M!Current(m) /\ c + 1 \in 1..MaxMemoryRevision
    BY <1>5, <1>6, NextRevision
  <2>2. /\ items' \in M!ItemTable /\ contents' \in M!RevisionTable
        /\ Extends(m, "confirmed", d)
        /\ \A o \in Memory \ {m} : MemoryGrows(o)
    BY <1>6, <2>1, ExtendedTables
  <2>3. \A o \in Memory : MemoryGrows(o)
    BY <2>2 DEF MemoryGrows
  <2>4. /\ drafts' \in M!DraftTable
        /\ \A e \in Draft : DraftKeeps(e)
        /\ \A e \in Draft : drafts[e] # None \/ drafts'[e] = None
    BY <1>4, <1>6, DecidedDraft
  <2>5. M!DeletedStaysDeleted'
    BY <1>4, <1>6, <2>1 DEF MemoryInv, M!DeletedStaysDeleted
  <2> QED BY <1>1, <1>2, <2>2, <2>3, <2>4, <2>5, NothingHeld, MemoryAfter DEF M!Done
<1>7. ASSUME UNCHANGED <<items, contents, drafts, ahead, revived>> PROVE MemoryInv'
  BY <1>1, <1>2, <1>7, NothingHeld, MemoryRead DEF M!Done
<1> QED
  BY <1>3, <1>6, <1>7 DEF M!Confirm

LEMMA MemoryReject == ASSUME MemoryInv, NEW u \in MemoryUser, M!Reject(u) PROVE MemoryInv'
<1>1. /\ mstep[u] = "reject" /\ M!Done(u)
      /\ drafts' = [drafts EXCEPT ![mheld[u].draft].status = "rejected"]
      /\ UNCHANGED <<items, contents, ahead, revived>>
  BY DEF M!Reject
<1>2. mheld[u].draft \in Draft /\ drafts[mheld[u].draft] # None /\ MemoryStepIsSound(u)'
  BY <1>1, IdleIsSound DEF MemoryInv, MemoryStepIsSound
<1>3. \A m \in Memory : MemoryGrows(m)
  BY <1>1 DEF MemoryGrows
<1>4. /\ drafts' \in M!DraftTable
      /\ \A e \in Draft : DraftKeeps(e)
      /\ \A e \in Draft : drafts[e] # None \/ drafts'[e] = None
  BY <1>1, <1>2, DecidedDraft
<1>5. items' \in M!ItemTable /\ contents' \in M!RevisionTable /\ M!DeletedStaysDeleted'
  BY <1>1 DEF MemoryInv, M!TypeOK, M!DeletedStaysDeleted
<1> QED BY <1>1, <1>2, <1>3, <1>4, <1>5, NothingHeld, MemoryAfter DEF M!Done

LEMMA MemoryAskDelete == ASSUME MemoryInv, NEW u \in MemoryUser, M!AskDelete(u) PROVE MemoryInv'
<1>1. UNCHANGED <<items, contents, drafts, ahead, revived>>
  BY DEF M!AskDelete
<1>2. PICK m \in Memory :
        /\ M!Alive(m)
        /\ M!Step(u, "delete", [M!Nothing EXCEPT !.memory = m, !.current = M!Current(m)])
  BY DEF M!AskDelete
<1> DEFINE holding == [M!Nothing EXCEPT !.memory = m, !.current = M!Current(m)]
<1>3. holding \in MemoryHeld /\ holding.memory = m /\ holding.current = M!Current(m)
  BY NothingHeld, MemoryRow DEF MemoryHeld, M!Nothing
<1>4. M!Step(u, "delete", holding)
  BY <1>2
<1> HIDE DEF holding
<1>5. mstep'[u] = "delete" /\ mheld'[u] = holding
  BY <1>3, <1>4, SteppedThread
<1>6. m \in M!Stored /\ M!Current(m) \in 1..MaxMemoryRevision
  BY <1>2, MemoryRow DEF M!Alive
<1>7. m \in M!Stored' /\ M!Current(m)' = M!Current(m)
  BY <1>1, <1>6 DEF M!Stored, M!Current
<1>8. M!Current(m) \in 1..M!Current(m)'
  BY <1>6, <1>7, ReviewsAssumption DEF M!MemoryAssumption
<1>9. MemoryStepIsSound(u)'
  BY <1>3, <1>5, <1>7, <1>8 DEF MemoryStepIsSound
<1> QED BY <1>1, <1>3, <1>4, <1>9, MemoryRead

LEMMA MemoryDelete == ASSUME MemoryInv, NEW u \in MemoryUser, M!Delete(u) PROVE MemoryInv'
<1>1. mstep[u] = "delete" /\ M!Done(u) /\ UNCHANGED <<drafts, ahead, revived>>
  BY DEF M!Delete
<1>2. MemoryStepIsSound(u) /\ MemoryStepIsSound(u)'
  BY <1>1, IdleIsSound DEF MemoryInv
<1>3. PICK m \in Memory : m = mheld[u].memory /\ m \in M!Stored
  BY <1>1, <1>2 DEF MemoryStepIsSound, M!Stored
<1>4. PICK c \in 1..M!Current(m) : c = mheld[u].current
  BY <1>1, <1>2, <1>3 DEF MemoryStepIsSound
<1>5. c \in 0..M!Current(m)
  BY MemoryRow, ReviewsAssumption DEF M!MemoryAssumption
<1>6. ASSUME M!Vacant(m, c + 1),
             items' = [items EXCEPT ![m] = [revision |-> c + 1, status |-> "tombstoned"]],
             contents' = [contents EXCEPT ![m][c + 1] = M!Deleted]
      PROVE  MemoryInv'
  <2>1. c = M!Current(m) /\ c + 1 \in 1..MaxMemoryRevision
    BY <1>5, <1>6, NextRevision
  <2>2. /\ items' \in M!ItemTable /\ contents' \in M!RevisionTable
        /\ Extends(m, "tombstoned", M!Deleted)
        /\ \A o \in Memory \ {m} : MemoryGrows(o)
    BY <1>6, <2>1, ExtendedTables
  <2>3. \A o \in Memory : MemoryGrows(o)
    BY <2>2 DEF MemoryGrows
  <2>4. /\ drafts' \in M!DraftTable
        /\ \A e \in Draft : DraftKeeps(e)
        /\ \A e \in Draft : drafts[e] # None \/ drafts'[e] = None
        /\ M!DeletedStaysDeleted'
    BY <1>1 DEF MemoryInv, M!TypeOK, M!DeletedStaysDeleted, DraftKeeps
  <2> QED BY <1>1, <1>2, <2>2, <2>3, <2>4, NothingHeld, MemoryAfter DEF M!Done
<1>7. ASSUME UNCHANGED <<items, contents>> PROVE MemoryInv'
  BY <1>1, <1>2, <1>7, NothingHeld, MemoryRead DEF M!Done
<1> QED
  BY <1>3, <1>4, <1>6, <1>7 DEF M!Delete

LEMMA MemoryStep == ASSUME MemoryInv, [M!Next]_M!memoryVars PROVE MemoryInv'
<1>1. ASSUME NEW u \in MemoryUser, M!Abort(u) PROVE MemoryInv'
  BY <1>1, NothingHeld, IdleIsSound, MemoryRead DEF M!Abort, M!Done
<1>2. ASSUME UNCHANGED M!memoryVars PROVE MemoryInv'
  <2>1. UNCHANGED <<items, contents, drafts, mstep, mheld, ahead, revived>>
    BY <1>2 DEF M!memoryVars
  <2>2. /\ M!TypeOK' /\ M!DeletedStaysDeleted' /\ M!CurrentContent'
        /\ mheld' \in [MemoryUser -> MemoryHeld]
    BY <2>1 DEF MemoryInv, M!TypeOK, M!DeletedStaysDeleted, M!CurrentContent,
                M!Stored, M!Alive, M!Current, M!ItemTable, M!RevisionTable, M!DraftTable
  <2>3. \A m \in Memory : MemoryGrows(m)
    BY <2>1 DEF MemoryGrows
  <2>4. \A d \in Draft : DraftKeeps(d)
    BY <2>1 DEF DraftKeeps
  <2>5. \A d \in Draft : DraftIsBased(d)'
    BY <2>1, <2>3, <2>4, KeptDraft DEF DraftIsBased
  <2> QED BY <2>1, <2>2, <2>3, <2>4, <2>5, GrownMemory, KeptThread DEF MemoryInv
<1> QED
  BY <1>1, <1>2, MemoryDraw, MemoryAskReview, MemoryReadTarget, MemoryConfirm, MemoryReject,
     MemoryAskDelete, MemoryDelete DEF M!Next

(* A deleted memory is confirmed again only by a proposal that, when it was made, named
   a revision the memory did not have yet, and the current revision of a memory says that
   it is deleted, or what was confirmed, whatever the threads do. *)
THEOREM MemorySafety == M!Spec => []MemoriesHold
<1>1. MemoryInv => MemoriesHold
  BY DEF MemoryInv, MemoriesHold, M!MemoriesHold
<1>2. MemoryInv /\ [M!Next]_M!memoryVars => MemoryInv'
  BY MemoryStep
<1> QED
  BY <1>1, <1>2, MemoryStart, PTL DEF M!Spec

-----------------------------------------------------------------------------
(* What one request at a time adds: a step that decides nothing keeps it. *)
LEMMA MemoryUndecided ==
    ASSUME MemoryInv, MemoryAloneInv, M!MemoryAlone, UNCHANGED <<drafts, confirmed>>,
           \A u \in MemoryUser :
              mstep'[u] \in {"target", "confirm", "reject"} =>
                  drafts[mheld'[u].draft].status = "pending"
    PROVE  MemoryAloneInv'
BY DEF MemoryAloneInv, M!MemoryAlone

LEMMA MemoryUndecidedBy ==
    ASSUME MemoryInv, MemoryAloneInv, M!MemoryAlone, UNCHANGED <<drafts, confirmed>>,
           NEW u \in MemoryUser,
           NEW next \in {"idle", "target", "confirm", "reject", "delete"},
           NEW holding \in MemoryHeld, M!Step(u, next, holding),
           next \in {"target", "confirm", "reject"} => drafts[holding.draft].status = "pending"
    PROVE  MemoryAloneInv'
<1>1. /\ mstep'[u] = next /\ mheld'[u] = holding
      /\ \A w \in MemoryUser \ {u} : mstep'[w] = mstep[w] /\ mheld'[w] = mheld[w]
  BY SteppedThread
<1>2. ASSUME NEW w \in MemoryUser, mstep'[w] \in {"target", "confirm", "reject"}
      PROVE  drafts[mheld'[w].draft].status = "pending"
  <2>1. CASE w = u
    BY <1>1, <1>2, <2>1
  <2>2. CASE w # u
    BY <1>1, <1>2, <2>2 DEF MemoryAloneInv
  <2> QED BY <2>1, <2>2
<1> QED BY <1>2, MemoryUndecided

(* A decision is taken by the only thread that is not idle. *)
LEMMA MemoryDecided ==
    ASSUME MemoryInv, MemoryAloneInv, NEW u \in MemoryUser, mstep[u] # "idle", M!Done(u),
           NEW d \in Draft, drafts[d] # None, drafts[d].status = "pending",
           NEW status \in {"approved", "rejected"},
           drafts' = [drafts EXCEPT ![d].status = status], UNCHANGED ahead,
           \/ UNCHANGED confirmed
           \/ confirmed' = [confirmed EXCEPT ![d] = @ + 1]
    PROVE  MemoryAloneInv'
<1>1. /\ mstep'[u] = "idle"
      /\ \A w \in MemoryUser \ {u} : mstep'[w] = mstep[w]
  BY NothingHeld, SteppedThread DEF M!Done
<1>2. \A w \in MemoryUser : mstep'[w] = "idle"
  BY <1>1 DEF MemoryAloneInv
<1>3. confirmed \in [Draft -> {0, 1}] /\ confirmed[d] = 0
  BY DEF MemoryAloneInv
<1>4. /\ drafts'[d] # None /\ drafts'[d].status = status
      /\ \A e \in Draft \ {d} : drafts'[e] = drafts[e]
  BY DecidedDraft
<1>5. confirmed' \in [Draft -> {0, 1}] /\ \A e \in Draft \ {d} : confirmed'[e] = confirmed[e]
  BY <1>3
<1>6. ASSUME NEW e \in Draft, confirmed'[e] = 1
      PROVE  drafts'[e] # None /\ drafts'[e].status # "pending"
  <2>1. CASE e = d
    BY <1>4, <2>1
  <2>2. CASE e # d
    BY <1>4, <1>5, <1>6, <2>2 DEF MemoryAloneInv
  <2> QED BY <2>1, <2>2
<1> QED BY <1>2, <1>5, <1>6 DEF MemoryAloneInv

LEMMA MemoryAloneDraw ==
    ASSUME MemoryInv, MemoryAloneInv, M!MemoryAlone, NEW d \in Draft, M!Draw(d)
    PROVE  MemoryAloneInv'
<1>1. UNCHANGED <<mstep, mheld, confirmed>> /\ drafts[d] = None
  BY DEF M!Draw
<1>2. \A e \in Draft \ {d} : drafts'[e] = drafts[e]
  BY DrawnDraft
<1>3. confirmed[d] # 1
  BY <1>1 DEF MemoryAloneInv
<1>4. ASSUME NEW e \in Draft, confirmed'[e] = 1
      PROVE  drafts'[e] # None /\ drafts'[e].status # "pending"
  BY <1>1, <1>2, <1>3, <1>4 DEF MemoryAloneInv
<1>5. ASSUME NEW w \in MemoryUser, mstep'[w] \in {"target", "confirm", "reject"}
      PROVE  drafts'[mheld'[w].draft].status = "pending"
  <2>1. mheld[w].draft \in Draft \ {d}
    BY <1>1, <1>5 DEF MemoryInv, MemoryStepIsSound
  <2> QED BY <1>1, <1>2, <1>5, <2>1 DEF MemoryAloneInv
<1> QED BY <1>1, <1>4, <1>5 DEF MemoryAloneInv, M!MemoryAlone

LEMMA MemoryAloneStep ==
    ASSUME MemoryInv, MemoryAloneInv, [M!Next /\ M!MemoryAlone]_M!memoryVars
    PROVE  MemoryAloneInv'
<1>1. CASE UNCHANGED M!memoryVars
  BY <1>1 DEF M!memoryVars, MemoryAloneInv
<1>2. ASSUME NEW d \in Draft, M!Draw(d), M!MemoryAlone PROVE MemoryAloneInv'
  BY <1>2, MemoryAloneDraw
<1>3. ASSUME NEW u \in MemoryUser, M!AskReview(u), M!MemoryAlone PROVE MemoryAloneInv'
  <2>1. PICK d \in Draft, decision \in {"approved", "rejected"} :
          /\ drafts[d].status = "pending"
          /\ M!Step(u, "target", [M!Nothing EXCEPT !.draft = d, !.decision = decision])
    BY <1>3 DEF M!AskReview
  <2> DEFINE holding == [M!Nothing EXCEPT !.draft = d, !.decision = decision]
  <2>2. holding \in MemoryHeld /\ holding.draft = d
    BY NothingHeld DEF MemoryHeld, M!Nothing
  <2>3. M!Step(u, "target", holding)
    BY <2>1
  <2> HIDE DEF holding
  <2>4. UNCHANGED <<drafts, confirmed>>
    BY <1>3 DEF M!AskReview
  <2> QED BY <1>3, <2>1, <2>2, <2>3, <2>4, MemoryUndecidedBy
<1>4. ASSUME NEW u \in MemoryUser, M!ReadTarget(u), M!MemoryAlone PROVE MemoryAloneInv'
  <2>1. mstep[u] = "target" /\ UNCHANGED <<drafts, confirmed>>
    BY <1>4 DEF M!ReadTarget
  <2>2. mheld[u] \in MemoryHeld /\ mheld[u].draft \in Draft
        /\ drafts[mheld[u].draft] # None /\ drafts[mheld[u].draft].status = "pending"
    BY <2>1 DEF MemoryInv, MemoryStepIsSound, MemoryAloneInv
  <2>3. CASE M!Step(u, "reject", mheld[u])
    BY <1>4, <2>1, <2>2, <2>3, MemoryUndecidedBy
  <2>4. ASSUME NEW m \in Memory, M!Step(u, "confirm", [mheld[u] EXCEPT !.memory = m])
        PROVE  MemoryAloneInv'
    <3> DEFINE holding == [mheld[u] EXCEPT !.memory = m]
    <3>1. holding \in MemoryHeld /\ holding.draft = mheld[u].draft
      BY <2>2 DEF MemoryHeld
    <3>2. M!Step(u, "confirm", holding)
      BY <2>4
    <3> HIDE DEF holding
    <3> QED BY <1>4, <2>1, <2>2, <3>1, <3>2, MemoryUndecidedBy
  <2>5. ASSUME NEW m \in Memory,
               M!Step(u, "confirm", [mheld[u] EXCEPT !.memory = m, !.current = M!Current(m)])
        PROVE  MemoryAloneInv'
    <3> DEFINE holding == [mheld[u] EXCEPT !.memory = m, !.current = M!Current(m)]
    <3>1. holding \in MemoryHeld /\ holding.draft = mheld[u].draft
      BY <2>2, MemoryRow DEF MemoryHeld
    <3>2. M!Step(u, "confirm", holding)
      BY <2>5
    <3> HIDE DEF holding
    <3> QED BY <1>4, <2>1, <2>2, <3>1, <3>2, MemoryUndecidedBy
  <2>6. CASE M!Done(u)
    BY <1>4, <2>1, <2>6, NothingHeld, MemoryUndecidedBy DEF M!Done
  <2>7. drafts[mheld[u].draft].target \in Memory \cup {None}
    BY <2>2, DraftOfRow
  <2> QED
    BY <1>4, <2>3, <2>4, <2>5, <2>6, <2>7 DEF M!ReadTarget
<1>5. ASSUME NEW u \in MemoryUser, M!Confirm(u), M!MemoryAlone PROVE MemoryAloneInv'
  <2>1. mstep[u] = "confirm" /\ M!Done(u)
    BY <1>5 DEF M!Confirm
  <2>2. PICK d \in Draft : d = mheld[u].draft
    BY <2>1 DEF MemoryInv, MemoryStepIsSound
  <2>3. drafts[d] # None /\ drafts[d].status = "pending"
    BY <2>1, <2>2 DEF MemoryInv, MemoryStepIsSound, MemoryAloneInv
  <2>4. \/ /\ drafts' = [drafts EXCEPT ![d].status = "approved"] /\ UNCHANGED ahead
           /\ confirmed' = [confirmed EXCEPT ![d] = @ + 1]
        \/ UNCHANGED <<drafts, confirmed>>
    BY <1>5, <2>2 DEF M!Confirm
  <2> QED
    BY <1>5, <2>1, <2>3, <2>4, NothingHeld, MemoryDecided, MemoryUndecidedBy DEF M!Done
<1>6. ASSUME NEW u \in MemoryUser, M!Reject(u), M!MemoryAlone PROVE MemoryAloneInv'
  <2>1. mstep[u] = "reject" /\ M!Done(u)
    BY <1>6 DEF M!Reject
  <2>2. PICK d \in Draft : d = mheld[u].draft
    BY <2>1 DEF MemoryInv, MemoryStepIsSound
  <2>3. drafts[d] # None /\ drafts[d].status = "pending"
    BY <2>1, <2>2 DEF MemoryInv, MemoryStepIsSound, MemoryAloneInv
  <2>4. drafts' = [drafts EXCEPT ![d].status = "rejected"] /\ UNCHANGED <<confirmed, ahead>>
    BY <1>6, <2>2 DEF M!Reject
  <2> QED
    BY <2>1, <2>3, <2>4, MemoryDecided
<1>7. ASSUME NEW u \in MemoryUser, M!AskDelete(u), M!MemoryAlone PROVE MemoryAloneInv'
  <2>1. PICK m \in Memory :
          M!Step(u, "delete", [M!Nothing EXCEPT !.memory = m, !.current = M!Current(m)])
    BY <1>7 DEF M!AskDelete
  <2> DEFINE holding == [M!Nothing EXCEPT !.memory = m, !.current = M!Current(m)]
  <2>2. holding \in MemoryHeld
    BY NothingHeld, MemoryRow DEF MemoryHeld, M!Nothing
  <2>3. M!Step(u, "delete", holding)
    BY <2>1
  <2> HIDE DEF holding
  <2>4. UNCHANGED <<drafts, confirmed>>
    BY <1>7 DEF M!AskDelete
  <2> QED BY <1>7, <2>2, <2>3, <2>4, MemoryUndecidedBy
<1>8. ASSUME NEW u \in MemoryUser, M!Delete(u) \/ M!Abort(u), M!MemoryAlone PROVE MemoryAloneInv'
  <2>1. M!Done(u) /\ UNCHANGED <<drafts, confirmed>>
    BY <1>8 DEF M!Delete, M!Abort
  <2> QED BY <1>8, <2>1, NothingHeld, MemoryUndecidedBy DEF M!Done
<1> QED
  BY <1>1, <1>2, <1>3, <1>4, <1>5, <1>6, <1>7, <1>8 DEF M!Next

-----------------------------------------------------------------------------
(* No page, no proposal and no operation at the start. *)
LEMMA KnowledgeStart == K!Init => KnowledgeInv
<1> SUFFICES ASSUME K!Init PROVE KnowledgeInv
  OBVIOUS
<1>1. K!KnowledgeAssumption
  BY ReviewsAssumption
<1>2. K!TypeOK
  BY <1>1 DEF K!Init, K!Idle, K!TypeOK, K!RevisionTable, K!ProposalTable, K!OperationTable,
              K!ParentTable, K!KnowledgeAssumption
<1>3. K!Known = {} /\ \A k \in K!Page : K!Revision(k) = 0
  BY DEF K!Init, K!Known, K!Revision
<1>4. K!ApprovalsKept /\ approvals \subseteq K!Page \X (1..MaxRevision) \X Proposal
  BY DEF K!Init, K!ApprovalsKept
<1>5. DOMAIN entries = K!Page /\ kheld \in [Reviewer -> PageHeld]
  BY <1>1 DEF K!Init, K!Idle, PageHeld, K!KnowledgeAssumption
<1>6. \A k \in K!Page : PageNumbered(k)
  BY <1>3 DEF K!Init, PageNumbered
<1>7. \A o \in Operation : operations[o] = None
  BY DEF K!Init
<1>8. \A r \in Reviewer : PageStepIsSound(r)
  BY DEF K!Init, PageStepIsSound
<1> QED BY <1>2, <1>4, <1>5, <1>6, <1>7, <1>8 DEF KnowledgeInv

LEMMA PageRow ==
    ASSUME KnowledgeInv, NEW k \in K!Page
    PROVE  /\ revisions[k] \in [1..MaxRevision -> K!Source \cup {None}]
           /\ k \notin K!Known => K!Revision(k) = 0
           /\ k \in K!Known => /\ entries[k] \in K!Entry
                              /\ K!Revision(k) = entries[k].revision
                              /\ K!Revision(k) \in 1..MaxRevision
           /\ K!Revision(k) \in 0..MaxRevision
           /\ K!Revision(k) \in Nat
<1>1. entries[k] \in K!Entry \cup {None}
      /\ revisions[k] \in [1..MaxRevision -> K!Source \cup {None}]
  BY DEF KnowledgeInv, K!TypeOK, K!RevisionTable
<1>2. \A row \in K!Entry : row.revision \in 1..MaxRevision
  BY DEF K!Entry
<1>3. MaxRevision \in Nat
  BY ReviewsAssumption DEF K!KnowledgeAssumption
<1> QED BY <1>1, <1>2, <1>3 DEF K!Known, K!Revision

(* The numbers of a page's stored revisions are those up to its current one. *)
LEMMA NumberedIsLatest == ASSUME KnowledgeInv PROVE K!CurrentIsLatest
<1>1. ASSUME NEW k \in K!Page
      PROVE  {n \in 1..MaxRevision : revisions[k][n] # None} = 1..K!Revision(k)
  <2>1. K!Revision(k) \in 0..MaxRevision /\ MaxRevision \in Nat
    BY PageRow, ReviewsAssumption DEF K!KnowledgeAssumption
  <2>2. \A n \in 1..MaxRevision : revisions[k][n] = None <=> n > K!Revision(k)
    BY DEF KnowledgeInv, PageNumbered
  <2> QED BY <2>1, <2>2
<1> QED BY <1>1 DEF K!CurrentIsLatest

(* What a step does to a page: nothing, a new status, or its next revision. *)
PageGrows(k) ==
    \/ entries'[k] = entries[k] /\ revisions'[k] = revisions[k]
    \/ /\ k \in K!Known
       /\ \E status \in {"proposed", "approved", "archived"} :
            entries'[k] = [entries[k] EXCEPT !.status = status]
       /\ revisions'[k] = revisions[k]
    \/ LET n == K!Revision(k) + 1 IN
       /\ n \in 1..MaxRevision
       /\ \E status \in {"proposed", "approved", "archived"} :
            entries'[k] = [revision |-> n, status |-> status]
       /\ \E source \in K!Source : revisions'[k] = [revisions[k] EXCEPT ![n] = source]

(* Whatever it does, the page's revisions keep their numbers. *)
LEMMA GrownPage ==
    ASSUME KnowledgeInv, NEW k \in K!Page, PageGrows(k)
    PROVE  /\ entries'[k] \in K!Entry \cup {None}
           /\ revisions'[k] \in [1..MaxRevision -> K!Source \cup {None}]
           /\ k \in K!Known => k \in K!Known'
           /\ K!Revision(k)' \in Nat /\ K!Revision(k) <= K!Revision(k)'
           /\ PageNumbered(k)'
           /\ \A n \in 1..MaxRevision :
                revisions[k][n] # None => revisions'[k][n] = revisions[k][n]
<1>1. None \notin K!Entry /\ None \notin K!Source /\ MaxRevision \in Nat
  BY ReviewsAssumption DEF K!KnowledgeAssumption
<1>2. /\ K!Revision(k) \in 0..MaxRevision
      /\ revisions[k] \in [1..MaxRevision -> K!Source \cup {None}]
      /\ PageNumbered(k) /\ entries[k] \in K!Entry \cup {None}
  BY PageRow DEF KnowledgeInv, K!TypeOK
<1>3. CASE entries'[k] = entries[k] /\ revisions'[k] = revisions[k]
  <2>1. K!Revision(k)' = K!Revision(k) /\ (k \in K!Known => k \in K!Known')
    BY <1>3 DEF K!Known, K!Revision
  <2> QED BY <1>1, <1>2, <1>3, <2>1 DEF PageNumbered
<1>4. ASSUME k \in K!Known, NEW status \in {"proposed", "approved", "archived"},
             entries'[k] = [entries[k] EXCEPT !.status = status], revisions'[k] = revisions[k]
      PROVE  /\ entries'[k] \in K!Entry
             /\ k \in K!Known'
             /\ K!Revision(k)' = K!Revision(k)
  <2>1. entries[k] \in K!Entry /\ K!Revision(k) = entries[k].revision
    BY <1>4, PageRow
  <2>2. entries'[k] \in K!Entry /\ entries'[k].revision = entries[k].revision
    BY <1>4, <2>1 DEF K!Entry
  <2> QED BY <1>1, <2>1, <2>2 DEF K!Known, K!Revision
<1>5. CASE /\ k \in K!Known
           /\ \E status \in {"proposed", "approved", "archived"} :
                entries'[k] = [entries[k] EXCEPT !.status = status]
           /\ revisions'[k] = revisions[k]
  <2>1. entries'[k] \in K!Entry /\ k \in K!Known' /\ K!Revision(k)' = K!Revision(k)
    BY <1>4, <1>5
  <2> QED BY <1>1, <1>2, <1>5, <2>1 DEF PageNumbered
<1>6. CASE LET n == K!Revision(k) + 1 IN
           /\ n \in 1..MaxRevision
           /\ \E status \in {"proposed", "approved", "archived"} :
                entries'[k] = [revision |-> n, status |-> status]
           /\ \E source \in K!Source : revisions'[k] = [revisions[k] EXCEPT ![n] = source]
  <2>1. PICK n \in 1..MaxRevision : n = K!Revision(k) + 1
    BY <1>6
  <2>2. PICK status \in {"proposed", "approved", "archived"}, source \in K!Source :
          /\ entries'[k] = [revision |-> n, status |-> status]
          /\ revisions'[k] = [revisions[k] EXCEPT ![n] = source]
    BY <1>6, <2>1
  <2>3. entries'[k] \in K!Entry /\ entries'[k].revision = n
    BY <2>2 DEF K!Entry
  <2>4. k \in K!Known' /\ K!Revision(k)' = n
    BY <1>1, <2>3 DEF K!Known, K!Revision
  <2>5. /\ revisions'[k] \in [1..MaxRevision -> K!Source \cup {None}]
        /\ revisions'[k][n] = source
        /\ \A i \in 1..MaxRevision : i # n => revisions'[k][i] = revisions[k][i]
    BY <1>2, <2>2
  <2>6. \A i \in 1..MaxRevision : revisions[k][i] = None <=> i > K!Revision(k)
    BY <1>2 DEF PageNumbered
  <2>7. \A i \in 1..MaxRevision : revisions'[k][i] = None <=> i > n
    BY <1>1, <1>2, <2>1, <2>5, <2>6
  <2>8. revisions[k][n] = None /\ n \in Nat /\ K!Revision(k) <= n
    BY <1>1, <1>2, <2>1, <2>6
  <2> QED BY <2>3, <2>4, <2>5, <2>7, <2>8 DEF PageNumbered
<1> QED BY <1>3, <1>5, <1>6 DEF PageGrows

(* The revision that an approval, a rename or a rollback adds is the next one. *)
LEMMA NextPageRevision ==
    ASSUME KnowledgeInv, NEW k \in K!Page, NEW c \in 0..K!Revision(k), K!Vacant(k, c + 1)
    PROVE  c = K!Revision(k) /\ c + 1 \in 1..MaxRevision
<1>1. K!Revision(k) \in Nat /\ MaxRevision \in Nat
  BY PageRow, ReviewsAssumption DEF K!KnowledgeAssumption
<1>2. c + 1 \in 1..MaxRevision /\ revisions[k][c + 1] = None
  BY <1>1 DEF K!Vacant
<1>3. c + 1 > K!Revision(k)
  BY <1>2 DEF KnowledgeInv, PageNumbered
<1> QED BY <1>1, <1>2, <1>3

LEMMA ExtendedPage ==
    ASSUME KnowledgeInv, NEW k \in K!Page, NEW n, n = K!Revision(k) + 1, n \in 1..MaxRevision,
           NEW status \in {"proposed", "approved", "archived"}, NEW source \in K!Source,
           entries' = [entries EXCEPT ![k] = [revision |-> n, status |-> status]],
           revisions' = [revisions EXCEPT ![k][n] = source]
    PROVE  /\ DOMAIN entries' = K!Page /\ revisions' \in K!RevisionTable
           /\ revisions'[k][n] = source
           /\ \A j \in K!Page : PageGrows(j)
<1>1. DOMAIN entries = K!Page
      /\ revisions \in [K!Page -> [1..MaxRevision -> K!Source \cup {None}]]
  BY DEF KnowledgeInv, K!TypeOK, K!RevisionTable
<1>2. /\ entries'[k] = [revision |-> n, status |-> status]
      /\ revisions'[k] = [revisions[k] EXCEPT ![n] = source]
      /\ \A j \in K!Page \ {k} : entries'[j] = entries[j] /\ revisions'[j] = revisions[j]
  BY <1>1
<1>3. PageGrows(k)
  BY <1>2 DEF PageGrows
<1>4. \A j \in K!Page \ {k} : PageGrows(j)
  BY <1>2 DEF PageGrows
<1>5. revisions' \in K!RevisionTable
  BY <1>1 DEF K!RevisionTable
<1> QED BY <1>1, <1>2, <1>3, <1>4, <1>5

-----------------------------------------------------------------------------
Steps == {"idle", "target", "write", "rollback"}

(* A row that is stored stays stored. *)
ItemsKept == \A item \in Proposal \cup Operation : K!Row(item) # None => K!Row(item)' # None

OperationsTargeted == \A o \in Operation : operations[o] # None => operations[o].target \in K!Known

LEMMA RowOfItem ==
    /\ \A p \in Proposal : K!Row(p) = proposals[p] /\ K!Row(p)' = proposals'[p]
    /\ \A o \in Operation : K!Row(o) = operations[o] /\ K!Row(o)' = operations'[o]
BY ReviewsAssumption DEF K!Row, K!KnowledgeAssumption

(* A step that writes neither table. *)
LEMMA ItemsUnchanged ==
    ASSUME KnowledgeInv, \A k \in K!Page : PageGrows(k), UNCHANGED <<proposals, operations>>
    PROVE  /\ ItemsKept /\ OperationsTargeted'
           /\ proposals' \in K!ProposalTable /\ operations' \in K!OperationTable
<1>1. ItemsKept
  BY RowOfItem DEF ItemsKept
<1>2. \A o \in Operation : operations[o] # None => operations[o].target \in K!Known
  BY DEF KnowledgeInv
<1>3. \A k \in K!Known : k \in K!Known'
  BY GrownPage DEF K!Known
<1>4. OperationsTargeted'
  BY <1>2, <1>3 DEF OperationsTargeted
<1> QED BY <1>1, <1>4 DEF KnowledgeInv, K!TypeOK, K!ProposalTable, K!OperationTable

LEMMA DecidedProposal ==
    ASSUME KnowledgeInv, \A k \in K!Page : PageGrows(k), UNCHANGED operations,
           NEW p \in Proposal, proposals[p] # None, NEW status \in {"approved", "rejected"},
           proposals' = [proposals EXCEPT ![p].status = status]
    PROVE  /\ ItemsKept /\ OperationsTargeted'
           /\ proposals' \in K!ProposalTable /\ operations' \in K!OperationTable
           /\ proposals'[p] # None /\ proposals'[p].status = status
           /\ \A q \in Proposal \ {p} : proposals'[q] = proposals[q]
<1>1. proposals \in [Proposal -> {None} \cup K!ProposalRow]
      /\ operations \in K!OperationTable /\ None \notin K!ProposalRow
  BY ReviewsAssumption DEF KnowledgeInv, K!TypeOK, K!ProposalTable, K!KnowledgeAssumption
<1>2. proposals'[p] = [proposals[p] EXCEPT !.status = status] /\ proposals[p] \in K!ProposalRow
      /\ \A q \in Proposal \ {p} : proposals'[q] = proposals[q]
  BY <1>1
<1>3. proposals'[p] \in K!ProposalRow /\ proposals'[p].status = status
  BY <1>2 DEF K!ProposalRow
<1>4. proposals' \in K!ProposalTable
  BY <1>1, <1>2, <1>3 DEF K!ProposalTable
<1>5. ItemsKept
  BY <1>1, <1>2, <1>3, RowOfItem DEF ItemsKept
<1>6. \A k \in K!Known : k \in K!Known'
  BY GrownPage DEF K!Known
<1>7. OperationsTargeted'
  BY <1>6 DEF KnowledgeInv, OperationsTargeted
<1> QED BY <1>1, <1>2, <1>3, <1>4, <1>5, <1>7

LEMMA ClosedOperation ==
    ASSUME KnowledgeInv, \A k \in K!Page : PageGrows(k), UNCHANGED proposals,
           NEW o \in Operation, operations[o] # None, NEW status \in {"approved", "rejected"},
           K!Close(o, status)
    PROVE  /\ ItemsKept /\ OperationsTargeted'
           /\ proposals' \in K!ProposalTable /\ operations' \in K!OperationTable
<1>1. operations \in [Operation -> {None} \cup K!OperationRow]
      /\ proposals' \in K!ProposalTable /\ None \notin K!OperationRow
  BY ReviewsAssumption DEF KnowledgeInv, K!TypeOK, K!OperationTable, K!KnowledgeAssumption
<1>2. operations'[o] = [operations[o] EXCEPT !.status = status] /\ operations[o] \in K!OperationRow
      /\ \A q \in Operation \ {o} : operations'[q] = operations[q]
  BY <1>1 DEF K!Close
<1>3. operations'[o] \in K!OperationRow /\ operations'[o].target = operations[o].target
  BY <1>2 DEF K!OperationRow
<1>4. operations' \in K!OperationTable
  BY <1>1, <1>2, <1>3 DEF K!OperationTable, K!Close
<1>5. ItemsKept
  BY <1>1, <1>2, <1>3, RowOfItem DEF ItemsKept
<1>6. \A k \in K!Known : k \in K!Known'
  BY GrownPage DEF K!Known
<1>7. \A q \in Operation : operations'[q] # None => operations'[q].target \in K!Known
  BY <1>2, <1>3 DEF KnowledgeInv
<1>8. OperationsTargeted'
  BY <1>6, <1>7 DEF OperationsTargeted
<1> QED BY <1>1, <1>4, <1>5, <1>8

(* What a reviewer holds stays sound whatever the others do. *)
LEMMA KeptReviewer ==
    ASSUME KnowledgeInv, \A k \in K!Page : PageGrows(k), ItemsKept,
           NEW r \in Reviewer, kstep'[r] = kstep[r], kheld'[r] = kheld[r]
    PROVE  PageStepIsSound(r)'
<1>1. PageStepIsSound(r) /\ kheld[r] \in PageHeld
  BY DEF KnowledgeInv
<1>2. kheld[r].current \in Nat
  BY <1>1, ReviewsAssumption DEF PageHeld, K!KnowledgeAssumption
<1>3. \A k \in K!Page : /\ k \in K!Known => k \in K!Known'
                        /\ K!Revision(k) \in Nat /\ K!Revision(k)' \in Nat
                        /\ K!Revision(k) <= K!Revision(k)'
  BY GrownPage, PageRow
<1>4. ASSUME kstep[r] \in {"target", "write"}
      PROVE  /\ kheld[r].item \in Proposal \cup Operation
             /\ kheld[r].page \in K!Page
             /\ kheld[r].item \in Operation => kheld[r].page \in K!Known'
             /\ K!Row(kheld[r].item)' # None
             /\ kstep[r] = "write" => kheld[r].current <= K!Revision(kheld[r].page)'
  <2>1. PICK item \in Proposal \cup Operation, k \in K!Page :
          /\ item = kheld[r].item /\ k = kheld[r].page
          /\ item = kheld'[r].item /\ k = kheld'[r].page
    BY <1>1, <1>4 DEF PageStepIsSound
  <2>2. /\ item \in Operation => k \in K!Known
        /\ K!Row(item) # None
        /\ kstep[r] = "write" => kheld[r].current <= K!Revision(k)
    BY <1>1, <1>4, <2>1 DEF PageStepIsSound
  <2>3. K!Row(item)' # None
    BY <2>2 DEF ItemsKept
  <2>4. kstep[r] = "write" => kheld[r].current <= K!Revision(k)'
    BY <1>2, <1>3, <2>2
  <2> QED BY <1>3, <2>1, <2>2, <2>3, <2>4
<1>5. ASSUME kstep[r] = "rollback"
      PROVE  /\ kheld[r].page \in K!Known'
             /\ kheld[r].current \in 1..K!Revision(kheld[r].page)'
  <2>1. PICK k \in K!Known : k = kheld[r].page /\ k = kheld'[r].page
    BY <1>1, <1>5 DEF PageStepIsSound
  <2>2. k \in K!Page
    BY DEF K!Known
  <2>3. kheld[r].current \in 1..K!Revision(k)
    BY <1>1, <1>5, <2>1 DEF PageStepIsSound
  <2>4. kheld[r].current \in 1..K!Revision(k)'
    BY <1>3, <2>2, <2>3
  <2> QED BY <1>3, <2>1, <2>2, <2>4
<1> QED BY <1>4, <1>5 DEF PageStepIsSound

LEMMA KnowledgeAfter ==
    ASSUME KnowledgeInv, \A k \in K!Page : PageGrows(k), ItemsKept, OperationsTargeted',
           DOMAIN entries' = K!Page, revisions' \in K!RevisionTable,
           proposals' \in K!ProposalTable, operations' \in K!OperationTable,
           parent' \in K!ParentTable,
           \/ UNCHANGED approvals
           \/ \E k \in K!Page, n \in 1..MaxRevision, p \in Proposal :
                approvals' = approvals \cup {<<k, n, p>>} /\ revisions'[k][n] = p,
           kstep' \in [Reviewer -> Steps], kheld' \in [Reviewer -> PageHeld],
           \A r \in Reviewer : PageStepIsSound(r)'
    PROVE  KnowledgeInv'
<1>1. \A k \in K!Page : entries'[k] \in K!Entry \cup {None}
  BY GrownPage
<1>2. K!TypeOK'
  BY <1>1 DEF K!TypeOK, K!RevisionTable, K!ProposalTable, K!OperationTable, K!ParentTable,
                    Steps, PageHeld, K!Entry, K!ProposalRow, K!OperationRow, K!Page, K!Source
<1>3. ASSUME NEW a \in approvals
      PROVE  revisions'[a[1]][a[2]] = a[3]
  <2>1. a[1] \in K!Page /\ a[2] \in 1..MaxRevision /\ a[3] \in Proposal
        /\ revisions[a[1]][a[2]] = a[3]
    BY DEF KnowledgeInv, K!ApprovalsKept
  <2>2. a[3] # None
    BY <2>1, ReviewsAssumption DEF K!KnowledgeAssumption, K!Source
  <2> QED BY <2>1, <2>2, GrownPage
<1>4. K!ApprovalsKept' /\ approvals' \subseteq K!Page \X (1..MaxRevision) \X Proposal
  <2>1. CASE UNCHANGED approvals
    BY <1>3, <2>1 DEF K!ApprovalsKept, KnowledgeInv
  <2>2. ASSUME NEW k \in K!Page, NEW n \in 1..MaxRevision, NEW p \in Proposal,
               approvals' = approvals \cup {<<k, n, p>>}, revisions'[k][n] = p
        PROVE  K!ApprovalsKept' /\ approvals' \subseteq K!Page \X (1..MaxRevision) \X Proposal
    BY <1>3, <2>2 DEF K!ApprovalsKept, KnowledgeInv
  <2> QED BY <2>1, <2>2
<1>5. \A k \in K!Page : PageNumbered(k)'
  BY GrownPage
<1> QED BY <1>2, <1>4, <1>5 DEF KnowledgeInv, OperationsTargeted, K!Page

(* A reviewer's next step and what it holds. *)
LEMMA SteppedReviewer ==
    ASSUME KnowledgeInv, NEW r \in Reviewer, NEW next \in Steps, NEW holding \in PageHeld,
           K!Step(r, next, holding)
    PROVE  /\ kstep' \in [Reviewer -> Steps] /\ kheld' \in [Reviewer -> PageHeld]
           /\ kstep'[r] = next /\ kheld'[r] = holding
           /\ \A s \in Reviewer \ {r} : kstep'[s] = kstep[s] /\ kheld'[s] = kheld[s]
BY DEF KnowledgeInv, K!TypeOK, K!Step, Steps

LEMMA IdleHeld == K!Idle \in PageHeld
BY ReviewsAssumption DEF K!Idle, PageHeld, K!KnowledgeAssumption

(* After its last step a reviewer holds nothing. *)
LEMMA DoneReviewer ==
    ASSUME KnowledgeInv, \A k \in K!Page : PageGrows(k), ItemsKept, NEW r \in Reviewer, K!Done(r)
    PROVE  /\ kstep' \in [Reviewer -> Steps] /\ kheld' \in [Reviewer -> PageHeld]
           /\ \A s \in Reviewer : PageStepIsSound(s)'
<1>1. /\ kstep' \in [Reviewer -> Steps] /\ kheld' \in [Reviewer -> PageHeld]
      /\ kstep'[r] = "idle"
      /\ \A s \in Reviewer \ {r} : kstep'[s] = kstep[s] /\ kheld'[s] = kheld[s]
  BY IdleHeld, SteppedReviewer DEF K!Done, Steps
<1>2. PageStepIsSound(r)'
  BY <1>1 DEF PageStepIsSound
<1> QED BY <1>1, <1>2, KeptReviewer

(* A step that reads, and writes nothing but what its reviewer holds. *)
LEMMA KnowledgeRead ==
    ASSUME KnowledgeInv, UNCHANGED <<entries, revisions, proposals, operations, parent, approvals>>,
           NEW r \in Reviewer, NEW next \in Steps, NEW holding \in PageHeld,
           K!Step(r, next, holding), PageStepIsSound(r)'
    PROVE  KnowledgeInv'
<1>1. \A k \in K!Page : PageGrows(k)
  BY DEF PageGrows
<1>2. /\ ItemsKept /\ OperationsTargeted'
      /\ proposals' \in K!ProposalTable /\ operations' \in K!OperationTable
  BY <1>1, ItemsUnchanged
<1>3. DOMAIN entries' = K!Page /\ revisions' \in K!RevisionTable /\ parent' \in K!ParentTable
  BY DEF KnowledgeInv, K!TypeOK, K!RevisionTable
<1>4. /\ kstep' \in [Reviewer -> Steps] /\ kheld' \in [Reviewer -> PageHeld]
      /\ \A s \in Reviewer \ {r} : kstep'[s] = kstep[s] /\ kheld'[s] = kheld[s]
  BY SteppedReviewer
<1>5. \A s \in Reviewer : PageStepIsSound(s)'
  BY <1>1, <1>2, <1>4, KeptReviewer
<1> QED BY <1>1, <1>2, <1>3, <1>4, <1>5, KnowledgeAfter

(* A step of no reviewer. *)
LEMMA KnowledgeFiled ==
    ASSUME KnowledgeInv, \A k \in K!Page : PageGrows(k), ItemsKept, OperationsTargeted',
           DOMAIN entries' = K!Page, revisions' \in K!RevisionTable,
           proposals' \in K!ProposalTable, operations' \in K!OperationTable,
           UNCHANGED <<parent, kstep, kheld, approvals>>
    PROVE  KnowledgeInv'
<1>1. kstep' \in [Reviewer -> Steps] /\ kheld' \in [Reviewer -> PageHeld]
      /\ parent' \in K!ParentTable
  BY DEF KnowledgeInv, K!TypeOK, Steps
<1>2. \A s \in Reviewer : PageStepIsSound(s)'
  BY KeptReviewer
<1> QED BY <1>1, <1>2, KnowledgeAfter

LEMMA KnowledgeImport == ASSUME KnowledgeInv, NEW d \in Document, K!Import(d) PROVE KnowledgeInv'
<1>1. /\ d \notin K!Known
      /\ entries' = [entries EXCEPT ![d] = [revision |-> 1, status |-> "proposed"]]
      /\ revisions' = [revisions EXCEPT ![d][1] = "import"]
      /\ UNCHANGED <<proposals, operations, parent, kstep, kheld, approvals>>
  BY DEF K!Import, K!Items
<1>2. d \in K!Page /\ "import" \in K!Source
  BY DEF K!Page, K!Source
<1>3. 1 \in 1..MaxRevision /\ 1 = K!Revision(d) + 1
  BY <1>1, <1>2, PageRow, ReviewsAssumption DEF K!KnowledgeAssumption
<1>4. /\ DOMAIN entries' = K!Page /\ revisions' \in K!RevisionTable
      /\ \A k \in K!Page : PageGrows(k)
  BY <1>1, <1>2, <1>3, ExtendedPage
<1> QED BY <1>1, <1>4, ItemsUnchanged, KnowledgeFiled

LEMMA KnowledgePropose == ASSUME KnowledgeInv, NEW p \in Proposal, K!Propose(p) PROVE KnowledgeInv'
<1>1. /\ proposals[p] = None
      /\ UNCHANGED <<entries, revisions, operations, parent, kstep, kheld, approvals>>
  BY DEF K!Propose
<1>2. PICK k \in K!Known \cup {p} :
        proposals' = [proposals EXCEPT ![p] = [target |-> k, status |-> "pending"]]
  BY DEF K!Propose
<1>3. k \in K!Page
  BY DEF K!Known, K!Page
<1>4. [target |-> k, status |-> "pending"] \in K!ProposalRow
  BY <1>3 DEF K!ProposalRow
<1>5. proposals \in [Proposal -> {None} \cup K!ProposalRow]
  BY DEF KnowledgeInv, K!TypeOK, K!ProposalTable
<1>6. proposals' \in K!ProposalTable /\ \A q \in Proposal \ {p} : proposals'[q] = proposals[q]
  BY <1>2, <1>4, <1>5 DEF K!ProposalTable
<1>7. ItemsKept
  BY <1>1, <1>6, RowOfItem DEF ItemsKept
<1>8. /\ \A j \in K!Page : PageGrows(j)
      /\ K!Known' = K!Known
  BY <1>1 DEF PageGrows, K!Known
<1>9. /\ OperationsTargeted' /\ operations' \in K!OperationTable
      /\ DOMAIN entries' = K!Page /\ revisions' \in K!RevisionTable
  BY <1>1, <1>8 DEF KnowledgeInv, OperationsTargeted, K!TypeOK, K!OperationTable, K!RevisionTable
<1> QED BY <1>1, <1>6, <1>7, <1>8, <1>9, KnowledgeFiled

LEMMA KnowledgeProposeOperation ==
    ASSUME KnowledgeInv, NEW o \in Operation, K!ProposeOperation(o)
    PROVE  KnowledgeInv'
<1>1. /\ operations[o] = None
      /\ UNCHANGED <<entries, revisions, proposals, parent, kstep, kheld, approvals>>
  BY DEF K!ProposeOperation
<1>2. PICK k \in K!Known, kind \in {"move", "rename", "archive"}, above \in K!Known :
        operations' = [operations EXCEPT ![o] =
            [target |-> k, kind |-> kind, status |-> "pending",
             parent |-> IF kind = "move" THEN above ELSE None]]
  BY DEF K!ProposeOperation
<1> DEFINE row == [target |-> k, kind |-> kind, status |-> "pending",
                   parent |-> IF kind = "move" THEN above ELSE None]
<1>3. k \in K!Page /\ above \in K!Page
  BY DEF K!Known
<1>4. row \in K!OperationRow /\ row.target = k
  BY <1>3 DEF K!OperationRow
<1>5. operations' = [operations EXCEPT ![o] = row]
  BY <1>2
<1> HIDE DEF row
<1>6. operations \in [Operation -> {None} \cup K!OperationRow]
  BY DEF KnowledgeInv, K!TypeOK, K!OperationTable
<1>7. /\ operations' \in K!OperationTable /\ operations'[o] = row
      /\ \A q \in Operation \ {o} : operations'[q] = operations[q]
  BY <1>4, <1>5, <1>6 DEF K!OperationTable
<1>8. ItemsKept
  BY <1>1, <1>7, RowOfItem DEF ItemsKept
<1>9. /\ \A j \in K!Page : PageGrows(j)
      /\ K!Known' = K!Known
  BY <1>1 DEF PageGrows, K!Known
<1>10. \A q \in Operation : operations'[q] # None => operations'[q].target \in K!Known
  BY <1>4, <1>7 DEF KnowledgeInv
<1>11. /\ OperationsTargeted' /\ proposals' \in K!ProposalTable
       /\ DOMAIN entries' = K!Page /\ revisions' \in K!RevisionTable
  BY <1>1, <1>9, <1>10
     DEF KnowledgeInv, OperationsTargeted, K!TypeOK, K!ProposalTable, K!RevisionTable
<1> QED BY <1>1, <1>7, <1>8, <1>9, <1>11, KnowledgeFiled

LEMMA KnowledgeAskReview ==
    ASSUME KnowledgeInv, NEW r \in Reviewer, K!AskReview(r)
    PROVE  KnowledgeInv'
<1>1. UNCHANGED <<entries, revisions, proposals, operations, parent, approvals>>
  BY DEF K!AskReview, K!Items
<1>2. PICK item \in Proposal \cup Operation, decision \in {"approved", "rejected"} :
        /\ K!Reviewable(item)
        /\ K!Step(r, "target", [item |-> item, decision |-> decision,
                                page |-> K!Row(item).target, current |-> 0])
  BY DEF K!AskReview
<1>3. K!Row(item) # None
  BY <1>2 DEF K!Reviewable
<1>4. K!Row(item).target \in K!Page /\ (item \in Operation => K!Row(item).target \in K!Known)
  <2>1. CASE item \in Proposal
    <3>1. K!Row(item) \in K!ProposalRow
      BY <1>3, <2>1, RowOfItem DEF KnowledgeInv, K!TypeOK, K!ProposalTable
    <3> QED
      BY <2>1, <3>1, ReviewsAssumption DEF K!ProposalRow, K!KnowledgeAssumption
  <2>2. CASE item \in Operation
    BY <1>3, <2>2, RowOfItem DEF KnowledgeInv, K!Known
  <2> QED BY <2>1, <2>2
<1> DEFINE holding == [item |-> item, decision |-> decision,
                       page |-> K!Row(item).target, current |-> 0]
<1>5. holding \in PageHeld /\ holding.item = item /\ holding.page = K!Row(item).target
  BY <1>4, ReviewsAssumption DEF PageHeld, K!KnowledgeAssumption
<1>6. K!Step(r, "target", holding)
  BY <1>2
<1> HIDE DEF holding
<1>7. kstep'[r] = "target" /\ kheld'[r] = holding
  BY <1>5, <1>6, SteppedReviewer DEF Steps
<1>8. K!Row(item)' = K!Row(item) /\ K!Known' = K!Known
  BY <1>1 DEF K!Row, K!Known
<1>9. PageStepIsSound(r)'
  BY <1>3, <1>4, <1>5, <1>7, <1>8 DEF PageStepIsSound
<1> QED BY <1>1, <1>5, <1>6, <1>9, KnowledgeRead DEF Steps

LEMMA KnowledgeReadTarget ==
    ASSUME KnowledgeInv, NEW r \in Reviewer, K!ReadTarget(r)
    PROVE  KnowledgeInv'
<1>1. /\ UNCHANGED <<entries, revisions, proposals, operations, parent, approvals>>
      /\ kstep[r] = "target"
      /\ K!Step(r, "write", [kheld[r] EXCEPT !.current = K!Revision(kheld[r].page)])
  BY DEF K!ReadTarget, K!Items
<1>2. PICK item \in Proposal \cup Operation, k \in K!Page :
        /\ item = kheld[r].item /\ k = kheld[r].page
        /\ item \in Operation => k \in K!Known
        /\ K!Row(item) # None
  BY <1>1 DEF KnowledgeInv, PageStepIsSound
<1> DEFINE holding == [kheld[r] EXCEPT !.current = K!Revision(k)]
<1>3. kheld[r] \in PageHeld /\ K!Revision(k) \in 0..MaxRevision /\ K!Revision(k) \in Nat
  BY PageRow DEF KnowledgeInv
<1>4. holding \in PageHeld /\ holding.item = item /\ holding.page = k
      /\ holding.current = K!Revision(k)
  BY <1>2, <1>3 DEF PageHeld
<1>5. K!Step(r, "write", holding)
  BY <1>1, <1>2
<1> HIDE DEF holding
<1>6. kstep'[r] = "write" /\ kheld'[r] = holding
  BY <1>4, <1>5, SteppedReviewer DEF Steps
<1>7. K!Row(item)' = K!Row(item) /\ K!Known' = K!Known /\ K!Revision(k)' = K!Revision(k)
  BY <1>1 DEF K!Row, K!Known, K!Revision
<1>8. PageStepIsSound(r)'
  BY <1>2, <1>3, <1>4, <1>6, <1>7 DEF PageStepIsSound
<1> QED BY <1>1, <1>4, <1>5, <1>8, KnowledgeRead DEF Steps

-----------------------------------------------------------------------------
(* A reviewer that writes holds an item that is stored, and a revision its page had. *)
LEMMA WriterHolds ==
    ASSUME KnowledgeInv, NEW r \in Reviewer, kstep[r] = "write"
    PROVE  /\ kheld[r].page \in K!Page
           /\ kheld[r].current \in 0..K!Revision(kheld[r].page)
           /\ kheld[r].item \in Proposal => proposals[kheld[r].item] # None
           /\ kheld[r].item \in Operation =>
                operations[kheld[r].item] # None /\ kheld[r].page \in K!Known
<1>1. PageStepIsSound(r) /\ kheld[r] \in PageHeld
  BY DEF KnowledgeInv
<1>2. PICK k \in K!Page : k = kheld[r].page /\ kheld[r].current <= K!Revision(k)
  BY <1>1 DEF PageStepIsSound
<1>3. kheld[r].current \in 0..MaxRevision /\ K!Revision(k) \in Nat
  BY <1>1, PageRow DEF PageHeld
<1>4. kheld[r].current \in 0..K!Revision(k)
  BY <1>2, <1>3, ReviewsAssumption DEF K!KnowledgeAssumption
<1>5. K!Row(kheld[r].item) # None
      /\ (kheld[r].item \in Operation => kheld[r].page \in K!Known)
  BY <1>1 DEF PageStepIsSound
<1> QED BY <1>2, <1>4, <1>5, RowOfItem

LEMMA KnowledgeApprove ==
    ASSUME KnowledgeInv, NEW r \in Reviewer, K!ApproveProposal(r)
    PROVE  KnowledgeInv'
<1>1. /\ kstep[r] = "write" /\ kheld[r].item \in Proposal /\ K!Done(r)
      /\ UNCHANGED <<operations, parent>>
  BY DEF K!ApproveProposal
<1>2. PICK p \in Proposal, k \in K!Page, c \in 0..K!Revision(kheld[r].page) :
        p = kheld[r].item /\ k = kheld[r].page /\ c = kheld[r].current
  BY <1>1, WriterHolds
<1>3. c \in 0..K!Revision(k) /\ proposals[p] # None
  BY <1>1, <1>2, WriterHolds
<1>4. CASE /\ K!Vacant(k, c + 1)
           /\ entries' = [entries EXCEPT ![k] = [revision |-> c + 1, status |-> "approved"]]
           /\ K!Insert(k, c + 1, p)
           /\ proposals' = [proposals EXCEPT ![p].status = "approved"]
           /\ approvals' = approvals \cup {<<k, c + 1, p>>}
  <2>1. c + 1 = K!Revision(k) + 1 /\ c + 1 \in 1..MaxRevision
    BY <1>3, <1>4, NextPageRevision
  <2>2. p \in K!Source /\ revisions' = [revisions EXCEPT ![k][c + 1] = p]
    BY <1>4 DEF K!Source, K!Insert
  <2>3. /\ DOMAIN entries' = K!Page /\ revisions' \in K!RevisionTable
        /\ revisions'[k][c + 1] = p
        /\ \A j \in K!Page : PageGrows(j)
    BY <1>4, <2>1, <2>2, ExtendedPage
  <2>4. /\ ItemsKept /\ OperationsTargeted'
        /\ proposals' \in K!ProposalTable /\ operations' \in K!OperationTable
    BY <1>1, <1>3, <1>4, <2>3, DecidedProposal
  <2>5. /\ kstep' \in [Reviewer -> Steps] /\ kheld' \in [Reviewer -> PageHeld]
        /\ \A s \in Reviewer : PageStepIsSound(s)'
    BY <1>1, <2>3, <2>4, DoneReviewer
  <2>6. parent' \in K!ParentTable
    BY <1>1 DEF KnowledgeInv, K!TypeOK
  <2>7. \E j \in K!Page, n \in 1..MaxRevision, q \in Proposal :
            approvals' = approvals \cup {<<j, n, q>>} /\ revisions'[j][n] = q
    BY <1>4, <2>1, <2>3
  <2> QED BY <2>3, <2>4, <2>5, <2>6, <2>7, KnowledgeAfter
<1>5. CASE UNCHANGED <<entries, revisions, proposals, approvals>>
  <2>1. \A s \in Reviewer : kstep'[r] = "idle"
    BY <1>1, IdleHeld, SteppedReviewer DEF K!Done, Steps
  <2>2. PageStepIsSound(r)'
    BY <2>1 DEF PageStepIsSound
  <2> QED BY <1>1, <1>5, <2>2, IdleHeld, KnowledgeRead DEF K!Done, Steps
<1> QED
  BY <1>2, <1>4, <1>5 DEF K!ApproveProposal

(* A step that writes to no page and approves nothing. *)
LEMMA KnowledgeDecided ==
    ASSUME KnowledgeInv, UNCHANGED <<entries, revisions, approvals>>, parent' \in K!ParentTable,
           ItemsKept, OperationsTargeted',
           proposals' \in K!ProposalTable, operations' \in K!OperationTable,
           NEW r \in Reviewer, K!Done(r)
    PROVE  KnowledgeInv'
<1>1. \A k \in K!Page : PageGrows(k)
  BY DEF PageGrows
<1>2. DOMAIN entries' = K!Page /\ revisions' \in K!RevisionTable
  BY DEF KnowledgeInv, K!TypeOK, K!RevisionTable
<1> QED BY <1>1, <1>2, DoneReviewer, KnowledgeAfter

LEMMA KnowledgeRejectProposal ==
    ASSUME KnowledgeInv, NEW r \in Reviewer, K!RejectProposal(r)
    PROVE  KnowledgeInv'
<1>1. /\ kstep[r] = "write" /\ kheld[r].item \in Proposal /\ K!Done(r)
      /\ proposals' = [proposals EXCEPT ![kheld[r].item].status = "rejected"]
      /\ UNCHANGED <<entries, revisions, operations, parent, approvals>>
  BY DEF K!RejectProposal
<1>2. \A k \in K!Page : PageGrows(k)
  BY <1>1 DEF PageGrows
<1>3. /\ ItemsKept /\ OperationsTargeted'
      /\ proposals' \in K!ProposalTable /\ operations' \in K!OperationTable
  BY <1>1, <1>2, WriterHolds, DecidedProposal
<1>4. parent' \in K!ParentTable
  BY <1>1 DEF KnowledgeInv, K!TypeOK
<1> QED BY <1>1, <1>3, <1>4, KnowledgeDecided

LEMMA KnowledgeRejectOperation ==
    ASSUME KnowledgeInv, NEW r \in Reviewer, K!RejectOperation(r)
    PROVE  KnowledgeInv'
<1>1. /\ kstep[r] = "write" /\ kheld[r].item \in Operation /\ K!Done(r)
      /\ K!Close(kheld[r].item, "rejected")
      /\ UNCHANGED <<entries, revisions, proposals, parent, approvals>>
  BY DEF K!RejectOperation
<1>2. \A k \in K!Page : PageGrows(k)
  BY <1>1 DEF PageGrows
<1>3. /\ ItemsKept /\ OperationsTargeted'
      /\ proposals' \in K!ProposalTable /\ operations' \in K!OperationTable
  BY <1>1, <1>2, WriterHolds, ClosedOperation
<1>4. parent' \in K!ParentTable
  BY <1>1 DEF KnowledgeInv, K!TypeOK
<1> QED BY <1>1, <1>3, <1>4, KnowledgeDecided

LEMMA KnowledgeMove == ASSUME KnowledgeInv, NEW r \in Reviewer, K!Move(r) PROVE KnowledgeInv'
<1>1. /\ kstep[r] = "write" /\ kheld[r].item \in Operation /\ K!Done(r)
      /\ parent' = [parent EXCEPT ![kheld[r].page] = operations[kheld[r].item].parent]
      /\ K!Close(kheld[r].item, "approved")
      /\ UNCHANGED <<entries, revisions, proposals, approvals>>
  BY DEF K!Move, K!Approved
<1>2. \A k \in K!Page : PageGrows(k)
  BY <1>1 DEF PageGrows
<1>3. /\ ItemsKept /\ OperationsTargeted'
      /\ proposals' \in K!ProposalTable /\ operations' \in K!OperationTable
  BY <1>1, <1>2, WriterHolds, ClosedOperation
<1>4. operations[kheld[r].item] \in K!OperationRow
  BY <1>1, WriterHolds DEF KnowledgeInv, K!TypeOK, K!OperationTable
<1>5. operations[kheld[r].item].parent \in K!Page \cup {None}
  BY <1>4 DEF K!OperationRow
<1>6. parent' \in K!ParentTable
  BY <1>1, <1>5, WriterHolds DEF KnowledgeInv, K!TypeOK, K!ParentTable
<1> QED BY <1>1, <1>3, <1>6, KnowledgeDecided

LEMMA KnowledgeArchive == ASSUME KnowledgeInv, NEW r \in Reviewer, K!Archive(r) PROVE KnowledgeInv'
<1>1. /\ kstep[r] = "write" /\ kheld[r].item \in Operation /\ K!Done(r)
      /\ entries' = [entries EXCEPT ![kheld[r].page].status = "archived"]
      /\ K!Close(kheld[r].item, "approved")
      /\ UNCHANGED <<revisions, proposals, parent, approvals>>
  BY DEF K!Archive, K!Approved
<1>2. PICK k \in K!Known : k = kheld[r].page
  BY <1>1, WriterHolds
<1>3. DOMAIN entries' = K!Page /\ k \in K!Page
      /\ entries'[k] = [entries[k] EXCEPT !.status = "archived"]
      /\ \A j \in K!Page \ {k} : entries'[j] = entries[j]
  BY <1>1, <1>2 DEF KnowledgeInv, K!Known
<1>4. PageGrows(k)
  BY <1>1, <1>3 DEF PageGrows
<1>5. \A j \in K!Page : PageGrows(j)
  BY <1>1, <1>3, <1>4 DEF PageGrows
<1>6. /\ ItemsKept /\ OperationsTargeted'
      /\ proposals' \in K!ProposalTable /\ operations' \in K!OperationTable
  BY <1>1, <1>5, WriterHolds, ClosedOperation
<1>7. parent' \in K!ParentTable /\ revisions' \in K!RevisionTable
  BY <1>1 DEF KnowledgeInv, K!TypeOK
<1>8. /\ kstep' \in [Reviewer -> Steps] /\ kheld' \in [Reviewer -> PageHeld]
      /\ \A s \in Reviewer : PageStepIsSound(s)'
  BY <1>1, <1>5, <1>6, DoneReviewer
<1> QED BY <1>1, <1>3, <1>5, <1>6, <1>7, <1>8, KnowledgeAfter

LEMMA KnowledgeRename == ASSUME KnowledgeInv, NEW r \in Reviewer, K!Rename(r) PROVE KnowledgeInv'
<1>1. /\ kstep[r] = "write" /\ kheld[r].item \in Operation /\ K!Done(r)
      /\ UNCHANGED <<proposals, parent, approvals>>
  BY DEF K!Rename, K!Approved
<1>2. PICK k \in K!Known, c \in 0..K!Revision(kheld[r].page) :
        k = kheld[r].page /\ c = kheld[r].current
  BY <1>1, WriterHolds
<1>3. k \in K!Page /\ c \in 0..K!Revision(k) /\ parent' \in K!ParentTable
  BY <1>1, <1>2 DEF K!Known, KnowledgeInv, K!TypeOK
<1>4. CASE /\ K!Vacant(k, c + 1)
           /\ entries' = [entries EXCEPT ![k].revision = c + 1]
           /\ K!Insert(k, c + 1, "rename")
           /\ K!Close(kheld[r].item, "approved")
  <2>1. c + 1 = K!Revision(k) + 1 /\ c + 1 \in 1..MaxRevision
    BY <1>3, <1>4, NextPageRevision
  <2>2. "rename" \in K!Source /\ revisions' = [revisions EXCEPT ![k][c + 1] = "rename"]
    BY <1>4 DEF K!Source, K!Insert
  <2>3. entries[k] \in K!Entry
    BY <1>3, PageRow
  <2>4. PICK status \in {"proposed", "approved", "archived"} :
          [entries[k] EXCEPT !.revision = c + 1] = [revision |-> c + 1, status |-> status]
    BY <2>3 DEF K!Entry
  <2>5. entries' = [entries EXCEPT ![k] = [revision |-> c + 1, status |-> status]]
    BY <1>4, <2>4
  <2>6. /\ DOMAIN entries' = K!Page /\ revisions' \in K!RevisionTable
        /\ \A j \in K!Page : PageGrows(j)
    BY <1>3, <2>1, <2>2, <2>5, ExtendedPage
  <2>7. /\ ItemsKept /\ OperationsTargeted'
        /\ proposals' \in K!ProposalTable /\ operations' \in K!OperationTable
    BY <1>1, <1>4, <2>6, WriterHolds, ClosedOperation
  <2>8. /\ kstep' \in [Reviewer -> Steps] /\ kheld' \in [Reviewer -> PageHeld]
        /\ \A s \in Reviewer : PageStepIsSound(s)'
    BY <1>1, <2>6, <2>7, DoneReviewer
  <2> QED BY <1>1, <1>3, <2>6, <2>7, <2>8, KnowledgeAfter
<1>5. ASSUME UNCHANGED <<entries, revisions>>,
             K!Close(kheld[r].item, "approved") \/ UNCHANGED operations
      PROVE  KnowledgeInv'
  <2>1. \A j \in K!Page : PageGrows(j)
    BY <1>5 DEF PageGrows
  <2>2. /\ ItemsKept /\ OperationsTargeted'
        /\ proposals' \in K!ProposalTable /\ operations' \in K!OperationTable
    BY <1>1, <1>5, <2>1, WriterHolds, ClosedOperation, ItemsUnchanged
  <2> QED BY <1>1, <1>3, <1>5, <2>2, KnowledgeDecided
<1> QED
  BY <1>2, <1>4, <1>5 DEF K!Rename

LEMMA KnowledgeAskRollback ==
    ASSUME KnowledgeInv, NEW r \in Reviewer, K!AskRollback(r)
    PROVE  KnowledgeInv'
<1>1. UNCHANGED <<entries, revisions, proposals, operations, parent, approvals>>
  BY DEF K!AskRollback, K!Items
<1>2. PICK k \in K!Known :
        K!Step(r, "rollback", [K!Idle EXCEPT !.page = k, !.current = K!Revision(k)])
  BY DEF K!AskRollback
<1> DEFINE holding == [K!Idle EXCEPT !.page = k, !.current = K!Revision(k)]
<1>3. /\ k \in K!Page /\ K!Revision(k) \in 1..MaxRevision /\ K!Revision(k) \in 0..MaxRevision
      /\ MaxRevision \in Nat
  BY PageRow, ReviewsAssumption DEF K!Known, K!KnowledgeAssumption
<1>4. holding \in PageHeld /\ holding.page = k /\ holding.current = K!Revision(k)
  BY <1>3, IdleHeld DEF PageHeld, K!Idle
<1>5. K!Step(r, "rollback", holding)
  BY <1>2
<1> HIDE DEF holding
<1>6. kstep'[r] = "rollback" /\ kheld'[r] = holding
  BY <1>4, <1>5, SteppedReviewer DEF Steps
<1>7. K!Known' = K!Known /\ K!Revision(k)' = K!Revision(k)
  BY <1>1 DEF K!Known, K!Revision
<1>8. K!Revision(k) \in 1..K!Revision(k)'
  BY <1>3, <1>7
<1>9. PageStepIsSound(r)'
  BY <1>4, <1>6, <1>7, <1>8 DEF PageStepIsSound
<1> QED BY <1>1, <1>4, <1>5, <1>9, KnowledgeRead DEF Steps

LEMMA KnowledgeRollback ==
    ASSUME KnowledgeInv, NEW r \in Reviewer, K!Rollback(r)
    PROVE  KnowledgeInv'
<1>1. /\ kstep[r] = "rollback" /\ K!Done(r)
      /\ UNCHANGED <<proposals, operations, parent, approvals>>
  BY DEF K!Rollback, K!Items
<1>2. PICK k \in K!Known : k = kheld[r].page
  BY <1>1 DEF KnowledgeInv, PageStepIsSound
<1>3. PICK c \in 1..K!Revision(k) : c = kheld[r].current
  BY <1>1, <1>2 DEF KnowledgeInv, PageStepIsSound
<1>4. k \in K!Page /\ parent' \in K!ParentTable
  BY <1>1 DEF K!Known, KnowledgeInv, K!TypeOK
<1>5. c \in 0..K!Revision(k)
  BY <1>4, PageRow
<1>6. CASE /\ K!Vacant(k, c + 1)
           /\ K!Insert(k, c + 1, "rollback")
           /\ entries' = [entries EXCEPT ![k] = [revision |-> c + 1, status |-> "approved"]]
  <2>1. c + 1 = K!Revision(k) + 1 /\ c + 1 \in 1..MaxRevision
    BY <1>4, <1>5, <1>6, NextPageRevision
  <2>2. "rollback" \in K!Source /\ revisions' = [revisions EXCEPT ![k][c + 1] = "rollback"]
    BY <1>6 DEF K!Source, K!Insert
  <2>3. /\ DOMAIN entries' = K!Page /\ revisions' \in K!RevisionTable
        /\ \A j \in K!Page : PageGrows(j)
    BY <1>4, <1>6, <2>1, <2>2, ExtendedPage
  <2>4. /\ ItemsKept /\ OperationsTargeted'
        /\ proposals' \in K!ProposalTable /\ operations' \in K!OperationTable
    BY <1>1, <2>3, ItemsUnchanged
  <2>5. /\ kstep' \in [Reviewer -> Steps] /\ kheld' \in [Reviewer -> PageHeld]
        /\ \A s \in Reviewer : PageStepIsSound(s)'
    BY <1>1, <2>3, <2>4, DoneReviewer
  <2> QED BY <1>1, <1>4, <2>3, <2>4, <2>5, KnowledgeAfter
<1>7. CASE UNCHANGED <<entries, revisions>>
  <2>1. \A j \in K!Page : PageGrows(j)
    BY <1>7 DEF PageGrows
  <2> QED BY <1>1, <1>4, <1>7, <2>1, ItemsUnchanged, KnowledgeDecided
<1> QED
  BY <1>2, <1>3, <1>6, <1>7 DEF K!Rollback

LEMMA KnowledgeStep == ASSUME KnowledgeInv, [K!Next]_K!knowledgeVars PROVE KnowledgeInv'
<1>1. ASSUME UNCHANGED <<entries, revisions, proposals, operations, parent, approvals>>
      PROVE  /\ \A j \in K!Page : PageGrows(j)
             /\ ItemsKept /\ OperationsTargeted'
             /\ DOMAIN entries' = K!Page /\ revisions' \in K!RevisionTable
             /\ proposals' \in K!ProposalTable /\ operations' \in K!OperationTable
             /\ parent' \in K!ParentTable
  <2>1. \A j \in K!Page : PageGrows(j)
    BY <1>1 DEF PageGrows
  <2> QED BY <1>1, <2>1, ItemsUnchanged DEF KnowledgeInv, K!TypeOK, K!RevisionTable
<1>2. ASSUME NEW r \in Reviewer, K!Abort(r) PROVE KnowledgeInv'
  <2>1. UNCHANGED <<entries, revisions, proposals, operations, parent, approvals>> /\ K!Done(r)
    BY <1>2 DEF K!Abort, K!Items
  <2> QED BY <1>1, <2>1, KnowledgeDecided
<1>3. CASE UNCHANGED K!knowledgeVars
  <2>1. UNCHANGED <<entries, revisions, proposals, operations, parent, kstep, kheld, approvals>>
    BY <1>3 DEF K!knowledgeVars
  <2> QED BY <1>1, <2>1, KnowledgeFiled
<1> QED
  BY <1>2, <1>3, KnowledgeImport, KnowledgePropose, KnowledgeProposeOperation,
     KnowledgeAskReview, KnowledgeReadTarget, KnowledgeApprove, KnowledgeRejectProposal,
     KnowledgeRejectOperation, KnowledgeMove, KnowledgeArchive, KnowledgeRename,
     KnowledgeAskRollback, KnowledgeRollback DEF K!Next

(* A page's revisions are numbered without a gap up to its current one, and the text a
   user approved stays among them under its number, through concurrent approvals,
   renames and rollbacks. *)
THEOREM ApprovalSafety == K!Spec => []PagesKeepApprovals
<1>1. KnowledgeInv => PagesKeepApprovals
  BY NumberedIsLatest DEF KnowledgeInv, PagesKeepApprovals, K!PagesKeepApprovals
<1>2. KnowledgeInv /\ [K!Next]_K!knowledgeVars => KnowledgeInv'
  BY KnowledgeStep
<1> QED
  BY <1>1, <1>2, KnowledgeStart, PTL DEF K!Spec

-----------------------------------------------------------------------------
(* One review at a time: a request that is not reviewing decides nothing ... *)
LEMMA KnowledgeUndecided ==
    ASSUME KnowledgeInv, KnowledgeAloneInv, K!KnowledgeAlone,
           UNCHANGED <<proposals, operations, reviews>>,
           NEW r \in Reviewer, NEW next \in Steps, NEW holding \in PageHeld,
           K!Step(r, next, holding),
           next \in {"target", "write"} =>
              holding.item \in Proposal \cup Operation /\ K!Row(holding.item).status = "pending"
    PROVE  KnowledgeAloneInv'
<1>1. /\ kstep'[r] = next /\ kheld'[r] = holding
      /\ \A s \in Reviewer \ {r} : kstep'[s] = kstep[s] /\ kheld'[s] = kheld[s]
  BY SteppedReviewer
<1>2. \A item \in Proposal \cup Operation : K!Row(item)' = K!Row(item)
  BY RowOfItem
<1>3. HoldsPending(r)'
  BY <1>1, <1>2 DEF HoldsPending
<1>4. ASSUME NEW s \in Reviewer \ {r} PROVE HoldsPending(s)'
  <2>1. SUFFICES ASSUME kstep[s] \in {"target", "write"}
                 PROVE  HoldsPending(s)'
    BY <1>1 DEF HoldsPending
  <2>2. PICK item \in Proposal \cup Operation : item = kheld[s].item /\ item = kheld'[s].item
    BY <1>1, <2>1 DEF KnowledgeInv, PageStepIsSound
  <2>3. K!Row(item).status = "pending"
    BY <2>1, <2>2 DEF KnowledgeAloneInv, HoldsPending
  <2> QED BY <1>2, <2>2, <2>3 DEF HoldsPending
<1> QED BY <1>3, <1>4 DEF KnowledgeAloneInv, K!KnowledgeAlone

(* ... nor does anybody while a page is imported or a proposal is made ... *)
LEMMA KnowledgeProposed ==
    ASSUME KnowledgeInv, KnowledgeAloneInv, UNCHANGED <<kstep, kheld, reviews>>,
           \A item \in Proposal \cup Operation :
              K!Row(item) # None => K!Row(item)' = K!Row(item)
    PROVE  KnowledgeAloneInv'
<1>1. ASSUME NEW r \in Reviewer PROVE HoldsPending(r)'
  <2>1. SUFFICES ASSUME kstep[r] \in {"target", "write"}
                 PROVE  HoldsPending(r)'
    BY DEF HoldsPending
  <2>2. PICK item \in Proposal \cup Operation :
          item = kheld[r].item /\ item = kheld'[r].item /\ K!Row(item) # None
    BY <2>1 DEF KnowledgeInv, PageStepIsSound
  <2>3. K!Row(item).status = "pending"
    BY <2>1, <2>2 DEF KnowledgeAloneInv, HoldsPending
  <2> QED BY <2>2, <2>3 DEF HoldsPending
<1>2. \A p \in Proposal : proposals[p] # None => proposals'[p] = proposals[p]
  BY RowOfItem
<1> QED BY <1>1, <1>2 DEF KnowledgeAloneInv

(* ... and the only reviewer that is not idle decides once. *)
LEMMA KnowledgeDecidedAlone ==
    ASSUME KnowledgeInv, KnowledgeAloneInv, NEW r \in Reviewer, kstep[r] # "idle", K!Done(r),
           \/ UNCHANGED <<proposals, reviews>>
           \/ \E status \in {"approved", "rejected"} :
                /\ kstep[r] = "write" /\ kheld[r].item \in Proposal
                /\ proposals' = [proposals EXCEPT ![kheld[r].item].status = status]
                /\ reviews' = [reviews EXCEPT ![kheld[r].item] = @ + 1]
    PROVE  KnowledgeAloneInv'
<1>1. \A s \in Reviewer : kstep'[s] = "idle"
  BY IdleHeld, SteppedReviewer DEF K!Done, Steps, KnowledgeAloneInv
<1>2. CASE UNCHANGED <<proposals, reviews>>
  BY <1>1, <1>2 DEF KnowledgeAloneInv, HoldsPending
<1>3. ASSUME kstep[r] = "write", NEW p \in Proposal, p = kheld[r].item,
             NEW status \in {"approved", "rejected"},
             proposals' = [proposals EXCEPT ![p].status = status],
             reviews' = [reviews EXCEPT ![p] = @ + 1]
      PROVE  KnowledgeAloneInv'
  <2>1. proposals[p] # None /\ proposals[p].status = "pending"
    BY <1>3, WriterHolds, RowOfItem DEF KnowledgeAloneInv, HoldsPending
  <2>2. proposals \in [Proposal -> {None} \cup K!ProposalRow] /\ None \notin K!ProposalRow
    BY ReviewsAssumption DEF KnowledgeInv, K!TypeOK, K!ProposalTable, K!KnowledgeAssumption
  <2>3. /\ proposals'[p] = [proposals[p] EXCEPT !.status = status]
        /\ proposals[p] \in K!ProposalRow
        /\ \A q \in Proposal \ {p} : proposals'[q] = proposals[q]
    BY <1>3, <2>1, <2>2
  <2>4. proposals'[p] \in K!ProposalRow /\ proposals'[p].status = status
    BY <2>3 DEF K!ProposalRow
  <2>5. reviews \in [Proposal -> {0, 1}] /\ reviews[p] = 0
    BY <2>1 DEF KnowledgeAloneInv
  <2>6. reviews' \in [Proposal -> {0, 1}] /\ \A q \in Proposal \ {p} : reviews'[q] = reviews[q]
    BY <1>3, <2>5
  <2>7. ASSUME NEW q \in Proposal, reviews'[q] = 1
        PROVE  proposals'[q] # None /\ proposals'[q].status # "pending"
    <3>1. CASE q = p
      BY <2>2, <2>4, <3>1
    <3>2. CASE q # p
      BY <2>3, <2>6, <2>7, <3>2 DEF KnowledgeAloneInv
    <3> QED BY <3>1, <3>2
  <2> QED BY <1>1, <2>6, <2>7 DEF KnowledgeAloneInv, HoldsPending
<1> QED BY <1>2, <1>3

LEMMA KnowledgeAloneStep ==
    ASSUME KnowledgeInv, KnowledgeAloneInv, [K!Next /\ K!KnowledgeAlone]_K!knowledgeVars
    PROVE  KnowledgeAloneInv'
<1>1. CASE UNCHANGED K!knowledgeVars
  <2>1. UNCHANGED <<proposals, operations, kstep, kheld, reviews>>
    BY <1>1 DEF K!knowledgeVars
  <2> QED BY <2>1, KnowledgeProposed, RowOfItem
<1>2. ASSUME NEW d \in Document, K!Import(d) PROVE KnowledgeAloneInv'
  <2>1. UNCHANGED <<proposals, operations, kstep, kheld, reviews>>
    BY <1>2 DEF K!Import, K!Items
  <2> QED BY <2>1, KnowledgeProposed, RowOfItem
<1>3. ASSUME NEW p \in Proposal, K!Propose(p) PROVE KnowledgeAloneInv'
  <2>1. UNCHANGED <<operations, kstep, kheld, reviews>> /\ proposals[p] = None
    BY <1>3 DEF K!Propose
  <2>2. \A q \in Proposal \ {p} : proposals'[q] = proposals[q]
    BY <1>3 DEF K!Propose, KnowledgeInv, K!TypeOK, K!ProposalTable
  <2> QED BY <2>1, <2>2, KnowledgeProposed, RowOfItem
<1>4. ASSUME NEW o \in Operation, K!ProposeOperation(o) PROVE KnowledgeAloneInv'
  <2>1. UNCHANGED <<proposals, kstep, kheld, reviews>> /\ operations[o] = None
    BY <1>4 DEF K!ProposeOperation
  <2>2. \A q \in Operation \ {o} : operations'[q] = operations[q]
    BY <1>4 DEF K!ProposeOperation, KnowledgeInv, K!TypeOK, K!OperationTable
  <2> QED BY <2>1, <2>2, KnowledgeProposed, RowOfItem
<1>5. ASSUME NEW r \in Reviewer, K!AskReview(r), K!KnowledgeAlone PROVE KnowledgeAloneInv'
  <2>1. UNCHANGED <<proposals, operations, reviews>>
    BY <1>5 DEF K!AskReview, K!Items
  <2>2. PICK item \in Proposal \cup Operation, decision \in {"approved", "rejected"} :
          /\ K!Reviewable(item)
          /\ K!Step(r, "target", [item |-> item, decision |-> decision,
                                  page |-> K!Row(item).target, current |-> 0])
    BY <1>5 DEF K!AskReview
  <2>3. K!Row(item) # None /\ K!Row(item).status = "pending"
    BY <2>2 DEF K!Reviewable
  <2>4. K!Row(item).target \in K!Page
    <3>1. CASE item \in Proposal
      <4>1. K!Row(item) \in K!ProposalRow
        BY <2>3, <3>1, RowOfItem DEF KnowledgeInv, K!TypeOK, K!ProposalTable
      <4> QED BY <4>1 DEF K!ProposalRow
    <3>2. CASE item \in Operation
      BY <2>3, <3>2, RowOfItem DEF KnowledgeInv, K!Known
    <3> QED BY <3>1, <3>2
  <2> DEFINE holding == [item |-> item, decision |-> decision,
                         page |-> K!Row(item).target, current |-> 0]
  <2>5. holding \in PageHeld /\ holding.item = item
    BY <2>4, ReviewsAssumption DEF PageHeld, K!KnowledgeAssumption
  <2>6. K!Step(r, "target", holding)
    BY <2>2
  <2> HIDE DEF holding
  <2> QED BY <1>5, <2>1, <2>3, <2>5, <2>6, KnowledgeUndecided DEF Steps
<1>6. ASSUME NEW r \in Reviewer, K!ReadTarget(r), K!KnowledgeAlone PROVE KnowledgeAloneInv'
  <2>1. /\ UNCHANGED <<proposals, operations, reviews>> /\ kstep[r] = "target"
        /\ K!Step(r, "write", [kheld[r] EXCEPT !.current = K!Revision(kheld[r].page)])
    BY <1>6 DEF K!ReadTarget, K!Items
  <2>2. /\ kheld[r] \in PageHeld /\ kheld[r].item \in Proposal \cup Operation
        /\ K!Row(kheld[r].item).status = "pending"
        /\ K!Revision(kheld[r].page) \in 0..MaxRevision
    BY <2>1, PageRow DEF KnowledgeInv, PageStepIsSound, KnowledgeAloneInv, HoldsPending
  <2> DEFINE holding == [kheld[r] EXCEPT !.current = K!Revision(kheld[r].page)]
  <2>3. holding \in PageHeld /\ holding.item = kheld[r].item
    BY <2>2 DEF PageHeld
  <2>4. K!Step(r, "write", holding)
    BY <2>1
  <2> HIDE DEF holding
  <2> QED BY <1>6, <2>1, <2>2, <2>3, <2>4, KnowledgeUndecided DEF Steps
<1>7. ASSUME NEW r \in Reviewer, K!AskRollback(r), K!KnowledgeAlone PROVE KnowledgeAloneInv'
  <2>1. UNCHANGED <<proposals, operations, reviews>>
    BY <1>7 DEF K!AskRollback, K!Items
  <2>2. PICK k \in K!Known :
          K!Step(r, "rollback", [K!Idle EXCEPT !.page = k, !.current = K!Revision(k)])
    BY <1>7 DEF K!AskRollback
  <2> DEFINE holding == [K!Idle EXCEPT !.page = k, !.current = K!Revision(k)]
  <2>3. k \in K!Page /\ K!Revision(k) \in 0..MaxRevision
    BY PageRow DEF K!Known
  <2>4. holding \in PageHeld
    BY <2>3, IdleHeld DEF PageHeld, K!Idle
  <2>5. K!Step(r, "rollback", holding)
    BY <2>2
  <2> HIDE DEF holding
  <2> QED BY <1>7, <2>1, <2>4, <2>5, KnowledgeUndecided DEF Steps
<1>8. ASSUME NEW r \in Reviewer, K!ApproveProposal(r) PROVE KnowledgeAloneInv'
  <2>1. kstep[r] = "write" /\ kheld[r].item \in Proposal /\ K!Done(r)
    BY <1>8 DEF K!ApproveProposal
  <2>2. \/ UNCHANGED <<proposals, reviews>>
        \/ /\ proposals' = [proposals EXCEPT ![kheld[r].item].status = "approved"]
           /\ reviews' = [reviews EXCEPT ![kheld[r].item] = @ + 1]
    BY <1>8 DEF K!ApproveProposal
  <2> QED BY <2>1, <2>2, KnowledgeDecidedAlone
<1>9. ASSUME NEW r \in Reviewer, K!RejectProposal(r) PROVE KnowledgeAloneInv'
  <2>1. /\ kstep[r] = "write" /\ kheld[r].item \in Proposal /\ K!Done(r)
        /\ proposals' = [proposals EXCEPT ![kheld[r].item].status = "rejected"]
        /\ reviews' = [reviews EXCEPT ![kheld[r].item] = @ + 1]
    BY <1>9 DEF K!RejectProposal
  <2> QED BY <2>1, KnowledgeDecidedAlone
<1>10. ASSUME NEW r \in Reviewer,
              \/ K!RejectOperation(r) \/ K!Move(r) \/ K!Archive(r)
              \/ K!Rename(r) \/ K!Rollback(r) \/ K!Abort(r)
       PROVE  KnowledgeAloneInv'
  <2>1. kstep[r] # "idle" /\ K!Done(r) /\ UNCHANGED <<proposals, reviews>>
    BY <1>10 DEF K!RejectOperation, K!Move, K!Archive, K!Rename, K!Rollback, K!Abort,
                 K!Approved, K!Items
  <2> QED BY <2>1, KnowledgeDecidedAlone
<1> QED
  BY <1>1, <1>2, <1>3, <1>4, <1>5, <1>6, <1>7, <1>8, <1>9, <1>10 DEF K!Next

-----------------------------------------------------------------------------
(* With one request at a time, a proposal of knowledge or memory is decided once. *)
THEOREM DecisionSafety == Spec => []AloneDecidedOnce
<1> DEFINE Both == MemoryInv /\ KnowledgeInv /\ AloneInv
<1>1. Init => Both
  <2> SUFFICES ASSUME Init PROVE Both
    OBVIOUS
  <2>1. M!Init /\ K!Init
    BY DEF Init
  <2>2. MemoryAloneInv
    BY <2>1 DEF M!Init, MemoryAloneInv
  <2>3. KnowledgeAloneInv
    BY <2>1 DEF K!Init, KnowledgeAloneInv, HoldsPending
  <2> QED BY <2>1, <2>2, <2>3, MemoryStart, KnowledgeStart DEF AloneInv
<1>2. Both /\ [Next]_<<area, alone, kVars, mVars>> => Both'
  <2> SUFFICES ASSUME Both, [Next]_<<area, alone, kVars, mVars>> PROVE Both'
    OBVIOUS
  <2>1. /\ UNCHANGED alone
        /\ [M!Next]_M!memoryVars /\ [K!Next]_K!knowledgeVars
        /\ alone => /\ [M!Next /\ M!MemoryAlone]_M!memoryVars
                    /\ [K!Next /\ K!KnowledgeAlone]_K!knowledgeVars
    BY DEF Next, kVars, mVars, M!memoryVars, K!knowledgeVars
  <2>2. MemoryInv' /\ KnowledgeInv'
    BY <2>1, MemoryStep, KnowledgeStep
  <2>3. AloneInv'
    BY <2>1, MemoryAloneStep, KnowledgeAloneStep DEF AloneInv
  <2> QED BY <2>2, <2>3
<1>3. Both => AloneDecidedOnce
  <2> SUFFICES ASSUME AloneInv, alone
               PROVE  K!ReviewedOnce /\ M!ConfirmedOnce
    BY DEF AloneDecidedOnce
  <2>1. confirmed \in [Draft -> {0, 1}] /\ reviews \in [Proposal -> {0, 1}]
    BY DEF AloneInv, MemoryAloneInv, KnowledgeAloneInv
  <2>2. \A d \in Draft : confirmed[d] <= 1
    BY <2>1
  <2>3. \A p \in Proposal : reviews[p] <= 1
    BY <2>1
  <2> QED BY <2>2, <2>3 DEF K!ReviewedOnce, M!ConfirmedOnce
<1> QED
  BY <1>1, <1>2, <1>3, PTL DEF Spec
=============================================================================
