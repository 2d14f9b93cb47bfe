------------------------------- MODULE Resumes -------------------------------
(***************************************************************************)
(* Resumes: base revisions, reviewed patches and the revisions made of     *)
(* them (services/resume_service.py, db/resume_writes.py and the resume    *)
(* routes of api/resume_studio.py).  Every write is a command that names   *)
(* the revision it was written against and whose inputs never change, so a *)
(* command is one action.  A document is one list of items: paths into a   *)
(* list and its items are what operations can disturb.  The facts,         *)
(* evidence and requirements an operation cites are left out.              *)
(***************************************************************************)
EXTENDS Integers, Sequences, SequencesExt, FiniteSets

CONSTANTS
    Resume, Candidate,
    Item,               \* entries of a section
    Operation,          \* the operations that may be proposed
    Patch, Revision,
    MaxBase,            \* bound on base revisions
    None

Content == Seq(Item)

(* resume_base_revision: sections is an object, perhaps without the section. *)
BaseRow == [owner : Candidate, content : Content \cup {None}]

(* ResumePatchOperation: target 0 is the section itself, n its n-th item; the
   expected hash is the value it was written against. *)
OperationRow ==
    [action : {"set", "remove", "insert"}, target : Nat,
     expected : Item \cup Content, value : Item \cup Content \cup {None}]

(* What an operation writes: a document stays one list of items. *)
KeepsTheList(operation) ==
    operation.action # "remove" =>
        operation.value \in (IF operation.action = "set" /\ operation.target = 0
                             THEN Content ELSE Item)

(* resume_patch_identity with the newest resume_patch_revision. *)
PatchRow ==
    [resume : Resume, base : 1..MaxBase, operations : Seq(Operation),
     status : {"proposed", "accepted", "rejected"}]

(* resume_revision_record with its ordered resume_revision_patch_ref. *)
RevisionRow ==
    [resume : Resume, base : 1..MaxBase, refs : Seq(Patch), content : Content \cup {None}]

(* None is no value of these types. *)
ResumeAssumption ==
    /\ MaxBase \in Nat
    /\ \A operation \in Operation : operation \in OperationRow /\ KeepsTheList(operation)
    /\ None \notin Item \cup Content
    /\ None \notin PatchRow \cup RevisionRow

VARIABLES
    bases,      \* resume_base_revision, revision by revision
    patches,    \* resume_patch_revision
    revisions   \* resume_revision_record

resumeVars == <<bases, patches, revisions>>

Init ==
    /\ bases = [r \in Resume |-> <<>>]
    /\ patches = [p \in Patch |-> None]
    /\ revisions = [v \in Revision |-> None]

(* ResumeBaseWrite.stage: a new resume takes its candidate, which then stays. *)
StageBase(r, row) ==
    /\ Len(bases[r]) < MaxBase
    /\ bases[r] # <<>> => bases[r][1].owner = row.owner
    /\ bases' = [bases EXCEPT ![r] = Append(@, row)]
    /\ UNCHANGED <<patches, revisions>>

(* The route saves first bases only: it always expects revision zero.  The bound on
   the items of a first base is three. *)
SaveBase(r) ==
    /\ bases[r] = <<>>
    /\ \E c \in Candidate, content \in BoundedSeq(Item, 3) : StageBase(r, [owner |-> c, content |-> content])

(* A proposal names an exact base revision and starts its patch. *)
ProposePatch(p) ==
    /\ patches[p] = None
    /\ \E r \in Resume, operations \in BoundedSeq(Operation, 2) \ {<<>>} :
        \E base \in DOMAIN bases[r] :
            patches' = [patches EXCEPT ![p] =
                [resume |-> r, base |-> base, operations |-> operations, status |-> "proposed"]]
    /\ UNCHANGED <<bases, revisions>>

(* Mutant: a review may start from any revision of the patch. *)
ReviewPatch_Any(p) ==
    /\ patches[p] # None
    /\ \E decision \in {"accepted", "rejected"} :
        patches' = [patches EXCEPT ![p].status = decision]
    /\ UNCHANGED <<bases, revisions>>

(* The user reviews the exact proposed revision. *)
ReviewPatch(p) ==
    /\ patches[p] # None
    /\ patches[p].status = "proposed"
    /\ \E decision \in {"accepted", "rejected"} :
        patches' = [patches EXCEPT ![p].status = decision]
    /\ UNCHANGED <<bases, revisions>>

(* What the path of an operation leads to; None when it leads nowhere. *)
Current(content, target) ==
    IF target = 0 \/ content = None THEN content
    ELSE IF target \in DOMAIN content THEN content[target] ELSE None

(* Mutant: the value found is not compared with the one expected. *)
Matches_Any(content, operation) == Current(content, operation.target) # None

(* expected_value_hash *)
Matches(content, operation) == Current(content, operation.target) = operation.expected

(* _apply_operation, on content that Matches; an item is not a list to insert in. *)
ApplyOperation(content, operation) ==
    IF operation.action = "insert" THEN Append(content, operation.value)
    ELSE IF operation.target = 0
         THEN IF operation.action = "set" THEN operation.value ELSE None
         ELSE IF operation.action = "set"
              THEN [content EXCEPT ![operation.target] = operation.value]
              ELSE RemoveAt(content, operation.target)

Applies(content, operation) ==
    /\ Matches(content, operation)
    /\ operation.action = "insert" => operation.target = 0

Failed == [failed |-> TRUE]

(* One operation more; the one that does not apply ends the composition. *)
Applied(so_far, operation) ==
    IF so_far = Failed \/ ~Applies(so_far.content, operation) THEN Failed
    ELSE [content |-> ApplyOperation(so_far.content, operation)]

(* The operations of a patch in order. *)
AppliedAll(so_far, operations) ==
    LET after[n \in 0..Len(operations)] ==
            IF n = 0 THEN so_far ELSE Applied(after[n - 1], operations[n])
    IN after[Len(operations)]

(* The patches in order, on a copy of the base. *)
Composed(content, lists) ==
    LET after[n \in 0..Len(lists)] ==
            IF n = 0 THEN [content |-> content] ELSE AppliedAll(after[n - 1], lists[n])
    IN after[Len(lists)]

Operations(refs) == [n \in DOMAIN refs |-> patches[refs[n]].operations]

(* Mutant: a patch that is still proposed may be used. *)
Usable_Proposed(p, r, base) ==
    /\ patches[p] # None
    /\ patches[p].status # "rejected"
    /\ patches[p].resume = r
    /\ patches[p].base = base

(* Exact accepted patches of the selected base revision. *)
Usable(p, r, base) ==
    /\ patches[p] # None
    /\ patches[p].status = "accepted"
    /\ patches[p].resume = r
    /\ patches[p].base = base

(* create_revision: the refs are distinct and the record has one revision. *)
CreateRevision(v) ==
    /\ revisions[v] = None
    /\ \E r \in Resume, refs \in {s \in BoundedSeq(Patch, Cardinality(Patch)) : IsInjective(s)} :
        \E base \in DOMAIN bases[r] :
            /\ \A n \in DOMAIN refs : Usable(refs[n], r, base)
            /\ LET made == Composed(bases[r][base].content, Operations(refs)) IN
               /\ made # Failed
               /\ revisions' = [revisions EXCEPT ![v] =
                    [resume |-> r, base |-> base, refs |-> refs, content |-> made.content]]
    /\ UNCHANGED <<bases, patches>>

(* restore_revision: a new base holding a revision of the same resume. *)
RestoreRevision(r) ==
    /\ bases[r] # <<>>
    /\ \E v \in Revision :
        /\ revisions[v] # None
        /\ revisions[v].resume = r
        /\ StageBase(r, [owner |-> Last(bases[r]).owner, content |-> revisions[v].content])

(* restore_base_revision: a new base holding an older one; redo names it. *)
RestoreBase(r, source) ==
    /\ source \in DOMAIN bases[r]
    /\ StageBase(r, [owner |-> Last(bases[r]).owner, content |-> bases[r][source].content])

(* undo: the base before the newest. *)
UndoBase(r) == Len(bases[r]) >= 2 /\ RestoreBase(r, Len(bases[r]) - 1)

RedoBase(r) == \E source \in DOMAIN bases[r] : RestoreBase(r, source)

ResumeNext ==
    \/ \E r \in Resume : SaveBase(r) \/ RestoreRevision(r) \/ UndoBase(r) \/ RedoBase(r)
    \/ \E p \in Patch : ProposePatch(p) \/ ReviewPatch(p)
    \/ \E v \in Revision : CreateRevision(v)

ResumeSpec == Init /\ [][ResumeNext]_resumeVars

-----------------------------------------------------------------------------
(* The tables of migration 0011. *)
BaseTable == [Resume -> Seq(BaseRow)]
PatchTable == [Patch -> PatchRow \cup {None}]
RevisionTable == [Revision -> RevisionRow \cup {None}]

(* Rows are rows of their tables. *)
ResumeTypeOK ==
    /\ bases \in BaseTable
    /\ patches \in PatchTable
    /\ revisions \in RevisionTable

Items(content) == IF content = None THEN {} ELSE Range(content)

AcceptedOperations(v) ==
    UNION {Range(patches[p].operations) :
              p \in {q \in Range(revisions[v].refs) : patches[q].status = "accepted"}}

(* An entry of the base that a revision lost is one an accepted operation was
   written against: removing an entry shifts the ones after it, and an operation
   must not then hit another entry than the one the user saw. *)
LostOnlyByReview ==
    \A v \in Revision : revisions[v] # None =>
        \A item \in Items(bases[revisions[v].resume][revisions[v].base].content)
                        \ Items(revisions[v].content) :
            \E operation \in AcceptedOperations(v) :
                \/ operation.expected = item
                \/ operation.expected \in Content /\ item \in Range(operation.expected)

(* An entry a revision has and its base has not was proposed by an operation the
   user accepted. *)
AddedOnlyByReview ==
    \A v \in Revision : revisions[v] # None =>
        \A item \in Items(revisions[v].content)
                        \ Items(bases[revisions[v].resume][revisions[v].base].content) :
            \E operation \in AcceptedOperations(v) :
                \/ operation.value = item
                \/ operation.value \in Content /\ item \in Range(operation.value)

(* A revision stays what its base and its accepted patches compose to: nothing it
   rests on is rewritten later. *)
RevisionStaysComposed ==
    \A v \in Revision : revisions[v] # None =>
        /\ \A n \in DOMAIN revisions[v].refs :
            Usable(revisions[v].refs[n], revisions[v].resume, revisions[v].base)
        /\ Composed(bases[revisions[v].resume][revisions[v].base].content,
                    Operations(revisions[v].refs)) = [content |-> revisions[v].content]
=============================================================================
