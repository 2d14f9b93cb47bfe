------------------------------ MODULE MCProjects ------------------------------
(***************************************************************************)
(* Small instances of ProjectScans and Projects for TLC.  A behaviour      *)
(* belongs to one part: a project's files and their rescans, the levels    *)
(* that rest on evidence, or the tasks.  The tree starts as a directory    *)
(* with a file, a secret and a file that one of the scopes denies.         *)
(***************************************************************************)
EXTENDS Integers, Sequences, FiniteSets, TLC

CONSTANTS
    Scanner, Command, Path, Secret, Scope, Allowed, Denied, Node, Outside,
    MaxEdits, MaxTime,
    Project, Evidence, State, Task, Gap, Capability, GapCapability, User, Agent, MaxRevision,
    Manifest, Key, Candidate, Request,
    MaxRecords,  \* evidence, approvals, bases and levels in a behaviour
    None

VARIABLES
    area,  \* the part a behaviour belongs to
    tree, nodes, edits, scan, manifests, now, steady, known, answer,
    evidence, approvals, basis, levels, tasks,
    assetRows, knowledgeRows, parents, commands, asked, handed

sVars == <<tree, nodes, edits, scan, manifests, now, steady, known, answer>>
pVars == <<evidence, approvals, basis, levels, tasks>>
cVars == <<assetRows, knowledgeRows, parents, commands, asked, handed>>

Start == (<<1>> :> 1) @@ (<<1, 1>> :> 2) @@ (<<1, 2>> :> 3) @@ (<<1, 9>> :> 4)

Paths == DOMAIN Start \cup {<<2>>}

(* The paths that each of two scopes lists. *)
TwoAllowed == <<{<<1>>}, {<<2>>, <<1, 2>>}>>
TwoDenied == <<{<<1, 2>>}, {}>>

S == INSTANCE ProjectScans


(* A recorded rescan is repeated after the edits and, as walks write nothing, apart from
   another walk. *)
Repeats(c) == scan[c] # None /\ S!Recorded(scan[c].command) # {}

RepeatsAreFew ==
    \A c \in Scanner :
        (scan[c] = None /\ scan'[c] # None /\ \E d \in Scanner : Repeats(d)') =>
            /\ edits = MaxEdits
            /\ \A d \in Scanner \ {c} :
                scan[d] # None =>
                    scan[d].at # "walk" /\ ~(Repeats(c)' /\ Repeats(d)')

(* Every gap is of one capability. *)
OneCapability == [g \in Gap |-> CHOOSE c \in Capability : TRUE]

P == INSTANCE Projects

(* The second is the first with its content edited. *)
SomeCandidates ==
    {[id |-> 1, class |-> 1, revision |-> 1, terms |-> {1}, content |-> 1],
     [id |-> 1, class |-> 1, revision |-> 1, terms |-> {1}, content |-> 2],
     [id |-> 2, class |-> 1, revision |-> 2, terms |-> {1}, content |-> 1],
     [id |-> 3, class |-> 2, revision |-> 1, terms |-> {1, 2}, content |-> 1]}

Lists ==
    {list \in UNION {[1..n -> SomeCandidates] : n \in 0..3} :
        Cardinality({list[i].id : i \in DOMAIN list}) = Len(list)}

SomeRequests ==
    [candidates : Lists, allowed : {{1}, {1, 2}}, explicit : {{}, {1, 3}},
     terms : {{1}, {1, 2}}, max : 1..2, knowledge : {<<1, 2>>, <<2, 1>>}]

C == INSTANCE Contexts

ASSUME ProjectsAssumption == S!ScanAssumption /\ C!ContextAssumption

Records ==
    Cardinality({e \in Evidence : evidence[e] # <<>>}) + Cardinality(approvals)
    + Cardinality(basis)

Init ==
    /\ area \in {"files", "levels", "tasks", "contexts"}
    /\ S!ScanInit
    /\ area = "files" \/ steady
    /\ tree = [p \in Path |-> IF p \in DOMAIN Start THEN Start[p] ELSE None]
    /\ nodes = [n \in Node |->
                    IF n = 5 THEN None
                    ELSE [kind |-> IF n = 1 THEN "dir" ELSE "file", version |-> 1]]
    /\ P!ProjectInit
    /\ C!ContextInit

Next ==
    /\ \/ /\ area = "files"
          /\ S!ScanNext
          /\ RepeatsAreFew
          /\ UNCHANGED <<pVars, cVars>>
       \/ /\ area = "levels"
          /\ P!LevelNext
          /\ Records' <= MaxRecords
          /\ UNCHANGED <<sVars, cVars>>
       \/ /\ area = "tasks"
          /\ P!TaskNext
          /\ UNCHANGED <<sVars, cVars>>
       \/ /\ area = "contexts"
          /\ C!ContextNext
          /\ UNCHANGED <<sVars, pVars>>
    /\ UNCHANGED area

Spec == Init /\ [][Next]_<<area, sVars, pVars, cVars>>

Symmetry == Permutations(Scanner) \cup Permutations(Command) \cup Permutations(Project) \cup Permutations(Evidence)

(* The scanner reads nothing that is denied, secret or outside the project; an entry is
   a content the file has had, never parts of two; the differences that manifests were
   recorded with add up to what the latest one lists; and every difference that is
   returned is that of recorded manifests. *)
ScansAreFaithful ==
    /\ S!ScanTypeOK
    /\ S!ReadsOnlyThePermitted /\ S!EntriesAreWhole
    /\ S!DiffsAddUp /\ S!AnswersAreDerivable

(* A capability's level rests on accepted evidence of its own project, and is ready for
   a resume only by the user's approval of that very revision; evidence goes stale once
   and keeps the rest; an enhancement task keeps its gap and the order of its states. *)
LevelsAreEarned ==
    P!ProjectTypeOK /\ P!LevelIsEarned /\ P!StaleKeepsTheRest /\ P!TasksRunTheirCourse

(* A context handed out is the recorded one, in the same revisions and contents; the
   order in which candidates are listed makes no difference to it; and its limit cuts
   nothing that matches better than what it keeps. *)
ContextsAreRecorded ==
    C!ContextTypeOK /\ C!HandedIsRecorded /\ C!OrderDoesNotMatter /\ C!LimitCutsTheWeakest
=============================================================================
