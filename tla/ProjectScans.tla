----------------------------- MODULE ProjectScans -----------------------------
(***************************************************************************)
(* Scanning a project's files: services/project_scanner.py (the POSIX      *)
(* reader) and services/project_scan_service.py.  A scan walks the tree    *)
(* while the user goes on editing it, then the manifest is committed as    *)
(* the one that follows the latest, and the caller gets the differences.   *)
(* A command that was recorded may be repeated, and is scanned for again.  *)
(* A path is the tuple of its names, which are numbers in their order; a   *)
(* file is read in two chunks, and its version stands for its content and  *)
(* for the time of its last change.                                        *)
(***************************************************************************)
EXTENDS Integers, Sequences, FiniteSets, SequencesExt

CONSTANTS
    Scanner,            \* threads that rescan
    Command,            \* rescans the caller asks for, each with a manifest id of its own
    Path,               \* paths that may come to exist
    Secret,             \* names that are never read
    Scope,              \* revisions of the project's scan scope
    Allowed, Denied,    \* the paths each of them lists
    Node,               \* files and directories; Outside is reached only by a link
    Outside,
    MaxEdits, MaxTime,
    None

NodeState == [kind : {"file", "dir", "link"}, version : Nat \ {0}]

(* A path has a name; None is no node and no node's state. *)
ScanAssumption ==
    /\ IsFiniteSet(Path) /\ Path \subseteq Seq(Nat) \ {<<>>}
    /\ Outside \in Node /\ None \notin Node \cup NodeState
    /\ MaxTime \in Nat

VARIABLES
    tree,       \* what stands at every path
    nodes,      \* its kind and version
    edits,      \* edits so far
    scan,       \* the rescan of each thread
    manifests,  \* project_source_manifest with its entries, in the order of insertion
    now,        \* the clock that manifests are stamped with
    steady,     \* whether the clock never goes back
    known,      \* history: the files, to whoever applies the differences of each record
    answer      \* history: what the last step has returned

scanVars == <<tree, nodes, edits, scan, manifests, now, steady, known, answer>>

(* _is_same_or_descendant *)
Within(path, parent) == IsPrefix(parent, path)

(* ProjectScanScope.permits: what is denied stays denied. *)
Permits(s, path) ==
    /\ \A d \in Denied[s] : ~Within(path, d)
    /\ \E a \in Allowed[s] : Within(path, a)

(* _is_hard_denied: whatever the scope says. *)
HardDenied(path) == \E i \in DOMAIN path : path[i] \in Secret

(* _is_scope_relevant: the permitted and the directories on the way to them. *)
Relevant(s, path) ==
    /\ \A d \in Denied[s] : ~Within(path, d)
    /\ Permits(s, path) \/ \E a \in Allowed[s] : Within(a, path)

Children(path) == {p \in Path : tree[p] # None /\ Front(p) = path}

(* The names of a directory, in order, without those that are passed over. *)
Listed(s, path) ==
    CHOOSE list \in SetToSeqs({p \in Children(path) : ~HardDenied(p) /\ Relevant(s, p)}) :
        \A i, j \in DOMAIN list : i < j => Last(list[i]) < Last(list[j])

ScanInit ==
    /\ edits = 0
    /\ scan = [c \in Scanner |-> None]
    /\ manifests = <<>>
    /\ now = 0
    /\ steady \in BOOLEAN
    /\ known = {}
    /\ answer = None

-----------------------------------------------------------------------------
(* The user's edits. *)
Parent(path) == IF Len(path) = 1 THEN "dir" ELSE
                IF tree[Front(path)] = None THEN None ELSE nodes[tree[Front(path)]].kind

Create ==
    /\ edits < MaxEdits
    /\ edits' = edits + 1
    /\ \E p \in Path, n \in Node, kind \in {"file", "link"} :
        /\ tree[p] = None
        /\ Parent(p) = "dir"
        /\ nodes[n] = None
        /\ tree' = [tree EXCEPT ![p] = n]
        /\ nodes' = [nodes EXCEPT ![n] = [kind |-> kind, version |-> 1]]
    /\ answer' = None
    /\ UNCHANGED <<scan, manifests, now, steady, known>>

Edit ==
    /\ edits < MaxEdits
    /\ edits' = edits + 1
    /\ \E p \in Path :
        /\ tree[p] # None
        /\ nodes[tree[p]].kind = "file"
        /\ nodes' = [nodes EXCEPT ![tree[p]].version = @ + 1]
    /\ answer' = None
    /\ UNCHANGED <<tree, scan, manifests, now, steady, known>>

Delete ==
    /\ edits < MaxEdits
    /\ edits' = edits + 1
    /\ \E p \in Path :
        /\ tree[p] # None
        /\ Children(p) = {}
        /\ tree' = [tree EXCEPT ![p] = None]
    /\ answer' = None
    /\ UNCHANGED <<nodes, scan, manifests, now, steady, known>>

-----------------------------------------------------------------------------
(* The scan.  Every failure gives the whole scan up. *)
Step(c, to) ==
    /\ scan' = [scan EXCEPT ![c] = to]
    /\ answer' = None
    /\ UNCHANGED <<tree, nodes, edits, manifests, now, steady, known>>

(* LocalProjectScanner.scan and the root's directory *)
Scan(c) ==
    /\ scan[c] = None
    /\ \E command \in Command, s \in Scope :
        Step(c, [at |-> "walk", command |-> command, scope |-> s,
                 todo |-> Listed(s, <<>>), open |-> None,
                 entries |-> {}, previous |-> 0, diff |-> None])

(* Mutant: a link is followed. *)
Opened_Follow(path) ==
    IF tree[path] = None THEN None
    ELSE IF nodes[tree[path]].kind = "link" THEN Outside ELSE tree[path]

(* _open_child: the entry may have gone, and a link is refused. *)
Opened(path) ==
    IF tree[path] = None \/ nodes[tree[path]].kind = "link" THEN None ELSE tree[path]

(* _scan_directory, one entry: a directory's own entries come next; the state of a
   permitted file is noted before it is read. *)
OpenChild(c) ==
    /\ scan[c] # None
    /\ scan[c].at = "walk" /\ scan[c].open = None /\ scan[c].todo # <<>>
    /\ LET path == Head(scan[c].todo)  node == Opened(path)  rest == Tail(scan[c].todo) IN
        IF node = None THEN Step(c, None)
        ELSE IF nodes[node].kind = "dir"
             THEN Step(c, [scan[c] EXCEPT !.todo = Listed(scan[c].scope, path) \o rest])
             ELSE Step(c, [scan[c] EXCEPT !.todo = rest,
                              !.open = IF ~Permits(scan[c].scope, path) THEN None
                                       ELSE [path |-> path, node |-> node,
                                             before |-> nodes[node].version, first |-> 0]])

ReadFirst(c) ==
    /\ scan[c] # None
    /\ scan[c].open # None
    /\ scan[c].open.first = 0
    /\ Step(c, [scan[c] EXCEPT !.open.first = nodes[scan[c].open.node].version])

(* Mutant: only the size is compared, and an edit may keep it. *)
SameFile_Size(open) == TRUE

(* _stat_identity before and after *)
SameFile(open) == open.before = nodes[open.node].version

(* The rest of _read_file: a file that has been written to meanwhile is refused. *)
ReadRest(c) ==
    /\ scan[c] # None
    /\ scan[c].open # None
    /\ scan[c].open.first # 0
    /\ LET open == scan[c].open IN
        IF ~SameFile(open) THEN Step(c, None)
        ELSE Step(c, [scan[c] EXCEPT !.open = None,
                         !.entries = @ \cup {[path |-> open.path, node |-> open.node,
                                              content |-> <<open.first, nodes[open.node].version>>]}])

(* Mutant: a project without a single file passes. *)
Walked_Empty(c) ==
    /\ scan[c] # None
    /\ scan[c].at = "walk" /\ scan[c].open = None /\ scan[c].todo = <<>>
    /\ Step(c, [scan[c] EXCEPT !.at = "walked"])

(* A project without a single file is refused. *)
Walked(c) ==
    /\ scan[c] # None
    /\ scan[c].at = "walk" /\ scan[c].open = None /\ scan[c].todo = <<>>
    /\ IF scan[c].entries = {} THEN Step(c, None) ELSE Step(c, [scan[c] EXCEPT !.at = "walked"])

-----------------------------------------------------------------------------
(* ORDER BY generated_at DESC, manifest_id DESC LIMIT 1: 0 when there is none. *)
LatestManifest ==
    IF manifests = <<>> THEN 0
    ELSE CHOOSE i \in DOMAIN manifests :
            \A j \in DOMAIN manifests : manifests[j].at <= manifests[i].at

Files(entries) == {e.path : e \in entries}

ContentOf(entries, path) == (CHOOSE e \in entries : e.path = path).content

(* get_source_manifest: the entries of a manifest. *)
EntriesOf(i) == IF i = 0 THEN {} ELSE manifests[i].entries

(* _diff_manifests *)
Diff(before, after) ==
    [added |-> Files(after) \ Files(before),
     removed |-> Files(before) \ Files(after),
     changed |-> {p \in Files(after) \cap Files(before) :
                    ContentOf(after, p) # ContentOf(before, p)}]

(* rescan, up to its command: the history is read after the files. *)
ReadHistory(c) ==
    /\ scan[c] # None
    /\ scan[c].at = "walked"
    /\ Step(c, [scan[c] EXCEPT !.at = "commit", !.previous = LatestManifest,
                               !.diff = Diff(EntriesOf(LatestManifest), scan[c].entries)])

(* Mutant: another manifest may have come in between. *)
BuildsOnLatest_Any(previous) == TRUE

BuildsOnLatest(previous) == previous = LatestManifest

(* The table's trigger: an entry is in the scope that the manifest names. *)
InScope(s, entries) == \A e \in entries : Permits(s, e.path)

(* The manifest a command was recorded with. *)
Recorded(command) == {i \in DOMAIN manifests : manifests[i].command = command}

Contents(entries) == {<<e.path, e.content>> : e \in entries}

(* Mutant: the key alone answers. *)
SameManifest_Key(row, rescan) == TRUE

(* idempotency_payload: the whole manifest but its time *)
SameManifest(row, rescan) ==
    row.scope = rescan.scope /\ Contents(row.entries) = Contents(rescan.entries)

(* ProjectRescanWrite.stage: the manifest with its entries. *)
StageManifest(previous, row) ==
    /\ BuildsOnLatest(previous)
    /\ InScope(row.scope, row.entries)
    /\ manifests' = Append(manifests, row)

(* What rescan returns: the recorded manifest and the difference it has found. *)
Answer(c, manifest) ==
    /\ answer' = [manifest |-> manifest, previous |-> scan[c].previous, diff |-> scan[c].diff]
    /\ scan' = [scan EXCEPT ![c] = None]
    /\ UNCHANGED <<tree, nodes, edits, steady>>

(* The command; two of them do not share an instant. *)
CommitRescan(c) ==
    /\ scan[c] # None
    /\ scan[c].at = "commit"
    /\ Recorded(scan[c].command) = {}
    /\ \E t \in 1..MaxTime :
        /\ \A i \in DOMAIN manifests : manifests[i].at # t
        /\ steady => t > now
        /\ now' = t
        /\ StageManifest(scan[c].previous,
                         [command |-> scan[c].command, scope |-> scan[c].scope,
                          entries |-> scan[c].entries, at |-> t])
    /\ known' = (known \ scan[c].diff.removed) \cup scan[c].diff.added
    /\ Answer(c, Len(manifests) + 1)

(* A command that was recorded with the same manifest is answered from the record,
   whatever is the latest by now; the difference is the one just computed. *)
ReplayRescan(c) ==
    /\ scan[c] # None
    /\ scan[c].at = "commit"
    /\ \E i \in Recorded(scan[c].command) :
        SameManifest(manifests[i], scan[c]) /\ Answer(c, i)
    /\ UNCHANGED <<manifests, now, known>>

(* A repetition with other files or another scope is in conflict with the record. *)
RefuseRescan(c) ==
    /\ scan[c] # None
    /\ scan[c].at = "commit"
    /\ IF Recorded(scan[c].command) = {}
       THEN ~BuildsOnLatest(scan[c].previous) \/ ~InScope(scan[c].scope, scan[c].entries)
       ELSE \A i \in Recorded(scan[c].command) : ~SameManifest(manifests[i], scan[c])
    /\ Step(c, None)

ScanNext ==
    \/ Create \/ Edit \/ Delete
    \/ \E c \in Scanner :
        \/ Scan(c) \/ OpenChild(c) \/ ReadFirst(c) \/ ReadRest(c) \/ Walked(c)
        \/ ReadHistory(c) \/ CommitRescan(c) \/ ReplayRescan(c) \/ RefuseRescan(c)

(* A tree as a file system may hold it.  Nothing outside is reached by a path. *)
TreeTypeOK ==
    /\ tree \in [Path -> (Node \ {Outside}) \cup {None}]
    /\ nodes \in [Node -> NodeState \cup {None}]
    /\ nodes[Outside] # None
    /\ \A p \in Path : tree[p] # None => nodes[tree[p]] # None

ScanSpec == TreeTypeOK /\ ScanInit /\ [][ScanNext]_scanVars

-----------------------------------------------------------------------------
(* project_source_manifest with the entries of project_source_entry, whose key is
   the manifest and the path. *)
ManifestRow(row) ==
    /\ row.scope \in Scope
    /\ \A e \in row.entries :
        e.path \in Path /\ \A f \in row.entries : f.path = e.path => f = e

(* Manifests are made of listed files, one entry for each. *)
ScanTypeOK ==
    /\ \A i \in DOMAIN manifests :
        ManifestRow(manifests[i]) /\ manifests[i].entries # {}
    /\ now \in 0..MaxTime

(* Whatever the user does to the tree during the walk, only the files of the project
   that the scope permits are read: nothing behind a link, nothing under a secret
   name at any depth. *)
ReadsOnlyThePermitted ==
    \A i \in DOMAIN manifests : \A e \in manifests[i].entries :
        /\ e.node # Outside
        /\ \A k \in DOMAIN e.path : e.path[k] \notin Secret
        /\ \E a \in Allowed[manifests[i].scope] : IsPrefix(a, e.path)
        /\ \A d \in Denied[manifests[i].scope] : ~IsPrefix(d, e.path)

(* An entry is a content the file has had, never the beginning of one and the rest of
   another. *)
EntriesAreWhole ==
    \A i \in DOMAIN manifests : \A e \in manifests[i].entries : e.content[1] = e.content[2]

(* While the clock never goes back, the differences that manifests were recorded with
   add up: whoever has applied them all, in the order of the commits, knows which files
   the latest manifest lists, however many threads rescan and repeat. *)
DiffsAddUp ==
    (steady /\ manifests # <<>>) => known = Files(EntriesOf(LatestManifest))

(* A difference that is returned can be derived from the history: it is the one from a
   recorded manifest, or from none, to the recorded manifest it is returned with; also
   when the command is repeated after later rescans. *)
AnswersAreDerivable ==
    answer # None =>
        /\ answer.manifest \in DOMAIN manifests
        /\ answer.previous \in 0..Len(manifests)
        /\ answer.diff = Diff(EntriesOf(answer.previous), EntriesOf(answer.manifest))
=============================================================================
