-------------------------------- MODULE Contexts --------------------------------
(***************************************************************************)
(* The context a model is given and the manifest that records it:          *)
(* core/context/compiler.py, services/context_service.py and               *)
(* db/context_writes.py.  A caller supplies candidates, which may have     *)
(* changed by the time it retries; the assets that are selected, and the   *)
(* reason for every candidate, are committed before the context is handed  *)
(* over.  Assets, classes and knowledge are numbers in the order of their  *)
(* names; the content of an asset stands for its title and payload.        *)
(***************************************************************************)
EXTENDS Integers, Sequences, FiniteSets, SequencesExt

CONSTANTS
    Manifest, Key,  \* ids of manifests, and idempotency keys
    Candidate,      \* [id, class, revision, terms, content]
    Request,        \* [candidates, allowed, explicit, terms, max, knowledge]
    None

VARIABLES
    assetRows,      \* context_manifest_asset_ref
    knowledgeRows,  \* context_manifest_knowledge_ref
    parents,        \* context_manifest, by manifest
    commands,       \* what each key has been used for
    asked,          \* the request that each manifest was made for
    handed          \* the contexts that callers were given

contextVars == <<assetRows, knowledgeRows, parents, commands, asked, handed>>

Disposition == {"included", "excluded"}

SelectionReason == {"explicit_reference", "relevance_term_match"}

ExclusionReason == {"asset_class_not_allowed", "no_relevance_match", "selection_limit"}

Ids(candidates) == {candidates[i].id : i \in DOMAIN candidates}

Explicit(r) ==
    {i \in DOMAIN r.candidates :
        r.candidates[i].id \in r.explicit /\ r.candidates[i].class \in r.allowed}

(* Mutant: more may be asked for than there is room for. *)
WithinBoundary_Any(r) ==
    /\ Cardinality(Ids(r.candidates)) = Len(r.candidates)
    /\ Cardinality(Range(r.knowledge)) = Len(r.knowledge)
    /\ r.explicit \subseteq Ids(r.candidates)

(* validate_selection_boundary *)
WithinBoundary(r) ==
    /\ Cardinality(Ids(r.candidates)) = Len(r.candidates)
    /\ Cardinality(Range(r.knowledge)) = Len(r.knowledge)
    /\ r.explicit \subseteq Ids(r.candidates)
    /\ Cardinality(Explicit(r)) <= r.max

-----------------------------------------------------------------------------
Ref(c) == [id |-> c.id, class |-> c.class, revision |-> c.revision]

Item(c, reason, matched) == [ref |-> Ref(c), reason |-> reason, matched |-> matched]

(* How a candidate fares before the limit. *)
Judged(r, c) ==
    LET matched == r.terms \cap c.terms IN
    IF c.class \notin r.allowed THEN Item(c, "asset_class_not_allowed", {})
    ELSE IF c.id \in r.explicit THEN Item(c, "explicit_reference", {})
    ELSE IF matched = {} THEN Item(c, "no_relevance_match", {})
    ELSE Item(c, "relevance_term_match", matched)

RefBefore(p, q) ==
    \/ p.class < q.class
    \/ p.class = q.class /\ p.id < q.id

Score(item) == <<IF item.reason = "explicit_reference" THEN 1 ELSE 0, Cardinality(item.matched)>>

(* Mutant: equals stay in the order they were supplied in. *)
Before_Score(p, q) ==
    \/ Score(p)[1] > Score(q)[1]
    \/ Score(p)[1] = Score(q)[1] /\ Score(p)[2] > Score(q)[2]

(* The key that the ranked are sorted by. *)
Before(p, q) ==
    \/ Score(p)[1] > Score(q)[1]
    \/ Score(p)[1] = Score(q)[1] /\ Score(p)[2] > Score(q)[2]
    \/ Score(p) = Score(q) /\ RefBefore(p.ref, q.ref)

(* Things one after another, of which it is known what comes before each: the n-th has
   n - 1 before it. *)
InOrder(before) ==
    [n \in 1..Cardinality(DOMAIN before) |->
        CHOOSE x \in DOMAIN before : Cardinality(before[x]) = n - 1]

Judgements(r) == [i \in DOMAIN r.candidates |-> Judged(r, r.candidates[i])]

(* The candidates that the limit may cut. *)
Ranking(judged) == {i \in DOMAIN judged : judged[i].reason \in SelectionReason}

(* Sorting leaves equals in the order they are in. *)
RankedBefore(judged) ==
    LET ranking == Ranking(judged) IN
    [j \in ranking |->
        {i \in ranking :
            \/ Before(judged[i], judged[j])
            \/ ~Before(judged[j], judged[i]) /\ i < j}]

LeftBefore(judged, left) ==
    [j \in left |-> {i \in left : RefBefore(judged[i].ref, judged[j].ref)}]

(* A candidate that ranks is left out by the limit alone. *)
LeftOut(item) ==
    IF item.reason \in SelectionReason
    THEN [item EXCEPT !.reason = "selection_limit", !.matched = {}] ELSE item

(* The ranked candidates that the limit keeps. *)
Kept(judged, max) ==
    LET ranked == InOrder(RankedBefore(judged))
    IN  SubSeq(ranked, 1, IF max < Len(ranked) THEN max ELSE Len(ranked))

(* DeterministicRelevanceSelector.select *)
Select(r) ==
    LET judged == Judgements(r)
        kept == Kept(judged, r.max)
        left == DOMAIN judged \ Range(kept)
        rest == InOrder(LeftBefore(judged, left))
    IN  [included |-> [n \in DOMAIN kept |-> judged[kept[n]]],
         excluded |-> [n \in DOMAIN rest |-> LeftOut(judged[rest[n]])]]

CandidateOf(r, ref) ==
    r.candidates[CHOOSE i \in DOMAIN r.candidates : r.candidates[i].id = ref.id]

(* Mutant: the references of the assets are hashed, and not what they say. *)
InputHash_Refs(assets, knowledge) == <<[i \in DOMAIN assets |-> Ref(assets[i])], knowledge>>

(* context_input_hash; the task's input and the names of tools are always the same. *)
InputHash(assets, knowledge) == <<assets, knowledge>>

Ascending(numbers) ==
    LET order == InOrder([j \in DOMAIN numbers |->
                            {i \in DOMAIN numbers : numbers[i] < numbers[j]}])
    IN  [n \in DOMAIN order |-> numbers[order[n]]]

(* BasicContextCompiler.compile *)
Compile(r) ==
    LET selection == Select(r)
        assets == [i \in DOMAIN selection.included |->
                        CandidateOf(r, selection.included[i].ref)]
        knowledge == Ascending(r.knowledge)
    IN  [assets |-> assets, knowledge |-> knowledge,
         manifest |-> [included |-> selection.included, excluded |-> selection.excluded,
                       knowledge |-> knowledge, hash |-> InputHash(assets, knowledge)]]

(* _validate_compiled: whichever compiler it was, every candidate has one disposition,
   under its own reference, and the assets are the caller's. *)
Validated(r, c) ==
    LET items == c.manifest.included \o c.manifest.excluded IN
    /\ Len(items) = Len(r.candidates)
    /\ \A i \in DOMAIN items :
        /\ items[i].ref.id \in Ids(r.candidates)
        /\ Ref(CandidateOf(r, items[i].ref)) = items[i].ref
    /\ c.assets = [i \in DOMAIN c.manifest.included |->
                        CandidateOf(r, c.manifest.included[i].ref)]
    /\ c.manifest.hash = InputHash(c.assets, c.knowledge)

-----------------------------------------------------------------------------
AssetItem ==
    [ref : {Ref(c) : c \in Candidate}, reason : SelectionReason \cup ExclusionReason,
     matched : SUBSET UNION {c.terms : c \in Candidate}]

ContextManifest ==
    [included : Seq(AssetItem), excluded : Seq(AssetItem), knowledge : Seq(Nat),
     hash : Seq(Candidate) \X Seq(Nat)]

AssetRow ==
    [manifest : Manifest, ordinal : Nat, disposition : Disposition, item : AssetItem]

ParentRow ==
    [included : Nat, excluded : Nat, knowledge : Nat, hash : Seq(Candidate) \X Seq(Nat)]

(* What a request is; and None is neither the row of a manifest nor the use of a key. *)
ContextAssumption ==
    /\ Candidate \subseteq
        [id : Nat, class : Nat, revision : Nat, terms : SUBSET Nat, content : Nat]
    /\ \A c \in Candidate : IsFiniteSet(c.terms)
    /\ Request \subseteq
        [candidates : Seq(Candidate), allowed : SUBSET Nat, explicit : SUBSET Nat,
         terms : SUBSET Nat, max : Nat, knowledge : Seq(Nat)]
    /\ None \notin ParentRow
    /\ None \notin Manifest \X ContextManifest

(* The table's constraint: matched terms are the reason of a match alone. *)
Reasoned(row) ==
    /\ row.item.reason \in
        (IF row.disposition = "included" THEN SelectionReason ELSE ExclusionReason)
    /\ row.item.reason = "relevance_term_match" <=> row.item.matched # {}

RowsOf(m, d) == {row \in assetRows : row.manifest = m /\ row.disposition = d}

ParentOf(manifest) ==
    [included |-> Len(manifest.included), excluded |-> Len(manifest.excluded),
     knowledge |-> Len(manifest.knowledge), hash |-> manifest.hash]

(* The rows of one disposition, numbered from zero. *)
Numbered(m, d, items) ==
    {[manifest |-> m, ordinal |-> i - 1, disposition |-> d, item |-> items[i]] :
        i \in DOMAIN items}

(* The triggers of the parent row: its counts are those of its children, whose
   numbers have no gap. *)
CountsMatch(m, parent, rows, known) ==
    LET Of(d) == {row \in rows : row.manifest = m /\ row.disposition = d}
        Gapless(n, s) == Cardinality(s) = n /\ \A row \in s : row.ordinal < n
    IN  /\ Gapless(parent.included, Of("included"))
        /\ Gapless(parent.excluded, Of("excluded"))
        /\ Gapless(parent.knowledge, {row \in known : row.manifest = m})

(* Children come before their parent, which seals them. *)
Unsealed(m) == parents[m] = None

(* ContextManifestWrite.stage *)
StageManifest(m, manifest) ==
    LET rows == Numbered(m, "included", manifest.included)
                    \cup Numbered(m, "excluded", manifest.excluded)
        known == {[manifest |-> m, ordinal |-> i - 1, id |-> manifest.knowledge[i]] :
                    i \in DOMAIN manifest.knowledge}
    IN  /\ Unsealed(m)
        /\ \A row \in rows : Reasoned(row)
        /\ assetRows' = assetRows \cup rows
        /\ knowledgeRows' = knowledgeRows \cup known
        /\ CountsMatch(m, ParentOf(manifest), assetRows', knowledgeRows')
        /\ parents' = [parents EXCEPT ![m] = ParentOf(manifest)]

(* ContextManifestRepository.get: the rows in their order. *)
ReadManifest(m) ==
    LET ByOrdinal(rows) == InOrder([q \in rows |-> {p \in rows : p.ordinal < q.ordinal}])
        included == ByOrdinal(RowsOf(m, "included")')
        excluded == ByOrdinal(RowsOf(m, "excluded")')
        known == ByOrdinal({row \in knowledgeRows' : row.manifest = m})
    IN  [included |-> [i \in DOMAIN included |-> included[i].item],
         excluded |-> [i \in DOMAIN excluded |-> excluded[i].item],
         knowledge |-> [i \in DOMAIN known |-> known[i].id],
         hash |-> parents'[m].hash]

ContextInit ==
    /\ assetRows = {}
    /\ knowledgeRows = {}
    /\ parents = [m \in Manifest |-> None]
    /\ commands = [k \in Key |-> None]
    /\ asked = [m \in Manifest |-> None]
    /\ handed = {}

(* The command: a key that was used is answered again when everything that the
   manifest says is the same, and refused otherwise. *)
Commit(k, m, r, manifest) ==
    IF commands[k] = None
    THEN /\ StageManifest(m, manifest)
         /\ commands' = [commands EXCEPT ![k] = <<m, manifest>>]
         /\ asked' = [asked EXCEPT ![m] = r]
    ELSE /\ commands[k] = <<m, manifest>>
         /\ UNCHANGED <<assetRows, knowledgeRows, parents, commands, asked>>

(* The context that is returned has the manifest that is read back. *)
Record(k, m, r, compiled) ==
    /\ Commit(k, m, r, compiled.manifest)
    /\ handed' = handed \cup
            {[id |-> m, context |-> [compiled EXCEPT !.manifest = ReadManifest(m)]]}

CompileAndRecord(r) ==
    /\ WithinBoundary(r)
    /\ LET compiled == Compile(r) IN
        /\ Validated(r, compiled)
        /\ \E k \in Key, m \in Manifest : Record(k, m, r, compiled)

ContextNext == \E r \in Request : CompileAndRecord(r)

ContextSpec == ContextInit /\ [][ContextNext]_contextVars

-----------------------------------------------------------------------------
(* The tables of migration 0005. *)
AssetTable == SUBSET {row \in AssetRow : Reasoned(row)}
KnowledgeTable == SUBSET [manifest : Manifest, ordinal : Nat, id : Nat]

(* The rows satisfy the tables' constraints. *)
ContextTypeOK ==
    /\ assetRows \in AssetTable
    /\ knowledgeRows \in KnowledgeTable
    /\ \A m \in Manifest : parents[m] # None =>
        parents[m] \in ParentRow /\ CountsMatch(m, parents[m], assetRows, knowledgeRows)

(* What a model was given is what the manifest says it was given, in the first
   answer and in every retry, though the caller's candidates may have moved on: the
   same assets in the same revisions and with the same content. *)
HandedIsRecorded ==
    \A h \in handed :
        /\ h.context.manifest.included =
                [i \in DOMAIN h.context.assets |->
                    [ref |-> Ref(h.context.assets[i]),
                     reason |-> h.context.manifest.included[i].reason,
                     matched |-> h.context.manifest.included[i].matched]]
        /\ \A row \in RowsOf(h.id, "included") :
                h.context.manifest.included[row.ordinal + 1] = row.item
        /\ \A g \in handed : g.id = h.id => g.context = h.context

(* The order in which the caller lists its candidates and its knowledge makes no
   difference: the retry that lists them otherwise is answered again. *)
OrderDoesNotMatter ==
    \A h \in handed :
        LET r == asked[h.id] IN
        \A other \in {[r EXCEPT !.candidates = Reverse(@)], [r EXCEPT !.knowledge = Reverse(@)]} :
            Compile(other).manifest = h.context.manifest

(* Nothing of a class that was not allowed gets in, not even when it is asked for by
   name; everything else that is asked for by name does; and the limit only ever cuts
   what matches no better than what it keeps. *)
LimitCutsTheWeakest ==
    \A h \in handed :
        LET r == asked[h.id]
            In == Ids(h.context.assets)
            Matches(c) == Cardinality(c.terms \cap r.terms)
            Eligible == {i \in DOMAIN r.candidates : r.candidates[i].class \in r.allowed}
        IN  /\ \A i \in DOMAIN r.candidates \ Eligible : r.candidates[i].id \notin In
            /\ \A i \in Eligible : r.candidates[i].id \in r.explicit => r.candidates[i].id \in In
            /\ \A i \in Eligible :
                (r.candidates[i].id \notin In /\ Matches(r.candidates[i]) > 0) =>
                    /\ Cardinality(In) = r.max
                    /\ \A c \in Range(h.context.assets) :
                        c.id \in r.explicit \/ Matches(c) >= Matches(r.candidates[i])
=============================================================================
