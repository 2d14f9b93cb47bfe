------------------------------ MODULE JobStaging ------------------------------
(***************************************************************************)
(* Job postings on their way to an opportunity: the collect, _stage, admit *)
(* and resume_proposal_seed of services/opportunity_radar_service.py over  *)
(* the job_source_run and job_staging_record tables.  A staging id is a    *)
(* hash of the posting and of what it was ranked with, so it is modelled   *)
(* as that pair.  The scores, the terms of a source and the source's       *)
(* health, which steer none of this, are left out; the retry loop of       *)
(* collect is SourceBreaker.                                               *)
(***************************************************************************)
EXTENDS Integers, Sequences, FiniteSets

CONSTANTS
    Collector,  \* threads that execute collect
    Admitter,   \* threads that execute admit or resume_proposal_seed
    Posting,    \* raw records: what url and content are told apart by
    Inputs,     \* what the user asks the postings to be ranked with
    Run,        \* ids of collects
    MaxTime,    \* bound: times a posting may say it was captured at
    MaxBatch,   \* bound: postings a search returns
    None

Staging == Posting \X Inputs

Row == [status : {"staged", "duplicate", "admitted"}, duplicate_of : Staging \cup {None},
        run : Run, at : 1..MaxTime]

Batch == UNION {[1..n -> Posting] : n \in 0..MaxBatch}

(* What collect and admit hold in local variables. *)
Collecting ==
    [run : Run, batch : Batch, inputs : Inputs, at : 1..MaxTime, next : 1..MaxBatch + 1,
     rows : [Staging -> Row \cup {None}], answer : SUBSET Staging]

Admitting == [id : Staging, replayed : BOOLEAN]

(* None is no value of these types, and a thread collects or admits. *)
StagingAssumption ==
    /\ MaxTime \in Nat /\ MaxBatch \in Nat
    /\ Collector \cap Admitter = {}
    /\ None \notin Collector \cup Staging \cup Row
    /\ None \notin Collecting
    /\ None \notin {"completed", "failed"}

VARIABLES
    rows,          \* job_staging_record, with the evidence inserted beside a row
    runs,          \* job_source_run
    files,         \* the artifact store: raw records whose file exists
    jobs,          \* Job revisions, by the staged record they come from
    opportunities, \* admitted Opportunities, likewise
    writer,        \* the thread in a write transaction
    step, held,    \* where each thread is, and what it holds
    collected,     \* history: the records collects have answered with
    admitted,      \* history: the records users were told are admitted
    seeded         \* history: the records that a resume proposal was seeded from

stagingVars == <<rows, runs, files, jobs, opportunities, writer, step, held,
                 collected, admitted, seeded>>

StagingInit ==
    /\ rows = [id \in Staging |-> None]
    /\ runs = [r \in Run |-> None]
    /\ files = {}
    /\ jobs = {}
    /\ opportunities = {}
    /\ writer = None
    /\ step = [t \in Collector \cup Admitter |-> "idle"]
    /\ held = [t \in Collector \cup Admitter |-> None]
    /\ collected = {}
    /\ admitted = {}
    /\ seeded = {}

Go(t, next) == step' = [step EXCEPT ![t] = next]

Rest(t) ==
    /\ Go(t, "idle")
    /\ held' = [held EXCEPT ![t] = None]

Unused == {r \in Run : runs[r] = None /\ \A c \in Collector : held[c] # None => held[c].run # r}

(* The search has answered; the run gets its id. *)
SearchAnswers(c) ==
    /\ step[c] = "idle"
    /\ \E batch \in Batch, inputs \in Inputs, run \in Unused, at \in 1..MaxTime :
          held' = [held EXCEPT ![c] =
                     [run |-> run, batch |-> batch, inputs |-> inputs, at |-> at,
                      next |-> 1, rows |-> rows, answer |-> {}]]
    /\ Go(c, "found")
    /\ UNCHANGED <<rows, runs, files, jobs, opportunities, writer, collected, admitted, seeded>>

(* All records are normalised, and the first statement, the INSERT of the run,
   takes the write lock: what is read from here on is what is written to. *)
BeginStaging(c) ==
    /\ step[c] = "found"
    /\ writer = None
    /\ writer' = c
    /\ held' = [held EXCEPT ![c].rows = rows]
    /\ Go(c, "staging")
    /\ UNCHANGED <<rows, runs, files, jobs, opportunities, collected, admitted, seeded>>

Same(a, b) == a.url = b.url \/ a.content = b.content

(* Mutant: duplicates are looked for outside the transaction. *)
DuplicateOf_Outside(seen, posting) ==
    LET same == {id \in Staging : rows[id] # None /\ Same(id[1], posting)}
    IN  IF same = {} THEN {None}
        ELSE {id \in same : \A other \in same : rows[id].at <= rows[other].at}

(* find_duplicate: of the rows with the same url or the same content one of those
   captured first. *)
DuplicateOf(seen, posting) ==
    LET same == {id \in Staging : seen[id] # None /\ Same(id[1], posting)}
    IN  IF same = {} THEN {None}
        ELSE {id \in same : \A other \in same : seen[id].at <= seen[other].at}

(* Mutant: the file is only written when the record is no duplicate. *)
StageNext_FileLess(c) ==
    /\ step[c] = "staging"
    /\ held[c].next <= Len(held[c].batch)
    /\ LET h == held[c]
           posting == h.batch[h.next]
           id == <<posting, h.inputs>>
       IN  IF h.rows[id] # None
           THEN /\ held' = [held EXCEPT ![c].answer = @ \cup {id}, ![c].next = @ + 1]
                /\ UNCHANGED files
           ELSE \E d \in DuplicateOf(h.rows, posting) :
                /\ held' = [held EXCEPT
                     ![c].rows[id] = [status |-> IF d = None THEN "staged" ELSE "duplicate",
                                      duplicate_of |-> d, run |-> h.run, at |-> h.at],
                     ![c].answer = @ \cup {id},
                     ![c].next = @ + 1]
                /\ files' = IF d = None THEN files \cup {posting} ELSE files
    /\ UNCHANGED <<rows, runs, jobs, opportunities, writer, step, collected, admitted, seeded>>

(* _stage: a record that is staged already is answered as it is; the file of
   a new one is written before its rows, and stays when they are rolled back. *)
StageNext(c) ==
    /\ step[c] = "staging"
    /\ held[c].next <= Len(held[c].batch)
    /\ LET h == held[c]
           posting == h.batch[h.next]
           id == <<posting, h.inputs>>
       IN  IF h.rows[id] # None
           THEN /\ held' = [held EXCEPT ![c].answer = @ \cup {id}, ![c].next = @ + 1]
                /\ UNCHANGED files
           ELSE \E d \in DuplicateOf(h.rows, posting) :
                /\ held' = [held EXCEPT
                     ![c].rows[id] = [status |-> IF d = None THEN "staged" ELSE "duplicate",
                                      duplicate_of |-> d, run |-> h.run, at |-> h.at],
                     ![c].answer = @ \cup {id},
                     ![c].next = @ + 1]
                /\ files' = files \cup {posting}
    /\ UNCHANGED <<rows, runs, jobs, opportunities, writer, step, collected, admitted, seeded>>

(* The transaction commits, and collect answers. *)
CommitStaging(c) ==
    /\ step[c] = "staging"
    /\ held[c].next > Len(held[c].batch)
    /\ rows' = held[c].rows
    /\ runs' = [runs EXCEPT ![held[c].run] = "completed"]
    /\ collected' = collected \cup held[c].answer
    /\ writer' = None
    /\ Rest(c)
    /\ UNCHANGED <<files, jobs, opportunities, admitted, seeded>>

(* Mutant: what was staged before the error is kept. *)
StagingFails_Keeps(c) ==
    /\ step[c] \in {"found", "staging"}
    /\ rows' = held[c].rows
    /\ writer' = IF writer = c THEN None ELSE writer
    /\ Go(c, "failed")
    /\ UNCHANGED <<runs, files, jobs, opportunities, held, collected, admitted, seeded>>

(* A record cannot be normalised, a file cannot be written, the database stays
   locked, or the COMMIT fails: the transaction is rolled back. *)
StagingFails(c) ==
    /\ step[c] \in {"found", "staging"}
    /\ writer' = IF writer = c THEN None ELSE writer
    /\ Go(c, "failed")
    /\ UNCHANGED <<rows, runs, files, jobs, opportunities, held, collected, admitted, seeded>>

(* The failed run gets its row in a transaction of its own, which may fail. *)
RecordFailedRun(c) ==
    /\ step[c] = "failed"
    /\ writer = None
    /\ runs' \in {runs, [runs EXCEPT ![held[c].run] = "failed"]}
    /\ Rest(c)
    /\ UNCHANGED <<rows, files, jobs, opportunities, writer, collected, admitted, seeded>>

(* admit reads the record before its session. *)
ReadStaged(u) ==
    /\ step[u] = "idle"
    /\ \E id \in Staging :
          /\ rows[id] # None
          /\ rows[id].status = "staged"
          /\ held' = [held EXCEPT ![u] = [id |-> id, replayed |-> FALSE]]
    /\ Go(u, "read")
    /\ UNCHANGED <<rows, runs, files, jobs, opportunities, writer, collected, admitted, seeded>>

(* record_revision looks for its idempotency record, still in autocommit. *)
ReadReceipt(u) ==
    /\ step[u] = "read"
    /\ held' = [held EXCEPT ![u].replayed = held[u].id \in jobs]
    /\ Go(u, "admit")
    /\ UNCHANGED <<rows, runs, files, jobs, opportunities, writer, collected, admitted, seeded>>

(* Mutant: the job is committed in a session of its own. *)
AdmitStaged_OwnSession(u) ==
    /\ step[u] = "admit"
    /\ writer = None
    /\ LET id == held[u].id IN
        /\ held[u].replayed \/ id \notin jobs
        /\ jobs' = jobs \cup {id}
        /\ \/ /\ opportunities' = opportunities \cup {id}
              /\ rows' = [rows EXCEPT ![id].status = IF @ = "staged" THEN "admitted" ELSE @]
              /\ admitted' = admitted \cup {id}
           \/ UNCHANGED <<opportunities, rows, admitted>>
    /\ Rest(u)
    /\ UNCHANGED <<runs, files, writer, collected, seeded>>

(* One transaction: the Job's first revision and the Opportunity's admission,
   both under ids and commands made of the staging id, so that a second admit
   finds their receipts and is answered like the first; and the UPDATE of a
   record that is still staged, whose row count nobody reads. *)
AdmitStaged(u) ==
    /\ step[u] = "admit"
    /\ writer = None
    /\ LET id == held[u].id IN
        /\ held[u].replayed \/ id \notin jobs
        /\ jobs' = jobs \cup {id}
        /\ opportunities' = opportunities \cup {id}
        /\ rows' = [rows EXCEPT ![id].status = IF @ = "staged" THEN "admitted" ELSE @]
        /\ admitted' = admitted \cup {id}
    /\ Rest(u)
    /\ UNCHANGED <<runs, files, writer, collected, seeded>>

(* The Job was committed between the reading and the INSERT, the database stays
   locked, or the COMMIT fails: the session is rolled back, and the user is told. *)
AdmissionFails(u) ==
    /\ step[u] \in {"read", "admit"}
    /\ Rest(u)
    /\ UNCHANGED <<rows, runs, files, jobs, opportunities, writer, collected, admitted, seeded>>

(* resume_proposal_seed. *)
SeedProposal(u) ==
    /\ step[u] = "idle"
    /\ \E id \in Staging :
          /\ rows[id] # None
          /\ rows[id].status = "admitted"
          /\ seeded' = seeded \cup {id}
    /\ UNCHANGED <<rows, runs, files, jobs, opportunities, writer, step, held,
                   collected, admitted>>

(* The process ends; the database rolls back what was not committed. *)
RadarCrashes ==
    /\ \E t \in Collector \cup Admitter : step[t] # "idle"
    /\ step' = [t \in Collector \cup Admitter |-> "idle"]
    /\ held' = [t \in Collector \cup Admitter |-> None]
    /\ writer' = None
    /\ UNCHANGED <<rows, runs, files, jobs, opportunities, collected, admitted, seeded>>

StagingNext ==
    \/ \E c \in Collector :
        \/ SearchAnswers(c)
        \/ BeginStaging(c)
        \/ StageNext(c)
        \/ CommitStaging(c)
        \/ StagingFails(c)
        \/ RecordFailedRun(c)
    \/ \E u \in Admitter :
        \/ ReadStaged(u)
        \/ ReadReceipt(u)
        \/ AdmitStaged(u)
        \/ AdmissionFails(u)
        \/ SeedProposal(u)
    \/ RadarCrashes

-----------------------------------------------------------------------------
(* Every variable has its type. *)
StagingTypeOK ==
    /\ rows \in [Staging -> Row \cup {None}]
    /\ runs \in [Run -> {None, "completed", "failed"}]
    /\ files \subseteq Posting
    /\ jobs \cup opportunities \cup collected \cup admitted \cup seeded \subseteq Staging
    /\ writer \in Collector \cup {None}
    /\ step \in [Collector \cup Admitter ->
                   {"idle", "found", "staging", "failed", "read", "admit"}]
    /\ held \in [Collector \cup Admitter -> Collecting \cup Admitting \cup {None}]

Stored == {id \in Staging : rows[id] # None}

(* However many collects overlap, fail or meet a posting again, of the stored
   records with one url or one content at most one can become an opportunity. *)
OnePerPosting ==
    \A a, b \in Stored :
        a # b /\ Same(a[1], b[1]) => "duplicate" \in {rows[a].status, rows[b].status}

(* A collect that failed leaves no records, one that answered leaves all it
   answered with, and a record's run says that it is completed. *)
BatchIsWhole ==
    /\ collected \subseteq Stored
    /\ \A id \in Stored : runs[rows[id].run] = "completed"

(* A stored record has its raw artifact, through rollbacks and crashes. *)
EvidenceHasItsFile == \A id \in Stored : id[1] \in files

(* A record says that it is admitted when, and only when, its Job and its
   Opportunity exist; whoever was told so, or seeded a resume proposal from it,
   finds it so: admit ignores whether its UPDATE found a staged record. *)
AdmissionIsWhole ==
    LET are == {id \in Stored : rows[id].status = "admitted"}
    IN  /\ jobs = are
        /\ opportunities = are
        /\ admitted \cup seeded \subseteq are
=============================================================================
