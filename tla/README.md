# Verification of the career agent harness

TLA+ models of the backend of the career agent harness, the TLC runs that check
them on small instances, and TLAPS proofs, for instances of any size, of every
safety property that the passing runs check. Paths are relative to the repository;
`py:` stands for `backend/career_harness/`.

The program is a local desktop application: a Tauri shell starts a FastAPI
backend as a sidecar, and the backend keeps everything in one SQLite file and a
directory of content-addressed artifacts. One user, but many threads: FastAPI
runs the synchronous handlers of `py:api/` on a thread pool, so any two requests
may interleave anywhere.

## 1. The rules of the database

All models use the same reading of how a thread sees SQLite. It follows from
how `py:db/session.py` creates the engine: no isolation setting, so Python's
driver sends BEGIN only before the first INSERT, UPDATE or DELETE.

1. A SELECT before a transaction's first write runs in autocommit. It reads what
   is committed at that moment, and the transaction does not remember it:
   another thread may commit between that SELECT and the next statement.
   `session.begin()` around both changes nothing about that.
2. The first write takes the only write lock of the file. From there to COMMIT
   or ROLLBACK the thread is alone with the database, and all of it is one step
   as far as others can see.
3. A write that cannot get the lock waits five seconds, the driver's default,
   and then fails with `OperationalError` ("database is locked"). A COMMIT may
   fail in the same way while a reader is active.
4. The death of the process drops the open transaction and nothing else.

Hence the shape of most hazards below: a check made in autocommit, and a write
made later that trusts it. What saves the code, where something does, is the
WHERE clause of the later UPDATE, a unique key or a trigger.

## 2. Inventory

### 2.1 Components that are modelled

Each entry says what state the component keeps, what it does, what is hard about
it, and when it is correct. Where a part of it is left out, section 7 says which.

**Command write path** (`py:services/command_service.py`, `py:core/commands.py`).
State: `entity_state`, `entity_revision`, `domain_event`, `outbox_message`,
`idempotency_record`. Operations: `commit` in a session of its own or in the
caller's, so that several commands commit together; `get`. Nearly all domain
services write through it. Hard: two calls that read the same revision; retries,
also concurrent with the original; a failure between two flushes. Correct when:
revisions are contiguous, no update is lost, a command is there with all its rows
or not at all, a retry gets the first answer, and every call ends.

**Task queue** (`py:db/task_repository.py`, `py:services/task_service.py`).
State: `task_queue`, `task_attempt`; in memory, the lease of each worker.
Operations: `enqueue`, `claim_next`, `complete`, `fail`, `cancel`, `resume`,
`manual_retry`, `run_one`. There is no background worker: requests enqueue a task
and call `run_one` in their own thread. Hard: claims, completions and
cancellations race; a lease may be stale; a process that dies leaves a task in
processing. Correct when: an outcome is recorded once and for the attempt it
belongs to, no worker touches a cancelled task, retries are bounded, and a
dispatched task leaves processing.

**Opportunities** (`py:services/opportunity_service.py`,
`py:db/opportunity_repository.py`, `py:db/opportunity_writes.py`). State:
`opportunity_record`, `user_priority`, `suggested_priority` beside the write
path's tables. Operations: two ways of admission, two priorities,
`get_revision`. Hard: the service reads a revision, builds a state from it and
passes both to `commit`, which reads again; old revisions are still asked for.
Correct when: tables and log agree, and old revisions read as they stood.

**Source connectors** (`py:services/source_connector_service.py`,
`py:db/source_connector_repository.py`, `py:api/source_connectors.py`). State:
`source_connector`, `source_resource`, `source_sync_run`. Operations: create,
pause, resume, schedule, sync, scheduled run. Hard: the folder is edited under the
sync's feet; syncs overlap; errors at every point; the request that enqueued a
task runs whichever is oldest. Correct when: an undisturbed sync ends with table
and folder equal, no present file is marked deleted, a finished run is final, and a
schedule advances for a connector that was synced.

**Opportunity radar** (`py:services/opportunity_radar_service.py`,
`py:db/job_staging_repository.py`). State: `job_source_policy`, `job_source_run`,
`job_staging_record` and its evidence, raw artifacts. Operations: `collect` with
retries and a breaker, staging with deduplication, `admit`, the resume proposal's
seed. Hard: overlapping collects, admissions of one record at once, files written
before a transaction that may fail. Correct when: the count is the failures in a
row, one posting gives at most one opportunity, a batch is staged whole, and a
record is admitted exactly when its job and its opportunity exist.

**Artifact store, backup and restore** (`py:storage/artifact_store.py`,
`py:db/backup.py`). State: files named by their hash, rows that name them, the
copy and its manifest. Hard: the database is copied before the files, while
writers go on; a restoration moves two things into place. Correct when: a
completed backup is whole, a restored database stands beside all of its files,
and a failed restoration can be repeated.

**Plugin lifecycle** (`py:services/plugin_service.py`). State:
`plugin_installations`, `plugin_releases`, `plugin_update_plans`, `plugin_runs`;
the build's registry. Operations: install, enable and disable, healthcheck,
preview, switch, rollback, invoke. Hard: every request reads before it writes,
requests interleave, and a later build may register other code under a known
version. Correct when: what is run was scanned and is what was staged, and a
request id has one answer.

**Knowledge base and memory** (`py:db/knowledge_repository.py`,
`py:db/memory_repository.py`). State: pages, revisions, proposals, wiki operations
and the page tree; memories, their revisions and proposals. Operations: import,
propose, review, rename, move, archive, roll back; draw up, confirm, reject,
delete. Hard: a review reads proposal and page in autocommit and writes later.
Correct when: histories have no gap, approved text stays, no proposal that was written
against what there was brings a deleted memory back, no page is under itself.

**Facts, jobs, capabilities and matching** (`py:services/fact_service.py`,
`job_service.py`, `capability_review_service.py`, `match_resolver.py`,
`match_service.py`, `py:core/match_gap/policy.py` and their `py:db/*_writes.py`).
State: append-only revisions of claims, facts, job pages and requirements; the
versions of the official graph; states, bindings, evidence and stored assessments.
Hard: who may decide what, over several steps of several actors; two reviewers
that build on the same graph version; replays long after the inputs moved on.
Correct when: two actors stand behind every fact, accepted requirements can be
traced, no accepted capability is lost, and an assessment can be made again.

**Applications, interviews and outcomes; interview sessions; communication
drafts** (`py:services/application_service.py`, `interview_service.py`,
`py:db/interview_session_repository.py`, `py:db/communication_repository.py`).
State: application revisions, interviews and outcomes that refer to exact
revisions, turns, drafts. Hard: references to revisions that are no longer
current; two turns at once; a daily limit counted before the insert. Correct when:
outcomes and interviews rest on a submission, turns are numbered without a gap, a
draft has one decision, and a day's drafts pass a limit by no more than the requests that
overlap.

**Resumes and resume studio** (`py:services/resume_service.py`,
`resume_studio_service.py`, their writes). State: base revisions, patches,
composed revisions; profiles, links, renders, reports, reviews. Hard: operations
applied in order, so that removing an item shifts the others; a render is a file,
then a row; an external compiler does not repeat itself. Correct when: only
reviewed operations change a resume, and what a client was told is stored.

**Project scans, project tasks, contexts** (`py:services/project_scanner.py`,
`project_scan_service.py`, `project_service.py`, `py:core/context/compiler.py`,
`py:services/context_service.py`, their writes). State: manifests of scanned files,
evidence, levels and their basis, tasks; context manifests with their rows. Hard: the
tree changes during the walk; a diff is computed from a reading before the transaction;
triggers decide which level may be recorded; repeated rescans; retries with candidates
that have changed. Correct when: nothing denied is read, entries are whole, recorded
diffs add up and returned ones can be derived, levels are earned, and the context handed
out is the recorded one.

### 2.2 Components that are not modelled

| Component | Why it is left |
|---|---|
| Preparation | exact reads of committed rows, and a preview in the memory of one invocation: nothing is written |
| GitHub projects | analyses fetched over the network, recorded by append-only rows |
| Legacy import | a one-off migration of an older database: manifest checks and row conversion |
| Today page and insights | deterministic rankings and counts over committed rows |
| Offline career loop | a scripted sequence through the other services; its steps are theirs |
| Model providers; adapters and tools | clients of remote services and processes with append-only audit rows |
| Paths, secrets, secure store | operating system facilities |
| Workflow runner | a loop over awaited steps, no state that outlives the call |
| HTTP application and wiring | routing, authentication; the requests are modelled with the components they reach |
| Schema and migrations | tables, keys, triggers: each module has those its component relies on |
| Desktop shell | starts one process with up to three attempts and stops it: one loop |
| Desktop user interface | React pages; how a client repeats a request is part of `Opportunities` |
| Scripts and tools | not part of the program |

`PROJECT.json` lists all components with their sources, and the hazards, each at
its line with the properties that would notice it going wrong.

### 2.3 How the components meet

- Services call `CommandService.commit` with a typed write that stages their own
  rows in the same transaction (opportunities, jobs, facts, claims, capabilities,
  assessments, resumes, applications, interviews, manifests, project tasks).
- The radar's admission commits the job's and the opportunity's command in one
  session, and its postings are artifacts before they are rows, as renders are.
- `py:api/source_connectors.py` enqueues into the task queue and calls `run_one`,
  whose handler is the connector service's `sync`; then it writes the schedule.
- `py:api/tasks.py` lets users cancel, resume and retry tasks that other requests
  are running.
- Matching reads the requirements of a job, the user's states and the evidence of
  projects; project levels rest on evidence that a rescan may turn stale.
- The user interface repeats a request with the same command id and key when it
  got no answer (`apps/desktop/src/api/client.ts`).

## 3. Modules

| Module | Models | Checked in |
|---|---|---|
| `CommandService`, `RevisionHistory` | the write path, and what it promises in the abstract | `MCCommandService`, `CommandServiceProofs` |
| `TaskQueue` | queue rows, workers, user requests | `MCBackground`, `MCTaskDispatcher`, `BackgroundProofs` |
| `PluginLifecycle` | one plugin: installation, releases, plans, runs | `MCBackground`, `BackgroundProofs` |
| `Opportunities` | opportunity requests as clients of the write path | `MCRadar`, `MCOpportunities`, `RadarProofs` |
| `SourceBreaker` | the circuit breaker of a job source | `MCRadar`, `RadarProofs` |
| `JobStaging` | postings from a search to an admitted opportunity | `MCRadar`, `RadarProofs` |
| `Backups` | artifacts and rows through backup and restoration | `MCRadar`, `RadarProofs` |
| `FolderSync` | syncs of one local folder | `MCConnectors`, `ConnectorsProofs` |
| `ConnectorDispatch` | requests over the queue and the schedules | `MCConnectors`, `MCConnectorDispatch`, `ConnectorsProofs` |
| `KnowledgeBase` | pages, proposals, wiki operations and their reviews | `MCReviews`, `ReviewsProofs` |
| `MemoryStore` | memories, their proposals, reviews and deletions | `MCReviews`, `ReviewsProofs` |
| `Facts` | claims and the facts promoted from them | `MCRecords`, `EvidenceProofs` |
| `Jobs` | job pages and the requirements quoted from them | `MCRecords`, `EvidenceProofs` |
| `Capabilities` | candidates and the versions of the official graph | `MCRecords`, `EvidenceProofs` |
| `Matching` (extends `Jobs`) | resolution, policy, assessments, replay | `MCRecords`, `EvidenceProofs` |
| `Applications` | applications, interviews, outcomes, session turns | `MCRecords`, `CareerProofs` |
| `Communications` | communication drafts over several days | `MCRecords`, `CareerProofs` |
| `Resumes` | base revisions, patches, composition | `MCRecords`, `CareerProofs` |
| `ResumeStudio` (extends `Resumes`) | profiles, proposals, renders and their reviews | `MCRecords`, `CareerProofs` |
| `ProjectScans` | the walk of a project's files and its manifests | `MCProjects`, `ProjectsProofs` |
| `Projects` | evidence, levels, tasks of projects | `MCProjects`, `ProjectsProofs` |
| `Contexts` | selection of context and the manifest that records it | `MCProjects`, `ProjectsProofs` |

The MC modules instantiate several components each. Components that share no
state are *summed*, not multiplied: a variable `area` is chosen at the start and
never changes, a behaviour belongs to one component, and the variables of the
others keep their initial values. The state space is the sum of the components'
own, every invariant is checked on all of it, and each holds for a component in
exactly those behaviours in which the component runs by itself. `MCRecords` sums
`MCEvidence` (facts, jobs, graph, matching) and `MCCareer` (applications,
sessions, drafts, resumes, studio). A variable `alone`, likewise fixed, restricts
a behaviour to one request at a time where a property needs that. What the sums add
of their own, limits on how the parts are explored, is in the MC modules and in no
component; the theorems are about the components' specifications.

What a component takes for granted, another one shows. `CommandService` shows that
a command takes effect in one step or not at all, on top of the revision it names,
once; so the modules whose operations are commands (`Facts`, `Jobs`,
`Applications`, `Resumes`, `Matching`, ...) have one action per command, and keep
apart only the reads a service makes before it that can have changed since:
`Opportunities`' `Get`, `Capabilities`' `PlanReview`, `ProjectScans`' `ReadHistory`,
`Matching`'s `Resolve`. `ConnectorDispatch` keeps of a task whether it is ready,
waiting or being run.

Names: a definition carries the source's name where it has one. A variable named
`phase`, `step` or `doing` is the place a thread has reached. Definitions with an
underscore, such as `Holds_AnyVersion`, are not part of a model: each stands
before the definition it is a broken version of, and shows which plausible bug a
property would notice (`mutants` in `PROJECT.json`). `...Table` and `...Row`
definitions say what the columns, keys and checks of a migration let a table
hold.

### 3.1 Services behind everything

**CommandService.** A call is one execution of `commit`, or a session shared by
several commands. `Lookup` is `session.get(IdempotencyRecordRow)` and the
comparison of hashes, `ReadState` the read of the revision and
`require_expected_revision`, `Write` the five flushes with the keys that may reject
them, `TypedWriteFails` a typed write that raises, `CommitTransaction` the end of
`session.begin()`, `Reply` the caller's receipt of the result. `db` is what is
committed, `tx` what the holder of the write lock (`writer`) has built on it;
`View(c)` is what call `c` sees. `LockTimeout` is rule 3 above, `Crash` rule 4.
`RequestHash` is the command without `issued_at`: SHA-256 is taken to be injective.
`RevisionHistory` says the same in one action, with histories and receipts only;
`MCCommandService` maps the committed rows to it.

**TaskQueue.** `Select`, `Claim` and `ReadBack` are the three transactions of
`claim_next`; the lease is made from the third and may belong to a newer version
than was claimed. `Complete` and `Fail` are one transaction each with the guard
`Holds`, the WHERE clause; the primary key of `task_attempt` (`Taken`) may reject
them, and `run_one` answers an error of `complete` with `fail`. `Request` is the
SELECT and refusal in `cancel`, `resume` and `manual_retry`; `Cancel` and `Requeue`
are the later UPDATEs, which ask for the task's id only.

**PluginLifecycle.** Each request is read (`AskInstall`, `AskEnabled`,
`AskPreview`, `AskSwitch` with `ChoosePlan`, `AskRollback`, `AskHealth`, `AskInvoke`
with `Lookup`) and written (`Install`, `SetEnabled`, `Preview`, `Switch`, `Rollback`,
`Health`, `Record`) in different steps, with the handler's `Execute` before `Record`
and the audit row's own transaction after. `Restart` drops all requests and picks
another build from `Build`: the registry may have lost a version or carry another
manifest under it. A manifest stands for its content hash, `Clean` for those the
scan passes, `Installable` for those of a type that `install` lets in.

### 3.2 From a source to an opportunity

**FolderSync.** One run is one execution of `sync`: `Get`, `StartRun`, `Snapshot`
(`existing_resources`), `ListFiles`, then per file `ReadFile` and, unless unchanged,
`Upsert`; `Mark` and `Sweep` are the SELECT and the UPDATEs of `mark_missing`;
`CompleteRun`, `FailRun`. `Edit` is the user at work in the folder at any moment,
`Break` any exception, `Immutable` the trigger of the schema.

**ConnectorDispatch.** `AskSync` and `AskScheduled` are the two sync requests and
`AskDispatch` a dispatch of their stage by the task API, `Enqueue` to `WriteSchedule`
the turn of their loop: enqueue, `run_one` (`Select`, `Claim`, `Succeed` or
`FailTask`), `advance_schedule` in its two halves. `TimePasses` lets a schedule or a
retry become due. The order of `ready` is the ORDER BY `available_at`.

**SourceBreaker.** `Start`, `Search`, `RecordSuccess`, `ReadPolicy`, `RecordFailure`
and `Loop` are `collect`; `Ask` and `Update` the two halves of
`update_source_policy`.

**JobStaging.** A collect goes from `SearchAnswers` through `BeginStaging`, whose
INSERT of the run takes the write lock (`writer`), one `StageNext` per posting with
its file written on the spot, to `CommitStaging`; or `StagingFails` and
`RecordFailedRun`. An admission is `ReadStaged`, `ReadReceipt` and `AdmitStaged`, one
session with both commands and the UPDATE whose row count nobody reads. Two postings
are `Same` when they share url or content; the model has pairs of both kinds, in a
chain.

**Opportunities.** `Get` is the service's read, `Lookup`, `Check` and `Commit` are
the write path. `Embedded` is the revision the service writes into the state, from
its own read; `Check` compares the expected revision with a later read. `Ahead` says
how far a client's expected revision may run ahead of what exists when it asks.

**Backups.** `Put` and `Replace` write a file through a temporary one, `CommitRow`
the row that names it. `CopyDatabase`, `ListFiles`, `CopyFile`, `WriteManifest` are
`create_backup`; `Damage` changes bytes of the copy; `StartRestore`, `PlaceFiles` and
`PlaceDatabase` are `restore_backup`, which `RestoreFails` (with its clearing away)
or `RestoreCrashes` may end anywhere.

### 3.3 What the user knows and decides

**KnowledgeBase.** A review is `AskReview` (the proposal), `ReadTarget` (the page's
revision) and one of `ApproveProposal`, `RejectProposal`, `Move`, `Archive`, `Rename`,
`RejectOperation`; `AskRollback` and `Rollback` are apart in the same way. The primary
key of `knowledge_revision` is `Vacant`. **MemoryStore** has the same shape with
`UpToDate`, the comparison with the base revision, and deletion (`AskDelete`,
`Delete`) as a revision that says so. A proposal may name any base revision from 1 on,
as its request may (`py:api/memory.py:31`); `ahead` has those that named one their memory
did not have yet.

**Facts, Jobs.** `ProposeClaim`, `ReviewClaim`, `PromoteFact` and `RecordRevision`,
`ProposeRequirement`, `ReviewRequirement` are commands; `StageClaim` and the like are
the typed writes, `Sealed` the append with its evidence, `MayReview` and `Reviewable`
who may decide what.

**Capabilities.** `PlanReview` reads the latest version and plans the release,
`CommitReview` writes decision and release in one transaction if `StillLatest` and
`StillPending`; `Latest` goes by the time of release, and the clock may go back.

**Matching.** `Resolve` reads what the assessment is made from, `Results` is the
policy, `RecordAssessment` stores both with the gaps, `Replay` reads the listed
references again. The `Record...` actions and `Bind` are rows that nothing in the
repository writes and that enter in any order.

**Applications.** One action per command; `SubmissionStable` is the trigger that keeps a
submission, `Exact` the revision a command names. `Speak` and `AppendTurn` are the read
of `MAX(sequence)` and the insert. **Communications.** `AskCreate` builds the draft,
with the limit its request names and the day as `created_at`; `Count` is the reading of
the draft's id and of the day's drafts, by the date of that moment, `Create` the insert:
midnight may pass before and after the count. `AskReview` and `AskTransition` are the
reading and refusal of `review` and `transition`, the action of that name the write;
`StillPending` is the one WHERE clause with a status. A draft keeps as history the limit
and the day it was counted with.

**Resumes.** A document is one list of items; `ApplyOperation` is the code's path
resolution on it, `Matches` the comparison with `expected_value_hash`, `AppliedAll` the
loop over the operations of a patch and `Composed` the one over the selected patches:
functions of the number of operations, or patches, that have been applied.
**ResumeStudio** adds requests that interleave: a proposal commits its patch
(`ProposeFor`) and its link (`LinkPatch`) apart, a render puts its file (`PutRender`),
looks for its row (`ReadRender`) and inserts it (`InsertRender`), and `Crash` forgets all
requests.

### 3.4 Projects and contexts

**ProjectScans.** The tree is a map from paths to nodes, so that a file may be replaced
by a link or another file under one path. `OpenChild`, `ReadFirst` and `ReadRest` are
the POSIX reader with its two `fstat`s, `ReadHistory` the service's reading,
`CommitRescan` the command with the check of the previous manifest. A rescan names its
`Command`: `ReplayRescan` is the answer from the record when the same rescan is asked
for again, which comes before that check, and returns the difference this call has
computed; `RefuseRescan` the conflict when the files have changed since. `Create`,
`Edit` and `Delete` are the user. `known` and `answer` are no state of the code: the
files, to someone who applies the difference of each manifest as it is recorded, and
what the last step returned. **Projects** has the triggers of migration 0004 one by one
(`EvidenceBacks`, `ApprovalBacks`, `SameProject`, `Sufficient`, `SameIdentity`, `Open`)
and the transitions of tasks. **Contexts** is `select`, `compile`, `_validate_compiled`
and the write of the manifest, with `CountsMatch` the trigger that seals it; `Commit`
replays a repeated command. What Python's `sort` does is `InOrder`: the n-th of a list
is what has n - 1 before it, where of two with equal keys the earlier comes before
(`RankedBefore`).

## 4. What the runs check

Eight runs pass; four show that something the repository says is not so. A property
of a run is a conjunction of named parts, each of them commented at its definition.

| Run | Instance | Distinct states | Time |
|---|---|---|---|
| `command_service` | 2 concurrent calls; 5 commands on one entity (create, the same again with a later `issued_at`, its key with other content, update, the update's id under another key) and a session of two commands on two entities | 166,593 | 102 s |
| `background` | 1 task, 2 workers, 2 users, limits 1 and 2, versions up to 3; 1 plugin, 2 versions, 2 callers, 4 builds, 1 request id, 1 update plan | 3,127,488 | 194 s |
| `task_dispatcher` | 1 worker, 2 users, limits 1 and 2, versions up to 4 | 266,555 | 25 s |
| `radar` | 2 opportunities, 1 job, 1 proposal, 2 levels, 3 requests, 2 clients; 2 collectors and 1 user of a source, one at a time, thresholds 2 and 3; 3 postings, 2 collects, 2 admitters; 2 artifacts, 2 writers, one backup | 682,095 | 133 s |
| `connectors` | 1 file, 2 contents, 3 syncs, 2 at once; 1 connector, 2 requests, 2 attempts, 3 tasks | 1,187,536 | 126 s |
| `reviews` | 1 imported page, 2 proposals, 1 wiki operation, 2 reviewers, 3 revisions; 2 memories, 2 proposals, 2 users, 3 revisions | 1,952,601 | 110 s |
| `records` | 2 claims, 1 fact; 1 job, 1 requirement; 3 candidates, 2 reviewers, clock to 3; 2 assessments, 2 requirements of 2 capabilities, 2 bindings, 5 records; 1 application, 1 interview, 2 turns; 3 new drafts of 2 clients, 2 days, limits 1 and 2, and 2 drafts to be decided; 2 patches, 2 bases; 2 studio clients | 1,105,139 | 193 s |
| `projects` | 2 scanners, 2 edits, 2 rescans asked for and repeated, 5 paths; 2 projects, 4 records; 1 task; 1 manifest, 2 keys, lists of up to 3 of 4 candidates | 959,673 | 170 s |

(Times are those of two workers on one machine.)

**command_service.** Whatever two calls do to each other, with a crash, a lock timeout
or a failing typed write possible at each step: an entity's revisions count up without
a gap, a recorded command built on the revision it named, and revisions, events, outbox
messages and records go together (`CommittedIsConsistent`); what a caller was told is
recorded (`ToldIsDurable`), a retry is answered (`RetryIsReplayed`), a session takes
effect as a whole or not at all (`BatchIsAtomic`), no committed row is ever changed
(`AppendOnly`), the service implements `RevisionHistory` (`ImplementsHistory`) and
every call ends (`EveryCallEnds`). What carries this is the keys of `entity_revision`
and `idempotency_record`: without them the two reads in autocommit would let updates be
lost, as the mutant `ViolatesRevisionKey_None` shows.

**background.** `OutcomesHold`: the version in the WHERE clauses keeps stale leases
out, so that each outcome is that of its attempt and version, a task completes once
between two user requests, and attempts stay within the limit. `CancelledIsLeftAlone`:
no late worker touches a cancelled task. `PluginRunsVerified`: what `invoke` and
`healthcheck` run is what was staged under that version and passed the scan, whatever
other requests and later builds changed. `OneAnswer`: a request id has one run and one
answer, after restarts too. `AloneUpdatesAreVerified`: with one request at a time, an
enabled plugin's release was verified and a plan is applied once.

**task_dispatcher.** While dispatches do not overlap, the attempt in progress can
always still be recorded, also after a crash (`AttemptInProgressIsOpen`); and a task in
processing leaves that state whatever the handler does and the users ask for, as long as
no crash and no lock timeout occurs (`ProcessingEnds`). With both, it may stay there
until a user cancels it: nothing reclaims a task.

**radar.** `HistoryReadsTrue`: the typed tables tell the story of the revision log, and
a priority reported for an old revision stood then, as long as clients name revisions
they have read. `AdmissionIsReplayed`: a repeated admission is answered. `BreakerIsExact`:
taken one at a time, collects and policy requests keep the count exact, and the failure
that reaches the threshold disables the source. `StagingIsSound`: of the records of one
posting at most one can become an opportunity, however collects overlap; a batch is
staged whole; a stored record has its file, through rollbacks and crashes.
`AdmissionIsWhole`: admitted is exactly what has its Job and its Opportunity, although
`admit` reads outside its session. `CopiesAreWhole`: a completed backup holds every file
its rows name, because files are copied after rows; a restored database stands beside
all files; a failed restoration can be repeated.

**connectors.** `TableIsExact`: a sync that nothing interferes with ends with manifest,
table and folder equal, whatever earlier syncs left. `NoPresentFileIsDeleted`:
overlapping, failing or interrupted syncs never mark a file deleted that was there
throughout. `FinishedRunIsFinal`: the trigger keeps a completed run completed when its
sync fails after its COMMIT. `DispatchHolds`: with one connector no task is executed by
two requests, and a schedule advances only after a sync.

**reviews.** `PagesKeepApprovals`: a page's revisions are numbered without a gap up to
its current one and what a user approved keeps its number, though reviews compare
neither base revision nor status in their transaction: the key does it. `MemoriesHold`:
no review of a proposal that was written against a revision there was brings a deleted
memory back, however it overlaps with the deletion; a proposal that named a later
revision can. `AloneDecidedOnce`: with one review at a time a proposal is decided once.

**records.** `FactsAreReviewed`, `RequirementsAreTraceable`: two actors and an accepted
claim stand behind every revision of a fact, and an accepted requirement was accepted by
a user, who may be the one that proposed it, quotes a recorded page and maps to a
released capability. `AcceptancesHold`: whatever two reviewers accept at once, the
latest version holds all of it while the clock does not go back; each version adds one
capability to the one it was released on; a repeated acceptance finds its receipt.
`AssessmentsHold`: a requirement without a gap is supported scope by scope: by the
candidate's own state of the requirement's capability, and by a binding to that revision
of the state, which is no agent's inference and whose evidence was accepted and current;
more evidence never makes a result worse; a replay finds what was found or says that
bindings drifted. `SubmissionsHold`: an application is submitted once, its later
revisions carry that submission, interviews and outcomes rest on it, whatever the order
of commands. `TurnsAreNumbered`: two turns at once get numbers without a gap.
`DraftsAreDecidedOnce`: a draft has one decision, every reviewer is shown that one.
`LimitsAndEndsHold`: however requests overlap with each other and with midnight, of a
day's drafts under a limit or a lower one no more can be reviewed than it allows, and
one more for each further client, apart from those that were counted against the next
day, at most one for each client; a rejected draft stays rejected, and a closed one is only changed
by a request that had read it before. `ChangedOnlyByReview`: an entry a revision lost is
one that an accepted operation was written against, although removals shift indexes; an
entry it gained was proposed. `AnsweredIsStored`: what a client of the studio was told
is stored, with file and report, wherever the process ended.

**projects.** `ScansAreFaithful`: nothing denied, secret or behind a link is read
whatever the user does during the walk; no entry is half of one content and half of
another; applying the differences that manifests were recorded with, in the order of the
commits, gives the latest manifest while the clock does not go back; and every difference
that is returned, to a repetition too, is that between a recorded manifest, or none, and
the recorded one it is returned with.
`LevelsAreEarned`: a level rests on accepted evidence of its own project and, for a
resume, on the user's approval of that very revision, in whatever order rows come.
`ContextsAreRecorded`: the context handed out is the recorded one, in the first answer
and in every retry; the order of candidates makes no difference; the limit cuts nothing
that matches better than what it keeps.

### Findings

| Run | What it shows |
|---|---|
| `task_cancel_stale` | A cancel request that read the row as pending turns the completed task into a cancelled one: the UPDATE asks only for the id (`py:db/task_repository.py:351`), although completed tasks "cannot be cancelled" (`:334`). |
| `opportunity_retry` | The state a priority request hashes holds the revision read at call time (`py:services/opportunity_service.py:140`, `:204`), so the repetition of a committed request gets an idempotency conflict instead of its result. |
| `dispatch_other_task` | The sync request runs the oldest task, which may be another connector's, and advances the schedule of its own (`py:api/source_connectors.py:121`). |
| `wiki_cycle` | Two moves, each checked against the page alone when it is proposed, put two pages under each other (`py:db/knowledge_repository.py:1003`). |

Each of these runs has just the actors that are needed to show it.

Further behaviour that the models reach, or that was read in the code beside them, and
that no run pins down, because no line of the repository says otherwise:

- Tasks: two dispatchers and two requeues can run an attempt whose number is already
  recorded, which ends in an `IntegrityError` (hence one dispatcher in
  `task_dispatcher`); a requeue that read a cancelled row can put a running task back.
- Connectors: a connector paused after `Get` is synced all the same; `advance_schedule`
  can turn a schedule back on; the loser of a claim leaves its task in the queue.
- Radar: two collects can lose a failure, and a recorded failure enables a source that
  a user disabled; a client that runs ahead of the revisions it has read (`Ahead` = 1)
  can store a state that `get_revision` refuses.
- Plugins: a plugin disabled during `invoke` still runs once; a timeout is called
  retryable and its repetition is answered from the run; two applications of one plan at
  once both go through; a plugin that was quarantined for its type counts as rolled back
  after `rollback`, which asks only for the scan.
- Knowledge: two concurrent reviews can approve and reject one proposal.
- Memories: a request may name a base revision its memory does not have yet
  (`py:api/memory.py:31`, `py:db/memory_repository.py:122`). If it is the one a deletion
  creates, approving the proposal passes `:237`, and `:279` sets the deleted memory to
  confirmed: a deleted memory stays deleted only as far as proposals name what was there.
- Rescans: a repeated rescan is answered with its recorded manifest and a difference
  computed anew against what is the latest by then
  (`py:services/project_scan_service.py:76`). After a lost answer, that difference is
  empty; after other rescans, it leads from a later manifest back. Whoever applies all
  returned differences in turn need not know the files.
- Capabilities: if the clock goes back, the latest version can leave an accepted
  capability out.
- Matching: an assessment resolved before a binding is added and committed after it can
  be read but reports drift; a repeated `assess` after a state has moved on is refused.
- Resumes: a repeated undo or restoration is refused
  (`py:services/resume_service.py:222`).
- Drafts: a repeated creation is refused (`py:db/communication_repository.py:37`);
  concurrent creations pass the daily limit together, by one for each further request; a
  draft that is built before midnight and counted after it is counted against the next
  day; and the limit is what each request names (`py:api/communication.py:25`), so one
  request's limit says nothing of the drafts another one is let in with.
- Interviews: one session id used by two interviews is not listed
  (`py:services/interview_prep_service.py:111`).
- Facts: a correction may say something else than the claim it names.

### Bounds, and why they are enough

- *Two threads of a kind.* Every hazard here is a read of one thread, a write of
  another, and a later write of the first. `connectors` has three syncs, so that two
  overlap with what a third left behind.
- *One task, file, connector, source, plugin or page where the code never relates two of
  them.* Where it does, there are two: sessions of two commands, opportunities that
  compete for a job, postings in a chain (one shares its url with the second, the second
  its content with the third), two claims behind a fact, the oldest-task rule and the
  page tree in their violation runs. Three candidates of the graph let one acceptance
  come between two others.
- *`MaxVersion`* bounds user requests per task: 3 lets a task be cancelled and resumed
  around a stale lease; with one worker 4 allows another cancellation. *`Limit`* {1, 2}
  has tasks with and without an automatic retry.
- *`MaxTasks`* 3 gives one of two requests a second turn; *`MaxFailures`* 6 is twice the
  larger threshold; *`MaxPlans`* 1 lets a plan be applied, rolled back and tried again.
- *`MaxRevision`* 3 lets a rollback or a second approval follow a first while another is
  under way. *`MaxApplicationRevision`* 5 reaches a final state after a submission.
- *`MaxRecords`* 5 in matching are the states of two capabilities, evidence, a binding
  and a later revision of the evidence, or a second binding, around an assessment; 4 in
  projects are evidence, approval and two bases.
- *`MaxEdits`* 2 lets a file be replaced and written to during one walk; *`MaxTime`* 3
  orders two or three commits in any way, also backwards. A recorded rescan is repeated
  after the edits, when its files are as they were or are not, while no other walk is on.
- *`DailyLimits`* {1, 2} are a request that blocks its draft behind one, and one behind
  two; three drafts of two clients can pass either limit on the first of two days.
- Behaviours that a bound ends are behaviours of the code cut short: no bound is part of
  a guard that a property relies on.
- Symmetry is used over threads, keys, files and contents, which are interchangeable
  model values; never with a liveness property.
- Deadlock is checked where the system cannot stop. `CHECK_DEADLOCK FALSE` stands where
  it does: runs, revisions, versions and edits are finite in number.

### Fairness

`FairSpec` of `CommandService` has weak fairness of each call's next step: its thread is
scheduled, and a wait for the lock ends by the driver's timeout. That is all
`EveryCallEnds` needs; nobody is made to call, to crash or to succeed. `DispatcherSpec`
has weak fairness of a worker that selected a task: `run_one` is straight-line code in a
thread, and a handler is taken to return or raise at some time. Dispatching, the users'
requests, crashes and lock timeouts are not fair.

## 5. What is proved

TLAPS checks the theorems below for every value of the constants: any number of
entities, commands, calls, tasks, workers, users, postings, files, syncs, proposals,
and so on, also infinitely many where no assumption says otherwise. A theorem is about
the specification of its component, without the limits an MC module puts on its
exploration. Where one request at a time is part of the property, it is about the sum
that has the variable `alone`; those of the radar are about `RadarSpec`, which adds that
the breaker's requests come one at a time and nothing else.

| Theorem | States |
|---|---|
| `CommandServiceProofs!Consistency` | `Spec => []CommittedIsConsistent`, the conjunction of `TypeCorrect`, `HistorySafe`, `NoUpdateLost` and `Accounted` |
| `CommandServiceProofs!Durable`, `!NothingRemoved` | `Spec => []ToldIsDurable`, `Spec => AppendOnly` |
| `CommandServiceProofs!BatchAtomicity`, `!RetriesReplayed` | `Spec => []BatchIsAtomic`, `Spec => []RetryIsReplayed` |
| `CommandServiceProofs!Implementation` | `Spec => ImplementsHistory`: the write path implements `RevisionHistory` |
| `BackgroundProofs!OutcomesRight` | `Spec => []OutcomesHold`, from `TypeCorrect`, `RetriesBounded`, `OutcomesRecorded` and `CompletedOnce` |
| `BackgroundProofs!CancelledStays` | `Spec => CancelledIsLeftAlone` |
| `BackgroundProofs!AttemptsStayOpen` | `OneDispatcher`: `Spec => []AttemptInProgressIsOpen` |
| `BackgroundProofs!RunSafety`, `!AnswerSafety` | `PluginSpec => []PluginRunsVerified`, `PluginSpec => []OneAnswer` |
| `BackgroundProofs!UpdateSafety` | `BackgroundSpec => []AloneUpdatesAreVerified` |
| `RadarProofs!TablesTruth`, `!AdmissionReplay` | the typed tables agree with the log, `Spec => []AdmissionIsReplayed` |
| `RadarProofs!HistoryTruth` | `NoneForeseen`: `Spec => []HistoryReadsTrue` |
| `RadarProofs!BreakerSafety` | `RadarSpec => BreakerIsExact` |
| `RadarProofs!StagingSafety`, `!AdmissionSafety` | `RadarSpec => []StagingIsSound`, `RadarSpec => []AdmissionIsWhole` |
| `RadarProofs!CopySafety` | `RadarSpec => []CopiesAreWhole` |
| `ConnectorsProofs!TableSafety`, `!DeletionSafety`, `!RunFinality` | `F!Spec => []TableIsExact`, `=> NoPresentFileIsDeleted`, `=> FinishedRunIsFinal` |
| `ConnectorsProofs!ClaimSafety` | `Spec => []ClaimIsExclusive`, with any connectors |
| `ConnectorsProofs!DispatchSafety` | `OneConnector`: `Spec => []DispatchHolds` |
| `ReviewsProofs!MemorySafety`, `!ApprovalSafety` | `M!Spec => []MemoriesHold`, `K!Spec => []PagesKeepApprovals` |
| `ReviewsProofs!DecisionSafety` | `Spec => []AloneDecidedOnce` |
| `EvidenceProofs!FactsReviewed` | `FactSpec => []FactsAreReviewed` |
| `EvidenceProofs!RequirementSafety`, `!AcceptanceSafety` | `M!JobSpec => []RequirementsAreTraceable`, `G!CapabilitySpec => []AcceptancesHold` |
| `EvidenceProofs!AssessmentSafety` | `M!MatchSpec => []AssessmentsHold` |
| `CareerProofs!SubmissionSafety`, `!TurnSafety` | `ApplicationSpec => []SubmissionsHold`, `=> []TurnsAreNumbered` |
| `CareerProofs!DecisionSafety` | `CommunicationSpec => []DraftsAreDecidedOnce` |
| `CareerProofs!LimitSafety` | `CommunicationSpec => LimitsAndEndsHold` |
| `CareerProofs!StudioSafety` | `S!StudioSpec => []AnsweredIsStored` |
| `CareerProofs!ReviewSafety` | `S!ResumeSpec => []ChangedOnlyByReview` |
| `CareerProofs!StudioImplementsResumes` | `S!StudioSpec => S!ResumeSpec` |
| `ProjectsProofs!LevelSafety` | `P!ProjectSpec => []LevelsAreEarned` |
| `ProjectsProofs!ScanSafety` | `S!ScanSpec => []ScansAreFaithful` |
| `ProjectsProofs!ContextSafety` | `C!ContextSpec => []ContextsAreRecorded` |

The assumptions about constants are named in the component's module (or in the MC module
that instantiates it), and TLC evaluates them. They say three kinds of things: that a
bound is a number (`MaxApplicationRevision \in Nat`), that None or Absent is no value of a
column or of a thread's memory, and what types the code gives its parameters: a session
has a command (`BatchAssumption`), limits of attempts are at least 1
(`LimitAssumption`), daily limits are at least 1, drafts and clients finite in number
(`CommunicationAssumption`), versions are finite in number (`PluginAssumption`), a
threshold is in 1..20 (`BreakerAssumption`), ids are ordered (`CapabilityAssumption`), the
paths of a tree are finite in number and have names (`ScanAssumption`), an operation that
writes keeps a section a list of entries (`ResumeAssumption`), a candidate has finitely
many terms (`ContextAssumption`). Of
another kind are three hypotheses that stand in their theorems, because the property
fails without them. `OneDispatcher`: a second dispatcher can run an attempt whose number
is recorded. `OneConnector`: with two, the run `dispatch_other_task` shows a schedule
advanced without a sync. `NoneForeseen`: a client that expects revisions it has not read
makes `HistoryIsReadable` fail.

No property below is inductive. All have the same reason: something was checked or read
in one step, by a thread that acts on it in a later one. Each inductive invariant says
of every thread what it still knows, and a few lemmas say what no other thread can take
from it. The proof that it is inductive has a lemma for each action or group of actions.

**CommandService.** A COMMIT replaces the committed database by what a call has built,
from what it read at a time when others could still write. `IInv` therefore says of both
databases, `db` and `tx`, that they are `Consistent`; that `tx` extends `db` and equals
it while nobody writes; and of each call that what it read (`seen`) is the revision it
expects and not ahead of the database it sees, and that what it is about to return is
recorded there (`CallOK`, `CallRecorded`). The central lemma is `StagedConsistent`:
adding one command's rows keeps a database consistent if the keys admit them and the
revision read is not ahead of the table. If the row has moved on since, then, revisions
being contiguous, the new revision number is already taken and the key rejects it:
`WriteFindsExpected`. `HInv` is for what spans several commands: a key has one record
(`KeyedIn`), what the lock's holder has staged is what committing the first commands of
its batch gives (`StagedSoFar`), and a call whose commands were all recorded when it
began finds them recorded (`Settled`). From it follow `BatchIsAtomic`,
`RetryIsReplayed` and, with `CommitIsBatch`, that a COMMIT is one step of
`RevisionHistory` and every other step changes nothing there.

**TaskQueue.** `OutcomeIsRecorded` fails to be inductive because a stale worker might
overwrite a finished row, and `CompletedOncePerVersion` because an older completion might
recur. `IInv` adds `RowExists`; `LeaseIsHonest` (a lease is not newer than its row, and
while it is as new its limit is the row's: this is what makes `RetriesAreBounded` true
although `fail` decides by the lease); and `CompletedVersionIsClosed` (the version of a
completion is past, or the row is still completed). `OpenInv` adds, for one dispatcher,
that the number of a row's current attempt only grows and no recorded attempt has a
larger one: then the attempt in progress has a number of its own, and its outcome can be
recorded.

**PluginLifecycle.** `LifecycleInv`: the release a thread has read and verified
(`RequestIsSound`) stays the registered one that passed the scan, since staged releases
are never replaced, also not by another build (`ExecutedStands`); an answer is what the
run of its id says, since runs are only added (`AnswersStand`). `AlonePluginInv`: with
one request at a time, what a request read is still so when it writes
(`RequestIsFresh`), so that a plan is applied once.

**Opportunities, SourceBreaker, JobStaging, Backups.** `OpportunityInv` relates the
typed tables to the last entry of their kind in the log, and keys to records; for
`HistoryTruth`, `ExpectsWhatIsRead` puts the revision a client expects, the one the
service has read and the one it writes on in order. `BreakerInv`: alone, the policy a
collector has read is the policy. `StagingInv`: the rows that the holder of the write
lock has built extend the committed ones and satisfy everything already (`Builds`), and
a run is one thread's (`RunsApart`); admission reads outside the lock, but a staged row
stays. `BackupInv`: a row is committed after its file and copied before the files are
listed.

**FolderSync, ConnectorDispatch.** `FolderInv` says of a sync where every file has got
to: a file that was there all the time is still to be read or was read
(`SeesPresent`), hence never among the missing; what is written is what was read
(`WritesFound`); and for a sync that nothing interferes with, what has been dealt with is
in the table as in the folder and the rest is as it found it (`OnCourse`).
`DispatchInv`: an id is in one place, due, waiting or with one request (`TasksApart`,
`ExecutedOnce`). With one connector the task that succeeds belongs to the request's own,
so `AdvanceIsEarned` follows.

**KnowledgeBase, MemoryStore.** `KnowledgeInv`: the revisions of a page are those from 1
to its current one, and a reviewer's reading is not ahead of it; so an approval gets
either a new number or none, whoever else has approved. `MemoryInv` is the same of
memories, where a draft's base is a revision that was there, unless the draft is among
`ahead`: a deletion is a later one.
`AloneInv`: alone, what is being reviewed is still pending.

**Facts, Jobs, Capabilities.** A fact is compared with its claim when it is promoted,
and the claim is then in other transactions' hands: nothing in the fact's table keeps
it. `IInv` adds `DecisionIsFinal` (a decided claim gets no further revision) and
`AcceptedByAnother`, and `ClaimsOnlyGrow` shows that a step only appends to a claim:
what a fact stands on stays true. `JobInv` has the same of requirements
(`ProposedThenDecided`). `GraphInv`: a planned release carries over what its parent
holds (`PlansHold`), and versions never change; a plan that is no longer on top of the
latest version is refused.

**Matching.** An assessment stands on what was resolved, while states, evidence and
bindings go on changing before and after it is recorded. `MatchInv` says that what a
thread has resolved refers to rows that are there (`InputsHold`) and that a stored
assessment has the results the policy gives for such inputs (`AssessmentStands`); rows
are only added and a binding never changes (`RowsStay`), so they give the same results
for ever, in a replay too. What the policy computes is reasoned about as it is:
`EarnedScopes` leads from a result without a gap to the bindings that qualify,
`CompleteGaps` from every other result to its gap, and `MoreSupportsMore` and
`NeverHurts` show that a set of bindings supports whatever a smaller one does.

**Applications, Communications, ResumeStudio.** `RecordsInv`: after a submission an
application's states have growing ranks and the same submission (`Follows`), so it is
submitted once; interviews and outcomes name a revision after that. `TurnsInv`: the
number a thread has read is taken by a turn that is there. `DraftsInv`: a request that
saw a draft approved or pending can only be overtaken in the order of the states, and
the one UPDATE with a status decides. `LimitInv` counts with the drafts of a day those
that are still to be inserted, after a count that found room (`Counting`). At such a
count fewer than the limit are stored, and those to come are at most one for each
client; an insertion moves one from the second set to the first, which keeps the sum
(`ShiftsKeepTheSum`). The drafts that midnight separates from their count (`Straddling`)
are held back on the day they were built, one for each client. `EndInv`: a transition
under way found its draft neither rejected nor closed, and is among the overtaken when
it was closed since. `StudioInv`: a profile, a patch's resume and a stored file, which a
request found, stay (`RequestHolds`, `Grows`).

**Resumes.** A revision is composed once, of a base and patches that users go on
working on. `ResumeInv`: what it rests on exists, and what it was made of is what it is
now (`RevisionStaysComposed`), since bases are only added and an accepted patch is never
reviewed again (`ReviewedKept`). What a composition computes goes by `CountingUp` over
the operations applied so far (`AllOfAPatch`, `AllPatches`): what has come about is
either a failure or a document that lost only what an applied operation was written
against and gained only what one proposed (`Documents`); one more operation leaves it so,
for it is applied where it finds what it expects. Removing an entry by its index
therefore cannot hit another entry that only stood there after a shift.
`StudioImplementsResumes` carries this over to the studio, whose proposals and crashes
are steps of `ResumeSpec` or change nothing in it.

**Projects.** `ProjectInv`: a basis is backed by a row that stays (`BackedStays`) and is
only inserted for a revision to come, so nothing is added below a level that was
inserted; an evidence row is followed at most by its stale copy; and each status of a
task is one that the last allows (`TaskCourse`), which backwards from `completed` leaves
one way (`CourseRuns`).

**ProjectScans.** The user edits the tree between any two steps of a walk. `ScanInv` says
of a file that is open that it is the one that was opened, permitted and inside, whatever
its path leads to by now, and that its version has only grown (`OpeningHolds`): equal
versions before and after then leave one content for both parts. A path is listed once
because what is still to be walked is apart from all that has been read, none leading to
the other, and stays so when a directory's entries take its place (`WalkHolds`,
`DirectoryStep`). `FiniteIsSorted` shows that a directory can be listed in the order of
names at all. A history that was read is the beginning of the one there is
(`HistoryHolds`), and a manifest is added only to the latest one, so its differences lead
from what is known to what it lists (`ClockHolds`). A repetition has listed the same
contents as the record; with one entry for each path on both sides, they differ alike from
any earlier manifest (`SameDifference`), so its answer is derivable too.

**Contexts.** `ContextInv`: the tables hold, of every sealed manifest, what its request
compiles to, and so does every context that was handed out and every use of a key; the
rest is about what a request compiles to. `InOrderLists` and `OneOrder` show that
`InOrder` lists each thing once and in order, and that there is one such list, if what
comes before is an order (`Orders`); that the ranked candidates and the ones left out are
so ordered is `RankedOrder` and `LeftOrder`. Hence `ReadBack`: numbered rows in a set are
read back as the lists they were. A request with its lists turned around has the same
things in the same order, since ids are distinct (`PermutedCompiles`, `TurnedKnowledge`),
and answers a retry. For the limit, the ranked candidates it keeps come before those it
cuts, and those asked for by name rank above all others and are at most as many as the
limit: it cuts none of them, and nothing better than what it keeps (`FirstIsBetter`,
`LimitIsKept`).

### Only model-checked

Liveness: `EveryCallEnds` and `ProcessingEnds`, under the fairness of section 4. Fairness
and ENABLED are beyond the prover. The properties that the four other runs violate are
not theorems, of course; every other property of a run is stated by one.

## 6. Plan

1. Models: `set_update_policy` and the permission gate of plugins; the chunk index of a
   knowledge page as a function of its current revision; exports of the studio. Each is
   followed by the invariant it adds and its proof.
2. If GitHub analyses and the legacy import come to write in more than one transaction,
   a module for their run protocol beside `FolderSync`.

## 7. What the models leave out

- `CommandService`: the entity kind, which `commit` does not compare; the outbox's
  delivery, for which there is no code.
- `TaskQueue`: progress, payloads, results, error texts; the order of due tasks (any may
  be selected, which allows more than the code does); stages, to each of which every
  query is limited.
- `Opportunities`: `get` reads three tables in three SELECTs, here one step.
- `FolderSync`: the legacy and GitHub connectors, which run the same protocol around an
  importer and an analysis; sizes and limits, which appear as `Break`.
- `ConnectorDispatch`: creation and removal of connectors; a second stage.
- `SourceBreaker`, `JobStaging`: the rate limit, the last error, the source's health and
  terms, scores.
- `Backups`: links, the order of the walk, the manifest's layout.
- `PluginLifecycle`: permissions, the configuration, metrics, reports, the audit rows,
  which nothing reads back.
- `KnowledgeBase`, `MemoryStore`: text, parsing, slugs, links, chunks and search; the
  scopes and types of memories, which a proposal may not change.
- `Facts`, `Jobs`, `Resumes`: artifacts and snapshots behind a reference, the evidence
  that pages, requirements and operations cite.
- `Capabilities`, `Matching`: names, layers, relations, which nothing creates; the
  reasons of a result.
- `Applications`, `Communications`: dates, rounds, channels, recipients, wording; the
  preparation, feedback and learning-plan proposals, which are texts.
- `Resumes`: operations edited in a review (`py:services/resume_service.py:117`), which no
  request of the API passes on: an accepted patch is applied as it was proposed.
- `ResumeStudio`: parsing of imports, the checks of a report, the diff, the exports.
- `ProjectScans`: the Windows reader; sizes, depth and count limits.
- `Projects`, `Contexts`: plans of tasks; names of capabilities and skills in a context
  and the task's input, which never vary.
