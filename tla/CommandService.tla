--------------------------- MODULE CommandService ---------------------------
(***************************************************************************)
(* The write path of the backend: services/command_service.py over the     *)
(* five tables it writes (entity_state, entity_revision, domain_event,     *)
(* outbox_message, idempotency_record).                                    *)
(*                                                                         *)
(* A call is one execution of CommandService.commit, or the use of one     *)
(* shared session for several commands (the radar's admission commits the  *)
(* job's and the opportunity's command in a single session).  Calls run on *)
(* the threads of the HTTP thread pool.  SQLite, as the engine is created  *)
(* (db/session.py: no isolation setting, so the driver emits BEGIN only    *)
(* before the first INSERT or UPDATE), gives a call no snapshot: what it   *)
(* reads before its first write it reads in autocommit, and from its first *)
(* write on it holds the only write lock until COMMIT or ROLLBACK.  `db'   *)
(* is the committed database, `tx' the one the lock holder has built.      *)
(***************************************************************************)
EXTENDS Integers, FiniteSets, Sequences

CONSTANTS
    Entity,     \* entity ids
    Value,      \* what next_state, event type and payload carry
    Key,        \* idempotency keys
    CommandId,  \* command ids
    Instant,    \* values of issued_at
    Call,       \* the concurrent calls
    Batch,      \* the command sequences that callers send, one session each
    NoCall,     \* nobody holds the write lock
    NoValue     \* the state column of an entity that has no row

Command ==
    [command_id : CommandId, target : Entity, expected_revision : Nat,
     idempotency_key : Key, next_state : Value, outbox : BOOLEAN,
     issued_at : Instant]

ASSUME BatchAssumption  == Batch \subseteq Seq(Command) \ {<<>>}
ASSUME NoCallAssumption == NoCall \notin Call

Error == {"IdempotencyConflict", "RevisionConflict", "IntegrityError",
          "OperationalError", "TypedWriteError"}
Phase == {"idle", "lookup", "read", "write", "commit", "reply"}

(* Mutant: issued_at counts, so that a retry hashes differently. *)
RequestHash_Issued(cmd) == cmd

(***************************************************************************)
(* The hash of everything a command asks for, issued_at excepted.          *)
(***************************************************************************)
RequestHash(cmd) ==
    [command_id |-> cmd.command_id, target |-> cmd.target,
     expected_revision |-> cmd.expected_revision,
     idempotency_key |-> cmd.idempotency_key,
     next_state |-> cmd.next_state, outbox |-> cmd.outbox]

Hash ==
    [command_id : CommandId, target : Entity, expected_revision : Nat,
     idempotency_key : Key, next_state : Value, outbox : BOOLEAN]

Response == [entity_id : Entity, revision : Nat]

(* Rows.  An entity without a row has revision 0, the code's default. *)
StateRow       == [revision : Nat, state : Value \cup {NoValue}]
RevisionRow    == [entity : Entity, revision : Nat, state : Value]
EventRow       == [entity : Entity, revision : Nat, command_id : CommandId]
OutboxRow      == [entity : Entity, revision : Nat]
IdempotencyRow == [idempotency_key : Key, command_id : CommandId,
                   request_hash : Hash, response : Response]

Database ==
    [entity_state       : [Entity -> StateRow],
     entity_revision    : SUBSET RevisionRow,
     domain_event       : SUBSET EventRow,
     outbox_message     : SUBSET OutboxRow,
     idempotency_record : SUBSET IdempotencyRow]

EmptyDatabase ==
    [entity_state       |-> [e \in Entity |-> [revision |-> 0, state |-> NoValue]],
     entity_revision    |-> {},
     domain_event       |-> {},
     outbox_message     |-> {},
     idempotency_record |-> {}]

VARIABLES
    db,         \* the committed database
    tx,         \* the database as the writer sees it; db when there is none
    writer,     \* the call that holds SQLite's write lock, or NoCall
    phase,      \* where each call is in _commit_in_session
    batch,      \* the commands of each call
    index,      \* the command each call is at
    seen,       \* actual_revision, the revision each call has read
    responses,  \* what each call has to return so far
    answer,     \* history: the error or the responses each call last returned
    told,       \* history: every <<command, response>> a caller was given
    settled     \* history: the call began when its commands were all recorded

callVars == <<phase, batch, index, seen, responses>>
vars     == <<db, tx, writer, callVars, answer, told, settled>>

-----------------------------------------------------------------------------
View(c)    == IF writer = c THEN tx ELSE db
Current(c) == batch[c][index[c]]

RecordOf(d, key) == {r \in d.idempotency_record : r.idempotency_key = key}

(* Whether the same request, whenever issued, has taken effect. *)
Asked == {"command_id", "target", "expected_revision", "idempotency_key",
          "next_state", "outbox"}
IsRecorded(d, cmd) ==
    \E r \in d.idempotency_record : \A f \in Asked : r.request_hash[f] = cmd[f]

(* Mutant: counts down. *)
NewRevision_Down(actual) == actual - 1

(* new_revision *)
NewRevision(actual) == actual + 1

(* Mutant: an entity ahead of the expected revision passes. *)
IsExpected_AtMost(cmd, actual) == cmd.expected_revision <= actual

(* require_expected_revision of core/commands.py *)
IsExpected(cmd, actual) == cmd.expected_revision = actual

(* Mutant: a schema without these keys. *)
ViolatesRevisionKey_None(d, e, revision) == FALSE

(* The PRIMARY KEY and UNIQUE constraints the staged rows can run into. *)
ViolatesRevisionKey(d, e, revision) ==
    \/ revision = 1 /\ d.entity_state[e].revision # 0
    \/ \E r \in d.entity_revision : r.entity = e /\ r.revision = revision

ViolatesRecordKey(d, cmd) ==
    \E r \in d.idempotency_record :
        \/ r.idempotency_key = cmd.idempotency_key
        \/ r.command_id = cmd.command_id

(* Mutant: the idempotency record is left out. *)
Staged_NoRecord(d, cmd, revision) ==
    LET e == cmd.target IN
    [d EXCEPT
        !.entity_state[e] = [revision |-> revision, state |-> cmd.next_state],
        !.entity_revision = @ \cup
            {[entity |-> e, revision |-> revision, state |-> cmd.next_state]},
        !.domain_event = @ \cup
            {[entity |-> e, revision |-> revision, command_id |-> cmd.command_id]},
        !.outbox_message = IF cmd.outbox
            THEN @ \cup {[entity |-> e, revision |-> revision]} ELSE @]

(* Mutant: the state row is all that is kept of the entity's past. *)
Staged_Overwrite(d, cmd, revision) ==
    LET e == cmd.target IN
    [Staged_NoRecord(d, cmd, revision) EXCEPT
        !.entity_revision = {r \in @ : r.entity # e \/ r.revision = revision}]

(* All the rows of one command. *)
Staged(d, cmd, revision) ==
    LET e == cmd.target IN
    [entity_state |->
        [d.entity_state EXCEPT ![e] = [revision |-> revision, state |-> cmd.next_state]],
     entity_revision |-> d.entity_revision \cup
        {[entity |-> e, revision |-> revision, state |-> cmd.next_state]},
     domain_event |-> d.domain_event \cup
        {[entity |-> e, revision |-> revision, command_id |-> cmd.command_id]},
     outbox_message |-> IF cmd.outbox
        THEN d.outbox_message \cup {[entity |-> e, revision |-> revision]}
        ELSE d.outbox_message,
     idempotency_record |-> d.idempotency_record \cup
        {[idempotency_key |-> cmd.idempotency_key, command_id |-> cmd.command_id,
          request_hash |-> RequestHash(cmd),
          response |-> [entity_id |-> e, revision |-> revision]]}]

-----------------------------------------------------------------------------
Init ==
    /\ db = EmptyDatabase
    /\ tx = EmptyDatabase
    /\ writer = NoCall
    /\ phase = [c \in Call |-> "idle"]
    /\ batch = [c \in Call |-> <<>>]
    /\ index = [c \in Call |-> 1]
    /\ seen = [c \in Call |-> 0]
    /\ responses = [c \in Call |-> <<>>]
    /\ answer = [c \in Call |-> "none"]
    /\ told = {}
    /\ settled = [c \in Call |-> FALSE]

(* A caller opens a session; nothing keeps it from repeating an old request. *)
Begin(c) ==
    /\ phase[c] = "idle"
    /\ \E b \in Batch :
        /\ batch' = [batch EXCEPT ![c] = b]
        /\ settled' = [settled EXCEPT ![c] =
                          \A i \in DOMAIN b : IsRecorded(db, b[i])]
    /\ phase' = [phase EXCEPT ![c] = "lookup"]
    /\ index' = [index EXCEPT ![c] = 1]
    /\ seen' = [seen EXCEPT ![c] = 0]
    /\ responses' = [responses EXCEPT ![c] = <<>>]
    /\ answer' = [answer EXCEPT ![c] = "none"]
    /\ UNCHANGED <<db, tx, writer, told>>

(* Mutant: what was staged before the exception is committed. *)
Fail_Commit(c, error) ==
    /\ answer' = [answer EXCEPT ![c] = error]
    /\ phase' = [phase EXCEPT ![c] = "idle"]
    /\ writer' = IF writer = c THEN NoCall ELSE writer
    /\ db' = View(c)
    /\ UNCHANGED <<tx, batch, index, seen, responses, told, settled>>

(* An exception leaves the session's `with' block: ROLLBACK. *)
Fail(c, error) ==
    /\ answer' = [answer EXCEPT ![c] = error]
    /\ phase' = [phase EXCEPT ![c] = "idle"]
    /\ writer' = IF writer = c THEN NoCall ELSE writer
    /\ tx' = IF writer = c THEN db ELSE tx
    /\ UNCHANGED <<db, batch, index, seen, responses, told, settled>>

(* The current command returns a result; on to the next one or to COMMIT. *)
Advance(c, response) ==
    /\ responses' = [responses EXCEPT ![c] = Append(@, response)]
    /\ IF index[c] < Len(batch[c])
       THEN /\ index' = [index EXCEPT ![c] = @ + 1]
            /\ phase' = [phase EXCEPT ![c] = "lookup"]
       ELSE /\ phase' = [phase EXCEPT ![c] = "commit"]
            /\ UNCHANGED index

(* session.get(IdempotencyRecordRow, key) and the replay of its response *)
Lookup(c) ==
    /\ phase[c] = "lookup"
    /\ LET found == RecordOf(View(c), Current(c).idempotency_key) IN
        \/ /\ found = {}
           /\ phase' = [phase EXCEPT ![c] = "read"]
           /\ UNCHANGED <<db, tx, writer, batch, index, seen, responses, answer, told, settled>>
        \/ \E r \in found :
           /\ r.request_hash # RequestHash(Current(c))
           /\ Fail(c, "IdempotencyConflict")
        \/ \E r \in found :
           /\ r.request_hash = RequestHash(Current(c))
           /\ Advance(c, r.response)
           /\ UNCHANGED <<db, tx, writer, batch, seen, answer, told, settled>>

(* session.get(EntityStateRow, target) and require_expected_revision *)
ReadState(c) ==
    /\ phase[c] = "read"
    /\ LET actual == View(c).entity_state[Current(c).target].revision IN
        \/ /\ ~IsExpected(Current(c), actual)
           /\ Fail(c, "RevisionConflict")
        \/ /\ IsExpected(Current(c), actual)
           /\ seen' = [seen EXCEPT ![c] = actual]
           /\ phase' = [phase EXCEPT ![c] = "write"]
           /\ UNCHANGED <<db, tx, writer, batch, index, responses, answer, told, settled>>

(* The flushes: the first takes the write lock, a constraint may reject one. *)
Write(c) ==
    /\ phase[c] = "write"
    /\ writer \in {NoCall, c}
    /\ LET cmd      == Current(c)
           revision == NewRevision(seen[c])
           rejected == \/ ViolatesRevisionKey(View(c), cmd.target, revision)
                       \/ ViolatesRecordKey(View(c), cmd)
       IN  \/ rejected /\ Fail(c, "IntegrityError")
           \/ /\ ~rejected
              /\ writer' = c
              /\ tx' = Staged(View(c), cmd, revision)
              /\ Advance(c, [entity_id |-> cmd.target, revision |-> revision])
              /\ UNCHANGED <<db, batch, seen, answer, told, settled>>

(* transactional_write.stage raises. *)
TypedWriteFails(c) ==
    /\ phase[c] = "write"
    /\ writer \in {NoCall, c}
    /\ Fail(c, "TypedWriteError")

(* Mutant: a call that waits for the write lock waits without a limit. *)
LockTimeout_Never(c) ==
    /\ phase[c] = "commit" /\ writer = c
    /\ Fail(c, "OperationalError")

(* "database is locked": another writer, or a reader at COMMIT, outlasts the
   driver's timeout. *)
LockTimeout(c) ==
    /\ \/ phase[c] = "write" /\ writer \notin {NoCall, c}
       \/ phase[c] = "commit" /\ writer = c
    /\ Fail(c, "OperationalError")

(* Mutant: the session is closed without a COMMIT. *)
CommitTransaction_Missing(c) ==
    /\ phase[c] = "commit"
    /\ writer' = IF writer = c THEN NoCall ELSE writer
    /\ tx' = db
    /\ phase' = [phase EXCEPT ![c] = "reply"]
    /\ UNCHANGED <<db, batch, index, seen, responses, answer, told, settled>>

(* The end of `session.begin()': COMMIT, if the session wrote anything. *)
CommitTransaction(c) ==
    /\ phase[c] = "commit"
    /\ db' = View(c)
    /\ writer' = IF writer = c THEN NoCall ELSE writer
    /\ phase' = [phase EXCEPT ![c] = "reply"]
    /\ UNCHANGED <<tx, batch, index, seen, responses, answer, told, settled>>

(* The caller receives the result; a crash before this step loses it. *)
Reply(c) ==
    /\ phase[c] = "reply"
    /\ phase' = [phase EXCEPT ![c] = "idle"]
    /\ answer' = [answer EXCEPT ![c] = "ok"]
    /\ told' = told \cup {<<batch[c][i], responses[c][i]>> : i \in DOMAIN batch[c]}
    /\ UNCHANGED <<db, tx, writer, batch, index, seen, responses, settled>>

(* The backend process dies: SQLite drops the open transaction. *)
Crash ==
    /\ \E c \in Call : phase[c] # "idle"
    /\ phase' = [c \in Call |-> "idle"]
    /\ writer' = NoCall
    /\ tx' = db
    /\ UNCHANGED <<db, batch, index, seen, responses, answer, told, settled>>

Step(c) ==
    \/ Lookup(c)
    \/ ReadState(c)
    \/ Write(c)
    \/ TypedWriteFails(c)
    \/ LockTimeout(c)
    \/ CommitTransaction(c)
    \/ Reply(c)

Next == Crash \/ \E c \in Call : Begin(c) \/ Step(c)

Spec     == Init /\ [][Next]_vars
(* A running call keeps running (its thread is scheduled); nobody has to call. *)
FairSpec == Spec /\ \A c \in Call : WF_vars(Step(c))

-----------------------------------------------------------------------------
(* Every variable has its type. *)
TypeOK ==
    /\ db \in Database
    /\ tx \in Database
    /\ writer \in Call \cup {NoCall}
    /\ phase \in [Call -> Phase]
    /\ batch \in [Call -> Batch \cup {<<>>}]
    /\ index \in [Call -> Nat \ {0}]
    /\ seen \in [Call -> Nat]
    /\ responses \in [Call -> Seq(Response)]
    /\ answer \in [Call -> Error \cup {"none", "ok"}]
    /\ told \subseteq Command \X Response
    /\ settled \in [Call -> BOOLEAN]

RevisionsOf(d, e) == {r \in d.entity_revision : r.entity = e}

ContiguousIn(d) ==
    \A e \in Entity :
        LET current == d.entity_state[e]
            rows    == RevisionsOf(d, e)
        IN  /\ {r.revision : r \in rows} = 1..current.revision
            /\ \A r, s \in rows : r.revision = s.revision => r = s
            /\ current.revision # 0 =>
                 [entity |-> e, revision |-> current.revision, state |-> current.state] \in rows

(* An entity's revision rows number 1, 2, ... without a gap or a repetition
   up to the revision of its entity_state row, whose state is the last row's:
   two calls that read the same revision never both commit. *)
HistoryIsContiguous == ContiguousIn(db)

NothingLostIn(d) ==
    \A r \in d.idempotency_record :
        LET asked == r.request_hash IN
        /\ r.response = [entity_id |-> asked.target,
                         revision  |-> asked.expected_revision + 1]
        /\ [entity |-> asked.target, revision |-> r.response.revision,
            state |-> asked.next_state] \in d.entity_revision

(* A recorded command produced the revision after the one it expected, with
   the state it asked for: it overwrote nothing its caller had not seen. *)
NoLostUpdate == NothingLostIn(db)

IdOf(row) == [entity_id |-> row.entity, revision |-> row.revision]

AccountedIn(d) ==
    /\ \A row \in d.entity_revision :
        \E r \in d.idempotency_record, ev \in d.domain_event :
            /\ r.response = IdOf(row)
            /\ IdOf(ev) = IdOf(row)
            /\ ev.command_id = r.command_id
            /\ r.request_hash.outbox <=>
                 [entity |-> row.entity, revision |-> row.revision] \in d.outbox_message
    /\ \A other \in d.domain_event \cup d.outbox_message :
        \E row \in d.entity_revision : IdOf(row) = IdOf(other)
    /\ \A r, s \in d.idempotency_record : r.response = s.response => r = s
    /\ \A ev, other \in d.domain_event : IdOf(ev) = IdOf(other) => ev = other

(* Revisions, events and idempotency records go together one to one, and a
   revision has its outbox message exactly when its command named a
   destination: no part of a command is committed without the others. *)
EveryRevisionIsAccounted == AccountedIn(db)

RecordedWith(d, cmd, response) ==
    \E r \in RecordOf(d, cmd.idempotency_key) :
        r.request_hash = RequestHash(cmd) /\ r.response = response

(* What a caller was told stays true through every later call and crash: the
   command is recorded, with the very response the caller got, whichever of
   several calls for it answered. *)
ToldIsDurable == \A t \in told : RecordedWith(db, t[1], t[2])

(* A retry that starts when its commands are all recorded is answered with
   their responses, even with a fresh issued_at and whatever revision the
   entity has reached: never a conflict, never an integrity error. *)
RetryIsReplayed ==
    \A c \in Call : settled[c] => answer[c] \in {"none", "ok"}

(* A batch none of whose keys another batch uses. *)
Keys(b)     == {b[i].idempotency_key : i \in DOMAIN b}
Exclusive(b) == \A other \in Batch \ {b} : Keys(b) \cap Keys(other) = {}

(* The commands of a shared session are recorded together or not at all, a
   conflict, failure or crash half-way included. *)
BatchIsAtomic ==
    \A b \in Batch :
        Exclusive(b) /\ (\E i \in DOMAIN b : IsRecorded(db, b[i]))
            => \A i \in DOMAIN b : IsRecorded(db, b[i])

Extends(d, older) ==
    /\ older.entity_revision \subseteq d.entity_revision
    /\ older.domain_event \subseteq d.domain_event
    /\ older.outbox_message \subseteq d.outbox_message
    /\ older.idempotency_record \subseteq d.idempotency_record
    /\ \A e \in Entity : older.entity_state[e].revision <= d.entity_state[e].revision

(* Committed rows are never changed or removed and revisions never go back. *)
AppendOnly == [][Extends(db', db)]_vars

(* What the tables say of the history of changes and of the requests done. *)
ReceiptsOf(d) ==
    {[request |-> r.request_hash, revision |-> r.response.revision] :
        r \in d.idempotency_record}

History == INSTANCE RevisionHistory WITH
    history <- db.entity_revision, receipts <- ReceiptsOf(db)

(* The command service implements the promise of RevisionHistory: whatever calls,
   rollbacks and crashes interleave, a session takes effect as one step. *)
ImplementsHistory == History!Spec

(* Every call ends: nobody waits for the write lock for ever. *)
EveryCallEnds == \A c \in Call : (phase[c] # "idle") ~> (phase[c] = "idle")

(* The committed tables have their types and fit together: no gap or repetition in an
   entity's revisions, no command that overwrote what its caller had not seen, no
   revision without its event and its idempotency record. *)
CommittedIsConsistent ==
    TypeOK /\ HistoryIsContiguous /\ NoLostUpdate /\ EveryRevisionIsAccounted
=============================================================================
