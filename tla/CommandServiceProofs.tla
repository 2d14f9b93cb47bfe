------------------------ MODULE CommandServiceProofs ------------------------
(***************************************************************************)
(* Proofs about CommandService for any entities, commands, batches and     *)
(* number of concurrent calls: first the committed tables and what callers *)
(* were told; then that the commands of a shared session are recorded      *)
(* together, that a retry of what is recorded is replayed, and that the    *)
(* service implements RevisionHistory.                                     *)
(***************************************************************************)
EXTENDS CommandService, TLAPS

(* The database predicates that one command's rows preserve. *)
Consistent(d) ==
    /\ d \in Database
    /\ ContiguousIn(d)
    /\ NothingLostIn(d)
    /\ AccountedIn(d)

(* Where a running call is in its batch. *)
CallOK(c) ==
    phase[c] # "idle" =>
        /\ batch[c] \in Batch
        /\ index[c] \in 1..Len(batch[c])
        /\ phase[c] \in {"lookup", "read", "write"} =>
               Len(responses[c]) = index[c] - 1
        /\ phase[c] \in {"commit", "reply"} =>
               Len(responses[c]) = Len(batch[c])
        /\ phase[c] = "write" =>
               /\ seen[c] = Current(c).expected_revision
               /\ seen[c] <= View(c).entity_state[Current(c).target].revision
        /\ phase[c] = "reply" => writer # c

(* What a call is about to return is recorded in the database it sees. *)
CallRecorded(c) ==
    phase[c] # "idle" =>
        \A i \in 1..Len(responses[c]) :
            RecordedWith(View(c), batch[c][i], responses[c][i])

(* The inductive invariant. *)
IInv ==
    /\ TypeOK
    /\ Consistent(db)
    /\ Consistent(tx)
    /\ writer = NoCall => tx = db
    /\ Extends(tx, db)
    /\ \A c \in Call : CallOK(c) /\ CallRecorded(c)
    /\ ToldIsDurable

-----------------------------------------------------------------------------
(* The rows of a command have the types of their tables. *)
LEMMA StagedType ==
    ASSUME NEW d \in Database, NEW cmd \in Command, NEW n \in Nat
    PROVE  Staged(d, cmd, n) \in Database
<1> DEFINE e == cmd.target
<1>1. /\ e \in Entity /\ cmd.next_state \in Value /\ cmd.command_id \in CommandId
      /\ cmd.idempotency_key \in Key
      /\ cmd.expected_revision \in Nat /\ cmd.outbox \in BOOLEAN
  BY DEF Command
<1>2. RequestHash(cmd) \in Hash
  BY <1>1 DEF RequestHash, Hash
<1>3. /\ d.entity_state \in [Entity -> StateRow]
      /\ d.entity_revision \in SUBSET RevisionRow
      /\ d.domain_event \in SUBSET EventRow
      /\ d.outbox_message \in SUBSET OutboxRow
      /\ d.idempotency_record \in SUBSET IdempotencyRow
  BY DEF Database
<1>4. [d.entity_state EXCEPT ![e] = [revision |-> n, state |-> cmd.next_state]]
        \in [Entity -> StateRow]
  BY <1>1, <1>3 DEF StateRow
<1>5. d.entity_revision \cup {[entity |-> e, revision |-> n, state |-> cmd.next_state]}
        \in SUBSET RevisionRow
  BY <1>1, <1>3 DEF RevisionRow
<1>6. d.domain_event \cup {[entity |-> e, revision |-> n, command_id |-> cmd.command_id]}
        \in SUBSET EventRow
  BY <1>1, <1>3 DEF EventRow
<1>7. (IF cmd.outbox THEN d.outbox_message \cup {[entity |-> e, revision |-> n]}
       ELSE d.outbox_message) \in SUBSET OutboxRow
  BY <1>1, <1>3 DEF OutboxRow
<1>8. d.idempotency_record \cup
        {[idempotency_key |-> cmd.idempotency_key, command_id |-> cmd.command_id,
          request_hash |-> RequestHash(cmd),
          response |-> [entity_id |-> e, revision |-> n]]} \in SUBSET IdempotencyRow
  BY <1>1, <1>2, <1>3 DEF IdempotencyRow, Response
<1> QED
  BY <1>4, <1>5, <1>6, <1>7, <1>8 DEF Staged, Database

LEMMA ExtendsTransitive ==
    ASSUME NEW a \in Database, NEW b \in Database, NEW d \in Database,
           Extends(b, a), Extends(d, b)
    PROVE  Extends(d, a)
<1>1. \A e \in Entity : /\ a.entity_state[e].revision \in Nat
                       /\ b.entity_state[e].revision \in Nat
                       /\ d.entity_state[e].revision \in Nat
  BY DEF Database, StateRow
<1> QED
  BY <1>1 DEF Extends

LEMMA ExtendsReflexive ==
    ASSUME NEW d \in Database
    PROVE  Extends(d, d)
<1>1. \A e \in Entity : d.entity_state[e].revision \in Nat
  BY DEF Database, StateRow
<1> QED
  BY <1>1 DEF Extends

(* A recorded response stays recorded. *)
LEMMA RecordedStays ==
    ASSUME NEW d, NEW older, Extends(d, older), NEW cmd, NEW response,
           RecordedWith(older, cmd, response)
    PROVE  RecordedWith(d, cmd, response)
BY DEF Extends, RecordedWith, RecordOf

(* One command that passed its checks leaves the database consistent. *)
LEMMA StagedConsistent ==
    ASSUME NEW d, Consistent(d), NEW cmd \in Command,
           d.entity_state[cmd.target].revision = cmd.expected_revision,
           ~ViolatesRecordKey(d, cmd)
    PROVE  LET n == cmd.expected_revision + 1
               s == Staged(d, cmd, n)
           IN  /\ Consistent(s)
               /\ Extends(s, d)
               /\ RecordedWith(s, cmd, [entity_id |-> cmd.target, revision |-> n])
<1> DEFINE e   == cmd.target
           n   == cmd.expected_revision + 1
           s   == Staged(d, cmd, n)
           row == [entity |-> e, revision |-> n, state |-> cmd.next_state]
           ev  == [entity |-> e, revision |-> n, command_id |-> cmd.command_id]
           out == [entity |-> e, revision |-> n]
           rec == [idempotency_key |-> cmd.idempotency_key,
                   command_id |-> cmd.command_id,
                   request_hash |-> RequestHash(cmd),
                   response |-> [entity_id |-> e, revision |-> n]]
<1>1. /\ d \in Database /\ n \in Nat \ {0} /\ e \in Entity
      /\ cmd.expected_revision \in Nat /\ cmd.outbox \in BOOLEAN
  BY DEF Consistent, Command
<1>2. /\ s.entity_state = [d.entity_state EXCEPT ![e] =
                              [revision |-> n, state |-> cmd.next_state]]
      /\ s.entity_revision = d.entity_revision \cup {row}
      /\ s.domain_event = d.domain_event \cup {ev}
      /\ s.outbox_message = IF cmd.outbox THEN d.outbox_message \cup {out}
                            ELSE d.outbox_message
      /\ s.idempotency_record = d.idempotency_record \cup {rec}
  BY DEF Staged
<1>3. s \in Database
  BY <1>1, StagedType
<1>4. /\ d.entity_state \in [Entity -> StateRow]
      /\ d.entity_revision \subseteq RevisionRow
      /\ d.domain_event \subseteq EventRow
      /\ d.outbox_message \subseteq OutboxRow
      /\ d.idempotency_record \subseteq IdempotencyRow
  BY <1>1 DEF Database
<1>5. \A r \in d.entity_revision :
        r.revision \in Nat /\ (r.entity = e => r.revision <= cmd.expected_revision)
  <2> SUFFICES ASSUME NEW r \in d.entity_revision
               PROVE  /\ r.revision \in Nat
                      /\ r.entity = e => r.revision <= cmd.expected_revision
    OBVIOUS
  <2>1. r.revision \in Nat
    BY <1>4 DEF RevisionRow
  <2>2. {t.revision : t \in RevisionsOf(d, e)} = 1..cmd.expected_revision
    BY <1>1 DEF Consistent, ContiguousIn
  <2>3. ASSUME r.entity = e PROVE r.revision \in 1..cmd.expected_revision
    <3>1. r \in RevisionsOf(d, e)
      BY <2>3 DEF RevisionsOf
    <3>2. r.revision \in {t.revision : t \in RevisionsOf(d, e)}
      BY <3>1
    <3> QED BY <2>2, <3>2
  <2> QED BY <2>1, <2>3, <1>1
<1>6. \A r \in d.entity_revision : IdOf(r) # IdOf(row)
  BY <1>1, <1>5 DEF IdOf
<1>7. Extends(s, d)
  <2>1. \A x \in Entity : d.entity_state[x].revision <= s.entity_state[x].revision
    BY <1>1, <1>2, <1>4 DEF StateRow
  <2> QED BY <1>2, <2>1 DEF Extends
<1>8. ContiguousIn(s)
  <2> SUFFICES ASSUME NEW x \in Entity
               PROVE  LET current == s.entity_state[x]
                          rows    == RevisionsOf(s, x)
                      IN  /\ {r.revision : r \in rows} = 1..current.revision
                          /\ \A r, t \in rows : r.revision = t.revision => r = t
                          /\ current.revision # 0 =>
                                [entity |-> x, revision |-> current.revision,
                                 state |-> current.state] \in rows
    BY DEF ContiguousIn
  <2>0. LET current == d.entity_state[x]
            rows    == RevisionsOf(d, x)
        IN  /\ {r.revision : r \in rows} = 1..current.revision
            /\ \A r, t \in rows : r.revision = t.revision => r = t
            /\ current.revision # 0 =>
                  [entity |-> x, revision |-> current.revision,
                   state |-> current.state] \in rows
    BY DEF Consistent, ContiguousIn
  <2>1. CASE x # e
    <3>1. RevisionsOf(s, x) = RevisionsOf(d, x) /\ s.entity_state[x] = d.entity_state[x]
      BY <1>2, <1>4, <2>1 DEF RevisionsOf
    <3> QED BY <3>1, <2>0
  <2>2. CASE x = e
    <3>1. RevisionsOf(s, x) = RevisionsOf(d, x) \cup {row}
      BY <1>2, <2>2 DEF RevisionsOf
    <3>2. s.entity_state[x] = [revision |-> n, state |-> cmd.next_state]
      BY <1>1, <1>2, <1>4, <2>2
    <3>3. {r.revision : r \in RevisionsOf(d, x)} = 1..cmd.expected_revision
      BY <2>0, <2>2
    <3>4. {r.revision : r \in RevisionsOf(s, x)} = 1..n
      <4>1. row.revision = n
        OBVIOUS
      <4>2. {r.revision : r \in RevisionsOf(s, x)}
              = {r.revision : r \in RevisionsOf(d, x)} \cup {n}
        <5> HIDE DEF row
        <5> QED BY <3>1, <4>1
      <4>3. 1..n = 1..cmd.expected_revision \cup {n}
        BY <1>1
      <4> QED BY <4>2, <4>3, <3>3
    <3>5. \A r \in RevisionsOf(d, x) : r.revision # n
      BY <1>1, <1>5, <2>2 DEF RevisionsOf
    <3>6. \A r, t \in RevisionsOf(s, x) : r.revision = t.revision => r = t
      BY <2>0, <3>1, <3>5
    <3> QED BY <3>1, <3>2, <3>4, <3>6, <2>2
  <2> QED BY <2>1, <2>2
<1>9. NothingLostIn(s)
  <2>1. RequestHash(cmd).target = e /\ RequestHash(cmd).next_state = cmd.next_state
        /\ RequestHash(cmd).expected_revision = cmd.expected_revision
    BY DEF RequestHash
  <2>2. NothingLostIn(d)
    BY DEF Consistent
  <2> SUFFICES ASSUME NEW r \in s.idempotency_record
               PROVE  /\ r.response = [entity_id |-> r.request_hash.target,
                                       revision |-> r.request_hash.expected_revision + 1]
                      /\ [entity |-> r.request_hash.target, revision |-> r.response.revision,
                          state |-> r.request_hash.next_state] \in s.entity_revision
    BY DEF NothingLostIn
  <2>3. CASE r \in d.idempotency_record
    BY <2>2, <2>3, <1>2 DEF NothingLostIn
  <2>4. CASE r = rec
    BY <2>1, <2>4, <1>2
  <2> QED BY <2>3, <2>4, <1>2
<1>10. AccountedIn(s)
  <2>0. AccountedIn(d)
    BY DEF Consistent
  <2>1. RequestHash(cmd).outbox = cmd.outbox
    BY DEF RequestHash
  <2>2. IdOf(row) = [entity_id |-> e, revision |-> n] /\ IdOf(ev) = IdOf(row)
        /\ IdOf(out) = IdOf(row)
    BY DEF IdOf
  <2>3. \A other \in d.domain_event \cup d.outbox_message : IdOf(other) # IdOf(row)
    BY <1>6, <2>0 DEF AccountedIn
  <2>4. \A r \in d.idempotency_record : r.response # rec.response
    <3> SUFFICES ASSUME NEW r \in d.idempotency_record
                 PROVE  r.response # rec.response
      OBVIOUS
    <3> DEFINE t == [entity |-> r.request_hash.target, revision |-> r.response.revision,
                     state |-> r.request_hash.next_state]
    <3>1. /\ r.response = [entity_id |-> r.request_hash.target,
                           revision |-> r.request_hash.expected_revision + 1]
          /\ t \in d.entity_revision
      BY DEF Consistent, NothingLostIn
    <3>2. IdOf(t) # IdOf(row)
      BY <3>1, <1>6
    <3>3. IdOf(t) = r.response /\ IdOf(row) = rec.response
      BY <3>1 DEF IdOf
    <3> QED BY <3>2, <3>3
  <2>5. \A r \in s.entity_revision :
          \E k \in s.idempotency_record, v \in s.domain_event :
            /\ k.response = IdOf(r)
            /\ IdOf(v) = IdOf(r)
            /\ v.command_id = k.command_id
            /\ k.request_hash.outbox <=>
                 [entity |-> r.entity, revision |-> r.revision] \in s.outbox_message
    <3> SUFFICES ASSUME NEW r \in s.entity_revision
                 PROVE  \E k \in s.idempotency_record, v \in s.domain_event :
                          /\ k.response = IdOf(r)
                          /\ IdOf(v) = IdOf(r)
                          /\ v.command_id = k.command_id
                          /\ k.request_hash.outbox <=>
                               [entity |-> r.entity, revision |-> r.revision]
                                  \in s.outbox_message
      OBVIOUS
    <3>1. CASE r \in d.entity_revision
      <4>1. PICK k \in d.idempotency_record, v \in d.domain_event :
              /\ k.response = IdOf(r)
              /\ IdOf(v) = IdOf(r)
              /\ v.command_id = k.command_id
              /\ k.request_hash.outbox <=>
                   [entity |-> r.entity, revision |-> r.revision] \in d.outbox_message
        BY <3>1, <2>0 DEF AccountedIn
      <4>2. [entity |-> r.entity, revision |-> r.revision] # out
        BY <1>6, <3>1 DEF IdOf
      <4>3. [entity |-> r.entity, revision |-> r.revision] \in s.outbox_message
              <=> [entity |-> r.entity, revision |-> r.revision] \in d.outbox_message
        BY <1>2, <4>2
      <4>4. k \in s.idempotency_record /\ v \in s.domain_event
        BY <1>2
      <4> QED BY <4>1, <4>3, <4>4
    <3>2. CASE r = row
      <4>1. rec \in s.idempotency_record /\ ev \in s.domain_event
        BY <1>2
      <4>2. out \notin d.outbox_message
        BY <2>2, <2>3
      <4>3. rec.request_hash.outbox <=> out \in s.outbox_message
        BY <1>1, <1>2, <2>1, <4>2
      <4> QED BY <3>2, <4>1, <4>3, <2>2
    <3> QED BY <3>1, <3>2, <1>2
  <2>6. \A other \in s.domain_event \cup s.outbox_message :
          \E r \in s.entity_revision : IdOf(r) = IdOf(other)
    BY <1>2, <2>0, <2>2 DEF AccountedIn
  <2>7. \A r, t \in s.idempotency_record : r.response = t.response => r = t
    BY <1>2, <2>0, <2>4 DEF AccountedIn
  <2>8. \A v, other \in s.domain_event : IdOf(v) = IdOf(other) => v = other
    BY <1>2, <2>0, <2>2, <2>3 DEF AccountedIn
  <2> QED BY <2>5, <2>6, <2>7, <2>8 DEF AccountedIn
<1>11. RecordedWith(s, cmd, [entity_id |-> e, revision |-> n])
  <2>1. /\ rec.idempotency_key = cmd.idempotency_key
        /\ rec.request_hash = RequestHash(cmd)
        /\ rec.response = [entity_id |-> e, revision |-> n]
        /\ rec \in s.idempotency_record
    BY <1>2
  <2> HIDE DEF rec
  <2> QED BY <2>1 DEF RecordedWith, RecordOf
<1> QED
  BY <1>3, <1>7, <1>8, <1>9, <1>10, <1>11 DEF Consistent

-----------------------------------------------------------------------------
LEMMA EmptyConsistent == Consistent(EmptyDatabase)
<1> DEFINE d == EmptyDatabase
<1>1. /\ d.entity_state = [e \in Entity |-> [revision |-> 0, state |-> NoValue]]
      /\ d.entity_revision = {} /\ d.domain_event = {}
      /\ d.outbox_message = {} /\ d.idempotency_record = {}
  BY DEF EmptyDatabase
<1>2. d \in Database
  BY DEF EmptyDatabase, Database, StateRow
<1>3. ContiguousIn(d)
  <2> SUFFICES ASSUME NEW e \in Entity
               PROVE  /\ {r.revision : r \in RevisionsOf(d, e)}
                           = 1..d.entity_state[e].revision
                      /\ RevisionsOf(d, e) = {}
                      /\ d.entity_state[e].revision = 0
    BY DEF ContiguousIn
  <2>1. RevisionsOf(d, e) = {}
    BY <1>1 DEF RevisionsOf
  <2>2. d.entity_state[e].revision = 0
    BY <1>1
  <2>3. 1..0 = {}
    OBVIOUS
  <2> QED BY <2>1, <2>2, <2>3
<1>4. NothingLostIn(d) /\ AccountedIn(d)
  BY <1>1 DEF NothingLostIn, AccountedIn
<1> QED
  BY <1>2, <1>3, <1>4 DEF Consistent

LEMMA InitInv == Init => IInv
<1> SUFFICES ASSUME Init PROVE IInv
  OBVIOUS
<1> USE DEF Init
<1>1. Consistent(db) /\ Consistent(tx) /\ db \in Database
  BY EmptyConsistent DEF Consistent
<1>2. TypeOK
  BY <1>1 DEF TypeOK, Phase
<1>3. Extends(tx, db)
  BY <1>1, ExtendsReflexive
<1> QED
  BY <1>1, <1>2, <1>3 DEF IInv, CallOK, CallRecorded, ToldIsDurable

(* A call in the middle of its batch is at one of its commands. *)
LEMMA CurrentIsCommand ==
    ASSUME TypeOK, NEW c \in Call, CallOK(c), phase[c] # "idle"
    PROVE  /\ Current(c) \in Command
           /\ batch[c] \in Seq(Command)
           /\ index[c] \in 1..Len(batch[c])
           /\ Len(batch[c]) \in Nat \ {0}
BY BatchAssumption DEF CallOK, Current, TypeOK

LEMMA ViewConsistent ==
    ASSUME IInv, NEW c \in Call
    PROVE  Consistent(View(c)) /\ Extends(View(c), db)
BY ExtendsReflexive DEF IInv, View, Consistent

-----------------------------------------------------------------------------
(* Steps that leave the databases, the lock and the other calls alone. *)
LEMMA LocalStep ==
    ASSUME IInv, TypeOK', NEW c \in Call,
           UNCHANGED <<db, tx, writer, told>>,
           \A k \in Call \ {c} : /\ phase'[k] = phase[k] /\ batch'[k] = batch[k]
                                 /\ index'[k] = index[k] /\ seen'[k] = seen[k]
                                 /\ responses'[k] = responses[k],
           CallOK(c)', CallRecorded(c)'
    PROVE  IInv'
<1>1. \A k \in Call : View(k)' = View(k)
  BY DEF View
<1>2. ASSUME NEW k \in Call \ {c} PROVE CallOK(k)' /\ CallRecorded(k)'
  BY <1>1 DEF IInv, CallOK, CallRecorded, Current
<1>3. Consistent(db)' /\ Consistent(tx)' /\ Extends(tx, db)' /\ ToldIsDurable'
      /\ (writer = NoCall => tx = db)'
  BY DEF IInv, ToldIsDurable
<1> QED
  BY <1>2, <1>3 DEF IInv

(* A rollback. *)
LEMMA FailStep ==
    ASSUME IInv, TypeOK', NEW c \in Call, NEW error, Fail(c, error)
    PROVE  IInv'
<1> USE DEF Fail
<1>1. writer' # c /\ db' = db
  BY NoCallAssumption
<1>2. phase'[c] = "idle" /\ \A k \in Call \ {c} : phase'[k] = phase[k]
  BY DEF IInv, TypeOK
<1>3. \A k \in Call \ {c} : View(k)' = View(k)
  BY NoCallAssumption DEF View
<1>4. \A k \in Call \ {c} : writer' = k => writer = k
  BY NoCallAssumption
<1>5. ASSUME NEW k \in Call PROVE CallOK(k)' /\ CallRecorded(k)'
  <2>1. CASE k = c
    BY <1>2, <2>1 DEF CallOK, CallRecorded
  <2>2. CASE k # c
    BY <1>2, <1>3, <1>4, <2>2 DEF IInv, CallOK, CallRecorded, Current
  <2> QED BY <2>1, <2>2
<1>6. Consistent(db)' /\ Consistent(tx)' /\ Extends(tx, db)'
  BY ExtendsReflexive DEF IInv, Consistent
<1>7. (writer = NoCall => tx = db)' /\ ToldIsDurable'
  BY DEF IInv, ToldIsDurable
<1> QED
  BY <1>5, <1>6, <1>7 DEF IInv

LEMMA BeginStep ==
    ASSUME IInv, TypeOK', NEW c \in Call, Begin(c)
    PROVE  IInv'
<1> USE DEF Begin
<1>1. PICK b \in Batch : batch' = [batch EXCEPT ![c] = b]
  OBVIOUS
<1>2. /\ phase'[c] = "lookup" /\ batch'[c] = b /\ index'[c] = 1
      /\ responses'[c] = <<>>
  BY <1>1 DEF IInv, TypeOK
<1>3. b \in Seq(Command) /\ b # <<>>
  BY BatchAssumption
<1>4. 1 \in 1..Len(b)
  BY <1>3
<1>5. CallOK(c)' /\ CallRecorded(c)'
  BY <1>2, <1>4 DEF CallOK, CallRecorded
<1>6. \A k \in Call \ {c} : /\ phase'[k] = phase[k] /\ batch'[k] = batch[k]
                            /\ index'[k] = index[k] /\ seen'[k] = seen[k]
                            /\ responses'[k] = responses[k]
  BY <1>1 DEF IInv, TypeOK
<1> QED
  BY <1>5, <1>6, LocalStep

(* What Advance does to a call's position, whatever the step does to the
   databases, as long as the returned response is recorded. *)
LEMMA AdvanceCall ==
    ASSUME IInv, TypeOK', NEW c \in Call, phase[c] \in {"lookup", "write"},
           NEW response \in Response, Advance(c, response), UNCHANGED <<batch, seen>>,
           Extends(View(c)', View(c)),
           RecordedWith(View(c)', Current(c), response)
    PROVE  /\ CallOK(c)' /\ CallRecorded(c)'
           /\ \A k \in Call \ {c} : /\ phase'[k] = phase[k] /\ batch'[k] = batch[k]
                                    /\ index'[k] = index[k] /\ seen'[k] = seen[k]
                                    /\ responses'[k] = responses[k]
<1> USE DEF Advance
<1>0. TypeOK /\ CallOK(c) /\ CallRecorded(c)
  BY DEF IInv
<1>1. /\ index[c] \in 1..Len(batch[c]) /\ Len(batch[c]) \in Nat \ {0}
      /\ batch[c] \in Batch
      /\ Len(responses[c]) = index[c] - 1 /\ responses[c] \in Seq(Response)
  BY <1>0, CurrentIsCommand DEF CallOK, TypeOK
<1>2. /\ responses'[c] = Append(responses[c], response)
      /\ index'[c] = IF index[c] < Len(batch[c]) THEN index[c] + 1 ELSE index[c]
      /\ phase'[c] = IF index[c] < Len(batch[c]) THEN "lookup" ELSE "commit"
      /\ batch'[c] = batch[c]
  BY <1>0 DEF TypeOK
<1>3. Len(responses'[c]) = index[c]
  BY <1>1, <1>2
<1>4. CallOK(c)'
  BY <1>1, <1>2, <1>3 DEF CallOK
<1>5. ASSUME NEW i \in 1..Len(responses'[c])
      PROVE  RecordedWith(View(c)', batch'[c][i], responses'[c][i])
  <2>1. CASE i = index[c]
    <3>1. responses'[c][i] = response /\ batch'[c][i] = Current(c)
      BY <1>1, <1>2, <2>1 DEF Current
    <3> QED BY <3>1
  <2>2. CASE i # index[c]
    <3>1. i \in 1..Len(responses[c])
      BY <1>1, <1>3, <2>2
    <3>2. responses'[c][i] = responses[c][i] /\ batch'[c][i] = batch[c][i]
      BY <1>1, <1>2, <3>1
    <3>3. RecordedWith(View(c), batch[c][i], responses[c][i])
      BY <1>0, <3>1 DEF CallRecorded
    <3> QED BY <3>2, <3>3, RecordedStays
  <2> QED BY <2>1, <2>2
<1>6. CallRecorded(c)'
  BY <1>5 DEF CallRecorded
<1>7. \A k \in Call \ {c} : /\ phase'[k] = phase[k] /\ batch'[k] = batch[k]
                            /\ index'[k] = index[k] /\ seen'[k] = seen[k]
                            /\ responses'[k] = responses[k]
  BY <1>0 DEF TypeOK
<1> QED
  BY <1>4, <1>6, <1>7

LEMMA LookupStep ==
    ASSUME IInv, TypeOK', NEW c \in Call, Lookup(c)
    PROVE  IInv'
<1> DEFINE found == RecordOf(View(c), Current(c).idempotency_key)
<1>0. TypeOK /\ CallOK(c) /\ CallRecorded(c) /\ phase[c] = "lookup"
  BY DEF IInv, Lookup
<1>1. CASE found = {} /\ phase' = [phase EXCEPT ![c] = "read"]
           /\ UNCHANGED <<db, tx, writer, batch, index, seen, responses, answer, told, settled>>
  <2>1. /\ phase'[c] = "read"
        /\ \A k \in Call \ {c} : phase'[k] = phase[k]
    BY <1>0, <1>1 DEF TypeOK
  <2>2. CallOK(c)' /\ CallRecorded(c)'
    BY <1>0, <1>1, <2>1 DEF CallOK, CallRecorded, View
  <2> QED BY <1>1, <2>1, <2>2, LocalStep
<1>2. CASE Fail(c, "IdempotencyConflict")
  BY <1>2, FailStep
<1>3. ASSUME NEW r \in found, r.request_hash = RequestHash(Current(c)),
             Advance(c, r.response),
             UNCHANGED <<db, tx, writer, batch, seen, answer, told, settled>>
      PROVE  IInv'
  <2>1. Consistent(View(c))
    BY ViewConsistent
  <2>2. r \in IdempotencyRow
    BY <2>1 DEF RecordOf, Consistent, Database
  <2>3. r.response \in Response
    BY <2>2 DEF IdempotencyRow
  <2>4. RecordedWith(View(c), Current(c), r.response)
    BY <1>3 DEF RecordedWith
  <2>5. View(c)' = View(c)
    BY <1>3 DEF View
  <2>6. Extends(View(c)', View(c))
    BY <2>1, <2>5, ExtendsReflexive DEF Consistent
  <2>7. /\ CallOK(c)' /\ CallRecorded(c)'
        /\ \A k \in Call \ {c} : /\ phase'[k] = phase[k] /\ batch'[k] = batch[k]
                                 /\ index'[k] = index[k] /\ seen'[k] = seen[k]
                                 /\ responses'[k] = responses[k]
    BY <1>0, <1>3, <2>3, <2>4, <2>5, <2>6, AdvanceCall
  <2> QED BY <1>3, <2>7, LocalStep
<1> QED
  BY <1>1, <1>2, <1>3 DEF Lookup

LEMMA ReadStep ==
    ASSUME IInv, TypeOK', NEW c \in Call, ReadState(c)
    PROVE  IInv'
<1> DEFINE actual == View(c).entity_state[Current(c).target].revision
<1>0. TypeOK /\ CallOK(c) /\ CallRecorded(c) /\ phase[c] = "read"
  BY DEF IInv, ReadState
<1>1. CASE Fail(c, "RevisionConflict")
  BY <1>1, FailStep
<1>2. CASE /\ IsExpected(Current(c), actual)
           /\ seen' = [seen EXCEPT ![c] = actual]
           /\ phase' = [phase EXCEPT ![c] = "write"]
           /\ UNCHANGED <<db, tx, writer, batch, index, responses, answer, told, settled>>
  <2>1. /\ phase'[c] = "write" /\ seen'[c] = actual
        /\ \A k \in Call \ {c} : phase'[k] = phase[k] /\ seen'[k] = seen[k]
    BY <1>0, <1>2 DEF TypeOK
  <2>2. View(c)' = View(c) /\ Current(c)' = Current(c)
    BY <1>2 DEF View, Current
  <2>3. actual \in Nat
    <3>1. Current(c).target \in Entity
      BY <1>0, CurrentIsCommand DEF Command
    <3>2. View(c).entity_state \in [Entity -> StateRow]
      BY ViewConsistent DEF Consistent, Database
    <3> QED BY <3>1, <3>2 DEF StateRow
  <2>4. CallOK(c)'
    BY <1>0, <1>2, <2>1, <2>2, <2>3 DEF CallOK, IsExpected
  <2>5. CallRecorded(c)'
    BY <1>0, <1>2, <2>1, <2>2 DEF CallRecorded
  <2> QED BY <1>2, <2>1, <2>4, <2>5, LocalStep
<1> QED
  BY <1>1, <1>2 DEF ReadState

(* The checks that Write repeats leave exactly the expected revision. *)
LEMMA WriteFindsExpected ==
    ASSUME IInv, NEW c \in Call, phase[c] = "write",
           ~ViolatesRevisionKey(View(c), Current(c).target, NewRevision(seen[c]))
    PROVE  /\ View(c).entity_state[Current(c).target].revision
                = Current(c).expected_revision
           /\ NewRevision(seen[c]) = Current(c).expected_revision + 1
<1> DEFINE d == View(c)
           e == Current(c).target
           n == d.entity_state[e].revision
<1>1. /\ Consistent(d) /\ CallOK(c) /\ seen[c] \in Nat /\ Current(c) \in Command
  BY ViewConsistent, CurrentIsCommand DEF IInv, TypeOK
<1>2. e \in Entity /\ n \in Nat
  BY <1>1 DEF Command, Consistent, Database, StateRow
<1>3. seen[c] = Current(c).expected_revision /\ seen[c] <= n
  BY <1>1 DEF CallOK
<1>4. {r.revision : r \in RevisionsOf(d, e)} = 1..n
  BY <1>1, <1>2 DEF Consistent, ContiguousIn
<1>5. ASSUME seen[c] < n PROVE FALSE
  <2>1. seen[c] + 1 \in 1..n
    BY <1>1, <1>2, <1>5
  <2>2. PICK r \in RevisionsOf(d, e) : r.revision = seen[c] + 1
    BY <1>4, <2>1
  <2> QED BY <2>2 DEF ViolatesRevisionKey, NewRevision, RevisionsOf
<1> QED
  BY <1>1, <1>2, <1>3, <1>5 DEF NewRevision

LEMMA WriteStep ==
    ASSUME IInv, TypeOK', NEW c \in Call, Write(c)
    PROVE  IInv'
<1> DEFINE cmd == Current(c)
           n   == NewRevision(seen[c])
           rsp == [entity_id |-> cmd.target, revision |-> n]
<1>0. TypeOK /\ CallOK(c) /\ CallRecorded(c) /\ phase[c] = "write"
      /\ writer \in {NoCall, c}
  BY DEF IInv, Write
<1>1. CASE Fail(c, "IntegrityError")
  BY <1>1, FailStep
<1>2. CASE /\ ~ViolatesRevisionKey(View(c), cmd.target, n)
           /\ ~ViolatesRecordKey(View(c), cmd)
           /\ writer' = c
           /\ tx' = Staged(View(c), cmd, n)
           /\ Advance(c, rsp)
           /\ UNCHANGED <<db, batch, seen, answer, told, settled>>
  <2>1. cmd \in Command /\ Consistent(View(c)) /\ Extends(View(c), db)
    BY <1>0, CurrentIsCommand, ViewConsistent
  <2>2. /\ View(c).entity_state[cmd.target].revision = cmd.expected_revision
        /\ n = cmd.expected_revision + 1
    BY <1>0, <1>2, WriteFindsExpected
  <2>3. /\ Consistent(tx') /\ Extends(tx', View(c)) /\ RecordedWith(tx', cmd, rsp)
    BY <1>2, <2>1, <2>2, StagedConsistent
  <2>4. View(c)' = tx'
    BY <1>2 DEF View
  <2>5. rsp \in Response
    BY <2>1, <2>2 DEF Command, Response
  <2>6. /\ CallOK(c)' /\ CallRecorded(c)'
        /\ \A k \in Call \ {c} : /\ phase'[k] = phase[k] /\ batch'[k] = batch[k]
                                 /\ index'[k] = index[k] /\ seen'[k] = seen[k]
                                 /\ responses'[k] = responses[k]
    BY <1>0, <1>2, <2>3, <2>4, <2>5, AdvanceCall
  <2>7. ASSUME NEW k \in Call, k # c PROVE CallOK(k)' /\ CallRecorded(k)'
    <3>1. View(k)' = View(k) /\ Current(k)' = Current(k)
      BY <1>0, <1>2, <2>6, <2>7, NoCallAssumption DEF View, Current
    <3> QED BY <1>2, <2>6, <2>7, <3>1 DEF IInv, CallOK, CallRecorded
  <2>8. Extends(tx', db)
    BY <2>1, <2>3, ExtendsTransitive DEF Consistent, IInv
  <2>9. Consistent(db)' /\ Extends(tx, db)' /\ (writer = NoCall => tx = db)' /\ ToldIsDurable'
    BY <1>2, <2>8, NoCallAssumption DEF IInv, ToldIsDurable
  <2> QED BY <2>3, <2>6, <2>7, <2>9 DEF IInv
<1> QED
  BY <1>1, <1>2 DEF Write

LEMMA CommitStep ==
    ASSUME IInv, TypeOK', NEW c \in Call, CommitTransaction(c)
    PROVE  IInv'
<1> USE DEF CommitTransaction
<1>0. TypeOK /\ CallOK(c) /\ CallRecorded(c)
  BY DEF IInv
<1>1. Consistent(View(c)) /\ Extends(View(c), db)
  BY ViewConsistent
<1>2. phase'[c] = "reply" /\ \A k \in Call \ {c} : phase'[k] = phase[k]
  BY <1>0 DEF TypeOK
<1>3. View(c)' = View(c) /\ writer' # c
  BY NoCallAssumption DEF View
<1>4. Extends(tx, db)' /\ Consistent(tx)'
  <2>1. CASE writer = c
    BY <2>1, ExtendsReflexive DEF IInv, Consistent, View
  <2>2. CASE writer # c
    BY <2>2 DEF IInv, View
  <2> QED BY <2>1, <2>2
<1>5. ASSUME NEW k \in Call, k # c PROVE CallOK(k)' /\ CallRecorded(k)'
  <2>0. CallOK(k) /\ CallRecorded(k) /\ Consistent(View(k))
    BY ViewConsistent DEF IInv
  <2>1. Extends(View(k)', View(k)) /\ Consistent(View(k)')
    <3>1. CASE writer = c
      BY <1>1, <1>5, <3>1, NoCallAssumption DEF View
    <3>2. CASE writer # c
      BY <2>0, <3>2, ExtendsReflexive DEF View, Consistent
    <3> QED BY <3>1, <3>2
  <2>2. Current(k)' = Current(k) /\ (writer' = k => writer = k)
    BY NoCallAssumption DEF Current
  <2>3. CallRecorded(k)'
    BY <1>2, <1>5, <2>0, <2>1, RecordedStays DEF CallRecorded
  <2>4. CallOK(k)'
    <3>1. CASE phase[k] = "write"
      <4>1. Current(k).target \in Entity /\ seen[k] \in Nat
        BY <1>0, <2>0, <3>1, CurrentIsCommand DEF Command, TypeOK
      <4>2. /\ View(k).entity_state[Current(k).target].revision \in Nat
            /\ View(k)'.entity_state[Current(k).target].revision \in Nat
            /\ View(k).entity_state[Current(k).target].revision
                 <= View(k)'.entity_state[Current(k).target].revision
        BY <2>0, <2>1, <4>1 DEF Consistent, Database, StateRow, Extends
      <4> QED BY <1>2, <1>5, <2>0, <2>2, <3>1, <4>1, <4>2 DEF CallOK
    <3>2. CASE phase[k] # "write"
      BY <1>2, <1>5, <2>0, <2>2, <3>2 DEF CallOK
    <3> QED BY <3>1, <3>2
  <2> QED BY <2>3, <2>4
<1>6. CallOK(c)' /\ CallRecorded(c)'
  BY <1>0, <1>2, <1>3 DEF CallOK, CallRecorded
<1>7. Consistent(db)' /\ (writer = NoCall => tx = db)'
  BY <1>1 DEF IInv, View
<1>8. ToldIsDurable'
  BY <1>1, RecordedStays DEF IInv, ToldIsDurable
<1> QED
  BY <1>4, <1>5, <1>6, <1>7, <1>8 DEF IInv

LEMMA ReplyStep ==
    ASSUME IInv, TypeOK', NEW c \in Call, Reply(c)
    PROVE  IInv'
<1> USE DEF Reply
<1>0. TypeOK /\ CallOK(c) /\ CallRecorded(c)
  BY DEF IInv
<1>1. phase'[c] = "idle" /\ \A k \in Call \ {c} : phase'[k] = phase[k]
  BY <1>0 DEF TypeOK
<1>2. \A k \in Call : View(k)' = View(k)
  BY DEF View
<1>3. ASSUME NEW k \in Call PROVE CallOK(k)' /\ CallRecorded(k)'
  <2>1. CASE k = c
    BY <1>1, <2>1 DEF CallOK, CallRecorded
  <2>2. CASE k # c
    BY <1>1, <1>2, <2>2 DEF IInv, CallOK, CallRecorded, Current
  <2> QED BY <2>1, <2>2
<1>4. ASSUME NEW i \in DOMAIN batch[c]
      PROVE  RecordedWith(db, batch[c][i], responses[c][i])
  <2>1. Len(responses[c]) = Len(batch[c]) /\ View(c) = db
    BY <1>0 DEF CallOK, View
  <2>2. DOMAIN batch[c] = 1..Len(batch[c])
    BY <1>0, CurrentIsCommand
  <2> QED BY <1>0, <2>1, <2>2 DEF CallRecorded
<1>5. ToldIsDurable'
  <2> SUFFICES ASSUME NEW t \in told' PROVE RecordedWith(db, t[1], t[2])
    BY DEF ToldIsDurable
  <2>1. CASE t \in told
    BY <2>1 DEF IInv, ToldIsDurable
  <2>2. CASE t \in {<<batch[c][i], responses[c][i]>> : i \in DOMAIN batch[c]}
    BY <1>4, <2>2
  <2> QED BY <2>1, <2>2
<1> QED
  BY <1>3, <1>5 DEF IInv

LEMMA CrashStep ==
    ASSUME IInv, TypeOK', Crash
    PROVE  IInv'
<1> USE DEF Crash
<1>1. \A k \in Call : phase'[k] = "idle"
  OBVIOUS
<1>2. \A k \in Call : CallOK(k)' /\ CallRecorded(k)'
  BY <1>1 DEF CallOK, CallRecorded
<1>3. Consistent(db)' /\ Consistent(tx)' /\ Extends(tx, db)'
  BY ExtendsReflexive DEF IInv, Consistent
<1> QED
  BY <1>2, <1>3 DEF IInv, ToldIsDurable

-----------------------------------------------------------------------------
(* A rollback keeps the types, whichever of the errors it reports. *)
LEMMA FailType ==
    ASSUME TypeOK, NEW c \in Call, NEW error \in Error, Fail(c, error)
    PROVE  TypeOK'
BY DEF Fail, TypeOK, Phase

LEMMA AdvanceType ==
    ASSUME TypeOK, NEW c \in Call, NEW response \in Response, Advance(c, response)
    PROVE  /\ responses' \in [Call -> Seq(Response)]
           /\ index' \in [Call -> Nat \ {0}]
           /\ phase' \in [Call -> Phase]
<1>1. responses[c] \in Seq(Response) /\ index[c] \in Nat \ {0}
  BY DEF TypeOK
<1>2. Append(responses[c], response) \in Seq(Response)
  BY <1>1
<1>3. responses' \in [Call -> Seq(Response)]
  BY <1>2 DEF Advance, TypeOK
<1>4. CASE index[c] < Len(batch[c])
  <2>1. index' = [index EXCEPT ![c] = index[c] + 1]
    BY <1>4 DEF Advance
  <2>2. index[c] + 1 \in Nat \ {0}
    BY <1>1
  <2>3. index' \in [Call -> Nat \ {0}]
    BY <2>1, <2>2 DEF TypeOK
  <2>4. phase' \in [Call -> Phase]
    BY <1>4 DEF Advance, TypeOK, Phase
  <2> QED BY <1>3, <2>3, <2>4
<1>5. CASE ~(index[c] < Len(batch[c]))
  BY <1>1, <1>3, <1>5 DEF Advance, TypeOK, Phase
<1> QED
  BY <1>4, <1>5

LEMMA TypeStep ==
    ASSUME IInv, [Next]_vars
    PROVE  TypeOK'
<1>0. TypeOK
  BY DEF IInv
<1>1. ASSUME NEW c \in Call, Begin(c) PROVE TypeOK'
  <2>1. PICK b \in Batch :
          /\ batch' = [batch EXCEPT ![c] = b]
          /\ settled' = [settled EXCEPT ![c] = \A i \in DOMAIN b : IsRecorded(db, b[i])]
    BY <1>1 DEF Begin
  <2>2. (\A i \in DOMAIN b : IsRecorded(db, b[i])) \in BOOLEAN
    OBVIOUS
  <2>3. settled' \in [Call -> BOOLEAN]
    <3> HIDE DEF IsRecorded
    <3> QED BY <1>0, <2>1, <2>2, Zenon DEF TypeOK
  <2>4. batch' \in [Call -> Batch \cup {<<>>}]
    BY <1>0, <2>1 DEF TypeOK
  <2> QED BY <1>0, <1>1, <2>3, <2>4 DEF Begin, TypeOK, Phase
<1>2. ASSUME NEW c \in Call, Lookup(c) PROVE TypeOK'
  <2>1. CASE phase' = [phase EXCEPT ![c] = "read"]
             /\ UNCHANGED <<db, tx, writer, batch, index, seen, responses, answer, told, settled>>
    BY <1>0, <2>1 DEF TypeOK, Phase
  <2>2. CASE Fail(c, "IdempotencyConflict")
    BY <1>0, <2>2, FailType DEF Error
  <2>3. ASSUME NEW r \in RecordOf(View(c), Current(c).idempotency_key),
               Advance(c, r.response),
               UNCHANGED <<db, tx, writer, batch, seen, answer, told, settled>>
        PROVE  TypeOK'
    <3>1. r \in IdempotencyRow
      BY ViewConsistent DEF RecordOf, Consistent, Database
    <3>2. r.response \in Response
      BY <3>1 DEF IdempotencyRow
    <3> QED BY <1>0, <2>3, <3>2, AdvanceType DEF TypeOK
  <2> QED BY <1>2, <2>1, <2>2, <2>3 DEF Lookup
<1>3. ASSUME NEW c \in Call, ReadState(c) PROVE TypeOK'
  <2>1. CASE Fail(c, "RevisionConflict")
    BY <1>0, <2>1, FailType DEF Error
  <2>2. CASE ~Fail(c, "RevisionConflict")
    <3>1. CallOK(c) /\ phase[c] # "idle"
      BY <1>3 DEF IInv, ReadState
    <3>2. Current(c).target \in Entity
      BY <1>0, <3>1, CurrentIsCommand DEF Command
    <3>3. View(c).entity_state[Current(c).target].revision \in Nat
      BY <3>2, ViewConsistent DEF Consistent, Database, StateRow
    <3> QED BY <1>0, <1>3, <2>2, <3>3 DEF ReadState, TypeOK, Phase
  <2> QED BY <2>1, <2>2
<1>4. ASSUME NEW c \in Call, Write(c) PROVE TypeOK'
  <2> DEFINE cmd == Current(c)
             n   == NewRevision(seen[c])
  <2>1. CASE Fail(c, "IntegrityError")
    BY <1>0, <2>1, FailType DEF Error
  <2>2. CASE /\ writer' = c
             /\ tx' = Staged(View(c), cmd, n)
             /\ Advance(c, [entity_id |-> cmd.target, revision |-> n])
             /\ UNCHANGED <<db, batch, seen, answer, told, settled>>
    <3>1. CallOK(c) /\ phase[c] # "idle"
      BY <1>4 DEF IInv, Write
    <3>2. cmd \in Command /\ n \in Nat /\ View(c) \in Database
      BY <1>0, <3>1, CurrentIsCommand, ViewConsistent
         DEF Consistent, TypeOK, NewRevision
    <3>3. Staged(View(c), cmd, n) \in Database
      BY <3>2, StagedType
    <3>4. [entity_id |-> cmd.target, revision |-> n] \in Response
      BY <3>2 DEF Response, Command
    <3> QED BY <1>0, <2>2, <3>3, <3>4, AdvanceType DEF TypeOK
  <2> QED BY <1>4, <2>1, <2>2 DEF Write
<1>5. ASSUME NEW c \in Call, TypedWriteFails(c) \/ LockTimeout(c) PROVE TypeOK'
  BY <1>0, <1>5, FailType DEF TypedWriteFails, LockTimeout, Error
<1>6. ASSUME NEW c \in Call, CommitTransaction(c) PROVE TypeOK'
  <2>1. View(c) \in Database
    BY ViewConsistent DEF Consistent
  <2> QED BY <1>0, <1>6, <2>1 DEF CommitTransaction, TypeOK, Phase
<1>7. ASSUME NEW c \in Call, Reply(c) PROVE TypeOK'
  <2>1. told' \subseteq Command \X Response
    <3>1. CallOK(c) /\ phase[c] = "reply"
      BY <1>7 DEF IInv, Reply
    <3>2. batch[c] \in Seq(Command) /\ responses[c] \in Seq(Response)
          /\ Len(responses[c]) = Len(batch[c])
      BY <1>0, <3>1, CurrentIsCommand DEF TypeOK, CallOK
    <3>3. \A i \in DOMAIN batch[c] : <<batch[c][i], responses[c][i]>> \in Command \X Response
      BY <3>2
    <3> QED BY <1>0, <1>7, <3>3 DEF Reply, TypeOK
  <2> QED BY <1>0, <1>7, <2>1 DEF Reply, TypeOK, Phase, Error
<1>8. CASE Crash
  BY <1>0, <1>8 DEF Crash, TypeOK, Phase
<1>9. CASE UNCHANGED vars
  BY <1>0, <1>9 DEF vars, callVars, TypeOK
<1> QED
  BY <1>1, <1>2, <1>3, <1>4, <1>5, <1>6, <1>7, <1>8, <1>9 DEF Next, Step

LEMMA InvStep ==
    ASSUME IInv, [Next]_vars
    PROVE  IInv'
<1>0. TypeOK'
  BY TypeStep
<1>1. ASSUME NEW c \in Call, Step(c) PROVE IInv'
  <2>1. CASE TypedWriteFails(c) \/ LockTimeout(c)
    BY <1>0, <2>1, FailStep DEF TypedWriteFails, LockTimeout
  <2> QED BY <1>0, <1>1, <2>1, LookupStep, ReadStep, WriteStep, CommitStep, ReplyStep DEF Step
<1>2. CASE UNCHANGED vars
  BY <1>2 DEF vars, callVars, IInv, TypeOK, CallOK, CallRecorded, ToldIsDurable, View, Current
<1> QED
  BY <1>0, <1>1, <1>2, BeginStep, CrashStep DEF Next

(* The inductive invariant holds in every reachable state. *)
THEOREM Invariance == Spec => []IInv
<1>1. Init => IInv
  BY InitInv
<1>2. IInv /\ [Next]_vars => IInv'
  BY InvStep
<1> QED
  BY <1>1, <1>2, PTL DEF Spec

(* The tables and the calls keep their types. *)
THEOREM TypeCorrect == Spec => []TypeOK
<1>1. IInv => TypeOK
  BY DEF IInv
<1> QED
  BY <1>1, Invariance, PTL

(* Two calls never both commit on top of the same revision: the revision rows
   of every entity number 1, 2, ... up to its current row, whatever the
   interleaving, the crashes and the failures. *)
THEOREM HistorySafe == Spec => []HistoryIsContiguous
<1>1. IInv => HistoryIsContiguous
  BY DEF IInv, Consistent, HistoryIsContiguous
<1> QED
  BY <1>1, Invariance, PTL

(* A command takes effect only on top of the revision its caller had seen. *)
THEOREM NoUpdateLost == Spec => []NoLostUpdate
<1>1. IInv => NoLostUpdate
  BY DEF IInv, Consistent, NoLostUpdate
<1> QED
  BY <1>1, Invariance, PTL

(* Revisions, events, outbox messages and idempotency records stay in step. *)
THEOREM Accounted == Spec => []EveryRevisionIsAccounted
<1>1. IInv => EveryRevisionIsAccounted
  BY DEF IInv, Consistent, EveryRevisionIsAccounted
<1> QED
  BY <1>1, Invariance, PTL

(* An answer a caller received is never taken back or contradicted. *)
THEOREM Durable == Spec => []ToldIsDurable
<1>1. IInv => ToldIsDurable
  BY DEF IInv
<1> QED
  BY <1>1, Invariance, PTL

(* No step removes or changes a committed row or takes a revision back. *)
THEOREM NothingRemoved == Spec => AppendOnly
<1>1. ASSUME IInv, [Next]_vars PROVE Extends(db', db)
  <2>1. CASE db' = db
    <3>1. Extends(db, db)
      BY ExtendsReflexive, <1>1 DEF IInv, Consistent
    <3> QED BY <2>1, <3>1
  <2>2. CASE \E c \in Call : CommitTransaction(c)
    <3>1. PICK c \in Call : db' = View(c)
      BY <2>2 DEF CommitTransaction
    <3>2. Extends(View(c), db)
      BY <1>1, ViewConsistent
    <3> QED BY <3>1, <3>2
  <2> QED
    BY <1>1, <2>1, <2>2
       DEF Next, Step, vars, callVars, Begin, Lookup, ReadState, Write, TypedWriteFails,
           LockTimeout, Reply, Crash, Fail
<1> QED
  BY <1>1, Invariance, PTL DEF Spec, AppendOnly

(* What is committed fits together in every reachable state. *)
THEOREM Consistency == Spec => []CommittedIsConsistent
<1>1. IInv => CommittedIsConsistent
  BY DEF IInv, Consistent, CommittedIsConsistent, HistoryIsContiguous, NoLostUpdate,
         EveryRevisionIsAccounted
<1> QED
  BY <1>1, Invariance, PTL

-----------------------------------------------------------------------------
(* Batches, retries and RevisionHistory. *)
StoreOf(d) == [history |-> d.entity_revision, receipts |-> ReceiptsOf(d)]

(* What the lock holder has staged is what its commands so far make of the
   committed tables, each of them permitted when its turn came. *)
StagedSoFar(c) ==
    writer = c =>
        /\ phase[c] # "idle"
        /\ StoreOf(tx) = History!After(StoreOf(db), batch[c], Len(responses[c]))
        /\ \A i \in 1..Len(responses[c]) : History!Permitted(StoreOf(db), batch[c], i)

(* A record is found by the key and has the command id of its request, and no two
   records share either. *)
KeyedIn(d) ==
    /\ \A r \in d.idempotency_record :
        /\ r.idempotency_key = r.request_hash.idempotency_key
        /\ r.command_id = r.request_hash.command_id
    /\ \A r, s \in d.idempotency_record : r.idempotency_key = s.idempotency_key => r = s

(* A call that began when its commands were recorded finds every one of them. *)
Settled(c) ==
    settled[c] =>
        /\ answer[c] \in {"none", "ok"}
        /\ phase[c] # "idle" => \A i \in DOMAIN batch[c] : IsRecorded(db, batch[c][i])
        /\ phase[c] \in {"idle", "lookup", "commit", "reply"}
        /\ writer # c

(* The inductive invariant, together with IInv. *)
HInv ==
    /\ KeyedIn(db) /\ KeyedIn(tx)
    /\ \A c \in Call : StagedSoFar(c) /\ Settled(c)
    /\ BatchIsAtomic

-----------------------------------------------------------------------------
(* A recorded command is done in the abstract sense. *)
LEMMA RecordedIsDone ==
    ASSUME NEW d, Consistent(d), NEW cmd, NEW response, RecordedWith(d, cmd, response)
    PROVE  History!Done(StoreOf(d), cmd)
<1>1. PICK r \in d.idempotency_record :
        r.request_hash = RequestHash(cmd) /\ r.response = response
  BY DEF RecordedWith, RecordOf
<1>2. /\ r.response = [entity_id |-> cmd.target, revision |-> cmd.expected_revision + 1]
      /\ [entity |-> cmd.target, revision |-> r.response.revision,
          state |-> cmd.next_state] \in d.entity_revision
  <2>1. /\ r.request_hash.target = cmd.target
        /\ r.request_hash.expected_revision = cmd.expected_revision
        /\ r.request_hash.next_state = cmd.next_state
    BY <1>1 DEF RequestHash
  <2>2. NothingLostIn(d)
    BY DEF Consistent
  <2> QED BY <2>1, <2>2 DEF NothingLostIn
<1>3. History!ChangeOf(cmd) \in StoreOf(d).history
  BY <1>2 DEF StoreOf, History!ChangeOf
<1>4. History!ReceiptOf(cmd) = [request |-> r.request_hash, revision |-> r.response.revision]
  BY <1>1, <1>2 DEF History!ReceiptOf, History!RequestOf, RequestHash
<1>5. History!ReceiptOf(cmd) \in ReceiptsOf(d)
  BY <1>4 DEF ReceiptsOf
<1> QED
  BY <1>3, <1>5 DEF StoreOf, History!Done

(* One command more. *)
LEMMA AfterNext ==
    ASSUME NEW d, NEW b, NEW n \in Nat
    PROVE  LET s == History!After(StoreOf(d), b, n) IN
           History!After(StoreOf(d), b, n + 1) =
               [history  |-> s.history \cup {History!ChangeOf(b[n + 1])},
                receipts |-> s.receipts \cup {History!ReceiptOf(b[n + 1])}]
<1> DEFINE C(i) == History!ChangeOf(b[i])
           R(i) == History!ReceiptOf(b[i])
<1>1. 1..(n + 1) = 1..n \cup {n + 1}
  OBVIOUS
<1> HIDE DEF C, R
<1>2. /\ {C(i) : i \in 1..(n + 1)} = {C(i) : i \in 1..n} \cup {C(n + 1)}
      /\ {R(i) : i \in 1..(n + 1)} = {R(i) : i \in 1..n} \cup {R(n + 1)}
  BY <1>1
<1> USE DEF C, R
<1>3. /\ History!After(StoreOf(d), b, n + 1).history
            = StoreOf(d).history \cup {C(i) : i \in 1..(n + 1)}
      /\ History!After(StoreOf(d), b, n + 1).receipts
            = StoreOf(d).receipts \cup {R(i) : i \in 1..(n + 1)}
      /\ History!After(StoreOf(d), b, n).history
            = StoreOf(d).history \cup {C(i) : i \in 1..n}
      /\ History!After(StoreOf(d), b, n).receipts
            = StoreOf(d).receipts \cup {R(i) : i \in 1..n}
  BY DEF History!After
<1> QED
  BY <1>2, <1>3 DEF History!After

(* A command that is done when its turn comes changes nothing. *)
LEMMA AfterDone ==
    ASSUME NEW d, NEW b, NEW n \in Nat,
           History!Done(History!After(StoreOf(d), b, n), b[n + 1])
    PROVE  History!After(StoreOf(d), b, n + 1) = History!After(StoreOf(d), b, n)
<1> DEFINE s == History!After(StoreOf(d), b, n)
<1>1. /\ s.history \cup {History!ChangeOf(b[n + 1])} = s.history
      /\ s.receipts \cup {History!ReceiptOf(b[n + 1])} = s.receipts
  BY DEF History!Done
<1>2. s = [history |-> s.history, receipts |-> s.receipts]
  BY DEF History!After
<1> HIDE DEF s
<1> QED
  BY <1>1, <1>2, AfterNext DEF s

(* Commands that are all done already change nothing. *)
LEMMA AfterAllDone ==
    ASSUME NEW d, NEW b, NEW n \in Nat,
           \A i \in 1..n : History!Done(StoreOf(d), b[i])
    PROVE  /\ History!After(StoreOf(d), b, n) = StoreOf(d)
           /\ \A i \in 1..n : History!Permitted(StoreOf(d), b, i)
<1>1. /\ {History!ChangeOf(b[i]) : i \in 1..n} \subseteq StoreOf(d).history
      /\ {History!ReceiptOf(b[i]) : i \in 1..n} \subseteq StoreOf(d).receipts
  BY DEF History!Done
<1>2. History!After(StoreOf(d), b, n) = StoreOf(d)
  BY <1>1 DEF History!After, StoreOf
<1>3. ASSUME NEW i \in 1..n PROVE History!Permitted(StoreOf(d), b, i)
  BY <1>3 DEF History!Permitted, History!Done, History!After
<1> QED
  BY <1>2, <1>3

(* What a running call sees is what its commands so far make of the committed
   tables, whether it holds the write lock or has only replayed. *)
LEMMA PrefixPermitted ==
    ASSUME IInv, HInv, NEW c \in Call, phase[c] # "idle"
    PROVE  /\ StoreOf(View(c)) = History!After(StoreOf(db), batch[c], Len(responses[c]))
           /\ \A i \in 1..Len(responses[c]) : History!Permitted(StoreOf(db), batch[c], i)
<1>1. CASE writer = c
  BY <1>1 DEF HInv, StagedSoFar, View
<1>2. CASE writer # c
  <2>1. Consistent(db) /\ CallRecorded(c) /\ View(c) = db /\ Len(responses[c]) \in Nat
    BY <1>2 DEF IInv, View, TypeOK
  <2>2. \A i \in 1..Len(responses[c]) : History!Done(StoreOf(db), batch[c][i])
    BY <2>1, RecordedIsDone DEF CallRecorded
  <2> QED BY <2>1, <2>2, AfterAllDone
<1> QED
  BY <1>1, <1>2

-----------------------------------------------------------------------------
(* A step of one call leaves what another one has staged alone. *)
LEMMA OthersStaged ==
    ASSUME HInv, NEW k \in Call,
           phase'[k] = phase[k], batch'[k] = batch[k], responses'[k] = responses[k],
           writer' = k => writer = k /\ UNCHANGED <<db, tx>>
    PROVE  StagedSoFar(k)'
<1> SUFFICES ASSUME writer' = k PROVE StagedSoFar(k)'
  BY DEF StagedSoFar
<1>1. /\ phase[k] # "idle"
      /\ StoreOf(tx) = History!After(StoreOf(db), batch[k], Len(responses[k]))
      /\ \A i \in 1..Len(responses[k]) : History!Permitted(StoreOf(db), batch[k], i)
  BY DEF HInv, StagedSoFar
<1>2. StoreOf(tx') = StoreOf(tx) /\ StoreOf(db') = StoreOf(db)
  OBVIOUS
<1> QED
  BY <1>1, <1>2 DEF StagedSoFar

LEMMA OthersSettled ==
    ASSUME HInv, NEW k \in Call,
           phase'[k] = phase[k], batch'[k] = batch[k], settled'[k] = settled[k],
           answer'[k] = answer[k], writer' = k => writer = k,
           db.idempotency_record \subseteq db'.idempotency_record
    PROVE  Settled(k)'
<1>1. \A cmd : IsRecorded(db, cmd) => IsRecorded(db', cmd)
  BY DEF IsRecorded
<1>2. ASSUME settled'[k] PROVE settled[k]
  BY <1>2
<1>3. Settled(k)
  BY DEF HInv
<1> QED
  BY <1>1, <1>2, <1>3 DEF Settled

(* A command that is recorded is found, with its own hash. *)
LEMMA RecordedIsFound ==
    ASSUME NEW d \in Database, KeyedIn(d), NEW cmd \in Command, IsRecorded(d, cmd)
    PROVE  /\ RecordOf(d, cmd.idempotency_key) # {}
           /\ \A r \in RecordOf(d, cmd.idempotency_key) : r.request_hash = RequestHash(cmd)
<1>1. PICK r \in d.idempotency_record : \A f \in Asked : r.request_hash[f] = cmd[f]
  BY DEF IsRecorded
<1>2. r.request_hash \in Hash
  BY DEF Database, IdempotencyRow
<1>3. /\ r.request_hash.command_id = cmd.command_id
      /\ r.request_hash.target = cmd.target
      /\ r.request_hash.expected_revision = cmd.expected_revision
      /\ r.request_hash.idempotency_key = cmd.idempotency_key
      /\ r.request_hash.next_state = cmd.next_state
      /\ r.request_hash.outbox = cmd.outbox
  BY <1>1 DEF Asked
<1>4. r.request_hash = RequestHash(cmd)
  BY <1>2, <1>3 DEF Hash, RequestHash
<1>5. r.idempotency_key = cmd.idempotency_key
  BY <1>3 DEF KeyedIn
<1> QED
  BY <1>4, <1>5 DEF RecordOf, KeyedIn

(* What the next command of a settled call finds. *)
LEMMA SettledFinds ==
    ASSUME IInv, HInv, NEW c \in Call, settled[c], phase[c] = "lookup"
    PROVE  /\ RecordOf(View(c), Current(c).idempotency_key) # {}
           /\ \A r \in RecordOf(View(c), Current(c).idempotency_key) :
                  r.request_hash = RequestHash(Current(c))
<1>1. View(c) = db /\ \A i \in DOMAIN batch[c] : IsRecorded(db, batch[c][i])
  BY DEF HInv, Settled, View
<1>2. /\ Current(c) \in Command /\ batch[c] \in Seq(Command)
      /\ index[c] \in 1..Len(batch[c])
  BY CurrentIsCommand DEF IInv
<1>3. IsRecorded(db, Current(c))
  BY <1>1, <1>2 DEF Current
<1>4. db \in Database /\ KeyedIn(db)
  BY DEF IInv, Consistent, HInv
<1> QED
  BY <1>1, <1>2, <1>3, <1>4, RecordedIsFound

-----------------------------------------------------------------------------
(* The parts of HInv that every step has to keep; BatchIsAtomic only depends on
   the committed tables. *)
HParts == /\ KeyedIn(db) /\ KeyedIn(tx)
          /\ \A c \in Call : StagedSoFar(c) /\ Settled(c)

LEMMA FailParts ==
    ASSUME IInv, HInv, NEW c \in Call, ~settled[c], NEW error, Fail(c, error)
    PROVE  HParts'
<1> USE DEF Fail
<1>1. writer' # c /\ db' = db /\ settled' = settled /\ batch' = batch
      /\ responses' = responses
  BY NoCallAssumption
<1>2. \A k \in Call \ {c} : /\ phase'[k] = phase[k] /\ answer'[k] = answer[k]
                            /\ writer' = k => writer = k /\ tx' = tx
  BY NoCallAssumption DEF IInv, TypeOK
<1>3. ASSUME NEW k \in Call PROVE StagedSoFar(k)' /\ Settled(k)'
  <2>1. CASE k = c
    BY <1>1, <2>1 DEF StagedSoFar, Settled
  <2>2. CASE k # c
    BY <1>1, <1>2, <2>2, OthersStaged, OthersSettled
  <2> QED BY <2>1, <2>2
<1>4. KeyedIn(db)' /\ KeyedIn(tx)'
  BY DEF HInv, KeyedIn
<1> QED
  BY <1>3, <1>4 DEF HParts

LEMMA BeginParts ==
    ASSUME IInv, HInv, NEW c \in Call, Begin(c)
    PROVE  HParts'
<1> USE DEF Begin
<1>1. PICK b \in Batch :
        /\ batch' = [batch EXCEPT ![c] = b]
        /\ settled' = [settled EXCEPT ![c] = \A i \in DOMAIN b : IsRecorded(db, b[i])]
  OBVIOUS
<1>2. \A k \in Call \ {c} : /\ phase'[k] = phase[k] /\ batch'[k] = batch[k]
                            /\ responses'[k] = responses[k] /\ answer'[k] = answer[k]
  BY <1>1 DEF IInv, TypeOK
<1>3. \A k \in Call \ {c} : settled'[k] = settled[k]
  <2> DEFINE all == \A i \in DOMAIN b : IsRecorded(db, b[i])
  <2>1. settled' = [settled EXCEPT ![c] = all] /\ settled \in [Call -> BOOLEAN]
    BY <1>1 DEF IInv, TypeOK
  <2> HIDE DEF all
  <2> QED BY <2>1
<1>4. /\ batch'[c] = b /\ phase'[c] = "lookup" /\ answer'[c] = "none"
      /\ UNCHANGED <<db, tx, writer>>
  BY <1>1 DEF IInv, TypeOK
<1>5. settled'[c] = \A i \in DOMAIN b : IsRecorded(db, b[i])
  <2>1. settled \in [Call -> BOOLEAN]
    BY DEF IInv, TypeOK
  <2> QED BY <1>1, <2>1, Zenon
<1>6. writer # c
  BY DEF HInv, StagedSoFar
<1>7. StagedSoFar(c)' /\ Settled(c)'
  <2>1. StagedSoFar(c)'
    BY <1>4, <1>6 DEF StagedSoFar
  <2>2. ASSUME settled'[c]
        PROVE  \A i \in DOMAIN batch'[c] : IsRecorded(db', batch'[c][i])
    BY <1>4, <1>5, <2>2
  <2>3. Settled(c)'
    BY <1>4, <1>6, <2>2 DEF Settled
  <2> QED BY <2>1, <2>3
<1>8. ASSUME NEW k \in Call, k # c PROVE StagedSoFar(k)' /\ Settled(k)'
  BY <1>2, <1>3, <1>4, <1>8, OthersStaged, OthersSettled
<1>9. KeyedIn(db)' /\ KeyedIn(tx)'
  BY <1>4 DEF HInv, KeyedIn
<1> QED
  BY <1>7, <1>8, <1>9 DEF HParts

(* Where Advance leaves a call, and what it leaves alone. *)
LEMMA AdvanceMoves ==
    ASSUME IInv, NEW c \in Call, phase[c] \in {"lookup", "write"},
           NEW response, Advance(c, response)
    PROVE  /\ phase'[c] \in {"lookup", "commit"}
           /\ responses'[c] = Append(responses[c], response)
           /\ responses[c] \in Seq(Response)
           /\ Len(responses'[c]) = Len(responses[c]) + 1
           /\ Len(responses[c]) \in Nat
           /\ Current(c) = batch[c][Len(responses[c]) + 1]
           /\ \A k \in Call \ {c} : phase'[k] = phase[k] /\ responses'[k] = responses[k]
<1>1. TypeOK /\ CallOK(c)
  BY DEF IInv
<1>2. /\ responses[c] \in Seq(Response) /\ Len(responses[c]) = index[c] - 1
      /\ index[c] \in Nat
  BY <1>1 DEF CallOK, TypeOK
<1>3. /\ responses'[c] = Append(responses[c], response)
      /\ phase'[c] \in {"lookup", "commit"}
      /\ \A k \in Call \ {c} : phase'[k] = phase[k] /\ responses'[k] = responses[k]
  BY <1>1 DEF Advance, TypeOK
<1>4. Len(responses'[c]) = Len(responses[c]) + 1 /\ Len(responses[c]) \in Nat
  BY <1>2, <1>3
<1>5. Current(c) = batch[c][Len(responses[c]) + 1]
  BY <1>2 DEF Current
<1> QED
  BY <1>2, <1>3, <1>4, <1>5

LEMMA LookupParts ==
    ASSUME IInv, HInv, NEW c \in Call, Lookup(c)
    PROVE  HParts'
<1> DEFINE found == RecordOf(View(c), Current(c).idempotency_key)
<1>0. TypeOK /\ phase[c] = "lookup"
  BY DEF IInv, Lookup
<1>1. ASSUME found = {}, phase' = [phase EXCEPT ![c] = "read"],
             UNCHANGED <<db, tx, writer, batch, index, seen, responses, answer, told, settled>>
      PROVE  HParts'
  <2>1. ~settled[c]
    BY <1>0, <1>1, SettledFinds
  <2>2. phase'[c] = "read" /\ \A k \in Call \ {c} : phase'[k] = phase[k]
    BY <1>0, <1>1 DEF TypeOK
  <2>3. StagedSoFar(c)' /\ Settled(c)'
    <3>1. StagedSoFar(c)
      BY DEF HInv
    <3> QED BY <1>0, <1>1, <2>1, <2>2, <3>1 DEF StagedSoFar, Settled
  <2>4. ASSUME NEW k \in Call, k # c PROVE StagedSoFar(k)' /\ Settled(k)'
    BY <1>1, <2>2, <2>4, OthersStaged, OthersSettled
  <2>5. KeyedIn(db)' /\ KeyedIn(tx)'
    BY <1>1 DEF HInv, KeyedIn
  <2> QED BY <2>3, <2>4, <2>5 DEF HParts
<1>2. ASSUME NEW r \in found, r.request_hash # RequestHash(Current(c)),
             Fail(c, "IdempotencyConflict")
      PROVE  HParts'
  BY <1>0, <1>2, SettledFinds, FailParts
<1>3. ASSUME NEW r \in found, r.request_hash = RequestHash(Current(c)),
             Advance(c, r.response),
             UNCHANGED <<db, tx, writer, batch, seen, answer, told, settled>>
      PROVE  HParts'
  <2> DEFINE n == Len(responses[c])
  <2>1. /\ phase'[c] \in {"lookup", "commit"}
        /\ Len(responses'[c]) = n + 1 /\ n \in Nat
        /\ Current(c) = batch[c][n + 1]
        /\ \A k \in Call \ {c} : phase'[k] = phase[k] /\ responses'[k] = responses[k]
    BY <1>0, <1>3, AdvanceMoves
  <2>2. History!Done(StoreOf(View(c)), Current(c))
    <3>1. RecordedWith(View(c), Current(c), r.response)
      BY <1>3 DEF RecordedWith
    <3> QED BY <3>1, ViewConsistent, RecordedIsDone
  <2>3. /\ StoreOf(View(c)) = History!After(StoreOf(db), batch[c], n)
        /\ \A i \in 1..n : History!Permitted(StoreOf(db), batch[c], i)
    BY <1>0, PrefixPermitted
  <2>4. /\ StoreOf(View(c)) = History!After(StoreOf(db), batch[c], n + 1)
        /\ History!Permitted(StoreOf(db), batch[c], n + 1)
    <3>1. History!Done(History!After(StoreOf(db), batch[c], n), batch[c][n + 1])
      BY <2>1, <2>2, <2>3
    <3>2. (n + 1) - 1 = n
      BY <2>1
    <3> QED BY <2>1, <2>3, <3>1, <3>2, AfterDone DEF History!Permitted
  <2>5. \A i \in 1..(n + 1) : History!Permitted(StoreOf(db), batch[c], i)
    BY <2>1, <2>3, <2>4
  <2>6. StagedSoFar(c)'
    <3> SUFFICES ASSUME writer' = c PROVE StagedSoFar(c)'
      BY DEF StagedSoFar
    <3>1. View(c) = tx
      BY <1>3 DEF View
    <3>2. /\ StoreOf(tx') = History!After(StoreOf(db'), batch'[c], Len(responses'[c]))
          /\ \A i \in 1..Len(responses'[c]) :
                History!Permitted(StoreOf(db'), batch'[c], i)
      BY <1>3, <2>1, <2>4, <2>5, <3>1
    <3> QED BY <2>1, <3>2 DEF StagedSoFar
  <2>7. Settled(c)'
    <3>1. Settled(c)
      BY DEF HInv
    <3> QED BY <1>0, <1>3, <2>1, <3>1 DEF Settled
  <2>8. ASSUME NEW k \in Call, k # c PROVE StagedSoFar(k)' /\ Settled(k)'
    BY <1>3, <2>1, <2>8, OthersStaged, OthersSettled
  <2>9. KeyedIn(db)' /\ KeyedIn(tx)'
    BY <1>3 DEF HInv, KeyedIn
  <2> QED BY <2>6, <2>7, <2>8, <2>9 DEF HParts
<1> QED
  BY <1>1, <1>2, <1>3 DEF Lookup

LEMMA ReadParts ==
    ASSUME IInv, HInv, NEW c \in Call, ReadState(c)
    PROVE  HParts'
<1>0. TypeOK /\ phase[c] = "read" /\ ~settled[c]
  BY DEF IInv, HInv, Settled, ReadState
<1>1. CASE Fail(c, "RevisionConflict")
  BY <1>0, <1>1, FailParts
<1>2. ASSUME phase' = [phase EXCEPT ![c] = "write"],
             UNCHANGED <<db, tx, writer, batch, index, responses, answer, told, settled>>
      PROVE  HParts'
  <2>1. phase'[c] = "write" /\ \A k \in Call \ {c} : phase'[k] = phase[k]
    BY <1>0, <1>2 DEF TypeOK
  <2>2. StagedSoFar(c)' /\ Settled(c)'
    <3>1. StagedSoFar(c)
      BY DEF HInv
    <3> QED BY <1>0, <1>2, <2>1, <3>1 DEF StagedSoFar, Settled
  <2>3. ASSUME NEW k \in Call, k # c PROVE StagedSoFar(k)' /\ Settled(k)'
    BY <1>2, <2>1, <2>3, OthersStaged, OthersSettled
  <2>4. KeyedIn(db)' /\ KeyedIn(tx)'
    BY <1>2 DEF HInv, KeyedIn
  <2> QED BY <2>2, <2>3, <2>4 DEF HParts
<1> QED
  BY <1>1, <1>2 DEF ReadState

(* A command that passes the checks of the tables is permitted. *)
LEMMA StagedIsPermitted ==
    ASSUME NEW d, Consistent(d), KeyedIn(d), NEW cmd \in Command,
           d.entity_state[cmd.target].revision = cmd.expected_revision,
           ~ViolatesRecordKey(d, cmd)
    PROVE  LET next == Staged(d, cmd, cmd.expected_revision + 1) IN
           /\ History!Fresh(StoreOf(d), cmd)
           /\ History!UpToDate(StoreOf(d), cmd)
           /\ StoreOf(next) =
                [history  |-> StoreOf(d).history \cup {History!ChangeOf(cmd)},
                 receipts |-> StoreOf(d).receipts \cup {History!ReceiptOf(cmd)}]
           /\ KeyedIn(next)
<1> DEFINE n == cmd.expected_revision + 1
           s == Staged(d, cmd, n)
           rec == [idempotency_key |-> cmd.idempotency_key,
                   command_id |-> cmd.command_id,
                   request_hash |-> RequestHash(cmd),
                   response |-> [entity_id |-> cmd.target, revision |-> n]]
<1>1. /\ s.entity_revision = d.entity_revision \cup {History!ChangeOf(cmd)}
      /\ s.idempotency_record = d.idempotency_record \cup {rec}
  BY DEF Staged, History!ChangeOf
<1>2. History!Fresh(StoreOf(d), cmd)
  <2> SUFFICES ASSUME NEW r \in d.idempotency_record
               PROVE  /\ r.request_hash.idempotency_key # cmd.idempotency_key
                      /\ r.request_hash.command_id # cmd.command_id
    BY DEF History!Fresh, StoreOf, ReceiptsOf
  <2> QED BY DEF ViolatesRecordKey, KeyedIn
<1>3. History!UpToDate(StoreOf(d), cmd)
  <2>1. cmd.target \in Entity
    BY DEF Command
  <2>2. {r.revision : r \in RevisionsOf(d, cmd.target)} = 1..cmd.expected_revision
    BY <2>1 DEF Consistent, ContiguousIn
  <2> QED BY <2>2 DEF History!UpToDate, StoreOf, RevisionsOf
<1>4. ReceiptsOf(s) = ReceiptsOf(d) \cup {History!ReceiptOf(cmd)}
  <2>1. [request |-> rec.request_hash, revision |-> rec.response.revision]
          = History!ReceiptOf(cmd)
    BY DEF RequestHash, History!ReceiptOf, History!RequestOf
  <2> HIDE DEF rec, s
  <2> QED BY <1>1, <2>1 DEF ReceiptsOf
<1>5. StoreOf(s) = [history  |-> StoreOf(d).history \cup {History!ChangeOf(cmd)},
                    receipts |-> StoreOf(d).receipts \cup {History!ReceiptOf(cmd)}]
  BY <1>1, <1>4 DEF StoreOf
<1>6. KeyedIn(s)
  <2>1. /\ rec.idempotency_key = cmd.idempotency_key
        /\ rec.idempotency_key = rec.request_hash.idempotency_key
        /\ rec.command_id = rec.request_hash.command_id
    BY DEF RequestHash
  <2>2. \A r \in d.idempotency_record : r.idempotency_key # cmd.idempotency_key
    BY DEF ViolatesRecordKey
  <2> HIDE DEF rec, s
  <2> QED BY <1>1, <2>1, <2>2 DEF KeyedIn
<1> QED
  BY <1>2, <1>3, <1>5, <1>6

LEMMA WriteParts ==
    ASSUME IInv, HInv, NEW c \in Call, Write(c)
    PROVE  HParts'
<1> DEFINE cmd == Current(c)
           m   == NewRevision(seen[c])
           n   == Len(responses[c])
           s   == History!After(StoreOf(db), batch[c], n)
<1>0. /\ TypeOK /\ phase[c] = "write" /\ ~settled[c] /\ writer \in {NoCall, c}
  BY DEF IInv, HInv, Settled, Write
<1>1. CASE Fail(c, "IntegrityError")
  BY <1>0, <1>1, FailParts
<1>2. ASSUME ~ViolatesRevisionKey(View(c), cmd.target, m), ~ViolatesRecordKey(View(c), cmd),
             writer' = c, tx' = Staged(View(c), cmd, m),
             Advance(c, [entity_id |-> cmd.target, revision |-> m]),
             UNCHANGED <<db, batch, seen, answer, told, settled>>
      PROVE  HParts'
  <2>1. cmd \in Command /\ Consistent(View(c))
    BY <1>0, CurrentIsCommand, ViewConsistent DEF IInv
  <2>2. /\ View(c).entity_state[cmd.target].revision = cmd.expected_revision
        /\ m = cmd.expected_revision + 1
    BY <1>0, <1>2, WriteFindsExpected
  <2>3. KeyedIn(View(c))
    BY DEF HInv, View
  <2>4. /\ History!Fresh(StoreOf(View(c)), cmd)
        /\ History!UpToDate(StoreOf(View(c)), cmd)
        /\ StoreOf(tx') =
             [history  |-> StoreOf(View(c)).history \cup {History!ChangeOf(cmd)},
              receipts |-> StoreOf(View(c)).receipts \cup {History!ReceiptOf(cmd)}]
        /\ KeyedIn(tx')
    BY <1>2, <2>1, <2>2, <2>3, StagedIsPermitted
  <2>5. /\ phase'[c] \in {"lookup", "commit"}
        /\ Len(responses'[c]) = n + 1 /\ n \in Nat
        /\ cmd = batch[c][n + 1]
        /\ \A k \in Call \ {c} : phase'[k] = phase[k] /\ responses'[k] = responses[k]
    BY <1>0, <1>2, AdvanceMoves
  <2>6. /\ StoreOf(View(c)) = s
        /\ \A i \in 1..n : History!Permitted(StoreOf(db), batch[c], i)
    BY <1>0, PrefixPermitted
  <2>7. StoreOf(tx') = History!After(StoreOf(db), batch[c], n + 1)
    <3> HIDE DEF n, cmd
    <3> QED BY <2>4, <2>5, <2>6, AfterNext
  <2>8. History!Permitted(StoreOf(db), batch[c], n + 1)
    <3>1. (n + 1) - 1 = n
      BY <2>5
    <3> QED BY <2>4, <2>5, <2>6, <3>1 DEF History!Permitted
  <2>9. \A i \in 1..(n + 1) : History!Permitted(StoreOf(db), batch[c], i)
    BY <2>5, <2>6, <2>8
  <2>10. StagedSoFar(c)'
    <3>1. /\ StoreOf(tx') = History!After(StoreOf(db'), batch'[c], Len(responses'[c]))
          /\ \A i \in 1..Len(responses'[c]) :
                History!Permitted(StoreOf(db'), batch'[c], i)
      BY <1>2, <2>5, <2>7, <2>9
    <3> QED BY <2>5, <3>1 DEF StagedSoFar
  <2>11. Settled(c)'
    BY <1>0, <1>2 DEF Settled
  <2>12. ASSUME NEW k \in Call, k # c PROVE StagedSoFar(k)' /\ Settled(k)'
    <3>1. writer' # k
      BY <1>2, <2>12
    <3> QED BY <1>2, <2>5, <2>12, <3>1, OthersStaged, OthersSettled
  <2>13. KeyedIn(db)' /\ KeyedIn(tx)'
    BY <1>2, <2>4 DEF HInv, KeyedIn
  <2> QED BY <2>10, <2>11, <2>12, <2>13 DEF HParts
<1> QED
  BY <1>1, <1>2 DEF Write

LEMMA CommitParts ==
    ASSUME IInv, HInv, NEW c \in Call, CommitTransaction(c)
    PROVE  HParts'
<1> USE DEF CommitTransaction
<1>1. phase'[c] = "reply" /\ \A k \in Call \ {c} : phase'[k] = phase[k]
  BY DEF IInv, TypeOK
<1>2. writer' # c /\ Extends(db', db)
  BY NoCallAssumption, ViewConsistent
<1>3. StagedSoFar(c)' /\ Settled(c)'
  <2>1. StagedSoFar(c)'
    BY <1>2 DEF StagedSoFar
  <2>2. \A x : IsRecorded(db, x) => IsRecorded(db', x)
    BY <1>2 DEF IsRecorded, Extends
  <2>3. Settled(c)
    BY DEF HInv
  <2>4. Settled(c)'
    BY <1>1, <1>2, <2>2, <2>3 DEF Settled
  <2> QED BY <2>1, <2>4
<1>4. ASSUME NEW k \in Call, k # c PROVE StagedSoFar(k)' /\ Settled(k)'
  <2>1. writer' = k => writer = k /\ UNCHANGED <<db, tx>>
    BY <1>4, NoCallAssumption DEF View
  <2> QED BY <1>1, <1>2, <1>4, <2>1, OthersStaged, OthersSettled DEF Extends
<1>5. KeyedIn(db)' /\ KeyedIn(tx)'
  BY DEF HInv, KeyedIn, View
<1> QED
  BY <1>3, <1>4, <1>5 DEF HParts

LEMMA ReplyParts ==
    ASSUME IInv, HInv, NEW c \in Call, Reply(c)
    PROVE  HParts'
<1> USE DEF Reply
<1>1. /\ phase'[c] = "idle" /\ answer'[c] = "ok"
      /\ \A k \in Call \ {c} : phase'[k] = phase[k] /\ answer'[k] = answer[k]
  BY DEF IInv, TypeOK
<1>2. writer # c
  BY DEF IInv, CallOK
<1>3. StagedSoFar(c)' /\ Settled(c)'
  BY <1>1, <1>2 DEF StagedSoFar, Settled
<1>4. ASSUME NEW k \in Call, k # c PROVE StagedSoFar(k)' /\ Settled(k)'
  BY <1>1, <1>4, OthersStaged, OthersSettled
<1>5. KeyedIn(db)' /\ KeyedIn(tx)'
  BY DEF HInv, KeyedIn
<1> QED
  BY <1>3, <1>4, <1>5 DEF HParts

LEMMA CrashParts ==
    ASSUME IInv, HInv, Crash
    PROVE  HParts'
<1> USE DEF Crash
<1>1. ASSUME NEW k \in Call PROVE StagedSoFar(k)' /\ Settled(k)'
  <2>1. phase'[k] = "idle" /\ writer' # k /\ answer'[k] = answer[k] /\ settled' = settled
    BY NoCallAssumption
  <2>2. Settled(k)
    BY DEF HInv
  <2> QED BY <2>1, <2>2 DEF StagedSoFar, Settled
<1>2. KeyedIn(db)' /\ KeyedIn(tx)'
  BY DEF HInv, KeyedIn
<1> QED
  BY <1>1, <1>2 DEF HParts

(* A settled call neither waits for the write lock nor holds it. *)
LEMMA AbortParts ==
    ASSUME IInv, HInv, NEW c \in Call, TypedWriteFails(c) \/ LockTimeout(c)
    PROVE  HParts'
<1>1. ~settled[c]
  BY DEF TypedWriteFails, LockTimeout, HInv, Settled
<1> QED
  BY <1>1, FailParts DEF TypedWriteFails, LockTimeout

LEMMA PartsStep ==
    ASSUME IInv, HInv, [Next]_vars
    PROVE  HParts'
<1>1. CASE UNCHANGED vars
  <2>1. KeyedIn(db)' /\ KeyedIn(tx)'
    BY <1>1 DEF vars, HInv, KeyedIn
  <2>2. ASSUME NEW k \in Call PROVE StagedSoFar(k)' /\ Settled(k)'
    BY <1>1, OthersStaged, OthersSettled DEF vars, callVars
  <2> QED BY <2>1, <2>2 DEF HParts
<1>2. CASE Next
  BY <1>2, BeginParts, LookupParts, ReadParts, WriteParts, AbortParts, CommitParts,
     ReplyParts, CrashParts DEF Next, Step
<1> QED
  BY <1>1, <1>2

-----------------------------------------------------------------------------
(* Only COMMIT changes what is committed. *)
LEMMA OnlyCommits ==
    ASSUME [Next]_vars
    PROVE  db' = db \/ \E c \in Call : CommitTransaction(c)
BY DEF Next, Step, vars, callVars, Begin, Lookup, ReadState, Write, TypedWriteFails,
       LockTimeout, Reply, Crash, Fail

(* What a COMMIT makes of the committed tables. *)
LEMMA CommitIsBatch ==
    ASSUME IInv, HInv, NEW c \in Call, CommitTransaction(c)
    PROVE  /\ batch[c] \in Batch
           /\ DOMAIN batch[c] = 1..Len(batch[c])
           /\ \A i \in DOMAIN batch[c] :
                /\ History!Permitted(StoreOf(db), batch[c], i)
                /\ History!Done(StoreOf(db'), batch[c][i])
           /\ StoreOf(db') = History!After(StoreOf(db), batch[c], Len(batch[c]))
<1>1. /\ phase[c] = "commit" /\ db' = View(c)
  BY DEF CommitTransaction
<1>2. /\ batch[c] \in Batch /\ Len(responses[c]) = Len(batch[c])
      /\ CallRecorded(c)
  BY <1>1 DEF IInv, CallOK
<1>3. DOMAIN batch[c] = 1..Len(batch[c])
  BY <1>2, BatchAssumption
<1>4. /\ StoreOf(View(c)) = History!After(StoreOf(db), batch[c], Len(batch[c]))
      /\ \A i \in DOMAIN batch[c] : History!Permitted(StoreOf(db), batch[c], i)
  BY <1>1, <1>2, <1>3, PrefixPermitted
<1>5. ASSUME NEW i \in DOMAIN batch[c] PROVE History!Done(StoreOf(View(c)), batch[c][i])
  <2>1. RecordedWith(View(c), batch[c][i], responses[c][i])
    BY <1>1, <1>2, <1>3 DEF CallRecorded
  <2> QED BY <2>1, ViewConsistent, RecordedIsDone
<1> QED
  BY <1>1, <1>2, <1>3, <1>4, <1>5

(* The two ways to say that a command has taken effect. *)
LEMMA DoneIsRecorded ==
    ASSUME NEW d, NEW cmd, History!Done(StoreOf(d), cmd)
    PROVE  IsRecorded(d, cmd)
<1>1. PICK r \in d.idempotency_record : r.request_hash = History!RequestOf(cmd)
  BY DEF History!Done, StoreOf, ReceiptsOf, History!ReceiptOf
<1>2. \A f \in Asked : r.request_hash[f] = cmd[f]
  BY <1>1 DEF Asked, History!RequestOf
<1> QED
  BY <1>2 DEF IsRecorded

LEMMA AtomicStep ==
    ASSUME IInv, HInv, [Next]_vars
    PROVE  BatchIsAtomic'
<1>1. CASE db' = db
  BY <1>1 DEF HInv, BatchIsAtomic, IsRecorded
<1>2. ASSUME NEW c \in Call, CommitTransaction(c) PROVE BatchIsAtomic'
  <2> SUFFICES ASSUME NEW b \in Batch, Exclusive(b),
                      NEW i \in DOMAIN b, IsRecorded(db', b[i]),
                      NEW j \in DOMAIN b
               PROVE  IsRecorded(db', b[j])
    BY DEF BatchIsAtomic
  <2>1. /\ batch[c] \in Batch
        /\ \A k \in DOMAIN batch[c] : IsRecorded(db', batch[c][k])
        /\ StoreOf(db') = History!After(StoreOf(db), batch[c], Len(batch[c]))
        /\ DOMAIN batch[c] = 1..Len(batch[c])
    BY <1>2, CommitIsBatch, DoneIsRecorded
  <2>2. CASE IsRecorded(db, b[i])
    <3>1. IsRecorded(db, b[j])
      BY <2>2 DEF HInv, BatchIsAtomic
    <3>2. Extends(db', db)
      BY <1>2, ViewConsistent DEF CommitTransaction
    <3> QED BY <3>1, <3>2 DEF IsRecorded, Extends
  <2>3. CASE ~IsRecorded(db, b[i])
    <3>1. PICK r \in db'.idempotency_record : \A f \in Asked : r.request_hash[f] = b[i][f]
      BY DEF IsRecorded
    <3>2. [request |-> r.request_hash, revision |-> r.response.revision]
            \in StoreOf(db').receipts
      BY DEF StoreOf, ReceiptsOf
    <3>3. [request |-> r.request_hash, revision |-> r.response.revision]
            \notin StoreOf(db).receipts
      BY <2>3, <3>1 DEF StoreOf, ReceiptsOf, IsRecorded
    <3>4. PICK k \in DOMAIN batch[c] :
            [request |-> r.request_hash, revision |-> r.response.revision]
              = History!ReceiptOf(batch[c][k])
      BY <2>1, <3>2, <3>3 DEF History!After
    <3>5. r.request_hash.idempotency_key = batch[c][k].idempotency_key
      BY <3>4 DEF History!ReceiptOf, History!RequestOf
    <3>6. r.request_hash.idempotency_key = b[i].idempotency_key
      BY <3>1 DEF Asked
    <3>7. b[i].idempotency_key \in Keys(b) \cap Keys(batch[c])
      BY <3>5, <3>6 DEF Keys
    <3>8. b = batch[c]
      BY <2>1, <3>7 DEF Exclusive
    <3> QED BY <2>1, <3>8
  <2> QED BY <2>2, <2>3
<1> QED
  BY <1>1, <1>2, OnlyCommits

LEMMA InitHistory == Init => HInv
<1> SUFFICES ASSUME Init PROVE HInv
  OBVIOUS
<1>1. /\ db.idempotency_record = {} /\ tx.idempotency_record = {}
  BY DEF Init, EmptyDatabase
<1>2. KeyedIn(db) /\ KeyedIn(tx)
  BY <1>1 DEF KeyedIn
<1>3. \A c \in Call : StagedSoFar(c) /\ Settled(c)
  BY NoCallAssumption DEF Init, StagedSoFar, Settled
<1>4. BatchIsAtomic
  BY <1>1 DEF BatchIsAtomic, IsRecorded
<1> QED
  BY <1>2, <1>3, <1>4 DEF HInv

THEOREM HistoryInvariance == Spec => [](IInv /\ HInv)
<1>1. Init => IInv /\ HInv
  BY InitInv, InitHistory
<1>2. IInv /\ HInv /\ [Next]_vars => IInv' /\ HInv'
  <2> SUFFICES ASSUME IInv, HInv, [Next]_vars PROVE IInv' /\ HInv'
    OBVIOUS
  <2>1. IInv'
    BY InvStep
  <2>2. HParts' /\ BatchIsAtomic'
    BY PartsStep, AtomicStep
  <2> QED BY <2>1, <2>2 DEF HParts, HInv
<1> QED
  BY <1>1, <1>2, PTL DEF Spec

(* A session's commands are recorded together or not at all, through every conflict,
   failed write, lock timeout and crash (commit_in_session under session.begin). *)
THEOREM BatchAtomicity == Spec => []BatchIsAtomic
<1>1. HInv => BatchIsAtomic
  BY DEF HInv
<1> QED
  BY <1>1, HistoryInvariance, PTL

(* A retry that begins when its commands are recorded gets no error: not a conflict,
   however far its entity has moved on, and not a lock timeout, since it never
   writes (_lookup before require_expected_revision). *)
THEOREM RetriesReplayed == Spec => []RetryIsReplayed
<1>1. HInv => RetryIsReplayed
  BY DEF HInv, Settled, RetryIsReplayed
<1> QED
  BY <1>1, HistoryInvariance, PTL

(* The write path implements RevisionHistory: every COMMIT is one abstract Commit of
   the call's whole batch, and no other step shows. *)
THEOREM Implementation == Spec => ImplementsHistory
<1>1. Init => History!Init
  BY DEF Init, EmptyDatabase, ReceiptsOf, History!Init
<1>2. IInv /\ HInv /\ [Next]_vars
        => [History!Next]_<<db.entity_revision, ReceiptsOf(db)>>
  <2> SUFFICES ASSUME IInv, HInv, [Next]_vars
               PROVE  History!Next \/ UNCHANGED <<db.entity_revision, ReceiptsOf(db)>>
    OBVIOUS
  <2>1. CASE db' = db
    BY <2>1 DEF ReceiptsOf
  <2>2. ASSUME NEW c \in Call, CommitTransaction(c) PROVE History!Next
    <3>1. /\ batch[c] \in Batch
          /\ \A i \in DOMAIN batch[c] : History!Permitted(StoreOf(db), batch[c], i)
          /\ StoreOf(db') = History!After(StoreOf(db), batch[c], Len(batch[c]))
      BY <2>2, CommitIsBatch
    <3>2. History!Store = StoreOf(db)
      BY DEF History!Store, StoreOf
    <3> DEFINE after == History!After(History!Store, batch[c], Len(batch[c]))
    <3>3. (db.entity_revision)' = after.history /\ ReceiptsOf(db)' = after.receipts
      <4>1. StoreOf(db').history = db'.entity_revision
            /\ StoreOf(db').receipts = ReceiptsOf(db')
        BY DEF StoreOf
      <4> QED BY <3>1, <3>2, <4>1
    <3>4. \A i \in DOMAIN batch[c] : History!Permitted(History!Store, batch[c], i)
      BY <3>1, <3>2
    <3>5. History!Commit(batch[c])
      BY <3>3, <3>4 DEF History!Commit
    <3> QED BY <3>1, <3>5 DEF History!Next
  <2> QED BY <2>1, <2>2, OnlyCommits
<1> QED
  BY <1>1, <1>2, HistoryInvariance, PTL DEF Spec, ImplementsHistory, History!Spec
=============================================================================
