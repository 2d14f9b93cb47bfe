---------------------------- MODULE Opportunities ----------------------------
(***************************************************************************)
(* Opportunities and their priorities: services/opportunity_service.py     *)
(* with the typed writes of db/opportunity_writes.py and the reads of      *)
(* db/opportunity_repository.py.  Every change is one command of the       *)
(* write path.  CommandService models that path with its lock and shows    *)
(* that a command takes effect in one step or not at all, so here the      *)
(* flushes and the COMMIT are the single step Commit; the reads before     *)
(* them stay apart, because other requests commit in between.              *)
(***************************************************************************)
EXTENDS Integers, SequencesExt

CONSTANTS
    Opportunity,  \* opportunity ids
    Job,          \* exact job revisions
    Proposal,     \* admission proposals of an agent
    Level,        \* priority levels
    Key,          \* one per request: its command id and idempotency key
    Client,       \* concurrent requests
    Ahead,        \* how far a client's expected revision may run ahead of
                  \* the revisions there are when it sends the request
    None

ASSUME AheadAssumption == Ahead \in Nat
ASSUME NoneAssumption  == None \notin Job \cup Proposal \cup Level

Admission == [kind : {"admit"}, job : Job, proposal : Proposal \cup {None}]
Ranking   == [kind : {"user", "suggest"}, level : Level]
Change    == Admission \cup Ranking
Request   == [key : Key, target : Opportunity, expected : Nat, change : Change]
State     == [revision : Nat, change : Change]
Priority  == [revision : Nat, level : Level \cup {None}]
NoRequest == [key |-> None]

VARIABLES
    history,    \* entity_revision: the states of each opportunity, in order
    record,     \* opportunity_record
    user,       \* user_priority
    suggested,  \* suggested_priority
    records,    \* idempotency_record
    sent,       \* the requests clients have made; they may repeat one
    phase,      \* where each request is
    asking,     \* the request
    base,       \* the revision commands.get returned to the service
    seen,       \* the revision _commit_in_session read
    settled,    \* history: the request was already recorded when it was sent
    answer      \* history: what the client was told last

tables   == <<history, record, user, suggested, records>>
callVars == <<phase, asking, base, seen>>
vars     == <<tables, sent, callVars, settled, answer>>

Revision(o) == Len(history[o])

-----------------------------------------------------------------------------
Init ==
    /\ history = [o \in Opportunity |-> <<>>]
    /\ record = [o \in Opportunity |-> [job |-> None, revision |-> 0]]
    /\ user = [o \in Opportunity |-> [revision |-> 0, level |-> None]]
    /\ suggested = [o \in Opportunity |-> [revision |-> 0, level |-> None]]
    /\ records = {}
    /\ sent = {}
    /\ phase = [c \in Client |-> "idle"]
    /\ asking = [c \in Client |-> NoRequest]
    /\ base = [c \in Client |-> 0]
    /\ seen = [c \in Client |-> 0]
    /\ settled = [c \in Client |-> FALSE]
    /\ answer = [c \in Client |-> "none"]

IsAdmission(r) == r.change.kind = "admit"

Begin(c, r) ==
    /\ phase[c] = "idle"
    /\ phase' = [phase EXCEPT ![c] = IF IsAdmission(r) THEN "lookup" ELSE "get"]
    /\ asking' = [asking EXCEPT ![c] = r]
    /\ base' = [base EXCEPT ![c] = 0]
    /\ seen' = [seen EXCEPT ![c] = 0]
    /\ settled' = [settled EXCEPT ![c] = \E x \in records : x.request = r]
    /\ answer' = [answer EXCEPT ![c] = "none"]
    /\ sent' = sent \cup {r}
    /\ UNCHANGED tables

(* What a client may expect: a revision it has read, or one it foresees; the
   first for an opportunity that is not there. *)
Expectable(o) == 1..((IF Revision(o) = 0 THEN 1 ELSE Revision(o)) + Ahead)

(* A new request has a new key. *)
Ask(c) ==
    \E key \in Key, o \in Opportunity :
        /\ \A r \in sent : r.key # key
        /\ \/ \E x \in Admission :
                Begin(c, [key |-> key, target |-> o, expected |-> 0, change |-> x])
           \/ \E x \in Ranking, n \in Expectable(o) :
                Begin(c, [key |-> key, target |-> o, expected |-> n, change |-> x])

(* A client that got no answer, or wants it again. *)
AskAgain(c) == \E r \in sent : Begin(c, r)

End(c, result) ==
    /\ phase' = [phase EXCEPT ![c] = "idle"]
    /\ answer' = [answer EXCEPT ![c] = result]
    /\ UNCHANGED <<tables, sent, asking, base, seen, settled>>

(* _require_existing_opportunity: a session of its own. *)
Get(c) ==
    /\ phase[c] = "get"
    /\ LET now == Revision(asking[c].target) IN
        \/ now = 0 /\ End(c, "NotFound")
        \/ /\ now # 0
           /\ base' = [base EXCEPT ![c] = now]
           /\ phase' = [phase EXCEPT ![c] = "lookup"]
           /\ UNCHANGED <<tables, sent, asking, seen, settled, answer>>

(* The revision that the state to be stored names: _create_opportunity's 1,
   or _next_opportunity_state's. *)
Embedded(c) == base[c] + 1

Receipt(c, revision) ==
    [request |-> asking[c], embedded |-> Embedded(c), revision |-> revision]

RecordOf(key) == {x \in records : x.request.key = key}

(* Mutant: the idempotency record is not consulted. *)
Lookup_Skipped(c) ==
    /\ phase[c] = "lookup"
    /\ phase' = [phase EXCEPT ![c] = "check"]
    /\ UNCHANGED <<tables, sent, asking, base, seen, settled, answer>>

(* The idempotency record and its hash, of which the state is part. *)
Lookup(c) ==
    /\ phase[c] = "lookup"
    /\ LET found == RecordOf(asking[c].key) IN
        \/ /\ found = {}
           /\ phase' = [phase EXCEPT ![c] = "check"]
           /\ UNCHANGED <<tables, sent, asking, base, seen, settled, answer>>
        \/ \E x \in found :
            IF x = Receipt(c, x.revision) THEN End(c, "ok") ELSE End(c, "IdempotencyConflict")

(* Mutant: an opportunity ahead of the expected revision passes. *)
IsExpected_AtLeast(c, actual) == actual >= asking[c].expected

IsExpected(c, actual) == actual = asking[c].expected

(* require_expected_revision *)
Check(c) ==
    /\ phase[c] = "check"
    /\ LET now == Revision(asking[c].target) IN
        \/ ~IsExpected(c, now) /\ End(c, "RevisionConflict")
        \/ /\ IsExpected(c, now)
           /\ seen' = [seen EXCEPT ![c] = now]
           /\ phase' = [phase EXCEPT ![c] = "write"]
           /\ UNCHANGED <<tables, sent, asking, base, settled, answer>>

(* Mutant: no unique key on (entity, revision). *)
Rejected_NoRevisionKey(c) == RecordOf(asking[c].key) # {}

(* The unique keys: of the revision, the command, the job and the proposal. *)
Rejected(c) ==
    \/ Revision(asking[c].target) # seen[c]
    \/ RecordOf(asking[c].key) # {}
    \/ /\ IsAdmission(asking[c])
       /\ \/ \E o \in Opportunity : record[o].job = asking[c].change.job
          \/ /\ asking[c].change.proposal # None
             /\ \E x \in records : /\ IsAdmission(x.request)
                                   /\ x.request.change.proposal = asking[c].change.proposal

(* Mutant: an update of the row keeps the revision it was inserted with. *)
Row_Once(old, revision, level) ==
    [revision |-> IF old.revision = 0 THEN revision ELSE old.revision, level |-> level]

(* The row of a priority, inserted or updated. *)
Row(old, revision, level) == [revision |-> revision, level |-> level]

(* The stage method of the three typed writes. *)
Stage(o, revision, x) ==
    \/ /\ x.kind = "admit"
       /\ record' = [record EXCEPT ![o] = [job |-> x.job, revision |-> revision]]
       /\ UNCHANGED <<user, suggested>>
    \/ /\ x.kind = "user"
       /\ record' = [record EXCEPT ![o].revision = revision]
       /\ user' = [user EXCEPT ![o] = Row(@, revision, x.level)]
       /\ UNCHANGED suggested
    \/ /\ x.kind = "suggest"
       /\ record' = [record EXCEPT ![o].revision = revision]
       /\ suggested' = [suggested EXCEPT ![o] = Row(@, revision, x.level)]
       /\ UNCHANGED user

(* All rows of the command, or an IntegrityError and none. *)
Commit(c) ==
    /\ phase[c] = "write"
    /\ LET r        == asking[c]
           revision == seen[c] + 1
       IN
        \/ Rejected(c) /\ End(c, "IntegrityError")
        \/ /\ ~Rejected(c)
           /\ history' = [history EXCEPT ![r.target] =
                 Append(@, [revision |-> Embedded(c), change |-> r.change])]
           /\ Stage(r.target, revision, r.change)
           /\ records' = records \cup {Receipt(c, revision)}
           /\ phase' = [phase EXCEPT ![c] = "idle"]
           /\ answer' = [answer EXCEPT ![c] = "ok"]
           /\ UNCHANGED <<sent, asking, base, seen, settled>>

(* The database stays locked or the process dies: nothing is committed. *)
Abort(c) ==
    /\ phase[c] # "idle"
    /\ phase' = [phase EXCEPT ![c] = "idle"]
    /\ UNCHANGED <<tables, sent, asking, base, seen, settled, answer>>

Next ==
    \E c \in Client :
        \/ Ask(c)
        \/ AskAgain(c)
        \/ Get(c)
        \/ Lookup(c)
        \/ Check(c)
        \/ Commit(c)
        \/ Abort(c)

Spec == Init /\ [][Next]_vars

-----------------------------------------------------------------------------
(* Every variable has its type. *)
TypeOK ==
    /\ history \in [Opportunity -> Seq(State)]
    /\ record \in [Opportunity -> [job : Job \cup {None}, revision : Nat]]
    /\ user \in [Opportunity -> Priority]
    /\ suggested \in [Opportunity -> Priority]
    /\ records \subseteq [request : Request, embedded : Nat, revision : Nat]
    /\ sent \subseteq Request
    /\ phase \in [Client -> {"idle", "get", "lookup", "check", "write"}]
    /\ asking \in [Client -> Request \cup {NoRequest}]
    /\ base \in [Client -> Nat]
    /\ seen \in [Client -> Nat]
    /\ settled \in [Client -> BOOLEAN]
    /\ answer \in [Client -> {"none", "ok", "NotFound", "IdempotencyConflict",
                              "RevisionConflict", "IntegrityError"}]

(* The revisions up to n at which a priority of this kind was set. *)
SetAt(o, kind, n) == {i \in 1..n : history[o][i].change.kind = kind}

Newest(S) == CHOOSE i \in S : \A j \in S : j <= i

AsOf(o, kind, n) ==
    IF SetAt(o, kind, n) = {} THEN None
    ELSE history[o][Newest(SetAt(o, kind, n))].change.level

(* The typed tables and the revision log tell the same story: the record is at
   the latest revision, and each priority is the one last set, the user's
   never that of an agent, whatever order users and agents wrote in. *)
TablesAgree ==
    \A o \in Opportunity :
        /\ record[o].revision = Revision(o)
        /\ user[o].level = AsOf(o, "user", Revision(o))
        /\ suggested[o].level = AsOf(o, "suggest", Revision(o))

Reported(row, n) == row.revision # 0 /\ row.revision <= n

(* get_revision's "exact because every priority write bumps the Opportunity
   revision": a priority it reports for an old revision is the one that stood
   then, though the tables keep only the latest. *)
OldPriorityIsExact ==
    \A o \in Opportunity : \A n \in 1..Revision(o) :
        /\ Reported(user[o], n) => user[o].level = AsOf(o, "user", n)
        /\ Reported(suggested[o], n) => suggested[o].level = AsOf(o, "suggest", n)

(* get_revision can read every recorded revision: the state stored under a
   revision names that revision ("persisted Opportunity revision state is
   inconsistent" otherwise). *)
HistoryIsReadable ==
    \A o \in Opportunity : \A n \in 1..Revision(o) : history[o][n].revision = n

(* An opportunity's tables agree and its rows have their types; a revision reads with
   the priority it had, also after a later one changed it, and with its own number. *)
HistoryReadsTrue == TypeOK /\ TablesAgree /\ OldPriorityIsExact /\ HistoryIsReadable

(* An admission that was recorded is answered with its result however often
   it is repeated, whatever has happened to the opportunity since. *)
AdmissionIsReplayed ==
    \A c \in Client :
        settled[c] /\ IsAdmission(asking[c]) => answer[c] \in {"none", "ok"}

(* Any request that was recorded is. *)
RequestIsReplayed == \A c \in Client : settled[c] => answer[c] \in {"none", "ok"}
=============================================================================
