------------------------------ MODULE RadarProofs ------------------------------
(***************************************************************************)
(* Proofs about what the radar's run checks, for any number of threads,    *)
(* records and files.  Opportunities: the typed tables and the revision    *)
(* log tell one story, a recorded admission is answered again, and while   *)
(* clients expect no more than they have read every recorded revision can  *)
(* be read back.  SourceBreaker: the count of failures is exact.           *)
(* JobStaging: one posting, one opportunity; a batch is whole.  Backups:   *)
(* a copy has the file of every row.                                       *)
(***************************************************************************)
EXTENDS MCRadar, TLAPS

Phases  == {"idle", "get", "lookup", "check", "write"}
Kinds   == {"user", "suggest"}
Answers == {"none", "ok", "NotFound", "IdempotencyConflict", "RevisionConflict",
            "IntegrityError"}

(* A priority's row is the last of its kind in the revision log, or unwritten. *)
PriorityStands(o, kind, row) ==
    \/ row.revision = 0 /\ row.level = None /\ SetAt(o, kind, Revision(o)) = {}
    \/ /\ row.revision \in SetAt(o, kind, Revision(o))
       /\ \A i \in SetAt(o, kind, Revision(o)) : i <= row.revision
       /\ row.level = history[o][row.revision].change.level

TablesInv ==
    \A o \in Opportunity :
        /\ record[o].revision = Revision(o)
        /\ PriorityStands(o, "user", user[o])
        /\ PriorityStands(o, "suggest", suggested[o])

(* What was sent expects nothing of an opportunity to be admitted, a revision of
   any other; a request under way was sent. *)
RequestsInv ==
    /\ \A r \in sent : IsAdmission(r) => r.expected = 0
    /\ \A c \in Client : phase[c] # "idle" =>
        /\ asking[c] \in sent
        /\ IsAdmission(asking[c]) => base[c] = 0 /\ phase[c] # "get"
        /\ phase[c] = "write" => seen[c] = asking[c].expected

(* A key has one record, and that of an admission stored revision 1. *)
ReceiptsInv ==
    /\ \A x, y \in records : x.request.key = y.request.key => x = y
    /\ \A x \in records : IsAdmission(x.request) => x.embedded = 1

(* A request that was recorded when it was sent still is; an admission is found. *)
SettledInv ==
    \A c \in Client : settled[c] =>
        /\ \E x \in records : x.request = asking[c]
        /\ IsAdmission(asking[c]) => phase[c] \in {"idle", "lookup"} /\ answer[c] \in {"none", "ok"}

(* The inductive invariant. *)
OpportunityInv == TypeOK /\ TablesInv /\ RequestsInv /\ ReceiptsInv /\ SettledInv

-----------------------------------------------------------------------------
(* A client expects no revision that it cannot have read. *)
NoneForeseen == Ahead = 0

Bound(o) == IF Revision(o) = 0 THEN 1 ELSE Revision(o)

(* So a request expects no later revision than its state is computed from. *)
ExpectsWhatIsRead(c) ==
    phase[c] \in {"lookup", "check", "write"} /\ ~IsAdmission(asking[c]) =>
        /\ asking[c].expected <= base[c]
        /\ base[c] <= Revision(asking[c].target)
        /\ phase[c] = "write" => base[c] <= seen[c]

ExpectedInv ==
    /\ \A r \in sent : ~IsAdmission(r) => r.expected <= Bound(r.target)
    /\ \A c \in Client : ExpectsWhatIsRead(c)

(* The inductive invariant of clients that expect what they have read. *)
ReadableInv == ExpectedInv /\ HistoryIsReadable

-----------------------------------------------------------------------------
(* The tables change in one way: the second disjunct of Commit. *)
Stores(c) ==
    /\ phase[c] = "write"
    /\ ~Rejected(c)
    /\ history' = [history EXCEPT ![asking[c].target] =
          Append(@, [revision |-> Embedded(c), change |-> asking[c].change])]
    /\ Stage(asking[c].target, seen[c] + 1, asking[c].change)
    /\ records' = records \cup {Receipt(c, seen[c] + 1)}
    /\ phase' = [phase EXCEPT ![c] = "idle"]
    /\ answer' = [answer EXCEPT ![c] = "ok"]
    /\ UNCHANGED <<sent, asking, base, seen, settled>>

(* What a step of a client is: a request, its end, a read, or the commit. *)
LEMMA StepShapes ==
    ASSUME TypeOK, NEW c \in Client,
           Ask(c) \/ AskAgain(c) \/ Get(c) \/ Lookup(c) \/ Check(c) \/ Commit(c) \/ Abort(c)
    PROVE  \/ Ask(c) \/ AskAgain(c) \/ Lookup(c) \/ Abort(c) \/ Stores(c)
           \/ Get(c) /\ Revision(asking[c].target) # 0
                /\ base' = [base EXCEPT ![c] = Revision(asking[c].target)]
                /\ phase' = [phase EXCEPT ![c] = "lookup"]
                /\ UNCHANGED <<tables, sent, asking, seen, settled, answer>>
           \/ Check(c) /\ Revision(asking[c].target) = asking[c].expected
                /\ seen' = [seen EXCEPT ![c] = Revision(asking[c].target)]
                /\ phase' = [phase EXCEPT ![c] = "write"]
                /\ UNCHANGED <<tables, sent, asking, base, settled, answer>>
           \/ /\ phase[c] \in {"get", "check", "write"}
              /\ \E result \in Answers : End(c, result)
<1>1. CASE Get(c)
  BY <1>1, Zenon DEF Get, Answers
<1>2. CASE Check(c)
  BY <1>2, Zenon DEF Check, IsExpected, Answers
<1>3. CASE Commit(c)
  BY <1>3, Zenon DEF Commit, Stores, Answers
<1> QED BY <1>1, <1>2, <1>3

LEMMA ChangeParts ==
    ASSUME NEW x \in Change
    PROVE  /\ x.kind \in Kinds \cup {"admit"}
           /\ x.kind = "admit" => x.job \in Job
           /\ x.kind # "admit" => x.level \in Level
BY DEF Change, Admission, Ranking, Kinds

LEMMA RequestParts ==
    ASSUME NEW r \in Request
    PROVE  /\ r.target \in Opportunity /\ r.expected \in Nat /\ r.change \in Change
           /\ r.key \in Key
BY DEF Request

(* The request under way is one. *)
LEMMA AskingParts ==
    ASSUME TypeOK, RequestsInv, NEW c \in Client, phase[c] # "idle"
    PROVE  /\ asking[c] \in Request /\ asking[c].target \in Opportunity
           /\ asking[c].expected \in Nat /\ asking[c].change \in Change
           /\ base[c] \in Nat /\ seen[c] \in Nat
<1>1. asking[c] \in Request
  BY DEF TypeOK, RequestsInv
<1> QED BY <1>1, RequestParts DEF TypeOK

-----------------------------------------------------------------------------
(* The revision log after one more revision. *)
LEMMA LogGrows ==
    ASSUME history \in [Opportunity -> Seq(State)], NEW o \in Opportunity, NEW s \in State,
           history' = [history EXCEPT ![o] = Append(@, s)]
    PROVE  /\ history' \in [Opportunity -> Seq(State)]
           /\ Revision(o) \in Nat /\ Revision(o)' = Revision(o) + 1
           /\ \A p \in Opportunity : p # o => history'[p] = history[p]
           /\ \A i \in 1..Revision(o) : history'[o][i] = history[o][i]
           /\ history'[o][Revision(o) + 1] = s
<1>1. history[o] \in Seq(State) /\ history'[o] = Append(history[o], s)
  OBVIOUS
<1>2. Append(history[o], s) \in Seq(State) /\ Len(history[o]) \in Nat
  BY <1>1
<1>3. history' \in [Opportunity -> Seq(State)]
  BY <1>2
<1>4. /\ Len(history'[o]) = Len(history[o]) + 1
      /\ \A i \in 1..Len(history[o]) : history'[o][i] = history[o][i]
      /\ history'[o][Len(history[o]) + 1] = s
  BY <1>1
<1> QED BY <1>2, <1>3, <1>4 DEF Revision

LEMMA SetAtGrows ==
    ASSUME history \in [Opportunity -> Seq(State)], NEW o \in Opportunity, NEW s \in State,
           history' = [history EXCEPT ![o] = Append(@, s)], NEW kind
    PROVE  /\ \A n \in 0..Revision(o) : SetAt(o, kind, n)' = SetAt(o, kind, n)
           /\ SetAt(o, kind, Revision(o))' =
                SetAt(o, kind, Revision(o)) \cup
                    (IF s.change.kind = kind THEN {Revision(o) + 1} ELSE {})
<1> DEFINE n0 == Revision(o)
<1>1. /\ n0 \in Nat /\ Revision(o)' = n0 + 1
      /\ \A i \in 1..n0 : history'[o][i] = history[o][i]
      /\ history'[o][n0 + 1] = s
  BY LogGrows
<1> HIDE DEF n0
<1>2. ASSUME NEW n \in 0..n0
      PROVE  {i \in 1..n : history'[o][i].change.kind = kind}
           = {i \in 1..n : history[o][i].change.kind = kind}
  <2>1. 1..n \subseteq 1..n0
    BY <1>1
  <2>2. \A i \in 1..n : history'[o][i] = history[o][i]
    BY <1>1, <2>1
  <2> QED BY <2>2
<1>3. {i \in 1..(n0 + 1) : history'[o][i].change.kind = kind} =
        {i \in 1..n0 : history[o][i].change.kind = kind} \cup
            (IF s.change.kind = kind THEN {n0 + 1} ELSE {})
  <2>1. 1..(n0 + 1) = 1..n0 \cup {n0 + 1}
    BY <1>1
  <2>2. \A i \in 1..n0 : history'[o][i].change.kind = history[o][i].change.kind
    BY <1>1
  <2>3. history'[o][n0 + 1].change.kind = s.change.kind
    BY <1>1
  <2> QED BY <2>1, <2>2, <2>3
<1>4. \A n \in 0..Revision(o) : SetAt(o, kind, n)' = SetAt(o, kind, n)
  BY <1>2 DEF SetAt, n0
<1> QED BY <1>1, <1>3, <1>4 DEF SetAt, n0

(* A priority that the new revision does not set stands, and one it sets does. *)
LEMMA PriorityKept ==
    ASSUME history \in [Opportunity -> Seq(State)], NEW o \in Opportunity, NEW s \in State,
           history' = [history EXCEPT ![o] = Append(@, s)], NEW kind, s.change.kind # kind,
           NEW row, PriorityStands(o, kind, row)
    PROVE  PriorityStands(o, kind, row)'
<1>1. SetAt(o, kind, Revision(o))' = SetAt(o, kind, Revision(o))
  BY SetAtGrows
<1>2. Revision(o)' = Revision(o) + 1 /\ \A i \in 1..Revision(o) : history'[o][i] = history[o][i]
  BY LogGrows
<1>3. SetAt(o, kind, Revision(o)) \subseteq 1..Revision(o)
  BY DEF SetAt
<1> QED BY <1>1, <1>2, <1>3 DEF PriorityStands

LEMMA PrioritySet ==
    ASSUME history \in [Opportunity -> Seq(State)], NEW o \in Opportunity, NEW s \in State,
           history' = [history EXCEPT ![o] = Append(@, s)], NEW row,
           row.revision = Revision(o) + 1, row.level = s.change.level
    PROVE  PriorityStands(o, s.change.kind, row)'
<1>1. SetAt(o, s.change.kind, Revision(o))'
      = SetAt(o, s.change.kind, Revision(o)) \cup {Revision(o) + 1}
  BY SetAtGrows
<1>2. /\ Revision(o) \in Nat /\ Revision(o)' = Revision(o) + 1
      /\ history'[o][Revision(o) + 1] = s
  BY LogGrows
<1>3. SetAt(o, s.change.kind, Revision(o)) \subseteq 1..Revision(o)
  BY DEF SetAt
<1>4. /\ row.revision \in SetAt(o, s.change.kind, Revision(o))'
      /\ \A i \in SetAt(o, s.change.kind, Revision(o))' : i <= row.revision
  BY <1>1, <1>2, <1>3
<1>5. row.level = history'[o][row.revision].change.level
  BY <1>2
<1> QED BY <1>4, <1>5 DEF PriorityStands

-----------------------------------------------------------------------------
(* The commit of a change. *)
LEMMA StoresTables ==
    ASSUME OpportunityInv, NEW c \in Client, Stores(c)
    PROVE  /\ TablesInv'
           /\ history' \in [Opportunity -> Seq(State)]
           /\ record' \in [Opportunity -> [job : Job \cup {None}, revision : Nat]]
           /\ user' \in [Opportunity -> Priority] /\ suggested' \in [Opportunity -> Priority]
<1>1. /\ asking[c].target \in Opportunity /\ asking[c].change \in Change
      /\ Embedded(c) \in Nat
      /\ [revision |-> Embedded(c), change |-> asking[c].change] \in State
  BY AskingParts DEF OpportunityInv, Stores, Embedded, State
<1>2. PICK o \in Opportunity : o = asking[c].target
  BY <1>1
<1>3. PICK x \in Change : x = asking[c].change
  BY <1>1
<1>4. PICK s \in State : s = [revision |-> Embedded(c), change |-> x] /\ s.change = x
  BY <1>1, <1>3
<1>5. history \in [Opportunity -> Seq(State)]
  BY DEF OpportunityInv, TypeOK
<1>6. PICK n \in Nat : n = Revision(o) + 1
  BY <1>5 DEF Revision
<1>7. history' = [history EXCEPT ![o] = Append(@, s)] /\ Stage(o, n, x)
  BY <1>2, <1>3, <1>4, <1>6 DEF Stores, Rejected
<1>8. /\ history' \in [Opportunity -> Seq(State)]
      /\ Revision(o) \in Nat /\ Revision(o)' = n
      /\ \A p \in Opportunity : p # o => history'[p] = history[p]
  BY <1>5, <1>6, <1>7, LogGrows
<1>9. x.kind \in Kinds \cup {"admit"} /\ (x.kind = "admit" => x.job \in Job)
      /\ (x.kind # "admit" => x.level \in Level)
  BY <1>3, ChangeParts
<1>10. /\ record \in [Opportunity -> [job : Job \cup {None}, revision : Nat]]
      /\ user \in [Opportunity -> Priority] /\ suggested \in [Opportunity -> Priority]
  BY DEF OpportunityInv, TypeOK
<1>11. /\ record' \in [Opportunity -> [job : Job \cup {None}, revision : Nat]]
      /\ record'[o].revision = n
      /\ \A p \in Opportunity : p # o => record'[p] = record[p]
  <2>1. PICK row \in [job : Job \cup {None}, revision : Nat] :
            record' = [record EXCEPT ![o] = row] /\ row.revision = n
    <3>1. CASE x.kind = "admit"
      <4>1. record' = [record EXCEPT ![o] = [job |-> x.job, revision |-> n]]
        BY <1>7, <3>1 DEF Stage
      <4>2. [job |-> x.job, revision |-> n] \in [job : Job \cup {None}, revision : Nat]
        BY <1>8, <1>9, <3>1
      <4> QED BY <4>1, <4>2
    <3>2. CASE x.kind # "admit"
      <4>1. record' = [record EXCEPT ![o] = [record[o] EXCEPT !.revision = n]]
        BY <1>7, <3>2 DEF Stage
      <4>2. [record[o] EXCEPT !.revision = n] \in [job : Job \cup {None}, revision : Nat]
        BY <1>3, <1>8, <1>10
      <4>3. [record[o] EXCEPT !.revision = n].revision = n
        BY <1>3, <1>10
      <4> QED BY <4>1, <4>2, <4>3
    <3> QED BY <3>1, <3>2
  <2> QED BY <1>3, <1>10, <2>1
<1>12. ASSUME x.kind # "admit" PROVE Row(user[o], n, x.level) \in Priority
  BY <1>8, <1>9, <1>12 DEF Row, Priority
<1>13. user' \in [Opportunity -> Priority] /\ suggested' \in [Opportunity -> Priority]
  BY <1>3, <1>7, <1>9, <1>10, <1>12 DEF Stage, Row, Kinds
<1>14. TablesInv
  BY DEF OpportunityInv
<1>15. PriorityStands(o, "user", user[o])' /\ PriorityStands(o, "suggest", suggested[o])'
  <2>1. PriorityStands(o, "user", user[o]) /\ PriorityStands(o, "suggest", suggested[o])
    BY <1>3, <1>14 DEF TablesInv
  <2>2. \A kind, row : s.change.kind # kind /\ PriorityStands(o, kind, row)
            => PriorityStands(o, kind, row)'
    BY <1>3, <1>4, <1>7, <1>5, PriorityKept
  <2>3. \A row : row.revision = n /\ row.level = x.level => PriorityStands(o, x.kind, row)'
    BY <1>3, <1>4, <1>5, <1>6, <1>7, PrioritySet
  <2>4. CASE x.kind = "admit"
    BY <1>4, <1>7, <2>1, <2>2, <2>4 DEF Stage
  <2>5. CASE x.kind = "user"
    <3>1. user'[o].revision = n /\ user'[o].level = x.level /\ suggested' = suggested
      BY <1>3, <1>7, <1>10, <2>5 DEF Stage, Row
    <3> QED BY <1>4, <2>1, <2>2, <2>3, <2>5, <3>1
  <2>6. CASE x.kind = "suggest"
    <3>1. suggested'[o].revision = n /\ suggested'[o].level = x.level /\ user' = user
      BY <1>3, <1>7, <1>10, <2>6 DEF Stage, Row
    <3> QED BY <1>4, <2>1, <2>2, <2>3, <2>6, <3>1
  <2> QED BY <1>9, <2>4, <2>5, <2>6 DEF Kinds
<1>16. ASSUME NEW p \in Opportunity, p # o
       PROVE  /\ (record[p].revision = Revision(p))'
              /\ PriorityStands(p, "user", user[p])' /\ PriorityStands(p, "suggest", suggested[p])'
  <2>1. user'[p] = user[p] /\ suggested'[p] = suggested[p]
    BY <1>7, <1>10, <1>16 DEF Stage
  <2>2. ASSUME NEW kind, NEW row, PriorityStands(p, kind, row)
        PROVE  PriorityStands(p, kind, row)'
    <3>1. Revision(p)' = Revision(p) /\ history'[p] = history[p]
      BY <1>8, <1>16 DEF Revision
    <3>2. SetAt(p, kind, Revision(p))' = SetAt(p, kind, Revision(p))
      BY <3>1 DEF SetAt
    <3> QED BY <2>2, <3>1, <3>2 DEF PriorityStands
  <2>3. PICK mine : mine = user[p]
    OBVIOUS
  <2>4. PICK theirs : theirs = suggested[p]
    OBVIOUS
  <2>5. PriorityStands(p, "user", mine) /\ PriorityStands(p, "suggest", theirs)
    BY <1>14, <2>3, <2>4 DEF TablesInv
  <2>6. PriorityStands(p, "user", mine)' /\ PriorityStands(p, "suggest", theirs)'
    BY <2>2, <2>5
  <2>7. (record[p].revision = Revision(p))'
    BY <1>8, <1>11, <1>14, <1>16 DEF TablesInv, Revision
  <2> QED BY <2>1, <2>3, <2>4, <2>6, <2>7
<1>17. TablesInv'
  BY <1>8, <1>11, <1>15, <1>16 DEF TablesInv
<1> QED BY <1>8, <1>11, <1>13, <1>17

LEMMA StoresStep ==
    ASSUME OpportunityInv, NEW c \in Client, Stores(c)
    PROVE  OpportunityInv'
<1>1. /\ asking[c] \in Request /\ asking[c].target \in Opportunity
      /\ base[c] \in Nat /\ seen[c] \in Nat /\ phase[c] = "write"
  BY AskingParts DEF OpportunityInv, Stores
<1>2. /\ records' = records \cup {Receipt(c, seen[c] + 1)} /\ RecordOf(asking[c].key) = {}
      /\ phase' = [phase EXCEPT ![c] = "idle"] /\ answer' = [answer EXCEPT ![c] = "ok"]
      /\ UNCHANGED <<sent, asking, base, seen, settled>>
  BY DEF Stores, Rejected
<1>3. PICK x \in [request : Request, embedded : Nat, revision : Nat] :
        /\ x = Receipt(c, seen[c] + 1)
        /\ x.request = asking[c] /\ x.embedded = base[c] + 1
  <2>1. Receipt(c, seen[c] + 1) \in [request : Request, embedded : Nat, revision : Nat]
    BY <1>1 DEF Receipt, Embedded
  <2>2. /\ Receipt(c, seen[c] + 1).request = asking[c]
        /\ Receipt(c, seen[c] + 1).embedded = base[c] + 1
    BY DEF Receipt, Embedded
  <2> QED BY <2>1, <2>2
<1>4. /\ phase \in [Client -> Phases] /\ answer \in [Client -> Answers]
      /\ records \subseteq [request : Request, embedded : Nat, revision : Nat]
  BY DEF OpportunityInv, TypeOK, Phases, Answers
<1>5. phase' \in [Client -> Phases] /\ answer' \in [Client -> Answers] /\ phase'[c] = "idle"
      /\ answer'[c] = "ok"
      /\ \A d \in Client : d # c => phase'[d] = phase[d] /\ answer'[d] = answer[d]
  BY <1>2, <1>4 DEF Phases, Answers
<1>6. TypeOK'
  BY <1>2, <1>3, <1>4, <1>5, StoresTables DEF OpportunityInv, TypeOK, Phases, Answers
<1>7. RequestsInv'
  BY <1>2, <1>5 DEF OpportunityInv, RequestsInv, IsAdmission
<1>8. ReceiptsInv'
  <2>1. \A y \in records : y.request.key # x.request.key
    BY <1>2, <1>3 DEF RecordOf
  <2>2. IsAdmission(x.request) => x.embedded = 1
    BY <1>1, <1>3 DEF OpportunityInv, RequestsInv
  <2> QED BY <1>2, <1>3, <2>1, <2>2 DEF OpportunityInv, ReceiptsInv, IsAdmission
<1>9. SettledInv'
  BY <1>2, <1>5 DEF OpportunityInv, SettledInv, IsAdmission
<1> QED BY <1>6, <1>7, <1>8, <1>9, StoresTables DEF OpportunityInv

-----------------------------------------------------------------------------
(* The steps that leave the tables alone. *)
LEMMA TablesUntouched ==
    ASSUME OpportunityInv, UNCHANGED tables
    PROVE  /\ TablesInv' /\ ReceiptsInv'
           /\ history' \in [Opportunity -> Seq(State)]
           /\ record' \in [Opportunity -> [job : Job \cup {None}, revision : Nat]]
           /\ user' \in [Opportunity -> Priority] /\ suggested' \in [Opportunity -> Priority]
           /\ records' \subseteq [request : Request, embedded : Nat, revision : Nat]
<1>1. UNCHANGED <<history, record, user, suggested, records>>
  BY DEF tables
<1>2. \A o \in Opportunity : \A kind :
        Revision(o)' = Revision(o) /\ SetAt(o, kind, Revision(o))' = SetAt(o, kind, Revision(o))
  BY <1>1 DEF SetAt, Revision
<1>3. \A o \in Opportunity : \A kind, row :
        PriorityStands(o, kind, row) => PriorityStands(o, kind, row)'
  BY <1>1, <1>2 DEF PriorityStands
<1>4. TablesInv'
  BY <1>1, <1>2, <1>3 DEF OpportunityInv, TablesInv
<1>5. ReceiptsInv'
  BY <1>1 DEF OpportunityInv, ReceiptsInv, IsAdmission
<1> QED BY <1>1, <1>4, <1>5 DEF OpportunityInv, TypeOK

LEMMA BeginStep ==
    ASSUME OpportunityInv, NEW c \in Client, NEW r \in Request, IsAdmission(r) => r.expected = 0,
           Begin(c, r)
    PROVE  OpportunityInv'
<1>1. /\ asking \in [Client -> Request \cup {NoRequest}] /\ base \in [Client -> Nat]
      /\ seen \in [Client -> Nat] /\ settled \in [Client -> BOOLEAN] /\ sent \subseteq Request
      /\ phase \in [Client -> Phases] /\ answer \in [Client -> Answers]
  BY DEF OpportunityInv, TypeOK, Phases, Answers
<1> DEFINE first == IF IsAdmission(r) THEN "lookup" ELSE "get"
<1> DEFINE known == \E x \in records : x.request = r
<1>2. /\ phase' = [phase EXCEPT ![c] = first] /\ asking' = [asking EXCEPT ![c] = r]
      /\ base' = [base EXCEPT ![c] = 0] /\ seen' = [seen EXCEPT ![c] = 0]
      /\ settled' = [settled EXCEPT ![c] = known] /\ answer' = [answer EXCEPT ![c] = "none"]
      /\ sent' = sent \cup {r} /\ UNCHANGED tables
  BY DEF Begin
<1>3. first \in Phases /\ known \in BOOLEAN /\ (IsAdmission(r) => first = "lookup")
      /\ first # "write"
  BY DEF Phases
<1>4. known => \E x \in records : x.request = r
  OBVIOUS
<1> HIDE DEF first, known
<1>5. /\ phase' \in [Client -> Phases] /\ phase'[c] = first
      /\ asking' \in [Client -> Request \cup {NoRequest}] /\ asking'[c] = r
      /\ base' \in [Client -> Nat] /\ base'[c] = 0 /\ seen' \in [Client -> Nat]
      /\ settled' \in [Client -> BOOLEAN] /\ settled'[c] = known
      /\ answer' \in [Client -> Answers] /\ answer'[c] = "none"
  BY <1>1, <1>2, <1>3 DEF Answers
<1>6. \A d \in Client : d # c =>
        /\ phase'[d] = phase[d] /\ asking'[d] = asking[d] /\ base'[d] = base[d]
        /\ seen'[d] = seen[d] /\ settled'[d] = settled[d] /\ answer'[d] = answer[d]
  BY <1>1, <1>2
<1>7. TypeOK'
  BY <1>1, <1>2, <1>5, TablesUntouched DEF TypeOK, Phases, Answers
<1>8. RequestsInv'
  <2>1. \A q \in sent' : IsAdmission(q) => q.expected = 0
    BY <1>2 DEF OpportunityInv, RequestsInv
  <2>2. ASSUME NEW d \in Client, phase'[d] # "idle"
        PROVE  /\ asking'[d] \in sent'
               /\ IsAdmission(asking'[d]) => base'[d] = 0 /\ phase'[d] # "get"
               /\ phase'[d] = "write" => seen'[d] = asking'[d].expected
    BY <1>2, <1>3, <1>5, <1>6, <2>2 DEF OpportunityInv, RequestsInv
  <2> QED BY <2>1, <2>2 DEF RequestsInv, IsAdmission
<1>9. SettledInv'
  <2>1. records' = records
    BY <1>2 DEF tables
  <2>2. ASSUME NEW d \in Client, settled'[d]
        PROVE  /\ \E x \in records : x.request = asking'[d]
               /\ IsAdmission(asking'[d]) =>
                    phase'[d] \in {"idle", "lookup"} /\ answer'[d] \in {"none", "ok"}
    BY <1>3, <1>4, <1>5, <1>6, <2>2 DEF OpportunityInv, SettledInv
  <2> QED BY <2>1, <2>2 DEF SettledInv, IsAdmission
<1> QED BY <1>2, <1>7, <1>8, <1>9, TablesUntouched DEF OpportunityInv

(* What a client sends. *)
LEMMA AskSends ==
    ASSUME OpportunityInv, NEW c \in Client, Ask(c) \/ AskAgain(c)
    PROVE  \E r \in Request :
            /\ Begin(c, r)
            /\ IsAdmission(r) => r.expected = 0
            /\ r \in sent \/ (~IsAdmission(r) => r.expected \in Expectable(r.target))
<1>1. CASE AskAgain(c)
  BY <1>1 DEF AskAgain, OpportunityInv, RequestsInv, TypeOK
<1>2. CASE Ask(c)
  <2>1. PICK key \in Key, o \in Opportunity :
           \/ \E x \in Admission :
                Begin(c, [key |-> key, target |-> o, expected |-> 0, change |-> x])
           \/ \E x \in Ranking, n \in Expectable(o) :
                Begin(c, [key |-> key, target |-> o, expected |-> n, change |-> x])
    BY <1>2 DEF Ask
  <2>2. ASSUME NEW x \in Admission,
               Begin(c, [key |-> key, target |-> o, expected |-> 0, change |-> x])
        PROVE  \E r \in Request : Begin(c, r) /\ IsAdmission(r) /\ r.expected = 0
    <3> DEFINE r == [key |-> key, target |-> o, expected |-> 0, change |-> x]
    <3>1. r \in Request /\ IsAdmission(r) /\ r.expected = 0
      BY DEF Request, Change, IsAdmission, Admission
    <3> QED BY <2>2, <3>1, Zenon
  <2>3. ASSUME NEW x \in Ranking, NEW n \in Expectable(o),
               Begin(c, [key |-> key, target |-> o, expected |-> n, change |-> x])
        PROVE  \E r \in Request :
                Begin(c, r) /\ ~IsAdmission(r) /\ r.expected \in Expectable(r.target)
    <3> DEFINE r == [key |-> key, target |-> o, expected |-> n, change |-> x]
    <3>1. n \in Nat
      BY DEF Expectable
    <3>2. r \in Request /\ ~IsAdmission(r) /\ r.expected = n /\ r.target = o
      BY <3>1 DEF Request, Change, IsAdmission, Ranking
    <3> QED BY <2>3, <3>2, Zenon
  <2> QED BY <2>1, <2>2, <2>3
<1> QED BY <1>1, <1>2

(* A step that changes only where the request is and what it has read. *)
LEMMA PhaseStep ==
    ASSUME OpportunityInv, NEW c \in Client, phase[c] # "idle", NEW next \in Phases,
           phase' = [phase EXCEPT ![c] = next],
           UNCHANGED <<tables, sent, asking, settled>>,
           base' \in [Client -> Nat], \A d \in Client : d # c => base'[d] = base[d],
           seen' \in [Client -> Nat], \A d \in Client : d # c => seen'[d] = seen[d],
           answer' \in [Client -> Answers], \A d \in Client : d # c => answer'[d] = answer[d],
           next # "idle" =>
            /\ IsAdmission(asking[c]) => base'[c] = 0 /\ next # "get"
            /\ next = "write" => seen'[c] = asking[c].expected,
           settled[c] /\ IsAdmission(asking[c]) =>
            next \in {"idle", "lookup"} /\ answer'[c] \in {"none", "ok"}
    PROVE  OpportunityInv'
<1>1. phase \in [Client -> Phases]
  BY DEF OpportunityInv, TypeOK, Phases
<1>2. phase' \in [Client -> Phases] /\ phase'[c] = next
      /\ \A d \in Client : d # c => phase'[d] = phase[d]
  BY <1>1
<1>3. TypeOK'
  BY <1>2, TablesUntouched DEF OpportunityInv, TypeOK, Phases, Answers
<1>4. RequestsInv'
  <2>1. ASSUME NEW d \in Client, phase'[d] # "idle"
        PROVE  /\ asking[d] \in sent
               /\ IsAdmission(asking[d]) => base'[d] = 0 /\ phase'[d] # "get"
               /\ phase'[d] = "write" => seen'[d] = asking[d].expected
    BY <1>2, <2>1 DEF OpportunityInv, RequestsInv
  <2> QED BY <2>1 DEF OpportunityInv, RequestsInv, IsAdmission
<1>5. SettledInv'
  <2>1. ASSUME NEW d \in Client, settled[d]
        PROVE  /\ \E x \in records : x.request = asking[d]
               /\ IsAdmission(asking[d]) =>
                    phase'[d] \in {"idle", "lookup"} /\ answer'[d] \in {"none", "ok"}
    BY <1>2, <2>1 DEF OpportunityInv, SettledInv
  <2> QED BY <2>1 DEF SettledInv, IsAdmission, tables
<1> QED BY <1>3, <1>4, <1>5, TablesUntouched DEF OpportunityInv

LEMMA EndStep ==
    ASSUME OpportunityInv, NEW c \in Client, phase[c] # "idle", NEW result \in Answers,
           End(c, result), settled[c] /\ IsAdmission(asking[c]) => result = "ok"
    PROVE  OpportunityInv'
<1>1. /\ phase' = [phase EXCEPT ![c] = "idle"] /\ answer' = [answer EXCEPT ![c] = result]
      /\ UNCHANGED <<tables, sent, asking, base, seen, settled>>
  BY DEF End
<1>2. answer \in [Client -> Answers] /\ base \in [Client -> Nat] /\ seen \in [Client -> Nat]
  BY DEF OpportunityInv, TypeOK, Answers
<1>3. answer' \in [Client -> Answers] /\ answer'[c] = result
      /\ \A d \in Client : d # c => answer'[d] = answer[d]
  BY <1>1, <1>2
<1>4. "idle" \in Phases
  BY DEF Phases
<1> QED BY <1>1, <1>2, <1>3, <1>4, PhaseStep

LEMMA LookupStep ==
    ASSUME OpportunityInv, NEW c \in Client, Lookup(c)
    PROVE  OpportunityInv'
<1> DEFINE found == RecordOf(asking[c].key)
<1>1. phase[c] = "lookup"
  BY DEF Lookup
<1>2. /\ base \in [Client -> Nat] /\ seen \in [Client -> Nat] /\ answer \in [Client -> Answers]
      /\ records \subseteq [request : Request, embedded : Nat, revision : Nat]
      /\ asking[c] \in Request
  BY <1>1, AskingParts DEF OpportunityInv, TypeOK, Answers
<1>3. settled[c] => \E x \in found : x.request = asking[c]
  BY DEF OpportunityInv, SettledInv, RecordOf
<1>4. CASE /\ found = {}
           /\ phase' = [phase EXCEPT ![c] = "check"]
           /\ UNCHANGED <<tables, sent, asking, base, seen, settled, answer>>
  <2>1. IsAdmission(asking[c]) => base[c] = 0
    BY <1>1 DEF OpportunityInv, RequestsInv
  <2>2. "check" \in Phases
    BY DEF Phases
  <2> QED BY <1>1, <1>2, <1>3, <1>4, <2>1, <2>2, PhaseStep
<1>5. ASSUME NEW x \in found,
             IF x = Receipt(c, x.revision) THEN End(c, "ok") ELSE End(c, "IdempotencyConflict")
      PROVE  OpportunityInv'
  <2>1. ASSUME settled[c], IsAdmission(asking[c]) PROVE x = Receipt(c, x.revision)
    <3>1. x \in records /\ x.request.key = asking[c].key
      BY DEF RecordOf
    <3>2. x.request = asking[c]
      BY <1>3, <2>1, <3>1 DEF OpportunityInv, ReceiptsInv, RecordOf
    <3>3. base[c] = 0
      BY <1>1, <2>1 DEF OpportunityInv, RequestsInv
    <3>4. x.embedded = base[c] + 1
      BY <2>1, <3>1, <3>2, <3>3 DEF OpportunityInv, ReceiptsInv
    <3>5. x = [request |-> x.request, embedded |-> x.embedded, revision |-> x.revision]
      BY <1>2, <3>1
    <3> QED BY <3>2, <3>4, <3>5 DEF Receipt, Embedded
  <2>2. "ok" \in Answers /\ "IdempotencyConflict" \in Answers
    BY DEF Answers
  <2> QED BY <1>1, <1>5, <2>1, <2>2, EndStep
<1> QED BY <1>4, <1>5 DEF Lookup

LEMMA OpportunityStep ==
    ASSUME OpportunityInv, NEW c \in Client,
           Ask(c) \/ AskAgain(c) \/ Get(c) \/ Lookup(c) \/ Check(c) \/ Commit(c) \/ Abort(c)
    PROVE  OpportunityInv'
<1>1. /\ base \in [Client -> Nat] /\ seen \in [Client -> Nat] /\ answer \in [Client -> Answers]
      /\ settled[c] /\ IsAdmission(asking[c]) => phase[c] \in {"idle", "lookup"}
  BY DEF OpportunityInv, TypeOK, Answers, SettledInv
<1>2. {"idle", "lookup", "write"} \subseteq Phases
  BY DEF Phases
<1>3. CASE Ask(c) \/ AskAgain(c)
  BY <1>3, AskSends, BeginStep
<1>4. CASE Lookup(c)
  BY <1>4, LookupStep
<1>5. CASE Stores(c)
  BY <1>5, StoresStep
<1>6. CASE Abort(c)
  <2>1. /\ phase[c] # "idle" /\ phase' = [phase EXCEPT ![c] = "idle"]
        /\ UNCHANGED <<tables, sent, asking, base, seen, settled, answer>>
    BY <1>6 DEF Abort
  <2>2. settled[c] /\ IsAdmission(asking[c]) => answer[c] \in {"none", "ok"}
    BY DEF OpportunityInv, SettledInv
  <2> QED BY <1>1, <1>2, <2>1, <2>2, PhaseStep
<1>7. CASE Get(c) /\ Revision(asking[c].target) # 0
                /\ base' = [base EXCEPT ![c] = Revision(asking[c].target)]
                /\ phase' = [phase EXCEPT ![c] = "lookup"]
                /\ UNCHANGED <<tables, sent, asking, seen, settled, answer>>
  <2>1. phase[c] = "get"
    BY <1>7 DEF Get
  <2>2. ~IsAdmission(asking[c])
    BY <2>1 DEF OpportunityInv, RequestsInv
  <2>3. Revision(asking[c].target) \in Nat
    BY <2>1, AskingParts DEF OpportunityInv, TypeOK, Revision
  <2>4. base' \in [Client -> Nat] /\ \A d \in Client : d # c => base'[d] = base[d]
    BY <1>1, <1>7, <2>3
  <2> QED BY <1>1, <1>2, <1>7, <2>1, <2>2, <2>4, PhaseStep
<1>8. CASE Check(c) /\ Revision(asking[c].target) = asking[c].expected
                /\ seen' = [seen EXCEPT ![c] = Revision(asking[c].target)]
                /\ phase' = [phase EXCEPT ![c] = "write"]
                /\ UNCHANGED <<tables, sent, asking, base, settled, answer>>
  <2>1. phase[c] = "check"
    BY <1>8 DEF Check
  <2>2. asking[c].expected \in Nat /\ (IsAdmission(asking[c]) => base[c] = 0)
    BY <2>1, AskingParts DEF OpportunityInv, RequestsInv
  <2>3. /\ seen' \in [Client -> Nat] /\ seen'[c] = asking[c].expected
        /\ \A d \in Client : d # c => seen'[d] = seen[d]
    BY <1>1, <1>8, <2>2
  <2> QED BY <1>1, <1>2, <1>8, <2>1, <2>2, <2>3, PhaseStep
<1>9. CASE /\ phase[c] \in {"get", "check", "write"}
           /\ \E result \in Answers : End(c, result)
  BY <1>1, <1>9, EndStep
<1>10. TypeOK
  BY DEF OpportunityInv
<1> QED BY <1>3, <1>4, <1>5, <1>6, <1>7, <1>8, <1>9, <1>10, StepShapes

LEMMA OpportunityNext ==
    ASSUME OpportunityInv, [Next]_vars
    PROVE  OpportunityInv'
<1>1. CASE UNCHANGED vars
  <2>1. UNCHANGED <<tables, sent, phase, asking, base, seen, settled, answer>>
    BY <1>1 DEF vars, callVars
  <2>2. TypeOK' /\ RequestsInv' /\ SettledInv'
    BY <2>1, TablesUntouched
       DEF OpportunityInv, TypeOK, RequestsInv, SettledInv, IsAdmission, tables
  <2> QED BY <2>1, <2>2, TablesUntouched DEF OpportunityInv
<1>2. CASE Next
  BY <1>2, OpportunityStep DEF Next
<1> QED BY <1>1, <1>2

LEMMA OpportunityInit == Init => OpportunityInv
<1> SUFFICES ASSUME Init PROVE OpportunityInv
  OBVIOUS
<1>1. \A o \in Opportunity : history[o] = <<>> /\ Revision(o) = 0
  BY DEF Init, Revision
<1>2. TypeOK
  BY DEF Init, TypeOK, Priority
<1>3. \A o \in Opportunity, kind \in Kinds : SetAt(o, kind, Revision(o)) = {}
  BY <1>1 DEF SetAt
<1>4. TablesInv
  BY <1>1, <1>3 DEF Init, TablesInv, PriorityStands, Kinds
<1>5. RequestsInv /\ ReceiptsInv /\ SettledInv
  BY DEF Init, RequestsInv, ReceiptsInv, SettledInv
<1> QED BY <1>2, <1>4, <1>5 DEF OpportunityInv

LEMMA OpportunityInvariance == Spec => []OpportunityInv
BY OpportunityInit, OpportunityNext, PTL DEF Spec

-----------------------------------------------------------------------------
(* A priority that stands is the one that AsOf finds, from its revision on. *)
LEMMA StandsAsOf ==
    ASSUME history \in [Opportunity -> Seq(State)], NEW o \in Opportunity, NEW kind, NEW row,
           PriorityStands(o, kind, row), row.revision # 0,
           NEW n \in 0..Revision(o), row.revision <= n
    PROVE  AsOf(o, kind, n) = row.level
<1> DEFINE Sets == SetAt(o, kind, n)
<1>1. /\ row.revision \in SetAt(o, kind, Revision(o)) /\ Revision(o) \in Nat
      /\ \A i \in SetAt(o, kind, Revision(o)) : i <= row.revision
      /\ row.level = history[o][row.revision].change.level
  BY DEF PriorityStands, Revision
<1>2. Sets \subseteq SetAt(o, kind, Revision(o)) /\ Sets \subseteq Nat /\ row.revision \in Sets
  BY <1>1 DEF SetAt
<1> HIDE DEF Sets
<1>3. \A i \in Sets : i <= row.revision
  BY <1>1, <1>2
<1>4. Newest(Sets) \in Sets /\ \A j \in Sets : j <= Newest(Sets)
  BY <1>2, <1>3 DEF Newest
<1>5. Newest(Sets) = row.revision
  <2>1. Newest(Sets) \in Nat /\ row.revision \in Nat /\ Newest(Sets) <= row.revision
        /\ row.revision <= Newest(Sets)
    BY <1>2, <1>3, <1>4
  <2> QED BY <2>1
<1> QED BY <1>1, <1>2, <1>5 DEF AsOf, Sets

LEMMA TablesTellTheLog ==
    ASSUME OpportunityInv
    PROVE  TablesAgree /\ OldPriorityIsExact
<1>1. history \in [Opportunity -> Seq(State)]
  BY DEF OpportunityInv, TypeOK
<1>2. \A o \in Opportunity : Revision(o) \in Nat
  BY <1>1 DEF Revision
<1>3. ASSUME NEW o \in Opportunity, NEW kind, NEW row, PriorityStands(o, kind, row)
      PROVE  /\ row.level = AsOf(o, kind, Revision(o))
             /\ \A n \in 1..Revision(o) : Reported(row, n) => row.level = AsOf(o, kind, n)
  <2>1. CASE row.revision = 0
    <3>1. ~(row.revision \in SetAt(o, kind, Revision(o)))
      BY <1>2, <2>1 DEF SetAt
    <3> QED BY <1>3, <2>1, <3>1 DEF PriorityStands, AsOf, Reported
  <2>2. CASE row.revision # 0
    <3>1. row.revision <= Revision(o) /\ Revision(o) \in 0..Revision(o)
      BY <1>2, <1>3, <2>2 DEF PriorityStands, SetAt
    <3>2. row.level = AsOf(o, kind, Revision(o))
      BY <1>1, <1>3, <2>2, <3>1, StandsAsOf
    <3>3. ASSUME NEW n \in 1..Revision(o), Reported(row, n)
          PROVE  row.level = AsOf(o, kind, n)
      <4>1. n \in 0..Revision(o) /\ row.revision <= n
        BY <1>2, <3>3 DEF Reported
      <4> QED BY <1>1, <1>3, <2>2, <4>1, StandsAsOf
    <3> QED BY <3>2, <3>3
  <2> QED BY <2>1, <2>2
<1>4. \A o \in Opportunity :
        /\ record[o].revision = Revision(o)
        /\ PriorityStands(o, "user", user[o]) /\ PriorityStands(o, "suggest", suggested[o])
  BY DEF OpportunityInv, TablesInv
<1>5. TablesAgree
  BY <1>3, <1>4 DEF TablesAgree
<1>6. OldPriorityIsExact
  BY <1>3, <1>4 DEF OldPriorityIsExact
<1> QED BY <1>5, <1>6

(* The typed tables and the revision log tell one story: a reported priority is the
   last one set, the user's never an agent's, and one reported for an old revision is
   the one that stood then.  No client has to be honest about what it expects. *)
THEOREM TablesTruth == Spec => [](TypeOK /\ TablesAgree /\ OldPriorityIsExact)
<1>1. OpportunityInv => TypeOK /\ TablesAgree /\ OldPriorityIsExact
  BY TablesTellTheLog DEF OpportunityInv
<1> QED BY <1>1, OpportunityInvariance, PTL

(* A repeated admission that was recorded is answered with its result, whatever has
   happened to the opportunity since. *)
THEOREM AdmissionReplay == Spec => []AdmissionIsReplayed
<1>1. OpportunityInv => AdmissionIsReplayed
  BY DEF OpportunityInv, SettledInv, AdmissionIsReplayed
<1> QED BY <1>1, OpportunityInvariance, PTL

-----------------------------------------------------------------------------
(* Clients that expect no more than they have read. *)

LEMMA LogStep ==
    ASSUME OpportunityInv, [Next]_vars
    PROVE  UNCHANGED history \/ \E c \in Client : Stores(c)
<1>1. CASE UNCHANGED vars
  BY <1>1 DEF vars, tables
<1>2. ASSUME NEW c \in Client,
        Ask(c) \/ AskAgain(c) \/ Get(c) \/ Lookup(c) \/ Check(c) \/ Commit(c) \/ Abort(c)
      PROVE UNCHANGED history \/ Stores(c)
  <2>1. CASE Ask(c) \/ AskAgain(c)
    <3>1. PICK r \in Request : Begin(c, r)
      BY <2>1, AskSends
    <3> QED BY <3>1 DEF Begin, tables
  <2>2. CASE Get(c)
    BY <2>2 DEF Get, End, tables
  <2>3. CASE Lookup(c)
    BY <2>3 DEF Lookup, End, tables
  <2>4. CASE Check(c)
    BY <2>4 DEF Check, End, tables
  <2>5. CASE Commit(c)
    BY <2>5, Zenon DEF Commit, Stores, End, tables
  <2>6. CASE Abort(c)
    BY <2>6 DEF Abort, tables
  <2> QED BY <1>2, <2>1, <2>2, <2>3, <2>4, <2>5, <2>6
<1> QED BY <1>1, <1>2 DEF Next

(* The revision that a commit stores. *)
LEMMA StoresRevision ==
    ASSUME OpportunityInv, NEW c \in Client, Stores(c)
    PROVE  \E o \in Opportunity, s \in State :
            /\ o = asking[c].target /\ s.revision = base[c] + 1
            /\ history' = [history EXCEPT ![o] = Append(@, s)]
            /\ Revision(o) = asking[c].expected
<1>1. phase[c] = "write" /\ ~Rejected(c)
  BY DEF Stores
<1>2. /\ asking[c].target \in Opportunity /\ asking[c].change \in Change /\ base[c] \in Nat
      /\ seen[c] = asking[c].expected
  BY <1>1, AskingParts DEF OpportunityInv, RequestsInv
<1> DEFINE s == [revision |-> base[c] + 1, change |-> asking[c].change]
<1>3. s \in State /\ s.revision = base[c] + 1
  BY <1>2 DEF State
<1>4. history' = [history EXCEPT ![asking[c].target] = Append(@, s)]
  BY DEF Stores, Embedded
<1>5. Revision(asking[c].target) = asking[c].expected
  BY <1>1, <1>2 DEF Rejected
<1> HIDE DEF s
<1> QED BY <1>2, <1>3, <1>4, <1>5

LEMMA RevisionsGrow ==
    ASSUME OpportunityInv, [Next]_vars, NEW o \in Opportunity
    PROVE  /\ Revision(o) \in Nat /\ Revision(o)' \in Nat /\ Revision(o) <= Revision(o)'
           /\ Bound(o) <= Bound(o)'
<1>1. Revision(o) \in Nat /\ Revision(o)' \in Nat
  BY OpportunityNext DEF OpportunityInv, TypeOK, Revision
<1>2. Revision(o) <= Revision(o)'
  <2>1. CASE history' = history
    BY <2>1, <1>1 DEF Revision
  <2>2. ASSUME NEW c \in Client, Stores(c) PROVE Revision(o) <= Revision(o)'
    <3>1. history \in [Opportunity -> Seq(State)]
      BY DEF OpportunityInv, TypeOK
    <3>2. PICK p \in Opportunity, s \in State : history' = [history EXCEPT ![p] = Append(@, s)]
      BY <2>2, StoresRevision
    <3>3. /\ Revision(p)' = Revision(p) + 1 /\ Revision(p) \in Nat
          /\ \A q \in Opportunity : q # p => history'[q] = history[q]
      BY <3>1, <3>2, LogGrows
    <3> QED BY <1>1, <3>3 DEF Revision
  <2> QED BY <2>1, <2>2, LogStep
<1> QED BY <1>1, <1>2 DEF Bound

LEMMA ExpectedKept ==
    ASSUME OpportunityInv, ExpectedInv, [Next]_vars, NEW c \in Client,
           \A r \in sent' : r \in sent \/ (~IsAdmission(r) => r.expected <= Bound(r.target)),
           \A d \in Client : d # c => /\ phase'[d] = phase[d] /\ asking'[d] = asking[d]
                                      /\ base'[d] = base[d] /\ seen'[d] = seen[d],
           ExpectsWhatIsRead(c)'
    PROVE  ExpectedInv'
<1>1. ASSUME NEW r \in sent', ~IsAdmission(r) PROVE r.expected <= Bound(r.target)'
  <2>1. r \in Request /\ r.target \in Opportunity /\ r.expected \in Nat
    BY OpportunityNext, RequestParts DEF OpportunityInv, TypeOK
  <2>2. r.expected <= Bound(r.target)
    BY <1>1 DEF ExpectedInv
  <2>3. PICK o \in Opportunity : o = r.target
    BY <2>1
  <2>4. Bound(o) \in Nat /\ Bound(o)' \in Nat /\ Bound(o) <= Bound(o)'
    BY RevisionsGrow DEF Bound
  <2>5. r.expected <= Bound(o)'
    BY <2>1, <2>2, <2>3, <2>4
  <2> QED BY <2>3, <2>5
<1>2. ASSUME NEW d \in Client, d # c PROVE ExpectsWhatIsRead(d)'
  <2> SUFFICES ASSUME phase[d] \in {"lookup", "check", "write"}, ~IsAdmission(asking[d])
               PROVE  /\ asking[d].expected <= base[d]
                      /\ base[d] <= Revision(asking[d].target)'
                      /\ phase[d] = "write" => base[d] <= seen[d]
    BY <1>2 DEF ExpectsWhatIsRead, IsAdmission, Revision
  <2>1. /\ asking[d].expected <= base[d]
        /\ base[d] <= Revision(asking[d].target)
        /\ phase[d] = "write" => base[d] <= seen[d]
    BY DEF ExpectedInv, ExpectsWhatIsRead
  <2>2. asking[d].target \in Opportunity /\ base[d] \in Nat
    BY AskingParts DEF OpportunityInv
  <2>3. PICK o \in Opportunity : o = asking[d].target
    BY <2>2
  <2>4. Revision(o) \in Nat /\ Revision(o)' \in Nat /\ Revision(o) <= Revision(o)'
    BY RevisionsGrow
  <2> QED BY <1>2, <2>1, <2>2, <2>3, <2>4 DEF Revision
<1> QED BY <1>1, <1>2 DEF ExpectedInv, IsAdmission, Bound, Revision

LEMMA ExpectedStep ==
    ASSUME NoneForeseen, OpportunityInv, ExpectedInv, NEW c \in Client,
           Ask(c) \/ AskAgain(c) \/ Get(c) \/ Lookup(c) \/ Check(c) \/ Commit(c) \/ Abort(c)
    PROVE  ExpectedInv'
<1>1. [Next]_vars /\ TypeOK /\ ExpectsWhatIsRead(c)
  BY DEF Next, OpportunityInv, ExpectedInv
<1>2. /\ phase \in [Client -> Phases] /\ base \in [Client -> Nat] /\ seen \in [Client -> Nat]
      /\ asking \in [Client -> Request \cup {NoRequest}]
      /\ \A o \in Opportunity : Revision(o) \in Nat
  BY <1>1 DEF TypeOK, Phases, Revision
<1>3. CASE Ask(c) \/ AskAgain(c)
  <2>1. PICK r \in Request :
            /\ Begin(c, r)
            /\ IsAdmission(r) => r.expected = 0
            /\ r \in sent \/ (~IsAdmission(r) => r.expected \in Expectable(r.target))
    BY <1>3, AskSends
  <2>2. /\ phase' = [phase EXCEPT ![c] = IF IsAdmission(r) THEN "lookup" ELSE "get"]
        /\ asking' = [asking EXCEPT ![c] = r] /\ base' = [base EXCEPT ![c] = 0]
        /\ seen' = [seen EXCEPT ![c] = 0] /\ sent' = sent \cup {r}
    BY <2>1 DEF Begin
  <2>3. r \in sent \/ (~IsAdmission(r) => r.expected <= Bound(r.target))
    <3>1. r.target \in Opportunity /\ Bound(r.target) \in Nat /\ r.expected \in Nat
      BY <1>2, RequestParts DEF Bound
    <3>2. Expectable(r.target) = 1..(Bound(r.target) + 0)
      BY DEF Expectable, Bound, NoneForeseen
    <3> QED BY <2>1, <3>1, <3>2
  <2>4. ExpectsWhatIsRead(c)'
    BY <1>2, <2>2 DEF ExpectsWhatIsRead, IsAdmission
  <2> QED BY <1>1, <1>2, <2>2, <2>3, <2>4, ExpectedKept
<1>4. CASE Lookup(c)
  <2>1. /\ UNCHANGED <<history, sent, asking, base, seen>> /\ phase[c] = "lookup"
        /\ \/ phase' = [phase EXCEPT ![c] = "check"]
           \/ phase' = [phase EXCEPT ![c] = "idle"]
    BY <1>4 DEF Lookup, End, tables
  <2>2. ExpectsWhatIsRead(c)'
    BY <1>1, <1>2, <2>1 DEF ExpectsWhatIsRead, IsAdmission, Revision
  <2> QED BY <1>1, <1>2, <2>1, <2>2, ExpectedKept
<1>5. CASE \/ Abort(c) \/ Stores(c)
           \/ \E result \in Answers : End(c, result)
  <2>1. UNCHANGED <<sent, asking, base, seen>> /\ phase' = [phase EXCEPT ![c] = "idle"]
    BY <1>5 DEF Abort, Stores, End
  <2>2. ExpectsWhatIsRead(c)'
    BY <1>2, <2>1 DEF ExpectsWhatIsRead
  <2> QED BY <1>1, <1>2, <2>1, <2>2, ExpectedKept
<1>6. CASE Get(c) /\ Revision(asking[c].target) # 0
                /\ base' = [base EXCEPT ![c] = Revision(asking[c].target)]
                /\ phase' = [phase EXCEPT ![c] = "lookup"]
                /\ UNCHANGED <<tables, sent, asking, seen, settled, answer>>
  <2>1. phase[c] = "get" /\ UNCHANGED history
    BY <1>6 DEF Get, tables
  <2>2. asking[c].target \in Opportunity /\ asking[c] \in sent
    BY <2>1, AskingParts DEF OpportunityInv, RequestsInv
  <2>3. ~IsAdmission(asking[c]) => asking[c].expected <= Revision(asking[c].target)
    BY <1>6, <2>2 DEF ExpectedInv, Bound
  <2>4. base'[c] = Revision(asking[c].target) /\ phase'[c] = "lookup"
    BY <1>2, <1>6
  <2>5. Revision(asking[c].target) \in Nat
    BY <1>2, <2>2
  <2>6. ExpectsWhatIsRead(c)'
    BY <1>6, <2>1, <2>3, <2>4, <2>5 DEF ExpectsWhatIsRead, IsAdmission, Revision
  <2>7. /\ sent' = sent
        /\ \A d \in Client : d # c => /\ phase'[d] = phase[d] /\ asking'[d] = asking[d]
                                      /\ base'[d] = base[d] /\ seen'[d] = seen[d]
    BY <1>2, <1>6
  <2> QED BY <1>1, <2>6, <2>7, ExpectedKept
<1>7. CASE Check(c) /\ Revision(asking[c].target) = asking[c].expected
                /\ seen' = [seen EXCEPT ![c] = Revision(asking[c].target)]
                /\ phase' = [phase EXCEPT ![c] = "write"]
                /\ UNCHANGED <<tables, sent, asking, base, settled, answer>>
  <2>1. phase[c] = "check" /\ UNCHANGED history
    BY <1>7 DEF Check, tables
  <2>2. phase'[c] = "write" /\ seen'[c] = Revision(asking[c].target)
    BY <1>2, <1>7
  <2>3. ExpectsWhatIsRead(c)'
    BY <1>1, <1>7, <2>1, <2>2 DEF ExpectsWhatIsRead, IsAdmission, Revision
  <2>4. /\ sent' = sent
        /\ \A d \in Client : d # c => /\ phase'[d] = phase[d] /\ asking'[d] = asking[d]
                                      /\ base'[d] = base[d] /\ seen'[d] = seen[d]
    BY <1>2, <1>7
  <2> QED BY <1>1, <2>3, <2>4, ExpectedKept
<1> QED BY <1>1, <1>3, <1>4, <1>5, <1>6, <1>7, StepShapes

LEMMA ReadableStep ==
    ASSUME OpportunityInv, ReadableInv, [Next]_vars
    PROVE  HistoryIsReadable'
<1>1. history \in [Opportunity -> Seq(State)]
  BY DEF OpportunityInv, TypeOK
<1>2. CASE UNCHANGED history
  BY <1>2 DEF ReadableInv, HistoryIsReadable, Revision
<1>3. ASSUME NEW c \in Client, Stores(c) PROVE HistoryIsReadable'
  <2>1. PICK o \in Opportunity, s \in State :
            /\ o = asking[c].target /\ s.revision = base[c] + 1
            /\ history' = [history EXCEPT ![o] = Append(@, s)]
            /\ Revision(o) = asking[c].expected
    BY <1>3, StoresRevision
  <2>2. /\ Revision(o) \in Nat /\ Revision(o)' = Revision(o) + 1
        /\ \A p \in Opportunity : p # o => history'[p] = history[p]
        /\ \A i \in 1..Revision(o) : history'[o][i] = history[o][i]
        /\ history'[o][Revision(o) + 1] = s
    <3>1. history' = [history EXCEPT ![o] = Append(@, s)]
      BY <2>1
    <3> QED BY ONLY <1>1, <3>1, LogGrows
  <2>3. phase[c] = "write"
    BY <1>3 DEF Stores
  <2>4. asking[c] \in sent /\ base[c] \in Nat
    BY <2>3, AskingParts DEF OpportunityInv, RequestsInv
  <2>5. base[c] = Revision(o)
    <3>1. CASE IsAdmission(asking[c])
      BY <2>1, <2>3, <2>4, <3>1 DEF OpportunityInv, RequestsInv
    <3>2. CASE ~IsAdmission(asking[c])
      <4>1. asking[c].expected <= base[c] /\ base[c] <= Revision(o)
        BY <2>1, <2>3, <3>2 DEF ReadableInv, ExpectedInv, ExpectsWhatIsRead
      <4> QED BY <2>1, <2>2, <2>4, <4>1
    <3> QED BY <3>1, <3>2
  <2>6. \A n \in 1..Revision(o) : history'[o][n].revision = n
    BY <2>2 DEF ReadableInv, HistoryIsReadable
  <2>7. \A n \in 1..(Revision(o) + 1) : history'[o][n].revision = n
    <3>1. history'[o][Revision(o) + 1].revision = Revision(o) + 1
      BY <2>1, <2>2, <2>5
    <3>2. \A n \in 1..(Revision(o) + 1) : n \in 1..Revision(o) \/ n = Revision(o) + 1
      BY <2>2
    <3> QED BY <2>6, <3>1, <3>2
  <2>8. \A p \in Opportunity : p # o => Revision(p)' = Revision(p)
    BY <2>2 DEF Revision
  <2> QED BY <2>2, <2>7, <2>8 DEF ReadableInv, HistoryIsReadable
<1> QED BY <1>2, <1>3, LogStep

LEMMA ReadableNext ==
    ASSUME NoneForeseen, OpportunityInv, ReadableInv, [Next]_vars
    PROVE  ReadableInv'
<1>1. CASE UNCHANGED vars
  BY <1>1 DEF vars, tables, callVars, ReadableInv, ExpectedInv, ExpectsWhatIsRead, Bound,
        Revision, IsAdmission, HistoryIsReadable
<1>2. CASE Next
  BY <1>2, ExpectedStep, ReadableStep DEF Next, ReadableInv
<1> QED BY <1>1, <1>2

(* While clients expect no revision that they cannot have read, an opportunity's
   tables agree with its log and every recorded revision reads back under its own
   number, whatever users and agents wrote at once.  (A client that runs ahead of
   what it has read can be recorded under another number than it stored.) *)
THEOREM HistoryTruth == ASSUME NoneForeseen PROVE Spec => []HistoryReadsTrue
<1>1. Init => ReadableInv
  <2> SUFFICES ASSUME Init PROVE ReadableInv
    OBVIOUS
  <2>1. ExpectedInv
    BY DEF Init, ExpectedInv, ExpectsWhatIsRead
  <2>2. \A o \in Opportunity : 1..Revision(o) = {}
    BY DEF Init, Revision
  <2> QED BY <2>1, <2>2 DEF ReadableInv, HistoryIsReadable
<1>2. OpportunityInv /\ ReadableInv /\ [Next]_vars => ReadableInv'
  BY ReadableNext
<1>3. OpportunityInv /\ ReadableInv => HistoryReadsTrue
  BY TablesTellTheLog DEF OpportunityInv, ReadableInv, HistoryReadsTrue
<1> QED BY <1>1, <1>2, <1>3, OpportunityInvariance, PTL DEF Spec

-----------------------------------------------------------------------------
(* The breaker.  While one thread at a time is under way, nobody writes the policy between
   a thread's read and its write. *)
OneAtATime == \A p, q \in S!Active : p = q

PolicyIsCurrent ==
    /\ \A c \in Collector : turn[c] = "record" => current[c] = policy /\ streak < MaxFailures
    /\ \A u \in User : request[u] # None => current[u] = policy

(* The inductive invariant of the breaker. *)
BreakerInv == S!TypeOK /\ S!CountIsExact /\ OneAtATime /\ PolicyIsCurrent

(* The step of the breaker that is alone: what it promises of a failure. *)
Trips == streak' > streak /\ streak' >= policy.threshold => policy'.disabled

(* The steps of a collector. *)
LEMMA CollectorStep ==
    ASSUME S!BreakerAssumption, BreakerInv, OneAtATime', NEW c \in Collector,
           S!Start(c) \/ S!Search(c) \/ S!RecordSuccess(c) \/ S!ReadPolicy(c)
           \/ S!RecordFailure(c) \/ S!Loop(c)
    PROVE  BreakerInv' /\ Trips
<1>1. /\ policy \in S!Policy /\ streak \in 0..MaxFailures /\ MaxFailures \in Nat
      /\ turn \in [Collector -> {"idle", "search", "succeeded", "failed", "record", "loop"}]
      /\ attempt \in [Collector -> 0..Retries] /\ Retries \in Nat
      /\ current \in [Collector \cup User -> S!Policy]
      /\ request \in [User -> S!Request \cup {None}]
      /\ policy.failures = streak
      /\ Collector \cap User = {}
    BY DEF S!BreakerAssumption, BreakerInv, S!TypeOK, S!CountIsExact
<1>2. /\ \A d \in Collector : turn[d] # "idle" /\ turn[c] # "idle" => d = c
      /\ \A u \in User : turn[c] # "idle" => request[u] = None
    BY <1>1 DEF BreakerInv, OneAtATime, S!Active
<1>3. CASE S!Start(c) \/ S!Search(c) \/ S!Loop(c)
    <2>1. /\ UNCHANGED <<policy, current, request, streak>>
          /\ attempt' \in [Collector -> 0..Retries]
          /\ turn' \in [Collector -> {"idle", "search", "succeeded", "failed", "record", "loop"}]
          /\ \A d \in Collector : turn'[d] = "record" => turn[d] = "record"
        BY <1>1, <1>3 DEF S!Start, S!Search, S!Loop, S!Go
    <2> QED BY <1>1, <2>1
            DEF BreakerInv, S!TypeOK, S!CountIsExact, PolicyIsCurrent, Trips
<1>4. CASE S!RecordSuccess(c)
    <2>1. /\ UNCHANGED <<attempt, current, request>>
          /\ turn' \in [Collector -> {"idle", "search", "succeeded", "failed", "record", "loop"}]
          /\ turn[c] # "idle" /\ turn[c] # "record"
          /\ \A d \in Collector : turn'[d] = "record" => turn[d] = "record"
        BY <1>1, <1>4 DEF S!RecordSuccess, S!Go
    <2>2. /\ policy' \in S!Policy /\ streak' \in 0..MaxFailures /\ policy'.failures = streak'
          /\ streak' <= streak
        BY <1>1, <1>4 DEF S!RecordSuccess, S!Policy
    <2>3. PolicyIsCurrent'
        BY <1>2, <2>1 DEF PolicyIsCurrent
    <2> QED BY <1>1, <2>1, <2>2, <2>3 DEF BreakerInv, S!TypeOK, S!CountIsExact, Trips
<1>5. CASE S!ReadPolicy(c)
    <2>1. /\ UNCHANGED <<policy, attempt, request, streak>>
          /\ current' \in [Collector \cup User -> S!Policy]
          /\ turn' \in [Collector -> {"idle", "search", "succeeded", "failed", "record", "loop"}]
          /\ current'[c] = policy /\ streak < MaxFailures
          /\ \A p \in Collector \cup User : p # c => current'[p] = current[p]
          /\ \A d \in Collector : d # c => turn'[d] = turn[d]
        BY <1>1, <1>5 DEF S!ReadPolicy, S!Go
    <2>2. PolicyIsCurrent'
        BY <1>1, <2>1 DEF PolicyIsCurrent, BreakerInv
    <2> QED BY <1>1, <2>1, <2>2 DEF BreakerInv, S!TypeOK, S!CountIsExact, Trips
<1>6. CASE S!RecordFailure(c)
    <2>1. /\ UNCHANGED <<attempt, current, request>>
          /\ turn' \in [Collector -> {"idle", "search", "succeeded", "failed", "record", "loop"}]
          /\ turn[c] = "record" /\ turn'[c] = "loop"
          /\ \A d \in Collector : d # c => turn'[d] = turn[d]
        BY <1>1, <1>6 DEF S!RecordFailure, S!Go
    <2>2. current[c] = policy /\ streak < MaxFailures
        BY <2>1 DEF BreakerInv, PolicyIsCurrent
    <2>4. /\ streak' = streak + 1
          /\ policy' = [policy EXCEPT !.failures = streak + 1,
                           !.disabled = streak + 1 >= policy.threshold]
        BY <1>1, <1>6, <2>2 DEF S!RecordFailure, S!Trips
    <2>5. /\ policy' \in S!Policy /\ streak' \in 0..MaxFailures
          /\ policy'.failures = streak'
        <3> DEFINE b == streak + 1 >= policy.threshold
        <3>1. b \in BOOLEAN
            OBVIOUS
        <3>2. policy' = [policy EXCEPT !.failures = streak + 1, !.disabled = b]
            BY <2>4
        <3> HIDE DEF b
        <3>3. streak' \in 0..MaxFailures /\ streak' \in Nat /\ streak' = streak + 1
            BY <1>1, <2>2, <2>4
        <3>4. policy' = [policy EXCEPT !.failures = streak', !.disabled = b]
            BY <3>2, <3>3
        <3> QED BY <1>1, <3>1, <3>3, <3>4 DEF S!Policy
    <2>6. streak' >= policy.threshold => policy'.disabled
        BY <1>1, <2>4 DEF S!Policy
    <2>7. PolicyIsCurrent'
        BY <1>2, <2>1 DEF PolicyIsCurrent
    <2> QED BY <1>1, <2>1, <2>5, <2>6, <2>7 DEF BreakerInv, S!TypeOK, S!CountIsExact, Trips
<1> QED BY <1>3, <1>4, <1>5, <1>6

(* The steps of a user's request, and of threads that end. *)
LEMMA UserStep ==
    ASSUME S!BreakerAssumption, BreakerInv, OneAtATime', NEW u \in User,
           S!Ask(u) \/ S!Update(u)
    PROVE  BreakerInv' /\ Trips
<1>1. /\ policy \in S!Policy /\ streak \in 0..MaxFailures /\ MaxFailures \in Nat
      /\ current \in [Collector \cup User -> S!Policy]
      /\ request \in [User -> S!Request \cup {None}]
      /\ policy.failures = streak
      /\ Collector \cap User = {} /\ None \notin S!Request
    BY DEF S!BreakerAssumption, BreakerInv, S!TypeOK, S!CountIsExact
<1>2. CASE S!Ask(u)
    <2>1. /\ UNCHANGED <<policy, turn, attempt, streak>>
          /\ request' \in [User -> S!Request \cup {None}]
          /\ current' \in [Collector \cup User -> S!Policy]
          /\ current'[u] = policy
          /\ \A p \in Collector \cup User : p # u => current'[p] = current[p]
          /\ \A v \in User : v # u => request'[v] = request[v]
        BY <1>1, <1>2 DEF S!Ask
    <2>2. PolicyIsCurrent'
        BY <1>1, <2>1 DEF PolicyIsCurrent, BreakerInv
    <2> QED BY <1>1, <2>1, <2>2 DEF BreakerInv, S!TypeOK, S!CountIsExact, Trips
<1>3. CASE S!Update(u)
    <2>1. /\ UNCHANGED <<turn, attempt, current>>
          /\ request[u] # None /\ request[u] \in S!Request /\ current[u] = policy
          /\ request' = [request EXCEPT ![u] = None]
          /\ policy' = S!Updated(policy, request[u])
          /\ streak' = IF S!Clears(request[u]) THEN 0 ELSE streak
        BY <1>1, <1>3 DEF S!Update, BreakerInv, PolicyIsCurrent
    <2>2. policy'.failures = streak' /\ streak' \in 0..MaxFailures /\ streak' <= streak
        BY <1>1, <2>1 DEF S!Updated
    <2>3. policy' \in S!Policy
        BY <1>1, <2>1 DEF S!Updated, S!Policy, S!Request
    <2>4. /\ \A d \in Collector : turn[d] = "idle"
          /\ \A v \in User : v # u => request[v] = None
        BY <1>1, <2>1 DEF BreakerInv, OneAtATime, S!Active
    <2>5. PolicyIsCurrent' /\ request' \in [User -> S!Request \cup {None}]
        BY <1>1, <2>1, <2>4 DEF PolicyIsCurrent
    <2> QED BY <1>1, <2>1, <2>2, <2>3, <2>5
            DEF BreakerInv, S!TypeOK, S!CountIsExact, Trips
<1> QED BY <1>2, <1>3

LEMMA AbortStep ==
    ASSUME S!BreakerAssumption, BreakerInv, OneAtATime', S!Abort
    PROVE  BreakerInv' /\ Trips
<1>1. /\ UNCHANGED <<policy, attempt, current, streak>>
      /\ request' \in [User -> S!Request \cup {None}]
      /\ turn' \in [Collector -> {"idle", "search", "succeeded", "failed", "record", "loop"}]
      /\ \A c \in Collector : turn'[c] = "record" => turn[c] = "record"
      /\ \A u \in User : request'[u] # None => request[u] # None
    BY DEF S!Abort, S!Go, BreakerInv, S!TypeOK
<1>2. streak \in Int
    BY DEF S!BreakerAssumption, BreakerInv, S!TypeOK
<1> QED BY <1>1, <1>2 DEF BreakerInv, S!TypeOK, S!CountIsExact, PolicyIsCurrent, Trips

(* Every step of RadarSpec keeps the invariant and trips at the threshold. *)
LEMMA BreakerStep ==
    ASSUME S!BreakerAssumption, BreakerInv,
           [RadarNext]_<<area, vars, breakerVars, stagingVars, backupVars>>
    PROVE  BreakerInv' /\ Trips
<1>1. CASE UNCHANGED breakerVars
    <2>1. UNCHANGED <<policy, turn, attempt, current, request, streak>>
        BY <1>1 DEF breakerVars
    <2>2. streak \in Int
        BY DEF S!BreakerAssumption, BreakerInv, S!TypeOK
    <2>3. BreakerInv'
        BY <2>1 DEF BreakerInv, S!TypeOK, S!CountIsExact, OneAtATime, S!Active, PolicyIsCurrent
    <2> QED BY <2>1, <2>2, <2>3 DEF Trips
<1>2. CASE S!Next /\ S!Alone
    <2>1. OneAtATime'
        BY <1>2 DEF S!Alone, OneAtATime
    <2> QED BY <1>2, <2>1, CollectorStep, UserStep, AbortStep DEF S!Next
<1> QED BY <1>1, <1>2 DEF RadarNext

(* The row that ensure_source_policy inserts. *)
LEMMA BreakerStart ==
    ASSUME S!BreakerAssumption, RadarInit
    PROVE  BreakerInv
<1>1. S!Init
    BY DEF RadarInit
<1>2. policy \in S!Policy /\ policy.failures = 0
    <2>1. PICK t \in Threshold : policy = [failures |-> 0, threshold |-> t, disabled |-> FALSE]
        BY <1>1 DEF S!Init
    <2> QED BY <2>1 DEF S!Policy
<1>3. S!TypeOK /\ S!CountIsExact
    BY <1>1, <1>2 DEF S!Init, S!BreakerAssumption, S!TypeOK, S!CountIsExact
<1>4. S!Active = {}
    BY <1>1 DEF S!Init, S!Active
<1>5. OneAtATime /\ PolicyIsCurrent
    BY <1>1, <1>4 DEF S!Init, OneAtATime, PolicyIsCurrent
<1> QED BY <1>3, <1>5 DEF BreakerInv

(* With one collect or policy request at a time the count of failures is exact, and the
   failure that brings it to the threshold disables the source, for any number of threads,
   retries and thresholds. *)
THEOREM BreakerSafety ==
    ASSUME S!BreakerAssumption
    PROVE  RadarSpec => BreakerIsExact
<1>1. RadarInit => BreakerInv
    BY BreakerStart
<1>2. BreakerInv /\ [RadarNext]_<<area, vars, breakerVars, stagingVars, backupVars>>
      => BreakerInv'
    BY BreakerStep
<1>3. BreakerInv => S!TypeOK /\ S!CountIsExact
    BY DEF BreakerInv
<1>4. BreakerInv /\ [RadarNext]_<<area, vars, breakerVars, stagingVars, backupVars>>
      => [streak' > streak /\ streak' >= policy.threshold => policy'.disabled]_S!vars
    BY BreakerStep DEF Trips
<1> QED BY <1>1, <1>2, <1>3, <1>4, PTL
        DEF RadarSpec, BreakerIsExact, S!TripsAtThreshold

-----------------------------------------------------------------------------
(* JobStaging.  A collect computes its rows from what it has read under the write lock, so
   that nobody else adds or admits a record until it commits. *)
Table == [J!Staging -> J!Row \cup {None}]

CollectorTypes ==
    \A c \in Collector :
        /\ step[c] \in {"idle", "found", "staging", "failed"}
        /\ step[c] # "idle" => held[c] \in J!Collecting
        /\ step[c] = "idle" => held[c] = None

AdmitterTypes ==
    \A u \in Admitter :
        /\ step[u] \in {"idle", "read", "admit"}
        /\ step[u] # "idle" =>
            /\ held[u] \in J!Admitting
            /\ rows[held[u].id] # None
            /\ rows[held[u].id].status \in {"staged", "admitted"}

StagingTypes == J!StagingTypeOK /\ CollectorTypes /\ AdmitterTypes

(* A run under way is nobody else's and has no row yet. *)
RunsApart ==
    \A c \in Collector : held[c] # None =>
        /\ runs[held[c].run] = None
        /\ \A d \in Collector : held[d] # None /\ held[d].run = held[c].run => c = d

(* The rows a collect has built: those it found, and its own. *)
Extends(table, run) ==
    \A id \in J!Staging :
        /\ rows[id] # None => table[id] = rows[id]
        /\ rows[id] = None /\ table[id] # None =>
            table[id].run = run /\ table[id].status # "admitted"

OnePer(table) ==
    \A a, b \in J!Staging :
        table[a] # None /\ table[b] # None /\ a # b /\ J!Same(a[1], b[1]) =>
            "duplicate" \in {table[a].status, table[b].status}

HaveFiles(table) == \A id \in J!Staging : table[id] # None => id[1] \in files

Builds(h) ==
    /\ Extends(h.rows, h.run)
    /\ OnePer(h.rows)
    /\ HaveFiles(h.rows)
    /\ \A id \in h.answer : h.rows[id] # None

WriterBuilds ==
    \A c \in Collector :
        /\ step[c] = "staging" <=> writer = c
        /\ step[c] = "found" => held[c].answer = {}
        /\ step[c] = "staging" => Builds(held[c])

(* The inductive invariant of staging and admission. *)
StagingInv ==
    /\ StagingTypes
    /\ RunsApart
    /\ WriterBuilds
    /\ OnePer(rows)
    /\ J!BatchIsWhole
    /\ HaveFiles(rows)
    /\ J!AdmissionIsWhole

-----------------------------------------------------------------------------
(* A row that was found a duplicate of none has none beside it. *)
LEMMA NewRow ==
    ASSUME J!StagingAssumption, NEW table \in Table, NEW run, OnePer(table),
           Extends(table, run), NEW id \in J!Staging, table[id] = None,
           NEW d \in J!DuplicateOf(table, id[1]), NEW at \in 1..MaxTime, run \in Run
    PROVE  LET row == [status |-> IF d = None THEN "staged" ELSE "duplicate",
                       duplicate_of |-> d, run |-> run, at |-> at]
               new == [table EXCEPT ![id] = row]
           IN  /\ new \in Table /\ new[id] # None
               /\ \A x \in J!Staging : x # id => new[x] = table[x]
               /\ OnePer(new) /\ Extends(new, run)
<1> DEFINE row == [status |-> IF d = None THEN "staged" ELSE "duplicate",
                   duplicate_of |-> d, run |-> run, at |-> at]
           new == [table EXCEPT ![id] = row]
           same == {x \in J!Staging : table[x] # None /\ J!Same(x[1], id[1])}
<1>1. d \in J!Staging \cup {None} /\ (d = None => same = {})
    BY DEF J!DuplicateOf, J!StagingAssumption
<1>2. row \in J!Row /\ row # None /\ row.run = run /\ row.status # "admitted"
      /\ (d # None => row.status = "duplicate")
    <2>1. row \in J!Row
        BY <1>1 DEF J!Row
    <2> QED BY <2>1 DEF J!StagingAssumption
<1>3. d = None => \A x \in J!Staging :
        table[x] # None => ~J!Same(x[1], id[1]) /\ ~J!Same(id[1], x[1])
    BY <1>1 DEF J!Same
<1> HIDE DEF row, same
<1>4. /\ new \in Table /\ new[id] = row
      /\ \A x \in J!Staging : x # id => new[x] = table[x]
    BY <1>2 DEF Table
<1> HIDE DEF new
<1>5. OnePer(new)
    BY <1>2, <1>3, <1>4 DEF OnePer
<1>6. rows[id] = None
    BY DEF Extends
<1>7. Extends(new, run)
    BY <1>2, <1>4, <1>6 DEF Extends
<1> QED BY <1>2, <1>4, <1>5, <1>7 DEF row, new

(* A thread that goes on and holds something else, while the tables stay. *)
LEMMA Moves ==
    ASSUME StagingInv, UNCHANGED <<rows, runs, jobs, opportunities, collected, admitted, seeded>>,
           files \subseteq files', J!StagingTypeOK', CollectorTypes', AdmitterTypes',
           RunsApart', WriterBuilds'
    PROVE  StagingInv'
<1>1. OnePer(rows)' /\ HaveFiles(rows)'
    BY DEF StagingInv, OnePer, HaveFiles
<1>2. J!BatchIsWhole' /\ J!AdmissionIsWhole'
    BY DEF StagingInv, J!BatchIsWhole, J!AdmissionIsWhole, J!Stored
<1> QED BY <1>1, <1>2 DEF StagingInv, StagingTypes

LEMMA SearchAnswersStep ==
    ASSUME J!StagingAssumption, StagingInv, NEW c \in Collector, J!SearchAnswers(c)
    PROVE  StagingInv'
<1> DEFINE Rest == UNCHANGED <<rows, runs, files, jobs, opportunities, writer, collected,
                               admitted, seeded>>
<1>1. PICK h \in J!Collecting :
        /\ held' = [held EXCEPT ![c] = h]
        /\ h.run \in J!Unused /\ h.answer = {}
    <2>1. PICK batch \in J!Batch, inputs \in Inputs, run \in J!Unused, at \in 1..MaxTime :
            held' = [held EXCEPT ![c] =
                       [run |-> run, batch |-> batch, inputs |-> inputs, at |-> at,
                        next |-> 1, rows |-> rows, answer |-> {}]]
        BY DEF J!SearchAnswers
    <2>2. rows \in [J!Staging -> J!Row \cup {None}] /\ run \in Run /\ 1 \in 1..MaxBatch + 1
        BY DEF StagingInv, StagingTypes, J!StagingTypeOK, J!Unused, J!StagingAssumption
    <2>3. [run |-> run, batch |-> batch, inputs |-> inputs, at |-> at,
           next |-> 1, rows |-> rows, answer |-> {}] \in J!Collecting
        BY <2>2 DEF J!Collecting
    <2> QED BY <2>1, <2>3
<1>2. Rest /\ step[c] = "idle" /\ step' = [step EXCEPT ![c] = "found"]
    BY DEF J!SearchAnswers, J!Go
<1>3. h # None
    BY DEF J!StagingAssumption
<1>4. /\ step' \in [Collector \cup Admitter ->
                      {"idle", "found", "staging", "failed", "read", "admit"}]
      /\ held' \in [Collector \cup Admitter -> J!Collecting \cup J!Admitting \cup {None}]
      /\ step'[c] = "found" /\ held'[c] = h
      /\ \A t \in Collector \cup Admitter : t # c => step'[t] = step[t] /\ held'[t] = held[t]
      /\ c \notin Admitter
    BY <1>1, <1>2 DEF StagingInv, StagingTypes, J!StagingTypeOK, J!StagingAssumption
<1>5. J!StagingTypeOK'
    BY <1>2, <1>4 DEF StagingInv, StagingTypes, J!StagingTypeOK
<1>6. CollectorTypes' /\ AdmitterTypes'
    BY <1>2, <1>4 DEF StagingInv, StagingTypes, CollectorTypes, AdmitterTypes
<1>7. RunsApart'
    BY <1>1, <1>2, <1>3, <1>4 DEF StagingInv, RunsApart, J!Unused
<1>8. WriterBuilds'
    BY <1>1, <1>2, <1>4 DEF StagingInv, WriterBuilds, Builds, Extends, HaveFiles
<1> QED BY <1>2, <1>5, <1>6, <1>7, <1>8, Moves

(* Nobody else is writing: the collect starts from the rows as they are. *)
LEMMA BeginStagingStep ==
    ASSUME J!StagingAssumption, StagingInv, NEW c \in Collector, J!BeginStaging(c)
    PROVE  StagingInv'
<1>1. /\ UNCHANGED <<rows, runs, files, jobs, opportunities, collected, admitted, seeded>>
      /\ step[c] = "found" /\ writer = None /\ writer' = c
      /\ held' = [held EXCEPT ![c].rows = rows]
      /\ step' = [step EXCEPT ![c] = "staging"]
    BY DEF J!BeginStaging, J!Go
<1>2. held[c] \in J!Collecting /\ held[c].answer = {}
    BY <1>1 DEF StagingInv, StagingTypes, CollectorTypes, WriterBuilds
<1>3. PICK h \in J!Collecting :
        /\ held' = [held EXCEPT ![c] = h]
        /\ h.run = held[c].run /\ h.rows = rows /\ h.answer = {}
    <2>1. rows \in [J!Staging -> J!Row \cup {None}]
        BY DEF StagingInv, StagingTypes, J!StagingTypeOK
    <2>2. [held[c] EXCEPT !.rows = rows] \in J!Collecting
        BY <1>2, <2>1 DEF J!Collecting
    <2> QED BY <1>1, <1>2, <2>2 DEF J!Collecting
<1>4. /\ step' \in [Collector \cup Admitter ->
                      {"idle", "found", "staging", "failed", "read", "admit"}]
      /\ held' \in [Collector \cup Admitter -> J!Collecting \cup J!Admitting \cup {None}]
      /\ step'[c] = "staging" /\ held'[c] = h
      /\ \A t \in Collector \cup Admitter : t # c => step'[t] = step[t] /\ held'[t] = held[t]
      /\ c \notin Admitter
    BY <1>1, <1>3 DEF StagingInv, StagingTypes, J!StagingTypeOK, J!StagingAssumption
<1>5. J!StagingTypeOK'
    BY <1>1, <1>4 DEF StagingInv, StagingTypes, J!StagingTypeOK
<1>6. CollectorTypes' /\ AdmitterTypes'
    BY <1>1, <1>4 DEF StagingInv, StagingTypes, CollectorTypes, AdmitterTypes
<1>7. held[c] # None /\ h # None
    BY <1>2, <1>3 DEF J!StagingAssumption
<1>8. RunsApart'
    BY <1>1, <1>3, <1>4, <1>7 DEF StagingInv, RunsApart
<1>9. Builds(held[c])'
    BY <1>1, <1>3, <1>4 DEF StagingInv, Builds, Extends, OnePer, HaveFiles
<1>10. WriterBuilds'
    BY <1>1, <1>4, <1>9 DEF StagingInv, WriterBuilds, J!StagingAssumption
<1> QED BY <1>1, <1>5, <1>6, <1>8, <1>10, Moves

(* What the loop of a collect makes of the next posting. *)
Takes(c, h) ==
    /\ held' = [held EXCEPT ![c] = h]
    /\ h \in J!Collecting /\ h.run = held[c].run
    /\ Extends(h.rows, h.run) /\ OnePer(h.rows)
    /\ \A id \in J!Staging : h.rows[id] # None => id[1] \in files'
    /\ \A id \in h.answer : h.rows[id] # None

LEMMA TakesNext ==
    ASSUME J!StagingAssumption, StagingInv, NEW c \in Collector, J!StageNext(c)
    PROVE  files \subseteq files' /\ files' \subseteq Posting /\ \E h : Takes(c, h)
<1> DEFINE h == held[c]
           id == <<h.batch[h.next], h.inputs>>
<1>1. h \in J!Collecting /\ Builds(h) /\ held = [held EXCEPT ![c] = h]
    BY DEF J!StageNext, StagingInv, StagingTypes, CollectorTypes, WriterBuilds, J!StagingTypeOK
<1>2. /\ h.run \in Run /\ h.batch \in J!Batch /\ h.inputs \in Inputs /\ h.at \in 1..MaxTime
      /\ h.next \in 1..MaxBatch + 1 /\ h.rows \in Table /\ h.answer \in SUBSET J!Staging
    BY <1>1 DEF J!Collecting, Table
<1>3. id \in J!Staging /\ id[1] = h.batch[h.next] /\ h.next + 1 \in 1..MaxBatch + 1
    <2>1. PICK n \in 0..MaxBatch : h.batch \in [1..n -> Posting]
        BY <1>2 DEF J!Batch
    <2>2. h.next <= Len(h.batch)
        BY DEF J!StageNext
    <2>3. Len(h.batch) = n
        BY <2>1
    <2>4. h.next \in 1..n
        BY <1>2, <2>1, <2>2, <2>3
    <2>5. h.batch[h.next] \in Posting
        BY <2>1, <2>4
    <2>6. h.next + 1 \in 1..MaxBatch + 1
        BY <2>1, <2>4 DEF J!StagingAssumption
    <2> QED BY <1>2, <2>5, <2>6 DEF J!Staging
<1>4. files \subseteq Posting /\ id[1] \in Posting
    BY <1>3 DEF StagingInv, StagingTypes, J!StagingTypeOK, J!Staging
<1>5. CASE h.rows[id] # None
    <2> DEFINE g == [h EXCEPT !.answer = @ \cup {id}, !.next = @ + 1]
    <2>1. held' = [held EXCEPT ![c] = g] /\ files' = files
        BY <1>5 DEF J!StageNext
    <2>2. g \in J!Collecting /\ g.run = h.run /\ g.rows = h.rows /\ g.answer = h.answer \cup {id}
        BY <1>1, <1>2, <1>3 DEF J!Collecting
    <2> HIDE DEF g
    <2>3. Takes(c, g)
        BY <1>1, <1>5, <2>1, <2>2 DEF Takes, Builds, HaveFiles
    <2> QED BY <1>4, <2>1, <2>3
<1>6. CASE h.rows[id] = None
    <2>1. PICK d \in J!DuplicateOf(h.rows, id[1]) :
            held' = [held EXCEPT
                ![c].rows[id] = [status |-> IF d = None THEN "staged" ELSE "duplicate",
                                 duplicate_of |-> d, run |-> h.run, at |-> h.at],
                ![c].answer = @ \cup {id},
                ![c].next = @ + 1]
        BY <1>3, <1>6 DEF J!StageNext
    <2>2. files' = files \cup {id[1]}
        BY <1>3, <1>6 DEF J!StageNext
    <2> DEFINE row == [status |-> IF d = None THEN "staged" ELSE "duplicate",
                       duplicate_of |-> d, run |-> h.run, at |-> h.at]
               new == [h.rows EXCEPT ![id] = row]
               g == [h EXCEPT !.rows = new, !.answer = @ \cup {id}, !.next = @ + 1]
    <2>3. /\ new \in Table /\ new[id] # None
          /\ \A x \in J!Staging : x # id => new[x] = h.rows[x]
          /\ OnePer(new) /\ Extends(new, h.run)
        <3>1. OnePer(h.rows) /\ Extends(h.rows, h.run)
            BY <1>1 DEF Builds
        <3> HIDE DEF h, id
        <3> QED BY <1>2, <1>3, <1>6, <3>1, NewRow
    <2>4. held' = [held EXCEPT ![c] = g]
        BY <1>1, <1>2, <2>1 DEF J!Collecting, StagingInv, StagingTypes, J!StagingTypeOK
    <2> HIDE DEF new, row
    <2>5. /\ g \in J!Collecting /\ g.run = h.run /\ g.rows = new
          /\ g.answer = h.answer \cup {id}
        BY <1>1, <1>2, <1>3, <2>3 DEF J!Collecting, Table
    <2> HIDE DEF g, h, id
    <2>6. \A x \in J!Staging : g.rows[x] # None => x[1] \in files'
        BY <1>1, <2>2, <2>3, <2>5 DEF Builds, HaveFiles
    <2>7. \A x \in g.answer : g.rows[x] # None
        BY <1>1, <1>2, <2>3, <2>5 DEF Builds
    <2>8. g.run = held[c].run
        BY <2>5 DEF h
    <2>9. Takes(c, g)
        BY <2>3, <2>4, <2>5, <2>6, <2>7, <2>8 DEF Takes
    <2> QED BY <1>4, <2>2, <2>9
<1> QED BY <1>5, <1>6

LEMMA StageNextStep ==
    ASSUME J!StagingAssumption, StagingInv, NEW c \in Collector, J!StageNext(c)
    PROVE  StagingInv'
<1>1. /\ UNCHANGED <<rows, runs, jobs, opportunities, writer, step, collected, admitted, seeded>>
      /\ step[c] = "staging"
    BY DEF J!StageNext
<1>2. files \subseteq files' /\ files' \subseteq Posting
    BY TakesNext
<1>3. PICK h : Takes(c, h)
    BY TakesNext
<1>4. held[c] # None /\ h # None /\ held[c] \in J!Collecting
    BY <1>1, <1>3 DEF J!StagingAssumption, Takes, StagingInv, StagingTypes, CollectorTypes
<1>5. /\ held' \in [Collector \cup Admitter -> J!Collecting \cup J!Admitting \cup {None}]
      /\ held'[c] = h
      /\ \A t \in Collector \cup Admitter : t # c => held'[t] = held[t]
      /\ c \notin Admitter
    BY <1>3 DEF Takes, StagingInv, StagingTypes, J!StagingTypeOK, J!StagingAssumption
<1>6. J!StagingTypeOK'
    BY <1>1, <1>2, <1>5 DEF StagingInv, StagingTypes, J!StagingTypeOK
<1>7. CollectorTypes' /\ AdmitterTypes'
    BY <1>1, <1>3, <1>5 DEF Takes, StagingInv, StagingTypes, CollectorTypes, AdmitterTypes
<1>8. RunsApart'
    BY <1>1, <1>3, <1>4, <1>5 DEF Takes, StagingInv, RunsApart
<1>9. Builds(held[c])'
    BY <1>1, <1>3, <1>5 DEF Takes, Builds, Extends, OnePer, HaveFiles
<1>10. WriterBuilds'
    <2>1. ASSUME NEW d \in Collector, d # c PROVE step[d] # "staging"
        BY <1>1, <2>1 DEF StagingInv, WriterBuilds
    <2> QED BY <1>1, <1>5, <1>9, <2>1 DEF StagingInv, WriterBuilds
<1> QED BY <1>1, <1>2, <1>6, <1>7, <1>8, <1>10, Moves

(* The thread that held the lock has its rows stored, and what it built was built on the
   rows as they still are. *)
LEMMA CommitStagingStep ==
    ASSUME J!StagingAssumption, StagingInv, NEW c \in Collector, J!CommitStaging(c)
    PROVE  StagingInv'
<1> DEFINE h == held[c]
<1>1. /\ UNCHANGED <<files, jobs, opportunities, admitted, seeded>>
      /\ step[c] = "staging" /\ writer' = None
      /\ rows' = h.rows
      /\ runs' = [runs EXCEPT ![h.run] = "completed"]
      /\ collected' = collected \cup h.answer
      /\ step' = [step EXCEPT ![c] = "idle"]
      /\ held' = [held EXCEPT ![c] = None]
    BY DEF J!CommitStaging, J!Rest, J!Go
<1>2. h \in J!Collecting /\ Builds(h) /\ h # None /\ writer = c
    BY <1>1 DEF StagingInv, StagingTypes, CollectorTypes, WriterBuilds, J!StagingAssumption
<1>3. h.run \in Run /\ h.rows \in Table /\ h.answer \in SUBSET J!Staging
    BY <1>2 DEF J!Collecting, Table
<1> HIDE DEF h
<1>4. /\ step' \in [Collector \cup Admitter ->
                      {"idle", "found", "staging", "failed", "read", "admit"}]
      /\ held' \in [Collector \cup Admitter -> J!Collecting \cup J!Admitting \cup {None}]
      /\ step'[c] = "idle" /\ held'[c] = None
      /\ \A t \in Collector \cup Admitter : t # c => step'[t] = step[t] /\ held'[t] = held[t]
      /\ c \notin Admitter
    BY <1>1 DEF StagingInv, StagingTypes, J!StagingTypeOK, J!StagingAssumption
<1>5. runs' \in [Run -> {None, "completed", "failed"}] /\ runs'[h.run] = "completed"
      /\ \A r \in Run : r # h.run => runs'[r] = runs[r]
    BY <1>1, <1>3 DEF StagingInv, StagingTypes, J!StagingTypeOK
<1>6. \A id \in J!Staging :
        /\ rows[id] # None => rows'[id] = rows[id]
        /\ rows[id] = None /\ rows'[id] # None =>
            rows'[id].run = h.run /\ rows'[id].status # "admitted"
    BY <1>1, <1>2 DEF Builds, Extends
<1>7. J!StagingTypeOK'
    BY <1>1, <1>3, <1>4, <1>5 DEF StagingInv, StagingTypes, J!StagingTypeOK, Table
<1>8. CollectorTypes' /\ AdmitterTypes'
    <2>1. CollectorTypes'
        BY <1>4 DEF StagingInv, StagingTypes, CollectorTypes
    <2>2. ASSUME NEW u \in Admitter, step'[u] # "idle" PROVE held[u].id \in J!Staging
        BY <1>4, <2>2 DEF StagingInv, StagingTypes, AdmitterTypes, J!Admitting
    <2> QED BY <1>4, <1>6, <2>1, <2>2 DEF StagingInv, StagingTypes, AdmitterTypes
<1>9. RunsApart'
    <2>1. ASSUME NEW d \in Collector, held'[d] # None
          PROVE  d # c /\ held'[d] = held[d] /\ held[d].run # h.run
        BY <1>2, <1>4, <2>1 DEF StagingInv, RunsApart, h
    <2>2. ASSUME NEW d \in Collector, held'[d] # None PROVE held[d].run \in Run
        BY <1>4, <2>1, <2>2 DEF StagingInv, StagingTypes, CollectorTypes, J!Collecting
    <2> QED BY <1>5, <2>1, <2>2 DEF StagingInv, RunsApart
<1>10. WriterBuilds'
    BY <1>1, <1>2, <1>4 DEF StagingInv, WriterBuilds, J!StagingAssumption
<1>11. OnePer(rows)' /\ HaveFiles(rows)'
    BY <1>1, <1>2 DEF Builds, OnePer, HaveFiles
<1>12. J!BatchIsWhole'
    <2>1. \A id \in collected' : id \in J!Staging /\ rows'[id] # None
        BY <1>1, <1>2, <1>3, <1>6 DEF StagingInv, J!BatchIsWhole, J!Stored, Builds
    <2>2. ASSUME NEW id \in J!Staging, rows'[id] # None
          PROVE  runs'[rows'[id].run] = "completed"
        <3>1. CASE rows[id] # None
            <4>1. rows[id].run \in Run
                BY <3>1 DEF StagingInv, StagingTypes, J!StagingTypeOK, J!Row
            <4> QED BY <1>5, <1>6, <3>1, <4>1 DEF StagingInv, J!BatchIsWhole, J!Stored
        <3>2. CASE rows[id] = None
            BY <1>5, <1>6, <2>2, <3>2
        <3> QED BY <3>1, <3>2
    <2> QED BY <2>1, <2>2 DEF J!BatchIsWhole, J!Stored
<1>13. J!AdmissionIsWhole'
    <2>1. {id \in J!Stored : rows[id].status = "admitted"}
            = {id \in J!Staging : rows[id] # None /\ rows[id].status = "admitted"}
        BY DEF J!Stored
    <2>2. {id \in J!Staging : rows[id] # None /\ rows[id].status = "admitted"}
            = {id \in J!Staging : rows'[id] # None /\ rows'[id].status = "admitted"}
        BY <1>6
    <2>3. {id \in J!Staging : rows'[id] # None /\ rows'[id].status = "admitted"}
            = {id \in J!Stored' : rows'[id].status = "admitted"}
        BY DEF J!Stored
    <2> QED BY <1>1, <2>1, <2>2, <2>3 DEF StagingInv, J!AdmissionIsWhole
<1> QED BY <1>7, <1>8, <1>9, <1>10, <1>11, <1>12, <1>13 DEF StagingInv, StagingTypes

(* An error gives the lock back; what was computed is not stored. *)
LEMMA StagingFailsStep ==
    ASSUME J!StagingAssumption, StagingInv, NEW c \in Collector, J!StagingFails(c)
    PROVE  StagingInv'
<1>1. /\ UNCHANGED <<rows, runs, files, jobs, opportunities, held, collected, admitted, seeded>>
      /\ step[c] \in {"found", "staging"}
      /\ writer' = IF writer = c THEN None ELSE writer
      /\ step' = [step EXCEPT ![c] = "failed"]
    BY DEF J!StagingFails, J!Go
<1>2. /\ step' \in [Collector \cup Admitter ->
                      {"idle", "found", "staging", "failed", "read", "admit"}]
      /\ step'[c] = "failed"
      /\ \A t \in Collector \cup Admitter : t # c => step'[t] = step[t]
      /\ c \notin Admitter
    BY <1>1 DEF StagingInv, StagingTypes, J!StagingTypeOK, J!StagingAssumption
<1>3. J!StagingTypeOK'
    BY <1>1, <1>2 DEF StagingInv, StagingTypes, J!StagingTypeOK
<1>4. CollectorTypes' /\ AdmitterTypes'
    BY <1>1, <1>2 DEF StagingInv, StagingTypes, CollectorTypes, AdmitterTypes
<1>5. RunsApart'
    BY <1>1 DEF StagingInv, RunsApart
<1>6. WriterBuilds'
    <2>1. ASSUME NEW d \in Collector
          PROVE  /\ step'[d] = "staging" <=> writer' = d
                 /\ step'[d] \in {"found", "staging"} => step'[d] = step[d]
        BY <1>1, <1>2 DEF StagingInv, WriterBuilds, J!StagingAssumption
    <2> QED BY <1>1, <2>1 DEF StagingInv, WriterBuilds, Builds, Extends, HaveFiles
<1> QED BY <1>1, <1>3, <1>4, <1>5, <1>6, Moves

(* A failed run gets a row of its own, which no record names. *)
LEMMA RecordFailedRunStep ==
    ASSUME J!StagingAssumption, StagingInv, NEW c \in Collector, J!RecordFailedRun(c)
    PROVE  StagingInv'
<1> DEFINE h == held[c]
<1>1. /\ UNCHANGED <<rows, files, jobs, opportunities, writer, collected, admitted, seeded>>
      /\ step[c] = "failed"
      /\ runs' \in {runs, [runs EXCEPT ![h.run] = "failed"]}
      /\ step' = [step EXCEPT ![c] = "idle"]
      /\ held' = [held EXCEPT ![c] = None]
    BY DEF J!RecordFailedRun, J!Rest, J!Go
<1>2. h # None /\ h.run \in Run /\ runs[h.run] = None
    BY <1>1 DEF StagingInv, StagingTypes, CollectorTypes, RunsApart, J!StagingAssumption,
                J!Collecting
<1>3. /\ step' \in [Collector \cup Admitter ->
                      {"idle", "found", "staging", "failed", "read", "admit"}]
      /\ held' \in [Collector \cup Admitter -> J!Collecting \cup J!Admitting \cup {None}]
      /\ step'[c] = "idle" /\ held'[c] = None
      /\ \A t \in Collector \cup Admitter : t # c => step'[t] = step[t] /\ held'[t] = held[t]
      /\ c \notin Admitter
    BY <1>1 DEF StagingInv, StagingTypes, J!StagingTypeOK, J!StagingAssumption
<1>4. ASSUME NEW d \in Collector, held'[d] # None PROVE d # c /\ held[d].run # h.run
    BY <1>2, <1>3, <1>4 DEF StagingInv, RunsApart
<1> HIDE DEF h
<1>5. /\ runs' \in [Run -> {None, "completed", "failed"}]
      /\ \A r \in Run : r # h.run => runs'[r] = runs[r]
    BY <1>1, <1>2 DEF StagingInv, StagingTypes, J!StagingTypeOK
<1>6. J!StagingTypeOK'
    BY <1>1, <1>3, <1>5 DEF StagingInv, StagingTypes, J!StagingTypeOK
<1>7. CollectorTypes' /\ AdmitterTypes'
    BY <1>1, <1>3 DEF StagingInv, StagingTypes, CollectorTypes, AdmitterTypes
<1>8. RunsApart'
    <2>1. ASSUME NEW d \in Collector, held'[d] # None
          PROVE  held'[d] = held[d] /\ held[d].run \in Run
        BY <1>3, <1>4, <2>1 DEF StagingInv, StagingTypes, CollectorTypes, J!Collecting
    <2> QED BY <1>4, <1>5, <2>1 DEF StagingInv, RunsApart
<1>9. WriterBuilds'
    BY <1>1, <1>3 DEF StagingInv, WriterBuilds, Builds, Extends, HaveFiles
<1>10. OnePer(rows)' /\ HaveFiles(rows)' /\ J!AdmissionIsWhole'
    BY <1>1 DEF StagingInv, OnePer, HaveFiles, J!AdmissionIsWhole, J!Stored
<1>11. J!BatchIsWhole'
    <2>1. ASSUME NEW id \in J!Staging, rows[id] # None
          PROVE  runs'[rows[id].run] = "completed"
        <3>1. rows[id].run \in Run /\ runs[rows[id].run] = "completed"
            BY <2>1 DEF StagingInv, StagingTypes, J!StagingTypeOK, J!Row, J!BatchIsWhole,
                        J!Stored
        <3> QED BY <1>2, <1>5, <3>1 DEF J!StagingAssumption
    <2> QED BY <1>1, <2>1 DEF StagingInv, J!BatchIsWhole, J!Stored
<1> QED BY <1>6, <1>7, <1>8, <1>9, <1>10, <1>11 DEF StagingInv, StagingTypes

LEMMA ReadStagedStep ==
    ASSUME J!StagingAssumption, StagingInv, NEW u \in Admitter, J!ReadStaged(u)
    PROVE  StagingInv'
<1>1. /\ UNCHANGED <<rows, runs, files, jobs, opportunities, writer, collected, admitted, seeded>>
      /\ step' = [step EXCEPT ![u] = "read"]
    BY DEF J!ReadStaged, J!Go
<1>2. PICK id \in J!Staging :
        /\ rows[id] # None /\ rows[id].status = "staged"
        /\ held' = [held EXCEPT ![u] = [id |-> id, replayed |-> FALSE]]
    BY DEF J!ReadStaged
<1>3. /\ step' \in [Collector \cup Admitter ->
                      {"idle", "found", "staging", "failed", "read", "admit"}]
      /\ held' \in [Collector \cup Admitter -> J!Collecting \cup J!Admitting \cup {None}]
      /\ step'[u] = "read" /\ held'[u] \in J!Admitting /\ held'[u].id = id
      /\ \A t \in Collector \cup Admitter : t # u => step'[t] = step[t] /\ held'[t] = held[t]
      /\ u \notin Collector
    BY <1>1, <1>2 DEF StagingInv, StagingTypes, J!StagingTypeOK, J!StagingAssumption,
                      J!Admitting
<1>4. J!StagingTypeOK'
    BY <1>1, <1>3 DEF StagingInv, StagingTypes, J!StagingTypeOK
<1>5. CollectorTypes' /\ AdmitterTypes'
    BY <1>1, <1>2, <1>3 DEF StagingInv, StagingTypes, CollectorTypes, AdmitterTypes
<1>6. RunsApart' /\ WriterBuilds'
    BY <1>1, <1>3 DEF StagingInv, RunsApart, WriterBuilds, Builds, Extends, HaveFiles
<1> QED BY <1>1, <1>4, <1>5, <1>6, Moves

LEMMA ReadReceiptStep ==
    ASSUME J!StagingAssumption, StagingInv, NEW u \in Admitter, J!ReadReceipt(u)
    PROVE  StagingInv'
<1>1. /\ UNCHANGED <<rows, runs, files, jobs, opportunities, writer, collected, admitted, seeded>>
      /\ step[u] = "read"
      /\ step' = [step EXCEPT ![u] = "admit"]
      /\ held' = [held EXCEPT ![u].replayed = held[u].id \in jobs]
    BY DEF J!ReadReceipt, J!Go
<1>2. /\ held[u] \in J!Admitting
      /\ rows[held[u].id] # None /\ rows[held[u].id].status \in {"staged", "admitted"}
    BY <1>1 DEF StagingInv, StagingTypes, AdmitterTypes
<1>3. PICK h \in J!Admitting : held' = [held EXCEPT ![u] = h] /\ h.id = held[u].id
    <2>1. [held[u] EXCEPT !.replayed = held[u].id \in jobs] \in J!Admitting
        <3> DEFINE found == held[u].id \in jobs
        <3>1. found \in BOOLEAN
            OBVIOUS
        <3> HIDE DEF found
        <3>2. [held[u] EXCEPT !.replayed = found] \in J!Admitting
            BY <1>2, <3>1 DEF J!Admitting
        <3> QED BY <3>2 DEF found
    <2> QED BY <1>1, <1>2, <2>1 DEF J!Admitting
<1>4. /\ step' \in [Collector \cup Admitter ->
                      {"idle", "found", "staging", "failed", "read", "admit"}]
      /\ held' \in [Collector \cup Admitter -> J!Collecting \cup J!Admitting \cup {None}]
      /\ step'[u] = "admit" /\ held'[u] \in J!Admitting /\ held'[u].id = held[u].id
      /\ \A t \in Collector \cup Admitter : t # u => step'[t] = step[t] /\ held'[t] = held[t]
      /\ u \notin Collector
    BY <1>1, <1>3 DEF StagingInv, StagingTypes, J!StagingTypeOK, J!StagingAssumption
<1>5. J!StagingTypeOK'
    BY <1>1, <1>4 DEF StagingInv, StagingTypes, J!StagingTypeOK
<1>6. CollectorTypes' /\ AdmitterTypes'
    BY <1>1, <1>2, <1>4 DEF StagingInv, StagingTypes, CollectorTypes, AdmitterTypes
<1>7. RunsApart' /\ WriterBuilds'
    BY <1>1, <1>4 DEF StagingInv, RunsApart, WriterBuilds, Builds, Extends, HaveFiles
<1> QED BY <1>1, <1>5, <1>6, <1>7, Moves

(* Back to rest, when nothing was stored. *)
LEMMA AdmissionFailsStep ==
    ASSUME J!StagingAssumption, StagingInv, NEW u \in Admitter, J!AdmissionFails(u)
    PROVE  StagingInv'
<1>1. /\ UNCHANGED <<rows, runs, files, jobs, opportunities, writer, collected, admitted, seeded>>
      /\ step' = [step EXCEPT ![u] = "idle"]
      /\ held' = [held EXCEPT ![u] = None]
    BY DEF J!AdmissionFails, J!Rest, J!Go
<1>2. /\ step' \in [Collector \cup Admitter ->
                      {"idle", "found", "staging", "failed", "read", "admit"}]
      /\ held' \in [Collector \cup Admitter -> J!Collecting \cup J!Admitting \cup {None}]
      /\ step'[u] = "idle"
      /\ \A t \in Collector \cup Admitter : t # u => step'[t] = step[t] /\ held'[t] = held[t]
      /\ u \notin Collector
    BY <1>1 DEF StagingInv, StagingTypes, J!StagingTypeOK, J!StagingAssumption
<1>3. J!StagingTypeOK'
    BY <1>1, <1>2 DEF StagingInv, StagingTypes, J!StagingTypeOK
<1>4. CollectorTypes' /\ AdmitterTypes'
    BY <1>1, <1>2 DEF StagingInv, StagingTypes, CollectorTypes, AdmitterTypes
<1>5. RunsApart' /\ WriterBuilds'
    BY <1>1, <1>2 DEF StagingInv, RunsApart, WriterBuilds, Builds, Extends, HaveFiles
<1> QED BY <1>1, <1>3, <1>4, <1>5, Moves

(* The record that was read as staged is staged or admitted: it and its job and its
   opportunity are stored together. *)
LEMMA AdmitStagedStep ==
    ASSUME J!StagingAssumption, StagingInv, NEW u \in Admitter, J!AdmitStaged(u)
    PROVE  StagingInv'
<1> DEFINE id == held[u].id
           row == [rows[id] EXCEPT !.status = IF @ = "staged" THEN "admitted" ELSE @]
<1>1. /\ UNCHANGED <<runs, files, writer, collected, seeded>>
      /\ step[u] = "admit" /\ writer = None
      /\ jobs' = jobs \cup {id} /\ opportunities' = opportunities \cup {id}
      /\ admitted' = admitted \cup {id}
      /\ rows' = [rows EXCEPT ![id] = row]
      /\ step' = [step EXCEPT ![u] = "idle"]
      /\ held' = [held EXCEPT ![u] = None]
    BY DEF J!AdmitStaged, J!Rest, J!Go
<1>2. /\ id \in J!Staging /\ rows[id] # None /\ rows[id] \in J!Row
      /\ rows[id].status \in {"staged", "admitted"}
    BY <1>1 DEF StagingInv, StagingTypes, AdmitterTypes, J!Admitting, J!StagingTypeOK
<1>3. row \in J!Row /\ row # None /\ row.status = "admitted" /\ row.run = rows[id].run
    <2>1. row \in J!Row /\ row.status = "admitted" /\ row.run = rows[id].run
        BY <1>2 DEF J!Row
    <2> QED BY <2>1 DEF J!StagingAssumption
<1> HIDE DEF id, row
<1>4. /\ step' \in [Collector \cup Admitter ->
                      {"idle", "found", "staging", "failed", "read", "admit"}]
      /\ held' \in [Collector \cup Admitter -> J!Collecting \cup J!Admitting \cup {None}]
      /\ step'[u] = "idle"
      /\ \A t \in Collector \cup Admitter : t # u => step'[t] = step[t] /\ held'[t] = held[t]
      /\ u \notin Collector
    BY <1>1 DEF StagingInv, StagingTypes, J!StagingTypeOK, J!StagingAssumption
<1>5. /\ rows' \in Table /\ rows'[id] = row
      /\ \A x \in J!Staging : x # id => rows'[x] = rows[x]
    BY <1>1, <1>2, <1>3 DEF StagingInv, StagingTypes, J!StagingTypeOK, Table
<1>6. J!StagingTypeOK'
    BY <1>1, <1>2, <1>4, <1>5 DEF StagingInv, StagingTypes, J!StagingTypeOK, Table
<1>7. CollectorTypes'
    BY <1>4 DEF StagingInv, StagingTypes, CollectorTypes
<1>8. AdmitterTypes'
    <2>1. ASSUME NEW v \in Admitter, step'[v] # "idle" PROVE held[v].id \in J!Staging
        BY <1>4, <2>1 DEF StagingInv, StagingTypes, AdmitterTypes, J!Admitting
    <2> QED BY <1>3, <1>4, <1>5, <2>1 DEF StagingInv, StagingTypes, AdmitterTypes
<1>9. RunsApart'
    BY <1>1, <1>4 DEF StagingInv, RunsApart
<1>10. WriterBuilds'
    <2>1. \A c \in Collector : step[c] # "staging"
        BY <1>1 DEF StagingInv, WriterBuilds, J!StagingAssumption
    <2> QED BY <1>1, <1>4, <2>1 DEF StagingInv, WriterBuilds
<1>11. OnePer(rows)'
    BY <1>2, <1>3, <1>5 DEF StagingInv, OnePer
<1>12. HaveFiles(rows)'
    BY <1>1, <1>2, <1>5 DEF StagingInv, HaveFiles
<1>13. J!BatchIsWhole'
    BY <1>1, <1>2, <1>3, <1>5 DEF StagingInv, J!BatchIsWhole, J!Stored
<1>14. J!AdmissionIsWhole'
    <2>1. {x \in J!Stored : rows[x].status = "admitted"} \cup {id}
            = {x \in J!Staging : rows'[x] # None /\ rows'[x].status = "admitted"}
        BY <1>2, <1>3, <1>5 DEF J!Stored
    <2>2. {x \in J!Staging : rows'[x] # None /\ rows'[x].status = "admitted"}
            = {x \in J!Stored' : rows'[x].status = "admitted"}
        BY DEF J!Stored
    <2> QED BY <1>1, <2>1, <2>2 DEF StagingInv, J!AdmissionIsWhole
<1> QED BY <1>6, <1>7, <1>8, <1>9, <1>10, <1>11, <1>12, <1>13, <1>14
        DEF StagingInv, StagingTypes

LEMMA SeedProposalStep ==
    ASSUME J!StagingAssumption, StagingInv, NEW u \in Admitter, J!SeedProposal(u)
    PROVE  StagingInv'
<1>1. UNCHANGED <<rows, runs, files, jobs, opportunities, writer, step, held, collected,
                  admitted>>
    BY DEF J!SeedProposal
<1>2. PICK id \in J!Staging :
        rows[id] # None /\ rows[id].status = "admitted" /\ seeded' = seeded \cup {id}
    BY DEF J!SeedProposal
<1>3. StagingTypes'
    BY <1>1, <1>2 DEF StagingInv, StagingTypes, J!StagingTypeOK, CollectorTypes, AdmitterTypes
<1>4. RunsApart' /\ WriterBuilds' /\ OnePer(rows)' /\ HaveFiles(rows)' /\ J!BatchIsWhole'
    BY <1>1 DEF StagingInv, RunsApart, WriterBuilds, Builds, Extends, OnePer, HaveFiles,
                J!BatchIsWhole, J!Stored
<1>5. J!AdmissionIsWhole'
    BY <1>1, <1>2 DEF StagingInv, J!AdmissionIsWhole, J!Stored
<1> QED BY <1>3, <1>4, <1>5 DEF StagingInv

LEMMA RadarCrashesStep ==
    ASSUME J!StagingAssumption, StagingInv, J!RadarCrashes
    PROVE  StagingInv'
<1>1. /\ UNCHANGED <<rows, runs, files, jobs, opportunities, collected, admitted, seeded>>
      /\ step' = [t \in Collector \cup Admitter |-> "idle"]
      /\ held' = [t \in Collector \cup Admitter |-> None]
      /\ writer' = None
    BY DEF J!RadarCrashes
<1>2. J!StagingTypeOK' /\ CollectorTypes' /\ AdmitterTypes' /\ RunsApart' /\ WriterBuilds'
    BY <1>1 DEF StagingInv, StagingTypes, J!StagingTypeOK, CollectorTypes, AdmitterTypes,
                RunsApart, WriterBuilds, J!StagingAssumption
<1> QED BY <1>1, <1>2, Moves

LEMMA StagingStart ==
    ASSUME J!StagingAssumption, J!StagingInit
    PROVE  StagingInv
<1>1. StagingTypes
    BY DEF J!StagingInit, StagingTypes, J!StagingTypeOK, CollectorTypes, AdmitterTypes
<1>2. RunsApart /\ WriterBuilds /\ OnePer(rows) /\ HaveFiles(rows)
    BY DEF J!StagingInit, RunsApart, WriterBuilds, OnePer, HaveFiles, J!StagingAssumption
<1>3. J!BatchIsWhole /\ J!AdmissionIsWhole
    BY DEF J!StagingInit, J!BatchIsWhole, J!AdmissionIsWhole, J!Stored
<1> QED BY <1>1, <1>2, <1>3 DEF StagingInv

LEMMA StagingInvariance ==
    ASSUME J!StagingAssumption
    PROVE  RadarSpec => []StagingInv
<1>1. RadarInit => StagingInv
    BY StagingStart DEF RadarInit
<1>2. StagingInv /\ [RadarNext]_(<<area, vars, breakerVars, stagingVars, backupVars>>)
        => StagingInv'
    <2> SUFFICES ASSUME StagingInv, J!StagingNext \/ UNCHANGED stagingVars PROVE StagingInv'
        BY DEF RadarNext
    <2>1. CASE UNCHANGED stagingVars
        <3>1. UNCHANGED <<rows, runs, files, jobs, opportunities, writer, step, held,
                          collected, admitted, seeded>>
            BY <2>1 DEF stagingVars
        <3>2. J!StagingTypeOK' /\ CollectorTypes' /\ AdmitterTypes' /\ RunsApart' /\ WriterBuilds'
            BY <3>1 DEF StagingInv, StagingTypes, J!StagingTypeOK, CollectorTypes,
                        AdmitterTypes, RunsApart, WriterBuilds, Builds, Extends, HaveFiles
        <3> QED BY <3>1, <3>2, Moves
    <2>2. CASE J!StagingNext
        BY <2>2, SearchAnswersStep, BeginStagingStep, StageNextStep, CommitStagingStep,
           StagingFailsStep, RecordFailedRunStep, ReadStagedStep, ReadReceiptStep,
           AdmitStagedStep, AdmissionFailsStep, SeedProposalStep, RadarCrashesStep
        DEF J!StagingNext
    <2> QED BY <2>1, <2>2
<1> QED BY <1>1, <1>2, PTL DEF RadarSpec

(* However many collects overlap, fail or meet a posting again: of the records of one
   posting at most one can become an opportunity, a batch is stored whole or not at all,
   and a stored record has its file. *)
THEOREM StagingSafety ==
    ASSUME J!StagingAssumption
    PROVE  RadarSpec => []StagingIsSound
<1>1. StagingInv => StagingIsSound
    BY DEF StagingInv, StagingTypes, StagingIsSound, OnePer, HaveFiles, J!OnePerPosting,
           J!EvidenceHasItsFile, J!Stored
<1> QED BY <1>1, StagingInvariance, PTL

(* A record says that it is admitted exactly when its Job and its Opportunity exist, and
   whoever was told so finds it so. *)
THEOREM AdmissionSafety ==
    ASSUME J!StagingAssumption
    PROVE  RadarSpec => []AdmissionIsWhole
<1>1. StagingInv => AdmissionIsWhole
    BY DEF StagingInv, AdmissionIsWhole
<1> QED BY <1>1, StagingInvariance, PTL

-----------------------------------------------------------------------------
(* Backups.  Rows are committed after their files and copied before them: what a copy of
   the database names was stored when the files were listed. *)
WritersHold ==
    /\ named \subseteq stored
    /\ \A w \in Writer : partial[w] # None => partial[w] = writing[w]
    /\ \A w \in Writer : writing[w] # None /\ partial[w] = None => writing[w] \in stored

CopyHolds ==
    /\ stage \in {"database", "files", "done"} => database \subseteq stored
    /\ stage = "files" => B!Whole(database, list \cup copied)
    /\ stage = "done" => B!Whole(database, manifest)
    /\ manifest # None => stage = "done"

(* Files are put into place whole, and the database only beside them. *)
RestoreHolds ==
    /\ restoring # "none" => manifest # None
    /\ restoring \in {"none", "copying"} => target = [rows |-> None, files |-> None]
    /\ restoring = "files" =>
        /\ target = [rows |-> None, files |-> target.files]
        /\ target.files # None /\ B!Whole(database, target.files)
    /\ B!RestoredIsWhole

(* The inductive invariant of backups. *)
BackupInv == B!BackupTypeOK /\ WritersHold /\ CopyHolds /\ RestoreHolds

(* What writers do while a backup or a restoration is under way. *)
LEMMA WriterStep ==
    ASSUME BackupInv, NEW w \in Writer,
           B!Put(w) \/ B!Replace(w) \/ B!CommitRow(w) \/ B!WriterFails(w)
    PROVE  BackupInv'
<1>1. UNCHANGED <<stage, list, copied, intact, database, sound, manifest, restoring, target>>
    BY DEF B!Put, B!Replace, B!CommitRow, B!WriterFails, B!backup
<1>2. /\ partial \in [Writer -> Artifact \cup {None}]
      /\ writing \in [Writer -> Artifact \cup {None}]
      /\ stored \subseteq Artifact /\ named \subseteq Artifact
    BY DEF BackupInv, B!BackupTypeOK
<1>3. /\ partial' \in [Writer -> Artifact \cup {None}]
      /\ writing' \in [Writer -> Artifact \cup {None}]
      /\ stored' \subseteq Artifact /\ named' \subseteq Artifact
      /\ stored \subseteq stored' /\ WritersHold'
    <2>1. CASE B!Put(w)
        BY <1>2, <2>1 DEF B!Put, BackupInv, WritersHold
    <2>2. CASE B!Replace(w)
        BY <1>2, <2>2 DEF B!Replace, BackupInv, WritersHold
    <2>3. CASE B!CommitRow(w)
        BY <1>2, <2>3 DEF B!CommitRow, BackupInv, WritersHold
    <2>4. CASE B!WriterFails(w)
        BY <1>2, <2>4 DEF B!WriterFails, BackupInv, WritersHold
    <2> QED BY <2>1, <2>2, <2>3, <2>4
<1>4. B!BackupTypeOK'
    BY <1>1, <1>3 DEF BackupInv, B!BackupTypeOK
<1>5. CopyHolds' /\ RestoreHolds'
    BY <1>1, <1>3 DEF BackupInv, CopyHolds, RestoreHolds, B!Whole, B!RestoredIsWhole
<1> QED BY <1>3, <1>4, <1>5 DEF BackupInv

(* The steps of a backup: the rows, then the files that were there by then. *)
LEMMA CopyStep ==
    ASSUME BackupInv, B!CopyDatabase \/ B!ListFiles \/ B!CopyFile \/ B!WriteManifest
                      \/ B!BackupStops
    PROVE  BackupInv'
<1>1. UNCHANGED <<stored, partial, named, writing, sound, restoring, target>>
    BY DEF B!CopyDatabase, B!ListFiles, B!CopyFile, B!WriteManifest, B!BackupStops
<1>2. WritersHold'
    BY <1>1 DEF BackupInv, WritersHold
<1>3. B!BackupTypeOK'
    <2>1. CASE B!CopyDatabase
        BY <1>1, <2>1 DEF B!CopyDatabase, BackupInv, B!BackupTypeOK
    <2>2. CASE B!ListFiles
        BY <1>1, <2>2 DEF B!ListFiles, BackupInv, B!BackupTypeOK
    <2>3. CASE B!CopyFile
        BY <1>1, <2>3 DEF B!CopyFile, BackupInv, B!BackupTypeOK
    <2>4. CASE B!WriteManifest \/ B!BackupStops
        BY <1>1, <2>4 DEF B!WriteManifest, B!BackupStops, BackupInv, B!BackupTypeOK
    <2> QED BY <2>1, <2>2, <2>3, <2>4
<1>4. CopyHolds'
    <2>1. CASE B!CopyDatabase
        BY <1>1, <2>1 DEF B!CopyDatabase, BackupInv, CopyHolds, WritersHold
    <2>2. CASE B!ListFiles
        BY <1>1, <2>2 DEF B!ListFiles, BackupInv, CopyHolds, B!Whole
    <2>3. CASE B!CopyFile
        BY <1>1, <2>3 DEF B!CopyFile, BackupInv, CopyHolds, B!Whole
    <2>4. CASE B!WriteManifest
        BY <1>1, <2>4 DEF B!WriteManifest, BackupInv, CopyHolds, B!Whole
    <2>5. CASE B!BackupStops
        BY <1>1, <2>5 DEF B!BackupStops, BackupInv, CopyHolds
    <2> QED BY <2>1, <2>2, <2>3, <2>4, <2>5
<1>5. RestoreHolds'
    <2>1. manifest = None
        BY DEF B!CopyDatabase, B!ListFiles, B!CopyFile, B!WriteManifest, B!BackupStops,
               BackupInv, CopyHolds
    <2>2. restoring = "none"
        BY <2>1 DEF BackupInv, RestoreHolds
    <2> QED BY <1>1, <2>2 DEF BackupInv, RestoreHolds, B!RestoredIsWhole
<1> QED BY <1>2, <1>3, <1>4, <1>5 DEF BackupInv

(* What is put into place is the backup, which is whole and is checked once more. *)
LEMMA RestoreStep ==
    ASSUME BackupInv, B!Damage \/ B!StartRestore \/ B!PlaceFiles \/ B!PlaceDatabase
                      \/ B!RestoreFails \/ B!RestoreCrashes
    PROVE  BackupInv'
<1>1. UNCHANGED <<stored, partial, named, writing, stage, list, copied, database, manifest>>
    BY DEF B!Damage, B!StartRestore, B!PlaceFiles, B!PlaceDatabase, B!RestoreFails,
           B!RestoreCrashes, B!backup
<1>2. WritersHold' /\ CopyHolds'
    BY <1>1 DEF BackupInv, WritersHold, CopyHolds, B!Whole
<1>3. B!BackupTypeOK'
    <2>1. intact' \subseteq intact
        BY DEF B!Damage, B!StartRestore, B!PlaceFiles, B!PlaceDatabase, B!RestoreFails,
               B!RestoreCrashes, B!backup
    <2>2. restoring' \in {"none", "copying", "files", "done", "crashed"}
        BY DEF B!Damage, B!StartRestore, B!PlaceFiles, B!PlaceDatabase, B!RestoreFails,
               B!RestoreCrashes, BackupInv, B!BackupTypeOK
    <2> QED BY <1>1, <2>1, <2>2 DEF BackupInv, B!BackupTypeOK
<1>4. RestoreHolds'
    <2>1. CASE B!Damage
        BY <1>1, <2>1 DEF B!Damage, BackupInv, RestoreHolds, B!RestoredIsWhole, B!Whole
    <2>2. CASE B!StartRestore
        BY <1>1, <2>2 DEF B!StartRestore, B!Verifies, BackupInv, RestoreHolds,
                          B!RestoredIsWhole, B!Whole
    <2>3. CASE B!PlaceFiles
        <3>1. manifest \cap intact = manifest /\ manifest # None
            BY <2>3 DEF B!PlaceFiles, B!Verifies
        <3>2. target' = [rows |-> None, files |-> manifest] /\ restoring' = "files"
            BY <2>3, <3>1 DEF B!PlaceFiles, BackupInv, RestoreHolds
        <3>3. B!Whole(database, manifest)
            BY <3>1 DEF BackupInv, CopyHolds
        <3> QED BY <1>1, <3>1, <3>2, <3>3 DEF RestoreHolds, B!RestoredIsWhole, B!Whole
    <2>4. CASE B!PlaceDatabase
        <3>1. target' = [rows |-> database, files |-> target.files] /\ restoring' = "done"
            BY <2>4 DEF B!PlaceDatabase, BackupInv, RestoreHolds
        <3> QED BY <1>1, <2>4, <3>1 DEF B!PlaceDatabase, BackupInv, RestoreHolds,
                                        B!RestoredIsWhole, B!Whole
    <2>5. CASE B!RestoreFails
        BY <1>1, <2>5 DEF B!RestoreFails, BackupInv, RestoreHolds, B!RestoredIsWhole
    <2>6. CASE B!RestoreCrashes
        BY <1>1, <2>6 DEF B!RestoreCrashes, BackupInv, RestoreHolds, B!RestoredIsWhole,
                          B!Whole
    <2> QED BY <2>1, <2>2, <2>3, <2>4, <2>5, <2>6
<1> QED BY <1>2, <1>3, <1>4 DEF BackupInv

(* A completed backup has the file of every artifact its rows name, though writers went
   on while it was made, and a restored database stands beside all of its files, whatever
   was damaged, failed or crashed on the way. *)
THEOREM CopySafety == RadarSpec => []CopiesAreWhole
<1>1. RadarInit => BackupInv
    BY DEF RadarInit, B!BackupInit, BackupInv, B!BackupTypeOK, WritersHold, CopyHolds,
           RestoreHolds, B!RestoredIsWhole
<1>2. BackupInv /\ [RadarNext]_(<<area, vars, breakerVars, stagingVars, backupVars>>)
        => BackupInv'
    <2> SUFFICES ASSUME BackupInv, B!BackupNext \/ UNCHANGED backupVars PROVE BackupInv'
        BY DEF RadarNext
    <2>1. CASE UNCHANGED backupVars
        BY <2>1 DEF backupVars, BackupInv, B!BackupTypeOK, WritersHold, CopyHolds,
                    RestoreHolds, B!RestoredIsWhole, B!Whole
    <2>2. CASE B!BackupNext
        BY <2>2, WriterStep, CopyStep, RestoreStep DEF B!BackupNext
    <2> QED BY <2>1, <2>2
<1>3. BackupInv => CopiesAreWhole
    BY DEF BackupInv, CopiesAreWhole, CopyHolds, RestoreHolds, B!BackupIsWhole,
           B!FailedRestoreIsRepeatable
<1> QED BY <1>1, <1>2, <1>3, PTL DEF RadarSpec
================================================================================
