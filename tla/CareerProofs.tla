----------------------------- MODULE CareerProofs -----------------------------
(***************************************************************************)
(* Proofs about the records of a career search.  Applications: a           *)
(* submission is made once and everything later rests on it, an interview  *)
(* ends at most once, and the concurrent turns of a session are numbered   *)
(* without a gap. Communications: whatever users decide at once, a draft   *)
(* has one decision and only what was approved is reported as sent; the    *)
(* daily limits hold up to the requests that overlap, and an ended draft   *)
(* stays so but for those that had read it before.                         *)
(* Resumes: a revision lost and gained nothing but what the operations of  *)
(* its accepted patches name, whatever they are and in whatever order; the *)
(* studio implements these records.  ResumeStudio: what a request was      *)
(* answered is what is stored, since what a request read before its        *)
(* transaction still holds in it.                                          *)
(***************************************************************************)
EXTENDS MCCareer, FiniteSetTheorems, WellFoundedInduction, TLAPS

-----------------------------------------------------------------------------
(* Applications. *)
Null == {None}

(* The tables and their keys. *)
Tables ==
    /\ applied \in [Application -> Opportunity \cup Null]
    /\ applications \in [Application -> Seq(ApplicationRow)]
    /\ \A a \in Application :
        /\ Len(applications[a]) <= MaxApplicationRevision
        /\ applied[a] = None <=> applications[a] = <<>>
    /\ interviewed \in [Interview -> (Application \X Nat) \cup Null]
    /\ interviews \in [Interview -> Seq(InterviewRow)]
    /\ outcomes \in [Outcome -> OutcomeRow \cup Null]

Submitted(a, n) ==
    /\ n \in DOMAIN applications[a]
    /\ applications[a][n].state \notin Preparation

(* What an interview and an outcome were recorded of had been submitted. *)
OfSubmitted ==
    /\ \A i \in Interview : interviews[i] # <<>> =>
        \E a \in Application, n \in Nat : interviewed[i] = <<a, n>> /\ Submitted(a, n)
    /\ \A o \in Outcome : outcomes[o] # None =>
        Submitted(outcomes[o].application, outcomes[o].revision)

(* The inductive invariant for SubmissionsHold. *)
RecordsInv == Tables /\ OfSubmitted /\ SubmittedMovesOn /\ EndsOnce

-----------------------------------------------------------------------------
(* What a new revision may do to the one it is written on. *)
Follows(a, row) ==
    applications[a] = <<>> \/ Exact(a).state \in Preparation \/
        /\ row.state \notin Preparation
        /\ Rank(Exact(a).state) < Rank(row.state)
        /\ row = [Exact(a) EXCEPT !.state = row.state]

Revises(a) ==
    \E opportunity \in Opportunity, row \in ApplicationRow :
        StageApplication(a, opportunity, row) /\ Follows(a, row)

LEMMA RankGrows ==
    ASSUME NEW state \in State, NEW next \in PostSubmission[state]
    PROVE  next \in State \ Preparation /\ Rank(state) < Rank(next)
BY DEF PostSubmission, Rank, State, Preparation, Schedulable

LEMMA ExactRow ==
    ASSUME Tables, NEW a \in Application, applications[a] # <<>>
    PROVE  /\ Len(applications[a]) \in Nat \ {0}
           /\ DOMAIN applications[a] = 1..Len(applications[a])
           /\ Exact(a) \in ApplicationRow
           /\ applied[a] \in Opportunity
BY DEF Tables, Exact, Null

LEMMA MovesOn ==
    ASSUME SubmittedMovesOn, NEW a \in Application,
           NEW m \in DOMAIN applications[a], NEW n \in DOMAIN applications[a],
           m < n, applications[a][m].state \notin Preparation
    PROVE  /\ applications[a][n].state \notin Preparation
           /\ Rank(applications[a][m].state) < Rank(applications[a][n].state)
           /\ applications[a][n] =
                    [applications[a][m] EXCEPT !.state = applications[a][n].state]
<1>1. \A x, y \in DOMAIN applications[a] :
        LET before == applications[a][x]  after == applications[a][y] IN
        (x < y /\ before.state \notin Preparation) =>
            /\ after.state \notin Preparation
            /\ Rank(before.state) < Rank(after.state)
            /\ after = [before EXCEPT !.state = after.state]
  BY Zenon DEF SubmittedMovesOn
<1> QED BY <1>1, Zenon

LEMMA ApplicationFields ==
    ASSUME NEW row \in ApplicationRow
    PROVE  /\ row.state \in State
           /\ DOMAIN row = {"state", "resume", "authority", "receipt"}
           /\ \A state : [row EXCEPT !.state = state].state = state
BY DEF ApplicationRow

(* Each command on an application appends a revision that may follow the newest. *)
LEMMA ApplicationCommands ==
    ASSUME ApplicationAssumption, Tables, NEW a \in Application,
           \/ CreateApplication(a) \/ SetPreparationState(a) \/ AttachPreparedResume(a)
           \/ RecordSubmission(a) \/ AdvanceState(a)
    PROVE  Revises(a)
<1>1. CASE CreateApplication(a)
  BY <1>1 DEF CreateApplication, Revises, Follows, StageApplication
<1>2. ASSUME applications[a] # <<>>, Exact(a).state \in Preparation,
             NEW row, Revise(a, row)
      PROVE  Revises(a)
  BY <1>2, ExactRow DEF Revise, Revises, Follows, StageApplication
<1>3. CASE SetPreparationState(a)
  BY <1>2, <1>3 DEF SetPreparationState, Preparation
<1>4. CASE AttachPreparedResume(a)
  BY <1>2, <1>4 DEF AttachPreparedResume
<1>5. CASE RecordSubmission(a)
  BY <1>2, <1>5 DEF RecordSubmission, Preparation
<1>6. CASE AdvanceState(a)
  <2>1. PICK state \in PostSubmission[Exact(a).state] :
          /\ applications[a] # <<>>
          /\ Revise(a, [Exact(a) EXCEPT !.state = state])
    BY <1>6 DEF AdvanceState
  <2> DEFINE row == [Exact(a) EXCEPT !.state = state]
  <2>2. Exact(a) \in ApplicationRow /\ applied[a] \in Opportunity
    BY <2>1, ExactRow
  <2>3. row.state = state
    BY <2>2, ApplicationFields
  <2>4. Follows(a, row)
    BY <2>2, <2>3, RankGrows, ApplicationFields DEF Follows
  <2>5. row \in ApplicationRow
    BY <2>1 DEF Revise, StageApplication
  <2> QED BY <2>1, <2>2, <2>4, <2>5 DEF Revise, Revises
<1> QED
  BY <1>1, <1>3, <1>4, <1>5, <1>6

(* What appending a revision does to the sequences. *)
LEMMA Appended ==
    ASSUME Tables, NEW a \in Application, NEW opportunity \in Opportunity,
           NEW row \in ApplicationRow, StageApplication(a, opportunity, row)
    PROVE  /\ applications' \in [Application -> Seq(ApplicationRow)]
           /\ applications'[a] = Append(applications[a], row)
           /\ \A b \in Application \ {a} : applications'[b] = applications[b]
           /\ Len(applications[a]) \in Nat
           /\ Len(applications'[a]) = Len(applications[a]) + 1
           /\ DOMAIN applications'[a] = 1..(Len(applications[a]) + 1)
           /\ DOMAIN applications[a] = 1..Len(applications[a])
           /\ applications'[a][Len(applications[a]) + 1] = row
           /\ \A b \in Application : \A n \in DOMAIN applications[b] :
                n \in DOMAIN applications'[b] /\ applications'[b][n] = applications[b][n]
<1>1. /\ applications[a] \in Seq(ApplicationRow)
      /\ applications' = [applications EXCEPT ![a] = Append(applications[a], row)]
      /\ applications \in [Application -> Seq(ApplicationRow)]
  BY DEF Tables, StageApplication
<1>2. /\ applications'[a] = Append(applications[a], row)
      /\ \A b \in Application \ {a} : applications'[b] = applications[b]
      /\ applications' \in [Application -> Seq(ApplicationRow)]
  BY <1>1
<1> DEFINE s == applications[a]
<1>3. /\ Len(s) \in Nat
      /\ Len(Append(s, row)) = Len(s) + 1
      /\ DOMAIN Append(s, row) = 1..(Len(s) + 1)
      /\ DOMAIN s = 1..Len(s)
      /\ Append(s, row)[Len(s) + 1] = row
      /\ \A n \in 1..Len(s) : Append(s, row)[n] = s[n]
  BY <1>1
<1> QED
  BY <1>2, <1>3

-----------------------------------------------------------------------------
LEMMA RevisesTables ==
    ASSUME ApplicationAssumption, RecordsInv, NEW a \in Application, Revises(a)
    PROVE  RecordsInv'
<1>1. PICK opportunity \in Opportunity, row \in ApplicationRow :
        StageApplication(a, opportunity, row) /\ Follows(a, row)
  BY DEF Revises
<1>2. Tables
  BY DEF RecordsInv
<1> DEFINE last == Len(applications[a])
<1>3. /\ applications' \in [Application -> Seq(ApplicationRow)]
      /\ applications'[a] = Append(applications[a], row)
      /\ \A b \in Application \ {a} : applications'[b] = applications[b]
      /\ last \in Nat
      /\ Len(applications'[a]) = last + 1
      /\ DOMAIN applications'[a] = 1..(last + 1)
      /\ DOMAIN applications[a] = 1..last
      /\ applications'[a][last + 1] = row
      /\ \A b \in Application : \A n \in DOMAIN applications[b] :
            n \in DOMAIN applications'[b] /\ applications'[b][n] = applications[b][n]
  BY <1>1, <1>2, Appended
<1>4. Tables'
  <2>1. applied' = [applied EXCEPT ![a] = opportunity] /\ last < MaxApplicationRevision
        /\ UNCHANGED <<interviewed, interviews, outcomes>>
    BY <1>1 DEF StageApplication
  <2>2. opportunity # None /\ MaxApplicationRevision \in Nat
    BY DEF ApplicationAssumption
  <2>3. applications'[a] # <<>>
    BY <1>3
  <2> QED BY <1>2, <1>3, <2>1, <2>2, <2>3 DEF Tables
<1>5. OfSubmitted'
  <2>1. \A b \in Application, n \in Nat : Submitted(b, n) => Submitted(b, n)'
    BY <1>3 DEF Submitted
  <2>2. \A o \in Outcome : outcomes[o] # None =>
          outcomes[o].application \in Application /\ outcomes[o].revision \in Nat
    BY <1>2 DEF Tables, OutcomeRow, Null, ApplicationAssumption
  <2>3. UNCHANGED <<interviewed, interviews, outcomes>>
    BY <1>1 DEF StageApplication
  <2>4. OfSubmitted
    BY DEF RecordsInv
  <2> QED BY <2>1, <2>2, <2>3, <2>4 DEF OfSubmitted
<1>6. SubmittedMovesOn'
  <2> SUFFICES ASSUME NEW b \in Application,
                      NEW m \in DOMAIN applications'[b], NEW n \in DOMAIN applications'[b],
                      m < n, applications'[b][m].state \notin Preparation
               PROVE  /\ applications'[b][n].state \notin Preparation
                      /\ Rank(applications'[b][m].state) < Rank(applications'[b][n].state)
                      /\ applications'[b][n] =
                            [applications'[b][m] EXCEPT !.state = applications'[b][n].state]
    BY DEF SubmittedMovesOn
  <2>1. SubmittedMovesOn
    BY DEF RecordsInv
  <2>2. CASE m \in DOMAIN applications[b] /\ n \in DOMAIN applications[b]
    <3>1. /\ applications'[b][m] = applications[b][m]
          /\ applications'[b][n] = applications[b][n]
      BY <1>3, <2>2
    <3> QED BY <2>1, <2>2, <3>1, MovesOn
  <2>3. CASE ~(m \in DOMAIN applications[b] /\ n \in DOMAIN applications[b])
    <3>1. b = a /\ n = last + 1 /\ m \in 1..last
      BY <1>3, <2>3
    <3>2. applications'[a][m] = applications[a][m] /\ applications'[a][n] = row
      BY <1>3, <3>1
    <3> DEFINE before == applications[a][m]
    <3>3. applications[a] # <<>>
      BY <1>3, <3>1
    <3>4. Exact(a).state \notin Preparation
          /\ (m < last => /\ Rank(before.state) < Rank(Exact(a).state)
                          /\ Exact(a) = [before EXCEPT !.state = Exact(a).state])
          /\ (m = last => before = Exact(a))
      <4>1. before.state \notin Preparation
        BY <3>1, <3>2
      <4>2. CASE m = last
        BY <4>1, <4>2 DEF Exact
      <4>3. CASE m < last
        BY <1>3, <2>1, <3>1, <4>1, <4>3 DEF SubmittedMovesOn, Exact
      <4> QED BY <3>1, <1>3, <4>2, <4>3
    <3>5. /\ row.state \notin Preparation
          /\ Rank(Exact(a).state) < Rank(row.state)
          /\ row = [Exact(a) EXCEPT !.state = row.state]
      BY <1>1, <3>3, <3>4 DEF Follows
    <3>6. before \in ApplicationRow /\ Exact(a) \in ApplicationRow
      BY <1>2, <1>3, <3>1, <3>3, ExactRow DEF Tables
    <3>7. Rank(before.state) < Rank(row.state)
      <4>1. \A state : Rank(state) \in Nat
        BY DEF Rank
      <4> QED BY <3>1, <3>4, <3>5, <4>1, <1>3
    <3>8. row = [before EXCEPT !.state = row.state]
      <4>1. CASE m = last
        BY <3>4, <3>5, <4>1
      <4>2. CASE m < last
        <5>1. Exact(a) = [before EXCEPT !.state = Exact(a).state]
          BY <3>4, <4>2
        <5>2. \A f \in {"resume", "authority", "receipt"} : Exact(a)[f] = before[f]
          BY <5>1, <3>6, ApplicationFields
        <5> QED BY <5>2, <3>5, <3>6 DEF ApplicationRow
      <4> QED BY <3>1, <1>3, <4>1, <4>2
    <3> QED BY <3>1, <3>2, <3>5, <3>7, <3>8
  <2> QED BY <2>2, <2>3
<1>7. EndsOnce'
  BY <1>1 DEF StageApplication, RecordsInv, EndsOnce
<1> QED
  BY <1>4, <1>5, <1>6, <1>7 DEF RecordsInv

(* The next revision of an interview. *)
InterviewStep(i) ==
    \E identity \in Application \X Nat, row \in InterviewRow :
        /\ StageInterview(i, identity, row)
        /\ Submitted(identity[1], identity[2])
        /\ \/ interviews[i] = <<>> /\ row.status = "scheduled"
           \/ /\ interviews[i] # <<>>
              /\ interviews[i][Len(interviews[i])].status = "scheduled"
              /\ row.status # "scheduled"

LEMMA InterviewCommands ==
    ASSUME RecordsInv, NEW i \in Interview, ScheduleInterview(i) \/ EndInterview(i)
    PROVE  InterviewStep(i)
<1>1. CASE ScheduleInterview(i)
  <2>1. PICK a \in Application : \E n \in DOMAIN applications[a], refs \in SUBSET EvidenceRef :
          /\ interviews[i] = <<>>
          /\ applications[a][n].state \in Schedulable
          /\ StageInterview(i, <<a, n>>, [status |-> "scheduled", evidence |-> refs])
    BY <1>1 DEF ScheduleInterview
  <2>2. PICK n \in DOMAIN applications[a], refs \in SUBSET EvidenceRef :
          /\ applications[a][n].state \in Schedulable
          /\ StageInterview(i, <<a, n>>, [status |-> "scheduled", evidence |-> refs])
    BY <2>1
  <2>3. n \in Nat
    BY <2>2 DEF RecordsInv, Tables
  <2>4. Submitted(a, n)
    BY <2>2 DEF Submitted, Schedulable, Preparation
  <2> DEFINE row == [status |-> "scheduled", evidence |-> refs]
  <2>5. row \in InterviewRow
    BY <2>2 DEF StageInterview
  <2>6. row.status = "scheduled" /\ <<a, n>>[1] = a /\ <<a, n>>[2] = n
        /\ <<a, n>> \in Application \X Nat
    BY <2>3
  <2> HIDE DEF row
  <2> QED BY <2>1, <2>2, <2>4, <2>5, <2>6 DEF InterviewStep, row
<1>2. ASSUME interviews[i] # <<>>, NEW status \in {"completed", "cancelled"}, NEW refs,
             InterviewTransition(i, status, refs)
      PROVE  InterviewStep(i)
  <2> DEFINE row == [status |-> status, evidence |-> refs]
  <2>1. PICK a \in Application, n \in Nat : interviewed[i] = <<a, n>> /\ Submitted(a, n)
    BY <1>2 DEF RecordsInv, OfSubmitted
  <2>2. StageInterview(i, interviewed[i], row)
        /\ interviews[i][Len(interviews[i])].status = "scheduled"
    BY <1>2 DEF InterviewTransition
  <2>3. row \in InterviewRow /\ row.status # "scheduled"
    BY <2>2 DEF StageInterview
  <2>4. <<a, n>>[1] = a /\ <<a, n>>[2] = n /\ <<a, n>> \in Application \X Nat
    OBVIOUS
  <2> HIDE DEF row
  <2> QED BY <1>2, <2>1, <2>2, <2>3, <2>4 DEF InterviewStep
<1>3. CASE EndInterview(i)
  BY <1>2, <1>3 DEF EndInterview
<1> QED
  BY <1>1, <1>3

LEMMA InterviewInvariance ==
    ASSUME RecordsInv, NEW i \in Interview, InterviewStep(i)
    PROVE  RecordsInv'
<1>1. PICK identity \in Application \X Nat, row \in InterviewRow :
        /\ StageInterview(i, identity, row)
        /\ Submitted(identity[1], identity[2])
        /\ \/ interviews[i] = <<>> /\ row.status = "scheduled"
           \/ /\ interviews[i] # <<>>
              /\ interviews[i][Len(interviews[i])].status = "scheduled"
              /\ row.status # "scheduled"
  BY DEF InterviewStep
<1>2. /\ interviewed' = [interviewed EXCEPT ![i] = identity]
      /\ interviews' = [interviews EXCEPT ![i] = Append(interviews[i], row)]
      /\ UNCHANGED <<applied, applications, outcomes>>
  BY <1>1 DEF StageInterview
<1>3. Tables
  BY DEF RecordsInv
<1>4. Tables'
  <2>1. interviews' \in [Interview -> Seq(InterviewRow)]
    BY <1>2, <1>3 DEF Tables
  <2>2. interviewed' \in [Interview -> (Application \X Nat) \cup Null]
    BY <1>2, <1>3 DEF Tables
  <2> QED BY <1>2, <1>3, <2>1, <2>2 DEF Tables
<1>5. OfSubmitted'
  <2>1. \A b, n : Submitted(b, n)' <=> Submitted(b, n)
    BY <1>2 DEF Submitted
  <2>2. OfSubmitted
    BY DEF RecordsInv
  <2>3. identity = <<identity[1], identity[2]>> /\ identity[1] \in Application
        /\ identity[2] \in Nat
    OBVIOUS
  <2>4. \A j \in Interview : interviews'[j] # <<>> =>
          \E a \in Application, n \in Nat : interviewed'[j] = <<a, n>> /\ Submitted(a, n)
    <3> TAKE j \in Interview
    <3>1. CASE j = i
      BY <1>1, <1>2, <1>3, <2>3, <3>1 DEF Tables
    <3>2. CASE j # i
      BY <1>2, <1>3, <2>2, <3>2 DEF Tables, OfSubmitted
    <3> QED BY <3>1, <3>2
  <2> QED BY <1>2, <2>1, <2>2, <2>4 DEF OfSubmitted
<1>6. SubmittedMovesOn'
  BY <1>2 DEF RecordsInv, SubmittedMovesOn
<1>7. EndsOnce'
  <2> SUFFICES ASSUME NEW j \in Interview
               PROVE  /\ Len(interviews'[j]) <= 2
                      /\ \A n \in DOMAIN interviews'[j] :
                            interviews'[j][n].status = "scheduled" <=> n = 1
    BY DEF EndsOnce
  <2>1. EndsOnce
    BY DEF RecordsInv
  <2>2. CASE j # i
    BY <1>2, <1>3, <2>1, <2>2 DEF Tables, EndsOnce
  <2>3. CASE j = i
    <3> DEFINE s == interviews[i]
    <3>1. s \in Seq(InterviewRow) /\ interviews'[i] = Append(s, row)
      BY <1>2, <1>3 DEF Tables
    <3>2. /\ Len(s) \in Nat /\ DOMAIN s = 1..Len(s)
          /\ Len(Append(s, row)) = Len(s) + 1
          /\ DOMAIN Append(s, row) = 1..(Len(s) + 1)
          /\ Append(s, row)[Len(s) + 1] = row
          /\ \A n \in 1..Len(s) : Append(s, row)[n] = s[n]
          /\ s = <<>> <=> Len(s) = 0
      BY <3>1
    <3>3. /\ Len(s) <= 2
          /\ \A n \in DOMAIN s : s[n].status = "scheduled" <=> n = 1
      BY <2>1 DEF EndsOnce
    <3>4. \/ Len(s) = 0 /\ row.status = "scheduled"
          \/ Len(s) = 1 /\ row.status # "scheduled"
      <4>1. CASE s = <<>>
        BY <1>1, <3>2, <4>1
      <4>2. CASE s # <<>>
        <5>1. Len(s) \in DOMAIN s
          BY <3>2, <4>2
        <5>2. s[Len(s)].status = "scheduled" /\ row.status # "scheduled"
          BY <1>1, <4>2
        <5>3. Len(s) = 1
          BY <3>3, <5>1, <5>2
        <5> QED BY <5>2, <5>3
      <4> QED BY <4>1, <4>2
    <3> QED BY <2>3, <3>1, <3>2, <3>3, <3>4
  <2> QED BY <2>2, <2>3
<1> QED
  BY <1>4, <1>5, <1>6, <1>7 DEF RecordsInv

LEMMA OutcomeInvariance ==
    ASSUME ApplicationAssumption, RecordsInv, NEW o \in Outcome, RecordOutcome(o)
    PROVE  RecordsInv'
<1>0. PICK a \in Application : \E n \in DOMAIN applications[a] :
           \E authority \in {"user_confirmed", "portal_receipt"}, refs \in SUBSET EvidenceRef :
        /\ applications[a][n].state \notin Preparation
        /\ authority = "portal_receipt" => \E e \in refs : IsReceipt(e)
        /\ outcomes' = [outcomes EXCEPT ![o] =
            [application |-> a, revision |-> n, authority |-> authority, evidence |-> refs]]
  BY DEF RecordOutcome
<1>1. PICK n \in DOMAIN applications[a],
           authority \in {"user_confirmed", "portal_receipt"}, refs \in SUBSET EvidenceRef :
        /\ applications[a][n].state \notin Preparation
        /\ authority = "portal_receipt" => \E e \in refs : IsReceipt(e)
        /\ outcomes' = [outcomes EXCEPT ![o] =
            [application |-> a, revision |-> n, authority |-> authority, evidence |-> refs]]
  BY <1>0
<1>2. UNCHANGED <<applied, applications, interviewed, interviews>>
  BY DEF RecordOutcome
<1> DEFINE row ==
        [application |-> a, revision |-> n, authority |-> authority, evidence |-> refs]
<1>3. Tables
  BY DEF RecordsInv
<1>4. row \in OutcomeRow
  <2>1. n \in 1..MaxApplicationRevision
    BY <1>3 DEF Tables, ApplicationAssumption
  <2>2. authority = "portal_receipt" => refs # {}
    BY <1>1
  <2> QED BY <2>1, <2>2 DEF OutcomeRow
<1>5. Tables'
  BY <1>1, <1>2, <1>3, <1>4 DEF Tables
<1>6. OfSubmitted'
  <2>1. Submitted(row.application, row.revision)
    BY <1>1 DEF Submitted
  <2>2. \A b, m : Submitted(b, m)' <=> Submitted(b, m)
    BY <1>2 DEF Submitted
  <2>3. \A p \in Outcome : outcomes'[p] = IF p = o THEN row ELSE outcomes[p]
    BY <1>1, <1>3 DEF Tables
  <2>4. OfSubmitted
    BY DEF RecordsInv
  <2> HIDE DEF row
  <2> QED BY <1>2, <2>1, <2>2, <2>3, <2>4 DEF OfSubmitted
<1>7. SubmittedMovesOn' /\ EndsOnce'
  BY <1>2 DEF RecordsInv, SubmittedMovesOn, EndsOnce
<1> QED
  BY <1>5, <1>6, <1>7 DEF RecordsInv

LEMMA RecordsInit ==
    ASSUME ApplicationAssumption, ApplicationInit
    PROVE  RecordsInv
<1>1. Tables
  BY DEF ApplicationAssumption, ApplicationInit, Tables, Null
<1>2. OfSubmitted
  BY DEF ApplicationInit, OfSubmitted
<1>3. SubmittedMovesOn
  BY DEF ApplicationInit, SubmittedMovesOn
<1>4. EndsOnce
  BY DEF ApplicationInit, EndsOnce
<1> QED
  BY <1>1, <1>2, <1>3, <1>4 DEF RecordsInv

LEMMA RecordsNext ==
    ASSUME ApplicationAssumption, RecordsInv, [ApplicationNext]_applicationVars
    PROVE  RecordsInv'
<1>1. ASSUME NEW a \in Application,
             \/ CreateApplication(a) \/ SetPreparationState(a) \/ AttachPreparedResume(a)
             \/ RecordSubmission(a) \/ AdvanceState(a)
      PROVE  RecordsInv'
  BY <1>1, ApplicationCommands, RevisesTables DEF RecordsInv
<1>2. ASSUME NEW o \in Outcome, RecordOutcome(o) PROVE RecordsInv'
  BY <1>2, OutcomeInvariance
<1>3. ASSUME NEW i \in Interview, ScheduleInterview(i) \/ EndInterview(i) PROVE RecordsInv'
  BY <1>3, InterviewCommands, InterviewInvariance
<1>4. ASSUME UNCHANGED <<applied, applications, interviewed, interviews, outcomes>>
      PROVE  RecordsInv'
  BY <1>4 DEF RecordsInv, Tables, OfSubmitted, Submitted, SubmittedMovesOn, EndsOnce
<1>5. ASSUME NEW t \in Turn, Speak(t) \/ AppendTurn(t) PROVE RecordsInv'
  BY <1>4, <1>5 DEF Speak, AppendTurn
<1>6. CASE UNCHANGED applicationVars
  BY <1>4, <1>6 DEF applicationVars
<1> QED
  BY <1>1, <1>2, <1>3, <1>5, <1>6 DEF ApplicationNext

LEMMA RecordsInvSuffices ==
    ASSUME RecordsInv
    PROVE  SubmissionsHold
<1>1. Tables /\ OfSubmitted /\ SubmittedMovesOn /\ EndsOnce
  BY DEF RecordsInv
<1>2. ApplicationTypeOK
  <2>1. \A a \in Application : \A n \in DOMAIN applications[a] :
          applications[a][n] \in ApplicationRow
    BY <1>1 DEF Tables
  <2>2. \A i \in Interview : \A n \in DOMAIN interviews[i] : interviews[i][n] \in InterviewRow
    BY <1>1 DEF Tables
  <2>3. \A i \in Interview : interviews[i] # <<>> =>
          interviewed[i][2] \in DOMAIN applications[interviewed[i][1]]
    BY <1>1 DEF OfSubmitted, Submitted
  <2>4. \A o \in Outcome : outcomes[o] # None =>
          /\ outcomes[o] \in OutcomeRow
          /\ outcomes[o].revision \in DOMAIN applications[outcomes[o].application]
    BY <1>1 DEF Tables, Null, OfSubmitted, Submitted
  <2> QED BY <1>1, <2>1, <2>2, <2>3, <2>4 DEF ApplicationTypeOK, Tables
<1>3. ASSUME NEW a \in Application, NEW n, Submitted(a, n)
      PROVE  /\ applications[a][n].authority # None
             /\ applications[a][n].resume = Exact(a).resume
             /\ applications[a][n].receipt = Exact(a).receipt
  <2> DEFINE row == applications[a][n]
  <2>1. /\ n \in 1..Len(applications[a]) /\ Len(applications[a]) \in Nat
        /\ DOMAIN applications[a] = 1..Len(applications[a])
        /\ row \in ApplicationRow /\ row.state \notin Preparation
    BY <1>1, <1>3 DEF Tables, Submitted
  <2>2. row.authority # None
    BY <2>1 DEF ApplicationRow
  <2>3. CASE n = Len(applications[a])
    BY <2>2, <2>3 DEF Exact
  <2>4. CASE n # Len(applications[a])
    <3>0. Len(applications[a]) \in DOMAIN applications[a] /\ n < Len(applications[a])
      BY <2>1, <2>4
    <3>1. Exact(a) = [row EXCEPT !.state = Exact(a).state]
      BY <1>1, <2>1, <3>0, MovesOn DEF Exact
    <3>2. Exact(a).resume = row.resume /\ Exact(a).receipt = row.receipt
      BY <2>1, <3>1 DEF ApplicationRow
    <3> QED BY <2>2, <3>2
  <2> QED BY <2>3, <2>4
<1>4. StandsOnSubmission
  <2>1. \A o \in Outcome : outcomes[o] # None => outcomes[o].application \in Application
    BY <1>1 DEF Tables, Null, OutcomeRow
  <2> QED BY <1>1, <1>3, <2>1 DEF StandsOnSubmission, OfSubmitted
<1> QED
  BY <1>1, <1>2, <1>4 DEF SubmissionsHold

(* An application is submitted once, its later revisions carry what was submitted,
   interviews and outcomes rest on that submission, and an interview ends at most once. *)
THEOREM SubmissionSafety ==
    ASSUME ApplicationAssumption
    PROVE  ApplicationSpec => []SubmissionsHold
<1>1. ApplicationSpec => []RecordsInv
  <2>1. ApplicationInit => RecordsInv
    BY RecordsInit
  <2>2. RecordsInv /\ [ApplicationNext]_applicationVars => RecordsInv'
    BY RecordsNext
  <2> QED BY <2>1, <2>2, PTL DEF ApplicationSpec
<1> QED
  BY <1>1, RecordsInvSuffices, PTL
-----------------------------------------------------------------------------
(* A non-empty set of natural numbers has a least element. *)
LEMMA LeastNatural ==
    ASSUME NEW T \in SUBSET Nat, T # {}
    PROVE  \E x \in T : \A y \in T : x <= y
<1> DEFINE Below == {0..n : n \in T}
<1>1. Below \subseteq FiniteSubsetsOf(Nat)
  <2>1. \A n \in Nat : IsFiniteSet(0..n)
    BY FS_Interval
  <2> QED BY <2>1 DEF FiniteSubsetsOf
<1>2. Below # {}
  OBVIOUS
<1> HIDE DEF Below
<1>3. PICK B \in Below : \A D \in Below : <<D, B>> \notin StrictSubsetOrdering(Nat)
  BY <1>1, <1>2, WFMin, FS_StrictSubsetOrderingWellFounded, Zenon
<1>4. PICK x \in T : B = 0..x
  BY DEF Below
<1>5. ASSUME NEW y \in T, y < x PROVE FALSE
  <2>1. 0..y \in Below
    BY DEF Below
  <2>2. 0..y \subseteq 0..x /\ 0..y # 0..x
    BY <1>5
  <2>3. <<0..y, B>> \in StrictSubsetOrdering(Nat)
    BY <2>2, <1>4 DEF StrictSubsetOrdering
  <2> QED BY <2>1, <2>3, <1>3
<1> QED
  BY <1>5

(* A bounded one has a greatest. *)
LEMMA GreatestNatural ==
    ASSUME NEW T \in SUBSET Nat, T # {}, NEW b \in Nat, \A x \in T : x <= b
    PROVE  \E x \in T : \A y \in T : y <= x
<1> DEFINE Bounds == {n \in Nat : \A x \in T : x <= n}
<1>1. PICK n \in Bounds : \A m \in Bounds : n <= m
  BY LeastNatural
<1>2. ASSUME n \notin T PROVE FALSE
  <2>1. PICK x \in T : TRUE
    OBVIOUS
  <2>2. x <= n /\ x # n /\ x \in Nat /\ n \in Nat
    BY <1>2, <2>1
  <2>3. \A y \in T : y \in Nat /\ y <= n /\ y # n
    BY <1>2
  <2>4. n - 1 \in Bounds
    BY <2>2, <2>3
  <2>5. n <= n - 1
    BY <2>4, <1>1
  <2> QED BY <2>2, <2>5
<1> QED
  BY <1>2

-----------------------------------------------------------------------------
TurnRow == [session : Session, sequence : 1..MaxTurns, interview : Interview,
            refs : SUBSET EvidenceRef]

Said == [session : Session, interview : Interview, refs : SUBSET EvidenceRef, last : 0..MaxTurns]

(* A revision of the interview held the evidence. *)
Held(i, refs) ==
    \E n \in DOMAIN interviews[i] : refs \subseteq interviews[i][n].evidence

(* What a thread has read was true of a stored turn and a stored revision, which
   no later step takes away. *)
ReadsWereTrue ==
    \A t \in Turn : speaking[t] # Silent =>
        LET said == speaking[t] IN
        /\ said \in Said
        /\ said.last = 0 \/ \E e \in turns : e.session = said.session /\ e.sequence = said.last
        /\ Held(said.interview, said.refs)

(* The inductive invariant for TurnsAreNumbered. *)
TurnsInv ==
    /\ RecordsInv
    /\ turns \subseteq TurnRow
    /\ speaking \in [Turn -> Said \cup {Silent}]
    /\ ReadsWereTrue
    /\ TurnsAreNumbered

(* No step loses a revision of an interview. *)
LEMMA HeldStays ==
    ASSUME Tables, [ApplicationNext]_applicationVars, NEW i \in Interview, NEW refs, Held(i, refs)
    PROVE  Held(i, refs)'
<1>1. CASE UNCHANGED interviews
  BY <1>1 DEF Held
<1>2. ASSUME NEW j \in Interview, ScheduleInterview(j) \/ EndInterview(j)
      PROVE  Held(i, refs)'
  <2>1. PICK row \in InterviewRow : interviews' = [interviews EXCEPT ![j] = Append(@, row)]
    BY <1>2 DEF ScheduleInterview, EndInterview, InterviewTransition, StageInterview
  <2>2. interviews[j] \in Seq(InterviewRow) /\ interviews[i] \in Seq(InterviewRow)
    BY DEF Tables
  <2>3. CASE i = j
    <3> DEFINE s == interviews[i]
    <3>1. /\ DOMAIN s = 1..Len(s) /\ DOMAIN Append(s, row) = 1..(Len(s) + 1) /\ Len(s) \in Nat
          /\ \A n \in 1..Len(s) : Append(s, row)[n] = s[n]
      BY <2>2
    <3>2. interviews'[i] = Append(s, row)
      BY <2>1, <2>3 DEF Tables
    <3> QED BY <3>1, <3>2 DEF Held
  <2>4. CASE i # j
    BY <2>1, <2>4 DEF Tables, Held
  <2> QED BY <2>3, <2>4
<1>3. ASSUME NEW a \in Application,
             \/ CreateApplication(a) \/ SetPreparationState(a) \/ AttachPreparedResume(a)
             \/ RecordSubmission(a) \/ AdvanceState(a)
      PROVE  UNCHANGED interviews
  BY <1>3 DEF CreateApplication, SetPreparationState, AttachPreparedResume, RecordSubmission,
              AdvanceState, Revise, StageApplication
<1>4. ASSUME \/ \E o \in Outcome : RecordOutcome(o)
             \/ \E t \in Turn : Speak(t) \/ AppendTurn(t)
             \/ UNCHANGED applicationVars
      PROVE  UNCHANGED interviews
  BY <1>4 DEF RecordOutcome, Speak, AppendTurn, applicationVars
<1> QED
  BY <1>1, <1>2, <1>3, <1>4 DEF ApplicationNext

(* What does not touch the turns keeps their invariant. *)
LEMMA TurnsUntouched ==
    ASSUME TurnsInv, RecordsInv', [ApplicationNext]_applicationVars, UNCHANGED <<turns, speaking>>
    PROVE  TurnsInv'
<1>1. \A i \in Interview : \A refs : Held(i, refs) => Held(i, refs)'
  BY HeldStays DEF TurnsInv, RecordsInv
<1>2. ReadsWereTrue'
  <2>1. \A said \in Said : said.interview \in Interview
    BY DEF Said
  <2> QED BY <1>1, <2>1 DEF TurnsInv, ReadsWereTrue
<1>3. TurnsAreNumbered'
  <2>1. \A e \in turns : e.interview \in Interview
    BY DEF TurnsInv, TurnRow
  <2>2. \A e \in turns : e.session \in Session => Held(e.interview, e.refs)
    BY DEF TurnsInv, TurnsAreNumbered, Held
  <2>3. \A e \in turns : e.session \in Session => Held(e.interview, e.refs)'
    BY <1>1, <2>1, <2>2
  <2> QED BY <2>3 DEF TurnsInv, TurnsAreNumbered, Held
<1> QED
  BY <1>2, <1>3 DEF TurnsInv

LEMMA SpeakInvariance ==
    ASSUME ApplicationAssumption, TurnsInv, RecordsInv', NEW t \in Turn, Speak(t)
    PROVE  TurnsInv'
<1> DEFINE sequences(s) == {e.sequence : e \in {x \in turns : x.session = s}}
           last(s) == CHOOSE n \in sequences(s) \cup {0} : \A m \in sequences(s) : m <= n
<1>1. PICK i \in Interview, s \in Session :
        /\ interviews[i] # <<>>
        /\ \E refs \in SUBSET interviews[i][Len(interviews[i])].evidence :
            speaking' = [speaking EXCEPT ![t] =
                [session |-> s, interview |-> i, refs |-> refs, last |-> last(s)]]
  BY DEF Speak
<1>2. PICK refs \in SUBSET interviews[i][Len(interviews[i])].evidence :
        speaking' = [speaking EXCEPT ![t] =
            [session |-> s, interview |-> i, refs |-> refs, last |-> last(s)]]
  BY <1>1
<1>3. UNCHANGED <<turns, interviews>>
  BY DEF Speak
<1>4. last(s) \in sequences(s) \cup {0}
  <2>1. sequences(s) \cup {0} \in SUBSET Nat /\ \A x \in sequences(s) \cup {0} : x <= MaxTurns
    BY DEF TurnsInv, TurnRow, ApplicationAssumption
  <2> HIDE DEF sequences
  <2>2. \E n \in sequences(s) \cup {0} : \A m \in sequences(s) \cup {0} : m <= n
    BY <2>1, GreatestNatural DEF ApplicationAssumption
  <2>3. \E n \in sequences(s) \cup {0} : \A m \in sequences(s) : m <= n
    BY <2>2
  <2> DEFINE greatest(n) == \A m \in sequences(s) : m <= n
  <2>4. \E n \in sequences(s) \cup {0} : greatest(n)
    BY <2>3
  <2> HIDE DEF greatest
  <2>5. (CHOOSE n \in sequences(s) \cup {0} : greatest(n)) \in sequences(s) \cup {0}
    BY <2>4
  <2> QED BY <2>5 DEF greatest
<1> DEFINE said == [session |-> s, interview |-> i, refs |-> refs, last |-> last(s)]
<1>5. /\ interviews[i] \in Seq(InterviewRow)
      /\ Len(interviews[i]) \in DOMAIN interviews[i]
      /\ interviews[i][Len(interviews[i])] \in InterviewRow
  BY <1>1 DEF TurnsInv, RecordsInv, Tables
<1>6. Held(i, refs)
  BY <1>2, <1>5 DEF Held
<1>7. last(s) = 0 \/ \E e \in turns : e.session = s /\ e.sequence = last(s)
  BY <1>4
<1> HIDE DEF last, sequences
<1>8. last(s) \in 0..MaxTurns
  BY <1>7 DEF TurnsInv, TurnRow, ApplicationAssumption
<1>9. said \in Said
  BY <1>2, <1>5, <1>8 DEF Said, InterviewRow
<1>10. \A u \in Turn : speaking'[u] = IF u = t THEN said ELSE speaking[u]
  BY <1>2 DEF TurnsInv
<1>11. said.session = s /\ said.last = last(s) /\ said.interview = i /\ said.refs = refs
  OBVIOUS
<1> HIDE DEF said
<1>12. speaking' \in [Turn -> Said \cup {Silent}]
  BY <1>2, <1>9 DEF TurnsInv, said
<1>13. ReadsWereTrue'
  <2>1. \A j, r : Held(j, r) <=> Held(j, r)'
    BY <1>3 DEF Held
  <2> QED BY <1>3, <1>6, <1>7, <1>9, <1>10, <1>11, <2>1 DEF TurnsInv, ReadsWereTrue
<1>14. TurnsAreNumbered'
  BY <1>3 DEF TurnsInv, TurnsAreNumbered
<1> QED
  BY <1>3, <1>12, <1>13, <1>14 DEF TurnsInv

LEMMA AppendTurnInvariance ==
    ASSUME ApplicationAssumption, TurnsInv, RecordsInv', NEW t \in Turn, AppendTurn(t)
    PROVE  TurnsInv'
<1> DEFINE said == speaking[t]
           n == said.last + 1
           turn == [session |-> said.session, sequence |-> n,
                    interview |-> said.interview, refs |-> said.refs]
<1>1. /\ said # Silent
      /\ turns' = IF Free(said.session, n) /\ n <= MaxTurns THEN turns \cup {turn} ELSE turns
      /\ speaking' = [speaking EXCEPT ![t] = Silent]
      /\ interviews' = interviews
  BY DEF AppendTurn
<1>2. /\ said \in Said
      /\ said.last = 0 \/ \E e \in turns : e.session = said.session /\ e.sequence = said.last
      /\ Held(said.interview, said.refs)
  BY <1>1 DEF TurnsInv, ReadsWereTrue
<1>3. /\ n \in Nat \ {0} /\ said.session \in Session /\ said.interview \in Interview
      /\ said.refs \in SUBSET EvidenceRef
      /\ said.last = n - 1
  BY <1>2 DEF Said, ApplicationAssumption
<1>4. \A j, r : Held(j, r) <=> Held(j, r)'
  BY <1>1 DEF Held
<1>5. turns \subseteq turns'
  BY <1>1
<1>6. ReadsWereTrue'
  <2>1. \A u \in Turn : speaking'[u] # Silent => speaking'[u] = speaking[u]
    BY <1>1 DEF TurnsInv
  <2> QED BY <1>4, <1>5, <2>1 DEF TurnsInv, ReadsWereTrue
<1>7. speaking' \in [Turn -> Said \cup {Silent}]
  BY <1>1 DEF TurnsInv
<1>8. CASE turns' = turns
  <2>1. TurnsAreNumbered'
    BY <1>1, <1>8 DEF TurnsInv, TurnsAreNumbered
  <2> QED BY <1>6, <1>7, <1>8, <2>1 DEF TurnsInv
<1>9. CASE turns' # turns
  <2>1. Free(said.session, n) /\ n <= MaxTurns /\ turns' = turns \cup {turn}
    BY <1>1, <1>9
  <2>2. turn \in TurnRow
    BY <1>3, <2>1 DEF TurnRow, ApplicationAssumption
  <2>3. turn.session = said.session /\ turn.sequence = n /\ turn.interview = said.interview
        /\ turn.refs = said.refs
    OBVIOUS
  <2> HIDE DEF turn
  <2>4. TurnsAreNumbered'
    <3> SUFFICES ASSUME NEW s \in Session
                 PROVE  LET spoken == {e \in turns' : e.session = s} IN
                        /\ \A e, f \in spoken : e.sequence = f.sequence => e = f
                        /\ \A e \in spoken :
                            e.sequence = 1 \/ \E f \in spoken : f.sequence = e.sequence - 1
                        /\ \A e \in spoken : Held(e.interview, e.refs)'
      BY DEF TurnsAreNumbered, Held
    <3>1. /\ \A e, f \in turns : e.session = s /\ f.session = s /\ e.sequence = f.sequence => e = f
          /\ \A e \in turns : e.session = s => e.sequence = 1
                \/ \E f \in turns : f.session = s /\ f.sequence = e.sequence - 1
          /\ \A e \in turns : e.session = s => Held(e.interview, e.refs)
      BY DEF TurnsInv, TurnsAreNumbered, Held
    <3>2. \A e \in turns : ~(e.session = said.session /\ e.sequence = n)
      BY <2>1 DEF Free
    <3>3. turn.sequence = 1 \/ \E f \in turns : f.session = said.session
                                                /\ f.sequence = turn.sequence - 1
      BY <1>2, <1>3, <2>3
    <3> HIDE DEF n, said
    <3>4. \A e, f \in turns' : e.session = s /\ f.session = s /\ e.sequence = f.sequence => e = f
      BY <2>1, <2>3, <3>1, <3>2
    <3>5. \A e \in turns' : e.session = s => e.sequence = 1
                \/ \E f \in turns' : f.session = s /\ f.sequence = e.sequence - 1
      BY <2>1, <2>3, <3>1, <3>3
    <3>6. \A e \in turns' : e.session = s => Held(e.interview, e.refs)'
      BY <1>2, <1>4, <2>1, <2>3, <3>1
    <3> QED BY <3>4, <3>5, <3>6
  <2> QED BY <1>6, <1>7, <2>1, <2>2, <2>4 DEF TurnsInv
<1> QED
  BY <1>8, <1>9

(* Concurrent turns of a session are numbered without a gap or a repetition, and cite
   only evidence that a revision of their interview held. *)
THEOREM TurnSafety ==
    ASSUME ApplicationAssumption
    PROVE  ApplicationSpec => []TurnsAreNumbered
<1>1. ApplicationInit => TurnsInv
  <2>1. ApplicationInit => RecordsInv
    BY RecordsInit
  <2> QED BY <2>1 DEF ApplicationInit, TurnsInv, ReadsWereTrue, TurnsAreNumbered
<1>2. TurnsInv /\ [ApplicationNext]_applicationVars => TurnsInv'
  <2> SUFFICES ASSUME TurnsInv, [ApplicationNext]_applicationVars PROVE TurnsInv'
    OBVIOUS
  <2>1. RecordsInv'
    BY RecordsNext DEF TurnsInv
  <2>2. ASSUME NEW t \in Turn, Speak(t) \/ AppendTurn(t) PROVE TurnsInv'
    BY <2>1, <2>2, SpeakInvariance, AppendTurnInvariance
  <2>3. CASE ~\E t \in Turn : Speak(t) \/ AppendTurn(t)
    <3>1. UNCHANGED <<turns, speaking>>
      <4>1. ASSUME NEW a \in Application,
                   \/ CreateApplication(a) \/ SetPreparationState(a)
                   \/ AttachPreparedResume(a) \/ RecordSubmission(a) \/ AdvanceState(a)
            PROVE  UNCHANGED <<turns, speaking>>
        BY <4>1 DEF CreateApplication, SetPreparationState, AttachPreparedResume,
                    RecordSubmission, AdvanceState, Revise, StageApplication
      <4>2. ASSUME NEW i \in Interview, ScheduleInterview(i) \/ EndInterview(i)
            PROVE  UNCHANGED <<turns, speaking>>
        BY <4>2 DEF ScheduleInterview, EndInterview, InterviewTransition, StageInterview
      <4>3. ASSUME NEW o \in Outcome, RecordOutcome(o) PROVE UNCHANGED <<turns, speaking>>
        BY <4>3 DEF RecordOutcome
      <4> QED BY <2>3, <4>1, <4>2, <4>3 DEF ApplicationNext, applicationVars
    <3> QED BY <2>1, <3>1, TurnsUntouched
  <2> QED BY <2>2, <2>3
<1>3. TurnsInv => TurnsAreNumbered
  BY DEF TurnsInv
<1> QED
  BY <1>1, <1>2, <1>3, PTL DEF ApplicationSpec

-----------------------------------------------------------------------------
(* Communications. *)
Steps == {"idle", "count", "create", "review", "transition"}

Types ==
    /\ drafts \in [Message -> Draft \cup {None}]
    /\ day \in 1..MaxDay
    /\ cstep \in [Client -> Steps]
    /\ DOMAIN cheld = Client
    /\ answered \in [Message -> SUBSET (Reason \cup {None})]

Fields == {"message", "value", "reason", "day", "limit", "counted", "today"}

Beyond == {"sent", "replied", "follow_up"}

(* A draft that was approved, or went on from there, has the reason of its review and
   was not over the limit; the limit decides of a new draft whether it is pending.  It is
   counted no earlier than it is built. *)
RowIsSound(m) ==
    drafts[m] # None =>
        /\ drafts[m].day <= drafts[m].counted /\ drafts[m].counted <= day
        /\ drafts[m].status \in Beyond \cup {"approved"} =>
              drafts[m].reason # None /\ ~drafts[m].limited
        /\ drafts[m].status = "pending_review" => ~drafts[m].limited

(* What has been answered is the reason the draft has for good. *)
AnswerStands(m) ==
    /\ answered[m] # {} => drafts[m] # None /\ drafts[m].status # "pending_review"
    /\ \A reason \in answered[m] : reason = drafts[m].reason

(* A request writes to a stored draft, by what the status was when it was read. *)
RequestIsSound(c) ==
    /\ cstep[c] # "idle" => cheld[c].message \in Message
    /\ DOMAIN cheld[c] = Fields
    /\ cstep[c] \in {"count", "create"} =>
        /\ cheld[c].value \in Body /\ cheld[c].limit \in DailyLimits
        /\ cheld[c].day \in 1..day
    /\ cstep[c] = "create" => cheld[c].counted \in cheld[c].day..day
    /\ cstep[c] = "review" =>
        /\ drafts[cheld[c].message] # None
        /\ cheld[c].value \in {"approved", "rejected"}
        /\ cheld[c].reason \in Reason
        /\ ~drafts[cheld[c].message].limited
    /\ cstep[c] = "transition" =>
        /\ drafts[cheld[c].message] # None
        /\ cheld[c].value \in Beyond \cup {"blocked", "closed"}
        /\ drafts[cheld[c].message].status # "pending_review"
        /\ cheld[c].value \in Beyond =>
              /\ drafts[cheld[c].message].reason # None
              /\ ~drafts[cheld[c].message].limited

(* The inductive invariant. *)
DraftsInv ==
    /\ Types
    /\ \A m \in Message : RowIsSound(m) /\ AnswerStands(m)
    /\ \A c \in Client : RequestIsSound(c)

-----------------------------------------------------------------------------
(* What a step does to a stored draft: nothing, a decision while it is pending, or a
   transition once it is not. *)
DraftStep(m) ==
    \/ drafts'[m] = drafts[m]
    \/ /\ drafts[m].status = "pending_review"
       /\ \E value \in {"approved", "rejected"}, reason \in Reason :
            drafts'[m] = [drafts[m] EXCEPT !.status = value, !.reason = reason]
    \/ /\ drafts[m].status # "pending_review"
       /\ \E value \in Beyond \cup {"blocked", "closed"} :
            /\ drafts'[m] = [drafts[m] EXCEPT !.status = value]
            /\ value \in Beyond => drafts[m].reason # None /\ ~drafts[m].limited

LEMMA AllowedValues ==
    ASSUME NEW status \in Status, NEW value \in Allowed[status]
    PROVE  /\ value \in Beyond \cup {"blocked", "closed"}
           /\ status \notin {"pending_review", "closed", "rejected"}
           /\ value \in Beyond => status \in Beyond \cup {"approved"}
BY DEF Allowed, Status, Beyond

LEMMA RowFields ==
    ASSUME NEW row \in Draft
    PROVE  row.status \in Status /\ row.reason \in Reason \cup {None} /\ row.limited \in BOOLEAN
BY DEF Draft

(* The fields that are written once. *)
Origin(row) == <<row.day, row.limit, row.counted, row.limited>>

LEMMA DayGrows ==
    ASSUME CommunicationAssumption, DraftsInv, [CommunicationNext]_communicationVars
    PROVE  day \in 1..MaxDay /\ day' \in 1..MaxDay /\ day <= day' /\ MaxDay \in Nat
<1>1. day' = day \/ (day' = day + 1 /\ day < MaxDay)
  BY DEF CommunicationNext, NewDay, AskCreate, Count, Create, AskReview, Review,
         AskTransition, Transition, communicationVars
<1> QED BY <1>1 DEF DraftsInv, Types, CommunicationAssumption

LEMMA StoredStaysSound ==
    ASSUME CommunicationAssumption, DraftsInv, [CommunicationNext]_communicationVars,
           NEW m \in Message, drafts[m] # None, DraftStep(m)
    PROVE  /\ drafts'[m] \in Draft
           /\ drafts'[m] # None
           /\ Origin(drafts'[m]) = Origin(drafts[m])
           /\ drafts[m].reason # None => drafts'[m].reason # None
           /\ drafts[m].status # "pending_review" =>
                /\ drafts'[m].status # "pending_review"
                /\ drafts'[m].reason = drafts[m].reason
           /\ RowIsSound(m)'
<1>1. drafts[m] \in Draft /\ RowIsSound(m)
  BY DEF DraftsInv, Types
<1>2. None \notin Draft /\ None \notin Reason
  BY DEF CommunicationAssumption
<1>6. /\ drafts[m].day <= drafts[m].counted /\ drafts[m].counted <= day'
      /\ drafts[m].day \in Int /\ drafts[m].counted \in Int
  <2>1. drafts[m].counted <= day /\ drafts[m].day <= drafts[m].counted
    BY <1>1 DEF RowIsSound
  <2>2. drafts[m].counted \in 1..MaxDay /\ drafts[m].day \in 1..MaxDay
    BY <1>1 DEF Draft
  <2>3. day \in Int /\ day' \in Int /\ day <= day'
    BY DayGrows
  <2> QED BY <2>1, <2>2, <2>3
<1>3. CASE drafts'[m] = drafts[m]
  BY <1>1, <1>3, <1>6 DEF RowIsSound
<1>4. ASSUME drafts[m].status = "pending_review",
             NEW value \in {"approved", "rejected"}, NEW reason \in Reason,
             drafts'[m] = [drafts[m] EXCEPT !.status = value, !.reason = reason]
      PROVE  /\ drafts'[m] \in Draft
             /\ Origin(drafts'[m]) = Origin(drafts[m])
             /\ drafts'[m].reason # None
             /\ RowIsSound(m)'
  <2>1. value \in Status
    BY DEF Status
  <2>2. drafts'[m] \in Draft /\ drafts'[m].status = value /\ drafts'[m].reason = reason
        /\ Origin(drafts'[m]) = Origin(drafts[m])
    BY <1>1, <1>4, <2>1 DEF Draft, Origin
  <2>3. ~drafts[m].limited
    BY <1>1, <1>4 DEF RowIsSound
  <2> QED BY <1>2, <1>6, <2>2, <2>3 DEF RowIsSound, Beyond, Origin
<1>5. ASSUME drafts[m].status # "pending_review", NEW value \in Beyond \cup {"blocked", "closed"},
             drafts'[m] = [drafts[m] EXCEPT !.status = value],
             value \in Beyond => drafts[m].reason # None /\ ~drafts[m].limited
      PROVE  /\ drafts'[m] \in Draft
             /\ Origin(drafts'[m]) = Origin(drafts[m])
             /\ drafts'[m].reason = drafts[m].reason
             /\ drafts'[m].status # "pending_review"
             /\ RowIsSound(m)'
  <2>1. value \in Status /\ value # "pending_review" /\ value # "approved"
    BY DEF Status, Beyond
  <2>2. drafts'[m] \in Draft /\ drafts'[m].status = value
        /\ drafts'[m].reason = drafts[m].reason
        /\ Origin(drafts'[m]) = Origin(drafts[m])
    BY <1>1, <1>5, <2>1 DEF Draft, Origin
  <2> QED BY <1>1, <1>5, <1>6, <2>1, <2>2 DEF RowIsSound, Origin
<1> QED
  BY <1>2, <1>3, <1>4, <1>5 DEF DraftStep

(* Every step leaves each stored draft as it is or does what DraftStep says. *)
LEMMA EveryDraftStep ==
    ASSUME CommunicationAssumption, DraftsInv, [CommunicationNext]_communicationVars,
           NEW m \in Message, drafts[m] # None
    PROVE  DraftStep(m)
<1>1. CASE UNCHANGED drafts
  BY <1>1 DEF DraftStep
<1>2. ASSUME NEW c \in Client, Create(c) PROVE DraftStep(m)
  BY <1>2 DEF Create, DraftStep, DraftsInv, Types
<1>3. ASSUME NEW c \in Client, Review(c) PROVE DraftStep(m)
  <2>1. cstep[c] = "review" /\ RequestIsSound(c)
    BY <1>3 DEF Review, DraftsInv
  <2>2. CASE m = cheld[c].message /\ StillPending(m)
    <3>1. drafts' = [drafts EXCEPT ![m].status = cheld[c].value, ![m].reason = cheld[c].reason]
      BY <1>3, <2>2 DEF Review
    <3>2. drafts'[m] =
            [drafts[m] EXCEPT !.status = cheld[c].value, !.reason = cheld[c].reason]
      BY <3>1 DEF DraftsInv, Types
    <3> QED BY <2>1, <2>2, <3>2 DEF RequestIsSound, StillPending, DraftStep
  <2>3. CASE ~(m = cheld[c].message /\ StillPending(m))
    <3>1. drafts'[m] = drafts[m]
      BY <1>3, <2>3 DEF Review, DraftsInv, Types
    <3> QED BY <3>1 DEF DraftStep
  <2> QED BY <2>2, <2>3
<1>4. ASSUME NEW c \in Client, Transition(c) PROVE DraftStep(m)
  <2>1. cstep[c] = "transition" /\ RequestIsSound(c)
    BY <1>4 DEF Transition, DraftsInv
  <2>2. drafts' = [drafts EXCEPT ![cheld[c].message].status = cheld[c].value]
    BY <1>4 DEF Transition
  <2>3. CASE m = cheld[c].message
    <3>1. drafts'[m] = [drafts[m] EXCEPT !.status = cheld[c].value]
      BY <2>2, <2>3 DEF DraftsInv, Types
    <3> QED BY <2>1, <2>3, <3>1 DEF RequestIsSound, DraftStep
  <2>4. CASE m # cheld[c].message
    BY <2>2, <2>4 DEF DraftStep, DraftsInv, Types
  <2> QED BY <2>3, <2>4
<1>5. ASSUME NEW c \in Client, AskCreate(c) \/ Count(c) \/ AskReview(c) \/ AskTransition(c)
      PROVE  UNCHANGED drafts
  BY <1>5 DEF AskCreate, Count, AskReview, AskTransition
<1> QED
  BY <1>1, <1>2, <1>3, <1>4, <1>5 DEF CommunicationNext, NewDay, communicationVars

(* A request that a step leaves alone stays sound. *)
LEMMA RequestStays ==
    ASSUME CommunicationAssumption, DraftsInv, [CommunicationNext]_communicationVars,
           NEW c \in Client, cstep'[c] = cstep[c], cheld'[c] = cheld[c]
    PROVE  RequestIsSound(c)'
<1>1. RequestIsSound(c)
  BY DEF DraftsInv
<1> DEFINE m == cheld[c].message
<1>2. ASSUME cstep[c] \in {"review", "transition"}
      PROVE  /\ m \in Message /\ drafts[m] # None /\ drafts'[m] # None
             /\ drafts'[m].limited = drafts[m].limited
             /\ drafts[m].reason # None => drafts'[m].reason # None
             /\ drafts[m].status # "pending_review" => drafts'[m].status # "pending_review"
  <2>1. m \in Message /\ drafts[m] # None
    BY <1>1, <1>2 DEF RequestIsSound
  <2> QED BY <2>1, EveryDraftStep, StoredStaysSound DEF Origin
<1>3. \A d \in Int : \A e \in d..day : e \in d..day'
  BY DayGrows
<1>4. /\ cstep[c] \in {"count", "create"} => cheld[c].day \in 1..day'
      /\ cstep[c] = "create" => cheld[c].counted \in cheld[c].day..day'
  BY <1>1, <1>3, DayGrows DEF RequestIsSound
<1> QED
  BY <1>1, <1>2, <1>4 DEF RequestIsSound

LEMMA OthersWait ==
    ASSUME Types, NEW c \in Client, NEW next, NEW holding, Step(c, next, holding)
    PROVE  /\ cstep'[c] = next /\ cheld'[c] = holding
           /\ \A d \in Client \ {c} : cstep'[d] = cstep[d] /\ cheld'[d] = cheld[d]
           /\ DOMAIN cheld' = Client
           /\ next \in Steps =>
                cstep' \in [Client -> Steps]
BY DEF Types, Step

(* A row that is not stored becomes a new draft or stays away. *)
LEMMA NewDrafts ==
    ASSUME CommunicationAssumption, DraftsInv, [CommunicationNext]_communicationVars,
           NEW m \in Message, drafts[m] = None, drafts'[m] # drafts[m]
    PROVE  \E c \in Client :
            /\ Create(c) /\ cheld[c].message = m
            /\ drafts'[m] = NewDraft(cheld[c])
<1>1. CASE UNCHANGED drafts
  BY <1>1
<1>2. ASSUME NEW c \in Client, Create(c)
      PROVE  /\ cheld[c].message = m
             /\ drafts'[m] = NewDraft(cheld[c])
  BY <1>2 DEF Create, DraftsInv, Types
<1>3. ASSUME NEW c \in Client, Review(c) \/ Transition(c) PROVE FALSE
  <2>1. cheld[c].message \in Message /\ drafts[cheld[c].message] # None
    BY <1>3 DEF Review, Transition, DraftsInv, RequestIsSound
  <2>2. m # cheld[c].message
    BY <2>1
  <2> QED BY <1>3, <2>2 DEF Review, Transition, DraftsInv, Types
<1>4. ASSUME NEW c \in Client, AskCreate(c) \/ Count(c) \/ AskReview(c) \/ AskTransition(c)
      PROVE  UNCHANGED drafts
  BY <1>4 DEF AskCreate, Count, AskReview, AskTransition
<1> QED
  BY <1>1, <1>2, <1>3, <1>4 DEF CommunicationNext, NewDay, communicationVars

LEMMA NewDraftIsSound ==
    ASSUME CommunicationAssumption, DraftsInv, [CommunicationNext]_communicationVars,
           NEW m \in Message, drafts[m] = None
    PROVE  drafts'[m] \in Draft \cup {None} /\ RowIsSound(m)'
<1>1. CASE drafts'[m] = drafts[m]
  BY <1>1 DEF RowIsSound
<1>2. CASE drafts'[m] # drafts[m]
  <2>1. PICK c \in Client :
          /\ Create(c)
          /\ drafts'[m] = NewDraft(cheld[c])
    BY <1>2, NewDrafts
  <2> DEFINE h == cheld[c]
  <2>2. /\ h.value \in Body /\ h.limit \in DailyLimits
        /\ h.day \in 1..day /\ h.counted \in h.day..day
    BY <2>1 DEF Create, DraftsInv, RequestIsSound
  <2>3. OverLimit(h.today, h.limit) \in BOOLEAN
    BY DEF OverLimit
  <2>6. day \in 1..MaxDay /\ day' \in Int /\ day <= day' /\ MaxDay \in Nat
    BY DayGrows
  <2>7. h.day \in 1..MaxDay /\ h.counted \in 1..MaxDay /\ h.day <= h.counted /\ h.counted <= day'
    BY <2>2, <2>6
  <2>4. drafts'[m] \in Draft
    BY <2>1, <2>2, <2>3, <2>7 DEF NewDraft, Draft, Status
  <2>5. RowIsSound(m)'
    BY <2>1, <2>3, <2>7 DEF NewDraft, RowIsSound, Beyond
  <2> QED BY <2>4, <2>5
<1> QED
  BY <1>1, <1>2

LEMMA AnswersStand ==
    ASSUME CommunicationAssumption, DraftsInv, [CommunicationNext]_communicationVars,
           NEW m \in Message
    PROVE  answered'[m] \subseteq Reason \cup {None} /\ DOMAIN answered' = Message
           /\ AnswerStands(m)'
<1>1. AnswerStands(m) /\ answered \in [Message -> SUBSET (Reason \cup {None})]
  BY DEF DraftsInv, Types
<1>2. CASE answered' = answered
  <2>1. CASE answered[m] = {}
    BY <1>1, <1>2, <2>1 DEF AnswerStands
  <2>2. CASE answered[m] # {}
    BY <1>1, <1>2, <2>2, EveryDraftStep, StoredStaysSound DEF AnswerStands
  <2> QED BY <2>1, <2>2
<1>3. ASSUME NEW c \in Client, Review(c)
      PROVE  answered'[m] \subseteq Reason \cup {None} /\ DOMAIN answered' = Message
             /\ AnswerStands(m)'
  <2> DEFINE r == cheld[c].message
  <2>1. /\ answered' = [answered EXCEPT ![r] = answered[r] \cup {drafts'[r].reason}]
        /\ drafts' = IF StillPending(r)
                     THEN [drafts EXCEPT ![r].status = cheld[c].value,
                                         ![r].reason = cheld[c].reason]
                     ELSE drafts
    BY <1>3 DEF Review
  <2>2. r \in Message /\ drafts[r] # None /\ cheld[c].value \in {"approved", "rejected"}
    <3>1. cstep[c] = "review"
      BY <1>3 DEF Review
    <3> QED BY <3>1 DEF DraftsInv, RequestIsSound
  <2>3. CASE m # r
    <3>1. drafts'[m] = drafts[m] /\ answered'[m] = answered[m]
      BY <1>1, <2>1, <2>3 DEF DraftsInv, Types
    <3> QED BY <1>1, <2>1, <3>1 DEF AnswerStands
  <2>4. CASE m = r
    <3>1. answered'[m] = answered[m] \cup {drafts'[m].reason} /\ drafts[m] # None
      BY <1>1, <2>1, <2>2, <2>4
    <3>2. drafts'[m] \in Draft /\ drafts'[m] # None
      BY <3>1, EveryDraftStep, StoredStaysSound
    <3>3. drafts'[m].reason \in Reason \cup {None}
      BY <3>2, RowFields
    <3>4. CASE StillPending(m)
      <4>1. answered[m] = {}
        BY <1>1, <3>4 DEF AnswerStands, StillPending
      <4>2. drafts'[m] =
              [drafts[m] EXCEPT !.status = cheld[c].value, !.reason = cheld[c].reason]
        BY <2>1, <2>4, <3>4 DEF DraftsInv, Types
      <4>3. drafts[m] \in Draft
        BY <3>1 DEF DraftsInv, Types
      <4>4. drafts'[m].status = cheld[c].value
        BY <4>2, <4>3 DEF Draft
      <4> QED BY <1>1, <2>1, <2>2, <3>1, <3>2, <3>3, <4>1, <4>4 DEF AnswerStands
    <3>5. CASE ~StillPending(m)
      BY <1>1, <2>1, <2>4, <3>1, <3>2, <3>3, <3>5 DEF AnswerStands, StillPending
    <3> QED BY <3>4, <3>5
  <2> QED BY <2>3, <2>4
<1>4. ASSUME NEW c \in Client, \/ AskCreate(c) \/ Count(c) \/ AskReview(c) \/ AskTransition(c)
                               \/ Create(c) \/ Transition(c)
      PROVE  answered' = answered
  BY <1>4 DEF AskCreate, Count, AskReview, AskTransition, Create, Transition
<1> QED
  BY <1>1, <1>2, <1>3, <1>4 DEF CommunicationNext, NewDay, communicationVars

(* The request that takes a step stays sound. *)
LEMMA RequestsStaySound ==
    ASSUME CommunicationAssumption, DraftsInv, [CommunicationNext]_communicationVars
    PROVE  /\ \A c \in Client : RequestIsSound(c)'
           /\ DOMAIN cheld' = Client
           /\ cstep' \in [Client -> Steps]
<1> DEFINE Goal == /\ \A c \in Client : RequestIsSound(c)'
                   /\ DOMAIN cheld' = Client
                   /\ cstep' \in [Client -> Steps]
<1>0. Types
  BY DEF DraftsInv
<1>1. CASE UNCHANGED <<cstep, cheld>>
  BY <1>0, <1>1, RequestStays DEF Types
<1>2. ASSUME NEW c \in Client, NEW next \in Steps,
             NEW holding, Step(c, next, holding), RequestIsSound(c)'
      PROVE  Goal
  <2>1. \A d \in Client \ {c} : RequestIsSound(d)'
    BY <1>0, <1>2, OthersWait, RequestStays
  <2> QED BY <1>0, <1>2, <2>1, OthersWait
<1>3. ASSUME NEW c \in Client, Done(c) PROVE Goal
  <2>1. cstep'[c] = "idle" /\ cheld'[c] = Nothing
    BY <1>0, <1>3, OthersWait DEF Done
  <2>2. RequestIsSound(c)'
    BY <2>1 DEF RequestIsSound, Nothing, Fields
  <2> QED BY <1>2, <1>3, <2>2 DEF Done, Steps
<1>4. ASSUME NEW c \in Client, AskCreate(c) PROVE Goal
  <2>1. PICK m \in Message, b \in Body, limit \in DailyLimits :
          Step(c, "count",
               [Nothing EXCEPT !.message = m, !.value = b, !.limit = limit, !.day = day])
    BY <1>4 DEF AskCreate
  <2> DEFINE h == [Nothing EXCEPT !.message = m, !.value = b, !.limit = limit, !.day = day]
  <2>2. h.message = m /\ h.value = b /\ h.limit = limit /\ h.day = day /\ DOMAIN h = Fields
    BY DEF Nothing, Fields
  <2>3. cstep'[c] = "count" /\ cheld'[c] = h
    BY <1>0, <2>1, OthersWait
  <2>5. day' = day /\ day \in 1..day
    BY <1>4, DayGrows DEF AskCreate
  <2> HIDE DEF h
  <2>4. RequestIsSound(c)'
    BY <2>2, <2>3, <2>5 DEF RequestIsSound
  <2> QED BY <1>2, <2>1, <2>4 DEF h, Steps
<1>9. ASSUME NEW c \in Client, Count(c) PROVE Goal
  <2>1. CASE drafts[cheld[c].message] = None
    <3> DEFINE h == [cheld[c] EXCEPT !.counted = day, !.today = CreatedToday]
    <3>1. Step(c, "create", h) /\ cstep[c] = "count" /\ day' = day
      BY <1>9, <2>1 DEF Count
    <3>2. /\ DOMAIN cheld[c] = Fields /\ cheld[c].message \in Message
          /\ cheld[c].value \in Body /\ cheld[c].limit \in DailyLimits
          /\ cheld[c].day \in 1..day
      BY <3>1 DEF DraftsInv, RequestIsSound
    <3>3. /\ DOMAIN h = Fields /\ h.message = cheld[c].message /\ h.value = cheld[c].value
          /\ h.limit = cheld[c].limit /\ h.day = cheld[c].day /\ h.counted = day
      BY <3>2 DEF Fields
    <3>4. cstep'[c] = "create" /\ cheld'[c] = h
      BY <1>0, <3>1, OthersWait
    <3>5. day \in cheld[c].day..day
      BY <3>2, DayGrows
    <3> HIDE DEF h
    <3>6. RequestIsSound(c)'
      BY <3>1, <3>2, <3>3, <3>4, <3>5 DEF RequestIsSound
    <3> QED BY <1>2, <3>1, <3>6 DEF Steps
  <2>2. CASE drafts[cheld[c].message] # None
    BY <1>3, <1>9, <2>2 DEF Count
  <2> QED BY <2>1, <2>2
<1>5. ASSUME NEW c \in Client, AskReview(c) PROVE Goal
  <2>1. PICK m \in Message, decision \in {"approved", "rejected"}, reason \in Reason :
          /\ drafts[m] # None
          /\ drafts[m].status = "pending_review"
          /\ Step(c, "review", [Nothing EXCEPT !.message = m, !.value = decision,
                                                !.reason = reason])
    BY <1>5 DEF AskReview
  <2> DEFINE h == [Nothing EXCEPT !.message = m, !.value = decision, !.reason = reason]
  <2>2. h.message = m /\ h.value = decision /\ h.reason = reason /\ DOMAIN h = Fields
    BY DEF Nothing, Fields
  <2>3. cstep'[c] = "review" /\ cheld'[c] = h
    BY <1>0, <2>1, OthersWait
  <2>4. drafts' = drafts /\ ~drafts[m].limited
    BY <1>5, <2>1 DEF AskReview, DraftsInv, RowIsSound
  <2> HIDE DEF h
  <2>5. RequestIsSound(c)'
    BY <2>1, <2>2, <2>3, <2>4 DEF RequestIsSound
  <2> QED BY <1>2, <2>1, <2>5 DEF h, Steps
<1>6. ASSUME NEW c \in Client, AskTransition(c) PROVE Goal
  <2>1. PICK m \in Message :
          /\ drafts[m] # None
          /\ \E status \in Allowed[drafts[m].status] :
              Step(c, "transition", [Nothing EXCEPT !.message = m, !.value = status])
    BY <1>6 DEF AskTransition
  <2>2. PICK status \in Allowed[drafts[m].status] :
          Step(c, "transition", [Nothing EXCEPT !.message = m, !.value = status])
    BY <2>1
  <2> DEFINE h == [Nothing EXCEPT !.message = m, !.value = status]
  <2>3. h.message = m /\ h.value = status /\ DOMAIN h = Fields
    BY DEF Nothing, Fields
  <2>4. cstep'[c] = "transition" /\ cheld'[c] = h
    BY <1>0, <2>2, OthersWait
  <2>5. drafts[m] \in Draft /\ RowIsSound(m)
    BY <2>1 DEF DraftsInv, Types
  <2>6. /\ status \in Beyond \cup {"blocked", "closed"}
        /\ drafts[m].status # "pending_review"
        /\ status \in Beyond => drafts[m].status \in Beyond \cup {"approved"}
    BY <2>5, AllowedValues, RowFields
  <2>7. drafts' = drafts
    BY <1>6 DEF AskTransition
  <2> HIDE DEF h
  <2>8. RequestIsSound(c)'
    BY <2>1, <2>3, <2>4, <2>5, <2>6, <2>7 DEF RequestIsSound, RowIsSound
  <2> QED BY <1>2, <2>2, <2>8 DEF h, Steps
<1>7. ASSUME NEW c \in Client, Create(c) \/ Review(c) \/ Transition(c) PROVE Done(c)
  BY <1>7 DEF Create, Review, Transition
<1>8. NewDay => UNCHANGED <<cstep, cheld>>
  BY DEF NewDay
<1> QED
  BY <1>1, <1>3, <1>4, <1>5, <1>6, <1>7, <1>8, <1>9 DEF CommunicationNext, communicationVars

LEMMA DraftsNext ==
    ASSUME CommunicationAssumption, DraftsInv, [CommunicationNext]_communicationVars
    PROVE  DraftsInv'
<1>1. \A m \in Message : drafts'[m] \in Draft \cup {None} /\ RowIsSound(m)'
  BY EveryDraftStep, StoredStaysSound, NewDraftIsSound
<1>2. \A m \in Message :
        answered'[m] \subseteq Reason \cup {None} /\ DOMAIN answered' = Message
        /\ AnswerStands(m)'
  BY AnswersStand
<1>3. /\ \A c \in Client : RequestIsSound(c)'
      /\ DOMAIN cheld' = Client
      /\ cstep' \in [Client -> Steps]
  BY RequestsStaySound
<1>4. /\ drafts' = [m \in Message |-> drafts'[m]]
      /\ answered' = [m \in Message |-> answered'[m]]
      /\ day' \in 1..MaxDay
  <2>1. /\ drafts = [m \in Message |-> drafts[m]] /\ DOMAIN drafts = Message
        /\ answered = [m \in Message |-> answered[m]] /\ DOMAIN answered = Message
        /\ day \in 1..MaxDay
    BY DEF DraftsInv, Types
  <2>2. CASE NewDay
    BY <2>1, <2>2, DayGrows DEF NewDay
  <2>3. ASSUME NEW c \in Client, AskCreate(c) \/ Count(c) \/ AskReview(c) \/ AskTransition(c)
        PROVE  UNCHANGED <<drafts, day, answered>>
    BY <2>3 DEF AskCreate, Count, AskReview, AskTransition
  <2>4. ASSUME NEW c \in Client, Create(c) \/ Transition(c)
        PROVE  /\ drafts' = [m \in Message |-> drafts'[m]]
               /\ UNCHANGED <<day, answered>>
    BY <2>1, <2>4 DEF Create, Transition
  <2>5. ASSUME NEW c \in Client, Review(c)
        PROVE  /\ drafts' = [m \in Message |-> drafts'[m]]
               /\ answered' = [m \in Message |-> answered'[m]]
               /\ UNCHANGED day
    BY <2>1, <2>5 DEF Review
  <2> QED BY <2>1, <2>2, <2>3, <2>4, <2>5 DEF CommunicationNext, communicationVars
<1>5. drafts' \in [Message -> Draft \cup {None}]
  BY <1>1, <1>4
<1>6. answered' \in [Message -> SUBSET (Reason \cup {None})]
  BY <1>2, <1>4
<1> QED
  BY <1>1, <1>2, <1>3, <1>4, <1>5, <1>6 DEF DraftsInv, Types

LEMMA DraftsInit ==
    ASSUME CommunicationAssumption, CommunicationInit
    PROVE  DraftsInv
<1>1. Types
  BY DEF CommunicationAssumption, CommunicationInit, Types, Steps
<1>2. \A m \in Message : RowIsSound(m) /\ AnswerStands(m)
  BY DEF CommunicationInit, RowIsSound, AnswerStands
<1>3. \A c \in Client : RequestIsSound(c)
  BY DEF CommunicationInit, RequestIsSound, Nothing, Fields
<1> QED
  BY <1>1, <1>2, <1>3 DEF DraftsInv

LEMMA DraftsInvSuffices ==
    ASSUME DraftsInv
    PROVE  DraftsAreDecidedOnce
<1>1. CommunicationTypeOK
  BY DEF DraftsInv, Types, RequestIsSound, CommunicationTypeOK
<1>2. OneDecision
  <2> SUFFICES ASSUME NEW m \in Message PROVE Cardinality(answered[m]) <= 1
    BY DEF OneDecision
  <2>1. \A reason \in answered[m] : reason = drafts[m].reason
    BY DEF DraftsInv, AnswerStands
  <2>2. CASE answered[m] = {}
    BY <2>2, FS_EmptySet
  <2>3. CASE answered[m] # {}
    <3>1. answered[m] = {drafts[m].reason}
      BY <2>1, <2>3
    <3>2. Cardinality(answered[m]) = 1
      BY <3>1, FS_Singleton, Zenon
    <3> QED BY <3>2
  <2> QED BY <2>2, <2>3
<1>3. SentWasApproved
  BY DEF DraftsInv, RowIsSound, Beyond, SentWasApproved
<1> QED
  BY <1>1, <1>2, <1>3 DEF DraftsAreDecidedOnce

(* Whatever users decide at once, a draft has one decision, every reviewer is shown that
   one, and only a draft that was approved within the limit is reported as sent. *)
THEOREM DecisionSafety ==
    ASSUME CommunicationAssumption
    PROVE  CommunicationSpec => []DraftsAreDecidedOnce
<1>1. CommunicationInit => DraftsInv
  BY DraftsInit
<1>2. DraftsInv /\ [CommunicationNext]_communicationVars => DraftsInv'
  BY DraftsNext
<1>3. DraftsInv => DraftsAreDecidedOnce
  BY DraftsInvSuffices
<1> QED
  BY <1>1, <1>2, <1>3, PTL DEF CommunicationSpec

-----------------------------------------------------------------------------
(* The requests that will add a draft of day d, counted on it, under a limit of at most
   `limit`; and those that hold a draft of day d which is not counted on it. *)
Counting(d, limit) ==
    {c \in Client :
        /\ cstep[c] = "create"
        /\ cheld[c].day = d /\ cheld[c].counted = d
        /\ ~OverLimit(cheld[c].today, cheld[c].limit) /\ cheld[c].limit <= limit}

Straddling(d) ==
    {c \in Client :
        /\ cstep[c] \in {"count", "create"}
        /\ cheld[c].day = d
        /\ cstep[c] = "create" => cheld[c].counted # d}

Clients == Cardinality(Client)

(* The inductive invariant of the daily limit: what is stored and what is still to come. *)
LimitInv ==
    \A d \in 1..MaxDay :
        /\ \A limit \in DailyLimits :
            Cardinality(Within(d, limit)) + Cardinality(Counting(d, limit))
                <= limit + Clients - 1
        /\ Cardinality(Late(d)) + Cardinality(Straddling(d)) <= Clients

(* What was stored, and what is to come, of one count: nothing is added, or one request
   leaves the second for one draft in the first. *)
Shifts(A, B, C, D) ==
    \/ C = A /\ D \in SUBSET B
    \/ \E x, y : y \in B /\ C = A \cup {x} /\ D = B \ {y}

LEMMA ShiftsKeepTheSum ==
    ASSUME NEW A, NEW B, NEW C, NEW D, IsFiniteSet(A), IsFiniteSet(B), Shifts(A, B, C, D)
    PROVE  /\ Cardinality(C) + Cardinality(D) <= Cardinality(A) + Cardinality(B)
           /\ {Cardinality(A), Cardinality(B), Cardinality(C), Cardinality(D)} \subseteq Nat
<1>1. Cardinality(A) \in Nat /\ Cardinality(B) \in Nat
  BY FS_CardinalityType
<1>2. CASE C = A /\ D \in SUBSET B
  <2>1. IsFiniteSet(D) /\ Cardinality(D) <= Cardinality(B)
    BY <1>2, FS_Subset
  <2>2. Cardinality(D) \in Nat
    BY <2>1, FS_CardinalityType
  <2> QED BY <1>1, <1>2, <2>1, <2>2
<1>3. ASSUME NEW x, NEW y, y \in B, C = A \cup {x}, D = B \ {y}
      PROVE  /\ Cardinality(C) + Cardinality(D) <= Cardinality(A) + Cardinality(B)
             /\ Cardinality(C) \in Nat /\ Cardinality(D) \in Nat
  <2>1. IsFiniteSet(C) /\ (Cardinality(C) = Cardinality(A) \/ Cardinality(C) = Cardinality(A) + 1)
    BY <1>3, FS_AddElement
  <2>2. IsFiniteSet(D) /\ Cardinality(D) = Cardinality(B) - 1
    BY <1>3, FS_RemoveElement
  <2>3. Cardinality(C) \in Nat /\ Cardinality(D) \in Nat
    BY <2>1, <2>2, FS_CardinalityType
  <2> QED BY <1>1, <2>1, <2>2, <2>3
<1> QED
  BY <1>1, <1>2, <1>3 DEF Shifts

LEMMA SetsFinite ==
    ASSUME CommunicationAssumption, NEW d, NEW limit
    PROVE  /\ IsFiniteSet(Within(d, limit)) /\ IsFiniteSet(Late(d))
           /\ IsFiniteSet(Counting(d, limit)) /\ Cardinality(Counting(d, limit)) <= Clients
           /\ IsFiniteSet(Straddling(d)) /\ Cardinality(Straddling(d)) <= Clients
           /\ Clients \in Nat
<1>1. Within(d, limit) \in SUBSET Message /\ Late(d) \in SUBSET Message
  BY DEF Within, Late
<1>2. Counting(d, limit) \in SUBSET Client /\ Straddling(d) \in SUBSET Client
  BY DEF Counting, Straddling
<1>3. IsFiniteSet(Message) /\ IsFiniteSet(Client)
  BY DEF CommunicationAssumption
<1> QED
  BY <1>1, <1>2, <1>3, FS_Subset, FS_CardinalityType DEF Clients

(* A draft that is not counted on its day is of an earlier day. *)
LEMMA NoneLateToday ==
    ASSUME DraftsInv
    PROVE  Late(day) = {}
<1> SUFFICES ASSUME NEW m \in Message, drafts[m] # None, drafts[m].day = day,
                    drafts[m].counted # day
             PROVE  FALSE
  BY DEF Late
<1>1. drafts[m].day <= drafts[m].counted /\ drafts[m].counted <= day
  BY DEF DraftsInv, RowIsSound
<1>2. drafts[m].counted \in 1..MaxDay /\ day \in 1..MaxDay
  BY DEF DraftsInv, Types, Draft
<1> QED BY <1>1, <1>2

(* Without a new row the drafts of a day stay the same, whatever is decided of them. *)
LEMMA StoredStays ==
    ASSUME CommunicationAssumption, DraftsInv, [CommunicationNext]_communicationVars,
           NEW m \in Message, NEW d, NEW limit, m \in Within(d, limit) \/ m \in Late(d) \/ drafts[m] # None
    PROVE  /\ m \in Within(d, limit)' <=> m \in Within(d, limit)
           /\ m \in Late(d)' <=> m \in Late(d)
<1>1. drafts[m] # None
  BY DEF Within, Late
<1>2. drafts'[m] # None /\ Origin(drafts'[m]) = Origin(drafts[m])
  BY <1>1, EveryDraftStep, StoredStaysSound
<1> QED BY <1>1, <1>2 DEF Within, Late, Origin

LEMMA NoNewRow ==
    ASSUME CommunicationAssumption, DraftsInv, [CommunicationNext]_communicationVars,
           NEW d, NEW limit, \A m \in Message : drafts[m] = None => drafts'[m] = None
    PROVE  Within(d, limit)' = Within(d, limit) /\ Late(d)' = Late(d)
<1>1. \A m \in Message : drafts[m] # None =>
        /\ m \in Within(d, limit)' <=> m \in Within(d, limit)
        /\ m \in Late(d)' <=> m \in Late(d)
  BY StoredStays
<1>2. \A m \in Message : drafts[m] = None =>
        m \notin Within(d, limit)' \cup Within(d, limit) \cup Late(d)' \cup Late(d)
  BY DEF Within, Late
<1>3. /\ Within(d, limit)' \subseteq Message /\ Within(d, limit) \subseteq Message
      /\ Late(d)' \subseteq Message /\ Late(d) \subseteq Message
  BY DEF Within, Late
<1> QED BY <1>1, <1>2, <1>3

(* An insertion moves the request that makes it from what is to come to what is stored. *)
LEMMA CreateShifts ==
    ASSUME CommunicationAssumption, DraftsInv, [CommunicationNext]_communicationVars,
           NEW c \in Client, Create(c), NEW d, NEW limit
    PROVE  /\ Shifts(Within(d, limit), Counting(d, limit), Within(d, limit)', Counting(d, limit)')
           /\ Shifts(Late(d), Straddling(d), Late(d)', Straddling(d)')
<1>1. /\ cstep[c] = "create" /\ cstep'[c] = "idle"
      /\ \A e \in Client \ {c} : cstep'[e] = cstep[e] /\ cheld'[e] = cheld[e]
  BY OthersWait DEF Create, Done, DraftsInv
<1>2. /\ Counting(d, limit)' = Counting(d, limit) \ {c}
      /\ Straddling(d)' = Straddling(d) \ {c}
  BY <1>1 DEF Counting, Straddling, OverLimit
<1>3. CASE \A m \in Message : drafts[m] = None => drafts'[m] = None
  BY <1>2, <1>3, NoNewRow DEF Shifts
<1>4. ASSUME NEW m \in Message, drafts[m] = None, drafts'[m] # None
      PROVE  /\ Shifts(Within(d, limit), Counting(d, limit),
                       Within(d, limit)', Counting(d, limit)')
             /\ Shifts(Late(d), Straddling(d), Late(d)', Straddling(d)')
  <2>1. /\ cheld[c].message = m /\ drafts'[m] = NewDraft(cheld[c])
        /\ \A n \in Message \ {m} : drafts'[n] = drafts[n]
    BY <1>4 DEF Create, DraftsInv, Types
  <2> DEFINE h == cheld[c]
  <2>2. /\ drafts'[m].day = h.day /\ drafts'[m].counted = h.counted
        /\ drafts'[m].limit = h.limit /\ drafts'[m].limited = OverLimit(h.today, h.limit)
    BY <2>1 DEF NewDraft
  <2>3. Within(d, limit)' =
            IF c \in Counting(d, limit) THEN Within(d, limit) \cup {m} ELSE Within(d, limit)
    BY <1>1, <1>4, <2>1, <2>2 DEF Within, Counting
  <2>4. Late(d)' = IF c \in Straddling(d) THEN Late(d) \cup {m} ELSE Late(d)
    BY <1>1, <1>4, <2>1, <2>2 DEF Late, Straddling
  <2> QED BY <1>2, <2>3, <2>4 DEF Shifts
<1> QED
  BY <1>3, <1>4

(* A count below the limit has seen at least the drafts that are stored within it. *)
LEMMA CountLeavesRoom ==
    ASSUME CommunicationAssumption, DraftsInv, [CommunicationNext]_communicationVars,
           LimitInv, NEW c \in Client, Count(c), NEW d \in 1..MaxDay
    PROVE  /\ \A limit \in DailyLimits :
                Cardinality(Within(d, limit)') + Cardinality(Counting(d, limit)')
                    <= limit + Clients - 1
           /\ Cardinality(Late(d)') + Cardinality(Straddling(d)') <= Clients
<1>1. /\ cstep[c] = "count" /\ drafts' = drafts
      /\ \A e \in Client \ {c} : cstep'[e] = cstep[e] /\ cheld'[e] = cheld[e]
      /\ \/ cstep'[c] = "idle"
         \/ cstep'[c] = "create"
            /\ cheld'[c] = [cheld[c] EXCEPT !.counted = day, !.today = CreatedToday]
  BY OthersWait DEF Count, Done, DraftsInv
<1>2. DOMAIN cheld[c] = Fields
  BY DEF DraftsInv, RequestIsSound
<1>3. cstep'[c] = "create" =>
        /\ cheld'[c].day = cheld[c].day /\ cheld'[c].limit = cheld[c].limit
        /\ cheld'[c].counted = day /\ cheld'[c].today = CreatedToday
  BY <1>1, <1>2 DEF Fields
<1>4. Late(d)' = Late(d) /\ \A limit : Within(d, limit)' = Within(d, limit)
  BY <1>1 DEF Late, Within
<1>5. Straddling(d)' \in SUBSET Straddling(d)
  BY <1>1, <1>3 DEF Straddling
<1>6. Cardinality(Late(d)') + Cardinality(Straddling(d)') <= Clients
  <2>1. Shifts(Late(d), Straddling(d), Late(d)', Straddling(d)')
    BY <1>4, <1>5 DEF Shifts
  <2>2. /\ Cardinality(Late(d)') + Cardinality(Straddling(d)')
              <= Cardinality(Late(d)) + Cardinality(Straddling(d))
        /\ {Cardinality(Late(d)), Cardinality(Straddling(d)),
            Cardinality(Late(d)'), Cardinality(Straddling(d)')} \subseteq Nat
    BY <2>1, SetsFinite, ShiftsKeepTheSum
  <2>3. Cardinality(Late(d)) + Cardinality(Straddling(d)) <= Clients
    BY DEF LimitInv
  <2> QED BY <2>2, <2>3, SetsFinite
<1>7. ASSUME NEW limit \in DailyLimits
      PROVE  Cardinality(Within(d, limit)') + Cardinality(Counting(d, limit)')
                    <= limit + Clients - 1
  <2>1. limit \in Nat \ {0}
    BY DEF CommunicationAssumption
  <2>2. CASE c \notin Counting(d, limit)'
    <3>1. Counting(d, limit)' = Counting(d, limit)
      BY <1>1, <2>2 DEF Counting, OverLimit
    <3> QED BY <1>4, <3>1 DEF LimitInv
  <2>3. CASE c \in Counting(d, limit)'
    <3>1. /\ cheld'[c].counted = d /\ cheld'[c].limit <= limit
          /\ ~(cheld'[c].today >= cheld'[c].limit) /\ cstep'[c] = "create"
      BY <2>3 DEF Counting, OverLimit
    <3>2. d = day /\ cheld[c].limit <= limit /\ ~(CreatedToday >= cheld[c].limit)
      BY <1>3, <3>1
    <3>3. cheld[c].limit \in Nat
      BY <1>1 DEF DraftsInv, RequestIsSound, CommunicationAssumption
    <3> DEFINE T == {m \in Message : drafts[m] # None /\ drafts[m].day = day}
    <3>4. Cardinality(Within(d, limit)) <= Cardinality(T) /\ Cardinality(T) \in Nat
      <4>1. IsFiniteSet(T) /\ Within(d, limit) \in SUBSET T
        BY <3>2, FS_Subset DEF Within, CommunicationAssumption
      <4> HIDE DEF T
      <4> QED BY <4>1, FS_Subset, FS_CardinalityType
    <3>5. Cardinality(T) = CreatedToday
      BY DEF CreatedToday
    <3>6. Cardinality(Within(d, limit)) \in Nat
      BY SetsFinite, FS_CardinalityType
    <3>7. Cardinality(Within(d, limit)) <= limit - 1
      <4> HIDE DEF T
      <4> QED BY <2>1, <3>2, <3>3, <3>4, <3>5, <3>6
    <3>8. Cardinality(Counting(d, limit)') <= Clients /\ Cardinality(Counting(d, limit)') \in Nat
          /\ Clients \in Nat
      <4>1. Counting(d, limit)' \in SUBSET Client /\ IsFiniteSet(Client)
        BY DEF Counting, CommunicationAssumption
      <4> QED BY <4>1, FS_Subset, FS_CardinalityType DEF Clients
    <3> QED BY <1>4, <2>1, <3>6, <3>7, <3>8
  <2> QED BY <2>2, <2>3
<1> QED
  BY <1>6, <1>7

(* A draft that is built joins those of its day, of which none is stored uncounted. *)
LEMMA BuildLeavesRoom ==
    ASSUME CommunicationAssumption, DraftsInv, [CommunicationNext]_communicationVars,
           LimitInv, NEW c \in Client, AskCreate(c), NEW d \in 1..MaxDay
    PROVE  /\ \A limit \in DailyLimits :
                Cardinality(Within(d, limit)') + Cardinality(Counting(d, limit)')
                    <= limit + Clients - 1
           /\ Cardinality(Late(d)') + Cardinality(Straddling(d)') <= Clients
<1>1. PICK m \in Message, b \in Body, limit \in DailyLimits :
        Step(c, "count",
             [Nothing EXCEPT !.message = m, !.value = b, !.limit = limit, !.day = day])
  BY DEF AskCreate
<1>2. /\ cstep[c] = "idle" /\ cstep'[c] = "count" /\ drafts' = drafts
      /\ \A e \in Client \ {c} : cstep'[e] = cstep[e] /\ cheld'[e] = cheld[e]
      /\ cheld'[c] = [Nothing EXCEPT !.message = m, !.value = b, !.limit = limit, !.day = day]
  BY <1>1, OthersWait DEF AskCreate, DraftsInv
<1>3. cheld'[c].day = day
  BY <1>2 DEF Nothing
<1>4. Late(d)' = Late(d) /\ \A l : Within(d, l)' = Within(d, l)
  BY <1>2 DEF Late, Within
<1>5. \A l : Counting(d, l)' = Counting(d, l)
  BY <1>2 DEF Counting, OverLimit
<1>6. CASE d # day
  <2>2. c \notin Straddling(d)' /\ c \notin Straddling(d)
    BY <1>2, <1>3, <1>6 DEF Straddling
  <2>3. \A e \in Client \ {c} : e \in Straddling(d)' <=> e \in Straddling(d)
    BY <1>2 DEF Straddling
  <2>1. Straddling(d)' = Straddling(d)
    <3>1. Straddling(d)' \subseteq Client /\ Straddling(d) \subseteq Client
      BY DEF Straddling
    <3> QED BY <2>2, <2>3, <3>1
  <2> QED BY <1>4, <1>5, <2>1 DEF LimitInv
<1>7. CASE d = day
  <2>1. Late(d) = {}
    BY <1>7, NoneLateToday
  <2>2. Straddling(d)' \in SUBSET Client /\ IsFiniteSet(Client)
    BY DEF Straddling, CommunicationAssumption
  <2>3. Cardinality(Straddling(d)') <= Clients /\ Cardinality(Straddling(d)') \in Nat
    BY <2>2, FS_Subset, FS_CardinalityType DEF Clients
  <2>4. Cardinality(Late(d)') = 0
    BY <1>4, <2>1, FS_EmptySet
  <2> QED BY <1>4, <1>5, <2>3, <2>4, SetsFinite DEF LimitInv
<1> QED
  BY <1>6, <1>7

(* Where the step of a request leads it. *)
LEMMA WhereStepsLead ==
    ASSUME DraftsInv, NEW c \in Client
    PROVE  /\ AskCreate(c) => cstep[c] = "idle" /\ cstep'[c] = "count"
           /\ Count(c) => cstep[c] = "count" /\ cstep'[c] \in {"idle", "create"}
           /\ Create(c) => cstep[c] = "create" /\ cstep'[c] = "idle"
           /\ AskReview(c) => cstep[c] = "idle" /\ cstep'[c] = "review"
           /\ Review(c) => cstep[c] = "review" /\ cstep'[c] = "idle"
           /\ AskTransition(c) => cstep[c] = "idle" /\ cstep'[c] = "transition"
           /\ Transition(c) => cstep[c] = "transition" /\ cstep'[c] = "idle"
           /\ (\/ AskCreate(c) \/ Count(c) \/ Create(c) \/ AskReview(c) \/ Review(c)
               \/ AskTransition(c) \/ Transition(c)) =>
                \A e \in Client \ {c} : cstep'[e] = cstep[e] /\ cheld'[e] = cheld[e]
<1>0. Types
  BY DEF DraftsInv
<1>1. ASSUME NEW next, NEW holding, Step(c, next, holding)
      PROVE  /\ cstep'[c] = next
             /\ \A e \in Client \ {c} : cstep'[e] = cstep[e] /\ cheld'[e] = cheld[e]
  BY <1>0, <1>1, OthersWait
<1>2. CASE AskCreate(c)
  BY <1>1, <1>2, Zenon DEF AskCreate, Count, Create, AskReview, Review, AskTransition, Transition
<1>3. CASE Count(c)
  BY <1>1, <1>3 DEF AskCreate, Count, Create, AskReview, Review, AskTransition, Transition, Done
<1>4. CASE Create(c) \/ Review(c) \/ Transition(c)
  BY <1>1, <1>4 DEF AskCreate, Count, Create, AskReview, Review, AskTransition, Transition, Done
<1>5. CASE AskReview(c)
  BY <1>1, <1>5, Zenon DEF AskCreate, Count, Create, AskReview, Review, AskTransition, Transition
<1>6. CASE AskTransition(c)
  BY <1>1, <1>6, Zenon DEF AskCreate, Count, Create, AskReview, Review, AskTransition, Transition
<1> QED
  BY <1>2, <1>3, <1>4, <1>5, <1>6

LEMMA OthersKeepRoom ==
    ASSUME CommunicationAssumption, DraftsInv, [CommunicationNext]_communicationVars, NEW d, NEW limit,
           \/ NewDay \/ UNCHANGED communicationVars
           \/ \E c \in Client : AskReview(c) \/ Review(c) \/ AskTransition(c) \/ Transition(c)
    PROVE  /\ Within(d, limit)' = Within(d, limit) /\ Counting(d, limit)' = Counting(d, limit)
           /\ Late(d)' = Late(d) /\ Straddling(d)' = Straddling(d)
<1>1. CASE NewDay \/ UNCHANGED communicationVars
  BY <1>1 DEF NewDay, communicationVars, Within, Late, Counting, Straddling, OverLimit
<1>2. ASSUME NEW c \in Client, AskReview(c) \/ Review(c) \/ AskTransition(c) \/ Transition(c)
      PROVE  /\ Within(d, limit)' = Within(d, limit) /\ Counting(d, limit)' = Counting(d, limit)
             /\ Late(d)' = Late(d) /\ Straddling(d)' = Straddling(d)
  <2>1. /\ cstep[c] \notin {"count", "create"} /\ cstep'[c] \notin {"count", "create"}
        /\ \A e \in Client \ {c} : cstep'[e] = cstep[e] /\ cheld'[e] = cheld[e]
    BY <1>2, WhereStepsLead
  <2>2. Counting(d, limit)' = Counting(d, limit) /\ Straddling(d)' = Straddling(d)
    BY <2>1 DEF Counting, Straddling, OverLimit
  <2>3. \A m \in Message : drafts[m] = None => drafts'[m] = None
    <3> SUFFICES ASSUME NEW m \in Message, drafts[m] = None, drafts'[m] # None PROVE FALSE
      OBVIOUS
    <3>1. PICK e \in Client : Create(e)
      BY NewDrafts
    <3>2. cstep[e] = "create" /\ cstep'[e] = "idle"
      BY <3>1, OthersWait DEF Create, Done, DraftsInv
    <3> QED BY <2>1, <3>2
  <2> QED BY <2>2, <2>3, NoNewRow
<1> QED
  BY <1>1, <1>2

LEMMA LimitNext ==
    ASSUME CommunicationAssumption, DraftsInv, LimitInv, [CommunicationNext]_communicationVars
    PROVE  LimitInv'
<1> SUFFICES ASSUME NEW d \in 1..MaxDay
             PROVE  /\ \A limit \in DailyLimits :
                        Cardinality(Within(d, limit)') + Cardinality(Counting(d, limit)')
                            <= limit + Clients - 1
                    /\ Cardinality(Late(d)') + Cardinality(Straddling(d)') <= Clients
  BY DEF LimitInv, Clients
<1>1. ASSUME NEW c \in Client, Create(c)
      PROVE  /\ \A limit \in DailyLimits :
                Cardinality(Within(d, limit)') + Cardinality(Counting(d, limit)')
                    <= limit + Clients - 1
             /\ Cardinality(Late(d)') + Cardinality(Straddling(d)') <= Clients
  <2>1. ASSUME NEW limit \in DailyLimits
        PROVE  Cardinality(Within(d, limit)') + Cardinality(Counting(d, limit)')
                    <= limit + Clients - 1
    <3>1. /\ Cardinality(Within(d, limit)') + Cardinality(Counting(d, limit)')
                <= Cardinality(Within(d, limit)) + Cardinality(Counting(d, limit))
          /\ {Cardinality(Within(d, limit)), Cardinality(Counting(d, limit)),
              Cardinality(Within(d, limit)'), Cardinality(Counting(d, limit)')} \subseteq Nat
      BY <1>1, CreateShifts, SetsFinite, ShiftsKeepTheSum
    <3>2. Cardinality(Within(d, limit)) + Cardinality(Counting(d, limit)) <= limit + Clients - 1
      BY DEF LimitInv
    <3>3. limit \in Nat /\ Clients \in Nat
      BY SetsFinite DEF CommunicationAssumption
    <3> QED BY <3>1, <3>2, <3>3
  <2>2. /\ Cardinality(Late(d)') + Cardinality(Straddling(d)')
              <= Cardinality(Late(d)) + Cardinality(Straddling(d))
        /\ {Cardinality(Late(d)), Cardinality(Straddling(d)),
            Cardinality(Late(d)'), Cardinality(Straddling(d)')} \subseteq Nat
    BY <1>1, CreateShifts, SetsFinite, ShiftsKeepTheSum
  <2>3. Cardinality(Late(d)) + Cardinality(Straddling(d)) <= Clients
    BY DEF LimitInv
  <2> QED BY <2>1, <2>2, <2>3, SetsFinite
<1>2. CASE \/ NewDay \/ UNCHANGED communicationVars
           \/ \E c \in Client : AskReview(c) \/ Review(c) \/ AskTransition(c) \/ Transition(c)
  BY <1>2, OthersKeepRoom DEF LimitInv
<1>3. ASSUME NEW c \in Client, AskCreate(c) \/ Count(c)
      PROVE  /\ \A limit \in DailyLimits :
                Cardinality(Within(d, limit)') + Cardinality(Counting(d, limit)')
                    <= limit + Clients - 1
             /\ Cardinality(Late(d)') + Cardinality(Straddling(d)') <= Clients
  BY <1>3, BuildLeavesRoom, CountLeavesRoom
<1> QED
  BY <1>1, <1>2, <1>3 DEF CommunicationNext

LEMMA LimitInit ==
    ASSUME CommunicationAssumption, CommunicationInit
    PROVE  LimitInv
<1>1. \A d, limit : /\ Within(d, limit) = {} /\ Counting(d, limit) = {}
                    /\ Late(d) = {} /\ Straddling(d) = {}
  BY DEF CommunicationInit, Within, Counting, Late, Straddling
<1>2. Clients \in Nat /\ DailyLimits \subseteq Nat \ {0}
  BY SetsFinite DEF CommunicationAssumption
<1> QED
  BY <1>1, <1>2, FS_EmptySet DEF LimitInv

LEMMA LimitSuffices ==
    ASSUME CommunicationAssumption, LimitInv
    PROVE  WithinLimit
<1> SUFFICES ASSUME NEW d \in 1..MaxDay
             PROVE  /\ \A limit \in DailyLimits :
                        Cardinality(Within(d, limit)) <= limit + Clients - 1
                    /\ Cardinality(Late(d)) <= Clients
  BY DEF WithinLimit, Clients
<1>1. \A limit : /\ Cardinality(Within(d, limit)) \in Nat
                 /\ Cardinality(Counting(d, limit)) \in Nat
                 /\ Cardinality(Late(d)) \in Nat /\ Cardinality(Straddling(d)) \in Nat
  BY SetsFinite, FS_CardinalityType
<1>2. Clients \in Nat /\ DailyLimits \subseteq Nat \ {0}
  BY SetsFinite DEF CommunicationAssumption
<1> QED
  BY <1>1, <1>2 DEF LimitInv

-----------------------------------------------------------------------------
(* The inductive invariant of the ended drafts: a transition under way was allowed by a
   status its draft has had; if the draft was closed since, the request is overtaken. *)
EndInv ==
    \A c \in Client : cstep[c] = "transition" =>
        /\ drafts[cheld[c].message].status # "rejected"
        /\ drafts[cheld[c].message].status = "closed" => c \in overtaken

LEMMA EndNext ==
    ASSUME CommunicationAssumption, DraftsInv, EndInv, [CommunicationNext]_communicationVars
    PROVE  EndInv'
<1> SUFFICES ASSUME NEW e \in Client, cstep'[e] = "transition"
             PROVE  /\ drafts'[cheld'[e].message].status # "rejected"
                    /\ drafts'[cheld'[e].message].status = "closed" => e \in overtaken'
  BY DEF EndInv
<1> DEFINE m == cheld[e].message
<1>0. Types
  BY DEF DraftsInv
<1>1. ASSUME NEW c \in Client, AskTransition(c), c = e
      PROVE  drafts'[cheld'[e].message].status \notin {"rejected", "closed"}
  <2>1. PICK n \in Message :
          /\ drafts[n] # None
          /\ \E status \in Allowed[drafts[n].status] :
              Step(c, "transition", [Nothing EXCEPT !.message = n, !.value = status])
    BY <1>1 DEF AskTransition
  <2>2. PICK status \in Allowed[drafts[n].status] :
          Step(c, "transition", [Nothing EXCEPT !.message = n, !.value = status])
    BY <2>1
  <2>3. cheld'[c].message = n
    <3>1. cheld'[c] = [Nothing EXCEPT !.message = n, !.value = status]
      BY <1>0, <2>2, OthersWait
    <3> QED BY <3>1 DEF Nothing
  <2>4. drafts[n].status \in Status
    BY <1>0, <2>1, RowFields DEF Types
  <2>5. drafts[n].status \notin {"rejected", "closed"}
    BY <2>2, <2>4, AllowedValues
  <2> QED BY <1>1, <2>3, <2>5 DEF AskTransition
<1>2. ASSUME cstep[e] = "transition", cheld'[e] = cheld[e]
      PROVE  /\ m \in Message /\ drafts[m] # None /\ drafts[m].status # "pending_review"
             /\ drafts[m].status # "rejected"
             /\ drafts[m].status = "closed" => e \in overtaken
  BY <1>2 DEF EndInv, DraftsInv, RequestIsSound
<1>3. ASSUME NEW c \in Client, c # e,
             \/ AskCreate(c) \/ Count(c) \/ Create(c) \/ AskReview(c) \/ Review(c)
             \/ AskTransition(c) \/ Transition(c)
      PROVE  cstep[e] = "transition" /\ cheld'[e] = cheld[e]
  BY <1>3, WhereStepsLead
<1>4. ASSUME NEW c \in Client,
             \/ AskCreate(c) \/ Count(c) \/ Create(c) \/ AskReview(c) \/ Review(c) \/ Transition(c)
      PROVE  c # e
  BY <1>4, WhereStepsLead
<1>5. ASSUME NEW c \in Client, AskCreate(c) \/ Count(c) \/ AskReview(c) \/ AskTransition(c), c # e
      PROVE  drafts' = drafts /\ overtaken' = overtaken
  BY <1>5 DEF AskCreate, Count, AskReview, AskTransition
<1>6. ASSUME NEW c \in Client, Create(c) \/ Review(c)
      PROVE  drafts'[m] = drafts[m] /\ overtaken' = overtaken
  <2>1. m \in Message /\ drafts[m] # None /\ drafts[m].status # "pending_review"
    BY <1>2, <1>3, <1>4, <1>6
  <2> QED BY <1>0, <1>6, <2>1 DEF Create, Review, StillPending, Types
<1>7. ASSUME NEW c \in Client, Transition(c)
      PROVE  /\ drafts'[m].status # "rejected"
             /\ drafts'[m].status = "closed" => e \in overtaken'
  <2>0. c # e /\ cstep[e] = "transition" /\ m \in Message /\ drafts[m] # None
    BY <1>2, <1>3, <1>4, <1>7
  <2>1. cstep[c] = "transition"
        /\ drafts' = [drafts EXCEPT ![cheld[c].message].status = cheld[c].value]
    BY <1>7 DEF Transition
  <2>2. CASE cheld[c].message = m
    <3>1. drafts'[m].status = cheld[c].value
      BY <1>0, <2>0, <2>1, <2>2 DEF Types, Draft, CommunicationAssumption
    <3>2. cheld[c].value # "rejected"
      BY <2>1 DEF DraftsInv, RequestIsSound, Beyond
    <3>3. e \in Pending(c, cheld[c].message)
      BY <2>0, <2>2 DEF Pending
    <3> QED BY <1>7, <2>0, <3>1, <3>2, <3>3 DEF Transition
  <2>3. CASE cheld[c].message # m
    <3>1. drafts'[m] = drafts[m]
      BY <1>0, <2>1, <2>3 DEF Types
    <3>2. e \in overtaken => e \in overtaken'
      BY <1>7, <2>0 DEF Transition
    <3> QED BY <1>2, <1>3, <1>7, <2>0, <3>1, <3>2
  <2> QED BY <2>2, <2>3
<1>8. CASE NewDay \/ UNCHANGED communicationVars
  BY <1>8 DEF NewDay, communicationVars, EndInv
<1> QED
  BY <1>1, <1>2, <1>3, <1>4, <1>5, <1>6, <1>7, <1>8 DEF CommunicationNext

LEMMA DraftsEnd ==
    ASSUME CommunicationAssumption, DraftsInv, EndInv, [CommunicationNext]_communicationVars
    PROVE  EndedStays
<1> SUFFICES ASSUME NEW m \in Message, drafts[m] # None,
                    drafts[m].status \in {"closed", "rejected"},
                    drafts'[m].status # drafts[m].status
             PROVE  /\ drafts[m].status = "closed"
                    /\ \E c \in overtaken : cheld[c].message = m /\ cstep'[c] = "idle"
  BY DEF EndedStays
<1>0. Types
  BY DEF DraftsInv
<1>1. ASSUME NEW c \in Client, Create(c) \/ Review(c) PROVE FALSE
  BY <1>0, <1>1 DEF Create, Review, StillPending, Types
<1>2. ASSUME NEW c \in Client, Transition(c)
      PROVE  /\ drafts[m].status = "closed"
             /\ \E d \in overtaken : cheld[d].message = m /\ cstep'[d] = "idle"
  <2>1. cheld[c].message = m
    BY <1>0, <1>2 DEF Transition, Types
  <2>2. cstep[c] = "transition" /\ cstep'[c] = "idle"
    BY <1>0, <1>2, OthersWait DEF Transition, Done
  <2> QED BY <2>1, <2>2 DEF EndInv
<1>3. ASSUME NEW c \in Client, AskCreate(c) \/ Count(c) \/ AskReview(c) \/ AskTransition(c)
      PROVE  drafts' = drafts
  BY <1>3 DEF AskCreate, Count, AskReview, AskTransition
<1> QED
  BY <1>1, <1>2, <1>3 DEF CommunicationNext, NewDay, communicationVars

(* However requests overlap, with each other and with midnight, a day has at most one
   draft more for each client than its limit allows, and an ended draft is changed only
   by a request that had read it before. *)
THEOREM LimitSafety ==
    ASSUME CommunicationAssumption
    PROVE  CommunicationSpec => LimitsAndEndsHold
<1> DEFINE Inv == DraftsInv /\ LimitInv /\ EndInv
<1>1. CommunicationInit => Inv
  BY DraftsInit, LimitInit DEF CommunicationInit, EndInv
<1>2. Inv /\ [CommunicationNext]_communicationVars => Inv'
  BY DraftsNext, LimitNext, EndNext
<1>3. Inv => WithinLimit
  BY LimitSuffices
<1>4. Inv /\ [CommunicationNext]_communicationVars => EndedStays
  BY DraftsEnd
<1> QED
  BY <1>1, <1>2, <1>3, <1>4, PTL DEF CommunicationSpec, LimitsAndEndsHold

-----------------------------------------------------------------------------
(* Counting up to N: a set with zero that is closed under the next number has all. *)
LEMMA CountingUp ==
    ASSUME NEW N \in Nat, NEW T, 0 \in T, \A n \in 1..N : n - 1 \in T => n \in T
    PROVE  \A n \in 0..N : n \in T
<1> DEFINE Rest == (0..N) \ T
<1> SUFFICES ASSUME Rest # {} PROVE FALSE
  OBVIOUS
<1>1. Rest \in SUBSET Nat
  OBVIOUS
<1>2. PICK n \in Rest : \A k \in Rest : n <= k
  <2> HIDE DEF Rest
  <2> QED BY <1>1, LeastNatural
<1>3. n \in 1..N /\ n - 1 \in 0..N
  BY <1>2
<1>4. n - 1 \notin Rest
  BY <1>2, <1>3
<1> QED BY <1>2, <1>3, <1>4

(* f is what is made of a value by one step after another: F[n] is the n-th step. *)
Runs(f, D, first, F, N) ==
    /\ f \in [0..N -> D] /\ f[0] = first
    /\ \A n \in 1..N : f[n] = F[n][f[n - 1]]

LEMMA StepByStep ==
    ASSUME NEW D, NEW N \in Nat, NEW first \in D, NEW F \in [1..N -> [D -> D]]
    PROVE  \E f : Runs(f, D, first, F, N)
<1> DEFINE Made == {m \in 0..N : \E f : Runs(f, D, first, F, m)}
<1>1. 0 \in Made
  <2>1. Runs([n \in 0..0 |-> first], D, first, F, 0) /\ 0 \in 0..N
    BY DEF Runs
  <2> QED BY <2>1
<1>2. ASSUME NEW m \in 1..N, m - 1 \in Made PROVE m \in Made
  <2>1. PICK f : Runs(f, D, first, F, m - 1)
    BY <1>2
  <2> DEFINE g == [n \in 0..m |-> IF n = m THEN F[m][f[m - 1]] ELSE f[n]]
  <2>2. m - 1 \in Nat /\ m \in 0..N /\ f \in [0..m - 1 -> D]
    BY <1>2, <2>1 DEF Runs
  <2>3. f[m - 1] \in D
    BY <2>2
  <2>4. F[m][f[m - 1]] \in D
    BY <1>2, <2>3
  <2>5. \A n \in 0..m : n # m => n \in 0..m - 1 /\ f[n] \in D
    BY <2>2
  <2>6. g \in [0..m -> D] /\ g[0] = first
    BY <2>1, <2>2, <2>4, <2>5, <1>2 DEF Runs
  <2>7. ASSUME NEW n \in 1..m PROVE g[n] = F[n][g[n - 1]]
    <3>1. n - 1 \in 0..m /\ n - 1 # m /\ n \in 0..m
      BY <2>2, <2>7
    <3>2. g[n - 1] = f[n - 1]
      BY <3>1
    <3>3. CASE n = m
      BY <3>1, <3>2, <3>3
    <3>4. CASE n # m
      <4>1. n \in 1..m - 1 /\ g[n] = f[n]
        BY <2>2, <3>1, <3>4
      <4> QED BY <4>1, <3>2, <2>1 DEF Runs
    <3> QED BY <3>3, <3>4
  <2>8. Runs(g, D, first, F, m)
    BY <2>6, <2>7 DEF Runs
  <2> QED BY <2>2, <2>8
<1>3. N \in Made
  <2> HIDE DEF Made
  <2>1. \A n \in 0..N : n \in Made
    BY <1>1, <1>2, CountingUp
  <2> QED BY <2>1
<1> QED BY <1>3

-----------------------------------------------------------------------------
(* The operations of a resume.  What a list of them makes of a document is one of the
   documents that its operations account for: so is what the next one makes of it. *)
Writes(operation, item) ==
    \/ operation.value = item
    \/ operation.value \in S!Content /\ item \in S!Range(operation.value)

Touches(operation, item) ==
    \/ operation.expected = item
    \/ operation.expected \in S!Content /\ item \in S!Range(operation.expected)

(* The documents that these operations can have made of a base. *)
Documents(base, operations) ==
    {c \in S!Content \cup {None} :
        /\ \A item \in S!Items(base) \ S!Items(c) :
            \E operation \in operations : Touches(operation, item)
        /\ \A item \in S!Items(c) \ S!Items(base) :
            \E operation \in operations : Writes(operation, item)}

Compositions(base, operations) ==
    {S!Failed} \cup [content : Documents(base, operations)]

LEMMA ItemsOf ==
    ASSUME None \notin S!Content, NEW c \in S!Content
    PROVE  S!Items(c) = {c[n] : n \in 1..Len(c)} /\ S!Range(c) = S!Items(c)
BY DEF S!Items, S!Range, S!Content

LEMMA WithoutAnItem ==
    ASSUME NEW c \in S!Content, NEW n \in 1..Len(c)
    PROVE  /\ S!RemoveAt(c, n) \in S!Content
           /\ \A k \in 1..Len(c) :
                k = n \/ \E i \in 1..Len(S!RemoveAt(c, n)) : S!RemoveAt(c, n)[i] = c[k]
           /\ \A i \in 1..Len(S!RemoveAt(c, n)) : \E k \in 1..Len(c) : S!RemoveAt(c, n)[i] = c[k]
<1> DEFINE before == SubSeq(c, 1, n - 1)
           after == SubSeq(c, n + 1, Len(c))
<1>1. c \in Seq(Item) /\ Len(c) \in Nat
  BY DEF S!Content
<1>2. /\ before \in Seq(Item) /\ Len(before) = n - 1
      /\ \A i \in 1..n - 1 : before[i] = c[i]
  BY <1>1
<1>3. /\ after \in Seq(Item) /\ Len(after) = Len(c) - n
      /\ \A i \in 1..Len(c) - n : after[i] = c[n + i]
  BY <1>1
<1>4. S!RemoveAt(c, n) = before \o after
  BY DEF S!RemoveAt
<1> HIDE DEF before, after
<1> DEFINE r == before \o after
<1>5. /\ r \in Seq(Item) /\ Len(r) = Len(c) - 1
      /\ \A i \in 1..n - 1 : r[i] = c[i]
      /\ \A i \in n..Len(c) - 1 : r[i] = c[i + 1]
  <2>1. /\ r \in Seq(Item) /\ Len(r) = Len(c) - 1
        /\ \A i \in 1..Len(r) : r[i] = IF i <= n - 1 THEN before[i] ELSE after[i - (n - 1)]
    BY <1>1, <1>2, <1>3
  <2> HIDE DEF r
  <2>2. ASSUME NEW i \in 1..n - 1 PROVE r[i] = c[i]
    BY <2>1, <2>2, <1>1, <1>2
  <2>3. ASSUME NEW i \in n..Len(c) - 1 PROVE r[i] = c[i + 1]
    <3>1. i - (n - 1) \in 1..Len(c) - n /\ n + (i - (n - 1)) = i + 1
      BY <2>3, <1>1
    <3>2. i \in 1..Len(r) /\ ~(i <= n - 1)
      BY <2>3, <2>1, <1>1
    <3> QED BY <2>1, <1>3, <3>1, <3>2
  <2> QED BY <2>1, <2>2, <2>3
<1> HIDE DEF r
<1>6. ASSUME NEW k \in 1..Len(c), k # n PROVE \E i \in 1..Len(r) : r[i] = c[k]
  <2>1. CASE k < n
    BY <2>1, <1>1, <1>5
  <2>2. CASE k > n
    <3>1. k - 1 \in n..Len(c) - 1 /\ (k - 1) + 1 = k
      BY <2>2, <1>1
    <3>2. r[k - 1] = c[k] /\ k - 1 \in 1..Len(r)
      BY <3>1, <1>1, <1>5
    <3> QED BY <3>2
  <2> QED BY <2>1, <2>2, <1>6, <1>1
<1>7. ASSUME NEW i \in 1..Len(r) PROVE \E k \in 1..Len(c) : r[i] = c[k]
  <2>1. CASE i < n
    BY <2>1, <1>1, <1>5
  <2>2. CASE i >= n
    <3>1. i \in n..Len(c) - 1 /\ i + 1 \in 1..Len(c)
      BY <2>2, <1>1, <1>5
    <3> QED BY <3>1, <1>5
  <2> QED BY <2>1, <2>2, <1>1, <1>5
<1> QED BY <1>4, <1>5, <1>6, <1>7 DEF r, S!Content

(* An operation takes away what it was written against, and adds what it says. *)
LEMMA OneOperation ==
    ASSUME S!ResumeAssumption, NEW c \in S!Content \cup {None}, NEW operation \in Operation,
           S!Applies(c, operation)
    PROVE  LET made == S!ApplyOperation(c, operation) IN
           /\ made \in S!Content \cup {None}
           /\ \A item \in S!Items(c) \ S!Items(made) : Touches(operation, item)
           /\ \A item \in S!Items(made) \ S!Items(c) : Writes(operation, item)
<1> DEFINE made == S!ApplyOperation(c, operation)
           n == operation.target
<1>1. operation \in S!OperationRow /\ S!KeepsTheList(operation) /\ None \notin S!Content
  BY DEF S!ResumeAssumption
<1>2. /\ operation.action \in {"set", "remove", "insert"} /\ n \in Nat
      /\ S!Current(c, n) = operation.expected /\ operation.expected # None
      /\ operation.action = "insert" => n = 0
  BY <1>1 DEF S!OperationRow, S!Applies, S!Matches, S!ResumeAssumption
<1>3. c \in S!Content /\ S!Items(None) = {}
  BY <1>2 DEF S!Current, S!Items
<1>4. c \in Seq(Item) /\ Len(c) \in Nat /\ S!Items(c) = {c[k] : k \in 1..Len(c)}
  BY <1>1, <1>3, ItemsOf DEF S!Content
<1>5. CASE n = 0
  <2>1. operation.expected = c
    BY <1>2, <1>5 DEF S!Current
  <2>2. \A item \in S!Items(c) : Touches(operation, item)
    BY <2>1, <1>1, <1>3, ItemsOf DEF Touches
  <2>3. CASE operation.action = "insert"
    <3>1. operation.value \in Item /\ made = Append(c, operation.value)
      BY <2>3, <1>1 DEF S!KeepsTheList, S!ApplyOperation
    <3>2. made \in S!Content /\ \A k \in 1..Len(made) :
            made[k] = operation.value \/ (k \in 1..Len(c) /\ made[k] = c[k])
      BY <3>1, <1>4 DEF S!Content
    <3>3. S!Items(made) = {made[k] : k \in 1..Len(made)}
      BY <3>2, <1>1, ItemsOf
    <3> HIDE DEF made
    <3>4. \A item \in S!Items(made) : item = operation.value \/ item \in S!Items(c)
      BY <3>2, <3>3, <1>4
    <3> QED BY <3>2, <3>4, <2>2 DEF Writes, made
  <2>4. CASE operation.action = "set"
    <3>1. made = operation.value /\ made \in S!Content
      BY <2>4, <1>1, <1>5 DEF S!KeepsTheList, S!ApplyOperation
    <3> HIDE DEF made
    <3>2. \A item \in S!Items(made) : Writes(operation, item)
      BY <3>1, <1>1, ItemsOf DEF Writes
    <3> QED BY <3>1, <3>2, <2>2 DEF made
  <2>5. CASE operation.action = "remove"
    <3>1. made = None
      BY <2>5, <1>5 DEF S!ApplyOperation
    <3> QED BY <3>1, <2>2, <1>3
  <2> QED BY <1>2, <2>3, <2>4, <2>5
<1>6. CASE n # 0
  <2>1. n \in 1..Len(c) /\ c[n] = operation.expected
    BY <1>2, <1>3, <1>4, <1>6, <1>1 DEF S!Current
  <2>2. Touches(operation, c[n])
    BY <2>1 DEF Touches
  <2>3. CASE operation.action = "set"
    <3>1. operation.value \in Item /\ made = [c EXCEPT ![n] = operation.value]
      BY <2>3, <1>1, <1>6 DEF S!KeepsTheList, S!ApplyOperation
    <3>2. /\ made \in S!Content /\ Len(made) = Len(c)
          /\ \A k \in 1..Len(c) : made[k] = IF k = n THEN operation.value ELSE c[k]
      BY <3>1, <2>1, <1>4 DEF S!Content
    <3>3. S!Items(made) = {made[k] : k \in 1..Len(c)}
      BY <3>2, <1>1, ItemsOf
    <3> HIDE DEF made
    <3>4. \A item \in S!Items(made) : item = operation.value \/ item \in S!Items(c)
      BY <3>2, <3>3, <1>4
    <3>5. \A item \in S!Items(c) : item = c[n] \/ item \in S!Items(made)
      BY <3>2, <3>3, <1>4
    <3> QED BY <3>2, <3>4, <3>5, <2>2 DEF Writes, made
  <2>4. CASE operation.action = "remove"
    <3>1. made = S!RemoveAt(c, n)
      BY <2>4, <1>6 DEF S!ApplyOperation
    <3>2. made \in S!Content
      BY <3>1, <1>3, <2>1, WithoutAnItem
    <3>3. S!Items(made) = {made[k] : k \in 1..Len(made)}
      BY <3>2, <1>1, ItemsOf
    <3> HIDE DEF made
    <3>4. \A k \in 1..Len(c) : k = n \/ \E i \in 1..Len(made) : made[i] = c[k]
      BY <3>1, <1>3, <2>1, WithoutAnItem
    <3>5. \A i \in 1..Len(made) : \E k \in 1..Len(c) : made[i] = c[k]
      BY <3>1, <1>3, <2>1, WithoutAnItem
    <3>6. \A item \in S!Items(made) : item \in S!Items(c)
      BY <3>5, <3>3, <1>4
    <3>7. \A item \in S!Items(c) : item = c[n] \/ item \in S!Items(made)
      BY <3>4, <3>3, <1>4
    <3> QED BY <3>2, <3>6, <3>7, <2>2 DEF made
  <2> QED BY <1>2, <1>6, <2>3, <2>4
<1> QED BY <1>5, <1>6

LEMMA OneMore ==
    ASSUME S!ResumeAssumption, NEW base, NEW operations \in SUBSET Operation,
           NEW d \in Compositions(base, operations), NEW operation \in operations
    PROVE  S!Applied(d, operation) \in Compositions(base, operations)
<1> DEFINE c == d.content
           made == S!ApplyOperation(c, operation)
<1>1. S!Failed \in Compositions(base, operations)
  BY DEF Compositions
<1>2. CASE d = S!Failed \/ ~S!Applies(c, operation)
  BY <1>1, <1>2 DEF S!Applied
<1>3. CASE d # S!Failed /\ S!Applies(c, operation)
  <2>1. c \in Documents(base, operations) /\ S!Applied(d, operation) = [content |-> made]
    BY <1>3 DEF Compositions, S!Applied
  <2>2. /\ c \in S!Content \cup {None}
        /\ \A item \in S!Items(base) \ S!Items(c) :
            \E other \in operations : Touches(other, item)
        /\ \A item \in S!Items(c) \ S!Items(base) :
            \E other \in operations : Writes(other, item)
    BY <2>1 DEF Documents
  <2> HIDE DEF c
  <2>3. /\ made \in S!Content \cup {None}
        /\ \A item \in S!Items(c) \ S!Items(made) : Touches(operation, item)
        /\ \A item \in S!Items(made) \ S!Items(c) : Writes(operation, item)
    BY <1>3, <2>2, OneOperation
  <2> HIDE DEF made
  <2>4. made \in Documents(base, operations)
    BY <2>2, <2>3 DEF Documents
  <2> QED BY <2>1, <2>4 DEF Compositions
<1> QED BY <1>2, <1>3

LEMMA AllOfAPatch ==
    ASSUME S!ResumeAssumption, NEW base, NEW operations \in SUBSET Operation,
           NEW d \in Compositions(base, operations), NEW list \in Seq(operations)
    PROVE  S!AppliedAll(d, list) \in Compositions(base, operations)
<1> DEFINE D == Compositions(base, operations)
           N == Len(list)
           F == [n \in 1..N |-> [e \in D |-> S!Applied(e, list[n])]]
           Solves(f) == f = [n \in 0..N |-> IF n = 0 THEN d ELSE S!Applied(f[n - 1], list[n])]
           after == CHOOSE f : Solves(f)
           Inside == {n \in 0..N : after[n] \in D}
<1>1. N \in Nat /\ d \in D /\ \A n \in 1..N : list[n] \in operations
  OBVIOUS
<1>2. \A n \in 1..N, e \in D : S!Applied(e, list[n]) \in D
  BY <1>1, OneMore
<1>3. F \in [1..N -> [D -> D]] /\ \A n \in 1..N, e \in D : F[n][e] = S!Applied(e, list[n])
  BY <1>2
<1>4. S!AppliedAll(d, list) = after[N]
  BY DEF S!AppliedAll
<1> HIDE DEF D, N, F
<1>5. PICK f : Runs(f, D, d, F, N)
  BY <1>1, <1>3, StepByStep
<1>6. Solves(f)
  <2>1. \A n \in 0..N : n = 0 \/ (n \in 1..N /\ n - 1 \in 0..N)
    BY <1>1
  <2>2. \A n \in 1..N : f[n] = S!Applied(f[n - 1], list[n])
    <3>1. \A n \in 1..N : f[n - 1] \in D
      BY <1>5, <2>1 DEF Runs
    <3> QED BY <1>3, <1>5, <3>1 DEF Runs
  <2> QED BY <1>5, <2>1, <2>2 DEF Runs
<1>7. after = [n \in 0..N |-> IF n = 0 THEN d ELSE S!Applied(after[n - 1], list[n])]
  <2> HIDE DEF Solves
  <2>1. Solves(after)
    BY <1>6
  <2> QED BY <2>1 DEF Solves
<1> HIDE DEF after
<1>8. 0 \in Inside
  BY <1>1, <1>7
<1>9. ASSUME NEW n \in 1..N, n - 1 \in Inside PROVE n \in Inside
  <2>1. n \in 0..N /\ n # 0 /\ after[n - 1] \in D
    BY <1>1, <1>9
  <2>2. after[n] = S!Applied(after[n - 1], list[n])
    BY <2>1, <1>7
  <2> QED BY <2>1, <2>2, <1>2
<1>10. N \in Inside
  <2> HIDE DEF Inside
  <2>1. \A n \in 0..N : n \in Inside
    BY <1>1, <1>8, <1>9, CountingUp
  <2> QED BY <1>1, <2>1
<1> QED BY <1>4, <1>10 DEF D

(* What patches compose to is made by their operations alone. *)
LEMMA AllPatches ==
    ASSUME S!ResumeAssumption, NEW base \in S!Content \cup {None},
           NEW operations \in SUBSET Operation, NEW lists \in Seq(Seq(operations))
    PROVE  S!Composed(base, lists) \in Compositions(base, operations)
<1> DEFINE D == Compositions(base, operations)
           N == Len(lists)
           first == [content |-> base]
           F == [n \in 1..N |-> [e \in D |-> S!AppliedAll(e, lists[n])]]
           Solves(f) == f = [n \in 0..N |-> IF n = 0 THEN first
                                            ELSE S!AppliedAll(f[n - 1], lists[n])]
           after == CHOOSE f : Solves(f)
           Inside == {n \in 0..N : after[n] \in D}
<1>1. N \in Nat /\ \A n \in 1..N : lists[n] \in Seq(operations)
  OBVIOUS
<1>2. first \in D
  BY DEF Compositions, Documents
<1>3. \A n \in 1..N, e \in D : S!AppliedAll(e, lists[n]) \in D
  BY <1>1, AllOfAPatch
<1>4. F \in [1..N -> [D -> D]] /\ \A n \in 1..N, e \in D : F[n][e] = S!AppliedAll(e, lists[n])
  BY <1>3
<1>5. S!Composed(base, lists) = after[N]
  BY DEF S!Composed
<1> HIDE DEF D, N, F, first
<1>6. PICK f : Runs(f, D, first, F, N)
  BY <1>1, <1>2, <1>4, StepByStep
<1>7. Solves(f)
  <2>1. \A n \in 0..N : n = 0 \/ (n \in 1..N /\ n - 1 \in 0..N)
    BY <1>1
  <2>2. \A n \in 1..N : f[n] = S!AppliedAll(f[n - 1], lists[n])
    <3>1. \A n \in 1..N : f[n - 1] \in D
      BY <1>6, <2>1 DEF Runs
    <3> QED BY <1>4, <1>6, <3>1 DEF Runs
  <2> QED BY <1>6, <2>1, <2>2 DEF Runs
<1>8. after = [n \in 0..N |-> IF n = 0 THEN first ELSE S!AppliedAll(after[n - 1], lists[n])]
  <2> HIDE DEF Solves
  <2>1. Solves(after)
    BY <1>7
  <2> QED BY <2>1 DEF Solves
<1> HIDE DEF after
<1>9. 0 \in Inside
  BY <1>1, <1>2, <1>8
<1>10. ASSUME NEW n \in 1..N, n - 1 \in Inside PROVE n \in Inside
  <2>1. n \in 0..N /\ n # 0 /\ after[n - 1] \in D
    BY <1>1, <1>10
  <2>2. after[n] = S!AppliedAll(after[n - 1], lists[n])
    BY <2>1, <1>8
  <2> QED BY <2>1, <2>2, <1>3
<1>11. N \in Inside
  <2> HIDE DEF Inside
  <2>1. \A n \in 0..N : n \in Inside
    BY <1>1, <1>9, <1>10, CountingUp
  <2> QED BY <1>1, <2>1
<1> QED BY <1>5, <1>11 DEF D

RevisionsHaveBases ==
    \A v \in Revision : revisions[v] # None =>
        revisions[v].base \in DOMAIN bases[revisions[v].resume]

(* A revision that its patches compose to has lost and gained nothing else. *)
LEMMA ComposedIsReviewed ==
    ASSUME S!ResumeAssumption, S!ResumeTypeOK, RevisionsHaveBases, S!RevisionStaysComposed
    PROVE  S!LostOnlyByReview /\ S!AddedOnlyByReview
<1> SUFFICES ASSUME NEW v \in Revision, revisions[v] # None
             PROVE  LET base == bases[revisions[v].resume][revisions[v].base].content IN
                    /\ \A item \in S!Items(base) \ S!Items(revisions[v].content) :
                        \E operation \in S!AcceptedOperations(v) : Touches(operation, item)
                    /\ \A item \in S!Items(revisions[v].content) \ S!Items(base) :
                        \E operation \in S!AcceptedOperations(v) : Writes(operation, item)
  BY DEF S!LostOnlyByReview, S!AddedOnlyByReview, Touches, Writes
<1> DEFINE row == revisions[v]
           base == bases[row.resume][row.base].content
           operations == S!AcceptedOperations(v)
<1>1. row \in S!RevisionRow
  BY DEF S!ResumeTypeOK, S!RevisionTable
<1>2. row.refs \in Seq(Patch) /\ row.resume \in Resume
  BY <1>1 DEF S!RevisionRow
<1>3. /\ \A n \in DOMAIN row.refs : S!Usable(row.refs[n], row.resume, row.base)
      /\ S!Composed(base, S!Operations(row.refs)) = [content |-> row.content]
  BY DEF S!RevisionStaysComposed
<1>4. row.base \in DOMAIN bases[row.resume] /\ base \in S!Content \cup {None}
  <2>1. row.base \in DOMAIN bases[row.resume]
    BY DEF RevisionsHaveBases
  <2>2. bases[row.resume] \in Seq(S!BaseRow)
    BY <1>2 DEF S!ResumeTypeOK, S!BaseTable
  <2>3. bases[row.resume][row.base] \in S!BaseRow
    BY <2>1, <2>2
  <2> QED BY <2>1, <2>3 DEF S!BaseRow
<1>5. ASSUME NEW n \in DOMAIN row.refs
      PROVE  patches[row.refs[n]].operations \in Seq(operations)
  <2> DEFINE p == row.refs[n]
             list == patches[p].operations
  <2>1. p \in Patch /\ p \in S!Range(row.refs)
    BY <1>2, <1>5 DEF S!Range
  <2>2. patches[p] # None /\ patches[p].status = "accepted"
    BY <1>3, <1>5 DEF S!Usable
  <2>3. list \in Seq(Operation)
    BY <2>1, <2>2 DEF S!ResumeTypeOK, S!PatchTable, S!PatchRow
  <2>4. S!Range(list) \subseteq operations
    BY <2>1, <2>2 DEF S!AcceptedOperations
  <2> HIDE DEF list, operations
  <2>5. Len(list) \in Nat /\ list = [i \in 1..Len(list) |-> list[i]]
        /\ \A i \in 1..Len(list) : list[i] \in operations
    BY <2>3, <2>4 DEF S!Range
  <2> QED BY <2>5 DEF list
<1>6. operations \in SUBSET Operation
  <2>1. ASSUME NEW p \in S!Range(row.refs), patches[p].status = "accepted"
        PROVE  S!Range(patches[p].operations) \subseteq Operation
    <3>1. p \in Patch /\ patches[p] # None
      BY <2>1, <1>2, <1>3 DEF S!Range, S!Usable
    <3>2. patches[p].operations \in Seq(Operation)
      BY <3>1 DEF S!ResumeTypeOK, S!PatchTable, S!PatchRow
    <3> QED BY <3>2 DEF S!Range
  <2> QED BY <2>1 DEF S!AcceptedOperations
<1>7. S!Composed(base, S!Operations(row.refs)) \in Compositions(base, operations)
  <2>1. S!Operations(row.refs) \in Seq(Seq(operations))
    BY <1>2, <1>5 DEF S!Operations
  <2> HIDE DEF base, operations
  <2> QED BY <2>1, <1>4, <1>6, AllPatches
<1> HIDE DEF row, base, operations
<1>8. row.content \in Documents(base, operations)
  BY <1>3, <1>7 DEF Compositions, S!Failed
<1> QED BY <1>8 DEF Documents, row, base, operations

(* The tables of the resumes, but for the revisions. *)
ResumeTypes ==
    /\ bases \in S!BaseTable
    /\ \A r \in Resume : Len(bases[r]) <= MaxBase
    /\ patches \in S!PatchTable

(* What a revision rests on exists. *)
ResumeInv ==
    /\ ResumeTypes
    /\ revisions \in S!RevisionTable
    /\ RevisionsHaveBases
    /\ S!RevisionStaysComposed

(* Bases are only added and a patch stays as it was accepted. *)
ReviewedKept ==
    /\ \A r \in Resume : \A n \in DOMAIN bases[r] :
        n \in DOMAIN bases'[r] /\ bases'[r][n] = bases[r][n]
    /\ \A p \in Patch, r \in Resume, base \in 1..MaxBase :
        S!Usable(p, r, base) => patches'[p] = patches[p]

(* A revision has its base, and is what its accepted patches make of it. *)
RevisionSound(v) ==
    /\ revisions[v].base \in DOMAIN bases[revisions[v].resume]
    /\ \A n \in DOMAIN revisions[v].refs :
        S!Usable(revisions[v].refs[n], revisions[v].resume, revisions[v].base)
    /\ S!Composed(bases[revisions[v].resume][revisions[v].base].content,
                  S!Operations(revisions[v].refs)) = [content |-> revisions[v].content]

(* What a revision that is kept rests on is kept. *)
LEMMA RevisionStays ==
    ASSUME ResumeInv, ReviewedKept, NEW v \in Revision, revisions[v] # None,
           revisions'[v] = revisions[v]
    PROVE  RevisionSound(v)'
<1> DEFINE row == revisions[v]
<1>1. row \in S!RevisionRow
  BY DEF ResumeInv, S!RevisionTable
<1>2. /\ row.refs \in Seq(Patch) /\ row.resume \in Resume /\ row.base \in 1..MaxBase
      /\ \A n \in DOMAIN row.refs : row.refs[n] \in Patch
  BY <1>1 DEF S!RevisionRow
<1>3. /\ row.base \in DOMAIN bases[row.resume]
      /\ \A n \in DOMAIN row.refs : S!Usable(row.refs[n], row.resume, row.base)
      /\ S!Composed(bases[row.resume][row.base].content, S!Operations(row.refs))
            = [content |-> row.content]
  BY DEF ResumeInv, RevisionsHaveBases, S!RevisionStaysComposed
<1>4. /\ row.base \in DOMAIN bases'[row.resume]
      /\ bases'[row.resume][row.base] = bases[row.resume][row.base]
  BY <1>2, <1>3 DEF ReviewedKept
<1>5. \A n \in DOMAIN row.refs : patches'[row.refs[n]] = patches[row.refs[n]]
  BY <1>2, <1>3 DEF ReviewedKept
<1>6. S!Operations(revisions[v].refs)' = S!Operations(row.refs)
  BY <1>5 DEF S!Operations
<1>7. \A n \in DOMAIN row.refs :
        S!Usable(revisions[v].refs[n], revisions[v].resume, revisions[v].base)'
  BY <1>2, <1>3, <1>5 DEF S!Usable
<1>8. revisions[v]' = row
  OBVIOUS
<1> QED BY <1>3, <1>4, <1>6, <1>7, <1>8 DEF RevisionSound

(* Revisions that are kept stay composed. *)
LEMMA RevisionsStay ==
    ASSUME ResumeInv, ReviewedKept, ResumeTypes', UNCHANGED revisions
    PROVE  ResumeInv'
<1>1. revisions' \in S!RevisionTable /\ S!RevisionTable' = S!RevisionTable
  BY DEF ResumeInv, S!RevisionTable, S!RevisionRow
<1>2. \A v \in Revision : revisions'[v] # None => RevisionSound(v)'
  BY RevisionStays
<1>3. (RevisionsHaveBases /\ S!RevisionStaysComposed)'
  BY <1>2 DEF RevisionsHaveBases, S!RevisionStaysComposed, RevisionSound
<1> QED BY <1>1, <1>3 DEF ResumeInv

LEMMA BaseStep ==
    ASSUME S!ResumeAssumption, ResumeInv, NEW r \in Resume, NEW row \in S!BaseRow,
           S!StageBase(r, row)
    PROVE  ResumeInv'
<1>1. /\ Len(bases[r]) < MaxBase /\ bases' = [bases EXCEPT ![r] = Append(@, row)]
      /\ UNCHANGED <<patches, revisions>>
  BY DEF S!StageBase
<1>2. bases \in [Resume -> Seq(S!BaseRow)] /\ patches \in S!PatchTable
  BY DEF ResumeInv, ResumeTypes, S!BaseTable
<1>3. /\ bases' \in [Resume -> Seq(S!BaseRow)]
      /\ \A q \in Resume : q # r => bases'[q] = bases[q]
      /\ Len(bases'[r]) = Len(bases[r]) + 1 /\ Len(bases[r]) \in Nat
      /\ \A n \in 1..Len(bases[r]) : bases'[r][n] = bases[r][n]
  BY <1>1, <1>2
<1>4. \A q \in Resume : Len(bases'[q]) <= MaxBase
  BY <1>1, <1>3 DEF ResumeInv, ResumeTypes, S!ResumeAssumption
<1>5. ResumeTypes'
  BY <1>1, <1>2, <1>3, <1>4 DEF ResumeTypes, S!BaseTable, S!PatchTable
<1>6. ReviewedKept
  <2>1. ASSUME NEW q \in Resume, NEW n \in DOMAIN bases[q]
        PROVE  n \in DOMAIN bases'[q] /\ bases'[q][n] = bases[q][n]
    <3>1. DOMAIN bases[r] = 1..Len(bases[r]) /\ DOMAIN bases'[r] = 1..Len(bases[r]) + 1
      BY <1>2, <1>3
    <3> QED BY <2>1, <3>1, <1>3
  <2> QED BY <2>1, <1>1 DEF ReviewedKept
<1> QED BY <1>1, <1>5, <1>6, RevisionsStay

LEMMA FirstContent ==
    ASSUME NEW content \in S!BoundedSeq(Item, 3)
    PROVE  content \in S!Content
<1>1. PICK m \in 0..3 : content \in [1..m -> Item]
  BY DEF S!BoundedSeq, S!SeqOf
<1> QED BY <1>1 DEF S!Content

LEMMA BasesStep ==
    ASSUME S!ResumeAssumption, ResumeInv, NEW r \in Resume,
           S!SaveBase(r) \/ S!RestoreRevision(r) \/ S!UndoBase(r) \/ S!RedoBase(r)
    PROVE  ResumeInv'
<1>1. CASE S!SaveBase(r)
  <2>1. PICK c \in ResumeCandidate, content \in S!BoundedSeq(Item, 3) :
          S!StageBase(r, [owner |-> c, content |-> content])
    BY <1>1 DEF S!SaveBase
  <2>2. content \in S!Content
    BY FirstContent
  <2> DEFINE row == [owner |-> c, content |-> content]
  <2>3. row \in S!BaseRow
    BY <2>2 DEF S!BaseRow
  <2> HIDE DEF row
  <2>4. S!StageBase(r, row)
    BY <2>1 DEF row
  <2> QED BY <2>3, <2>4, BaseStep
<1>2. ASSUME NEW content \in S!Content \cup {None}, bases[r] # <<>>,
             S!StageBase(r, [owner |-> S!Last(bases[r]).owner, content |-> content])
      PROVE  ResumeInv'
  <2> DEFINE row == [owner |-> S!Last(bases[r]).owner, content |-> content]
  <2>1. bases[r] \in Seq(S!BaseRow)
    BY DEF ResumeInv, ResumeTypes, S!BaseTable
  <2>2. S!Last(bases[r]) \in S!BaseRow
    BY <1>2, <2>1 DEF S!Last
  <2>3. row \in S!BaseRow
    BY <2>2, <1>2 DEF S!BaseRow
  <2> HIDE DEF row
  <2>4. S!StageBase(r, row)
    BY <1>2 DEF row
  <2> QED BY <2>3, <2>4, BaseStep
<1>3. CASE S!RestoreRevision(r)
  <2>1. PICK v \in Revision :
          /\ revisions[v] # None
          /\ S!StageBase(r, [owner |-> S!Last(bases[r]).owner, content |-> revisions[v].content])
    BY <1>3 DEF S!RestoreRevision
  <2>2. revisions[v] \in S!RevisionRow
    BY <2>1 DEF ResumeInv, S!RevisionTable
  <2>3. revisions[v].content \in S!Content \cup {None} /\ bases[r] # <<>>
    BY <2>2, <1>3 DEF S!RevisionRow, S!RestoreRevision
  <2> QED BY <2>1, <2>3, <1>2
<1>4. ASSUME NEW source, S!RestoreBase(r, source) PROVE ResumeInv'
  <2>1. bases[r] \in Seq(S!BaseRow)
    BY DEF ResumeInv, ResumeTypes, S!BaseTable
  <2>2. source \in DOMAIN bases[r] /\ bases[r] # <<>>
    BY <1>4 DEF S!RestoreBase
  <2>3. bases[r][source] \in S!BaseRow
    BY <2>1, <2>2
  <2>4. bases[r][source].content \in S!Content \cup {None}
    BY <2>3 DEF S!BaseRow
  <2> QED BY <1>4, <2>2, <2>4, <1>2 DEF S!RestoreBase
<1> QED BY <1>1, <1>3, <1>4 DEF S!UndoBase, S!RedoBase

(* What the resumes' commands do to the patches that there are. *)
PatchesKept ==
    /\ ResumeTypes'
    /\ \A p \in Patch : patches[p] # None =>
        patches'[p] # None /\ patches'[p].resume = patches[p].resume

LEMMA ProposedPatch ==
    ASSUME S!ResumeAssumption, ResumeTypes, NEW p \in Patch, S!ProposePatch(p)
    PROVE  PatchesKept /\ patches'[p] # None
<1>1. PICK r \in Resume, operations \in S!BoundedSeq(Operation, 2) :
        \E base \in DOMAIN bases[r] :
            patches' = [patches EXCEPT ![p] = [resume |-> r, base |-> base,
                            operations |-> operations, status |-> "proposed"]]
    BY DEF S!ProposePatch
<1> PICK base \in DOMAIN bases[r] :
        patches' = [patches EXCEPT ![p] = [resume |-> r, base |-> base,
                        operations |-> operations, status |-> "proposed"]]
    BY <1>1
<1> DEFINE row == [resume |-> r, base |-> base, operations |-> operations,
                   status |-> "proposed"]
<1>2. patches[p] = None /\ UNCHANGED bases
    BY DEF S!ProposePatch
<1>3. operations \in Seq(Operation)
    <2>1. PICK m \in 0..2 : operations \in [1..m -> Operation]
        BY DEF S!BoundedSeq, S!SeqOf
    <2> QED BY <2>1
<1>4. base \in 1..MaxBase
    <2>1. bases[r] \in Seq(S!BaseRow) /\ Len(bases[r]) <= MaxBase
        BY DEF ResumeTypes, S!BaseTable
    <2>2. Len(bases[r]) \in Nat /\ MaxBase \in Nat /\ DOMAIN bases[r] = 1..Len(bases[r])
        BY <2>1 DEF S!ResumeAssumption
    <2> QED BY <2>1, <2>2
<1>5. row \in S!PatchRow
    BY <1>3, <1>4 DEF S!PatchRow
<1>6. row # None
    BY <1>5 DEF S!ResumeAssumption
<1> HIDE DEF row
<1>7. patches' = [patches EXCEPT ![p] = row]
    BY DEF row
<1>8. patches' \in S!PatchTable /\ patches'[p] = row
      /\ \A q \in Patch \ {p} : patches'[q] = patches[q]
    BY <1>5, <1>7 DEF ResumeTypes, S!PatchTable
<1> QED BY <1>2, <1>6, <1>8 DEF PatchesKept, ResumeTypes, S!BaseTable

LEMMA ReviewedPatch ==
    ASSUME S!ResumeAssumption, ResumeTypes, NEW p \in Patch, S!ReviewPatch(p)
    PROVE  PatchesKept
<1>1. PICK decision \in {"accepted", "rejected"} :
        patches' = [patches EXCEPT ![p] = [patches[p] EXCEPT !.status = decision]]
    BY DEF S!ReviewPatch
<1> DEFINE row == [patches[p] EXCEPT !.status = decision]
<1>2. patches[p] # None /\ UNCHANGED bases
    BY DEF S!ReviewPatch
<1>3. patches[p] \in S!PatchRow
    BY <1>2 DEF ResumeTypes, S!PatchTable
<1>4. row \in S!PatchRow /\ row.resume = patches[p].resume
    BY <1>3 DEF S!PatchRow
<1>5. row # None
    BY <1>4 DEF S!ResumeAssumption
<1> HIDE DEF row
<1>6. patches' = [patches EXCEPT ![p] = row]
    BY <1>1 DEF row
<1>7. patches' \in S!PatchTable /\ patches'[p] = row
      /\ \A q \in Patch \ {p} : patches'[q] = patches[q]
    BY <1>4, <1>6 DEF ResumeTypes, S!PatchTable
<1> QED BY <1>2, <1>4, <1>5, <1>7 DEF PatchesKept, ResumeTypes, S!BaseTable

LEMMA PatchStep ==
    ASSUME S!ResumeAssumption, ResumeInv, NEW p \in Patch, S!ProposePatch(p) \/ S!ReviewPatch(p)
    PROVE  ResumeInv'
<1>1. ResumeTypes' /\ UNCHANGED <<bases, revisions>>
  BY ProposedPatch, ReviewedPatch DEF ResumeInv, PatchesKept, S!ProposePatch, S!ReviewPatch
<1>2. \A r \in Resume, base \in 1..MaxBase : ~S!Usable(p, r, base)
  BY DEF S!ProposePatch, S!ReviewPatch, S!Usable
<1>3. \A q \in Patch : q # p => patches'[q] = patches[q]
  <2>1. patches \in [Patch -> S!PatchRow \cup {None}]
    BY DEF ResumeInv, ResumeTypes, S!PatchTable
  <2>2. \E row : patches' = [patches EXCEPT ![p] = row]
    BY DEF S!ProposePatch, S!ReviewPatch
  <2> QED BY <2>1, <2>2
<1>4. ReviewedKept
  BY <1>1, <1>2, <1>3 DEF ReviewedKept
<1> QED BY <1>1, <1>4, RevisionsStay

LEMMA RevisionStep ==
    ASSUME S!ResumeAssumption, ResumeInv, NEW v \in Revision, S!CreateRevision(v)
    PROVE  ResumeInv'
<1> DEFINE Made(r, refs, base) ==
               LET made == S!Composed(bases[r][base].content, S!Operations(refs)) IN
               /\ made # S!Failed
               /\ revisions' = [revisions EXCEPT ![v] =
                    [resume |-> r, base |-> base, refs |-> refs, content |-> made.content]]
<1>0. PICK r \in Resume, refs \in S!BoundedSeq(Patch, S!Cardinality(Patch)) :
        \E base \in DOMAIN bases[r] :
            /\ \A n \in DOMAIN refs : S!Usable(refs[n], r, base)
            /\ Made(r, refs, base)
  BY DEF S!CreateRevision
<1>1. PICK base \in DOMAIN bases[r] :
        /\ \A n \in DOMAIN refs : S!Usable(refs[n], r, base)
        /\ Made(r, refs, base)
  BY <1>0
<1> DEFINE made == S!Composed(bases[r][base].content, S!Operations(refs))
           row == [resume |-> r, base |-> base, refs |-> refs, content |-> made.content]
<1>2. refs \in Seq(Patch)
  <2>1. PICK m \in 0..S!Cardinality(Patch) : refs \in [1..m -> Patch]
    BY DEF S!BoundedSeq, S!SeqOf
  <2> QED BY <2>1
<1>3. base \in 1..MaxBase /\ bases[r][base].content \in S!Content \cup {None}
  <2>1. bases[r] \in Seq(S!BaseRow) /\ Len(bases[r]) <= MaxBase
    BY DEF ResumeInv, ResumeTypes, S!BaseTable
  <2>2. bases[r][base] \in S!BaseRow /\ DOMAIN bases[r] = 1..Len(bases[r])
        /\ Len(bases[r]) \in Nat /\ MaxBase \in Nat
    BY <1>1, <2>1 DEF S!ResumeAssumption
  <2> QED BY <1>1, <2>1, <2>2 DEF S!BaseRow
<1>4. S!Operations(refs) \in Seq(Seq(Operation))
  <2>1. ASSUME NEW n \in DOMAIN refs PROVE patches[refs[n]].operations \in Seq(Operation)
    <3>1. refs[n] \in Patch /\ patches[refs[n]] # None
      BY <1>1, <1>2, <2>1 DEF S!Usable
    <3>2. patches[refs[n]] \in S!PatchRow
      BY <3>1 DEF ResumeInv, ResumeTypes, S!PatchTable
    <3> QED BY <3>2 DEF S!PatchRow
  <2>2. DOMAIN refs = 1..Len(refs) /\ Len(refs) \in Nat
    BY <1>2
  <2> QED BY <2>1, <2>2 DEF S!Operations
<1>5. made \in Compositions(bases[r][base].content, Operation)
  BY <1>3, <1>4, AllPatches
<1>6. made = [content |-> made.content] /\ made.content \in S!Content \cup {None}
  BY <1>1, <1>5 DEF Compositions, Documents
<1> HIDE DEF made
<1>7. row \in S!RevisionRow
  BY <1>2, <1>3, <1>6 DEF S!RevisionRow
<1>8. row # None
  BY <1>7 DEF S!ResumeAssumption
<1>9. revisions' = [revisions EXCEPT ![v] = row] /\ UNCHANGED <<bases, patches>>
  BY <1>1 DEF made, S!CreateRevision
<1>10. /\ row.resume = r /\ row.base = base /\ row.refs = refs
       /\ [content |-> row.content] = made
  BY <1>6
<1> HIDE DEF row
<1>11. /\ revisions' \in S!RevisionTable /\ revisions'[v] = row
       /\ \A w \in Revision : w # v => revisions'[w] = revisions[w]
  BY <1>7, <1>9 DEF ResumeInv, S!RevisionTable
<1>12. ReviewedKept /\ ResumeTypes'
  BY <1>9 DEF ReviewedKept, ResumeInv, ResumeTypes, S!BaseTable, S!PatchTable
<1>13. RevisionSound(v)'
  <2>1. \A n \in DOMAIN refs :
          S!Usable(revisions[v].refs[n], revisions[v].resume, revisions[v].base)'
    BY <1>1, <1>9, <1>10, <1>11 DEF S!Usable
  <2>2. S!Operations(revisions[v].refs)' = S!Operations(refs)
    BY <1>9, <1>10, <1>11 DEF S!Operations
  <2>3. revisions[v]' = row /\ bases' = bases /\ base \in DOMAIN bases[r]
    BY <1>1, <1>9, <1>11
  <2>4. S!Composed(bases[r][base].content, S!Operations(refs)) = [content |-> row.content]
    BY <1>10 DEF made
  <2> QED BY <1>10, <2>1, <2>2, <2>3, <2>4 DEF RevisionSound
<1>14. \A w \in Revision : w # v /\ revisions'[w] # None => RevisionSound(w)'
  BY <1>11, <1>12, RevisionStays
<1>15. (RevisionsHaveBases /\ S!RevisionStaysComposed)'
  BY <1>13, <1>14 DEF RevisionsHaveBases, S!RevisionStaysComposed, RevisionSound
<1> QED BY <1>11, <1>12, <1>15 DEF ResumeInv

LEMMA ResumeStart ==
    ASSUME S!ResumeAssumption, S!Init
    PROVE  ResumeInv
<1>1. \A v \in Revision : revisions[v] = None
  BY DEF S!Init
<1>2. RevisionsHaveBases /\ S!RevisionStaysComposed
  BY <1>1 DEF RevisionsHaveBases, S!RevisionStaysComposed
<1>3. bases \in S!BaseTable /\ \A r \in Resume : Len(bases[r]) <= MaxBase
  BY DEF S!Init, S!BaseTable, S!ResumeAssumption
<1>4. patches \in S!PatchTable /\ revisions \in S!RevisionTable
  BY DEF S!Init, S!PatchTable, S!RevisionTable
<1> QED BY <1>2, <1>3, <1>4 DEF ResumeInv, ResumeTypes

(* Whatever is proposed, reviewed, composed, restored, undone or redone: an entry that a
   revision lost or gained is one that an operation the user accepted was written against
   or says, and a revision stays what its base and its patches compose to. *)
THEOREM ReviewSafety ==
    ASSUME S!ResumeAssumption
    PROVE  S!ResumeSpec => []ChangedOnlyByReview
<1>1. S!Init => ResumeInv
  BY ResumeStart
<1>2. ResumeInv /\ [S!ResumeNext]_(S!resumeVars) => ResumeInv'
  <2> SUFFICES ASSUME ResumeInv, [S!ResumeNext]_(S!resumeVars) PROVE ResumeInv'
    OBVIOUS
  <2>1. CASE UNCHANGED S!resumeVars
    <3>1. UNCHANGED <<bases, patches, revisions>>
      BY <2>1 DEF S!resumeVars
    <3>2. ReviewedKept /\ ResumeTypes'
      BY <3>1 DEF ReviewedKept, ResumeInv, ResumeTypes, S!BaseTable, S!PatchTable
    <3> QED BY <3>1, <3>2, RevisionsStay
  <2> QED BY <2>1, BasesStep, PatchStep, RevisionStep DEF S!ResumeNext
<1>3. ResumeInv => ChangedOnlyByReview
  <2>1. ResumeInv => S!ResumeTypeOK
    BY DEF ResumeInv, ResumeTypes, S!ResumeTypeOK
  <2> QED BY <2>1, ComposedIsReviewed DEF ResumeInv, ChangedOnlyByReview
<1> QED BY <1>1, <1>2, <1>3, PTL DEF S!ResumeSpec

(* The studio does to the resumes only what Resumes allows: what is proved of Resumes
   holds while a studio is used. *)
THEOREM StudioImplementsResumes == S!StudioSpec => S!ResumeSpec
<1>1. S!StudioInit => S!Init
  BY DEF S!StudioInit
<1>2. [S!StudioNext]_(<<S!resumeVars, S!studioVars>>) => [S!ResumeNext]_(S!resumeVars)
  <2> SUFFICES ASSUME [S!StudioNext]_(<<S!resumeVars, S!studioVars>>)
               PROVE  [S!ResumeNext]_(S!resumeVars)
    OBVIOUS
  <2>1. ASSUME NEW c \in Client, S!ProposeFor(c) PROVE [S!ResumeNext]_(S!resumeVars)
    BY <2>1 DEF S!ProposeFor, S!ResumeNext
  <2>2. ASSUME NEW c \in Client,
               \/ S!AskProfile(c) \/ S!CreateProfile(c) \/ S!LinkPatch(c)
               \/ S!Render(c) \/ S!PutRender(c) \/ S!ReadRender(c) \/ S!InsertRender(c)
               \/ S!AskReviewRender(c) \/ S!ReviewRender(c)
        PROVE  UNCHANGED S!resumeVars
    BY <2>2 DEF S!AskProfile, S!CreateProfile, S!LinkPatch, S!Render, S!PutRender,
       S!ReadRender, S!InsertRender, S!AskReviewRender, S!ReviewRender
  <2>3. S!Crash => UNCHANGED S!resumeVars
    BY DEF S!Crash
  <2>4. S!Elsewhere => S!ResumeNext
    BY DEF S!Elsewhere, S!ResumeNext
  <2> QED BY <2>1, <2>2, <2>3, <2>4 DEF S!StudioNext
<1> QED BY <1>1, <1>2, PTL DEF S!StudioSpec, S!ResumeSpec

-----------------------------------------------------------------------------
(* The resume studio.  What a request read before its transaction still holds when it
   writes: a patch stays with its resume, a profile and a stored file stay for good. *)
Requests ==
    [step : {"idle"}]
    \cup [step : {"profile"}, id : Profile, profile : S!TargetProfile]
    \cup [step : {"link"}, profile : Profile, patch : Patch]
    \cup [step : {"put", "read", "insert"}, run : S!RenderRun, output : S!Output]
    \cup [step : {"review"}, run : S!RenderRun, decision : S!Decision]

Answers ==
    [patch : Patch, profile : Profile]
    \cup [run : S!RenderRun, output : S!Output]
    \cup [reviewed : S!RenderRun, decision : S!Decision]

StudioTypes ==
    /\ ResumeTypes
    /\ S!StudioTypeOK
    /\ doing \in [Client -> Requests]
    /\ told \subseteq Answers

(* The patch and the profile exist and belong to one resume. *)
Linked(t, p) ==
    /\ profiles[t] # None /\ patches[p] # None
    /\ patches[p].resume = profiles[t].resume

RequestHolds(request) ==
    /\ request.step = "link" => Linked(request.profile, request.patch)
    /\ request.step \in {"read", "insert"} => request.output \in files

RequestsHold == \A c \in Client : RequestHolds(doing[c])

LinksHold == \A link \in links : Linked(link[1], link[2])

(* The inductive invariant of the studio. *)
StudioInv == StudioTypes /\ RequestsHold /\ LinksHold /\ AnsweredIsStored

(* No step takes a link's ends or a stored file away. *)
Grows ==
    /\ \A t \in Profile, p \in Patch : Linked(t, p) => Linked(t, p)'
    /\ files \subseteq files'

LEMMA RequestFields ==
    ASSUME NEW request \in Requests
    PROVE  /\ request.step = "profile" => request.id \in Profile
                                          /\ request.profile \in S!TargetProfile
           /\ request.step = "link" => request.profile \in Profile /\ request.patch \in Patch
           /\ request.step \in {"put", "read", "insert"} =>
                request.run \in S!RenderRun /\ request.output \in S!Output
           /\ request.step = "review" => request.run \in S!RenderRun
                                         /\ request.decision \in S!Decision
BY DEF Requests

LEMMA RequestStep ==
    ASSUME StudioInv, NEW c \in Client, NEW next \in Requests, S!Go(c, next), Grows,
           RequestHolds(next)'
    PROVE  doing' \in [Client -> Requests] /\ RequestsHold'
<1>1. doing \in [Client -> Requests] /\ doing' = [doing EXCEPT ![c] = next]
    BY DEF StudioInv, StudioTypes, S!Go
<1>2. \A request \in Requests : RequestHolds(request) => RequestHolds(request)'
    BY RequestFields DEF RequestHolds, Grows
<1>3. \A d \in Client : doing'[d] = next \/ doing'[d] = doing[d]
    BY <1>1
<1> QED BY <1>1, <1>2, <1>3 DEF StudioInv, RequestsHold

LEMMA NothingGrows ==
    ASSUME UNCHANGED <<profiles, patches, files>>
    PROVE  Grows
BY DEF Grows, Linked

(* What only moves requests on leaves the tables and the answers as they are. *)
LEMMA TablesStay ==
    ASSUME StudioInv, doing' \in [Client -> Requests], RequestsHold',
           UNCHANGED <<bases, patches, profiles, links, files, renders, reports, reviews, told>>
    PROVE  StudioInv'
<1>1. StudioTypes'
    BY DEF StudioInv, StudioTypes, ResumeTypes, S!StudioTypeOK, S!BaseTable, S!PatchTable,
           S!ProfileTable, S!LinkTable, S!RenderTable, S!ReportTable, S!ReviewTable
<1>2. LinksHold'
    BY DEF StudioInv, LinksHold, Linked
<1>3. AnsweredIsStored'
    BY <1>1 DEF StudioInv, StudioTypes, AnsweredIsStored, S!AnsweredIsLinked,
           S!RenderIsComplete, S!AnsweredRenderIsStored, S!AnsweredReviewStands
<1> QED BY <1>1, <1>2, <1>3 DEF StudioInv

LEMMA ReadingRequest ==
    ASSUME StudioInv, NEW c \in Client, NEW next \in Requests, S!Go(c, next),
           RequestHolds(next),
           UNCHANGED <<bases, patches, profiles, links, files, renders, reports, reviews, told>>
    PROVE  StudioInv'
<1>1. RequestHolds(next)'
    BY DEF RequestHolds, Linked
<1> QED BY <1>1, NothingGrows, RequestStep, TablesStay

LEMMA AskProfileStep ==
    ASSUME StudioInv, NEW c \in Client, S!AskProfile(c)
    PROVE  StudioInv'
<1>1. UNCHANGED <<bases, patches, profiles, links, files, renders, reports, reviews, told>>
    BY DEF S!AskProfile, S!resumeVars
<1>2. PICK t \in Profile, r \in Resume, title \in Title :
        \/ S!Go(c, [step |-> "profile", id |-> t, profile |-> [resume |-> r, title |-> title]])
        \/ UNCHANGED doing
    BY DEF S!AskProfile
<1>3. CASE UNCHANGED doing
    <2>1. doing' \in [Client -> Requests] /\ RequestsHold'
        BY <1>1, <1>3 DEF StudioInv, StudioTypes, RequestsHold, RequestHolds, Linked
    <2> QED BY <1>1, <2>1, TablesStay
<1>4. CASE S!Go(c, [step |-> "profile", id |-> t, profile |-> [resume |-> r, title |-> title]])
    <2> DEFINE next == [step |-> "profile", id |-> t, profile |-> [resume |-> r, title |-> title]]
    <2>1. next \in Requests /\ RequestHolds(next)
        BY DEF Requests, RequestHolds, S!TargetProfile
    <2> HIDE DEF next
    <2>2. S!Go(c, next)
        BY <1>4 DEF next
    <2> QED BY <1>1, <2>1, <2>2, ReadingRequest
<1> QED BY <1>2, <1>3, <1>4

LEMMA RenderStep ==
    ASSUME StudioInv, NEW c \in Client, S!Render(c)
    PROVE  StudioInv'
<1>1. PICK x \in S!RenderRun :
        \E output \in IF x.template = "html" THEN {[html |-> x.revision]}
                      ELSE [typst : TypstOutput] :
            S!Go(c, [step |-> "put", run |-> x, output |-> output])
    BY DEF S!Render
<1>2. PICK output \in S!Output : S!Go(c, [step |-> "put", run |-> x, output |-> output])
    <2>1. x.revision \in Revision
        BY DEF S!RenderRun
    <2> QED BY <1>1, <2>1 DEF S!Output
<1> DEFINE next == [step |-> "put", run |-> x, output |-> output]
<1>3. next \in Requests /\ RequestHolds(next)
    BY DEF Requests, RequestHolds
<1>4. UNCHANGED <<bases, patches, profiles, links, files, renders, reports, reviews, told>>
    BY DEF S!Render, S!resumeVars
<1> HIDE DEF next
<1>5. S!Go(c, next)
    BY <1>2 DEF next
<1> QED BY <1>3, <1>4, <1>5, ReadingRequest

LEMMA IdleHolds == S!Idle \in Requests /\ RequestHolds(S!Idle) /\ RequestHolds(S!Idle)'
BY DEF S!Idle, Requests, RequestHolds

(* A profile is inserted where there was none. *)
LEMMA CreateProfileStep ==
    ASSUME S!StudioAssumption, StudioInv, NEW c \in Client, S!CreateProfile(c)
    PROVE  StudioInv'
<1>1. UNCHANGED <<bases, patches, links, files, renders, reports, reviews, told>>
      /\ S!Go(c, S!Idle)
    BY DEF S!CreateProfile, S!resumeVars
<1>2. doing[c].id \in Profile /\ doing[c].profile \in S!TargetProfile
    BY RequestFields DEF S!CreateProfile, StudioInv, StudioTypes
<1>3. /\ profiles' \in S!ProfileTable
      /\ \A t \in Profile : profiles[t] # None => profiles'[t] = profiles[t]
    BY <1>2 DEF S!CreateProfile, StudioInv, StudioTypes, S!StudioTypeOK, S!ProfileTable
<1>4. Grows
    BY <1>1, <1>3 DEF Grows, Linked
<1>5. doing' \in [Client -> Requests] /\ RequestsHold'
    BY <1>1, <1>4, RequestStep, IdleHolds
<1>6. links \subseteq Profile \X Patch
    BY DEF StudioInv, StudioTypes, S!StudioTypeOK, S!LinkTable
<1>7. LinksHold'
    BY <1>1, <1>4, <1>6 DEF StudioInv, LinksHold, Grows
<1>8. StudioTypes'
    BY <1>1, <1>3, <1>5 DEF StudioInv, StudioTypes, ResumeTypes, S!StudioTypeOK, S!BaseTable,
       S!PatchTable, S!LinkTable, S!RenderTable, S!ReportTable, S!ReviewTable
<1>9. AnsweredIsStored'
    <2>1. S!AnsweredIsLinked'
        BY <1>1, <1>7 DEF StudioInv, AnsweredIsStored, S!AnsweredIsLinked, LinksHold, Linked
    <2> QED BY <1>1, <1>8, <2>1 DEF StudioInv, StudioTypes, AnsweredIsStored,
               S!RenderIsComplete, S!AnsweredRenderIsStored, S!AnsweredReviewStands
<1> QED BY <1>5, <1>7, <1>8, <1>9 DEF StudioInv

LEMMA SavedBase ==
    ASSUME S!StudioAssumption, ResumeTypes, NEW r \in Resume, S!SaveBase(r)
    PROVE  PatchesKept
<1>1. PICK c \in ResumeCandidate, content \in S!BoundedSeq(Item, 3) :
        S!StageBase(r, [owner |-> c, content |-> content])
    BY DEF S!SaveBase
<1> DEFINE row == [owner |-> c, content |-> content]
<1>2. row \in S!BaseRow
    BY FirstContent DEF S!BaseRow
<1> HIDE DEF row
<1>3. /\ Len(bases[r]) < MaxBase /\ bases' = [bases EXCEPT ![r] = Append(@, row)]
      /\ UNCHANGED patches
    BY <1>1 DEF S!StageBase, row
<1>4. bases \in [Resume -> Seq(S!BaseRow)]
    BY DEF ResumeTypes, S!BaseTable
<1>5. /\ bases' \in [Resume -> Seq(S!BaseRow)]
      /\ \A q \in Resume : q # r => bases'[q] = bases[q]
      /\ Len(bases'[r]) = Len(bases[r]) + 1 /\ Len(bases[r]) \in Nat
    BY <1>2, <1>3, <1>4
<1>6. \A q \in Resume : Len(bases'[q]) <= MaxBase
    BY <1>3, <1>5 DEF ResumeTypes, S!StudioAssumption, S!ResumeAssumption
<1> QED BY <1>3, <1>5, <1>6 DEF PatchesKept, ResumeTypes, S!BaseTable, S!PatchTable

(* Patches that are kept leave every table of the studio as it must be. *)
LEMMA ResumesMove ==
    ASSUME StudioInv, PatchesKept, doing' \in [Client -> Requests], RequestsHold',
           UNCHANGED <<profiles, links, files, renders, reports, reviews, told>>
    PROVE  StudioInv'
<1>1. links \subseteq Profile \X Patch
    BY DEF StudioInv, StudioTypes, S!StudioTypeOK, S!LinkTable
<1>2. LinksHold'
    BY <1>1 DEF StudioInv, LinksHold, Linked, PatchesKept
<1>3. StudioTypes'
    BY DEF StudioInv, StudioTypes, PatchesKept, S!StudioTypeOK, S!ProfileTable, S!LinkTable,
           S!RenderTable, S!ReportTable, S!ReviewTable
<1>4. S!AnsweredIsLinked'
    BY <1>2 DEF StudioInv, AnsweredIsStored, S!AnsweredIsLinked, LinksHold, Linked
<1>5. AnsweredIsStored'
    BY <1>3, <1>4 DEF StudioInv, StudioTypes, AnsweredIsStored, S!RenderIsComplete,
                      S!AnsweredRenderIsStored, S!AnsweredReviewStands
<1> QED BY <1>2, <1>3, <1>5 DEF StudioInv

LEMMA KeptGrows ==
    ASSUME PatchesKept, UNCHANGED <<profiles, files>>
    PROVE  Grows
BY DEF PatchesKept, Grows, Linked

LEMMA ProposeForStep ==
    ASSUME S!StudioAssumption, StudioInv, NEW c \in Client, S!ProposeFor(c)
    PROVE  StudioInv'
<1>1. UNCHANGED <<profiles, links, files, renders, reports, reviews, told>>
    BY DEF S!ProposeFor
<1>2. PICK t \in Profile, p \in Patch :
        /\ profiles[t] # None
        /\ \/ S!ProposePatch(p)
           \/ patches[p] # None /\ UNCHANGED S!resumeVars
        /\ patches'[p].resume = profiles[t].resume
        /\ S!Go(c, [step |-> "link", profile |-> t, patch |-> p])
    BY DEF S!ProposeFor
<1>3. PatchesKept /\ patches'[p] # None
    <2>1. CASE S!ProposePatch(p)
        BY <2>1, ProposedPatch DEF StudioInv, StudioTypes, S!StudioAssumption
    <2>2. CASE patches[p] # None /\ UNCHANGED S!resumeVars
        BY <2>2 DEF S!resumeVars, StudioInv, StudioTypes, ResumeTypes, PatchesKept,
                    S!BaseTable, S!PatchTable
    <2> QED BY <1>2, <2>1, <2>2
<1> DEFINE next == [step |-> "link", profile |-> t, patch |-> p]
<1>4. next \in Requests /\ RequestHolds(next)'
    BY <1>1, <1>2, <1>3 DEF Requests, RequestHolds, Linked
<1> HIDE DEF next
<1>5. S!Go(c, next)
    BY <1>2 DEF next
<1>6. doing' \in [Client -> Requests] /\ RequestsHold'
    BY <1>1, <1>3, <1>4, <1>5, KeptGrows, RequestStep
<1> QED BY <1>1, <1>3, <1>6, ResumesMove

LEMMA ElsewhereStep ==
    ASSUME S!StudioAssumption, StudioInv, S!Elsewhere
    PROVE  StudioInv'
<1>1. UNCHANGED <<profiles, links, files, renders, reports, reviews, doing, told>>
    BY DEF S!Elsewhere, S!studioVars
<1>2. PatchesKept
    <2>1. ASSUME NEW v \in Revision, S!CreateRevision(v) PROVE PatchesKept
        BY <2>1 DEF S!CreateRevision, PatchesKept, StudioInv, StudioTypes, ResumeTypes,
                    S!BaseTable, S!PatchTable
    <2> QED BY <2>1, SavedBase, ReviewedPatch DEF S!Elsewhere, StudioInv, StudioTypes,
                S!StudioAssumption
<1>3. doing' \in [Client -> Requests] /\ RequestsHold'
    BY <1>1, <1>2, KeptGrows, RequestFields
    DEF StudioInv, StudioTypes, RequestsHold, RequestHolds, Grows
<1> QED BY <1>1, <1>2, <1>3, ResumesMove

(* The process ends between any two steps of its requests. *)
LEMMA CrashStep ==
    ASSUME StudioInv, S!Crash
    PROVE  StudioInv'
<1>1. /\ UNCHANGED <<bases, patches, profiles, links, files, renders, reports, reviews, told>>
      /\ doing' = [c \in Client |-> S!Idle]
    BY DEF S!Crash, S!resumeVars
<1>2. doing' \in [Client -> Requests] /\ RequestsHold'
    BY <1>1, IdleHolds DEF RequestsHold
<1> QED BY <1>1, <1>2, TablesStay

(* A step of the studio leaves the resumes alone; what it must show is what it wrote. *)
LEMMA StudioMoves ==
    ASSUME StudioInv, UNCHANGED <<bases, patches, profiles, links>>,
           doing' \in [Client -> Requests],
           RequestsHold', S!StudioTypeOK', told \subseteq told', told' \subseteq Answers,
           \A answer \in told' \ told : "patch" \in DOMAIN answer =>
                <<answer.profile, answer.patch>> \in links,
           S!RenderIsComplete', S!AnsweredRenderIsStored', S!AnsweredReviewStands'
    PROVE  StudioInv'
<1>1. StudioTypes'
    BY DEF StudioInv, StudioTypes, ResumeTypes, S!BaseTable, S!PatchTable
<1>2. LinksHold'
    BY DEF StudioInv, LinksHold, Linked
<1>3. S!AnsweredIsLinked'
    BY DEF StudioInv, AnsweredIsStored, S!AnsweredIsLinked
<1> QED BY <1>1, <1>2, <1>3 DEF StudioInv, AnsweredIsStored

LEMMA LinkPatchStep ==
    ASSUME StudioInv, NEW c \in Client, S!LinkPatch(c)
    PROVE  StudioInv'
<1> DEFINE t == doing[c].profile
           p == doing[c].patch
           answer == [patch |-> p, profile |-> t]
<1>1. /\ UNCHANGED <<bases, patches, profiles, files, renders, reports, reviews>>
      /\ links' = links \cup {<<t, p>>}
      /\ S!Go(c, S!Idle) /\ told' = told \cup {answer}
    BY DEF S!LinkPatch, S!resumeVars, S!Answer
<1>2. doing[c] \in Requests /\ RequestHolds(doing[c]) /\ doing[c].step = "link"
    BY DEF S!LinkPatch, StudioInv, StudioTypes, RequestsHold
<1>3. t \in Profile /\ p \in Patch /\ Linked(t, p)
    BY <1>2, RequestFields DEF RequestHolds
<1> HIDE DEF t, p
<1>4. doing' \in [Client -> Requests] /\ RequestsHold'
    BY <1>1, NothingGrows, RequestStep, IdleHolds
<1>5. answer \in Answers /\ "output" \notin DOMAIN answer /\ "decision" \notin DOMAIN answer
      /\ answer.patch = p /\ answer.profile = t
    BY <1>3 DEF Answers
<1> HIDE DEF answer
<1>6. LinksHold'
    BY <1>1, <1>3 DEF StudioInv, LinksHold, Linked
<1>7. StudioTypes'
    BY <1>1, <1>3, <1>4, <1>5 DEF StudioInv, StudioTypes, ResumeTypes, S!StudioTypeOK,
       S!BaseTable, S!PatchTable, S!ProfileTable, S!LinkTable, S!RenderTable, S!ReportTable,
       S!ReviewTable
<1>8. S!AnsweredIsLinked'
    <2>1. \A a \in told' : "patch" \in DOMAIN a => <<a.profile, a.patch>> \in links'
        BY <1>1, <1>5 DEF StudioInv, AnsweredIsStored, S!AnsweredIsLinked
    <2> QED BY <2>1, <1>6 DEF S!AnsweredIsLinked, LinksHold, Linked
<1>9. S!RenderIsComplete' /\ S!AnsweredRenderIsStored' /\ S!AnsweredReviewStands'
    BY <1>1, <1>5 DEF StudioInv, AnsweredIsStored, S!RenderIsComplete,
       S!AnsweredRenderIsStored, S!AnsweredReviewStands
<1> QED BY <1>4, <1>6, <1>7, <1>8, <1>9 DEF StudioInv, StudioTypes, AnsweredIsStored

(* Fields of a request for a render, one step later. *)
LEMMA RenderRequest ==
    ASSUME StudioInv, NEW c \in Client, doing[c].step \in {"put", "read"},
           NEW step \in {"read", "insert"}
    PROVE  LET next == [doing[c] EXCEPT !.step = step] IN
           /\ next \in Requests /\ next.step = step
           /\ next.run = doing[c].run /\ next.output = doing[c].output
<1>1. doing[c] \in [step : {"put", "read", "insert"}, run : S!RenderRun, output : S!Output]
    BY DEF StudioInv, StudioTypes, Requests
<1> QED BY <1>1 DEF Requests

LEMMA PutRenderStep ==
    ASSUME StudioInv, NEW c \in Client, S!PutRender(c)
    PROVE  StudioInv'
<1>1. /\ UNCHANGED <<bases, patches, profiles, links, renders, reports, reviews, told>>
      /\ files' = files \cup {doing[c].output}
      /\ S!Go(c, [doing[c] EXCEPT !.step = "read"]) /\ doing[c].step = "put"
    BY DEF S!PutRender, S!resumeVars
<1>2. PICK next \in Requests :
        S!Go(c, next) /\ next.step = "read" /\ next.output = doing[c].output
    BY <1>1, RenderRequest
<1>3. doing[c].output \in S!Output
    BY <1>1, RequestFields DEF StudioInv, StudioTypes
<1>4. Grows /\ RequestHolds(next)'
    BY <1>1, <1>2 DEF Grows, Linked, RequestHolds
<1>5. doing' \in [Client -> Requests] /\ RequestsHold'
    BY <1>1, <1>2, <1>4, RequestStep
<1>6. S!StudioTypeOK'
    BY <1>1, <1>3 DEF StudioInv, StudioTypes, S!StudioTypeOK, S!ProfileTable, S!LinkTable,
       S!RenderTable, S!ReportTable, S!ReviewTable
<1>7. S!RenderIsComplete' /\ S!AnsweredRenderIsStored' /\ S!AnsweredReviewStands'
    BY <1>1 DEF StudioInv, AnsweredIsStored, S!RenderIsComplete, S!AnsweredRenderIsStored,
       S!AnsweredReviewStands
<1> QED BY <1>1, <1>5, <1>6, <1>7, StudioMoves DEF StudioInv, StudioTypes

LEMMA AnswerFields ==
    /\ \A x \in S!RenderRun, output \in S!Output :
        LET answer == [run |-> x, output |-> output] IN
        /\ answer \in Answers /\ answer.run = x /\ answer.output = output
        /\ "patch" \notin DOMAIN answer /\ "decision" \notin DOMAIN answer
    /\ \A x \in S!RenderRun, decision \in S!Decision :
        LET answer == [reviewed |-> x, decision |-> decision] IN
        /\ answer \in Answers /\ answer.reviewed = x /\ answer.decision = decision
        /\ "patch" \notin DOMAIN answer /\ "output" \notin DOMAIN answer
BY DEF Answers

(* A request that ends with an answer about what is stored. *)
LEMMA AnsweredStep ==
    ASSUME StudioInv, NEW c \in Client, NEW answer \in Answers, S!Answer(c, answer),
           UNCHANGED <<bases, patches, profiles, links, files, renders, reports, reviews>>,
           "patch" \notin DOMAIN answer,
           "output" \in DOMAIN answer => renders[answer.run] = answer.output,
           "decision" \in DOMAIN answer => reviews[answer.reviewed] = answer.decision
    PROVE  StudioInv'
<1>1. S!Go(c, S!Idle) /\ told' = told \cup {answer}
    BY DEF S!Answer
<1>2. doing' \in [Client -> Requests] /\ RequestsHold'
    BY <1>1, NothingGrows, RequestStep, IdleHolds
<1>3. S!StudioTypeOK'
    BY DEF StudioInv, StudioTypes, S!StudioTypeOK, S!ProfileTable, S!LinkTable,
       S!RenderTable, S!ReportTable, S!ReviewTable
<1>4. S!RenderIsComplete' /\ S!AnsweredRenderIsStored' /\ S!AnsweredReviewStands'
    BY <1>1 DEF StudioInv, AnsweredIsStored, S!RenderIsComplete, S!AnsweredRenderIsStored,
       S!AnsweredReviewStands
<1> QED BY <1>1, <1>2, <1>3, <1>4, StudioMoves DEF StudioInv, StudioTypes

LEMMA ReadRenderStep ==
    ASSUME StudioInv, NEW c \in Client, S!ReadRender(c)
    PROVE  StudioInv'
<1> DEFINE x == doing[c].run
           output == doing[c].output
           next == [doing[c] EXCEPT !.step = "insert"]
<1>1. /\ UNCHANGED <<bases, patches, profiles, links, files, renders, reports, reviews>>
      /\ doing[c].step = "read"
    BY DEF S!ReadRender, S!resumeVars
<1>2. x \in S!RenderRun /\ output \in S!Output /\ output \in files
    BY <1>1, RequestFields DEF StudioInv, StudioTypes, RequestsHold, RequestHolds
<1>3. \/ S!Go(c, next) /\ UNCHANGED told
      \/ S!Answer(c, [run |-> x, output |-> output]) /\ renders[x] = output
      \/ S!Go(c, S!Idle) /\ UNCHANGED told
    BY DEF S!ReadRender
<1>4. next \in Requests /\ RequestHolds(next)
    BY <1>1, <1>2, RenderRequest DEF RequestHolds
<1> HIDE DEF next, x, output
<1>5. CASE S!Go(c, next) /\ UNCHANGED told
    BY <1>1, <1>4, <1>5, ReadingRequest
<1>6. CASE S!Answer(c, [run |-> x, output |-> output]) /\ renders[x] = output
    BY <1>1, <1>2, <1>6, AnswerFields, AnsweredStep
<1>7. CASE S!Go(c, S!Idle) /\ UNCHANGED told
    BY <1>1, <1>7, IdleHolds, ReadingRequest
<1> QED BY <1>3, <1>5, <1>6, <1>7

(* The run is stored once, with its report, after its file. *)
LEMMA InsertRenderStep ==
    ASSUME S!StudioAssumption, StudioInv, NEW c \in Client, S!InsertRender(c)
    PROVE  StudioInv'
<1> DEFINE x == doing[c].run
           output == doing[c].output
           answer == [run |-> x, output |-> output]
<1>1. /\ UNCHANGED <<bases, patches, profiles, links, files, reviews>>
      /\ doing[c].step = "insert"
    BY DEF S!InsertRender, S!resumeVars
<1>2. x \in S!RenderRun /\ output \in S!Output /\ output \in files
    BY <1>1, RequestFields DEF StudioInv, StudioTypes, RequestsHold, RequestHolds
<1>3. answer \in Answers /\ answer.run = x /\ answer.output = output
      /\ "patch" \notin DOMAIN answer /\ "decision" \notin DOMAIN answer
    BY <1>2, AnswerFields
<1>4. \/ /\ renders[x] = None
         /\ renders' = [renders EXCEPT ![x] = output]
         /\ reports' = reports \cup {x}
         /\ S!Answer(c, answer)
      \/ S!Go(c, S!Idle) /\ UNCHANGED <<renders, reports, told>>
    BY DEF S!InsertRender
<1> HIDE DEF x, output, answer
<1>5. CASE S!Go(c, S!Idle) /\ UNCHANGED <<renders, reports, told>>
    BY <1>1, <1>5, IdleHolds, ReadingRequest
<1>6. CASE /\ renders[x] = None
           /\ renders' = [renders EXCEPT ![x] = output]
           /\ reports' = reports \cup {x}
           /\ S!Answer(c, answer)
    <2>1. S!Go(c, S!Idle) /\ told' = told \cup {answer}
        BY <1>6 DEF S!Answer
    <2>2. doing' \in [Client -> Requests] /\ RequestsHold'
        BY <1>1, <2>1, NothingGrows, RequestStep, IdleHolds
    <2>3. /\ renders' \in S!RenderTable /\ renders'[x] = output
          /\ \A y \in S!RenderRun : y # x => renders'[y] = renders[y]
        BY <1>2, <1>6 DEF StudioInv, StudioTypes, S!StudioTypeOK, S!RenderTable
    <2>4. S!StudioTypeOK'
        BY <1>1, <1>2, <1>6, <2>3 DEF StudioInv, StudioTypes, S!StudioTypeOK, S!ProfileTable,
           S!LinkTable, S!ReportTable, S!ReviewTable
    <2>5. S!RenderIsComplete'
        BY <1>1, <1>2, <1>6, <2>3 DEF StudioInv, AnsweredIsStored, S!RenderIsComplete
    <2>6. S!AnsweredRenderIsStored'
        <3>1. ASSUME NEW a \in told, "output" \in DOMAIN a
              PROVE  renders'[a.run] = a.output
            <4>1. a \in Answers /\ renders[a.run] = a.output
                BY <3>1 DEF StudioInv, StudioTypes, AnsweredIsStored, S!AnsweredRenderIsStored
            <4>2. a.run \in S!RenderRun /\ a.output \in S!Output
                BY <3>1, <4>1 DEF Answers
            <4>3. a.run # x
                BY <1>6, <4>1, <4>2 DEF S!StudioAssumption
            <4> QED BY <2>3, <4>1, <4>2, <4>3
        <3> QED BY <1>3, <2>1, <2>3, <3>1 DEF S!AnsweredRenderIsStored
    <2>7. S!AnsweredReviewStands'
        BY <1>1, <1>3, <2>1 DEF StudioInv, AnsweredIsStored, S!AnsweredReviewStands
    <2> QED BY <1>1, <1>3, <2>1, <2>2, <2>4, <2>5, <2>6, <2>7, StudioMoves
        DEF StudioInv, StudioTypes
<1> QED BY <1>4, <1>5, <1>6

LEMMA AskReviewRenderStep ==
    ASSUME StudioInv, NEW c \in Client, S!AskReviewRender(c)
    PROVE  StudioInv'
<1>1. UNCHANGED <<bases, patches, profiles, links, files, renders, reports, reviews>>
    BY DEF S!AskReviewRender, S!resumeVars
<1>2. PICK x \in S!RenderRun, decision \in S!Decision :
        \/ /\ S!Go(c, [step |-> "review", run |-> x, decision |-> decision])
           /\ UNCHANGED told
        \/ /\ S!Answer(c, [reviewed |-> x, decision |-> decision])
           /\ reviews[x] = decision
    BY DEF S!AskReviewRender
<1>3. CASE /\ S!Go(c, [step |-> "review", run |-> x, decision |-> decision])
           /\ UNCHANGED told
    <2> DEFINE next == [step |-> "review", run |-> x, decision |-> decision]
    <2>1. next \in Requests /\ RequestHolds(next)
        BY DEF Requests, RequestHolds
    <2> HIDE DEF next
    <2>2. S!Go(c, next)
        BY <1>3 DEF next
    <2> QED BY <1>1, <1>3, <2>1, <2>2, ReadingRequest
<1>4. CASE /\ S!Answer(c, [reviewed |-> x, decision |-> decision])
           /\ reviews[x] = decision
    BY <1>1, <1>4, AnswerFields, AnsweredStep
<1> QED BY <1>2, <1>3, <1>4

(* A review is stored once. *)
LEMMA ReviewRenderStep ==
    ASSUME S!StudioAssumption, StudioInv, NEW c \in Client, S!ReviewRender(c)
    PROVE  StudioInv'
<1> DEFINE x == doing[c].run
           decision == doing[c].decision
           answer == [reviewed |-> x, decision |-> decision]
<1>1. /\ UNCHANGED <<bases, patches, profiles, links, files, renders, reports>>
      /\ doing[c].step = "review"
    BY DEF S!ReviewRender, S!resumeVars
<1>2. x \in S!RenderRun /\ decision \in S!Decision
    BY <1>1, RequestFields DEF StudioInv, StudioTypes
<1>3. answer \in Answers /\ answer.reviewed = x /\ answer.decision = decision
      /\ "patch" \notin DOMAIN answer /\ "output" \notin DOMAIN answer
    BY <1>2, AnswerFields
<1>4. \/ /\ reviews[x] = None
         /\ reviews' = [reviews EXCEPT ![x] = decision]
         /\ S!Answer(c, answer)
      \/ S!Go(c, S!Idle) /\ UNCHANGED <<reviews, told>>
    BY DEF S!ReviewRender
<1> HIDE DEF x, decision, answer
<1>5. CASE S!Go(c, S!Idle) /\ UNCHANGED <<reviews, told>>
    BY <1>1, <1>5, IdleHolds, ReadingRequest
<1>6. CASE /\ reviews[x] = None
           /\ reviews' = [reviews EXCEPT ![x] = decision]
           /\ S!Answer(c, answer)
    <2>1. S!Go(c, S!Idle) /\ told' = told \cup {answer}
        BY <1>6 DEF S!Answer
    <2>2. doing' \in [Client -> Requests] /\ RequestsHold'
        BY <1>1, <2>1, NothingGrows, RequestStep, IdleHolds
    <2>3. /\ reviews' \in S!ReviewTable /\ reviews'[x] = decision
          /\ \A y \in S!RenderRun : y # x => reviews'[y] = reviews[y]
        BY <1>2, <1>6 DEF StudioInv, StudioTypes, S!StudioTypeOK, S!ReviewTable
    <2>4. S!StudioTypeOK'
        BY <1>1, <2>3 DEF StudioInv, StudioTypes, S!StudioTypeOK, S!ProfileTable,
           S!LinkTable, S!RenderTable, S!ReportTable
    <2>5. S!AnsweredReviewStands'
        <3>1. ASSUME NEW a \in told, "decision" \in DOMAIN a
              PROVE  reviews'[a.reviewed] = a.decision
            <4>1. a \in Answers /\ reviews[a.reviewed] = a.decision
                BY <3>1 DEF StudioInv, StudioTypes, AnsweredIsStored, S!AnsweredReviewStands
            <4>2. a.reviewed \in S!RenderRun /\ a.decision \in S!Decision
                BY <3>1, <4>1 DEF Answers
            <4>3. a.reviewed # x
                BY <1>6, <4>1, <4>2 DEF S!StudioAssumption
            <4> QED BY <2>3, <4>1, <4>2, <4>3
        <3> QED BY <1>3, <2>1, <2>3, <3>1 DEF S!AnsweredReviewStands
    <2>6. S!RenderIsComplete' /\ S!AnsweredRenderIsStored'
        BY <1>1, <1>3, <2>1 DEF StudioInv, AnsweredIsStored, S!RenderIsComplete,
           S!AnsweredRenderIsStored
    <2> QED BY <1>1, <1>3, <2>1, <2>2, <2>4, <2>5, <2>6, StudioMoves DEF StudioInv, StudioTypes
<1> QED BY <1>4, <1>5, <1>6

LEMMA StudioStart ==
    ASSUME S!StudioAssumption, S!StudioInit
    PROVE  StudioInv
<1>1. StudioTypes
    BY IdleHolds DEF S!StudioAssumption, S!ResumeAssumption, S!StudioInit, S!Init, StudioTypes, ResumeTypes,
       S!StudioTypeOK, S!BaseTable, S!PatchTable, S!ProfileTable, S!LinkTable, S!RenderTable,
       S!ReportTable, S!ReviewTable
<1>2. RequestsHold /\ LinksHold
    BY IdleHolds DEF S!StudioInit, RequestsHold, LinksHold
<1>3. AnsweredIsStored
    BY <1>1 DEF StudioTypes, S!StudioInit, AnsweredIsStored, S!AnsweredIsLinked,
       S!RenderIsComplete, S!AnsweredRenderIsStored, S!AnsweredReviewStands
<1> QED BY <1>1, <1>2, <1>3 DEF StudioInv

(* Whoever was told that a proposal is linked, that a render is stored or that its review
   stands was told what the tables hold from then on, although a request reads before
   its transaction, two requests may ask for the same and the process may end between
   the two commits of a proposal, or between the file of a render and its row. *)
THEOREM StudioSafety ==
    ASSUME S!StudioAssumption
    PROVE  S!StudioSpec => []AnsweredIsStored
<1>1. S!StudioInit => StudioInv
    BY StudioStart
<1>2. StudioInv /\ [S!StudioNext]_(<<S!resumeVars, S!studioVars>>) => StudioInv'
    <2> SUFFICES ASSUME StudioInv, [S!StudioNext]_(<<S!resumeVars, S!studioVars>>)
                 PROVE  StudioInv'
        OBVIOUS
    <2>1. ASSUME NEW c \in Client,
                 \/ S!AskProfile(c) \/ S!CreateProfile(c) \/ S!ProposeFor(c) \/ S!LinkPatch(c)
                 \/ S!Render(c) \/ S!PutRender(c) \/ S!ReadRender(c) \/ S!InsertRender(c)
                 \/ S!AskReviewRender(c) \/ S!ReviewRender(c)
          PROVE  StudioInv'
        BY <2>1, AskProfileStep, CreateProfileStep, ProposeForStep, LinkPatchStep, RenderStep,
           PutRenderStep, ReadRenderStep, InsertRenderStep, AskReviewRenderStep,
           ReviewRenderStep
    <2>2. CASE UNCHANGED <<S!resumeVars, S!studioVars>>
        <3>1. UNCHANGED <<bases, patches, profiles, links, files, renders, reports, reviews,
                          doing, told>>
            BY <2>2 DEF S!resumeVars, S!studioVars
        <3>2. doing' \in [Client -> Requests] /\ RequestsHold'
            BY <3>1 DEF StudioInv, StudioTypes, RequestsHold, RequestHolds, Linked
        <3> QED BY <3>1, <3>2, TablesStay
    <2> QED BY <2>1, <2>2, CrashStep, ElsewhereStep DEF S!StudioNext
<1>3. StudioInv => AnsweredIsStored
    BY DEF StudioInv
<1> QED BY <1>1, <1>2, <1>3, PTL DEF S!StudioSpec
===============================================================================
