---------------------------- MODULE Communications ----------------------------
(***************************************************************************)
(* Communication drafts: db/communication_repository.py behind             *)
(* api/communication.py.  A draft is created under a limit per day,        *)
(* reviewed by the user, and then follows what the user reports having     *)
(* happened outside.  Every operation reads in autocommit and then writes  *)
(* in a transaction of its own.  The text, the channel and the recipient   *)
(* are one "body".                                                         *)
(***************************************************************************)
EXTENDS Integers, FiniteSets, NoValue

CONSTANTS
    Client,     \* threads that execute a request
    Message,    \* draft ids
    Body, Reason,
    DailyLimits,    \* the limits requests come with
    MaxDay

Status == {"pending_review", "approved", "rejected", "sent", "replied", "follow_up",
           "closed", "blocked"}

(* communication_draft: day is that of created_at; history: the limit of its request, the
   day the drafts were counted on, and whether the limit blocked it. *)
Draft == [body : Body, status : Status, reason : Reason \cup {None}, day : 1..MaxDay,
          limit : DailyLimits, counted : 1..MaxDay, limited : BOOLEAN]

(* A draft id that is not stored is no draft, and a review says why. *)
CommunicationAssumption ==
    /\ None \notin Draft \cup Reason
    /\ IsFiniteSet(Message)
    /\ IsFiniteSet(Client)
    /\ DailyLimits \subseteq Nat \ {0}
    /\ MaxDay \in Nat \ {0}

VARIABLES
    drafts,   \* communication_draft
    day,      \* the day date('now') gives
    cstep,    \* what each request does next
    cheld,    \* what it has read
    answered, \* history: the decisions the reviewers of a draft were told it has
    overtaken \* history: the requests whose draft was closed since they read it

communicationVars == <<drafts, day, cstep, cheld, answered, overtaken>>

Nothing == [message |-> None, value |-> None, reason |-> None,
            day |-> 0, limit |-> 0, counted |-> 0, today |-> 0]

CommunicationInit ==
    /\ drafts = [m \in Message |-> None]
    /\ day = 1
    /\ cstep = [c \in Client |-> "idle"]
    /\ cheld = [c \in Client |-> Nothing]
    /\ answered = [m \in Message |-> {}]
    /\ overtaken = {}

Step(c, next, holding) ==
    /\ cstep' = [cstep EXCEPT ![c] = next]
    /\ cheld' = [cheld EXCEPT ![c] = holding]

Done(c) == Step(c, "idle", Nothing)

NewDay ==
    /\ day < MaxDay
    /\ day' = day + 1
    /\ UNCHANGED <<drafts, cstep, cheld, answered, overtaken>>

(* date(created_at) = date('now') *)
CreatedToday == Cardinality({m \in Message : drafts[m] # None /\ drafts[m].day = day})

(* A request builds its draft, which stamps it with the day, ... *)
AskCreate(c) ==
    /\ cstep[c] = "idle"
    /\ \E m \in Message, b \in Body, limit \in DailyLimits :
        Step(c, "count",
             [Nothing EXCEPT !.message = m, !.value = b, !.limit = limit, !.day = day])
    /\ UNCHANGED <<drafts, day, answered, overtaken>>

(* ... create returns or refuses a draft that exists; otherwise the drafts of the day,
   which may be the next one by now, are counted ... *)
Count(c) ==
    /\ cstep[c] = "count"
    /\ IF drafts[cheld[c].message] = None
       THEN Step(c, "create", [cheld[c] EXCEPT !.counted = day, !.today = CreatedToday])
       ELSE Done(c)
    /\ UNCHANGED <<drafts, day, answered, overtaken>>

(* Mutant: off by one. *)
OverLimit_Late(today, limit) == today > limit

OverLimit(today, limit) == today >= limit

(* ... and it is inserted, blocked when its limit is reached. *)
NewDraft(request) ==
    LET over == OverLimit(request.today, request.limit) IN
    [body |-> request.value, reason |-> None, day |-> request.day, limit |-> request.limit,
     counted |-> request.counted, limited |-> over,
     status |-> IF over THEN "blocked" ELSE "pending_review"]

(* An id that was taken in between is refused. *)
Create(c) ==
    /\ cstep[c] = "create"
    /\ LET m == cheld[c].message IN
        drafts' = IF drafts[m] = None THEN [drafts EXCEPT ![m] = NewDraft(cheld[c])] ELSE drafts
    /\ Done(c)
    /\ UNCHANGED <<day, answered, overtaken>>

(* review: only a draft that is read as pending goes on; a repetition of the
   decision is returned, anything else is refused. *)
AskReview(c) ==
    /\ cstep[c] = "idle"
    /\ \E m \in Message, decision \in {"approved", "rejected"}, reason \in Reason :
        /\ drafts[m] # None
        /\ drafts[m].status = "pending_review"
        /\ Step(c, "review", [Nothing EXCEPT !.message = m, !.value = decision,
                                              !.reason = reason])
    /\ UNCHANGED <<drafts, day, answered, overtaken>>

(* Mutant: UPDATE ... WHERE draft_id only. *)
StillPending_Any(m) == TRUE

(* UPDATE ... WHERE draft_id AND status='pending_review' *)
StillPending(m) == drafts[m].status = "pending_review"

(* The answer is what the row says afterwards, whether or not this UPDATE was the
   one that decided. *)
Review(c) ==
    /\ cstep[c] = "review"
    /\ LET m == cheld[c].message IN
        /\ drafts' = IF StillPending(m)
                     THEN [drafts EXCEPT ![m].status = cheld[c].value,
                                         ![m].reason = cheld[c].reason]
                     ELSE drafts
        /\ answered' = [answered EXCEPT ![m] = @ \cup {drafts'[m].reason}]
    /\ Done(c)
    /\ UNCHANGED <<day, overtaken>>

(* Mutant: a blocked draft can be sent after all. *)
Allowed_Unblock ==
    [status \in Status |->
        CASE status = "approved"  -> {"sent", "blocked", "closed"}
          [] status = "blocked"   -> {"sent", "closed"}
          [] OTHER -> {}]

(* Mutant: a closed draft can be followed up. *)
Allowed_Reopen ==
    [status \in Status |->
        CASE status = "approved"  -> {"sent", "blocked", "closed"}
          [] status = "closed"    -> {"follow_up"}
          [] OTHER -> {}]

(* transition's table of what may follow what. *)
Allowed ==
    [status \in Status |->
        CASE status = "approved"  -> {"sent", "blocked", "closed"}
          [] status = "sent"      -> {"replied", "follow_up", "closed"}
          [] status = "replied"   -> {"follow_up", "closed"}
          [] status = "follow_up" -> {"replied", "closed"}
          [] status = "blocked"   -> {"closed"}
          [] OTHER -> {}]

AskTransition(c) ==
    /\ cstep[c] = "idle"
    /\ \E m \in Message :
        /\ drafts[m] # None
        /\ \E status \in Allowed[drafts[m].status] :
            Step(c, "transition", [Nothing EXCEPT !.message = m, !.value = status])
    /\ UNCHANGED <<drafts, day, answered, overtaken>>

(* The other requests that have read draft m and will write its status. *)
Pending(c, m) == {d \in Client \ {c} : cstep[d] = "transition" /\ cheld[d].message = m}

(* UPDATE ... WHERE draft_id only: whatever the status is by now. *)
Transition(c) ==
    /\ cstep[c] = "transition"
    /\ drafts' = [drafts EXCEPT ![cheld[c].message].status = cheld[c].value]
    /\ overtaken' = (IF cheld[c].value = "closed"
                     THEN overtaken \cup Pending(c, cheld[c].message) ELSE overtaken) \ {c}
    /\ Done(c)
    /\ UNCHANGED <<day, answered>>

CommunicationNext ==
    \/ NewDay
    \/ \E c \in Client :
        \/ AskCreate(c) \/ Count(c) \/ Create(c)
        \/ AskReview(c) \/ Review(c)
        \/ AskTransition(c) \/ Transition(c)

CommunicationSpec == CommunicationInit /\ [][CommunicationNext]_communicationVars

-----------------------------------------------------------------------------
(* The rows and what is held of them. *)
CommunicationTypeOK ==
    /\ drafts \in [Message -> Draft \cup {None}]
    /\ day \in 1..MaxDay
    /\ \A c \in Client : cstep[c] # "idle" => cheld[c].message \in Message

(* Whatever two users decide at once, a draft has been given one reason for one
   decision, and every reviewer who is answered is shown that one. *)
OneDecision == \A m \in Message : Cardinality(answered[m]) <= 1

(* A draft reported as sent, answered or followed up has been approved: a review
   left its reason, and the daily limit did not block it. *)
SentWasApproved ==
    \A m \in Message :
        (drafts[m] # None /\ drafts[m].status \in {"sent", "replied", "follow_up"}) =>
            drafts[m].reason # None /\ ~drafts[m].limited

(* Whatever users decide at once, a draft has one decision and every reviewer is shown
   that one; a draft reported as sent was reviewed, and the daily limit did not block it. *)
DraftsAreDecidedOnce == CommunicationTypeOK /\ OneDecision /\ SentWasApproved

(* The drafts of day d that were counted on that day under a limit of at most `limit` and
   can be reviewed, and the drafts of day d that were counted on a later day. *)
Within(d, limit) ==
    {m \in Message :
        /\ drafts[m] # None
        /\ drafts[m].day = d /\ drafts[m].counted = d
        /\ ~drafts[m].limited /\ drafts[m].limit <= limit}

Late(d) == {m \in Message : drafts[m] # None /\ drafts[m].day = d /\ drafts[m].counted # d}

(* However requests overlap, with each other and with midnight: of a day's drafts under a
   limit or a lower one, no more can be reviewed than it allows and one more for each
   further client; apart from those counted against the next day, which are at most one
   for each client. *)
WithinLimit ==
    \A d \in 1..MaxDay :
        /\ \A limit \in DailyLimits :
            Cardinality(Within(d, limit)) <= limit + Cardinality(Client) - 1
        /\ Cardinality(Late(d)) <= Cardinality(Client)

(* However requests overlap, a rejected draft stays rejected, and a closed one is changed
   only by a request that had read it before it was closed. *)
EndedStays ==
    \A m \in Message :
        (/\ drafts[m] # None /\ drafts[m].status \in {"closed", "rejected"}
         /\ drafts'[m].status # drafts[m].status) =>
            /\ drafts[m].status = "closed"
            /\ \E c \in overtaken : cheld[c].message = m /\ cstep'[c] = "idle"

(* The drafts of a day stay within the limits of their requests, and an ended draft as
   it ended, up to the requests that were under way with it at midnight or when it was
   closed. *)
LimitsAndEndsHold == []WithinLimit /\ [][EndedStays]_communicationVars
=============================================================================
