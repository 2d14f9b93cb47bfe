--------------------------- MODULE RevisionHistory ---------------------------
(***************************************************************************)
(* What the write path promises its callers, with no database, lock or     *)
(* thread in sight: a history of changes that only grows, in which the     *)
(* changes of an entity are numbered without a gap, and sessions whose     *)
(* commands take effect in one indivisible step, each of them once, and    *)
(* only on top of the revision it named.                                   *)
(***************************************************************************)
EXTENDS Integers, Sequences

CONSTANT Batch  \* the command sequences that callers send

VARIABLES
    history,   \* the changes: which entity got which state as which revision
    receipts   \* the requests that took effect, with the revision each made

(* A request is what identifies a command: everything but the time of issue. *)
RequestOf(cmd) ==
    [command_id |-> cmd.command_id, target |-> cmd.target,
     expected_revision |-> cmd.expected_revision,
     idempotency_key |-> cmd.idempotency_key,
     next_state |-> cmd.next_state, outbox |-> cmd.outbox]

ChangeOf(cmd) ==
    [entity |-> cmd.target, revision |-> cmd.expected_revision + 1, state |-> cmd.next_state]

ReceiptOf(cmd) == [request |-> RequestOf(cmd), revision |-> cmd.expected_revision + 1]

Store == [history |-> history, receipts |-> receipts]

(* A store after the first n commands of a batch: one that is done already adds
   nothing. *)
After(s, b, n) ==
    [history  |-> s.history \cup {ChangeOf(b[i]) : i \in 1..n},
     receipts |-> s.receipts \cup {ReceiptOf(b[i]) : i \in 1..n}]

Done(s, cmd) == ReceiptOf(cmd) \in s.receipts /\ ChangeOf(cmd) \in s.history

Fresh(s, cmd) ==
    \A r \in s.receipts :
        /\ r.request.idempotency_key # cmd.idempotency_key
        /\ r.request.command_id # cmd.command_id

(* The entity has gone through exactly the revisions up to the one expected. *)
UpToDate(s, cmd) ==
    {change.revision : change \in {x \in s.history : x.entity = cmd.target}}
        = 1..cmd.expected_revision

(* When its turn comes a command is done already, or it is new and up to date. *)
Permitted(s, b, i) ==
    LET now == After(s, b, i - 1) IN
    Done(now, b[i]) \/ (Fresh(now, b[i]) /\ UpToDate(now, b[i]))

Init ==
    /\ history = {}
    /\ receipts = {}

Commit(b) ==
    /\ \A i \in DOMAIN b : Permitted(Store, b, i)
    /\ history' = After(Store, b, Len(b)).history
    /\ receipts' = After(Store, b, Len(b)).receipts

Next == \E b \in Batch : Commit(b)

Spec == Init /\ [][Next]_<<history, receipts>>
=============================================================================
