-------------------------- MODULE MCCommandService --------------------------
(* Small instances of CommandService for TLC. *)
EXTENDS CommandService, TLC

CONSTANTS e1, e2, v1, v2, k1, k2, k3, k4, k5, i1, i2, d1, d2, d3, d4, c1, c2

Cmd(id, target, expected, key, state, outbox, issued) ==
    [command_id |-> id, target |-> target, expected_revision |-> expected,
     idempotency_key |-> key, next_state |-> state, outbox |-> outbox,
     issued_at |-> issued]

Create      == Cmd(d1, e1, 0, k1, v1, TRUE, i1)
CreateAgain == Cmd(d1, e1, 0, k1, v1, TRUE, i2)   \* a retry, issued later
CreateOther == Cmd(d1, e1, 0, k1, v2, TRUE, i1)   \* the key with another input
Rival       == Cmd(d2, e1, 0, k2, v2, FALSE, i1)  \* creates the same entity
Update      == Cmd(d3, e1, 1, k3, v2, FALSE, i1)
SameCommand == Cmd(d3, e1, 1, k4, v1, FALSE, i1)  \* Update's id, another key
CreateE2    == Cmd(d4, e2, 0, k5, v1, FALSE, i1)

(* Single commands, and a session of two as the radar's admission opens one. *)
Batches ==
    {<<Create>>, <<CreateAgain>>, <<CreateOther>>, <<Update>>,
     <<SameCommand>>, <<CreateE2, Rival>>}
=============================================================================
