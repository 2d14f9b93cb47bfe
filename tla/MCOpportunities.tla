--------------------------- MODULE MCOpportunities ---------------------------
(* Small instances of Opportunities for TLC. *)
EXTENDS Opportunities, TLC

Symmetric == Permutations(Client) \cup Permutations(Key)
=============================================================================
