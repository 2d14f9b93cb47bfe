------------------------- MODULE MCConnectorDispatch -------------------------
(* Small instances of ConnectorDispatch for TLC. *)
EXTENDS ConnectorDispatch, TLC

Symmetric == Permutations(Request)
=============================================================================
