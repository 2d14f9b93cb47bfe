-------------------------------- MODULE NoValue --------------------------------
(***************************************************************************)
(* What the modules that are composed by extension have in common.         *)
(***************************************************************************)
CONSTANT None   \* no row, or the null of a column
================================================================================
