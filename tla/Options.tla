------------------------------- MODULE Options -------------------------------
(***************************************************************************)
(* Option::None, the value of every optional field that holds nothing.     *)
(***************************************************************************)
CONSTANT None
=============================================================================
