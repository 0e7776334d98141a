---------------------------- MODULE MCFundsFile -----------------------------
(***************************************************************************)
(* The run, one command and the editor, with three edits among them.       *)
(***************************************************************************)
EXTENDS FundsFile
=============================================================================
