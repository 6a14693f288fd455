---------------------------- MODULE MCCh8Kernel ----------------------------
(***************************************************************************)
(* Constants for model checking Ch8Kernel.                                 *)
(***************************************************************************)
EXTENDS Ch8Kernel

OneCode == {0}
=============================================================================
