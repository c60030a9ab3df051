------------------------------ MODULE Collections ------------------------------
(***************************************************************************)
(* The library's operators on sequences and sets under a name of their     *)
(* own, so that modules which use them can be extended side by side, and   *)
(* by modules with proofs.                                                 *)
(***************************************************************************)
SeqExt == INSTANCE SequencesExt
SetExt == INSTANCE FiniteSetsExt
=================================================================================
