----------------------------- MODULE MCConsumer -----------------------------
(***************************************************************************)
(* The instance of MCLifecycle with CLEANUP_FILE: an enrollment, its       *)
(* renewal and two runs of the uninstall program, at any time.             *)
(***************************************************************************)
EXTENDS Consumer, MCLifecycle
=============================================================================
