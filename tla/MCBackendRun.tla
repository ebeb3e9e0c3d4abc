----------------------------- MODULE MCBackendRun -----------------------------
(* The instance of BackendRun for TLC: two commits by each importer, so that one can be  *)
(* followed by another. *)
EXTENDS BackendRun
=============================================================================
