---------------------------- MODULE MCWorkspace ----------------------------
(* Workspace for TLC.  The sizes are given in workspace.cfg; the run checks
   liveness and a refinement, so it takes no symmetry of the threads. *)
EXTENDS Workspace
===========================================================================
