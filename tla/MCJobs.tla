------------------------------- MODULE MCJobs -------------------------------
(***************************************************************************)
(* Two jobs for one agent host: a deployment and its removal.              *)
(***************************************************************************)
EXTENDS Jobs, TLC

CONSTANTS deploy, remove

MCJobs == {deploy, remove}
MCKindOf == (deploy :> "deploy") @@ (remove :> "remove")
=============================================================================
