---------------------------- MODULE MCGridSearch ----------------------------
(* GridSearch with small pools of workers.  The runs check liveness, so that *)
(* the workers that differ in nothing are still told apart.                  *)
EXTENDS GridSearch
=============================================================================
