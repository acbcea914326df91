-------------------------- MODULE MCExecutorLease --------------------------
(***************************************************************************)
(* TLC instances of ExecutorLease.  Policy times keep the order of         *)
(* DEFAULT_LOCAL_POLICY: warning and grace below liveness, liveness below  *)
(* progress, so every phase of the evaluation is reached.                  *)
(***************************************************************************)
EXTENDS ExecutorLease

CONSTANT o1
OneOp == {o1}

=============================================================================
