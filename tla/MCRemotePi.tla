----------------------------- MODULE MCRemotePi -----------------------------
(***************************************************************************)
(* Two generations, one dialog, one command in flight at a time (of any    *)
(* kind, again and again), one fault, and an origin at most two events     *)
(* behind, three across a boot.                                            *)
(***************************************************************************)
EXTENDS RemotePi, TLC

CONSTANTS c1

AnyAct == c1 :> {"cancel", "reply", "steer", "resume"}
=============================================================================
