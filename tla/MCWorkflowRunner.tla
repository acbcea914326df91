-------------------------- MODULE MCWorkflowRunner --------------------------
(***************************************************************************)
(* Two labels, one repair, one retry, one repeated planning round.  The    *)
(* plans: a single node; a chain of two; and an optional node beside a     *)
(* planning node, in a plan that allows a partial result.                  *)
(***************************************************************************)
EXTENDS WorkflowRunner, TLC

CONSTANTS a, b

Single == [work |-> {a}, wave |-> {}, deps |-> (a :> {}), opt |-> {}, need |-> {a}, partial |-> FALSE]

Chain == [work |-> {a, b}, wave |-> {}, deps |-> (a :> {} @@ b :> {a}), opt |-> {}, need |-> {}, partial |-> FALSE]

Waves == [work |-> {a}, wave |-> {b}, deps |-> (a :> {} @@ b :> {}), opt |-> {a}, need |-> {a}, partial |-> TRUE]

OnePlan == {Single}
MCPlans == {Single, Chain, Waves}
=============================================================================
