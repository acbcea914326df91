---------------------------- MODULE PiLifecycle ----------------------------
(***************************************************************************)
(* What a Pi run promises to whoever watches it: a status and a generation *)
(* that change only along the edges below.  A generation ends at most      *)
(* once, and only a resume of a failed or interrupted run opens the next   *)
(* one.  The facts that the owning host appends to its outbox follow these *)
(* edges, two of them where one transaction of its run row takes two, and  *)
(* RemotePi implements it with the projection the origin keeps of the row. *)
(***************************************************************************)
EXTENDS Naturals

VARIABLES st, gen

lifecycle == <<st, gen>>

Edges == {<<"queued", "starting">>,
          <<"starting", "running">>, <<"starting", "cancelling">>,
          <<"starting", "failed">>, <<"starting", "interrupted">>,
          <<"running", "awaiting_input">>, <<"running", "cancelling">>,
          <<"running", "completed">>, <<"running", "failed">>, <<"running", "interrupted">>,
          <<"awaiting_input", "running">>, <<"awaiting_input", "cancelling">>,
          <<"awaiting_input", "completed">>, <<"awaiting_input", "failed">>,
          <<"awaiting_input", "interrupted">>,
          <<"cancelling", "cancelled">>, <<"cancelling", "failed">>,
          <<"cancelling", "interrupted">>}

Init == st = "none" /\ gen = 0

Accepted == st = "none" /\ st' = "queued" /\ gen' = 1

Moves == <<st, st'>> \in Edges /\ gen' = gen

Resumed == st \in {"failed", "interrupted"} /\ st' = "queued" /\ gen' = gen + 1

Next == Accepted \/ Moves \/ Resumed

Spec == Init /\ [][Next]_lifecycle
=============================================================================
