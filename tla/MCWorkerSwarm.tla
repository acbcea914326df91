--------------------------- MODULE MCWorkerSwarm ---------------------------
(* Small instances of WorkerSwarm.                                         *)
EXTENDS WorkerSwarm

CONSTANTS c1, c2, c3

NoDeps == [x \in Cards |-> {}]

\* c2 waits for c1
Fork == [x \in Cards |-> IF x = c2 THEN {c1} ELSE {}]

ReserveOne == [x \in Cards |-> 1]
ReserveTwo == [x \in Cards |-> 2]

====
