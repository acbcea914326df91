------------------------ MODULE WorkflowRunnerProofs ------------------------
(***************************************************************************)
(* Proofs about WorkflowRunner for any plans, budgets, caps and faults:    *)
(* an accepted output is sent at most once, a node starts only when its    *)
(* dependencies are settled, a node never has two attempts that may both   *)
(* be executing, a terminal run stays as it ended, a run succeeds only on  *)
(* an acceptance of its latest revision, and a live run holds a command    *)
(* that drives it.                                                         *)
(*                                                                         *)
(* The appliers of the model are operators from the rows of the run to     *)
(* their next value.  Good says what the rows keep among themselves and    *)
(* Extends what an applier never undoes: each applier maps good rows to    *)
(* good rows that extend them, and what relates the rows to the attempts   *)
(* is kept by any step whose rows extend the old ones.  The second half    *)
(* adds Fit: what the rows of a live run owe to its nodes, reviews and     *)
(* deliveries, which each applier maps to rows that are fit, or ended      *)
(* with the verdict that they should.                                      *)
(***************************************************************************)
EXTENDS WorkflowRunner, FiniteSetTheorems, TLAPS

Fields == {"state", "plans", "node", "freed", "cmd", "budget", "deliv", "accepted"}

Dispatches(w, n) == CommandsOf(w, n, "dispatch")
Cards(ats, n) == {c \in DOMAIN ats : c[1] = n}
\* An attempt of the runner's own that may be executing, or be asked about
Held(a) == (a.life \in LiveAttempt \/ a.asked) /\ ~a.nested
Settled(w, n) == w.node[n].st = "succeeded" \/ (w.node[n].st = "failed" /\ Optional(w, n))

\* The columns of the rows; a node belongs to a revision that was admitted
Shape(w) ==
    /\ DOMAIN w = Fields
    /\ w.plans \in Seq(Plans \cup {ShaPlan})
    /\ \A n \in DOMAIN w.node : DOMAIN w.node[n] = {"st", "card"} /\ n[1] \in DOMAIN w.plans
    /\ \A k \in DOMAIN w.cmd : DOMAIN w.cmd[k] = {"st", "base", "inc", "job"}
    /\ \A n \in DOMAIN w.deliv : DOMAIN w.deliv[n] = {"out", "tries", "sent"}

\* A node is freed for its dependents once it is settled; only work that is
\* unblocked is ever dispatched, and reviews only review
Ready(w) ==
    /\ \A n \in w.freed : n \in DOMAIN w.node /\ n[2] # Review /\ Settled(w, n)
    /\ \A k \in DOMAIN w.cmd :
          /\ k[2] = "dispatch" => k[1] \in DOMAIN w.node /\ k[1][2] # Review /\ Unblocked(w, k[1])
          /\ k[2] = "review" => k[1][2] = Review

\* A delivery that is still pending has not gone out
Deliveries(w) ==
    \A n \in DOMAIN w.deliv : w.deliv[n].sent \in {0, 1} /\ (w.deliv[n].out = "pending" => w.deliv[n].sent = 0)

\* The dispatch rounds of a node are numbered without repetition
Rounds(w) ==
    \A n \in DOMAIN w.node :
        /\ IsFiniteSet(Dispatches(w, n))
        /\ \A k \in Dispatches(w, n) :
              k = <<n, "dispatch", k[3]>> /\ k[3] \in Nat /\ k[3] < Cardinality(Dispatches(w, n))

Good(w) == Shape(w) /\ Ready(w) /\ Deliveries(w) /\ Rounds(w)

\* Each round has made one attempt, but for the last one, which may not have
\* made it yet, and is the only one that may be pending; of the attempts that
\* are not a nested retry only the latest may be executing, or be asked about,
\* and then no round is queued behind it
Paired(w, ats) ==
    /\ \A c \in DOMAIN ats :
          DOMAIN ats[c] = {"life", "asked", "seen", "nested"} /\ c[1] \in DOMAIN w.node /\ (ats[c].asked => ats[c].life = "failed")
    /\ \A n \in DOMAIN w.node :
          LET rounds == Cardinality(Dispatches(w, n))
              cards == Cardinality(Cards(ats, n))
          IN  /\ IsFiniteSet(Cards(ats, n))
              /\ \A c \in Cards(ats, n) : c = <<n, c[2]>> /\ c[2] \in Nat /\ c[2] < cards
              /\ cards <= rounds /\ rounds <= cards + 1
              /\ w.node[n].card = IF cards = 0 THEN <<>> ELSE <<n, cards - 1>>
              /\ \A k \in Dispatches(w, n) : w.cmd[k].st = "pending" => k[3] = cards
              /\ \A c \in Cards(ats, n) : Held(ats[c]) => c = w.node[n].card /\ rounds = cards

IInv == Good(wf) /\ Paired(wf, att)

\* The reconciler retries no card by which a run that has not ended knows a node
Nested(w, ats) == \A c \in DOMAIN ats : ats[c].nested => Terminal(w) \/ w.node[c[1]].card # c

KInv == IInv /\ Nested(wf, att)

-----------------------------------------------------------------------------
(* What an applier never undoes.                                           *)

\* The rounds of a node are the old ones, none of them newly pending, or its first
SameRounds(w, v, n) ==
    /\ Dispatches(v, n) = Dispatches(w, n)
    /\ \A k \in Dispatches(w, n) : v.cmd[k].st = "pending" => w.cmd[k].st = "pending"
FirstRound(w, v, n) == Dispatches(w, n) = {} /\ Dispatches(v, n) = {<<n, "dispatch", 0>>}

Extends(w, v) ==
    /\ DOMAIN w.plans \subseteq DOMAIN v.plans
    /\ \A r \in DOMAIN w.plans : v.plans[r] = w.plans[r]
    /\ DOMAIN w.node \subseteq DOMAIN v.node
    /\ \A n \in DOMAIN w.node : v.node[n].card = w.node[n].card
    /\ \A n \in DOMAIN v.node \ DOMAIN w.node : v.node[n].card = <<>>
    /\ w.freed \subseteq v.freed
    /\ \A n \in DOMAIN v.node : SameRounds(w, v, n) \/ FirstRound(w, v, n)

\* An applier's step
Applies(w, v) == Good(w) /\ Good(v) /\ Extends(w, v)

\* Doing nothing is an applier's step.
LEMMA AppliesNothing ==
    ASSUME NEW w, Good(w)
    PROVE  Applies(w, w)
BY DEF Applies, Extends, SameRounds

\* Appliers compose.
LEMMA AppliesTrans ==
    ASSUME NEW u, NEW w, NEW v, Applies(u, w), Applies(w, v)
    PROVE  Applies(u, v)
<1>1. Extends(u, w) /\ Extends(w, v) BY DEF Applies
<1>2. ASSUME NEW n \in DOMAIN v.node PROVE SameRounds(u, v, n) \/ FirstRound(u, v, n)
  <2>1. CASE n \in DOMAIN w.node
    <3>1. SameRounds(u, w, n) \/ FirstRound(u, w, n) BY <1>1, <2>1 DEF Extends
    <3>2. SameRounds(w, v, n) \/ FirstRound(w, v, n) BY <1>1, <1>2 DEF Extends
    <3> QED BY <3>1, <3>2 DEF SameRounds, FirstRound
  <2>2. CASE n \notin DOMAIN w.node
    <3>1. Dispatches(u, n) = {} /\ Dispatches(w, n) = {}
      <4>1. Ready(u) /\ Ready(w) BY DEF Applies, Good
      <4>2. n \notin DOMAIN u.node BY <1>1, <2>2 DEF Extends
      <4> QED BY <2>2, <4>1, <4>2 DEF Ready, Dispatches, CommandsOf
    <3>2. SameRounds(w, v, n) \/ FirstRound(w, v, n) BY <1>1, <1>2 DEF Extends
    <3> QED BY <3>1, <3>2 DEF SameRounds, FirstRound
  <2> QED BY <2>1, <2>2
<1>3. \A n \in DOMAIN v.node \ DOMAIN u.node : v.node[n].card = <<>> BY <1>1 DEF Extends
<1>4. \A n \in DOMAIN u.node : v.node[n].card = u.node[n].card BY <1>1 DEF Extends
<1>5. \A r \in DOMAIN u.plans : v.plans[r] = u.plans[r] BY <1>1 DEF Extends
<1>6. /\ DOMAIN u.plans \subseteq DOMAIN v.plans
      /\ DOMAIN u.node \subseteq DOMAIN v.node
      /\ u.freed \subseteq v.freed
  BY <1>1 DEF Extends
<1>7. Extends(u, v) BY <1>2, <1>3, <1>4, <1>5, <1>6 DEF Extends
<1> QED BY <1>7 DEF Applies

-----------------------------------------------------------------------------
(* The granular writers.                                                   *)

\* Whatever leaves these columns alone is an applier's step.
LEMMA OtherColumns ==
    ASSUME NEW w, NEW v, Good(w), DOMAIN v = Fields,
           v.plans = w.plans, v.node = w.node, v.freed = w.freed, v.cmd = w.cmd, v.deliv = w.deliv
    PROVE  Applies(w, v)
<1>1. \A n : Deps(v, n) = Deps(w, n) BY DEF Deps
<1>2. \A n : Unblocked(v, n) = Unblocked(w, n) BY <1>1 DEF Unblocked
<1>3. \A n : Dispatches(v, n) = Dispatches(w, n) BY DEF Dispatches, CommandsOf
<1>4. Shape(v) BY DEF Good, Shape
<1>5. Ready(v) BY <1>2 DEF Good, Ready, Settled, Optional
<1>6. Deliveries(v) BY DEF Good, Deliveries
<1>7. Rounds(v) BY <1>3 DEF Good, Rounds
<1>8. Extends(w, v) BY <1>3 DEF Extends, SameRounds
<1> QED BY <1>4, <1>5, <1>6, <1>7, <1>8 DEF Applies, Good

\* An update of the nodes that settles no node otherwise than it was.
LEMMA NodesApply ==
    ASSUME NEW w, NEW v, Good(w), DOMAIN v = Fields,
           v.plans = w.plans, v.freed = w.freed, v.cmd = w.cmd, v.deliv = w.deliv,
           DOMAIN v.node = DOMAIN w.node,
           \A n \in DOMAIN w.node : DOMAIN v.node[n] = {"st", "card"} /\ v.node[n].card = w.node[n].card,
           \A n \in w.freed : v.node[n].st \in {"succeeded", w.node[n].st}
    PROVE  Applies(w, v)
<1>1. \A n : Deps(v, n) = Deps(w, n) BY DEF Deps
<1>2. \A n : Unblocked(v, n) = Unblocked(w, n) BY <1>1 DEF Unblocked
<1>3. \A n : Dispatches(v, n) = Dispatches(w, n) BY DEF Dispatches, CommandsOf
<1>4. Shape(v) BY DEF Good, Shape
<1>5. Ready(v) BY <1>2 DEF Good, Ready, Settled, Optional
<1>6. Deliveries(v) BY DEF Good, Deliveries
<1>7. Rounds(v) BY <1>3 DEF Good, Rounds
<1>8. Extends(w, v) BY <1>3 DEF Extends, SameRounds
<1> QED BY <1>4, <1>5, <1>6, <1>7, <1>8 DEF Applies, Good

\* A freed node is closed.
LEMMA FreedIsClosed ==
    ASSUME NEW w, Good(w), NEW n \in w.freed
    PROVE  n \in DOMAIN w.node /\ ~Open(w, n) /\ w.node[n].st \notin {"queued", "running", "skipped", "cancelled"}
BY DEF Good, Ready, Settled, Open, OpenNode

\* The status of a node changes: a freed node can only succeed.
LEMMA SetNodeApplies ==
    ASSUME NEW w, Good(w), NEW n, NEW st, st = "succeeded" \/ n \notin w.freed
    PROVE  Applies(w, SetNode(w, n, st))
<1> DEFINE v == SetNode(w, n, st)
<1>1. DOMAIN w = Fields /\ \A m \in DOMAIN w.node : DOMAIN w.node[m] = {"st", "card"} BY DEF Good, Shape
<1>2. /\ DOMAIN v = Fields
      /\ v.plans = w.plans /\ v.freed = w.freed /\ v.cmd = w.cmd /\ v.deliv = w.deliv
      /\ DOMAIN v.node = DOMAIN w.node
  BY <1>1 DEF SetNode, Fields
<1>3. \A m \in DOMAIN w.node :
         /\ DOMAIN v.node[m] = {"st", "card"} /\ v.node[m].card = w.node[m].card
         /\ m # n => v.node[m] = w.node[m]
         /\ m = n => v.node[m].st = st
  BY <1>1 DEF SetNode, Fields
<1>4. w.freed \subseteq DOMAIN w.node BY DEF Good, Ready
<1> HIDE DEF v
<1>5. \A m \in w.freed : v.node[m].st \in {"succeeded", w.node[m].st} BY <1>3, <1>4
<1> QED BY <1>2, <1>3, <1>5, NodesApply DEF v

\* The state of a command changes; unless it is a round that becomes pending
\* again, this is an applier's step.
LEMMA SetCommandApplies ==
    ASSUME NEW w, Good(w), NEW k, NEW st
    PROVE  Good(SetCommand(w, k, st)) /\ (st # "pending" \/ k[2] # "dispatch" => Applies(w, SetCommand(w, k, st)))
<1> DEFINE v == SetCommand(w, k, st)
<1>1. DOMAIN w = Fields /\ \A m \in DOMAIN w.cmd : DOMAIN w.cmd[m] = {"st", "base", "inc", "job"} BY DEF Good, Shape
<1>2. /\ DOMAIN v = Fields
      /\ v.plans = w.plans /\ v.freed = w.freed /\ v.node = w.node /\ v.deliv = w.deliv
      /\ DOMAIN v.cmd = DOMAIN w.cmd
  BY <1>1 DEF SetCommand, Fields
<1>3. \A m \in DOMAIN w.cmd :
         /\ DOMAIN v.cmd[m] = {"st", "base", "inc", "job"}
         /\ m # k => v.cmd[m] = w.cmd[m]
         /\ m = k => v.cmd[m].st = st
  BY <1>1 DEF SetCommand, Fields
<1> HIDE DEF v
<1>4. \A n : Deps(v, n) = Deps(w, n) BY <1>2 DEF Deps
<1>5. \A n : Unblocked(v, n) = Unblocked(w, n) BY <1>2, <1>4 DEF Unblocked
<1>6. \A n : Dispatches(v, n) = Dispatches(w, n) BY <1>2 DEF Dispatches, CommandsOf
<1>7. Shape(v) BY <1>2, <1>3 DEF Good, Shape
<1>8. Ready(v) BY <1>2, <1>5 DEF Good, Ready, Settled, Optional
<1>9. Deliveries(v) BY <1>2 DEF Good, Deliveries
<1>10. Rounds(v) BY <1>2, <1>6 DEF Good, Rounds
<1>11. st # "pending" \/ k[2] # "dispatch" => \A n : SameRounds(w, v, n) BY <1>3, <1>6 DEF SameRounds, Dispatches, CommandsOf
<1>12. st # "pending" \/ k[2] # "dispatch" => Extends(w, v) BY <1>2, <1>11 DEF Extends
<1> QED BY <1>7, <1>8, <1>9, <1>10, <1>12 DEF Applies, Good, v

\* New commands: a dispatch only as the first round of unblocked work.
LEMMA NewCommandsApply ==
    ASSUME NEW w, Good(w), NEW f,
           \A k \in DOMAIN f :
              /\ DOMAIN f[k] = {"st", "base", "inc", "job"}
              /\ k[2] = "dispatch" => /\ k = <<k[1], "dispatch", 0>> /\ Dispatches(w, k[1]) = {}
                                      /\ k[1] \in DOMAIN w.node /\ k[1][2] # Review /\ Unblocked(w, k[1])
              /\ k[2] = "review" => k[1][2] = Review
    PROVE  Applies(w, [w EXCEPT !.cmd = Merge(@, f)])
<1> DEFINE v == [w EXCEPT !.cmd = Merge(@, f)]
<1>1. DOMAIN w = Fields BY DEF Good, Shape
<1>2. /\ DOMAIN v = Fields /\ v.cmd = Merge(w.cmd, f)
      /\ v.plans = w.plans /\ v.freed = w.freed /\ v.node = w.node /\ v.deliv = w.deliv
  BY <1>1 DEF Fields
<1>3. DOMAIN v.cmd = DOMAIN w.cmd \cup DOMAIN f BY <1>2 DEF Merge
<1>4. /\ \A k \in DOMAIN w.cmd : v.cmd[k] = w.cmd[k]
      /\ \A k \in DOMAIN f \ DOMAIN w.cmd : v.cmd[k] = f[k]
  BY <1>2 DEF Merge
<1> HIDE DEF v
<1>5. \A n : Deps(v, n) = Deps(w, n) BY <1>2 DEF Deps
<1>6. \A n : Unblocked(v, n) = Unblocked(w, n) BY <1>2, <1>5 DEF Unblocked
<1>7. \A n : SameRounds(w, v, n) \/ FirstRound(w, v, n)
  <2> TAKE n
  <2> DEFINE new == {k \in DOMAIN f : k[1] = n /\ k[2] = "dispatch"}
  <2>1. Dispatches(v, n) = Dispatches(w, n) \cup new BY <1>3 DEF Dispatches, CommandsOf
  <2>2. \A k \in Dispatches(w, n) : v.cmd[k] = w.cmd[k] BY <1>4 DEF Dispatches, CommandsOf
  <2>3. CASE new = {} BY <2>1, <2>2, <2>3 DEF SameRounds
  <2>4. CASE new # {}
    <3>1. \A k \in new : k = <<n, "dispatch", 0>> /\ Dispatches(w, n) = {} OBVIOUS
    <3>2. new = {<<n, "dispatch", 0>>} BY <2>4, <3>1
    <3> QED BY <2>1, <2>4, <3>1, <3>2 DEF FirstRound
  <2> QED BY <2>3, <2>4
<1>8. Shape(v) BY <1>2, <1>3, <1>4 DEF Good, Shape
<1>9. Ready(v) BY <1>2, <1>3, <1>6 DEF Good, Ready, Settled, Optional
<1>10. Deliveries(v) BY <1>2 DEF Good, Deliveries
<1>11. Rounds(v)
  <2> SUFFICES ASSUME NEW n \in DOMAIN v.node
               PROVE  /\ IsFiniteSet(Dispatches(v, n))
                      /\ \A k \in Dispatches(v, n) :
                            k = <<n, "dispatch", k[3]>> /\ k[3] \in Nat /\ k[3] < Cardinality(Dispatches(v, n))
    BY DEF Rounds
  <2>1. CASE SameRounds(w, v, n) BY <1>2, <2>1 DEF Good, Rounds, SameRounds
  <2>2. CASE FirstRound(w, v, n)
    <3> DEFINE k == <<n, "dispatch", 0>>
    <3>1. Dispatches(v, n) = {k} BY <2>2 DEF FirstRound
    <3>2. IsFiniteSet({k}) /\ Cardinality({k}) = 1 BY FS_Singleton
    <3> QED BY <3>1, <3>2
  <2> QED BY <1>7, <2>1, <2>2
<1>12. Extends(w, v) BY <1>2, <1>7 DEF Extends
<1> QED BY <1>8, <1>9, <1>10, <1>11, <1>12 DEF Applies, Good, v

\* A command of the planner, a reviewer or a delivery is queued.
LEMMA QueueCommandApplies ==
    ASSUME NEW w, Good(w), NEW n, NEW a, NEW base, a # "dispatch", a = "review" => n[2] = Review
    PROVE  Applies(w, QueueCommand(w, n, a, base))
<1> DEFINE k == <<n, a, Cardinality(CommandsOf(w, n, a))>>
           f == [x \in {k} |-> Pending(base)]
<1>1. k[1] = n /\ k[2] = a OBVIOUS
<1>2. DOMAIN f = {k} /\ DOMAIN f[k] = {"st", "base", "inc", "job"} BY DEF Pending
<1>3. QueueCommand(w, n, a, base) = [w EXCEPT !.cmd = Merge(@, f)] BY DEF QueueCommand
<1> HIDE DEF k, f
<1>4. Applies(w, [w EXCEPT !.cmd = Merge(@, f)]) BY <1>1, <1>2, NewCommandsApply
<1> QED BY <1>3, <1>4

\* The commands of reviews, and the first ones of unblocked work, are queued.
LEMMA QueueForNodesApplies ==
    ASSUME NEW w, Good(w), NEW S,
           \A n \in S : n[2] = Review \/ (n \in DOMAIN w.node /\ Unblocked(w, n) /\ Dispatches(w, n) = {})
    PROVE  Applies(w, QueueForNodes(w, S))
<1> DEFINE new == {<<n, ActionOf(w, n), Cardinality(CommandsOf(w, n, ActionOf(w, n)))>> : n \in S}
           f == [k \in new |-> Pending(k[1][1])]
<1>1. QueueForNodes(w, S) = [w EXCEPT !.cmd = Merge(@, f)] BY DEF QueueForNodes
<1>2. DOMAIN f = new /\ \A k \in new : DOMAIN f[k] = {"st", "base", "inc", "job"} BY DEF Pending
<1>3. ASSUME NEW k \in new
      PROVE  /\ k[2] = "dispatch" => /\ k = <<k[1], "dispatch", 0>> /\ Dispatches(w, k[1]) = {}
                                     /\ k[1] \in DOMAIN w.node /\ k[1][2] # Review /\ Unblocked(w, k[1])
             /\ k[2] = "review" => k[1][2] = Review
  <2>1. PICK n \in S : k = <<n, ActionOf(w, n), Cardinality(CommandsOf(w, n, ActionOf(w, n)))>> OBVIOUS
  <2>2. /\ n[2] = Review => ActionOf(w, n) = "review"
        /\ n[2] # Review => ActionOf(w, n) \in {"plan", "dispatch"}
    BY DEF ActionOf
  <2>3. k[1] = n /\ k[2] = ActionOf(w, n) BY <2>1
  <2>4. CASE ActionOf(w, n) = "dispatch"
    <3>1. n[2] # Review /\ n \in DOMAIN w.node /\ Unblocked(w, n) /\ Dispatches(w, n) = {} BY <2>2, <2>4
    <3>2. CommandsOf(w, n, ActionOf(w, n)) = {} BY <2>4, <3>1 DEF Dispatches
    <3>3. Cardinality({}) = 0 BY FS_EmptySet
    <3>4. k = <<n, "dispatch", 0>> BY <2>1, <2>4, <3>2, <3>3
    <3> QED BY <2>3, <2>4, <3>1, <3>4
  <2>5. CASE ActionOf(w, n) # "dispatch" BY <2>2, <2>3, <2>5
  <2> QED BY <2>4, <2>5
<1> HIDE DEF new, f
<1>4. Applies(w, [w EXCEPT !.cmd = Merge(@, f)]) BY <1>2, <1>3, NewCommandsApply
<1> QED BY <1>1, <1>4

-----------------------------------------------------------------------------
(* The appliers of node outcomes.                                          *)

\* Columns that hold no row of a node or a command.
LEMMA StateApplies ==
    ASSUME NEW w, Good(w)
    PROVE  /\ \A st : Applies(w, [w EXCEPT !.state = st])
           /\ \A scope : Applies(w, Spend(w, scope))
           /\ \A r : Applies(w, Evaluate(w, r))
<1>1. DOMAIN w = Fields BY DEF Good, Shape
<1>2. ASSUME NEW st PROVE Applies(w, [w EXCEPT !.state = st])
  <2> DEFINE v == [w EXCEPT !.state = st]
  <2>1. /\ DOMAIN v = Fields /\ v.plans = w.plans /\ v.node = w.node
        /\ v.freed = w.freed /\ v.cmd = w.cmd /\ v.deliv = w.deliv
    BY <1>1 DEF Fields
  <2> QED BY <2>1, OtherColumns
<1>3. ASSUME NEW scope PROVE Applies(w, Spend(w, scope))
  <2> DEFINE v == Spend(w, scope)
  <2>1. /\ DOMAIN v = Fields /\ v.plans = w.plans /\ v.node = w.node
        /\ v.freed = w.freed /\ v.cmd = w.cmd /\ v.deliv = w.deliv
    BY <1>1 DEF Fields, Spend
  <2> QED BY <2>1, OtherColumns
<1>4. ASSUME NEW r PROVE Applies(w, Evaluate(w, r)) BY <1>2 DEF Evaluate
<1> QED BY <1>2, <1>3, <1>4

\* A settled node is freed for its dependents.
LEMMA FreeingApplies ==
    ASSUME NEW w, Good(w), NEW n \in DOMAIN w.node, n[2] # Review, Settled(w, n)
    PROVE  Applies(w, [w EXCEPT !.freed = @ \cup {n}])
<1> DEFINE v == [w EXCEPT !.freed = @ \cup {n}]
<1>1. DOMAIN w = Fields BY DEF Good, Shape
<1>2. /\ DOMAIN v = Fields /\ v.freed = w.freed \cup {n}
      /\ v.plans = w.plans /\ v.node = w.node /\ v.cmd = w.cmd /\ v.deliv = w.deliv
  BY <1>1 DEF Fields
<1> HIDE DEF v
<1>3. \A m : Deps(v, m) = Deps(w, m) BY <1>2 DEF Deps
<1>4. \A m : Unblocked(w, m) => Unblocked(v, m) BY <1>2, <1>3 DEF Unblocked
<1>5. \A m : Dispatches(v, m) = Dispatches(w, m) BY <1>2 DEF Dispatches, CommandsOf
<1>6. Shape(v) BY <1>2 DEF Good, Shape
<1>7. Ready(v) BY <1>2, <1>4 DEF Good, Ready, Settled, Optional
<1>8. Deliveries(v) BY <1>2 DEF Good, Deliveries
<1>9. Rounds(v) BY <1>2, <1>5 DEF Good, Rounds
<1>10. Extends(w, v) BY <1>2, <1>5 DEF Extends, SameRounds
<1> QED BY <1>6, <1>7, <1>8, <1>9, <1>10 DEF Applies, Good, v

\* The nodes that a newly settled node unblocks were never dispatched.
LEMMA ReleaseApplies ==
    ASSUME NEW w, Good(w), NEW n \in DOMAIN w.node, n \notin w.freed, n[2] # Review, Settled(w, n)
    PROVE  Applies(w, ReleaseDependents(w, n))
<1> DEFINE v == [w EXCEPT !.freed = @ \cup {n}]
           S == {m \in NodesOf(v, n[1]) : v.node[m].st = "queued" /\ n \in Deps(v, m) /\ Unblocked(v, m)}
<1>1. Applies(w, v) BY FreeingApplies
<1>2. DOMAIN w = Fields BY DEF Good, Shape
<1>3. v.plans = w.plans /\ v.node = w.node /\ v.cmd = w.cmd BY <1>2 DEF Fields
<1>4. ReleaseDependents(w, n) = QueueForNodes(v, S) BY DEF ReleaseDependents
<1> HIDE DEF v
<1>5. ASSUME NEW m \in S PROVE m \in DOMAIN v.node /\ Unblocked(v, m) /\ Dispatches(v, m) = {}
  <2>1. m \in DOMAIN v.node /\ n \in Deps(v, m) /\ Unblocked(v, m) BY DEF NodesOf
  <2>2. n \in Deps(w, m) BY <1>3, <2>1 DEF Deps
  <2>3. ~Unblocked(w, m) BY <2>2 DEF Unblocked
  <2>4. Dispatches(w, m) = {} BY <2>3 DEF Good, Ready, Dispatches, CommandsOf
  <2> QED BY <1>3, <2>1, <2>4 DEF Dispatches, CommandsOf
<1>6. Good(v) BY <1>1 DEF Applies
<1> HIDE DEF S
<1>7. Applies(v, QueueForNodes(v, S)) BY <1>5, <1>6, QueueForNodesApplies
<1> QED BY <1>1, <1>4, <1>7, AppliesTrans

\* Only queued nodes are skipped.
LEMMA SkipApplies ==
    ASSUME NEW w, Good(w), NEW n
    PROVE  Applies(w, SkipDependents(w, n))
<1> DEFINE v == SkipDependents(w, n)
           S == Dependents(w, n)
<1>1. DOMAIN w = Fields /\ \A m \in DOMAIN w.node : DOMAIN w.node[m] = {"st", "card"} BY DEF Good, Shape
<1>2. \A m \in S : w.node[m].st = "queued" BY DEF Dependents
<1>3. v = [w EXCEPT !.node = [m \in DOMAIN w.node |-> IF m \in S THEN [w.node[m] EXCEPT !.st = "skipped"] ELSE w.node[m]]]
  BY DEF SkipDependents
<1> HIDE DEF S
<1>4. /\ DOMAIN v = Fields /\ v.plans = w.plans /\ v.freed = w.freed /\ v.cmd = w.cmd /\ v.deliv = w.deliv
      /\ v.node = [m \in DOMAIN w.node |-> IF m \in S THEN [w.node[m] EXCEPT !.st = "skipped"] ELSE w.node[m]]
  BY <1>1, <1>3 DEF Fields
<1> HIDE DEF v
<1>5. DOMAIN v.node = DOMAIN w.node BY <1>4
<1>6. \A m \in DOMAIN w.node : /\ DOMAIN v.node[m] = {"st", "card"} /\ v.node[m].card = w.node[m].card
                               /\ m \notin S => v.node[m] = w.node[m]
  BY <1>1, <1>4
<1>7. \A m \in w.freed : m \in DOMAIN w.node /\ m \notin S BY <1>2, FreedIsClosed
<1>8. \A m \in w.freed : v.node[m].st \in {"succeeded", w.node[m].st} BY <1>6, <1>7
<1>9. Applies(w, v) BY <1>4, <1>5, <1>6, <1>8, NodesApply
<1> QED BY <1>9 DEF v

\* Reviews of earlier revisions are queued again.
LEMMA ReReviewApplies ==
    ASSUME NEW w, Good(w), NEW r
    PROVE  Applies(w, SettleWithReReview(w, r))
<1> DEFINE v == Evaluate(w, r)
<1>1. Applies(w, v) BY StateApplies
<1>2. SettleWithReReview(w, r) = IF Terminal(v) THEN v ELSE MaybeQueueReReview(v) BY DEF SettleWithReReview
<1> HIDE DEF v
<1>3. Good(v) BY <1>1 DEF Applies
<1>4. Applies(v, QueueForNodes(v, StrandedReviews(v)))
  <2>1. \A n \in StrandedReviews(v) : n[2] = Review BY DEF StrandedReviews
  <2> QED BY <1>3, <2>1, QueueForNodesApplies
<1>5. Applies(v, MaybeQueueReReview(v)) BY <1>3, <1>4, AppliesNothing DEF MaybeQueueReReview
<1>6. Applies(w, MaybeQueueReReview(v)) BY <1>1, <1>5, AppliesTrans
<1> QED BY <1>1, <1>2, <1>6

\* The completion of a worker is accepted.
LEMMA SucceedNodeApplies ==
    ASSUME NEW w, Good(w), NEW n \in DOMAIN w.node, Open(w, n), n[2] # Review
    PROVE  Applies(w, SucceedNode(w, n))
<1> DEFINE v == SetNode(w, n, "succeeded")
           u == ReleaseDependents(v, n)
<1>1. DOMAIN w = Fields /\ DOMAIN w.node[n] = {"st", "card"} BY DEF Good, Shape
<1>2. n \notin w.freed BY FreedIsClosed
<1>3. Applies(w, v) BY SetNodeApplies
<1>4. n \in DOMAIN v.node /\ v.freed = w.freed /\ v.node[n].st = "succeeded" BY <1>1 DEF SetNode, Fields
<1>5. SucceedNode(w, n) = SettleWithReReview(u, n[1]) BY DEF SucceedNode
<1> HIDE DEF v
<1>6. Applies(v, u)
  <2>1. Good(v) /\ Settled(v, n) BY <1>3, <1>4 DEF Applies, Settled
  <2> QED BY <1>2, <1>4, <2>1, ReleaseApplies
<1> HIDE DEF u
<1>7. Applies(u, SettleWithReReview(u, n[1])) BY <1>6, ReReviewApplies DEF Applies
<1>8. Applies(w, u) BY <1>3, <1>6, AppliesTrans
<1> QED BY <1>5, <1>7, <1>8, AppliesTrans

\* The failure of a worker: the node fails, or another round of it is queued.
LEMMA FailNodeApplies ==
    ASSUME NEW w, Good(w), NEW n \in DOMAIN w.node, Open(w, n), n[2] # Review, NEW retrySafe \in BOOLEAN
    PROVE  \/ Applies(w, FailNode(w, n, retrySafe))
           \/ /\ retrySafe
              /\ \E v : Applies(w, v) /\ FailNode(w, n, retrySafe) = QueueCommand(v, n, "dispatch", n[1])
<1> DEFINE f == SetNode(w, n, "failed")
           u == IF Optional(w, n) THEN ReleaseDependents(f, n) ELSE SkipDependents(f, n)
           s == SetNode(Spend(w, "work_retry"), n, "running")
<1>1. DOMAIN w = Fields /\ DOMAIN w.node[n] = {"st", "card"} BY DEF Good, Shape
<1>2. n \notin w.freed BY FreedIsClosed
<1>3. Applies(w, f) BY <1>2, SetNodeApplies
<1>4. /\ n \in DOMAIN f.node /\ f.freed = w.freed /\ f.plans = w.plans /\ f.node[n].st = "failed"
  BY <1>1 DEF SetNode, Fields
<1>5. FailNode(w, n, retrySafe) =
         IF ~Optional(w, n) /\ retrySafe /\ w.budget["work_retry"] > 0
         THEN QueueCommand(s, n, "dispatch", n[1]) ELSE SettleWithReReview(u, n[1])
  BY DEF FailNode
<1> HIDE DEF f
<1>6. Applies(f, u)
  <2>1. CASE Optional(w, n)
    <3>1. Good(f) /\ Settled(f, n) BY <1>3, <1>4, <2>1 DEF Applies, Settled, Optional
    <3>2. Applies(f, ReleaseDependents(f, n)) BY <1>2, <1>4, <3>1, ReleaseApplies
    <3> QED BY <2>1, <3>2
  <2>2. CASE ~Optional(w, n) BY <1>3, <2>2, SkipApplies DEF Applies
  <2> QED BY <2>1, <2>2
<1> HIDE DEF u
<1>7. Applies(w, SettleWithReReview(u, n[1]))
  <2>1. Applies(u, SettleWithReReview(u, n[1])) BY <1>6, ReReviewApplies DEF Applies
  <2>2. Applies(w, u) BY <1>3, <1>6, AppliesTrans
  <2> QED BY <2>1, <2>2, AppliesTrans
<1>8. Applies(w, s)
  <2> DEFINE b == Spend(w, "work_retry")
  <2>1. Applies(w, b) BY StateApplies
  <2>2. b.freed = w.freed BY <1>1 DEF Spend, Fields
  <2>3. s = SetNode(b, n, "running") OBVIOUS
  <2> HIDE DEF b, s
  <2>4. Applies(b, s) BY <1>2, <2>1, <2>2, <2>3, SetNodeApplies DEF Applies
  <2> QED BY <2>1, <2>4, AppliesTrans
<1> HIDE DEF s
<1> QED BY <1>5, <1>7, <1>8

-----------------------------------------------------------------------------
(* The appliers of plans and verdicts.                                     *)

\* An update of the deliveries that keeps what they promise.
LEMMA DeliveriesApply ==
    ASSUME NEW w, NEW v, Good(w), DOMAIN v = Fields,
           v.plans = w.plans, v.node = w.node, v.freed = w.freed, v.cmd = w.cmd,
           \A n \in DOMAIN v.deliv : DOMAIN v.deliv[n] = {"out", "tries", "sent"},
           Deliveries(v)
    PROVE  Applies(w, v)
<1>1. \A n : Deps(v, n) = Deps(w, n) BY DEF Deps
<1>2. \A n : Unblocked(v, n) = Unblocked(w, n) BY <1>1 DEF Unblocked
<1>3. \A n : Dispatches(v, n) = Dispatches(w, n) BY DEF Dispatches, CommandsOf
<1>4. Shape(v) BY DEF Good, Shape
<1>5. Ready(v) BY <1>2 DEF Good, Ready, Settled, Optional
<1>6. Rounds(v) BY <1>3 DEF Good, Rounds
<1>7. Extends(w, v) BY <1>3 DEF Extends, SameRounds
<1> QED BY <1>4, <1>5, <1>6, <1>7 DEF Applies, Good

\* An update of the commands that makes no dispatch round pending.
LEMMA CommandsApply ==
    ASSUME NEW w, NEW v, Good(w), DOMAIN v = Fields,
           v.plans = w.plans, v.node = w.node, v.freed = w.freed, v.deliv = w.deliv,
           DOMAIN v.cmd = DOMAIN w.cmd,
           \A k \in DOMAIN w.cmd : /\ DOMAIN v.cmd[k] = {"st", "base", "inc", "job"}
                                   /\ k[2] = "dispatch" /\ v.cmd[k].st = "pending" => w.cmd[k].st = "pending"
    PROVE  Applies(w, v)
<1>1. \A n : Deps(v, n) = Deps(w, n) BY DEF Deps
<1>2. \A n : Unblocked(v, n) = Unblocked(w, n) BY <1>1 DEF Unblocked
<1>3. \A n : Dispatches(v, n) = Dispatches(w, n) BY DEF Dispatches, CommandsOf
<1>4. \A n : SameRounds(w, v, n) BY <1>3 DEF SameRounds, Dispatches, CommandsOf
<1>5. Shape(v) BY DEF Good, Shape
<1>6. Ready(v) BY <1>2 DEF Good, Ready, Settled, Optional
<1>7. Deliveries(v) BY DEF Good, Deliveries
<1>8. Rounds(v) BY <1>3 DEF Good, Rounds
<1>9. Extends(w, v) BY <1>4 DEF Extends
<1> QED BY <1>5, <1>6, <1>7, <1>8, <1>9 DEF Applies, Good

\* The cancellation closes what is open, and gives a pending delivery up as unknown.
LEMMA CancelRowsApplies ==
    ASSUME NEW w, Good(w)
    PROVE  Applies(w, CancelRows(w))
<1> DEFINE c == [k \in DOMAIN w.cmd |-> IF w.cmd[k].st \in {"pending", "claimed"}
                    THEN [w.cmd[k] EXCEPT !.st = "cancelled", !.job = "none"] ELSE w.cmd[k]]
           g == [n \in DOMAIN w.node |-> IF w.node[n].st \in OpenNode
                    THEN [w.node[n] EXCEPT !.st = "cancelled"] ELSE w.node[n]]
           d == [n \in DOMAIN w.deliv |-> IF w.deliv[n].out = "pending"
                    THEN [w.deliv[n] EXCEPT !.out = "unknown"] ELSE w.deliv[n]]
           w1 == [w EXCEPT !.cmd = c]
           w2 == [w1 EXCEPT !.node = g]
           w3 == [w2 EXCEPT !.deliv = d]
<1>1. /\ DOMAIN w = Fields
      /\ \A n \in DOMAIN w.node : DOMAIN w.node[n] = {"st", "card"}
      /\ \A k \in DOMAIN w.cmd : DOMAIN w.cmd[k] = {"st", "base", "inc", "job"}
      /\ \A n \in DOMAIN w.deliv : DOMAIN w.deliv[n] = {"out", "tries", "sent"}
  BY DEF Good, Shape
<1>2. CancelRows(w) = w3 BY <1>1 DEF CancelRows, Fields
<1>3. DOMAIN c = DOMAIN w.cmd /\ \A k \in DOMAIN w.cmd : /\ DOMAIN c[k] = {"st", "base", "inc", "job"}
                                                         /\ c[k].st # "pending"
  BY <1>1
<1>4. DOMAIN g = DOMAIN w.node /\ \A n \in DOMAIN w.node :
                                     /\ DOMAIN g[n] = {"st", "card"} /\ g[n].card = w.node[n].card
                                     /\ w.node[n].st \notin OpenNode => g[n] = w.node[n]
  BY <1>1
<1>5. DOMAIN d = DOMAIN w.deliv /\ \A n \in DOMAIN w.deliv :
                                      /\ DOMAIN d[n] = {"out", "tries", "sent"} /\ d[n].sent = w.deliv[n].sent
                                      /\ d[n].out # "pending"
  BY <1>1
<1>6. Applies(w, w1)
  <2>1. /\ DOMAIN w1 = Fields /\ w1.cmd = c
        /\ w1.plans = w.plans /\ w1.node = w.node /\ w1.freed = w.freed /\ w1.deliv = w.deliv
    BY <1>1 DEF Fields
  <2> HIDE DEF w1, c
  <2> QED BY <1>3, <2>1, CommandsApply
<1>7. Applies(w1, w2)
  <2>1. DOMAIN w1 = Fields /\ w1.node = w.node /\ w1.freed = w.freed BY <1>1 DEF Fields
  <2> HIDE DEF w1
  <2>2. /\ DOMAIN w2 = Fields /\ w2.node = g
        /\ w2.plans = w1.plans /\ w2.cmd = w1.cmd /\ w2.freed = w1.freed /\ w2.deliv = w1.deliv
    BY <2>1 DEF Fields
  <2> HIDE DEF w2, g
  <2>3. \A n \in w.freed : n \in DOMAIN w.node /\ w.node[n].st \notin OpenNode BY FreedIsClosed DEF Open
  <2>4. Good(w1) BY <1>6 DEF Applies
  <2>5. \A n \in w1.freed : w2.node[n].st \in {"succeeded", w1.node[n].st} BY <1>4, <2>1, <2>2, <2>3
  <2>6. \A n \in DOMAIN w1.node : DOMAIN w2.node[n] = {"st", "card"} /\ w2.node[n].card = w1.node[n].card
    BY <1>4, <2>1, <2>2
  <2>7. DOMAIN w2.node = DOMAIN w1.node BY <1>4, <2>1, <2>2
  <2> QED BY <2>2, <2>4, <2>5, <2>6, <2>7, NodesApply
<1>8. Applies(w2, w3)
  <2>1. DOMAIN w2 = Fields /\ w2.deliv = w.deliv BY <1>1 DEF Fields
  <2> HIDE DEF w2
  <2>2. /\ DOMAIN w3 = Fields /\ w3.deliv = d
        /\ w3.plans = w2.plans /\ w3.node = w2.node /\ w3.cmd = w2.cmd /\ w3.freed = w2.freed
    BY <2>1 DEF Fields
  <2> HIDE DEF w3, d
  <2>3. Good(w2) BY <1>7 DEF Applies
  <2>4. Deliveries(w3) BY <1>5, <2>2 DEF Good, Deliveries
  <2> QED BY <1>5, <2>2, <2>3, <2>4, DeliveriesApply
<1> HIDE DEF w1, w2, w3
<1> QED BY <1>2, <1>6, <1>7, <1>8, AppliesTrans

\* A revision is admitted: its nodes are new, the open ones it supersedes close.
LEMMA AdmitRevisionApplies ==
    ASSUME NEW w, Good(w), NEW p \in Plans \cup {ShaPlan}, NEW author
    PROVE  Applies(w, AdmitRevision(w, p, author))
<1> DEFINE r == Rev(w) + 1
           old == [n \in DOMAIN w.node |->
                     CASE n = author -> [w.node[n] EXCEPT !.st = "succeeded"]
                       [] n # author /\ Open(w, n) /\ n[2] # Review -> [w.node[n] EXCEPT !.st = "cancelled"]
                       [] OTHER -> w.node[n]]
           reviewed == \E n \in DOMAIN old : n[2] = Review /\ old[n].st \in OpenNode
           labels == p.work \cup p.wave \cup (IF reviewed THEN {} ELSE {Review})
           new == [n \in {<<r, l>> : l \in labels} |-> [st |-> "queued", card |-> <<>>]]
           v == [w EXCEPT !.plans = Append(@, p), !.node = Merge(old, new), !.state = "dispatched"]
           S == {n \in DOMAIN new : Unblocked(v, n)}
<1>1. /\ DOMAIN w = Fields /\ w.plans \in Seq(Plans \cup {ShaPlan})
      /\ \A n \in DOMAIN w.node : DOMAIN w.node[n] = {"st", "card"} /\ n[1] \in DOMAIN w.plans
  BY DEF Good, Shape
<1>2. AdmitRevision(w, p, author) = QueueForNodes(v, S) BY DEF AdmitRevision
<1>3. DOMAIN w.plans = 1 .. Len(w.plans) /\ Rev(w) = Len(w.plans) /\ Len(w.plans) \in Nat BY <1>1 DEF Rev
<1>4. DOMAIN old = DOMAIN w.node /\ \A n \in DOMAIN w.node :
                                       /\ DOMAIN old[n] = {"st", "card"} /\ old[n].card = w.node[n].card
                                       /\ old[n].st \in {"succeeded", w.node[n].st} \/ Open(w, n)
  BY <1>1
<1> HIDE DEF old, labels
<1>5. \A n \in DOMAIN new : n[1] = r /\ DOMAIN new[n] = {"st", "card"} /\ new[n].card = <<>>
  <2> TAKE n \in DOMAIN new
  <2>1. n[1] = r OBVIOUS
  <2>2. new[n] = [st |-> "queued", card |-> <<>>] OBVIOUS
  <2> QED BY <2>1, <2>2
<1> HIDE DEF new
<1>6. /\ DOMAIN v = Fields /\ v.plans = Append(w.plans, p) /\ v.node = Merge(old, new)
      /\ v.freed = w.freed /\ v.cmd = w.cmd /\ v.deliv = w.deliv
  BY <1>1 DEF Fields
<1> HIDE DEF v
<1>7. /\ v.plans \in Seq(Plans \cup {ShaPlan}) /\ DOMAIN v.plans = 1 .. r
      /\ \A i \in DOMAIN w.plans : i \in DOMAIN v.plans /\ v.plans[i] = w.plans[i]
  BY <1>1, <1>3, <1>6
<1>8. /\ DOMAIN v.node = DOMAIN w.node \cup DOMAIN new
      /\ \A n \in DOMAIN w.node : v.node[n] = old[n]
      /\ \A n \in DOMAIN new : n \notin DOMAIN w.node /\ v.node[n] = new[n]
  <2>1. \A n \in DOMAIN new : n \notin DOMAIN w.node BY <1>1, <1>3, <1>5
  <2> QED BY <1>4, <1>6, <2>1 DEF Merge
<1>9. \A n \in DOMAIN w.node : Deps(v, n) = Deps(w, n) BY <1>1, <1>7 DEF Deps
<1>10. \A n \in DOMAIN w.node : Unblocked(v, n) = Unblocked(w, n) BY <1>6, <1>9 DEF Unblocked
<1>11. \A n : Dispatches(v, n) = Dispatches(w, n) BY <1>6 DEF Dispatches, CommandsOf
<1>12. Shape(v)
  <2>1. \A n \in DOMAIN v.node : DOMAIN v.node[n] = {"st", "card"} BY <1>4, <1>5, <1>8
  <2>2. \A n \in DOMAIN v.node : n[1] \in DOMAIN v.plans BY <1>1, <1>3, <1>5, <1>7, <1>8
  <2> QED BY <1>6, <1>7, <2>1, <2>2 DEF Good, Shape
<1>13. Ready(v)
  <2>1. ASSUME NEW n \in v.freed PROVE n \in DOMAIN v.node /\ n[2] # Review /\ Settled(v, n)
    <3>1. n \in DOMAIN w.node /\ n[2] # Review /\ Settled(w, n) /\ ~Open(w, n)
      BY <1>6, <2>1, FreedIsClosed DEF Good, Ready
    <3>2. v.node[n].st \in {"succeeded", w.node[n].st} BY <1>4, <1>8, <3>1
    <3>3. v.plans[n[1]] = w.plans[n[1]] BY <1>1, <1>7, <3>1
    <3> QED BY <1>8, <3>1, <3>2, <3>3 DEF Settled, Optional
  <2>2. ASSUME NEW k \in DOMAIN v.cmd
        PROVE  /\ k[2] = "dispatch" => k[1] \in DOMAIN v.node /\ k[1][2] # Review /\ Unblocked(v, k[1])
               /\ k[2] = "review" => k[1][2] = Review
    BY <1>6, <1>8, <1>10, <2>2 DEF Good, Ready
  <2> QED BY <2>1, <2>2 DEF Ready
<1>14. \A n \in DOMAIN new : Dispatches(w, n) = {} BY <1>8 DEF Good, Ready, Dispatches, CommandsOf
<1>15. Rounds(v)
  <2>1. IsFiniteSet({}) BY FS_EmptySet
  <2> QED BY <1>8, <1>11, <1>14, <2>1 DEF Good, Rounds
<1>16. Good(v) BY <1>6, <1>12, <1>13, <1>15 DEF Good, Deliveries
<1>17. Extends(w, v)
  <2>1. \A n : SameRounds(w, v, n) BY <1>6, <1>11 DEF SameRounds
  <2>2. \A n \in DOMAIN w.node : v.node[n].card = w.node[n].card BY <1>4, <1>8
  <2>3. \A n \in DOMAIN v.node \ DOMAIN w.node : v.node[n].card = <<>> BY <1>5, <1>8
  <2> QED BY <1>6, <1>7, <1>8, <2>1, <2>2, <2>3 DEF Extends
<1>18. Applies(v, QueueForNodes(v, S))
  <2>1. \A n \in S : n \in DOMAIN v.node /\ Unblocked(v, n) /\ Dispatches(v, n) = {} BY <1>8, <1>11, <1>14
  <2> HIDE DEF S
  <2> QED BY <1>16, <2>1, QueueForNodesApplies
<1>19. Applies(w, v) BY <1>16, <1>17 DEF Applies
<1> HIDE DEF S
<1> QED BY <1>2, <1>18, <1>19, AppliesTrans

\* The planning command of an admitted run.
LEMMA InitialPlanApplies ==
    ASSUME NEW w, Good(w)
    PROVE  Applies(w, InitialPlan(w))
<1> DEFINE v == [w EXCEPT !.state = "admitted"]
<1>1. Applies(w, v) BY StateApplies
<1>2. InitialPlan(w) = QueueCommand(v, PlanNode, "plan", 0) BY DEF InitialPlan
<1> HIDE DEF v
<1>3. Applies(v, QueueCommand(v, PlanNode, "plan", 0)) BY <1>1, QueueCommandApplies DEF Applies
<1> QED BY <1>1, <1>2, <1>3, AppliesTrans

\* A planning round is repeated, or the run fails.
LEMMA RejectPlanRoundApplies ==
    ASSUME NEW w, Good(w), NEW k
    PROVE  Applies(w, RejectPlanRound(w, k))
<1> DEFINE v == SetCommand(w, k, "cancelled")
           s == Spend(v, "plan_revision")
           u == [s EXCEPT !.state = "planning"]
           q == QueueCommand(u, k[1], "plan", w.cmd[k].base)
           f == [v EXCEPT !.state = "failed"]
<1>1. RejectPlanRound(w, k) \in {f, q} BY DEF RejectPlanRound
<1>2. Applies(w, v) BY SetCommandApplies
<1> HIDE DEF v
<1>3. Applies(v, f) /\ Applies(v, s) BY <1>2, StateApplies DEF Applies
<1> HIDE DEF s, f
<1>4. Applies(s, u) BY <1>3, StateApplies DEF Applies
<1> HIDE DEF u
<1>5. Applies(u, q) BY <1>4, QueueCommandApplies DEF Applies
<1> HIDE DEF q
<1>6. Applies(w, f) BY <1>2, <1>3, AppliesTrans
<1>7. Applies(w, s) BY <1>2, <1>3, AppliesTrans
<1>8. Applies(w, u) BY <1>4, <1>7, AppliesTrans
<1>9. Applies(w, q) BY <1>5, <1>8, AppliesTrans
<1> QED BY <1>1, <1>6, <1>9

\* A reviewer accepts: the output becomes a delivery, pending unless it has an outcome.
LEMMA AcceptApplies ==
    ASSUME NEW w, Good(w), NEW k
    PROVE  Applies(w, Accept(w, k))
<1> DEFINE n == k[1]
           d == IF n \in DOMAIN w.deliv THEN w.deliv[n] ELSE [out |-> "pending", tries |-> 0, sent |-> 0]
           s == SetNode(w, n, "succeeded")
           v1 == [s EXCEPT !.deliv = Merge([m \in {n} |-> d], @)]
           v == [v1 EXCEPT !.accepted = @ \cup {Rev(w)}]
           q == QueueCommand(v, n, "deliver", Rev(w))
           c == SetCommand(q, k, "done")
<1>1. Accept(w, k) = Evaluate(c, Rev(w)) BY DEF Accept
<1>2. Applies(w, s) BY SetNodeApplies
<1>3. /\ DOMAIN w = Fields
      /\ \A m \in DOMAIN w.deliv : DOMAIN w.deliv[m] = {"out", "tries", "sent"}
  BY DEF Good, Shape
<1>4. s.deliv = w.deliv /\ DOMAIN s = Fields BY <1>3 DEF SetNode, Fields
<1>5. /\ DOMAIN d = {"out", "tries", "sent"}
      /\ d.sent \in {0, 1} /\ (d.out = "pending" => d.sent = 0)
  BY <1>3 DEF Good, Deliveries
<1> HIDE DEF d, s
<1>6. /\ DOMAIN v = Fields /\ v.deliv = Merge([m \in {n} |-> d], s.deliv)
      /\ v.plans = s.plans /\ v.node = s.node /\ v.freed = s.freed /\ v.cmd = s.cmd
  BY <1>4 DEF Fields
<1>7. \A m \in DOMAIN v.deliv : (m = n /\ v.deliv[m] = d) \/ (m \in DOMAIN w.deliv /\ v.deliv[m] = w.deliv[m])
  BY <1>4, <1>6 DEF Merge
<1> HIDE DEF v
<1>8. Applies(s, v)
  <2>1. Good(s) BY <1>2 DEF Applies
  <2>2. Deliveries(v) BY <1>5, <1>7 DEF Good, Deliveries
  <2>3. \A m \in DOMAIN v.deliv : DOMAIN v.deliv[m] = {"out", "tries", "sent"} BY <1>3, <1>5, <1>7
  <2> QED BY <1>6, <2>1, <2>2, <2>3, DeliveriesApply
<1>9. Applies(v, q) BY <1>8, QueueCommandApplies DEF Applies
<1> HIDE DEF q
<1>10. Applies(q, c) BY <1>9, SetCommandApplies DEF Applies
<1> HIDE DEF c
<1>11. Applies(c, Evaluate(c, Rev(w))) BY <1>10, StateApplies DEF Applies
<1>12. Applies(w, v) BY <1>2, <1>8, AppliesTrans
<1>13. Applies(w, q) BY <1>9, <1>12, AppliesTrans
<1>14. Applies(w, c) BY <1>10, <1>13, AppliesTrans
<1> QED BY <1>1, <1>11, <1>14, AppliesTrans

\* A reviewer rejects.
LEMMA RejectReviewApplies ==
    ASSUME NEW w, Good(w), NEW k \in DOMAIN w.cmd, k[2] = "review"
    PROVE  Applies(w, RejectReview(w, k))
<1> DEFINE s == SetNode(w, k[1], "failed")
           c == SetCommand(s, k, "done")
<1>1. k[1] \notin w.freed BY DEF Good, Ready
<1>2. Applies(w, s) BY <1>1, SetNodeApplies
<1>3. RejectReview(w, k) = Evaluate(c, Rev(w)) BY DEF RejectReview
<1> HIDE DEF s
<1>4. Applies(s, c) BY <1>2, SetCommandApplies DEF Applies
<1> HIDE DEF c
<1>5. Applies(c, Evaluate(c, Rev(w))) BY <1>4, StateApplies DEF Applies
<1>6. Applies(w, c) BY <1>2, <1>4, AppliesTrans
<1> QED BY <1>3, <1>5, <1>6, AppliesTrans

\* A reviewer asks for changes, or answers without a verdict.
LEMMA RepairApplies ==
    ASSUME NEW w, Good(w), NEW k \in DOMAIN w.cmd, k[2] = "review"
    PROVE  Applies(w, ChangesRequired(w, k)) /\ Applies(w, MalformedVerdict(w, k))
<1>1. k[1][2] = Review BY DEF Good, Ready
<1>2. ASSUME NEW scope, NEW a \in {"plan", "review"}, NEW base
      PROVE  Applies(w, SetCommand(QueueCommand(Spend(w, scope), k[1], a, base), k, "done"))
  <2> DEFINE s == Spend(w, scope)
             q == QueueCommand(s, k[1], a, base)
             c == SetCommand(q, k, "done")
  <2>1. Applies(w, s) BY StateApplies
  <2> HIDE DEF s
  <2>2. Applies(s, q) BY <1>1, <2>1, QueueCommandApplies DEF Applies
  <2> HIDE DEF q
  <2>3. Applies(q, c) BY <2>2, SetCommandApplies DEF Applies
  <2> HIDE DEF c
  <2>4. Applies(w, c) BY <2>1, <2>2, <2>3, AppliesTrans
  <2> QED BY <2>4 DEF c, q, s
<1>3. Applies(w, RejectReview(w, k)) BY RejectReviewApplies
<1>4. Applies(w, ChangesRequired(w, k)) BY <1>2, <1>3 DEF ChangesRequired
<1>5. Applies(w, MalformedVerdict(w, k)) BY <1>2, <1>3 DEF MalformedVerdict
<1> QED BY <1>4, <1>5

\* A model job without an execution ends the run.
LEMMA FailModelJobApplies ==
    ASSUME NEW w, Good(w), NEW k \in DOMAIN w.cmd
    PROVE  Applies(w, FailModelJob(w, k))
<1> DEFINE v == IF k[2] = "review" THEN SetNode(w, k[1], "failed") ELSE w
           c == CancelRows(v)
<1>1. k[2] = "review" => k[1] \notin w.freed BY DEF Good, Ready
<1>2. Applies(w, v) BY <1>1, SetNodeApplies, AppliesNothing
<1>3. FailModelJob(w, k) = [c EXCEPT !.state = "failed"] BY DEF FailModelJob
<1> HIDE DEF v
<1>4. Applies(v, c) BY <1>2, CancelRowsApplies DEF Applies
<1> HIDE DEF c
<1>5. Applies(c, [c EXCEPT !.state = "failed"]) BY <1>4, StateApplies DEF Applies
<1>6. Applies(w, c) BY <1>2, <1>4, AppliesTrans
<1> QED BY <1>3, <1>5, <1>6, AppliesTrans

-----------------------------------------------------------------------------
(* The rows and the attempts.                                              *)

\* Commit touches nothing but the jobs of a run that has ended.
LEMMA CommitApplies ==
    ASSUME NEW w, Good(w), Commit(w)
    PROVE  Applies(w, wf') /\ wf'.state = w.state /\ wf'.plans = w.plans
<1> DEFINE c == [k \in DOMAIN w.cmd |-> [w.cmd[k] EXCEPT !.job = "none"]]
           v == [w EXCEPT !.cmd = c]
<1>1. wf' \in {w, v} BY DEF Commit
<1>2. DOMAIN w = Fields /\ \A k \in DOMAIN w.cmd : DOMAIN w.cmd[k] = {"st", "base", "inc", "job"} BY DEF Good, Shape
<1>3. DOMAIN c = DOMAIN w.cmd /\ \A k \in DOMAIN w.cmd : /\ DOMAIN c[k] = {"st", "base", "inc", "job"}
                                                         /\ c[k].st = w.cmd[k].st
  BY <1>2
<1>4. /\ DOMAIN v = Fields /\ v.cmd = c /\ v.state = w.state
      /\ v.plans = w.plans /\ v.node = w.node /\ v.freed = w.freed /\ v.deliv = w.deliv
  BY <1>2 DEF Fields
<1> HIDE DEF v, c
<1>5. Applies(w, v) BY <1>3, <1>4, CommandsApply
<1> QED BY <1>1, <1>4, <1>5, AppliesNothing

\* A worker card belongs to work that was unblocked when its round was queued.
LEMMA CardsAreWork ==
    ASSUME NEW w, NEW ats, Good(w), Paired(w, ats), NEW c \in DOMAIN ats
    PROVE  c[1] \in DOMAIN w.node /\ c[1][2] # Review /\ Unblocked(w, c[1])
<1> DEFINE n == c[1]
<1>1. n \in DOMAIN w.node BY DEF Paired
<1>2. /\ IsFiniteSet(Cards(ats, n)) /\ IsFiniteSet(Dispatches(w, n))
      /\ Cardinality(Cards(ats, n)) <= Cardinality(Dispatches(w, n))
  BY <1>1 DEF Paired, Good, Rounds
<1>3. c \in Cards(ats, n) BY DEF Cards
<1>4. Cardinality(Cards(ats, n)) # 0 BY <1>2, <1>3, FS_EmptySet
<1>5. Cardinality(Cards(ats, n)) \in Nat /\ Cardinality(Dispatches(w, n)) \in Nat BY <1>2, FS_CardinalityType
<1>6. Cardinality(Dispatches(w, n)) # 0 BY <1>2, <1>4, <1>5
<1>7. Dispatches(w, n) # {} BY <1>6, FS_EmptySet
<1>8. PICK k \in DOMAIN w.cmd : k[1] = n /\ k[2] = "dispatch" BY <1>7 DEF Dispatches, CommandsOf
<1> QED BY <1>8 DEF Good, Ready

\* An applier's step keeps the attempts paired with the rounds, while attempts only end.
LEMMA PairedKept ==
    ASSUME NEW w, NEW v, NEW ats, NEW b, Applies(w, v), Paired(w, ats), DOMAIN b = DOMAIN ats,
           \A c \in DOMAIN ats :
              /\ DOMAIN b[c] = {"life", "asked", "seen", "nested"}
              /\ b[c].asked => b[c].life = "failed"
              /\ Held(b[c]) => Held(ats[c])
    PROVE  Paired(v, b)
<1>1. Good(w) /\ Good(v) /\ Extends(w, v) BY DEF Applies
<1>2. \A n : Cards(b, n) = Cards(ats, n) BY DEF Cards
<1>3. \A c \in DOMAIN b : DOMAIN b[c] = {"life", "asked", "seen", "nested"} /\ c[1] \in DOMAIN v.node /\ (b[c].asked => b[c].life = "failed")
  BY <1>1 DEF Paired, Extends
<1>4. Cardinality({}) = 0 /\ IsFiniteSet({}) BY FS_EmptySet
<1>5. ASSUME NEW n \in DOMAIN v.node
      PROVE  LET rounds == Cardinality(Dispatches(v, n))
                 cards == Cardinality(Cards(b, n))
             IN  /\ IsFiniteSet(Cards(b, n))
                 /\ \A c \in Cards(b, n) : c = <<n, c[2]>> /\ c[2] \in Nat /\ c[2] < cards
                 /\ cards <= rounds /\ rounds <= cards + 1
                 /\ v.node[n].card = IF cards = 0 THEN <<>> ELSE <<n, cards - 1>>
                 /\ \A k \in Dispatches(v, n) : v.cmd[k].st = "pending" => k[3] = cards
                 /\ \A c \in Cards(b, n) : Held(b[c]) => c = v.node[n].card /\ rounds = cards
  <2>1. CASE Dispatches(w, n) = {}
    <3>1. Cards(ats, n) = {}
      <4>1. CASE n \in DOMAIN w.node
        <5>1. IsFiniteSet(Cards(ats, n)) /\ Cardinality(Cards(ats, n)) <= 0 BY <1>4, <2>1, <4>1 DEF Paired
        <5>2. Cardinality(Cards(ats, n)) \in Nat BY <5>1, FS_CardinalityType
        <5>3. Cardinality(Cards(ats, n)) = 0 BY <5>1, <5>2
        <5> QED BY <5>1, <5>3, FS_EmptySet
      <4>2. CASE n \notin DOMAIN w.node BY <4>2 DEF Paired, Cards
      <4> QED BY <4>1, <4>2
    <3>2. Cards(b, n) = {} BY <1>2, <3>1
    <3>3. v.node[n].card = <<>>
      <4>1. CASE n \in DOMAIN w.node
        <5>1. w.node[n].card = <<>> BY <1>4, <3>1, <4>1 DEF Paired
        <5> QED BY <1>1, <4>1, <5>1 DEF Extends
      <4>2. CASE n \notin DOMAIN w.node BY <1>1, <1>5, <4>2 DEF Extends
      <4> QED BY <4>1, <4>2
    <3>4. SameRounds(w, v, n) \/ FirstRound(w, v, n) BY <1>1, <1>5 DEF Extends
    <3>5. CASE Dispatches(v, n) = {} BY <1>4, <3>2, <3>3, <3>5
    <3>6. CASE Dispatches(v, n) = {<<n, "dispatch", 0>>}
      <4>1. Cardinality(Dispatches(v, n)) = 1 BY <3>6, FS_Singleton
      <4>2. Cardinality(Cards(b, n)) = 0 BY <1>4, <3>2
      <4>3. \A k \in Dispatches(v, n) : k[3] = 0 BY <3>6
      <4> QED BY <1>4, <3>2, <3>3, <4>1, <4>2, <4>3
    <3> QED BY <2>1, <3>4, <3>5, <3>6 DEF SameRounds, FirstRound
  <2>2. CASE Dispatches(w, n) # {}
    <3>1. n \in DOMAIN w.node BY <1>1, <2>2 DEF Good, Ready, Dispatches, CommandsOf
    <3>2. SameRounds(w, v, n) BY <1>1, <1>5, <2>2 DEF Extends, FirstRound
    <3>3. v.node[n].card = w.node[n].card BY <1>1, <3>1 DEF Extends
    <3>4. \A c \in Cards(ats, n) : c \in DOMAIN ats BY DEF Cards
    <3> QED BY <1>2, <3>1, <3>2, <3>3, <3>4 DEF Paired, SameRounds
  <2> QED BY <2>1, <2>2
<1> QED BY <1>3, <1>5 DEF Paired

\* An applier's step and its commit, while attempts only end.
LEMMA ApplierStep ==
    ASSUME IInv, NEW w, Applies(wf, w), Commit(w), DOMAIN att' = DOMAIN att,
           \A c \in DOMAIN att :
              /\ DOMAIN att'[c] = {"life", "asked", "seen", "nested"}
              /\ att'[c].asked => att'[c].life = "failed"
              /\ Held(att'[c]) => Held(att[c])
    PROVE  IInv'
<1>1. Good(w) BY DEF Applies
<1>2. Applies(w, wf') BY <1>1, CommitApplies
<1>3. Applies(wf, wf') BY <1>2, AppliesTrans
<1>4. Paired(wf', att') BY <1>3, PairedKept DEF IInv
<1> QED BY <1>3, <1>4 DEF IInv, Applies

\* The same while no attempt moves.
LEMMA RowsStep ==
    ASSUME IInv, NEW w, Applies(wf, w), Commit(w) \/ wf' = w, att' = att
    PROVE  IInv'
<1>1. \A c \in DOMAIN att : DOMAIN att[c] = {"life", "asked", "seen", "nested"} /\ (att[c].asked => att[c].life = "failed")
  BY DEF IInv, Paired
<1>2. CASE Commit(w) BY <1>1, <1>2, ApplierStep
<1>3. CASE wf' = w
  <2>1. Applies(wf, wf') BY <1>3
  <2>2. Paired(wf', att') BY <1>1, <2>1, PairedKept DEF IInv
  <2> QED BY <2>1, <2>2 DEF IInv, Applies
<1> QED BY <1>2, <1>3

-----------------------------------------------------------------------------
(* The steps of the drain.                                                 *)

\* The columns of a command other than its state change, or it is claimed.
LEMMA ClaimApplies ==
    ASSUME NEW w, Good(w), NEW k
    PROVE  /\ Applies(w, [w EXCEPT !.cmd[k].st = "claimed"])
           /\ Applies(w, [w EXCEPT !.cmd[k].st = "claimed", !.cmd[k].job = "active"])
           /\ \A j : Applies(w, [w EXCEPT !.cmd[k].job = j])
           /\ \A i : Applies(w, [w EXCEPT !.cmd[k].inc = i])
<1>1. DOMAIN w = Fields /\ \A m \in DOMAIN w.cmd : DOMAIN w.cmd[m] = {"st", "base", "inc", "job"} BY DEF Good, Shape
<1>2. ASSUME NEW c, DOMAIN c = DOMAIN w.cmd,
             \A m \in DOMAIN w.cmd : DOMAIN c[m] = {"st", "base", "inc", "job"} /\ c[m].st \in {"claimed", w.cmd[m].st}
      PROVE  Applies(w, [w EXCEPT !.cmd = c])
  <2> DEFINE v == [w EXCEPT !.cmd = c]
  <2>1. /\ DOMAIN v = Fields /\ v.cmd = c
        /\ v.plans = w.plans /\ v.node = w.node /\ v.freed = w.freed /\ v.deliv = w.deliv
    BY <1>1 DEF Fields
  <2> HIDE DEF v
  <2>2. Applies(w, v) BY <1>2, <2>1, CommandsApply
  <2> QED BY <2>2 DEF v
<1>3. Applies(w, [w EXCEPT !.cmd[k].st = "claimed"])
  <2> DEFINE c == [w.cmd EXCEPT ![k].st = "claimed"]
  <2>1. DOMAIN c = DOMAIN w.cmd /\ \A m \in DOMAIN w.cmd : DOMAIN c[m] = {"st", "base", "inc", "job"} /\ c[m].st \in {"claimed", w.cmd[m].st}
    BY <1>1
  <2>2. [w EXCEPT !.cmd[k].st = "claimed"] = [w EXCEPT !.cmd = c] OBVIOUS
  <2> HIDE DEF c
  <2> QED BY <1>2, <2>1, <2>2
<1>4. Applies(w, [w EXCEPT !.cmd[k].st = "claimed", !.cmd[k].job = "active"])
  <2> DEFINE c == [[w.cmd EXCEPT ![k].st = "claimed"] EXCEPT ![k].job = "active"]
  <2>1. DOMAIN c = DOMAIN w.cmd /\ \A m \in DOMAIN w.cmd : DOMAIN c[m] = {"st", "base", "inc", "job"} /\ c[m].st \in {"claimed", w.cmd[m].st}
    BY <1>1
  <2>2. [w EXCEPT !.cmd[k].st = "claimed", !.cmd[k].job = "active"] = [w EXCEPT !.cmd = c] BY <1>1 DEF Fields
  <2> HIDE DEF c
  <2> QED BY <1>2, <2>1, <2>2
<1>5. ASSUME NEW j PROVE Applies(w, [w EXCEPT !.cmd[k].job = j])
  <2> DEFINE c == [w.cmd EXCEPT ![k].job = j]
  <2>1. DOMAIN c = DOMAIN w.cmd /\ \A m \in DOMAIN w.cmd : DOMAIN c[m] = {"st", "base", "inc", "job"} /\ c[m].st \in {"claimed", w.cmd[m].st}
    BY <1>1
  <2>2. [w EXCEPT !.cmd[k].job = j] = [w EXCEPT !.cmd = c] OBVIOUS
  <2> HIDE DEF c
  <2> QED BY <1>2, <2>1, <2>2
<1>6. ASSUME NEW i PROVE Applies(w, [w EXCEPT !.cmd[k].inc = i])
  <2> DEFINE c == [w.cmd EXCEPT ![k].inc = i]
  <2>1. DOMAIN c = DOMAIN w.cmd /\ \A m \in DOMAIN w.cmd : DOMAIN c[m] = {"st", "base", "inc", "job"} /\ c[m].st \in {"claimed", w.cmd[m].st}
    BY <1>1
  <2>2. [w EXCEPT !.cmd[k].inc = i] = [w EXCEPT !.cmd = c] OBVIOUS
  <2> HIDE DEF c
  <2> QED BY <1>2, <2>1, <2>2
<1> QED BY <1>3, <1>4, <1>5, <1>6

\* A model job is started.
LEMMA DrainModelJobStep ==
    ASSUME IInv, NEW k \in DOMAIN wf.cmd, DrainModelJob(k)
    PROVE  IInv'
<1> DEFINE v == [wf EXCEPT !.cmd[k].st = "claimed", !.cmd[k].job = "active"]
<1>1. wf' \in {v, SetNode(v, k[1], "running")} /\ (wf' # v => k[1] \in NodesOf(wf, wf.cmd[k].base) /\ wf.node[k[1]].st = "queued")
  BY DEF DrainModelJob
<1>2. Good(wf) BY DEF IInv
<1>3. Applies(wf, v) BY <1>2, ClaimApplies
<1>4. v.freed = wf.freed BY <1>2 DEF Good, Shape, Fields
<1> HIDE DEF v
<1>5. Applies(wf, wf')
  <2>1. CASE wf' = v BY <1>3, <2>1
  <2>2. CASE wf' # v
    <3>1. k[1] \notin v.freed BY <1>1, <1>2, <1>4, <2>2, FreedIsClosed
    <3>2. Applies(v, SetNode(v, k[1], "running")) BY <1>3, <3>1, SetNodeApplies DEF Applies
    <3> QED BY <1>1, <1>3, <2>2, <3>2, AppliesTrans
  <2> QED BY <2>1, <2>2
<1>6. att' = att BY DEF DrainModelJob
<1> QED BY <1>5, <1>6, RowsStep

\* The rows after a send, and after its outcome is known.
Tried(w, k) == SetCommand([w EXCEPT !.deliv[k[1]].tries = @ + 1], k, "done")
Resolved(w, k, out) ==
    [Tried(w, k) EXCEPT !.deliv[k[1]].out = out, !.deliv[k[1]].sent = IF out = "failed" THEN @ ELSE @ + 1]

\* What they change: the command of the delivery, and its own row.
Delivers(w, v, k) ==
    /\ v.plans = w.plans /\ v.node = w.node /\ v.freed = w.freed
    /\ v.accepted = w.accepted /\ v.state = w.state
    /\ v.cmd = SetCommand(w, k, "done").cmd /\ DOMAIN v.deliv = DOMAIN w.deliv
    /\ \A m \in DOMAIN w.deliv : m # k[1] => v.deliv[m].out = w.deliv[m].out

\* A send changes no more, and is an applier's step.
LEMMA DeliveryRows ==
    ASSUME NEW w, Good(w), NEW k
    PROVE  /\ Applies(w, Tried(w, k)) /\ Delivers(w, Tried(w, k), k)
           /\ \A m \in DOMAIN w.deliv : Tried(w, k).deliv[m].out = w.deliv[m].out
           /\ \A out \in {"acknowledged", "failed", "unknown"} :
                 /\ Delivers(w, Resolved(w, k, out), k)
                 /\ k[1] \in DOMAIN w.deliv => Resolved(w, k, out).deliv[k[1]].out = out
                 /\ w.deliv[k[1]].out = "pending" => Applies(w, Resolved(w, k, out))
<1> DEFINE n == k[1]
           b == [w EXCEPT !.deliv[n].tries = @ + 1]
           sent == SetCommand(b, k, "done")
<1>1. /\ DOMAIN w = Fields
      /\ \A m \in DOMAIN w.deliv : DOMAIN w.deliv[m] = {"out", "tries", "sent"}
  BY DEF Good, Shape
<1>2. /\ DOMAIN b = Fields /\ b.plans = w.plans /\ b.node = w.node /\ b.freed = w.freed /\ b.cmd = w.cmd
      /\ b.accepted = w.accepted /\ b.state = w.state
      /\ DOMAIN b.deliv = DOMAIN w.deliv
      /\ \A m \in DOMAIN w.deliv : /\ DOMAIN b.deliv[m] = {"out", "tries", "sent"}
                                   /\ b.deliv[m].out = w.deliv[m].out /\ b.deliv[m].sent = w.deliv[m].sent
  BY <1>1 DEF Fields
<1> HIDE DEF b
<1>3. Applies(w, b)
  <2>1. Deliveries(b) BY <1>2 DEF Good, Deliveries
  <2> QED BY <1>2, <2>1, DeliveriesApply
<1>4. Applies(w, sent)
  <2>1. Applies(b, sent) BY <1>3, SetCommandApplies DEF Applies
  <2> QED BY <1>3, <2>1, AppliesTrans
<1>5. /\ DOMAIN sent = Fields /\ sent.deliv = b.deliv /\ sent.plans = w.plans /\ sent.node = w.node
      /\ sent.freed = w.freed /\ sent.accepted = w.accepted /\ sent.state = w.state
      /\ sent.cmd = SetCommand(w, k, "done").cmd
  BY <1>1, <1>2 DEF SetCommand, Fields
<1> HIDE DEF sent
<1>6. ASSUME NEW out \in {"acknowledged", "failed", "unknown"}
      PROVE  /\ Delivers(w, Resolved(w, k, out), k)
             /\ n \in DOMAIN w.deliv => Resolved(w, k, out).deliv[n].out = out
             /\ w.deliv[n].out = "pending" => Applies(w, Resolved(w, k, out))
  <2> DEFINE v == [sent EXCEPT !.deliv[n].out = out, !.deliv[n].sent = IF out = "failed" THEN @ ELSE @ + 1]
  <2>0. Resolved(w, k, out) = v BY DEF Resolved, Tried, sent, b
  <2>1. /\ DOMAIN v = Fields /\ v.plans = sent.plans /\ v.node = sent.node /\ v.freed = sent.freed /\ v.cmd = sent.cmd
        /\ v.accepted = sent.accepted /\ v.state = sent.state
        /\ DOMAIN v.deliv = DOMAIN w.deliv
        /\ \A m \in DOMAIN w.deliv :
              /\ DOMAIN v.deliv[m] = {"out", "tries", "sent"}
              /\ m # n => v.deliv[m].out = w.deliv[m].out /\ v.deliv[m].sent = w.deliv[m].sent
              /\ m = n => /\ v.deliv[m].out = out
                          /\ v.deliv[m].sent = IF out = "failed" THEN w.deliv[m].sent ELSE w.deliv[m].sent + 1
    BY <1>2, <1>5 DEF Fields
  <2> HIDE DEF v
  <2>2. ASSUME w.deliv[n].out = "pending" PROVE Applies(w, v)
    <3>1. \A m \in DOMAIN w.deliv : w.deliv[m].sent \in {0, 1} /\ (w.deliv[m].out = "pending" => w.deliv[m].sent = 0)
      BY DEF Good, Deliveries
    <3>2. Deliveries(v) BY <2>1, <2>2, <3>1 DEF Deliveries
    <3>3. Applies(sent, v) BY <1>4, <2>1, <3>2, DeliveriesApply DEF Applies
    <3> QED BY <1>4, <3>3, AppliesTrans
  <2>3. Delivers(w, v, k) BY <1>5, <2>1 DEF Delivers
  <2> QED BY <2>0, <2>1, <2>2, <2>3
<1>7. Tried(w, k) = sent BY DEF Tried, sent, b
<1>8. Delivers(w, sent, k) BY <1>2, <1>5 DEF Delivers
<1> QED BY <1>2, <1>4, <1>5, <1>6, <1>7, <1>8

\* A delivery is sent once: it is acknowledged, or its outcome is unknown, and
\* only a refused one is tried again.
LEMMA DrainDeliverStep ==
    ASSUME IInv, NEW k \in DOMAIN wf.cmd, DrainDeliver(k)
    PROVE  IInv'
<1> DEFINE n == k[1]
           d == wf.deliv[n]
           sent == Tried(wf, k)
           acked == Resolved(wf, k, "acknowledged")
<1>1. Good(wf) /\ att' = att BY DEF IInv, DrainDeliver
<1>2. Applies(wf, SetCommand(wf, k, "done")) BY <1>1, SetCommandApplies
<1>3. /\ Applies(wf, sent)
      /\ d.out = "pending" => \A out \in {"acknowledged", "failed", "unknown"} : Applies(wf, Resolved(wf, k, out))
  BY <1>1, DeliveryRows
<1>4. \/ Commit(SetCommand(wf, k, "done"))
      \/ d.out = "pending" /\ Commit(IF Live(wf) THEN Evaluate(acked, Rev(wf)) ELSE acked)
      \/ d.out = "pending" /\ Commit(QueueCommand(sent, n, "deliver", wf.cmd[k].base))
      \/ d.out = "pending" /\ Commit(Resolved(wf, k, "failed"))
      \/ d.out = "pending" /\ Commit(Resolved(wf, k, "unknown"))
  BY DEF DrainDeliver, Tried, Resolved
<1>5. CASE Commit(SetCommand(wf, k, "done")) BY <1>1, <1>2, <1>5, RowsStep
<1>6. CASE d.out = "pending" /\ Commit(IF Live(wf) THEN Evaluate(acked, Rev(wf)) ELSE acked)
  <2>1. Applies(wf, acked) BY <1>3, <1>6
  <2>2. Applies(acked, Evaluate(acked, Rev(wf))) BY <2>1, StateApplies DEF Applies
  <2>3. Applies(wf, Evaluate(acked, Rev(wf))) BY <2>1, <2>2, AppliesTrans
  <2> HIDE DEF acked
  <2>4. Applies(wf, IF Live(wf) THEN Evaluate(acked, Rev(wf)) ELSE acked) BY <2>1, <2>3
  <2> QED BY <1>1, <1>6, <2>4, RowsStep
<1>7. CASE Commit(QueueCommand(sent, n, "deliver", wf.cmd[k].base))
  <2>1. Applies(sent, QueueCommand(sent, n, "deliver", wf.cmd[k].base)) BY <1>3, QueueCommandApplies DEF Applies
  <2>2. Applies(wf, QueueCommand(sent, n, "deliver", wf.cmd[k].base)) BY <1>3, <2>1, AppliesTrans
  <2> QED BY <1>1, <1>7, <2>2, RowsStep
<1>8. CASE d.out = "pending" /\ (Commit(Resolved(wf, k, "failed")) \/ Commit(Resolved(wf, k, "unknown")))
  <2>1. Applies(wf, Resolved(wf, k, "failed")) /\ Applies(wf, Resolved(wf, k, "unknown")) BY <1>3, <1>8
  <2> QED BY <1>1, <1>8, <2>1, RowsStep
<1> QED BY <1>4, <1>5, <1>6, <1>7, <1>8

-----------------------------------------------------------------------------
(* The rounds of a node and its attempts.                                  *)

\* Which card a node is bound to plays no part in what the rows keep.
LEMMA GoodButCards ==
    ASSUME NEW w, NEW v, Good(w), DOMAIN v = Fields,
           v.plans = w.plans, v.freed = w.freed, v.cmd = w.cmd, v.deliv = w.deliv,
           DOMAIN v.node = DOMAIN w.node,
           \A n \in DOMAIN w.node : DOMAIN v.node[n] = {"st", "card"} /\ v.node[n].st = w.node[n].st
    PROVE  Good(v)
<1>1. \A n : Deps(v, n) = Deps(w, n) BY DEF Deps
<1>2. \A n : Unblocked(v, n) = Unblocked(w, n) BY <1>1 DEF Unblocked
<1>3. \A n : Dispatches(v, n) = Dispatches(w, n) BY DEF Dispatches, CommandsOf
<1>4. Shape(v) BY DEF Good, Shape
<1>5. Ready(v) BY <1>2 DEF Good, Ready, Settled, Optional
<1>6. Deliveries(v) BY DEF Good, Deliveries
<1>7. Rounds(v) BY <1>3 DEF Good, Rounds
<1> QED BY <1>4, <1>5, <1>6, <1>7 DEF Good

\* What a round and its node look like when the round is pending: it is the last
\* one, no attempt of the node may be executing, and its own is the next card.
LEMMA PendingRound ==
    ASSUME IInv, NEW k \in DOMAIN wf.cmd, k[2] = "dispatch", wf.cmd[k].st = "pending"
    PROVE  LET n == k[1]
               cards == Cardinality(Cards(att, n))
           IN  /\ n \in DOMAIN wf.node /\ k \in Dispatches(wf, n)
               /\ cards \in Nat /\ IsFiniteSet(Cards(att, n))
               /\ k = <<n, "dispatch", cards>>
               /\ Cardinality(Dispatches(wf, n)) = cards + 1
               /\ \A c \in Cards(att, n) : ~Held(att[c])
               /\ \A j \in Dispatches(wf, n) : wf.cmd[j].st = "pending" => j = k
<1> DEFINE n == k[1]
           cards == Cardinality(Cards(att, n))
           rounds == Cardinality(Dispatches(wf, n))
<1>1. n \in DOMAIN wf.node /\ k \in Dispatches(wf, n) BY DEF IInv, Good, Ready, Dispatches, CommandsOf
<1>2. /\ IsFiniteSet(Cards(att, n)) /\ cards <= rounds /\ rounds <= cards + 1
      /\ \A j \in Dispatches(wf, n) : wf.cmd[j].st = "pending" => j[3] = cards
      /\ \A c \in Cards(att, n) : Held(att[c]) => rounds = cards
  BY <1>1 DEF IInv, Paired
<1>3. /\ IsFiniteSet(Dispatches(wf, n))
      /\ \A j \in Dispatches(wf, n) : j = <<n, "dispatch", j[3]>> /\ j[3] \in Nat /\ j[3] < rounds
  BY <1>1 DEF IInv, Good, Rounds
<1>4. cards \in Nat /\ rounds \in Nat BY <1>2, <1>3, FS_CardinalityType
<1>5. k[3] = cards /\ k = <<n, "dispatch", cards>> /\ cards < rounds BY <1>1, <1>2, <1>3
<1>6. rounds = cards + 1 /\ rounds # cards BY <1>2, <1>4, <1>5
<1>7. \A j \in Dispatches(wf, n) : wf.cmd[j].st = "pending" => j = k
  <2> SUFFICES ASSUME NEW j \in Dispatches(wf, n), wf.cmd[j].st = "pending" PROVE j = k
    OBVIOUS
  <2>1. j = <<n, "dispatch", j[3]>> /\ j[3] = cards BY <1>2, <1>3
  <2> QED BY <1>5, <2>1
<1> QED BY <1>1, <1>2, <1>4, <1>5, <1>6, <1>7

\* The only pending round of a node makes its only live attempt.
LEMMA StartChildStep ==
    ASSUME IInv, NEW k \in DOMAIN wf.cmd, k[2] = "dispatch", wf.cmd[k].st = "pending", Open(wf, k[1]), StartChild(k)
    PROVE  IInv'
<1> DEFINE n == k[1]
           cards == Cardinality(Cards(att, n))
           card == <<n, cards>>
           row == NewAttempt(FALSE)
           v0 == [wf EXCEPT !.cmd[k].st = "claimed"]
           v == SetNode(v0, n, "running")
<1>1. Good(wf) /\ Paired(wf, att) BY DEF IInv
<1>2. /\ n \in DOMAIN wf.node /\ k \in Dispatches(wf, n)
      /\ cards \in Nat /\ IsFiniteSet(Cards(att, n))
      /\ k = <<n, "dispatch", cards>>
      /\ Cardinality(Dispatches(wf, n)) = cards + 1
      /\ \A c \in Cards(att, n) : ~Held(att[c])
      /\ \A j \in Dispatches(wf, n) : wf.cmd[j].st = "pending" => j = k
  BY PendingRound
<1>3. /\ DOMAIN wf = Fields
      /\ \A m \in DOMAIN wf.node : DOMAIN wf.node[m] = {"st", "card"}
      /\ \A m \in DOMAIN wf.cmd : DOMAIN wf.cmd[m] = {"st", "base", "inc", "job"}
  BY <1>1 DEF Good, Shape
<1>4. /\ wf' = [wf EXCEPT !.cmd[k].st = "claimed", !.node[n] = [st |-> "running", card |-> card]]
      /\ att' = Merge([c \in {card} |-> row], att)
  BY DEF StartChild, Cards
<1>5. /\ DOMAIN wf' = Fields /\ DOMAIN wf'.node = DOMAIN wf.node /\ DOMAIN wf'.cmd = DOMAIN wf.cmd
      /\ wf'.node[n].st = "running" /\ wf'.node[n].card = card /\ DOMAIN wf'.node[n] = {"st", "card"}
      /\ \A m \in DOMAIN wf.node : m # n => wf'.node[m] = wf.node[m]
      /\ wf'.cmd[k].st = "claimed" /\ \A j \in DOMAIN wf.cmd : j # k => wf'.cmd[j] = wf.cmd[j]
  BY <1>2, <1>3, <1>4 DEF Fields
<1>6. Good(wf')
  <2>1. Applies(wf, v0) BY <1>1, ClaimApplies
  <2>2. n \notin v0.freed
    <3>1. v0.freed = wf.freed BY <1>3 DEF Fields
    <3> QED BY <1>1, <3>1, FreedIsClosed
  <2>3. Good(v) BY <2>1, <2>2, SetNodeApplies DEF Applies
  <2>4. /\ DOMAIN v.node = DOMAIN wf.node
        /\ \A m \in DOMAIN wf.node : v.node[m].st = IF m = n THEN "running" ELSE wf.node[m].st
    BY <1>2, <1>3 DEF Fields, SetNode
  <2>5. wf'.plans = v.plans /\ wf'.freed = v.freed /\ wf'.cmd = v.cmd /\ wf'.deliv = v.deliv
    BY <1>3, <1>4 DEF Fields, SetNode
  <2> HIDE DEF v0, v
  <2>6. \A m \in DOMAIN v.node : DOMAIN wf'.node[m] = {"st", "card"} /\ wf'.node[m].st = v.node[m].st
    BY <1>3, <1>5, <2>4
  <2>7. DOMAIN wf'.node = DOMAIN v.node BY <1>5, <2>4
  <2> QED BY <1>5, <2>3, <2>5, <2>6, <2>7, GoodButCards
<1>7. \A m : Dispatches(wf', m) = Dispatches(wf, m) BY <1>5 DEF Dispatches, CommandsOf
<1>8. card \notin DOMAIN att
  <2>1. \A c \in Cards(att, n) : c = <<n, c[2]>> /\ c[2] \in Nat /\ c[2] < cards BY <1>1, <1>2 DEF Paired
  <2>2. card[1] = n /\ card[2] = cards OBVIOUS
  <2>3. card \notin Cards(att, n) BY <1>2, <2>1, <2>2
  <2> QED BY <2>2, <2>3 DEF Cards
<1>9. DOMAIN att' = {card} \cup DOMAIN att /\ att'[card] = row /\ \A c \in DOMAIN att : att'[c] = att[c]
  BY <1>4, <1>8 DEF Merge
<1>10. card[1] = n /\ card[2] = cards OBVIOUS
<1> HIDE DEF card
<1>11. /\ Cards(att', n) = Cards(att, n) \cup {card}
       /\ \A m : m # n => Cards(att', m) = Cards(att, m)
  BY <1>9, <1>10 DEF Cards
<1>12. /\ IsFiniteSet(Cards(att', n)) /\ Cardinality(Cards(att', n)) = cards + 1
  <2>1. card \notin Cards(att, n) BY <1>8 DEF Cards
  <2> QED BY <1>2, <1>11, <2>1, FS_AddElement
<1>13. DOMAIN row = {"life", "asked", "seen", "nested"} /\ row.life = "pending" /\ ~row.asked BY DEF NewAttempt
<1> HIDE DEF row, cards
<1>14. \A c \in DOMAIN att' : /\ DOMAIN att'[c] = {"life", "asked", "seen", "nested"} /\ c[1] \in DOMAIN wf'.node
                              /\ att'[c].asked => att'[c].life = "failed"
  BY <1>1, <1>2, <1>5, <1>9, <1>10, <1>13 DEF Paired
<1>15. ASSUME NEW m \in DOMAIN wf'.node
       PROVE  LET rounds == Cardinality(Dispatches(wf', m))
                  made == Cardinality(Cards(att', m))
              IN  /\ IsFiniteSet(Cards(att', m))
                  /\ \A c \in Cards(att', m) : c = <<m, c[2]>> /\ c[2] \in Nat /\ c[2] < made
                  /\ made <= rounds /\ rounds <= made + 1
                  /\ wf'.node[m].card = IF made = 0 THEN <<>> ELSE <<m, made - 1>>
                  /\ \A j \in Dispatches(wf', m) : wf'.cmd[j].st = "pending" => j[3] = made
                  /\ \A c \in Cards(att', m) : Held(att'[c]) => c = wf'.node[m].card /\ rounds = made
  <2>1. CASE m = n
    <3>1. \A c \in Cards(att, n) : c = <<n, c[2]>> /\ c[2] \in Nat /\ c[2] < cards BY <1>1, <1>2 DEF Paired, cards
    <3>2. card = <<n, cards>> BY DEF card
    <3>3. \A c \in Cards(att', n) : c = <<n, c[2]>> /\ c[2] \in Nat /\ c[2] < cards + 1
      BY <1>2, <1>10, <1>11, <3>1, <3>2
    <3>4. \A j \in Dispatches(wf', n) : wf'.cmd[j].st # "pending" BY <1>2, <1>5, <1>7 DEF Dispatches, CommandsOf
    <3>5. \A c \in Cards(att', n) : Held(att'[c]) => c = card
      BY <1>2, <1>9, <1>11 DEF Cards
    <3>6. cards + 1 # 0 /\ <<n, (cards + 1) - 1>> = card BY <1>2, <3>2
    <3> QED BY <1>2, <1>5, <1>7, <1>12, <2>1, <3>3, <3>4, <3>5, <3>6
  <2>2. CASE m # n
    <3>1. m \in DOMAIN wf.node /\ wf'.node[m] = wf.node[m] /\ Cards(att', m) = Cards(att, m) BY <1>5, <1>11, <1>15, <2>2
    <3>2. \A j \in Dispatches(wf, m) : wf'.cmd[j] = wf.cmd[j] BY <1>5, <2>2 DEF Dispatches, CommandsOf
    <3>3. \A c \in Cards(att, m) : att'[c] = att[c] BY <1>9 DEF Cards
    <3> QED BY <1>1, <1>7, <3>1, <3>2, <3>3 DEF Paired
  <2> QED BY <2>1, <2>2
<1>16. Paired(wf', att') BY <1>14, <1>15 DEF Paired
<1> QED BY <1>6, <1>16 DEF IInv

\* A round whose own attempt was never made is the last one, and may be queued again.
LEMMA RequeuedRound ==
    ASSUME IInv, NEW k \in DOMAIN wf.cmd, k[2] = "dispatch",
           LET c == wf.node[k[1]].card IN c = <<>> \/ (c # <<>> /\ c[2] < k[3])
    PROVE  Good(SetCommand(wf, k, "pending")) /\ Paired(SetCommand(wf, k, "pending"), att)
<1> DEFINE n == k[1]
           cards == Cardinality(Cards(att, n))
           rounds == Cardinality(Dispatches(wf, n))
           v == SetCommand(wf, k, "pending")
<1>1. Good(wf) /\ Paired(wf, att) BY DEF IInv
<1>2. n \in DOMAIN wf.node /\ k \in Dispatches(wf, n) BY <1>1 DEF Good, Ready, Dispatches, CommandsOf
<1>3. /\ IsFiniteSet(Cards(att, n)) /\ cards <= rounds /\ rounds <= cards + 1
      /\ wf.node[n].card = IF cards = 0 THEN <<>> ELSE <<n, cards - 1>>
      /\ \A c \in Cards(att, n) : Held(att[c]) => rounds = cards
  BY <1>1, <1>2 DEF Paired
<1>4. /\ IsFiniteSet(Dispatches(wf, n))
      /\ \A j \in Dispatches(wf, n) : j = <<n, "dispatch", j[3]>> /\ j[3] \in Nat /\ j[3] < rounds
  BY <1>1, <1>2 DEF Good, Rounds
<1>5. cards \in Nat /\ rounds \in Nat BY <1>3, <1>4, FS_CardinalityType
<1>6. k[3] \in Nat /\ k[3] < rounds BY <1>2, <1>4
<1>7. k[3] = cards
  <2>1. CASE cards = 0 BY <1>3, <1>5, <1>6, <2>1
  <2>2. CASE cards # 0
    <3>1. wf.node[n].card = <<n, cards - 1>> BY <1>3, <2>2
    <3>2. wf.node[n].card # <<>> /\ wf.node[n].card[2] = cards - 1 BY <3>1
    <3> QED BY <1>3, <1>5, <1>6, <3>2
  <2> QED BY <2>1, <2>2
<1>8. rounds = cards + 1 /\ \A c \in Cards(att, n) : ~Held(att[c])
  BY <1>3, <1>5, <1>6, <1>7
<1>9. /\ DOMAIN wf = Fields
      /\ \A m \in DOMAIN wf.cmd : DOMAIN wf.cmd[m] = {"st", "base", "inc", "job"}
  BY <1>1 DEF Good, Shape
<1>10. /\ v.node = wf.node /\ DOMAIN v.cmd = DOMAIN wf.cmd
       /\ \A j \in DOMAIN wf.cmd : j # k => v.cmd[j] = wf.cmd[j]
  BY <1>9 DEF SetCommand, Fields
<1>11. Good(v) BY <1>1, SetCommandApplies
<1> HIDE DEF v
<1>12. \A m : Dispatches(v, m) = Dispatches(wf, m) BY <1>10 DEF Dispatches, CommandsOf
<1>13. \A m \in DOMAIN v.node : \A j \in Dispatches(v, m) : v.cmd[j].st = "pending" => j[3] = Cardinality(Cards(att, m))
  <2> SUFFICES ASSUME NEW m \in DOMAIN v.node, NEW j \in Dispatches(v, m), v.cmd[j].st = "pending"
               PROVE  j[3] = Cardinality(Cards(att, m))
    OBVIOUS
  <2>1. j \in DOMAIN wf.cmd /\ j[1] = m BY <1>10 DEF Dispatches, CommandsOf
  <2>2. CASE j = k BY <1>7, <2>1, <2>2
  <2>3. CASE j # k
    <3>1. m \in DOMAIN wf.node /\ j \in Dispatches(wf, m) /\ wf.cmd[j].st = "pending" BY <1>10, <1>12, <2>1, <2>3
    <3> HIDE DEF n, cards, rounds
    <3> QED BY <1>1, <3>1 DEF Paired
  <2> QED BY <2>2, <2>3
<1>14. Paired(v, att) BY <1>1, <1>10, <1>12, <1>13 DEF Paired
<1> QED BY <1>11, <1>14 DEF v

\* Another round is queued for a node whose rounds have all made their attempt
\* and whose last attempt has ended.
LEMMA NewRound ==
    ASSUME NEW v, NEW ats, Good(v), Paired(v, ats), NEW n \in DOMAIN v.node, n[2] # Review, Unblocked(v, n),
           Cardinality(Dispatches(v, n)) = Cardinality(Cards(ats, n)),
           \A c \in Cards(ats, n) : ~Held(ats[c])
    PROVE  Good(QueueCommand(v, n, "dispatch", n[1])) /\ Paired(QueueCommand(v, n, "dispatch", n[1]), ats)
<1> DEFINE cards == Cardinality(Cards(ats, n))
           k == <<n, "dispatch", Cardinality(CommandsOf(v, n, "dispatch"))>>
           f == [x \in {k} |-> Pending(n[1])]
           q == [v EXCEPT !.cmd = Merge(@, f)]
<1>1. QueueCommand(v, n, "dispatch", n[1]) = q BY DEF QueueCommand
<1>2. k[1] = n /\ k[2] = "dispatch" /\ k[3] = cards BY DEF Dispatches
<1>3. DOMAIN v = Fields BY DEF Good, Shape
<1>4. DOMAIN f = {k} /\ DOMAIN f[k] = {"st", "base", "inc", "job"} BY DEF Pending
<1>5. /\ IsFiniteSet(Dispatches(v, n)) /\ IsFiniteSet(Cards(ats, n))
      /\ \A j \in Dispatches(v, n) : j = <<n, "dispatch", j[3]>> /\ j[3] \in Nat /\ j[3] < cards
      /\ \A j \in Dispatches(v, n) : v.cmd[j].st = "pending" => j[3] = cards
  BY DEF Good, Rounds, Paired
<1>6. cards \in Nat BY <1>5, FS_CardinalityType
<1>7. k = <<n, "dispatch", cards>> BY DEF Dispatches
<1> HIDE DEF k, f
<1>8. k \notin DOMAIN v.cmd
  <2>1. k \notin Dispatches(v, n) BY <1>2, <1>5, <1>6
  <2> QED BY <1>2, <2>1 DEF Dispatches, CommandsOf
<1>9. /\ DOMAIN q = Fields /\ q.cmd = Merge(v.cmd, f)
      /\ q.plans = v.plans /\ q.freed = v.freed /\ q.node = v.node /\ q.deliv = v.deliv
  BY <1>3 DEF Fields
<1> HIDE DEF q
<1>10. /\ DOMAIN q.cmd = DOMAIN v.cmd \cup {k} /\ q.cmd[k] = f[k]
       /\ \A j \in DOMAIN v.cmd : q.cmd[j] = v.cmd[j]
  BY <1>4, <1>8, <1>9 DEF Merge
<1>11. \A m : Deps(q, m) = Deps(v, m) BY <1>9 DEF Deps
<1>12. \A m : Unblocked(q, m) = Unblocked(v, m) BY <1>9, <1>11 DEF Unblocked
<1>13. /\ Dispatches(q, n) = Dispatches(v, n) \cup {k}
       /\ \A m : m # n => Dispatches(q, m) = Dispatches(v, m)
  BY <1>2, <1>10 DEF Dispatches, CommandsOf
<1>14. IsFiniteSet(Dispatches(q, n)) /\ Cardinality(Dispatches(q, n)) = cards + 1
  <2>1. k \notin Dispatches(v, n) BY <1>8 DEF Dispatches, CommandsOf
  <2> QED BY <1>5, <1>13, <2>1, FS_AddElement
<1>15. Shape(q) BY <1>4, <1>9, <1>10 DEF Good, Shape
<1>16. Ready(q)
  <2>1. \A j \in DOMAIN q.cmd : /\ j[2] = "dispatch" => j[1] \in DOMAIN q.node /\ j[1][2] # Review /\ Unblocked(q, j[1])
                                /\ j[2] = "review" => j[1][2] = Review
    BY <1>2, <1>9, <1>10, <1>12 DEF Good, Ready
  <2>2. \A m \in q.freed : m \in DOMAIN q.node /\ m[2] # Review /\ Settled(q, m)
    BY <1>9 DEF Good, Ready, Settled, Optional
  <2> QED BY <2>1, <2>2 DEF Ready
<1>17. Deliveries(q) BY <1>9 DEF Good, Deliveries
<1>18. \A j \in Dispatches(q, n) : j = <<n, "dispatch", j[3]>> /\ j[3] \in Nat /\ j[3] < cards + 1
  BY <1>2, <1>5, <1>6, <1>7, <1>13
<1>19. Rounds(q)
  <2> SUFFICES ASSUME NEW m \in DOMAIN q.node
               PROVE  /\ IsFiniteSet(Dispatches(q, m))
                      /\ \A j \in Dispatches(q, m) :
                            j = <<m, "dispatch", j[3]>> /\ j[3] \in Nat /\ j[3] < Cardinality(Dispatches(q, m))
    BY DEF Rounds
  <2>1. CASE m = n BY <1>14, <1>18, <2>1
  <2>2. CASE m # n BY <1>9, <1>13, <2>2 DEF Good, Rounds
  <2> QED BY <2>1, <2>2
<1>20. \A c \in DOMAIN ats : DOMAIN ats[c] = {"life", "asked", "seen", "nested"} /\ c[1] \in DOMAIN q.node /\ (ats[c].asked => ats[c].life = "failed")
  BY <1>9 DEF Paired
<1>21. ASSUME NEW m \in DOMAIN q.node
       PROVE  LET rounds == Cardinality(Dispatches(q, m))
                  made == Cardinality(Cards(ats, m))
              IN  /\ IsFiniteSet(Cards(ats, m))
                  /\ \A c \in Cards(ats, m) : c = <<m, c[2]>> /\ c[2] \in Nat /\ c[2] < made
                  /\ made <= rounds /\ rounds <= made + 1
                  /\ q.node[m].card = IF made = 0 THEN <<>> ELSE <<m, made - 1>>
                  /\ \A j \in Dispatches(q, m) : q.cmd[j].st = "pending" => j[3] = made
                  /\ \A c \in Cards(ats, m) : Held(ats[c]) => c = q.node[m].card /\ rounds = made
  <2>1. CASE m = n
    <3>1. \A j \in Dispatches(q, n) : q.cmd[j].st = "pending" => j[3] = cards
      BY <1>2, <1>5, <1>10, <1>13 DEF Dispatches, CommandsOf
    <3>2. /\ \A c \in Cards(ats, n) : c = <<n, c[2]>> /\ c[2] \in Nat /\ c[2] < cards
          /\ q.node[n].card = IF cards = 0 THEN <<>> ELSE <<n, cards - 1>>
      BY <1>9 DEF Paired
    <3> QED BY <1>5, <1>6, <1>14, <2>1, <3>1, <3>2
  <2>2. CASE m # n
    <3>1. \A j \in Dispatches(v, m) : q.cmd[j] = v.cmd[j] BY <1>10 DEF Dispatches, CommandsOf
    <3> QED BY <1>9, <1>13, <1>21, <2>2, <3>1 DEF Paired
  <2> QED BY <2>1, <2>2
<1>22. Paired(q, ats) BY <1>20, <1>21 DEF Paired
<1> QED BY <1>1, <1>15, <1>16, <1>17, <1>19, <1>22 DEF Good

\* The steps of a dispatch command: its attempt is created, or is not.
LEMMA DrainDispatchStep ==
    ASSUME IInv, NEW k \in DOMAIN wf.cmd, DrainDispatch(k)
    PROVE  IInv'
<1> DEFINE n == k[1]
           v == [wf EXCEPT !.cmd[k].st = "claimed"]
<1>1. Good(wf) /\ wf.cmd[k].st = "pending" /\ k[2] = "dispatch" BY DEF IInv, DrainDispatch
<1>2. \/ Open(wf, n) /\ StartChild(k)
      \/ Open(wf, n) /\ wf' = [wf EXCEPT !.cmd[k].st = "claimed", !.node[n].st = "running"] /\ att' = att
      \/ wf' = SetCommand(wf, k, "done") /\ att' = att
  BY DEF DrainDispatch
<1>3. CASE Open(wf, n) /\ StartChild(k) BY <1>1, <1>3, StartChildStep
<1>4. CASE Open(wf, n) /\ wf' = [wf EXCEPT !.cmd[k].st = "claimed", !.node[n].st = "running"] /\ att' = att
  <2>1. Applies(wf, v) BY <1>1, ClaimApplies
  <2>2. v.freed = wf.freed BY <1>1 DEF Good, Shape, Fields
  <2>3. n \notin wf.freed BY <1>1, <1>4, FreedIsClosed
  <2>4. wf' = SetNode(v, n, "running") BY <1>4 DEF SetNode
  <2> HIDE DEF v
  <2>5. Applies(v, SetNode(v, n, "running")) BY <2>1, <2>2, <2>3, SetNodeApplies DEF Applies
  <2>6. Applies(wf, wf') BY <2>1, <2>4, <2>5, AppliesTrans
  <2> QED BY <1>4, <2>6, RowsStep
<1>5. CASE wf' = SetCommand(wf, k, "done") /\ att' = att
  <2>1. Applies(wf, wf') BY <1>1, <1>5, SetCommandApplies
  <2> QED BY <1>5, <2>1, RowsStep
<1> QED BY <1>2, <1>3, <1>4, <1>5

-----------------------------------------------------------------------------
(* The steps of the model jobs.                                            *)

\* A model returns its plan or verdict, or fails to.
LEMMA ModelJobStep ==
    ASSUME IInv, NEW k \in DOMAIN wf.cmd,
           \/ \E p \in Plans : PlanProposed(k, p)
           \/ PlanRoundFails(k) \/ ReviewReturns(k) \/ DeadlinePasses(k)
    PROVE  IInv'
<1>1. Good(wf) /\ att' = att BY DEF IInv, PlanProposed, PlanRoundFails, ReviewReturns, DeadlinePasses
<1>2. \A j : Applies(wf, [wf EXCEPT !.cmd[k].job = j]) BY <1>1, ClaimApplies
<1>3. ASSUME NEW p \in Plans, PlanProposed(k, p) PROVE IInv'
  <2> DEFINE author == IF k[1][2] \in Labels THEN k[1] ELSE <<>>
             v == AdmitRevision(wf, p, author)
  <2>1. wf' = [wf EXCEPT !.cmd[k].job = "none"] \/ Commit(SetCommand(v, k, "done")) BY <1>3 DEF PlanProposed
  <2>2. Applies(wf, v) BY <1>1, AdmitRevisionApplies
  <2> HIDE DEF v
  <2>3. Applies(v, SetCommand(v, k, "done")) BY <2>2, SetCommandApplies DEF Applies
  <2>4. Applies(wf, SetCommand(v, k, "done")) BY <2>2, <2>3, AppliesTrans
  <2>5. CASE Commit(SetCommand(v, k, "done")) BY <1>1, <2>4, <2>5, RowsStep
  <2>6. CASE wf' = [wf EXCEPT !.cmd[k].job = "none"]
    <3>1. Applies(wf, wf') BY <1>2, <2>6
    <3> QED BY <1>1, <3>1, RowsStep
  <2> QED BY <2>1, <2>5, <2>6
<1>4. CASE PlanRoundFails(k)
  <2>1. Commit(RejectPlanRound(wf, k)) BY <1>4 DEF PlanRoundFails
  <2>2. Applies(wf, RejectPlanRound(wf, k)) BY <1>1, RejectPlanRoundApplies
  <2> QED BY <1>1, <2>1, <2>2, RowsStep
<1>5. CASE ReviewReturns(k)
  <2>1. /\ k[2] = "review"
        /\ \/ wf' = [wf EXCEPT !.cmd[k].job = "none"]
           \/ Commit(Accept(wf, k)) \/ Commit(RejectReview(wf, k))
           \/ Commit(ChangesRequired(wf, k)) \/ Commit(MalformedVerdict(wf, k))
    BY <1>5 DEF ReviewReturns, Owned
  <2>2. /\ Applies(wf, Accept(wf, k)) /\ Applies(wf, RejectReview(wf, k))
        /\ Applies(wf, ChangesRequired(wf, k)) /\ Applies(wf, MalformedVerdict(wf, k))
    BY <1>1, <2>1, AcceptApplies, RejectReviewApplies, RepairApplies
  <2>3. CASE wf' = [wf EXCEPT !.cmd[k].job = "none"]
    <3>1. Applies(wf, wf') BY <1>2, <2>3
    <3> QED BY <1>1, <3>1, RowsStep
  <2>4. CASE wf' # [wf EXCEPT !.cmd[k].job = "none"] BY <1>1, <2>1, <2>2, <2>4, RowsStep
  <2> QED BY <2>3, <2>4
<1>6. CASE DeadlinePasses(k)
  <2>1. wf' = [wf EXCEPT !.cmd[k].job = "expired"] BY <1>6 DEF DeadlinePasses
  <2>2. Applies(wf, wf') BY <1>2, <2>1
  <2> QED BY <1>1, <2>2, RowsStep
<1> QED BY <1>3, <1>4, <1>5, <1>6

\* Fencing turns live attempts into cancelled ones that are still live.
LEMMA FenceStep ==
    ASSUME IInv, NEW w, Applies(wf, w), Commit(w) \/ wf' = w, att' = Fence(att)
    PROVE  IInv'
<1>1. \A c \in DOMAIN att : DOMAIN att[c] = {"life", "asked", "seen", "nested"} /\ (att[c].asked => att[c].life = "failed")
  BY DEF IInv, Paired
<1>2. DOMAIN att' = DOMAIN att /\ \A c \in DOMAIN att :
         att'[c] = IF att[c].life \in {"pending", "running"} THEN [att[c] EXCEPT !.life = "cancel_requested"] ELSE att[c]
  BY DEF Fence
<1>3. \A c \in DOMAIN att :
         /\ DOMAIN att'[c] = {"life", "asked", "seen", "nested"}
         /\ att'[c].asked => att'[c].life = "failed"
         /\ Held(att'[c]) => Held(att[c])
  <2> TAKE c \in DOMAIN att
  <2>1. CASE att[c].life \in {"pending", "running"}
    <3>1. att'[c] = [att[c] EXCEPT !.life = "cancel_requested"] BY <1>2, <2>1
    <3>2. DOMAIN att'[c] = {"life", "asked", "seen", "nested"} /\ att'[c].asked = att[c].asked /\ att'[c].nested = att[c].nested BY <1>1, <3>1
    <3>3. ~att[c].asked BY <1>1, <2>1
    <3> QED BY <2>1, <3>2, <3>3 DEF Held, LiveAttempt
  <2>2. CASE att[c].life \notin {"pending", "running"} BY <1>1, <1>2, <2>2
  <2> QED BY <2>1, <2>2
<1>4. CASE Commit(w) BY <1>2, <1>3, <1>4, ApplierStep
<1>5. CASE wf' = w
  <2>1. Applies(wf, wf') BY <1>5
  <2>2. Paired(wf', att') BY <1>2, <1>3, <2>1, PairedKept DEF IInv
  <2> QED BY <2>1, <2>2 DEF IInv, Applies
<1> QED BY <1>4, <1>5

\* The run ends with what is open in it: a lost model job, a cancel, a restart.
LEMMA EndingStep ==
    ASSUME IInv, RequestCancel \/ Restart \/ \E k \in DOMAIN wf.cmd : ModelJobLost(k)
    PROVE  IInv'
<1>1. Good(wf) /\ att' = Fence(att) BY DEF IInv, RequestCancel, Restart, ModelJobLost
<1>2. ASSUME NEW st PROVE Applies(wf, [CancelRows(wf) EXCEPT !.state = st])
  <2> DEFINE v == CancelRows(wf)
  <2>1. Applies(wf, v) BY <1>1, CancelRowsApplies
  <2> HIDE DEF v
  <2>2. Applies(v, [v EXCEPT !.state = st]) BY <2>1, StateApplies DEF Applies
  <2>3. Applies(wf, [v EXCEPT !.state = st]) BY <2>1, <2>2, AppliesTrans
  <2> QED BY <2>3 DEF v
<1>3. CASE RequestCancel
  <2>1. Commit([CancelRows(wf) EXCEPT !.state = "cancelled"]) BY <1>3 DEF RequestCancel
  <2> QED BY <1>1, <1>2, <2>1, FenceStep
<1>4. CASE Restart
  <2>1. wf' = [CancelRows(wf) EXCEPT !.state = "failed"] BY <1>4 DEF Restart
  <2> QED BY <1>1, <1>2, <2>1, FenceStep
<1>5. ASSUME NEW k \in DOMAIN wf.cmd, ModelJobLost(k) PROVE IInv'
  <2>1. Commit(FailModelJob(wf, k)) BY <1>5 DEF ModelJobLost
  <2>2. Applies(wf, FailModelJob(wf, k)) BY <1>1, FailModelJobApplies
  <2> QED BY <1>1, <2>1, <2>2, FenceStep
<1> QED BY <1>3, <1>4, <1>5

-----------------------------------------------------------------------------
(* The steps of the workers and of their settlement.                       *)

\* Attempts that end, or answer, while the rows stay.
LEMMA WorkerStep ==
    ASSUME IInv, NEW c \in DOMAIN att,
           \/ WorkerStarts(c) \/ AnswerRetry(c) \/ AutoRetry(c) \/ WorkerAsks(c)
           \/ \E life \in EndedAttempt : HookContained(c, life)
    PROVE  IInv'
<1>1. \A d \in DOMAIN att : DOMAIN att[d] = {"life", "asked", "seen", "nested"} /\ (att[d].asked => att[d].life = "failed")
  BY DEF IInv, Paired
<1>2. wf' = wf BY DEF WorkerStarts, AnswerRetry, AutoRetry, WorkerAsks, HookContained
<1>3. \/ att[c].life = "pending" /\ att' = [att EXCEPT ![c].life = "running"]
      \/ att[c].asked /\ att' = [att EXCEPT ![c] = NewAttempt(att[c].nested)]
      \/ att' = [att EXCEPT ![c] = NewAttempt(TRUE)]
      \/ att[c].life = "running" /\ att' = [att EXCEPT ![c].life = "failed", ![c].asked = TRUE]
      \/ att[c].life = "running" /\ \E life \in EndedAttempt : att' = [att EXCEPT ![c].life = life]
  BY DEF WorkerStarts, AnswerRetry, AutoRetry, WorkerAsks, HookContained
<1>4. DOMAIN att' = DOMAIN att /\ \A d \in DOMAIN att : d # c => att'[d] = att[d] BY <1>3
<1>5. /\ DOMAIN att'[c] = {"life", "asked", "seen", "nested"}
      /\ att'[c].asked => att'[c].life = "failed"
      /\ Held(att'[c]) => Held(att[c])
  <2>1. CASE att[c].life = "pending" /\ att' = [att EXCEPT ![c].life = "running"]
    BY <1>1, <2>1 DEF LiveAttempt, Held
  <2>2. CASE att[c].asked /\ att' = [att EXCEPT ![c] = NewAttempt(att[c].nested)]
    BY <2>2 DEF NewAttempt, Held
  <2>5. CASE att' = [att EXCEPT ![c] = NewAttempt(TRUE)]
    BY <2>5 DEF NewAttempt, Held
  <2>3. CASE att[c].life = "running" /\ att' = [att EXCEPT ![c].life = "failed", ![c].asked = TRUE]
    BY <1>1, <2>3 DEF LiveAttempt, Held
  <2>4. ASSUME att[c].life = "running", NEW life \in EndedAttempt, att' = [att EXCEPT ![c].life = life]
        PROVE  /\ DOMAIN att'[c] = {"life", "asked", "seen", "nested"}
               /\ att'[c].asked => att'[c].life = "failed"
               /\ Held(att'[c]) => Held(att[c])
    BY <1>1, <2>4 DEF LiveAttempt, EndedAttempt, Held
  <2> QED BY <1>3, <2>1, <2>2, <2>3, <2>4, <2>5
<1>6. \A d \in DOMAIN att :
         /\ DOMAIN att'[d] = {"life", "asked", "seen", "nested"}
         /\ att'[d].asked => att'[d].life = "failed"
         /\ Held(att'[d]) => Held(att[d])
  BY <1>1, <1>4, <1>5
<1>7. Applies(wf, wf) BY AppliesNothing DEF IInv
<1>8. Paired(wf, att') BY <1>4, <1>6, <1>7, PairedKept DEF IInv
<1> QED BY <1>2, <1>8 DEF IInv

\* What becomes of an ended attempt: an applier's step, or another round of its node.
LEMMA OutcomeApplies ==
    ASSUME IInv, NEW c, c[1] \in DOMAIN wf.node, c[1][2] # Review, NEW a, NEW retrySafe \in BOOLEAN
    PROVE  \/ Applies(wf, ApplyOutcome(c, a, retrySafe))
           \/ /\ retrySafe /\ RunnerManaged(c)
              /\ \E v : Applies(wf, v) /\ ApplyOutcome(c, a, retrySafe) = QueueCommand(v, c[1], "dispatch", c[1][1])
<1>1. Good(wf) BY DEF IInv
<1>2. CASE ~Live(wf) \/ ~Open(wf, c[1]) \/ ~Bound(c) \/ a.seen
  BY <1>1, <1>2, AppliesNothing DEF ApplyOutcome, NodeOf
<1>3. CASE ~(~Live(wf) \/ ~Open(wf, c[1]) \/ ~Bound(c) \/ a.seen)
  <2>1. ApplyOutcome(c, a, retrySafe) = IF a.life = "accepted" THEN SucceedNode(wf, c[1]) ELSE FailNode(wf, c[1], retrySafe)
    BY <1>3 DEF ApplyOutcome, NodeOf
  <2>2. Applies(wf, SucceedNode(wf, c[1])) BY <1>1, <1>3, SucceedNodeApplies
  <2>3. \/ Applies(wf, FailNode(wf, c[1], retrySafe))
        \/ retrySafe /\ \E v : Applies(wf, v) /\ FailNode(wf, c[1], retrySafe) = QueueCommand(v, c[1], "dispatch", c[1][1])
    BY <1>1, <1>3, FailNodeApplies
  <2>4. RunnerManaged(c) BY <1>3 DEF RunnerManaged, Terminal, TerminalStates, Live, LiveStates
  <2> QED BY <2>1, <2>2, <2>3, <2>4
<1> QED BY <1>2, <1>3

\* The settlement of an attempt, with its retry.
LEMMA WorkerEndsStep ==
    ASSUME IInv, Nested(wf, att), NEW c \in DOMAIN att, NEW life \in EndedAttempt, NEW retrySafe \in BOOLEAN,
           WorkerEnds(c, life, retrySafe)
    PROVE  IInv'
<1> DEFINE n == c[1]
           a == [att[c] EXCEPT !.life = life]
           w == ApplyOutcome(c, a, retrySafe)
<1>1. Good(wf) /\ Paired(wf, att) BY DEF IInv
<1>2. att[c].life \in LiveAttempt /\ Commit(w) BY DEF WorkerEnds, LiveAttempt
<1>3. att' = [att EXCEPT ![c].life = life, ![c].seen = Live(wf) /\ Open(wf, NodeOf(c)) /\ Bound(c)] BY DEF WorkerEnds
<1>4. \A d \in DOMAIN att : DOMAIN att[d] = {"life", "asked", "seen", "nested"} /\ (att[d].asked => att[d].life = "failed")
  BY <1>1 DEF Paired
<1>5. ~att[c].asked BY <1>2, <1>4 DEF LiveAttempt
<1>6. /\ DOMAIN att' = DOMAIN att /\ \A d \in DOMAIN att : d # c => att'[d] = att[d]
      /\ DOMAIN att'[c] = {"life", "asked", "seen", "nested"} /\ att'[c].life = life /\ att'[c].asked = att[c].asked
      /\ att'[c].nested = att[c].nested
  BY <1>3, <1>4
<1>7. life \notin LiveAttempt BY DEF LiveAttempt, EndedAttempt
<1>8. \A d \in DOMAIN att :
         /\ DOMAIN att'[d] = {"life", "asked", "seen", "nested"}
         /\ att'[d].asked => att'[d].life = "failed"
         /\ Held(att'[d]) => d # c /\ Held(att[d])
  BY <1>4, <1>5, <1>6, <1>7 DEF Held
<1>9. \/ Applies(wf, w)
      \/ RunnerManaged(c) /\ \E v : Applies(wf, v) /\ w = QueueCommand(v, n, "dispatch", n[1])
  BY <1>1, CardsAreWork, OutcomeApplies
<1> HIDE DEF w, a
<1>10. CASE Applies(wf, w) BY <1>2, <1>6, <1>8, <1>10, ApplierStep
<1>11. ASSUME RunnerManaged(c), NEW v, Applies(wf, v), w = QueueCommand(v, n, "dispatch", n[1]) PROVE IInv'
  <2>1. Good(v) /\ Extends(wf, v) BY <1>11 DEF Applies
  <2>2. Paired(v, att') BY <1>1, <1>6, <1>8, <1>11, PairedKept
  <2>3. /\ n \in DOMAIN wf.node /\ n[2] # Review /\ c \in Cards(att, n)
        /\ n \in DOMAIN v.node /\ Unblocked(v, n) /\ c \in DOMAIN att'
    <3>1. n \in DOMAIN wf.node /\ n[2] # Review BY <1>1, CardsAreWork
    <3>2. c \in DOMAIN att' BY <1>6
    <3>3. n \in DOMAIN v.node /\ Unblocked(v, n) BY <2>1, <2>2, <3>2, CardsAreWork
    <3> QED BY <3>1, <3>2, <3>3 DEF Cards
  <2>4. /\ Cardinality(Dispatches(wf, n)) = Cardinality(Cards(att, n))
        /\ \A d \in Cards(att, n) : Held(att[d]) => d = c
    <3>1. \A d \in Cards(att, n) : Held(att[d]) =>
             d = wf.node[n].card /\ Cardinality(Dispatches(wf, n)) = Cardinality(Cards(att, n))
      BY <1>1, <2>3 DEF Paired
    <3>2. ~att[c].nested BY <1>11 DEF Nested, RunnerManaged, Bound, NodeOf
    <3>3. Held(att[c]) BY <1>2, <3>2 DEF Held
    <3> QED BY <2>3, <3>1, <3>3
  <2>5. Dispatches(v, n) = Dispatches(wf, n)
    <3>1. Dispatches(wf, n) # {}
      <4>1. IsFiniteSet(Cards(att, n)) BY <1>1, <2>3 DEF Paired
      <4>2. Cardinality(Cards(att, n)) # 0 BY <2>3, <4>1, FS_EmptySet
      <4> QED BY <2>4, <4>2, FS_EmptySet
    <3> QED BY <2>1, <2>3, <3>1 DEF Extends, SameRounds, FirstRound
  <2>6. Cards(att', n) = Cards(att, n) BY <1>6 DEF Cards
  <2>7. \A d \in Cards(att', n) : ~Held(att'[d])
    <3> SUFFICES ASSUME NEW d \in Cards(att', n), Held(att'[d]) PROVE FALSE
      OBVIOUS
    <3>1. d \in DOMAIN att BY <2>6 DEF Cards
    <3> QED BY <1>8, <2>4, <2>6, <3>1
  <2>8. Good(w) /\ Paired(w, att') BY <1>11, <2>1, <2>2, <2>3, <2>4, <2>5, <2>6, <2>7, NewRound
  <2>9. Applies(w, wf') BY <1>2, <2>8, CommitApplies
  <2>10. Paired(wf', att')
    <3>1. \A d \in DOMAIN att' : DOMAIN att'[d] = {"life", "asked", "seen", "nested"} /\ (att'[d].asked => att'[d].life = "failed")
      BY <1>6, <1>8
    <3> QED BY <2>8, <2>9, <3>1, PairedKept
  <2> QED BY <2>9, <2>10 DEF IInv, Applies
<1> QED BY <1>9, <1>10, <1>11

\* The audit applies a completion that the hook lost.
LEMMA RecoverStep ==
    ASSUME IInv, NEW c \in DOMAIN att, RecoverCompletion(c)
    PROVE  IInv'
<1> DEFINE w == ApplyOutcome(c, att[c], FALSE)
<1>1. Commit(w) /\ att' = [att EXCEPT ![c].seen = TRUE] BY DEF RecoverCompletion
<1>2. \A d \in DOMAIN att : DOMAIN att[d] = {"life", "asked", "seen", "nested"} /\ (att[d].asked => att[d].life = "failed")
  BY DEF IInv, Paired
<1>3. Applies(wf, w) BY CardsAreWork, OutcomeApplies DEF IInv
<1>4. DOMAIN att' = DOMAIN att /\ \A d \in DOMAIN att :
         DOMAIN att'[d] = {"life", "asked", "seen", "nested"} /\ att'[d].life = att[d].life /\ att'[d].asked = att[d].asked
         /\ att'[d].nested = att[d].nested
  BY <1>1, <1>2
<1> HIDE DEF w
<1> QED BY <1>1, <1>2, <1>3, <1>4, ApplierStep DEF Held

\* The inspection of a dispatch claim.
LEMMA InspectDispatchStep ==
    ASSUME IInv, NEW k \in DOMAIN wf.cmd, InspectDispatch(k)
    PROVE  IInv'
<1> DEFINE n == k[1]
           c == wf.node[n].card
           moot == n[1] # Rev(wf) \/ ~Open(wf, n)
           ended(lives) == ~moot /\ c # <<>> /\ att[c].life \in lives
           o == ApplyOutcome(c, att[c], FALSE)
           f == FailInspected(wf, n)
           p == SetCommand(wf, k, "pending")
<1>1. Good(wf) /\ Paired(wf, att) /\ k[2] = "dispatch" BY DEF IInv, InspectDispatch
<1>2. n \in DOMAIN wf.node BY <1>1 DEF Good, Ready
<1>3. \/ Commit(SetCommand(wf, k, "done")) /\ att' = att
      \/ (c = <<>> \/ (c # <<>> /\ c[2] < k[3])) /\ Commit(p) /\ att' = att
      \/ c # <<>> /\ Commit(SetCommand(o, k, "done")) /\ att' = [att EXCEPT ![c].seen = TRUE]
      \/ ~moot /\ Commit(SetCommand(f, k, "done")) /\ att' = att
      \/ ~moot /\ Commit(Inconclusive(k)) /\ att' = att
  BY DEF InspectDispatch
<1>4. ~moot => n \notin wf.freed BY <1>1, FreedIsClosed
<1>5. CASE Commit(SetCommand(wf, k, "done")) /\ att' = att
  <2>1. Applies(wf, SetCommand(wf, k, "done")) BY <1>1, SetCommandApplies
  <2> QED BY <1>5, <2>1, RowsStep
<1>6. CASE (c = <<>> \/ (c # <<>> /\ c[2] < k[3])) /\ Commit(p) /\ att' = att
  <2>1. Good(p) /\ Paired(p, att) BY <1>1, <1>6, RequeuedRound
  <2> HIDE DEF p
  <2>2. Applies(p, wf') BY <1>6, <2>1, CommitApplies
  <2>3. \A d \in DOMAIN att : DOMAIN att[d] = {"life", "asked", "seen", "nested"} /\ (att[d].asked => att[d].life = "failed")
    BY <1>1 DEF Paired
  <2>4. Paired(wf', att') BY <1>6, <2>1, <2>2, <2>3, PairedKept
  <2> QED BY <2>2, <2>4 DEF IInv, Applies
<1>7. CASE c # <<>> /\ Commit(SetCommand(o, k, "done")) /\ att' = [att EXCEPT ![c].seen = TRUE]
  <2>1. \A d \in DOMAIN att : DOMAIN att[d] = {"life", "asked", "seen", "nested"} /\ (att[d].asked => att[d].life = "failed")
    BY <1>1 DEF Paired
  <2>2. c[1] = n
    <3>1. c = <<n, Cardinality(Cards(att, n)) - 1>> BY <1>1, <1>2, <1>7 DEF Paired
    <3> QED BY <3>1
  <2>3. Applies(wf, o)
    <3>1. n[2] # Review BY <1>1 DEF Good, Ready
    <3> QED BY <1>2, <2>2, <3>1, OutcomeApplies
  <2> HIDE DEF o
  <2>4. Applies(o, SetCommand(o, k, "done")) BY <2>3, SetCommandApplies DEF Applies
  <2>5. Applies(wf, SetCommand(o, k, "done")) BY <2>3, <2>4, AppliesTrans
  <2>6. DOMAIN att' = DOMAIN att /\ \A d \in DOMAIN att :
           DOMAIN att'[d] = {"life", "asked", "seen", "nested"} /\ att'[d].life = att[d].life /\ att'[d].asked = att[d].asked
           /\ att'[d].nested = att[d].nested
    BY <1>7, <2>1
  <2> QED BY <1>7, <2>1, <2>5, <2>6, ApplierStep DEF Held
<1>8. CASE ~moot /\ Commit(SetCommand(f, k, "done")) /\ att' = att
  <2> DEFINE s == SetNode(wf, n, "failed")
  <2>1. Applies(wf, s) BY <1>1, <1>4, <1>8, SetNodeApplies
  <2>2. f = Evaluate(s, Rev(wf)) BY DEF FailInspected
  <2> HIDE DEF s, f
  <2>3. Applies(s, f) BY <2>1, <2>2, StateApplies DEF Applies
  <2>4. Applies(f, SetCommand(f, k, "done")) BY <2>3, SetCommandApplies DEF Applies
  <2>5. Applies(wf, f) BY <2>1, <2>3, AppliesTrans
  <2>6. Applies(wf, SetCommand(f, k, "done")) BY <2>4, <2>5, AppliesTrans
  <2> QED BY <1>8, <2>6, RowsStep
<1>9. CASE ~moot /\ Commit(Inconclusive(k)) /\ att' = att
  <2> DEFINE s == SetNode(wf, n, "failed")
             i == [wf EXCEPT !.cmd[k].inc = @ + 1]
  <2>1. Inconclusive(k) \in {i, [s EXCEPT !.state = "failed"]} BY DEF Inconclusive
  <2>2. Applies(wf, i)
    <3>1. \E x : i = [wf EXCEPT !.cmd[k].inc = x] OBVIOUS
    <3> QED BY <1>1, <3>1, ClaimApplies
  <2>3. Applies(wf, s) BY <1>1, <1>4, <1>9, SetNodeApplies
  <2> HIDE DEF s, i
  <2>4. Applies(s, [s EXCEPT !.state = "failed"]) BY <2>3, StateApplies DEF Applies
  <2>5. Applies(wf, [s EXCEPT !.state = "failed"]) BY <2>3, <2>4, AppliesTrans
  <2>6. Applies(wf, Inconclusive(k)) BY <2>1, <2>2, <2>5
  <2> QED BY <1>9, <2>6, RowsStep
<1> QED BY <1>3, <1>5, <1>6, <1>7, <1>8, <1>9

-----------------------------------------------------------------------------
(* The theorems.                                                           *)

\* Admission, readmission and the plan of an incident.
LEMMA AdmissionStep ==
    ASSUME IInv, Admit \/ AdmitWithoutPlan \/ Readmit \/ AdmitSha
    PROVE  IInv'
<1> DEFINE i == InitialPlan(wf)
<1>1. Good(wf) /\ att' = att BY DEF IInv, Admit, AdmitWithoutPlan, Readmit, AdmitSha
<1>2. Applies(wf, i) BY <1>1, InitialPlanApplies
<1>3. CASE Admit \/ Readmit
  <2>1. Commit(i) BY <1>3 DEF Admit, Readmit
  <2> QED BY <1>1, <1>2, <2>1, RowsStep
<1>4. CASE AdmitWithoutPlan
  <2>1. Commit([wf EXCEPT !.state = "admitted"]) BY <1>4 DEF AdmitWithoutPlan
  <2>2. Applies(wf, [wf EXCEPT !.state = "admitted"]) BY <1>1, StateApplies
  <2> QED BY <1>1, <2>1, <2>2, RowsStep
<1>5. CASE AdmitSha
  <2>1. Commit(AdmitRevision(i, ShaPlan, <<>>)) BY <1>5 DEF AdmitSha
  <2> HIDE DEF i
  <2>2. Applies(i, AdmitRevision(i, ShaPlan, <<>>)) BY <1>2, AdmitRevisionApplies DEF Applies
  <2>3. Applies(wf, AdmitRevision(i, ShaPlan, <<>>)) BY <1>2, <2>2, AppliesTrans
  <2> QED BY <1>1, <2>1, <2>3, RowsStep
<1> QED BY <1>3, <1>4, <1>5

\* A run begins without rows.
LEMMA InitIInv == Init => IInv
<1> SUFFICES ASSUME Init PROVE IInv
  OBVIOUS
<1>1. wf = Absent /\ att = <<>> BY DEF Init
<1>2. /\ DOMAIN Absent = Fields
      /\ Absent.plans = <<>> /\ Absent.node = <<>> /\ Absent.freed = {} /\ Absent.cmd = <<>> /\ Absent.deliv = <<>>
  BY DEF Absent, Fields
<1>3. DOMAIN <<>> = {} /\ <<>> \in Seq(Plans \cup {ShaPlan}) OBVIOUS
<1>4. Good(wf) BY <1>1, <1>2, <1>3 DEF Good, Shape, Ready, Deliveries, Rounds
<1>5. Paired(wf, att) BY <1>1, <1>2, <1>3 DEF Paired
<1> QED BY <1>4, <1>5 DEF IInv

\* Every step keeps the invariant.
LEMMA NextIInv == KInv /\ [Next]_vars => IInv'
<1> SUFFICES ASSUME IInv, Nested(wf, att), [Next]_vars PROVE IInv'
  BY DEF KInv
<1>1. CASE Admit \/ AdmitWithoutPlan \/ Readmit \/ AdmitSha BY <1>1, AdmissionStep
<1>2. CASE Drain BY <1>2, DrainDispatchStep, DrainModelJobStep, DrainDeliverStep DEF Drain
<1>3. CASE ModelJobs BY <1>3, ModelJobStep DEF ModelJobs
<1>4. CASE Inspect BY <1>4, InspectDispatchStep, EndingStep DEF Inspect
<1>5. CASE Workers BY <1>5, WorkerStep, WorkerEndsStep DEF Workers
<1>6. CASE Recover BY <1>6, RecoverStep DEF Recover
<1>7. CASE \E k \in DOMAIN wf.cmd : DeadlinePasses(k) BY <1>7, ModelJobStep
<1>8. CASE RequestCancel \/ Restart BY <1>8, EndingStep
<1>9. CASE ProjectTerminal \/ UNCHANGED vars
  <2>1. wf' = wf /\ att' = att BY <1>9 DEF ProjectTerminal, vars
  <2>2. Applies(wf, wf) BY AppliesNothing DEF IInv
  <2> QED BY <2>1, <2>2, RowsStep
<1> QED BY <1>1, <1>2, <1>3, <1>4, <1>5, <1>6, <1>7, <1>8, <1>9 DEF Next

\* Nothing that is still under way when a run ends changes its end.
LEMMA TerminalStep ==
    ASSUME IInv, Terminal(wf), [Next]_vars
    PROVE  wf'.state = wf.state /\ DOMAIN att' = DOMAIN att /\ Rev(wf') = Rev(wf)
<1>1. Good(wf) /\ DOMAIN wf = Fields BY DEF IInv, Good, Shape
<1>2. ~Live(wf) /\ wf.state \notin {"none", "admitted"} BY DEF Terminal, TerminalStates, Live, LiveStates
<1> DEFINE Ended(w) == w.state = wf.state /\ w.plans = wf.plans
<1>3. SUFFICES Ended(wf') /\ DOMAIN att' = DOMAIN att
  BY <1>3 DEF Rev
<1>4. ASSUME NEW w, Good(w), Ended(w), Commit(w) PROVE Ended(wf')
  BY <1>4, CommitApplies
<1>5. ASSUME NEW k \in DOMAIN wf.cmd, DrainDispatch(k) PROVE Ended(wf') /\ DOMAIN att' = DOMAIN att
  <2>1. /\ wf' \in {SetCommand(wf, k, "done"), [wf EXCEPT !.cmd[k].st = "claimed", !.node[k[1]].st = "running"]}
        /\ att' = att
    BY <1>2, <1>5 DEF DrainDispatch
  <2> QED BY <1>1, <2>1 DEF SetCommand, Fields
<1>6. ASSUME NEW k \in DOMAIN wf.cmd, DrainModelJob(k) PROVE Ended(wf') /\ DOMAIN att' = DOMAIN att
  <2> DEFINE v == [wf EXCEPT !.cmd[k].st = "claimed", !.cmd[k].job = "active"]
  <2>1. wf' \in {v, SetNode(v, k[1], "running")} /\ att' = att BY <1>6 DEF DrainModelJob
  <2>2. DOMAIN v = Fields /\ v.state = wf.state /\ v.plans = wf.plans BY <1>1 DEF Fields
  <2> HIDE DEF v
  <2> QED BY <2>1, <2>2 DEF SetNode, Fields
<1>7. ASSUME NEW k \in DOMAIN wf.cmd, DrainDeliver(k) PROVE Ended(wf') /\ DOMAIN att' = DOMAIN att
  <2> DEFINE n == k[1]
             sent == SetCommand([wf EXCEPT !.deliv[n].tries = @ + 1], k, "done")
             resolved(out) == [sent EXCEPT !.deliv[n].out = out, !.deliv[n].sent = IF out = "failed" THEN @ ELSE @ + 1]
  <2>1. PICK w : /\ w \in {SetCommand(wf, k, "done"), resolved("acknowledged"), resolved("failed"), resolved("unknown"),
                           QueueCommand(sent, n, "deliver", wf.cmd[k].base)}
                 /\ Commit(w)
    BY <1>2, <1>7 DEF DrainDeliver
  <2>2. DOMAIN sent = Fields /\ Ended(sent) BY <1>1 DEF SetCommand, Fields
  <2>3. Ended(SetCommand(wf, k, "done")) BY <1>1 DEF SetCommand, Fields
  <2> HIDE DEF sent
  <2>4. \A out : Ended(resolved(out)) BY <2>2 DEF Fields
  <2>5. Ended(QueueCommand(sent, n, "deliver", wf.cmd[k].base)) BY <2>2 DEF QueueCommand, Fields
  <2>6. Ended(w)
    <3>1. Ended(resolved("acknowledged")) /\ Ended(resolved("failed")) /\ Ended(resolved("unknown")) BY <2>4
    <3> HIDE DEF resolved
    <3> QED BY <2>1, <2>3, <3>1, <2>5
  <2>7. wf' \in {w, [w EXCEPT !.cmd = [j \in DOMAIN @ |-> [@[j] EXCEPT !.job = "none"]]]} BY <2>1 DEF Commit
  <2>8. DOMAIN w = Fields
    <3>1. DOMAIN SetCommand(wf, k, "done") = Fields BY <1>1 DEF SetCommand
    <3>2. \A out : DOMAIN resolved(out) = Fields BY <2>2
    <3>3. DOMAIN QueueCommand(sent, n, "deliver", wf.cmd[k].base) = Fields BY <2>2 DEF QueueCommand
    <3> QED BY <2>1, <3>1, <3>2, <3>3
  <2>9. Ended(wf') BY <2>6, <2>7, <2>8 DEF Fields
  <2> QED BY <1>7, <2>9 DEF DrainDeliver
<1>8. ASSUME NEW k \in DOMAIN wf.cmd,
             DeadlinePasses(k) \/ PlanRoundFails(k) \/ ReviewReturns(k) \/ \E p \in Plans : PlanProposed(k, p)
      PROVE  Ended(wf') /\ DOMAIN att' = DOMAIN att
  <2>1. att' = att /\ \E j : wf' = [wf EXCEPT !.cmd[k].job = j]
    BY <1>2, <1>8 DEF DeadlinePasses, PlanRoundFails, ReviewReturns, PlanProposed
  <2> QED BY <1>1, <2>1 DEF Fields
<1>9. ASSUME NEW c \in DOMAIN att, NEW life \in EndedAttempt, NEW retrySafe \in BOOLEAN, WorkerEnds(c, life, retrySafe)
      PROVE  Ended(wf') /\ DOMAIN att' = DOMAIN att
  <2>1. Commit(wf) BY <1>2, <1>9 DEF WorkerEnds, ApplyOutcome
  <2>2. DOMAIN att' = DOMAIN att BY <1>9 DEF WorkerEnds
  <2> QED BY <1>1, <1>4, <2>1, <2>2
<1>10. ASSUME NEW c \in DOMAIN att,
              WorkerStarts(c) \/ AnswerRetry(c) \/ AutoRetry(c) \/ WorkerAsks(c) \/ \E life \in EndedAttempt : HookContained(c, life)
       PROVE  Ended(wf') /\ DOMAIN att' = DOMAIN att
  BY <1>10 DEF WorkerStarts, AnswerRetry, AutoRetry, WorkerAsks, HookContained
<1>11. ~(Admit \/ AdmitWithoutPlan \/ Readmit \/ AdmitSha \/ RequestCancel \/ Restart)
  BY <1>2 DEF Admit, AdmitWithoutPlan, Readmit, AdmitSha, RequestCancel, Restart
<1>12. ~Inspect /\ ~Recover BY <1>2 DEF Inspect, Recover, InspectDispatch, ModelJobLost, RecoverCompletion
<1>13. CASE Drain BY <1>5, <1>6, <1>7, <1>13 DEF Drain
<1>14. CASE ModelJobs BY <1>8, <1>14 DEF ModelJobs
<1>15. CASE Workers BY <1>9, <1>10, <1>15 DEF Workers
<1>16. CASE ProjectTerminal \/ UNCHANGED vars BY <1>16 DEF ProjectTerminal, vars
<1>17. CASE \E k \in DOMAIN wf.cmd : DeadlinePasses(k) BY <1>8, <1>17
<1> HIDE DEF Ended
<1> QED BY <1>11, <1>12, <1>13, <1>14, <1>15, <1>16, <1>17 DEF Next

\* The card of a node is that of an attempt.
LEMMA BoundCard ==
    ASSUME IInv, NEW n \in DOMAIN wf.node, wf.node[n].card # <<>>
    PROVE  wf.node[n].card \in DOMAIN att /\ wf.node[n].card[1] = n
<1> DEFINE S == Cards(att, n)
           cards == Cardinality(S)
           T == 0 .. (cards - 1)
           f == [c \in S |-> c[2]]
<1>1. /\ IsFiniteSet(S) /\ \A c \in S : c = <<n, c[2]>> /\ c[2] \in Nat /\ c[2] < cards
      /\ wf.node[n].card = IF cards = 0 THEN <<>> ELSE <<n, cards - 1>>
  BY DEF IInv, Paired
<1>2. cards \in Nat /\ cards # 0 BY <1>1, FS_CardinalityType
<1> HIDE DEF cards
<1>3. IsFiniteSet(T) /\ Cardinality(T) = cards
  <2>1. 0 \in Int /\ cards - 1 \in Int /\ ~(0 > cards - 1) BY <1>2
  <2> HIDE DEF T
  <2>2. IsFiniteSet(T) /\ Cardinality(T) = cards - 1 - 0 + 1 BY <2>1, FS_Interval DEF T
  <2> QED BY <1>2, <2>2
<1>4. f \in Injection(S, T)
  <2>1. \A c \in S : c[2] \in T BY <1>1, <1>2
  <2>2. \A c, d \in S : c[2] = d[2] => c = d BY <1>1
  <2> HIDE DEF S, T
  <2> QED BY <2>1, <2>2 DEF Injection, IsInjective
<1>5. f \in Surjection(S, T)
  <2> HIDE DEF f, S, T
  <2> QED BY <1>3, <1>4, FS_Injection DEF cards
<1>6. cards - 1 \in T BY <1>2
<1>7. PICK c \in S : c[2] = cards - 1
  <2> HIDE DEF S, T
  <2> QED BY <1>5, <1>6 DEF Surjection
<1>8. c = wf.node[n].card BY <1>1, <1>2, <1>7
<1> QED BY <1>8 DEF Cards

\* Only the reconciler makes a nested retry, and of a card that is not managed.
LEMMA NestedMoves ==
    ASSUME IInv, [Next]_vars
    PROVE  /\ DOMAIN att \subseteq DOMAIN att'
           /\ \A c \in DOMAIN att' : att'[c].nested => c \in DOMAIN att /\ (att[c].nested \/ ~RunnerManaged(c))
<1> DEFINE Moves == /\ DOMAIN att \subseteq DOMAIN att'
                    /\ \A c \in DOMAIN att' : att'[c].nested => c \in DOMAIN att /\ (att[c].nested \/ ~RunnerManaged(c))
<1>1. \A c \in DOMAIN att : DOMAIN att[c] = {"life", "asked", "seen", "nested"} BY DEF IInv, Paired
<1>2. att' = att => Moves OBVIOUS
<1>3. ASSUME att' = Fence(att) PROVE Moves
  <2>1. DOMAIN att' = DOMAIN att BY <1>3 DEF Fence
  <2> SUFFICES ASSUME NEW c \in DOMAIN att PROVE att'[c].nested = att[c].nested
    BY <2>1
  <2>2. att'[c] = IF att[c].life \in {"pending", "running"} THEN [att[c] EXCEPT !.life = "cancel_requested"] ELSE att[c]
    BY <1>3 DEF Fence
  <2> QED BY <1>1, <2>2
<1>4. ASSUME NEW k \in DOMAIN wf.cmd, StartChild(k) PROVE Moves
  <2> DEFINE card == <<k[1], Cardinality({c \in DOMAIN att : c[1] = k[1]})>>
             row == NewAttempt(FALSE)
  <2>1. att' = Merge([c \in {card} |-> row], att) BY <1>4 DEF StartChild
  <2>2. ~row.nested BY DEF NewAttempt
  <2> HIDE DEF card, row
  <2>3. DOMAIN att' = {card} \cup DOMAIN att /\ \A c \in DOMAIN att' : att'[c] = row \/ (c \in DOMAIN att /\ att'[c] = att[c])
    BY <2>1 DEF Merge
  <2> QED BY <2>2, <2>3
<1>5. ASSUME NEW c \in DOMAIN att, att' = [att EXCEPT ![c].seen = TRUE] PROVE Moves
  <2>1. DOMAIN att' = DOMAIN att /\ \A d \in DOMAIN att : att'[d].nested = att[d].nested BY <1>1, <1>5
  <2> QED BY <2>1
<1>6. ASSUME NEW c \in DOMAIN att, NEW life \in EndedAttempt, NEW retrySafe \in BOOLEAN, WorkerEnds(c, life, retrySafe)
      PROVE  Moves
  <2>1. \E x : att' = [att EXCEPT ![c].life = life, ![c].seen = x] BY <1>6 DEF WorkerEnds
  <2>2. DOMAIN att' = DOMAIN att /\ \A d \in DOMAIN att : att'[d].nested = att[d].nested BY <1>1, <2>1
  <2> QED BY <2>2
<1>7. ASSUME NEW c \in DOMAIN att,
             WorkerStarts(c) \/ AnswerRetry(c) \/ AutoRetry(c) \/ WorkerAsks(c) \/ \E life \in EndedAttempt : HookContained(c, life)
      PROVE  Moves
  <2>1. CASE WorkerStarts(c) \/ WorkerAsks(c) \/ \E life \in EndedAttempt : HookContained(c, life)
    <3>1. \E x : att' = [att EXCEPT ![c].life = x] \/ att' = [att EXCEPT ![c].life = x, ![c].asked = TRUE]
      BY <2>1 DEF WorkerStarts, WorkerAsks, HookContained
    <3>2. DOMAIN att' = DOMAIN att /\ \A d \in DOMAIN att : att'[d].nested = att[d].nested BY <1>1, <3>1
    <3> QED BY <3>2
  <2>2. CASE AnswerRetry(c)
    <3>1. att' = [att EXCEPT ![c] = NewAttempt(att[c].nested)] BY <2>2 DEF AnswerRetry
    <3>2. DOMAIN att' = DOMAIN att /\ \A d \in DOMAIN att : att'[d].nested = att[d].nested BY <3>1 DEF NewAttempt
    <3> QED BY <3>2
  <2>3. CASE AutoRetry(c)
    <3>1. ~RunnerManaged(c) /\ att' = [att EXCEPT ![c] = NewAttempt(TRUE)] BY <2>3 DEF AutoRetry
    <3>2. DOMAIN att' = DOMAIN att /\ \A d \in DOMAIN att : d # c => att'[d] = att[d] BY <3>1
    <3> QED BY <3>1, <3>2
  <2> QED BY <1>7, <2>1, <2>2, <2>3
<1>8. ASSUME NEW k \in DOMAIN wf.cmd, InspectDispatch(k) PROVE Moves
  <2> DEFINE n == k[1]
             c == wf.node[n].card
  <2>1. att' = att \/ (c # <<>> /\ att' = [att EXCEPT ![c].seen = TRUE]) BY <1>8 DEF InspectDispatch
  <2>2. n \in DOMAIN wf.node BY <1>8 DEF IInv, Good, Ready, InspectDispatch
  <2>3. c # <<>> => c \in DOMAIN att BY <2>2, BoundCard DEF IInv
  <2> HIDE DEF c
  <2> QED BY <1>2, <1>5, <2>1, <2>3
<1> SUFFICES Moves OBVIOUS
<1> HIDE DEF Moves
<1>9. CASE Admit \/ AdmitWithoutPlan \/ Readmit \/ AdmitSha
  BY <1>2, <1>9 DEF Moves, Admit, AdmitWithoutPlan, Readmit, AdmitSha
<1>10. CASE Drain BY <1>2, <1>4, <1>10 DEF Drain, DrainDispatch, DrainModelJob, DrainDeliver
<1>11. CASE ModelJobs \/ \E k \in DOMAIN wf.cmd : DeadlinePasses(k)
  BY <1>2, <1>11 DEF ModelJobs, PlanProposed, PlanRoundFails, ReviewReturns, DeadlinePasses
<1>12. CASE Inspect BY <1>3, <1>8, <1>12 DEF Inspect, ModelJobLost
<1>13. CASE Workers BY <1>6, <1>7, <1>13 DEF Workers
<1>14. CASE Recover BY <1>5, <1>14 DEF Recover, RecoverCompletion
<1>15. CASE RequestCancel \/ Restart BY <1>3, <1>15 DEF RequestCancel, Restart
<1>16. CASE ProjectTerminal \/ UNCHANGED vars BY <1>2, <1>16 DEF ProjectTerminal, vars
<1> QED BY <1>9, <1>10, <1>11, <1>12, <1>13, <1>14, <1>15, <1>16 DEF Next

\* A card that its node has left is never its card again, and a run that has
\* ended manages none.
LEMMA NestedStep ==
    ASSUME KInv, IInv', [Next]_vars
    PROVE  Nested(wf', att')
<1>1. IInv /\ Nested(wf, att) BY DEF KInv
<1>2. /\ DOMAIN att \subseteq DOMAIN att'
      /\ \A c \in DOMAIN att' : att'[c].nested => c \in DOMAIN att /\ (att[c].nested \/ ~RunnerManaged(c))
  BY <1>1, NestedMoves
<1>3. Terminal(wf) => Terminal(wf') BY <1>1, TerminalStep DEF Terminal
<1> SUFFICES ASSUME NEW c \in DOMAIN att', att'[c].nested, ~Terminal(wf')
             PROVE  wf'.node[c[1]].card # c
  BY DEF Nested
<1> DEFINE n == c[1]
<1>4. c \in DOMAIN att /\ wf.node[n].card # c
  BY <1>1, <1>2, <1>3 DEF Nested, RunnerManaged, Bound, NodeOf
<1>5. n \in DOMAIN wf.node /\ n \in DOMAIN wf'.node BY <1>1, <1>2, <1>4 DEF IInv, Paired
<1>6. c \in Cards(att, n) /\ Cards(att, n) \subseteq Cards(att', n) BY <1>2, <1>4 DEF Cards
<1>7. /\ IsFiniteSet(Cards(att, n)) /\ c = <<n, c[2]>> /\ c[2] \in Nat /\ c[2] < Cardinality(Cards(att, n))
      /\ wf.node[n].card = IF Cardinality(Cards(att, n)) = 0 THEN <<>> ELSE <<n, Cardinality(Cards(att, n)) - 1>>
  BY <1>1, <1>5, <1>6 DEF IInv, Paired
<1>8. /\ IsFiniteSet(Cards(att', n))
      /\ wf'.node[n].card = IF Cardinality(Cards(att', n)) = 0 THEN <<>> ELSE <<n, Cardinality(Cards(att', n)) - 1>>
  BY <1>5 DEF IInv, Paired
<1>9. Cardinality(Cards(att, n)) <= Cardinality(Cards(att', n)) BY <1>6, <1>8, FS_Subset
<1>10. Cardinality(Cards(att, n)) \in Nat /\ Cardinality(Cards(att', n)) \in Nat BY <1>7, <1>8, FS_CardinalityType
<1>11. c[2] # Cardinality(Cards(att, n)) - 1
  <2>1. Cardinality(Cards(att, n)) # 0 BY <1>7, <1>10
  <2> QED BY <1>4, <1>7, <2>1
<1>12. c[2] # Cardinality(Cards(att', n)) - 1 BY <1>7, <1>9, <1>10, <1>11
<1>13. wf'.node[n].card = <<n, Cardinality(Cards(att', n)) - 1>> BY <1>7, <1>8, <1>9, <1>10
<1>14. wf'.node[n].card[2] = Cardinality(Cards(att', n)) - 1 BY <1>13
<1> QED BY <1>12, <1>14

\* The inductive invariant holds in every reachable state.
LEMMA Invariance == Spec => []KInv
<1>1. Init => KInv BY InitIInv DEF Init, KInv, Nested
<1>2. KInv /\ [Next]_vars => KInv' BY NextIInv, NestedStep DEF KInv
<1> QED BY <1>1, <1>2, PTL DEF Spec

\* An accepted output is never sent again after a send that was acknowledged or
\* may have gone out: not by a second acceptance of its review, a retry of the
\* delivery command, or the cancellation.
THEOREM SentAtMostOnceHolds == Spec => []SentAtMostOnce
<1>1. KInv => SentAtMostOnce BY DEF KInv, IInv, Good, Deliveries, SentAtMostOnce
<1> QED BY <1>1, Invariance, PTL

\* The runner's retries, inspections, recovered completions and answers never give
\* a node two attempts that may both be executing; the reconciler's nested retry
\* does, but never of the card by which a run that has not ended knows the node.
THEOREM OneLiveAttemptHolds == Spec => []OneLiveAttempt
<1>1. KInv => OneLiveAttempt
  <2> SUFFICES ASSUME KInv PROVE OneLiveAttempt
    OBVIOUS
  <2>1. ASSUME NEW c \in DOMAIN att, NEW d \in DOMAIN att, c[1] = d[1],
               att[c].life \in LiveAttempt, att[d].life \in LiveAttempt, ~att[c].nested, ~att[d].nested
        PROVE  c = d
    <3>1. c[1] \in DOMAIN wf.node /\ c \in Cards(att, c[1]) /\ d \in Cards(att, c[1])
      BY <2>1 DEF KInv, IInv, Paired, Cards
    <3>2. Held(att[c]) /\ Held(att[d]) BY <2>1 DEF Held
    <3> QED BY <3>1, <3>2 DEF KInv, IInv, Paired
  <2>2. \A c \in DOMAIN att : att[c].nested => ~RunnerManaged(c)
    BY DEF KInv, Nested, RunnerManaged, Bound, NodeOf
  <2> QED BY <2>1, <2>2 DEF OneLiveAttempt
<1> QED BY <1>1, Invariance, PTL

\* Whatever is dispatched waits for its dependencies: each has succeeded, or is
\* optional and has failed, and stays so across retries, revisions and cancellation.
THEOREM DependenciesSettledHolds == Spec => []DependenciesSettled
<1>1. KInv => DependenciesSettled
  <2> SUFFICES ASSUME IInv, NEW c \in DOMAIN att, NEW d \in Deps(wf, c[1])
               PROVE  wf.node[d].st = "succeeded" \/ (wf.node[d].st = "failed" /\ Optional(wf, d))
    BY DEF KInv, DependenciesSettled
  <2>1. d \in wf.freed BY CardsAreWork DEF IInv, Unblocked
  <2> QED BY <2>1 DEF IInv, Good, Ready, Settled
<1> QED BY <1>1, Invariance, PTL

\* A run that has ended stays as it ended: no late drain, proposal, verdict,
\* completion or inspection starts work for it or changes its end.
THEOREM TerminalIsFinalHolds == Spec => TerminalIsFinal
<1>1. KInv /\ [Next]_vars => [Terminal(wf) => wf'.state = wf.state /\ DOMAIN att' = DOMAIN att /\ Rev(wf') = Rev(wf)]_vars
  BY TerminalStep DEF KInv
<1> QED BY <1>1, Invariance, PTL DEF Spec, TerminalIsFinal

-----------------------------------------------------------------------------
(* The verdict on a run, and what keeps it going: what holds of the rows   *)
(* of a live run, and of the end it comes to.                              *)

ReviewStates == OpenNode \cup {"succeeded", "failed", "skipped"}
Reviews(w) == {n \in DOMAIN w.node : n[2] = Review}
Awaited(w, k) == w.cmd[k].st \in {"pending", "claimed"}
Waves(w) == \E r \in DOMAIN w.plans : w.plans[r].wave # {}
Work(p) == p.work \cup p.wave

\* The nodes are those of the plans, and reviews
Planned(w) ==
    /\ \A n \in DOMAIN w.node : n = <<n[1], n[2]>> /\ (n[2] = Review \/ n[2] \in Work(w.plans[n[1]]))
    /\ \A r \in DOMAIN w.plans : \A l \in Work(w.plans[r]) : <<r, l>> \in DOMAIN w.node

\* The commands of a node and an action are numbered without repetition
Numbered(w) ==
    \A k \in DOMAIN w.cmd :
        /\ k = <<k[1], k[2], k[3]>> /\ k[1] \in DOMAIN w.node \cup {PlanNode}
        /\ IsFiniteSet(CommandsOf(w, k[1], k[2]))
        /\ k[3] \in Nat /\ k[3] < Cardinality(CommandsOf(w, k[1], k[2]))

\* A plan is asked for against a revision that exists, a review is claimed once it runs
Based(w) ==
    \A k \in DOMAIN w.cmd :
        /\ k[2] = "plan" => w.cmd[k].base \in Nat /\ w.cmd[k].base <= Rev(w)
        /\ k[2] = "review" => /\ k[1] \in Reviews(w) /\ w.cmd[k].base = k[1][1]
                              /\ w.cmd[k].st = "claimed" => w.node[k[1]].st # "queued"
        /\ k[2] = "deliver" => k[1] \in DOMAIN w.node

\* Only reviews outlive their revision
OldWork(w) == \A n \in DOMAIN w.node : Open(w, n) /\ n[2] # Review => n[1] = Rev(w)

\* One review is open at most, none is cancelled, and one that succeeded accepted its revision
Verdicts(w) ==
    /\ \A n, m \in Reviews(w) : Open(w, n) /\ Open(w, m) => n = m
    /\ \A n \in Reviews(w) : w.node[n].st \in ReviewStates
    /\ \A n \in Reviews(w) : n[1] = Rev(w) /\ w.node[n].st = "succeeded" => Rev(w) \in w.accepted

\* Only the failure of required work skips nodes
Skips(w) ==
    \A n \in NodesOf(w, Rev(w)) : w.node[n].st = "skipped" =>
        \E m \in NodesOf(w, Rev(w)) : w.node[m].st = "failed" /\ ~Optional(w, m)

\* Without planning nodes nobody replans while the review is still blocked
Replanned(w) ==
    ~Waves(w) => \A n \in Reviews(w) : w.node[n].st = "queued" =>
                     n[1] = Rev(w) /\ \A k \in DOMAIN w.cmd : k[2] = "plan" => w.cmd[k].base < Rev(w)

\* A revision without a review of its own is judged by that of an earlier one
Inherited(w) ==
    Rev(w) > 0 /\ <<Rev(w), Review>> \notin DOMAIN w.node =>
        \E n \in Reviews(w) : \/ Open(w, n) \/ w.node[n].st = "failed"
                              \/ w.node[n].st = "succeeded" /\ Rev(w) \in w.accepted

Sound(w) ==
    /\ Planned(w) /\ Numbered(w) /\ Based(w) /\ OldWork(w)
    /\ Verdicts(w) /\ Skips(w) /\ Replanned(w) /\ Inherited(w)

\* A command still acts on the node n, or on its delivery
Served(w, n) == \E k \in DOMAIN w.cmd : k[1] = n /\ k[2] # "deliver" /\ Awaited(w, k)
Sent(w, n) == \E k \in DOMAIN w.cmd : k[1] = n /\ k[2] = "deliver" /\ Awaited(w, k)

\* Whatever runs or could run in the latest revision is served
Driven(w) ==
    \A n \in NodesOf(w, Rev(w)) :
        w.node[n].st = "running" \/ (w.node[n].st = "queued" /\ Unblocked(w, n)) => Served(w, n)
Sending(w) == \A n \in DOMAIN w.deliv : w.deliv[n].out = "pending" => Sent(w, n)

Steady(w) == Sound(w) /\ Driven(w) /\ Sending(w)

\* A run with a plan has an open node, a running review or an unfinished delivery;
\* one without has a planning command, if it was ever queued
Pursued(w) ==
    Rev(w) > 0 => \/ \E n \in NodesOf(w, Rev(w)) : Open(w, n)
                  \/ \E n \in Reviews(w) : w.node[n].st = "running"
                  \/ \E n \in DOMAIN w.deliv : w.deliv[n].out \in {"pending", "failed", "unknown"}
Planning(w) ==
    Rev(w) = 0 => \/ w.state = "admitted" /\ DOMAIN w.cmd = {}
                  \/ \E k \in DOMAIN w.cmd : k[2] = "plan" /\ Awaited(w, k)

\* What SuccessIsReviewed says of the rows
Refused(w) == \E n \in DOMAIN w.node : n[2] = Review /\ n[1] < Rev(w) /\ w.node[n].st = "failed"
Reviewed(w) ==
    w.state = "succeeded" =>
        \/ Rev(w) \in w.accepted \/ (Rev(w) > 0 /\ w.plans[Rev(w)].partial)
        \/ Waves(w) \/ Refused(w)

Fit(w) ==
    /\ w.state \in {"none"} \cup LiveStates \cup TerminalStates
    /\ w.state = "none" => w = Absent
    /\ Live(w) => Steady(w) /\ Pursued(w) /\ Planning(w)
    /\ Reviewed(w)

\* An outcome that was applied came from an attempt that ended, and a completion closed its node
SeenOnce(w, ats) ==
    \A c \in DOMAIN ats : ats[c].seen =>
        /\ ats[c].life \in EndedAttempt
        /\ w.node[c[1]].card = c /\ ats[c].life \in {"accepted", "rejected"} => ~Open(w, c[1])

JInv == KInv /\ Fit(wf) /\ SeenOnce(wf, att)

-----------------------------------------------------------------------------
(* The granular writers and the rows of a live run.                        *)

\* The revisions are counted.
LEMMA RevFacts ==
    ASSUME NEW w, Good(w)
    PROVE  /\ Rev(w) \in Nat /\ DOMAIN w.plans = 1 .. Rev(w)
           /\ \A r \in DOMAIN w.plans : w.plans[r] \in Plans \cup {ShaPlan}
BY DEF Good, Shape, Rev

\* What SetNode, SetCommand and Spend change.
LEMMA SetFacts ==
    ASSUME NEW w, Good(w)
    PROVE  /\ \A n, st : LET v == SetNode(w, n, st) IN
                 /\ DOMAIN v = Fields /\ v.plans = w.plans /\ v.freed = w.freed /\ v.cmd = w.cmd /\ v.deliv = w.deliv
                 /\ v.accepted = w.accepted /\ v.state = w.state /\ v.budget = w.budget
                 /\ DOMAIN v.node = DOMAIN w.node
                 /\ \A m \in DOMAIN w.node : v.node[m].st = IF m = n THEN st ELSE w.node[m].st
                 /\ \A m \in DOMAIN w.node : v.node[m].card = w.node[m].card
           /\ \A k, st : LET v == SetCommand(w, k, st) IN
                 /\ DOMAIN v = Fields /\ v.plans = w.plans /\ v.freed = w.freed /\ v.node = w.node /\ v.deliv = w.deliv
                 /\ v.accepted = w.accepted /\ v.state = w.state /\ v.budget = w.budget
                 /\ DOMAIN v.cmd = DOMAIN w.cmd
                 /\ \A m \in DOMAIN w.cmd : /\ v.cmd[m].st = IF m = k THEN st ELSE w.cmd[m].st
                                            /\ v.cmd[m].base = w.cmd[m].base
           /\ \A scope : LET v == Spend(w, scope) IN
                 /\ DOMAIN v = Fields /\ v.plans = w.plans /\ v.freed = w.freed /\ v.node = w.node /\ v.deliv = w.deliv
                 /\ v.accepted = w.accepted /\ v.state = w.state /\ v.cmd = w.cmd
           /\ \A st : LET v == [w EXCEPT !.state = st] IN
                 /\ DOMAIN v = Fields /\ v.plans = w.plans /\ v.freed = w.freed /\ v.node = w.node /\ v.deliv = w.deliv
                 /\ v.accepted = w.accepted /\ v.state = st /\ v.cmd = w.cmd
<1>1. /\ DOMAIN w = Fields
      /\ \A m \in DOMAIN w.node : DOMAIN w.node[m] = {"st", "card"}
      /\ \A m \in DOMAIN w.cmd : DOMAIN w.cmd[m] = {"st", "base", "inc", "job"}
  BY DEF Good, Shape
<1>2. ASSUME NEW n, NEW st
      PROVE  LET v == SetNode(w, n, st) IN
                 /\ DOMAIN v = Fields /\ v.plans = w.plans /\ v.freed = w.freed /\ v.cmd = w.cmd /\ v.deliv = w.deliv
                 /\ v.accepted = w.accepted /\ v.state = w.state /\ v.budget = w.budget
                 /\ DOMAIN v.node = DOMAIN w.node
                 /\ \A m \in DOMAIN w.node : v.node[m].st = IF m = n THEN st ELSE w.node[m].st
                 /\ \A m \in DOMAIN w.node : v.node[m].card = w.node[m].card
  BY <1>1 DEF SetNode, Fields
<1>3. ASSUME NEW k, NEW st
      PROVE  LET v == SetCommand(w, k, st) IN
                 /\ DOMAIN v = Fields /\ v.plans = w.plans /\ v.freed = w.freed /\ v.node = w.node /\ v.deliv = w.deliv
                 /\ v.accepted = w.accepted /\ v.state = w.state /\ v.budget = w.budget
                 /\ DOMAIN v.cmd = DOMAIN w.cmd
                 /\ \A m \in DOMAIN w.cmd : /\ v.cmd[m].st = IF m = k THEN st ELSE w.cmd[m].st
                                            /\ v.cmd[m].base = w.cmd[m].base
  BY <1>1 DEF SetCommand, Fields
<1>4. ASSUME NEW scope
      PROVE  LET v == Spend(w, scope) IN
                 /\ DOMAIN v = Fields /\ v.plans = w.plans /\ v.freed = w.freed /\ v.node = w.node /\ v.deliv = w.deliv
                 /\ v.accepted = w.accepted /\ v.state = w.state /\ v.cmd = w.cmd
  BY <1>1 DEF Spend, Fields
<1>5. ASSUME NEW st
      PROVE  LET v == [w EXCEPT !.state = st] IN
                 /\ DOMAIN v = Fields /\ v.plans = w.plans /\ v.freed = w.freed /\ v.node = w.node /\ v.deliv = w.deliv
                 /\ v.accepted = w.accepted /\ v.state = st /\ v.cmd = w.cmd
  BY <1>1 DEF Fields
<1> QED BY <1>2, <1>3, <1>4, <1>5

\* The columns of the rows that Steady reads.
LEMMA SteadyFrame ==
    ASSUME NEW w, NEW v, Steady(w), v.plans = w.plans, v.node = w.node, v.freed = w.freed,
           v.cmd = w.cmd, v.deliv = w.deliv, v.accepted = w.accepted
    PROVE  Steady(v)
<1>1. \A n : Unblocked(v, n) = Unblocked(w, n) BY DEF Unblocked, Deps
<1>2. \A n, a : CommandsOf(v, n, a) = CommandsOf(w, n, a) BY DEF CommandsOf
<1>3. \A n : Served(v, n) = Served(w, n) /\ Sent(v, n) = Sent(w, n) BY DEF Served, Sent, Awaited
<1>4. Rev(v) = Rev(w) /\ Reviews(v) = Reviews(w) /\ NodesOf(v, Rev(v)) = NodesOf(w, Rev(w)) BY DEF Rev, Reviews, NodesOf
<1>5. Planned(v) /\ OldWork(v) /\ Verdicts(v) /\ Skips(v) /\ Replanned(v) /\ Inherited(v)
  BY <1>4 DEF Steady, Sound, Planned, OldWork, Verdicts, Skips, Replanned, Inherited, Open, Optional, Waves
<1>6. Numbered(v) BY <1>2 DEF Steady, Sound, Numbered
<1>7. Based(v) BY <1>4 DEF Steady, Sound, Based
<1>8. Driven(v) BY <1>1, <1>3, <1>4 DEF Steady, Driven
<1>9. Sending(v) BY <1>3 DEF Steady, Sending
<1> QED BY <1>5, <1>6, <1>7, <1>8, <1>9 DEF Steady, Sound

\* Commands come and go without touching the nodes and the verdicts.
LEMMA CommandsSound ==
    ASSUME NEW w, NEW v, Sound(w), v.plans = w.plans, v.node = w.node, v.accepted = w.accepted,
           Numbered(v), Based(v), Replanned(v)
    PROVE  Sound(v)
<1>1. Rev(v) = Rev(w) /\ Reviews(v) = Reviews(w) /\ NodesOf(v, Rev(v)) = NodesOf(w, Rev(w)) BY DEF Rev, Reviews, NodesOf
<1>2. Planned(v) /\ OldWork(v) /\ Verdicts(v) /\ Skips(v) /\ Inherited(v)
  BY <1>1 DEF Sound, Planned, OldWork, Verdicts, Skips, Inherited, Open, Optional
<1> QED BY <1>2 DEF Sound

\* Commands that are kept keep serving.
Serves(w, v) == \A n : (Served(w, n) => Served(v, n)) /\ (Sent(w, n) => Sent(v, n))

\* New commands have new names.
LEMMA NewCommandsSound ==
    ASSUME NEW w, Shape(w), Sound(w), NEW f,
           \A k \in DOMAIN f :
              /\ k = <<k[1], k[2], Cardinality(CommandsOf(w, k[1], k[2]))>>
              /\ k[1] \in DOMAIN w.node \cup {PlanNode}
              /\ f[k].st = "pending"
              /\ k[2] = "plan" => /\ f[k].base \in Nat /\ f[k].base <= Rev(w)
                                  /\ \/ Waves(w) \/ f[k].base < Rev(w)
                                     \/ \A n \in Reviews(w) : w.node[n].st # "queued"
              /\ k[2] = "review" => k[1] \in Reviews(w) /\ f[k].base = k[1][1]
              /\ k[2] = "deliver" => k[1] \in DOMAIN w.node
    PROVE  LET v == [w EXCEPT !.cmd = Merge(@, f)] IN
           /\ Sound(v) /\ Serves(w, v)
           /\ DOMAIN f \subseteq DOMAIN v.cmd /\ \A k \in DOMAIN f : v.cmd[k].st = "pending" /\ k \notin DOMAIN w.cmd
           /\ v.plans = w.plans /\ v.freed = w.freed /\ v.node = w.node /\ v.deliv = w.deliv
           /\ v.accepted = w.accepted /\ v.state = w.state
<1> DEFINE v == [w EXCEPT !.cmd = Merge(@, f)]
<1>1. DOMAIN w = Fields BY DEF Shape
<1>2. /\ v.plans = w.plans /\ v.freed = w.freed /\ v.node = w.node /\ v.deliv = w.deliv
      /\ v.accepted = w.accepted /\ v.state = w.state /\ v.cmd = Merge(w.cmd, f)
  BY <1>1 DEF Fields
<1>3. /\ DOMAIN v.cmd = DOMAIN w.cmd \cup DOMAIN f
      /\ \A k \in DOMAIN w.cmd : v.cmd[k] = w.cmd[k]
      /\ \A k \in DOMAIN f \ DOMAIN w.cmd : v.cmd[k] = f[k]
  BY <1>2 DEF Merge
<1> HIDE DEF v
<1>4. \A k \in DOMAIN f : k \notin DOMAIN w.cmd
  <2> SUFFICES ASSUME NEW k \in DOMAIN f, k \in DOMAIN w.cmd PROVE FALSE OBVIOUS
  <2>1. k[3] = Cardinality(CommandsOf(w, k[1], k[2])) OBVIOUS
  <2> QED BY <2>1 DEF Sound, Numbered
<1>5. Rev(v) = Rev(w) /\ Reviews(v) = Reviews(w) BY <1>2 DEF Rev, Reviews
<1>6. Numbered(v)
  <2> SUFFICES ASSUME NEW k \in DOMAIN v.cmd
               PROVE  /\ k = <<k[1], k[2], k[3]>> /\ k[1] \in DOMAIN v.node \cup {PlanNode}
                      /\ IsFiniteSet(CommandsOf(v, k[1], k[2]))
                      /\ k[3] \in Nat /\ k[3] < Cardinality(CommandsOf(v, k[1], k[2]))
    BY DEF Numbered
  <2> DEFINE old == CommandsOf(w, k[1], k[2])
             x == <<k[1], k[2], Cardinality(old)>>
  <2>1. IsFiniteSet(old) /\ Cardinality(old) \in Nat
    <3>1. CASE old = {} BY <3>1, FS_EmptySet
    <3>2. CASE old # {}
      <4>1. PICK j \in DOMAIN w.cmd : j[1] = k[1] /\ j[2] = k[2] BY <3>2 DEF CommandsOf
      <4> QED BY <4>1, FS_CardinalityType DEF Sound, Numbered
    <3> QED BY <3>1, <3>2
  <2>2. CommandsOf(v, k[1], k[2]) \in {old, old \cup {x}}
    <3>1. \A j \in DOMAIN f : j[1] = k[1] /\ j[2] = k[2] => j = x
      <4> TAKE j \in DOMAIN f
      <4> HAVE j[1] = k[1] /\ j[2] = k[2]
      <4>1. j = <<j[1], j[2], Cardinality(CommandsOf(w, j[1], j[2]))>> OBVIOUS
      <4> QED BY <4>1
    <3>2. CommandsOf(v, k[1], k[2]) = old \cup {j \in DOMAIN f : j[1] = k[1] /\ j[2] = k[2]} BY <1>3 DEF CommandsOf
    <3> HIDE DEF old, x
    <3>3. {j \in DOMAIN f : j[1] = k[1] /\ j[2] = k[2]} \in {{}, {x}} BY <3>1
    <3> QED BY <3>2, <3>3
  <2>3. x \notin old
    <3> SUFFICES ASSUME x \in old PROVE FALSE OBVIOUS
    <3>1. x \in DOMAIN w.cmd /\ x[1] = k[1] /\ x[2] = k[2] /\ x[3] = Cardinality(old) BY DEF CommandsOf
    <3>2. x[3] < Cardinality(CommandsOf(w, x[1], x[2])) BY <3>1 DEF Sound, Numbered
    <3> QED BY <2>1, <3>1, <3>2
  <2> HIDE DEF old, x
  <2>4. IsFiniteSet(old \cup {x}) /\ Cardinality(old \cup {x}) = Cardinality(old) + 1 BY <2>1, <2>3, FS_AddElement
  <2>5. CASE k \in DOMAIN w.cmd
    <3>1. /\ k = <<k[1], k[2], k[3]>> /\ k[1] \in DOMAIN w.node \cup {PlanNode}
          /\ k[3] \in Nat /\ k[3] < Cardinality(old)
      BY <2>5 DEF Sound, Numbered, old
    <3>2. IsFiniteSet(CommandsOf(v, k[1], k[2])) /\ Cardinality(CommandsOf(v, k[1], k[2])) \in {Cardinality(old), Cardinality(old) + 1}
      BY <2>1, <2>2, <2>4
    <3>3. k[3] < Cardinality(CommandsOf(v, k[1], k[2])) BY <2>1, <3>1, <3>2
    <3> QED BY <1>2, <3>1, <3>2, <3>3
  <2>6. CASE k \in DOMAIN f
    <3>1. k = x /\ k[1] \in DOMAIN w.node \cup {PlanNode} BY <2>6 DEF x, old
    <3>2. k[3] = Cardinality(old) /\ k = <<k[1], k[2], k[3]>> BY <3>1 DEF x
    <3>3. k \in CommandsOf(v, k[1], k[2]) BY DEF CommandsOf
    <3>4. CommandsOf(v, k[1], k[2]) = old \cup {x} BY <2>2, <2>3, <3>1, <3>3
    <3> QED BY <1>2, <2>1, <2>4, <3>1, <3>2, <3>4
  <2> QED BY <1>3, <2>5, <2>6
<1>7. Based(v)
  <2> SUFFICES ASSUME NEW k \in DOMAIN v.cmd
               PROVE  /\ k[2] = "plan" => v.cmd[k].base \in Nat /\ v.cmd[k].base <= Rev(v)
                      /\ k[2] = "review" => /\ k[1] \in Reviews(v) /\ v.cmd[k].base = k[1][1]
                                            /\ v.cmd[k].st = "claimed" => v.node[k[1]].st # "queued"
                      /\ k[2] = "deliver" => k[1] \in DOMAIN v.node
    BY DEF Based
  <2>1. CASE k \in DOMAIN w.cmd BY <1>2, <1>3, <1>5, <2>1 DEF Sound, Based
  <2>2. CASE k \in DOMAIN f
    <3>1. v.cmd[k] = f[k] BY <1>3, <1>4, <2>2
    <3> QED BY <1>2, <1>5, <2>2, <3>1
  <2> QED BY <1>3, <2>1, <2>2
<1>8. Replanned(v)
  <2> SUFFICES ASSUME ~Waves(w), NEW n \in Reviews(w), w.node[n].st = "queued"
               PROVE  n[1] = Rev(w) /\ \A k \in DOMAIN v.cmd : k[2] = "plan" => v.cmd[k].base < Rev(w)
    BY <1>2, <1>5 DEF Replanned, Waves
  <2>1. n[1] = Rev(w) /\ \A k \in DOMAIN w.cmd : k[2] = "plan" => w.cmd[k].base < Rev(w) BY DEF Sound, Replanned
  <2>2. \A k \in DOMAIN f : k[2] = "plan" => f[k].base < Rev(w) OBVIOUS
  <2> QED BY <1>3, <2>1, <2>2
<1>9. Sound(v) BY <1>2, <1>6, <1>7, <1>8, CommandsSound
<1>10. Serves(w, v) BY <1>3 DEF Serves, Served, Sent, Awaited
<1>11. \A k \in DOMAIN f : v.cmd[k].st = "pending" /\ k \notin DOMAIN w.cmd
  <2>1. \A k \in DOMAIN f : v.cmd[k] = f[k] BY <1>3, <1>4
  <2> QED BY <1>4, <2>1
<1> QED BY <1>2, <1>3, <1>9, <1>10, <1>11 DEF v

\* What queueing a command leaves as it was.
SameRows(w, v) ==
    /\ v.plans = w.plans /\ v.freed = w.freed /\ v.node = w.node /\ v.deliv = w.deliv
    /\ v.accepted = w.accepted /\ v.state = w.state

\* A command is queued for a node.
LEMMA QueueCommandSound ==
    ASSUME NEW w, Good(w), Sound(w), NEW n \in DOMAIN w.node \cup {PlanNode}, NEW a, NEW base,
           a = "plan" => /\ base \in Nat /\ base <= Rev(w)
                         /\ Waves(w) \/ base < Rev(w) \/ \A m \in Reviews(w) : w.node[m].st # "queued",
           a = "review" => n \in Reviews(w) /\ base = n[1],
           a = "deliver" => n \in DOMAIN w.node
    PROVE  LET v == QueueCommand(w, n, a, base) IN
           /\ Sound(v) /\ Serves(w, v) /\ SameRows(w, v)
           /\ IF a = "deliver" THEN Sent(v, n) ELSE Served(v, n)
           /\ \E k \in DOMAIN v.cmd \ DOMAIN w.cmd : k[1] = n /\ k[2] = a /\ Awaited(v, k)
<1> DEFINE k == <<n, a, Cardinality(CommandsOf(w, n, a))>>
           f == [x \in {k} |-> Pending(base)]
           v == [w EXCEPT !.cmd = Merge(@, f)]
<1>1. QueueCommand(w, n, a, base) = v BY DEF QueueCommand
<1>2. k[1] = n /\ k[2] = a /\ k = <<k[1], k[2], Cardinality(CommandsOf(w, k[1], k[2]))>> OBVIOUS
<1>3. DOMAIN f = {k} /\ f[k].st = "pending" /\ f[k].base = base BY DEF Pending
<1> HIDE DEF k, f, v
<1>4. ASSUME NEW x \in DOMAIN f
      PROVE  /\ x = <<x[1], x[2], Cardinality(CommandsOf(w, x[1], x[2]))>>
             /\ x[1] \in DOMAIN w.node \cup {PlanNode}
             /\ f[x].st = "pending"
             /\ x[2] = "plan" => /\ f[x].base \in Nat /\ f[x].base <= Rev(w)
                                 /\ \/ Waves(w) \/ f[x].base < Rev(w)
                                    \/ \A m \in Reviews(w) : w.node[m].st # "queued"
             /\ x[2] = "review" => x[1] \in Reviews(w) /\ f[x].base = x[1][1]
             /\ x[2] = "deliver" => x[1] \in DOMAIN w.node
  <2>1. x = k BY <1>3
  <2> QED BY <1>2, <1>3, <2>1
<1>5. /\ Sound(v) /\ Serves(w, v)
      /\ DOMAIN f \subseteq DOMAIN v.cmd /\ \A x \in DOMAIN f : v.cmd[x].st = "pending" /\ x \notin DOMAIN w.cmd
      /\ v.plans = w.plans /\ v.freed = w.freed /\ v.node = w.node /\ v.deliv = w.deliv
      /\ v.accepted = w.accepted /\ v.state = w.state
  BY <1>4, NewCommandsSound DEF Good, v
<1>6. k \in DOMAIN v.cmd \ DOMAIN w.cmd /\ Awaited(v, k) BY <1>3, <1>5 DEF Awaited
<1>7. IF a = "deliver" THEN Sent(v, n) ELSE Served(v, n) BY <1>2, <1>6 DEF Sent, Served
<1>8. \E x \in DOMAIN v.cmd \ DOMAIN w.cmd : x[1] = n /\ x[2] = a /\ Awaited(v, x) BY <1>2, <1>6
<1> QED BY <1>1, <1>5, <1>7, <1>8 DEF SameRows

\* The commands of nodes of the latest revision, and of reviews.
LEMMA QueueForNodesSound ==
    ASSUME NEW w, Shape(w), Sound(w), NEW S \in SUBSET DOMAIN w.node,
           \A n \in S : n[1] = Rev(w) \/ n[2] = Review
    PROVE  LET v == QueueForNodes(w, S) IN
           /\ Sound(v) /\ Serves(w, v) /\ SameRows(w, v)
           /\ \A n \in S : Served(v, n)
<1> DEFINE key(n) == <<n, ActionOf(w, n), Cardinality(CommandsOf(w, n, ActionOf(w, n)))>>
           new == {key(n) : n \in S}
           f == [k \in new |-> Pending(k[1][1])]
           v == [w EXCEPT !.cmd = Merge(@, f)]
<1>1. QueueForNodes(w, S) = v BY DEF QueueForNodes
<1>2. \A n \in S : /\ ActionOf(w, n) \in {"review", "plan", "dispatch"}
                   /\ ActionOf(w, n) = "review" <=> n[2] = Review
                   /\ ActionOf(w, n) = "plan" => w.plans[n[1]].wave # {}
  BY DEF ActionOf
<1>3. ASSUME NEW k \in new
      PROVE  /\ k = <<k[1], k[2], Cardinality(CommandsOf(w, k[1], k[2]))>>
             /\ k[1] \in S /\ k[2] = ActionOf(w, k[1])
  <2>1. PICK n \in S : k = key(n) OBVIOUS
  <2> QED BY <2>1
<1>4. DOMAIN f = new /\ \A k \in new : f[k].st = "pending" /\ f[k].base = k[1][1] BY DEF Pending
<1>5. \A n \in S : key(n) \in new /\ key(n)[1] = n /\ key(n)[2] # "deliver" BY <1>2
<1> HIDE DEF new, f, v, key
<1>6. ASSUME NEW k \in DOMAIN f
      PROVE  /\ k = <<k[1], k[2], Cardinality(CommandsOf(w, k[1], k[2]))>>
             /\ k[1] \in DOMAIN w.node \cup {PlanNode}
             /\ f[k].st = "pending"
             /\ k[2] = "plan" => /\ f[k].base \in Nat /\ f[k].base <= Rev(w)
                                 /\ \/ Waves(w) \/ f[k].base < Rev(w)
                                    \/ \A n \in Reviews(w) : w.node[n].st # "queued"
             /\ k[2] = "review" => k[1] \in Reviews(w) /\ f[k].base = k[1][1]
             /\ k[2] = "deliver" => k[1] \in DOMAIN w.node
  <2>1. k \in new /\ k[1] \in S /\ k[1] \in DOMAIN w.node BY <1>3, <1>4
  <2>2. k[1][1] \in DOMAIN w.plans /\ Rev(w) \in Nat BY <2>1 DEF Shape, Rev
  <2>3. k[2] = "plan" => k[1][1] = Rev(w) /\ Waves(w) BY <1>2, <1>3, <2>1, <2>2 DEF Waves
  <2>4. k[2] = "review" => k[1] \in Reviews(w) BY <1>2, <1>3, <2>1 DEF Reviews
  <2> QED BY <1>3, <1>4, <2>1, <2>2, <2>3, <2>4
<1>7. /\ Sound(v) /\ Serves(w, v)
      /\ DOMAIN f \subseteq DOMAIN v.cmd /\ \A x \in DOMAIN f : v.cmd[x].st = "pending" /\ x \notin DOMAIN w.cmd
      /\ v.plans = w.plans /\ v.freed = w.freed /\ v.node = w.node /\ v.deliv = w.deliv
      /\ v.accepted = w.accepted /\ v.state = w.state
  BY <1>6, NewCommandsSound DEF v
<1>8. \A n \in S : Served(v, n) BY <1>4, <1>5, <1>7 DEF Served, Awaited
<1> QED BY <1>1, <1>7, <1>8 DEF SameRows

\* A command is closed, or queued again.
LEMMA SetCommandSound ==
    ASSUME NEW w, Good(w), Sound(w), NEW k, NEW st, st \in {"done", "cancelled", "pending"}
    PROVE  LET v == SetCommand(w, k, st) IN
           /\ Sound(v) /\ SameRows(w, v)
           /\ \A n : Served(w, n) /\ (n # k[1] \/ k[2] = "deliver" \/ st = "pending") => Served(v, n)
           /\ \A n : Sent(w, n) /\ (n # k[1] \/ k[2] # "deliver" \/ st = "pending") => Sent(v, n)
<1> DEFINE v == SetCommand(w, k, st)
<1>1. /\ v.plans = w.plans /\ v.freed = w.freed /\ v.node = w.node /\ v.deliv = w.deliv
      /\ v.accepted = w.accepted /\ v.state = w.state
      /\ DOMAIN v.cmd = DOMAIN w.cmd
      /\ \A m \in DOMAIN w.cmd : /\ v.cmd[m].st = IF m = k THEN st ELSE w.cmd[m].st
                                 /\ v.cmd[m].base = w.cmd[m].base
  BY SetFacts
<1> HIDE DEF v
<1>2. \A n, a : CommandsOf(v, n, a) = CommandsOf(w, n, a) BY <1>1 DEF CommandsOf
<1>3. Rev(v) = Rev(w) /\ Reviews(v) = Reviews(w) BY <1>1 DEF Rev, Reviews
<1>4. Numbered(v) BY <1>1, <1>2 DEF Sound, Numbered
<1>5. Based(v) BY <1>1, <1>3 DEF Sound, Based
<1>6. Replanned(v) BY <1>1, <1>3 DEF Sound, Replanned, Waves
<1>7. Sound(v) BY <1>1, <1>4, <1>5, <1>6, CommandsSound
<1>8. \A j \in DOMAIN w.cmd : Awaited(w, j) /\ (j # k \/ st = "pending") => Awaited(v, j) BY <1>1 DEF Awaited
<1>9. \A n : Served(w, n) /\ (n # k[1] \/ k[2] = "deliver" \/ st = "pending") => Served(v, n) BY <1>1, <1>8 DEF Served
<1>10. \A n : Sent(w, n) /\ (n # k[1] \/ k[2] # "deliver" \/ st = "pending") => Sent(v, n) BY <1>1, <1>8 DEF Sent
<1> QED BY <1>1, <1>7, <1>9, <1>10 DEF SameRows, v

\* What reads the nodes reads them alike.
LEMMA RowsAlike ==
    ASSUME NEW w, NEW v, SameRows(w, v)
    PROVE  /\ Rev(v) = Rev(w) /\ Reviews(v) = Reviews(w) /\ NodesOf(v, Rev(v)) = NodesOf(w, Rev(w))
           /\ \A n : Unblocked(v, n) = Unblocked(w, n) /\ Deps(v, n) = Deps(w, n)
           /\ \A n : Open(v, n) = Open(w, n) /\ Optional(v, n) = Optional(w, n)
           /\ Waves(v) = Waves(w) /\ Live(v) = Live(w) /\ Terminal(v) = Terminal(w)
           /\ Refused(v) = Refused(w) /\ (Pursued(w) => Pursued(v)) /\ (Reviewed(w) => Reviewed(v))
<1>1. /\ Rev(v) = Rev(w) /\ Reviews(v) = Reviews(w) /\ NodesOf(v, Rev(v)) = NodesOf(w, Rev(w))
      /\ \A n : Unblocked(v, n) = Unblocked(w, n) /\ Deps(v, n) = Deps(w, n)
      /\ \A n : Open(v, n) = Open(w, n) /\ Optional(v, n) = Optional(w, n)
      /\ Waves(v) = Waves(w) /\ Live(v) = Live(w) /\ Terminal(v) = Terminal(w)
  BY DEF SameRows, Rev, Reviews, NodesOf, Unblocked, Deps, Open, Optional, Waves, Live, Terminal
<1>2. Refused(v) = Refused(w) BY <1>1 DEF SameRows, Refused
<1>3. Pursued(w) => Pursued(v) BY <1>1 DEF SameRows, Pursued
<1>4. Reviewed(w) => Reviewed(v) BY <1>1, <1>2 DEF SameRows, Reviewed
<1> QED BY <1>1, <1>2, <1>3, <1>4

\* Commands that keep serving keep the rows steady.
LEMMA ServesSteady ==
    ASSUME NEW w, NEW v, Steady(w), Sound(v), SameRows(w, v), Serves(w, v)
    PROVE  Steady(v)
<1>1. Driven(v) BY RowsAlike DEF Steady, Driven, Serves, SameRows
<1>2. Sending(v) BY DEF Steady, Sending, Serves, SameRows
<1> QED BY <1>1, <1>2 DEF Steady

\* Nodes that run or close, and no verdict without its acceptance.
LEMMA NodesSound ==
    ASSUME NEW w, NEW v, Sound(w), v.plans = w.plans, v.cmd = w.cmd,
           DOMAIN v.node = DOMAIN w.node,
           \A m \in DOMAIN w.node : /\ v.node[m].st = "queued" => w.node[m].st = "queued"
                                    /\ Open(v, m) => Open(w, m),
           \A n \in Reviews(w) : /\ v.node[n].st \in ReviewStates
                                 /\ n[1] = Rev(w) /\ v.node[n].st = "succeeded" => Rev(w) \in v.accepted,
           Skips(v), Inherited(v)
    PROVE  Sound(v)
<1>1. Rev(v) = Rev(w) /\ Reviews(v) = Reviews(w) /\ Waves(v) = Waves(w) BY DEF Rev, Reviews, Waves
<1>2. \A n, a : CommandsOf(v, n, a) = CommandsOf(w, n, a) BY DEF CommandsOf
<1>3. Planned(v) BY DEF Sound, Planned
<1>4. Numbered(v) BY <1>2 DEF Sound, Numbered
<1>5. Based(v) BY <1>1 DEF Sound, Based, Reviews
<1>6. OldWork(v) BY <1>1 DEF Sound, OldWork
<1>7. Verdicts(v) BY <1>1 DEF Sound, Verdicts, Reviews
<1>8. Replanned(v) BY <1>1 DEF Sound, Replanned, Reviews
<1> QED BY <1>3, <1>4, <1>5, <1>6, <1>7, <1>8 DEF Sound

\* A node of the latest revision that runs or could run, and is served, in any rows of the same commands.
LEMMA DrivenFrame ==
    ASSUME NEW w, NEW v, Driven(w), v.plans = w.plans, v.cmd = w.cmd, v.freed = w.freed,
           DOMAIN v.node = DOMAIN w.node,
           \A m \in DOMAIN w.node : \/ v.node[m].st = w.node[m].st \/ v.node[m].st \notin OpenNode
                                    \/ Served(w, m)
    PROVE  Driven(v)
<1>1. \A n : Unblocked(v, n) = Unblocked(w, n) BY DEF Unblocked, Deps
<1>2. \A n : Served(v, n) = Served(w, n) BY DEF Served, Awaited
<1>3. Rev(v) = Rev(w) /\ NodesOf(v, Rev(v)) = NodesOf(w, Rev(w)) BY DEF Rev, NodesOf
<1> QED BY <1>1, <1>2, <1>3 DEF Driven, NodesOf, OpenNode

\* Work that is open closes.
LEMMA CloseWorkSteady ==
    ASSUME NEW w, Good(w), Steady(w), NEW n \in DOMAIN w.node, n[2] # Review, Open(w, n),
           NEW st \in {"succeeded", "failed"}
    PROVE  Steady(SetNode(w, n, st))
<1> DEFINE v == SetNode(w, n, st)
<1>1. /\ v.plans = w.plans /\ v.freed = w.freed /\ v.cmd = w.cmd /\ v.deliv = w.deliv /\ v.accepted = w.accepted
      /\ DOMAIN v.node = DOMAIN w.node
      /\ \A m \in DOMAIN w.node : v.node[m].st = IF m = n THEN st ELSE w.node[m].st
  BY SetFacts
<1> HIDE DEF v
<1>2. Rev(v) = Rev(w) /\ NodesOf(v, Rev(v)) = NodesOf(w, Rev(w)) /\ Reviews(v) = Reviews(w)
  BY <1>1 DEF Rev, NodesOf, Reviews
<1>3. \A m \in DOMAIN w.node : /\ v.node[m].st = "queued" => w.node[m].st = "queued"
                               /\ Open(v, m) => Open(w, m)
  BY <1>1 DEF Open, OpenNode
<1>4. \A m \in Reviews(w) : v.node[m].st = w.node[m].st BY <1>1 DEF Reviews
<1>5. \A m \in Reviews(w) : Open(v, m) = Open(w, m) BY <1>4 DEF Open
<1>6. Skips(v)
  <2> SUFFICES ASSUME NEW m \in NodesOf(w, Rev(w)), v.node[m].st = "skipped"
               PROVE  \E x \in NodesOf(w, Rev(w)) : v.node[x].st = "failed" /\ ~Optional(v, x)
    BY <1>2 DEF Skips
  <2>1. w.node[m].st = "skipped" BY <1>1 DEF NodesOf
  <2>2. PICK x \in NodesOf(w, Rev(w)) : w.node[x].st = "failed" /\ ~Optional(w, x) BY <2>1 DEF Steady, Sound, Skips
  <2>3. x # n BY <2>2 DEF Open, OpenNode
  <2> QED BY <1>1, <2>2, <2>3 DEF NodesOf, Optional
<1>7. Inherited(v) BY <1>1, <1>2, <1>4, <1>5 DEF Steady, Sound, Inherited
<1>8. \A m \in Reviews(w) : /\ v.node[m].st \in ReviewStates
                            /\ m[1] = Rev(w) /\ v.node[m].st = "succeeded" => Rev(w) \in v.accepted
  BY <1>1, <1>4 DEF Steady, Sound, Verdicts
<1>9. Sound(v) BY <1>1, <1>3, <1>6, <1>7, <1>8, NodesSound DEF Steady
<1>10. Driven(v)
  <2>1. \A m \in DOMAIN w.node : v.node[m].st = w.node[m].st \/ v.node[m].st \notin OpenNode BY <1>1 DEF OpenNode
  <2> QED BY <1>1, <2>1, DrivenFrame DEF Steady
<1>11. Sending(v) BY <1>1 DEF Steady, Sending, Sent, Awaited
<1> QED BY <1>9, <1>10, <1>11 DEF Steady, v

\* The nodes that a settled one unblocks are served.
LEMMA ReleaseSteady ==
    ASSUME NEW w, Good(w), Steady(w), NEW n \in DOMAIN w.node, n[2] # Review, Settled(w, n)
    PROVE  LET v == ReleaseDependents(w, n) IN
           /\ Steady(v) /\ v.plans = w.plans /\ v.node = w.node /\ v.accepted = w.accepted /\ v.state = w.state
           /\ v.deliv = w.deliv
<1> DEFINE u == [w EXCEPT !.freed = @ \cup {n}]
           S == {m \in NodesOf(u, n[1]) : u.node[m].st = "queued" /\ n \in Deps(u, m) /\ Unblocked(u, m)}
           T == {m \in S : m[1] = Rev(u) \/ m[2] = Review}
           v == QueueForNodes(u, S)
<1>1. DOMAIN w = Fields BY DEF Good, Shape
<1>2. /\ u.plans = w.plans /\ u.node = w.node /\ u.cmd = w.cmd /\ u.deliv = w.deliv
      /\ u.accepted = w.accepted /\ u.state = w.state /\ u.freed = w.freed \cup {n}
  BY <1>1 DEF Fields
<1>3. ReleaseDependents(w, n) = v BY DEF ReleaseDependents
<1>4. Good(u) BY FreeingApplies DEF Applies
<1> HIDE DEF u
<1>5. Rev(u) = Rev(w) /\ Reviews(u) = Reviews(w) /\ NodesOf(u, Rev(u)) = NodesOf(w, Rev(w)) BY <1>2 DEF Rev, Reviews, NodesOf
<1>6. \A m, a : CommandsOf(u, m, a) = CommandsOf(w, m, a) BY <1>2 DEF CommandsOf
<1>7. Sound(u)
  <2>1. Numbered(u) BY <1>2, <1>6 DEF Steady, Sound, Numbered
  <2>2. Based(u) BY <1>2, <1>5 DEF Steady, Sound, Based
  <2>3. Replanned(u) BY <1>2, <1>5 DEF Steady, Sound, Replanned, Waves
  <2> QED BY <1>2, <2>1, <2>2, <2>3, CommandsSound DEF Steady
<1>8. S \in SUBSET DOMAIN u.node /\ \A m \in S : m[1] = Rev(u) \/ m[2] = Review
  <2> SUFFICES ASSUME NEW m \in S, m[2] # Review PROVE m[1] = Rev(u)
    BY DEF NodesOf
  <2>1. m \in DOMAIN u.node /\ Open(u, m) BY DEF NodesOf, Open, OpenNode
  <2> QED BY <1>7, <2>1 DEF Sound, OldWork
<1>9. \A m \in NodesOf(w, Rev(w)) : w.node[m].st = "queued" /\ Unblocked(u, m) => m \in S \/ Unblocked(w, m)
  <2> TAKE m \in NodesOf(w, Rev(w))
  <2> HAVE w.node[m].st = "queued" /\ Unblocked(u, m)
  <2>1. Deps(u, m) = Deps(w, m) /\ m \in DOMAIN w.node /\ m[1] = Rev(w) BY <1>2 DEF Deps, NodesOf
  <2>2. CASE n \notin Deps(u, m) BY <1>2, <2>1, <2>2 DEF Unblocked
  <2>3. CASE n \in Deps(u, m)
    <3>1. n[1] = m[1] BY <2>3 DEF Deps
    <3> QED BY <1>2, <2>1, <2>3, <3>1 DEF NodesOf
  <2> QED BY <2>2, <2>3
<1> HIDE DEF S, v
<1>10. /\ Sound(v) /\ Serves(u, v) /\ SameRows(u, v) /\ \A m \in S : Served(v, m)
  BY <1>4, <1>7, <1>8, QueueForNodesSound DEF Good, v
<1>11. \A m : (Served(w, m) => Served(v, m)) /\ (Sent(w, m) => Sent(v, m))
  BY <1>2, <1>10 DEF Serves, Served, Sent, Awaited
<1>12. Driven(v)
  <2>1. NodesOf(v, Rev(v)) = NodesOf(w, Rev(w)) /\ v.node = w.node BY <1>2, <1>5, <1>10, RowsAlike DEF SameRows
  <2>2. \A m : Unblocked(v, m) = Unblocked(u, m) BY <1>10, RowsAlike
  <2> QED BY <1>9, <1>10, <1>11, <2>1, <2>2 DEF Steady, Driven
<1>13. Sending(v) BY <1>2, <1>10, <1>11 DEF Steady, Sending, SameRows
<1> QED BY <1>2, <1>3, <1>10, <1>12, <1>13 DEF Steady, SameRows

-----------------------------------------------------------------------------
(* What an applier makes of a live run.                                    *)

\* An applier opens no node that was closed.
Shuts(w, v) == \A n \in DOMAIN w.node : Open(v, n) => Open(w, n)
Fits(w, v) == Fit(v) /\ Shuts(w, v)

\* Every revision has work, and a review is none of it.
LEMMA PlansHaveWork ==
    ASSUME NEW w, Good(w), Planned(w), NEW r \in DOMAIN w.plans
    PROVE  /\ \E n \in NodesOf(w, r) : n[2] \in w.plans[r].work
           /\ Review \notin w.plans[r].opt /\ Review \notin Work(w.plans[r])
<1>1. w.plans[r] \in Plans \cup {ShaPlan} BY RevFacts
<1>2. /\ w.plans[r].work # {} /\ w.plans[r].work \cup w.plans[r].wave \subseteq Labels
      /\ w.plans[r].opt \subseteq w.plans[r].work /\ Review \notin Labels
  BY <1>1, WorkflowAssumption DEF Review
<1>3. PICK l \in w.plans[r].work : TRUE BY <1>2
<1>4. <<r, l>> \in DOMAIN w.node BY <1>3 DEF Planned, Work
<1>5. <<r, l>> \in NodesOf(w, r) /\ <<r, l>>[2] = l BY <1>4 DEF NodesOf
<1> QED BY <1>2, <1>3, <1>5 DEF Work

\* A run whose latest revision and its reviews have ended without a failure was
\* accepted, has planning nodes, or was refused by the review of an earlier one.
LEMMA EndedIsReviewed ==
    ASSUME NEW w, Good(w), Sound(w), Rev(w) > 0,
           \A n \in NodesOf(w, Rev(w)) : ~Open(w, n),
           \A n \in DOMAIN w.node : n[1] <= Rev(w) /\ n[2] = Review => w.node[n].st # "running",
           \A n \in NodesOf(w, Rev(w)) : w.node[n].st = "failed" => Optional(w, n)
    PROVE  Rev(w) \in w.accepted \/ Waves(w) \/ Refused(w)
<1> SUFFICES ASSUME ~Waves(w) PROVE Rev(w) \in w.accepted \/ Refused(w) OBVIOUS
<1>1. Rev(w) \in Nat /\ DOMAIN w.plans = 1 .. Rev(w) /\ Rev(w) \in DOMAIN w.plans BY RevFacts
<1>2. \A n \in DOMAIN w.node : n[1] \in 1 .. Rev(w) /\ n = <<n[1], n[2]>> BY <1>1 DEF Good, Shape, Sound, Planned
<1>3. Review \notin w.plans[Rev(w)].opt BY <1>1, PlansHaveWork DEF Sound
<1>4. CASE <<Rev(w), Review>> \in DOMAIN w.node
  <2> DEFINE n == <<Rev(w), Review>>
  <2>1. n \in Reviews(w) /\ n \in NodesOf(w, Rev(w)) /\ n[1] = Rev(w) /\ n[2] = Review BY <1>4 DEF Reviews, NodesOf
  <2>2. w.node[n].st \in {"succeeded", "failed", "skipped"} BY <2>1 DEF Sound, Verdicts, ReviewStates, Open
  <2>3. w.node[n].st # "failed" BY <1>3, <2>1 DEF Optional
  <2>4. w.node[n].st # "skipped" BY <2>1 DEF Sound, Skips
  <2> QED BY <2>1, <2>2, <2>3, <2>4 DEF Sound, Verdicts
<1>5. CASE <<Rev(w), Review>> \notin DOMAIN w.node
  <2>1. PICK n \in Reviews(w) : \/ Open(w, n) \/ w.node[n].st = "failed"
                                \/ w.node[n].st = "succeeded" /\ Rev(w) \in w.accepted
    BY <1>5 DEF Sound, Inherited
  <2>2. n \in DOMAIN w.node /\ n[2] = Review /\ n[1] \in 1 .. Rev(w) /\ n[1] # Rev(w) BY <1>2, <1>5 DEF Reviews
  <2>3. w.node[n].st # "running" BY <1>1, <2>2
  <2>4. w.node[n].st # "queued" BY <2>2 DEF Sound, Replanned
  <2>5. CASE w.node[n].st = "failed" BY <1>1, <2>2, <2>5 DEF Refused
  <2> QED BY <2>1, <2>3, <2>4, <2>5 DEF Open, OpenNode
<1> QED BY <1>4, <1>5

\* The terminal evaluation.
LEMMA EvaluateFits ==
    ASSUME NEW w, Good(w), Steady(w), Live(w), Rev(w) > 0
    PROVE  LET v == Evaluate(w, Rev(w)) IN
           /\ Fit(v)
           /\ v.plans = w.plans /\ v.freed = w.freed /\ v.node = w.node /\ v.deliv = w.deliv
           /\ v.accepted = w.accepted /\ v.cmd = w.cmd
<1> DEFINE r == Rev(w)
           v == Evaluate(w, r)
           ns == NodesOf(w, r)
           p  == w.plans[r]
           failed == {n \in ns : w.node[n].st = "failed" /\ n[2] \notin p.opt}
           busy == \/ \E n \in ns : Open(w, n)
                   \/ \E n \in DOMAIN w.node : n[1] <= r /\ n[2] = Review /\ w.node[n].st = "running"
                   \/ \E n \in DOMAIN w.deliv : w.deliv[n].out = "pending"
<1>1. /\ v.plans = w.plans /\ v.freed = w.freed /\ v.node = w.node /\ v.deliv = w.deliv
      /\ v.accepted = w.accepted /\ v.cmd = w.cmd /\ v.state = EvaluateTerminal(w, r)
  BY SetFacts DEF Evaluate
<1>2. r \in DOMAIN w.plans BY RevFacts
<1>3. ns # {} BY <1>2, PlansHaveWork DEF Steady, Sound
<1>4. busy => v.state = w.state BY <1>1, <1>3 DEF EvaluateTerminal
<1>5. ~busy => \/ v.state = "failed"
               \/ v.state = "succeeded" /\ (failed = {} \/ p.partial)
  BY <1>1, <1>3 DEF EvaluateTerminal
<1>6. w.state \in LiveStates /\ w.state # "succeeded" /\ w.state # "none" BY DEF Live, LiveStates
<1> SUFFICES Fit(v) BY <1>1
<1> HIDE DEF v
<1>7. Rev(v) = r /\ NodesOf(v, Rev(v)) = ns /\ Reviews(v) = Reviews(w) /\ Waves(v) = Waves(w) /\ Refused(v) = Refused(w)
  BY <1>1 DEF Rev, NodesOf, Reviews, Waves, Refused
<1>8. CASE busy
  <2>1. v.state = w.state BY <1>4, <1>8
  <2>2. Steady(v) BY <1>1, SteadyFrame
  <2>3. Pursued(v) BY <1>1, <1>7, <1>8 DEF Pursued, Reviews, Open
  <2>4. Planning(v) BY <1>7, RevFacts DEF Planning
  <2> QED BY <1>1, <1>6, <2>1, <2>2, <2>3, <2>4 DEF Fit, Reviewed
<1>9. CASE ~busy
  <2>1. CASE v.state = "failed"
    <3>1. ~Live(v) BY <2>1 DEF Live, LiveStates
    <3> QED BY <1>1, <2>1, <3>1 DEF Fit, Reviewed, TerminalStates
  <2>2. CASE v.state = "succeeded"
    <3>1. ~Live(v) BY <2>2 DEF Live, LiveStates
    <3>2. failed = {} \/ p.partial BY <1>5, <1>9, <2>2
    <3>3. CASE failed = {}
      <4>1. \A n \in NodesOf(w, Rev(w)) : w.node[n].st = "failed" => Optional(w, n) BY <3>3 DEF Optional, NodesOf
      <4>2. Rev(w) \in w.accepted \/ Waves(w) \/ Refused(w) BY <1>9, <4>1, EndedIsReviewed DEF Steady
      <4> QED BY <1>1, <1>7, <2>2, <3>1, <4>2 DEF Fit, Reviewed, TerminalStates
    <3>4. CASE p.partial
      BY <1>1, <1>7, <2>2, <3>1, <3>4 DEF Fit, Reviewed, TerminalStates
    <3> QED BY <3>2, <3>3, <3>4
  <2> QED BY <1>5, <1>9, <2>1, <2>2
<1> QED BY <1>8, <1>9

\* Rows of a live run that are served as before.
LEMMA FitFrame ==
    ASSUME NEW w, NEW v, Fit(w), Live(w), Sound(v), SameRows(w, v), Serves(w, v), Rev(w) # 0
    PROVE  Fits(w, v)
<1>1. Steady(v) /\ Pursued(v) /\ Reviewed(v) BY ServesSteady, RowsAlike DEF Fit
<1>2. Planning(v) BY RowsAlike DEF Planning
<1>3. v.state = w.state /\ v.node = w.node /\ w.state \in LiveStates /\ w.state # "none"
  BY DEF SameRows, Live, LiveStates
<1> QED BY <1>1, <1>2, <1>3 DEF Fits, Fit, Shuts, Open

\* The evaluation that sends an earlier review back to work.
LEMMA SettleFits ==
    ASSUME NEW w, Good(w), Steady(w), Live(w), Rev(w) > 0
    PROVE  LET v == SettleWithReReview(w, Rev(w)) IN Fit(v) /\ v.node = w.node
<1> DEFINE u == Evaluate(w, Rev(w))
           v == SettleWithReReview(w, Rev(w))
<1>1. /\ Fit(u) /\ u.node = w.node /\ u.plans = w.plans
  BY EvaluateFits
<1>2. Good(u) BY StateApplies DEF Applies
<1>3. Rev(u) = Rev(w) BY <1>1 DEF Rev
<1>4. v = IF Terminal(u) THEN u ELSE MaybeQueueReReview(u) BY DEF SettleWithReReview
<1>5. v = u \/ (~Terminal(u) /\ v = QueueForNodes(u, StrandedReviews(u))) BY <1>4 DEF MaybeQueueReReview
<1> HIDE DEF u, v
<1>6. CASE v = u BY <1>1, <1>6 DEF v
<1>7. CASE ~Terminal(u) /\ v = QueueForNodes(u, StrandedReviews(u))
  <2>1. u.plans # <<>> BY <1>3, RevFacts DEF Rev
  <2>2. u.state # "none"
    <3>1. Absent.plans = <<>> BY DEF Absent
    <3> QED BY <1>1, <2>1, <3>1 DEF Fit
  <2>3. Live(u) BY <1>1, <1>7, <2>2 DEF Fit, Live, Terminal
  <2>4. StrandedReviews(u) \in SUBSET DOMAIN u.node /\ \A n \in StrandedReviews(u) : n[2] = Review BY DEF StrandedReviews
  <2>5. Sound(v) /\ Serves(u, v) /\ SameRows(u, v) BY <1>1, <1>2, <1>7, <2>3, <2>4, QueueForNodesSound DEF Good, Fit, Steady
  <2>6. Fits(u, v) BY <1>1, <1>3, <2>3, <2>5, FitFrame
  <2> QED BY <1>1, <2>5, <2>6 DEF Fits, SameRows, v
<1> QED BY <1>5, <1>6, <1>7

\* What waits for failed work is skipped.
LEMMA SkipSteady ==
    ASSUME NEW w, Good(w), Steady(w), NEW n \in NodesOf(w, Rev(w)), w.node[n].st = "failed", ~Optional(w, n)
    PROVE  LET v == SkipDependents(w, n) IN
           Steady(v) /\ v.plans = w.plans /\ v.state = w.state /\ v.node[n].st = "failed" /\ Shuts(w, v)
<1> DEFINE v == SkipDependents(w, n)
           S == Dependents(w, n)
<1>1. DOMAIN w = Fields /\ \A m \in DOMAIN w.node : DOMAIN w.node[m] = {"st", "card"} BY DEF Good, Shape
<1>2. \A m \in S : m \in NodesOf(w, Rev(w)) /\ w.node[m].st = "queued" BY DEF Dependents, NodesOf
<1>3. v = [w EXCEPT !.node = [m \in DOMAIN w.node |-> IF m \in S THEN [w.node[m] EXCEPT !.st = "skipped"] ELSE w.node[m]]]
  BY DEF SkipDependents
<1> HIDE DEF S
<1>4. /\ v.plans = w.plans /\ v.freed = w.freed /\ v.cmd = w.cmd /\ v.deliv = w.deliv
      /\ v.accepted = w.accepted /\ v.state = w.state
      /\ v.node = [m \in DOMAIN w.node |-> IF m \in S THEN [w.node[m] EXCEPT !.st = "skipped"] ELSE w.node[m]]
  BY <1>1, <1>3 DEF Fields
<1> HIDE DEF v
<1>5. /\ DOMAIN v.node = DOMAIN w.node
      /\ \A m \in DOMAIN w.node : v.node[m].st = IF m \in S THEN "skipped" ELSE w.node[m].st
  BY <1>1, <1>4
<1>6. Rev(v) = Rev(w) /\ NodesOf(v, Rev(v)) = NodesOf(w, Rev(w)) /\ Reviews(v) = Reviews(w)
  BY <1>4, <1>5 DEF Rev, NodesOf, Reviews
<1>7. \A m \in DOMAIN w.node : /\ v.node[m].st = "queued" => w.node[m].st = "queued"
                               /\ Open(v, m) => Open(w, m)
  BY <1>5 DEF Open, OpenNode
<1>8. n \in DOMAIN w.node /\ v.node[n].st = "failed" BY <1>2, <1>5 DEF NodesOf
<1>9. Skips(v) BY <1>4, <1>6, <1>8 DEF Skips, Optional
<1>10. Inherited(v)
  <2> SUFFICES ASSUME Rev(w) > 0, <<Rev(w), Review>> \notin DOMAIN w.node
               PROVE  \E m \in Reviews(w) : \/ Open(v, m) \/ v.node[m].st = "failed"
                                            \/ v.node[m].st = "succeeded" /\ Rev(w) \in v.accepted
    BY <1>5, <1>6 DEF Inherited
  <2>1. PICK m \in Reviews(w) : \/ Open(w, m) \/ w.node[m].st = "failed"
                                \/ w.node[m].st = "succeeded" /\ Rev(w) \in w.accepted
    BY DEF Steady, Sound, Inherited
  <2>2. m \in DOMAIN w.node /\ m = <<m[1], m[2]>> /\ m[2] = Review BY DEF Reviews, Steady, Sound, Planned
  <2>3. m \notin S BY <1>2, <2>2 DEF NodesOf
  <2>4. v.node[m].st = w.node[m].st BY <1>5, <2>2, <2>3
  <2> QED BY <1>4, <2>1, <2>4 DEF Open
<1>11. \A m \in Reviews(w) : /\ v.node[m].st \in ReviewStates
                             /\ m[1] = Rev(w) /\ v.node[m].st = "succeeded" => Rev(w) \in v.accepted
  BY <1>4, <1>5 DEF Steady, Sound, Verdicts, Reviews, ReviewStates
<1>12. Sound(v) BY <1>4, <1>5, <1>7, <1>9, <1>10, <1>11, NodesSound DEF Steady
<1>13. Driven(v)
  <2>1. \A m \in DOMAIN w.node : v.node[m].st = w.node[m].st \/ v.node[m].st \notin OpenNode BY <1>5 DEF OpenNode
  <2> QED BY <1>4, <1>5, <2>1, DrivenFrame DEF Steady
<1>14. Sending(v) BY <1>4 DEF Steady, Sending, Sent, Awaited
<1> QED BY <1>4, <1>7, <1>8, <1>12, <1>13, <1>14 DEF Steady, Shuts, v

\* An open node of a live run is work of its latest revision, unless it is a review.
LEMMA OpenWork ==
    ASSUME NEW w, Good(w), Fit(w), Live(w), NEW n \in DOMAIN w.node, Open(w, n), n[2] # Review
    PROVE  Steady(w) /\ n[1] = Rev(w) /\ n \in NodesOf(w, Rev(w)) /\ Rev(w) > 0
<1>1. Steady(w) BY DEF Fit
<1>2. n[1] = Rev(w) BY <1>1 DEF Steady, Sound, OldWork
<1>3. n[1] \in 1 .. Rev(w) /\ Rev(w) \in Nat BY RevFacts DEF Good, Shape
<1> QED BY <1>1, <1>2, <1>3 DEF NodesOf

\* The completion of a worker is accepted.
LEMMA SucceedNodeFits ==
    ASSUME NEW w, Good(w), Fit(w), Live(w), NEW n \in DOMAIN w.node, Open(w, n), n[2] # Review
    PROVE  Fits(w, SucceedNode(w, n)) /\ ~Open(SucceedNode(w, n), n)
<1> DEFINE v == SetNode(w, n, "succeeded")
           u == ReleaseDependents(v, n)
           x == SettleWithReReview(u, n[1])
<1>1. SucceedNode(w, n) = x BY DEF SucceedNode
<1>2. Steady(w) /\ n[1] = Rev(w) /\ Rev(w) > 0 BY OpenWork
<1>3. Good(v) BY SetNodeApplies DEF Applies
<1>4. /\ v.plans = w.plans /\ v.state = w.state /\ DOMAIN v.node = DOMAIN w.node
      /\ \A m \in DOMAIN w.node : v.node[m].st = IF m = n THEN "succeeded" ELSE w.node[m].st
  BY SetFacts
<1>5. Steady(v) BY <1>2, CloseWorkSteady
<1>6. v.freed = w.freed BY SetFacts
<1> HIDE DEF v
<1>7. n \in DOMAIN v.node /\ Settled(v, n) /\ n \notin v.freed BY <1>4, <1>6, FreedIsClosed DEF Settled
<1>8. Good(u) BY <1>3, <1>7, ReleaseApplies DEF Applies
<1>9. Steady(u) /\ u.plans = v.plans /\ u.node = v.node /\ u.state = v.state BY <1>3, <1>5, <1>7, ReleaseSteady
<1> HIDE DEF u
<1>10. Rev(u) = n[1] /\ Rev(u) > 0 /\ Live(u) BY <1>2, <1>4, <1>9 DEF Rev, Live
<1>11. Fit(x) /\ x.node = u.node BY <1>8, <1>9, <1>10, SettleFits
<1> HIDE DEF x
<1>12. Shuts(w, x) /\ ~Open(x, n) BY <1>4, <1>9, <1>11 DEF Shuts, Open, OpenNode
<1> QED BY <1>1, <1>11, <1>12 DEF Fits

\* The failure of a worker: another round of its node is queued.
LEMMA RetryFits ==
    ASSUME NEW w, Good(w), Fit(w), Live(w), NEW n \in DOMAIN w.node, Open(w, n), n[2] # Review
    PROVE  Fits(w, QueueCommand(SetNode(Spend(w, "work_retry"), n, "running"), n, "dispatch", n[1]))
<1> DEFINE b == Spend(w, "work_retry")
           s == SetNode(b, n, "running")
           v == QueueCommand(s, n, "dispatch", n[1])
<1>1. Steady(w) /\ n[1] = Rev(w) /\ n \in NodesOf(w, Rev(w)) /\ Rev(w) > 0 BY OpenWork
<1>2. Good(b) BY StateApplies DEF Applies
<1>3. /\ b.plans = w.plans /\ b.freed = w.freed /\ b.node = w.node /\ b.deliv = w.deliv
      /\ b.accepted = w.accepted /\ b.state = w.state /\ b.cmd = w.cmd
  BY SetFacts
<1> HIDE DEF b
<1>4. Steady(b) BY <1>1, <1>3, SteadyFrame
<1>5. n \notin b.freed BY <1>3, FreedIsClosed
<1>6. Good(s) BY <1>2, <1>5, SetNodeApplies DEF Applies
<1>7. /\ s.plans = b.plans /\ s.freed = b.freed /\ s.cmd = b.cmd /\ s.deliv = b.deliv
      /\ s.accepted = b.accepted /\ s.state = b.state /\ DOMAIN s.node = DOMAIN b.node
      /\ \A m \in DOMAIN b.node : s.node[m].st = IF m = n THEN "running" ELSE b.node[m].st
  BY <1>2, SetFacts
<1> HIDE DEF s
<1>8. Rev(s) = Rev(w) /\ NodesOf(s, Rev(s)) = NodesOf(w, Rev(w)) /\ Reviews(s) = Reviews(w)
  BY <1>3, <1>7 DEF Rev, NodesOf, Reviews
<1>9. /\ \A m \in DOMAIN b.node : /\ s.node[m].st = "queued" => b.node[m].st = "queued"
                                  /\ Open(s, m) <=> Open(b, m)
      /\ \A m \in Reviews(b) : s.node[m].st = b.node[m].st
  BY <1>3, <1>7 DEF Open, OpenNode, Reviews
<1>10. Skips(s)
  <2> SUFFICES ASSUME NEW m \in NodesOf(w, Rev(w)), s.node[m].st = "skipped"
               PROVE  \E x \in NodesOf(w, Rev(w)) : s.node[x].st = "failed" /\ ~Optional(s, x)
    BY <1>8 DEF Skips
  <2>1. w.node[m].st = "skipped" BY <1>3, <1>7 DEF NodesOf
  <2>2. PICK x \in NodesOf(w, Rev(w)) : w.node[x].st = "failed" /\ ~Optional(w, x) BY <1>1, <2>1 DEF Steady, Sound, Skips
  <2>3. x # n BY <2>2 DEF Open, OpenNode
  <2> QED BY <1>3, <1>7, <2>2, <2>3 DEF NodesOf, Optional
<1>11. Inherited(s) BY <1>3, <1>4, <1>7, <1>8, <1>9 DEF Steady, Sound, Inherited, Reviews, Rev
<1>12. \A m \in Reviews(b) : /\ s.node[m].st \in ReviewStates
                             /\ m[1] = Rev(b) /\ s.node[m].st = "succeeded" => Rev(b) \in s.accepted
  BY <1>4, <1>7, <1>9 DEF Steady, Sound, Verdicts
<1>13. Sound(s) BY <1>4, <1>7, <1>9, <1>10, <1>11, <1>12, NodesSound DEF Steady
<1>14. /\ Sound(v) /\ Serves(s, v) /\ SameRows(s, v) /\ Served(v, n)
  BY <1>3, <1>6, <1>7, <1>13, QueueCommandSound
<1> HIDE DEF v
<1>15. \A m : Served(w, m) => Served(v, m)
  <2>1. \A m : Served(w, m) => Served(s, m) BY <1>3, <1>7 DEF Served, Awaited
  <2> QED BY <1>14, <2>1 DEF Serves
<1>16. \A m : Unblocked(v, m) = Unblocked(w, m)
  <2>1. \A m : Unblocked(s, m) = Unblocked(w, m) BY <1>3, <1>7 DEF Unblocked, Deps
  <2> QED BY <1>14, <2>1, RowsAlike
<1>17. Rev(v) = Rev(w) /\ NodesOf(v, Rev(v)) = NodesOf(w, Rev(w)) BY <1>8, <1>14, RowsAlike
<1>18. \A m \in DOMAIN w.node : v.node[m].st = IF m = n THEN "running" ELSE w.node[m].st BY <1>3, <1>7, <1>14 DEF SameRows
<1>19. Driven(v) BY <1>1, <1>14, <1>15, <1>16, <1>17, <1>18 DEF Steady, Driven, NodesOf
<1>20. Sending(v)
  <2>1. v.deliv = w.deliv BY <1>3, <1>7, <1>14 DEF SameRows
  <2>2. \A m : Sent(w, m) => Sent(s, m) BY <1>3, <1>7 DEF Sent, Awaited
  <2> QED BY <1>1, <1>14, <2>1, <2>2 DEF Steady, Sending, Serves
<1>21. v.state = w.state BY <1>3, <1>7, <1>14 DEF SameRows
<1>22. Fit(v)
  <2>1. v.state \in LiveStates /\ v.state \notin {"none", "succeeded"} BY <1>21 DEF Live, LiveStates
  <2>2. Open(v, n) /\ n \in NodesOf(v, Rev(v)) BY <1>1, <1>17, <1>18 DEF Open, OpenNode
  <2>3. Pursued(v) BY <2>2 DEF Pursued
  <2>4. Planning(v) BY <1>1, <1>17, RevFacts DEF Planning
  <2> QED BY <1>14, <1>19, <1>20, <2>1, <2>3, <2>4 DEF Fit, Steady, Reviewed
<1>23. Shuts(w, v) BY <1>18 DEF Shuts, Open, OpenNode
<1> QED BY <1>22, <1>23 DEF Fits, v, s, b

\* The failure of a worker.
LEMMA FailNodeFits ==
    ASSUME NEW w, Good(w), Fit(w), Live(w), NEW n \in DOMAIN w.node, Open(w, n), n[2] # Review,
           NEW retrySafe \in BOOLEAN
    PROVE  Fits(w, FailNode(w, n, retrySafe)) /\ (~retrySafe => ~Open(FailNode(w, n, retrySafe), n))
<1> DEFINE f == SetNode(w, n, "failed")
           u == IF Optional(w, n) THEN ReleaseDependents(f, n) ELSE SkipDependents(f, n)
           x == SettleWithReReview(u, n[1])
           v == QueueCommand(SetNode(Spend(w, "work_retry"), n, "running"), n, "dispatch", n[1])
<1>1. FailNode(w, n, retrySafe) =
         IF ~Optional(w, n) /\ retrySafe /\ w.budget["work_retry"] > 0 THEN v ELSE x
  BY DEF FailNode
<1>2. Fits(w, v) BY RetryFits
<1> HIDE DEF v
<1>3. Steady(w) /\ n[1] = Rev(w) /\ n \in NodesOf(w, Rev(w)) /\ Rev(w) > 0 BY OpenWork
<1>4. n \notin w.freed BY FreedIsClosed
<1>5. Good(f) BY <1>4, SetNodeApplies DEF Applies
<1>6. /\ f.plans = w.plans /\ f.state = w.state /\ f.freed = w.freed /\ DOMAIN f.node = DOMAIN w.node
      /\ \A m \in DOMAIN w.node : f.node[m].st = IF m = n THEN "failed" ELSE w.node[m].st
  BY SetFacts
<1>7. Steady(f) BY <1>3, CloseWorkSteady
<1> HIDE DEF f
<1>8. Shuts(w, f) /\ n \in DOMAIN f.node /\ f.node[n].st = "failed" BY <1>6 DEF Shuts, Open, OpenNode
<1>9. Good(u) /\ Steady(u) /\ u.plans = f.plans /\ u.state = f.state /\ Shuts(f, u) /\ u.node[n].st = "failed"
  <2>1. CASE Optional(w, n)
    <3>1. Settled(f, n) BY <1>6, <1>8, <2>1 DEF Settled, Optional
    <3>2. Good(u) BY <1>4, <1>5, <1>6, <1>8, <2>1, <3>1, ReleaseApplies DEF Applies
    <3>3. Steady(u) /\ u.plans = f.plans /\ u.state = f.state /\ u.node = f.node
      BY <1>5, <1>7, <1>8, <2>1, <3>1, ReleaseSteady
    <3> QED BY <1>8, <3>2, <3>3 DEF Shuts, Open
  <2>2. CASE ~Optional(w, n)
    <3>1. Good(u) BY <1>5, <2>2, SkipApplies DEF Applies
    <3>2. n \in NodesOf(f, Rev(f)) /\ ~Optional(f, n) BY <1>3, <1>6, <2>2 DEF NodesOf, Rev, Optional
    <3> QED BY <1>5, <1>7, <1>8, <2>2, <3>1, <3>2, SkipSteady
  <2> QED BY <2>1, <2>2
<1> HIDE DEF u
<1>10. Rev(u) = n[1] /\ Rev(u) > 0 /\ Live(u) BY <1>3, <1>6, <1>9 DEF Rev, Live
<1>11. Fit(x) /\ x.node = u.node BY <1>9, <1>10, SettleFits
<1> HIDE DEF x
<1>12. Shuts(w, x) /\ ~Open(x, n) BY <1>6, <1>8, <1>9, <1>11 DEF Shuts, Open, OpenNode
<1> QED BY <1>1, <1>2, <1>11, <1>12 DEF Fits

\* A command is closed once nothing needs it any more, or queued again.
LEMMA DoneSteady ==
    ASSUME NEW w, Good(w), Steady(w), NEW k, NEW st, st \in {"done", "cancelled", "pending"},
           st # "pending" => /\ k[2] = "deliver" \/ k[1] \notin NodesOf(w, Rev(w)) \/ ~Open(w, k[1])
                             /\ k[2] = "deliver" /\ k[1] \in DOMAIN w.deliv => w.deliv[k[1]].out # "pending"
    PROVE  LET v == SetCommand(w, k, st) IN Steady(v) /\ SameRows(w, v)
<1> DEFINE v == SetCommand(w, k, st)
<1>1. /\ Sound(v) /\ SameRows(w, v)
      /\ \A n : Served(w, n) /\ (n # k[1] \/ k[2] = "deliver" \/ st = "pending") => Served(v, n)
      /\ \A n : Sent(w, n) /\ (n # k[1] \/ k[2] # "deliver" \/ st = "pending") => Sent(v, n)
  BY SetCommandSound DEF Steady
<1> HIDE DEF v
<1>2. Driven(v)
  <2> SUFFICES ASSUME NEW n \in NodesOf(w, Rev(w)), w.node[n].st = "running" \/ (w.node[n].st = "queued" /\ Unblocked(w, n))
               PROVE  Served(v, n)
    BY <1>1, RowsAlike DEF Driven, SameRows
  <2>1. Open(w, n) /\ Served(w, n) BY DEF Open, OpenNode, Steady, Driven
  <2> QED BY <1>1, <2>1
<1>3. Sending(v)
  <2> SUFFICES ASSUME NEW n \in DOMAIN w.deliv, w.deliv[n].out = "pending" PROVE Sent(v, n)
    BY <1>1 DEF Sending, SameRows
  <2> QED BY <1>1 DEF Steady, Sending
<1> QED BY <1>1, <1>2, <1>3 DEF Steady, v

\* A run that has ended stays as it ended.
LEMMA EndedFits ==
    ASSUME NEW w, NEW v, Fit(w), Terminal(w), v.state = w.state, v.plans = w.plans, v.accepted = w.accepted,
           \A n \in DOMAIN w.node :
              n \in DOMAIN v.node /\ (n[2] = Review /\ w.node[n].st = "failed" => v.node[n].st = "failed")
    PROVE  Fit(v)
<1>1. v.state \in TerminalStates /\ v.state # "none" /\ ~Live(v) BY DEF Terminal, Live, TerminalStates, LiveStates
<1>2. Rev(v) = Rev(w) /\ Waves(v) = Waves(w) /\ (Refused(w) => Refused(v)) BY DEF Rev, Waves, Refused
<1>3. Reviewed(v) BY <1>2 DEF Fit, Reviewed
<1> QED BY <1>1, <1>3 DEF Fit

\* A run that fails or is cancelled.
LEMMA FailedFits ==
    ASSUME NEW v, v.state \in {"failed", "cancelled"}
    PROVE  Fit(v)
BY DEF Fit, Live, LiveStates, TerminalStates, Reviewed

\* The states of a run.
LEMMA States ==
    ASSUME NEW w, Fit(w)
    PROVE  /\ w.state = "none" \/ Live(w) \/ Terminal(w)
           /\ Live(w) => w.state \notin {"none", "succeeded"} /\ ~Terminal(w)
           /\ Terminal(w) => w.state # "none" /\ ~Live(w)
BY DEF Fit, Live, Terminal, LiveStates, TerminalStates

\* Commands that only change otherwise than in their state.
LEMMA JobsFit ==
    ASSUME NEW w, NEW v, Fit(w), w.state # "none", SameRows(w, v), DOMAIN v.cmd = DOMAIN w.cmd,
           \A k \in DOMAIN w.cmd : v.cmd[k].st = w.cmd[k].st /\ v.cmd[k].base = w.cmd[k].base
    PROVE  Fits(w, v)
<1>1. Shuts(w, v) BY RowsAlike DEF Shuts
<1>2. CASE Terminal(w) BY <1>1, <1>2, EndedFits DEF SameRows, Fits
<1>3. CASE Live(w)
  <2>1. Steady(w) /\ Pursued(w) /\ Planning(w) BY <1>3 DEF Fit
  <2>2. \A n, a : CommandsOf(v, n, a) = CommandsOf(w, n, a) BY DEF CommandsOf
  <2>3. Rev(v) = Rev(w) /\ Reviews(v) = Reviews(w) /\ Waves(v) = Waves(w) BY RowsAlike
  <2>4. Numbered(v) BY <2>1, <2>2 DEF Steady, Sound, Numbered, SameRows
  <2>5. Based(v) BY <2>1, <2>3 DEF Steady, Sound, Based, SameRows
  <2>6. Replanned(v) BY <2>1, <2>3 DEF Steady, Sound, Replanned, SameRows
  <2>7. Sound(v) BY <2>1, <2>4, <2>5, <2>6, CommandsSound DEF Steady, SameRows
  <2>8. Serves(w, v) BY DEF Serves, Served, Sent, Awaited
  <2>9. Steady(v) BY <2>1, <2>7, <2>8, ServesSteady
  <2>10. Pursued(v) /\ Reviewed(v) BY <2>1, RowsAlike DEF Fit
  <2>11. Planning(v) BY <2>1, <2>3 DEF Planning, Awaited, SameRows
  <2>12. v.state = w.state BY DEF SameRows
  <2> QED BY <1>1, <2>9, <2>10, <2>11, <2>12 DEF Fits, Fit
<1> QED BY <1>2, <1>3, States

\* A command is closed or queued again.
LEMMA DoneFits ==
    ASSUME NEW w, Good(w), Fit(w), w.state # "none", NEW k, NEW st, st \in {"done", "pending"},
           Live(w) /\ st # "pending" =>
              /\ Rev(w) > 0 \/ k[2] # "plan"
              /\ k[2] = "deliver" \/ k[1] \notin NodesOf(w, Rev(w)) \/ ~Open(w, k[1])
              /\ k[2] = "deliver" /\ k[1] \in DOMAIN w.deliv => w.deliv[k[1]].out # "pending"
    PROVE  Fits(w, SetCommand(w, k, st))
<1> DEFINE v == SetCommand(w, k, st)
<1>1. /\ v.plans = w.plans /\ v.freed = w.freed /\ v.node = w.node /\ v.deliv = w.deliv
      /\ v.accepted = w.accepted /\ v.state = w.state /\ DOMAIN v.cmd = DOMAIN w.cmd
      /\ \A m \in DOMAIN w.cmd : v.cmd[m].st = IF m = k THEN st ELSE w.cmd[m].st
  BY SetFacts
<1>2. Live(w) => Steady(v) BY DoneSteady DEF Fit
<1> HIDE DEF v
<1>3. SameRows(w, v) BY <1>1 DEF SameRows
<1>4. Shuts(w, v) BY <1>3, RowsAlike DEF Shuts
<1>5. CASE Terminal(w) BY <1>1, <1>4, <1>5, EndedFits DEF Fits, v
<1>6. CASE Live(w)
  <2>1. Pursued(v) /\ Reviewed(v) BY <1>3, <1>6, RowsAlike DEF Fit
  <2>2. Planning(v)
    <3> SUFFICES ASSUME Rev(w) = 0
                 PROVE  \/ w.state = "admitted" /\ DOMAIN w.cmd = {}
                        \/ \E j \in DOMAIN w.cmd : j[2] = "plan" /\ Awaited(v, j)
      BY <1>1, <1>3, RowsAlike DEF Planning
    <3>1. ASSUME NEW j \in DOMAIN w.cmd, j[2] = "plan", Awaited(w, j) PROVE Awaited(v, j)
      <4>1. j # k \/ st = "pending" BY <1>6, <3>1
      <4> QED BY <1>1, <3>1, <4>1 DEF Awaited
    <3> QED BY <1>6, <3>1 DEF Fit, Planning
  <2>3. v.state \in LiveStates /\ v.state # "none" BY <1>1, <1>6 DEF Live, LiveStates
  <2> QED BY <1>2, <1>4, <1>6, <2>1, <2>2, <2>3 DEF Fits, Fit, v
<1> QED BY <1>5, <1>6, States

\* A review that runs comes to a verdict.
LEMMA CloseReview ==
    ASSUME NEW w, NEW v, Steady(w), NEW n \in Reviews(w), w.node[n].st = "running",
           NEW st \in {"succeeded", "failed"},
           v.plans = w.plans, v.freed = w.freed, v.cmd = w.cmd, w.accepted \subseteq v.accepted,
           st = "succeeded" => Rev(w) \in v.accepted,
           DOMAIN v.node = DOMAIN w.node,
           \A m \in DOMAIN w.node : v.node[m].st = IF m = n THEN st ELSE w.node[m].st
    PROVE  Sound(v) /\ Driven(v) /\ Shuts(w, v) /\ ~Open(v, n)
<1>1. n \in DOMAIN w.node /\ n[2] = Review BY DEF Reviews
<1>2. Rev(v) = Rev(w) /\ NodesOf(v, Rev(v)) = NodesOf(w, Rev(w)) /\ Reviews(v) = Reviews(w) BY DEF Rev, NodesOf, Reviews
<1>3. \A m \in DOMAIN w.node : /\ v.node[m].st = "queued" => w.node[m].st = "queued"
                               /\ Open(v, m) => Open(w, m)
  BY DEF Open, OpenNode
<1>4. ~Open(v, n) BY <1>1 DEF Open, OpenNode
<1>5. Skips(v)
  <2> SUFFICES ASSUME NEW m \in NodesOf(w, Rev(w)), v.node[m].st = "skipped"
               PROVE  \E x \in NodesOf(w, Rev(w)) : v.node[x].st = "failed" /\ ~Optional(v, x)
    BY <1>2 DEF Skips
  <2>1. w.node[m].st = "skipped" BY DEF NodesOf
  <2>2. PICK x \in NodesOf(w, Rev(w)) : w.node[x].st = "failed" /\ ~Optional(w, x) BY <2>1 DEF Steady, Sound, Skips
  <2>3. x # n BY <2>2
  <2> QED BY <2>2, <2>3 DEF NodesOf, Optional
<1>6. Inherited(v)
  <2> SUFFICES ASSUME Rev(w) > 0, <<Rev(w), Review>> \notin DOMAIN w.node
               PROVE  \E m \in Reviews(w) : \/ Open(v, m) \/ v.node[m].st = "failed"
                                            \/ v.node[m].st = "succeeded" /\ Rev(w) \in v.accepted
    BY <1>2 DEF Inherited
  <2> QED BY <1>1
<1>7. \A m \in Reviews(w) : /\ v.node[m].st \in ReviewStates
                            /\ m[1] = Rev(w) /\ v.node[m].st = "succeeded" => Rev(w) \in v.accepted
  BY DEF Steady, Sound, Verdicts, Reviews, ReviewStates
<1>8. Sound(v) BY <1>3, <1>5, <1>6, <1>7, NodesSound DEF Steady
<1>9. Driven(v)
  <2>1. \A m \in DOMAIN w.node : v.node[m].st = w.node[m].st \/ v.node[m].st \notin OpenNode BY DEF OpenNode
  <2> QED BY <2>1, DrivenFrame DEF Steady
<1> QED BY <1>3, <1>4, <1>8, <1>9 DEF Shuts

\* A pending command is claimed, and its node runs if it was open.
LEMMA ClaimFits ==
    ASSUME NEW w, NEW v, Fit(w), Live(w), NEW k \in DOMAIN w.cmd, w.cmd[k].st = "pending", k[2] # "deliver",
           v.plans = w.plans, v.freed = w.freed, v.deliv = w.deliv, v.accepted = w.accepted, v.state = w.state,
           DOMAIN v.cmd = DOMAIN w.cmd,
           \A j \in DOMAIN w.cmd : /\ v.cmd[j].st = IF j = k THEN "claimed" ELSE w.cmd[j].st
                                   /\ v.cmd[j].base = w.cmd[j].base,
           DOMAIN v.node = DOMAIN w.node,
           \A m \in DOMAIN w.node : \/ v.node[m].st = w.node[m].st
                                    \/ m = k[1] /\ Open(w, m) /\ v.node[m].st = "running",
           k[2] = "review" /\ k[1] \in DOMAIN w.node => v.node[k[1]].st # "queued"
    PROVE  Fits(w, v)
<1>1. Steady(w) /\ Pursued(w) /\ Planning(w) BY DEF Fit
<1>2. Rev(v) = Rev(w) /\ NodesOf(v, Rev(v)) = NodesOf(w, Rev(w)) /\ Reviews(v) = Reviews(w) BY DEF Rev, NodesOf, Reviews
<1>3. \A m \in DOMAIN w.node : /\ v.node[m].st = "queued" => w.node[m].st = "queued"
                               /\ w.node[m].st = "running" => v.node[m].st = "running"
                               /\ Open(v, m) <=> Open(w, m)
                               /\ v.node[m].st \notin {"queued", "running"} => v.node[m].st = w.node[m].st
                               /\ w.node[m].st \notin {"queued", "running"} => v.node[m].st = w.node[m].st
  BY DEF Open, OpenNode
<1>4. \A n, a : CommandsOf(v, n, a) = CommandsOf(w, n, a) BY DEF CommandsOf
<1>5. \A j \in DOMAIN w.cmd : Awaited(w, j) => Awaited(v, j) BY DEF Awaited
<1>6. Awaited(v, k) BY DEF Awaited
<1>7. Planned(v) BY <1>1 DEF Steady, Sound, Planned
<1>8. Numbered(v) BY <1>1, <1>4 DEF Steady, Sound, Numbered
<1>9. Based(v)
  <2> SUFFICES ASSUME NEW j \in DOMAIN w.cmd
               PROVE  /\ j[2] = "plan" => v.cmd[j].base \in Nat /\ v.cmd[j].base <= Rev(w)
                      /\ j[2] = "review" => /\ j[1] \in Reviews(w) /\ v.cmd[j].base = j[1][1]
                                            /\ v.cmd[j].st = "claimed" => v.node[j[1]].st # "queued"
                      /\ j[2] = "deliver" => j[1] \in DOMAIN w.node
    BY <1>2 DEF Based
  <2>1. j[2] = "review" => j[1] \in DOMAIN w.node BY <1>1 DEF Steady, Sound, Based, Reviews
  <2>2. j[2] = "review" /\ v.cmd[j].st = "claimed" => v.node[j[1]].st # "queued"
    <3>1. CASE j = k BY <2>1, <3>1
    <3>2. CASE j # k BY <1>1, <1>3, <2>1, <3>2 DEF Steady, Sound, Based
    <3> QED BY <3>1, <3>2
  <2> QED BY <1>1, <2>2 DEF Steady, Sound, Based
<1>10. OldWork(v) BY <1>1, <1>2, <1>3 DEF Steady, Sound, OldWork
<1>11. Verdicts(v) BY <1>1, <1>2, <1>3 DEF Steady, Sound, Verdicts, Reviews, ReviewStates, OpenNode
<1>12. Skips(v) BY <1>1, <1>2, <1>3 DEF Steady, Sound, Skips, NodesOf, Optional
<1>13. Replanned(v) BY <1>1, <1>2, <1>3 DEF Steady, Sound, Replanned, Waves, Reviews
<1>14. Inherited(v) BY <1>1, <1>2, <1>3 DEF Steady, Sound, Inherited, Reviews
<1>15. Driven(v)
  <2> SUFFICES ASSUME NEW m \in NodesOf(w, Rev(w)), v.node[m].st = "running" \/ (v.node[m].st = "queued" /\ Unblocked(v, m))
               PROVE  Served(v, m)
    BY <1>2 DEF Driven
  <2>1. CASE v.node[m].st = w.node[m].st
    <3>1. Unblocked(v, m) = Unblocked(w, m) BY DEF Unblocked, Deps
    <3>2. Served(w, m) BY <1>1, <2>1, <3>1 DEF Steady, Driven
    <3> QED BY <1>5, <3>2 DEF Served
  <2>2. CASE m = k[1] BY <1>6, <2>2 DEF Served
  <2> QED BY <2>1, <2>2 DEF NodesOf
<1>16. Sending(v) BY <1>1, <1>5 DEF Steady, Sending, Sent
<1>17. Pursued(v) BY <1>1, <1>2, <1>3 DEF Pursued, NodesOf, Reviews
<1>18. Planning(v) BY <1>1, <1>2, <1>5 DEF Planning
<1>19. Steady(v) BY <1>7, <1>8, <1>9, <1>10, <1>11, <1>12, <1>13, <1>14, <1>15, <1>16 DEF Steady, Sound
<1>20. v.state \in LiveStates /\ v.state \notin {"none", "succeeded"} BY DEF Live, LiveStates
<1>21. Shuts(w, v) BY <1>3 DEF Shuts
<1> QED BY <1>17, <1>18, <1>19, <1>20, <1>21 DEF Fits, Fit, Reviewed

\* A reviewer that returns finds its review running, and no other one queued.
LEMMA ClaimedReview ==
    ASSUME NEW w, Good(w), Fit(w), Live(w), NEW k \in DOMAIN w.cmd, k[2] = "review",
           w.cmd[k].st = "claimed", Open(w, k[1])
    PROVE  /\ Steady(w) /\ Rev(w) > 0 /\ Rev(w) \in Nat
           /\ k[1] \in Reviews(w) /\ k[1] \in DOMAIN w.node /\ w.node[k[1]].st = "running"
           /\ k[1] \notin w.freed
           /\ \A m \in Reviews(w) : w.node[m].st # "queued"
<1>1. Steady(w) BY DEF Fit
<1>2. k[1] \in Reviews(w) /\ w.node[k[1]].st # "queued" BY <1>1 DEF Steady, Sound, Based
<1>3. k[1] \in DOMAIN w.node /\ w.node[k[1]].st = "running" BY <1>2 DEF Reviews, Open, OpenNode
<1>4. \A m \in Reviews(w) : w.node[m].st # "queued"
  <2> SUFFICES ASSUME NEW m \in Reviews(w), w.node[m].st = "queued" PROVE FALSE OBVIOUS
  <2>1. Open(w, m) BY DEF Open, OpenNode
  <2>2. m = k[1] BY <1>1, <1>2, <2>1 DEF Steady, Sound, Verdicts
  <2> QED BY <1>2, <2>2
<1>5. Rev(w) > 0 /\ Rev(w) \in Nat
  <2>1. k[1][1] \in 1 .. Rev(w) /\ Rev(w) \in Nat BY <1>3, RevFacts DEF Good, Shape
  <2> QED BY <2>1
<1>6. k[1] \notin w.freed BY <1>3, FreedIsClosed
<1> QED BY <1>1, <1>2, <1>3, <1>4, <1>5, <1>6

\* A reviewer rejects.
LEMMA RejectReviewFits ==
    ASSUME NEW w, Good(w), Fit(w), Live(w), NEW k \in DOMAIN w.cmd, k[2] = "review",
           w.cmd[k].st = "claimed", Open(w, k[1])
    PROVE  Fits(w, RejectReview(w, k))
<1> DEFINE n == k[1]
           s == SetNode(w, n, "failed")
           c == SetCommand(s, k, "done")
           v == Evaluate(c, Rev(w))
<1>1. RejectReview(w, k) = v BY DEF RejectReview
<1>2. /\ Steady(w) /\ Rev(w) > 0
      /\ n \in Reviews(w) /\ n \in DOMAIN w.node /\ w.node[n].st = "running" /\ n \notin w.freed
  BY ClaimedReview
<1>3. Good(s) BY <1>2, SetNodeApplies DEF Applies
<1>4. /\ s.plans = w.plans /\ s.freed = w.freed /\ s.cmd = w.cmd /\ s.deliv = w.deliv
      /\ s.accepted = w.accepted /\ s.state = w.state /\ DOMAIN s.node = DOMAIN w.node
      /\ \A m \in DOMAIN w.node : s.node[m].st = IF m = n THEN "failed" ELSE w.node[m].st
  BY SetFacts
<1> HIDE DEF s
<1>5. Sound(s) /\ Driven(s) /\ Shuts(w, s) /\ ~Open(s, n) BY <1>2, <1>4, CloseReview
<1>6. Sending(s) BY <1>2, <1>4 DEF Steady, Sending, Sent, Awaited
<1>7. Steady(s) BY <1>5, <1>6 DEF Steady
<1>8. Good(c) BY <1>3, SetCommandApplies
<1>9. Steady(c) /\ SameRows(s, c) BY <1>3, <1>5, <1>7, DoneSteady
<1> HIDE DEF c
<1>10. Rev(c) = Rev(w) /\ Live(c) BY <1>4, <1>9 DEF SameRows, Rev, Live
<1>11. Fit(v) /\ v.node = c.node BY <1>2, <1>8, <1>9, <1>10, EvaluateFits
<1>12. Shuts(w, v) BY <1>5, <1>9, <1>11 DEF Shuts, SameRows, Open
<1> QED BY <1>1, <1>11, <1>12 DEF Fits

\* A reviewer accepts: the accepted output is on its way.
LEMMA AcceptFits ==
    ASSUME NEW w, Good(w), Fit(w), Live(w), NEW k \in DOMAIN w.cmd, k[2] = "review",
           w.cmd[k].st = "claimed", Open(w, k[1])
    PROVE  Fits(w, Accept(w, k))
<1> DEFINE n == k[1]
           d == IF n \in DOMAIN w.deliv THEN w.deliv[n] ELSE [out |-> "pending", tries |-> 0, sent |-> 0]
           s == SetNode(w, n, "succeeded")
           u == [s EXCEPT !.deliv = Merge([m \in {n} |-> d], @), !.accepted = @ \cup {Rev(w)}]
           q == QueueCommand(u, n, "deliver", Rev(w))
           c == SetCommand(q, k, "done")
           v == Evaluate(c, Rev(w))
<1>1. Accept(w, k) = v BY DEF Accept
<1>2. /\ Steady(w) /\ Rev(w) > 0
      /\ n \in Reviews(w) /\ n \in DOMAIN w.node /\ w.node[n].st = "running" /\ n[2] = Review
  BY ClaimedReview DEF Reviews
<1>3. Good(s) /\ DOMAIN s = Fields BY SetNodeApplies DEF Applies, Good, Shape
<1>4. /\ s.plans = w.plans /\ s.freed = w.freed /\ s.cmd = w.cmd /\ s.deliv = w.deliv
      /\ s.accepted = w.accepted /\ s.state = w.state /\ DOMAIN s.node = DOMAIN w.node
      /\ \A m \in DOMAIN w.node : s.node[m].st = IF m = n THEN "succeeded" ELSE w.node[m].st
  BY SetFacts
<1> HIDE DEF s
<1>5. /\ DOMAIN u = Fields /\ u.deliv = Merge([m \in {n} |-> d], s.deliv)
      /\ u.plans = s.plans /\ u.node = s.node /\ u.freed = s.freed /\ u.cmd = s.cmd
      /\ u.accepted = w.accepted \cup {Rev(w)} /\ u.state = s.state
  BY <1>3, <1>4 DEF Fields
<1>6. /\ DOMAIN d = {"out", "tries", "sent"}
      /\ d.sent \in {0, 1} /\ (d.out = "pending" => d.sent = 0)
  BY DEF Good, Shape, Deliveries
<1> HIDE DEF d, u
<1>7. \A m \in DOMAIN u.deliv : (m = n /\ u.deliv[m] = d) \/ (m \in DOMAIN w.deliv /\ u.deliv[m] = w.deliv[m])
  BY <1>4, <1>5 DEF Merge
<1>8. Good(u)
  <2>1. Deliveries(u) BY <1>6, <1>7 DEF Good, Deliveries
  <2>2. \A m \in DOMAIN u.deliv : DOMAIN u.deliv[m] = {"out", "tries", "sent"} BY <1>6, <1>7 DEF Good, Shape
  <2> QED BY <1>3, <1>5, <2>1, <2>2, DeliveriesApply DEF Applies
<1>9. Sound(u) /\ Driven(u) /\ Shuts(w, u) /\ ~Open(u, n) BY <1>2, <1>4, <1>5, CloseReview
<1>10. /\ Sound(q) /\ Serves(u, q) /\ SameRows(u, q) /\ Sent(q, n)
  BY <1>2, <1>4, <1>5, <1>8, <1>9, QueueCommandSound
<1>11. Good(q) BY <1>8, QueueCommandApplies DEF Applies
<1> HIDE DEF q
<1>12. Driven(q) BY <1>9, <1>10, RowsAlike DEF Driven, Serves, SameRows
<1>13. Sending(q)
  <2> SUFFICES ASSUME NEW m \in DOMAIN u.deliv, u.deliv[m].out = "pending", m # n PROVE Sent(q, m)
    BY <1>10 DEF Sending, SameRows
  <2>1. Sent(w, m) BY <1>2, <1>7 DEF Steady, Sending
  <2>2. Sent(u, m) BY <1>4, <1>5, <2>1 DEF Sent, Awaited
  <2> QED BY <1>10, <2>2 DEF Serves
<1>14. Steady(q) BY <1>10, <1>12, <1>13 DEF Steady
<1>15. ~Open(q, n) BY <1>9, <1>10, RowsAlike
<1>16. Good(c) BY <1>11, SetCommandApplies
<1>17. Steady(c) /\ SameRows(q, c) BY <1>11, <1>14, <1>15, DoneSteady
<1> HIDE DEF c
<1>18. Rev(c) = Rev(w) /\ Live(c) BY <1>4, <1>5, <1>10, <1>17 DEF SameRows, Rev, Live
<1>19. Fit(v) /\ v.node = c.node BY <1>2, <1>16, <1>17, <1>18, EvaluateFits
<1>20. Shuts(w, v) BY <1>9, <1>10, <1>17, <1>19 DEF Shuts, SameRows, Open
<1> QED BY <1>1, <1>19, <1>20 DEF Fits

\* A running review goes back to a planner, or to another reviewer.
LEMMA RepairFits ==
    ASSUME NEW w, Good(w), Fit(w), Live(w), NEW k \in DOMAIN w.cmd, k[2] = "review",
           w.cmd[k].st = "claimed", Open(w, k[1]), NEW scope,
           NEW a, NEW base, \/ a = "plan" /\ base = Rev(w)
                            \/ a = "review" /\ base = k[1][1]
    PROVE  Fits(w, SetCommand(QueueCommand(Spend(w, scope), k[1], a, base), k, "done"))
<1> DEFINE n == k[1]
           s == Spend(w, scope)
           q == QueueCommand(s, n, a, base)
           v == SetCommand(q, k, "done")
<1>1. /\ Steady(w) /\ Rev(w) > 0 /\ Rev(w) \in Nat
      /\ n \in Reviews(w) /\ n \in DOMAIN w.node /\ w.node[n].st = "running" /\ n[2] = Review
      /\ \A m \in Reviews(w) : w.node[m].st # "queued"
  BY ClaimedReview DEF Reviews
<1>2. /\ s.plans = w.plans /\ s.freed = w.freed /\ s.node = w.node /\ s.deliv = w.deliv
      /\ s.accepted = w.accepted /\ s.state = w.state /\ s.cmd = w.cmd
  BY SetFacts
<1>3. Good(s) BY StateApplies DEF Applies
<1> HIDE DEF s
<1>4. Steady(s) BY <1>1, <1>2, SteadyFrame
<1>5. Rev(s) = Rev(w) /\ Reviews(s) = Reviews(w) BY <1>2 DEF Rev, Reviews
<1>6. /\ a = "plan" => /\ base \in Nat /\ base <= Rev(s)
                       /\ \A m \in Reviews(s) : s.node[m].st # "queued"
      /\ a = "review" => n \in Reviews(s) /\ base = n[1]
      /\ a # "deliver" /\ a # "dispatch" /\ n \in DOMAIN s.node
  BY <1>1, <1>2, <1>5
<1>7. /\ Sound(q) /\ Serves(s, q) /\ SameRows(s, q)
      /\ \E j \in DOMAIN q.cmd \ DOMAIN s.cmd : j[1] = n /\ j[2] = a /\ Awaited(q, j)
  BY <1>3, <1>4, <1>6, QueueCommandSound DEF Steady
<1>8. Good(q) BY <1>1, <1>3, <1>6, QueueCommandApplies DEF Applies
<1> HIDE DEF q
<1>9. PICK j \in DOMAIN q.cmd : j # k /\ j[1] = n /\ j[2] = a /\ Awaited(q, j) BY <1>2, <1>7
<1>10. /\ Sound(v) /\ SameRows(q, v)
       /\ \A m : Served(q, m) /\ (m # k[1] \/ k[2] = "deliver") => Served(v, m)
       /\ \A m : Sent(q, m) /\ (m # k[1] \/ k[2] # "deliver") => Sent(v, m)
  BY <1>7, <1>8, SetCommandSound
<1>11. Served(v, n)
  <2>1. DOMAIN v.cmd = DOMAIN q.cmd /\ v.cmd[j].st = q.cmd[j].st BY <1>8, <1>9, SetFacts
  <2>2. Awaited(v, j) BY <1>9, <2>1 DEF Awaited
  <2> QED BY <1>6, <1>9, <2>1, <2>2 DEF Served
<1> HIDE DEF v
<1>12. SameRows(w, v) BY <1>2, <1>7, <1>10 DEF SameRows
<1>13. Serves(w, v)
  <2>1. \A m : (Served(w, m) => Served(s, m)) /\ (Sent(w, m) => Sent(s, m)) BY <1>2 DEF Served, Sent, Awaited
  <2> QED BY <1>7, <1>10, <1>11, <2>1 DEF Serves
<1>14. Fits(w, v) BY <1>1, <1>10, <1>12, <1>13, FitFrame
<1> QED BY <1>14 DEF v, q, s

\* A planning round is repeated, or the run fails.
LEMMA RejectPlanRoundFits ==
    ASSUME NEW w, Good(w), Fit(w), Live(w), NEW k \in DOMAIN w.cmd, k[2] = "plan"
    PROVE  Fits(w, RejectPlanRound(w, k))
<1> DEFINE n == k[1]
           base == w.cmd[k].base
           c == SetCommand(w, k, "cancelled")
           s == Spend(c, "plan_revision")
           u == [s EXCEPT !.state = "planning"]
           v == QueueCommand(u, n, "plan", base)
           f == [c EXCEPT !.state = "failed"]
<1>1. RejectPlanRound(w, k) \in {f, v} BY DEF RejectPlanRound
<1>2. Steady(w) BY DEF Fit
<1>3. Good(c) BY SetCommandApplies
<1>4. /\ Sound(c) /\ SameRows(w, c)
      /\ \A m : Served(w, m) /\ (m # k[1] \/ k[2] = "deliver") => Served(c, m)
      /\ \A m : Sent(w, m) /\ (m # k[1] \/ k[2] # "deliver") => Sent(c, m)
  BY <1>2, SetCommandSound DEF Steady
<1> HIDE DEF c
<1>5. f.state = "failed" /\ f.node = w.node BY <1>3, <1>4, SetFacts DEF SameRows
<1>6. Fits(w, f)
  <2> HIDE DEF f
  <2>1. Shuts(w, f) BY <1>5 DEF Shuts, Open
  <2> QED BY <1>5, <2>1, FailedFits DEF Fits
<1>7. Good(s) BY <1>3, StateApplies DEF Applies
<1>8. /\ s.plans = c.plans /\ s.freed = c.freed /\ s.node = c.node /\ s.deliv = c.deliv
      /\ s.accepted = c.accepted /\ s.cmd = c.cmd
  BY <1>3, SetFacts
<1> HIDE DEF s
<1>9. Good(u) BY <1>7, StateApplies DEF Applies
<1>10. /\ u.plans = c.plans /\ u.freed = c.freed /\ u.node = c.node /\ u.deliv = c.deliv
       /\ u.accepted = c.accepted /\ u.cmd = c.cmd /\ u.state = "planning"
  BY <1>7, <1>8, SetFacts
<1> HIDE DEF u
<1>11. Rev(u) = Rev(w) /\ Reviews(u) = Reviews(w) /\ Waves(u) = Waves(w) /\ u.node = w.node
  BY <1>4, <1>10 DEF SameRows, Rev, Reviews, Waves
<1>12. \A m, x : CommandsOf(u, m, x) = CommandsOf(c, m, x) BY <1>10 DEF CommandsOf
<1>13. Rev(u) = Rev(c) /\ Reviews(u) = Reviews(c) /\ Waves(u) = Waves(c) BY <1>10 DEF Rev, Reviews, Waves
<1>14. Sound(u)
  <2>1. Numbered(u) BY <1>4, <1>10, <1>12 DEF Sound, Numbered
  <2>2. Based(u) BY <1>4, <1>10, <1>13 DEF Sound, Based
  <2>3. Replanned(u) BY <1>4, <1>10, <1>13 DEF Sound, Replanned
  <2> QED BY <1>4, <1>10, <2>1, <2>2, <2>3, CommandsSound
<1>15. /\ n \in DOMAIN u.node \cup {PlanNode}
       /\ base \in Nat /\ base <= Rev(u)
       /\ Waves(u) \/ base < Rev(u) \/ \A m \in Reviews(u) : u.node[m].st # "queued"
  <2>1. n \in DOMAIN w.node \cup {PlanNode} BY <1>2 DEF Steady, Sound, Numbered
  <2>2. base \in Nat /\ base <= Rev(w) BY <1>2 DEF Steady, Sound, Based
  <2>3. Waves(w) \/ base < Rev(w) \/ \A m \in Reviews(w) : w.node[m].st # "queued" BY <1>2 DEF Steady, Sound, Replanned
  <2> QED BY <1>11, <2>1, <2>2, <2>3
<1> HIDE DEF base
<1>16. /\ Sound(v) /\ Serves(u, v) /\ SameRows(u, v) /\ Served(v, n)
       /\ \E j \in DOMAIN v.cmd : j[2] = "plan" /\ Awaited(v, j)
  BY <1>9, <1>14, <1>15, QueueCommandSound
<1> HIDE DEF v
<1>17. v.plans = w.plans /\ v.freed = w.freed /\ v.node = w.node /\ v.deliv = w.deliv /\ v.state = "planning"
  BY <1>4, <1>10, <1>16 DEF SameRows
<1>18. Serves(w, v)
  <2>1. \A m : (Served(c, m) => Served(u, m)) /\ (Sent(c, m) => Sent(u, m)) BY <1>10 DEF Served, Sent, Awaited
  <2> QED BY <1>4, <1>16, <2>1 DEF Serves
<1>19. Rev(v) = Rev(w) /\ NodesOf(v, Rev(v)) = NodesOf(w, Rev(w)) /\ Reviews(v) = Reviews(w)
  BY <1>17 DEF Rev, NodesOf, Reviews
<1>20. Driven(v)
  <2>1. \A m : Unblocked(v, m) = Unblocked(w, m) BY <1>17 DEF Unblocked, Deps
  <2> QED BY <1>2, <1>17, <1>18, <1>19, <2>1 DEF Steady, Driven, Serves
<1>21. Sending(v) BY <1>2, <1>17, <1>18 DEF Steady, Sending, Serves
<1>22. Pursued(v) BY <1>17, <1>19 DEF Fit, Pursued, Open
<1>23. Planning(v) BY <1>16 DEF Planning
<1>24. Fit(v) BY <1>16, <1>17, <1>20, <1>21, <1>22, <1>23 DEF Fit, Steady, Reviewed, LiveStates
<1>25. Fits(w, v) BY <1>17, <1>24 DEF Fits, Shuts, Open
<1> QED BY <1>1, <1>6, <1>25

\* Inspection fails a node: nothing is skipped and no review is sent back.
LEMMA FailInspectedFits ==
    ASSUME NEW w, Good(w), Fit(w), Live(w), NEW n \in DOMAIN w.node, Open(w, n), n[2] # Review
    PROVE  Fits(w, FailInspected(w, n)) /\ ~Open(FailInspected(w, n), n)
<1> DEFINE s == SetNode(w, n, "failed")
           v == Evaluate(s, Rev(w))
<1>1. FailInspected(w, n) = v BY DEF FailInspected
<1>2. Steady(w) /\ Rev(w) > 0 BY OpenWork
<1>3. n \notin w.freed BY FreedIsClosed
<1>4. Good(s) BY <1>3, SetNodeApplies DEF Applies
<1>5. Steady(s) BY <1>2, CloseWorkSteady
<1>6. /\ s.plans = w.plans /\ s.state = w.state /\ DOMAIN s.node = DOMAIN w.node
      /\ \A m \in DOMAIN w.node : s.node[m].st = IF m = n THEN "failed" ELSE w.node[m].st
  BY SetFacts
<1> HIDE DEF s
<1>7. Rev(s) = Rev(w) /\ Live(s) BY <1>6 DEF Rev, Live
<1>8. Fit(v) /\ v.node = s.node BY <1>2, <1>4, <1>5, <1>7, EvaluateFits
<1> HIDE DEF v
<1>9. Shuts(w, v) /\ ~Open(v, n) BY <1>6, <1>8 DEF Shuts, Open, OpenNode
<1> QED BY <1>1, <1>8, <1>9 DEF Fits

\* A revision is admitted: its nodes are new, and it is reviewed by its own review or by one still open.
LEMMA AdmitRevisionFits ==
    ASSUME NEW w, Good(w), Sound(w), Sending(w), NEW p \in Plans \cup {ShaPlan}, NEW author,
           author \in DOMAIN w.node => author[2] # Review,
           Waves(w) \/ \A n \in Reviews(w) : w.node[n].st # "queued"
    PROVE  LET v == AdmitRevision(w, p, author) IN
           /\ Fits(w, v) /\ v.state = "dispatched" /\ Rev(v) = Rev(w) + 1
           /\ \A n \in NodesOf(v, Rev(v)) : n \notin DOMAIN w.node
<1> DEFINE r == Rev(w) + 1
           old == [n \in DOMAIN w.node |->
                     CASE n = author -> [w.node[n] EXCEPT !.st = "succeeded"]
                       [] n # author /\ Open(w, n) /\ n[2] # Review -> [w.node[n] EXCEPT !.st = "cancelled"]
                       [] OTHER -> w.node[n]]
           reviewed == \E n \in DOMAIN old : n[2] = Review /\ old[n].st \in OpenNode
           labels == p.work \cup p.wave \cup (IF reviewed THEN {} ELSE {Review})
           new == [n \in {<<r, l>> : l \in labels} |-> [st |-> "queued", card |-> <<>>]]
           x == [w EXCEPT !.plans = Append(@, p), !.node = Merge(old, new), !.state = "dispatched"]
           S == {n \in DOMAIN new : Unblocked(x, n)}
           v == QueueForNodes(x, S)
<1>1. /\ DOMAIN w = Fields /\ w.plans \in Seq(Plans \cup {ShaPlan})
      /\ \A n \in DOMAIN w.node : DOMAIN w.node[n] = {"st", "card"} /\ n[1] \in DOMAIN w.plans
  BY DEF Good, Shape
<1>2. AdmitRevision(w, p, author) = v BY DEF AdmitRevision
<1>3. DOMAIN w.plans = 1 .. Rev(w) /\ Rev(w) \in Nat /\ Rev(w) = Len(w.plans) BY <1>1, RevFacts DEF Rev
<1>4. /\ DOMAIN old = DOMAIN w.node
      /\ \A n \in DOMAIN w.node : /\ n[2] = Review => old[n].st = w.node[n].st
                                  /\ old[n].st \in OpenNode => Open(w, n) /\ n[2] = Review
  BY <1>1 DEF Open, OpenNode
<1>5. reviewed <=> \E n \in Reviews(w) : Open(w, n) BY <1>4 DEF Reviews, Open
<1> HIDE DEF old, reviewed
<1>6. /\ Work(p) \subseteq labels /\ labels \subseteq Work(p) \cup {Review}
      /\ Review \in labels <=> ~reviewed
      /\ Review \notin Work(p) /\ p.work # {}
  <2>1. Review \notin Work(p) /\ p.work # {} BY WorkflowAssumption DEF Work, Review
  <2> QED BY <2>1 DEF Work
<1> HIDE DEF labels
<1>7. /\ DOMAIN new = {<<r, l>> : l \in labels}
      /\ \A n \in DOMAIN new : n[1] = r /\ n = <<n[1], n[2]>> /\ n[2] \in labels /\ new[n].st = "queued"
  <2>1. DOMAIN new = {<<r, l>> : l \in labels} OBVIOUS
  <2>2. \A n \in {<<r, l>> : l \in labels} : n[1] = r /\ n = <<n[1], n[2]>> /\ n[2] \in labels OBVIOUS
  <2>3. \A n \in {<<r, l>> : l \in labels} : new[n].st = "queued" OBVIOUS
  <2> QED BY <2>1, <2>2, <2>3
<1> HIDE DEF new
<1>8. /\ DOMAIN x = Fields /\ x.plans = Append(w.plans, p) /\ x.node = Merge(old, new)
      /\ x.freed = w.freed /\ x.cmd = w.cmd /\ x.deliv = w.deliv /\ x.accepted = w.accepted /\ x.state = "dispatched"
  BY <1>1 DEF Fields
<1> HIDE DEF x
<1>9. /\ x.plans \in Seq(Plans \cup {ShaPlan}) /\ DOMAIN x.plans = 1 .. r /\ Rev(x) = r /\ x.plans[r] = p
      /\ \A i \in DOMAIN w.plans : i \in DOMAIN x.plans /\ x.plans[i] = w.plans[i]
  BY <1>1, <1>3, <1>8 DEF Rev
<1>10. \A n \in DOMAIN new : n \notin DOMAIN w.node BY <1>1, <1>3, <1>7
<1>11. /\ DOMAIN x.node = DOMAIN w.node \cup DOMAIN new
       /\ \A n \in DOMAIN w.node : x.node[n].st = old[n].st
       /\ \A n \in DOMAIN new : x.node[n].st = "queued"
  BY <1>4, <1>7, <1>8, <1>10 DEF Merge
<1>12. Shuts(w, x) BY <1>4, <1>11 DEF Shuts, Open
<1>13. NodesOf(x, r) = DOMAIN new
  <2>1. \A n \in DOMAIN w.node : n[1] # r BY <1>1, <1>3
  <2> QED BY <1>7, <1>11, <2>1 DEF NodesOf
<1>14. \A n \in Reviews(x) : \/ n \in Reviews(w) /\ x.node[n].st = w.node[n].st /\ Open(x, n) = Open(w, n)
                             \/ n = <<r, Review>> /\ x.node[n].st = "queued" /\ ~reviewed
  <2> TAKE n \in Reviews(x)
  <2>1. n \in DOMAIN x.node /\ n[2] = Review BY DEF Reviews
  <2>2. CASE n \in DOMAIN w.node BY <1>4, <1>11, <2>1, <2>2 DEF Reviews, Open
  <2>3. CASE n \in DOMAIN new BY <1>6, <1>7, <1>11, <2>1, <2>3
  <2> QED BY <1>11, <2>1, <2>2, <2>3
<1>15. Reviews(w) \subseteq Reviews(x) BY <1>11 DEF Reviews
<1>16. Planned(x)
  <2>1. ASSUME NEW n \in DOMAIN x.node PROVE n = <<n[1], n[2]>> /\ (n[2] = Review \/ n[2] \in Work(x.plans[n[1]]))
    <3>1. CASE n \in DOMAIN w.node
      <4>1. x.plans[n[1]] = w.plans[n[1]] BY <1>1, <1>9, <3>1
      <4> QED BY <3>1, <4>1 DEF Sound, Planned
    <3>2. CASE n \in DOMAIN new BY <1>6, <1>7, <1>9, <3>2
    <3> QED BY <1>11, <2>1, <3>1, <3>2
  <2>2. ASSUME NEW i \in DOMAIN x.plans, NEW l \in Work(x.plans[i]) PROVE <<i, l>> \in DOMAIN x.node
    <3>1. CASE i \in DOMAIN w.plans BY <1>9, <1>11, <2>2, <3>1 DEF Sound, Planned
    <3>2. CASE i = r BY <1>6, <1>7, <1>9, <1>11, <2>2, <3>2
    <3> QED BY <1>3, <1>9, <2>2, <3>1, <3>2
  <2> QED BY <2>1, <2>2 DEF Planned
<1>17. Numbered(x)
  <2>1. \A n, a : CommandsOf(x, n, a) = CommandsOf(w, n, a) BY <1>8 DEF CommandsOf
  <2> QED BY <1>8, <1>11, <2>1 DEF Sound, Numbered
<1>18. Based(x)
  <2> SUFFICES ASSUME NEW k \in DOMAIN w.cmd
               PROVE  /\ k[2] = "plan" => w.cmd[k].base \in Nat /\ w.cmd[k].base <= r
                      /\ k[2] = "review" => /\ k[1] \in Reviews(x) /\ w.cmd[k].base = k[1][1]
                                            /\ w.cmd[k].st = "claimed" => x.node[k[1]].st # "queued"
                      /\ k[2] = "deliver" => k[1] \in DOMAIN x.node
    BY <1>8, <1>9 DEF Based
  <2>1. \A n \in Reviews(w) : x.node[n].st = w.node[n].st BY <1>4, <1>11 DEF Reviews
  <2>2. k[2] = "plan" => w.cmd[k].base \in Nat /\ w.cmd[k].base <= Rev(w) BY DEF Sound, Based
  <2>3. k[2] = "plan" => w.cmd[k].base \in Nat /\ w.cmd[k].base <= r BY <1>3, <2>2
  <2> QED BY <1>11, <1>15, <2>1, <2>3 DEF Sound, Based
<1>19. OldWork(x)
  <2> SUFFICES ASSUME NEW n \in DOMAIN x.node, Open(x, n), n[2] # Review PROVE n[1] = r
    BY <1>9 DEF OldWork
  <2>1. n \notin DOMAIN w.node BY <1>4, <1>11 DEF Open
  <2> QED BY <1>7, <1>11, <2>1
<1>20. Verdicts(x)
  <2>1. ASSUME NEW n \in Reviews(x), NEW m \in Reviews(x), Open(x, n), Open(x, m) PROVE n = m
    BY <1>5, <1>14, <2>1 DEF Sound, Verdicts
  <2>2. \A n \in Reviews(x) : x.node[n].st \in ReviewStates BY <1>14 DEF Sound, Verdicts, ReviewStates, OpenNode
  <2>3. ASSUME NEW n \in Reviews(x), n[1] = r PROVE x.node[n].st # "succeeded"
    <3>1. n \in NodesOf(x, r) BY <2>3 DEF Reviews, NodesOf
    <3> QED BY <1>11, <1>13, <3>1
  <2> QED BY <1>9, <2>1, <2>2, <2>3 DEF Verdicts
<1>21. Skips(x) BY <1>9, <1>11, <1>13 DEF Skips
<1>22. Replanned(x)
  <2> SUFFICES ASSUME ~Waves(x), NEW n \in Reviews(x), x.node[n].st = "queued"
               PROVE  n[1] = r /\ \A k \in DOMAIN x.cmd : k[2] = "plan" => x.cmd[k].base < r
    BY <1>9 DEF Replanned
  <2>1. ~Waves(w) BY <1>9 DEF Waves
  <2>2. n[1] = r BY <1>14, <2>1
  <2>3. \A k \in DOMAIN w.cmd : k[2] = "plan" => w.cmd[k].base \in Nat /\ w.cmd[k].base <= Rev(w) BY DEF Sound, Based
  <2> QED BY <1>3, <1>8, <2>2, <2>3
<1>23. Inherited(x)
  <2> SUFFICES ASSUME <<r, Review>> \notin DOMAIN x.node PROVE \E n \in Reviews(x) : Open(x, n)
    BY <1>9 DEF Inherited
  <2>1. reviewed BY <1>6, <1>7, <1>11
  <2>2. PICK n \in Reviews(w) : Open(w, n) BY <1>5, <2>1
  <2>3. Open(x, n) BY <1>4, <1>11, <2>2 DEF Reviews, Open
  <2> QED BY <1>15, <2>3
<1>24. Sound(x) BY <1>16, <1>17, <1>18, <1>19, <1>20, <1>21, <1>22, <1>23 DEF Sound
<1>25. Shape(x)
  <2> DEFINE y == Merge(old, new)
  <2>1. Applies(w, AdmitRevision(w, p, author)) BY AdmitRevisionApplies
  <2>2. v.node = x.node /\ v.plans = x.plans /\ v.deliv = x.deliv
    <3>1. v = [x EXCEPT !.cmd = Merge(x.cmd, [k \in {<<n, ActionOf(x, n), Cardinality(CommandsOf(x, n, ActionOf(x, n)))>> : n \in S} |-> Pending(k[1][1])])]
      BY DEF QueueForNodes
    <3> HIDE DEF v, S
    <3> QED BY <1>8, <3>1 DEF Fields
  <2>3. Shape(v) BY <1>2, <2>1 DEF Applies, Good
  <2> HIDE DEF v
  <2> QED BY <1>1, <1>8, <2>2, <2>3 DEF Good, Shape
<1>26. S \in SUBSET DOMAIN x.node /\ \A n \in S : n[1] = Rev(x) BY <1>7, <1>9, <1>11
<1>27. S = {n \in NodesOf(x, r) : Unblocked(x, n)} BY <1>13
<1> HIDE DEF S
<1>28. /\ Sound(v) /\ Serves(x, v) /\ SameRows(x, v) /\ \A n \in S : Served(v, n)
  BY <1>24, <1>25, <1>26, QueueForNodesSound
<1> HIDE DEF v
<1>29. Rev(v) = r /\ NodesOf(v, r) = NodesOf(x, r) /\ \A n : Unblocked(v, n) = Unblocked(x, n) BY <1>9, <1>28, RowsAlike
<1>30. Driven(v)
  <2>1. \A n \in NodesOf(x, r) : v.node[n].st = "queued" BY <1>11, <1>13, <1>28 DEF SameRows
  <2> QED BY <1>27, <1>28, <1>29, <2>1 DEF Driven
<1>31. Sending(v)
  <2>1. \A n : Sent(w, n) => Sent(x, n) BY <1>8 DEF Sent, Awaited
  <2>2. v.deliv = w.deliv BY <1>8, <1>28 DEF SameRows
  <2> QED BY <1>28, <2>1, <2>2 DEF Sending, Serves
<1>32. Pursued(v)
  <2>1. PICK l \in p.work : TRUE BY <1>6
  <2>2. <<r, l>> \in DOMAIN new BY <1>6, <1>7, <2>1 DEF Work
  <2>3. <<r, l>> \in NodesOf(v, r) /\ Open(v, <<r, l>>) BY <1>11, <1>13, <1>28, <1>29, <2>2 DEF SameRows, Open, OpenNode
  <2> QED BY <1>29, <2>3 DEF Pursued
<1>33. Planning(v) BY <1>3, <1>29 DEF Planning
<1>34. v.state = "dispatched" /\ v.node = x.node BY <1>8, <1>28 DEF SameRows
<1>35. Fit(v) BY <1>28, <1>30, <1>31, <1>32, <1>33, <1>34 DEF Fit, Steady, Reviewed, LiveStates
<1>36. Shuts(w, v) BY <1>12, <1>34 DEF Shuts, Open
<1>37. \A n \in NodesOf(v, Rev(v)) : n \notin DOMAIN w.node BY <1>10, <1>13, <1>29
<1> QED BY <1>2, <1>29, <1>34, <1>35, <1>36, <1>37 DEF Fits

\* The planning command of a run that has no plan yet.
LEMMA InitialPlanFits ==
    ASSUME NEW w, Good(w), Rev(w) = 0, DOMAIN w.cmd = {}, Sending(w)
    PROVE  LET v == InitialPlan(w) IN
           /\ Good(v) /\ Fits(w, v) /\ Sound(v) /\ Sending(v) /\ Rev(v) = 0 /\ v.node = w.node /\ Reviews(v) = {}
<1> DEFINE u == [w EXCEPT !.state = "admitted"]
           v == QueueCommand(u, PlanNode, "plan", 0)
<1>1. InitialPlan(w) = v BY DEF InitialPlan
<1>2. Good(v) BY <1>1, InitialPlanApplies DEF Applies
<1>3. Good(u) BY StateApplies DEF Applies
<1>4. /\ u.plans = w.plans /\ u.freed = w.freed /\ u.node = w.node /\ u.deliv = w.deliv
      /\ u.accepted = w.accepted /\ u.cmd = w.cmd /\ u.state = "admitted"
  BY SetFacts
<1> HIDE DEF u
<1>5. Rev(u) = 0 /\ DOMAIN w.node = {} /\ DOMAIN w.plans = {}
  <2>1. DOMAIN w.plans = 1 .. 0 BY RevFacts
  <2>2. DOMAIN w.plans = {} BY <2>1
  <2> QED BY <1>4, <2>2 DEF Good, Shape, Rev
<1>6. Reviews(u) = {} /\ NodesOf(u, 0) = {} BY <1>4, <1>5 DEF Reviews, NodesOf
<1>7. Sound(u)
  <2>1. Planned(u) BY <1>4, <1>5 DEF Planned
  <2>2. Numbered(u) /\ Based(u) BY <1>4 DEF Numbered, Based
  <2>3. OldWork(u) BY <1>4, <1>5 DEF OldWork
  <2>4. Verdicts(u) /\ Replanned(u) BY <1>6 DEF Verdicts, Replanned
  <2>5. Skips(u) /\ Inherited(u) BY <1>5, <1>6 DEF Skips, Inherited
  <2> QED BY <2>1, <2>2, <2>3, <2>4, <2>5 DEF Sound
<1>8. /\ Sound(v) /\ SameRows(u, v) /\ \E k \in DOMAIN v.cmd : k[2] = "plan" /\ Awaited(v, k)
  BY <1>3, <1>5, <1>6, <1>7, QueueCommandSound
<1> HIDE DEF v
<1>9. Rev(v) = 0 /\ NodesOf(v, 0) = {} /\ Reviews(v) = {} /\ v.node = w.node /\ v.state = "admitted"
  BY <1>4, <1>5, <1>6, <1>8, RowsAlike DEF SameRows
<1>10. Driven(v) /\ Pursued(v) BY <1>9 DEF Driven, Pursued
<1>11. Sending(v) BY <1>4, <1>8 DEF Sending, Sent, SameRows
<1>12. Planning(v) BY <1>8 DEF Planning
<1>13. Fit(v) BY <1>8, <1>9, <1>10, <1>11, <1>12 DEF Fit, Steady, Reviewed, LiveStates
<1>14. Shuts(w, v) BY <1>5 DEF Shuts
<1> QED BY <1>1, <1>2, <1>8, <1>9, <1>11, <1>13, <1>14 DEF Fits

-----------------------------------------------------------------------------
(* The steps of the run.                                                   *)

\* Committing the rows ends the jobs of a run that ended, no more.
LEMMA CommitFits ==
    ASSUME NEW x, NEW w, Fits(x, w), Commit(w), Good(wf')
    PROVE  Fits(x, wf')
<1>1. CASE ~Terminal(w) BY <1>1 DEF Commit
<1>2. CASE Terminal(w)
  <2> DEFINE c == [k \in DOMAIN w.cmd |-> [w.cmd[k] EXCEPT !.job = "none"]]
  <2>1. wf' = [w EXCEPT !.cmd = c] BY <1>2 DEF Commit
  <2> HIDE DEF c
  <2>2. DOMAIN w = Fields BY <2>1 DEF Good, Shape
  <2>3. wf'.plans = w.plans /\ wf'.node = w.node /\ wf'.accepted = w.accepted /\ wf'.state = w.state
    BY <2>1, <2>2 DEF Fields
  <2>4. Fit(wf') BY <1>2, <2>3, EndedFits DEF Fits
  <2> QED BY <2>3, <2>4 DEF Fits, Shuts, Open
<1> QED BY <1>1, <1>2

\* A run with a command was admitted.
LEMMA Present ==
    ASSUME NEW w, Fit(w), DOMAIN w.cmd # {} \/ DOMAIN w.node # {}
    PROVE  w.state # "none" /\ (Live(w) \/ Terminal(w))
<1>1. DOMAIN Absent.cmd = {} /\ DOMAIN Absent.node = {} BY DEF Absent
<1> QED BY <1>1, States DEF Fit

\* Rows that stay, stay fit.
LEMMA FitsSame ==
    ASSUME NEW w, Fit(w)
    PROVE  Fits(w, w)
BY DEF Fits, Shuts

\* Only the job or the count of a command changes.
LEMMA JobColumnsFit ==
    ASSUME NEW w, Good(w), Fit(w), NEW k \in DOMAIN w.cmd
    PROVE  /\ \A j : Fits(w, [w EXCEPT !.cmd[k].job = j])
           /\ \A i : Fits(w, [w EXCEPT !.cmd[k].inc = i])
<1>1. DOMAIN w = Fields /\ \A m \in DOMAIN w.cmd : DOMAIN w.cmd[m] = {"st", "base", "inc", "job"} BY DEF Good, Shape
<1>2. w.state # "none" BY Present
<1>3. ASSUME NEW c, DOMAIN c = DOMAIN w.cmd, \A m \in DOMAIN w.cmd : c[m].st = w.cmd[m].st /\ c[m].base = w.cmd[m].base
      PROVE  Fits(w, [w EXCEPT !.cmd = c])
  <2> DEFINE v == [w EXCEPT !.cmd = c]
  <2>1. SameRows(w, v) /\ v.cmd = c BY <1>1 DEF Fields, SameRows
  <2> HIDE DEF v
  <2>2. Fits(w, v) BY <1>2, <1>3, <2>1, JobsFit
  <2> QED BY <2>2 DEF v
<1>4. ASSUME NEW j PROVE Fits(w, [w EXCEPT !.cmd[k].job = j])
  <2> DEFINE c == [w.cmd EXCEPT ![k].job = j]
  <2>1. DOMAIN c = DOMAIN w.cmd /\ \A m \in DOMAIN w.cmd : c[m].st = w.cmd[m].st /\ c[m].base = w.cmd[m].base BY <1>1
  <2>2. [w EXCEPT !.cmd[k].job = j] = [w EXCEPT !.cmd = c] OBVIOUS
  <2> HIDE DEF c
  <2> QED BY <1>3, <2>1, <2>2
<1>5. ASSUME NEW i PROVE Fits(w, [w EXCEPT !.cmd[k].inc = i])
  <2> DEFINE c == [w.cmd EXCEPT ![k].inc = i]
  <2>1. DOMAIN c = DOMAIN w.cmd /\ \A m \in DOMAIN w.cmd : c[m].st = w.cmd[m].st /\ c[m].base = w.cmd[m].base BY <1>1
  <2>2. [w EXCEPT !.cmd[k].inc = i] = [w EXCEPT !.cmd = c] OBVIOUS
  <2> HIDE DEF c
  <2> QED BY <1>3, <2>1, <2>2
<1> QED BY <1>4, <1>5

\* Admission.
LEMMA AdmissionFits ==
    ASSUME IInv, IInv', Fit(wf), Admit \/ AdmitWithoutPlan \/ Readmit \/ AdmitSha
    PROVE  Fits(wf, wf') /\ att' = att
<1> DEFINE i == InitialPlan(wf)
           a == AdmitRevision(i, ShaPlan, <<>>)
           u == [wf EXCEPT !.state = "admitted"]
<1>1. Good(wf) /\ Good(wf') /\ att' = att BY DEF IInv, Admit, AdmitWithoutPlan, Readmit, AdmitSha
<1>2. wf.state = "none" => Rev(wf) = 0 /\ DOMAIN wf.cmd = {} /\ DOMAIN wf.deliv = {} /\ DOMAIN wf.node = {}
  BY DEF Fit, Absent, Rev
<1>3. Rev(wf) = 0 /\ DOMAIN wf.cmd = {} /\ Sending(wf)
  <2>1. CASE wf.state = "none" BY <1>2, <2>1 DEF Sending
  <2>2. CASE Readmit
    <3>1. Live(wf) /\ Rev(wf) = 0 /\ CommandsOf(wf, PlanNode, "plan") = {} BY <2>2 DEF Readmit, Live, LiveStates
    <3>2. Steady(wf) /\ Planning(wf) BY <3>1 DEF Fit
    <3>3. DOMAIN wf.node = {}
      <4>1. DOMAIN wf.plans = 1 .. 0 BY <1>1, <3>1, RevFacts
      <4>2. DOMAIN wf.plans = {} BY <4>1
      <4> QED BY <1>1, <4>2 DEF Good, Shape
    <3>4. \A k \in DOMAIN wf.cmd : k[2] # "plan"
      <4> SUFFICES ASSUME NEW k \in DOMAIN wf.cmd, k[2] = "plan" PROVE FALSE OBVIOUS
      <4>1. k[1] = PlanNode BY <3>2, <3>3 DEF Steady, Sound, Numbered
      <4> QED BY <3>1, <4>1 DEF CommandsOf
    <3>5. DOMAIN wf.cmd = {} BY <3>1, <3>2, <3>4 DEF Planning
    <3> QED BY <3>1, <3>2, <3>5 DEF Steady
  <2> QED BY <2>1, <2>2 DEF Admit, AdmitWithoutPlan, AdmitSha
<1>4. Good(i) /\ Fits(wf, i) /\ Sound(i) /\ Sending(i) /\ Rev(i) = 0 /\ i.node = wf.node /\ Reviews(i) = {}
  BY <1>1, <1>3, InitialPlanFits
<1> HIDE DEF i
<1>5. CASE Admit \/ Readmit
  <2>1. Commit(i) BY <1>5 DEF Admit, Readmit, i
  <2> QED BY <1>1, <1>4, <2>1, CommitFits
<1>6. CASE AdmitWithoutPlan
  <2>1. Commit(u) /\ wf.state = "none" BY <1>6 DEF AdmitWithoutPlan
  <2>2. /\ u.plans = wf.plans /\ u.freed = wf.freed /\ u.node = wf.node /\ u.deliv = wf.deliv
        /\ u.accepted = wf.accepted /\ u.cmd = wf.cmd /\ u.state = "admitted"
    BY <1>1, SetFacts
  <2> HIDE DEF u
  <2>3. Rev(u) = 0 /\ DOMAIN u.cmd = {} /\ DOMAIN u.node = {} /\ DOMAIN u.deliv = {} /\ DOMAIN u.plans = {}
    <3>1. DOMAIN wf.plans = 1 .. 0 BY <1>1, <1>3, RevFacts
    <3>2. DOMAIN wf.plans = {} BY <3>1
    <3> QED BY <1>2, <2>1, <2>2, <3>2 DEF Rev
  <2>4. Reviews(u) = {} /\ NodesOf(u, 0) = {} BY <2>3 DEF Reviews, NodesOf
  <2>5. Sound(u) BY <2>3, <2>4 DEF Sound, Planned, Numbered, Based, OldWork, Verdicts, Replanned, Skips, Inherited
  <2>6. Driven(u) /\ Sending(u) /\ Pursued(u) /\ Planning(u) BY <2>2, <2>3, <2>4 DEF Driven, Sending, Pursued, Planning
  <2>7. Fit(u) BY <2>2, <2>5, <2>6 DEF Fit, Steady, Reviewed, LiveStates
  <2>8. Fits(wf, u) BY <2>2, <2>7 DEF Fits, Shuts, Open
  <2> QED BY <1>1, <2>1, <2>8, CommitFits
<1>7. CASE AdmitSha
  <2>1. Commit(a) BY <1>7 DEF AdmitSha, i
  <2>2. DOMAIN i.node = {} /\ wf.state = "none" BY <1>2, <1>4, <1>7 DEF AdmitSha
  <2>3. Fits(i, a) BY <1>4, <2>2, AdmitRevisionFits
  <2> HIDE DEF a
  <2>4. Fits(wf, a) BY <1>2, <2>2, <2>3 DEF Fits, Shuts
  <2> QED BY <1>1, <2>1, <2>4, CommitFits
<1> QED BY <1>1, <1>5, <1>6, <1>7

\* The drain of a dispatch.
LEMMA DrainDispatchFits ==
    ASSUME IInv, IInv', Fit(wf), NEW k \in DOMAIN wf.cmd, DrainDispatch(k)
    PROVE  Fits(wf, wf')
<1> DEFINE n == k[1]
           card == <<n, Cardinality({c \in DOMAIN att : c[1] = n})>>
<1>1. /\ Good(wf) /\ wf.cmd[k].st = "pending" /\ k[2] = "dispatch"
      /\ n \in DOMAIN wf.node /\ n[2] # Review /\ wf.state # "none"
  BY Present DEF IInv, DrainDispatch, Good, Ready
<1>2. /\ DOMAIN wf = Fields /\ \A m \in DOMAIN wf.node : DOMAIN wf.node[m] = {"st", "card"}
      /\ \A m \in DOMAIN wf.cmd : DOMAIN wf.cmd[m] = {"st", "base", "inc", "job"}
  BY <1>1 DEF Good, Shape
<1>3. \/ /\ Open(wf, n)
         /\ \/ /\ Live(wf)
               /\ wf' = [wf EXCEPT !.cmd[k].st = "claimed", !.node[n] = [st |-> "running", card |-> card]]
            \/ wf' = [wf EXCEPT !.cmd[k].st = "claimed", !.node[n].st = "running"]
      \/ wf' = SetCommand(wf, k, "done") /\ (n \notin NodesOf(wf, Rev(wf)) \/ ~Open(wf, n))
  BY DEF DrainDispatch, StartChild
<1> HIDE DEF card
<1>4. CASE wf' = SetCommand(wf, k, "done") /\ (n \notin NodesOf(wf, Rev(wf)) \/ ~Open(wf, n))
  BY <1>1, <1>4, DoneFits
<1>5. CASE /\ Open(wf, n)
           /\ \/ wf' = [wf EXCEPT !.cmd[k].st = "claimed", !.node[n] = [st |-> "running", card |-> card]]
              \/ wf' = [wf EXCEPT !.cmd[k].st = "claimed", !.node[n].st = "running"]
  <2> DEFINE v == [wf EXCEPT !.cmd[k].st = "claimed"]
  <2>1. /\ DOMAIN v = Fields /\ v.plans = wf.plans /\ v.freed = wf.freed /\ v.deliv = wf.deliv
        /\ v.accepted = wf.accepted /\ v.state = wf.state /\ v.node = wf.node
        /\ DOMAIN v.cmd = DOMAIN wf.cmd
        /\ \A j \in DOMAIN wf.cmd : /\ v.cmd[j].st = IF j = k THEN "claimed" ELSE wf.cmd[j].st
                                    /\ v.cmd[j].base = wf.cmd[j].base
    BY <1>2 DEF Fields
  <2>2. wf' = [v EXCEPT !.node[n] = [st |-> "running", card |-> card]] \/ wf' = SetNode(v, n, "running")
    BY <1>5 DEF SetNode
  <2> HIDE DEF v
  <2>3. /\ wf'.plans = wf.plans /\ wf'.freed = wf.freed /\ wf'.deliv = wf.deliv
        /\ wf'.accepted = wf.accepted /\ wf'.state = wf.state
        /\ wf'.cmd = v.cmd /\ DOMAIN wf'.node = DOMAIN wf.node
        /\ \A m \in DOMAIN wf.node : wf'.node[m].st = IF m = n THEN "running" ELSE wf.node[m].st
    <3>1. CASE wf' = [v EXCEPT !.node[n] = [st |-> "running", card |-> card]] BY <1>1, <1>2, <2>1, <3>1 DEF Fields
    <3>2. CASE wf' = SetNode(v, n, "running") BY <1>1, <1>2, <2>1, <3>2 DEF Fields, SetNode
    <3> QED BY <2>2, <3>1, <3>2
  <2>4. CASE Live(wf) BY <1>1, <1>5, <2>1, <2>3, <2>4, ClaimFits
  <2>5. CASE Terminal(wf)
    <3>1. Shuts(wf, wf') BY <1>5, <2>3 DEF Shuts, Open
    <3>2. Fit(wf') BY <1>1, <2>3, <2>5, EndedFits
    <3> QED BY <3>1, <3>2 DEF Fits
  <2> QED BY <2>4, <2>5, Present
<1> QED BY <1>3, <1>4, <1>5

\* A model job is started.
LEMMA DrainModelJobFits ==
    ASSUME IInv, IInv', Fit(wf), NEW k \in DOMAIN wf.cmd, DrainModelJob(k)
    PROVE  Fits(wf, wf')
<1> DEFINE n == k[1]
           v == [wf EXCEPT !.cmd[k].st = "claimed", !.cmd[k].job = "active"]
           runs == n \in NodesOf(wf, wf.cmd[k].base) /\ wf.node[n].st = "queued"
<1>1. Good(wf) /\ wf.cmd[k].st = "pending" /\ k[2] \in {"plan", "review"} BY DEF IInv, DrainModelJob
<1>2. /\ DOMAIN wf = Fields /\ \A m \in DOMAIN wf.node : DOMAIN wf.node[m] = {"st", "card"}
      /\ \A m \in DOMAIN wf.cmd : DOMAIN wf.cmd[m] = {"st", "base", "inc", "job"}
  BY <1>1 DEF Good, Shape
<1>3. wf' = IF runs THEN SetNode(v, n, "running") ELSE v BY DEF DrainModelJob
<1>4. /\ v.plans = wf.plans /\ v.freed = wf.freed /\ v.deliv = wf.deliv
      /\ v.accepted = wf.accepted /\ v.state = wf.state /\ v.node = wf.node
      /\ DOMAIN v.cmd = DOMAIN wf.cmd
      /\ \A j \in DOMAIN wf.cmd : /\ v.cmd[j].st = IF j = k THEN "claimed" ELSE wf.cmd[j].st
                                  /\ v.cmd[j].base = wf.cmd[j].base
  BY <1>2 DEF Fields
<1>5. Good(v) BY <1>1, ClaimApplies DEF Applies
<1> HIDE DEF v
<1>6. /\ wf'.plans = wf.plans /\ wf'.freed = wf.freed /\ wf'.deliv = wf.deliv
      /\ wf'.accepted = wf.accepted /\ wf'.state = wf.state
      /\ DOMAIN wf'.cmd = DOMAIN wf.cmd /\ DOMAIN wf'.node = DOMAIN wf.node
      /\ \A j \in DOMAIN wf.cmd : /\ wf'.cmd[j].st = IF j = k THEN "claimed" ELSE wf.cmd[j].st
                                  /\ wf'.cmd[j].base = wf.cmd[j].base
      /\ \A m \in DOMAIN wf.node : wf'.node[m].st = IF runs /\ m = n THEN "running" ELSE wf.node[m].st
  BY <1>3, <1>4, <1>5, SetFacts
<1>7. runs => n \in DOMAIN wf.node /\ Open(wf, n) BY DEF NodesOf, Open, OpenNode
<1>8. CASE Live(wf)
  <2>1. k[2] = "review" /\ n \in DOMAIN wf.node => wf'.node[n].st # "queued"
    <3>1. k[2] = "review" => wf.cmd[k].base = n[1] BY <1>8 DEF Fit, Steady, Sound, Based
    <3> QED BY <1>6, <3>1 DEF NodesOf
  <2> HIDE DEF runs
  <2>2. \A m \in DOMAIN wf.node : \/ wf'.node[m].st = wf.node[m].st
                                  \/ m = k[1] /\ Open(wf, m) /\ wf'.node[m].st = "running"
    BY <1>6, <1>7
  <2> QED BY <1>1, <1>6, <1>8, <2>1, <2>2, ClaimFits
<1>9. CASE Terminal(wf)
  <2>1. Shuts(wf, wf') BY <1>6, <1>7 DEF Shuts, Open
  <2>2. \A m \in DOMAIN wf.node : wf.node[m].st = "failed" => wf'.node[m].st = "failed" BY <1>6
  <2>3. Fit(wf') BY <1>6, <1>9, <2>2, EndedFits
  <2> QED BY <2>1, <2>3 DEF Fits
<1> QED BY <1>8, <1>9, Present

\* The rows of a delivery command: sound but for what its delivery waits for.
LEMMA DeliverySteady ==
    ASSUME NEW w, Good(w), Steady(w), NEW k \in DOMAIN w.cmd, k[2] = "deliver", NEW v,
           Delivers(w, v, k)
    PROVE  /\ Rev(v) = Rev(w) /\ Rev(w) > 0 /\ k[1] \in DOMAIN v.node
           /\ Sound(v) /\ Driven(v)
           /\ \A m \in DOMAIN v.deliv : m # k[1] /\ v.deliv[m].out = "pending" => Sent(v, m)
<1> DEFINE s == SetCommand(w, k, "done")
<1>0. v.plans = w.plans /\ v.node = w.node /\ v.freed = w.freed /\ v.accepted = w.accepted BY DEF Delivers
<1>1. Sound(w) /\ Driven(w) /\ Sending(w) BY DEF Steady
<1>2. /\ Sound(s) /\ SameRows(w, s)
      /\ \A n : Served(w, n) => Served(s, n)
      /\ \A n : Sent(w, n) /\ n # k[1] => Sent(s, n)
  BY <1>1, SetCommandSound
<1> HIDE DEF s
<1>3. /\ v.plans = s.plans /\ v.node = s.node /\ v.freed = s.freed /\ v.accepted = s.accepted /\ v.cmd = s.cmd
  BY <1>2 DEF SameRows, s, Delivers
<1>4. /\ \A n, a : CommandsOf(v, n, a) = CommandsOf(s, n, a)
      /\ \A n : Served(v, n) = Served(s, n) /\ Sent(v, n) = Sent(s, n)
  BY <1>3 DEF CommandsOf, Served, Sent, Awaited
<1>5. Rev(v) = Rev(w) /\ Reviews(v) = Reviews(s) /\ Rev(s) = Rev(w) /\ NodesOf(v, Rev(v)) = NodesOf(w, Rev(w))
  BY <1>2, <1>3, RowsAlike DEF Rev, Reviews, NodesOf
<1>6. Sound(v)
  <2>1. Numbered(v) BY <1>2, <1>3, <1>4 DEF Sound, Numbered
  <2>2. Based(v) BY <1>2, <1>3, <1>5 DEF Sound, Based
  <2>3. Replanned(v) BY <1>2, <1>3, <1>5 DEF Sound, Replanned, Waves
  <2> QED BY <1>2, <1>3, <2>1, <2>2, <2>3, CommandsSound
<1>7. Driven(v)
  <2>1. \A n : Unblocked(v, n) = Unblocked(w, n) BY <1>0 DEF Unblocked, Deps
  <2> QED BY <1>0, <1>1, <1>2, <1>4, <1>5, <2>1 DEF Driven
<1>8. \A m \in DOMAIN v.deliv : m # k[1] /\ v.deliv[m].out = "pending" => Sent(v, m) BY <1>1, <1>2, <1>4 DEF Sending, SameRows, Delivers
<1>9. k[1] \in DOMAIN w.node BY <1>1 DEF Sound, Based
<1>10. Rev(w) > 0
  <2>1. k[1][1] \in 1 .. Rev(w) BY <1>9, RevFacts DEF Good, Shape
  <2> QED BY <2>1, RevFacts
<1> QED BY <1>0, <1>5, <1>6, <1>7, <1>8, <1>9, <1>10

\* A run with a delivery to be cleared up is pursued.
LEMMA DeliveryPursued ==
    ASSUME NEW w, NEW v, Fit(w), Live(w), Rev(w) > 0, v.plans = w.plans, v.node = w.node, v.state = w.state,
           DOMAIN v.deliv = DOMAIN w.deliv,
           \A m \in DOMAIN w.deliv :
              v.deliv[m].out = w.deliv[m].out \/ v.deliv[m].out \in {"pending", "failed", "unknown"}
    PROVE  Live(v) /\ Pursued(v) /\ Planning(v) /\ v.state # "none" /\ Reviewed(v) /\ v.state \in LiveStates
<1>1. Rev(v) = Rev(w) /\ Reviews(v) = Reviews(w) /\ NodesOf(v, Rev(v)) = NodesOf(w, Rev(w)) BY DEF Rev, Reviews, NodesOf
<1>2. Pursued(v) BY <1>1 DEF Fit, Pursued, Open
<1>3. Rev(v) # 0 BY <1>1
<1>4. Planning(v) BY <1>3 DEF Planning
<1> QED BY <1>2, <1>4, States DEF Live, LiveStates, Reviewed

\* The drain of a delivery.
LEMMA DrainDeliverFits ==
    ASSUME IInv, IInv', Fit(wf), NEW k \in DOMAIN wf.cmd, DrainDeliver(k)
    PROVE  Fits(wf, wf')
<1> DEFINE n == k[1]
           d == wf.deliv[n]
           sent == Tried(wf, k)
           acked == Resolved(wf, k, "acknowledged")
           again == QueueCommand(sent, n, "deliver", wf.cmd[k].base)
<1>1. Good(wf) /\ Good(wf') /\ k[2] = "deliver" /\ wf.state # "none" BY Present DEF IInv, DrainDeliver
<1>2. Applies(wf, sent) /\ Delivers(wf, sent, k) /\ \A m \in DOMAIN wf.deliv : sent.deliv[m].out = wf.deliv[m].out
  BY <1>1, DeliveryRows
<1>3. \A out \in {"acknowledged", "failed", "unknown"} :
         /\ Delivers(wf, Resolved(wf, k, out), k)
         /\ n \in DOMAIN wf.deliv => Resolved(wf, k, out).deliv[n].out = out
         /\ d.out = "pending" => Applies(wf, Resolved(wf, k, out))
  BY <1>1, DeliveryRows
<1>4. \/ d.out # "pending" /\ Commit(SetCommand(wf, k, "done"))
      \/ d.out = "pending" /\ Commit(IF Live(wf) THEN Evaluate(acked, Rev(wf)) ELSE acked)
      \/ d.out = "pending" /\ Commit(again)
      \/ d.out = "pending" /\ Commit(Resolved(wf, k, "failed"))
      \/ d.out = "pending" /\ Commit(Resolved(wf, k, "unknown"))
  BY DEF DrainDeliver, Tried, Resolved
<1> HIDE DEF sent
<1>5. CASE d.out # "pending" /\ Commit(SetCommand(wf, k, "done"))
  <2>1. Fits(wf, SetCommand(wf, k, "done")) BY <1>1, <1>5, DoneFits
  <2> QED BY <1>1, <1>5, <2>1, CommitFits
<1>6. ASSUME NEW out \in {"acknowledged", "failed", "unknown"}, Live(wf)
      PROVE  LET v == Resolved(wf, k, out) IN Steady(v) /\ Rev(v) = Rev(wf) /\ Rev(wf) > 0
  <2> DEFINE v == Resolved(wf, k, out)
  <2>1. Delivers(wf, v, k) /\ (n \in DOMAIN wf.deliv => v.deliv[n].out = out) BY <1>3
  <2> HIDE DEF v
  <2>2. Steady(wf) BY <1>6 DEF Fit
  <2>3. /\ Rev(v) = Rev(wf) /\ Rev(wf) > 0 /\ Sound(v) /\ Driven(v)
        /\ \A m \in DOMAIN v.deliv : m # n /\ v.deliv[m].out = "pending" => Sent(v, m)
    BY <1>1, <2>1, <2>2, DeliverySteady
  <2>4. Sending(v) BY <2>1, <2>3 DEF Sending, Delivers
  <2> QED BY <2>3, <2>4 DEF Steady, v
<1>7. CASE d.out = "pending" /\ Commit(IF Live(wf) THEN Evaluate(acked, Rev(wf)) ELSE acked)
  <2>1. /\ Good(acked) /\ acked.plans = wf.plans /\ acked.node = wf.node /\ acked.accepted = wf.accepted
        /\ acked.state = wf.state
    BY <1>3, <1>7 DEF Applies, Delivers
  <2>2. Live(wf) => Steady(acked) /\ Rev(acked) = Rev(wf) /\ Rev(wf) > 0 BY <1>6
  <2> HIDE DEF acked
  <2>3. CASE Live(wf)
    <3>1. Fit(Evaluate(acked, Rev(wf))) /\ Evaluate(acked, Rev(wf)).node = wf.node
      BY <2>1, <2>2, <2>3, EvaluateFits DEF Live
    <3>2. Fits(wf, Evaluate(acked, Rev(wf))) BY <3>1 DEF Fits, Shuts, Open
    <3> QED BY <1>1, <1>7, <2>3, <3>2, CommitFits
  <2>4. CASE Terminal(wf)
    <3>1. Fit(acked) BY <2>1, <2>4, EndedFits
    <3>2. Fits(wf, acked) BY <2>1, <3>1 DEF Fits, Shuts, Open
    <3>3. ~Live(wf) BY <2>4, States
    <3> QED BY <1>1, <1>7, <3>2, <3>3, CommitFits
  <2> QED BY <2>3, <2>4, Present
<1>8. CASE d.out = "pending" /\ Commit(again)
  <2>1. Good(sent) /\ (Live(sent) = Live(wf)) BY <1>2 DEF Applies, Live, Delivers
  <2>2. /\ again.plans = wf.plans /\ again.node = wf.node /\ again.freed = wf.freed
        /\ again.accepted = wf.accepted /\ again.state = wf.state /\ again.deliv = sent.deliv
    BY <1>2, <2>1 DEF QueueCommand, Good, Shape, Fields, Delivers
  <2> HIDE DEF again
  <2>3. CASE Live(wf)
    <3>1. Steady(wf) BY <2>3 DEF Fit
    <3>2. /\ Rev(sent) = Rev(wf) /\ Rev(wf) > 0 /\ n \in DOMAIN sent.node
          /\ Sound(sent) /\ Driven(sent)
          /\ \A m \in DOMAIN sent.deliv : m # n /\ sent.deliv[m].out = "pending" => Sent(sent, m)
      BY <1>1, <1>2, <3>1, DeliverySteady
    <3>3. Sound(again) /\ Serves(sent, again) /\ SameRows(sent, again) /\ Sent(again, n)
      BY <2>1, <3>2, QueueCommandSound DEF again
    <3>4. Driven(again) BY <3>2, <3>3, RowsAlike DEF Driven, Serves, SameRows
    <3>5. Sending(again) BY <2>2, <3>2, <3>3 DEF Sending, Serves
    <3>6. Live(again) /\ Pursued(again) /\ Planning(again) /\ again.state # "none" /\ Reviewed(again) /\ again.state \in LiveStates
      BY <1>2, <2>2, <2>3, <3>2, DeliveryPursued DEF Delivers
    <3>7. Fits(wf, again) BY <2>2, <3>3, <3>4, <3>5, <3>6 DEF Fits, Fit, Steady, Shuts, Open
    <3> QED BY <1>1, <1>8, <3>7, CommitFits
  <2>4. CASE Terminal(wf)
    <3>1. Fit(again) BY <2>2, <2>4, EndedFits
    <3>2. Fits(wf, again) BY <2>2, <3>1 DEF Fits, Shuts, Open
    <3> QED BY <1>1, <1>8, <3>2, CommitFits
  <2> QED BY <2>3, <2>4, Present
<1>9. ASSUME NEW out \in {"failed", "unknown"}, Commit(Resolved(wf, k, out)) PROVE Fits(wf, wf')
  <2> DEFINE v == Resolved(wf, k, out)
  <2>1. /\ v.plans = wf.plans /\ v.node = wf.node /\ v.accepted = wf.accepted /\ v.state = wf.state
        /\ DOMAIN v.deliv = DOMAIN wf.deliv
        /\ \A m \in DOMAIN wf.deliv : v.deliv[m].out = wf.deliv[m].out \/ v.deliv[m].out = out
    BY <1>3 DEF Delivers
  <2>2. Live(wf) => Steady(v) /\ Rev(wf) > 0 BY <1>6
  <2>3. Commit(v) BY <1>9
  <2> HIDE DEF v
  <2>4. CASE Live(wf)
    <3>1. \A m \in DOMAIN wf.deliv : v.deliv[m].out = wf.deliv[m].out \/ v.deliv[m].out \in {"pending", "failed", "unknown"}
      BY <2>1
    <3>2. Live(v) /\ Pursued(v) /\ Planning(v) /\ v.state # "none" /\ Reviewed(v) /\ v.state \in LiveStates
      BY <2>1, <2>2, <2>4, <3>1, DeliveryPursued
    <3>3. Fits(wf, v) BY <2>1, <2>2, <2>4, <3>2 DEF Fits, Fit, Shuts, Open
    <3> QED BY <1>1, <2>3, <3>3, CommitFits
  <2>5. CASE Terminal(wf)
    <3>1. Fit(v) BY <2>1, <2>5, EndedFits
    <3>2. Fits(wf, v) BY <2>1, <3>1 DEF Fits, Shuts, Open
    <3> QED BY <1>1, <2>3, <3>2, CommitFits
  <2> QED BY <2>4, <2>5, Present
<1> QED BY <1>4, <1>5, <1>7, <1>8, <1>9

\* Fitting steps compose.
LEMMA FitsTrans ==
    ASSUME NEW u, NEW w, NEW v, Fits(u, w), Fits(w, v), DOMAIN u.node \subseteq DOMAIN w.node
    PROVE  Fits(u, v)
BY DEF Fits, Shuts

\* A model returns its plan or verdict, or fails to.
LEMMA ModelJobFits ==
    ASSUME IInv, IInv', Fit(wf), NEW k \in DOMAIN wf.cmd,
           \/ \E p \in Plans : PlanProposed(k, p)
           \/ PlanRoundFails(k) \/ ReviewReturns(k) \/ DeadlinePasses(k)
    PROVE  Fits(wf, wf')
<1>1. Good(wf) /\ Good(wf') BY DEF IInv
<1>2. \A j : Fits(wf, [wf EXCEPT !.cmd[k].job = j]) BY <1>1, JobColumnsFit
<1>3. ASSUME NEW p \in Plans, PlanProposed(k, p) PROVE Fits(wf, wf')
  <2> DEFINE author == IF k[1][2] \in Labels THEN k[1] ELSE <<>>
             v == AdmitRevision(wf, p, author)
  <2>1. /\ k[2] = "plan"
        /\ \/ wf' = [wf EXCEPT !.cmd[k].job = "none"]
           \/ Live(wf) /\ wf.cmd[k].base = Rev(wf) /\ Commit(SetCommand(v, k, "done"))
    BY <1>3 DEF PlanProposed, Owned
  <2>2. CASE Live(wf) /\ wf.cmd[k].base = Rev(wf) /\ Commit(SetCommand(v, k, "done"))
    <3>1. Sound(wf) /\ Sending(wf) BY <2>2 DEF Fit, Steady
    <3>2. author \in DOMAIN wf.node => author[2] # Review
      <4>1. Review \notin Labels BY WorkflowAssumption DEF Review
      <4>2. <<>> \notin DOMAIN wf.node
        <5> SUFFICES ASSUME <<>> \in DOMAIN wf.node PROVE FALSE OBVIOUS
        <5> DEFINE e == <<>>
        <5>1. e = <<e[1], e[2]>> BY <3>1 DEF Sound, Planned
        <5>2. Len(e) = 0 /\ Len(<<e[1], e[2]>>) = 2 OBVIOUS
        <5> QED BY <5>1, <5>2
      <4> QED BY <4>1, <4>2
    <3>3. Waves(wf) \/ \A n \in Reviews(wf) : wf.node[n].st # "queued"
      <4>1. Rev(wf) \in Nat BY <1>1, RevFacts
      <4> QED BY <2>1, <2>2, <3>1, <4>1 DEF Sound, Replanned
    <3>4. p \in Plans \cup {ShaPlan} OBVIOUS
    <3> HIDE DEF author
    <3>5. /\ Fits(wf, v) /\ v.state = "dispatched" /\ Rev(v) = Rev(wf) + 1
          /\ \A n \in NodesOf(v, Rev(v)) : n \notin DOMAIN wf.node
      BY <1>1, <3>1, <3>2, <3>3, <3>4, AdmitRevisionFits
    <3>6. Good(v) /\ DOMAIN wf.node \subseteq DOMAIN v.node BY <1>1, <3>4, AdmitRevisionApplies DEF Applies, Extends
    <3> HIDE DEF v
    <3>7. Rev(wf) \in Nat /\ Rev(v) > 0 BY <1>1, <3>5, RevFacts
    <3>8. k[1] \notin NodesOf(v, Rev(v))
      <4>1. k[1] \in DOMAIN wf.node \cup {PlanNode} BY <3>1 DEF Sound, Numbered
      <4>2. PlanNode[1] = 0 BY DEF PlanNode
      <4> QED BY <3>5, <3>7, <4>1, <4>2 DEF NodesOf
    <3>9. Fits(v, SetCommand(v, k, "done")) BY <2>1, <3>5, <3>6, <3>7, <3>8, DoneFits DEF Fits
    <3>10. Fits(wf, SetCommand(v, k, "done")) BY <3>5, <3>6, <3>9, FitsTrans
    <3> QED BY <1>1, <2>2, <3>10, CommitFits
  <2> QED BY <1>2, <2>1, <2>2
<1>4. CASE PlanRoundFails(k)
  <2>1. k[2] = "plan" /\ Live(wf) /\ Commit(RejectPlanRound(wf, k)) BY <1>4 DEF PlanRoundFails, Owned
  <2>2. Fits(wf, RejectPlanRound(wf, k)) BY <1>1, <2>1, RejectPlanRoundFits
  <2> QED BY <1>1, <2>1, <2>2, CommitFits
<1>5. CASE ReviewReturns(k)
  <2>1. /\ k[2] = "review" /\ wf.cmd[k].st = "claimed"
        /\ \/ wf' = [wf EXCEPT !.cmd[k].job = "none"]
           \/ /\ Live(wf) /\ Open(wf, k[1])
              /\ \/ Commit(Accept(wf, k)) \/ Commit(RejectReview(wf, k))
                 \/ Commit(ChangesRequired(wf, k)) \/ Commit(MalformedVerdict(wf, k))
    BY <1>5 DEF ReviewReturns, Owned
  <2>2. CASE Live(wf) /\ Open(wf, k[1])
    <3>1. Fits(wf, Accept(wf, k)) BY <1>1, <2>1, <2>2, AcceptFits
    <3>2. Fits(wf, RejectReview(wf, k)) BY <1>1, <2>1, <2>2, RejectReviewFits
    <3>3. Fits(wf, ChangesRequired(wf, k))
      <4>1. Fits(wf, SetCommand(QueueCommand(Spend(wf, "review_repair"), k[1], "plan", Rev(wf)), k, "done"))
        BY <1>1, <2>1, <2>2, RepairFits
      <4> QED BY <3>2, <4>1 DEF ChangesRequired
    <3>4. Fits(wf, MalformedVerdict(wf, k))
      <4>1. Fits(wf, SetCommand(QueueCommand(Spend(wf, "protocol_correction"), k[1], "review", k[1][1]), k, "done"))
        BY <1>1, <2>1, <2>2, RepairFits
      <4> QED BY <3>2, <4>1 DEF MalformedVerdict
    <3>5. CASE wf' = [wf EXCEPT !.cmd[k].job = "none"] BY <1>2, <3>5
    <3> QED BY <1>1, <2>1, <3>1, <3>2, <3>3, <3>4, <3>5, CommitFits
  <2> QED BY <1>2, <2>1, <2>2
<1>6. CASE DeadlinePasses(k)
  <2>1. wf' = [wf EXCEPT !.cmd[k].job = "expired"] BY <1>6 DEF DeadlinePasses
  <2> QED BY <1>2, <2>1
<1> QED BY <1>3, <1>4, <1>5, <1>6

\* The end of a run closes what is open in it.
LEMMA CancelRowsFits ==
    ASSUME NEW w, Good(w), NEW st \in {"failed", "cancelled"}
    PROVE  Fits(w, [CancelRows(w) EXCEPT !.state = st])
<1> DEFINE v == [CancelRows(w) EXCEPT !.state = st]
<1>1. DOMAIN w = Fields /\ \A n \in DOMAIN w.node : DOMAIN w.node[n] = {"st", "card"} BY DEF Good, Shape
<1>2. v.state = st /\ v.node = CancelRows(w).node BY <1>1 DEF CancelRows, Fields
<1>3. \A n \in DOMAIN w.node : CancelRows(w).node[n].st \notin OpenNode
  <2> TAKE n \in DOMAIN w.node
  <2>1. CancelRows(w).node[n] = IF w.node[n].st \in OpenNode THEN [w.node[n] EXCEPT !.st = "cancelled"] ELSE w.node[n]
    BY <1>1 DEF CancelRows, Fields
  <2>2. "cancelled" \notin OpenNode BY DEF OpenNode
  <2> QED BY <1>1, <2>1, <2>2
<1> HIDE DEF v
<1>4. Fits(w, v) BY <1>2, <1>3, FailedFits DEF Fits, Shuts, Open
<1> QED BY <1>4 DEF v

\* The run ends with what is open in it: a lost model job, a cancel, a restart.
LEMMA EndingFits ==
    ASSUME IInv, IInv', Fit(wf), RequestCancel \/ Restart \/ \E k \in DOMAIN wf.cmd : ModelJobLost(k)
    PROVE  Fits(wf, wf')
<1>1. Good(wf) /\ Good(wf') BY DEF IInv
<1>2. CASE RequestCancel
  <2>1. Commit([CancelRows(wf) EXCEPT !.state = "cancelled"]) BY <1>2 DEF RequestCancel
  <2>2. Fits(wf, [CancelRows(wf) EXCEPT !.state = "cancelled"]) BY <1>1, CancelRowsFits
  <2> QED BY <1>1, <2>1, <2>2, CommitFits
<1>3. CASE Restart
  <2>1. wf' = [CancelRows(wf) EXCEPT !.state = "failed"] BY <1>3 DEF Restart
  <2> QED BY <1>1, <2>1, CancelRowsFits
<1>4. ASSUME NEW k \in DOMAIN wf.cmd, ModelJobLost(k) PROVE Fits(wf, wf')
  <2> DEFINE s == SetNode(wf, k[1], "failed")
             v == IF k[2] = "review" THEN s ELSE wf
             f == [CancelRows(v) EXCEPT !.state = "failed"]
  <2>1. Commit(f) BY <1>4 DEF ModelJobLost, FailModelJob
  <2>2. Live(wf) /\ wf.cmd[k].st = "claimed" BY <1>4 DEF ModelJobLost
  <2>3. Good(v) /\ DOMAIN v.node = DOMAIN wf.node /\ Shuts(wf, v)
    <3>1. CASE k[2] = "review"
      <4>1. k[1] \in Reviews(wf) /\ k[1] \in DOMAIN wf.node /\ k[1][2] = Review
        BY <2>2, <3>1 DEF Fit, Steady, Sound, Based, Reviews
      <4>2. k[1] \notin wf.freed BY <1>1, <4>1 DEF Good, Ready
      <4>3. Good(s) BY <1>1, <4>2, SetNodeApplies DEF Applies
      <4>4. DOMAIN s.node = DOMAIN wf.node /\ Shuts(wf, s)
        <5>1. DOMAIN s.node = DOMAIN wf.node /\ \A m \in DOMAIN wf.node : s.node[m].st = IF m = k[1] THEN "failed" ELSE wf.node[m].st
          BY <1>1, SetFacts
        <5> HIDE DEF s
        <5> QED BY <5>1 DEF Shuts, Open, OpenNode
      <4> QED BY <3>1, <4>3, <4>4
    <3>2. CASE k[2] # "review" BY <1>1, <3>2 DEF Shuts
    <3> QED BY <3>1, <3>2
  <2> HIDE DEF v
  <2>4. Fits(v, f) BY <2>3, CancelRowsFits
  <2>5. Fits(wf, f) BY <2>3, <2>4 DEF Fits, Shuts
  <2> QED BY <1>1, <2>1, <2>5, CommitFits
<1> QED BY <1>2, <1>3, <1>4

-----------------------------------------------------------------------------
(* The steps of the workers, and the outcomes that were applied.           *)

\* Commit leaves the nodes as they are.
LEMMA CommitNodes ==
    ASSUME NEW w, Commit(w), Good(wf')
    PROVE  wf'.node = w.node
<1>1. CASE ~Terminal(w) BY <1>1 DEF Commit
<1>2. CASE Terminal(w)
  <2> DEFINE c == [k \in DOMAIN w.cmd |-> [w.cmd[k] EXCEPT !.job = "none"]]
  <2>1. wf' = [w EXCEPT !.cmd = c] BY <1>2 DEF Commit
  <2> HIDE DEF c
  <2>2. DOMAIN w = Fields BY <2>1 DEF Good, Shape
  <2> QED BY <2>1, <2>2 DEF Fields
<1> QED BY <1>1, <1>2

\* What becomes of an ended attempt leaves the rows fit, and a completion closes its node.
LEMMA OutcomeFits ==
    ASSUME IInv, Fit(wf), NEW c \in DOMAIN att, NEW a, NEW retrySafe \in BOOLEAN
    PROVE  LET o == ApplyOutcome(c, a, retrySafe) IN
           /\ Fits(wf, o)
           /\ Live(wf) /\ Open(wf, c[1]) /\ Bound(c) /\ ~a.seen /\ (a.life = "accepted" \/ ~retrySafe) => ~Open(o, c[1])
<1> DEFINE n == c[1]
           o == ApplyOutcome(c, a, retrySafe)
<1>1. Good(wf) /\ n \in DOMAIN wf.node /\ n[2] # Review BY CardsAreWork DEF IInv
<1>2. CASE ~Live(wf) \/ ~Open(wf, n) \/ ~Bound(c) \/ a.seen
  BY <1>2, FitsSame DEF ApplyOutcome, NodeOf
<1>3. CASE ~(~Live(wf) \/ ~Open(wf, n) \/ ~Bound(c) \/ a.seen)
  <2>1. o = IF a.life = "accepted" THEN SucceedNode(wf, n) ELSE FailNode(wf, n, retrySafe)
    BY <1>3 DEF ApplyOutcome, NodeOf
  <2>2. Fits(wf, SucceedNode(wf, n)) /\ ~Open(SucceedNode(wf, n), n) BY <1>1, <1>3, SucceedNodeFits
  <2>3. Fits(wf, FailNode(wf, n, retrySafe)) /\ (~retrySafe => ~Open(FailNode(wf, n, retrySafe), n)) BY <1>1, <1>3, FailNodeFits
  <2> HIDE DEF o
  <2>4. CASE a.life = "accepted"
    <3>1. o = SucceedNode(wf, n) BY <2>1, <2>4
    <3>2. Fits(wf, o) /\ ~Open(o, n) BY <2>2, <3>1
    <3> QED BY <3>2 DEF o
  <2>5. CASE a.life # "accepted"
    <3>1. o = FailNode(wf, n, retrySafe) BY <2>1, <2>5
    <3>2. Fits(wf, o) /\ (~retrySafe => ~Open(o, n)) BY <2>3, <3>1
    <3> QED BY <2>5, <3>2 DEF o
  <2> QED BY <2>4, <2>5
<1> QED BY <1>2, <1>3

\* While no attempt starts, an outcome that was applied stays applied.
LEMMA SeenFrame ==
    ASSUME IInv, IInv', SeenOnce(wf, att), Shuts(wf, wf'), DOMAIN att' = DOMAIN att,
           \A c \in DOMAIN att : att'[c].seen =>
              \/ att[c].seen /\ att'[c].life = att[c].life
              \/ /\ att'[c].life \in EndedAttempt
                 /\ att'[c].life \in {"accepted", "rejected"} => ~Open(wf', c[1])
    PROVE  SeenOnce(wf', att')
<1> SUFFICES ASSUME NEW c \in DOMAIN att, att'[c].seen
             PROVE  /\ att'[c].life \in EndedAttempt
                    /\ wf'.node[c[1]].card = c /\ att'[c].life \in {"accepted", "rejected"} => ~Open(wf', c[1])
  BY DEF SeenOnce
<1>1. c[1] \in DOMAIN wf.node /\ c[1] \in DOMAIN wf'.node BY DEF IInv, Paired
<1>2. wf'.node[c[1]].card = wf.node[c[1]].card
  <2>1. Cards(att', c[1]) = Cards(att, c[1]) BY DEF Cards
  <2>2. wf.node[c[1]].card = IF Cardinality(Cards(att, c[1])) = 0 THEN <<>> ELSE <<c[1], Cardinality(Cards(att, c[1])) - 1>>
    BY <1>1 DEF IInv, Paired
  <2>3. wf'.node[c[1]].card = IF Cardinality(Cards(att', c[1])) = 0 THEN <<>> ELSE <<c[1], Cardinality(Cards(att', c[1])) - 1>>
    BY <1>1 DEF IInv, Paired
  <2> QED BY <2>1, <2>2, <2>3
<1>3. CASE att[c].seen /\ att'[c].life = att[c].life
  <2>1. att[c].life \in EndedAttempt /\ (wf.node[c[1]].card = c /\ att[c].life \in {"accepted", "rejected"} => ~Open(wf, c[1]))
    BY <1>3 DEF SeenOnce
  <2> QED BY <1>1, <1>2, <1>3, <2>1 DEF Shuts
<1>4. CASE ~(att[c].seen /\ att'[c].life = att[c].life) BY <1>4
<1> QED BY <1>3, <1>4

\* The same while no attempt moves.
LEMMA RowsSeen ==
    ASSUME IInv, IInv', SeenOnce(wf, att), Fits(wf, wf'), att' = att
    PROVE  SeenOnce(wf', att')
BY SeenFrame DEF Fits

\* Fencing touches no attempt that ended.
LEMMA FenceSeen ==
    ASSUME IInv, IInv', SeenOnce(wf, att), Fits(wf, wf'), att' = Fence(att)
    PROVE  SeenOnce(wf', att')
<1>1. DOMAIN att' = DOMAIN att /\ \A c \in DOMAIN att :
         att'[c] = IF att[c].life \in {"pending", "running"} THEN [att[c] EXCEPT !.life = "cancel_requested"] ELSE att[c]
  BY DEF Fence
<1>2. \A c \in DOMAIN att : DOMAIN att[c] = {"life", "asked", "seen", "nested"} BY DEF IInv, Paired
<1>3. \A c \in DOMAIN att : att'[c].seen = att[c].seen /\ (att[c].seen => att'[c].life = att[c].life)
  <2> TAKE c \in DOMAIN att
  <2>1. CASE att[c].life \in {"pending", "running"}
    <3>1. ~att[c].seen BY <2>1 DEF SeenOnce, EndedAttempt
    <3>2. att'[c] = [att[c] EXCEPT !.life = "cancel_requested"] BY <1>1, <2>1
    <3>3. att'[c].seen = att[c].seen BY <1>2, <3>2
    <3> QED BY <3>1, <3>3
  <2>2. CASE att[c].life \notin {"pending", "running"} BY <1>1, <2>2
  <2> QED BY <2>1, <2>2
<1> QED BY <1>1, <1>3, SeenFrame DEF Fits

\* Attempts that end, or answer, while the rows stay.
LEMMA WorkerFits ==
    ASSUME IInv, IInv', Fit(wf), SeenOnce(wf, att), NEW c \in DOMAIN att,
           \/ WorkerStarts(c) \/ AnswerRetry(c) \/ AutoRetry(c) \/ WorkerAsks(c)
           \/ \E life \in EndedAttempt : HookContained(c, life)
    PROVE  Fits(wf, wf') /\ SeenOnce(wf', att')
<1>1. DOMAIN att[c] = {"life", "asked", "seen", "nested"} BY DEF IInv, Paired
<1>2. wf' = wf BY DEF WorkerStarts, AnswerRetry, AutoRetry, WorkerAsks, HookContained
<1>3. \/ att[c].life = "pending" /\ att' = [att EXCEPT ![c].life = "running"]
      \/ att[c].asked /\ att' = [att EXCEPT ![c] = NewAttempt(att[c].nested)]
      \/ att' = [att EXCEPT ![c] = NewAttempt(TRUE)]
      \/ att[c].life = "running" /\ att' = [att EXCEPT ![c].life = "failed", ![c].asked = TRUE]
      \/ att[c].life = "running" /\ \E life \in EndedAttempt : att' = [att EXCEPT ![c].life = life]
  BY DEF WorkerStarts, AnswerRetry, AutoRetry, WorkerAsks, HookContained
<1>4. DOMAIN att' = DOMAIN att /\ \A d \in DOMAIN att : d # c => att'[d] = att[d] BY <1>3
<1>5. att[c].life \in {"pending", "running"} => ~att[c].seen BY DEF SeenOnce, EndedAttempt
<1>6. ~att'[c].seen
  <2>1. CASE att[c].life = "pending" /\ att' = [att EXCEPT ![c].life = "running"]
    BY <1>1, <1>5, <2>1
  <2>2. CASE att[c].asked /\ att' = [att EXCEPT ![c] = NewAttempt(att[c].nested)]
    BY <2>2 DEF NewAttempt
  <2>5. CASE att' = [att EXCEPT ![c] = NewAttempt(TRUE)]
    BY <2>5 DEF NewAttempt
  <2>3. CASE att[c].life = "running" /\ att' = [att EXCEPT ![c].life = "failed", ![c].asked = TRUE]
    BY <1>1, <1>5, <2>3
  <2>4. ASSUME att[c].life = "running", NEW life \in EndedAttempt, att' = [att EXCEPT ![c].life = life]
        PROVE  ~att'[c].seen
    BY <1>1, <1>5, <2>4
  <2> QED BY <1>3, <2>1, <2>2, <2>3, <2>4, <2>5
<1>7. Fits(wf, wf') BY <1>2, FitsSame
<1> QED BY <1>4, <1>6, <1>7, SeenFrame DEF Fits

\* The settlement of an attempt.
LEMMA WorkerEndsFits ==
    ASSUME IInv, IInv', Fit(wf), SeenOnce(wf, att), NEW c \in DOMAIN att, NEW life \in EndedAttempt, NEW retrySafe \in BOOLEAN,
           WorkerEnds(c, life, retrySafe)
    PROVE  Fits(wf, wf') /\ SeenOnce(wf', att')
<1> DEFINE a == [att[c] EXCEPT !.life = life]
           o == ApplyOutcome(c, a, retrySafe)
<1>1. Good(wf') /\ DOMAIN att[c] = {"life", "asked", "seen", "nested"} BY DEF IInv, Paired
<1>2. /\ att[c].life \in {"running", "cancel_requested"} /\ (retrySafe => life = "failed") /\ Commit(o)
      /\ att' = [att EXCEPT ![c].life = life, ![c].seen = Live(wf) /\ Open(wf, NodeOf(c)) /\ Bound(c)]
  BY DEF WorkerEnds
<1>3. ~att[c].seen BY <1>2 DEF SeenOnce, EndedAttempt
<1>4. ~a.seen /\ a.life = life BY <1>1, <1>3
<1>5. /\ DOMAIN att' = DOMAIN att /\ \A d \in DOMAIN att : d # c => att'[d] = att[d]
      /\ att'[c].life = life /\ (att'[c].seen => Live(wf) /\ Open(wf, c[1]) /\ Bound(c))
  BY <1>1, <1>2 DEF NodeOf
<1> HIDE DEF a
<1>6. Fits(wf, o) /\ (Live(wf) /\ Open(wf, c[1]) /\ Bound(c) /\ ~a.seen /\ (a.life = "accepted" \/ ~retrySafe) => ~Open(o, c[1]))
  BY OutcomeFits
<1> HIDE DEF o
<1>7. Fits(wf, wf') /\ wf'.node = o.node BY <1>1, <1>2, <1>6, CommitFits, CommitNodes
<1>8. att'[c].seen /\ life \in {"accepted", "rejected"} => ~Open(wf', c[1])
  <2>1. life \in {"accepted", "rejected"} => ~retrySafe BY <1>2
  <2> QED BY <1>4, <1>5, <1>6, <1>7, <2>1 DEF Open
<1> QED BY <1>5, <1>7, <1>8, SeenFrame DEF Fits

\* The audit applies a completion that the hook lost.
LEMMA RecoverFits ==
    ASSUME IInv, IInv', Fit(wf), SeenOnce(wf, att), NEW c \in DOMAIN att, RecoverCompletion(c)
    PROVE  Fits(wf, wf') /\ SeenOnce(wf', att')
<1> DEFINE o == ApplyOutcome(c, att[c], FALSE)
<1>1. Good(wf') /\ DOMAIN att[c] = {"life", "asked", "seen", "nested"} BY DEF IInv, Paired
<1>2. /\ Live(wf) /\ Bound(c) /\ Open(wf, c[1]) /\ att[c].life \in EndedAttempt /\ ~att[c].seen
      /\ Commit(o) /\ att' = [att EXCEPT ![c].seen = TRUE]
  BY DEF RecoverCompletion, NodeOf
<1>3. /\ DOMAIN att' = DOMAIN att /\ \A d \in DOMAIN att : d # c => att'[d] = att[d]
      /\ att'[c].life = att[c].life
  BY <1>1, <1>2
<1>4. Fits(wf, o) /\ ~Open(o, c[1]) BY <1>2, OutcomeFits
<1> HIDE DEF o
<1>5. Fits(wf, wf') /\ wf'.node = o.node BY <1>1, <1>2, <1>4, CommitFits, CommitNodes
<1> QED BY <1>2, <1>3, <1>4, <1>5, SeenFrame DEF Fits, Open

\* The inspection of a dispatch claim.
LEMMA InspectDispatchFits ==
    ASSUME IInv, IInv', Fit(wf), SeenOnce(wf, att), NEW k \in DOMAIN wf.cmd, InspectDispatch(k)
    PROVE  Fits(wf, wf') /\ SeenOnce(wf', att')
<1> DEFINE n == k[1]
           c == wf.node[n].card
           moot == n[1] # Rev(wf) \/ ~Open(wf, n)
           ended(lives) == ~moot /\ c # <<>> /\ att[c].life \in lives
           o == ApplyOutcome(c, att[c], FALSE)
           f == FailInspected(wf, n)
<1>1. Good(wf) /\ Good(wf') /\ k[2] = "dispatch" /\ Live(wf) /\ wf.state # "none"
  BY Present DEF IInv, InspectDispatch
<1>2. n \in DOMAIN wf.node /\ n[2] # Review BY <1>1 DEF Good, Ready
<1>3. \/ moot /\ Commit(SetCommand(wf, k, "done")) /\ att' = att
      \/ Commit(SetCommand(wf, k, "pending")) /\ att' = att
      \/ ended({"accepted", "rejected"}) /\ Commit(SetCommand(o, k, "done")) /\ att' = [att EXCEPT ![c].seen = TRUE]
      \/ ~moot /\ Commit(SetCommand(f, k, "done")) /\ att' = att
      \/ ~moot /\ Commit(Inconclusive(k)) /\ att' = att
  BY DEF InspectDispatch
<1>4. CASE moot /\ Commit(SetCommand(wf, k, "done")) /\ att' = att
  <2>1. n \notin NodesOf(wf, Rev(wf)) \/ ~Open(wf, n) BY <1>4 DEF NodesOf
  <2>2. Fits(wf, SetCommand(wf, k, "done")) BY <1>1, <2>1, DoneFits
  <2>3. Fits(wf, wf') BY <1>1, <1>4, <2>2, CommitFits
  <2> QED BY <1>4, <2>3, RowsSeen
<1>5. CASE Commit(SetCommand(wf, k, "pending")) /\ att' = att
  <2>1. Fits(wf, SetCommand(wf, k, "pending")) BY <1>1, DoneFits
  <2>2. Fits(wf, wf') BY <1>1, <1>5, <2>1, CommitFits
  <2> QED BY <1>5, <2>2, RowsSeen
<1>6. CASE ended({"accepted", "rejected"}) /\ Commit(SetCommand(o, k, "done")) /\ att' = [att EXCEPT ![c].seen = TRUE]
  <2>1. c \in DOMAIN att /\ c[1] = n BY <1>2, <1>6, BoundCard
  <2>2. DOMAIN att[c] = {"life", "asked", "seen", "nested"} BY <2>1 DEF IInv, Paired
  <2>3. Open(wf, n) /\ att[c].life \in {"accepted", "rejected"} BY <1>6
  <2>4. ~att[c].seen BY <2>1, <2>3 DEF SeenOnce
  <2>5. Bound(c) BY <2>1 DEF Bound, NodeOf
  <2>6. Fits(wf, o) /\ ~Open(o, n) BY <1>1, <2>1, <2>3, <2>4, <2>5, OutcomeFits
  <2>7. Good(o) /\ DOMAIN wf.node \subseteq DOMAIN o.node
    <3>1. Applies(wf, o) BY <1>2, <2>1, OutcomeApplies
    <3> QED BY <3>1 DEF Applies, Extends
  <2>8. /\ DOMAIN att' = DOMAIN att /\ \A d \in DOMAIN att : d # c => att'[d] = att[d]
        /\ att'[c].life = att[c].life
    BY <1>6, <2>2
  <2>9. Commit(SetCommand(o, k, "done")) BY <1>6
  <2> HIDE DEF o, c
  <2>10. o.state # "none" BY <1>2, <2>6, <2>7, Present DEF Fits
  <2>11. Fits(o, SetCommand(o, k, "done")) BY <1>1, <2>6, <2>7, <2>10, DoneFits DEF Fits
  <2>12. Fits(wf, SetCommand(o, k, "done")) BY <2>6, <2>7, <2>11, FitsTrans
  <2>13. Fits(wf, wf') BY <1>1, <2>9, <2>12, CommitFits
  <2>14. wf'.node = SetCommand(o, k, "done").node BY <1>1, <2>9, CommitNodes
  <2>15. ~Open(wf', n) BY <1>2, <2>6, <2>7, <2>11, <2>14 DEF Fits, Shuts, Open
  <2>16. \A d \in DOMAIN att : att'[d].seen =>
            \/ att[d].seen /\ att'[d].life = att[d].life
            \/ /\ att'[d].life \in EndedAttempt
               /\ att'[d].life \in {"accepted", "rejected"} => ~Open(wf', d[1])
    BY <2>1, <2>3, <2>8, <2>15 DEF EndedAttempt
  <2> QED BY <2>8, <2>13, <2>16, SeenFrame DEF Fits
<1>7. CASE ~moot /\ Commit(SetCommand(f, k, "done")) /\ att' = att
  <2>1. Fits(wf, f) /\ ~Open(f, n) BY <1>1, <1>2, <1>7, FailInspectedFits
  <2>2. Good(f) /\ DOMAIN wf.node \subseteq DOMAIN f.node
    <3> DEFINE s == SetNode(wf, n, "failed")
    <3>1. n \notin wf.freed BY <1>1, <1>7, FreedIsClosed
    <3>2. Applies(wf, s) BY <1>1, <3>1, SetNodeApplies
    <3>3. f = Evaluate(s, Rev(wf)) BY DEF FailInspected
    <3> HIDE DEF s, f
    <3>4. Applies(s, f) BY <3>2, <3>3, StateApplies DEF Applies
    <3>5. Applies(wf, f) BY <3>2, <3>4, AppliesTrans
    <3> QED BY <3>5 DEF Applies, Extends
  <2> HIDE DEF f
  <2>3. f.state # "none" BY <1>2, <2>1, <2>2, Present DEF Fits
  <2>4. Fits(f, SetCommand(f, k, "done")) BY <1>1, <2>1, <2>2, <2>3, DoneFits DEF Fits
  <2>5. Fits(wf, SetCommand(f, k, "done")) BY <2>1, <2>2, <2>4, FitsTrans
  <2>6. Fits(wf, wf') BY <1>1, <1>7, <2>5, CommitFits
  <2> QED BY <1>7, <2>6, RowsSeen
<1>8. CASE ~moot /\ Commit(Inconclusive(k)) /\ att' = att
  <2> DEFINE s == SetNode(wf, n, "failed")
             v == [s EXCEPT !.state = "failed"]
             i == [wf EXCEPT !.cmd[k].inc = @ + 1]
  <2>1. Inconclusive(k) \in {i, v} BY DEF Inconclusive
  <2>2. Fits(wf, i)
    <3>1. \E x : i = [wf EXCEPT !.cmd[k].inc = x] OBVIOUS
    <3> QED BY <1>1, <3>1, JobColumnsFit
  <2>3. Fits(wf, v)
    <3>1. DOMAIN s = Fields /\ \A m \in DOMAIN wf.node : s.node[m].st = IF m = n THEN "failed" ELSE wf.node[m].st
      BY <1>1, SetFacts
    <3> HIDE DEF s
    <3>2. v.state = "failed" /\ v.node = s.node BY <3>1 DEF Fields
    <3> HIDE DEF v
    <3>3. Fit(v) BY <3>2, FailedFits
    <3> QED BY <3>1, <3>2, <3>3 DEF Fits, Shuts, Open, OpenNode
  <2> HIDE DEF v, i
  <2>4. Fits(wf, Inconclusive(k)) BY <2>1, <2>2, <2>3
  <2>5. Fits(wf, wf') BY <1>1, <1>8, <2>4, CommitFits
  <2> QED BY <1>8, <2>5, RowsSeen
<1> QED BY <1>3, <1>4, <1>5, <1>6, <1>7, <1>8

\* A new attempt has no outcome yet, and its node forgets the outcomes of the others.
LEMMA DrainDispatchSeen ==
    ASSUME IInv, IInv', Fit(wf), SeenOnce(wf, att), NEW k \in DOMAIN wf.cmd, DrainDispatch(k)
    PROVE  SeenOnce(wf', att')
<1> DEFINE n == k[1]
           cards == Cardinality(Cards(att, n))
           card == <<n, cards>>
           row == NewAttempt(FALSE)
<1>1. StartChild(k) \/ att' = att BY DEF DrainDispatch
<1>2. CASE att' = att BY <1>2, DrainDispatchFits, RowsSeen
<1>3. CASE StartChild(k)
  <2>1. /\ wf' = [wf EXCEPT !.cmd[k].st = "claimed", !.node[n] = [st |-> "running", card |-> card]]
        /\ att' = Merge([c \in {card} |-> row], att)
    BY <1>3 DEF StartChild, Cards
  <2>2. n \in DOMAIN wf.node /\ DOMAIN wf = Fields BY DEF IInv, DrainDispatch, Good, Ready, Shape
  <2>3. card \notin DOMAIN att
    <3> SUFFICES ASSUME card \in DOMAIN att PROVE FALSE OBVIOUS
    <3>1. card \in Cards(att, n) BY DEF Cards
    <3>2. IsFiniteSet(Cards(att, n)) /\ card[2] < cards BY <2>2, <3>1 DEF IInv, Paired
    <3>3. cards \in Nat BY <3>2, FS_CardinalityType
    <3> QED BY <3>2, <3>3
  <2> HIDE DEF cards, row
  <2>4. /\ DOMAIN att' = DOMAIN att \cup {card} /\ att'[card] = row
        /\ \A c \in DOMAIN att : att'[c] = att[c]
    BY <2>1, <2>3 DEF Merge
  <2>5. wf'.node[n].card = card /\ \A m \in DOMAIN wf.node : m # n => wf'.node[m] = wf.node[m]
    <3>1. wf'.node = [wf.node EXCEPT ![n] = [st |-> "running", card |-> card]] BY <2>1, <2>2 DEF Fields
    <3> QED BY <2>2, <3>1
  <2> SUFFICES ASSUME NEW c \in DOMAIN att', att'[c].seen
               PROVE  /\ att'[c].life \in EndedAttempt
                      /\ wf'.node[c[1]].card = c /\ att'[c].life \in {"accepted", "rejected"} => ~Open(wf', c[1])
    BY DEF SeenOnce
  <2>6. c \in DOMAIN att /\ c # card
    <3>1. ~row.seen BY DEF row, NewAttempt
    <3> QED BY <2>3, <2>4, <3>1
  <2>7. c[1] \in DOMAIN wf.node BY <2>6 DEF IInv, Paired
  <2>8. att'[c] = att[c] BY <2>4, <2>6
  <2>9. CASE c[1] = n BY <2>5, <2>6, <2>8, <2>9 DEF SeenOnce
  <2>10. CASE c[1] # n BY <2>5, <2>6, <2>7, <2>8, <2>10 DEF SeenOnce, Open
  <2> QED BY <2>9, <2>10
<1> QED BY <1>1, <1>2, <1>3

-----------------------------------------------------------------------------
(* The theorems about the verdict and the drive of a run.                  *)

\* A run begins without rows.
LEMMA InitJInv == Init => JInv
<1> SUFFICES ASSUME Init PROVE JInv
  OBVIOUS
<1>1. wf = Absent /\ att = <<>> BY DEF Init
<1>2. wf.state = "none" BY <1>1 DEF Absent
<1>3. Fit(wf) BY <1>1, <1>2 DEF Fit, Live, LiveStates, Reviewed
<1>4. SeenOnce(wf, att) BY <1>1 DEF SeenOnce
<1>5. Nested(wf, att) BY <1>1 DEF Nested
<1> QED BY <1>3, <1>4, <1>5, InitIInv DEF JInv, KInv

\* Every step keeps the rows of a live run fit.
LEMMA NextJInv == JInv /\ [Next]_vars => JInv'
<1> SUFFICES ASSUME JInv, [Next]_vars PROVE JInv'
  OBVIOUS
<1>1. IInv /\ IInv' /\ Fit(wf) /\ SeenOnce(wf, att) BY NextIInv DEF JInv, KInv
<1>2. SUFFICES Fit(wf') /\ SeenOnce(wf', att') BY <1>1, NestedStep DEF JInv, KInv
<1>3. CASE Admit \/ AdmitWithoutPlan \/ Readmit \/ AdmitSha
  <2>1. Fits(wf, wf') /\ att' = att BY <1>1, <1>3, AdmissionFits
  <2> QED BY <1>1, <2>1, RowsSeen DEF Fits
<1>4. ASSUME NEW k \in DOMAIN wf.cmd, DrainDispatch(k) PROVE Fit(wf') /\ SeenOnce(wf', att')
  BY <1>1, <1>4, DrainDispatchFits, DrainDispatchSeen DEF Fits
<1>5. ASSUME NEW k \in DOMAIN wf.cmd, DrainModelJob(k) \/ DrainDeliver(k) PROVE Fit(wf') /\ SeenOnce(wf', att')
  <2>1. att' = att BY <1>5 DEF DrainModelJob, DrainDeliver
  <2>2. Fits(wf, wf') BY <1>1, <1>5, DrainModelJobFits, DrainDeliverFits
  <2> QED BY <1>1, <2>1, <2>2, RowsSeen DEF Fits
<1>6. ASSUME NEW k \in DOMAIN wf.cmd,
             \/ \E p \in Plans : PlanProposed(k, p)
             \/ PlanRoundFails(k) \/ ReviewReturns(k) \/ DeadlinePasses(k)
      PROVE  Fit(wf') /\ SeenOnce(wf', att')
  <2>1. att' = att BY <1>6 DEF PlanProposed, PlanRoundFails, ReviewReturns, DeadlinePasses
  <2>2. Fits(wf, wf') BY <1>1, <1>6, ModelJobFits
  <2> QED BY <1>1, <2>1, <2>2, RowsSeen DEF Fits
<1>7. CASE RequestCancel \/ Restart \/ \E k \in DOMAIN wf.cmd : ModelJobLost(k)
  <2>1. att' = Fence(att) BY <1>7 DEF RequestCancel, Restart, ModelJobLost
  <2>2. Fits(wf, wf') BY <1>1, <1>7, EndingFits
  <2> QED BY <1>1, <2>1, <2>2, FenceSeen DEF Fits
<1>8. CASE Drain BY <1>4, <1>5, <1>8 DEF Drain
<1>9. CASE ModelJobs \/ \E k \in DOMAIN wf.cmd : DeadlinePasses(k) BY <1>6, <1>9 DEF ModelJobs
<1>10. CASE Inspect BY <1>1, <1>7, <1>10, InspectDispatchFits DEF Inspect, Fits
<1>11. CASE Workers BY <1>1, <1>11, WorkerFits, WorkerEndsFits DEF Workers, Fits
<1>12. CASE Recover BY <1>1, <1>12, RecoverFits DEF Recover, Fits
<1>13. CASE ProjectTerminal \/ UNCHANGED vars
  <2>1. wf' = wf /\ att' = att BY <1>13 DEF ProjectTerminal, vars
  <2> QED BY <1>1, <2>1
<1> QED BY <1>3, <1>7, <1>8, <1>9, <1>10, <1>11, <1>12, <1>13 DEF Next

\* The rows of a live run are fit in every reachable state.
LEMMA Fitness == Spec => []JInv
BY InitJInv, NextJInv, PTL DEF Spec

\* A run succeeds only on a reviewer's acceptance of its latest revision, but for
\* a plan that allows a partial result, a plan with planning nodes, and a repair
\* that an earlier review refused: evaluateTerminal judges the nodes only, and it
\* is the rows of the reviews that make the acceptance follow.
THEOREM SuccessIsReviewedHolds == Spec => []SuccessIsReviewed
<1>1. JInv => SuccessIsReviewed
  <2> SUFFICES ASSUME JInv, wf.state = "succeeded"
               PROVE  Rev(wf) \in wf.accepted \/ Partial \/ HasWave \/ RepairRefused
    BY DEF SuccessIsReviewed
  <2>1. \/ Rev(wf) \in wf.accepted \/ (Rev(wf) > 0 /\ wf.plans[Rev(wf)].partial)
        \/ Waves(wf) \/ Refused(wf)
    BY DEF JInv, Fit, Reviewed
  <2>2. DOMAIN wf.plans = 1 .. Rev(wf) BY RevFacts DEF JInv, KInv, IInv
  <2> QED BY <2>1, <2>2 DEF Partial, HasWave, RepairRefused, Waves, Refused
<1> QED BY <1>1, Fitness, PTL

\* The dependencies of a plan's node are nodes of the plan.
LEMMA PlanDeps ==
    ASSUME NEW p \in Plans \cup {ShaPlan}, NEW l \in Work(p)
    PROVE  p.deps[l] \subseteq Work(p)
<1>1. p.deps \in [Work(p) -> SUBSET Work(p)] BY WorkflowAssumption DEF Work
<1> HIDE DEF Work
<1> QED BY <1>1

\* The queued work of a revision contains a node that no queued work of it blocks.
LEMMA FirstQueued ==
    ASSUME NEW w, Good(w), Sound(w), NEW n \in NodesOf(w, Rev(w)), w.node[n].st = "queued", n[2] # Review
    PROVE  \E m \in NodesOf(w, Rev(w)) : /\ w.node[m].st = "queued"
                                         /\ \A d \in Deps(w, m) : d \in DOMAIN w.node => w.node[d].st # "queued"
<1> DEFINE r == Rev(w)
           p == w.plans[r]
           Q == {l \in Work(p) : <<r, l>> \in DOMAIN w.node /\ w.node[<<r, l>>].st = "queued"}
<1>1. n \in DOMAIN w.node /\ n[1] = r /\ n = <<r, n[2]>> /\ n[2] \in Work(p) BY DEF NodesOf, Sound, Planned
<1>2. r \in DOMAIN w.plans BY <1>1 DEF Good, Shape
<1>3. p \in Plans \cup {ShaPlan} BY <1>2, RevFacts
<1>4. n[2] \in Q BY <1>1
<1>5. Q \in SUBSET (p.work \cup p.wave) /\ Q # {} BY <1>4 DEF Work
<1> HIDE DEF Q
<1>6. PICK l \in Q : p.deps[l] \cap Q = {} BY <1>3, <1>5, WorkflowAssumption
<1> DEFINE m == <<r, l>>
<1>7. l \in Work(p) /\ m \in DOMAIN w.node /\ w.node[m].st = "queued" BY <1>6 DEF Q
<1>8. m \in NodesOf(w, r) BY <1>7 DEF NodesOf
<1>9. l # Review BY <1>2, <1>7, PlansHaveWork DEF Sound
<1>10. p.deps[l] \subseteq Work(p) BY <1>3, <1>7, PlanDeps
<1>11. \A d \in Deps(w, m) : d \in DOMAIN w.node => w.node[d].st # "queued"
  <2> SUFFICES ASSUME NEW d \in Deps(w, m), d \in DOMAIN w.node, w.node[d].st = "queued" PROVE FALSE OBVIOUS
  <2>1. PICK x \in p.deps[l] : d = <<r, x>> BY <1>9 DEF Deps
  <2>2. x \in Q BY <1>10, <2>1 DEF Q
  <2> QED BY <1>6, <2>1, <2>2
<1> QED BY <1>7, <1>8, <1>11

\* In a fit run with an open node in its latest revision, a command serves some
\* node, or a queued node waits for one that will never be freed.
LEMMA OpenIsDriven ==
    ASSUME NEW w, Good(w), Steady(w), NEW n \in NodesOf(w, Rev(w)), Open(w, n)
    PROVE  \/ \E k \in DOMAIN w.cmd : Awaited(w, k)
           \/ \E m \in NodesOf(w, Rev(w)) :
                 w.node[m].st = "queued" /\ \E d \in Deps(w, m) : ~Open(w, d) /\ d \notin w.freed
<1> DEFINE stuck == \E m \in NodesOf(w, Rev(w)) :
                        w.node[m].st = "queued" /\ \E d \in Deps(w, m) : ~Open(w, d) /\ d \notin w.freed
           driven == \E k \in DOMAIN w.cmd : Awaited(w, k)
<1> SUFFICES driven \/ stuck OBVIOUS
<1>1. \A m : Served(w, m) => driven BY DEF Served
<1>2. \A m \in NodesOf(w, Rev(w)) : w.node[m].st = "running" => driven BY <1>1 DEF Steady, Driven
<1>3. \A m \in NodesOf(w, Rev(w)) : w.node[m].st = "queued" /\ Unblocked(w, m) => driven BY <1>1 DEF Steady, Driven
<1>4. \A m \in NodesOf(w, Rev(w)) : \A d \in Deps(w, m) : d \in NodesOf(w, Rev(w))
  <2> SUFFICES ASSUME NEW m \in NodesOf(w, Rev(w)), NEW d \in Deps(w, m) PROVE d \in NodesOf(w, Rev(w)) OBVIOUS
  <2>1. m \in DOMAIN w.node /\ m[1] = Rev(w) /\ Rev(w) \in DOMAIN w.plans BY DEF NodesOf, Good, Shape
  <2>2. PICK l \in Work(w.plans[Rev(w)]) : d = <<Rev(w), l>>
    <3>1. CASE m[2] = Review BY <2>1, <3>1 DEF Deps, Work
    <3>2. CASE m[2] # Review
      <4>1. m[2] \in Work(w.plans[Rev(w)]) BY <2>1, <3>2 DEF Steady, Sound, Planned
      <4>2. w.plans[Rev(w)] \in Plans \cup {ShaPlan} BY <2>1, RevFacts
      <4>3. w.plans[Rev(w)].deps[m[2]] \subseteq Work(w.plans[Rev(w)]) BY <4>1, <4>2, PlanDeps
      <4> QED BY <2>1, <3>2, <4>3 DEF Deps
    <3> QED BY <3>1, <3>2
  <2>3. d \in DOMAIN w.node BY <2>1, <2>2 DEF Steady, Sound, Planned
  <2> QED BY <2>2, <2>3 DEF NodesOf
<1>5. ASSUME NEW m \in NodesOf(w, Rev(w)), w.node[m].st = "queued",
             \A d \in Deps(w, m) : w.node[d].st # "queued"
      PROVE  driven \/ stuck
  <2>1. CASE Unblocked(w, m) BY <1>3, <1>5, <2>1
  <2>2. CASE ~Unblocked(w, m)
    <3>1. PICK d \in Deps(w, m) : d \notin w.freed BY <2>2 DEF Unblocked
    <3>2. d \in NodesOf(w, Rev(w)) /\ w.node[d].st # "queued" BY <1>4, <1>5
    <3>3. CASE w.node[d].st = "running" BY <1>2, <3>2, <3>3
    <3>4. CASE w.node[d].st # "running"
      <4>1. ~Open(w, d) BY <3>2, <3>4 DEF Open, OpenNode
      <4> QED BY <1>5, <3>1, <4>1
    <3> QED BY <3>3, <3>4
  <2> QED BY <2>1, <2>2
<1>6. CASE \E m \in NodesOf(w, Rev(w)) : w.node[m].st = "queued" /\ m[2] # Review
  <2>1. PICK m \in NodesOf(w, Rev(w)) : /\ w.node[m].st = "queued"
                                        /\ \A d \in Deps(w, m) : d \in DOMAIN w.node => w.node[d].st # "queued"
    BY <1>6, FirstQueued DEF Steady
  <2>2. \A d \in Deps(w, m) : w.node[d].st # "queued" BY <1>4, <2>1 DEF NodesOf
  <2> HIDE DEF driven, stuck
  <2> QED BY <1>5, <2>1, <2>2
<1>7. CASE \A m \in NodesOf(w, Rev(w)) : w.node[m].st = "queued" => m[2] = Review
  <2>1. CASE w.node[n].st = "running" BY <1>2, <2>1
  <2>2. CASE w.node[n].st = "queued"
    <3>1. n[2] = Review BY <1>7, <2>2
    <3>2. ASSUME NEW d \in Deps(w, n) PROVE w.node[d].st # "queued"
      <4>1. d \in NodesOf(w, Rev(w)) /\ d[2] \in w.plans[Rev(w)].work BY <1>4, <3>1 DEF Deps, NodesOf
      <4>2. Rev(w) \in DOMAIN w.plans BY DEF NodesOf, Good, Shape
      <4>3. d[2] # Review BY <4>1, <4>2, PlansHaveWork DEF Steady, Sound, Work
      <4> QED BY <1>7, <4>1, <4>3
    <3> HIDE DEF driven, stuck
    <3> QED BY <1>5, <2>2, <3>2
  <2> QED BY <2>1, <2>2 DEF Open, OpenNode
<1> QED BY <1>6, <1>7

\* Any live run that has not lost its obligation holds a command that the drain or
\* an inspection acts on: whatever ends, fails, retries, repairs or recovers a
\* node leaves a command behind for what becomes of it.
THEOREM LiveRunIsDrivenHolds == Spec => []LiveRunIsDriven
<1>1. JInv => LiveRunIsDriven
  <2> SUFFICES ASSUME JInv, Live(wf), ~LostObligation, \A k \in DOMAIN wf.cmd : ~Awaited(wf, k)
               PROVE  FALSE
    BY DEF LiveRunIsDriven, Awaited
  <2>1. Good(wf) /\ Steady(wf) /\ Pursued(wf) /\ Planning(wf) BY DEF JInv, KInv, IInv, Fit
  <2>2. Rev(wf) \in Nat /\ Rev(wf) # 0
    <3>1. Rev(wf) \in Nat BY <2>1, RevFacts
    <3> QED BY <2>1, <3>1 DEF Planning, LostObligation
  <2>3. ~\E n \in NodesOf(wf, Rev(wf)) : Open(wf, n)
    <3> SUFFICES ASSUME NEW n \in NodesOf(wf, Rev(wf)), Open(wf, n) PROVE FALSE OBVIOUS
    <3>1. \E m \in NodesOf(wf, Rev(wf)) :
             wf.node[m].st = "queued" /\ \E d \in Deps(wf, m) : ~Open(wf, d) /\ d \notin wf.freed
      BY <2>1, OpenIsDriven
    <3> QED BY <3>1 DEF LostObligation
  <2>4. ASSUME NEW n \in Reviews(wf), wf.node[n].st = "running" PROVE FALSE
    <3>1. n \in DOMAIN wf.node /\ n[2] = Review /\ Open(wf, n) BY <2>4 DEF Reviews, Open, OpenNode
    <3>2. n[1] \in 1 .. Rev(wf) BY <2>1, <3>1, RevFacts DEF Good, Shape
    <3>3. n[1] # Rev(wf) BY <2>3, <3>1 DEF NodesOf
    <3>4. ~HasCommand(wf, n, "review", "pending") /\ ~HasCommand(wf, n, "review", "claimed")
      BY DEF HasCommand, CommandsOf, Awaited
    <3>5. n \in StrandedReviews(wf) BY <2>2, <3>1, <3>2, <3>3, <3>4 DEF StrandedReviews
    <3> QED BY <2>3, <3>5 DEF LostObligation
  <2>5. ASSUME NEW n \in DOMAIN wf.deliv, wf.deliv[n].out \in {"pending", "failed", "unknown"} PROVE FALSE
    <3>1. wf.deliv[n].out = "pending" => Sent(wf, n) BY <2>1 DEF Steady, Sending
    <3> QED BY <2>5, <3>1 DEF Sent, LostObligation
  <2> QED BY <2>1, <2>2, <2>3, <2>4, <2>5 DEF Pursued
<1> QED BY <1>1, Fitness, PTL
=============================================================================
