--------------------------- MODULE WorkflowRunner ---------------------------
(***************************************************************************)
(* One supervised workflow run: admission, planning and review model jobs, *)
(* plan revisions with their nodes and dependencies, the command ledger    *)
(* that the driver drains and inspects, the worker attempts of the nodes,  *)
(* the delivery of the accepted output, cancellation, the startup barrier, *)
(* and the projection of the terminal state onto the root card.            *)
(*                                                                         *)
(* The rows of the run are one record, wf, and every applier of the runner *)
(* is an operator from that record to its next value: an applier runs in   *)
(* one transaction, and JavaScript runs one synchronous segment at a time. *)
(* A claim is identified by its command: the commands whose claim outlives *)
(* the segment that makes it (plan, review) are never released, so a claim *)
(* token is live exactly while its command is `claimed'.                   *)
(***************************************************************************)
EXTENDS Integers, Sequences, FiniteSets

CONSTANTS
    Labels,          \* labels of the nodes a plan proposes, the review is the host's
    Plans,           \* valid plan proposals a model may return, without cycles
    ShaPlan,         \* the plan the incident coordinator submits itself
    Kinds,           \* root kinds a run is admitted for
    WorkRetry, PlanRevision, ReviewRepair, ProtocolCorrection,  \* the four budgets
    MaxInconclusive, \* MAX_CONSECUTIVE_INCONCLUSIVE
    MaxSends,        \* DELIVERY_MAX_ATTEMPTS
    MaxRevisions,    \* bound: revisions of one run
    MaxFaults        \* bound: contained exceptions, questions, nested retries, cancels and restarts

ASSUME WorkflowAssumption ==
    /\ \A p \in Plans \cup {ShaPlan} :
          /\ p.work # {} /\ p.work \cup p.wave \subseteq Labels
          /\ p.deps \in [p.work \cup p.wave -> SUBSET (p.work \cup p.wave)]
          /\ p.opt \subseteq p.work /\ p.need \subseteq Labels /\ p.partial \in BOOLEAN
          /\ \A S \in SUBSET (p.work \cup p.wave) : S # {} => \E l \in S : p.deps[l] \cap S = {}
    /\ "review" \notin Labels
    /\ Kinds \subseteq {"peer", "interactive", "sha"}
    /\ {WorkRetry, PlanRevision, ReviewRepair, ProtocolCorrection, MaxRevisions, MaxFaults} \subseteq Nat
    /\ {MaxInconclusive, MaxSends} \subseteq Nat \ {0}

VARIABLES
    wf,      \* the workflow_* rows of the run
    att,     \* att[c]: the latest worker attempt of worker card c = <<node, its ordinal>>
    root,    \* the root card and its supervision row: "open", "done" or "failed"
    kind,    \* root_kind
    faults   \* bound on the faults taken

vars == <<wf, att, root, kind, faults>>

TerminalStates == {"succeeded", "failed", "cancelled"}
LiveStates == {"admitted", "planning", "dispatched"}
OpenNode == {"queued", "running"}
LiveAttempt == {"pending", "running", "cancel_requested"}
EndedAttempt == {"accepted", "rejected", "failed"}  \* cancelled and timed out count as failed
Review == "review"
PlanNode == <<0, "plan">>
Scopes == {"work_retry", "plan_revision", "review_repair", "protocol_correction"}

Terminal(w) == w.state \in TerminalStates
Live(w) == w.state \in LiveStates
Rev(w) == Len(w.plans)
NodesOf(w, r) == {n \in DOMAIN w.node : n[1] = r}
Open(w, n) == w.node[n].st \in OpenNode
Optional(w, n) == n[2] \in w.plans[n[1]].opt
CommandsOf(w, n, a) == {k \in DOMAIN w.cmd : k[1] = n /\ k[2] = a}
HasCommand(w, n, a, st) == \E k \in CommandsOf(w, n, a) : w.cmd[k].st = st

-----------------------------------------------------------------------------
(* Granular writers of the store.                                          *)

\* The rows f and those of g that f does not have.
Merge(f, g) == [x \in DOMAIN f \cup DOMAIN g |-> IF x \in DOMAIN f THEN f[x] ELSE g[x]]

\* The mandatory review depends on every work node of its revision.
Deps(w, n) ==
    {<<n[1], l>> : l \in IF n[2] = Review THEN w.plans[n[1]].work ELSE w.plans[n[1]].deps[n[2]]}

Unblocked(w, n) == Deps(w, n) \subseteq w.freed

ActionOf(w, n) ==
    IF n[2] = Review THEN "review"
    ELSE IF n[2] \in w.plans[n[1]].wave THEN "plan" ELSE "dispatch"

\* base is the revision in the payload of the command.
Pending(base) == [st |-> "pending", base |-> base, inc |-> 0, job |-> "none"]

QueueCommand(w, n, a, base) ==
    LET k == <<n, a, Cardinality(CommandsOf(w, n, a))>>
    IN  [w EXCEPT !.cmd = Merge(@, [x \in {k} |-> Pending(base)])]

QueueForNodes(w, S) ==
    LET new == {<<n, ActionOf(w, n), Cardinality(CommandsOf(w, n, ActionOf(w, n)))>> : n \in S}
    IN  [w EXCEPT !.cmd = Merge(@, [k \in new |-> Pending(k[1][1])])]

SetNode(w, n, st) == [w EXCEPT !.node[n].st = st]

SetCommand(w, k, st) == [w EXCEPT !.cmd[k].st = st, !.cmd[k].job = "none"]

\* Mutant: the nodes it unblocks get no command.
MutReleaseSilently(w, n) == [w EXCEPT !.freed = @ \cup {n}]

\* satisfyDependents, and the commands of the nodes it unblocks.
ReleaseDependents(w, n) ==
    LET v == [w EXCEPT !.freed = @ \cup {n}]
    IN  QueueForNodes(v, {m \in NodesOf(v, n[1]) :
                              v.node[m].st = "queued" /\ n \in Deps(v, m) /\ Unblocked(v, m)})

\* The queued nodes that wait, directly or not, for n or for a skipped node:
\* the least set that holds whatever waits for n, for a skipped node or for a member.
Dependents(w, n) ==
    LET queued == {m \in NodesOf(w, n[1]) : w.node[m].st = "queued"}
        skipped == {m \in NodesOf(w, n[1]) : w.node[m].st = "skipped"}
        closed(S) == \A m \in queued : Deps(w, m) \cap ({n} \cup skipped \cup S) # {} => m \in S
    IN  {m \in queued : \A S \in SUBSET queued : closed(S) => m \in S}

SkipDependents(w, n) ==
    LET S == Dependents(w, n)
    IN  [w EXCEPT !.node = [m \in DOMAIN @ |-> IF m \in S THEN [@[m] EXCEPT !.st = "skipped"] ELSE @[m]]]

Spend(w, scope) == [w EXCEPT !.budget[scope] = @ - 1]

\* cancelRun: commands, nodes and pending deliveries; the attempts are fenced by Fence.
CancelRows(w) ==
    [w EXCEPT
        !.cmd = [k \in DOMAIN @ |-> IF @[k].st \in {"pending", "claimed"}
                                    THEN [@[k] EXCEPT !.st = "cancelled", !.job = "none"] ELSE @[k]],
        !.node = [n \in DOMAIN @ |-> IF @[n].st \in OpenNode THEN [@[n] EXCEPT !.st = "cancelled"] ELSE @[n]],
        !.deliv = [n \in DOMAIN @ |-> IF @[n].out = "pending" THEN [@[n] EXCEPT !.out = "unknown"] ELSE @[n]]]

Fence(a) ==
    [c \in DOMAIN a |-> IF a[c].life \in {"pending", "running"}
                        THEN [a[c] EXCEPT !.life = "cancel_requested"] ELSE a[c]]

-----------------------------------------------------------------------------
(* Terminal evaluation and re-review.                                      *)

\* Mutant: a review that is still running does not hold the run open.
MutIgnoreReview(w, r) ==
    LET work == {n \in NodesOf(w, r) : n[2] # Review}
    IN  CASE \E n \in work : Open(w, n) -> w.state
          [] \E n \in work : w.node[n].st = "failed" -> "failed"
          [] OTHER -> "succeeded"

EvaluateTerminal(w, r) ==
    LET ns == NodesOf(w, r)
        p  == w.plans[r]
        failed == {n \in ns : w.node[n].st = "failed" /\ n[2] \notin p.opt}
        produced == {n[2] : n \in {m \in ns : w.node[m].st = "succeeded"}}
    IN  CASE ns = {} -> "failed"
          [] ns # {} /\ \/ \E n \in ns : Open(w, n)
                        \/ \E n \in DOMAIN w.node : n[1] <= r /\ n[2] = Review /\ w.node[n].st = "running"
                        \/ \E n \in DOMAIN w.deliv : w.deliv[n].out = "pending"  -> w.state
          [] OTHER -> IF failed = {} \/ (p.partial /\ p.need \subseteq produced)
                      THEN "succeeded" ELSE "failed"

Evaluate(w, r) == [w EXCEPT !.state = EvaluateTerminal(w, r)]

\* Review nodes of earlier revisions whose review no command is driving.
StrandedReviews(w) ==
    {n \in DOMAIN w.node :
        /\ n[2] = Review /\ n[1] < Rev(w) /\ Open(w, n)
        /\ ~HasCommand(w, n, "review", "pending")
        /\ ~(w.node[n].st = "running" /\ HasCommand(w, n, "review", "claimed"))}

MaybeQueueReReview(w) ==
    IF \E n \in NodesOf(w, Rev(w)) : Open(w, n) THEN w ELSE QueueForNodes(w, StrandedReviews(w))

SettleWithReReview(w, r) ==
    LET v == Evaluate(w, r) IN IF Terminal(v) THEN v ELSE MaybeQueueReReview(v)

SucceedNode(w, n) == SettleWithReReview(ReleaseDependents(SetNode(w, n, "succeeded"), n), n[1])

MutReleaseAlways(w, n, retrySafe) ==
    SettleWithReReview(ReleaseDependents(SetNode(w, n, "failed"), n), n[1])

FailNode(w, n, retrySafe) ==
    LET v == SetNode(w, n, "failed")
    IN  IF ~Optional(w, n) /\ retrySafe /\ w.budget["work_retry"] > 0
        THEN QueueCommand(SetNode(Spend(w, "work_retry"), n, "running"), n, "dispatch", n[1])
        ELSE SettleWithReReview(IF Optional(w, n) THEN ReleaseDependents(v, n) ELSE SkipDependents(v, n), n[1])

-----------------------------------------------------------------------------
(* Plan admission, rejection and review verdicts.                          *)

\* Required outputs are covered by this plan and the revisions before it.
ValidPlan(w, p) == p.need \subseteq p.work \cup UNION {w.plans[r].work : r \in 1..Rev(w)}

\* A revision drops no output that the first revision requires.
KeepsAcceptance(w, p) == Rev(w) = 0 \/ w.plans[1].need \subseteq p.need

\* A new revision cancels the open nodes of earlier ones (reviews and the
\* authoring planning node excepted), queues its unblocked nodes, and gets a
\* mandatory review unless one is already open.
AdmitRevision(w, p, author) ==
    LET r  == Rev(w) + 1
        old == [n \in DOMAIN w.node |->
                  CASE n = author -> [w.node[n] EXCEPT !.st = "succeeded"]
                    [] n # author /\ Open(w, n) /\ n[2] # Review -> [w.node[n] EXCEPT !.st = "cancelled"]
                    [] OTHER -> w.node[n]]
        reviewed == \E n \in DOMAIN old : n[2] = Review /\ old[n].st \in OpenNode
        labels == p.work \cup p.wave \cup (IF reviewed THEN {} ELSE {Review})
        new == [n \in {<<r, l>> : l \in labels} |-> [st |-> "queued", card |-> <<>>]]
        v  == [w EXCEPT !.plans = Append(@, p), !.node = Merge(old, new), !.state = "dispatched"]
    IN  QueueForNodes(v, {n \in DOMAIN new : Unblocked(v, n)})

\* Mutant: the failed round is not repeated.
MutStrandRound(w, k) ==
    LET v == SetCommand(w, k, "cancelled")
    IN  IF w.budget["plan_revision"] = 0 THEN [v EXCEPT !.state = "failed"]
        ELSE [Spend(v, "plan_revision") EXCEPT !.state = "planning"]

\* rejectPlanRound: the round k is superseded, and repeated while the budget lasts.
RejectPlanRound(w, k) ==
    LET v == SetCommand(w, k, "cancelled")
    IN  IF w.budget["plan_revision"] = 0 THEN [v EXCEPT !.state = "failed"]
        ELSE QueueCommand([Spend(v, "plan_revision") EXCEPT !.state = "planning"], k[1], "plan", w.cmd[k].base)

Accept(w, k) ==
    LET n == k[1]
        d == IF n \in DOMAIN w.deliv THEN w.deliv[n] ELSE [out |-> "pending", tries |-> 0, sent |-> 0]
        v == [SetNode(w, n, "succeeded") EXCEPT
                 !.deliv = Merge([m \in {n} |-> d], @), !.accepted = @ \cup {Rev(w)}]
    IN  Evaluate(SetCommand(QueueCommand(v, n, "deliver", Rev(w)), k, "done"), Rev(w))

RejectReview(w, k) == Evaluate(SetCommand(SetNode(w, k[1], "failed"), k, "done"), Rev(w))

ChangesRequired(w, k) ==
    IF w.budget["review_repair"] = 0 THEN RejectReview(w, k)
    ELSE SetCommand(QueueCommand(Spend(w, "review_repair"), k[1], "plan", Rev(w)), k, "done")

MalformedVerdict(w, k) ==
    IF w.budget["protocol_correction"] = 0 THEN RejectReview(w, k)
    ELSE SetCommand(QueueCommand(Spend(w, "protocol_correction"), k[1], "review", k[1][1]), k, "done")

\* failModelJob: no execution owns the claim, so the run ends and its work is closed.
FailModelJob(w, k) ==
    LET v == IF k[2] = "review" THEN SetNode(w, k[1], "failed") ELSE w
    IN  [CancelRows(v) EXCEPT !.state = "failed"]

-----------------------------------------------------------------------------
(* Commit: a terminal state revokes the model jobs and is projected onto   *)
(* the root card in the same call stack; a crash, or an exception of the   *)
(* projection, leaves the card to the audit.                               *)

\* settlePeerTerminal reads the verdict of the host review of the latest revision.
HostVerdict(w) == <<Rev(w), Review>> \in DOMAIN w.node /\ w.node[<<Rev(w), Review>>].st = "succeeded"

Projected(w) ==
    CASE ~Terminal(w) -> "open"
      [] w.state = "succeeded" -> IF kind = "peer" /\ ~HostVerdict(w) THEN "open" ELSE "done"
      [] OTHER -> "failed"

Commit(w) ==
    /\ wf' = IF Terminal(w) THEN [w EXCEPT !.cmd = [k \in DOMAIN @ |-> [@[k] EXCEPT !.job = "none"]]] ELSE w
    /\ root' = Projected(w)

Fault == faults < MaxFaults /\ faults' = faults + 1

-----------------------------------------------------------------------------
(* Admission.                                                              *)

Absent == [state |-> "none", plans |-> <<>>, node |-> <<>>, freed |-> {}, cmd |-> <<>>,
           budget |-> [s \in Scopes |-> CASE s = "work_retry" -> WorkRetry
                                          [] s = "plan_revision" -> PlanRevision
                                          [] s = "review_repair" -> ReviewRepair
                                          [] OTHER -> ProtocolCorrection],
           deliv |-> <<>>, accepted |-> {}]

Init ==
    /\ wf = Absent /\ att = <<>> /\ root = "open" /\ kind \in Kinds
    /\ faults = 0

InitialPlan(w) == QueueCommand([w EXCEPT !.state = "admitted"], PlanNode, "plan", 0)

Admit ==
    /\ wf.state = "none" /\ kind # "sha"
    /\ Commit(InitialPlan(wf))
    /\ UNCHANGED <<att, kind, faults>>

\* The workspace cannot be prepared: the run is admitted without its planning command.
AdmitWithoutPlan ==
    /\ wf.state = "none" /\ kind # "sha" /\ Fault
    /\ Commit([wf EXCEPT !.state = "admitted"])
    /\ UNCHANGED <<att, kind>>

\* A duplicate admission queues the planning command that is missing.
Readmit ==
    /\ wf.state = "admitted" /\ Rev(wf) = 0 /\ CommandsOf(wf, PlanNode, "plan") = {}
    /\ Commit(InitialPlan(wf))
    /\ UNCHANGED <<att, kind, faults>>

\* The final stage of an incident admits the run and its plan in one segment.
\* Its handoff finds the review blocked, and queues nothing.
AdmitSha ==
    /\ wf.state = "none" /\ kind = "sha"
    /\ Commit(AdmitRevision(InitialPlan(wf), ShaPlan, <<>>))
    /\ UNCHANGED <<att, kind, faults>>

-----------------------------------------------------------------------------
(* The drain: claim a pending command and start what it asks for.          *)

NewAttempt(nested) == [life |-> "pending", asked |-> FALSE, seen |-> FALSE, nested |-> nested]

\* createChild and bindNodeWorker of the worker port.
StartChild(k) ==
    LET card == <<k[1], Cardinality({c \in DOMAIN att : c[1] = k[1]})>>
    IN  /\ wf' = [wf EXCEPT !.cmd[k].st = "claimed", !.node[k[1]] = [st |-> "running", card |-> card]]
        /\ att' = Merge([c \in {card} |-> NewAttempt(FALSE)], att)

\* Mutant: the port does not re-read the state of the run.
MutDispatchAnyRun(k) ==
    /\ wf.cmd[k].st = "pending" /\ k[2] = "dispatch"
    /\ IF k[1] \in NodesOf(wf, Rev(wf)) /\ Open(wf, k[1])
       THEN StartChild(k) /\ UNCHANGED faults
       ELSE wf' = SetCommand(wf, k, "done") /\ UNCHANGED <<att, faults>>
    /\ UNCHANGED <<root, kind>>

\* A node that is no longer open, or of an older revision, is not dispatched.
\* The port refuses a run that has ended, and may fail to create the child;
\* either way the claim is left behind for its inspection.
DrainDispatch(k) ==
    /\ wf.cmd[k].st = "pending" /\ k[2] = "dispatch"
    /\ IF k[1] \in NodesOf(wf, Rev(wf)) /\ Open(wf, k[1])
       THEN \/ Live(wf) /\ StartChild(k) /\ UNCHANGED faults
            \/ /\ IF Live(wf) THEN Fault ELSE UNCHANGED faults
               /\ wf' = [wf EXCEPT !.cmd[k].st = "claimed", !.node[k[1]].st = "running"]
               /\ UNCHANGED att
       ELSE wf' = SetCommand(wf, k, "done") /\ UNCHANGED <<att, faults>>
    /\ UNCHANGED <<root, kind>>

DrainModelJob(k) ==
    /\ wf.cmd[k].st = "pending" /\ k[2] \in {"plan", "review"}
    /\ LET v == [wf EXCEPT !.cmd[k].st = "claimed", !.cmd[k].job = "active"]
       IN  wf' = IF k[1] \in NodesOf(wf, wf.cmd[k].base) /\ wf.node[k[1]].st = "queued"
                 THEN SetNode(v, k[1], "running") ELSE v
    /\ UNCHANGED <<att, root, kind, faults>>

\* Mutant: an ambiguous send is repeated like a refused one.
MutResendUnknown(k) ==
    LET n == k[1]
        once == SetCommand([wf EXCEPT !.deliv[n].tries = @ + 1, !.deliv[n].sent = @ + 1], k, "done")
        acked == [once EXCEPT !.deliv[n].out = "acknowledged"]
    IN  /\ wf.cmd[k].st = "pending" /\ k[2] = "deliver" /\ wf.deliv[n].out = "pending"
        /\ \/ Commit(IF Live(wf) THEN Evaluate(acked, Rev(wf)) ELSE acked) /\ UNCHANGED faults
           \/ wf.deliv[n].tries + 1 < MaxSends /\ Fault /\ Commit(QueueCommand(once, n, "deliver", wf.cmd[k].base))
        /\ UNCHANGED <<att, kind>>

\* runDeliverySend: the send is acknowledged, refused, or its outcome is unknown.
DrainDeliver(k) ==
    LET n == k[1]
        d == wf.deliv[n]
        sent == SetCommand([wf EXCEPT !.deliv[n].tries = @ + 1], k, "done")
        resolved(out) == [sent EXCEPT !.deliv[n].out = out, !.deliv[n].sent = IF out = "failed" THEN @ ELSE @ + 1]
        acked == resolved("acknowledged")
    IN  /\ wf.cmd[k].st = "pending" /\ k[2] = "deliver"
        /\ \/ /\ d.out # "pending"
              /\ Commit(SetCommand(wf, k, "done")) /\ UNCHANGED faults
           \/ /\ d.out = "pending"
              /\ Commit(IF Live(wf) THEN Evaluate(acked, Rev(wf)) ELSE acked)
              /\ UNCHANGED faults
           \/ /\ d.out = "pending" /\ Fault
              /\ IF d.tries + 1 < MaxSends THEN Commit(QueueCommand(sent, n, "deliver", wf.cmd[k].base))
                 ELSE Commit(resolved("failed"))
           \/ /\ d.out = "pending" /\ Fault
              /\ Commit(resolved("unknown"))
        /\ UNCHANGED <<att, kind>>

-----------------------------------------------------------------------------
(* Planning and review jobs.                                               *)

\* claimSettlement succeeds, the runner applies the result, the job is finished.
Owned(k, a) == wf.cmd[k].st = "claimed" /\ k[2] = a /\ wf.cmd[k].job # "none"

\* The proposal is admitted only for the revision the round was started for;
\* a late, stale or weakening one throws after the settlement was claimed,
\* which leaves the command claimed with no job behind it.
PlanProposed(k, p) ==
    /\ Owned(k, "plan") /\ ValidPlan(wf, p) /\ Rev(wf) < MaxRevisions
    /\ IF Live(wf) /\ wf.cmd[k].base = Rev(wf) /\ KeepsAcceptance(wf, p)
       THEN Commit(SetCommand(AdmitRevision(wf, p, IF k[1][2] \in Labels THEN k[1] ELSE <<>>), k, "done"))
       ELSE wf' = [wf EXCEPT !.cmd[k].job = "none"] /\ UNCHANGED root
    /\ UNCHANGED <<att, kind, faults>>

\* Two invalid proposals, or a failed call.
PlanRoundFails(k) ==
    /\ Owned(k, "plan") /\ Live(wf)
    /\ Commit(RejectPlanRound(wf, k))
    /\ UNCHANGED <<att, kind, faults>>

ReviewReturns(k) ==
    /\ Owned(k, "review")
    /\ IF ~Live(wf) \/ ~Open(wf, k[1]) THEN wf' = [wf EXCEPT !.cmd[k].job = "none"] /\ UNCHANGED root
       ELSE \/ Commit(Accept(wf, k))
            \/ Commit(RejectReview(wf, k))
            \/ Commit(ChangesRequired(wf, k))
            \/ Commit(MalformedVerdict(wf, k))
    /\ UNCHANGED <<att, kind, faults>>

\* The deadline of the call passes before its promise settles.
DeadlinePasses(k) ==
    /\ wf.cmd[k].job = "active"
    /\ wf' = [wf EXCEPT !.cmd[k].job = "expired"]
    /\ UNCHANGED <<att, root, kind, faults>>

\* An aborted call, and the inspection of a claim whose job is past its
\* deadline or gone, end the run; an active job only extends its claim.
ModelJobLost(k) ==
    /\ wf.cmd[k].st = "claimed" /\ k[2] \in {"plan", "review"} /\ wf.cmd[k].job # "active" /\ Live(wf)
    /\ Commit(FailModelJob(wf, k))
    /\ att' = Fence(att)
    /\ UNCHANGED <<kind, faults>>

-----------------------------------------------------------------------------
(* Worker attempts, their joint settlement, and its recovery.              *)

NodeOf(c) == c[1]
Bound(c) == wf.node[NodeOf(c)].card = c

\* The dispatch pump claims and starts a pending attempt, if it comes to it; the
\* claim is refused once the root is settled.
WorkerStarts(c) ==
    /\ att[c].life = "pending" /\ root = "open"
    /\ att' = [att EXCEPT ![c].life = "running"]
    /\ UNCHANGED <<wf, root, kind, faults>>

\* What the applier makes of an ended attempt: nothing if the node is closed,
\* is bound to a newer card, or the outcome was applied before.
ApplyOutcome(c, a, retrySafe) ==
    IF ~Live(wf) \/ ~Open(wf, NodeOf(c)) \/ ~Bound(c) \/ a.seen THEN wf
    ELSE IF a.life = "accepted" THEN SucceedNode(wf, NodeOf(c))
    ELSE FailNode(wf, NodeOf(c), retrySafe)

\* The settlement commits the outcome in its own transaction.
WorkerEnds(c, life, retrySafe) ==
    /\ att[c].life \in {"running", "cancel_requested"}
    /\ life \in {"accepted", "rejected"} => att[c].life = "running"
    /\ retrySafe => life = "failed"
    /\ Commit(ApplyOutcome(c, [att[c] EXCEPT !.life = life], retrySafe))
    /\ att' = [att EXCEPT ![c].life = life, ![c].seen = Live(wf) /\ Open(wf, NodeOf(c)) /\ Bound(c)]
    /\ UNCHANGED <<kind, faults>>

\* The hook throws and is contained: the result persists, the node does not move.
HookContained(c, life) ==
    /\ att[c].life = "running" /\ Live(wf) /\ Fault
    /\ att' = [att EXCEPT ![c].life = life]
    /\ UNCHANGED <<wf, root, kind>>

\* A Pi worker stops to ask: its attempt fails, and the hook leaves the node running.
WorkerAsks(c) ==
    /\ att[c].life = "running" /\ Live(wf) /\ Fault
    /\ att' = [att EXCEPT ![c].life = "failed", ![c].asked = TRUE]
    /\ UNCHANGED <<wf, root, kind>>

\* The retry service answers with a new attempt of the same card.
AnswerRetry(c) ==
    /\ att[c].asked /\ Live(wf)
    /\ att' = [att EXCEPT ![c] = NewAttempt(att[c].nested)]
    /\ UNCHANGED <<wf, root, kind, faults>>

\* The card of a node of a run that has not ended.
RunnerManaged(c) == ~Terminal(wf) /\ Bound(c)

\* The reconciler retries the failed attempt of a card that the runner manages no
\* longer, while the root is open: a nested retry, beside the round that
\* replaced the card.
AutoRetry(c) ==
    /\ att[c].life = "failed" /\ ~att[c].asked
    /\ root = "open" /\ ~RunnerManaged(c) /\ Fault
    /\ att' = [att EXCEPT ![c] = NewAttempt(TRUE)]
    /\ UNCHANGED <<wf, root, kind>>

\* recoverUnconsumedCompletions of the audit: never with a retry.
RecoverCompletion(c) ==
    LET n == NodeOf(c)
    IN  /\ Live(wf) /\ Bound(c) /\ Open(wf, n)
        /\ att[c].life \in EndedAttempt /\ ~att[c].seen
        /\ \A k \in DOMAIN wf.cmd : k[1] = n => wf.cmd[k].st # "pending"
        /\ Commit(ApplyOutcome(c, att[c], FALSE))
        /\ att' = [att EXCEPT ![c].seen = TRUE]
        /\ UNCHANGED <<kind, faults>>

-----------------------------------------------------------------------------
(* Inspection of claims that outlived their five minutes.                  *)

\* Inspection finds the attempt of the round dead: the node fails and the run
\* is evaluated, but its dependents are neither skipped nor re-reviewed.
FailInspected(w, n) == Evaluate(SetNode(w, n, "failed"), Rev(w))

\* Mutant: a claim whose attempt cannot be observed is queued again.
MutBlindRetry(k) == SetCommand(wf, k, "pending")

\* A stale lease counts towards the cap, at which the run ends; a fresh one
\* and an attempt no executor has picked up only extend the claim.
Inconclusive(k) ==
    IF wf.cmd[k].inc + 1 < MaxInconclusive THEN [wf EXCEPT !.cmd[k].inc = @ + 1]
    ELSE [SetNode(wf, k[1], "failed") EXCEPT !.state = "failed"]

\* An attempt that started a minute before the claim is not the one of this
\* round, and the round is queued again; a later one has run and died; instants
\* that cannot be compared decide nothing.
InspectDispatch(k) ==
    LET n == k[1]
        c == wf.node[n].card
        moot == n[1] # Rev(wf) \/ ~Open(wf, n)
        ended(lives) == ~moot /\ c # <<>> /\ att[c].life \in lives
    IN  /\ Live(wf) /\ wf.cmd[k].st = "claimed" /\ k[2] = "dispatch"
        /\ \/ /\ moot
              /\ Commit(SetCommand(wf, k, "done")) /\ UNCHANGED <<att, faults>>
           \/ /\ (~moot /\ c = <<>>) \/ (ended({"failed"}) /\ c[2] < k[3])
              /\ Commit(SetCommand(wf, k, "pending")) /\ UNCHANGED <<att, faults>>
           \/ /\ ended({"accepted", "rejected"})
              /\ Commit(SetCommand(ApplyOutcome(c, att[c], FALSE), k, "done"))
              /\ att' = [att EXCEPT ![c].seen = TRUE] /\ UNCHANGED faults
           \/ /\ ended({"failed"})
              /\ Commit(SetCommand(FailInspected(wf, n), k, "done")) /\ UNCHANGED <<att, faults>>
           \/ /\ ended({"running", "cancel_requested", "failed"}) /\ Fault
              /\ Commit(Inconclusive(k)) /\ UNCHANGED att
        /\ UNCHANGED kind

-----------------------------------------------------------------------------
(* Cancellation, the startup barrier, and projection recovery.             *)

RequestCancel ==
    /\ Live(wf) /\ Fault
    /\ Commit([CancelRows(wf) EXCEPT !.state = "cancelled"])
    /\ att' = Fence(att)
    /\ UNCHANGED kind

\* interruptRun, before anything of the new generation can advance the run; the
\* generation may die again before the projection.
Restart ==
    /\ Live(wf) /\ Fault
    /\ wf' = [CancelRows(wf) EXCEPT !.state = "failed"]
    /\ root' \in {"open", "failed"}
    /\ att' = Fence(att)
    /\ UNCHANGED kind

ProjectTerminal ==
    /\ Terminal(wf) /\ root = "open" /\ Projected(wf) # "open"
    /\ root' = Projected(wf)
    /\ UNCHANGED <<wf, att, kind, faults>>

-----------------------------------------------------------------------------
Drain == \E k \in DOMAIN wf.cmd : DrainDispatch(k) \/ DrainModelJob(k) \/ DrainDeliver(k)

ModelJobs ==
    \E k \in DOMAIN wf.cmd :
        \/ \E p \in Plans : PlanProposed(k, p)
        \/ PlanRoundFails(k) \/ ReviewReturns(k)

Inspect == \E k \in DOMAIN wf.cmd : InspectDispatch(k) \/ ModelJobLost(k)

Workers ==
    \E c \in DOMAIN att :
        \/ WorkerStarts(c) \/ AnswerRetry(c) \/ AutoRetry(c) \/ WorkerAsks(c)
        \/ \E life \in EndedAttempt, retrySafe \in BOOLEAN : WorkerEnds(c, life, retrySafe)
        \/ \E life \in EndedAttempt : HookContained(c, life)

Recover == \E c \in DOMAIN att : RecoverCompletion(c)

Next ==
    \/ Admit \/ AdmitWithoutPlan \/ Readmit \/ AdmitSha
    \/ Drain \/ ModelJobs \/ Inspect \/ Workers \/ Recover
    \/ \E k \in DOMAIN wf.cmd : DeadlinePasses(k)
    \/ RequestCancel \/ Restart \/ ProjectTerminal

Spec == Init /\ [][Next]_vars

\* The audit drains, inspects, recovers and projects in every tick, and a model
\* call returns or meets its deadline.  Nothing is assumed of the workers: an
\* attempt may never be claimed, and one whose card stays queued is never timed out.
Progress ==
    \/ Drain \/ ModelJobs \/ Inspect \/ Recover \/ ProjectTerminal
    \/ \E k \in DOMAIN wf.cmd : DeadlinePasses(k)

FairSpec == Spec /\ WF_vars(Progress)

-----------------------------------------------------------------------------
(* Properties.                                                             *)

HasWave == \E r \in 1..Rev(wf) : wf.plans[r].wave # {}
Partial == Rev(wf) > 0 /\ wf.plans[Rev(wf)].partial

\* The review of an earlier revision ended without accepting the repair.
RepairRefused == \E n \in DOMAIN wf.node : n[2] = Review /\ n[1] < Rev(wf) /\ wf.node[n].st = "failed"

\* A run succeeds only on a reviewer's acceptance of its latest revision.
\* Outside the claim are a plan that allows a partial result, a plan whose
\* planning node replaced it while its review was still blocked, and a repair
\* that the re-review refused (see VerdictIsRespected).
SuccessIsReviewed ==
    wf.state = "succeeded" => Rev(wf) \in wf.accepted \/ Partial \/ HasWave \/ RepairRefused

\* evaluateTerminal: `repair waves must re-review, never terminally succeed
\* past the verdict'.  A run whose review refused the result does not succeed.
VerdictIsRespected == wf.state = "succeeded" => ~RepairRefused

\* The runner's retries, inspections, recovered completions and answers never
\* give a node two attempts that may both be executing: of two such attempts one
\* is a nested retry of the reconciler, which the code does make although its
\* comment rules it out (`no unbounded nested retry multiplication'), and that is
\* never of the card by which a run that has not ended knows the node.
OneLiveAttempt ==
    /\ \A c, d \in DOMAIN att :
          c[1] = d[1] /\ att[c].life \in LiveAttempt /\ att[d].life \in LiveAttempt =>
             c = d \/ att[c].nested \/ att[d].nested
    /\ \A c \in DOMAIN att : att[c].nested => ~RunnerManaged(c)

\* A node is dispatched only when each of its dependencies succeeded, or
\* failed and is optional.
DependenciesSettled ==
    \A c \in DOMAIN att : \A d \in Deps(wf, c[1]) :
        wf.node[d].st = "succeeded" \/ (wf.node[d].st = "failed" /\ Optional(wf, d))

\* The ways in which this code leaves a live run with nothing to drive it:
\* admission without a planning command; a delivery that failed or is unknown;
\* a node failed by inspection, which skips no dependents and queues no re-review.
LostObligation ==
    \/ wf.state = "admitted" /\ DOMAIN wf.cmd = {}
    \/ \E n \in DOMAIN wf.deliv : wf.deliv[n].out \in {"failed", "unknown"}
    \/ \E n \in NodesOf(wf, Rev(wf)) :
          wf.node[n].st = "queued" /\ \E d \in Deps(wf, n) : ~Open(wf, d) /\ d \notin wf.freed
    \/ StrandedReviews(wf) # {} /\ \A n \in NodesOf(wf, Rev(wf)) : ~Open(wf, n)

\* Every other live run holds a command that the drain or an inspection acts on.
LiveRunIsDriven ==
    Live(wf) => LostObligation \/ \E k \in DOMAIN wf.cmd : wf.cmd[k].st \in {"pending", "claimed"}

\* A terminal run stays terminal with the state it ended in, and no late
\* drain, proposal, verdict, completion or inspection starts work for it.
TerminalIsFinal ==
    [][Terminal(wf) => wf'.state = wf.state /\ DOMAIN att' = DOMAIN att /\ Rev(wf') = Rev(wf)]_vars

\* An accepted output is sent at most once: a send that was acknowledged, or
\* may have gone out, is never repeated; only a refused one is.
SentAtMostOnce == \A n \in DOMAIN wf.deliv : wf.deliv[n].sent <= 1

\* An open node whose attempt has not ended.
WaitsForWorker ==
    \E n \in DOMAIN wf.node :
        Open(wf, n) /\ wf.node[n].card # <<>> /\ att[wf.node[n].card].life \in LiveAttempt

\* An admitted run ends and its end reaches the root card, unless it has lost
\* its obligation, is a peer run without the verdict its settlement reads, or
\* waits from some point on for workers whose attempts never end.
RunSettles ==
    wf.state # "none" ~>
        \/ root # "open" \/ LostObligation
        \/ wf.state = "succeeded" /\ kind = "peer" /\ ~HostVerdict(wf)
        \/ []WaitsForWorker
=============================================================================
