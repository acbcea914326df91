--------------------------- MODULE ExecutorLease ---------------------------
(***************************************************************************)
(* The lease of one worker attempt: the progress facts an executor emits,  *)
(* the durable snapshot they are reduced to, the policy that evaluates it  *)
(* and the reconciler that warns, inspects and cancels.                    *)
(*                                                                         *)
(* Every statement of the store is keyed by attempt_id, so leases of       *)
(* different attempts never touch and one attempt is modelled.  The row of *)
(* the lease is two things: the columns the scheduler and the CAS read     *)
(* (colVer, colNext, colClosed) and the JSON every writer starts from (the *)
(* other fields).  Times are ticks of a discrete clock; NoTime stands for  *)
(* undefined / NULL.                                                       *)
(***************************************************************************)
EXTENDS Integers

CONSTANTS
    LivenessMs, MeaningfulProgressMs, WarningBeforeMs, InspectGraceMs,
    MaxToolSilenceMs, OutputOnlyProgressCapMs, MaxUnknownInspections,
    HardDeadlineMs,   \* claim-relative hard deadline, NoTime if the claim has none
    ProcessBound,     \* recovery policy: TRUE for agents, FALSE for Pi
    Managed,          \* TRUE if the card is bound to a live workflow run
    Ops,              \* tool operation ids
    MaxTime,          \* bound: the clock stops here
    LastInput,        \* bound: no claim and no fact after this instant
    MaxEnv            \* bound: facts, unsolicited wakes, adapterless passes,
                      \* moves of the card by others, crashes

NoTime == -1
NoOp == "no_op"

ASSUME PolicyAssumption ==
    /\ LivenessMs \in Nat \ {0}
    /\ MeaningfulProgressMs \in Nat \ {0}
    /\ WarningBeforeMs \in Nat /\ WarningBeforeMs <= LivenessMs
    /\ InspectGraceMs \in Nat
    /\ MaxToolSilenceMs \in Nat \ {0}
    /\ OutputOnlyProgressCapMs \in Nat
    /\ MaxUnknownInspections \in Nat \ {0}
    /\ HardDeadlineMs \in Nat \cup {NoTime}
    /\ ProcessBound \in BOOLEAN
    /\ Managed \in BOOLEAN
    /\ NoOp \notin Ops
    /\ MaxTime \in Nat
    /\ LastInput \in Nat
    /\ MaxEnv \in Nat

VARIABLES
    now,         \* the clock
    lifecycle,   \* worker_attempts.lifecycle
    hard,        \* worker_attempts.hard_deadline_at
    card,        \* status of the attempt's W card
    lease,       \* the attempt's row of attempt_lease_snapshots
    inspections, \* pending adapter.inspect promises, with what their callbacks captured
    cancelling,  \* TRUE while an adapter.cancel promise is pending
    env          \* environment steps used so far

attemptVars == <<lifecycle, hard, card>>
promiseVars == <<inspections, cancelling>>
vars == <<now, lifecycle, hard, card, lease, inspections, cancelling, env>>

----------------------------------------------------------------------------
Time == Nat
OptTime == Nat \cup {NoTime}
ActiveStates == {"claimed", "starting", "running"}
TerminalStates == {"completed", "failed", "cancelled", "timed_out"}
Lifecycles == {"pending", "cancel_requested"} \cup ActiveStates \cup TerminalStates
CardStatuses == {"queued", "running", "done", "failed"}
Phases == {"absent", "healthy", "warning", "inspect_due", "inspecting",
           "inspect_grace", "cancel_requested", "closed"}
Kinds == {"alive", "producing_output", "using_tool", "durable_milestone",
          "awaiting_input", "stalled"}
Reasons == {"none", "liveness_expired", "progress_expired", "tool_silence_expired",
            "explicit_stall", "hard_deadline", "inspection_unknown_exhausted"}

\* The part of AttemptLeaseSnapshotV1 that decisions read.  awaitingInput is
\* left out: it is only set through a PendingInputResolver, and the emitter, the
\* one caller of appendFact, passes none.
Snapshot == [ver: Nat, state: Kinds, live: Time, prog: Time, lastProg: Time,
             outSince: OptTime, op: Ops \cup {NoOp}, silence: OptTime,
             next: OptTime, phase: Phases, reason: Reasons,
             count: Nat, grace: OptTime, closed: BOOLEAN,
             colVer: Nat, colNext: OptTime, colClosed: BOOLEAN]
Inspection == [ver: Nat, hard: OptTime]

NoLease == [ver |-> 0, state |-> "alive", live |-> 0, prog |-> 0, lastProg |-> 0,
            outSince |-> NoTime, op |-> NoOp, silence |-> NoTime,
            next |-> NoTime, phase |-> "absent", reason |-> "none",
            count |-> 0, grace |-> NoTime, closed |-> FALSE,
            colVer |-> 0, colNext |-> NoTime, colClosed |-> FALSE]

Exists == lease.phase # "absent"

Min2(a, b) == IF a <= b THEN a ELSE b
Max2(a, b) == IF a >= b THEN a ELSE b
Clamp(t, h) == IF h = NoTime THEN t ELSE Min2(t, h)

----------------------------------------------------------------------------
\* The reducer.

armEvaluation(live, prog, h) ==
    Max2(now, Clamp(Min2(live, prog) - WarningBeforeMs, h))

RefreshLiveness(s, h) == [s EXCEPT !.live = Clamp(now + LivenessMs, h)]
RefreshProgress(s, h) ==
    [s EXCEPT !.lastProg = now, !.prog = Clamp(now + MeaningfulProgressMs, h)]
\* clears outputOnlySince (and outputUnits, abstracted by Fact.fresh)
ResetOutput(s) == [s EXCEPT !.outSince = NoTime]

\* fresh abstracts the payload comparison of each kind: progress_units above the
\* recorded ones, a milestone_id or an observation_id not seen last.
Fact == [kind: Kinds \ {"using_tool", "awaiting_input"}, step: {"none"},
         op: {NoOp}, fresh: BOOLEAN, timeout: {0}]
   \cup [kind: {"using_tool"}, step: {"start", "advance", "end"},
         op: Ops, fresh: BOOLEAN, timeout: {1, MaxToolSilenceMs + 1}]
   \cup [kind: {"awaiting_input"}, step: {"start", "resolved"},
         op: {NoOp}, fresh: BOOLEAN, timeout: {0}]

\* Mutant: the first snapshot is written without an arming.
createInitialSnapshotUnarmed(f, h) ==
    [NoLease EXCEPT !.ver = 1, !.state = f.kind, !.live = Clamp(now + LivenessMs, h),
                    !.prog = Clamp(now + MeaningfulProgressMs, h),
                    !.lastProg = now, !.phase = "healthy"]

createInitialSnapshot(f, h) ==
    LET live == Clamp(now + LivenessMs, h)
        prog == Clamp(now + MeaningfulProgressMs, h)
    IN  [NoLease EXCEPT !.ver = 1, !.state = f.kind, !.live = live, !.prog = prog,
                        !.lastProg = now, !.phase = "healthy",
                        !.next = armEvaluation(live, prog, h)]

\* Mutant: output renews progress without the cap.
reduceOutputUncapped(s, f, h) ==
    IF ~f.fresh THEN s
    ELSE RefreshProgress([s EXCEPT !.outSince = IF s.outSince = NoTime THEN now ELSE s.outSince], h)

reduceOutput(s, f, h) ==
    LET since == IF s.outSince = NoTime THEN now ELSE s.outSince
        seen == [s EXCEPT !.outSince = since]
    IN  IF ~f.fresh THEN s
        ELSE IF now <= since + OutputOnlyProgressCapMs THEN RefreshProgress(seen, h)
        ELSE seen

reduceTool(s, f, h) ==
    LET own == s.op = f.op
    IN  CASE f.step = "start" ->
               LET opened == [s EXCEPT !.op = f.op,
                                       !.silence = Clamp(now + Min2(f.timeout, MaxToolSilenceMs), h)]
               IN  RefreshLiveness([(IF own THEN s ELSE opened) EXCEPT !.state = "using_tool"], h)
          [] f.step = "advance" ->
               [(IF own THEN RefreshLiveness(s, h) ELSE s) EXCEPT !.state = "using_tool"]
          [] f.step = "end" ->
               LET progressed == IF own /\ f.fresh THEN RefreshProgress(s, h) ELSE s
                   ended == IF own THEN [progressed EXCEPT !.op = NoOp, !.silence = NoTime]
                            ELSE s
               IN  ResetOutput(RefreshLiveness([ended EXCEPT !.state = "alive"], h))

reduceKind(s, f, h) ==
    CASE f.kind = "alive" -> RefreshLiveness([s EXCEPT !.state = "alive"], h)
      [] f.kind = "producing_output" ->
           reduceOutput(RefreshLiveness([s EXCEPT !.state = "producing_output"], h), f, h)
      [] f.kind = "using_tool" -> reduceTool(s, f, h)
      [] f.kind = "durable_milestone" ->
           RefreshLiveness([(IF f.fresh THEN ResetOutput(RefreshProgress(s, h)) ELSE s)
                               EXCEPT !.state = "durable_milestone"], h)
      [] f.kind = "awaiting_input" ->
           RefreshLiveness(IF f.step = "start" THEN [s EXCEPT !.state = "awaiting_input"]
                           ELSE [ResetOutput(RefreshProgress(s, h)) EXCEPT !.state = "alive"], h)
      [] f.kind = "stalled" ->
           RefreshLiveness([s EXCEPT !.state = "stalled", !.next = now], h)

\* The arming of the previous writer is never pushed later.
reduceFact(s, f, h) ==
    LET reduced == [reduceKind(s, f, h) EXCEPT !.ver = s.ver + 1]
        armed == armEvaluation(reduced.live, reduced.prog, h)
    IN  IF reduced.next = NoTime \/ reduced.next > armed
        THEN [reduced EXCEPT !.next = armed] ELSE reduced

----------------------------------------------------------------------------
\* The policy.

Decision(action, reason, nextAt) == [action |-> action, reason |-> reason, next |-> nextAt]

evaluateDeadlines(s, h) ==
    LET live == Clamp(s.live, h)
        prog == Clamp(s.prog, h)
        first == Min2(live, prog)
        reason == IF now >= prog THEN "progress_expired" ELSE "liveness_expired"
        grace == IF s.grace = NoTime THEN now ELSE s.grace
    IN  IF now >= first
        THEN CASE s.phase = "healthy" -> Decision("warning", reason, now)
               [] s.phase = "inspect_grace" ->
                    IF now >= grace THEN Decision("cancel", reason, NoTime)
                    ELSE Decision("healthy", "none", s.grace)
               [] s.phase \in {"warning", "inspecting", "inspect_due"} ->
                    Decision("inspect", reason, NoTime)
               [] OTHER -> Decision("cancel", reason, NoTime)
        ELSE IF now >= first - WarningBeforeMs
        THEN Decision("warning", reason, first)
        ELSE Decision("healthy", "none", first - WarningBeforeMs)

\* Mutant: the hard deadline is left to the clamped deadlines.
evaluateLeaseNoHard(s, h) ==
    IF s.state = "stalled" THEN Decision("cancel", "explicit_stall", NoTime)
    ELSE evaluateDeadlines(s, h)

evaluateLease(s, h) ==
    IF /\ s.phase = "inspect_grace"
       /\ s.reason = "inspection_unknown_exhausted"
       /\ s.count >= MaxUnknownInspections
    THEN Decision("cancel", "inspection_unknown_exhausted", NoTime)
    ELSE IF h # NoTime /\ now >= h THEN Decision("cancel", "hard_deadline", NoTime)
    ELSE IF s.state = "stalled" THEN Decision("cancel", "explicit_stall", NoTime)
    ELSE IF s.op # NoOp
         THEN IF now >= s.silence THEN Decision("cancel", "tool_silence_expired", NoTime)
              ELSE Decision("healthy", "none", Clamp(s.silence, h))
    ELSE evaluateDeadlines(s, h)

applyInspectionOutcome(s, outcome, h) ==
    LET counted == [s EXCEPT !.count = s.count + 1, !.ver = s.ver + 1]
        inGrace(t) == [counted EXCEPT !.phase = "inspect_grace", !.grace = t, !.next = t]
        graceEnd == Clamp(now + InspectGraceMs, h)
        progressAt == s.lastProg + MeaningfulProgressMs
        alive(u) == [u EXCEPT !.live = Clamp(now + LivenessMs, h)]
    IN  CASE outcome = "running" /\ now >= progressAt -> alive(inGrace(graceEnd))
          [] outcome = "running" /\ now < progressAt ->
               alive([counted EXCEPT !.phase = "healthy", !.prog = Clamp(progressAt, h),
                        !.next = Clamp(now + LivenessMs - WarningBeforeMs, h)])
          [] outcome = "unknown" /\ counted.count >= MaxUnknownInspections ->
               [inGrace(now) EXCEPT !.reason = "inspection_unknown_exhausted"]
          [] outcome = "unknown" /\ counted.count < MaxUnknownInspections ->
               inGrace(graceEnd)

----------------------------------------------------------------------------
\* The store's writes.  Each is one SQLite statement or transaction and the
\* process is single-threaded, so each is atomic within its caller's step.

\* INSERT OR REPLACE: every column is taken from the JSON.
replaceRow(s) == [s EXCEPT !.colVer = s.ver, !.colNext = s.next, !.colClosed = s.closed]

\* Mutant: a late outcome may overwrite a cancel intent.
casAcceptsAlways(s, phase, expected) == s.phase # "absent" /\ s.colVer = expected

casAccepts(s, phase, expected) ==
    /\ s.phase # "absent"
    /\ s.colVer = expected
    /\ s.phase = "cancel_requested" => phase = "cancel_requested"

\* Mutant: the JSON version is not bumped with the column.
updateEvaluationColumnOnly(s, phase, expected, nextAt) ==
    LET upcoming == IF nextAt = NoTime THEN s.next ELSE nextAt
    IN  IF casAccepts(s, phase, expected)
        THEN [s EXCEPT !.phase = phase, !.colVer = s.colVer + 1,
                       !.next = upcoming, !.colNext = upcoming]
        ELSE s

\* Of what its caller computed, updateEvaluation keeps the phase and the arming.
updateEvaluation(s, phase, expected, nextAt) ==
    LET upcoming == IF nextAt = NoTime THEN s.next ELSE nextAt
    IN  IF casAccepts(s, phase, expected)
        THEN [s EXCEPT !.phase = phase, !.ver = s.colVer + 1, !.colVer = s.colVer + 1,
                       !.next = upcoming, !.colNext = upcoming]
        ELSE s

setUpcomingEvaluation(s, nextAt) ==
    IF s.closed \/ s.phase = "cancel_requested" THEN s
    ELSE [s EXCEPT !.next = nextAt, !.colNext = nextAt]

\* Without a snapshot a closed one is created, so that no late fact reopens it.
closeLease(s) ==
    IF s.phase = "absent"
    THEN replaceRow([NoLease EXCEPT !.ver = 1, !.live = now, !.prog = now, !.lastProg = now,
                                    !.phase = "closed", !.closed = TRUE])
    ELSE IF s.closed THEN s
    ELSE replaceRow([s EXCEPT !.closed = TRUE, !.phase = "closed", !.next = NoTime])

\* terminalSettlement, as far as it concerns the lease.
Settle(s, state) == lifecycle' = state /\ lease' = closeLease(s)

Spend == env < MaxEnv /\ env' = env + 1
----------------------------------------------------------------------------
Init ==
    /\ now = 0
    /\ lifecycle = "pending"
    /\ hard = NoTime
    /\ card = "queued"
    /\ lease = NoLease
    /\ inspections = {}
    /\ cancelling = FALSE
    /\ env = 0

Tick ==
    /\ now < MaxTime
    /\ now' = now + 1
    /\ UNCHANGED <<attemptVars, lease, promiseVars, env>>

\* The attempt side: claimAttemptWithinLimits, markAttemptStartObservable,
\* markAttemptRunning, requestCancel and deferClaimAfterProvenNoStart.
Claim ==
    /\ lifecycle = "pending"
    /\ now <= LastInput
    /\ lifecycle' = "claimed"
    /\ card = "queued"
    /\ hard' = IF HardDeadlineMs = NoTime THEN NoTime ELSE now + HardDeadlineMs
    /\ UNCHANGED <<now, card, lease, promiseVars, env>>

Advance(from, to) ==
    /\ lifecycle \in from
    /\ lifecycle' = to
    /\ UNCHANGED <<now, hard, card, lease, promiseVars, env>>

MarkStartObservable == Advance({"claimed"}, "starting")
MarkRunning == Advance({"claimed", "starting"}, "running")
RequestCancel == Advance(ActiveStates, "cancel_requested")

deferClaimAfterProvenNoStart ==
    /\ lifecycle = "starting"
    /\ Spend
    /\ lifecycle' = "pending"
    /\ hard' = NoTime
    /\ lease' = closeLease(lease)
    /\ UNCHANGED <<now, card, promiseVars>>

\* The executor's own verdict reaches terminalSettlement.
SettleByExecutor(state) ==
    /\ lifecycle \in ActiveStates \cup {"cancel_requested"}
    /\ Settle(lease, state)
    /\ UNCHANGED <<now, hard, card, promiseVars, env>>

\* Spin admits the worker of an agent attempt and shows its card running.  The card
\* of a Pi attempt stays queued, and so does an agent's that a session cap refused.
CardRuns ==
    /\ ProcessBound
    /\ lifecycle \in ActiveStates /\ card = "queued"
    /\ card' = "running"
    /\ UNCHANGED <<now, lifecycle, hard, lease, promiseVars, env>>

\* The other writers of the card: a requeue or a failure that does not ask the
\* attempt, and the verdict of an attempt that has settled.
CardMoves(to) ==
    /\ card \in {"queued", "running"} /\ to # card
    /\ IF to = "done" THEN lifecycle \in TerminalStates ELSE to \in {"queued", "failed"}
    /\ Spend
    /\ card' = to
    /\ UNCHANGED <<now, lifecycle, hard, lease, promiseVars>>

appendFact(f) ==
    /\ lifecycle \in ActiveStates
    /\ ~lease.closed
    /\ now <= LastInput
    /\ Spend
    /\ lease' = replaceRow(IF Exists THEN reduceFact(lease, f, hard)
                           ELSE createInitialSnapshot(f, hard))
    /\ UNCHANGED <<now, attemptVars, promiseVars>>

\* evaluateAndAct.  reconcileChildCard reaches it on a pass over a card whose latest
\* attempt is not terminal, unless the card is queued (the pass asks for a dispatch
\* at most) or failed (the pass decides about a retry).  A pass follows the due
\* wakes of the lifecycle scheduler and any other wake of the card; IsDue tells the
\* two apart for fairness only.
Attended == card \notin {"queued", "failed"}
Evaluated == Attended /\ lifecycle \notin TerminalStates \cup {"pending"} /\ Exists
             /\ ~lease.closed /\ lease.phase # "cancel_requested"
IsDue == ~lease.colClosed /\ lease.colNext # NoTime /\ lease.colNext <= now
Wake == IF IsDue THEN UNCHANGED env ELSE Spend
Current == evaluateLease(lease, hard)

EvaluateHealthyOrWarning ==
    /\ Evaluated
    /\ Current.action \in {"healthy", "warning"}
    /\ Wake
    /\ LET moved == IF lease.phase = Current.action THEN lease
                    ELSE updateEvaluation(lease, Current.action, lease.ver, NoTime)
       IN  lease' = setUpcomingEvaluation(moved, Current.next)
    /\ UNCHANGED <<now, attemptVars, promiseVars>>

\* A pass that finds the phase already "inspecting" does nothing.
PerformInspection ==
    /\ Evaluated
    /\ Current.action = "inspect"
    /\ lease.phase # "inspecting"
    /\ Wake
    /\ casAccepts(lease, "inspecting", lease.ver)
    /\ lease' = updateEvaluation(lease, "inspecting", lease.ver, NoTime)
    /\ inspections' = inspections \cup {[ver |-> lease.ver, hard |-> hard]}
    /\ UNCHANGED <<now, attemptVars, cancelling>>

\* No adapter for the executor: back to inspect_due in the same pass.
SkipInspection ==
    /\ Evaluated
    /\ Current.action = "inspect"
    /\ lease.phase # "inspecting"
    /\ Spend
    /\ casAccepts(lease, "inspecting", lease.ver)
    /\ LET inspecting == updateEvaluation(lease, "inspecting", lease.ver, NoTime)
       IN  lease' = updateEvaluation(inspecting, "inspect_due", inspecting.colVer, NoTime)
    /\ UNCHANGED <<now, attemptVars, promiseVars>>

\* recordCancelIntent: attempt and lease move together or not at all.
cancelIntent(reason) ==
    [lease EXCEPT !.phase = "cancel_requested", !.reason = reason, !.ver = lease.colVer + 1,
                  !.colVer = lease.colVer + 1, !.next = NoTime, !.colNext = NoTime]

PerformCancellation ==
    /\ Evaluated
    /\ Current.action = "cancel"
    /\ lease.colVer = lease.ver
    /\ lifecycle \in ActiveStates
    /\ Wake
    /\ IF Current.reason = "hard_deadline"
       THEN Settle(cancelIntent("hard_deadline"), "timed_out") /\ UNCHANGED cancelling
       ELSE /\ lifecycle' = "cancel_requested"
            /\ lease' = cancelIntent(Current.reason)
            /\ cancelling' \in {TRUE, cancelling}    \* no adapter: no runtime cancel
    /\ UNCHANGED <<now, hard, card, inspections>>

\* The promise of adapter.cancel: it settles the attempt, or fails to.
ResolveCancel ==
    /\ cancelling
    /\ cancelling' = FALSE
    /\ \/ /\ lifecycle \notin TerminalStates
          /\ Settle(lease, "cancelled")
       \/ UNCHANGED <<lifecycle, lease>>
    /\ UNCHANGED <<now, hard, card, inspections, env>>

\* Mutant: the callback does not look at closedAt.
ResolveInspectionUnchecked(i, outcome) ==
    LET updated == applyInspectionOutcome(lease, outcome, i.hard)
    IN  /\ inspections' = inspections \ {i}
        /\ lease' = updateEvaluation(lease, updated.phase, lease.ver, updated.next)
        /\ UNCHANGED <<now, attemptVars, cancelling, env>>

\* The promise of adapter.inspect, fulfilled.
ResolveInspection(i, outcome) ==
    LET updated == applyInspectionOutcome(lease, outcome, i.hard)
    IN  /\ inspections' = inspections \ {i}
        /\ lease' = IF lease.closed THEN lease
                    ELSE updateEvaluation(lease, updated.phase, lease.ver, updated.next)
        /\ UNCHANGED <<now, attemptVars, cancelling, env>>

\* ... with a terminal observation: the lease closes, the attempt is not touched.
ResolveTerminalInspection(i) ==
    /\ inspections' = inspections \ {i}
    /\ lease' = closeLease(lease)
    /\ UNCHANGED <<now, attemptVars, cancelling, env>>

\* ... rejected: the CAS expects the version read before the move to inspecting.
RejectInspection(i) ==
    /\ inspections' = inspections \ {i}
    /\ lease' = updateEvaluation(lease, "inspect_due", i.ver, NoTime)
    /\ UNCHANGED <<now, attemptVars, cancelling, env>>

\* The bridge restarts: promises are lost, boot recovery settles process-bound
\* attempts and leaves inspectable ones, and those of a live workflow run, as they are.
CrashAndRecover ==
    /\ Spend
    /\ inspections' = {}
    /\ cancelling' = FALSE
    /\ IF ProcessBound /\ ~Managed /\ lifecycle \in ActiveStates \cup {"cancel_requested"}
       THEN Settle(lease, "timed_out")
       ELSE UNCHANGED <<lifecycle, lease>>
    /\ UNCHANGED <<now, hard, card>>

Next ==
    \/ Tick
    \/ Claim
    \/ MarkStartObservable
    \/ MarkRunning
    \/ RequestCancel
    \/ deferClaimAfterProvenNoStart
    \/ \E s \in TerminalStates : SettleByExecutor(s)
    \/ CardRuns
    \/ \E to \in CardStatuses : CardMoves(to)
    \/ \E f \in Fact : appendFact(f)
    \/ EvaluateHealthyOrWarning
    \/ PerformInspection
    \/ SkipInspection
    \/ PerformCancellation
    \/ ResolveCancel
    \/ \E i \in inspections, o \in {"running", "unknown"} : ResolveInspection(i, o)
    \/ \E i \in inspections : ResolveTerminalInspection(i)
    \/ \E i \in inspections : RejectInspection(i)
    \/ CrashAndRecover

Spec == Init /\ [][Next]_vars

\* The clock runs; a due snapshot is woken by the lifecycle scheduler, whose
\* heartbeat rescans every overdue item, so that a card that stays attended is
\* evaluated; an inspection settles one way or another.  Nothing is assumed of the
\* executor, of the card, of a pending cancel, of operators or of crashes.
Fairness ==
    /\ WF_vars(Tick)
    /\ WF_vars(IsDue /\ (EvaluateHealthyOrWarning \/ PerformInspection \/ PerformCancellation))
    /\ WF_vars(\E i \in inspections :
                  \/ \E o \in {"running", "unknown"} : ResolveInspection(i, o)
                  \/ ResolveTerminalInspection(i)
                  \/ RejectInspection(i))
FairSpec == Spec /\ Fairness

----------------------------------------------------------------------------
\* Properties.

\* The types of the attempt row, the lease row and the pending promises.
TypeOK ==
    /\ now \in Time
    /\ lifecycle \in Lifecycles
    /\ hard \in OptTime
    /\ card \in CardStatuses
    /\ lease \in Snapshot
    /\ inspections \subseteq Inspection
    /\ cancelling \in BOOLEAN
    /\ env \in 0..MaxEnv

\* The columns the scheduler and the compare-and-swap read never drift from the
\* JSON the next writer starts from, whichever writer ran last.
ColumnsMirrorJson ==
    /\ lease.colVer = lease.ver
    /\ lease.colNext = lease.next
    /\ lease.colClosed = lease.closed

\* A lease that still governs an active attempt is always scheduled, and never
\* later than the hard deadline (nor in the future once that has passed).
ArmedWithinHardDeadline ==
    (lifecycle \in ActiveStates /\ Exists /\ ~lease.closed) =>
        /\ lease.next # NoTime
        /\ hard # NoTime => lease.next <= Max2(hard, now)

\* Attempt and lease agree on how far the attempt has come: a cancel intent on
\* the lease is one on the attempt, and a settled attempt has a closed lease,
\* whatever promise resolves late.
LeaseFollowsAttempt ==
    /\ lease.phase = "cancel_requested" => lifecycle = "cancel_requested"
    /\ lifecycle \in TerminalStates => lease.closed
    /\ lease.closed <=> (lease.phase = "closed")

\* Streaming output alone postpones the progress deadline by at most the cap.
OutputOnlyIsCapped ==
    lease.outSince # NoTime =>
        lease.prog <= lease.outSince + OutputOnlyProgressCapMs + MeaningfulProgressMs

\* No later observation, evaluation or promise changes a closed lease, and a
\* cancel intent is only ever followed by the close.
ClosedAndCancelledAreFinal ==
    [][/\ lease.closed => lease' = lease
       /\ lease.phase = "cancel_requested" => lease'.phase \in {"cancel_requested", "closed"}]_vars

\* The hard deadline ends an attempt whose lease is open, even if the executor says
\* nothing more and its inspection is lost: the attempt settles or goes back to
\* pending, or its lease is closed.  Two ways past it are the code's own: no pass
\* looks at the lease while the card is queued or failed (reconcileChildCard), and
\* an attempt that was asked to cancel is not evaluated again (evaluateAndAct,
\* recordCancelIntent), so it waits for the cancel, which may be lost.
Unattended == ~Attended \/ lifecycle = "cancel_requested"
HardDeadlineEnds ==
    (lifecycle \in ActiveStates /\ Exists /\ ~lease.closed)
        ~> (lifecycle \in TerminalStates \cup {"pending"} \/ lease.closed \/ []Unattended)
=============================================================================
