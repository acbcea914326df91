---------------------------- MODULE WorkerSwarm ----------------------------
(***************************************************************************)
(* The worker children of one project: their kanban cards, the attempts    *)
(* that execute them, the token budget and executor capacity they share,   *)
(* the dispatch pump that claims and starts them, the executor that        *)
(* settles them, the lease reconciler that ends them, the per-card pass    *)
(* that projects a verdict or allocates a retry, and bridge restarts.      *)
(*                                                                         *)
(* JavaScript runs one synchronous segment at a time, so an action is the  *)
(* code between two awaits.  SQLite transactions of one segment are not    *)
(* interleaved.  `claimed' is left within the segment that enters it, so   *)
(* a claim goes straight to `starting'.  The generation column of an       *)
(* attempt is always 1 and is not kept.                                    *)
(***************************************************************************)
EXTENDS Integers, FiniteSets, Functions

CONSTANTS
    Cards,        \* W children of the project
    BlockedBy,    \* blocked_by: BlockedBy[c] is the set of cards c waits for
    Managed,      \* cards bound to a live workflow run (isRunnerManagedCard)
    PiDown,       \* cards whose executor is Pi while no Pi service is wired
    Deferring,    \* cards whose executor may prove that it did not start (Pi contention)
    Faulty,       \* cards whose settlement may fail to be stored or whose verdict to be read
    MaxAttempts,  \* GLOBAL_LIMITS.maxAttempts, and the literal 5 of the retry store
    MaxRetries,   \* MAX_RETRIES of kanbanRetryOrFail
    ExecutorMax,  \* capacity().max
    Cap,          \* max_tokens of the project card, NoCap if it has none
    Reserve,      \* Reserve[c]: limits.max_tokens of the contract of c
    Usages,       \* token totals an execution may report
    MaxCrashes,   \* bound: restarts of the bridge
    MaxRootSteps  \* bound: supervision transitions of the root

NoCap == -1
NoUsage == -1
Ordinals == 1..MaxAttempts

ASSUME SwarmAssumption ==
    /\ IsFiniteSet(Cards) /\ Cards # {}
    /\ BlockedBy \in [Cards -> SUBSET Cards]
    /\ Managed \subseteq Cards
    /\ PiDown \subseteq Cards
    /\ Deferring \subseteq Cards
    /\ Faulty \subseteq Cards
    /\ MaxAttempts \in Nat \ {0}
    /\ MaxRetries \in Nat
    /\ ExecutorMax \in Nat
    /\ Cap \in Nat \cup {NoCap}
    /\ Reserve \in [Cards -> Nat \ {0}]
    /\ Usages \subseteq Nat
    /\ MaxCrashes \in Nat
    /\ MaxRootSteps \in Nat

VARIABLES
    card,     \* card[c]: the kanban_board row of c
    att,      \* att[c][o]: the worker_attempts row of ordinal o, its results and reservation
    latest,   \* latest[c]: highest ordinal of c
    early,    \* early[c]: where earliest_claim_at of the latest attempt lies, if it has one
    root,     \* the project: supervision state, hard deadline, and transitions made so far
    used,     \* tokens_used of the project card
    pump,     \* the dispatch pump of the reconciler generation
    slot,     \* slot[c]: ordinal that owns the Spin occupancy of c, 0 if free
    lanes,    \* <<c, o>> whose executor process is running
    controls, \* <<c, o>> with an ExecutionControl in this process
    fenced,   \* <<c, o>> whose ExecutionControl is terminal
    woken,    \* cards with a scheduled reconcile pass
    crashes   \* restarts so far

vars == <<card, att, latest, early, root, used, pump, slot, lanes, controls, fenced, woken, crashes>>

----------------------------------------------------------------------------
(* Attempts.                                                               *)

Terminal == {"completed", "failed", "cancelled", "timed_out"}
Active == {"starting", "running", "cancel_requested"}
Lifecycles == {"absent", "pending"} \cup Active \cup Terminal

Attempt == [lc: Lifecycles, reserved: Nat, charged: Nat,
            reservation: {"none", "active", "claimed", "consumed"},
            result: {"none", "absence", "accepted", "unmet"},
            decision: {"none", "retry", "review", "stop"}]

NoAttempt == [lc |-> "absent", reserved |-> 0, charged |-> 0,
              reservation |-> "none", result |-> "none", decision |-> "none"]

NewAttempt == [NoAttempt EXCEPT !.lc = "pending"]

Latest(c) == att[c][latest[c]]

\* UPDATE worker_attempts of one row
WithAttempt(c, o, a) == [att EXCEPT ![c][o] = a]

\* getActiveAttemptCountForExecutor
ActiveAttempts == {a \in Cards \X Ordinals : att[a[1]][a[2]].lc \in Active}

\* getActiveReservedTokensForProject: the reservations of the active attempts
Held(c, o) == IF att[c][o].lc \in Active THEN att[c][o].reserved ELSE 0
ActiveReserved == SumFunction([a \in Cards \X Ordinals |-> Held(a[1], a[2])])

\* authorizeActiveProjectWork: the supervision state is not accepted or blocked
Authorized == root.state # "terminal"

----------------------------------------------------------------------------
(* The board.  A transition is a compare-and-set from a set of statuses;   *)
(* an applied one fires card:queued, card:done or card:failed, which wake  *)
(* the card and, for the last two, the pump.                               *)

CardStatus == {"queued", "running", "done", "failed"}
Card == [status: CardStatus,
         by: {0} \cup Ordinals,  \* attempt_id of the last journal row, 0 if none
         held: BOOLEAN,          \* next_retry_at is in the future
         retries: Nat]           \* retry_count

CanMove(c, from) == card[c].status \in from

Move(c, from, to, by) ==
    IF CanMove(c, from)
    THEN [card EXCEPT ![c].status = to, ![c].by = by]
    ELSE card

Wakes(c, from) == IF CanMove(c, from) THEN woken \cup {c} ELSE woken

\* requestWorkerDispatchFor
Kick(p) == [p EXCEPT !.dirty = TRUE, !.at = IF @ = "idle" THEN "ready" ELSE @]

KickIf(p, applied) == IF applied THEN Kick(p) ELSE p

\* kanbanRetryOrFail: requeue with a backoff, or fail once the retries are used up
kanbanRetryOrFail(c) ==
    LET n == card[c].retries + 1
    IN  IF n > MaxRetries
        THEN /\ card' = Move(c, {"queued", "running", "done"}, "failed", 0)
             /\ woken' = Wakes(c, {"queued", "running", "done"})
        ELSE /\ card' = IF CanMove(c, {"queued", "running"})
                        THEN [card EXCEPT ![c].status = "queued", ![c].held = TRUE,
                                          ![c].retries = n,
                                          ![c].by = IF card[c].status = "queued" THEN @ ELSE 0]
                        ELSE card
             /\ woken' = Wakes(c, {"running"})

retryOrFailApplies(c) ==
    /\ card[c].retries + 1 > MaxRetries
    /\ CanMove(c, {"queued", "running", "done"})

----------------------------------------------------------------------------
(* Settlement.                                                             *)

\* settleAttemptInTransaction: what one call leaves in the attempt, given the
\* requested state, the reported usage and the verdict of the envelope ("none"
\* if there is no envelope).

\* Mutant: a terminal attempt is settled again
SettleAllowedAgain(c, o, desired) ==
    /\ o = latest[c]
    /\ att[c][o].lc \notin {"absent", "pending"}
    /\ desired = "completed" => Authorized

SettleAllowed(c, o, desired) ==
    /\ o = latest[c]
    /\ att[c][o].lc \in Active \cup (IF desired \in {"timed_out", "cancelled"} THEN {"pending"} ELSE {})
    /\ desired = "completed" => Authorized

Charge(c, o, usage) ==
    IF usage # NoUsage THEN usage ELSE att[c][o].reserved

Overdrawn(c, o, usage) ==
    /\ usage # NoUsage
    /\ att[c][o].reserved > 0
    /\ usage > att[c][o].reserved

\* Mutant: the retry reservation outlives its attempt
SettledUnconsumed(c, o, state, usage, result) ==
    WithAttempt(c, o,
        [att[c][o] EXCEPT !.lc = state,
                          !.charged = Charge(c, o, usage),
                          !.result = IF state = "completed" \/ result # "none" THEN result ELSE "absence"])

Settled(c, o, state, usage, result) ==
    WithAttempt(c, o,
        [att[c][o] EXCEPT !.lc = state,
                          !.charged = Charge(c, o, usage),
                          !.result = IF state = "completed" \/ result # "none" THEN result ELSE "absence",
                          !.reservation = IF @ \in {"active", "claimed"} THEN "consumed" ELSE @])

\* Cleanup settlements carry no usage and no envelope
settleCleanup(c, o, state) ==
    IF SettleAllowed(c, o, state)
    THEN /\ att' = Settled(c, o, state, NoUsage, "none")
         /\ used' = used + Charge(c, o, NoUsage)
    ELSE UNCHANGED <<att, used>>

----------------------------------------------------------------------------
Pump == [at: {"idle", "ready", "pass", "capacity", "start"},
         dirty: BOOLEAN,
         todo: SUBSET Cards,             \* queued cards of this pass, not visited yet
         card: Cards, ord: Ordinals,     \* latestAttempt read before the pending await
         avail: Nat \cup {-1}]           \* capacity.available of this pass, -1 before it is sampled

NewPump == [at |-> "ready", dirty |-> TRUE, todo |-> {},
            card |-> CHOOSE c \in Cards : TRUE, ord |-> 1, avail |-> -1]

Root == [state: {"executing", "reviewing", "terminal"},
         overdue: BOOLEAN,   \* limits.hard_deadline_at has passed
         steps: Nat]

\* The types of the cards, the attempts, the budget, the lanes and the pump.
TypeOK ==
    /\ card \in [Cards -> Card]
    /\ att \in [Cards -> [Ordinals -> Attempt]]
    /\ latest \in [Cards -> Ordinals]
    /\ early \in [Cards -> {"none", "future", "past"}]
    /\ root \in Root
    /\ used \in Nat
    /\ pump \in Pump
    /\ slot \in [Cards -> {0} \cup Ordinals]
    /\ lanes \subseteq Cards \X Ordinals
    /\ controls \subseteq Cards \X Ordinals
    /\ fenced \subseteq controls
    /\ woken \subseteq Cards
    /\ crashes \in Nat

\* The project has been admitted: every child is queued with one pending attempt.
Init ==
    /\ card = [c \in Cards |-> [status |-> "queued", by |-> 0, held |-> FALSE, retries |-> 0]]
    /\ att = [c \in Cards |-> [o \in Ordinals |-> IF o = 1 THEN NewAttempt ELSE NoAttempt]]
    /\ latest = [c \in Cards |-> 1]
    /\ early = [c \in Cards |-> "none"]
    /\ root = [state |-> "executing", overdue |-> FALSE, steps |-> 0]
    /\ used = 0
    /\ pump = NewPump
    /\ slot = [c \in Cards |-> 0]
    /\ lanes = {}
    /\ controls = {}
    /\ fenced = {}
    /\ woken = {}
    /\ crashes = 0

----------------------------------------------------------------------------
(* The dispatch pump.                                                      *)

\* runWorkerDispatch clears dirty; dispatchOnePass reads kanbanQueuedDispatchOrder
BeginPass ==
    /\ pump.at = "ready"
    /\ pump' = [pump EXCEPT !.at = "pass", !.dirty = FALSE, !.avail = -1,
                            !.todo = {c \in Cards : card[c].status = "queued" /\ ~card[c].held}]
    /\ UNCHANGED <<card, att, latest, early, root, used, slot, lanes, controls, fenced, woken, crashes>>

\* while (dirty) ... finally running = false
EndPass ==
    /\ pump.at = "pass" /\ pump.todo = {}
    /\ pump' = [pump EXCEPT !.at = IF pump.dirty THEN "ready" ELSE "idle"]
    /\ UNCHANGED <<card, att, latest, early, root, used, slot, lanes, controls, fenced, woken, crashes>>

\* Mutant: a failed dependency counts as finished
isUnblockedSettled(c) == \A d \in BlockedBy[c] : card[d].status \in {"done", "failed"}

isUnblocked(c) == \A d \in BlockedBy[c] : card[d].status = "done"

Occupied == {c \in Cards : slot[c] # 0}

\* projectAttemptCard: a terminal card is never decided again
Undecided == {"queued", "running"}
projectAttemptCard(c, o, to) ==
    /\ card' = Move(c, Undecided, to, o)
    /\ woken' = Wakes(c, Undecided)

\* projectTerminalAttemptIfDue: the verdict of a terminal latest attempt
Verdict(a) == IF a.lc = "completed" /\ a.result = "accepted" THEN "done" ELSE "failed"

\* Budget part of claimAttemptWithinLimits
BudgetExhausted == Cap # NoCap /\ used >= Cap
ReservedFor(c) == IF Cap = NoCap THEN 0 ELSE Reserve[c]

\* Mutant: reservations of running siblings are not counted
WithinBudgetCommitted(c) == Cap = NoCap \/ used + ReservedFor(c) <= Cap

WithinBudget(c) == Cap = NoCap \/ used + ActiveReserved + ReservedFor(c) <= Cap

Claimable(c, o) ==
    /\ o = latest[c] /\ att[c][o].lc = "pending"
    /\ card[c].status = "queued"
    /\ root.state = "executing" /\ ~root.overdue
    /\ Cardinality(ActiveAttempts) < ExecutorMax

\* The tail of an iteration, from the capacity checks to the awaited start.
\* The caller has taken c out of the pass; p is the pump so far.
Admit(c, o, p) ==
    IF \/ p.avail <= 0 \/ Cardinality(ActiveAttempts) >= ExecutorMax
       \/ o = latest[c] /\ early[c] = "future"
       \/ ~Claimable(c, o)
       \/ ~BudgetExhausted /\ ~WithinBudget(c)
    THEN /\ pump' = p
         /\ UNCHANGED <<card, woken, att, used, controls>>
    ELSE IF BudgetExhausted
    THEN /\ settleCleanup(c, o, "cancelled")
         /\ card' = Move(c, Undecided, "failed", o)
         /\ woken' = Wakes(c, Undecided)
         /\ pump' = KickIf(p, CanMove(c, Undecided))
         /\ UNCHANGED controls
    ELSE /\ controls' = controls \cup {<<c, o>>}
         /\ att' = WithAttempt(c, o, [att[c][o] EXCEPT !.lc = "starting", !.reserved = ReservedFor(c),
                                           !.reservation = IF @ = "active" THEN "claimed" ELSE @])
         /\ pump' = [p EXCEPT !.at = "start", !.card = c, !.ord = o, !.avail = @ - 1]
         /\ UNCHANGED <<card, woken, used>>

\* Pi executor unavailable: claim, start and settle the attempt as failed
FailUnavailable(c) ==
    /\ IF Authorized
       THEN /\ att' = Settled(c, latest[c], "failed", NoUsage, "none")
            /\ used' = used + Charge(c, latest[c], NoUsage)
            /\ projectAttemptCard(c, latest[c], "failed")
       ELSE /\ UNCHANGED <<att, used>>
            /\ card' = Move(c, {"queued", "running", "done"}, "failed", 0)
            /\ woken' = Wakes(c, {"queued", "running", "done"})
    /\ pump' = KickIf([pump EXCEPT !.todo = @ \ {c}], CanMove(c, IF Authorized THEN Undecided ELSE {"queued", "running", "done"}))

\* One iteration of dispatchOnePass, up to its first await
VisitCard(c) ==
    LET rest == [pump EXCEPT !.todo = @ \ {c}]
        lc == Latest(c).lc
    IN
    /\ pump.at = "pass" /\ c \in pump.todo
    /\ IF ~isUnblocked(c) \/ root.state = "terminal" \/ lc \in Active
       THEN /\ pump' = rest
            /\ UNCHANGED <<card, woken, att, used, controls>>
       ELSE IF lc \in Terminal
       THEN /\ projectAttemptCard(c, latest[c], Verdict(Latest(c)))
            /\ pump' = KickIf(rest, CanMove(c, Undecided))
            /\ UNCHANGED <<att, used, controls>>
       ELSE IF c \in PiDown
       THEN FailUnavailable(c) /\ UNCHANGED controls
       ELSE IF pump.avail = -1
       THEN /\ pump' = [rest EXCEPT !.at = "capacity", !.card = c, !.ord = latest[c]]
            /\ UNCHANGED <<card, woken, att, used, controls>>
       ELSE Admit(c, latest[c], rest)
    /\ UNCHANGED <<latest, early, root, slot, lanes, fenced, crashes>>

\* Mutant: the sample is the maximum, whatever lanes are still occupied
CapacityResolvesFull ==
    /\ pump.at = "capacity"
    /\ Admit(pump.card, pump.ord, [pump EXCEPT !.at = "pass", !.avail = ExecutorMax])
    /\ UNCHANGED <<latest, early, root, slot, lanes, fenced, crashes>>

\* await adapter.capacity(): the attempt was read before it
CapacityResolves ==
    /\ pump.at = "capacity"
    /\ Admit(pump.card, pump.ord,
             [pump EXCEPT !.at = "pass", !.avail = IF Cardinality(Occupied) < ExecutorMax
                                                   THEN ExecutorMax - Cardinality(Occupied) ELSE 0])
    /\ UNCHANGED <<latest, early, root, slot, lanes, fenced, crashes>>

----------------------------------------------------------------------------
(* await adapter.start(claim): what the adapter did, and what the pump     *)
(* makes of it.  Everything may have changed since the claim.              *)

AfterStart == [pump EXCEPT !.at = "pass"]

\* The adapter dispatched the worker.  Spin admits it (a session cap may refuse,
\* and the adapter reports started all the same), the pump marks the attempt
\* running and projects it if it was settled meanwhile.
StartSucceeds(admitted) ==
    LET c == pump.card
        o == pump.ord
        run == att[c][o].lc = "starting" /\ Authorized
        shown == admitted /\ card[c].status = "queued"
    IN
    /\ pump.at = "start"
    /\ att' = IF run THEN WithAttempt(c, o, [att[c][o] EXCEPT !.lc = "running"]) ELSE att
    /\ slot' = IF admitted THEN [slot EXCEPT ![c] = o] ELSE slot
    /\ lanes' = IF admitted THEN lanes \cup {<<c, o>>} ELSE lanes
    /\ IF Latest(c).lc \in Terminal
       THEN /\ projectAttemptCard(c, latest[c], Verdict(Latest(c)))
            /\ pump' = KickIf(AfterStart, CanMove(c, Undecided))
       ELSE /\ card' = IF shown THEN [card EXCEPT ![c].status = "running", ![c].by = 0] ELSE card
            /\ pump' = AfterStart
            /\ UNCHANGED woken
    /\ UNCHANGED <<latest, early, root, used, controls, fenced, crashes>>

\* ExecutionSupervisor.remove, when the adapter did not start
RemoveControl ==
    /\ controls' = controls \ {<<pump.card, pump.ord>>}
    /\ fenced' = fenced \ {<<pump.card, pump.ord>>}

\* Settle the claimed attempt as failed and fail its card
StartFailed ==
    /\ settleCleanup(pump.card, pump.ord, "failed")
    /\ projectAttemptCard(pump.card, pump.ord, "failed")
    /\ pump' = KickIf(AfterStart, CanMove(pump.card, Undecided))

StartFails ==
    /\ pump.at = "start"
    /\ StartFailed
    /\ RemoveControl
    /\ UNCHANGED <<latest, early, root, slot, lanes, crashes>>

\* deferClaimAfterProvenNoStart, or a start failure if the claim is gone
StartDeferred ==
    LET c == pump.card
        o == pump.ord
    IN
    /\ pump.at = "start" /\ c \in Deferring
    /\ IF o = latest[c] /\ att[c][o].lc = "starting" /\ Authorized
       THEN /\ att' = WithAttempt(c, o, [att[c][o] EXCEPT !.lc = "pending", !.reserved = 0,
                                              !.reservation = IF @ = "claimed" THEN "active" ELSE @])
            /\ early' = [early EXCEPT ![c] = "none"]
            /\ pump' = AfterStart
            /\ UNCHANGED <<card, woken, used>>
       ELSE StartFailed /\ UNCHANGED early
    /\ RemoveControl
    /\ UNCHANGED <<latest, root, slot, lanes, crashes>>

\* A Pi resource release: the wake a deferred attempt waits for
ResourceReleased ==
    /\ \E c \in Cards : Latest(c).lc = "pending"
    /\ pump.at = "idle"
    /\ pump' = Kick(pump)
    /\ UNCHANGED <<card, att, latest, early, root, used, slot, lanes, controls, fenced, woken, crashes>>

----------------------------------------------------------------------------
(* The executor.  A turn ends once, unless a cancellation fenced its       *)
(* control first; its slot is released some awaits later.                  *)

\* Mutant: the card is completed even if the settlement was refused as stale
FinishSpinStale(c, o, usage, result, late, stored) ==
    LET from == IF result = "accepted" THEN Undecided ELSE Undecided \cup {"done"}
    IN
    /\ <<c, o>> \in lanes \ fenced
    /\ fenced' = fenced \cup {<<c, o>>}
    /\ IF SettleAllowed(c, o, "completed")
       THEN /\ att' = Settled(c, o, "completed", usage, result)
            /\ used' = used + Charge(c, o, usage)
       ELSE UNCHANGED <<att, used>>
    /\ card' = Move(c, from, IF result = "accepted" THEN "done" ELSE "failed", 0)
    /\ woken' = Wakes(c, from)
    /\ pump' = KickIf(pump, CanMove(c, from))
    /\ UNCHANGED <<latest, early, root, slot, lanes, controls, crashes>>

\* finishSpin: collectAndSettle with the evaluated evidence, then the card, which
\* is left alone if the settlement was refused or its transaction threw
FinishSpin(c, o, usage, result, late, stored) ==
    LET state == IF late THEN "timed_out"
                 ELSE IF Overdrawn(c, o, usage) THEN "failed" ELSE "completed"
        from == IF result = "accepted" THEN Undecided ELSE Undecided \cup {"done"}
    IN
    /\ <<c, o>> \in lanes \ fenced
    /\ fenced' = fenced \cup {<<c, o>>}
    /\ stored \/ c \in Faulty
    /\ IF ~SettleAllowed(c, o, "completed") \/ ~stored
       THEN UNCHANGED <<card, woken, att, used, pump>>
       ELSE /\ att' = Settled(c, o, state, usage, result)
            /\ used' = used + Charge(c, o, usage)
            /\ IF Overdrawn(c, o, usage)
               THEN /\ kanbanRetryOrFail(c)
                    /\ pump' = KickIf(pump, retryOrFailApplies(c))
               ELSE /\ card' = Move(c, from, IF result = "accepted" THEN "done" ELSE "failed", 0)
                    /\ woken' = Wakes(c, from)
                    /\ pump' = KickIf(pump, CanMove(c, from))
    /\ UNCHANGED <<latest, early, root, slot, lanes, controls, crashes>>

\* ... or the evidence is settled but the verdict cannot be read back: the card is
\* deferred to a reconcile pass that nobody asks for
VerdictUnread(c, o, usage, result, late) ==
    /\ <<c, o>> \in lanes \ fenced
    /\ c \in Faulty
    /\ SettleAllowed(c, o, "completed") /\ ~Overdrawn(c, o, usage)
    /\ fenced' = fenced \cup {<<c, o>>}
    /\ att' = Settled(c, o, IF late THEN "timed_out" ELSE "completed", usage, result)
    /\ used' = used + Charge(c, o, usage)
    /\ UNCHANGED <<card, latest, early, root, pump, slot, lanes, controls, woken, crashes>>

\* Mutant: a failure of a superseded attempt is not recognised
FailSpinStale(c, o, usage, stored) ==
    /\ <<c, o>> \in lanes \ fenced
    /\ fenced' = fenced \cup {<<c, o>>}
    /\ IF SettleAllowed(c, o, "failed")
       THEN /\ att' = Settled(c, o, "failed", usage, "none")
            /\ used' = used + Charge(c, o, usage)
       ELSE UNCHANGED <<att, used>>
    /\ kanbanRetryOrFail(c)
    /\ pump' = KickIf(pump, retryOrFailApplies(c))
    /\ UNCHANGED <<latest, early, root, slot, lanes, controls, crashes>>

\* failSpin: settle the attempt as failed, then the legacy retry of the card, which
\* takes place even if the settlement threw
FailSpin(c, o, usage, stored) ==
    /\ <<c, o>> \in lanes \ fenced
    /\ fenced' = fenced \cup {<<c, o>>}
    /\ stored \/ c \in Faulty
    /\ IF o # latest[c]
       THEN UNCHANGED <<card, woken, att, used, pump>>
       ELSE /\ IF SettleAllowed(c, o, "failed") /\ stored
               THEN /\ att' = Settled(c, o, "failed", usage, "none")
                    /\ used' = used + Charge(c, o, usage)
               ELSE UNCHANGED <<att, used>>
            /\ kanbanRetryOrFail(c)
            /\ pump' = KickIf(pump, retryOrFailApplies(c))
    /\ UNCHANGED <<latest, early, root, slot, lanes, controls, crashes>>

\* Mutant: a lane frees the slot of its card, whoever owns it
FreedSlotBlind(c, o) == [slot EXCEPT ![c] = 0]

\* releaseOwnedCard: whoever owns the slot now keeps it
FreedSlot(c, o) == IF slot[c] = o THEN [slot EXCEPT ![c] = 0] ELSE slot

\* Mutant: the release of a slot wakes nobody
LaneClosesQuietly(c, o) ==
    /\ <<c, o>> \in lanes \cap fenced
    /\ lanes' = lanes \ {<<c, o>>}
    /\ controls' = controls \ {<<c, o>>}
    /\ fenced' = fenced \ {<<c, o>>}
    /\ slot' = FreedSlot(c, o)
    /\ UNCHANGED <<card, att, latest, early, root, used, pump, woken, crashes>>

\* ExecutionSupervisor.close: release the slot and wake the pump
LaneCloses(c, o) ==
    /\ <<c, o>> \in lanes \cap fenced
    /\ lanes' = lanes \ {<<c, o>>}
    /\ controls' = controls \ {<<c, o>>}
    /\ fenced' = fenced \ {<<c, o>>}
    /\ slot' = FreedSlot(c, o)
    /\ pump' = KickIf(pump, slot' # slot)
    /\ UNCHANGED <<card, att, latest, early, root, used, woken, crashes>>

----------------------------------------------------------------------------
(* The lease reconciler (module ExecutorLease), as far as it touches the   *)
(* attempt.                                                                *)

\* reconcileChildCard returns on a queued card and decides a retry of a failed one
\* before it looks at the lease
Attended(c) == card[c].status \notin {"queued", "failed"}

\* Mutant: the settlement of an expired lease does not wake its card
LeaseExpiresQuietly(c) ==
    /\ Attended(c) /\ Latest(c).lc \in Active
    /\ settleCleanup(c, latest[c], "timed_out")
    /\ UNCHANGED <<card, latest, early, root, pump, slot, lanes, controls, fenced, woken, crashes>>

\* Hard deadline: settle at once and wake the card
LeaseExpires(c) ==
    /\ Attended(c) /\ Latest(c).lc \in Active
    /\ settleCleanup(c, latest[c], "timed_out")
    /\ woken' = woken \cup {c}
    /\ UNCHANGED <<card, latest, early, root, pump, slot, lanes, controls, fenced, crashes>>

\* SpinWorkerAdapter.cancel: the intent, then an awaited physical interrupt
CancelRequested(c) ==
    /\ Latest(c).lc \in {"starting", "running"}
    /\ <<c, latest[c]>> \in controls \ fenced
    /\ att' = WithAttempt(c, latest[c], [Latest(c) EXCEPT !.lc = "cancel_requested"])
    /\ UNCHANGED <<card, latest, early, root, used, pump, slot, lanes, controls, fenced, woken, crashes>>

\* ... its settlement and the fencing of the control, then the wake
CancelResolves(c) ==
    /\ Latest(c).lc = "cancel_requested" /\ <<c, latest[c]>> \in controls
    /\ settleCleanup(c, latest[c], "cancelled")
    /\ fenced' = fenced \cup {<<c, latest[c]>>}
    /\ woken' = woken \cup {c}
    /\ UNCHANGED <<card, latest, early, root, pump, slot, lanes, controls, crashes>>

----------------------------------------------------------------------------
(* reconcileChildCard: project a verdict, ask for a dispatch or retry.     *)

\* cascadeFail: the queued cards that wait for c, directly or through queued cards,
\* are the members of every set of queued cards closed under waiting
Dependents(c) ==
    LET Queued == {d \in Cards : card[d].status = "queued"}
        Closed == {S \in SUBSET Queued : \A d \in Queued : BlockedBy[d] \cap (S \cup {c}) # {} => d \in S}
    IN  {d \in Queued : \A S \in Closed : d \in S}

cascadeFail(c) ==
    LET hit == Dependents(c)
    IN  /\ card' = [d \in Cards |-> IF d \in hit THEN [card[d] EXCEPT !.status = "failed", !.by = 0]
                                    ELSE card[d]]
        /\ woken' = (woken \ {c}) \cup hit
        /\ pump' = KickIf(pump, hit # {})

\* reduceTerminalAttempt: the decision is made once and read back afterwards.
\* Which one depends on the failure class; an exhausted lineage always stops.
Decisions(c) ==
    IF Latest(c).decision # "none" THEN {Latest(c).decision}
    ELSE IF latest[c] >= MaxAttempts THEN {"stop"} ELSE {"retry", "review", "stop"}

\* acceptDirectiveAndAllocateTarget: a pending successor and its reservation; the
\* card goes back to the queue
AllocateTarget(c, decided, backoff) ==
    LET n == latest[c] + 1
    IN  /\ att' = [decided EXCEPT ![c][n] = [NewAttempt EXCEPT !.reservation = "active"]]
        /\ latest' = [latest EXCEPT ![c] = n]
        /\ early' = [early EXCEPT ![c] = IF backoff THEN "future" ELSE "past"]
        /\ card' = [card EXCEPT ![c].status = "queued", ![c].by = 0, ![c].held = FALSE]
        /\ woken' = woken   \* card:queued and handleSupervisedRetry wake the card again

\* Mutant: the lifecycle of the failed card's attempt is not looked at
RetryableAnyway(c) ==
    /\ card[c].status = "failed"
    /\ c \notin Managed

\* handleSupervisedRetry
Retryable(c) ==
    /\ card[c].status = "failed"
    /\ Latest(c).lc \in {"failed", "cancelled", "timed_out"}
    /\ c \notin Managed

handleSupervisedRetry(c, decision, backoff) ==
    LET decided == WithAttempt(c, latest[c], [Latest(c) EXCEPT !.decision = decision])
    IN
    /\ c \in woken /\ Retryable(c)
    /\ decision \in Decisions(c)
    /\ CASE decision = "retry" /\ Authorized ->
              AllocateTarget(c, decided, backoff) /\ UNCHANGED pump
         [] decision = "stop" ->
              /\ att' = decided
              /\ cascadeFail(c)
              /\ UNCHANGED <<latest, early>>
         [] OTHER ->
              /\ att' = decided
              /\ woken' = woken \ {c}
              /\ UNCHANGED <<card, latest, early, pump>>
    /\ UNCHANGED <<root, used, slot, lanes, controls, fenced, crashes>>

\* reconcileChildCard for a card that is not up for a retry: project a verdict
\* the card lags behind, or ask for a dispatch
ReconcileCard(c) ==
    LET lagging == card[c].status \in Undecided /\ Latest(c).lc \in Terminal
        waiting == card[c].status = "queued" /\ isUnblocked(c) /\ Latest(c).lc = "pending"
    IN
    /\ c \in woken /\ ~Retryable(c)
    /\ card' = IF lagging THEN Move(c, Undecided, Verdict(Latest(c)), latest[c]) ELSE card
    /\ woken' = IF lagging THEN woken ELSE woken \ {c}
    /\ pump' = KickIf(pump, lagging \/ waiting)
    /\ UNCHANGED <<att, latest, early, root, used, slot, lanes, controls, fenced, crashes>>

----------------------------------------------------------------------------
(* Time, the project and restarts.                                         *)

\* earliest_claim_at passes.  No due source knows of it, so nothing is woken.
BackoffElapses(c) ==
    /\ early[c] = "future"
    /\ early' = [early EXCEPT ![c] = "past"]
    /\ UNCHANGED <<card, att, latest, root, used, pump, slot, lanes, controls, fenced, woken, crashes>>

\* next_retry_at passes: the kanban-retry source wakes the card while it is queued
HoldElapses(c) ==
    /\ card[c].held
    /\ card' = [card EXCEPT ![c].held = FALSE]
    /\ woken' = IF card[c].status = "queued" THEN woken \cup {c} ELSE woken
    /\ UNCHANGED <<att, latest, early, root, used, pump, slot, lanes, controls, fenced, crashes>>

\* The supervision state of the root, driven by the project workflow
RootMoves(to) ==
    /\ root.steps < MaxRootSteps
    /\ root.state # "terminal" /\ to # root.state
    /\ root' = [root EXCEPT !.state = to, !.steps = @ + 1]
    /\ UNCHANGED <<card, att, latest, early, used, pump, slot, lanes, controls, fenced, woken, crashes>>

\* The hard deadline of the project passes: every later claim answers deadline_expired
RootDeadlinePasses ==
    /\ root.steps < MaxRootSteps /\ ~root.overdue
    /\ root' = [root EXCEPT !.overdue = TRUE, !.steps = @ + 1]
    /\ UNCHANGED <<card, att, latest, early, used, pump, slot, lanes, controls, fenced, woken, crashes>>

\* runAttemptRecovery: every active attempt of a process-bound executor is
\* settled as timed out and its card failed, except under a live workflow run
Lost(c) == Latest(c).lc \in Active /\ c \notin Managed

\* The bridge dies and startReconciler runs.  What the process knew is gone; the
\* cards failed by the recovery are the only children it wakes.
Crash ==
    LET failed == {c \in Cards : Lost(c) /\ CanMove(c, Undecided)}
    IN
    /\ crashes < MaxCrashes
    /\ crashes' = crashes + 1
    /\ att' = [c \in Cards |-> IF Lost(c) THEN Settled(c, latest[c], "timed_out", NoUsage, "none")[c]
                               ELSE att[c]]
    /\ used' = used + SumFunctionOnSet([c \in Cards |-> Charge(c, latest[c], NoUsage)],
                                       {c \in Cards : Lost(c)})
    /\ card' = [c \in Cards |-> IF c \in failed
                                THEN [card[c] EXCEPT !.status = "failed", !.by = latest[c]]
                                ELSE card[c]]
    /\ woken' = failed
    /\ pump' = NewPump
    /\ slot' = [c \in Cards |-> 0]
    /\ lanes' = {} /\ controls' = {} /\ fenced' = {}
    /\ UNCHANGED <<latest, early, root>>

----------------------------------------------------------------------------
PumpStep ==
    \/ BeginPass
    \/ EndPass
    \/ \E c \in Cards : VisitCard(c)
    \/ CapacityResolves
    \/ \E admitted \in BOOLEAN : StartSucceeds(admitted)
    \/ StartFails
    \/ StartDeferred

Reconcile(c) ==
    \/ ReconcileCard(c)
    \/ \E decision \in {"retry", "review", "stop"}, backoff \in BOOLEAN :
           handleSupervisedRetry(c, decision, backoff)

Executor(c, o) ==
    \/ \E usage \in Usages \cup {NoUsage}, result \in {"accepted", "unmet"},
          late \in BOOLEAN, stored \in BOOLEAN : FinishSpin(c, o, usage, result, late, stored)
    \/ \E usage \in Usages \cup {NoUsage}, result \in {"accepted", "unmet"},
          late \in BOOLEAN : VerdictUnread(c, o, usage, result, late)
    \/ \E usage \in Usages \cup {NoUsage}, stored \in BOOLEAN : FailSpin(c, o, usage, stored)

Lease(c) ==
    \/ LeaseExpires(c)
    \/ CancelRequested(c)
    \/ CancelResolves(c)

Next ==
    \/ PumpStep
    \/ ResourceReleased
    \/ \E c \in Cards : Reconcile(c) \/ Lease(c) \/ BackoffElapses(c) \/ HoldElapses(c)
    \/ \E c \in Cards, o \in Ordinals : Executor(c, o) \/ LaneCloses(c, o)
    \/ \E to \in {"executing", "reviewing", "terminal"} : RootMoves(to)
    \/ RootDeadlinePasses
    \/ Crash

Spec == Init /\ [][Next]_vars

\* Promises settle and timers fire: the pump and the passes of the cards go on, backoffs
\* and holds elapse, lanes close.  Of the environment it is assumed that a turn of an
\* executor ends.  No deadline of a lease is assumed to be evaluated.
Fairness ==
    /\ WF_vars(PumpStep)
    /\ \A c \in Cards :
         /\ WF_vars(Reconcile(c))
         /\ WF_vars(BackoffElapses(c))
         /\ WF_vars(HoldElapses(c))
    /\ \A c \in Cards, o \in Ordinals :
         /\ WF_vars(Executor(c, o))
         /\ WF_vars(LaneCloses(c, o))

FairSpec == Spec /\ Fairness

----------------------------------------------------------------------------
(* Safety.                                                                 *)

\* A card has at most one attempt in play: every attempt before the latest is
\* terminal and none exists after it, whatever executor, lease evaluation, retry
\* or restart got there first (worker_attempts).
OneLiveAttempt ==
    \A c \in Cards, o \in Ordinals :
        /\ o < latest[c] => att[c][o].lc \in Terminal
        /\ o = latest[c] => att[c][o].lc # "absent"
        /\ o > latest[c] => att[c][o] = NoAttempt

\* What the project has used and what its running attempts may still use exceed
\* its cap only by what executions reported beyond their own reservation
\* (claimAttemptWithinLimits).
Overrun(c, o) == IF att[c][o].charged > att[c][o].reserved
                 THEN att[c][o].charged - att[c][o].reserved ELSE 0
BudgetHeld ==
    Cap # NoCap =>
        used + ActiveReserved <= Cap + SumFunction([a \in Cards \X Ordinals |-> Overrun(a[1], a[2])])

\* A retry reservation is held exactly as long as its attempt may run: active
\* while the attempt is pending, claimed while it is claimed, consumed afterwards
\* (claimAttemptWithinLimits, deferClaimAfterProvenNoStart, settleAttemptInTransaction).
ReservationFollowsAttempt ==
    \A c \in Cards, o \in Ordinals :
        LET a == att[c][o]
        IN  /\ o = 1 \/ a.lc = "absent" => a.reservation = "none"
            /\ o > 1 /\ a.lc = "pending" => a.reservation = "active"
            /\ o > 1 /\ a.lc \in Active => a.reservation = "claimed"
            /\ o > 1 /\ a.lc \in Terminal => a.reservation = "consumed"

\* When the pump starts a worker there is a free Spin slot for it, although the
\* capacity was sampled earlier in the pass (dispatchOnePass, #1801).
SlotIsFree == pump.at = "start" => Cardinality(Occupied) < ExecutorMax

\* A running attempt owns the slot of its card: a superseded lane of the same card
\* that closes late does not free it (releaseOwnedCard, #1778).
RunningHoldsSlot ==
    \A a \in lanes : att[a[1]][a[2]].lc \in Active => slot[a[1]] = a[2]

\* A card is done only with the accepted evidence of its latest attempt, never
\* with that of an attempt that was superseded while it ran (finishSpin,
\* projectTerminalAttemptIfDue).
DoneHasEvidence ==
    \A c \in Cards : card[c].status = "done" => Latest(c).result = "accepted"

\* No worker runs before the cards it depends on are done, although the check and
\* the claim are separated by an await (dispatchOnePass).
DependenciesDone ==
    \A c \in Cards : Latest(c).lc \in Active => \A d \in BlockedBy[c] : card[d].status = "done"

----------------------------------------------------------------------------
(* Action properties.                                                      *)

\* The verdict, the evidence and the charge of a terminal attempt never change
\* (settleAttemptInTransaction replays or refuses).
TerminalIsFinal ==
    [][\A c \in Cards, o \in Ordinals :
          att[c][o].lc \in Terminal =>
              /\ att'[c][o].lc = att[c][o].lc
              /\ att'[c][o].charged = att[c][o].charged
              /\ att'[c][o].result = att[c][o].result]_vars

\* A done card stays done: neither a late failure of a superseded attempt nor a
\* cascade of a failed dependency undoes it (kanbanFail and kanbanRetryOrFail
\* accept a done card).
DoneIsFinal ==
    [][\A c \in Cards : card[c].status = "done" => card'[c].status = "done"]_vars

----------------------------------------------------------------------------
(* Liveness.                                                               *)

\* Without a restart and with readable verdicts the card catches up with its attempt:
\* once the latest attempt is terminal the card is decided (#1644, #1801).
CardCatchesUp ==
    \A c \in Cards \ Faulty : (card[c].status \in Undecided /\ Latest(c).lc \in Terminal)
                        ~> (card[c].status \notin Undecided \/ Latest(c).lc \notin Terminal)

\* A queued child of a live project whose dependencies are done and whose backoff is
\* over.
Startable(c) ==
    /\ card[c].status = "queued" /\ isUnblocked(c)
    /\ Latest(c).lc = "pending" /\ early[c] # "future"
    /\ root.state = "executing" /\ ~root.overdue

\* An attempt in play that no lane executes: its start was refused by the session cap,
\* or its turn ended and the settlement was not stored.
Stranded == \E c \in Cards : Latest(c).lc \in Active /\ <<c, latest[c]>> \notin lanes

\* A startable card is taken up: whatever kept the pump from it is followed by a wake
\* (#1794, #1801), unless a stranded attempt holds the capacity for good.  The end of
\* a backoff rings nobody: a retry skipped for it waits for the next wake of the pump.
PendingIsServed ==
    \A c \in Cards : Startable(c) ~> \/ ~Startable(c)
                                     \/ []Stranded
                                     \/ [](early[c] = "past" /\ pump.at = "idle")
=============================================================================
