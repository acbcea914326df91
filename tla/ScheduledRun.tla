---------------------------- MODULE ScheduledRun ----------------------------
(***************************************************************************)
(* The life of a scheduled-task occurrence: admission by the task checker, *)
(* the two-lane queue, the coordinator that starts and stops the adapter   *)
(* (script, system handler or agent), the settler that records exactly one *)
(* terminal outcome and patches the task's state, the run-deadline source  *)
(* that bounds a silent adapter, and restart recovery.                     *)
(*                                                                         *)
(* A call chain that the code runs without an await is one action.  Such   *)
(* chains are written as operators from world to world, where a world is a *)
(* record of the variables they touch.  Every instant the code stores is a *)
(* countdown to it; Tick is one unit of time.  `Never' is an absent time.  *)
(***************************************************************************)
EXTENDS Integers, Sequences, FiniteSets, FiniteSetsExt

CONSTANTS
    Tasks,          \* task definitions
    Listed,         \* those of the task store, all enabled; the follow-up of
                    \* a gate is made up on the spot and is not among them
    Kind,           \* Tasks -> {"script", "system", "agent"}
    Recurring,      \* tasks with a cron schedule; the others run once
    Projects,       \* agent tasks with maxAgents > 1 (a project card exists)
    Gated,          \* scripts whose success may enqueue a follow-up ...
    FollowUp,       \* ... of this task
    Rank,           \* Tasks -> priority rank, 0 first
    Commands,       \* what the operator does, of {"run", "cancel", "pause",
                    \* "resume", "trigger"}
    MaxRuns,        \* bound: run ids
    MaxFaults,      \* bound: crashes and the Faults of a step
    Ceiling, IdleBudget, Grace,          \* limits on a live run
    RetryDelay, DeferDelay, Period,      \* when a task is next due
    StaleAfter, Cooldown,                \* catch-up limit, pause cooldown
    MaxDeferrals, PauseThreshold, MaxResumes

ASSUME ScheduleAssumption ==
    /\ Kind \in [Tasks -> {"script", "system", "agent"}]
    /\ Recurring \subseteq Tasks
    /\ Projects \subseteq {t \in Tasks : Kind[t] = "agent"}
    /\ Gated \subseteq {t \in Tasks : Kind[t] = "script"}
    /\ Listed \subseteq Tasks
    /\ Gated # {} => FollowUp \in Tasks \ Listed /\ Kind[FollowUp] = "agent"
    /\ Rank \in [Tasks -> 0..2]
    /\ Commands \subseteq {"run", "cancel", "pause", "resume", "trigger"}
    /\ {MaxRuns, MaxFaults, StaleAfter, MaxDeferrals, MaxResumes} \subseteq Nat
    /\ {Ceiling, IdleBudget, Grace, RetryDelay, DeferDelay, Period, Cooldown,
        PauseThreshold} \subseteq Nat \ {0}

VARIABLES
    st,         \* task_state row of every task
    row,        \* task_runs rows, by run id
    used,       \* number of run ids given out
    hist,       \* task_run_history: outcome and diagnostic, by run id
    lane,       \* the queue: current run and pending runs of each lane
    handles,    \* runs the coordinator holds a handle for
    adapter,    \* where the adapter of each run is
    reported,   \* failure cascades fired, by run id (history)
    torn,       \* runs whose settlement threw between the close of the row and
                \* the terminal event, since the last start (history)
    acked,      \* runs without an outcome yet whose cancellation was answered
                \* "requested" and is stored (history)
    mode,       \* the process: "up", "down" or "recovering"
    todo,       \* tasks restart recovery has still to look at
    faults      \* faults so far (bound)

World == [st |-> st, row |-> row, used |-> used, hist |-> hist, lane |-> lane,
          handles |-> handles, adapter |-> adapter, reported |-> reported,
          torn |-> torn]
Becomes(world) ==
    \E w \in {world} :
       /\ st' = w.st
       /\ row' = w.row
       /\ used' = w.used
       /\ hist' = w.hist
       /\ lane' = w.lane
       /\ handles' = w.handles
       /\ adapter' = w.adapter
       /\ reported' = w.reported
       /\ torn' = w.torn
vars == <<st, row, used, hist, lane, handles, adapter, reported, torn, acked,
          mode, todo, faults>>

Never == 99
Lanes == {"manual", "scheduled"}
RunIds == 1..MaxRuns
Countdown(x, floor) == IF x = Never \/ x <= floor THEN x ELSE x - 1

NoDeferral == [attempts |-> 0, group |-> 0, ceil |-> 0, retryAt |-> Never]
FreshTask(n) ==
    [next |-> n, retryAt |-> Never, retrying |-> FALSE, retryGroup |-> 0,
     fails |-> 0, paused |-> FALSE, cool |-> 0, resumes |-> 0,
     deferred |-> NoDeferral, completed |-> FALSE]
NoRow == [task |-> "none", trigger |-> "none", attempt |-> 0, group |-> 0,
          phase |-> "none", ceil |-> 0, idle |-> 0, req |-> "none",
          grace |-> 0, live |-> FALSE, owned |-> FALSE, card |-> FALSE]

\* What may go wrong in a step: a state write is lost, a settlement throws
\* after the close of the row, the spawn of the script that is started next is
\* refused, and the settlement of that refusal throws as well.
Refusal == {"refused", "thrown"}
Scripts == {t \in Tasks : Kind[t] = "script"}
Faults == {"none", "lost", "torn"} \cup (IF Scripts = {} THEN {} ELSE Refusal)

\* A finished row: nothing reads its other columns again.
Closed(run) == [NoRow EXCEPT !.task = run.task, !.trigger = run.trigger,
                             !.group = run.group]

Diag(cat, code, ret) == [category |-> cat, code |-> code, retryability |-> ret]
NoDiag == Diag("none", "none", "none")

(***************************************************************************)
(* Task state store.                                                       *)
(***************************************************************************)
Live(w, r) == w.row[r].live
Active(w, t) == {r \in 1..w.used : w.row[r].live /\ w.row[r].task = t}

\* Mutant: the attempt number is not stored with the reservation.
reserveRunFirst(w, t, trigger, attempt, group, ceil) ==
    LET r == w.used + 1
    IN [w EXCEPT
          !.used = r,
          !.row[r] = [task |-> t, trigger |-> trigger, attempt |-> 1,
                      group |-> IF group = 0 THEN r ELSE group,
                      phase |-> "reserved", ceil |-> ceil,
                      idle |-> IdleBudget, req |-> "none", grace |-> 0,
                      live |-> TRUE, owned |-> TRUE, card |-> FALSE]]
\* The partial unique index on unfinished rows refuses a second one.
reserveRun(w, t, trigger, attempt, group, ceil) ==
    LET r == w.used + 1
    IN [w EXCEPT
          !.used = r,
          !.row[r] = [task |-> t, trigger |-> trigger, attempt |-> attempt,
                      group |-> IF group = 0 THEN r ELSE group,
                      phase |-> "reserved", ceil |-> ceil,
                      idle |-> IdleBudget, req |-> "none", grace |-> 0,
                      live |-> TRUE, owned |-> TRUE, card |-> FALSE]]
CanReserve(w, t) == Active(w, t) = {} /\ w.used < MaxRuns

PhaseRank == [reserved |-> 0, preflight |-> 1, queued |-> 2, executing |-> 3,
              cancelling |-> 4]
\* A write that names a phase is refused whole when the run is cancelling or
\* further on; a write of progress alone always lands.
advanceRun(w, r, phase, progress) ==
    LET now == w.row[r].phase IN
    IF ~w.row[r].live
       \/ /\ phase # "same" /\ phase # now
          /\ now = "cancelling" \/ PhaseRank[phase] < PhaseRank[now]
    THEN w
    ELSE [w EXCEPT !.row[r].phase = IF phase = "same" THEN now ELSE phase,
                   !.row[r].idle = IF progress THEN IdleBudget ELSE @]

\* Mutant: the latest request wins, whatever it is.
requestRunTerminalLatest(w, r, kind, lost) ==
    IF lost \/ ~w.row[r].live THEN w
    ELSE [w EXCEPT !.row[r].req = kind, !.row[r].phase = "cancelling",
                   !.row[r].grace = Grace]
\* The first request moves the run to cancelling; only a cancellation may
\* replace a request, and only one that is a deadline.  A write that fails is
\* swallowed, and the callers do not look at the answer.
requestRunTerminal(w, r, kind, lost) ==
    IF \/ lost
       \/ ~w.row[r].live
       \/ w.row[r].req = "cancelled"
       \/ w.row[r].req = "deadline" /\ kind = "deadline"
    THEN w
    ELSE [w EXCEPT !.row[r].req = kind, !.row[r].phase = "cancelling",
                   !.row[r].grace = Grace]

(***************************************************************************)
(* What a settlement does to the task's state.                             *)
(***************************************************************************)
\* n is the time to the next cron occurrence, which is always in the future.
nextRunFromSchedule(s, t, n) ==
    IF t \in Recurring THEN [s EXCEPT !.next = n]
                       ELSE [s EXCEPT !.completed = TRUE]
\* The columns that every closing patch resets; retry_at is not among them.
ClearRetry(s) == [s EXCEPT !.retrying = FALSE, !.retryGroup = 0,
                           !.deferred = NoDeferral]

decideFailurePolicy(d) ==
    CASE d.category = "admission" -> "defer"
      [] d.category = "definition" -> "pause"
      [] d.category = "routing" ->
            IF d.retryability = "permanent" THEN "pause" ELSE "count"
      [] d.category \in {"dependency", "execution", "validation"} ->
            IF d.retryability = "transient" THEN "retry" ELSE "count"
      [] d.category = "interruption" ->
            IF d.code = "cancelled" THEN "clear" ELSE "count"
      [] d.category = "delivery" -> "clear"
      [] d.category = "supervision" ->
            IF d.code \in {"criterion_unevidenced", "contract_uncovered"}
            THEN "pause" ELSE "count"

failurePatch(s, t, n, pauseNow) ==
    LET f == s.fails + 1
        c == [nextRunFromSchedule(ClearRetry(s), t, n) EXCEPT !.fails = f]
    IN IF pauseNow \/ f >= PauseThreshold
       THEN [c EXCEPT !.paused = TRUE, !.cool = Cooldown] ELSE c

Later(hint) == IF hint > DeferDelay THEN hint ELSE DeferDelay
AtMost(x, y) == IF x < y THEN x ELSE y
admissionExhausted(s, hint) ==
    \/ s.deferred.attempts + 1 > MaxDeferrals
    \/ s.deferred.attempts > 0 /\ Later(hint) >= s.deferred.ceil

deferPatch(s, run, hint) ==
    LET d == s.deferred
        first == d.attempts = 0
        ceil == IF first THEN run.ceil ELSE d.ceil
        at == IF hint > 0 THEN AtMost(Later(hint), ceil) ELSE DeferDelay
    IN [s EXCEPT !.next = at,
                 !.deferred = [attempts |-> d.attempts + 1,
                               group |-> IF first THEN run.group ELSE d.group,
                               ceil |-> ceil, retryAt |-> at]]

computeStatePatch(s, run, outcome, d, n, hint) ==
    LET t == run.task
        manual == run.trigger = "manual"
        policy == decideFailurePolicy(d)
        closed == nextRunFromSchedule(ClearRetry(s), t, n)
    IN CASE outcome = "success" ->
              [closed EXCEPT !.fails = 0, !.resumes = 0]
         [] outcome = "noop" -> closed
         [] outcome = "unknown" -> IF manual THEN s ELSE closed
         [] outcome \notin {"success", "noop", "unknown"} ->
              CASE manual /\ policy # "defer" -> s
                [] policy = "defer" ->
                     IF outcome = "failed" /\ d.code = "executor_unavailable"
                     THEN failurePatch(s, t, n, FALSE)
                     ELSE deferPatch(s, run, hint)
                [] policy = "clear" /\ ~manual -> closed
                [] policy = "retry" /\ ~manual ->
                     IF run.attempt = 1
                     THEN [s EXCEPT !.next = RetryDelay,
                                    !.retryAt = RetryDelay,
                                    !.retrying = TRUE,
                                    !.retryGroup = run.group,
                                    !.deferred = NoDeferral]
                     ELSE failurePatch(s, t, n, FALSE)
                [] OTHER -> failurePatch(s, t, n, policy = "pause")

\* A durable cancellation always wins; a deadline request wins unless the
\* fact is older than the request.
normalizeTerminal(run, outcome, d, early) ==
    CASE run.req = "none" -> [outcome |-> outcome, diag |-> d]
      [] run.req = "cancelled" ->
            [outcome |-> "cancelled",
             diag |-> Diag("interruption", "cancelled", "none")]
      [] run.req = "deadline" ->
            IF early THEN [outcome |-> outcome, diag |-> d]
            ELSE [outcome |-> "failed",
                  diag |-> Diag("interruption", "deadline_exceeded", "none")]

(***************************************************************************)
(* The settler's records.  The history row is written first, then the run  *)
(* row is closed together with the state patch.  A result carries whether  *)
(* its caller gave a failure callback, and whether a card or a pause       *)
(* notice.                                                                 *)
(***************************************************************************)
Result(outcome, diag, cascade, card) ==
    [outcome |-> outcome, diag |-> diag, cascade |-> cascade, card |-> card]
Cancelled ==
    Result("cancelled", Diag("interruption", "cancelled", "none"), FALSE, FALSE)
SpawnRefused ==
    Result("failed", Diag("dependency", "executable_missing", "permanent"),
           TRUE, FALSE)

\* Mutant: INSERT OR REPLACE, which always reports a change.
appendRunAgain(w, r) == TRUE
\* INSERT OR IGNORE: whether the run had no history row yet.
appendRunOnce(w, r) == w.hist[r].outcome = "none"

record(w, r, res, early, hint) ==
    LET run == w.row[r]
        spent == /\ res.outcome = "deferred" /\ res.diag.category = "admission"
                 /\ admissionExhausted(w.st[run.task], hint)
    IN [w EXCEPT !.hist[r] =
          normalizeTerminal(run,
              IF spent THEN "failed" ELSE res.outcome,
              IF spent THEN Diag("admission", "executor_unavailable", "none")
                       ELSE res.diag, early)]

Fires(w, r, cascade) ==
    cascade /\ w.hist[r].outcome \in {"failed", "timed_out"}
\* What follows the close and can throw: the writes to the run's card, its
\* pause notice, and the failure cascade.
CanTear(w, r, cascade, card) ==
    (card /\ w.hist[r].outcome # "deferred") \/ Fires(w, r, cascade)

close(w, r, n, hint, cascade) ==
    LET run == w.row[r]
        e == w.hist[r]
    IN [w EXCEPT !.row[r] = Closed(run),
                 !.st[run.task] = computeStatePatch(@, run, e.outcome, e.diag,
                                                    n, hint),
                 !.reported[r] = IF Fires(w, r, cascade) THEN @ + 1 ELSE @]

(***************************************************************************)
(* The queue.  A start hands the run to its adapter.                       *)
(***************************************************************************)
\* Scripts and system handlers are running when start returns; an agent is
\* still preparing, and its execution control is not open yet.  The settlement
\* of a refused script that has an outcome already is a duplicate.
start(w, r, fault) ==
    LET t == w.row[r].task
        h == [w EXCEPT !.handles = @ \cup {r},
                       !.adapter[r] = IF Kind[t] = "agent" THEN "prep"
                                      ELSE "running"]
        q == advanceRun(advanceRun(h, r, "queued", FALSE), r, "executing", TRUE)
    IN CASE Kind[t] = "agent" -> h
         [] Kind[t] = "system" -> q
         [] Kind[t] = "script" /\ fault \notin Refusal ->
              advanceRun(q, r, "same", TRUE)
         [] Kind[t] = "script" /\ fault \in Refusal ->
              [advanceRun(w, r, "queued", FALSE) EXCEPT !.adapter[r] = "gone"]

\* Drop the jobs whose reservation is gone, start the first that has one.
Alive(w, l) == {i \in 1..Len(w.lane[l].pending) : Live(w, w.lane[l].pending[i])}
startNext(w, l, fault) ==
    LET p == w.lane[l].pending
        i == Min(Alive(w, l))
    IN IF w.lane[l].current # 0 THEN w
       ELSE IF Alive(w, l) = {} THEN [w EXCEPT !.lane[l].pending = <<>>]
       ELSE start([w EXCEPT !.lane[l] = [current |-> p[i],
                       pending |-> SubSeq(p, i + 1, Len(p))]], p[i], fault)

\* The spawn of a script throws and its start settles it.  If that settlement
\* throws as well, the queue settles it again, a duplicate, and the handle
\* stays; either way the lane goes on with the next job.
refuse(w, r, n, fault) ==
    LET h == record(w, r, SpawnRefused, FALSE, 0)
        thrown == fault = "thrown" /\ CanTear(h, r, TRUE, FALSE)
    IN [close(h, r, n, 0, ~thrown)
          EXCEPT !.adapter[r] = "gone",
                 !.handles = IF thrown THEN @ \cup {r} ELSE @ \ {r}]

\* At most one script is refused in a step and lane.
processLane(w, l, n, fault) ==
    LET r == w.lane[l].pending[Min(Alive(w, l))]
    IN IF /\ fault \in Refusal
          /\ w.lane[l].current = 0
          /\ Alive(w, l) # {}
          /\ Kind[w.row[r].task] = "script"
          /\ appendRunOnce(w, r)
       THEN startNext(refuse(w, r, n, fault), l, "none")
       ELSE startNext(w, l, fault)

\* The terminal event: the coordinator forgets its handle, then the queue
\* frees the lane the run held, or pumps both lanes when it held none.
emitTerminal(w, r, n, fault) ==
    LET h == [w EXCEPT !.handles = @ \ {r}]
        held == {l \in Lanes : w.lane[l].current = r}
    IN IF held = {}
       THEN processLane(processLane(h, "manual", n, fault), "scheduled", n, fault)
       ELSE LET l == CHOOSE x \in held : TRUE
            IN processLane([h EXCEPT !.lane[l].current = 0], l, n, fault)

(***************************************************************************)
(* The settler.  A lost state write is swallowed and the settler takes its *)
(* late branch.  An exception after the close skips the terminal event:    *)
(* the caller settles again, which is a duplicate, or gives up.            *)
(***************************************************************************)
closeAndTell(w, r, n, hint, cascade, card, fault) ==
    IF fault = "torn" /\ CanTear(w, r, cascade, card)
    THEN [close(w, r, n, hint, FALSE) EXCEPT !.torn = @ \cup {r}]
    ELSE emitTerminal(close(w, r, n, hint, cascade), r, n, fault)

settleRunOnce(w, r, res, early, hint, n, fault) ==
    LET h == record(w, r, res, early, hint)
    IN CASE ~appendRunOnce(w, r) -> w
         [] appendRunOnce(w, r) /\ (fault = "lost" \/ ~w.row[r].live) ->
              emitTerminal(h, r, n, fault)
         [] OTHER -> closeAndTell(h, r, n, hint, res.cascade, res.card, fault)

\* Mutant: the repair tells nobody that the run is over.
settleRunFromHistoryQuiet(w, r, n, fault) ==
    IF fault = "lost" THEN w ELSE close(w, r, n, 0, FALSE)
\* Repair of the second half from the history row, which is authoritative and
\* names the card of an agent's run.
settleRunFromHistory(w, r, n, fault) ==
    IF fault = "lost" THEN w
    ELSE closeAndTell(w, r, n, 0, FALSE, Kind[w.row[r].task] = "agent", fault)

\* Mutant: the deadline source clears the reservation itself.
settleExpiredRunClears(w, r, n, fault) ==
    emitTerminal([w EXCEPT !.row[r] = Closed(@),
                           !.st[w.row[r].task] =
                               failurePatch(@, w.row[r].task, n, FALSE)], r, n,
                 fault)
settleExpiredRun(w, r, n, fault) ==
    settleRunOnce(w, r,
        Result("failed", Diag("interruption", "deadline_exceeded", "none"),
               TRUE, FALSE), FALSE, 0, n, fault)

Queued(w, t) ==
    \E l \in Lanes :
       \/ w.lane[l].current # 0 /\ w.row[w.lane[l].current].task = t
       \/ \E i \in 1..Len(w.lane[l].pending) :
             w.row[w.lane[l].pending[i]].task = t

\* Admission to the queue with a reservation.  A task that already has a job
\* there is refused and the reservation is settled as cancelled.
enqueue(w, r, n, fault) ==
    LET t == w.row[r].task
        l == IF w.row[r].trigger = "manual" THEN "manual" ELSE "scheduled"
        p == w.lane[l].pending
        later == {j \in 1..Len(p) : Rank[w.row[p[j]].task] > Rank[t]}
        i == Min(later \cup {Len(p) + 1})
    IN IF Queued(w, t)
       THEN settleRunOnce(w, r, Cancelled, FALSE, 0, n, fault)
       ELSE processLane([w EXCEPT !.lane[l].pending =
              SubSeq(p, 1, i - 1) \o <<r>> \o SubSeq(p, i, Len(p))], l, n, fault)

\* A caller without a reservation is refused before one is taken.
enqueueUnreserved(w, t, trigger, n, fault) ==
    IF Queued(w, t) \/ ~CanReserve(w, t) THEN w
    ELSE enqueue(reserveRun(w, t, trigger,
                    IF trigger # "manual" /\ w.st[t].retrying THEN 2 ELSE 1,
                    0, Ceiling), w.used + 1, n, fault)

-----------------------------------------------------------------------------
(***************************************************************************)
(* Actions.  A fault of the step is charged to the fault budget.           *)
(***************************************************************************)
Fault(fault) == IF fault = "none" THEN UNCHANGED faults
                ELSE faults < MaxFaults /\ faults' = faults + 1
Up == mode = "up" /\ UNCHANGED <<mode, todo>>

\* Time passes for every stored instant.
Tick ==
    /\ row' = [r \in RunIds |->
         IF ~row[r].live THEN row[r]
         ELSE [row[r] EXCEPT !.ceil = Countdown(@, 0),
                             !.idle = Countdown(@, 0),
                             !.grace = Countdown(@, 0)]]
    /\ st' = [t \in Tasks |->
         [st[t] EXCEPT !.next = Countdown(@, -1 - StaleAfter),
                       !.retryAt = Countdown(@, 0),
                       !.cool = Countdown(@, 0),
                       !.deferred.ceil = Countdown(@, 0),
                       !.deferred.retryAt = Countdown(@, 0)]]
    /\ UNCHANGED <<used, hist, lane, handles, adapter, reported, torn, acked,
                   mode, todo, faults>>

\* decideSchedule up to the due test; an absent next run counts as due.
Due(t) ==
    /\ ~st[t].paused
    /\ ~st[t].completed
    /\ Active(World, t) = {}
    /\ st[t].next = Never \/ st[t].next <= 0
Stale(t) ==
    /\ st[t].deferred.attempts = 0
    /\ t \in Recurring
    /\ st[t].next # Never
    /\ st[t].next < -StaleAfter

\* checkCron on an occurrence missed for too long: skip to the next one.
SkipStale(t, n) ==
    /\ Up
    /\ Due(t) /\ Stale(t)
    /\ st' = [st EXCEPT ![t].next = n]
    /\ UNCHANGED <<row, used, hist, lane, handles, adapter, reported, torn,
                   acked, faults>>

\* checkCron on a due task, then the tick's enqueue of the reservation.
Admit(t, n, fault) ==
    /\ Up
    /\ Due(t) /\ ~Stale(t)
    /\ CanReserve(World, t) /\ fault # "torn"
    /\ LET d == st[t].deferred
           again == st[t].retrying
           w == reserveRun(World, t, IF again THEN "retry" ELSE "schedule",
                   IF again THEN 2 ELSE 1,
                   IF d.attempts > 0 THEN d.group
                   ELSE IF again THEN st[t].retryGroup ELSE 0,
                   IF d.attempts > 0 THEN d.ceil ELSE Ceiling)
       IN Becomes(enqueue(w, w.used, n, fault))
    /\ Fault(fault)
    /\ UNCHANGED acked

\* The operator's "run now".
RunManual(t, n, fault) ==
    /\ Up /\ "run" \in Commands
    /\ ~Queued(World, t) /\ CanReserve(World, t) /\ fault # "torn"
    /\ Becomes(enqueueUnreserved(World, t, "manual", n, fault))
    /\ Fault(fault)
    /\ UNCHANGED acked

\* checkCron on a paused task whose cooldown is over.
AutoResume(t, n) ==
    /\ Up
    /\ st[t].paused /\ Active(World, t) = {} /\ st[t].cool = 0
    /\ st[t].resumes < MaxResumes
    /\ st' = [st EXCEPT ![t] = [FreshTask(IF t \in Recurring THEN n ELSE Never)
                 EXCEPT !.resumes = st[t].resumes + 1,
                        !.completed = t \notin Recurring]]
    /\ UNCHANGED <<row, used, hist, lane, handles, adapter, reported, torn,
                   acked, faults>>

\* The operator's pause, resume and trigger commands.
PauseTask(t) ==
    /\ Up /\ "pause" \in Commands
    /\ st' = [st EXCEPT ![t].paused = TRUE, ![t].cool = Cooldown]
    /\ UNCHANGED <<row, used, hist, lane, handles, adapter, reported, torn,
                   acked, faults>>
ResumeTask(t, n) ==
    /\ Up /\ "resume" \in Commands
    /\ st[t].paused /\ Active(World, t) = {}
    /\ st' = [st EXCEPT ![t] =
                [nextRunFromSchedule(ClearRetry(st[t]), t, n)
                   EXCEPT !.paused = FALSE, !.cool = 0, !.fails = 0,
                          !.retryAt = Never]]
    /\ UNCHANGED <<row, used, hist, lane, handles, adapter, reported, torn,
                   acked, faults>>
TriggerNow(t) ==
    /\ Up /\ "trigger" \in Commands
    /\ st' = [st EXCEPT ![t].next = 0, ![t].paused = FALSE, ![t].cool = 0,
                        ![t].fails = 0]
    /\ UNCHANGED <<row, used, hist, lane, handles, adapter, reported, torn,
                   acked, faults>>

(***************************************************************************)
(* Stopping a run.  A script child or a system handler can be told as soon *)
(* as it has a handle, an agent only once its execution control is open.   *)
(***************************************************************************)
signalTerminal(w, r) ==
    IF w.adapter[r] = "running" THEN [w EXCEPT !.adapter[r] = "told"] ELSE w

\* The operator is answered "requested" and the adapter is told, stored or not.
Cancel(r, fault) ==
    /\ Up /\ "cancel" \in Commands
    /\ r \in handles
    /\ fault \in {"none", "lost"}
    /\ Becomes(signalTerminal(
         requestRunTerminal(World, r, "cancelled", fault = "lost"), r))
    /\ acked' = IF hist[r].outcome = "none" /\ row'[r].req = "cancelled"
                THEN acked \cup {r} ELSE acked
    /\ Fault(fault)

deadlineExpired(w, r, lost) ==
    LET q == requestRunTerminal(w, r, "deadline", lost)
    IN IF r \in w.handles
       THEN signalTerminal(advanceRun(q, r, "same", TRUE), r) ELSE q

GraceOver(r) == row[r].phase = "cancelling" /\ row[r].grace = 0
RunDeadlineDue ==
    \E r \in RunIds : row[r].live /\ row[r].task \in Listed /\
        (row[r].ceil = 0 \/ row[r].idle = 0 \/ GraceOver(r))

\* Mutant: an adapter that was asked to stop is waited for.
WakeDeadlineNoGrace(t, n, fault) ==
    /\ Up
    /\ RunDeadlineDue
    /\ \E r \in Active(World, t) :
         Becomes(
           IF hist[r].outcome # "none" THEN settleRunFromHistory(World, r, n, fault)
           ELSE IF row[r].ceil = 0 \/ row[r].idle = 0
                THEN deadlineExpired(World, r, fault = "lost")
           ELSE World)
    /\ Fault(fault)
    /\ UNCHANGED acked
\* The run-deadline source looks at one task's live run.
WakeDeadline(t, n, fault) ==
    /\ Up
    /\ RunDeadlineDue
    /\ \E r \in Active(World, t) :
         Becomes(
           IF hist[r].outcome # "none" THEN settleRunFromHistory(World, r, n, fault)
           ELSE IF GraceOver(r) THEN settleExpiredRun(World, r, n, fault)
           ELSE IF row[r].ceil = 0 \/ row[r].idle = 0
                THEN deadlineExpired(World, r, fault = "lost")
           ELSE World)
    /\ Fault(fault)
    /\ UNCHANGED acked

(***************************************************************************)
(* Adapters.  A told adapter may still finish on its own, or never.        *)
(***************************************************************************)
Gone(w, r) == [w EXCEPT !.adapter[r] = "gone"]
Progress(r) ==
    /\ Up
    /\ r \in handles /\ adapter[r] \in {"running", "told"}
    /\ Becomes(advanceRun(World, r, "same", TRUE))
    /\ UNCHANGED <<acked, faults>>

\* Exit or spawn error of a script.  Once the handle is released nobody
\* listens; otherwise settle, release, and enqueue the gate's follow-up.  An
\* exception here ends the process, which is a crash after the settlement.
ScriptResults ==
    {Result("success", NoDiag, TRUE, FALSE),
     Result("failed", Diag("execution", "process_exit", "none"), TRUE, FALSE),
     SpawnRefused}
ScriptEnds(r, res, gate, n, fault) ==
    /\ Up
    /\ Kind[row[r].task] = "script"
    /\ adapter[r] \in {"running", "told"}
    /\ fault # "torn"
    /\ gate => res.outcome = "success" /\ row[r].task \in Gated
    /\ IF r \notin handles
       THEN Becomes(Gone(World, r))
       ELSE LET w == settleRunOnce(Gone(World, r), r, res, FALSE, 0, n, fault)
                x == [w EXCEPT !.handles = @ \ {r}]
            IN Becomes(IF gate THEN enqueueUnreserved(x, FollowUp, "schedule", n,
                                                 fault)
                               ELSE x)
    /\ Fault(fault)
    /\ UNCHANGED acked

SystemResults ==
    {Result("success", NoDiag, FALSE, FALSE),
     Result("noop", NoDiag, FALSE, FALSE),
     Result("failed", Diag("execution", "process_exit", "none"), TRUE, FALSE),
     Result("deferred", Diag("admission", "executor_unavailable", "transient"),
            FALSE, FALSE)}
SystemEnds(r, res, hint, n, fault) ==
    /\ Up
    /\ Kind[row[r].task] = "system"
    /\ adapter[r] \in {"running", "told"}
    /\ Becomes(settleRunOnce(Gone(World, r), r, res, FALSE, hint, n, fault))
    /\ Fault(fault)
    /\ UNCHANGED acked

\* Before dispatch an agent run is deferred (the user is active), found to be
\* badly defined (by the preflight, or with the failure callback by the check
\* before it), fails with an exception, or is handed to a skill session; else
\* it goes on: control opened, queued, then executing.
PrepResults(r) ==
    {Result("definition_failed",
            Diag("definition", "invalid_definition", "permanent"), told, told) :
        told \in BOOLEAN}
    \cup {Result("success", NoDiag, TRUE, TRUE),
          Result("failed", Diag("execution", "model_error", "none"), TRUE, TRUE)}
    \cup (IF row[r].trigger = "schedule"
          THEN {Result("deferred",
                       Diag("admission", "session_capacity", "transient"),
                       FALSE, FALSE)}
          ELSE {})
AgentPrepEnds(r, res, n, fault) ==
    /\ Up
    /\ adapter[r] = "prep"
    /\ Becomes(settleRunOnce(Gone(World, r), r, res, FALSE, 0, n, fault))
    /\ Fault(fault)
    /\ UNCHANGED acked
AgentStarts(r) ==
    /\ Up
    /\ adapter[r] = "prep"
    /\ LET w == advanceRun(advanceRun(World, r, "queued", FALSE), r,
                           "executing", TRUE)
       IN Becomes([w EXCEPT !.adapter[r] = "running",
                            !.row[r].card = row[r].live
                                            /\ row[r].task \in Projects])
    /\ UNCHANGED <<acked, faults>>

AgentResults ==
    {Result("success", NoDiag, TRUE, TRUE),
     Result("failed", Diag("execution", "model_error", "none"), TRUE, TRUE),
     Result("failed", Diag("execution", "model_error", "transient"), TRUE, TRUE),
     Result("deferred", Diag("admission", "type_busy", "transient"), TRUE, TRUE)}
\* After its own deadline timer has fired the runner takes only a result
\* whose fact is older than the deadline; a deferral carries no fact time.
AgentEnds(r, res, early, hint, n, fault) ==
    /\ Up
    /\ Kind[row[r].task] = "agent"
    /\ adapter[r] \in {"running", "told", "expired"}
    /\ adapter[r] = "expired" => early
    /\ early => res.outcome # "deferred"
    /\ Becomes(settleRunOnce(Gone(World, r), r, res, early, hint, n, fault))
    /\ Fault(fault)
    /\ UNCHANGED acked
AgentDeadline(r, fault) ==
    /\ Up
    /\ Kind[row[r].task] = "agent"
    /\ adapter[r] \in {"running", "told"}
    /\ row[r].live /\ row[r].ceil = 0
    /\ fault \in {"none", "lost"}
    /\ Becomes([requestRunTerminal(World, r, "deadline", fault = "lost")
                  EXCEPT !.adapter[r] = "expired"])
    /\ Fault(fault)
    /\ UNCHANGED acked
AgentTimedOut(r, n, fault) ==
    /\ Up
    /\ adapter[r] = "expired"
    /\ Becomes(settleRunOnce(Gone(World, r), r,
          Result("timed_out", Diag("interruption", "timed_out", "none"),
                 TRUE, TRUE), FALSE, 0, n, fault))
    /\ Fault(fault)
    /\ UNCHANGED acked

\* The history append throws: the adapter is gone and nothing is recorded.
AppendFails(r) ==
    /\ Up
    /\ adapter[r] \in {"running", "told"}
    /\ Becomes(Gone(World, r))
    /\ Fault("lost")
    /\ UNCHANGED acked

(***************************************************************************)
(* Crash and restart.  A crash inside a settlement is a lost state write   *)
(* followed by the crash.  Recovery runs before anything is admitted.      *)
(***************************************************************************)
Crash ==
    /\ mode # "down" /\ faults < MaxFaults
    /\ mode' = "down" /\ todo' = {}
    /\ faults' = faults + 1
    /\ lane' = [l \in Lanes |-> [current |-> 0, pending |-> <<>>]]
    /\ handles' = {} /\ torn' = {}
    /\ adapter' = [r \in RunIds |->
                     IF adapter[r] = "none" THEN "none" ELSE "gone"]
    /\ row' = [r \in RunIds |-> [row[r] EXCEPT !.owned = FALSE]]
    /\ UNCHANGED <<st, used, hist, reported, acked>>
Boot ==
    /\ mode = "down"
    /\ todo' = {t \in Listed : Active(World, t) # {}}
    /\ mode' = IF todo' = {} THEN "up" ELSE "recovering"
    /\ UNCHANGED <<st, row, used, hist, lane, handles, adapter, reported, torn,
                   acked, faults>>

\* evidence is the project card's status, provable whether the old owner can
\* be shown to be dead.
recoverRun(w, r, evidence, provable, n, fault) ==
    LET t == w.row[r].task IN
    IF w.hist[r].outcome # "none" THEN settleRunFromHistory(w, r, n, fault)
    ELSE IF w.row[r].card /\ evidence \in {"done", "delivered"}
         THEN settleRunOnce(w, r,
                Result("success", NoDiag, evidence = "delivered", TRUE),
                FALSE, 0, n, fault)
    ELSE IF w.row[r].card /\ evidence = "failed"
         THEN settleRunOnce(w, r,
                Result("failed",
                    Diag("interruption", "restart_interrupted", "none"),
                    TRUE, TRUE), FALSE, 0, n, fault)
    ELSE IF w.row[r].ceil = 0 THEN settleExpiredRun(w, r, n, fault)
    ELSE IF w.row[r].card /\ t \in Projects THEN enqueue(w, r, n, fault)
    ELSE IF ~w.row[r].owned /\ provable
         THEN settleRunOnce(w, r,
                Result("unknown", Diag("interruption", "owner_lost", "transient"),
                       FALSE, FALSE), FALSE, 0, n, fault)
    ELSE w
Recover(t, evidence, provable, n, fault) ==
    /\ mode = "recovering" /\ t \in todo
    /\ fault \in {"none", "lost"}
    /\ \E r \in Active(World, t) :
         Becomes(recoverRun(World, r, evidence, provable, n, fault))
    /\ todo' = todo \ {t}
    /\ mode' = IF todo' = {} THEN "up" ELSE "recovering"
    /\ Fault(fault)
    /\ UNCHANGED acked

-----------------------------------------------------------------------------
Init ==
    /\ st \in {f \in [Tasks -> {FreshTask(n) : n \in 1..Period \cup {Never}}] :
                 \A t \in Tasks : f[t].next = Never <=> t \notin Listed}
    /\ row = [r \in RunIds |-> NoRow]
    /\ used = 0
    /\ hist = [r \in RunIds |-> [outcome |-> "none", diag |-> NoDiag]]
    /\ lane = [l \in Lanes |-> [current |-> 0, pending |-> <<>>]]
    /\ handles = {}
    /\ adapter = [r \in RunIds |-> "none"]
    /\ reported = [r \in RunIds |-> 0]
    /\ torn = {} /\ acked = {}
    /\ mode = "up" /\ todo = {}
    /\ faults = 0

Hints == {0, DeferDelay + 1}
Evidence == {"open", "done", "delivered", "failed"}
TaskStep ==
    \E t \in Listed, n \in 1..Period :
       \/ SkipStale(t, n)
       \/ \E fault \in Faults : Admit(t, n, fault) \/ RunManual(t, n, fault)
       \/ AutoResume(t, n)
       \/ PauseTask(t)
       \/ ResumeTask(t, n)
       \/ TriggerNow(t)
AdapterStep ==
    \E r \in 1..used, n \in 1..Period, fault \in Faults :
       \/ \E res \in ScriptResults, gate \in BOOLEAN :
             ScriptEnds(r, res, gate, n, fault)
       \/ \E res \in SystemResults, hint \in Hints :
             SystemEnds(r, res, hint, n, fault)
       \/ \E res \in PrepResults(r) : AgentPrepEnds(r, res, n, fault)
       \/ \E res \in AgentResults, early \in BOOLEAN, hint \in Hints :
             AgentEnds(r, res, early, hint, n, fault)
       \/ AgentTimedOut(r, n, fault)
RunStep ==
    \E r \in 1..used :
       \/ \E fault \in Faults : Cancel(r, fault) \/ AgentDeadline(r, fault)
       \/ Progress(r)
       \/ AgentStarts(r)
       \/ AppendFails(r)
Wake(t) == \E n \in 1..Period, fault \in Faults : WakeDeadline(t, n, fault)
RecoverTask(t) ==
    \E e \in Evidence, provable \in BOOLEAN, n \in 1..Period,
       fault \in Faults : Recover(t, e, provable, n, fault)
Next ==
    \/ Tick \/ Crash \/ Boot
    \/ TaskStep \/ AdapterStep \/ RunStep
    \/ \E t \in Listed : Wake(t) \/ RecoverTask(t)

\* Time passes, the wake scheduler serves its sources (see
\* LifecycleWakeScheduler) and the supervisor restarts a dead process.
\* Nothing is assumed of adapters or operators.  Weak fairness of a wake and
\* of recovery is written out, with the states in which they have work to do
\* in the place of ENABLED.
WakeReady(t) ==
    /\ mode = "up" /\ RunDeadlineDue
    /\ \E r \in Active(World, t) :
          \/ hist[r].outcome # "none"
          \/ GraceOver(r)
          \/ row[r].req = "none" /\ (row[r].ceil = 0 \/ row[r].idle = 0)
Fairness ==
    /\ WF_vars(Tick) /\ WF_vars(Boot)
    /\ \A t \in Listed :
         /\ []<>~WakeReady(t) \/ []<><<Wake(t)>>_vars
         /\ []<>(t \notin todo) \/ []<><<RecoverTask(t)>>_vars
Spec == Init /\ [][Next]_vars
FairSpec == Spec /\ Fairness

-----------------------------------------------------------------------------
(***************************************************************************)
(* Properties.                                                             *)
(***************************************************************************)
\* A lane is held by an unfinished run, or by one whose settlement threw after
\* the close: whatever else closes the run (its adapter, the deadline source, a
\* repair from history, a late callback, a refused start) also frees its lane, a
\* lost write cannot wedge the cap-1 queue, and a start that throws cannot either
\* (CronQueue.onRunTerminal, processLane, settleRunOnce).
LaneHoldsLiveRun ==
    \A l \in Lanes : lane[l].current # 0 =>
        row[lane[l].current].live \/ lane[l].current \in torn

\* No unfinished row is closed without its history row: a crash between the
\* two writes of a settlement can lose the second, never the first, and the
\* task's streak, retry and schedule are never patched for a run that left no
\* record (the append-first order of settleRunOnce).
ClosedHasHistory ==
    \A r \in 1..used : ~row[r].live => hist[r].outcome # "none"

\* A cancellation that was acknowledged and stored before the run has an outcome
\* is what it ends as, through races with its own result, the deadline, a crash and
\* recovery (requestRunTerminal, normalizeTerminal).
CancelIsHonoured ==
    \A r \in acked : hist[r].outcome \in {"none", "cancelled"}

\* One run group has at most one execution retry: of the runs that share a
\* group at most two ended in anything but a deferral, across restarts,
\* deferrals of the retry and manual runs in between (computeStatePatch).
OneRetryPerGroup ==
    \A g \in 1..used :
       Cardinality({r \in 1..used : /\ row[r].group = g
                                    /\ hist[r].outcome \notin
                                         {"none", "deferred"}}) <= 2

\* The failure cascade fires at most once for a run, and only for one whose
\* recorded outcome is a failure: a late or duplicate settlement by a zombie
\* adapter stays silent (settleRunOnce's two guards before onFailure).
FailureReportedOnce ==
    \A r \in RunIds :
       /\ reported[r] <= 1
       /\ reported[r] = 1 => hist[r].outcome \in {"failed", "timed_out"}

\* What the history says of a run never changes (appendRunOnce), and a closed
\* run is never open again, whoever calls the settler later.
SettledStays ==
    [][\A r \in RunIds :
         /\ hist[r].outcome # "none" => hist'[r] = hist[r]
         /\ r <= used /\ ~row[r].live => ~row'[r].live]_vars

\* Every reservation of a task in the store is settled in the end, with an
\* adapter that hangs, dies or ignores its cancellation, a job that is never
\* dequeued, a lost state write or a crash (run-deadline source, grace
\* fallback, recovery).
EveryRunSettles ==
    \A r \in RunIds :
       (row[r].live /\ row[r].task \in Listed) ~> ~row[r].live
=============================================================================
