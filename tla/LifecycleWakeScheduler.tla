----------------------- MODULE LifecycleWakeScheduler -----------------------
(***************************************************************************)
(* The process-wide due-time scheduler: one timer armed for the earliest   *)
(* durable due item of its sources, and scans that wake the sources with   *)
(* overdue items.                                                          *)
(*                                                                         *)
(* The code is single threaded; what interleaves are the segments between  *)
(* two awaits.  `stack' holds the scans whose segment is executing right   *)
(* now: source.wakeDue is called synchronously and may change durable      *)
(* state, which calls sourceChanged, which may start a second scan inside  *)
(* the first one, before the first one's promise was stored in _running.   *)
(* While the stack is not empty nothing but its top moves.                 *)
(***************************************************************************)
EXTENDS Integers, Sequences, FiniteSets, FiniteSetsExt

CONSTANTS
    Sources,        \* LifecycleDueSourceId
    Late,           \* the sources registered and disposed by the reconciler
    ScanIds,        \* bound: concurrent invocations of scanPasses
    MaxScanPasses, MaxTimeout, RearmTolerance,
    Horizon,        \* bound: due instants are 1..Horizon
    MaxItems,       \* bound: durable items at a time
    MaxTime,        \* bound: the clock stops here
    MaxEnv          \* bound: durable changes, registrations and listing faults

NoTime == -1
NoScan == "none"

ASSUME SchedulerAssumption ==
    /\ Late \subseteq Sources
    /\ NoScan \notin ScanIds
    /\ MaxScanPasses \in Nat \ {0} /\ MaxTimeout \in Nat \ {0}
    /\ RearmTolerance \in Nat \ {0}
    /\ Horizon \in Nat /\ MaxTime \in Nat /\ Horizon <= MaxTime
    /\ MaxItems \in Nat /\ MaxEnv \in Nat

VARIABLES
    now,
    items,      \* durable due items <<source, instant>> of all sources
    registered, \* keys of the sources map
    mode,       \* "boot" until start(), "started", "stopped" after stop()
    timer,      \* [armedAt, fireAt], both NoTime while no timer is set
    running,    \* _running: the scan whose promise it holds, or NoScan
    rescan,     \* _rescan
    waking,     \* sources with a wakeDue in progress
    scans,      \* the invocations of scanPasses
    stack,      \* scans executing synchronously, innermost last
    env,        \* environment steps used so far
    seen,       \* history: overdue items wakeDue was called for
    unlisted    \* history: sources whose listing threw at the last arming

durableVars == <<items, registered, env>>
vars == <<now, items, registered, mode, timer, running, rescan, waking, scans,
          stack, env, seen, unlisted>>

----------------------------------------------------------------------------
Items == Sources \X (1..Horizon)
NoTimer == [armedAt |-> NoTime, fireAt |-> NoTime]
\* pc: "loop" executes the for loop of wakeOverdue, "called" is inside the
\* synchronous part of wakeDue(cur), "awaiting" waits for wakeDue(cur),
\* "yielded" waits for the promise of wakeOverdue, "armed" has returned and
\* waits for the finally handler that clears _running.
Scan == [pc: {"free", "loop", "called", "awaiting", "yielded", "armed"},
         todo: SUBSET Sources, cur: Sources \cup {NoScan}, at: Nat,
         passes: 0..MaxScanPasses, stored: BOOLEAN, boot: BOOLEAN]
Free == [pc |-> "free", todo |-> {}, cur |-> NoScan, at |-> 0, passes |-> 0,
         stored |-> FALSE, boot |-> FALSE]

Top == stack[Len(stack)]
Executing(i) == stack # <<>> /\ Top = i
Pop == SubSeq(stack, 1, Len(stack) - 1)
\* Code outside the scheduler runs: between segments, or inside wakeDue.
OtherCodeRuns == stack # <<>> => scans[Top].pc = "called"
\* Timer callbacks run when the stack and the microtask queue are empty.
MacrotaskRuns == stack = <<>> /\ \A i \in ScanIds : scans[i].pc \notin {"yielded", "armed"}
Spend == env < MaxEnv /\ env' = env + 1

overdueItems(s, t) == {x \in items : x[1] = s /\ x[2] <= t}

Init ==
    /\ now = 0 /\ items \in {{}} \cup {{x} : x \in Items}
    /\ registered = Sources \ Late /\ mode = "boot"
    /\ timer = NoTimer /\ running = NoScan /\ rescan = FALSE /\ waking = {}
    /\ scans = [i \in ScanIds |-> Free] /\ stack = <<>>
    /\ env = 0 /\ seen = {} /\ unlisted = {}

----------------------------------------------------------------------------
\* Starting a scan; sources is iterated live, so a pass begins with what is
\* registered and Register adds to it.

\* scanPasses() up to its first await: _running is stored only on its return.
BeginScan(isBoot, regs) ==
    \E i \in ScanIds :
        /\ scans[i].pc = "free"
        /\ scans' = [scans EXCEPT ![i] = [Free EXCEPT !.pc = "loop", !.todo = regs,
                                                      !.at = now, !.boot = isBoot]]
        /\ stack' = Append(stack, i)
        /\ rescan' = FALSE

\* scan(): mark the running scan dirty or begin a new one.
scanOver(regs) ==
    IF running # NoScan
    THEN rescan' = TRUE /\ UNCHANGED <<scans, stack>>
    ELSE BeginScan(FALSE, regs)

Ignored == UNCHANGED <<scans, stack, rescan>>

sourceChanged(s) ==
    IF mode # "started" \/ s \notin registered THEN Ignored
    ELSE scanOver(registered)

\* A durable mutation of source s, with the notification every writer sends.
Change(s) ==
    /\ OtherCodeRuns /\ Spend
    /\ \/ \E t \in 1..Horizon : /\ <<s, t>> \notin items
                                /\ Cardinality(items) < MaxItems
                                /\ items' = items \cup {<<s, t>>}
       \/ \E x \in items : x[1] = s /\ items' = items \ {x}
    /\ seen' = seen \cap items'
    /\ sourceChanged(s)
    /\ UNCHANGED <<now, registered, mode, timer, running, waking, unlisted>>

Register(s) ==
    /\ OtherCodeRuns /\ Spend
    /\ s \in Late \ registered
    /\ registered' = registered \cup {s}
    /\ LET visited == [i \in ScanIds |->
             IF scans[i].pc \in {"loop", "called", "awaiting"}
             THEN [scans[i] EXCEPT !.todo = @ \cup {s}] ELSE scans[i]]
       IN  IF mode # "started" THEN scans' = visited /\ UNCHANGED <<stack, rescan>>
           ELSE IF running # NoScan
           THEN scans' = visited /\ rescan' = TRUE /\ UNCHANGED stack
           ELSE \E i \in ScanIds :
                  /\ scans[i].pc = "free"
                  /\ scans' = [visited EXCEPT ![i] =
                        [Free EXCEPT !.pc = "loop", !.todo = registered', !.at = now]]
                  /\ stack' = Append(stack, i) /\ rescan' = FALSE
    /\ UNCHANGED <<now, items, mode, timer, running, waking, seen, unlisted>>

\* The disposer scans even before start().
Unregister(s) ==
    /\ stack = <<>> /\ Spend
    /\ s \in Late \cap registered
    /\ registered' = registered \ {s}
    /\ IF mode = "stopped" THEN Ignored ELSE scanOver(registered')
    /\ UNCHANGED <<now, items, mode, timer, running, waking, seen, unlisted>>

\* start(): the boot scan, or a rescan by the scan a heartbeat got in first.
Start ==
    /\ stack = <<>> /\ mode = "boot"
    /\ mode' = "started"
    /\ IF running # NoScan THEN rescan' = TRUE /\ UNCHANGED <<scans, stack>>
       ELSE BeginScan(TRUE, registered)
    /\ UNCHANGED <<now, timer, running, waking, durableVars, seen, unlisted>>

\* stop(): scans in progress are not interrupted.
Stop ==
    /\ stack = <<>> /\ mode = "started"
    /\ mode' = "stopped" /\ rescan' = FALSE /\ timer' = NoTimer /\ waking' = {}
    /\ UNCHANGED <<now, running, scans, stack, durableVars, seen, unlisted>>

\* Mutant: no safety net.
safetyScanNever ==
    FALSE /\ UNCHANGED vars

\* The heartbeat's safety scan: only when nothing runs and nothing is armed.
safetyScan ==
    /\ MacrotaskRuns /\ mode # "stopped" /\ running = NoScan /\ timer = NoTimer
    /\ BeginScan(FALSE, registered)
    /\ UNCHANGED <<now, mode, timer, running, waking, durableVars, seen, unlisted>>

TimerFires ==
    /\ MacrotaskRuns /\ timer # NoTimer /\ timer.fireAt <= now
    /\ timer' = NoTimer
    /\ scanOver(registered)
    /\ UNCHANGED <<now, mode, running, waking, durableVars, seen, unlisted>>

----------------------------------------------------------------------------
\* The segments of a scan.

\* At the first suspension scanPasses() returns and its promise is stored.
Suspend(i, s) ==
    /\ scans' = [scans EXCEPT ![i] = [s EXCEPT !.stored = TRUE]]
    /\ stack' = Pop
    /\ running' = IF scans[i].stored THEN running ELSE i

\* Mutant: a source with a wakeDue in progress is woken again.
VisitUnguarded(i) ==
    /\ Executing(i) /\ scans[i].pc = "loop"
    /\ \E s \in scans[i].todo \cap registered :
          /\ overdueItems(s, scans[i].at) # {}
          /\ scans' = [scans EXCEPT ![i].pc = "called", ![i].cur = s, ![i].todo = @ \ {s}]
          /\ waking' = waking \cup {s}
          /\ seen' = seen \cup overdueItems(s, now)
    /\ UNCHANGED <<now, mode, timer, running, rescan, stack, durableVars, unlisted>>

\* One source of the for loop: skipped while it is being woken or has nothing
\* overdue at the instant the pass began, called otherwise.
Visit(i) ==
    /\ Executing(i) /\ scans[i].pc = "loop"
    /\ \E s \in scans[i].todo \cap registered :
          IF s \in waking \/ overdueItems(s, scans[i].at) = {}
          THEN /\ scans' = [scans EXCEPT ![i].todo = @ \ {s}]
               /\ UNCHANGED <<waking, seen>>
          ELSE /\ scans' = [scans EXCEPT ![i].pc = "called", ![i].cur = s,
                                         ![i].todo = @ \ {s}]
               /\ waking' = waking \cup {s}
               /\ seen' = seen \cup overdueItems(s, now)
    /\ UNCHANGED <<now, mode, timer, running, rescan, stack, durableVars, unlisted>>

\* listDueItems throws: the source counts as having nothing overdue.
ListingThrows(i) ==
    /\ Executing(i) /\ scans[i].pc = "loop" /\ Spend
    /\ \E s \in scans[i].todo \cap registered :
          scans' = [scans EXCEPT ![i].todo = @ \ {s}]
    /\ UNCHANGED <<now, mode, timer, running, rescan, waking, stack, items, registered,
                   seen, unlisted>>

WakeReturns(i) ==
    /\ Executing(i) /\ scans[i].pc = "called"
    /\ Suspend(i, [scans[i] EXCEPT !.pc = "awaiting"])
    /\ UNCHANGED <<now, mode, timer, rescan, waking, durableVars, seen, unlisted>>

WakeThrows(i) ==
    /\ Executing(i) /\ scans[i].pc = "called"
    /\ scans' = [scans EXCEPT ![i].pc = "loop", ![i].cur = NoScan]
    /\ waking' = waking \ {scans[i].cur}
    /\ UNCHANGED <<now, mode, timer, running, rescan, stack, durableVars, seen, unlisted>>

\* The promise of wakeDue settles, fulfilled or rejected.
WakeSettles(i) ==
    /\ stack = <<>> /\ scans[i].pc = "awaiting"
    /\ scans' = [scans EXCEPT ![i].pc = "loop", ![i].cur = NoScan]
    /\ waking' = waking \ {scans[i].cur}
    /\ stack' = <<i>>
    /\ UNCHANGED <<now, mode, timer, running, rescan, durableVars, seen, unlisted>>

EndPass(i) ==
    /\ Executing(i) /\ scans[i].pc = "loop" /\ scans[i].todo \cap registered = {}
    /\ Suspend(i, [scans[i] EXCEPT !.pc = "yielded", !.todo = {}])
    /\ UNCHANGED <<now, mode, timer, rescan, waking, durableVars, seen, unlisted>>

NextPass(i) ==
    /\ stack = <<>> /\ scans[i].pc = "yielded"
    /\ rescan /\ scans[i].passes + 1 < MaxScanPasses
    /\ rescan' = FALSE
    /\ scans' = [scans EXCEPT ![i].pc = "loop", ![i].todo = registered, ![i].at = now,
                              ![i].passes = @ + 1]
    /\ stack' = <<i>>
    /\ UNCHANGED <<now, mode, timer, running, waking, durableVars, seen, unlisted>>

\* Mutant: an overdue item counts as the nearest one and keeps the timer from being set.
armEarliestOverdue(listed) ==
    LET all == {x[2] : x \in {y \in items : y[1] \in listed}}
    IN  IF mode = "stopped" THEN timer
        ELSE IF all = {} \/ \E t \in all : t <= now THEN NoTimer
        ELSE [armedAt |-> Min(all), fireAt |-> Min({Min(all), now + MaxTimeout})]

\* The timer after armEarliest, with the sources whose listing succeeds.
armEarliest(listed) ==
    LET future == {x[2] : x \in {y \in items : y[1] \in listed /\ y[2] > now}}
        nearest == Min(future)
    IN  IF mode = "stopped" THEN timer
        ELSE IF future = {} THEN NoTimer
        ELSE IF timer # NoTimer /\ timer.armedAt - nearest \in (1 - RearmTolerance)..(RearmTolerance - 1)
             THEN timer
        ELSE [armedAt |-> nearest, fireAt |-> Min({nearest, now + MaxTimeout})]

\* The passes end: clean, or dirty at the storm guard.
Arm(i) ==
    /\ stack = <<>> /\ scans[i].pc = "yielded"
    /\ ~rescan \/ scans[i].passes + 1 >= MaxScanPasses
    /\ \E faulty \in SUBSET registered :
          /\ IF faulty = {} THEN env' = env ELSE Spend
          /\ timer' = armEarliest(registered \ faulty)
          /\ unlisted' = faulty
    /\ scans' = [scans EXCEPT ![i].pc = "armed", ![i].passes = @ + 1]
    /\ UNCHANGED <<now, mode, running, rescan, waking, stack, items, registered, seen>>

\* The finally handlers: scan() clears only its own promise, start() any.
Settled(i) ==
    /\ stack = <<>> /\ scans[i].pc = "armed"
    /\ running' = IF scans[i].boot \/ running = i THEN NoScan ELSE running
    /\ scans' = [scans EXCEPT ![i] = Free]
    /\ UNCHANGED <<now, mode, timer, rescan, waking, stack, durableVars, seen, unlisted>>

Tick ==
    /\ now < MaxTime
    /\ now' = now + 1
    /\ UNCHANGED <<items, registered, mode, timer, running, rescan, waking, scans,
                   stack, env, seen, unlisted>>

ScanStep(i) ==
    \/ Visit(i) \/ WakeReturns(i) \/ WakeSettles(i) \/ EndPass(i) \/ NextPass(i)
    \/ Arm(i) \/ Settled(i)

Next ==
    \/ \E s \in Sources : Change(s) \/ Register(s) \/ Unregister(s)
    \/ Start \/ Stop \/ safetyScan \/ TimerFires \/ Tick
    \/ \E i \in ScanIds : ScanStep(i) \/ ListingThrows(i) \/ WakeThrows(i)

Spec == Init /\ [][Next]_vars

(***************************************************************************)
(* Fairness: segments run to their end, queued microtasks, expired timers  *)
(* and the heartbeat's interval are served, time passes.  wakeDue promises *)
(* settle, however often other segments get in between (strong fairness).  *)
(***************************************************************************)
FairSpec ==
    /\ Spec
    /\ WF_vars(Tick) /\ WF_vars(TimerFires) /\ WF_vars(safetyScan)
    /\ \A i \in ScanIds : WF_vars(ScanStep(i)) /\ SF_vars(WakeSettles(i))

Idle == \A i \in ScanIds : scans[i].pc = "free"

\* Two overlapping scans never have wakeDue of the same source in progress
\* (the `waking' set of wakeOverdue), until stop() clears that set.
WakesAreSerial ==
    mode # "stopped" =>
        \A i, j \in ScanIds :
            /\ i # j /\ scans[i].cur # NoScan => scans[i].cur # scans[j].cur
            /\ scans[i].cur # NoScan => scans[i].cur \in waking

\* Once start() has run and no scan is in progress, the timer is set for every
\* future item of a registered source, at most REARM_TOLERANCE_MS late: unless
\* the listing threw, or a notification was swallowed (_rescan set with nobody
\* left to read it).
QuietMeansArmed ==
    mode = "started" /\ Idle /\ ~rescan =>
        \A x \in items : x[1] \in registered \ unlisted /\ x[2] > now =>
            timer # NoTimer /\ timer.armedAt < x[2] + RearmTolerance

Forgotten(x) == mode = "started" /\ x \in items \ seen /\ x[1] \in registered /\ x[2] <= now

\* Every overdue item of a registered source is eventually woken, dropped
\* notifications, nested scans and listing faults notwithstanding.
EveryDueItemIsWoken == \A x \in Items : Forgotten(x) ~> ~Forgotten(x)
=============================================================================
