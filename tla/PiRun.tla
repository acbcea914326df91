------------------------------- MODULE PiRun -------------------------------
(***************************************************************************)
(* One delegated Pi run on the host that owns it: the run row and its      *)
(* kanban card (pi-run-store.ts), the process of each generation and the   *)
(* live map (pi-executor.ts), shutdown, crash and boot recovery, and the   *)
(* outbox the store appends to in the transaction of every public          *)
(* transition (pi-remote-outbox-store.ts).                                 *)
(*                                                                         *)
(* A step is a synchronous segment of the executor: what it does between   *)
(* two awaits, or one transaction.  The outbox holds the events that are   *)
(* not acknowledged yet, oldest first.  A generation's workspace claim is  *)
(* taken and released with its status, so one run never contends with      *)
(* itself; other runs only delay Dispatch or take the last process slot.   *)
(***************************************************************************)
EXTENDS Naturals, Sequences, FiniteSets

CONSTANTS
    MaxGen,      \* generations a run is followed through
    MaxRequests, \* dialogs the process opens
    MaxProgress, \* progress events waiting in the outbox
    MaxFaults,   \* shutdowns, crashes and failed card projections
    MaxLag       \* events waiting in the outbox when the owner makes the next one

ASSUME PiAssumption ==
    /\ {MaxGen, MaxRequests, MaxLag} \subseteq Nat \ {0}
    /\ {MaxProgress, MaxFaults} \subseteq Nat
    /\ MaxLag >= 2

VARIABLES
    run,      \* the pi_runs row: status, generation, whether its session can be resumed,
              \* the pending dialog, the last dialog replied to and how that went
    card,     \* the status of the run's kanban card
    proc,     \* the process owned by each generation
    live,     \* the generation in the executor's live map, 0 for none
    host,     \* "up", "stopping" (interruptAll called) or "down"
    replies,  \* replies claimed whose RPC write has not returned
    written,  \* how often the answer to each dialog was written to Pi
    asked,    \* dialogs opened so far
    outbox,   \* unacknowledged lifecycle events, oldest first
    faults

piVars == <<run, card, proc, live, host, replies, written, asked, outbox, faults>>

Gens == 1 .. MaxGen
Requests == 1 .. MaxRequests

\* Settlement and recovery overlook a run that is being cancelled.
MutActiveUncancelled == {"starting", "running", "awaiting_input"}

Active == {"starting", "running", "awaiting_input", "cancelling"}
Ended == {"completed", "failed", "cancelled"}
Statuses == {"queued", "interrupted"} \cup Active \cup Ended
Kinds == Statuses \cup {"accepted", "resumed", "input_cleared", "progress"}

NoRun == [st |-> "none", gen |-> 0, cap |-> FALSE, pend |-> 0, last |-> 0, out |-> "none"]
NoProc == [ph |-> "none", settling |-> FALSE, timer |-> FALSE]

Event(kind, r) == [kind |-> kind, st |-> r.st, gen |-> r.gen, req |-> r.pend]

Emit(events) ==
    /\ Len(outbox) + Len(events) <= MaxLag
    /\ outbox' = outbox \o events

KindForTransition(from, to) ==
    IF from = "awaiting_input" /\ to = "running" THEN "input_cleared" ELSE to

\* casTransition to a different status, with the event of the same transaction.
Transition(r) ==
    /\ run' = r
    /\ Emit(<<Event(KindForTransition(run.st, r.st), r)>>)

To(status) == [run EXCEPT !.st = status, !.pend = 0]

CardAfter(outcome) == IF outcome = "completed" THEN "done" ELSE "failed"

\* settleTerminal: the run, its card and its event in one transaction, or nothing.
Settles(g, expected) == run.gen = g /\ run.st \in expected /\ card = "running"

SettleTerminal(g, expected, outcome) ==
    IF Settles(g, expected)
    THEN Transition(To(outcome)) /\ card' = CardAfter(outcome)
    ELSE UNCHANGED <<run, card, outbox>>

Closing(g) == [proc EXCEPT ![g] = [ph |-> "closing", settling |-> TRUE, timer |-> FALSE]]
Gone(g) == [proc EXCEPT ![g] = NoProc]

SettleAndCleanup(g, outcome) ==
    /\ ~proc[g].settling
    /\ SettleTerminal(g, Active, outcome)
    /\ proc' = Closing(g)
    /\ UNCHANGED <<live, host, replies, written, asked, faults>>

-----------------------------------------------------------------------------
(* Creation and dispatch.                                                  *)

Init ==
    /\ run = NoRun
    /\ card = "none"
    /\ proc = [g \in Gens |-> NoProc]
    /\ live = 0
    /\ host = "up"
    /\ replies = {}
    /\ written = [r \in Requests |-> 0]
    /\ asked = 0
    /\ outbox = <<>>
    /\ faults = 0

CreateRun ==
    LET r == [NoRun EXCEPT !.st = "queued", !.gen = 1] IN
    /\ run.st = "none"
    /\ host = "up"
    /\ run' = r
    /\ card' = "queued"
    /\ Emit(<<Event("accepted", r), Event("queued", r)>>)
    /\ UNCHANGED <<proc, live, host, replies, written, asked, faults>>

\* The reconciler's claim: run queued -> starting and card queued -> running.
Claimed == run.st = "queued" /\ card = "queued" /\ host # "down"

Dispatch ==
    /\ Claimed
    /\ host = "up"
    /\ Transition(To("starting"))
    /\ card' = "running"
    /\ proc' = [proc EXCEPT ![run.gen] = [NoProc EXCEPT !.ph = "launching"]]
    /\ live' = run.gen
    /\ UNCHANGED <<host, replies, written, asked, faults>>

\* The executor is stopping, or another run took the last process slot.
DispatchRefused ==
    /\ Claimed
    /\ run' = To("failed")
    /\ card' = "failed"
    /\ Emit(<<Event("starting", To("starting")), Event("failed", To("failed"))>>)
    /\ UNCHANGED <<proc, live, host, replies, written, asked, faults>>

-----------------------------------------------------------------------------
(* The start of a generation: launch, first state, running, first prompt.  *)

\* With a status other than starting (a cancel came in), nothing is settled.
LaunchFails(g) ==
    /\ proc[g].ph = "launching"
    /\ SettleTerminal(g, {"starting"}, "failed")
    /\ proc' = Gone(g)
    /\ live' = 0
    /\ UNCHANGED <<host, replies, written, asked, faults>>

LaunchOk(g) ==
    /\ proc[g].ph = "launching"
    /\ IF run.gen = g /\ run.st = "starting"
       THEN proc' = [proc EXCEPT ![g].ph = "probing"] /\ UNCHANGED live
       ELSE proc' = Gone(g) /\ live' = 0
    /\ UNCHANGED <<run, card, host, replies, written, asked, outbox, faults>>

ProbeFails(g) == proc[g].ph = "probing" /\ SettleAndCleanup(g, "failed")

\* A first start derives the resume capability from the session file; a resumed
\* one is verified before it runs.
ProbeOk(g, cap) ==
    /\ proc[g].ph = "probing"
    /\ g > 1 => cap
    /\ run.gen = g /\ run.st = "starting"
    /\ Transition([To("running") EXCEPT !.cap = cap])
    /\ proc' = [proc EXCEPT ![g].ph = IF proc[g].settling THEN "live" ELSE "prompting"]
    /\ UNCHANGED <<card, live, host, replies, written, asked, faults>>

\* The starting -> running update lost to a cancel: the start fails the run.
ProbeLosesCas(g) ==
    /\ proc[g].ph = "probing"
    /\ run.st # "starting"
    /\ SettleAndCleanup(g, "failed")

PromptOk(g) ==
    /\ proc[g].ph = "prompting"
    /\ proc' = [proc EXCEPT ![g].ph = "live"]
    /\ UNCHANGED <<run, card, live, host, replies, written, asked, outbox, faults>>

\* A failed follow-up of a resumed generation gives way to a cancel; a failed
\* first prompt does not.
PromptFails(g) ==
    /\ proc[g].ph = "prompting"
    /\ g > 1 => run.st = "running"
    /\ SettleAndCleanup(g, "failed")

-----------------------------------------------------------------------------
(* A live process.                                                         *)

Speaks(g) == proc[g].ph \in {"prompting", "live"} /\ ~proc[g].settling /\ live = g

AskUser(g) ==
    /\ Speaks(g)
    /\ run.st = "running" /\ run.pend = 0
    /\ asked < MaxRequests
    /\ asked' = asked + 1
    /\ Transition([run EXCEPT !.st = "awaiting_input", !.pend = asked + 1])
    /\ UNCHANGED <<card, proc, live, host, replies, written, faults>>

\* A sampled progress fact: its own transaction, the row as it is.
Progress(g) ==
    /\ Speaks(g)
    /\ Len(SelectSeq(outbox, LAMBDA e : e.kind = "progress")) < MaxProgress
    /\ Emit(<<Event("progress", run)>>)
    /\ UNCHANGED <<run, card, proc, live, host, replies, written, asked, faults>>

\* agent_end, after the probes of _settleCompletion; `ok`: they answered.
Completion(g, ok) ==
    /\ Speaks(g)
    /\ SettleAndCleanup(g, IF run.st = "cancelling" THEN "cancelled" ELSE IF ok THEN "completed" ELSE "failed")

\* With the abort timer set the exit is left to the timer.
ChildDies(g) ==
    /\ proc[g].ph \in {"probing", "prompting", "live"} /\ live = g
    /\ ~proc[g].timer
    /\ SettleAndCleanup(g, "failed")

GraceExpires(g) ==
    /\ proc[g].timer /\ live = g
    /\ SettleAndCleanup(g, "cancelled")

\* _releaseOwned has closed the client; a newer owner keeps its place in the live map.
Released(g) ==
    /\ proc[g].ph = "closing"
    /\ proc' = Gone(g)
    /\ live' = IF live = g THEN 0 ELSE live
    /\ UNCHANGED <<run, card, host, replies, written, asked, outbox, faults>>

-----------------------------------------------------------------------------
(* User commands, as PiRunService and PiExecutor serve them.               *)

\* _getActive
Controllable == run.st \in {"starting", "running", "awaiting_input"}

HasClient == live # 0 /\ proc[live].ph \notin {"none", "launching"}

CancelTakes == Controllable /\ live = run.gen /\ ~proc[live].settling

\* The abort timer is set after abort(), which throws while there is no client.
Cancel ==
    /\ CancelTakes
    /\ Transition(To("cancelling"))
    /\ proc' = [proc EXCEPT ![live].timer = HasClient]
    /\ UNCHANGED <<card, live, host, replies, written, asked, faults>>

ReplyTakes(r) == run.st = "awaiting_input" /\ run.pend = r /\ live = run.gen /\ ~proc[live].settling

\* claimPendingUi, then the write: `wrote` tells whether Pi received it.
Reply(r, by, wrote) ==
    /\ ReplyTakes(r)
    /\ Transition([To("running") EXCEPT !.last = r, !.out = "claimed"])
    /\ replies' = replies \cup {[gen |-> run.gen, req |-> r, by |-> by, wrote |-> wrote]}
    /\ written' = [written EXCEPT ![r] = @ + (IF wrote THEN 1 ELSE 0)]
    /\ UNCHANGED <<card, proc, live, host, asked, faults>>

\* Only a proven failure to write restores the dialog, and only if nothing moved on.
Restores(x) ==
    run.gen = x.gen /\ run.st = "running" /\ run.pend = 0 /\ run.last = x.req /\ run.out = "claimed"

ReplyReturns(x) ==
    /\ replies' = replies \ {x}
    /\ \/ /\ run' = IF run.gen = x.gen /\ run.last = x.req /\ run.out = "claimed"
                    THEN [run EXCEPT !.out = "unknown"] ELSE run
          /\ UNCHANGED outbox
       \/ /\ ~x.wrote
          /\ IF Restores(x)
             THEN Transition([run EXCEPT !.st = "awaiting_input", !.pend = x.req, !.out = "none"])
             ELSE UNCHANGED <<run, outbox>>
    /\ UNCHANGED <<card, proc, live, host, written, asked, faults>>

Resumable == run.st \in {"interrupted", "failed"} /\ run.cap

\* queueResumeGeneration: generation, card and the resumed fact together.
Resume ==
    LET r == [To("queued") EXCEPT !.gen = run.gen + 1] IN
    /\ Resumable
    /\ run.gen < MaxGen
    /\ run' = r
    /\ card' = "queued"
    /\ Emit(<<Event("resumed", r)>>)
    /\ UNCHANGED <<proc, live, host, replies, written, asked, faults>>

\* The saved session no longer validates.
ResumeRefused ==
    /\ Resumable
    /\ run' = [run EXCEPT !.cap = FALSE]
    /\ UNCHANGED <<card, proc, live, host, replies, written, asked, outbox, faults>>

-----------------------------------------------------------------------------
(* Shutdown, crash and boot.                                               *)

\* interruptGeneration, or nothing when the generation is no longer active.
Interrupt(g, cap) ==
    IF run.gen = g /\ run.st \in Active /\ card = "running"
    THEN Transition([To("interrupted") EXCEPT !.cap = cap]) /\ card' = "failed"
    ELSE UNCHANGED <<run, card, outbox>>

\* interruptAll takes every live generation over; one without a client is
\* interrupted at once, the others after their state was probed.
StopHost ==
    /\ host = "up" /\ faults < MaxFaults
    /\ host' = "stopping"
    /\ faults' = faults + 1
    /\ IF live # 0 /\ proc[live].ph = "launching"
       THEN Interrupt(live, FALSE) /\ live' = 0 /\ UNCHANGED proc
       ELSE /\ proc' = [g \in Gens |-> IF g = live THEN [proc[g] EXCEPT !.settling = TRUE, !.timer = FALSE]
                                                   ELSE proc[g]]
            /\ UNCHANGED <<run, card, outbox, live>>
    /\ UNCHANGED <<replies, written, asked>>

InterruptCommits(g, cap) ==
    /\ host = "stopping"
    /\ proc[g].settling /\ proc[g].ph \in {"probing", "prompting", "live"}
    /\ Interrupt(g, cap)
    /\ proc' = Closing(g)
    /\ UNCHANGED <<live, host, replies, written, asked, faults>>

Down ==
    /\ host' = "down"
    /\ proc' = [g \in Gens |-> NoProc]
    /\ live' = 0
    /\ replies' = {}
    /\ UNCHANGED <<run, card, written, asked, outbox>>

Exit == host = "stopping" /\ live = 0 /\ Down /\ UNCHANGED faults

Crash == host # "down" /\ faults < MaxFaults /\ Down /\ faults' = faults + 1

\* The row is interrupted in a transaction of its own, and the fact left to the next scan.
MutBootSilently(cap) ==
    /\ host = "down"
    /\ host' = "up"
    /\ cap => run.cap
    /\ IF run.st \in Active
       THEN run' = [To("interrupted") EXCEPT !.cap = cap] /\ card' = "failed"
       ELSE /\ run' = IF run.st = "queued" /\ run.gen > 1 THEN [run EXCEPT !.cap = cap] ELSE run
            /\ UNCHANGED card
    /\ UNCHANGED <<proc, live, replies, written, asked, outbox, faults>>

\* recoverNonterminal: an active run is interrupted, a queued one kept; the saved
\* session is proven again.  recoverMissingEvents then finds the last event of every
\* run in agreement with its row (FactsAreComplete), and adds none.
Boot(cap) ==
    LET r == [To("interrupted") EXCEPT !.cap = cap] IN
    /\ host = "down"
    /\ host' = "up"
    /\ cap => run.cap
    /\ IF run.st \in Active
       THEN run' = r /\ outbox' = Append(outbox, Event("interrupted", r)) /\ card' = "failed"
       ELSE /\ run' = IF run.st = "queued" /\ run.gen > 1 THEN [run EXCEPT !.cap = cap] ELSE run
            /\ UNCHANGED <<card, outbox>>
    /\ UNCHANGED <<proc, live, replies, written, asked, faults>>

-----------------------------------------------------------------------------
(* What the owning host does by itself: the run of the process, its end,   *)
(* the shutdown and the boot.  Its own operator may send the commands of   *)
(* the origin too (pi-run-service.ts); they reach the transitions that the *)
(* handlers of the origin's commands take, and are left out.  So is the    *)
(* abort of checkWallClock, which nothing calls.                           *)

Starts(g) ==
    \/ LaunchFails(g) \/ LaunchOk(g)
    \/ ProbeFails(g) \/ ProbeLosesCas(g) \/ \E cap \in BOOLEAN : ProbeOk(g, cap)
    \/ PromptOk(g) \/ PromptFails(g)

Talks(g) == AskUser(g) \/ Progress(g)

Ends(g) == ChildDies(g) \/ \E ok \in BOOLEAN : Completion(g, ok)

Interrupts(g) == \E cap \in BOOLEAN : InterruptCommits(g, cap)

Boots == \E cap \in BOOLEAN : Boot(cap)

OwnerNext ==
    \/ CreateRun \/ Dispatch \/ DispatchRefused
    \/ \E g \in Gens : Starts(g) \/ Talks(g) \/ Ends(g) \/ GraceExpires(g) \/ Released(g) \/ Interrupts(g)
    \/ \E x \in replies : ReplyReturns(x)
    \/ StopHost \/ Exit \/ Crash \/ Boots

\* What a running host gets to by itself: RPC calls return or time out, timers fire,
\* a client closes, the shutdown step is awaited and the host is started again.
OwnerFairness ==
    /\ \A g \in Gens : /\ WF_piVars(Starts(g) \/ Released(g))
                       /\ WF_piVars(GraceExpires(g)) /\ WF_piVars(Interrupts(g))
    /\ WF_piVars(Exit \/ Boots)
    /\ WF_piVars(\E x \in replies : ReplyReturns(x))
=============================================================================
