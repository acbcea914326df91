------------------------------ MODULE RemotePi ------------------------------
(***************************************************************************)
(* A Pi run delegated to a peer: PiRun on the owning host, composed with   *)
(* the peer that asked for it.  The owner pushes the unacknowledged events *)
(* of its outbox again and again (remote-pi-delivery.ts); the origin       *)
(* reduces them in sequence into a projection and a kanban card            *)
(* (remote-pi-origin-projection.ts, phase-pi-executor.ts), acknowledges    *)
(* cumulatively, and sends control commands that the owner deduplicates in *)
(* a ledger (remote-pi-control-handler.ts).                                *)
(*                                                                         *)
(* The channel needs no state.  An event that is not acknowledged may      *)
(* arrive at any time, in any order and any number of times, or never; so  *)
(* may an acknowledgement of anything the origin applied, and a command    *)
(* that was issued.                                                        *)
(***************************************************************************)
EXTENDS PiRun

CONSTANTS
    Commands, \* command ids in use at a time
    Acts      \* what each of them may ask for

ASSUME ActsAssumption == Acts \in [Commands -> SUBSET {"cancel", "reply", "steer", "resume"}]

VARIABLES
    origin,   \* the origin's projection: status, generation, pending dialog
    applied,  \* how many events of the outbox the origin has applied
    linked,   \* the origin's card names the remote run
    ocard,    \* the status of the origin's card
    lapse,    \* a projection to the card has failed
    cmd       \* the command ledger: the request and what is known of its outcome

originVars == <<origin, applied, linked, ocard, lapse>>
vars == <<run, card, proc, live, host, replies, written, asked, outbox, faults,
          origin, applied, linked, ocard, lapse, cmd>>

Final == {"completed", "rejected", "outcome_unknown"}
NoCommand == [led |-> "free", act |-> "none", gen |-> 0, req |-> 0, res |-> "none", hits |-> 0]

-----------------------------------------------------------------------------
(* The origin.                                                             *)

\* RemotePiOriginReducer.reduce on the next event in sequence.
Accepts(e) ==
    IF origin.st = "none" THEN TRUE
    ELSE /\ e.kind # "accepted"
         /\ e.gen = origin.gen \/ (e.kind = "resumed" /\ e.gen = origin.gen + 1)
         /\ ~(origin.st \in Ended /\ e.gen = origin.gen)

\* The card projector: the status shown, and from where the card may get there.
CardFor(status) ==
    IF status = "completed" THEN "done"
    ELSE IF status \in {"failed", "cancelled"} THEN "failed"
    ELSE IF status = "queued" THEN "queued" ELSE "running"

\* A card shows a running run only from the moment it was opened.
MutNeverRestarts(target) ==
    {target} \cup CASE target = "queued" -> {"running", "failed", "done"}
                    [] target = "running" -> {}
                    [] target = "done" -> {"running", "queued"}
                    [] target = "failed" -> {"queued", "running", "done"}

FromFor(target) ==
    {target} \cup CASE target = "queued" -> {"running", "failed", "done"}
                    [] target = "running" -> {"queued"}
                    [] target = "done" -> {"running", "queued"}
                    [] target = "failed" -> {"queued", "running", "done"}

ProjectCard(status) ==
    ocard' = IF ocard \in FromFor(CardFor(status)) THEN CardFor(status) ELSE ocard

\* _applyProjection keeps the dialog of a run that ended while it was waiting: only
\* input_cleared and resumed take it away.
PendingAfter(e) ==
    IF e.kind = "input_cleared" THEN 0
    ELSE IF e.req # 0 THEN e.req
    ELSE IF e.kind = "resumed" THEN 0 ELSE origin.req

\* The projection and its event commit together; the card follows, or its
\* projection fails and is only logged.
Reduce(e) ==
    /\ Accepts(e)
    /\ origin' = [st |-> e.st, gen |-> e.gen, req |-> PendingAfter(e)]
    /\ applied' = applied + 1
    /\ \/ /\ ProjectCard(e.st)
          /\ UNCHANGED <<faults, lapse>>
       \/ /\ faults < MaxFaults
          /\ faults' = faults + 1
          /\ lapse' = TRUE
          /\ UNCHANGED ocard

\* The requester's contribution service stores the run id it was answered with.
Link ==
    /\ run.st # "none" /\ ~linked
    /\ linked' = TRUE
    /\ UNCHANGED <<piVars, origin, applied, ocard, lapse, cmd>>

\* The origin takes an event past a gap for the next one.
MutIgnoreGap(i) ==
    /\ linked
    /\ i \in applied + 1 .. Len(outbox)
    /\ Reduce(outbox[i])
    /\ UNCHANGED <<run, card, proc, live, host, replies, written, asked, outbox, linked, cmd>>

\* Event i arrives: a duplicate only repeats its acknowledgement; the next one is
\* reduced; one past a gap starts a catch-up, which fetches and reduces the next.
Deliver(i) ==
    /\ linked
    /\ i \in applied + 1 .. Len(outbox)
    /\ Reduce(outbox[applied + 1])
    /\ UNCHANGED <<run, card, proc, live, host, replies, written, asked, outbox, linked, cmd>>

\* A cumulative acknowledgement of the i-th outstanding event reaches the owner.
Ack(i) ==
    /\ host # "down"
    /\ i \in 1 .. applied
    /\ outbox' = SubSeq(outbox, i + 1, Len(outbox))
    /\ applied' = applied - i
    /\ UNCHANGED <<run, card, proc, live, host, replies, written, asked, faults>>
    /\ UNCHANGED <<origin, linked, ocard, lapse, cmd>>

-----------------------------------------------------------------------------
(* Control commands.                                                       *)

\* The origin issues a command from what its projection shows.
Issue(c, act) ==
    /\ cmd[c].led = "free"
    /\ act \in Acts[c]
    /\ origin.st # "none"
    /\ act = "reply" => origin.req # 0
    /\ cmd' = [cmd EXCEPT ![c] = [NoCommand EXCEPT !.led = "sent", !.act = act, !.gen = origin.gen,
                                                   !.req = IF act = "reply" THEN origin.req ELSE 0]]
    /\ UNCHANGED <<piVars, originVars>>

\* A stored response is all that matters of a request that got one.
Stored(c, led) == [NoCommand EXCEPT !.led = led, !.hits = cmd[c].hits]

\* Behind the dispatch_started barrier: the effect, and the response to be stored
\* once the handler returns.
Dispatched(c, res, hits) ==
    cmd' = [cmd EXCEPT ![c].led = "dispatch_started", ![c].res = res, ![c].hits = @ + hits]

HandleCancel(c) ==
    \/ /\ Cancel
       /\ Dispatched(c, IF HasClient THEN "completed" ELSE "rejected", 1)
    \/ /\ ~CancelTakes
       /\ Dispatched(c, IF run.st \in Ended \/ (Controllable /\ live # 0) THEN "completed" ELSE "rejected", 0)
       /\ UNCHANGED piVars

\* A reply that was claimed is answered with success whether or not it was written.
HandleReply(c) ==
    \/ \E wrote \in BOOLEAN :
          /\ Reply(cmd[c].req, c, wrote)
          /\ Dispatched(c, "completed", IF wrote THEN 1 ELSE 0)
    \/ ~ReplyTakes(cmd[c].req) /\ Dispatched(c, "rejected", 0) /\ UNCHANGED piVars

\* The instruction is written, and the write may still be reported as failed.
HandleSteer(c) ==
    /\ IF Controllable /\ HasClient
       THEN \E res \in {"completed", "rejected"} : Dispatched(c, res, 1)
       ELSE Dispatched(c, "rejected", 0)
    /\ UNCHANGED piVars

\* The approval names this command and generation; it is consumed in any case.
HandleResume(c) ==
    \/ Resume /\ Dispatched(c, "completed", 1)
    \/ ResumeRefused /\ Dispatched(c, "rejected", 0)
    \/ ~Resumable /\ Dispatched(c, "rejected", 0) /\ UNCHANGED piVars

Handle(c) ==
    CASE cmd[c].act = "cancel" -> HandleCancel(c)
      [] cmd[c].act = "reply" -> HandleReply(c)
      [] cmd[c].act = "steer" -> HandleSteer(c)
      [] cmd[c].act = "resume" -> HandleResume(c)

\* A command whose outcome was never stored is dispatched again.
MutRedispatch(c) ==
    /\ host # "down"
    /\ \/ /\ cmd[c].led = "sent"
          /\ cmd[c].gen # run.gen
          /\ cmd' = [cmd EXCEPT ![c] = Stored(c, "rejected")]
          /\ UNCHANGED piVars
       \/ cmd[c].led \in {"sent", "dispatch_started"} /\ cmd[c].gen = run.gen /\ Handle(c)
    /\ UNCHANGED originVars

\* A command arrives.  The ledger answers what it has seen before; a stale
\* generation is refused before the barrier.
Receive(c) ==
    /\ host # "down"
    /\ \/ /\ cmd[c].led = "sent"
          /\ cmd[c].gen # run.gen
          /\ cmd' = [cmd EXCEPT ![c] = Stored(c, "rejected")]
          /\ UNCHANGED piVars
       \/ cmd[c].led = "sent" /\ cmd[c].gen = run.gen /\ Handle(c)
       \/ /\ cmd[c].led = "dispatch_started"
          /\ cmd' = [cmd EXCEPT ![c] = [Stored(c, "outcome_unknown") EXCEPT !.res = cmd[c].res]]
          /\ UNCHANGED piVars
    /\ UNCHANGED originVars

\* The handler returns and stores the response.
Finish(c) ==
    /\ cmd[c].res # "none"
    /\ \A x \in replies : x.by # c
    /\ cmd' = [cmd EXCEPT ![c] = Stored(c, cmd[c].res)]
    /\ UNCHANGED <<piVars, originVars>>

\* cleanupOldCommands, hours after the last duplicate.
Forget(c) ==
    /\ cmd[c].led \in Final /\ cmd[c].res = "none"
    /\ cmd' = [cmd EXCEPT ![c] = NoCommand]
    /\ UNCHANGED <<piVars, originVars>>

-----------------------------------------------------------------------------

RemoteInit ==
    /\ Init
    /\ origin = [st |-> "none", gen |-> 0, req |-> 0]
    /\ applied = 0
    /\ linked = FALSE
    /\ ocard = "running"
    /\ lapse = FALSE
    /\ cmd = [c \in Commands |-> NoCommand]

\* The owner by itself; what a lost process was handling is never finished.
OwnerStep ==
    /\ OwnerNext
    /\ cmd' = IF host' = "down" THEN [c \in Commands |-> [cmd[c] EXCEPT !.res = "none"]] ELSE cmd
    /\ UNCHANGED originVars

Next ==
    \/ OwnerStep
    \/ Link
    \/ \E i \in 1 .. MaxLag + 1 : Deliver(i) \/ Ack(i)
    \/ \E c \in Commands : \/ \E act \in {"cancel", "reply", "steer", "resume"} : Issue(c, act)
                           \/ Receive(c) \/ Finish(c) \/ Forget(c)

Spec == RemoteInit /\ [][Next]_vars

\* The drain task pushes the backlog at every heartbeat and whenever a route comes up;
\* some push and some acknowledgement get through, and the requester learns the run id.
FairSpec ==
    /\ Spec
    /\ OwnerFairness
    /\ WF_vars(Link \/ \E i \in 1 .. MaxLag + 1 : Deliver(i))
    /\ WF_vars(\E i \in 1 .. MaxLag + 1 : Ack(i))

-----------------------------------------------------------------------------
(* Properties.                                                             *)

Mirrors(x) ==
    /\ x.st = run.st /\ x.gen = run.gen
    /\ run.st = "awaiting_input" => x.req = run.pend

\* The last fact on its way to the origin, or else the origin's projection, is the
\* run row as it is: no transition, of the executor, of shutdown or of boot recovery,
\* commits without its event.
FactsAreComplete == Mirrors(IF outbox = <<>> THEN origin ELSE outbox[Len(outbox)])

\* However often a command arrives, whatever crashes in between and however often its
\* write fails, it takes effect at most once; and a dialog of the agent is answered at
\* most once, by whichever command.
EffectsOnce ==
    /\ \A c \in Commands : cmd[c].hits <= 1
    /\ \A r \in Requests : written[r] <= 1

Lifecycle == INSTANCE PiLifecycle WITH st <- origin.st, gen <- origin.gen

\* What the origin sees of a run, through lost, repeated and reordered pushes and the
\* crashes of the owner, is the life of one run.
OriginLifecycle == Lifecycle!Spec

\* The origin's projection catches up with the run row, again and again; so does its
\* card, while no projection to it has failed: the moves the projector allows cover
\* every path of the lifecycle.
CatchesUp == []<>(Mirrors(origin) /\ (lapse \/ ocard = CardFor(origin.st)))

\* A cancel that reached a process ends the run, although the process may be starting,
\* finishing, dying or not answering, and the host may stop or crash.
CancelEnds == run.st = "cancelling" /\ HasClient ~> run.st # "cancelling"
=============================================================================
