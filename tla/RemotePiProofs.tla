--------------------------- MODULE RemotePiProofs ---------------------------
(***************************************************************************)
(* Proofs about RemotePi for any number of generations, dialogs, commands, *)
(* faults and outstanding events: the facts the owner publishes are        *)
(* complete, effects happen at most once, and the origin's projection      *)
(* implements PiLifecycle.                                                 *)
(*                                                                         *)
(* The proof has two halves.  Told says what one step of the owner does to *)
(* the outbox: nothing, or it appends facts that lead along the edges of   *)
(* the lifecycle from the old row to the new one.  Story says what that    *)
(* makes of the outbox: from the origin's projection through the events it *)
(* has not applied to the row, one lifecycle step after the other.         *)
(***************************************************************************)
EXTENDS RemotePi, SequenceTheorems, TLAPS

Phases == {"none", "launching", "probing", "prompting", "live", "closing"}

RunRow == [st : Statuses \cup {"none"}, gen : {0} \cup Gens, cap : BOOLEAN, pend : {0} \cup Requests,
           last : {0} \cup Requests, out : {"none", "claimed", "unknown"}]
Process == [ph : Phases, settling : BOOLEAN, timer : BOOLEAN]
Fact == [kind : Kinds, st : Statuses \cup {"none"}, gen : {0} \cup Gens, req : {0} \cup Requests]
ReplyInFlight == [gen : {0} \cup Gens, req : Requests, by : Commands, wrote : BOOLEAN]

\* Types of the owner's state
PiTyped ==
    /\ run \in RunRow
    /\ run.st # "none" => run.gen # 0
    /\ proc \in [Gens -> Process]
    /\ live \in {0} \cup Gens
    /\ replies \in SUBSET ReplyInFlight
    /\ written \in [Requests -> Nat]
    /\ asked \in {0} \cup Requests
    /\ outbox \in Seq(Fact)

\* A generation that is starting has not reached its agent, and the abort timer
\* of a generation is set only once its run is cancelling
Processes ==
    \A g \in Gens :
        run.gen = g => /\ run.st = "starting" => proc[g].ph \notin {"prompting", "live"}
                       /\ proc[g].timer => run.st \notin {"starting", "running", "awaiting_input"}

\* Dialogs are numbered as they are opened; a claimed reply takes its dialog off
\* the row until it returns, and a dialog answered once is not restored
Dialogs ==
    /\ run.st = "awaiting_input" => run.pend # 0
    /\ run.pend <= asked
    /\ \A r \in Requests : /\ r > asked => written[r] = 0
                           /\ written[r] <= 1
                           /\ written[r] = 1 => run.pend # r
    /\ \A x \in replies : /\ x.req <= asked /\ x.req # run.pend
                          /\ ~x.wrote => written[x.req] = 0
                          /\ \A y \in replies : x.req = y.req => x = y

PiInv == PiTyped /\ Processes /\ Dialogs

\* One step of PiLifecycle between two records that name a status and a generation
LifeStep(p, q) ==
    \/ q.st = p.st /\ q.gen = p.gen
    \/ p.st = "none" /\ q.st = "queued" /\ q.gen = 1
    \/ <<p.st, q.st>> \in Lifecycle!Edges /\ q.gen = p.gen
    \/ p.st \in {"failed", "interrupted"} /\ q.st = "queued" /\ q.gen = p.gen + 1

\* A fact about a waiting run carries its dialog
Sound(e) == e.st = "awaiting_input" => e.req # 0 /\ e.kind # "input_cleared"

\* e describes the row r
Describes(e, r) == Sound(e) /\ e.st = r.st /\ e.gen = r.gen /\ e.req = r.pend

\* The three things a step of the owner does to the outbox
Silent == outbox' = outbox /\ run'.st = run.st /\ run'.gen = run.gen /\ run'.pend = run.pend

OneFact == \E e \in Fact : outbox' = Append(outbox, e) /\ Describes(e, run') /\ LifeStep(run, e)

TwoFacts ==
    \E d, e \in Fact :
        /\ outbox' = Append(Append(outbox, d), e)
        /\ Sound(d) /\ Describes(e, run')
        /\ LifeStep(run, d) /\ LifeStep(d, e)

Told == Silent \/ OneFact \/ TwoFacts

\* The events of q the origin has not applied lead on from its projection, one
\* lifecycle step after the other
Leads(q) ==
    \A i \in applied + 1 .. Len(q) :
        Sound(q[i]) /\ LifeStep(IF i = applied + 1 THEN origin ELSE q[i - 1], q[i])

\* Where they lead to
Goal(q) == IF Len(q) = applied THEN origin ELSE q[Len(q)]

\* From the projection to the row, through the events not applied yet
Story ==
    /\ applied \in 0 .. Len(outbox)
    /\ Leads(outbox)
    /\ outbox # <<>> => Describes(outbox[Len(outbox)], run)
    /\ applied = Len(outbox) => Mirrors(origin)

\* A command that has not been handled yet had no effect, and one that was sent
\* asks for something
Ledger ==
    \A c \in Commands : /\ cmd[c].led \in {"free", "sent"} => cmd[c].hits = 0
                        /\ cmd[c].led = "sent" => cmd[c].act # "none"

Entry == [led : {"free", "sent", "dispatch_started"} \cup Final,
          act : {"none", "cancel", "reply", "steer", "resume"},
          gen : {0} \cup Gens, req : {0} \cup Requests,
          res : {"none", "completed", "rejected"}, hits : {0, 1}]

\* Types of the origin's state and of the command ledger
RemoteTyped ==
    /\ origin \in [st : Statuses \cup {"none"}, gen : {0} \cup Gens, req : {0} \cup Requests]
    /\ cmd \in [Commands -> Entry]

IInv == PiInv /\ RemoteTyped /\ Story /\ Ledger
-----------------------------------------------------------------------------
(* Constants, rows and facts.                                              *)

\* Generations and dialogs are counted from one.
LEMMA Bounds ==
    /\ MaxGen \in Nat \ {0} /\ MaxRequests \in Nat \ {0}
    /\ Gens = 1 .. MaxGen /\ Requests = 1 .. MaxRequests
BY PiAssumption DEF PiAssumption, Gens, Requests

\* The row a transition without a dialog writes.
LEMMA ToFacts ==
    ASSUME run \in RunRow, NEW status \in Statuses
    PROVE  /\ To(status) \in RunRow
           /\ To(status).st = status /\ To(status).gen = run.gen /\ To(status).pend = 0
           /\ To(status).cap = run.cap /\ To(status).last = run.last /\ To(status).out = run.out
<1>1. To(status) \in RunRow BY DEF To, RunRow
<1>2. To(status).st = status /\ To(status).gen = run.gen /\ To(status).pend = 0
  BY DEF To, RunRow
<1>3. To(status).cap = run.cap /\ To(status).last = run.last /\ To(status).out = run.out
  BY DEF To, RunRow
<1> QED BY <1>1, <1>2, <1>3

\* Two events appended together are appended one after the other.
LEMMA TwoAppends ==
    ASSUME NEW q \in Seq(Fact), NEW d \in Fact, NEW e \in Fact
    PROVE  q \o <<d, e>> = Append(Append(q, d), e) /\ q \o <<d, e>> \in Seq(Fact)
<1>1. /\ <<d>> \in Seq(Fact) /\ <<e>> \in Seq(Fact)
      /\ <<d>> \o <<e>> = <<d, e>>
  <2>1. <<d>> \in Seq(Fact) OBVIOUS
  <2>2. <<e>> \in Seq(Fact) OBVIOUS
  <2>3. <<d, e>> = Append(<<d>>, e) OBVIOUS
  <2>4. Append(<<d>>, e) = <<d>> \o <<e>> BY <2>1, AppendIsConcat
  <2> QED BY <2>1, <2>2, <2>3, <2>4
<1>2. Append(q, d) = q \o <<d>> /\ Append(q, d) \in Seq(Fact) BY AppendIsConcat, AppendProperties
<1>3. Append(Append(q, d), e) = Append(q, d) \o <<e>> /\ Append(Append(q, d), e) \in Seq(Fact)
  BY <1>2, AppendIsConcat, AppendProperties
<1>4. (q \o <<d>>) \o <<e>> = q \o (<<d>> \o <<e>>) BY <1>1, ConcatAssociative
<1> QED BY <1>1, <1>2, <1>3, <1>4

\* The event made of a row is a fact about it, unless it clears a dialog that is there.
LEMMA EventFacts ==
    ASSUME NEW kind \in Kinds, NEW r \in RunRow,
           r.st = "awaiting_input" => r.pend # 0 /\ kind # "input_cleared"
    PROVE  Event(kind, r) \in Fact /\ Describes(Event(kind, r), r)
BY DEF Event, Fact, RunRow, Describes, Sound

\* An event of the new row, in the transaction that writes it.
LEMMA EmitTells ==
    ASSUME PiInv, run' \in RunRow, NEW kind \in Kinds, Emit(<<Event(kind, run')>>), LifeStep(run, run'),
           run'.st = "awaiting_input" => run'.pend # 0 /\ kind # "input_cleared"
    PROVE  Told /\ outbox' \in Seq(Fact)
<1> DEFINE e == Event(kind, run')
<1>1. e \in Fact /\ Describes(e, run') BY EventFacts
<1>2. outbox \in Seq(Fact) BY DEF PiInv, PiTyped
<1>3. outbox' = Append(outbox, e) BY <1>1, <1>2, AppendIsConcat DEF Emit
<1>4. LifeStep(run, e) BY DEF LifeStep, Event
<1>5. outbox' \in Seq(Fact) BY <1>1, <1>2, <1>3, AppendProperties
<1> QED BY <1>1, <1>3, <1>4, <1>5 DEF Told, OneFact

\* casTransition publishes the row it writes.
LEMMA TransitionTells ==
    ASSUME PiInv, NEW r \in RunRow, r.st # "none", Transition(r), LifeStep(run, r),
           r.st = "awaiting_input" => r.pend # 0
    PROVE  run' = r /\ Told /\ outbox' \in Seq(Fact)
<1> DEFINE kind == KindForTransition(run.st, r.st)
<1>1. run' = r /\ Emit(<<Event(kind, run')>>) BY DEF Transition
<1>2. kind \in Kinds BY DEF KindForTransition, Kinds, RunRow
<1>3. r.st = "awaiting_input" => kind # "input_cleared" BY DEF KindForTransition
<1> HIDE DEF kind
<1> QED BY <1>1, <1>2, <1>3, EmitTells

\* A step that leaves the row's status, generation and dialog and the outbox alone.
LEMMA SilentTells ==
    ASSUME PiInv, outbox' = outbox, run'.st = run.st, run'.gen = run.gen, run'.pend = run.pend
    PROVE  Told /\ outbox' \in Seq(Fact)
BY DEF PiInv, PiTyped, Told, Silent

\* A settlement publishes the end of its generation, or writes nothing.
LEMMA SettleTells ==
    ASSUME PiInv, NEW g \in Gens, NEW expected \in SUBSET Active, NEW outcome \in Ended,
           SettleTerminal(g, expected, outcome),
           run.gen = g /\ run.st \in expected => <<run.st, outcome>> \in Lifecycle!Edges
    PROVE  /\ Told /\ outbox' \in Seq(Fact)
           /\ run' = run \/ run' = To(outcome)
           /\ run.gen = g /\ run.st \in expected => card # "running" \/ run' = To(outcome)
<1>1. run \in RunRow BY DEF PiInv, PiTyped
<1>2. CASE Settles(g, expected)
  <2>1. To(outcome) \in RunRow /\ To(outcome).st = outcome /\ To(outcome).gen = run.gen
    BY <1>1, ToFacts DEF Ended, Statuses
  <2>2. LifeStep(run, To(outcome)) BY <1>2, <2>1 DEF LifeStep, Settles
  <2>3. Transition(To(outcome)) BY <1>2 DEF SettleTerminal
  <2>4. outcome \notin {"none", "awaiting_input"} BY DEF Ended
  <2> QED BY <2>1, <2>2, <2>3, <2>4, TransitionTells
<1>3. CASE ~Settles(g, expected)
  BY <1>3, SilentTells DEF SettleTerminal, Settles
<1> QED BY <1>2, <1>3

\* Dialogs are untouched by a step that opens none and answers none.
LEMMA DialogsKept ==
    ASSUME PiInv, asked' = asked, written' = written, replies' \in SUBSET replies,
           run'.pend \in {run.pend, 0}, run'.st = "awaiting_input" => run.st = "awaiting_input" /\ run'.pend = run.pend
    PROVE  Dialogs'
<1>1. asked \in Nat /\ replies \in SUBSET ReplyInFlight
  BY Bounds DEF PiInv, PiTyped
<1>2. \A x \in replies : x.req # 0 BY <1>1, Bounds DEF ReplyInFlight
<1> QED BY <1>1, <1>2, Bounds DEF PiInv, Dialogs

-----------------------------------------------------------------------------
(* Every step of the owner keeps its invariant and tells what it did.      *)

PiStep == PiInv' /\ Told

\* The types of what a run row, a process table and an outbox of the right types leave.
LEMMA TypesKept ==
    ASSUME PiInv, run' \in RunRow, run'.st # "none" => run'.gen # 0, proc' \in [Gens -> Process],
           live' \in {live, 0}, replies' \in SUBSET replies, written' = written, asked' = asked,
           outbox' \in Seq(Fact)
    PROVE  PiTyped'
BY DEF PiInv, PiTyped

\* Creation of a run.
LEMMA CreateRunStep ==
    ASSUME PiInv, CreateRun
    PROVE  PiStep
<1> DEFINE d == Event("accepted", run')
           e == Event("queued", run')
<1>1. /\ run' \in RunRow /\ run'.st = "queued" /\ run'.gen = 1 /\ run'.pend = 0
      /\ run.st = "none"
  <2>1. 1 \in Gens BY Bounds
  <2> QED BY <2>1 DEF CreateRun, NoRun, RunRow, Statuses
<1>2. d \in Fact /\ e \in Fact /\ Sound(d) /\ Describes(e, run')
  BY <1>1, EventFacts DEF Kinds, Statuses, Describes
<1>3. outbox \in Seq(Fact) BY DEF PiInv, PiTyped
<1>4. outbox' = outbox \o <<d, e>> BY DEF CreateRun, Emit
<1> HIDE DEF d, e
<1>5. outbox' = Append(Append(outbox, d), e) /\ outbox' \in Seq(Fact)
  BY <1>2, <1>3, <1>4, TwoAppends
<1>6. Told
  <2>1. d.st = "queued" /\ d.gen = 1 /\ e.st = "queued" /\ e.gen = 1
    BY <1>1 DEF d, e, Event
  <2>2. LifeStep(run, d) /\ LifeStep(d, e) BY <1>1, <2>1 DEF LifeStep
  <2> QED BY <1>2, <1>5, <2>2 DEF Told, TwoFacts
<1>7. PiTyped' BY <1>1, <1>5, TypesKept DEF CreateRun, PiInv, PiTyped
<1>8. Processes'
  BY <1>1, <1>7 DEF Processes, CreateRun, PiInv, PiTyped, NoRun
<1>9. Dialogs' BY <1>1, DialogsKept DEF CreateRun
<1> QED BY <1>6, <1>7, <1>8, <1>9 DEF PiStep, PiInv

\* A transition to a state without a dialog, along an edge, whatever happens to
\* the processes, as long as they fit.
LEMMA MoveStep ==
    ASSUME PiInv, NEW status \in Statuses \ {"awaiting_input"}, Transition(To(status)), LifeStep(run, To(status)),
           proc' \in [Gens -> Process], live' \in {0} \cup Gens, Processes',
           UNCHANGED <<replies, written, asked>>
    PROVE  PiStep
<1>1. To(status) \in RunRow /\ To(status).st = status /\ To(status).gen = run.gen /\ To(status).pend = 0
  BY ToFacts DEF PiInv, PiTyped
<1>2. status # "none" BY DEF Statuses, Active, Ended
<1>3. run' = To(status) /\ Told /\ outbox' \in Seq(Fact)
  BY <1>1, <1>2, TransitionTells
<1>4. run.gen # 0
  <2>1. run \in RunRow /\ (run.st # "none" => run.gen # 0) BY DEF PiInv, PiTyped
  <2>2. CASE run.st # "none" BY <2>1, <2>2
  <2>3. CASE run.st = "none"
    BY <1>1, <1>2, <2>1, <2>3 DEF LifeStep, Lifecycle!Edges
  <2> QED BY <2>2, <2>3
<1>5. PiTyped' BY <1>1, <1>3, <1>4 DEF PiInv, PiTyped
<1>6. Dialogs' BY <1>1, <1>3, DialogsKept
<1> QED BY <1>3, <1>5, <1>6 DEF PiStep, PiInv

\* A step that leaves row, outbox and dialogs alone and keeps the processes.
LEMMA QuietStep ==
    ASSUME PiInv, UNCHANGED <<run, outbox, written, asked>>, replies' \in SUBSET replies,
           proc' \in [Gens -> Process], live' \in {0} \cup Gens, Processes'
    PROVE  PiStep
<1>1. Told /\ outbox' \in Seq(Fact) BY SilentTells
<1>2. PiTyped' BY DEF PiInv, PiTyped
<1>3. Dialogs' BY DialogsKept
<1> QED BY <1>1, <1>2, <1>3 DEF PiStep, PiInv

\* A settlement with a change of processes that fits.
LEMMA SettleStep ==
    ASSUME PiInv, NEW g \in Gens, NEW expected \in SUBSET Active, NEW outcome \in Ended,
           SettleTerminal(g, expected, outcome),
           run.gen = g /\ run.st \in expected => <<run.st, outcome>> \in Lifecycle!Edges,
           UNCHANGED <<replies, written, asked>>, live' \in {0} \cup Gens,
           NEW q \in Process, proc' = [proc EXCEPT ![g] = q], ~q.timer, q.ph \notin {"prompting", "live"}
    PROVE  PiStep
<1>1. run' = run \/ run' = To(outcome) BY SettleTells
<1>2. proc \in [Gens -> Process] /\ run \in RunRow /\ Processes BY DEF PiInv, PiTyped
<1>3. proc' \in [Gens -> Process] BY <1>2
<1>4. To(outcome).st = outcome /\ To(outcome).gen = run.gen /\ outcome \in Statuses \ {"awaiting_input"}
  BY <1>2, ToFacts DEF Ended, Statuses
<1>5. Processes'
  <2>1. \A h \in Gens : h # g => proc'[h] = proc[h] BY <1>2
  <2>2. ~proc'[g].timer /\ proc'[g].ph \notin {"prompting", "live"} BY <1>2
  <2>3. CASE run' = run BY <1>2, <2>1, <2>2, <2>3 DEF Processes
  <2>4. CASE run' = To(outcome)
    BY <1>2, <1>4, <2>1, <2>2, <2>4 DEF Processes, Ended
  <2> QED BY <1>1, <2>3, <2>4
<1>6. CASE Settles(g, expected)
  <2>1. LifeStep(run, To(outcome)) BY <1>4, <1>6 DEF LifeStep, Settles
  <2> QED BY <1>3, <1>4, <1>5, <1>6, <2>1, MoveStep DEF SettleTerminal
<1>7. CASE ~Settles(g, expected)
  BY <1>3, <1>5, <1>7, QuietStep DEF SettleTerminal
<1> QED BY <1>6, <1>7

\* _settleAndCleanup.
LEMMA CleanupStep ==
    ASSUME PiInv, NEW g \in Gens, NEW outcome \in Ended, SettleAndCleanup(g, outcome),
           run.gen = g /\ run.st \in Active => <<run.st, outcome>> \in Lifecycle!Edges
    PROVE  PiStep
<1> DEFINE q == [ph |-> "closing", settling |-> TRUE, timer |-> FALSE]
<1>1. q \in Process /\ ~q.timer /\ q.ph \notin {"prompting", "live"} BY DEF Process, Phases
<1>2. proc' = [proc EXCEPT ![g] = q] BY DEF SettleAndCleanup, Closing
<1>3. live' \in {0} \cup Gens BY DEF SettleAndCleanup, PiInv, PiTyped
<1> HIDE DEF q
<1> QED BY <1>1, <1>2, <1>3, SettleStep DEF SettleAndCleanup

\* Every active state may end in a failure.
LEMMA MayFail == \A s \in Active : <<s, "failed">> \in Lifecycle!Edges
BY DEF Active, Lifecycle!Edges

\* The claim of the reconciler.
LEMMA DispatchStep ==
    ASSUME PiInv, Dispatch
    PROVE  PiStep
<1> DEFINE q == [NoProc EXCEPT !.ph = "launching"]
<1>1. run \in RunRow /\ run.gen \in Gens /\ run.st = "queued" /\ proc \in [Gens -> Process] /\ Processes
  BY DEF Dispatch, Claimed, PiInv, PiTyped, RunRow
<1>2. q \in Process /\ ~q.timer /\ q.ph = "launching" BY DEF NoProc, Process, Phases
<1>3. proc' = [proc EXCEPT ![run.gen] = q] BY DEF Dispatch
<1> HIDE DEF q
<1>4. proc' \in [Gens -> Process] /\ proc'[run.gen] = q /\ live' \in Gens
  BY <1>1, <1>2, <1>3 DEF Dispatch
<1>5. "starting" \in Statuses \ {"awaiting_input"} BY DEF Statuses, Active
<1>6. To("starting").st = "starting" /\ To("starting").gen = run.gen BY <1>1, <1>5, ToFacts
<1>7. LifeStep(run, To("starting")) BY <1>1, <1>6 DEF LifeStep, Lifecycle!Edges
<1>8. Transition(To("starting")) /\ run' = To("starting") BY DEF Dispatch, Transition
<1>9. Processes' BY <1>1, <1>2, <1>4, <1>6, <1>8 DEF Processes
<1> QED BY <1>4, <1>5, <1>7, <1>8, <1>9, MoveStep DEF Dispatch

\* A dispatch that is refused publishes the start that did not happen and its failure.
LEMMA DispatchRefusedStep ==
    ASSUME PiInv, DispatchRefused
    PROVE  PiStep
<1> DEFINE d == Event("starting", To("starting"))
           e == Event("failed", To("failed"))
<1>1. run \in RunRow /\ run.st = "queued" /\ run.gen \in Gens /\ outbox \in Seq(Fact)
  BY DEF DispatchRefused, Claimed, PiInv, PiTyped, RunRow
<1>2. "starting" \in Statuses /\ "failed" \in Statuses BY DEF Statuses, Active, Ended
<1>3. /\ To("starting") \in RunRow /\ To("starting").st = "starting" /\ To("starting").gen = run.gen
      /\ To("failed") \in RunRow /\ To("failed").st = "failed" /\ To("failed").gen = run.gen
      /\ To("failed").pend = 0
  BY <1>1, <1>2, ToFacts
<1>4. run' = To("failed") BY DEF DispatchRefused
<1>5. d \in Fact /\ e \in Fact /\ Sound(d) /\ Describes(e, run')
  BY <1>2, <1>3, <1>4, EventFacts DEF Kinds, Describes
<1>6. d.st = "starting" /\ d.gen = run.gen /\ e.st = "failed" /\ e.gen = run.gen
  BY <1>3 DEF Event
<1>7. outbox' = outbox \o <<d, e>> BY DEF DispatchRefused, Emit
<1> HIDE DEF d, e
<1>8. outbox' = Append(Append(outbox, d), e) /\ outbox' \in Seq(Fact)
  BY <1>1, <1>5, <1>7, TwoAppends
<1>9. LifeStep(run, d) /\ LifeStep(d, e) BY <1>1, <1>6 DEF LifeStep, Lifecycle!Edges
<1>10. Told BY <1>5, <1>8, <1>9 DEF Told, TwoFacts
<1>11. PiTyped' BY <1>1, <1>3, <1>4, <1>8 DEF DispatchRefused, PiInv, PiTyped
<1>12. Processes' BY <1>3, <1>4 DEF Processes, DispatchRefused, PiInv
<1>13. Dialogs' BY <1>3, <1>4, DialogsKept DEF DispatchRefused
<1> QED BY <1>10, <1>11, <1>12, <1>13 DEF PiStep, PiInv

\* The launch fails, or its client is there.
LEMMA LaunchStep ==
    ASSUME PiInv, NEW g \in Gens, LaunchFails(g) \/ LaunchOk(g)
    PROVE  PiStep
<1>1. proc \in [Gens -> Process] /\ Processes /\ live \in {0} \cup Gens BY DEF PiInv, PiTyped
<1>2. CASE LaunchFails(g)
  <2>1. NoProc \in Process /\ ~NoProc.timer /\ NoProc.ph = "none" BY DEF NoProc, Process, Phases
  <2>2. proc' = [proc EXCEPT ![g] = NoProc] BY <1>2 DEF LaunchFails, Gone
  <2>3. {"starting"} \in SUBSET Active /\ "failed" \in Ended BY DEF Active, Ended
  <2>4. <<"starting", "failed">> \in Lifecycle!Edges BY DEF Lifecycle!Edges
  <2> QED BY <1>2, <2>1, <2>2, <2>3, <2>4, SettleStep DEF LaunchFails
<1>3. CASE LaunchOk(g)
  <2>1. proc' \in [Gens -> Process] /\ live' \in {0} \cup Gens
    <3>1. NoProc \in Process BY DEF NoProc, Process, Phases
    <3>2. [proc EXCEPT ![g].ph = "probing"] \in [Gens -> Process] BY <1>1 DEF Process, Phases
    <3>3. [proc EXCEPT ![g] = NoProc] \in [Gens -> Process] BY <1>1, <3>1
    <3> QED BY <1>1, <1>3, <3>2, <3>3 DEF LaunchOk, Gone
  <2>2. \A h \in Gens : /\ proc'[h].timer => proc[h].timer
                        /\ proc'[h].ph \in {"prompting", "live"} => proc[h].ph \in {"prompting", "live"}
    BY <1>1, <1>3 DEF LaunchOk, Gone, NoProc, Process, Phases
  <2>3. Processes' BY <1>1, <1>3, <2>2 DEF Processes, LaunchOk
  <2> QED BY <1>3, <2>1, <2>3, QuietStep DEF LaunchOk
<1> QED BY <1>2, <1>3

\* The first state was probed.
LEMMA ProbeOkStep ==
    ASSUME PiInv, NEW g \in Gens, NEW cap \in BOOLEAN, ProbeOk(g, cap)
    PROVE  PiStep
<1> DEFINE r == [To("running") EXCEPT !.cap = cap]
<1>1. /\ run \in RunRow /\ run.gen = g /\ run.st = "starting" /\ proc \in [Gens -> Process]
      /\ Processes
  BY DEF ProbeOk, PiInv, PiTyped
<1>2. "running" \in Statuses BY DEF Statuses, Active
<1>3. To("running") \in RunRow /\ To("running").st = "running" /\ To("running").gen = g /\ To("running").pend = 0
  BY <1>1, <1>2, ToFacts
<1>4. r \in RunRow /\ r.st = "running" /\ r.gen = g /\ r.pend = 0 BY <1>3 DEF RunRow
<1>5. Transition(r) BY DEF ProbeOk
<1> HIDE DEF r
<1>6. LifeStep(run, r) BY <1>1, <1>4 DEF LifeStep, Lifecycle!Edges
<1>7. run' = r /\ Told /\ outbox' \in Seq(Fact) BY <1>4, <1>5, <1>6, TransitionTells
<1>8. proc' \in [Gens -> Process] /\ proc'[g].timer = proc[g].timer
  BY <1>1 DEF ProbeOk, Process, Phases
<1>9. PiTyped' BY <1>4, <1>7, <1>8 DEF ProbeOk, PiInv, PiTyped, Gens
<1>10. Processes' BY <1>1, <1>4, <1>7, <1>8 DEF Processes
<1>11. Dialogs' BY <1>4, <1>7, DialogsKept DEF ProbeOk
<1> QED BY <1>7, <1>9, <1>10, <1>11 DEF PiStep, PiInv

\* The start of a generation.
LEMMA StartsStep ==
    ASSUME PiInv, NEW g \in Gens, Starts(g)
    PROVE  PiStep
<1>1. CASE LaunchFails(g) \/ LaunchOk(g) BY <1>1, LaunchStep
<1>2. CASE ProbeFails(g) \/ ProbeLosesCas(g) \/ PromptFails(g)
  <2>1. SettleAndCleanup(g, "failed") BY <1>2 DEF ProbeFails, ProbeLosesCas, PromptFails
  <2>2. "failed" \in Ended BY DEF Ended
  <2> QED BY <2>1, <2>2, MayFail, CleanupStep
<1>3. CASE \E cap \in BOOLEAN : ProbeOk(g, cap) BY <1>3, ProbeOkStep
<1>4. CASE PromptOk(g)
  <2>1. proc \in [Gens -> Process] /\ Processes /\ live \in {0} \cup Gens BY DEF PiInv, PiTyped
  <2>2. /\ proc' \in [Gens -> Process]
        /\ \A h \in Gens : /\ proc'[h].timer = proc[h].timer
                           /\ proc'[h].ph \in {"prompting", "live"} => proc[h].ph \in {"prompting", "live"}
    BY <1>4, <2>1 DEF PromptOk, Process, Phases
  <2>3. Processes' BY <1>4, <2>1, <2>2 DEF Processes, PromptOk
  <2> QED BY <1>4, <2>1, <2>2, <2>3, QuietStep DEF PromptOk
<1> QED BY <1>1, <1>2, <1>3, <1>4 DEF Starts

\* The agent opens a dialog with a number of its own.
LEMMA AskUserStep ==
    ASSUME PiInv, NEW g \in Gens, AskUser(g)
    PROVE  PiStep
<1> DEFINE r == [run EXCEPT !.st = "awaiting_input", !.pend = asked + 1]
<1>1. run \in RunRow /\ run.st = "running" /\ run.pend = 0 /\ PiTyped /\ Processes /\ Dialogs
  BY DEF AskUser, Speaks, PiInv, PiTyped
<1>2. asked \in Nat /\ asked + 1 \in Requests /\ asked' = asked + 1
  BY Bounds DEF AskUser, PiInv, PiTyped
<1>3. r \in RunRow /\ r.st = "awaiting_input" /\ r.gen = run.gen /\ r.pend = asked + 1
  BY <1>1, <1>2 DEF RunRow, Statuses, Active
<1>4. Transition(r) BY DEF AskUser
<1> HIDE DEF r
<1>5. LifeStep(run, r) BY <1>1, <1>3 DEF LifeStep, Lifecycle!Edges
<1>6. r.pend # 0 BY <1>2, <1>3
<1>7. run' = r /\ Told /\ outbox' \in Seq(Fact) BY <1>3, <1>4, <1>5, <1>6, TransitionTells
<1>8. PiTyped' BY <1>1, <1>2, <1>3, <1>7 DEF AskUser, PiTyped
<1>9. Processes' BY <1>1, <1>3, <1>7 DEF AskUser, Processes
<1>10. Dialogs'
  <2>1. \A x \in replies : x.req \in Nat /\ x.req \in Requests BY <1>1, Bounds DEF PiTyped, ReplyInFlight
  <2>2. run'.pend = asked + 1 /\ UNCHANGED <<written, replies>> BY <1>3, <1>7 DEF AskUser
  <2> QED BY <1>1, <1>2, <1>6, <1>7, <2>1, <2>2, Bounds DEF Dialogs
<1> QED BY <1>7, <1>8, <1>9, <1>10 DEF PiStep, PiInv

\* A progress event repeats what the row says.
LEMMA ProgressStep ==
    ASSUME PiInv, NEW g \in Gens, Progress(g)
    PROVE  PiStep
<1>1. Emit(<<Event("progress", run)>>) /\ UNCHANGED <<run, card, proc, live, host, replies, written, asked, faults>>
  BY DEF Progress
<1>2. run' \in RunRow /\ LifeStep(run, run') /\ "progress" \in Kinds /\ (run'.st = "awaiting_input" => run'.pend # 0)
  BY <1>1 DEF PiInv, PiTyped, Dialogs, LifeStep, Kinds
<1>3. Emit(<<Event("progress", run')>>) BY <1>1
<1>4. Told /\ outbox' \in Seq(Fact) BY <1>2, <1>3, EmitTells
<1>5. PiTyped' BY <1>1, <1>4 DEF PiInv, PiTyped
<1>6. Processes' /\ Dialogs' BY <1>1 DEF PiInv, Processes, Dialogs
<1> QED BY <1>4, <1>5, <1>6 DEF PiStep, PiInv

\* The process ends: agent_end, its death, or the abort timer.
LEMMA EndStep ==
    ASSUME PiInv, NEW g \in Gens, Ends(g) \/ GraceExpires(g)
    PROVE  PiStep
<1>1. proc \in [Gens -> Process] /\ run \in RunRow /\ Processes BY DEF PiInv, PiTyped
<1>2. {"completed", "failed", "cancelled"} \subseteq Ended BY DEF Ended
<1>3. ASSUME NEW ok \in BOOLEAN, Completion(g, ok)
      PROVE  PiStep
  <2> DEFINE outcome == IF run.st = "cancelling" THEN "cancelled" ELSE IF ok THEN "completed" ELSE "failed"
  <2>1. SettleAndCleanup(g, outcome) BY <1>3 DEF Completion
  <2>2. outcome \in Ended BY <1>2
  <2>3. run.gen = g => run.st # "starting"
    BY <1>1, <1>3 DEF Completion, Speaks, Processes
  <2>4. run.gen = g /\ run.st \in Active => <<run.st, outcome>> \in Lifecycle!Edges
    BY <2>3 DEF Active, Lifecycle!Edges
  <2> HIDE DEF outcome
  <2> QED BY <2>1, <2>2, <2>4, CleanupStep
<1>4. CASE ChildDies(g)
  BY <1>2, <1>4, MayFail, CleanupStep DEF ChildDies
<1>5. CASE GraceExpires(g)
  <2>1. run.gen = g /\ run.st \in Active => run.st = "cancelling"
    BY <1>1, <1>5 DEF GraceExpires, Processes, Active
  <2>2. <<"cancelling", "cancelled">> \in Lifecycle!Edges BY DEF Lifecycle!Edges
  <2> QED BY <1>2, <1>5, <2>1, <2>2, CleanupStep DEF GraceExpires
<1> QED BY <1>3, <1>4, <1>5 DEF Ends

\* The client of a settled generation has closed.
LEMMA ReleasedStep ==
    ASSUME PiInv, NEW g \in Gens, Released(g)
    PROVE  PiStep
<1>1. proc \in [Gens -> Process] /\ Processes /\ live \in {0} \cup Gens BY DEF PiInv, PiTyped
<1>2. NoProc \in Process /\ ~NoProc.timer /\ NoProc.ph = "none" BY DEF NoProc, Process, Phases
<1>3. proc' = [proc EXCEPT ![g] = NoProc] BY DEF Released, Gone
<1>4. proc' \in [Gens -> Process] /\ live' \in {0} \cup Gens BY <1>1, <1>2, <1>3 DEF Released
<1>5. Processes' BY <1>1, <1>2, <1>3 DEF Processes, Released
<1> QED BY <1>4, <1>5, QuietStep DEF Released

\* A cancel: of an active run whose generation is live, and only that sets a timer.
LEMMA CancelStep ==
    ASSUME PiInv, Cancel
    PROVE  PiStep
<1>1. /\ run \in RunRow /\ run.gen = live /\ live \in Gens /\ proc \in [Gens -> Process] /\ Processes
      /\ run.st \in {"starting", "running", "awaiting_input"}
  BY DEF Cancel, CancelTakes, Controllable, PiInv, PiTyped, RunRow
<1>2. "cancelling" \in Statuses \ {"awaiting_input"} BY DEF Statuses, Active
<1>3. To("cancelling").st = "cancelling" /\ To("cancelling").gen = live BY <1>1, <1>2, ToFacts
<1>4. LifeStep(run, To("cancelling")) BY <1>1, <1>3 DEF LifeStep, Lifecycle!Edges
<1>5. Transition(To("cancelling")) /\ run' = To("cancelling") BY DEF Cancel, Transition
<1>6. HasClient \in BOOLEAN BY DEF HasClient
<1>7. proc' \in [Gens -> Process] BY <1>1, <1>6 DEF Cancel, Process
<1>8. Processes' BY <1>1, <1>3, <1>5 DEF Processes
<1> QED BY <1>2, <1>4, <1>5, <1>7, <1>8, MoveStep DEF Cancel, PiInv, PiTyped

\* A reply takes its dialog off the row before it writes, and is the only one in
\* flight for that dialog.
LEMMA ReplyStep ==
    ASSUME PiInv, NEW r \in {0} \cup Requests, NEW by \in Commands, NEW wrote \in BOOLEAN, Reply(r, by, wrote)
    PROVE  PiStep
<1> DEFINE s == [To("running") EXCEPT !.last = r, !.out = "claimed"]
           x == [gen |-> run.gen, req |-> r, by |-> by, wrote |-> wrote]
<1>1. run \in RunRow /\ run.st = "awaiting_input" /\ run.pend = r /\ PiTyped /\ Processes /\ Dialogs
  BY DEF Reply, ReplyTakes, PiInv, PiTyped
<1>2. r \in Requests BY <1>1 DEF Dialogs
<1>3. "running" \in Statuses BY DEF Statuses, Active
<1>4. To("running") \in RunRow /\ To("running").st = "running" /\ To("running").gen = run.gen /\ To("running").pend = 0
  BY <1>1, <1>3, ToFacts
<1>5. s \in RunRow /\ s.st = "running" /\ s.gen = run.gen /\ s.pend = 0
  BY <1>2, <1>4 DEF RunRow
<1>6. x \in ReplyInFlight /\ x.req = r /\ x.wrote = wrote BY <1>1, <1>2 DEF ReplyInFlight, RunRow
<1>7. Transition(s) /\ replies' = replies \cup {x} BY DEF Reply
<1> HIDE DEF s, x
<1>8. LifeStep(run, s) BY <1>1, <1>5 DEF LifeStep, Lifecycle!Edges
<1>9. run' = s /\ Told /\ outbox' \in Seq(Fact) BY <1>5, <1>7, <1>8, TransitionTells
<1>10. written \in [Requests -> Nat] BY <1>1 DEF PiTyped
<1>11. written' = [written EXCEPT ![r] = @ + (IF wrote THEN 1 ELSE 0)] BY DEF Reply
<1>12. written' \in [Requests -> Nat]
  <2>1. written[r] + (IF wrote THEN 1 ELSE 0) \in Nat BY <1>2, <1>10
  <2> QED BY <1>10, <1>11, <2>1
<1>13. PiTyped' BY <1>1, <1>5, <1>6, <1>7, <1>9, <1>12 DEF Reply, PiTyped
<1>14. Processes' BY <1>1, <1>5, <1>9 DEF Reply, Processes
<1>15. Dialogs'
  <2>1. asked \in Nat /\ asked' = asked /\ r <= asked /\ r \in Nat /\ r # 0
    BY <1>1, <1>2, Bounds DEF PiTyped, Dialogs, Reply
  <2>2. \A y \in replies : y.req \in Requests /\ y.req # r /\ y.req # 0 BY <1>1, Bounds DEF PiTyped, ReplyInFlight, Dialogs
  <2>3. \A q \in Requests : q # r => written'[q] = written[q] BY <1>10, <1>11
  <2>4. written[r] = 0 BY <1>1, <1>2, <1>10 DEF Dialogs
  <2>5. written'[r] = IF wrote THEN 1 ELSE 0 BY <1>2, <1>10, <1>11, <2>4
  <2>6. \A q \in Requests : (q > asked => written'[q] = 0) /\ written'[q] <= 1 /\ (written'[q] = 1 => q # 0)
    BY <1>1, <1>2, <2>1, <2>3, <2>5, Bounds DEF Dialogs
  <2>7. \A y \in replies' : /\ y.req <= asked /\ y.req # 0
                            /\ ~y.wrote => written'[y.req] = 0
                            /\ \A z \in replies' : y.req = z.req => y = z
    <3>1. \A y \in replies : y.req <= asked /\ (~y.wrote => written[y.req] = 0) /\ \A z \in replies : y.req = z.req => y = z
      BY <1>1 DEF Dialogs
    <3>2. x.req <= asked /\ x.req # 0 /\ (~x.wrote => written'[x.req] = 0)
      BY <1>6, <2>1, <2>5
    <3> QED BY <1>6, <1>7, <2>2, <2>3, <3>1, <3>2
  <2>8. run'.st = "running" /\ run'.pend = 0 BY <1>5, <1>9
  <2> QED BY <2>1, <2>6, <2>7, <2>8 DEF Dialogs
<1> QED BY <1>9, <1>13, <1>14, <1>15 DEF PiStep, PiInv

\* The RPC of a reply returns: its outcome is noted, or a proven failure puts the
\* dialog back if nothing moved on.
LEMMA ReplyReturnsStep ==
    ASSUME PiInv, NEW x \in replies, ReplyReturns(x)
    PROVE  PiStep
<1>1. run \in RunRow /\ x \in ReplyInFlight /\ PiTyped /\ Processes /\ Dialogs BY DEF PiInv, PiTyped
<1>2. replies' = replies \ {x} /\ UNCHANGED <<proc, live, written, asked>> BY DEF ReplyReturns
<1>3. ASSUME UNCHANGED outbox, run' \in RunRow, run'.st = run.st, run'.gen = run.gen, run'.pend = run.pend
      PROVE  PiStep
  <2>1. Told /\ outbox' \in Seq(Fact) BY <1>3, SilentTells
  <2>2. PiTyped' BY <1>1, <1>2, <1>3, <2>1 DEF PiTyped
  <2>3. Processes' BY <1>1, <1>2, <1>3 DEF Processes
  <2>4. Dialogs' BY <1>2, <1>3, DialogsKept
  <2> QED BY <2>1, <2>2, <2>3, <2>4 DEF PiStep, PiInv
<1>4. CASE /\ UNCHANGED outbox
           /\ run' = IF run.gen = x.gen /\ run.last = x.req /\ run.out = "claimed"
                     THEN [run EXCEPT !.out = "unknown"] ELSE run
  <2>1. [run EXCEPT !.out = "unknown"] \in RunRow BY <1>1 DEF RunRow
  <2>2. /\ [run EXCEPT !.out = "unknown"].st = run.st /\ [run EXCEPT !.out = "unknown"].gen = run.gen
        /\ [run EXCEPT !.out = "unknown"].pend = run.pend
    BY <1>1 DEF RunRow
  <2> QED BY <1>1, <1>3, <1>4, <2>1, <2>2
<1>5. CASE ~x.wrote /\ ~Restores(x) /\ UNCHANGED <<run, outbox>> BY <1>1, <1>3, <1>5
<1>6. ASSUME ~x.wrote, Restores(x),
             Transition([run EXCEPT !.st = "awaiting_input", !.pend = x.req, !.out = "none"])
      PROVE  PiStep
  <2> DEFINE r == [run EXCEPT !.st = "awaiting_input", !.pend = x.req, !.out = "none"]
  <2>1. run.st = "running" /\ run.pend = 0 /\ x.req \in Requests /\ x.req # 0
    BY <1>1, <1>6, Bounds DEF Restores, ReplyInFlight
  <2>2. r \in RunRow /\ r.st = "awaiting_input" /\ r.gen = run.gen /\ r.pend = x.req
    BY <1>1, <2>1 DEF RunRow, Statuses, Active
  <2> HIDE DEF r
  <2>3. LifeStep(run, r) BY <2>1, <2>2 DEF LifeStep, Lifecycle!Edges
  <2>4. run' = r /\ Told /\ outbox' \in Seq(Fact) BY <1>6, <2>1, <2>2, <2>3, TransitionTells DEF r
  <2>5. PiTyped' BY <1>1, <1>2, <2>1, <2>2, <2>4 DEF PiTyped
  <2>6. Processes' BY <1>1, <1>2, <2>1, <2>2, <2>4 DEF Processes
  <2>7. Dialogs'
    <3>1. x.req <= asked /\ written[x.req] = 0 /\ \A y \in replies : x.req = y.req => x = y
      BY <1>1, <1>6 DEF Dialogs
    <3>2. run'.pend = x.req /\ UNCHANGED <<written, asked>> /\ replies' = replies \ {x}
      BY <1>2, <2>2, <2>4
    <3> QED BY <1>1, <2>1, <3>1, <3>2 DEF Dialogs
  <2> QED BY <2>4, <2>5, <2>6, <2>7 DEF PiStep, PiInv
<1> QED BY <1>4, <1>5, <1>6 DEF ReplyReturns

\* A resume opens the next generation, or finds the saved session invalid.
LEMMA ResumeStep ==
    ASSUME PiInv, Resume \/ ResumeRefused
    PROVE  PiStep
<1>1. run \in RunRow /\ run.st \in {"interrupted", "failed"} /\ run.gen \in Gens /\ PiTyped /\ Processes /\ Dialogs
  BY DEF Resume, ResumeRefused, Resumable, PiInv, PiTyped, RunRow
<1>2. CASE Resume
  <2> DEFINE r == [To("queued") EXCEPT !.gen = run.gen + 1]
  <2>1. "queued" \in Statuses BY DEF Statuses
  <2>2. To("queued") \in RunRow /\ To("queued").st = "queued" /\ To("queued").pend = 0
    BY <1>1, <2>1, ToFacts
  <2>3. run.gen + 1 \in Gens /\ run.gen + 1 # 0 BY <1>1, <1>2, Bounds DEF Resume
  <2>4. r \in RunRow /\ r.st = "queued" /\ r.gen = run.gen + 1 /\ r.pend = 0
    BY <2>2, <2>3 DEF RunRow
  <2>5. run' = r /\ Emit(<<Event("resumed", r)>>) /\ UNCHANGED <<proc, live, replies, written, asked>>
    BY <1>2 DEF Resume
  <2> HIDE DEF r
  <2>6. LifeStep(run, r) BY <1>1, <2>4 DEF LifeStep
  <2>7. "resumed" \in Kinds BY DEF Kinds
  <2>8. Told /\ outbox' \in Seq(Fact) BY <2>4, <2>5, <2>6, <2>7, EmitTells
  <2>9. PiTyped' BY <1>1, <2>3, <2>4, <2>5, <2>8 DEF PiTyped
  <2>10. Processes'
    BY <1>1, <2>4, <2>5 DEF Processes
  <2>11. Dialogs' BY <2>4, <2>5, DialogsKept
  <2> QED BY <2>8, <2>9, <2>10, <2>11 DEF PiStep, PiInv
<1>3. CASE ResumeRefused
  <2>1. /\ run' = [run EXCEPT !.cap = FALSE]
        /\ UNCHANGED <<proc, live, replies, written, asked, outbox>>
    BY <1>3 DEF ResumeRefused
  <2>2. run' \in RunRow /\ run'.st = run.st /\ run'.gen = run.gen /\ run'.pend = run.pend
    BY <1>1, <2>1 DEF RunRow
  <2>3. Told /\ outbox' \in Seq(Fact) BY <2>1, <2>2, SilentTells
  <2>4. PiTyped' BY <1>1, <2>1, <2>2 DEF PiTyped
  <2>5. Processes' BY <1>1, <2>1, <2>2 DEF Processes
  <2>6. Dialogs' BY <2>1, <2>2, DialogsKept
  <2> QED BY <2>3, <2>4, <2>5, <2>6 DEF PiStep, PiInv
<1> QED BY <1>2, <1>3

\* The row an interruption writes; the generation keeps its number.
LEMMA InterruptedRow ==
    ASSUME PiInv, NEW cap \in BOOLEAN
    PROVE  LET r == [To("interrupted") EXCEPT !.cap = cap]
           IN  r \in RunRow /\ r.st = "interrupted" /\ r.gen = run.gen /\ r.pend = 0
<1>1. "interrupted" \in Statuses /\ run \in RunRow BY DEF Statuses, PiInv, PiTyped
<1>2. To("interrupted") \in RunRow /\ To("interrupted").st = "interrupted" /\ To("interrupted").gen = run.gen
      /\ To("interrupted").pend = 0
  BY <1>1, ToFacts
<1> QED BY <1>2 DEF RunRow

\* Every active state may be interrupted.
LEMMA MayBeInterrupted == \A s \in Active : <<s, "interrupted">> \in Lifecycle!Edges
BY DEF Active, Lifecycle!Edges

\* interruptGeneration writes the interruption with its event, or nothing; no timer
\* is set and no generation gets further by it.
LEMMA InterruptStep ==
    ASSUME PiInv, NEW g \in Gens, NEW cap \in BOOLEAN, Interrupt(g, cap),
           UNCHANGED <<replies, written, asked>>, live' \in {0} \cup Gens, proc' \in [Gens -> Process],
           \A h \in Gens : /\ proc'[h].timer => proc[h].timer
                           /\ proc'[h].ph \in {"prompting", "live"} => proc[h].ph \in {"prompting", "live"}
    PROVE  PiStep
<1> DEFINE r == [To("interrupted") EXCEPT !.cap = cap]
<1>1. r \in RunRow /\ r.st = "interrupted" /\ r.gen = run.gen /\ r.pend = 0 BY InterruptedRow
<1>2. PiTyped /\ Processes BY DEF PiInv
<1>3. CASE run.gen = g /\ run.st \in Active /\ card = "running"
  <2>1. Transition(r) BY <1>3 DEF Interrupt
  <2> HIDE DEF r
  <2>2. LifeStep(run, r) BY <1>1, <1>3, MayBeInterrupted DEF LifeStep
  <2>3. run' = r /\ Told /\ outbox' \in Seq(Fact) BY <1>1, <2>1, <2>2, TransitionTells
  <2>4. run.gen # 0 BY <1>3, Bounds
  <2>5. PiTyped' BY <1>1, <1>2, <2>3, <2>4 DEF PiTyped
  <2>6. Processes' BY <1>1, <1>2, <2>3 DEF Processes
  <2>7. Dialogs' BY <1>1, <2>3, DialogsKept
  <2> QED BY <2>3, <2>5, <2>6, <2>7 DEF PiStep, PiInv
<1>4. CASE ~(run.gen = g /\ run.st \in Active /\ card = "running")
  <2>1. UNCHANGED <<run, outbox>> BY <1>4 DEF Interrupt
  <2>2. Processes' BY <1>2, <2>1 DEF Processes
  <2> QED BY <2>1, <2>2, QuietStep
<1> QED BY <1>3, <1>4

\* interruptAll.
LEMMA StopHostStep ==
    ASSUME PiInv, StopHost
    PROVE  PiStep
<1>1. proc \in [Gens -> Process] /\ live \in {0} \cup Gens /\ Processes BY DEF PiInv, PiTyped
<1>2. CASE live # 0 /\ proc[live].ph = "launching"
  <2>1. Interrupt(live, FALSE) /\ live' = 0 /\ live \in Gens /\ UNCHANGED <<proc, replies, written, asked>>
    BY <1>1, <1>2 DEF StopHost
  <2> QED BY <1>1, <2>1, InterruptStep
<1>3. CASE ~(live # 0 /\ proc[live].ph = "launching")
  <2> DEFINE taken(g) == [proc[g] EXCEPT !.settling = TRUE, !.timer = FALSE]
  <2>1. proc' = [g \in Gens |-> IF g = live THEN taken(g) ELSE proc[g]]
    BY <1>3 DEF StopHost
  <2>2. UNCHANGED <<run, outbox, live, replies, written, asked>> BY <1>3 DEF StopHost
  <2>3. \A g \in Gens : taken(g) \in Process /\ taken(g).ph = proc[g].ph /\ ~taken(g).timer
    BY <1>1 DEF Process
  <2> HIDE DEF taken
  <2>4. /\ proc' \in [Gens -> Process]
        /\ \A h \in Gens : (proc'[h].timer => proc[h].timer) /\ proc'[h].ph = proc[h].ph
    BY <1>1, <2>1, <2>3
  <2>5. Processes' BY <1>1, <2>2, <2>4 DEF Processes
  <2> QED BY <1>1, <2>2, <2>4, <2>5, QuietStep
<1> QED BY <1>2, <1>3

\* The interruption of a generation whose state was probed.
LEMMA InterruptsStep ==
    ASSUME PiInv, NEW g \in Gens, Interrupts(g)
    PROVE  PiStep
<1> DEFINE q == [ph |-> "closing", settling |-> TRUE, timer |-> FALSE]
<1>1. PICK cap \in BOOLEAN : InterruptCommits(g, cap) BY DEF Interrupts
<1>2. q \in Process /\ ~q.timer /\ q.ph = "closing" BY DEF Process, Phases
<1>3. Interrupt(g, cap) /\ proc' = [proc EXCEPT ![g] = q] /\ UNCHANGED <<live, replies, written, asked>>
  BY <1>1 DEF InterruptCommits, Closing
<1> HIDE DEF q
<1>4. proc \in [Gens -> Process] /\ live \in {0} \cup Gens BY DEF PiInv, PiTyped
<1>5. /\ proc' \in [Gens -> Process]
      /\ \A h \in Gens : /\ proc'[h].timer => proc[h].timer
                         /\ proc'[h].ph \in {"prompting", "live"} => proc[h].ph \in {"prompting", "live"}
  BY <1>2, <1>3, <1>4
<1> QED BY <1>3, <1>4, <1>5, InterruptStep

\* The process of the host ends.
LEMMA DownStep ==
    ASSUME PiInv, Down
    PROVE  PiStep
<1>1. NoProc \in Process /\ ~NoProc.timer /\ NoProc.ph = "none" BY DEF NoProc, Process, Phases
<1>2. proc' \in [Gens -> Process] /\ live' \in {0} \cup Gens BY <1>1 DEF Down
<1>3. Processes' BY <1>1 DEF Processes, Down
<1> QED BY <1>2, <1>3, QuietStep DEF Down

\* recoverNonterminal at boot.
LEMMA BootStep ==
    ASSUME PiInv, Boots
    PROVE  PiStep
<1>1. PICK cap \in BOOLEAN : Boot(cap) BY DEF Boots
<1> DEFINE r == [To("interrupted") EXCEPT !.cap = cap]
<1>2. r \in RunRow /\ r.st = "interrupted" /\ r.gen = run.gen /\ r.pend = 0 BY InterruptedRow
<1>3. PiTyped /\ Processes /\ run \in RunRow /\ outbox \in Seq(Fact) BY DEF PiInv, PiTyped
<1>4. UNCHANGED <<proc, live, replies, written, asked>> BY <1>1 DEF Boot
<1>5. CASE run.st \in Active
  <2>1. run' = r /\ outbox' = Append(outbox, Event("interrupted", r)) BY <1>1, <1>5 DEF Boot
  <2> HIDE DEF r
  <2>2. LifeStep(run, Event("interrupted", r))
    BY <1>2, <1>5, MayBeInterrupted DEF LifeStep, Event
  <2>3. Event("interrupted", r) \in Fact /\ Describes(Event("interrupted", r), run')
    BY <1>2, <2>1, EventFacts DEF Kinds, Statuses
  <2>4. Told /\ outbox' \in Seq(Fact) BY <1>3, <2>1, <2>2, <2>3, AppendProperties DEF Told, OneFact
  <2>5. PiTyped' BY <1>2, <1>3, <1>4, <1>5, <2>1, <2>4 DEF PiTyped, Active
  <2>6. Processes' BY <1>2, <1>3, <1>4, <2>1 DEF Processes
  <2>7. Dialogs' BY <1>2, <1>4, <2>1, DialogsKept
  <2> QED BY <2>4, <2>5, <2>6, <2>7 DEF PiStep, PiInv
<1>6. CASE run.st \notin Active
  <2>1. outbox' = outbox /\ (run' = run \/ run' = [run EXCEPT !.cap = cap]) BY <1>1, <1>6 DEF Boot
  <2>2. run' \in RunRow /\ run'.st = run.st /\ run'.gen = run.gen /\ run'.pend = run.pend
    BY <1>3, <2>1 DEF RunRow
  <2>3. Told /\ outbox' \in Seq(Fact) BY <2>1, <2>2, SilentTells
  <2>4. PiTyped' BY <1>3, <1>4, <2>2, <2>3 DEF PiTyped
  <2>5. Processes' BY <1>3, <1>4, <2>2 DEF Processes
  <2>6. Dialogs' BY <1>4, <2>2, DialogsKept
  <2> QED BY <2>3, <2>4, <2>5, <2>6 DEF PiStep, PiInv
<1> QED BY <1>5, <1>6

\* The owner by itself.
LEMMA OwnerNextStep ==
    ASSUME PiInv, OwnerNext
    PROVE  PiStep
<1>1. ASSUME NEW g \in Gens,
             Starts(g) \/ Talks(g) \/ Ends(g) \/ GraceExpires(g) \/ Released(g) \/ Interrupts(g)
      PROVE  PiStep
  BY <1>1, StartsStep, AskUserStep, ProgressStep, EndStep, ReleasedStep, InterruptsStep DEF Talks
<1>2. ASSUME NEW x \in replies, ReplyReturns(x)
      PROVE  PiStep
  BY <1>2, ReplyReturnsStep
<1>3. CASE CreateRun \/ Dispatch \/ DispatchRefused
  BY <1>3, CreateRunStep, DispatchStep, DispatchRefusedStep
<1>4. CASE StopHost \/ Exit \/ Crash \/ Boots
  BY <1>4, StopHostStep, DownStep, BootStep DEF Exit, Crash
<1> QED BY <1>1, <1>2, <1>3, <1>4 DEF OwnerNext

-----------------------------------------------------------------------------
(* The outbox as the origin reads it.                                      *)

\* One more event that follows from where the events lead.
LEMMA AppendLeads ==
    ASSUME NEW q \in Seq(Fact), NEW e \in Fact, applied \in 0 .. Len(q), Leads(q), Sound(e), LifeStep(Goal(q), e)
    PROVE  Leads(Append(q, e)) /\ Goal(Append(q, e)) = e /\ applied # Len(Append(q, e))
<1> DEFINE p == Append(q, e)
<1>1. Len(q) \in Nat /\ applied \in Nat BY LenProperties
<1>2. Len(p) = Len(q) + 1 /\ p[Len(q) + 1] = e /\ \A i \in 1 .. Len(q) : p[i] = q[i]
  BY AppendProperties
<1> HIDE DEF p
<1>3. Goal(p) = e /\ applied # Len(p) BY <1>1, <1>2 DEF Goal
<1>4. ASSUME NEW i \in applied + 1 .. Len(p)
      PROVE  Sound(p[i]) /\ LifeStep(IF i = applied + 1 THEN origin ELSE p[i - 1], p[i])
  <2>1. CASE i = Len(q) + 1
    <3>1. (IF i = applied + 1 THEN origin ELSE p[i - 1]) = Goal(q)
      BY <1>1, <1>2, <2>1 DEF Goal
    <3> QED BY <1>2, <2>1, <3>1
  <2>2. CASE i # Len(q) + 1
    <3>1. i \in applied + 1 .. Len(q) /\ p[i] = q[i] /\ (i # applied + 1 => p[i - 1] = q[i - 1])
      BY <1>1, <1>2, <2>2
    <3> QED BY <3>1 DEF Leads
  <2> QED BY <2>1, <2>2
<1>5. Leads(p) BY <1>4 DEF Leads
<1> QED BY <1>3, <1>5 DEF p

\* The events lead to the row.
LEMMA GoalIsRow ==
    ASSUME Story, outbox \in Seq(Fact)
    PROVE  Goal(outbox).st = run.st /\ Goal(outbox).gen = run.gen
<1>1. Len(outbox) \in Nat /\ (outbox = <<>> => Len(outbox) = 0) BY EmptySeq, LenProperties
<1> QED BY <1>1 DEF Story, Goal, Mirrors, Describes

\* What the owner tells continues the story.
LEMMA StoryTold ==
    ASSUME Story, Told, outbox \in Seq(Fact), UNCHANGED <<origin, applied>>
    PROVE  Story'
<1>1. Goal(outbox).st = run.st /\ Goal(outbox).gen = run.gen BY GoalIsRow
<1>2. CASE Silent
  <2>1. Leads(outbox)' BY <1>2 DEF Silent, Story, Leads
  <2> QED BY <1>2, <2>1 DEF Silent, Story, Describes, Mirrors
<1>3. ASSUME NEW q \in Seq(Fact), NEW e \in Fact, outbox' = Append(q, e), applied \in 0 .. Len(q), Leads(q),
             LifeStep(Goal(q), e), Describes(e, run')
      PROVE  Story'
  <2>1. Leads(Append(q, e)) /\ Goal(Append(q, e)) = e /\ applied # Len(Append(q, e))
    BY <1>3, AppendLeads DEF Describes
  <2>2. Len(Append(q, e)) = Len(q) + 1 /\ Append(q, e) # <<>> /\ Len(q) \in Nat
    BY AppendProperties, LenProperties
  <2>3. Append(q, e)[Len(Append(q, e))] = e BY AppendProperties, <2>2
  <2>4. applied' \in 0 .. Len(outbox') BY <1>3, <2>2
  <2>5. Leads(outbox)' BY <1>3, <2>1 DEF Leads
  <2> QED BY <1>3, <2>1, <2>3, <2>4, <2>5 DEF Story
<1>4. CASE OneFact
  <2>1. PICK e \in Fact : outbox' = Append(outbox, e) /\ Describes(e, run') /\ LifeStep(run, e)
    BY <1>4 DEF OneFact
  <2>2. LifeStep(Goal(outbox), e) BY <1>1, <2>1 DEF LifeStep
  <2> QED BY <1>3, <2>1, <2>2 DEF Story
<1>5. CASE TwoFacts
  <2>1. PICK d, e \in Fact : /\ outbox' = Append(Append(outbox, d), e) /\ Sound(d) /\ Describes(e, run')
                             /\ LifeStep(run, d) /\ LifeStep(d, e)
    BY <1>5 DEF TwoFacts
  <2>2. LifeStep(Goal(outbox), d) BY <1>1, <2>1 DEF LifeStep
  <2>3. Leads(Append(outbox, d)) /\ Goal(Append(outbox, d)) = d BY <2>1, <2>2, AppendLeads DEF Story
  <2>4. Append(outbox, d) \in Seq(Fact) /\ applied \in 0 .. Len(Append(outbox, d))
    BY AppendProperties, LenProperties DEF Story
  <2> QED BY <1>3, <2>1, <2>3, <2>4
<1> QED BY <1>2, <1>4, <1>5 DEF Told

\* The next event in sequence moves the projection along an edge of the lifecycle.
LEMMA DeliverStory ==
    ASSUME PiInv, RemoteTyped, Story, NEW i \in Nat, Deliver(i)
    PROVE  Story' /\ LifeStep(origin, origin')
<1> DEFINE e == outbox[applied + 1]
<1>1. outbox \in Seq(Fact) /\ Len(outbox) \in Nat /\ applied \in 0 .. Len(outbox) /\ applied + 1 \in 1 .. Len(outbox)
  BY LenProperties DEF PiInv, PiTyped, Story, Deliver
<1>2. /\ origin' = [st |-> e.st, gen |-> e.gen, req |-> PendingAfter(e)]
      /\ applied' = applied + 1 /\ UNCHANGED <<outbox, run>>
  BY DEF Deliver, Reduce
<1>3. Sound(e) /\ LifeStep(origin, e) BY <1>1 DEF Story, Leads
<1>4. origin'.st = e.st /\ origin'.gen = e.gen /\ origin'.req = PendingAfter(e) BY <1>2
<1>5. e.st = "awaiting_input" => PendingAfter(e) = e.req BY <1>3 DEF Sound, PendingAfter
<1> HIDE DEF e
<1>6. LifeStep(origin, origin') BY <1>3, <1>4 DEF LifeStep
<1>7. Leads(outbox)'
  <2> SUFFICES ASSUME NEW j \in applied + 2 .. Len(outbox)
               PROVE  Sound(outbox[j]) /\ LifeStep(IF j = applied + 2 THEN origin' ELSE outbox[j - 1], outbox[j])
    BY <1>1, <1>2 DEF Leads
  <2>1. Sound(outbox[j]) /\ LifeStep(outbox[j - 1], outbox[j]) BY <1>1 DEF Story, Leads
  <2>2. CASE j = applied + 2
    <3>1. outbox[j - 1] = e BY <1>1, <2>2 DEF e
    <3>2. LifeStep(origin', outbox[j]) BY <1>4, <2>1, <3>1 DEF LifeStep
    <3> QED BY <2>1, <2>2, <3>2
  <2> QED BY <2>1, <2>2
<1>8. applied' = Len(outbox') => Mirrors(origin)'
  BY <1>1, <1>2, <1>4, <1>5, EmptySeq DEF Story, Mirrors, Describes, e
<1> QED BY <1>1, <1>2, <1>6, <1>7, <1>8 DEF Story

\* An acknowledgement takes an applied prefix off the outbox.
LEMMA AckStory ==
    ASSUME PiInv, Story, NEW i \in Nat, Ack(i)
    PROVE  Story' /\ outbox' \in Seq(Fact)
<1> DEFINE n == Len(outbox)
<1>1. outbox \in Seq(Fact) /\ n \in Nat /\ applied \in 0 .. n /\ i \in 1 .. applied
  BY LenProperties DEF PiInv, PiTyped, Story, Ack
<1>2. outbox' = SubSeq(outbox, i + 1, n) /\ applied' = applied - i /\ UNCHANGED <<run, origin>> BY DEF Ack
<1>3. \A j \in i + 1 .. n : outbox[j] \in Fact BY <1>1, ElementOfSeq
<1>4. /\ outbox' \in Seq(Fact) /\ Len(outbox') = n - i
      /\ \A j \in 1 .. n - i : outbox'[j] = outbox[j + i]
  <2>1. /\ SubSeq(outbox, i + 1, n) \in Seq(Fact)
        /\ Len(SubSeq(outbox, i + 1, n)) = IF i + 1 <= n THEN n - (i + 1) + 1 ELSE 0
        /\ \A j \in 1 .. n - (i + 1) + 1 : SubSeq(outbox, i + 1, n)[j] = outbox[(i + 1) + j - 1]
    BY <1>1, <1>3, SubSeqProperties
  <2>2. n - (i + 1) + 1 = n - i /\ (~(i + 1 <= n) => n - i = 0) BY <1>1
  <2>3. \A j \in 1 .. n - i : (i + 1) + j - 1 = j + i BY <1>1
  <2> QED BY <1>2, <2>1, <2>2, <2>3
<1>5. Leads(outbox)'
  <2> SUFFICES ASSUME NEW j \in applied' + 1 .. n - i
               PROVE  Sound(outbox'[j]) /\ LifeStep(IF j = applied' + 1 THEN origin ELSE outbox'[j - 1], outbox'[j])
    BY <1>2, <1>4 DEF Leads
  <2>1. j + i \in applied + 1 .. n /\ j \in 1 .. n - i /\ (j # applied' + 1 => j - 1 \in 1 .. n - i)
        /\ (j = applied' + 1 <=> j + i = applied + 1) /\ (j - 1) + i = (j + i) - 1
    BY <1>1, <1>2
  <2>2. outbox'[j] = outbox[j + i] /\ (j # applied' + 1 => outbox'[j - 1] = outbox[(j + i) - 1])
    BY <1>4, <2>1
  <2>3. Sound(outbox[j + i]) /\ LifeStep(IF j + i = applied + 1 THEN origin ELSE outbox[(j + i) - 1], outbox[j + i])
    BY <2>1 DEF Story, Leads
  <2> QED BY <2>1, <2>2, <2>3
<1>6. outbox' # <<>> => Describes(outbox'[Len(outbox')], run')
  <2> SUFFICES ASSUME outbox' # <<>> PROVE Describes(outbox'[Len(outbox')], run')
    OBVIOUS
  <2>1. Len(outbox') \in Nat \ {0} BY <1>4, EmptySeq
  <2>2. n - i \in 1 .. n - i /\ outbox # <<>> /\ (n - i) + i = n BY <1>1, <1>4, <2>1, EmptySeq
  <2>3. outbox'[Len(outbox')] = outbox[n] BY <1>4, <2>2
  <2> QED BY <1>2, <2>2, <2>3 DEF Story
<1>7. applied' = Len(outbox') => Mirrors(origin)' BY <1>1, <1>2, <1>4 DEF Story, Mirrors
<1>8. applied' \in 0 .. Len(outbox') BY <1>1, <1>2, <1>4
<1> QED BY <1>4, <1>5, <1>6, <1>7, <1>8 DEF Story

-----------------------------------------------------------------------------
(* Commands.                                                               *)

\* A ledger entry that fits
EntryOK(x) ==
    /\ x \in Entry
    /\ x.led \in {"free", "sent"} => x.hits = 0
    /\ x.led = "sent" => x.act # "none"

LedgerOK == RemoteTyped /\ Ledger

\* One entry replaced by one that fits, the projection untouched.
LEMMA EntryStep ==
    ASSUME LedgerOK, NEW c \in Commands, NEW x, EntryOK(x), cmd' = [cmd EXCEPT ![c] = x], UNCHANGED origin
    PROVE  LedgerOK'
BY DEF LedgerOK, RemoteTyped, Ledger, EntryOK, Entry

\* What is dispatched is no longer waiting, and hit at most once.
LEMMA DispatchedStep ==
    ASSUME LedgerOK, NEW c \in Commands, NEW res \in {"completed", "rejected"}, NEW hits \in {0, 1},
           cmd[c].led = "sent", Dispatched(c, res, hits), UNCHANGED origin
    PROVE  LedgerOK'
<1> DEFINE x == [cmd[c] EXCEPT !.led = "dispatch_started", !.res = res, !.hits = hits]
<1>1. cmd \in [Commands -> Entry] /\ cmd[c] \in Entry /\ cmd[c].hits = 0
  <2>1. cmd \in [Commands -> Entry] /\ Ledger BY DEF LedgerOK, RemoteTyped
  <2> QED BY <2>1 DEF Ledger
<1>2. x \in Entry BY <1>1 DEF Entry
<1>3. x.led = "dispatch_started" BY <1>1 DEF Entry
<1>4. 0 + hits = hits OBVIOUS
<1>5. cmd' = [cmd EXCEPT ![c] = x] BY <1>1, <1>4 DEF Dispatched
<1> HIDE DEF x
<1> QED BY <1>2, <1>3, <1>5, EntryStep DEF EntryOK

\* A response is stored with what the command has done.
LEMMA StoredOK ==
    ASSUME LedgerOK, NEW c \in Commands, NEW led \in Final
    PROVE  EntryOK(Stored(c, led)) /\ Stored(c, led).res = "none"
<1>1. cmd[c] \in Entry BY DEF LedgerOK, RemoteTyped, Entry
<1> QED BY <1>1 DEF Stored, NoCommand, EntryOK, Entry, Final

\* The effect of a command on the owner is one of the owner's steps.
LEMMA HandleStep ==
    ASSUME PiInv, LedgerOK, NEW c \in Commands, cmd[c].led = "sent", Handle(c), UNCHANGED originVars
    PROVE  PiStep /\ LedgerOK'
<1>1. cmd[c] \in Entry BY DEF LedgerOK, RemoteTyped, Entry
<1>2. UNCHANGED origin BY DEF originVars
<1>3. ASSUME UNCHANGED piVars PROVE PiStep
  <2>1. UNCHANGED <<run, proc, live, replies, written, asked, outbox>> BY <1>3 DEF piVars
  <2> QED BY <2>1, QuietStep DEF PiInv, PiTyped, Processes
<1>4. CASE HandleCancel(c)
  <2>1. PiStep BY <1>3, <1>4, CancelStep DEF HandleCancel
  <2>2. \E res \in {"completed", "rejected"}, hits \in {0, 1} : Dispatched(c, res, hits)
    BY <1>4 DEF HandleCancel
  <2> QED BY <1>2, <2>1, <2>2, DispatchedStep
<1>5. CASE HandleReply(c)
  <2>1. PiStep BY <1>1, <1>3, <1>5, ReplyStep DEF HandleReply, Entry
  <2>2. \E res \in {"completed", "rejected"}, hits \in {0, 1} : Dispatched(c, res, hits)
    BY <1>5 DEF HandleReply
  <2> QED BY <1>2, <2>1, <2>2, DispatchedStep
<1>6. CASE HandleSteer(c)
  <2>1. PiStep BY <1>3, <1>6 DEF HandleSteer
  <2>2. \E res \in {"completed", "rejected"}, hits \in {0, 1} : Dispatched(c, res, hits)
    BY <1>6 DEF HandleSteer
  <2> QED BY <1>2, <2>1, <2>2, DispatchedStep
<1>7. CASE HandleResume(c)
  <2>1. PiStep BY <1>3, <1>7, ResumeStep DEF HandleResume
  <2>2. \E res \in {"completed", "rejected"}, hits \in {0, 1} : Dispatched(c, res, hits)
    BY <1>7 DEF HandleResume
  <2> QED BY <1>2, <2>1, <2>2, DispatchedStep
<1>8. cmd[c].act \in {"cancel", "reply", "steer", "resume"}
  <2>1. cmd[c].act # "none" BY DEF LedgerOK, Ledger
  <2> QED BY <1>1, <2>1 DEF Entry
<1> QED BY <1>4, <1>5, <1>6, <1>7, <1>8 DEF Handle

\* A command arrives.
LEMMA ReceiveStep ==
    ASSUME PiInv, LedgerOK, NEW c \in Commands, Receive(c)
    PROVE  PiStep /\ LedgerOK'
<1>1. UNCHANGED originVars /\ UNCHANGED origin BY DEF Receive, originVars
<1>2. ASSUME UNCHANGED piVars PROVE PiStep
  <2>1. UNCHANGED <<run, proc, live, replies, written, asked, outbox>> BY <1>2 DEF piVars
  <2> QED BY <2>1, QuietStep DEF PiInv, PiTyped, Processes
<1>3. CASE cmd[c].led = "sent" /\ cmd[c].gen = run.gen /\ Handle(c)
  BY <1>1, <1>3, HandleStep
<1>4. CASE cmd' = [cmd EXCEPT ![c] = Stored(c, "rejected")] /\ UNCHANGED piVars
  BY <1>1, <1>2, <1>4, StoredOK, EntryStep DEF Final
<1>5. CASE cmd' = [cmd EXCEPT ![c] = [Stored(c, "outcome_unknown") EXCEPT !.res = cmd[c].res]] /\ UNCHANGED piVars
  <2> DEFINE x == [Stored(c, "outcome_unknown") EXCEPT !.res = cmd[c].res]
  <2>1. cmd[c] \in Entry BY DEF LedgerOK, RemoteTyped
  <2>2. Stored(c, "outcome_unknown") \in Entry /\ Stored(c, "outcome_unknown").led = "outcome_unknown"
    BY <2>1 DEF Stored, NoCommand, Entry, Final
  <2>3. x \in Entry /\ x.led = "outcome_unknown" BY <2>1, <2>2 DEF Entry
  <2> HIDE DEF x
  <2>4. EntryOK(x) BY <2>3 DEF EntryOK
  <2> QED BY <1>1, <1>2, <1>5, <2>4, EntryStep DEF x
<1> QED BY <1>3, <1>4, <1>5 DEF Receive

\* The origin issues a command, and the ledger stores and forgets responses.
LEMMA LedgerSteps ==
    ASSUME LedgerOK, NEW c \in Commands,
           \/ \E act \in {"cancel", "reply", "steer", "resume"} : Issue(c, act)
           \/ Finish(c) \/ Forget(c)
    PROVE  LedgerOK' /\ UNCHANGED <<piVars, originVars>>
<1>1. CASE \E act \in {"cancel", "reply", "steer", "resume"} : Issue(c, act)
  <2>1. PICK act \in {"cancel", "reply", "steer", "resume"} : Issue(c, act) BY <1>1
  <2> DEFINE req == IF act = "reply" THEN origin.req ELSE 0
             x == [NoCommand EXCEPT !.led = "sent", !.act = act, !.gen = origin.gen, !.req = req]
  <2>2. origin.gen \in {0} \cup Gens /\ req \in {0} \cup Requests BY DEF LedgerOK, RemoteTyped
  <2> HIDE DEF req
  <2>3. x \in Entry /\ x.led = "sent" /\ x.act = act /\ x.hits = 0 BY <2>2 DEF NoCommand, Entry
  <2>4. cmd' = [cmd EXCEPT ![c] = x] /\ UNCHANGED <<piVars, originVars>> BY <2>1 DEF Issue, req
  <2> HIDE DEF x
  <2>5. EntryOK(x) BY <2>3 DEF EntryOK
  <2>6. UNCHANGED origin BY <2>4 DEF originVars
  <2> QED BY <2>4, <2>5, <2>6, EntryStep
<1>2. CASE Finish(c)
  <2>1. cmd[c].res \in Final BY <1>2 DEF Finish, LedgerOK, RemoteTyped, Entry, Final
  <2>2. cmd' = [cmd EXCEPT ![c] = Stored(c, cmd[c].res)] /\ UNCHANGED <<piVars, originVars>> BY <1>2 DEF Finish
  <2>3. UNCHANGED origin BY <2>2 DEF originVars
  <2> QED BY <2>1, <2>2, <2>3, StoredOK, EntryStep
<1>3. CASE Forget(c)
  <2>1. EntryOK(NoCommand) BY DEF NoCommand, EntryOK, Entry
  <2>2. cmd' = [cmd EXCEPT ![c] = NoCommand] /\ UNCHANGED <<piVars, originVars>> BY <1>3 DEF Forget
  <2>3. UNCHANGED origin BY <2>2 DEF originVars
  <2> QED BY <2>1, <2>2, <2>3, EntryStep
<1> QED BY <1>1, <1>2, <1>3

\* A lost process forgets which responses it still had to store.
LEMMA OwnerLedger ==
    ASSUME LedgerOK, OwnerStep
    PROVE  LedgerOK'
<1>1. cmd \in [Commands -> Entry] /\ UNCHANGED origin BY DEF LedgerOK, RemoteTyped, OwnerStep, originVars
<1>2. CASE cmd' = cmd BY <1>1, <1>2 DEF LedgerOK, RemoteTyped, Ledger
<1>3. CASE cmd' = [c \in Commands |-> [cmd[c] EXCEPT !.res = "none"]]
  <2>1. \A c \in Commands : /\ [cmd[c] EXCEPT !.res = "none"] \in Entry
                            /\ [cmd[c] EXCEPT !.res = "none"].led = cmd[c].led
                            /\ [cmd[c] EXCEPT !.res = "none"].act = cmd[c].act
                            /\ [cmd[c] EXCEPT !.res = "none"].hits = cmd[c].hits
    BY <1>1 DEF Entry
  <2> QED BY <1>1, <1>3, <2>1 DEF LedgerOK, RemoteTyped, Ledger
<1> QED BY <1>2, <1>3 DEF OwnerStep

-----------------------------------------------------------------------------
(* The inductive invariant and the theorems.                               *)

LEMMA InitIInv == RemoteInit => IInv
<1> SUFFICES ASSUME RemoteInit PROVE IInv
  OBVIOUS
<1> USE DEF RemoteInit, Init
<1>1. NoRun \in RunRow /\ NoRun.st = "none" /\ NoRun.gen = 0 /\ NoRun.pend = 0 BY DEF NoRun, RunRow
<1>2. NoProc \in Process /\ ~NoProc.timer BY DEF NoProc, Process, Phases
<1>3. outbox \in Seq(Fact) /\ Len(outbox) = 0 BY EmptySeq
<1>4. PiTyped BY <1>1, <1>2, <1>3 DEF PiTyped
<1>5. Processes BY <1>1, <1>2 DEF Processes
<1>6. Dialogs BY <1>1, Bounds DEF Dialogs
<1>7. EntryOK(NoCommand) BY DEF EntryOK, NoCommand, Entry
<1>8. RemoteTyped /\ Ledger BY <1>7 DEF RemoteTyped, Ledger, EntryOK
<1>9. Story BY <1>1, <1>3 DEF Story, Leads, Mirrors
<1> QED BY <1>4, <1>5, <1>6, <1>8, <1>9 DEF IInv, PiInv

\* Every step of the system keeps the invariant and moves the origin's projection
\* by one lifecycle step or not at all.
LEMMA NextIInv == IInv /\ [Next]_vars => IInv' /\ LifeStep(origin, origin')
<1> SUFFICES ASSUME IInv, [Next]_vars PROVE IInv' /\ LifeStep(origin, origin')
  OBVIOUS
<1>1. PiInv /\ LedgerOK /\ Story /\ outbox \in Seq(Fact) BY DEF IInv, LedgerOK, PiInv, PiTyped
<1>2. ASSUME PiStep, LedgerOK', UNCHANGED <<origin, applied>>
      PROVE  IInv' /\ LifeStep(origin, origin')
  BY <1>1, <1>2, StoryTold DEF IInv, LedgerOK, PiStep, LifeStep
<1>3. ASSUME UNCHANGED piVars
      PROVE  PiStep
  <2>1. UNCHANGED <<run, proc, live, replies, written, asked, outbox>> BY <1>3 DEF piVars
  <2> QED BY <1>1, <2>1, QuietStep DEF PiInv, PiTyped, Processes
<1>4. CASE OwnerStep
  <2>1. UNCHANGED <<origin, applied>> BY <1>4 DEF OwnerStep, originVars
  <2> QED BY <1>1, <1>2, <1>4, <2>1, OwnerNextStep, OwnerLedger DEF OwnerStep
<1>5. CASE Link
  <2>1. UNCHANGED <<piVars, origin, applied, cmd>> BY <1>5 DEF Link
  <2>2. LedgerOK' BY <1>1, <2>1 DEF LedgerOK, RemoteTyped, Ledger
  <2> QED BY <1>2, <1>3, <2>1, <2>2
<1>6. ASSUME NEW i \in 1 .. MaxLag + 1, Deliver(i)
      PROVE  IInv' /\ LifeStep(origin, origin')
  <2>1. i \in Nat BY PiAssumption DEF PiAssumption
  <2>2. Story' /\ LifeStep(origin, origin') BY <1>1, <1>6, <2>1, DeliverStory DEF LedgerOK
  <2>3. UNCHANGED <<run, proc, live, replies, written, asked, outbox, cmd>> BY <1>6 DEF Deliver
  <2>4. PiInv' BY <1>1, <2>3, QuietStep DEF PiStep, PiInv, PiTyped, Processes
  <2>5. origin' \in [st : Statuses \cup {"none"}, gen : {0} \cup Gens, req : {0} \cup Requests]
    <3> DEFINE e == outbox[applied + 1]
    <3>1. applied + 1 \in 1 .. Len(outbox) BY <1>1, <1>6, <2>1, LenProperties DEF Story, Deliver
    <3>2. e \in Fact BY <1>1, <3>1, ElementOfSeq
    <3>3. origin' = [st |-> e.st, gen |-> e.gen, req |-> PendingAfter(e)] BY <1>6 DEF Deliver, Reduce
    <3> HIDE DEF e
    <3>4. PendingAfter(e) \in {0} \cup Requests BY <1>1, <3>2 DEF PendingAfter, Fact, LedgerOK, RemoteTyped
    <3> QED BY <3>2, <3>3, <3>4 DEF Fact
  <2>6. RemoteTyped' /\ Ledger' BY <1>1, <2>3, <2>5 DEF LedgerOK, RemoteTyped, Ledger
  <2> QED BY <2>2, <2>4, <2>6 DEF IInv
<1>7. ASSUME NEW i \in 1 .. MaxLag + 1, Ack(i)
      PROVE  IInv' /\ LifeStep(origin, origin')
  <2>1. i \in Nat BY PiAssumption DEF PiAssumption
  <2>2. Story' /\ outbox' \in Seq(Fact) BY <1>1, <1>7, <2>1, AckStory
  <2>3. UNCHANGED <<run, proc, live, replies, written, asked, origin, cmd>> BY <1>7 DEF Ack
  <2>4. PiInv' BY <1>1, <2>2, <2>3 DEF PiInv, PiTyped, Processes, Dialogs
  <2>5. RemoteTyped' /\ Ledger' BY <1>1, <2>3 DEF LedgerOK, RemoteTyped, Ledger
  <2> QED BY <2>2, <2>3, <2>4, <2>5 DEF IInv, LifeStep
<1>8. ASSUME NEW c \in Commands, Receive(c)
      PROVE  IInv' /\ LifeStep(origin, origin')
  <2>1. UNCHANGED <<origin, applied>> BY <1>8 DEF Receive, originVars
  <2> QED BY <1>1, <1>2, <1>8, <2>1, ReceiveStep
<1>9. ASSUME NEW c \in Commands,
             \/ \E act \in {"cancel", "reply", "steer", "resume"} : Issue(c, act)
             \/ Finish(c) \/ Forget(c)
      PROVE  IInv' /\ LifeStep(origin, origin')
  <2>1. LedgerOK' /\ UNCHANGED <<piVars, originVars>> BY <1>1, <1>9, LedgerSteps
  <2>2. UNCHANGED <<origin, applied>> BY <2>1 DEF originVars
  <2> QED BY <1>2, <1>3, <2>1, <2>2
<1>10. CASE UNCHANGED vars
  <2>1. UNCHANGED <<run, proc, live, replies, written, asked, outbox, origin, applied, cmd>> BY <1>10 DEF vars
  <2>2. PiStep BY <1>1, <2>1, QuietStep DEF PiInv, PiTyped, Processes
  <2>3. LedgerOK' BY <1>1, <2>1 DEF LedgerOK, RemoteTyped, Ledger
  <2> QED BY <1>2, <2>1, <2>2, <2>3
<1> QED BY <1>4, <1>5, <1>6, <1>7, <1>8, <1>9, <1>10 DEF Next

\* The inductive invariant of the composed system.
LEMMA Invariance == Spec => []IInv
<1> QED BY InitIInv, NextIInv, PTL DEF Spec

\* However the executor, shutdown, a crash, boot recovery or a command from the
\* origin changes the run row, the last event on its way to the origin, or else the
\* origin's projection, describes the row as it is.
THEOREM FactsAreCompleteHolds == Spec => []FactsAreComplete
<1>1. IInv => FactsAreComplete
  <2> SUFFICES ASSUME IInv PROVE FactsAreComplete
    OBVIOUS
  <2>1. Story /\ Len(outbox) \in Nat /\ (outbox = <<>> => Len(outbox) = 0)
    BY EmptySeq, LenProperties DEF IInv, PiInv, PiTyped
  <2> QED BY <2>1 DEF Story, Describes, Mirrors, FactsAreComplete
<1> QED BY <1>1, Invariance, PTL

\* A command takes effect at most once and a dialog is answered at most once,
\* whatever is repeated, restored, lost or crashes in between.
THEOREM EffectsOnceHolds == Spec => []EffectsOnce
<1>1. IInv => EffectsOnce
  BY DEF IInv, PiInv, Dialogs, RemoteTyped, Entry, EffectsOnce
<1> QED BY <1>1, Invariance, PTL

\* The origin's projection implements PiLifecycle.
THEOREM OriginRefinesLifecycle == Spec => OriginLifecycle
<1>1. RemoteInit => Lifecycle!Init BY DEF RemoteInit, Lifecycle!Init
<1>2. LifeStep(origin, origin') => [Lifecycle!Next]_(Lifecycle!lifecycle)
  BY DEF LifeStep, Lifecycle!Next, Lifecycle!Accepted, Lifecycle!Moves, Lifecycle!Resumed, Lifecycle!lifecycle
<1> QED BY <1>1, <1>2, NextIInv, Invariance, PTL DEF Spec, OriginLifecycle, Lifecycle!Spec

=============================================================================
