------------------------ MODULE LifecycleWakeProofs ------------------------
(***************************************************************************)
(* Proofs about LifecycleWakeScheduler for any sources, due instants,      *)
(* tolerance and number of overlapping scans: two scans never wake the     *)
(* same source, and a quiet scheduler is armed for every future item.      *)
(***************************************************************************)
EXTENDS LifecycleWakeScheduler, NumberTheorems, TLAPS

ScanRow == [pc : {"free", "loop", "called", "awaiting", "yielded", "armed"},
            todo : SUBSET Sources, cur : Sources \cup {NoScan}, at : Nat,
            passes : Nat, stored : BOOLEAN, boot : BOOLEAN]

\* Types of what the proof looks at
Typed ==
    /\ now \in Nat
    /\ items \in SUBSET Items
    /\ registered \in SUBSET Sources
    /\ scans \in [ScanIds -> ScanRow]
    /\ timer.armedAt \in Int

\* A scan that has still to arm the timer
WillArm == \E i \in ScanIds : scans[i].pc \in {"loop", "called", "awaiting", "yielded"}

\* The timer serves every future item that was listed
Armed ==
    \A x \in items :
        x[1] \in registered \ unlisted /\ x[2] > now =>
            timer # NoTimer /\ timer.armedAt < x[2] + RearmTolerance

\* Whatever made the timer wrong has left a scan that will arm it, or a mark for one
ArmedWhenClean == mode = "started" /\ ~rescan /\ ~WillArm => Armed

IInv == Typed /\ WakesAreSerial /\ ArmedWhenClean

-----------------------------------------------------------------------------
(* Scans.                                                                  *)

\* The timer that armEarliest leaves serves every future item that was listed.
LEMMA ArmEarliestServes ==
    ASSUME Typed, NEW listed \in SUBSET registered, mode # "stopped"
    PROVE  /\ armEarliest(listed).armedAt \in Int
           /\ \A x \in items : x[1] \in listed /\ x[2] > now =>
                 armEarliest(listed) # NoTimer /\ armEarliest(listed).armedAt < x[2] + RearmTolerance
<1> DEFINE future == {x[2] : x \in {y \in items : y[1] \in listed /\ y[2] > now}}
           nearest == Min(future)
           t == armEarliest(listed)
<1>1. RearmTolerance \in Nat \ {0} /\ Horizon \in Nat BY SchedulerAssumption DEF SchedulerAssumption
<1>2. \A x \in items : x[1] \in Sources /\ x[2] \in 1 .. Horizon /\ x[2] \in Nat
  BY <1>1 DEF Typed, Items
<1>3. future \subseteq Nat BY <1>2
<1>4. \A x \in items : x[1] \in listed /\ x[2] > now => x[2] \in future OBVIOUS
<1>5. future # {} => nearest \in Nat /\ nearest > now /\ \A n \in future : nearest <= n
  BY <1>3, MinFacts DEF Typed
<1>6. t = IF future = {} THEN NoTimer
          ELSE IF timer # NoTimer /\ timer.armedAt - nearest \in (1 - RearmTolerance)..(RearmTolerance - 1)
               THEN timer
          ELSE [armedAt |-> nearest, fireAt |-> Min({nearest, now + MaxTimeout})]
  BY DEF armEarliest
<1>7. NoTimer.armedAt = -1 /\ timer.armedAt \in Int BY DEF NoTimer, NoTime, Typed
<1> HIDE DEF t, nearest
<1>8. CASE future = {}
  <2>1. ~\E x \in items : x[1] \in listed /\ x[2] > now BY <1>4, <1>8
  <2>2. t = NoTimer BY <1>6, <1>8
  <2>3. -1 \in Int OBVIOUS
  <2>4. t.armedAt \in Int BY <1>7, <2>2, <2>3
  <2> QED BY <2>1, <2>4 DEF t
<1>9. CASE future # {} /\ timer # NoTimer /\ timer.armedAt - nearest \in (1 - RearmTolerance)..(RearmTolerance - 1)
  <2>1. t = timer BY <1>6, <1>9
  <2>2. timer.armedAt < nearest + RearmTolerance BY <1>1, <1>5, <1>7, <1>9
  <2>3. \A n \in future : timer.armedAt < n + RearmTolerance
    <3> TAKE n \in future
    <3>1. n \in Nat /\ nearest \in Nat /\ nearest <= n BY <1>3, <1>5, <1>9
    <3> QED BY <1>1, <1>7, <2>2, <3>1
  <2> QED BY <1>4, <1>7, <1>9, <2>1, <2>3 DEF t
<1>10. CASE future # {} /\ ~(timer # NoTimer /\ timer.armedAt - nearest \in (1 - RearmTolerance)..(RearmTolerance - 1))
  <2>1. t = [armedAt |-> nearest, fireAt |-> Min({nearest, now + MaxTimeout})] BY <1>6, <1>10
  <2>2. t.armedAt = nearest /\ nearest \in Nat BY <1>5, <1>10, <2>1
  <2>3. t # NoTimer BY <1>7, <2>2
  <2>4. \A n \in future : nearest < n + RearmTolerance
    <3> TAKE n \in future
    <3>1. n \in Nat /\ nearest <= n BY <1>3, <1>5, <1>10
    <3> QED BY <1>1, <2>2, <3>1
  <2> QED BY <1>4, <2>2, <2>3, <2>4 DEF t
<1> QED BY <1>8, <1>9, <1>10

\* One scan moves on, without starting to wake a source.
LEMMA ScanMoves ==
    ASSUME IInv, NEW i \in ScanIds, scans' \in [ScanIds -> ScanRow],
           \A j \in ScanIds : j # i => scans'[j] = scans[j],
           \/ scans'[i].cur = scans[i].cur /\ waking' = waking
           \/ scans'[i].cur = NoScan /\ waking' \in {waking, waking \ {scans[i].cur}},
           mode' = mode
    PROVE  WakesAreSerial'
<1>1. scans \in [ScanIds -> ScanRow] /\ WakesAreSerial BY DEF IInv, Typed
<1> QED BY <1>1 DEF WakesAreSerial

\* A scan that is not done keeps the timer's debt.
LEMMA DebtKept ==
    ASSUME NEW i \in ScanIds, scans'[i].pc \in {"loop", "called", "awaiting", "yielded"}
    PROVE  ArmedWhenClean'
BY DEF ArmedWhenClean, WillArm

-----------------------------------------------------------------------------
(* What starts a scan.                                                     *)

\* A scan begins on a free slot.
LEMMA BeginScanStep ==
    ASSUME IInv, NEW b \in BOOLEAN, NEW regs \in SUBSET Sources, BeginScan(b, regs), waking' = waking,
           mode' = mode \/ mode = "boot"
    PROVE  scans' \in [ScanIds -> ScanRow] /\ WakesAreSerial' /\ ArmedWhenClean'
<1>1. scans \in [ScanIds -> ScanRow] /\ now \in Nat /\ WakesAreSerial BY DEF IInv, Typed
<1>2. PICK i \in ScanIds :
         scans' = [scans EXCEPT ![i] = [Free EXCEPT !.pc = "loop", !.todo = regs, !.at = now, !.boot = b]]
  BY DEF BeginScan
<1> DEFINE s == [Free EXCEPT !.pc = "loop", !.todo = regs, !.at = now, !.boot = b]
<1>3. s \in ScanRow /\ s.pc = "loop" /\ s.cur = NoScan BY <1>1 DEF Free, ScanRow
<1>4. scans' = [scans EXCEPT ![i] = s] BY <1>2
<1> HIDE DEF s
<1>5. scans' \in [ScanIds -> ScanRow] /\ scans'[i] = s /\ \A j \in ScanIds : j # i => scans'[j] = scans[j]
  BY <1>1, <1>3, <1>4
<1>6. WakesAreSerial' BY <1>1, <1>3, <1>5 DEF WakesAreSerial
<1>7. ArmedWhenClean' BY <1>3, <1>5, DebtKept
<1> QED BY <1>5, <1>6, <1>7

\* scan() leaves a scan that will arm the timer, or the mark for another pass.
LEMMA ScanOverStep ==
    ASSUME IInv, NEW regs \in SUBSET Sources, scanOver(regs), waking' = waking, mode' = mode
    PROVE  scans' \in [ScanIds -> ScanRow] /\ WakesAreSerial' /\ ArmedWhenClean'
<1>1. CASE running # NoScan
  <2>1. rescan' = TRUE /\ scans' = scans BY <1>1 DEF scanOver
  <2>2. WakesAreSerial' BY <2>1 DEF IInv, WakesAreSerial
  <2> QED BY <2>1, <2>2 DEF IInv, Typed, ArmedWhenClean
<1>2. CASE ~(running # NoScan)
  <2>1. BeginScan(FALSE, regs) BY <1>2 DEF scanOver
  <2> QED BY <2>1, BeginScanStep
<1> QED BY <1>1, <1>2

\* A durable mutation and its notification.
LEMMA ChangeStep ==
    ASSUME IInv, NEW s \in Sources, Change(s)
    PROVE  IInv'
<1>1. UNCHANGED <<now, registered, mode, timer, waking, unlisted>> BY DEF Change
<1>2. /\ items' \in SUBSET Items
      /\ \A x \in items' : x[1] # s => x \in items
  <2>1. ASSUME NEW t \in 1 .. Horizon, items' = items \cup {<<s, t>>}
        PROVE  items' \in SUBSET Items /\ \A x \in items' : x[1] # s => x \in items
    BY <2>1 DEF IInv, Typed, Items
  <2> QED BY <2>1 DEF Change, IInv, Typed
<1>3. CASE mode # "started" \/ s \notin registered
  <2>1. UNCHANGED <<scans, rescan>> BY <1>3 DEF Change, sourceChanged, Ignored
  <2>2. Typed' BY <1>1, <1>2, <2>1 DEF IInv, Typed
  <2>3. WakesAreSerial' BY <1>1, <2>1 DEF IInv, WakesAreSerial
  <2>4. ArmedWhenClean'
    BY <1>1, <1>2, <1>3, <2>1 DEF IInv, ArmedWhenClean, WillArm, Armed
  <2> QED BY <2>2, <2>3, <2>4 DEF IInv
<1>4. CASE ~(mode # "started" \/ s \notin registered)
  <2>1. scanOver(registered) BY <1>4 DEF Change, sourceChanged
  <2>2. registered \in SUBSET Sources BY DEF IInv, Typed
  <2>3. scans' \in [ScanIds -> ScanRow] /\ WakesAreSerial' /\ ArmedWhenClean' BY <1>1, <2>1, <2>2, ScanOverStep
  <2> QED BY <1>1, <1>2, <2>3 DEF IInv, Typed
<1> QED BY <1>3, <1>4

\* The late registration of a source.
LEMMA RegisterStep ==
    ASSUME IInv, NEW s \in Sources, Register(s)
    PROVE  IInv'
<1> DEFINE visited == [i \in ScanIds |->
             IF scans[i].pc \in {"loop", "called", "awaiting"}
             THEN [scans[i] EXCEPT !.todo = @ \cup {s}] ELSE scans[i]]
<1>1. UNCHANGED <<now, items, mode, timer, running, waking, seen, unlisted>> /\ registered' = registered \cup {s}
  BY DEF Register
<1>2. Typed /\ WakesAreSerial /\ scans \in [ScanIds -> ScanRow] /\ now \in Nat BY DEF IInv, Typed
<1>3. registered' \in SUBSET Sources BY <1>1, <1>2 DEF Typed
<1>4. visited \in [ScanIds -> ScanRow] /\ \A i \in ScanIds : visited[i].cur = scans[i].cur /\ visited[i].pc = scans[i].pc
  <2>1. \A i \in ScanIds : LET v == [scans[i] EXCEPT !.todo = @ \cup {s}]
                           IN  v \in ScanRow /\ v.cur = scans[i].cur /\ v.pc = scans[i].pc
    BY <1>2 DEF ScanRow
  <2> QED BY <1>2, <2>1
<1>5. \/ mode # "started" /\ scans' = visited
      \/ scans' = visited /\ rescan' = TRUE
      \/ \E i \in ScanIds : scans' = [visited EXCEPT ![i] = [Free EXCEPT !.pc = "loop", !.todo = registered', !.at = now]]
  BY DEF Register
<1> HIDE DEF visited
<1>6. CASE scans' = visited /\ (mode # "started" \/ rescan' = TRUE)
  <2>1. WakesAreSerial' BY <1>1, <1>2, <1>4, <1>6 DEF WakesAreSerial
  <2>2. ArmedWhenClean' BY <1>1, <1>6 DEF ArmedWhenClean
  <2> QED BY <1>1, <1>2, <1>3, <1>4, <1>6, <2>1, <2>2 DEF IInv, Typed
<1>7. ASSUME NEW i \in ScanIds,
             scans' = [visited EXCEPT ![i] = [Free EXCEPT !.pc = "loop", !.todo = registered', !.at = now]]
      PROVE  IInv'
  <2> DEFINE r == [Free EXCEPT !.pc = "loop", !.todo = registered', !.at = now]
  <2>1. r \in ScanRow /\ r.pc = "loop" /\ r.cur = NoScan BY <1>2, <1>3 DEF Free, ScanRow
  <2>2. scans' = [visited EXCEPT ![i] = r] BY <1>7
  <2> HIDE DEF r
  <2>3. scans' \in [ScanIds -> ScanRow] /\ scans'[i] = r /\ \A j \in ScanIds : j # i => scans'[j] = visited[j]
    BY <1>4, <2>1, <2>2
  <2>4. WakesAreSerial' BY <1>1, <1>2, <1>4, <2>1, <2>3 DEF WakesAreSerial
  <2>5. ArmedWhenClean' BY <2>1, <2>3, DebtKept
  <2> QED BY <1>1, <1>2, <1>3, <2>3, <2>4, <2>5 DEF IInv, Typed
<1> QED BY <1>5, <1>6, <1>7

\* The disposer of a source.
LEMMA UnregisterStep ==
    ASSUME IInv, NEW s \in Sources, Unregister(s)
    PROVE  IInv'
<1>1. UNCHANGED <<now, items, mode, timer, running, waking, seen, unlisted>> /\ registered' = registered \ {s}
  BY DEF Unregister
<1>2. registered' \in SUBSET Sources BY <1>1 DEF IInv, Typed
<1>3. CASE mode = "stopped"
  <2>1. UNCHANGED <<scans, rescan>> BY <1>3 DEF Unregister, Ignored
  <2>2. WakesAreSerial' BY <1>1, <2>1 DEF IInv, WakesAreSerial
  <2>3. ArmedWhenClean' BY <1>1, <1>3 DEF ArmedWhenClean
  <2> QED BY <1>1, <1>2, <2>1, <2>2, <2>3 DEF IInv, Typed
<1>4. CASE mode # "stopped"
  <2>1. scanOver(registered') BY <1>4 DEF Unregister
  <2>2. scans' \in [ScanIds -> ScanRow] /\ WakesAreSerial' /\ ArmedWhenClean' BY <1>1, <1>2, <2>1, ScanOverStep
  <2> QED BY <1>1, <1>2, <2>2 DEF IInv, Typed
<1> QED BY <1>3, <1>4

\* start(), the heartbeat and the timer.
LEMMA StartStep ==
    ASSUME IInv, Start \/ safetyScan \/ TimerFires
    PROVE  IInv'
<1>1. Typed /\ registered \in SUBSET Sources BY DEF IInv, Typed
<1>2. UNCHANGED <<now, items, registered, waking, unlisted>> BY DEF Start, safetyScan, TimerFires, durableVars
<1>3. timer'.armedAt \in Int
  <2>1. NoTimer.armedAt = -1 /\ -1 \in Int BY DEF NoTimer, NoTime
  <2> QED BY <1>1, <2>1 DEF Start, safetyScan, TimerFires, Typed
<1>4. scans' \in [ScanIds -> ScanRow] /\ WakesAreSerial' /\ ArmedWhenClean'
  <2>1. CASE Start /\ running # NoScan
    <3>1. rescan' = TRUE /\ UNCHANGED scans /\ mode = "boot" BY <2>1 DEF Start
    <3> QED BY <1>2, <3>1 DEF IInv, Typed, WakesAreSerial, ArmedWhenClean
  <2>2. CASE Start /\ ~(running # NoScan)
    <3>1. BeginScan(TRUE, registered) /\ mode = "boot" BY <2>2 DEF Start
    <3> QED BY <1>1, <1>2, <3>1, BeginScanStep
  <2>3. CASE safetyScan
    <3>1. BeginScan(FALSE, registered) /\ mode' = mode BY <2>3 DEF safetyScan
    <3> QED BY <1>1, <1>2, <3>1, BeginScanStep
  <2>4. CASE TimerFires
    <3>1. scanOver(registered) /\ mode' = mode BY <2>4 DEF TimerFires
    <3> QED BY <1>1, <1>2, <3>1, ScanOverStep
  <2> QED BY <2>1, <2>2, <2>3, <2>4
<1> QED BY <1>1, <1>2, <1>3, <1>4 DEF IInv, Typed

-----------------------------------------------------------------------------
(* The segments of a scan.                                                 *)

\* stop() frees the scans from the discipline of the waking set.
LEMMA StopStep ==
    ASSUME IInv, Stop
    PROVE  IInv'
<1>1. mode' = "stopped" /\ timer' = NoTimer /\ UNCHANGED <<now, scans, items, registered>>
  BY DEF Stop, durableVars
<1>2. NoTimer.armedAt = -1 /\ -1 \in Int BY DEF NoTimer, NoTime
<1>3. Typed' BY <1>1, <1>2 DEF IInv, Typed
<1>4. WakesAreSerial' /\ ArmedWhenClean' BY <1>1 DEF WakesAreSerial, ArmedWhenClean
<1> QED BY <1>3, <1>4 DEF IInv

\* The wakeDue of a source begins only while no other scan is in one of its own.
LEMMA VisitStep ==
    ASSUME IInv, NEW i \in ScanIds, Visit(i)
    PROVE  IInv'
<1>1. scans[i].pc = "loop" /\ UNCHANGED <<now, mode, timer, rescan, items, registered, unlisted>>
  BY DEF Visit, durableVars
<1>2. Typed /\ WakesAreSerial /\ scans \in [ScanIds -> ScanRow] BY DEF IInv, Typed
<1>3. PICK s \in scans[i].todo \cap registered :
         \/ scans' = [scans EXCEPT ![i].todo = @ \ {s}] /\ waking' = waking
         \/ /\ s \notin waking
            /\ scans' = [scans EXCEPT ![i].pc = "called", ![i].cur = s, ![i].todo = @ \ {s}]
            /\ waking' = waking \cup {s}
  BY DEF Visit
<1>4. scans[i].todo \in SUBSET Sources /\ s \in Sources BY <1>2, <1>3 DEF ScanRow
<1>5. CASE scans' = [scans EXCEPT ![i].todo = @ \ {s}] /\ waking' = waking
  <2>1. /\ scans' \in [ScanIds -> ScanRow] /\ scans'[i].pc = "loop" /\ scans'[i].cur = scans[i].cur
        /\ \A j \in ScanIds : j # i => scans'[j] = scans[j]
    BY <1>1, <1>2, <1>4, <1>5 DEF ScanRow
  <2>2. WakesAreSerial' /\ ArmedWhenClean' BY <1>1, <1>5, <2>1, ScanMoves, DebtKept
  <2> QED BY <1>1, <1>2, <2>1, <2>2 DEF IInv, Typed
<1>6. CASE /\ s \notin waking
           /\ scans' = [scans EXCEPT ![i].pc = "called", ![i].cur = s, ![i].todo = @ \ {s}]
           /\ waking' = waking \cup {s}
  <2>1. /\ scans' \in [ScanIds -> ScanRow] /\ scans'[i].pc = "called" /\ scans'[i].cur = s
        /\ \A j \in ScanIds : j # i => scans'[j] = scans[j]
    BY <1>1, <1>2, <1>4, <1>6 DEF ScanRow
  <2>2. WakesAreSerial' BY <1>1, <1>2, <1>6, <2>1 DEF WakesAreSerial
  <2>3. ArmedWhenClean' BY <2>1, DebtKept
  <2> QED BY <1>1, <1>2, <2>1, <2>2, <2>3 DEF IInv, Typed
<1> QED BY <1>3, <1>5, <1>6

\* A segment ends or goes on, and the scan has still to arm the timer.
LEMMA SegmentStep ==
    ASSUME IInv, NEW i \in ScanIds,
           \/ ListingThrows(i) \/ WakeReturns(i) \/ WakeThrows(i) \/ WakeSettles(i) \/ EndPass(i) \/ NextPass(i)
    PROVE  IInv'
<1>1. UNCHANGED <<now, mode, timer, items, registered, unlisted>>
  BY DEF ListingThrows, WakeReturns, WakeThrows, WakeSettles, EndPass, NextPass, durableVars
<1>2. Typed /\ scans \in [ScanIds -> ScanRow] /\ now \in Nat /\ registered \in SUBSET Sources BY DEF IInv, Typed
<1>3. SUFFICES /\ scans' \in [ScanIds -> ScanRow]
               /\ \A j \in ScanIds : j # i => scans'[j] = scans[j]
               /\ scans'[i].pc \in {"loop", "called", "awaiting", "yielded"}
               /\ \/ scans'[i].cur = scans[i].cur /\ waking' = waking
                  \/ scans'[i].cur = NoScan /\ waking' \in {waking, waking \ {scans[i].cur}}
  <2>1. WakesAreSerial' /\ ArmedWhenClean' BY <1>1, <1>3, ScanMoves, DebtKept
  <2> QED BY <1>1, <1>2, <1>3, <2>1 DEF IInv, Typed
<1>4. CASE ListingThrows(i)
  <2>1. PICK s : scans' = [scans EXCEPT ![i].todo = @ \ {s}] BY <1>4 DEF ListingThrows
  <2> QED BY <1>2, <1>4, <2>1 DEF ListingThrows, ScanRow
<1>5. CASE WakeReturns(i)
  <2> DEFINE r == [[scans[i] EXCEPT !.pc = "awaiting"] EXCEPT !.stored = TRUE]
  <2>1. scans' = [scans EXCEPT ![i] = r] /\ waking' = waking BY <1>5 DEF WakeReturns, Suspend
  <2>2. r \in ScanRow /\ r.pc = "awaiting" /\ r.cur = scans[i].cur BY <1>2 DEF ScanRow
  <2> HIDE DEF r
  <2> QED BY <1>2, <2>1, <2>2
<1>6. CASE WakeThrows(i) \/ WakeSettles(i)
  <2>1. /\ scans' = [scans EXCEPT ![i].pc = "loop", ![i].cur = NoScan]
        /\ waking' = waking \ {scans[i].cur}
    BY <1>6 DEF WakeThrows, WakeSettles
  <2> QED BY <1>2, <2>1 DEF ScanRow
<1>7. CASE EndPass(i)
  <2> DEFINE r == [[scans[i] EXCEPT !.pc = "yielded", !.todo = {}] EXCEPT !.stored = TRUE]
  <2>1. scans' = [scans EXCEPT ![i] = r] /\ waking' = waking BY <1>7 DEF EndPass, Suspend
  <2>2. r \in ScanRow /\ r.pc = "yielded" /\ r.cur = scans[i].cur BY <1>2 DEF ScanRow
  <2> HIDE DEF r
  <2> QED BY <1>2, <2>1, <2>2
<1>8. CASE NextPass(i)
  <2>1. /\ scans' = [scans EXCEPT ![i].pc = "loop", ![i].todo = registered, ![i].at = now, ![i].passes = @ + 1]
        /\ waking' = waking
    BY <1>8 DEF NextPass
  <2>2. scans[i].passes \in Nat BY <1>2 DEF ScanRow
  <2> QED BY <1>2, <2>1, <2>2 DEF ScanRow
<1> QED BY <1>4, <1>5, <1>6, <1>7, <1>8

\* armEarliest pays the debt with what was listed.
LEMMA ArmStep ==
    ASSUME IInv, NEW i \in ScanIds, Arm(i)
    PROVE  IInv'
<1>1. /\ scans' = [scans EXCEPT ![i].pc = "armed", ![i].passes = @ + 1]
      /\ UNCHANGED <<now, mode, waking, items, registered>>
  BY DEF Arm
<1>2. Typed /\ scans \in [ScanIds -> ScanRow] /\ scans[i].passes \in Nat BY DEF IInv, Typed, ScanRow
<1>3. PICK faulty \in SUBSET registered : timer' = armEarliest(registered \ faulty) /\ unlisted' = faulty
  BY DEF Arm
<1>4. /\ scans' \in [ScanIds -> ScanRow] /\ scans'[i].cur = scans[i].cur
      /\ \A j \in ScanIds : j # i => scans'[j] = scans[j]
  BY <1>1, <1>2 DEF ScanRow
<1>5. WakesAreSerial' BY <1>1, <1>4, ScanMoves
<1>6. CASE mode = "stopped"
  <2>1. timer' = timer BY <1>3, <1>6 DEF armEarliest
  <2>2. Typed' BY <1>1, <1>2, <1>4, <2>1 DEF Typed
  <2>3. ArmedWhenClean' BY <1>1, <1>6 DEF ArmedWhenClean
  <2> QED BY <1>5, <2>2, <2>3 DEF IInv
<1>7. CASE mode # "stopped"
  <2>1. registered \ faulty \in SUBSET registered OBVIOUS
  <2>2. /\ timer'.armedAt \in Int
        /\ \A x \in items : x[1] \in registered \ faulty /\ x[2] > now =>
              timer' # NoTimer /\ timer'.armedAt < x[2] + RearmTolerance
    BY <1>2, <1>3, <1>7, <2>1, ArmEarliestServes
  <2>3. Typed' BY <1>1, <1>2, <1>4, <2>2 DEF Typed
  <2>4. Armed' BY <1>1, <1>3, <2>2 DEF Armed
  <2> QED BY <1>5, <2>3, <2>4 DEF IInv, ArmedWhenClean
<1> QED BY <1>6, <1>7

\* The finally handlers change nothing the timer depends on.
LEMMA SettledStep ==
    ASSUME IInv, NEW i \in ScanIds, Settled(i)
    PROVE  IInv'
<1>1. /\ scans[i].pc = "armed" /\ scans' = [scans EXCEPT ![i] = Free]
      /\ UNCHANGED <<now, mode, timer, rescan, waking, items, registered, unlisted>>
  BY DEF Settled, durableVars
<1>2. Typed /\ scans \in [ScanIds -> ScanRow] BY DEF IInv, Typed
<1>3. Free \in ScanRow /\ Free.cur = NoScan /\ Free.pc = "free" BY DEF Free, ScanRow
<1>4. scans' \in [ScanIds -> ScanRow] /\ scans'[i] = Free /\ \A j \in ScanIds : j # i => scans'[j] = scans[j]
  BY <1>1, <1>2, <1>3
<1>5. WakesAreSerial' BY <1>1, <1>3, <1>4, ScanMoves
<1>6. WillArm => WillArm' BY <1>1, <1>4 DEF WillArm
<1>7. ArmedWhenClean' BY <1>1, <1>6 DEF IInv, ArmedWhenClean, Armed
<1> QED BY <1>1, <1>2, <1>4, <1>5, <1>7 DEF IInv, Typed

\* Time passes, or nothing happens: fewer items are in the future.
LEMMA TickStep ==
    ASSUME IInv, Tick \/ UNCHANGED vars
    PROVE  IInv'
<1>1. UNCHANGED <<items, registered, mode, timer, rescan, waking, scans, unlisted>> /\ now' \in {now, now + 1}
  BY DEF Tick, vars
<1>2. now \in Nat /\ SchedulerAssumption BY SchedulerAssumption DEF IInv, Typed
<1>3. \A x \in items : x[2] \in Nat BY <1>2 DEF IInv, Typed, Items, SchedulerAssumption
<1>4. Typed' BY <1>1, <1>2 DEF IInv, Typed
<1>5. WakesAreSerial' BY <1>1 DEF IInv, WakesAreSerial
<1>6. \A x \in items : x[2] > now' => x[2] > now BY <1>1, <1>2, <1>3
<1>7. ArmedWhenClean' BY <1>1, <1>6 DEF IInv, ArmedWhenClean, Armed, WillArm
<1> QED BY <1>4, <1>5, <1>7 DEF IInv

-----------------------------------------------------------------------------
(* The theorems.                                                           *)

\* The process boots with no scan and nothing armed.
LEMMA InitIInv == Init => IInv
<1> SUFFICES ASSUME Init PROVE IInv
  OBVIOUS
<1>1. Free \in ScanRow /\ Free.cur = NoScan /\ NoTimer.armedAt = -1 BY DEF Free, ScanRow, NoTimer, NoTime
<1>2. items \in SUBSET Items /\ registered \in SUBSET Sources BY DEF Init
<1>3. -1 \in Int /\ 0 \in Nat OBVIOUS
<1>4. Typed BY <1>1, <1>2, <1>3 DEF Init, Typed
<1>5. WakesAreSerial BY <1>1 DEF Init, WakesAreSerial
<1>6. ArmedWhenClean BY DEF Init, ArmedWhenClean
<1> QED BY <1>4, <1>5, <1>6 DEF IInv

\* Every step keeps the invariant.
LEMMA NextIInv == IInv /\ [Next]_vars => IInv'
<1> SUFFICES ASSUME IInv, [Next]_vars PROVE IInv'
  OBVIOUS
<1>1. ASSUME NEW s \in Sources, Change(s) \/ Register(s) \/ Unregister(s) PROVE IInv'
  BY <1>1, ChangeStep, RegisterStep, UnregisterStep
<1>2. ASSUME NEW i \in ScanIds, ScanStep(i) \/ ListingThrows(i) \/ WakeThrows(i) PROVE IInv'
  BY <1>2, VisitStep, SegmentStep, ArmStep, SettledStep DEF ScanStep
<1>3. CASE Start \/ safetyScan \/ TimerFires BY <1>3, StartStep
<1>4. CASE Stop BY <1>4, StopStep
<1>5. CASE Tick \/ UNCHANGED vars BY <1>5, TickStep
<1> QED BY <1>1, <1>2, <1>3, <1>4, <1>5 DEF Next

\* The inductive invariant holds in every reachable state.
LEMMA Invariance == Spec => []IInv
BY InitIInv, NextIInv, PTL DEF Spec

\* Overlapping scans never have wakeDue of one source in progress twice: not
\* through the nested scan that a wakeDue's own durable change starts, nor
\* through the rescan of a timer, a heartbeat or start().
THEOREM WakesAreSerialHolds == Spec => []WakesAreSerial
<1>1. IInv => WakesAreSerial BY DEF IInv
<1> QED BY <1>1, Invariance, PTL

\* When no scan runs and no mark is left for one, the timer serves every future
\* item of every registered source whose listing did not throw.
THEOREM QuietMeansArmedHolds == Spec => []QuietMeansArmed
<1>1. IInv => QuietMeansArmed BY DEF IInv, ArmedWhenClean, Armed, WillArm, QuietMeansArmed, Idle
<1> QED BY <1>1, Invariance, PTL

=============================================================================
