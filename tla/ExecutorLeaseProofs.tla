------------------------ MODULE ExecutorLeaseProofs ------------------------
(***************************************************************************)
(* Proofs about ExecutorLease for every policy, deadline and bound.  The   *)
(* inductive invariant IInv adds to the checked invariants what makes them *)
(* inductive: an inspection callback always carries a version below the    *)
(* row's and, while the lease is open, the attempt's own deadline; grace   *)
(* is never persisted; a pending attempt has no open lease.                *)
(***************************************************************************)
EXTENDS ExecutorLease, TLAPS

\* Clamping an instant to the hard deadline yields an instant not past it.
LEMMA ClampFacts ==
    ASSUME NEW t \in Nat, NEW h \in OptTime
    PROVE  /\ Clamp(t, h) \in Nat
           /\ h # NoTime => Clamp(t, h) <= h
           /\ Clamp(t, h) <= t
  BY DEF Clamp, Min2, OptTime, NoTime

\* armEvaluation yields an instant, and one past neither the hard deadline nor now.
LEMMA ArmFacts ==
    ASSUME NEW live \in Nat, NEW prog \in Nat, NEW h \in OptTime, now \in Nat, PolicyAssumption
    PROVE  /\ armEvaluation(live, prog, h) \in Nat
           /\ h # NoTime => armEvaluation(live, prog, h) <= Max2(h, now)
  BY DEF armEvaluation, Clamp, Min2, Max2, PolicyAssumption, OptTime, NoTime

\* t is a snapshot with the version, phase, grace and closed flag of s.
Kept(s, t) ==
    /\ t \in Snapshot
    /\ t.ver = s.ver /\ t.phase = s.phase /\ t.closed = s.closed /\ t.grace = s.grace

\* Keeping the evaluation fields is transitive.
LEMMA KeptTrans == ASSUME NEW s, NEW t, NEW u, Kept(s, t), Kept(t, u) PROVE Kept(s, u)
  BY DEF Kept

\* Renewing liveness or progress and resetting the output window keep the evaluation fields.
LEMMA RefreshFacts ==
    ASSUME NEW s \in Snapshot, NEW h \in OptTime, now \in Nat, PolicyAssumption
    PROVE  /\ Kept(s, RefreshLiveness(s, h))
           /\ Kept(s, RefreshProgress(s, h))
           /\ Kept(s, ResetOutput(s))
  <1>1. Clamp(now + LivenessMs, h) \in Nat
    <2>1. now + LivenessMs \in Nat BY DEF PolicyAssumption
    <2> QED BY <2>1, ClampFacts
  <1>2. Clamp(now + MeaningfulProgressMs, h) \in Nat
    <2>1. now + MeaningfulProgressMs \in Nat BY DEF PolicyAssumption
    <2> QED BY <2>1, ClampFacts
  <1>3. Kept(s, RefreshLiveness(s, h))
    BY <1>1 DEF Kept, RefreshLiveness, Snapshot, Time
  <1>4. Kept(s, RefreshProgress(s, h))
    BY <1>2 DEF Kept, RefreshProgress, Snapshot, Time
  <1>5. Kept(s, ResetOutput(s))
    BY DEF Kept, ResetOutput, Snapshot, OptTime
  <1> QED BY <1>3, <1>4, <1>5

\* So does writing one of the fields that facts write.
LEMMA FieldFacts ==
    ASSUME NEW s \in Snapshot, NEW k \in Kinds, NEW t \in OptTime, NEW o \in Ops \cup {NoOp},
           NEW u \in OptTime
    PROVE  /\ Kept(s, [s EXCEPT !.state = k])
           /\ Kept(s, [s EXCEPT !.state = k, !.next = t])
           /\ Kept(s, [s EXCEPT !.op = o, !.silence = t])
           /\ Kept(s, [s EXCEPT !.outSince = t])
           /\ Kept(s, [s EXCEPT !.next = t])
  BY DEF Kept, Snapshot

\* A producing_output fact keeps the evaluation fields.
LEMMA ReduceOutputFacts ==
    ASSUME NEW s \in Snapshot, NEW f \in Fact, NEW h \in OptTime, now \in Nat, PolicyAssumption
    PROVE  Kept(s, reduceOutput(s, f, h))
  <1> DEFINE since == IF s.outSince = NoTime THEN now ELSE s.outSince
             seen == [s EXCEPT !.outSince = since]
  <1>1. since \in OptTime BY DEF OptTime, Snapshot
  <1>2. Kept(s, seen) BY <1>1, FieldFacts DEF Kinds
  <1>3. Kept(s, RefreshProgress(seen, h)) 
    <2>1. seen \in Snapshot BY <1>2 DEF Kept
    <2>2. Kept(seen, RefreshProgress(seen, h)) BY <2>1, RefreshFacts
    <2> QED BY <1>2, <2>2, KeptTrans
  <1>4. Kept(s, s) BY DEF Kept
  <1> QED BY <1>2, <1>3, <1>4 DEF reduceOutput

\* A using_tool fact keeps the evaluation fields.
LEMMA ReduceToolFacts ==
    ASSUME NEW s \in Snapshot, NEW f \in Fact, NEW h \in OptTime, now \in Nat,
           PolicyAssumption, f.kind = "using_tool"
    PROVE  Kept(s, reduceTool(s, f, h))
  <1>1. f.op \in Ops /\ f.step \in {"start", "advance", "end"} /\ f.timeout \in Nat
    BY DEF Fact, PolicyAssumption
  <1>2. CASE f.step = "start"
    <2> DEFINE sil == Clamp(now + Min2(f.timeout, MaxToolSilenceMs), h)
               opened == [s EXCEPT !.op = f.op, !.silence = sil]
               base == IF s.op = f.op THEN s ELSE opened
               moved == [base EXCEPT !.state = "using_tool"]
    <2>1. now + Min2(f.timeout, MaxToolSilenceMs) \in Nat
      BY <1>1 DEF Min2, PolicyAssumption
    <2>2. sil \in OptTime BY <2>1, ClampFacts DEF OptTime
    <2>3. Kept(s, opened) BY <1>1, <2>2, FieldFacts DEF Kinds
    <2>4. Kept(s, base) BY <2>3 DEF Kept
    <2>5. base \in Snapshot BY <2>4 DEF Kept
    <2>6. Kept(base, moved)
      <3>1. "using_tool" \in Kinds /\ NoTime \in OptTime BY DEF Kinds, OptTime
      <3> QED BY <2>5, <3>1, FieldFacts
    <2>7. moved \in Snapshot BY <2>6 DEF Kept
    <2>8. Kept(moved, RefreshLiveness(moved, h)) BY <2>7, RefreshFacts
    <2>9. reduceTool(s, f, h) = RefreshLiveness(moved, h) BY <1>2 DEF reduceTool
    <2> QED BY <2>4, <2>6, <2>8, <2>9, KeptTrans
  <1>3. CASE f.step = "advance"
    <2> DEFINE base == IF s.op = f.op THEN RefreshLiveness(s, h) ELSE s
    <2>1. Kept(s, base) BY RefreshFacts DEF Kept
    <2>2. base \in Snapshot BY <2>1 DEF Kept
    <2>3. Kept(base, [base EXCEPT !.state = "using_tool"])
      <3>1. "using_tool" \in Kinds /\ NoTime \in OptTime BY DEF Kinds, OptTime
      <3> QED BY <2>2, <3>1, FieldFacts
    <2>4. reduceTool(s, f, h) = [base EXCEPT !.state = "using_tool"] BY <1>3 DEF reduceTool
    <2> QED BY <2>1, <2>3, <2>4, KeptTrans
  <1>4. CASE f.step = "end"
    <2> DEFINE progressed == IF s.op = f.op /\ f.fresh THEN RefreshProgress(s, h) ELSE s
               ended == IF s.op = f.op THEN [progressed EXCEPT !.op = NoOp, !.silence = NoTime] ELSE s
               moved == [ended EXCEPT !.state = "alive"]
               alive == RefreshLiveness(moved, h)
    <2>1. Kept(s, progressed) BY RefreshFacts DEF Kept
    <2>2. progressed \in Snapshot BY <2>1 DEF Kept
    <2>3. "alive" \in Kinds /\ NoTime \in OptTime BY DEF Kinds, OptTime
    <2>4. Kept(progressed, [progressed EXCEPT !.op = NoOp, !.silence = NoTime])
      BY <2>2, <2>3, FieldFacts
    <2>5. Kept(s, ended)
      <3>1. Kept(s, [progressed EXCEPT !.op = NoOp, !.silence = NoTime])
        BY <2>1, <2>4, KeptTrans
      <3>2. Kept(s, s) BY DEF Kept
      <3> QED BY <3>1, <3>2
    <2>6. ended \in Snapshot BY <2>5 DEF Kept
    <2>7. Kept(ended, moved) BY <2>3, <2>6, FieldFacts
    <2>8. moved \in Snapshot BY <2>7 DEF Kept
    <2>9. Kept(moved, alive) BY <2>8, RefreshFacts
    <2>10. alive \in Snapshot BY <2>9 DEF Kept
    <2>11. Kept(alive, ResetOutput(alive)) BY <2>10, RefreshFacts
    <2>12. reduceTool(s, f, h) = ResetOutput(alive) BY <1>4 DEF reduceTool
    <2> QED BY <2>5, <2>7, <2>9, <2>11, <2>12, KeptTrans
  <1> QED BY <1>1, <1>2, <1>3, <1>4

\* The reducer's switch keeps the evaluation fields for every kind of fact.
LEMMA ReduceKindFacts ==
    ASSUME NEW s \in Snapshot, NEW f \in Fact, NEW h \in OptTime, now \in Nat, PolicyAssumption
    PROVE  Kept(s, reduceKind(s, f, h))
  <1>1. f.kind \in Kinds BY DEF Fact, Kinds
  <1>2. NoTime \in OptTime /\ now \in OptTime BY DEF OptTime
  <1>3. \A k \in Kinds, u \in Snapshot :
          Kept(s, u) => LET v == [u EXCEPT !.state = k]
                        IN  v \in Snapshot /\ Kept(s, v) /\ Kept(s, RefreshLiveness(v, h))
    <2> TAKE k \in Kinds, u \in Snapshot
    <2> HAVE Kept(s, u)
    <2> DEFINE v == [u EXCEPT !.state = k]
    <2>1. Kept(u, v) BY <1>2, FieldFacts
    <2>2. v \in Snapshot BY <2>1 DEF Kept
    <2>3. Kept(v, RefreshLiveness(v, h)) BY <2>2, RefreshFacts
    <2> QED BY <2>1, <2>2, <2>3, KeptTrans
  <1>4. Kept(s, s) BY DEF Kept
  <1>5. /\ ResetOutput(RefreshProgress(s, h)) \in Snapshot
        /\ Kept(s, ResetOutput(RefreshProgress(s, h)))
    <2>1. Kept(s, RefreshProgress(s, h)) BY RefreshFacts
    <2>2. RefreshProgress(s, h) \in Snapshot BY <2>1 DEF Kept
    <2>3. Kept(RefreshProgress(s, h), ResetOutput(RefreshProgress(s, h))) BY <2>2, RefreshFacts
    <2> QED BY <2>1, <2>3, KeptTrans DEF Kept
  <1>6. CASE f.kind = "alive"
    BY <1>1, <1>3, <1>4, <1>6 DEF reduceKind, Kinds
  <1>7. CASE f.kind = "producing_output"
    <2> DEFINE u == RefreshLiveness([s EXCEPT !.state = "producing_output"], h)
    <2>1. Kept(s, u) BY <1>1, <1>3, <1>4, <1>7
    <2>2. u \in Snapshot BY <2>1 DEF Kept
    <2>3. Kept(u, reduceOutput(u, f, h)) BY <2>2, ReduceOutputFacts
    <2>4. reduceKind(s, f, h) = reduceOutput(u, f, h) BY <1>7 DEF reduceKind
    <2> QED BY <2>1, <2>3, <2>4, KeptTrans
  <1>8. CASE f.kind = "using_tool"
    BY <1>8, ReduceToolFacts DEF reduceKind
  <1>9. CASE f.kind = "durable_milestone"
    <2> DEFINE u == IF f.fresh THEN ResetOutput(RefreshProgress(s, h)) ELSE s
    <2>1. u \in Snapshot /\ Kept(s, u) BY <1>4, <1>5
    <2>2. Kept(s, RefreshLiveness([u EXCEPT !.state = "durable_milestone"], h))
      BY <1>1, <1>3, <1>9, <2>1
    <2> QED BY <1>9, <2>2 DEF reduceKind
  <1>10. CASE f.kind = "awaiting_input"
    <2>1. "awaiting_input" \in Kinds /\ "alive" \in Kinds BY DEF Kinds
    <2>2. Kept(s, RefreshLiveness([s EXCEPT !.state = "awaiting_input"], h))
      BY <1>3, <1>4, <2>1
    <2>3. Kept(s, RefreshLiveness([ResetOutput(RefreshProgress(s, h)) EXCEPT !.state = "alive"], h))
      BY <1>3, <1>5, <2>1
    <2> QED BY <1>10, <2>2, <2>3 DEF reduceKind
  <1>11. CASE f.kind = "stalled"
    <2> DEFINE u == [s EXCEPT !.state = "stalled", !.next = now]
    <2>1. Kept(s, u) BY <1>1, <1>2, <1>11, FieldFacts
    <2>2. u \in Snapshot BY <2>1 DEF Kept
    <2>3. Kept(u, RefreshLiveness(u, h)) BY <2>2, RefreshFacts
    <2>4. reduceKind(s, f, h) = RefreshLiveness(u, h) BY <1>11 DEF reduceKind
    <2> QED BY <2>1, <2>3, <2>4, KeptTrans
  <1> QED BY <1>1, <1>6, <1>7, <1>8, <1>9, <1>10, <1>11 DEF Kinds

\* reduceFact bumps the version, keeps the phase and leaves the lease armed in time.
LEMMA ReduceFactFacts ==
    ASSUME NEW s \in Snapshot, NEW f \in Fact, NEW h \in OptTime, now \in Nat, PolicyAssumption
    PROVE  LET t == reduceFact(s, f, h)
           IN  /\ t \in Snapshot
               /\ t.ver = s.ver + 1 /\ t.phase = s.phase /\ t.closed = s.closed /\ t.grace = s.grace
               /\ t.next \in Nat
               /\ h # NoTime => t.next <= Max2(h, now)
  <1> DEFINE r == reduceKind(s, f, h)
             reduced == [r EXCEPT !.ver = s.ver + 1]
             armed == armEvaluation(reduced.live, reduced.prog, h)
  <1>1. Kept(s, r) BY ReduceKindFacts
  <1>2. r \in Snapshot BY <1>1 DEF Kept
  <1>3. s.ver + 1 \in Nat BY DEF Snapshot
  <1>4. /\ reduced \in Snapshot /\ reduced.ver = s.ver + 1 /\ reduced.phase = s.phase
        /\ reduced.closed = s.closed /\ reduced.grace = s.grace
    BY <1>1, <1>2, <1>3 DEF Kept, Snapshot
  <1>5. reduced.live \in Nat /\ reduced.prog \in Nat /\ reduced.next \in Nat \cup {NoTime}
    BY <1>4 DEF Snapshot, Time, OptTime
  <1> HIDE DEF r, reduced
  <1>6. armed \in Nat /\ (h # NoTime => armed <= Max2(h, now)) BY <1>5, ArmFacts
  <1> HIDE DEF armed
  <1>7. reduceFact(s, f, h) = IF reduced.next = NoTime \/ reduced.next > armed
                              THEN [reduced EXCEPT !.next = armed] ELSE reduced
    BY DEF reduceFact, armed, reduced, r
  <1>8. Max2(h, now) \in Int BY DEF Max2, OptTime, NoTime
  <1>9. CASE reduced.next = NoTime \/ reduced.next > armed
    <2>1. reduceFact(s, f, h) = [reduced EXCEPT !.next = armed] BY <1>7, <1>9
    <2>2. armed \in OptTime BY <1>6 DEF OptTime
    <2>3. Kept(reduced, [reduced EXCEPT !.next = armed]) /\ [reduced EXCEPT !.next = armed].next = armed
      BY <1>4, <2>2 DEF Kept, Snapshot
    <2> QED BY <1>4, <1>6, <2>1, <2>3 DEF Kept
  <1>10. CASE ~(reduced.next = NoTime \/ reduced.next > armed)
    <2>1. reduceFact(s, f, h) = reduced BY <1>7, <1>10
    <2>2. reduced.next \in Nat /\ reduced.next <= armed BY <1>5, <1>6, <1>10
    <2>3. h # NoTime => reduced.next <= Max2(h, now) BY <1>6, <1>8, <2>2
    <2> QED BY <1>4, <2>1, <2>2, <2>3
  <1> QED BY <1>9, <1>10

\* A healthy or warning decision always names a next instant, and in time.
LEMMA EvaluateFacts ==
    ASSUME NEW s \in Snapshot, NEW h \in OptTime, now \in Nat, PolicyAssumption, s.grace = NoTime,
           evaluateLease(s, h).action \in {"healthy", "warning"}
    PROVE  /\ evaluateLease(s, h).next \in Nat
           /\ h # NoTime => evaluateLease(s, h).next <= Max2(h, now)
  <1>1. s.silence \in OptTime /\ s.live \in Nat /\ s.prog \in Nat BY DEF Snapshot, Time
  <1>2. CASE s.op # NoOp
    <2>1. evaluateLease(s, h).next = Clamp(s.silence, h) /\ now < s.silence
      BY <1>1, <1>2 DEF evaluateLease, Decision, OptTime, NoTime
    <2>2. s.silence \in Nat BY <1>1, <2>1 DEF OptTime, NoTime
    <2>3. Clamp(s.silence, h) \in Nat /\ (h # NoTime => Clamp(s.silence, h) <= h)
      BY <2>2, ClampFacts
    <2>4. h # NoTime => Clamp(s.silence, h) <= Max2(h, now)
      BY <2>3 DEF Max2, OptTime, NoTime
    <2> QED BY <2>1, <2>3, <2>4
  <1>3. CASE s.op = NoOp
    <2>1. evaluateLease(s, h) = evaluateDeadlines(s, h)
      BY <1>3 DEF evaluateLease, Decision
    <2> DEFINE live == Clamp(s.live, h)
               prog == Clamp(s.prog, h)
               first == Min2(live, prog)
    <2>2. live \in Nat /\ prog \in Nat /\ (h # NoTime => live <= h /\ prog <= h)
      BY <1>1, ClampFacts
    <2>3. first \in Nat /\ (h # NoTime => first <= h)
      BY <2>2 DEF Min2, OptTime, NoTime
    <2> DEFINE next == evaluateDeadlines(s, h).next
    <2>4. next = now \/ next = first \/ (next = first - WarningBeforeMs /\ ~(now >= first - WarningBeforeMs))
      BY <2>1 DEF evaluateDeadlines, Decision
    <2> HIDE DEF next, first
    <2>5. next \in Nat /\ (h # NoTime => next <= Max2(h, now))
      BY <2>3, <2>4 DEF Max2, PolicyAssumption, OptTime, NoTime
    <2> QED BY <2>1, <2>5 DEF next
  <1> QED BY <1>2, <1>3

\* A decision carries one of the declared reasons.
LEMMA DecisionReasons ==
    ASSUME NEW s, NEW h
    PROVE  evaluateLease(s, h).reason \in Reasons
  <1>1. evaluateDeadlines(s, h).reason \in Reasons
    BY DEF evaluateDeadlines, Decision, Reasons
  <1> QED BY <1>1 DEF evaluateLease, Decision, Reasons

Mirror(s) == s.colVer = s.ver /\ s.colNext = s.next /\ s.colClosed = s.closed
ClosedPhase(s) == s.closed <=> (s.phase = "closed")

\* updateEvaluation changes nothing or moves phase, version and arming, columns and JSON together.
LEMMA UpdateFacts ==
    ASSUME NEW s \in Snapshot, NEW phase \in Phases, NEW expected, NEW nextAt \in OptTime, Mirror(s)
    PROVE  LET t == updateEvaluation(s, phase, expected, nextAt)
           IN  \/ t = s
               \/ /\ casAccepts(s, phase, expected)
                  /\ t \in Snapshot /\ Mirror(t)
                  /\ t.phase = phase /\ t.closed = s.closed /\ t.grace = s.grace
                  /\ t.colVer = s.colVer + 1
                  /\ t.next = IF nextAt = NoTime THEN s.next ELSE nextAt
  <1> DEFINE upcoming == IF nextAt = NoTime THEN s.next ELSE nextAt
  <1>1. upcoming \in OptTime /\ s.colVer + 1 \in Nat BY DEF Snapshot
  <1> QED BY <1>1 DEF updateEvaluation, Snapshot, Mirror

\* setUpcomingEvaluation moves only the arming, columns and JSON together.
LEMMA UpcomingFacts ==
    ASSUME NEW s \in Snapshot, NEW nextAt \in OptTime, Mirror(s)
    PROVE  LET t == setUpcomingEvaluation(s, nextAt)
           IN  /\ t \in Snapshot /\ Mirror(t)
               /\ t.phase = s.phase /\ t.closed = s.closed /\ t.grace = s.grace
               /\ t.colVer = s.colVer
               /\ ~s.closed /\ s.phase # "cancel_requested" => t.next = nextAt
  BY DEF setUpcomingEvaluation, Snapshot, Mirror

\* INSERT OR REPLACE leaves columns that mirror the JSON.
LEMMA ReplaceFacts ==
    ASSUME NEW s \in Snapshot
    PROVE  LET t == replaceRow(s)
           IN  /\ t \in Snapshot /\ Mirror(t)
               /\ t.phase = s.phase /\ t.closed = s.closed /\ t.grace = s.grace
               /\ t.colVer = s.ver /\ t.next = s.next
  BY DEF replaceRow, Snapshot, Mirror

\* The absent lease is well-typed.
LEMMA NoLeaseFacts == NoLease \in Snapshot
  BY DEF NoLease, Snapshot, Kinds, Time, OptTime, Phases, Reasons

\* closeLease yields a closed, mirrored row whose version has not gone back.
LEMMA CloseFacts ==
    ASSUME NEW s \in Snapshot, Mirror(s), ClosedPhase(s), s.grace = NoTime,
           s.phase = "absent" => s = NoLease, now \in Nat
    PROVE  LET t == closeLease(s)
           IN  /\ t \in Snapshot /\ Mirror(t)
               /\ t.phase = "closed" /\ t.closed = TRUE /\ t.grace = NoTime
               /\ t.colVer >= s.colVer
  <1>1. CASE s.phase = "absent"
    <2> DEFINE u == [NoLease EXCEPT !.ver = 1, !.live = now, !.prog = now, !.lastProg = now,
                                    !.phase = "closed", !.closed = TRUE]
    <2>1. u \in Snapshot /\ u.phase = "closed" /\ u.closed = TRUE /\ u.grace = NoTime /\ u.ver = 1
      <3>1. NoLease.grace = NoTime BY DEF NoLease
      <3> QED BY <3>1, NoLeaseFacts DEF Snapshot, Time, Phases
    <2>2. closeLease(s) = replaceRow(u) BY <1>1 DEF closeLease
    <2>3. s.colVer = 0 BY <1>1 DEF NoLease
    <2> HIDE DEF u
    <2> QED BY <2>1, <2>2, <2>3, ReplaceFacts
  <1>2. CASE s.phase # "absent" /\ s.closed
    BY <1>2 DEF closeLease, ClosedPhase, Snapshot
  <1>3. CASE s.phase # "absent" /\ ~s.closed
    <2> DEFINE u == [s EXCEPT !.closed = TRUE, !.phase = "closed", !.next = NoTime]
    <2>1. u \in Snapshot /\ u.phase = "closed" /\ u.closed = TRUE /\ u.grace = NoTime /\ u.ver = s.ver
      BY DEF Snapshot, Phases, OptTime
    <2>2. closeLease(s) = replaceRow(u) BY <1>3 DEF closeLease
    <2>3. s.ver = s.colVer /\ s.ver \in Nat BY DEF Mirror, Snapshot
    <2> HIDE DEF u
    <2> QED BY <2>1, <2>2, <2>3, ReplaceFacts
  <1> QED BY <1>1, <1>2, <1>3

\* An inspection outcome is healthy or grace, armed in time.
LEMMA OutcomeFacts ==
    ASSUME NEW s \in Snapshot, NEW outcome \in {"running", "unknown"}, NEW h \in OptTime,
           now \in Nat, PolicyAssumption
    PROVE  LET u == applyInspectionOutcome(s, outcome, h)
           IN  /\ u.phase \in {"healthy", "inspect_grace"}
               /\ u.next \in Nat /\ (h # NoTime => u.next <= Max2(h, now))
               /\ u.phase = "inspect_grace" => u.grace \in OptTime
  <1> DEFINE graceEnd == Clamp(now + InspectGraceMs, h)
             healthyAt == Clamp(now + LivenessMs - WarningBeforeMs, h)
             progressAt == s.lastProg + MeaningfulProgressMs
             u == applyInspectionOutcome(s, outcome, h)
  <1>1. graceEnd \in Nat /\ (h # NoTime => graceEnd <= h)
    <2>1. now + InspectGraceMs \in Nat BY DEF PolicyAssumption
    <2> QED BY <2>1, ClampFacts
  <1>2. healthyAt \in Nat /\ (h # NoTime => healthyAt <= h)
    <2>1. now + LivenessMs - WarningBeforeMs \in Nat BY DEF PolicyAssumption
    <2> QED BY <2>1, ClampFacts
  <1>3. progressAt \in Nat BY DEF PolicyAssumption, Snapshot, Time
  <1>4. /\ u.phase \in {"healthy", "inspect_grace"}
        /\ u.next \in {graceEnd, healthyAt, now}
        /\ u.phase = "inspect_grace" => u.grace \in {graceEnd, now}
    <2>1. s.count + 1 \in Nat BY DEF Snapshot
    <2>2. (now >= progressAt \/ now < progressAt) BY <1>3
    <2>3. s.count + 1 >= MaxUnknownInspections \/ s.count + 1 < MaxUnknownInspections
      BY <2>1 DEF PolicyAssumption
    <2>4. CASE outcome = "running" /\ now >= progressAt
      BY <2>4, <1>3 DEF applyInspectionOutcome, Snapshot
    <2>5. CASE outcome = "running" /\ now < progressAt
      <3> DEFINE v == [s EXCEPT !.count = s.count + 1, !.ver = s.ver + 1, !.phase = "healthy",
                                !.prog = Clamp(progressAt, h), !.next = healthyAt]
      <3>1. ~(now >= progressAt) BY <2>5, <1>3
      <3>2. u = [v EXCEPT !.live = Clamp(now + LivenessMs, h)]
        BY <2>5, <3>1 DEF applyInspectionOutcome, Snapshot
      <3>3. u.phase = "healthy" /\ u.next = healthyAt
        BY <3>2 DEF Snapshot
      <3> QED BY <3>3
    <2>6. CASE outcome = "unknown" /\ s.count + 1 >= MaxUnknownInspections
      BY <2>6, <1>3, <2>1 DEF applyInspectionOutcome, Snapshot, PolicyAssumption
    <2>7. CASE outcome = "unknown" /\ s.count + 1 < MaxUnknownInspections
      BY <2>7, <1>3, <2>1 DEF applyInspectionOutcome, Snapshot, PolicyAssumption
    <2> QED BY <2>2, <2>3, <2>4, <2>5, <2>6, <2>7
  <1> HIDE DEF u, graceEnd, healthyAt
  <1>5. u.next \in Nat /\ (h # NoTime => u.next <= Max2(h, now))
    BY <1>1, <1>2, <1>4 DEF Max2, OptTime, NoTime
  <1>6. u.phase = "inspect_grace" => u.grace \in OptTime
    BY <1>1, <1>4 DEF OptTime
  <1> QED BY <1>4, <1>5, <1>6 DEF u

Fenced == \A i \in inspections : i.ver < lease.colVer /\ (lease.closed \/ i.hard = hard)
PendingHasNoLease == lifecycle = "pending" => lease.phase \in {"absent", "closed"}
AbsentIsEmpty == lease.phase = "absent" => lease = NoLease

IInv ==
    /\ TypeOK
    /\ ColumnsMirrorJson
    /\ LeaseFollowsAttempt
    /\ ArmedWithinHardDeadline
    /\ Fenced
    /\ lease.grace = NoTime
    /\ PendingHasNoLease
    /\ AbsentIsEmpty

\* The initial states satisfy the inductive invariant.
LEMMA InitIInv == ASSUME Init, PolicyAssumption PROVE IInv
  <1>1. TypeOK
    <2>1. now \in Time /\ hard \in OptTime /\ card \in CardStatuses BY DEF Init, Time, OptTime, CardStatuses
    <2>2. env \in 0..MaxEnv BY DEF Init, PolicyAssumption
    <2>3. lease \in Snapshot BY NoLeaseFacts DEF Init
    <2>4. lifecycle \in Lifecycles /\ inspections \subseteq Inspection /\ cancelling \in BOOLEAN
      BY DEF Init, Lifecycles
    <2> QED BY <2>1, <2>2, <2>3, <2>4 DEF TypeOK
  <1>2. lease.phase = "absent" /\ lease.closed = FALSE /\ lease.grace = NoTime
        /\ lease.colVer = lease.ver /\ lease.colNext = lease.next /\ lease.colClosed = lease.closed
    BY DEF Init, NoLease
  <1> QED
    BY <1>1, <1>2 DEF Init, IInv, ColumnsMirrorJson, LeaseFollowsAttempt, ArmedWithinHardDeadline,
       Exists, Fenced, PendingHasNoLease, AbsentIsEmpty, ActiveStates, TerminalStates

\* What a step must establish about the lease when it closes it.
LEMMA ClosingStep ==
    ASSUME IInv, PolicyAssumption, lease' = closeLease(lease),
           now' \in Nat, lifecycle' \in Lifecycles, hard' \in OptTime, inspections' \subseteq inspections,
           card' \in CardStatuses, cancelling' \in BOOLEAN, env' \in 0..MaxEnv
    PROVE  IInv'
  <1>1. /\ lease' \in Snapshot /\ Mirror(lease')
        /\ lease'.phase = "closed" /\ lease'.closed = TRUE /\ lease'.grace = NoTime
        /\ lease'.colVer >= lease.colVer
    BY CloseFacts DEF IInv, TypeOK, ColumnsMirrorJson, Mirror, LeaseFollowsAttempt, ClosedPhase,
       AbsentIsEmpty, Time
  <1>2. TypeOK' BY <1>1 DEF IInv, TypeOK, Time
  <1>3. Fenced'
    <2>1. lease.colVer \in Nat /\ lease'.colVer \in Nat BY <1>1 DEF IInv, TypeOK, Snapshot
    <2>2. \A i \in inspections : i.ver \in Nat BY DEF IInv, TypeOK, Inspection
    <2> QED BY <1>1, <2>1, <2>2 DEF IInv, Fenced
  <1> QED
    BY <1>1, <1>2, <1>3 DEF IInv, ColumnsMirrorJson, Mirror, LeaseFollowsAttempt,
       ArmedWithinHardDeadline, PendingHasNoLease, AbsentIsEmpty

\* ... and when it writes an open one.
LEMMA OpenStep ==
    ASSUME IInv, PolicyAssumption,
           lease' \in Snapshot, Mirror(lease'), ClosedPhase(lease'), lease'.grace = NoTime,
           ~lease.closed, ~lease'.closed, lease'.phase # "absent",
           lease'.phase = "cancel_requested" => lifecycle' = "cancel_requested",
           lifecycle \notin TerminalStates \cup {"pending"},
           lifecycle' \notin TerminalStates \cup {"pending"}, lifecycle' \in Lifecycles,
           lease'.colVer >= lease.colVer,
           lifecycle' \in ActiveStates => lease'.next # NoTime /\ (hard # NoTime => lease'.next <= Max2(hard, now)),
           now' = now, hard' = hard, card' \in CardStatuses,
           \A i \in inspections' : i \in inspections
                \/ (i.ver \in Nat /\ i.ver < lease'.colVer /\ i.hard = hard),
           cancelling' \in BOOLEAN, env' \in 0..MaxEnv,
           inspections' \subseteq Inspection
    PROVE  IInv'
  <1>1. TypeOK' BY DEF IInv, TypeOK
  <1>2. Fenced'
    <2>1. lease.colVer \in Nat /\ lease'.colVer \in Nat BY DEF IInv, TypeOK, Snapshot
    <2>2. \A i \in inspections : i.ver \in Nat BY DEF IInv, TypeOK, Inspection
    <2> QED BY <2>1, <2>2 DEF IInv, Fenced
  <1>3. ArmedWithinHardDeadline' BY DEF ArmedWithinHardDeadline, Max2
  <1> QED
    BY <1>1, <1>2, <1>3 DEF IInv, ColumnsMirrorJson, Mirror, LeaseFollowsAttempt, ClosedPhase,
       PendingHasNoLease, AbsentIsEmpty

\* A step that leaves attempt and lease alone may only drop promises.
LEMMA IdleStep ==
    ASSUME IInv, UNCHANGED <<now, lifecycle, hard, lease>>, inspections' \subseteq inspections,
           card' \in CardStatuses, cancelling' \in BOOLEAN, env' \in 0..MaxEnv
    PROVE  IInv'
  BY DEF IInv, TypeOK, ColumnsMirrorJson, LeaseFollowsAttempt, ArmedWithinHardDeadline, Exists, Fenced,
     PendingHasNoLease, AbsentIsEmpty

\* Every step leaves the card in one of its statuses.
LEMMA CardTyped == ASSUME IInv, [Next]_vars PROVE card' \in CardStatuses
  <1>1. card \in CardStatuses BY DEF IInv, TypeOK
  <1>2. CASE UNCHANGED card BY <1>1, <1>2
  <1>3. CASE UNCHANGED vars BY <1>1, <1>3 DEF vars
  <1>4. CASE CardRuns \/ \E to \in CardStatuses : CardMoves(to)
    BY <1>4 DEF CardRuns, CardMoves, CardStatuses
  <1>5. CASE \/ Tick \/ Claim \/ MarkStartObservable \/ MarkRunning \/ RequestCancel
             \/ deferClaimAfterProvenNoStart \/ \E s \in TerminalStates : SettleByExecutor(s)
             \/ \E f \in Fact : appendFact(f)
    BY <1>2, <1>5 DEF Tick, Claim, MarkStartObservable, MarkRunning, RequestCancel, Advance,
       deferClaimAfterProvenNoStart, SettleByExecutor, appendFact, attemptVars
  <1>6. CASE EvaluateHealthyOrWarning \/ PerformInspection \/ SkipInspection \/ PerformCancellation
    BY <1>2, <1>6 DEF EvaluateHealthyOrWarning, PerformInspection, SkipInspection,
       PerformCancellation, attemptVars
  <1>7. CASE \/ ResolveCancel \/ CrashAndRecover
             \/ \E i \in inspections, o \in {"running", "unknown"} : ResolveInspection(i, o)
             \/ \E i \in inspections : ResolveTerminalInspection(i) \/ RejectInspection(i)
    BY <1>2, <1>7 DEF ResolveCancel, CrashAndRecover, ResolveInspection,
       ResolveTerminalInspection, RejectInspection, attemptVars
  <1> QED BY <1>3, <1>4, <1>5, <1>6, <1>7 DEF Next

\* Every step, of every handler and promise, preserves the inductive invariant.
LEMMA NextIInv == ASSUME IInv, [Next]_vars, PolicyAssumption PROVE IInv'
  <1> USE DEF IInv
  <1>C. card' \in CardStatuses BY CardTyped
  <1>0. /\ now \in Nat /\ lifecycle \in Lifecycles /\ hard \in OptTime /\ lease \in Snapshot
        /\ inspections \subseteq Inspection /\ cancelling \in BOOLEAN /\ env \in 0..MaxEnv
        /\ card' \in CardStatuses
    BY <1>C DEF TypeOK, Time
  <1>M. Mirror(lease) /\ ClosedPhase(lease) BY DEF ColumnsMirrorJson, LeaseFollowsAttempt, Mirror, ClosedPhase
  <1>S. Spend => env' \in 0..MaxEnv BY <1>0 DEF Spend, PolicyAssumption
  <1>W. Wake => env' \in 0..MaxEnv BY <1>0, <1>S DEF Wake
  <1>L. TerminalStates \cup ActiveStates \cup {"pending", "cancel_requested"} \subseteq Lifecycles
    BY DEF Lifecycles
  <1>1. CASE UNCHANGED vars
    BY <1>1 DEF vars, TypeOK, ColumnsMirrorJson, LeaseFollowsAttempt, ArmedWithinHardDeadline, Exists,
       Fenced, PendingHasNoLease, AbsentIsEmpty
  <1>2. CASE Tick
    <2>1. TypeOK' BY <1>0, <1>2 DEF Tick, TypeOK, Time, attemptVars, promiseVars
    <2>2. ArmedWithinHardDeadline'
      <3>1. lease.next \in Int BY <1>0 DEF Snapshot, OptTime, NoTime
      <3> QED BY <1>0, <1>2, <3>1 DEF Tick, ArmedWithinHardDeadline, Exists, Max2, attemptVars, OptTime, NoTime
    <2> QED
      BY <1>2, <2>1, <2>2 DEF Tick, attemptVars, promiseVars, ColumnsMirrorJson, LeaseFollowsAttempt,
         Fenced, PendingHasNoLease, AbsentIsEmpty
  <1>3. CASE Claim
    <2>1. hard' \in OptTime BY <1>0, <1>3 DEF Claim, OptTime, PolicyAssumption, NoTime
    <2>2. TypeOK' BY <1>0, <1>3, <2>1, <1>L DEF Claim, TypeOK, promiseVars, ActiveStates, Time
    <2>3. lease.phase \in {"absent", "closed"} BY <1>3 DEF Claim, PendingHasNoLease
    <2>4. Fenced'
      <3>1. lease.phase = "absent" => inspections = {}
        <4>1. lease.phase = "absent" => lease.colVer = 0 BY DEF AbsentIsEmpty, NoLease
        <4>2. \A i \in inspections : i.ver \in Nat BY <1>0 DEF Inspection
        <4> QED BY <4>1, <4>2 DEF Fenced
      <3>2. lease.phase = "closed" => lease.closed BY <1>M DEF ClosedPhase
      <3> QED BY <1>3, <2>3, <3>1, <3>2 DEF Claim, Fenced, promiseVars
    <2> QED
      BY <1>3, <1>M, <2>2, <2>3, <2>4 DEF Claim, promiseVars, ColumnsMirrorJson, LeaseFollowsAttempt,
         ArmedWithinHardDeadline, Exists, PendingHasNoLease, AbsentIsEmpty, TerminalStates, ClosedPhase
  <1>4. CASE MarkStartObservable \/ MarkRunning \/ RequestCancel
    <2>1. /\ lifecycle \in ActiveStates
          /\ lifecycle' \in {"starting", "running", "cancel_requested"}
          /\ UNCHANGED <<now, hard, lease, inspections, cancelling, env>>
      BY <1>4 DEF MarkStartObservable, MarkRunning, RequestCancel, Advance, ActiveStates, promiseVars
    <2>2. lifecycle' \in Lifecycles BY <2>1, <1>L DEF ActiveStates
    <2>3. TypeOK' BY <1>0, <2>1, <2>2 DEF TypeOK, Time
    <2>4. lease.phase # "cancel_requested" BY <2>1 DEF LeaseFollowsAttempt, ActiveStates
    <2> QED
      BY <2>1, <2>3, <2>4 DEF ColumnsMirrorJson, LeaseFollowsAttempt, ArmedWithinHardDeadline, Exists,
         Fenced, PendingHasNoLease, AbsentIsEmpty, ActiveStates, TerminalStates
  <1>5. CASE deferClaimAfterProvenNoStart
    <2>1. hard' \in OptTime /\ lifecycle' \in Lifecycles
      BY <1>5, <1>L DEF deferClaimAfterProvenNoStart, OptTime
    <2> QED BY <1>0, <1>5, <1>S, <2>1, ClosingStep DEF deferClaimAfterProvenNoStart, promiseVars
  <1>6. CASE \E t \in TerminalStates : SettleByExecutor(t)
    <2>1. lifecycle' \in Lifecycles BY <1>6, <1>L DEF SettleByExecutor, Settle
    <2> QED BY <1>0, <1>6, <2>1, ClosingStep DEF SettleByExecutor, Settle, promiseVars
  <1>7. CASE \E f \in Fact : appendFact(f)
    <2> PICK f \in Fact : appendFact(f) BY <1>7
    <2> DEFINE t == IF Exists THEN reduceFact(lease, f, hard) ELSE createInitialSnapshot(f, hard)
    <2>1. /\ t \in Snapshot /\ t.ver >= lease.ver /\ t.phase # "absent"
          /\ t.phase = IF Exists THEN lease.phase ELSE "healthy"
          /\ t.closed = FALSE /\ t.grace = NoTime
          /\ t.next \in Nat /\ (hard # NoTime => t.next <= Max2(hard, now))
      <3>1. CASE Exists
        <4>1. t = reduceFact(lease, f, hard) BY <3>1
        <4>2. lease.closed = FALSE BY <1>0 DEF appendFact, Snapshot
        <4>3. lease.ver \in Nat BY <1>0 DEF Snapshot
        <4> HIDE DEF t
        <4> QED BY <1>0, <3>1, <4>1, <4>2, <4>3, ReduceFactFacts DEF Exists
      <3>2. CASE ~Exists
        <4> DEFINE live == Clamp(now + LivenessMs, hard)
                   prog == Clamp(now + MeaningfulProgressMs, hard)
                   armed == armEvaluation(live, prog, hard)
        <4>1. now + LivenessMs \in Nat /\ now + MeaningfulProgressMs \in Nat
          BY <1>0 DEF PolicyAssumption
        <4>2. live \in Nat /\ prog \in Nat BY <1>0, <4>1, ClampFacts
        <4>3. armed \in Nat /\ (hard # NoTime => armed <= Max2(hard, now))
          BY <1>0, <4>2, ArmFacts
        <4>4. f.kind \in Kinds BY DEF Fact, Kinds
        <4>5. t = [NoLease EXCEPT !.ver = 1, !.state = f.kind, !.live = live, !.prog = prog,
                        !.lastProg = now, !.phase = "healthy", !.next = armed]
          BY <3>2 DEF createInitialSnapshot
        <4> HIDE DEF live, prog, armed, t
        <4>6. NoLease.grace = NoTime /\ NoLease.closed = FALSE /\ NoLease.ver = 0 BY DEF NoLease
        <4>7. t \in Snapshot /\ t.ver = 1 /\ t.phase = "healthy" /\ t.next = armed
              /\ t.closed = FALSE /\ t.grace = NoTime
          <5> DEFINE u == [NoLease EXCEPT !.ver = 1, !.state = f.kind, !.live = live, !.prog = prog]
          <5>1. u \in Snapshot /\ u.ver = 1 /\ u.closed = FALSE /\ u.grace = NoTime
            BY <4>2, <4>4, <4>6, NoLeaseFacts DEF Snapshot, Time
          <5>2. t = [u EXCEPT !.lastProg = now, !.phase = "healthy", !.next = armed]
            BY <4>5, NoLeaseFacts DEF Snapshot
          <5> HIDE DEF u
          <5>3. armed \in OptTime /\ "healthy" \in Phases BY <4>3 DEF OptTime, Phases
          <5> QED BY <1>0, <5>1, <5>2, <5>3 DEF Snapshot, Time
        <4>8. lease.ver = 0 BY <3>2 DEF Exists, AbsentIsEmpty, NoLease
        <4> QED BY <3>2, <4>3, <4>7, <4>8
      <3> QED BY <3>1, <3>2
    <2>2. lease' = replaceRow(t) BY DEF appendFact
    <2> HIDE DEF t
    <2>3. /\ lease' \in Snapshot /\ Mirror(lease') /\ lease'.phase = t.phase
          /\ lease'.closed = FALSE /\ lease'.grace = NoTime /\ lease'.colVer = t.ver
          /\ lease'.next = t.next
      BY <2>1, <2>2, ReplaceFacts
    <2>4. t.ver >= lease.colVer BY <1>M, <2>1 DEF Mirror
    <2>5. lease.phase # "cancel_requested" BY DEF appendFact, LeaseFollowsAttempt, ActiveStates
    <2>6. lease.phase # "closed" /\ ~lease.closed BY <1>M DEF appendFact, ClosedPhase
    <2>7. ClosedPhase(lease') BY <2>1, <2>3, <2>6 DEF ClosedPhase
    <2>8. lifecycle \notin TerminalStates \cup {"pending"} BY DEF appendFact, ActiveStates, TerminalStates
    <2>9. lease'.next # NoTime BY <2>1, <2>3 DEF NoTime
    <2>10. lease'.phase # "cancel_requested" BY <2>1, <2>3, <2>5
    <2> QED
      BY <1>0, <1>S, <2>1, <2>3, <2>4, <2>6, <2>7, <2>8, <2>9, <2>10, OpenStep
      DEF appendFact, attemptVars, promiseVars
  <1>8. CASE EvaluateHealthyOrWarning
    <2> DEFINE d == evaluateLease(lease, hard)
               moved == IF lease.phase = d.action THEN lease
                        ELSE updateEvaluation(lease, d.action, lease.ver, NoTime)
    <2>1. /\ d.action \in {"healthy", "warning"}
          /\ lease' = setUpcomingEvaluation(moved, d.next)
          /\ ~lease.closed /\ lease.phase # "cancel_requested" /\ lease.phase # "absent"
          /\ lifecycle \notin TerminalStates \cup {"pending"}
      BY <1>8 DEF EvaluateHealthyOrWarning, Current, Evaluated, Exists
    <2>2. d.next \in Nat /\ (hard # NoTime => d.next <= Max2(hard, now))
      BY <1>0, <2>1, EvaluateFacts
    <2>3. d.action \in Phases /\ NoTime \in OptTime /\ d.next \in OptTime
      BY <2>1, <2>2 DEF Phases, OptTime
    <2> HIDE DEF d
    <2>4. /\ moved \in Snapshot /\ Mirror(moved) /\ ~moved.closed /\ moved.grace = NoTime
          /\ moved.phase \in {lease.phase, d.action} /\ moved.colVer >= lease.colVer
      <3>1. lease.colVer \in Nat BY <1>0 DEF Snapshot
      <3> QED BY <1>0, <1>M, <2>1, <2>3, <3>1, UpdateFacts
    <2> HIDE DEF moved
    <2>5. moved.phase # "cancel_requested" /\ moved.phase # "absent" /\ moved.phase # "closed"
      BY <1>M, <2>1, <2>4 DEF ClosedPhase
    <2>6. /\ lease' \in Snapshot /\ Mirror(lease') /\ lease'.phase = moved.phase /\ ~lease'.closed
          /\ lease'.grace = NoTime /\ lease'.colVer = moved.colVer /\ lease'.next = d.next
      BY <2>1, <2>3, <2>4, <2>5, UpcomingFacts
    <2>7. ClosedPhase(lease') BY <2>5, <2>6 DEF ClosedPhase
    <2>8. lease'.next # NoTime BY <2>2, <2>6 DEF NoTime
    <2> QED
      BY <1>0, <1>8, <1>W, <2>1, <2>2, <2>4, <2>5, <2>6, <2>7, <2>8, OpenStep
      DEF EvaluateHealthyOrWarning, attemptVars, promiseVars
  <1>9. CASE PerformInspection \/ SkipInspection
    <2>1. /\ ~lease.closed /\ lease.phase # "cancel_requested" /\ lease.phase # "absent"
          /\ lifecycle \notin TerminalStates \cup {"pending"}
          /\ casAccepts(lease, "inspecting", lease.ver)
          /\ UNCHANGED <<now, lifecycle, hard, cancelling>>
          /\ env' \in 0..MaxEnv
      BY <1>9, <1>S, <1>W DEF PerformInspection, SkipInspection, Evaluated, Exists, attemptVars, promiseVars
    <2> DEFINE u == updateEvaluation(lease, "inspecting", lease.ver, NoTime)
    <2>2. "inspecting" \in Phases /\ "inspect_due" \in Phases /\ NoTime \in OptTime
      BY DEF Phases, OptTime
    <2>3. /\ u \in Snapshot /\ Mirror(u) /\ ~u.closed /\ u.grace = NoTime
          /\ u.phase = "inspecting" /\ u.colVer = lease.colVer + 1 /\ u.next = lease.next
      <3>1. u.phase = "inspecting" /\ u.colVer = lease.colVer + 1
        BY <1>0, <2>1 DEF updateEvaluation, Snapshot
      <3>2. u # lease
        <4>1. lease.colVer \in Nat BY <1>0 DEF Snapshot
        <4> QED BY <3>1, <4>1
      <3> HIDE DEF u
      <3> QED BY <1>0, <1>M, <2>1, <2>2, <3>1, <3>2, UpdateFacts DEF u
    <2> HIDE DEF u
    <2>4. lease.colVer \in Nat /\ lease.ver = lease.colVer BY <1>0, <1>M DEF Snapshot, Mirror
    <2>5. lifecycle \in ActiveStates =>
            lease.next # NoTime /\ (hard # NoTime => lease.next <= Max2(hard, now))
      BY <2>1 DEF ArmedWithinHardDeadline, Exists
    <2>6. CASE PerformInspection
      <3>1. lease' = u /\ inspections' = inspections \cup {[ver |-> lease.ver, hard |-> hard]}
        BY <2>6 DEF PerformInspection, u
      <3>2. ClosedPhase(lease') BY <2>3, <3>1 DEF ClosedPhase
      <3>3. [ver |-> lease.ver, hard |-> hard] \in Inspection BY <1>0, <2>4 DEF Inspection
      <3> QED BY <1>0, <2>1, <2>3, <2>4, <2>5, <3>1, <3>2, <3>3, OpenStep
    <2>7. CASE SkipInspection
      <3> DEFINE v == updateEvaluation(u, "inspect_due", u.colVer, NoTime)
      <3>1. lease' = v /\ inspections' = inspections BY <2>7 DEF SkipInspection, u, promiseVars
      <3>2. /\ v \in Snapshot /\ Mirror(v) /\ ~v.closed /\ v.grace = NoTime
            /\ v.phase \in {"inspecting", "inspect_due"} /\ v.colVer >= u.colVer /\ v.next = lease.next
        <4>1. u.colVer \in Nat BY <2>3 DEF Snapshot
        <4> HIDE DEF v
        <4> QED BY <2>2, <2>3, <4>1, UpdateFacts DEF v
      <3> HIDE DEF v
      <3>3. ClosedPhase(v) BY <3>2 DEF ClosedPhase
      <3>4. v.colVer >= lease.colVer
        <4>1. u.colVer \in Nat /\ v.colVer \in Nat BY <2>3, <3>2 DEF Snapshot
        <4> QED BY <2>3, <2>4, <3>2, <4>1
      <3> QED BY <1>0, <2>1, <2>5, <3>1, <3>2, <3>3, <3>4, OpenStep
    <2> QED BY <1>9, <2>6, <2>7
  <1>10. CASE PerformCancellation
    <2>1. /\ ~lease.closed /\ lease.phase # "absent" /\ lifecycle \in ActiveStates
          /\ UNCHANGED <<now, hard, inspections>> /\ env' \in 0..MaxEnv
      BY <1>10, <1>W DEF PerformCancellation, Evaluated, Exists
    <2>2. \A r \in Reasons :
            /\ cancelIntent(r) \in Snapshot /\ Mirror(cancelIntent(r))
            /\ cancelIntent(r).phase = "cancel_requested" /\ ~cancelIntent(r).closed
            /\ cancelIntent(r).grace = NoTime /\ cancelIntent(r).colVer = lease.colVer + 1
      <3> TAKE r \in Reasons
      <3>1. lease.colVer + 1 \in Nat BY <1>0 DEF Snapshot
      <3>2. "cancel_requested" \in Phases /\ NoTime \in OptTime BY DEF Phases, OptTime
      <3> QED BY <1>0, <1>M, <2>1, <3>1, <3>2 DEF cancelIntent, Snapshot, Mirror
    <2>3. lease.colVer \in Nat BY <1>0 DEF Snapshot
    <2>4. CASE Current.reason = "hard_deadline"
      <3> DEFINE c == cancelIntent("hard_deadline")
      <3>1. lease' = closeLease(c) /\ lifecycle' = "timed_out" /\ cancelling' = cancelling
        BY <1>10, <2>4 DEF PerformCancellation, Settle
      <3>2. /\ c \in Snapshot /\ Mirror(c) /\ c.phase = "cancel_requested" /\ ~c.closed
            /\ c.grace = NoTime /\ c.colVer = lease.colVer + 1
        BY <2>2 DEF Reasons
      <3> HIDE DEF c
      <3>3. ClosedPhase(c) /\ c.phase # "absent" BY <3>2 DEF ClosedPhase
      <3>4. /\ lease' \in Snapshot /\ Mirror(lease') /\ lease'.phase = "closed"
            /\ lease'.closed = TRUE /\ lease'.grace = NoTime /\ lease'.colVer >= c.colVer
        BY <1>0, <3>1, <3>2, <3>3, CloseFacts
      <3>5. TypeOK' BY <1>0, <1>L, <2>1, <3>1, <3>4 DEF TypeOK, Time, TerminalStates
      <3>6. Fenced'
        <4>1. lease'.colVer \in Nat BY <3>4 DEF Snapshot
        <4>2. \A i \in inspections : i.ver \in Nat BY <1>0 DEF Inspection
        <4> QED BY <2>1, <2>3, <3>2, <3>4, <4>1, <4>2 DEF Fenced
      <3> QED
        BY <3>1, <3>4, <3>5, <3>6 DEF ColumnsMirrorJson, Mirror, LeaseFollowsAttempt,
           ArmedWithinHardDeadline, PendingHasNoLease, AbsentIsEmpty
    <2>5. CASE Current.reason # "hard_deadline"
      <3> DEFINE c == cancelIntent(Current.reason)
      <3>1. lease' = c /\ lifecycle' = "cancel_requested" /\ cancelling' \in BOOLEAN
        BY <1>0, <1>10, <2>5 DEF PerformCancellation
      <3>2. Current.reason \in Reasons BY DecisionReasons DEF Current
      <3>3. /\ c \in Snapshot /\ Mirror(c) /\ c.phase = "cancel_requested" /\ ~c.closed
            /\ c.grace = NoTime /\ c.colVer = lease.colVer + 1
        BY <2>2, <3>2
      <3> HIDE DEF c
      <3>4. ClosedPhase(c) /\ c.colVer >= lease.colVer BY <2>3, <3>3 DEF ClosedPhase
      <3>5. /\ lifecycle \notin TerminalStates \cup {"pending"}
            /\ lifecycle' \notin TerminalStates \cup {"pending"} /\ lifecycle' \in Lifecycles
            /\ lifecycle' \notin ActiveStates
        BY <2>1, <3>1, <1>L DEF ActiveStates, TerminalStates
      <3> QED BY <1>0, <2>1, <3>1, <3>3, <3>4, <3>5, OpenStep
    <2> QED BY <2>4, <2>5
  <1>11. CASE ResolveCancel
    <2>1. /\ cancelling' = FALSE /\ UNCHANGED <<now, hard, inspections, env>>
          /\ \/ lifecycle' = "cancelled" /\ lease' = closeLease(lease)
             \/ UNCHANGED <<lifecycle, lease>>
      BY <1>11 DEF ResolveCancel, Settle
    <2>2. CASE lifecycle' = "cancelled" /\ lease' = closeLease(lease)
      <3>1. lifecycle' \in Lifecycles BY <1>L, <2>2 DEF TerminalStates
      <3> QED BY <1>0, <2>1, <2>2, <3>1, ClosingStep
    <2>3. CASE UNCHANGED <<lifecycle, lease>>
      BY <1>0, <2>1, <2>3, IdleStep
    <2> QED BY <2>1, <2>2, <2>3
  <1>12. CASE \E i \in inspections, o \in {"running", "unknown"} : ResolveInspection(i, o)
    <2> PICK i \in inspections, o \in {"running", "unknown"} : ResolveInspection(i, o) BY <1>12
    <2> DEFINE u == applyInspectionOutcome(lease, o, i.hard)
    <2>1. /\ UNCHANGED <<now, lifecycle, hard, cancelling, env>> /\ inspections' \subseteq inspections
          /\ lease' = IF lease.closed THEN lease
                      ELSE updateEvaluation(lease, u.phase, lease.ver, u.next)
      BY DEF ResolveInspection, attemptVars
    <2>2. i.hard \in OptTime BY <1>0 DEF Inspection
    <2>3. /\ u.phase \in {"healthy", "inspect_grace"}
          /\ u.next \in Nat /\ (i.hard # NoTime => u.next <= Max2(i.hard, now))
          /\ u.phase = "inspect_grace" => u.grace \in OptTime
      BY <1>0, <2>2, OutcomeFacts
    <2> HIDE DEF u
    <2>5. CASE lease.closed \/ lease' = lease
      BY <1>0, <2>1, <2>5, IdleStep
    <2>6. CASE ~lease.closed /\ lease' # lease
      <3>1. u.phase \in Phases /\ u.next \in OptTime /\ u.next # NoTime
        BY <2>3 DEF Phases, OptTime, NoTime
      <3>2. lease' = updateEvaluation(lease, u.phase, lease.ver, u.next) BY <2>1, <2>6
      <3>3. /\ casAccepts(lease, u.phase, lease.ver)
            /\ lease' \in Snapshot /\ Mirror(lease') /\ lease'.phase = u.phase
            /\ lease'.closed = lease.closed /\ lease'.grace = lease.grace
            /\ lease'.colVer = lease.colVer + 1 /\ lease'.next = u.next
        BY <1>0, <1>M, <2>6, <3>1, <3>2, UpdateFacts
      <3>4. lease.colVer \in Nat BY <1>0 DEF Snapshot
      <3>5. i.hard = hard BY <2>6 DEF Fenced
      <3>6. lifecycle \notin TerminalStates \cup {"pending"}
        <4>1. lifecycle \notin TerminalStates BY <2>6 DEF LeaseFollowsAttempt
        <4>2. lease.phase \notin {"absent", "closed"} BY <1>M, <2>6, <3>3 DEF casAccepts, ClosedPhase
        <4> QED BY <4>1, <4>2 DEF PendingHasNoLease
      <3>7. ClosedPhase(lease') BY <2>3, <2>6, <3>3 DEF ClosedPhase
      <3>8. lease'.phase # "absent" /\ lease'.phase # "cancel_requested" BY <2>3, <3>3
      <3>9. lease'.next # NoTime /\ (hard # NoTime => lease'.next <= Max2(hard, now))
        BY <2>3, <3>1, <3>3, <3>5
      <3>10. ~lease'.closed /\ lease'.grace = NoTime /\ lease'.colVer >= lease.colVer
        BY <2>6, <3>3, <3>4
      <3>11. inspections' \subseteq Inspection BY <1>0, <2>1
      <3> QED
        BY <1>0, <2>1, <2>6, <3>3, <3>6, <3>7, <3>8, <3>9, <3>10, <3>11, OpenStep
    <2> QED BY <2>5, <2>6
  <1>13. CASE \E i \in inspections : ResolveTerminalInspection(i)
    <2>1. /\ UNCHANGED <<now, lifecycle, hard, cancelling, env>>
          /\ inspections' \subseteq inspections /\ lease' = closeLease(lease)
      BY <1>13 DEF ResolveTerminalInspection, attemptVars
    <2> QED BY <1>0, <2>1, ClosingStep
  <1>14. CASE \E i \in inspections : RejectInspection(i)
    <2> PICK i \in inspections : RejectInspection(i) BY <1>14
    <2>1. /\ UNCHANGED <<now, lifecycle, hard, cancelling, env>>
          /\ inspections' \subseteq inspections
          /\ lease' = updateEvaluation(lease, "inspect_due", i.ver, NoTime)
      BY DEF RejectInspection, attemptVars
    <2>2. i.ver # lease.colVer
      <3>1. i.ver \in Nat /\ lease.colVer \in Nat BY <1>0 DEF Inspection, Snapshot
      <3> QED BY <3>1 DEF Fenced
    <2>3. lease' = lease BY <2>1, <2>2 DEF updateEvaluation, casAccepts
    <2> QED BY <1>0, <2>1, <2>3, IdleStep
  <1>15. CASE CrashAndRecover
    <2>1. /\ inspections' = {} /\ cancelling' = FALSE /\ UNCHANGED <<now, hard>>
          /\ env' \in 0..MaxEnv
          /\ \/ lifecycle' = "timed_out" /\ lease' = closeLease(lease)
             \/ UNCHANGED <<lifecycle, lease>>
      BY <1>15, <1>S DEF CrashAndRecover, Settle
    <2>2. CASE lifecycle' = "timed_out" /\ lease' = closeLease(lease)
      <3>1. lifecycle' \in Lifecycles BY <1>L, <2>2 DEF TerminalStates
      <3> QED BY <1>0, <2>1, <2>2, <3>1, ClosingStep
    <2>3. CASE UNCHANGED <<lifecycle, lease>>
      BY <1>0, <2>1, <2>3, IdleStep
    <2> QED BY <2>1, <2>2, <2>3
  <1>16. CASE CardRuns \/ \E to \in CardStatuses : CardMoves(to)
    <2>1. /\ UNCHANGED <<now, lifecycle, hard, lease, inspections, cancelling>>
          /\ env' \in 0..MaxEnv
      BY <1>0, <1>16, <1>S DEF CardRuns, CardMoves, promiseVars
    <2> QED BY <1>0, <2>1, IdleStep
  <1> QED
    BY <1>1, <1>2, <1>3, <1>4, <1>5, <1>6, <1>7, <1>8, <1>9, <1>10, <1>11, <1>12, <1>13, <1>14, <1>15, <1>16
    DEF Next

\* The inductive invariant holds of every reachable state.
THEOREM LeaseInvariance == Spec => []IInv
  <1>1. Init => IInv BY InitIInv, PolicyAssumption
  <1>2. IInv /\ [Next]_vars => IInv' BY NextIInv, PolicyAssumption
  <1> QED BY <1>1, <1>2, PTL DEF Spec

\* Every variable keeps its type.
THEOREM TypeCorrect == Spec => []TypeOK
  <1>1. IInv => TypeOK BY DEF IInv
  <1> QED BY <1>1, LeaseInvariance, PTL

\* state_version, next_evaluation_at and closed_at always mirror the snapshot JSON: the
\* compare-and-swap and the due source of executor-lease-store.ts read what writers wrote.
THEOREM ColumnsNeverDrift == Spec => []ColumnsMirrorJson
  <1>1. IInv => ColumnsMirrorJson BY DEF IInv
  <1> QED BY <1>1, LeaseInvariance, PTL

\* An open lease of an active attempt is always scheduled, by its hard deadline at the
\* latest, after any sequence of facts, evaluations, inspections and restarts.
THEOREM LeaseAlwaysArmed == Spec => []ArmedWithinHardDeadline
  <1>1. IInv => ArmedWithinHardDeadline BY DEF IInv
  <1> QED BY <1>1, LeaseInvariance, PTL

\* Cancel intent and settlement of the attempt and of its lease never part company.
THEOREM LeaseAgreesWithAttempt == Spec => []LeaseFollowsAttempt
  <1>1. IInv => LeaseFollowsAttempt BY DEF IInv
  <1> QED BY <1>1, LeaseInvariance, PTL

\* A closed lease never changes again and a cancel intent is only followed by the close,
\* whatever inspection, fact or evaluation arrives late.
THEOREM FinalityOfLeases == Spec => ClosedAndCancelledAreFinal
  <1> DEFINE Final == /\ lease.closed => lease' = lease
                      /\ lease.phase = "cancel_requested" => lease'.phase \in {"cancel_requested", "closed"}
  <1>1. ASSUME IInv, [Next]_vars PROVE Final
    <2>1. CASE lease' = lease BY <2>1
    <2>2. CASE lease' = closeLease(lease)
      <3>1. lease.closed => lease' = lease
        BY <1>1, <2>2 DEF closeLease, IInv, LeaseFollowsAttempt
      <3>2. lease.phase = "cancel_requested" => lease'.phase = "closed"
        BY <1>1, <2>2, CloseFacts DEF IInv, TypeOK, ColumnsMirrorJson, Mirror, LeaseFollowsAttempt,
           ClosedPhase, AbsentIsEmpty, Time
      <3> QED BY <3>1, <3>2
    <2>3. CASE ~lease.closed /\ lease.phase # "cancel_requested" BY <2>3
    <2>4. CASE UNCHANGED vars BY <2>1, <2>4 DEF vars
    <2>5. CASE \/ Tick \/ Claim \/ MarkStartObservable \/ MarkRunning \/ RequestCancel
               \/ CardRuns \/ \E to \in CardStatuses : CardMoves(to)
      BY <2>1, <2>5 DEF Tick, Claim, MarkStartObservable, MarkRunning, RequestCancel, Advance,
         CardRuns, CardMoves
    <2>6. CASE deferClaimAfterProvenNoStart \/ \E t \in TerminalStates : SettleByExecutor(t)
      BY <2>2, <2>6 DEF deferClaimAfterProvenNoStart, SettleByExecutor, Settle
    <2>7. CASE \E f \in Fact : appendFact(f)
      BY <1>1, <2>3, <2>7 DEF appendFact, IInv, LeaseFollowsAttempt, ActiveStates
    <2>8. CASE EvaluateHealthyOrWarning \/ PerformInspection \/ SkipInspection \/ PerformCancellation
      BY <2>3, <2>8 DEF EvaluateHealthyOrWarning, PerformInspection, SkipInspection, PerformCancellation,
         Evaluated
    <2>9. CASE ResolveCancel \/ CrashAndRecover \/ \E i \in inspections : ResolveTerminalInspection(i)
      BY <2>1, <2>2, <2>9 DEF ResolveCancel, CrashAndRecover, ResolveTerminalInspection, Settle
    <2>10. CASE \E i \in inspections, o \in {"running", "unknown"} : ResolveInspection(i, o)
      <3> PICK i \in inspections, o \in {"running", "unknown"} : ResolveInspection(i, o) BY <2>10
      <3> DEFINE u == applyInspectionOutcome(lease, o, i.hard)
      <3>1. /\ lease.closed => lease' = lease
            /\ ~lease.closed => lease' = updateEvaluation(lease, u.phase, lease.ver, u.next)
        BY DEF ResolveInspection
      <3>2. u.phase # "cancel_requested"
        <4>1. i.hard \in OptTime BY <1>1 DEF IInv, TypeOK, Inspection
        <4>2. u.phase \in {"healthy", "inspect_grace"}
          BY <1>1, <4>1, OutcomeFacts, PolicyAssumption DEF IInv, TypeOK, Time
        <4> QED BY <4>2
      <3> HIDE DEF u
      <3>3. lease.phase = "cancel_requested" => lease' = lease
        BY <3>1, <3>2 DEF updateEvaluation, casAccepts
      <3> QED BY <3>1, <3>3
    <2>11. CASE \E i \in inspections : RejectInspection(i)
      <3> PICK i \in inspections : RejectInspection(i) BY <2>11
      <3>1. i.ver # lease.colVer
        <4>1. i.ver \in Nat /\ lease.colVer \in Nat BY <1>1 DEF IInv, TypeOK, Inspection, Snapshot
        <4> QED BY <1>1, <4>1 DEF IInv, Fenced
      <3> QED BY <2>1, <3>1 DEF RejectInspection, updateEvaluation, casAccepts
    <2> QED
      BY <1>1, <2>4, <2>5, <2>6, <2>7, <2>8, <2>9, <2>10, <2>11 DEF Next
  <1>2. IInv /\ [Next]_vars => [Final]_vars BY <1>1
  <1> QED BY <1>2, LeaseInvariance, PTL DEF Spec, ClosedAndCancelledAreFinal

----------------------------------------------------------------------------
(* The output window.                                                      *)

\* The progress deadline of a row in an output window, at the latest
Capped(s) ==
    s.outSince # NoTime => s.prog <= s.outSince + OutputOnlyProgressCapMs + MeaningfulProgressMs

\* t has the progress deadline and the output window of s
SameWindow(s, t) == t.prog = s.prog /\ t.outSince = s.outSince

\* Everything but the renewal of progress and the reset of the window leaves them alone.
LEMMA WindowFacts ==
    ASSUME NEW s \in Snapshot, NEW h
    PROVE  /\ SameWindow(s, RefreshLiveness(s, h))
           /\ \A k : SameWindow(s, [s EXCEPT !.state = k])
           /\ \A k, t : SameWindow(s, [s EXCEPT !.state = k, !.next = t])
           /\ \A o, t : SameWindow(s, [s EXCEPT !.op = o, !.silence = t])
           /\ \A v : SameWindow(s, [s EXCEPT !.ver = v])
           /\ \A t : SameWindow(s, [s EXCEPT !.next = t])
           /\ SameWindow(s, replaceRow(s))
           /\ ResetOutput(s).outSince = NoTime
           /\ RefreshProgress(s, h).prog = Clamp(now + MeaningfulProgressMs, h)
           /\ RefreshProgress(s, h).outSince = s.outSince
BY DEF SameWindow, RefreshLiveness, replaceRow, ResetOutput, RefreshProgress, Snapshot

\* Output renews progress within the cap only.
LEMMA ReduceOutputCapped ==
    ASSUME NEW s \in Snapshot, NEW f \in Fact, NEW h \in OptTime, now \in Nat, PolicyAssumption, Capped(s)
    PROVE  Capped(reduceOutput(s, f, h))
<1> DEFINE since == IF s.outSince = NoTime THEN now ELSE s.outSince
           seen == [s EXCEPT !.outSince = since]
<1>1. since \in Nat /\ since # NoTime BY DEF OptTime, Snapshot, NoTime
<1>2. seen \in Snapshot /\ seen.prog = s.prog /\ seen.outSince = since BY <1>1 DEF Snapshot, OptTime
<1>3. OutputOnlyProgressCapMs \in Nat /\ MeaningfulProgressMs \in Nat BY DEF PolicyAssumption
<1> HIDE DEF since, seen
<1>4. CASE f.fresh /\ now <= since + OutputOnlyProgressCapMs
  <2>1. reduceOutput(s, f, h) = RefreshProgress(seen, h) BY <1>4 DEF reduceOutput, since, seen
  <2>2. now + MeaningfulProgressMs \in Nat BY <1>3
  <2>3. Clamp(now + MeaningfulProgressMs, h) \in Nat /\ Clamp(now + MeaningfulProgressMs, h) <= now + MeaningfulProgressMs
    BY <2>2, ClampFacts
  <2>4. /\ RefreshProgress(seen, h).prog = Clamp(now + MeaningfulProgressMs, h)
        /\ RefreshProgress(seen, h).outSince = since
    BY <1>2, WindowFacts
  <2> QED BY <1>1, <1>3, <1>4, <2>1, <2>3, <2>4 DEF Capped
<1>5. CASE f.fresh /\ ~(now <= since + OutputOnlyProgressCapMs)
  <2>1. reduceOutput(s, f, h) = seen BY <1>5 DEF reduceOutput, since, seen
  <2>2. s.outSince = since BY <1>1, <1>3, <1>5 DEF since
  <2> QED BY <1>2, <2>1, <2>2 DEF Capped
<1>6. CASE ~f.fresh
  BY <1>6 DEF reduceOutput
<1> QED BY <1>4, <1>5, <1>6

\* A tool operation closes the window when it renews progress.
LEMMA ReduceToolCapped ==
    ASSUME NEW s \in Snapshot, NEW f \in Fact, NEW h \in OptTime, now \in Nat,
           PolicyAssumption, f.kind = "using_tool", Capped(s)
    PROVE  Capped(reduceTool(s, f, h))
<1>1. f.op \in Ops /\ f.step \in {"start", "advance", "end"} /\ f.timeout \in Nat
  BY DEF Fact, PolicyAssumption
<1>2. CASE f.step = "start"
  <2> DEFINE sil == Clamp(now + Min2(f.timeout, MaxToolSilenceMs), h)
             opened == [s EXCEPT !.op = f.op, !.silence = sil]
             base == IF s.op = f.op THEN s ELSE opened
             moved == [base EXCEPT !.state = "using_tool"]
  <2>1. now + Min2(f.timeout, MaxToolSilenceMs) \in Nat BY <1>1 DEF Min2, PolicyAssumption
  <2>2. sil \in OptTime BY <2>1, ClampFacts DEF OptTime
  <2>3. opened \in Snapshot BY <1>1, <2>2 DEF Snapshot
  <2>4. base \in Snapshot /\ SameWindow(s, base) BY <2>3, WindowFacts DEF SameWindow
  <2> HIDE DEF base
  <2>5. moved \in Snapshot /\ SameWindow(base, moved) BY <2>4, WindowFacts DEF Snapshot, Kinds
  <2>6. SameWindow(moved, RefreshLiveness(moved, h)) BY <2>5, WindowFacts
  <2>7. reduceTool(s, f, h) = RefreshLiveness(moved, h) BY <1>2 DEF reduceTool, base
  <2> QED BY <2>4, <2>5, <2>6, <2>7 DEF SameWindow, Capped
<1>3. CASE f.step = "advance"
  <2> DEFINE base == IF s.op = f.op THEN RefreshLiveness(s, h) ELSE s
  <2>1. base \in Snapshot /\ SameWindow(s, base) BY RefreshFacts, WindowFacts DEF Kept, SameWindow
  <2> HIDE DEF base
  <2>2. SameWindow(base, [base EXCEPT !.state = "using_tool"]) BY <2>1, WindowFacts
  <2>3. reduceTool(s, f, h) = [base EXCEPT !.state = "using_tool"] BY <1>3 DEF reduceTool, base
  <2> QED BY <2>1, <2>2, <2>3 DEF SameWindow, Capped
<1>4. CASE f.step = "end"
  <2> DEFINE progressed == IF s.op = f.op /\ f.fresh THEN RefreshProgress(s, h) ELSE s
             ended == IF s.op = f.op THEN [progressed EXCEPT !.op = NoOp, !.silence = NoTime] ELSE s
             moved == [ended EXCEPT !.state = "alive"]
  <2>1. progressed \in Snapshot BY RefreshFacts DEF Kept
  <2> HIDE DEF progressed
  <2>2. ended \in Snapshot
    <3>1. NoTime \in OptTime BY DEF OptTime
    <3>2. [progressed EXCEPT !.op = NoOp, !.silence = NoTime] \in Snapshot BY <2>1, <3>1 DEF Snapshot
    <3> QED BY <3>2
  <2> HIDE DEF ended
  <2>3. moved \in Snapshot BY <2>2 DEF Snapshot, Kinds
  <2> HIDE DEF moved
  <2>4. RefreshLiveness(moved, h) \in Snapshot BY <2>3, RefreshFacts DEF Kept
  <2>5. reduceTool(s, f, h) = ResetOutput(RefreshLiveness(moved, h))
    BY <1>4 DEF reduceTool, moved, ended, progressed
  <2> QED BY <2>4, <2>5, WindowFacts DEF Capped
<1> QED BY <1>1, <1>2, <1>3, <1>4

\* No kind of fact lets output alone postpone progress beyond the cap.
LEMMA ReduceKindCapped ==
    ASSUME NEW s \in Snapshot, NEW f \in Fact, NEW h \in OptTime, now \in Nat, PolicyAssumption, Capped(s)
    PROVE  Capped(reduceKind(s, f, h))
<1>1. f.kind \in Kinds BY DEF Fact, Kinds
<1>2. \A u \in Snapshot, k \in Kinds : Capped(u) => Capped(RefreshLiveness([u EXCEPT !.state = k], h))
  <2> SUFFICES ASSUME NEW u \in Snapshot, NEW k \in Kinds, Capped(u)
               PROVE  Capped(RefreshLiveness([u EXCEPT !.state = k], h))
    OBVIOUS
  <2> DEFINE v == [u EXCEPT !.state = k]
  <2>1. v \in Snapshot /\ SameWindow(u, v) BY WindowFacts DEF Snapshot
  <2> HIDE DEF v
  <2>2. SameWindow(v, RefreshLiveness(v, h)) BY <2>1, WindowFacts
  <2> QED BY <2>1, <2>2 DEF SameWindow, Capped, v
<1>3. ResetOutput(RefreshProgress(s, h)) \in Snapshot /\ Capped(ResetOutput(RefreshProgress(s, h)))
  <2>1. RefreshProgress(s, h) \in Snapshot BY RefreshFacts DEF Kept
  <2>2. ResetOutput(RefreshProgress(s, h)) \in Snapshot BY <2>1, RefreshFacts DEF Kept
  <2> QED BY <2>1, <2>2, WindowFacts DEF Capped
<1>4. CASE f.kind = "alive"
  BY <1>1, <1>2, <1>4 DEF reduceKind
<1>5. CASE f.kind = "producing_output"
  <2> DEFINE u == RefreshLiveness([s EXCEPT !.state = "producing_output"], h)
  <2>1. Capped(u) BY <1>1, <1>2, <1>5
  <2>2. u \in Snapshot
    <3>1. [s EXCEPT !.state = "producing_output"] \in Snapshot BY DEF Snapshot, Kinds
    <3> QED BY <3>1, RefreshFacts DEF Kept
  <2>3. reduceKind(s, f, h) = reduceOutput(u, f, h) BY <1>5 DEF reduceKind
  <2> HIDE DEF u
  <2> QED BY <2>1, <2>2, <2>3, ReduceOutputCapped
<1>6. CASE f.kind = "using_tool"
  BY <1>6, ReduceToolCapped DEF reduceKind
<1>7. CASE f.kind = "durable_milestone"
  BY <1>1, <1>2, <1>3, <1>7 DEF reduceKind
<1>8. CASE f.kind = "awaiting_input"
  <2>1. "awaiting_input" \in Kinds /\ "alive" \in Kinds BY DEF Kinds
  <2> QED BY <1>2, <1>3, <1>8, <2>1 DEF reduceKind
<1>9. CASE f.kind = "stalled"
  <2> DEFINE u == [s EXCEPT !.state = "stalled", !.next = now]
  <2>1. u \in Snapshot /\ SameWindow(s, u) BY WindowFacts DEF Snapshot, Kinds, OptTime
  <2>2. reduceKind(s, f, h) = RefreshLiveness(u, h) BY <1>9 DEF reduceKind
  <2> HIDE DEF u
  <2> QED BY <2>1, <2>2, WindowFacts DEF SameWindow, Capped
<1> QED BY <1>1, <1>4, <1>5, <1>6, <1>7, <1>8, <1>9 DEF Kinds

\* Appending a fact keeps the cap.
LEMMA ReduceFactCapped ==
    ASSUME NEW s \in Snapshot, NEW f \in Fact, NEW h \in OptTime, now \in Nat, PolicyAssumption, Capped(s)
    PROVE  Capped(reduceFact(s, f, h))
<1> DEFINE r == reduceKind(s, f, h)
           reduced == [r EXCEPT !.ver = s.ver + 1]
           armed == armEvaluation(reduced.live, reduced.prog, h)
<1>1. r \in Snapshot /\ Capped(r) BY ReduceKindFacts, ReduceKindCapped DEF Kept
<1> HIDE DEF r
<1>2. reduced \in Snapshot /\ SameWindow(r, reduced)
  <2>1. s.ver + 1 \in Nat BY DEF Snapshot
  <2>2. reduced \in Snapshot BY <1>1, <2>1 DEF Snapshot
  <2> QED BY <1>1, <2>2, WindowFacts
<1> HIDE DEF reduced
<1>3. SameWindow(reduced, [reduced EXCEPT !.next = armed]) BY <1>2, WindowFacts
<1>4. reduceFact(s, f, h) \in {reduced, [reduced EXCEPT !.next = armed]} BY DEF reduceFact, reduced, r
<1> HIDE DEF armed
<1> QED BY <1>1, <1>2, <1>3, <1>4 DEF SameWindow, Capped

\* What the other writers of the row leave of the window.
LEMMA WritersKeepWindow ==
    ASSUME NEW s \in Snapshot
    PROVE  /\ \A phase, expected, t : SameWindow(s, updateEvaluation(s, phase, expected, t))
           /\ \A t : SameWindow(s, setUpcomingEvaluation(s, t))
           /\ Capped(s) => Capped(closeLease(s))
<1>1. \A phase, expected, t : SameWindow(s, updateEvaluation(s, phase, expected, t))
  BY DEF SameWindow, updateEvaluation, Snapshot
<1>2. \A t : SameWindow(s, setUpcomingEvaluation(s, t))
  BY DEF SameWindow, setUpcomingEvaluation, Snapshot
<1>3. ASSUME Capped(s) PROVE Capped(closeLease(s))
  <2>1. CASE s.phase = "absent"
    <3>1. closeLease(s).outSince = NoTime BY <2>1 DEF closeLease, replaceRow, NoLease
    <3> QED BY <3>1 DEF Capped
  <2>2. CASE s.phase # "absent"
    <3>1. SameWindow(s, closeLease(s)) BY <2>2 DEF closeLease, replaceRow, SameWindow, Snapshot
    <3> QED BY <1>3, <3>1 DEF SameWindow, Capped
  <2> QED BY <2>1, <2>2
<1> QED BY <1>1, <1>2, <1>3

\* Every step keeps the cap.
LEMMA NextCapped ==
    ASSUME IInv, Capped(lease), [Next]_vars, PolicyAssumption
    PROVE  Capped(lease')
<1>1. lease \in Snapshot /\ hard \in OptTime /\ now \in Nat BY DEF IInv, TypeOK, Time
<1>2. CASE lease' = lease BY <1>2
<1>3. CASE lease' = closeLease(lease) BY <1>1, <1>3, WritersKeepWindow
<1>4. CASE UNCHANGED vars BY <1>2, <1>4 DEF vars
<1>5. CASE \/ Tick \/ Claim \/ MarkStartObservable \/ MarkRunning \/ RequestCancel
           \/ CardRuns \/ \E to \in CardStatuses : CardMoves(to)
  BY <1>2, <1>5 DEF Tick, Claim, MarkStartObservable, MarkRunning, RequestCancel, Advance,
     CardRuns, CardMoves
<1>6. CASE deferClaimAfterProvenNoStart \/ \E t \in TerminalStates : SettleByExecutor(t)
  BY <1>3, <1>6 DEF deferClaimAfterProvenNoStart, SettleByExecutor, Settle
<1>7. CASE \E f \in Fact : appendFact(f)
  <2> PICK f \in Fact : appendFact(f) BY <1>7
  <2>1. CASE Exists
    <3>1. lease' = replaceRow(reduceFact(lease, f, hard)) BY <2>1 DEF appendFact
    <3>2. reduceFact(lease, f, hard) \in Snapshot BY <1>1, ReduceFactFacts
    <3>3. Capped(reduceFact(lease, f, hard)) BY <1>1, ReduceFactCapped
    <3> QED BY <3>1, <3>2, <3>3, WindowFacts DEF SameWindow, Capped
  <2>2. CASE ~Exists
    <3>1. lease' = replaceRow(createInitialSnapshot(f, hard)) BY <2>2 DEF appendFact
    <3>2. lease'.outSince = NoTime BY <3>1 DEF replaceRow, createInitialSnapshot, NoLease
    <3> QED BY <3>2 DEF Capped
  <2> QED BY <2>1, <2>2
<1>8. CASE EvaluateHealthyOrWarning
  <2> DEFINE moved == IF lease.phase = Current.action THEN lease
                      ELSE updateEvaluation(lease, Current.action, lease.ver, NoTime)
  <2>1. SameWindow(lease, moved) BY <1>1, WritersKeepWindow DEF SameWindow
  <2>2. moved \in Snapshot
    <3>1. Current.action \in Phases /\ NoTime \in OptTime /\ Mirror(lease)
      BY <1>8 DEF EvaluateHealthyOrWarning, Phases, OptTime, IInv, ColumnsMirrorJson, Mirror
    <3> QED BY <1>1, <3>1, UpdateFacts
  <2>3. lease' = setUpcomingEvaluation(moved, Current.next) BY <1>8 DEF EvaluateHealthyOrWarning
  <2> HIDE DEF moved
  <2> QED BY <2>1, <2>2, <2>3, WritersKeepWindow DEF SameWindow, Capped
<1>9. CASE PerformInspection
  <2>1. lease' = updateEvaluation(lease, "inspecting", lease.ver, NoTime) BY <1>9 DEF PerformInspection
  <2> QED BY <1>1, <2>1, WritersKeepWindow DEF SameWindow, Capped
<1>10. CASE SkipInspection
  <2> DEFINE u == updateEvaluation(lease, "inspecting", lease.ver, NoTime)
  <2>1. u \in Snapshot
    <3>1. "inspecting" \in Phases /\ NoTime \in OptTime /\ Mirror(lease)
      BY DEF Phases, OptTime, IInv, ColumnsMirrorJson, Mirror
    <3> QED BY <1>1, <3>1, UpdateFacts
  <2>2. SameWindow(lease, u) BY <1>1, WritersKeepWindow
  <2>3. lease' = updateEvaluation(u, "inspect_due", u.colVer, NoTime) BY <1>10 DEF SkipInspection
  <2> HIDE DEF u
  <2> QED BY <2>1, <2>2, <2>3, WritersKeepWindow DEF SameWindow, Capped
<1>11. CASE PerformCancellation
  <2>1. \A r \in Reasons : cancelIntent(r) \in Snapshot /\ SameWindow(lease, cancelIntent(r))
    <3>1. lease.colVer + 1 \in Nat BY <1>1 DEF Snapshot
    <3>2. "cancel_requested" \in Phases /\ NoTime \in OptTime BY DEF Phases, OptTime
    <3> QED BY <1>1, <3>1, <3>2 DEF cancelIntent, Snapshot, SameWindow
  <2>2. PICK r \in Reasons : lease' \in {cancelIntent(r), closeLease(cancelIntent(r))}
    <3>1. Current.reason \in Reasons /\ "hard_deadline" \in Reasons BY DecisionReasons DEF Current, Reasons
    <3>2. CASE Current.reason = "hard_deadline"
      BY <1>11, <3>1, <3>2 DEF PerformCancellation, Settle
    <3>3. CASE Current.reason # "hard_deadline"
      BY <1>11, <3>1, <3>3 DEF PerformCancellation
    <3> QED BY <3>2, <3>3
  <2>3. Capped(cancelIntent(r)) BY <2>1 DEF SameWindow, Capped
  <2> QED BY <2>1, <2>2, <2>3, WritersKeepWindow
<1>12. CASE ResolveCancel \/ CrashAndRecover \/ \E i \in inspections : ResolveTerminalInspection(i)
  BY <1>2, <1>3, <1>12 DEF ResolveCancel, CrashAndRecover, ResolveTerminalInspection, Settle
<1>13. CASE \/ \E i \in inspections, o \in {"running", "unknown"} : ResolveInspection(i, o)
            \/ \E i \in inspections : RejectInspection(i)
  <2>1. \/ lease' = lease
        \/ \E phase, expected, t : lease' = updateEvaluation(lease, phase, expected, t)
    BY <1>13 DEF ResolveInspection, RejectInspection
  <2> QED BY <1>1, <2>1, WritersKeepWindow DEF SameWindow, Capped
<1> QED
  BY <1>4, <1>5, <1>6, <1>7, <1>8, <1>9, <1>10, <1>11, <1>12, <1>13 DEF Next

\* Streaming output alone never postpones the progress deadline beyond the cap, whatever
\* facts, tools, evaluations and restarts come between (executor-lease-reducer.ts).
THEOREM OutputIsCapped == Spec => []OutputOnlyIsCapped
<1>1. Init => IInv /\ Capped(lease)
  <2>1. Init => lease.outSince = NoTime BY DEF Init, NoLease
  <2> QED BY <2>1, InitIInv, PolicyAssumption DEF Capped
<1>2. (IInv /\ Capped(lease)) /\ [Next]_vars => (IInv /\ Capped(lease))'
  BY NextIInv, NextCapped, PolicyAssumption
<1>3. IInv /\ Capped(lease) => OutputOnlyIsCapped BY DEF Capped, OutputOnlyIsCapped
<1> QED BY <1>1, <1>2, <1>3, PTL DEF Spec
=============================================================================
