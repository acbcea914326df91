------------------------- MODULE WorkerSwarmProofs -------------------------
(***************************************************************************)
(* Proofs about WorkerSwarm for every set of cards, dependency graph,      *)
(* number of attempts, capacity and budget.  The inductive invariant says  *)
(* how attempts, evidence, lanes and the pending start fit together.       *)
(* What the children share is in WorkerSwarmCapacityProofs.                *)
(***************************************************************************)
EXTENDS WorkerSwarm, FiniteSetTheorems, TLAPS

\* Types of everything but the token sum
Typed ==
    /\ card \in [Cards -> Card]
    /\ att \in [Cards -> [Ordinals -> Attempt]]
    /\ latest \in [Cards -> Ordinals]
    /\ pump \in Pump

\* A lineage at its limit has not been promised another attempt
RetryRoom ==
    \A c \in Cards, o \in Ordinals : att[c][o].decision = "retry" => o < MaxAttempts

\* Evidence is stored by a settlement only
ResultIsTerminal ==
    \A c \in Cards, o \in Ordinals : att[c][o].result # "none" => att[c][o].lc \in Terminal

\* An attempt that is not claimed has no lane
UnclaimedHasNoLane ==
    \A c \in Cards, o \in Ordinals : att[c][o].lc \in {"absent", "pending"} => <<c, o>> \notin lanes

\* The attempt the pump is starting was claimed and has no lane and no accepted
\* evidence yet
FreshStart ==
    pump.at = "start" => /\ <<pump.card, pump.ord>> \notin lanes
                         /\ att[pump.card][pump.ord].result # "accepted"
                         /\ att[pump.card][pump.ord].lc \notin {"absent", "pending"}

\* The lane whose evidence was accepted has ended its turn
EvidenceFenced ==
    \A c \in Cards, o \in Ordinals :
        att[c][o].result = "accepted" /\ <<c, o>> \in lanes => <<c, o>> \in fenced

Lineage == OneLiveAttempt /\ ReservationFollowsAttempt /\ RetryRoom /\ ResultIsTerminal

Lanes == UnclaimedHasNoLane /\ FreshStart /\ EvidenceFenced

Inv == Typed /\ Lineage /\ Lanes /\ DoneHasEvidence

\* What a step leaves of terminal attempts
TerminalKept ==
    \A c \in Cards, o \in Ordinals :
        att[c][o].lc \in Terminal =>
            /\ att'[c][o].lc = att[c][o].lc
            /\ att'[c][o].charged = att[c][o].charged
            /\ att'[c][o].result = att[c][o].result

----------------------------------------------------------------------------
(* Constants and small operators.                                          *)

\* Ordinals are positive numbers up to the attempt limit, and 1 is one.
LEMMA OrdinalFacts == 1 \in Ordinals /\ \A o \in Ordinals : o \in Nat /\ o >= 1 /\ o <= MaxAttempts
BY SwarmAssumption DEF SwarmAssumption, Ordinals

\* A compare-and-set of kanban-board.ts writes the expected row or nothing.
LEMMA MoveFacts ==
    ASSUME card \in [Cards -> Card], NEW c \in Cards, NEW from, NEW to \in CardStatus, NEW by \in {0} \cup Ordinals
    PROVE  /\ Move(c, from, to, by) \in [Cards -> Card]
           /\ \A d \in Cards : d # c => Move(c, from, to, by)[d] = card[d]
           /\ card[c].status \in from => Move(c, from, to, by)[c].status = to
           /\ card[c].status \notin from => Move(c, from, to, by)[c] = card[c]
<1>1. CASE card[c].status \in from
  <2>1. Move(c, from, to, by) = [card EXCEPT ![c] = [card[c] EXCEPT !.status = to, !.by = by]]
    BY <1>1 DEF Move, CanMove, Card
  <2>2. [card[c] EXCEPT !.status = to, !.by = by] \in Card
    BY DEF Card, CardStatus
  <2>3. [card[c] EXCEPT !.status = to, !.by = by].status = to
    BY DEF Card
  <2> QED BY <1>1, <2>1, <2>2, <2>3
<1>2. CASE card[c].status \notin from
  BY <1>2 DEF Move, CanMove
<1> QED BY <1>1, <1>2

\* Kicking the pump leaves it well-typed and at the same place of its pass.
LEMMA KickFacts ==
    ASSUME NEW p \in Pump, NEW b
    PROVE  /\ KickIf(p, b) \in Pump
           /\ KickIf(p, b).card = p.card /\ KickIf(p, b).ord = p.ord
           /\ KickIf(p, b).at = "start" <=> p.at = "start"
BY DEF KickIf, Kick, Pump

\* What a settlement charges is a number of tokens.
LEMMA ChargeType ==
    ASSUME Typed, NEW c \in Cards, NEW o \in Ordinals, NEW usage \in Usages \cup {NoUsage}
    PROVE  Charge(c, o, usage) \in Nat
<1>1. att[c][o].reserved \in Nat BY DEF Typed, Attempt
<1> QED BY <1>1, SwarmAssumption DEF Charge, SwarmAssumption

----------------------------------------------------------------------------
(* Changes of attempts.                                                    *)

\* What a change of the attempts, whoever makes it, has to leave true
AttemptsKept ==
    /\ att' \in [Cards -> [Ordinals -> Attempt]]
    /\ latest' \in [Cards -> Ordinals]
    /\ Lineage'
    /\ TerminalKept

\* A step that leaves every attempt row alone keeps the lineage.
LEMMA SameAttempts ==
    ASSUME Inv, att' = att, latest' = latest
    PROVE  AttemptsKept
BY DEF Inv, Typed, AttemptsKept, Lineage, OneLiveAttempt, ReservationFollowsAttempt, RetryRoom,
       ResultIsTerminal, TerminalKept

\* Replacing one attempt row changes that row only and keeps the type.
LEMMA RowFacts ==
    ASSUME att \in [Cards -> [Ordinals -> Attempt]], NEW c \in Cards, NEW o \in Ordinals, NEW a \in Attempt
    PROVE  /\ WithAttempt(c, o, a) \in [Cards -> [Ordinals -> Attempt]]
           /\ WithAttempt(c, o, a)[c][o] = a
           /\ \A d \in Cards, p \in Ordinals : d # c \/ p # o => WithAttempt(c, o, a)[d][p] = att[d][p]
BY DEF WithAttempt

\* What an attempt of ordinal o, claimed at some time or waiting for it, satisfies
RowOK(o, a) ==
    /\ a.lc # "absent"
    /\ o = 1 => a.reservation = "none"
    /\ o > 1 /\ a.lc = "pending" => a.reservation = "active"
    /\ o > 1 /\ a.lc \in Active => a.reservation = "claimed"
    /\ o > 1 /\ a.lc \in Terminal => a.reservation = "consumed"
    /\ a.decision = "retry" => o < MaxAttempts
    /\ a.result # "none" => a.lc \in Terminal

\* A step changes only latest attempts, and of a terminal one only the decision
RowKept(d, p) ==
    \/ att'[d][p] = att[d][p]
    \/ /\ p = latest[d]
       /\ RowOK(p, att'[d][p])
       /\ att[d][p].lc \in Terminal => /\ att'[d][p].lc = att[d][p].lc
                                       /\ att'[d][p].charged = att[d][p].charged
                                       /\ att'[d][p].result = att[d][p].result

\* Rows may be replaced when each keeps what the lineage says of it.
LEMMA RowsReplaced ==
    ASSUME Inv, latest' = latest,
           att' \in [Cards -> [Ordinals -> Attempt]],
           \A d \in Cards, p \in Ordinals : RowKept(d, p)
    PROVE  AttemptsKept
<1>1. latest \in [Cards -> Ordinals]
  BY DEF Inv, Typed
<1>2. \A d \in Cards, p \in Ordinals : p \in Nat /\ latest[d] \in Nat
  BY <1>1, OrdinalFacts
<1>3. OneLiveAttempt'
  <2> SUFFICES ASSUME NEW d \in Cards, NEW p \in Ordinals
               PROVE  /\ p < latest[d] => att'[d][p].lc \in Terminal
                      /\ p = latest[d] => att'[d][p].lc # "absent"
                      /\ p > latest[d] => att'[d][p] = NoAttempt
    BY DEF OneLiveAttempt, NoAttempt
  <2>1. /\ p < latest[d] => att[d][p].lc \in Terminal
        /\ p = latest[d] => att[d][p].lc # "absent"
        /\ p > latest[d] => att[d][p] = NoAttempt
    BY DEF Inv, Lineage, OneLiveAttempt
  <2> QED BY <1>2, <2>1 DEF RowKept, RowOK
<1>4. ReservationFollowsAttempt'
  <2> SUFFICES ASSUME NEW d \in Cards, NEW p \in Ordinals
               PROVE  /\ p = 1 \/ att'[d][p].lc = "absent" => att'[d][p].reservation = "none"
                      /\ p > 1 /\ att'[d][p].lc = "pending" => att'[d][p].reservation = "active"
                      /\ p > 1 /\ att'[d][p].lc \in Active => att'[d][p].reservation = "claimed"
                      /\ p > 1 /\ att'[d][p].lc \in Terminal => att'[d][p].reservation = "consumed"
    BY DEF ReservationFollowsAttempt
  <2>1. CASE att'[d][p] = att[d][p]
    BY <2>1 DEF Inv, Lineage, ReservationFollowsAttempt
  <2>2. CASE RowOK(p, att'[d][p])
    BY <2>2 DEF RowOK
  <2> QED BY <2>1, <2>2 DEF RowKept
<1>5. RetryRoom' /\ ResultIsTerminal'
  <2> SUFFICES ASSUME NEW d \in Cards, NEW p \in Ordinals
               PROVE  /\ att'[d][p].decision = "retry" => p < MaxAttempts
                      /\ att'[d][p].result # "none" => att'[d][p].lc \in Terminal
    BY DEF RetryRoom, ResultIsTerminal
  <2> QED BY DEF RowKept, RowOK, Inv, Lineage, RetryRoom, ResultIsTerminal
<1>6. TerminalKept
  BY DEF TerminalKept, RowKept
<1> QED BY <1>1, <1>3, <1>4, <1>5, <1>6 DEF AttemptsKept, Lineage

\* One latest attempt that is not terminal is replaced by a
LEMMA ReplaceAttempt ==
    ASSUME Inv, NEW c \in Cards, NEW o \in Ordinals, o = latest[c], NEW a \in Attempt,
           latest' = latest,
           att' = WithAttempt(c, o, a),
           att[c][o].lc \notin Terminal,
           RowOK(o, a)
    PROVE  /\ AttemptsKept
           /\ att'[c][o] = a
           /\ \A d \in Cards, p \in Ordinals : d # c \/ p # o => att'[d][p] = att[d][p]
<1>1. att \in [Cards -> [Ordinals -> Attempt]]
  BY DEF Inv, Typed
<1>2. /\ WithAttempt(c, o, a) \in [Cards -> [Ordinals -> Attempt]]
      /\ WithAttempt(c, o, a)[c][o] = a
      /\ \A d \in Cards, p \in Ordinals : d # c \/ p # o => WithAttempt(c, o, a)[d][p] = att[d][p]
  BY ONLY <1>1, c \in Cards, o \in Ordinals, a \in Attempt, RowFacts
<1>3. \A d \in Cards, p \in Ordinals : RowKept(d, p)
  <2> SUFFICES ASSUME NEW d \in Cards, NEW p \in Ordinals PROVE RowKept(d, p) OBVIOUS
  <2>1. CASE d = c /\ p = o
    BY <2>1, <1>2 DEF RowKept
  <2>2. CASE d # c \/ p # o
    BY <2>2, <1>2 DEF RowKept
  <2> QED BY <2>1, <2>2
<1>4. att' \in [Cards -> [Ordinals -> Attempt]]
  BY <1>2
<1>5. AttemptsKept
  BY <1>3, <1>4, RowsReplaced
<1> QED BY <1>2, <1>5

\* settleAttemptInTransaction: what the latest attempt, not terminal yet, becomes
LEMMA SettledFacts ==
    ASSUME Inv, NEW c \in Cards, NEW o \in Ordinals, o = latest[c],
           att[c][o].lc \in Active \cup {"pending"},
           NEW state \in Terminal, NEW usage \in Usages \cup {NoUsage},
           NEW result \in {"none", "accepted", "unmet"}
    PROVE  \E a \in Attempt :
              /\ Settled(c, o, state, usage, result) = WithAttempt(c, o, a)
              /\ RowOK(o, a)
              /\ a.lc = state
              /\ a.result = IF state = "completed" \/ result # "none" THEN result ELSE "absence"
<1> DEFINE old == att[c][o]
           evidence == IF state = "completed" \/ result # "none" THEN result ELSE "absence"
           ticket == IF old.reservation \in {"active", "claimed"} THEN "consumed" ELSE old.reservation
           b == [old EXCEPT !.lc = state, !.charged = Charge(c, o, usage)]
           a == [b EXCEPT !.result = evidence, !.reservation = ticket]
<1>1. att \in [Cards -> [Ordinals -> Attempt]] /\ old \in Attempt
  BY DEF Inv, Typed
<1>2. Settled(c, o, state, usage, result) = WithAttempt(c, o, a)
  <2>1. Settled(c, o, state, usage, result) =
            WithAttempt(c, o, [old EXCEPT !.lc = state, !.charged = Charge(c, o, usage),
                                          !.result = evidence, !.reservation = ticket])
    BY <1>1 DEF Settled, Attempt
  <2> QED BY <2>1
<1>3. Charge(c, o, usage) \in Nat
  BY ChargeType DEF Inv
<1>4. /\ ticket \in {"none", "active", "claimed", "consumed"}
      /\ evidence \in {"none", "absence", "accepted", "unmet"}
  BY <1>1 DEF Attempt
<1>5. state \in Lifecycles
  BY DEF Lifecycles
<1> HIDE DEF evidence, ticket
<1>6. a \in Attempt /\ a.lc = state /\ a.result = evidence /\ a.reservation = ticket /\ a.decision = old.decision
  <2> HIDE DEF old
  <2>1. b \in Attempt /\ b.lc = state /\ b.decision = old.decision
    BY <1>1, <1>3, <1>5 DEF Attempt
  <2> HIDE DEF b
  <2> QED BY <2>1, <1>4 DEF Attempt
<1>7. /\ o = 1 => old.reservation = "none"
      /\ o > 1 => old.reservation \in {"active", "claimed"}
  BY OrdinalFacts DEF Inv, Lineage, ReservationFollowsAttempt
<1>8. /\ o = 1 => ticket = "none"
      /\ o > 1 => ticket = "consumed"
  BY <1>7 DEF ticket
<1>9. old.decision = "retry" => o < MaxAttempts
  BY DEF Inv, Lineage, RetryRoom
<1>10. state \notin Active /\ state # "pending" /\ state # "absent"
  BY DEF Terminal, Active
<1> HIDE DEF old, a
<1>11. RowOK(o, a)
  BY <1>6, <1>8, <1>9, <1>10 DEF RowOK
<1> QED BY <1>2, <1>6, <1>11 DEF evidence

\* A settlement keeps the lineage and every other attempt.
LEMMA SettleAttempt ==
    ASSUME Inv, NEW c \in Cards, NEW o \in Ordinals, o = latest[c],
           att[c][o].lc \in Active \cup {"pending"},
           NEW state \in Terminal, NEW usage \in Usages \cup {NoUsage},
           NEW result \in {"none", "accepted", "unmet"},
           att' = Settled(c, o, state, usage, result), latest' = latest
    PROVE  /\ AttemptsKept
           /\ att'[c][o].lc = state
           /\ att'[c][o].result = IF state = "completed" \/ result # "none" THEN result ELSE "absence"
           /\ \A d \in Cards, p \in Ordinals : d # c \/ p # o => att'[d][p] = att[d][p]
<1>1. PICK a \in Attempt :
              /\ Settled(c, o, state, usage, result) = WithAttempt(c, o, a)
              /\ RowOK(o, a)
              /\ a.lc = state
              /\ a.result = IF state = "completed" \/ result # "none" THEN result ELSE "absence"
  BY SettledFacts
<1>2. att[c][o].lc \notin Terminal
  BY DEF Terminal, Active
<1>3. /\ AttemptsKept
      /\ att'[c][o] = a
      /\ \A d \in Cards, p \in Ordinals : d # c \/ p # o => att'[d][p] = att[d][p]
  BY <1>1, <1>2, ReplaceAttempt
<1> QED BY <1>1, <1>3

\* A cleanup settlement, taken or refused
LEMMA CleanupAttempt ==
    ASSUME Inv, NEW c \in Cards, NEW o \in Ordinals,
           NEW state \in {"failed", "cancelled", "timed_out"},
           settleCleanup(c, o, state), latest' = latest
    PROVE  /\ AttemptsKept
           /\ \A d \in Cards, p \in Ordinals :
                 /\ att'[d][p].lc \in {"absent", "pending"} => att[d][p].lc \in {"absent", "pending"}
                 /\ att'[d][p].result = "accepted" => att[d][p].result = "accepted"
<1>1. CASE SettleAllowed(c, o, state)
  <2>1. o = latest[c] /\ att[c][o].lc \in Active \cup {"pending"}
    BY <1>1 DEF SettleAllowed
  <2>2. att' = Settled(c, o, state, NoUsage, "none")
    BY <1>1 DEF settleCleanup
  <2>3. state \in Terminal /\ state # "completed" /\ NoUsage \in Usages \cup {NoUsage}
    BY DEF Terminal
  <2>4. /\ AttemptsKept
        /\ att'[c][o].lc = state
        /\ att'[c][o].result = "absence"
        /\ \A d \in Cards, p \in Ordinals : d # c \/ p # o => att'[d][p] = att[d][p]
    BY <2>1, <2>2, <2>3, SettleAttempt
  <2> QED BY <2>3, <2>4 DEF Terminal
<1>2. CASE ~SettleAllowed(c, o, state)
  BY <1>2, SameAttempts DEF settleCleanup
<1> QED BY <1>1, <1>2

----------------------------------------------------------------------------
(* Lanes and cards.                                                        *)

\* Steps that start nothing: no new lane, no new start, and evidence is only
\* accepted from a lane that is fenced by the step
LEMMA LanesKept ==
    ASSUME Inv, AttemptsKept,
           \A x \in lanes' : x \in lanes /\ (x \in fenced => x \in fenced'),
           \A c \in Cards, o \in Ordinals :
              /\ att'[c][o].lc \in {"absent", "pending"} => att[c][o].lc \in {"absent", "pending"}
              /\ att'[c][o].result = "accepted" =>
                    \/ att[c][o].result = "accepted"
                    \/ <<c, o>> \in lanes /\ <<c, o>> \in fenced',
           pump'.at = "start" => pump.at = "start" /\ pump'.card = pump.card /\ pump'.ord = pump.ord
    PROVE  Lanes'
<1>1. UnclaimedHasNoLane'
  BY DEF Inv, Lanes, UnclaimedHasNoLane
<1>2. FreshStart'
  <2> SUFFICES ASSUME pump'.at = "start"
               PROVE  /\ <<pump'.card, pump'.ord>> \notin lanes'
                      /\ att'[pump'.card][pump'.ord].result # "accepted"
                      /\ att'[pump'.card][pump'.ord].lc \notin {"absent", "pending"}
    BY DEF FreshStart
  <2>1. pump.card \in Cards /\ pump.ord \in Ordinals
    BY DEF Inv, Typed, Pump
  <2> QED BY <2>1 DEF Inv, Lanes, FreshStart
<1>3. EvidenceFenced'
  BY DEF Inv, Lanes, EvidenceFenced
<1> QED BY <1>1, <1>2, <1>3 DEF Lanes

\* What a step leaves of done cards
DoneStays == \A c \in Cards : card[c].status = "done" => card'[c].status = "done"

\* Cards that were done keep their evidence when attempts and done cards are kept.
LEMMA DoneKept ==
    ASSUME Inv, AttemptsKept, DoneStays,
           \A c \in Cards : card[c].status = "done" => latest'[c] = latest[c],
           \A c \in Cards : card'[c].status = "done" /\ card[c].status # "done" =>
                                att'[c][latest'[c]].result = "accepted"
    PROVE  DoneHasEvidence'
<1> SUFFICES ASSUME NEW c \in Cards, card'[c].status = "done"
             PROVE  att'[c][latest'[c]].result = "accepted"
  BY DEF DoneHasEvidence, Latest
<1>1. CASE card[c].status # "done"
  BY <1>1
<1>2. CASE card[c].status = "done"
  <2>1. latest[c] \in Ordinals /\ latest'[c] = latest[c]
    BY <1>2 DEF Inv, Typed
  <2>2. att[c][latest[c]].result = "accepted"
    BY <1>2 DEF Inv, DoneHasEvidence, Latest
  <2>3. att[c][latest[c]].lc \in Terminal
    BY <2>1, <2>2 DEF Inv, Lineage, ResultIsTerminal
  <2> QED BY <2>1, <2>2, <2>3 DEF AttemptsKept, TerminalKept
<1> QED BY <1>1, <1>2

\* A done card has a terminal latest attempt whose lane, if it has one, is fenced
LEMMA DoneFacts ==
    ASSUME Inv, NEW c \in Cards, card[c].status = "done"
    PROVE  /\ Latest(c).lc \in Terminal
           /\ <<c, latest[c]>> \in lanes => <<c, latest[c]>> \in fenced
<1>1. latest[c] \in Ordinals /\ att[c][latest[c]].result = "accepted"
  BY DEF Inv, Typed, DoneHasEvidence, Latest
<1> QED BY <1>1 DEF Inv, Lineage, Lanes, ResultIsTerminal, EvidenceFenced, Latest

\* What the proof of a step has to establish
StepOK == Inv' /\ TerminalKept /\ DoneStays

\* The parts that make up a good step.
LEMMA StepFrom ==
    ASSUME AttemptsKept, card' \in [Cards -> Card], pump' \in Pump, Lanes', DoneStays, DoneHasEvidence'
    PROVE  StepOK
BY DEF StepOK, Inv, Typed, AttemptsKept

\* A step that leaves attempts and lanes alone, moves no card to done and
\* starts nothing
LEMMA QuietStep ==
    ASSUME Inv, att' = att, latest' = latest, lanes' = lanes, fenced' = fenced,
           card' \in [Cards -> Card], DoneStays,
           \A c \in Cards : card'[c].status = "done" => card[c].status = "done",
           pump' \in Pump,
           pump'.at = "start" => pump.at = "start" /\ pump'.card = pump.card /\ pump'.ord = pump.ord
    PROVE  StepOK
<1>1. AttemptsKept
  BY SameAttempts
<1>2. Lanes'
  BY <1>1, LanesKept
<1>3. DoneHasEvidence'
  BY <1>1, DoneKept
<1> QED BY <1>1, <1>2, <1>3, StepFrom

\* The verdict of a terminal latest attempt is projected to its card
LEMMA ProjectFacts ==
    ASSUME Inv, NEW c \in Cards, Latest(c).lc \in Terminal,
           card' = Move(c, Undecided, Verdict(Latest(c)), latest[c])
    PROVE  /\ card' \in [Cards -> Card]
           /\ DoneStays
           /\ \A d \in Cards : card'[d].status = "done" /\ card[d].status # "done" =>
                                   att[d][latest[d]].result = "accepted"
<1> DEFINE to == Verdict(Latest(c))
           o == latest[c]
<1>1. to \in CardStatus /\ o \in {0} \cup Ordinals
  BY DEF Verdict, CardStatus, Inv, Typed
<1>2. to = "done" => att[c][latest[c]].result = "accepted"
  BY DEF Verdict, Latest
<1> HIDE DEF to, o
<1>3. card \in [Cards -> Card]
  BY DEF Inv, Typed
<1>4. /\ Move(c, Undecided, to, o) \in [Cards -> Card]
      /\ \A d \in Cards : d # c => Move(c, Undecided, to, o)[d] = card[d]
      /\ card[c].status \in Undecided => Move(c, Undecided, to, o)[c].status = to
      /\ card[c].status \notin Undecided => Move(c, Undecided, to, o)[c] = card[c]
  BY ONLY <1>1, <1>3, c \in Cards, MoveFacts
<1>5. card' = Move(c, Undecided, to, o)
  BY DEF to, o
<1> QED BY <1>2, <1>4, <1>5 DEF DoneStays, Undecided

\* A card is failed
LEMMA FailFacts ==
    ASSUME Inv, NEW c \in Cards, NEW from, NEW by \in {0} \cup Ordinals,
           "done" \in from => card[c].status # "done",
           card' = Move(c, from, "failed", by)
    PROVE  /\ card' \in [Cards -> Card]
           /\ DoneStays
           /\ \A d \in Cards : card'[d].status = "done" => card[d].status = "done"
<1>1. "failed" \in CardStatus /\ card \in [Cards -> Card]
  BY DEF CardStatus, Inv, Typed
<1>2. /\ Move(c, from, "failed", by) \in [Cards -> Card]
      /\ \A d \in Cards : d # c => Move(c, from, "failed", by)[d] = card[d]
      /\ card[c].status \in from => Move(c, from, "failed", by)[c].status = "failed"
      /\ card[c].status \notin from => Move(c, from, "failed", by)[c] = card[c]
  BY <1>1, MoveFacts
<1> QED BY <1>2 DEF DoneStays

\* kanbanRetryOrFail of a card that is not done
LEMMA RetryOrFailFacts ==
    ASSUME Inv, NEW c \in Cards, card[c].status # "done", kanbanRetryOrFail(c)
    PROVE  /\ card' \in [Cards -> Card]
           /\ DoneStays
           /\ \A d \in Cards : card'[d].status = "done" => card[d].status = "done"
<1>1. card \in [Cards -> Card]
  BY DEF Inv, Typed
<1>2. card[c].retries + 1 \in Nat
  BY <1>1 DEF Card
<1>3. CASE card[c].retries + 1 > MaxRetries
  <2>1. card' = Move(c, {"queued", "running", "done"}, "failed", 0)
    BY <1>3 DEF kanbanRetryOrFail
  <2> QED BY <2>1, FailFacts
<1>4. CASE ~(card[c].retries + 1 > MaxRetries) /\ CanMove(c, {"queued", "running"})
  <2> DEFINE by == IF card[c].status = "queued" THEN card[c].by ELSE 0
             one == [card[c] EXCEPT !.status = "queued", !.held = TRUE]
             two == [one EXCEPT !.retries = card[c].retries + 1, !.by = by]
  <2>1. card' = [card EXCEPT ![c] = two]
    BY <1>1, <1>4 DEF kanbanRetryOrFail, Card
  <2>2. by \in {0} \cup Ordinals
    BY <1>1 DEF Card
  <2>3. one \in Card /\ one.status = "queued"
    BY <1>1 DEF Card, CardStatus
  <2> HIDE DEF by, one
  <2>4. two \in Card /\ two.status = "queued"
    BY <1>2, <2>2, <2>3 DEF Card
  <2> HIDE DEF two
  <2> QED BY <1>1, <2>1, <2>4 DEF DoneStays
<1>5. CASE ~(card[c].retries + 1 > MaxRetries) /\ ~CanMove(c, {"queued", "running"})
  BY <1>1, <1>5 DEF kanbanRetryOrFail, DoneStays
<1> QED BY <1>3, <1>4, <1>5

----------------------------------------------------------------------------
(* The pump.                                                               *)

\* Beginning and ending a dispatch pass, and a released resource, are good steps.
LEMMA PassStep ==
    ASSUME Inv, BeginPass \/ EndPass \/ ResourceReleased
    PROVE  StepOK
<1>1. card \in [Cards -> Card] /\ pump \in Pump
  BY DEF Inv, Typed
<1>2. pump' \in Pump /\ pump'.at # "start"
  <2>1. CASE BeginPass
    <3> DEFINE q == [pump EXCEPT !.at = "pass", !.dirty = FALSE]
               todo == {c \in Cards : card[c].status = "queued" /\ ~card[c].held}
    <3>1. q \in Pump /\ q.at = "pass"
      BY <1>1 DEF Pump
    <3>2. pump' = [q EXCEPT !.avail = -1, !.todo = todo]
      BY <1>1, <2>1 DEF BeginPass, Pump
    <3>3. todo \subseteq Cards
      OBVIOUS
    <3> HIDE DEF q, todo
    <3> QED BY <3>1, <3>2, <3>3 DEF Pump
  <2>2. CASE EndPass
    BY <1>1, <2>2 DEF EndPass, Pump
  <2>3. CASE ResourceReleased
    BY <1>1, <2>3 DEF ResourceReleased, Kick, Pump
  <2> QED BY <2>1, <2>2, <2>3
<1>3. /\ att' = att /\ latest' = latest /\ lanes' = lanes /\ fenced' = fenced /\ card' = card
  BY DEF BeginPass, EndPass, ResourceReleased
<1> QED BY <1>1, <1>2, <1>3, QuietStep DEF DoneStays

\* A settlement without evidence and a failed card: starts and their refusals
LEMMA CleanupStep ==
    ASSUME Inv, NEW c \in Cards, NEW o \in Ordinals,
           NEW state \in {"failed", "cancelled", "timed_out"},
           settleCleanup(c, o, state), latest' = latest, lanes' = lanes,
           \A x \in lanes : x \in fenced => x \in fenced',
           card' \in [Cards -> Card], DoneStays,
           \A d \in Cards : card'[d].status = "done" => card[d].status = "done",
           pump' \in Pump,
           pump'.at = "start" => pump.at = "start" /\ pump'.card = pump.card /\ pump'.ord = pump.ord
    PROVE  StepOK
<1>1. /\ AttemptsKept
      /\ \A d \in Cards, p \in Ordinals :
            /\ att'[d][p].lc \in {"absent", "pending"} => att[d][p].lc \in {"absent", "pending"}
            /\ att'[d][p].result = "accepted" => att[d][p].result = "accepted"
  BY CleanupAttempt
<1>2. Lanes'
  BY <1>1, LanesKept
<1>3. DoneHasEvidence'
  BY <1>1, DoneKept
<1> QED BY <1>1, <1>2, <1>3, StepFrom

\* A pending attempt is claimed and handed to its adapter
LEMMA ClaimStep ==
    ASSUME Inv, NEW c \in Cards, NEW o \in Ordinals, o = latest[c], att[c][o].lc = "pending",
           att' = WithAttempt(c, o, [att[c][o] EXCEPT !.lc = "starting", !.reserved = ReservedFor(c),
                                           !.reservation = IF @ = "active" THEN "claimed" ELSE @]),
           latest' = latest, lanes' = lanes, fenced' = fenced, card' = card,
           pump' \in Pump, pump'.card = c, pump'.ord = o
    PROVE  StepOK
<1> DEFINE old == att[c][o]
           ticket == IF old.reservation = "active" THEN "claimed" ELSE old.reservation
           b == [old EXCEPT !.lc = "starting"]
           a == [b EXCEPT !.reserved = ReservedFor(c), !.reservation = ticket]
<1>1. att \in [Cards -> [Ordinals -> Attempt]] /\ card \in [Cards -> Card] /\ old \in Attempt
  BY DEF Inv, Typed
<1>2. att' = WithAttempt(c, o, a)
  <2>1. att' = WithAttempt(c, o, [old EXCEPT !.lc = "starting", !.reserved = ReservedFor(c),
                                             !.reservation = ticket])
    BY <1>1 DEF Attempt
  <2> QED BY <2>1
<1>3. ReservedFor(c) \in Nat
  BY SwarmAssumption DEF ReservedFor, SwarmAssumption
<1>4. ticket \in {"none", "active", "claimed", "consumed"}
  BY <1>1 DEF Attempt
<1>5. /\ o = 1 => ticket = "none"
      /\ o > 1 => ticket = "claimed"
  BY OrdinalFacts DEF Inv, Lineage, ReservationFollowsAttempt
<1>6. old.result = "none" /\ (old.decision = "retry" => o < MaxAttempts) /\ <<c, o>> \notin lanes
  <2>1. old.lc = "pending" /\ old.lc \notin Terminal
    BY DEF Terminal
  <2> QED BY <2>1 DEF Inv, Lineage, Lanes, ResultIsTerminal, RetryRoom, UnclaimedHasNoLane
<1> HIDE DEF ticket
<1>7. a \in Attempt /\ a.lc = "starting" /\ a.result = old.result /\ a.reservation = ticket /\ a.decision = old.decision
  <2> HIDE DEF old
  <2>1. b \in Attempt /\ b.lc = "starting" /\ b.result = old.result /\ b.decision = old.decision
    BY <1>1 DEF Attempt, Lifecycles, Active
  <2> HIDE DEF b
  <2> QED BY <2>1, <1>3, <1>4 DEF Attempt
<1> HIDE DEF a
<1>8. RowOK(o, a)
  BY <1>5, <1>6, <1>7 DEF RowOK, Active, Terminal
<1>9. old.lc \notin Terminal
  BY DEF Terminal
<1>10. /\ AttemptsKept
       /\ att'[c][o] = a
       /\ \A d \in Cards, p \in Ordinals : d # c \/ p # o => att'[d][p] = att[d][p]
  BY <1>2, <1>7, <1>8, <1>9, ReplaceAttempt
<1>11. Lanes'
  <2>1. \A d \in Cards, p \in Ordinals :
           /\ att'[d][p].lc \in {"absent", "pending"} => att[d][p].lc \in {"absent", "pending"}
           /\ att'[d][p].result = "accepted" => att[d][p].result = "accepted"
    <3> SUFFICES ASSUME NEW d \in Cards, NEW p \in Ordinals
                 PROVE  /\ att'[d][p].lc \in {"absent", "pending"} => att[d][p].lc \in {"absent", "pending"}
                        /\ att'[d][p].result = "accepted" => att[d][p].result = "accepted"
      OBVIOUS
    <3>1. CASE d = c /\ p = o
      BY <3>1, <1>10, <1>7
    <3>2. CASE d # c \/ p # o
      BY <3>2, <1>10
    <3> QED BY <3>1, <3>2
  <2>2. UnclaimedHasNoLane' /\ EvidenceFenced'
    BY <2>1 DEF Inv, Lanes, UnclaimedHasNoLane, EvidenceFenced
  <2>3. FreshStart'
    BY <1>6, <1>7, <1>10 DEF FreshStart
  <2> QED BY <2>2, <2>3 DEF Lanes
<1>12. DoneStays
  BY DEF DoneStays
<1>13. DoneHasEvidence'
  BY <1>10, <1>12, DoneKept
<1> QED BY <1>1, <1>10, <1>11, <1>12, <1>13, StepFrom

\* Claiming an attempt within the limits is a good step.
LEMMA AdmitStep ==
    ASSUME Inv, NEW c \in Cards, NEW o \in Ordinals, NEW p \in Pump, p.at # "start",
           Admit(c, o, p), latest' = latest, lanes' = lanes, fenced' = fenced
    PROVE  StepOK
<1> DEFINE skip == \/ p.avail <= 0 \/ Cardinality(ActiveAttempts) >= ExecutorMax
                   \/ o = latest[c] /\ early[c] = "future"
                   \/ ~Claimable(c, o)
                   \/ ~BudgetExhausted /\ ~WithinBudget(c)
<1>1. card \in [Cards -> Card]
  BY DEF Inv, Typed
<1>2. CASE skip
  <2>1. pump' = p /\ att' = att /\ card' = card
    BY <1>2 DEF Admit
  <2> QED BY <1>1, <2>1, QuietStep DEF DoneStays
<1>3. CASE ~skip /\ BudgetExhausted
  <2>1. /\ settleCleanup(c, o, "cancelled")
        /\ card' = Move(c, Undecided, "failed", o)
        /\ pump' = KickIf(p, CanMove(c, Undecided))
    BY <1>3 DEF Admit
  <2>2. pump' \in Pump /\ pump'.at # "start"
    BY <2>1, KickFacts
  <2>3. /\ card' \in [Cards -> Card]
        /\ DoneStays
        /\ \A d \in Cards : card'[d].status = "done" => card[d].status = "done"
    BY <2>1, FailFacts DEF Undecided
  <2> QED BY <2>1, <2>2, <2>3, CleanupStep
<1>4. CASE ~skip /\ ~BudgetExhausted
  <2>1. /\ att' = WithAttempt(c, o, [att[c][o] EXCEPT !.lc = "starting", !.reserved = ReservedFor(c),
                                           !.reservation = IF @ = "active" THEN "claimed" ELSE @])
        /\ pump' = [p EXCEPT !.at = "start", !.card = c, !.ord = o, !.avail = @ - 1]
        /\ card' = card
    BY <1>4 DEF Admit
  <2>2. o = latest[c] /\ att[c][o].lc = "pending"
    BY <1>4 DEF Claimable
  <2>3. pump' \in Pump /\ pump'.card = c /\ pump'.ord = o
    <3> DEFINE q == [p EXCEPT !.at = "start", !.card = c]
    <3>1. p.avail - 1 \in Nat
      BY <1>4 DEF Pump
    <3>2. pump' = [q EXCEPT !.ord = o, !.avail = p.avail - 1]
      BY <2>1 DEF Pump
    <3>3. q \in Pump /\ q.card = c
      BY DEF Pump
    <3> HIDE DEF q
    <3> QED BY <3>1, <3>2, <3>3 DEF Pump
  <2> QED BY <2>1, <2>2, <2>3, ClaimStep
<1> QED BY <1>2, <1>3, <1>4

\* A worker whose Pi executor is missing: its latest attempt is pending, so its
\* card is not done
LEMMA UnavailableStep ==
    ASSUME Inv, NEW c \in Cards, Latest(c).lc = "pending", pump.at # "start", FailUnavailable(c),
           latest' = latest, lanes' = lanes, fenced' = fenced
    PROVE  StepOK
<1> DEFINE o == latest[c]
           rest == [pump EXCEPT !.todo = @ \ {c}]
<1>1. /\ pump \in Pump /\ o \in Ordinals /\ card \in [Cards -> Card]
  BY DEF Inv, Typed
<1>2. card[c].status # "done"
  BY DoneFacts DEF Terminal
<1>3. rest \in Pump /\ rest.at # "start"
  BY <1>1 DEF Pump
<1>4. pump' \in Pump /\ pump'.at # "start"
  <2> HIDE DEF rest
  <2>1. PICK b : pump' = KickIf(rest, b)
    BY DEF FailUnavailable, rest
  <2> QED BY <1>3, <2>1, KickFacts
<1>5. \/ card' = Move(c, Undecided, "failed", o)
      \/ card' = Move(c, {"queued", "running", "done"}, "failed", 0)
  BY DEF FailUnavailable, projectAttemptCard
<1>6. /\ card' \in [Cards -> Card]
      /\ DoneStays
      /\ \A d \in Cards : card'[d].status = "done" => card[d].status = "done"
  <2> HIDE DEF o
  <2>1. o \in {0} \cup Ordinals /\ 0 \in {0} \cup Ordinals
    BY <1>1
  <2> QED BY <1>2, <1>5, <2>1, FailFacts
<1>7. CASE Authorized
  <2> HIDE DEF o
  <2>1. /\ o \in Ordinals /\ o = latest[c] /\ att[c][o].lc \in Active \cup {"pending"}
        /\ "failed" \in Terminal /\ NoUsage \in Usages \cup {NoUsage}
        /\ att' = Settled(c, o, "failed", NoUsage, "none")
    BY <1>1, <1>7 DEF FailUnavailable, Latest, Terminal, o
  <2>2. /\ AttemptsKept
        /\ att'[c][o].lc = "failed"
        /\ att'[c][o].result = "absence"
        /\ \A d \in Cards, p \in Ordinals : d # c \/ p # o => att'[d][p] = att[d][p]
    BY <2>1, SettleAttempt
  <2>3. \A d \in Cards, p \in Ordinals :
           /\ att'[d][p].lc \in {"absent", "pending"} => att[d][p].lc \in {"absent", "pending"}
           /\ att'[d][p].result = "accepted" => att[d][p].result = "accepted"
    BY <2>2
  <2>4. Lanes'
    BY <1>4, <2>2, <2>3, LanesKept
  <2>5. DoneHasEvidence'
    BY <1>6, <2>2, DoneKept
  <2> QED BY <1>4, <1>6, <2>2, <2>4, <2>5, StepFrom
<1>8. CASE ~Authorized
  <2>1. att' = att
    BY <1>8 DEF FailUnavailable
  <2> QED BY <1>4, <1>6, <2>1, QuietStep
<1> QED BY <1>7, <1>8

\* The latest attempt of a card is neither absent nor unknown
LEMMA LatestFacts ==
    ASSUME Inv, NEW c \in Cards, Latest(c).lc \notin Active, Latest(c).lc \notin Terminal
    PROVE  Latest(c).lc = "pending"
<1>1. latest[c] \in Ordinals /\ att[c][latest[c]] \in Attempt /\ att[c][latest[c]].lc # "absent"
  BY DEF Inv, Typed, Lineage, OneLiveAttempt
<1> QED BY <1>1 DEF Latest, Attempt, Lifecycles

\* A verdict is projected and the pump goes on
LEMMA ProjectStep ==
    ASSUME Inv, NEW c \in Cards, Latest(c).lc \in Terminal,
           card' = Move(c, Undecided, Verdict(Latest(c)), latest[c]),
           att' = att, latest' = latest, lanes' = lanes, fenced' = fenced,
           pump' \in Pump,
           pump'.at = "start" => pump.at = "start" /\ pump'.card = pump.card /\ pump'.ord = pump.ord
    PROVE  StepOK
<1>1. AttemptsKept
  BY SameAttempts
<1>2. Lanes'
  BY <1>1, LanesKept
<1>3. /\ card' \in [Cards -> Card]
      /\ DoneStays
      /\ \A d \in Cards : card'[d].status = "done" /\ card[d].status # "done" =>
                              att[d][latest[d]].result = "accepted"
  BY ProjectFacts
<1>4. DoneHasEvidence'
  BY <1>1, <1>3, DoneKept
<1> QED BY <1>1, <1>2, <1>3, <1>4, StepFrom

\* The synchronous part of a visit to a card is a good step.
LEMMA VisitStep ==
    ASSUME Inv, NEW c \in Cards, VisitCard(c)
    PROVE  StepOK
<1> DEFINE rest == [pump EXCEPT !.todo = @ \ {c}]
           o == latest[c]
           lc == Latest(c).lc
           skip == ~isUnblocked(c) \/ root.state = "terminal" \/ lc \in Active
<1>1. pump \in Pump /\ o \in Ordinals /\ card \in [Cards -> Card]
  BY DEF Inv, Typed
<1>2. /\ pump.at = "pass"
      /\ latest' = latest /\ lanes' = lanes /\ fenced' = fenced
  BY DEF VisitCard
<1>3. rest \in Pump /\ rest.at = "pass"
  BY <1>1, <1>2 DEF Pump
<1> HIDE DEF rest, o
<1>4. CASE skip
  <2>1. pump' = rest /\ att' = att /\ card' = card
    BY <1>4 DEF VisitCard, rest
  <2> QED BY <1>1, <1>2, <1>3, <2>1, QuietStep DEF DoneStays
<1>5. CASE ~skip /\ lc \in Terminal
  <2>1. /\ card' = Move(c, Undecided, Verdict(Latest(c)), latest[c])
        /\ pump' = KickIf(rest, CanMove(c, Undecided))
        /\ att' = att
    BY <1>5 DEF VisitCard, projectAttemptCard, rest
  <2>2. pump' \in Pump /\ pump'.at # "start"
    BY <1>3, <2>1, KickFacts
  <2> QED BY <1>2, <1>5, <2>1, <2>2, ProjectStep
<1>6. CASE ~skip /\ lc \notin Terminal /\ c \in PiDown
  <2>1. FailUnavailable(c)
    BY <1>6 DEF VisitCard
  <2>2. Latest(c).lc = "pending"
    BY <1>6, LatestFacts
  <2> QED BY <1>2, <2>1, <2>2, UnavailableStep
<1>7. CASE ~skip /\ lc \notin Terminal /\ c \notin PiDown /\ pump.avail = -1
  <2>1. /\ pump' = [rest EXCEPT !.at = "capacity", !.card = c, !.ord = o]
        /\ att' = att /\ card' = card
    BY <1>7 DEF VisitCard, rest, o
  <2>2. pump' \in Pump /\ pump'.at # "start"
    BY <1>1, <1>3, <2>1 DEF Pump
  <2> QED BY <1>1, <1>2, <2>1, <2>2, QuietStep DEF DoneStays
<1>8. CASE ~skip /\ lc \notin Terminal /\ c \notin PiDown /\ pump.avail # -1
  <2>1. Admit(c, o, rest)
    BY <1>8 DEF VisitCard, rest, o
  <2> QED BY <1>1, <1>2, <1>3, <2>1, AdmitStep
<1> QED BY <1>4, <1>5, <1>6, <1>7, <1>8

\* The answer of an executor's capacity query is a good step.
LEMMA CapacityStep ==
    ASSUME Inv, CapacityResolves
    PROVE  StepOK
<1> DEFINE free == IF Cardinality(Occupied) < ExecutorMax THEN ExecutorMax - Cardinality(Occupied) ELSE 0
           q == [pump EXCEPT !.at = "pass", !.avail = free]
<1>1. pump \in Pump
  BY DEF Inv, Typed
<1>2. Cardinality(Occupied) \in Nat
  BY SwarmAssumption, FS_Subset, FS_CardinalityType DEF SwarmAssumption, Occupied
<1>3. free \in Nat
  BY <1>2, SwarmAssumption DEF SwarmAssumption
<1> HIDE DEF free
<1>4. q \in Pump /\ q.at # "start"
  BY <1>1, <1>3 DEF Pump
<1>5. Admit(pump.card, pump.ord, q) /\ latest' = latest /\ lanes' = lanes /\ fenced' = fenced
  BY DEF CapacityResolves, free
<1>6. pump.card \in Cards /\ pump.ord \in Ordinals
  BY <1>1 DEF Pump
<1> QED BY <1>4, <1>5, <1>6, AdmitStep

----------------------------------------------------------------------------
(* The end of a start.                                                     *)

\* What the invariant says while the pump awaits a start.
LEMMA StartFacts ==
    ASSUME Inv, pump.at = "start"
    PROVE  /\ pump.card \in Cards /\ pump.ord \in Ordinals
           /\ AfterStart \in Pump /\ AfterStart.at = "pass"
           /\ <<pump.card, pump.ord>> \notin lanes
           /\ att[pump.card][pump.ord].result # "accepted"
           /\ att[pump.card][pump.ord].lc \notin {"absent", "pending"}
           /\ att[pump.card][pump.ord].lc \in Active => pump.ord = latest[pump.card]
<1>1. pump \in Pump /\ latest \in [Cards -> Ordinals]
  BY DEF Inv, Typed
<1>2. pump.card \in Cards /\ pump.ord \in Ordinals /\ AfterStart \in Pump /\ AfterStart.at = "pass"
  BY <1>1 DEF Pump, AfterStart
<1>3. att[pump.card][pump.ord].lc \in Active => pump.ord = latest[pump.card]
  <2>1. pump.ord \in Nat /\ latest[pump.card] \in Nat
    BY <1>1, <1>2, OrdinalFacts
  <2> QED BY <1>2, <2>1 DEF Inv, Lineage, OneLiveAttempt, Active, Terminal, NoAttempt
<1> QED BY <1>2, <1>3 DEF Inv, Lanes, FreshStart

\* One field of a live attempt changes: lc, to another live state that keeps the
\* reservation as it is
LEMMA LiveMove ==
    ASSUME Inv, NEW c \in Cards, NEW o \in Ordinals, o = latest[c],
           att[c][o].lc \in Active, NEW to \in Active,
           att' = WithAttempt(c, o, [att[c][o] EXCEPT !.lc = to]), latest' = latest
    PROVE  /\ AttemptsKept
           /\ \A d \in Cards, p \in Ordinals :
                 /\ att'[d][p].lc \in {"absent", "pending"} => att[d][p].lc \in {"absent", "pending"}
                 /\ att'[d][p].result = att[d][p].result
<1> DEFINE a == [att[c][o] EXCEPT !.lc = to]
<1>1. att[c][o] \in Attempt /\ att[c][o].lc \notin Terminal
  BY DEF Inv, Typed, Active, Terminal
<1>2. /\ a \in Attempt /\ a.lc = to /\ a.result = att[c][o].result
      /\ a.reservation = att[c][o].reservation /\ a.decision = att[c][o].decision
  BY <1>1 DEF Attempt, Lifecycles
<1>3. to \notin Terminal /\ to # "pending" /\ to # "absent"
  BY DEF Active, Terminal
<1>4. a.result = "none"
  BY <1>1, <1>2 DEF Inv, Lineage, ResultIsTerminal
<1>5. RowOK(o, a)
  <2>1. /\ o = 1 => att[c][o].reservation = "none"
        /\ o > 1 => att[c][o].reservation = "claimed"
        /\ att[c][o].decision = "retry" => o < MaxAttempts
    BY DEF Inv, Lineage, ReservationFollowsAttempt, RetryRoom
  <2> HIDE DEF a
  <2> QED BY <1>2, <1>3, <1>4, <2>1 DEF RowOK
<1>6. att' = WithAttempt(c, o, a)
  OBVIOUS
<1> HIDE DEF a
<1>7. /\ AttemptsKept
      /\ att'[c][o] = a
      /\ \A d \in Cards, p \in Ordinals : d # c \/ p # o => att'[d][p] = att[d][p]
  BY <1>1, <1>2, <1>5, <1>6, ReplaceAttempt
<1> QED BY <1>2, <1>3, <1>7

\* A start that resolves is a good step.
LEMMA StartSucceedsStep ==
    ASSUME Inv, NEW admitted \in BOOLEAN, StartSucceeds(admitted)
    PROVE  StepOK
<1> DEFINE c == pump.card
           o == pump.ord
           run == att[c][o].lc = "starting" /\ Authorized
<1>1. /\ c \in Cards /\ o \in Ordinals
      /\ AfterStart \in Pump /\ AfterStart.at = "pass"
      /\ att[c][o].result # "accepted"
      /\ att[c][o].lc \notin {"absent", "pending"}
      /\ att[c][o].lc \in Active => o = latest[c]
  BY StartFacts DEF StartSucceeds
<1>2. /\ latest' = latest /\ fenced' = fenced
      /\ lanes' = lanes \/ lanes' = lanes \cup {<<c, o>>}
      /\ att' = IF run THEN WithAttempt(c, o, [att[c][o] EXCEPT !.lc = "running"]) ELSE att
  BY DEF StartSucceeds
<1>3. card \in [Cards -> Card]
  BY DEF Inv, Typed
<1>4. \/ /\ Latest(c).lc \in Terminal
         /\ card' = Move(c, Undecided, Verdict(Latest(c)), latest[c])
         /\ pump' = KickIf(AfterStart, CanMove(c, Undecided))
      \/ /\ card' = card \/ (card[c].status = "queued" /\ card' = [card EXCEPT ![c].status = "running", ![c].by = 0])
         /\ pump' = AfterStart
  BY DEF StartSucceeds, projectAttemptCard
<1> HIDE DEF c, o
<1>5. pump' \in Pump /\ pump'.at # "start"
  BY <1>1, <1>4, KickFacts
<1>6. /\ AttemptsKept
      /\ \A d \in Cards, p \in Ordinals :
            /\ att'[d][p].lc \in {"absent", "pending"} => att[d][p].lc \in {"absent", "pending"}
            /\ att'[d][p].result = att[d][p].result
  <2>1. CASE run
    <3>1. att[c][o].lc \in Active /\ "running" \in Active
      BY <2>1 DEF Active
    <3>2. att' = WithAttempt(c, o, [att[c][o] EXCEPT !.lc = "running"])
      BY <1>2, <2>1
    <3> HIDE DEF run
    <3> QED BY <1>1, <1>2, <3>1, <3>2, LiveMove
  <2>2. CASE ~run
    BY <1>2, <2>2, SameAttempts
  <2> QED BY <2>1, <2>2
<1>7. Lanes'
  <2>1. UnclaimedHasNoLane'
    BY <1>1, <1>2, <1>6 DEF Inv, Lanes, UnclaimedHasNoLane
  <2>2. EvidenceFenced'
    BY <1>1, <1>2, <1>6 DEF Inv, Lanes, EvidenceFenced
  <2>3. FreshStart'
    BY <1>5 DEF FreshStart
  <2> QED BY <2>1, <2>2, <2>3 DEF Lanes
<1>8. /\ card' \in [Cards -> Card]
      /\ DoneStays
      /\ \A d \in Cards : card'[d].status = "done" /\ card[d].status # "done" =>
                              att[d][latest[d]].result = "accepted"
  <2>1. CASE Latest(c).lc \in Terminal /\ card' = Move(c, Undecided, Verdict(Latest(c)), latest[c])
    BY <1>1, <2>1, ProjectFacts
  <2>2. CASE card' = card
    BY <1>3, <2>2 DEF DoneStays
  <2>3. CASE card[c].status = "queued" /\ card' = [card EXCEPT ![c].status = "running", ![c].by = 0]
    <3> DEFINE k == [card[c] EXCEPT !.status = "running", !.by = 0]
    <3>1. k \in Card /\ k.status = "running"
      BY <1>1, <1>3 DEF Card, CardStatus
    <3>2. card' = [card EXCEPT ![c] = k]
      BY <1>1, <1>3, <2>3 DEF Card
    <3> HIDE DEF k
    <3> QED BY <1>1, <1>3, <2>3, <3>1, <3>2 DEF DoneStays
  <2> QED BY <1>4, <2>1, <2>2, <2>3
<1>9. DoneHasEvidence'
  <2>1. \A d \in Cards : latest[d] \in Ordinals
    BY DEF Inv, Typed
  <2> QED BY <1>2, <1>6, <1>8, <2>1, DoneKept
<1> QED BY <1>5, <1>6, <1>7, <1>8, <1>9, StepFrom

\* A start that failed, whether or not its claim was still there
LEMMA StartFailedStep ==
    ASSUME Inv, pump.at = "start", StartFailed, RemoveControl, latest' = latest, lanes' = lanes
    PROVE  StepOK
<1> DEFINE c == pump.card
           o == pump.ord
<1>1. /\ c \in Cards /\ o \in Ordinals
      /\ AfterStart \in Pump /\ AfterStart.at = "pass"
      /\ <<c, o>> \notin lanes
  BY StartFacts
<1>2. /\ settleCleanup(c, o, "failed")
      /\ card' = Move(c, Undecided, "failed", o)
      /\ pump' = KickIf(AfterStart, CanMove(c, Undecided))
      /\ fenced' = fenced \ {<<c, o>>}
  BY DEF StartFailed, projectAttemptCard, RemoveControl
<1> HIDE DEF c, o
<1>3. pump' \in Pump /\ pump'.at # "start"
  BY <1>1, <1>2, KickFacts
<1>4. /\ card' \in [Cards -> Card]
      /\ DoneStays
      /\ \A d \in Cards : card'[d].status = "done" => card[d].status = "done"
  BY <1>1, <1>2, FailFacts DEF Undecided
<1>5. \A x \in lanes : x \in fenced => x \in fenced'
  BY <1>1, <1>2
<1> QED BY <1>1, <1>2, <1>3, <1>4, <1>5, CleanupStep

\* A start that throws is a good step.
LEMMA StartFailsStep ==
    ASSUME Inv, StartFails
    PROVE  StepOK
BY StartFailedStep DEF StartFails

\* deferClaimAfterProvenNoStart: a claimed attempt becomes pending again
LEMMA DeferStep ==
    ASSUME Inv, StartDeferred
    PROVE  StepOK
<1> DEFINE c == pump.card
           o == pump.ord
           back == o = latest[c] /\ att[c][o].lc = "starting" /\ Authorized
<1>1. /\ c \in Cards /\ o \in Ordinals
      /\ AfterStart \in Pump /\ AfterStart.at = "pass"
      /\ <<c, o>> \notin lanes
  BY StartFacts DEF StartDeferred
<1>2. pump.at = "start" /\ RemoveControl /\ latest' = latest /\ lanes' = lanes
  BY DEF StartDeferred
<1>3. CASE ~back
  <2>1. StartFailed
    BY <1>3 DEF StartDeferred
  <2> QED BY <1>2, <2>1, StartFailedStep
<1>4. CASE back
  <2> DEFINE old == att[c][o]
             ticket == IF old.reservation = "claimed" THEN "active" ELSE old.reservation
             b == [old EXCEPT !.lc = "pending"]
             a == [b EXCEPT !.reserved = 0, !.reservation = ticket]
  <2>1. /\ att' = WithAttempt(c, o, [att[c][o] EXCEPT !.lc = "pending", !.reserved = 0,
                                              !.reservation = IF @ = "claimed" THEN "active" ELSE @])
        /\ pump' = AfterStart /\ card' = card
        /\ fenced' = fenced \ {<<c, o>>}
    BY <1>4 DEF StartDeferred, RemoveControl
  <2>2. o = latest[c] /\ old.lc = "starting" /\ old.lc \in Active /\ old.lc \notin Terminal
    BY <1>4 DEF Active, Terminal
  <2> HIDE DEF c, o, back
  <2>3. old \in Attempt /\ card \in [Cards -> Card] /\ att \in [Cards -> [Ordinals -> Attempt]]
    BY <1>1 DEF Inv, Typed
  <2>4. att' = WithAttempt(c, o, a)
    <3>1. att' = WithAttempt(c, o, [old EXCEPT !.lc = "pending", !.reserved = 0, !.reservation = ticket])
      BY <2>1, <2>3 DEF Attempt
    <3> QED BY <3>1
  <2>5. /\ o = 1 => ticket = "none"
        /\ o > 1 => ticket = "active"
    BY <1>1, <2>2, OrdinalFacts DEF Inv, Lineage, ReservationFollowsAttempt
  <2>6. old.result = "none" /\ (old.decision = "retry" => o < MaxAttempts)
    BY <1>1, <2>2 DEF Inv, Lineage, ResultIsTerminal, RetryRoom
  <2>7. ticket \in {"none", "active", "claimed", "consumed"}
    BY <2>3 DEF Attempt
  <2> HIDE DEF ticket
  <2>8. a \in Attempt /\ a.lc = "pending" /\ a.result = old.result /\ a.reservation = ticket /\ a.decision = old.decision
    <3> HIDE DEF old
    <3>1. b \in Attempt /\ b.lc = "pending" /\ b.result = old.result /\ b.decision = old.decision
      BY <2>3 DEF Attempt, Lifecycles
    <3> HIDE DEF b
    <3> QED BY <3>1, <2>7 DEF Attempt
  <2> HIDE DEF a
  <2>9. RowOK(o, a)
    BY <2>5, <2>6, <2>8 DEF RowOK, Active, Terminal
  <2>10. /\ AttemptsKept
         /\ att'[c][o] = a
         /\ \A d \in Cards, p \in Ordinals : d # c \/ p # o => att'[d][p] = att[d][p]
    BY <1>1, <1>2, <2>2, <2>4, <2>8, <2>9, ReplaceAttempt
  <2>11. Lanes'
    <3>1. UnclaimedHasNoLane'
      BY <1>1, <1>2, <2>10 DEF Inv, Lanes, UnclaimedHasNoLane
    <3>2. EvidenceFenced'
      <4> SUFFICES ASSUME NEW d \in Cards, NEW p \in Ordinals,
                          att'[d][p].result = "accepted", <<d, p>> \in lanes
                   PROVE  <<d, p>> \in fenced'
        BY <1>2 DEF EvidenceFenced
      <4>1. d # c \/ p # o
        BY <1>1
      <4>2. att[d][p].result = "accepted" /\ <<d, p>> # <<c, o>>
        BY <4>1, <2>10
      <4>3. <<d, p>> \in fenced
        BY <4>2 DEF Inv, Lanes, EvidenceFenced
      <4> QED BY <4>2, <4>3, <2>1
    <3>3. FreshStart'
      BY <1>1, <2>1 DEF FreshStart
    <3> QED BY <3>1, <3>2, <3>3 DEF Lanes
  <2>12. DoneStays
    BY <2>1 DEF DoneStays
  <2>13. DoneHasEvidence'
    BY <1>2, <2>1, <2>10, <2>12, DoneKept
  <2> QED BY <1>1, <2>1, <2>3, <2>10, <2>11, <2>12, <2>13, StepFrom
<1> QED BY <1>3, <1>4

----------------------------------------------------------------------------
(* The executor and the lease.                                             *)

\* A live attempt is the latest of a card that is not done
LEMMA LiveFacts ==
    ASSUME Inv, NEW c \in Cards, NEW o \in Ordinals, o = latest[c],
           att[c][o].lc \in Active \/ (<<c, o>> \in lanes /\ <<c, o>> \notin fenced)
    PROVE  card[c].status # "done"
<1>1. Active \cap Terminal = {}
  BY DEF Active, Terminal
<1> QED BY <1>1, DoneFacts DEF Latest

\* finishSpin is a good step, for a current and for a superseded attempt.
LEMMA FinishStep ==
    ASSUME Inv, NEW c \in Cards, NEW o \in Ordinals, NEW usage \in Usages \cup {NoUsage},
           NEW result \in {"accepted", "unmet"}, NEW late \in BOOLEAN,
           NEW stored \in BOOLEAN, FinishSpin(c, o, usage, result, late, stored)
    PROVE  StepOK
<1> DEFINE state == IF late THEN "timed_out"
                    ELSE IF Overdrawn(c, o, usage) THEN "failed" ELSE "completed"
           from == IF result = "accepted" THEN Undecided ELSE Undecided \cup {"done"}
           to == IF result = "accepted" THEN "done" ELSE "failed"
<1>1. /\ <<c, o>> \in lanes /\ <<c, o>> \notin fenced
      /\ fenced' = fenced \cup {<<c, o>>}
      /\ latest' = latest /\ lanes' = lanes
  BY DEF FinishSpin
<1>2. card \in [Cards -> Card] /\ pump \in Pump
  BY DEF Inv, Typed
<1>3. CASE ~SettleAllowed(c, o, "completed") \/ ~stored
  <2>1. att' = att /\ card' = card /\ pump' = pump
    BY <1>3 DEF FinishSpin
  <2>2. AttemptsKept
    BY <1>1, <2>1, SameAttempts
  <2>3. DoneStays
    BY <2>1 DEF DoneStays
  <2>4. Lanes'
    BY <1>1, <2>1, <2>2, LanesKept
  <2>5. DoneHasEvidence'
    BY <1>1, <2>1, <2>2, <2>3, DoneKept
  <2> QED BY <1>2, <2>1, <2>2, <2>3, <2>4, <2>5, StepFrom
<1>4. CASE SettleAllowed(c, o, "completed") /\ stored
  <2>1. o = latest[c] /\ att[c][o].lc \in Active \cup {"pending"}
    BY <1>4 DEF SettleAllowed
  <2>2. card[c].status # "done"
    BY <1>1, <2>1, LiveFacts
  <2>3. state \in Terminal /\ result \in {"none", "accepted", "unmet"}
    BY DEF Terminal
  <2>4. att' = Settled(c, o, state, usage, result)
    BY <1>4 DEF FinishSpin
  <2>5. /\ \/ kanbanRetryOrFail(c)
           \/ card' = Move(c, from, to, 0)
        /\ \E b : pump' = KickIf(pump, b)
    BY <1>4 DEF FinishSpin
  <2> HIDE DEF state, from
  <2>6. /\ AttemptsKept
        /\ att'[c][o].lc = state
        /\ att'[c][o].result = result
        /\ \A d \in Cards, p \in Ordinals : d # c \/ p # o => att'[d][p] = att[d][p]
    BY <1>1, <2>1, <2>3, <2>4, SettleAttempt
  <2>7. \A d \in Cards, p \in Ordinals :
           /\ att'[d][p].lc \in {"absent", "pending"} => att[d][p].lc \in {"absent", "pending"}
           /\ att'[d][p].result = "accepted" =>
                 \/ att[d][p].result = "accepted"
                 \/ <<d, p>> \in lanes /\ <<d, p>> \in fenced'
    BY <1>1, <2>3, <2>6 DEF Terminal
  <2>8. pump' \in Pump /\ (pump'.at = "start" <=> pump.at = "start")
        /\ pump'.card = pump.card /\ pump'.ord = pump.ord
    BY <1>2, <2>5, KickFacts
  <2>9. Lanes'
    BY <1>1, <2>6, <2>7, <2>8, LanesKept
  <2>10. /\ card' \in [Cards -> Card]
         /\ DoneStays
         /\ \A d \in Cards : card'[d].status = "done" /\ card[d].status # "done" =>
                                 att'[d][latest'[d]].result = "accepted"
    <3>1. CASE kanbanRetryOrFail(c)
      BY <2>2, <3>1, RetryOrFailFacts
    <3>2. CASE card' = Move(c, from, to, 0)
      <4>1. to \in CardStatus /\ 0 \in {0} \cup Ordinals
        BY DEF CardStatus
      <4> HIDE DEF to
      <4>2. /\ Move(c, from, to, 0) \in [Cards -> Card]
            /\ \A d \in Cards : d # c => Move(c, from, to, 0)[d] = card[d]
            /\ card[c].status \in from => Move(c, from, to, 0)[c].status = to
            /\ card[c].status \notin from => Move(c, from, to, 0)[c] = card[c]
        BY ONLY <1>2, <4>1, c \in Cards, MoveFacts
      <4>3. to = "done" => result = "accepted"
        BY DEF to
      <4> QED BY <1>1, <2>1, <2>2, <2>6, <3>2, <4>2, <4>3 DEF DoneStays
    <3> QED BY <2>5, <3>1, <3>2
  <2>11. DoneHasEvidence'
    BY <1>1, <2>6, <2>10, DoneKept
  <2> QED BY <2>6, <2>8, <2>9, <2>10, <2>11, StepFrom
<1> QED BY <1>3, <1>4

\* A turn whose verdict is not read back settles its attempt and leaves the card.
LEMMA UnreadStep ==
    ASSUME Inv, NEW c \in Cards, NEW o \in Ordinals, NEW usage \in Usages \cup {NoUsage},
           NEW result \in {"accepted", "unmet"}, NEW late \in BOOLEAN,
           VerdictUnread(c, o, usage, result, late)
    PROVE  StepOK
<1> DEFINE state == IF late THEN "timed_out" ELSE "completed"
<1>1. /\ <<c, o>> \in lanes /\ <<c, o>> \notin fenced
      /\ fenced' = fenced \cup {<<c, o>>}
      /\ latest' = latest /\ lanes' = lanes /\ card' = card /\ pump' = pump
      /\ o = latest[c] /\ att[c][o].lc \in Active \cup {"pending"}
      /\ att' = Settled(c, o, state, usage, result)
  BY DEF VerdictUnread, SettleAllowed
<1>2. card \in [Cards -> Card] /\ pump \in Pump
  BY DEF Inv, Typed
<1>3. state \in Terminal /\ result \in {"none", "accepted", "unmet"}
  BY DEF Terminal
<1> HIDE DEF state
<1>4. /\ AttemptsKept
      /\ att'[c][o].lc = state
      /\ att'[c][o].result = result
      /\ \A d \in Cards, p \in Ordinals : d # c \/ p # o => att'[d][p] = att[d][p]
  BY <1>1, <1>3, SettleAttempt
<1>5. \A d \in Cards, p \in Ordinals :
         /\ att'[d][p].lc \in {"absent", "pending"} => att[d][p].lc \in {"absent", "pending"}
         /\ att'[d][p].result = "accepted" =>
               \/ att[d][p].result = "accepted"
               \/ <<d, p>> \in lanes /\ <<d, p>> \in fenced'
  BY <1>1, <1>3, <1>4 DEF Terminal
<1>6. Lanes'
  BY <1>1, <1>4, <1>5, LanesKept
<1>7. DoneStays
  BY <1>1 DEF DoneStays
<1>8. DoneHasEvidence'
  BY <1>1, <1>4, <1>7, DoneKept
<1> QED BY <1>1, <1>2, <1>4, <1>6, <1>7, <1>8, StepFrom

\* failSpin is a good step, for a current and for a superseded attempt.
LEMMA FailStep ==
    ASSUME Inv, NEW c \in Cards, NEW o \in Ordinals, NEW usage \in Usages \cup {NoUsage},
           NEW stored \in BOOLEAN, FailSpin(c, o, usage, stored)
    PROVE  StepOK
<1>1. /\ <<c, o>> \in lanes /\ <<c, o>> \notin fenced
      /\ fenced' = fenced \cup {<<c, o>>}
      /\ latest' = latest /\ lanes' = lanes
  BY DEF FailSpin
<1>2. card \in [Cards -> Card] /\ pump \in Pump
  BY DEF Inv, Typed
<1>3. /\ AttemptsKept
      /\ \A d \in Cards, p \in Ordinals :
            /\ att'[d][p].lc \in {"absent", "pending"} => att[d][p].lc \in {"absent", "pending"}
            /\ att'[d][p].result = "accepted" => att[d][p].result = "accepted"
  <2>1. CASE o = latest[c] /\ SettleAllowed(c, o, "failed") /\ stored
    <3>1. /\ att[c][o].lc \in Active \cup {"pending"}
          /\ att' = Settled(c, o, "failed", usage, "none")
          /\ "failed" \in Terminal
      BY <2>1 DEF FailSpin, SettleAllowed, Terminal
    <3>2. /\ AttemptsKept
          /\ att'[c][o].lc = "failed"
          /\ att'[c][o].result = "absence"
          /\ \A d \in Cards, p \in Ordinals : d # c \/ p # o => att'[d][p] = att[d][p]
      BY <1>1, <2>1, <3>1, SettleAttempt
    <3> QED BY <3>2
  <2>2. CASE ~(o = latest[c] /\ SettleAllowed(c, o, "failed") /\ stored)
    <3>1. att' = att
      BY <2>2 DEF FailSpin
    <3> QED BY <1>1, <3>1, SameAttempts
  <2> QED BY <2>1, <2>2
<1>4. /\ card' \in [Cards -> Card]
      /\ DoneStays
      /\ \A d \in Cards : card'[d].status = "done" => card[d].status = "done"
  <2>1. CASE o # latest[c]
    BY <1>2, <2>1 DEF FailSpin, DoneStays
  <2>2. CASE o = latest[c]
    <3>1. card[c].status # "done"
      BY <1>1, <2>2, LiveFacts
    <3>2. kanbanRetryOrFail(c)
      BY <2>2 DEF FailSpin
    <3> QED BY <3>1, <3>2, RetryOrFailFacts
  <2> QED BY <2>1, <2>2
<1>5. pump' \in Pump /\ (pump'.at = "start" <=> pump.at = "start")
      /\ pump'.card = pump.card /\ pump'.ord = pump.ord
  <2>1. pump' = pump \/ \E b : pump' = KickIf(pump, b)
    BY DEF FailSpin
  <2> QED BY <1>2, <2>1, KickFacts
<1>6. Lanes'
  BY <1>1, <1>3, <1>5, LanesKept
<1>7. DoneHasEvidence'
  BY <1>1, <1>3, <1>4, DoneKept
<1> QED BY <1>3, <1>4, <1>5, <1>6, <1>7, StepFrom

\* Closing a lane is a good step.
LEMMA CloseStep ==
    ASSUME Inv, NEW c \in Cards, NEW o \in Ordinals, LaneCloses(c, o)
    PROVE  StepOK
<1>1. card \in [Cards -> Card] /\ pump \in Pump
  BY DEF Inv, Typed
<1>2. /\ att' = att /\ latest' = latest /\ card' = card
      /\ lanes' = lanes \ {<<c, o>>} /\ fenced' = fenced \ {<<c, o>>}
      /\ \E b : pump' = KickIf(pump, b)
  BY DEF LaneCloses
<1>3. pump' \in Pump /\ (pump'.at = "start" <=> pump.at = "start")
      /\ pump'.card = pump.card /\ pump'.ord = pump.ord
  BY <1>1, <1>2, KickFacts
<1>4. AttemptsKept
  BY <1>2, SameAttempts
<1>5. Lanes'
  BY <1>2, <1>3, <1>4, LanesKept
<1>6. DoneStays
  BY <1>2 DEF DoneStays
<1>7. DoneHasEvidence'
  BY <1>2, <1>4, <1>6, DoneKept
<1> QED BY <1>1, <1>2, <1>3, <1>4, <1>5, <1>6, <1>7, StepFrom

\* Expiry, cancel intent and cancel settlement of a lease are good steps.
LEMMA LeaseStep ==
    ASSUME Inv, NEW c \in Cards, Lease(c)
    PROVE  StepOK
<1> DEFINE o == latest[c]
<1>1. o \in Ordinals /\ card \in [Cards -> Card] /\ pump \in Pump
  BY DEF Inv, Typed
<1>2. latest' = latest /\ lanes' = lanes /\ card' = card /\ pump' = pump /\ fenced \subseteq fenced'
  BY DEF Lease, LeaseExpires, CancelRequested, CancelResolves
<1>3. DoneStays
  BY <1>2 DEF DoneStays
<1>4. CASE LeaseExpires(c) \/ CancelResolves(c)
  <2>1. PICK state \in {"failed", "cancelled", "timed_out"} : settleCleanup(c, o, state)
    BY <1>4 DEF LeaseExpires, CancelResolves
  <2> HIDE DEF o
  <2> QED BY <1>1, <1>2, <1>3, <2>1, CleanupStep
<1>5. CASE CancelRequested(c)
  <2>1. /\ att[c][o].lc \in Active /\ "cancel_requested" \in Active
        /\ att' = WithAttempt(c, o, [att[c][o] EXCEPT !.lc = "cancel_requested"])
    BY <1>5 DEF CancelRequested, Latest, Active
  <2>2. o = latest[c]
    OBVIOUS
  <2> HIDE DEF o
  <2>3. /\ AttemptsKept
        /\ \A d \in Cards, p \in Ordinals :
              /\ att'[d][p].lc \in {"absent", "pending"} => att[d][p].lc \in {"absent", "pending"}
              /\ att'[d][p].result = att[d][p].result
    BY <1>1, <1>2, <2>1, <2>2, LiveMove
  <2>4. Lanes'
    BY <1>2, <2>3, LanesKept
  <2>5. DoneHasEvidence'
    BY <1>2, <1>3, <2>3, DoneKept
  <2> QED BY <1>1, <1>2, <1>3, <2>3, <2>4, <2>5, StepFrom
<1> QED BY <1>4, <1>5 DEF Lease

----------------------------------------------------------------------------
(* The pass of a card.                                                     *)

\* The per-card pass that projects a verdict is a good step.
LEMMA ReconcileStep ==
    ASSUME Inv, NEW c \in Cards, ReconcileCard(c)
    PROVE  StepOK
<1> DEFINE lagging == card[c].status \in Undecided /\ Latest(c).lc \in Terminal
<1>1. card \in [Cards -> Card] /\ pump \in Pump
  BY DEF Inv, Typed
<1>2. /\ att' = att /\ latest' = latest /\ lanes' = lanes /\ fenced' = fenced
      /\ \E b : pump' = KickIf(pump, b)
  BY DEF ReconcileCard
<1>3. pump' \in Pump /\ (pump'.at = "start" <=> pump.at = "start")
      /\ pump'.card = pump.card /\ pump'.ord = pump.ord
  BY <1>1, <1>2, KickFacts
<1>4. CASE lagging
  <2>1. card' = Move(c, Undecided, Verdict(Latest(c)), latest[c]) /\ Latest(c).lc \in Terminal
    BY <1>4 DEF ReconcileCard
  <2> QED BY <1>2, <1>3, <2>1, ProjectStep
<1>5. CASE ~lagging
  <2>1. card' = card
    BY <1>5 DEF ReconcileCard
  <2> QED BY <1>1, <1>2, <1>3, <2>1, QuietStep DEF DoneStays
<1> QED BY <1>4, <1>5

\* The decision recorded with a terminal latest attempt
LEMMA DecideFacts ==
    ASSUME Inv, NEW c \in Cards, NEW o \in Ordinals, o = latest[c], att[c][o].lc \in Terminal,
           NEW decision \in {"retry", "review", "stop"},
           decision = "retry" => o < MaxAttempts
    PROVE  LET decided == WithAttempt(c, o, [att[c][o] EXCEPT !.decision = decision])
           IN  /\ decided \in [Cards -> [Ordinals -> Attempt]]
               /\ RowOK(o, decided[c][o])
               /\ decided[c][o].lc = att[c][o].lc
               /\ decided[c][o].charged = att[c][o].charged
               /\ decided[c][o].result = att[c][o].result
               /\ \A d \in Cards, p \in Ordinals : d # c \/ p # o => decided[d][p] = att[d][p]
<1> DEFINE a == [att[c][o] EXCEPT !.decision = decision]
<1>1. att \in [Cards -> [Ordinals -> Attempt]] /\ att[c][o] \in Attempt
  BY DEF Inv, Typed
<1>2. /\ a \in Attempt /\ a.lc = att[c][o].lc /\ a.charged = att[c][o].charged
      /\ a.result = att[c][o].result /\ a.reservation = att[c][o].reservation
      /\ a.decision = decision
  BY <1>1 DEF Attempt
<1>3. /\ o = 1 => att[c][o].reservation = "none"
      /\ o > 1 => att[c][o].reservation = "consumed"
  BY DEF Inv, Lineage, ReservationFollowsAttempt
<1>4. att[c][o].lc \notin Active /\ att[c][o].lc # "pending" /\ att[c][o].lc # "absent"
  BY DEF Active, Terminal
<1> HIDE DEF a
<1>5. RowOK(o, a)
  BY <1>2, <1>3, <1>4 DEF RowOK
<1>6. /\ WithAttempt(c, o, a) \in [Cards -> [Ordinals -> Attempt]]
      /\ WithAttempt(c, o, a)[c][o] = a
      /\ \A d \in Cards, p \in Ordinals : d # c \/ p # o => WithAttempt(c, o, a)[d][p] = att[d][p]
  BY ONLY <1>1, <1>2, c \in Cards, o \in Ordinals, RowFacts
<1>7. WithAttempt(c, o, [att[c][o] EXCEPT !.decision = decision]) = WithAttempt(c, o, a)
  BY DEF a
<1> DEFINE w == WithAttempt(c, o, a)
<1> HIDE DEF w
<1>8. /\ w \in [Cards -> [Ordinals -> Attempt]] /\ w[c][o] = a
      /\ \A d \in Cards, p \in Ordinals : d # c \/ p # o => w[d][p] = att[d][p]
      /\ w = WithAttempt(c, o, [att[c][o] EXCEPT !.decision = decision])
  BY <1>6, <1>7 DEF w
<1> QED BY <1>2, <1>5, <1>8

\* A decision that allocates nothing
LEMMA DecidedStep ==
    ASSUME Inv, NEW c \in Cards, NEW o \in Ordinals, o = latest[c], att[c][o].lc \in Terminal,
           NEW decision \in {"retry", "review", "stop"},
           decision = "retry" => o < MaxAttempts,
           att' = WithAttempt(c, o, [att[c][o] EXCEPT !.decision = decision]),
           latest' = latest, lanes' = lanes, fenced' = fenced,
           card' \in [Cards -> Card], DoneStays,
           \A d \in Cards : card'[d].status = "done" => card[d].status = "done",
           pump' \in Pump,
           pump'.at = "start" => pump.at = "start" /\ pump'.card = pump.card /\ pump'.ord = pump.ord
    PROVE  StepOK
<1>1. /\ att' \in [Cards -> [Ordinals -> Attempt]]
      /\ RowOK(o, att'[c][o])
      /\ att'[c][o].lc = att[c][o].lc
      /\ att'[c][o].charged = att[c][o].charged
      /\ att'[c][o].result = att[c][o].result
      /\ \A d \in Cards, p \in Ordinals : d # c \/ p # o => att'[d][p] = att[d][p]
  <2> DEFINE w == WithAttempt(c, o, [att[c][o] EXCEPT !.decision = decision])
  <2>1. /\ w \in [Cards -> [Ordinals -> Attempt]]
        /\ RowOK(o, w[c][o])
        /\ w[c][o].lc = att[c][o].lc
        /\ w[c][o].charged = att[c][o].charged
        /\ w[c][o].result = att[c][o].result
        /\ \A d \in Cards, p \in Ordinals : d # c \/ p # o => w[d][p] = att[d][p]
    BY DecideFacts, Zenon
  <2>2. att' = w
    OBVIOUS
  <2> HIDE DEF w
  <2> QED BY <2>1, <2>2
<1>2. \A d \in Cards, p \in Ordinals : RowKept(d, p)
  <2> SUFFICES ASSUME NEW d \in Cards, NEW p \in Ordinals PROVE RowKept(d, p) OBVIOUS
  <2>1. CASE d = c /\ p = o
    BY <1>1, <2>1 DEF RowKept
  <2>2. CASE d # c \/ p # o
    BY <1>1, <2>2 DEF RowKept
  <2> QED BY <2>1, <2>2
<1>3. AttemptsKept
  BY <1>1, <1>2, RowsReplaced
<1>4. \A d \in Cards, p \in Ordinals : att'[d][p].lc = att[d][p].lc /\ att'[d][p].result = att[d][p].result
  BY <1>1
<1>5. Lanes'
  BY <1>3, <1>4, LanesKept
<1>6. DoneHasEvidence'
  BY <1>3, DoneKept
<1> QED BY <1>3, <1>5, <1>6, StepFrom

\* acceptDirectiveAndAllocateTarget: the lineage grows by a pending attempt
LEMMA AllocateStep ==
    ASSUME Inv, NEW c \in Cards, NEW o \in Ordinals, o = latest[c], att[c][o].lc \in Terminal,
           o < MaxAttempts, card[c].status = "failed", NEW backoff,
           AllocateTarget(c, WithAttempt(c, o, [att[c][o] EXCEPT !.decision = "retry"]), backoff),
           pump' = pump, lanes' = lanes, fenced' = fenced
    PROVE  StepOK
<1> DEFINE w == WithAttempt(c, o, [att[c][o] EXCEPT !.decision = "retry"])
           n == o + 1
           fresh == [NewAttempt EXCEPT !.reservation = "active"]
<1>1. /\ w \in [Cards -> [Ordinals -> Attempt]]
      /\ RowOK(o, w[c][o])
      /\ w[c][o].lc = att[c][o].lc
      /\ w[c][o].charged = att[c][o].charged
      /\ w[c][o].result = att[c][o].result
      /\ \A d \in Cards, p \in Ordinals : d # c \/ p # o => w[d][p] = att[d][p]
  <2> DEFINE retry == "retry"
  <2>1. retry \in {"retry", "review", "stop"} OBVIOUS
  <2> QED BY <2>1, DecideFacts, Zenon
<1>2. /\ att' = [w EXCEPT ![c][n] = fresh]
      /\ latest' = [latest EXCEPT ![c] = n]
      /\ card' = [card EXCEPT ![c].status = "queued", ![c].by = 0, ![c].held = FALSE]
  BY DEF AllocateTarget
<1>3. n \in Ordinals /\ n > 1 /\ o \in Nat
  BY OrdinalFacts, SwarmAssumption DEF Ordinals, SwarmAssumption
<1>4. /\ fresh \in Attempt /\ fresh.lc = "pending" /\ fresh.reservation = "active"
      /\ fresh.result = "none" /\ fresh.decision = "none"
  BY DEF NewAttempt, NoAttempt, Attempt, Lifecycles
<1>5. card \in [Cards -> Card] /\ latest \in [Cards -> Ordinals] /\ pump \in Pump
  BY DEF Inv, Typed
<1> HIDE DEF w, n, fresh
<1>6. /\ att' \in [Cards -> [Ordinals -> Attempt]]
      /\ att'[c][n] = fresh
      /\ \A d \in Cards, p \in Ordinals : d # c \/ p # n => att'[d][p] = w[d][p]
  BY ONLY <1>1, <1>2, <1>3, <1>4, c \in Cards
<1>7. latest' \in [Cards -> Ordinals] /\ latest'[c] = n /\ \A d \in Cards : d # c => latest'[d] = latest[d]
  BY <1>2, <1>3, <1>5
<1>8. n = o + 1 BY DEF n
<1>9. OneLiveAttempt'
  <2> SUFFICES ASSUME NEW d \in Cards, NEW p \in Ordinals
               PROVE  /\ p < latest'[d] => att'[d][p].lc \in Terminal
                      /\ p = latest'[d] => att'[d][p].lc # "absent"
                      /\ p > latest'[d] => att'[d][p] = NoAttempt
    BY DEF OneLiveAttempt, NoAttempt
  <2>1. /\ p < latest[d] => att[d][p].lc \in Terminal
        /\ p = latest[d] => att[d][p].lc # "absent"
        /\ p > latest[d] => att[d][p] = NoAttempt
    BY DEF Inv, Lineage, OneLiveAttempt
  <2>2. p \in Nat
    BY OrdinalFacts
  <2>3. CASE d # c
    BY <1>1, <1>6, <1>7, <2>1, <2>3
  <2>4. CASE d = c /\ p = n
    BY <1>4, <1>6, <1>7, <1>3, <2>2, <2>4
  <2>5. CASE d = c /\ p = o
    BY <1>1, <1>3, <1>6, <1>7, <1>8, <2>5
  <2>6. CASE d = c /\ p # n /\ p # o
    <3>1. att'[d][p] = att[d][p] /\ latest'[d] = n /\ latest[d] = o
      BY <1>1, <1>6, <1>7, <2>6
    <3>2. (p < n => p < o) /\ (p > n => p > o)
      BY <1>3, <1>8, <2>2, <2>6
    <3> QED BY <2>1, <2>6, <3>1, <3>2
  <2> QED BY <2>3, <2>4, <2>5, <2>6
<1>10. \A d \in Cards, p \in Ordinals :
          \/ att'[d][p] = att[d][p]
          \/ d = c /\ p = o /\ RowOK(o, att'[c][o]) /\ o # n
          \/ d = c /\ p = n /\ att'[c][n] = fresh
  BY <1>1, <1>3, <1>6, <1>8
<1>11. ReservationFollowsAttempt'
  <2> SUFFICES ASSUME NEW d \in Cards, NEW p \in Ordinals
               PROVE  /\ p = 1 \/ att'[d][p].lc = "absent" => att'[d][p].reservation = "none"
                      /\ p > 1 /\ att'[d][p].lc = "pending" => att'[d][p].reservation = "active"
                      /\ p > 1 /\ att'[d][p].lc \in Active => att'[d][p].reservation = "claimed"
                      /\ p > 1 /\ att'[d][p].lc \in Terminal => att'[d][p].reservation = "consumed"
    BY DEF ReservationFollowsAttempt
  <2>1. CASE att'[d][p] = att[d][p]
    BY <2>1 DEF Inv, Lineage, ReservationFollowsAttempt
  <2>2. CASE d = c /\ p = o /\ RowOK(o, att'[c][o])
    BY <2>2 DEF RowOK
  <2>3. CASE d = c /\ p = n /\ att'[c][n] = fresh
    BY <1>3, <1>4, <2>3 DEF Active, Terminal
  <2> QED BY <1>10, <2>1, <2>2, <2>3
<1>12. RetryRoom' /\ ResultIsTerminal'
  <2> SUFFICES ASSUME NEW d \in Cards, NEW p \in Ordinals
               PROVE  /\ att'[d][p].decision = "retry" => p < MaxAttempts
                      /\ att'[d][p].result # "none" => att'[d][p].lc \in Terminal
    BY DEF RetryRoom, ResultIsTerminal
  <2> QED BY <1>4, <1>10 DEF RowOK, Inv, Lineage, RetryRoom, ResultIsTerminal
<1>13. att[c][n].lc = "absent" /\ att[c][n].result = "none"
  <2>1. n > latest[c]
    BY <1>3, <1>8
  <2> QED BY <1>3, <2>1 DEF Inv, Lineage, OneLiveAttempt, NoAttempt
<1>14. \A d \in Cards, p \in Ordinals :
          /\ att[d][p].lc \in Terminal => /\ att'[d][p].lc = att[d][p].lc
                                          /\ att'[d][p].charged = att[d][p].charged
                                          /\ att'[d][p].result = att[d][p].result
          /\ att'[d][p].lc \in {"absent", "pending"} => att[d][p].lc \in {"absent", "pending"}
          /\ att'[d][p].result = "accepted" => att[d][p].result = "accepted"
  <2> SUFFICES ASSUME NEW d \in Cards, NEW p \in Ordinals
               PROVE  /\ att[d][p].lc \in Terminal => /\ att'[d][p].lc = att[d][p].lc
                                                      /\ att'[d][p].charged = att[d][p].charged
                                                      /\ att'[d][p].result = att[d][p].result
                      /\ att'[d][p].lc \in {"absent", "pending"} => att[d][p].lc \in {"absent", "pending"}
                      /\ att'[d][p].result = "accepted" => att[d][p].result = "accepted"
    OBVIOUS
  <2>1. CASE d = c /\ p = n
    BY <1>4, <1>6, <1>13, <2>1 DEF Terminal
  <2>2. CASE d = c /\ p = o
    BY <1>1, <1>3, <1>6, <1>8, <2>2
  <2>3. CASE d # c \/ (p # n /\ p # o)
    BY <1>1, <1>6, <2>3
  <2> QED BY <2>1, <2>2, <2>3
<1>15. AttemptsKept
  BY <1>6, <1>7, <1>9, <1>11, <1>12, <1>14 DEF AttemptsKept, Lineage, TerminalKept
<1>16. card' \in [Cards -> Card] /\ card'[c].status = "queued" /\ \A d \in Cards : d # c => card'[d] = card[d]
  <2> DEFINE k == [card[c] EXCEPT !.status = "queued", !.by = 0, !.held = FALSE]
  <2>1. card' = [card EXCEPT ![c] = k]
    BY <1>2, <1>5 DEF Card
  <2>2. k \in Card /\ k.status = "queued"
    BY <1>5 DEF Card, CardStatus
  <2> HIDE DEF k
  <2> QED BY <1>5, <2>1, <2>2
<1>17. Lanes'
  BY <1>14, <1>15, LanesKept
<1>18. DoneStays
  BY <1>16 DEF DoneStays
<1>19. DoneHasEvidence'
  BY <1>7, <1>15, <1>16, <1>18, DoneKept
<1> QED BY <1>5, <1>15, <1>16, <1>17, <1>18, <1>19, StepFrom

\* Deciding and allocating a retry is a good step.
LEMMA RetryStep ==
    ASSUME Inv, NEW c \in Cards, NEW decision \in {"retry", "review", "stop"}, NEW backoff \in BOOLEAN,
           handleSupervisedRetry(c, decision, backoff)
    PROVE  StepOK
<1> DEFINE o == latest[c]
           decided == WithAttempt(c, o, [att[c][o] EXCEPT !.decision = decision])
<1>1. o \in Ordinals /\ card \in [Cards -> Card] /\ pump \in Pump /\ latest \in [Cards -> Ordinals]
  BY DEF Inv, Typed
<1>2. /\ card[c].status = "failed" /\ att[c][o].lc \in Terminal
      /\ decision \in Decisions(c)
      /\ lanes' = lanes /\ fenced' = fenced
  BY DEF handleSupervisedRetry, Retryable, Latest, Terminal
<1>3. decision = "retry" => o < MaxAttempts
  <2>1. CASE Latest(c).decision # "none"
    <3>1. decision = att[c][o].decision
      BY <1>2, <2>1 DEF Decisions, Latest
    <3> QED BY <1>1, <3>1 DEF Inv, Lineage, RetryRoom
  <2>2. CASE Latest(c).decision = "none"
    <3>1. o \in Nat /\ MaxAttempts \in Nat
      BY <1>1, OrdinalFacts, SwarmAssumption DEF SwarmAssumption
    <3> QED BY <1>2, <2>2, <3>1 DEF Decisions
  <2> QED BY <2>1, <2>2
<1>4. \/ /\ decision = "retry"
         /\ AllocateTarget(c, decided, backoff) /\ pump' = pump
      \/ /\ att' = decided /\ latest' = latest
         /\ cascadeFail(c)
      \/ /\ att' = decided /\ latest' = latest
         /\ card' = card /\ pump' = pump
  BY DEF handleSupervisedRetry, Latest
<1>5. o = latest[c]
  OBVIOUS
<1> HIDE DEF o
<1>6. CASE decision = "retry" /\ AllocateTarget(c, decided, backoff) /\ pump' = pump
  <2>1. AllocateTarget(c, WithAttempt(c, o, [att[c][o] EXCEPT !.decision = "retry"]), backoff)
    BY <1>6
  <2> HIDE DEF decided
  <2> QED BY <1>1, <1>2, <1>3, <1>5, <1>6, <2>1, AllocateStep
<1>7. CASE att' = decided /\ latest' = latest /\ cascadeFail(c)
  <2> DEFINE hit == Dependents(c)
  <2>1. hit \subseteq {d \in Cards : card[d].status = "queued"}
    BY DEF Dependents
  <2>2. /\ card' = [d \in Cards |-> IF d \in hit THEN [card[d] EXCEPT !.status = "failed", !.by = 0]
                                    ELSE card[d]]
        /\ pump' = KickIf(pump, hit # {})
    BY <1>7 DEF cascadeFail
  <2> HIDE DEF hit
  <2>3. \A d \in Cards : /\ [card[d] EXCEPT !.status = "failed", !.by = 0] \in Card
                         /\ [card[d] EXCEPT !.status = "failed", !.by = 0].status = "failed"
    BY <1>1 DEF Card, CardStatus
  <2>4. \A d \in Cards : card'[d] \in Card /\ (card'[d] = card[d] \/ (d \in hit /\ card'[d].status = "failed"))
    BY <1>1, <2>2, <2>3
  <2>5. /\ card' \in [Cards -> Card]
        /\ DoneStays
        /\ \A d \in Cards : card'[d].status = "done" => card[d].status = "done"
    BY <2>1, <2>2, <2>4 DEF DoneStays
  <2>6. pump' \in Pump /\ (pump'.at = "start" <=> pump.at = "start")
        /\ pump'.card = pump.card /\ pump'.ord = pump.ord
    BY <1>1, <2>2, KickFacts
  <2> QED BY <1>1, <1>2, <1>3, <1>5, <1>7, <2>5, <2>6, DecidedStep
<1>8. CASE att' = decided /\ latest' = latest /\ card' = card /\ pump' = pump
  BY <1>1, <1>2, <1>3, <1>5, <1>8, DecidedStep DEF DoneStays
<1> QED BY <1>4, <1>6, <1>7, <1>8

----------------------------------------------------------------------------
(* Time, the project and restarts.                                         *)

\* A backoff or a deferral that elapses is a good step.
LEMMA ClockStep ==
    ASSUME Inv, NEW c \in Cards, BackoffElapses(c) \/ HoldElapses(c)
    PROVE  StepOK
<1>1. card \in [Cards -> Card] /\ pump \in Pump
  BY DEF Inv, Typed
<1>2. /\ att' = att /\ latest' = latest /\ lanes' = lanes /\ fenced' = fenced /\ pump' = pump
      /\ card' = card \/ card' = [card EXCEPT ![c].held = FALSE]
  BY DEF BackoffElapses, HoldElapses
<1>3. card' \in [Cards -> Card] /\ \A d \in Cards : card'[d].status = card[d].status
  <2> DEFINE k == [card[c] EXCEPT !.held = FALSE]
  <2>1. k \in Card /\ k.status = card[c].status
    BY <1>1 DEF Card
  <2>2. card' = card \/ card' = [card EXCEPT ![c] = k]
    BY <1>1, <1>2 DEF Card
  <2> HIDE DEF k
  <2> QED BY <1>1, <2>1, <2>2
<1> QED BY <1>1, <1>2, <1>3, QuietStep DEF DoneStays

\* A supervision transition of the root, or the end of its time, is a good step.
LEMMA RootStep ==
    ASSUME Inv, NEW to, RootMoves(to) \/ RootDeadlinePasses
    PROVE  StepOK
<1>1. card \in [Cards -> Card] /\ pump \in Pump
  BY DEF Inv, Typed
<1> QED BY <1>1, QuietStep DEF RootMoves, RootDeadlinePasses, DoneStays

\* So is a step that changes nothing.
LEMMA StutterStep ==
    ASSUME Inv, UNCHANGED vars
    PROVE  StepOK
<1>1. card \in [Cards -> Card] /\ pump \in Pump
  BY DEF Inv, Typed
<1> QED BY <1>1, QuietStep DEF vars, DoneStays

\* The pump of a fresh process is well-typed.
LEMMA NewPumpType == NewPump \in Pump /\ NewPump.at = "ready"
<1>1. (CHOOSE c \in Cards : TRUE) \in Cards
  BY SwarmAssumption DEF SwarmAssumption
<1> QED BY <1>1, OrdinalFacts DEF NewPump, Pump

\* The attempts of one card after a settlement
LEMMA SettledRow ==
    ASSUME Inv, NEW c \in Cards, NEW o \in Ordinals, o = latest[c],
           att[c][o].lc \in Active \cup {"pending"},
           NEW state \in Terminal, NEW usage \in Usages \cup {NoUsage},
           NEW result \in {"none", "accepted", "unmet"}
    PROVE  /\ Settled(c, o, state, usage, result)[c] \in [Ordinals -> Attempt]
           /\ RowOK(o, Settled(c, o, state, usage, result)[c][o])
           /\ \A p \in Ordinals : p # o => Settled(c, o, state, usage, result)[c][p] = att[c][p]
<1>1. PICK a \in Attempt :
              /\ Settled(c, o, state, usage, result) = WithAttempt(c, o, a)
              /\ RowOK(o, a)
              /\ a.lc = state
              /\ a.result = IF state = "completed" \/ result # "none" THEN result ELSE "absence"
  BY SettledFacts
<1>2. att \in [Cards -> [Ordinals -> Attempt]]
  BY DEF Inv, Typed
<1>3. /\ WithAttempt(c, o, a) \in [Cards -> [Ordinals -> Attempt]]
      /\ WithAttempt(c, o, a)[c][o] = a
      /\ \A d \in Cards, p \in Ordinals : d # c \/ p # o => WithAttempt(c, o, a)[d][p] = att[d][p]
  BY ONLY <1>2, a \in Attempt, c \in Cards, o \in Ordinals, RowFacts
<1> DEFINE w == WithAttempt(c, o, a)
<1>4. /\ w \in [Cards -> [Ordinals -> Attempt]] /\ w[c][o] = a
      /\ \A p \in Ordinals : p # o => w[c][p] = att[c][p]
  BY <1>3
<1>5. w = Settled(c, o, state, usage, result)
  BY <1>1
<1> HIDE DEF w
<1> QED BY <1>1, <1>4, <1>5

\* runAttemptRecovery: the attempts of one card after a restart
LEMMA RecoveryFacts ==
    ASSUME Inv, NEW c \in Cards, Lost(c)
    PROVE  LET row == Settled(c, latest[c], "timed_out", NoUsage, "none")[c]
           IN  /\ row \in [Ordinals -> Attempt]
               /\ RowOK(latest[c], row[latest[c]])
               /\ att[c][latest[c]].lc \notin Terminal
               /\ \A p \in Ordinals : p # latest[c] => row[p] = att[c][p]
<1>1. latest[c] \in Ordinals
  BY DEF Inv, Typed
<1>2. att[c][latest[c]].lc \in Active \cup {"pending"} /\ att[c][latest[c]].lc \notin Terminal
  BY DEF Lost, Latest, Active, Terminal
<1>3. "timed_out" \in Terminal /\ NoUsage \in Usages \cup {NoUsage} /\ "none" \in {"none", "accepted", "unmet"}
  BY DEF Terminal
<1> QED BY <1>1, <1>2, <1>3, SettledRow

\* A restart of the bridge with its recovery is a good step.
LEMMA CrashStep ==
    ASSUME Inv, Crash
    PROVE  StepOK
<1> DEFINE row(c) == Settled(c, latest[c], "timed_out", NoUsage, "none")[c]
           failed == {c \in Cards : Lost(c) /\ CanMove(c, Undecided)}
           k(c) == [card[c] EXCEPT !.status = "failed", !.by = latest[c]]
<1>1. /\ card \in [Cards -> Card] /\ latest \in [Cards -> Ordinals]
      /\ att \in [Cards -> [Ordinals -> Attempt]]
  BY DEF Inv, Typed
<1>2. /\ att' = [c \in Cards |-> IF Lost(c) THEN row(c) ELSE att[c]]
      /\ card' = [c \in Cards |-> IF c \in failed THEN k(c) ELSE card[c]]
      /\ pump' = NewPump /\ lanes' = {} /\ latest' = latest
  BY DEF Crash
<1>3. \A c \in Cards : Lost(c) =>
         /\ row(c) \in [Ordinals -> Attempt]
         /\ RowOK(latest[c], row(c)[latest[c]])
         /\ att[c][latest[c]].lc \notin Terminal
         /\ \A p \in Ordinals : p # latest[c] => row(c)[p] = att[c][p]
  BY RecoveryFacts, Zenon
<1>4. \A c \in Cards : k(c) \in Card /\ k(c).status = "failed"
  <2> SUFFICES ASSUME NEW c \in Cards PROVE k(c) \in Card /\ k(c).status = "failed" OBVIOUS
  <2>1. latest[c] \in {0} \cup Ordinals /\ card[c] \in Card
    BY <1>1
  <2> QED BY <2>1 DEF Card, CardStatus
<1>5. \A c \in failed : card[c].status # "done"
  BY DEF CanMove, Undecided
<1> HIDE DEF row, k, failed
<1>6. att' \in [Cards -> [Ordinals -> Attempt]]
  BY <1>1, <1>2, <1>3
<1>7. \A d \in Cards, p \in Ordinals : RowKept(d, p)
  <2> SUFFICES ASSUME NEW d \in Cards, NEW p \in Ordinals PROVE RowKept(d, p) OBVIOUS
  <2>1. CASE Lost(d) /\ p = latest[d]
    <3>1. att'[d] = row(d)
      BY <1>2, <2>1
    <3> QED BY <1>3, <2>1, <3>1 DEF RowKept
  <2>2. CASE ~(Lost(d) /\ p = latest[d])
    BY <1>2, <1>3, <2>2 DEF RowKept
  <2> QED BY <2>1, <2>2
<1>8. AttemptsKept
  BY <1>2, <1>6, <1>7, RowsReplaced
<1>9. pump' \in Pump /\ pump'.at # "start"
  BY <1>2, NewPumpType
<1>10. Lanes'
  BY <1>2, <1>9 DEF Lanes, UnclaimedHasNoLane, FreshStart, EvidenceFenced
<1>11. /\ card' \in [Cards -> Card]
       /\ DoneStays
       /\ \A c \in Cards : card'[c].status = "done" => card[c].status = "done"
  <2>1. \A c \in Cards : card'[c] \in Card /\ (card'[c] = card[c] \/ (c \in failed /\ card'[c].status = "failed"))
    BY <1>1, <1>2, <1>4
  <2> QED BY <1>2, <1>5, <2>1 DEF DoneStays
<1>12. DoneHasEvidence'
  BY <1>2, <1>8, <1>11, DoneKept
<1> QED BY <1>8, <1>9, <1>10, <1>11, <1>12, StepFrom

----------------------------------------------------------------------------
(* The theorems.                                                           *)

\* The initial states satisfy the inductive invariant.
LEMMA InitInv == Init => Inv
<1> SUFFICES ASSUME Init PROVE Inv OBVIOUS
<1>1. card \in [Cards -> Card] /\ \A c \in Cards : card[c].status = "queued"
  BY DEF Init, Card, CardStatus
<1>2. NewAttempt \in Attempt /\ NoAttempt \in Attempt
  BY DEF NewAttempt, NoAttempt, Attempt, Lifecycles
<1>3. att \in [Cards -> [Ordinals -> Attempt]]
  BY <1>2 DEF Init
<1>4. latest \in [Cards -> Ordinals] /\ \A c \in Cards : latest[c] = 1
  BY OrdinalFacts DEF Init
<1>5. Typed
  BY <1>1, <1>3, <1>4, NewPumpType DEF Typed, Init
<1>6. \A c \in Cards, o \in Ordinals : att[c][o] = IF o = 1 THEN NewAttempt ELSE NoAttempt
  BY DEF Init
<1>7. /\ NewAttempt.lc = "pending" /\ NewAttempt.reservation = "none"
      /\ NewAttempt.result = "none" /\ NewAttempt.decision = "none"
      /\ NoAttempt.lc = "absent" /\ NoAttempt.reservation = "none"
      /\ NoAttempt.result = "none" /\ NoAttempt.decision = "none"
  BY DEF NewAttempt, NoAttempt
<1>8. OneLiveAttempt
  BY <1>4, <1>6, <1>7, OrdinalFacts DEF OneLiveAttempt
<1>9. ReservationFollowsAttempt /\ RetryRoom /\ ResultIsTerminal
  BY <1>6, <1>7 DEF ReservationFollowsAttempt, RetryRoom, ResultIsTerminal, Active, Terminal
<1>10. Lanes
  BY NewPumpType DEF Init, Lanes, UnclaimedHasNoLane, FreshStart, EvidenceFenced
<1>11. DoneHasEvidence
  BY <1>1 DEF DoneHasEvidence
<1> QED BY <1>5, <1>8, <1>9, <1>10, <1>11 DEF Inv, Lineage

\* Every step of the swarm is a good step.
LEMMA NextStep == Inv /\ [Next]_vars => StepOK
<1> SUFFICES ASSUME Inv, [Next]_vars PROVE StepOK OBVIOUS
<1>1. CASE PumpStep
  BY <1>1, PassStep, VisitStep, CapacityStep, StartSucceedsStep, StartFailsStep, DeferStep DEF PumpStep
<1>2. CASE ResourceReleased
  BY <1>2, PassStep
<1>3. ASSUME NEW c \in Cards, Reconcile(c) \/ Lease(c) \/ BackoffElapses(c) \/ HoldElapses(c)
      PROVE  StepOK
  BY <1>3, ReconcileStep, RetryStep, LeaseStep, ClockStep DEF Reconcile
<1>4. ASSUME NEW c \in Cards, NEW o \in Ordinals, Executor(c, o) \/ LaneCloses(c, o)
      PROVE  StepOK
  BY <1>4, FinishStep, UnreadStep, FailStep, CloseStep DEF Executor
<1>5. ASSUME NEW to \in {"executing", "reviewing", "terminal"}, RootMoves(to) \/ RootDeadlinePasses
      PROVE  StepOK
  BY <1>5, RootStep
<1>6. CASE Crash
  BY <1>6, CrashStep
<1>7. CASE UNCHANGED vars
  BY <1>7, StutterStep
<1> QED BY <1>1, <1>2, <1>3, <1>4, <1>5, <1>6, <1>7 DEF Next

\* The inductive invariant holds of every reachable state.
LEMMA SpecInv == Spec => []Inv
<1>1. Inv /\ [Next]_vars => Inv'
  BY NextStep DEF StepOK
<1> QED BY InitInv, <1>1, PTL DEF Spec

\* At any time a card has at most one attempt that is not terminal, its latest one,
\* for any number of cards, retries, restarts and lease expiries (worker_attempts).
THEOREM OneLiveAttemptHolds == Spec => []OneLiveAttempt
<1>1. Inv => OneLiveAttempt
  BY DEF Inv, Lineage
<1> QED BY SpecInv, <1>1, PTL

\* The retry reservation of an attempt is held exactly while the attempt is alive
\* (claimAttemptWithinLimits, deferClaimAfterProvenNoStart, settleAttemptInTransaction).
THEOREM ReservationFollowsAttemptHolds == Spec => []ReservationFollowsAttempt
<1>1. Inv => ReservationFollowsAttempt
  BY DEF Inv, Lineage
<1> QED BY SpecInv, <1>1, PTL

\* A card is done only with accepted evidence of its latest attempt, however
\* finishSpin, failSpin, the reconciler and restarts interleave.
THEOREM DoneHasEvidenceHolds == Spec => []DoneHasEvidence
<1>1. Inv => DoneHasEvidence
  BY DEF Inv
<1> QED BY SpecInv, <1>1, PTL

\* Verdict, evidence and charge of a terminal attempt never change
\* (settleAttemptInTransaction).
THEOREM TerminalIsFinalHolds == Spec => TerminalIsFinal
<1>1. Inv /\ [Next]_vars =>
         [\A c \in Cards, o \in Ordinals :
             att[c][o].lc \in Terminal =>
                 /\ att'[c][o].lc = att[c][o].lc
                 /\ att'[c][o].charged = att[c][o].charged
                 /\ att'[c][o].result = att[c][o].result]_vars
  BY NextStep DEF StepOK, TerminalKept
<1> QED BY SpecInv, <1>1, PTL DEF Spec, TerminalIsFinal

\* A done card stays done, although kanbanFail and kanbanRetryOrFail accept one.
THEOREM DoneIsFinalHolds == Spec => DoneIsFinal
<1>1. Inv /\ [Next]_vars =>
         [\A c \in Cards : card[c].status = "done" => card'[c].status = "done"]_vars
  BY NextStep DEF StepOK, DoneStays
<1> QED BY SpecInv, <1>1, PTL DEF Spec, DoneIsFinal

====
