--------------------- MODULE WorkerSwarmCapacityProofs ---------------------
(***************************************************************************)
(* What the worker children of a project share, for every set of cards,    *)
(* dependency graph, capacity and budget: the slots of the executor, the   *)
(* token budget and the order of the dependency graph.  The proofs rest on *)
(* the lineage invariant of WorkerSwarmProofs.                             *)
(***************************************************************************)
EXTENDS WorkerSwarmProofs, NumberTheorems

\* No card of a running attempt, and none the pump is about to claim, waits for another
ClaimedUnblocked ==
    /\ \A c \in Cards, o \in Ordinals : att[c][o].lc \in Active => isUnblocked(c)
    /\ \A c \in Cards : pump.at = "capacity" /\ pump.card = c => isUnblocked(c)

\* Room for the starts of this pass that are left
StartingNow == IF pump.at = "start" THEN 1 ELSE 0
Room ==
    /\ slot \in [Cards -> {0} \cup Ordinals]
    /\ Cardinality(Occupied) <= ExecutorMax
    /\ pump.at = "start" => pump.avail # -1
    /\ pump.avail # -1 => pump.avail + Cardinality(Occupied) + StartingNow <= ExecutorMax

\* While the pump starts an attempt no other attempt of its card is active
StartIsAlone ==
    pump.at = "start" =>
        \A o \in Ordinals : o # pump.ord => att[pump.card][o].lc \notin Active

\* Only a claim reserves tokens, and only a settlement charges them
Booked ==
    /\ used \in Nat
    /\ \A c \in Cards, o \in Ordinals :
          /\ att[c][o].lc \in {"absent", "pending"} => att[c][o].reserved = 0
          /\ att[c][o].lc \notin Terminal => att[c][o].charged = 0

Shared ==
    /\ lanes \subseteq Cards \X Ordinals
    /\ ClaimedUnblocked /\ Room /\ StartIsAlone /\ RunningHoldsSlot
    /\ Booked /\ BudgetHeld

----------------------------------------------------------------------------
(* What a step does to the attempts, as far as the shared resources tell.  *)

\* A row is as active, as final and as expensive as before
Stays(c, o) ==
    /\ att'[c][o].reserved = att[c][o].reserved
    /\ att'[c][o].charged = att[c][o].charged
    /\ att'[c][o].lc \in Active <=> att[c][o].lc \in Active
    /\ att'[c][o].lc \in Terminal <=> att[c][o].lc \in Terminal

OthersStay(c, o) == \A d \in Cards, p \in Ordinals : d # c \/ p # o => Stays(d, p)

NothingBooked == used' = used /\ \A c \in Cards, o \in Ordinals : Stays(c, o)

\* An attempt in play becomes terminal and is charged
SettlesRow(c, o) ==
    /\ OthersStay(c, o)
    /\ att[c][o].lc \in Active \cup {"pending"}
    /\ att'[c][o].lc \in Terminal
    /\ att'[c][o].reserved = att[c][o].reserved
    /\ used' = used + att'[c][o].charged

\* A pending attempt is claimed within the budget
ClaimsRow(c, o) ==
    /\ OthersStay(c, o)
    /\ att[c][o].lc = "pending"
    /\ att'[c][o].lc = "starting"
    /\ att'[c][o].reserved = ReservedFor(c)
    /\ att'[c][o].charged = att[c][o].charged
    /\ WithinBudget(c)
    /\ used' = used

\* A claim is given back before anything ran
DefersRow(c, o) ==
    /\ OthersStay(c, o)
    /\ att[c][o].lc \in Active
    /\ att'[c][o].lc = "pending"
    /\ att'[c][o].reserved = 0
    /\ att'[c][o].charged = att[c][o].charged
    /\ used' = used

\* Steps that claim nothing
NoClaim == NothingBooked \/ \E c \in Cards, o \in Ordinals : SettlesRow(c, o) \/ DefersRow(c, o)

----------------------------------------------------------------------------
(* The budget.                                                             *)

Rows == Cards \X Ordinals
HeldOf == [a \in Rows |-> Held(a[1], a[2])]
OverrunOf == [a \in Rows |-> Overrun(a[1], a[2])]
Overruns == SumFunctionOnSet(OverrunOf, Rows)

\* There are finitely many rows.
LEMMA RowsFinite == IsFiniteSet(Rows)
<1>1. IsFiniteSet(Ordinals) BY SwarmAssumption, FS_Interval DEF SwarmAssumption, Ordinals
<1> QED BY <1>1, SwarmAssumption, FS_Product DEF SwarmAssumption, Rows

\* What the sums of the budget are made of
BudgetFacts ==
    /\ \A c \in Cards, o \in Ordinals :
          /\ Held(c, o) \in Nat /\ Overrun(c, o) \in Nat
          /\ HeldOf[<<c, o>>] = Held(c, o) /\ OverrunOf[<<c, o>>] = Overrun(c, o)
    /\ \A a \in Rows : HeldOf[a] \in Nat /\ OverrunOf[a] \in Nat
    /\ ActiveReserved = SumFunctionOnSet(HeldOf, Rows) /\ ActiveReserved \in Nat
    /\ Overruns \in Nat
    /\ BudgetHeld <=> (Cap # NoCap => used + ActiveReserved <= Cap + Overruns)

\* The budget is a comparison of sums of natural numbers over the rows.
LEMMA BudgetSums == Typed => BudgetFacts
<1> SUFFICES ASSUME Typed PROVE BudgetFacts OBVIOUS
<1>1. \A c \in Cards, o \in Ordinals : att[c][o].reserved \in Nat /\ att[c][o].charged \in Nat
  BY DEF Typed, Attempt
<1>2. \A c \in Cards, o \in Ordinals : Held(c, o) \in Nat /\ Overrun(c, o) \in Nat
  BY <1>1 DEF Held, Overrun
<1>3. /\ \A c \in Cards, o \in Ordinals :
            HeldOf[<<c, o>>] = Held(c, o) /\ OverrunOf[<<c, o>>] = Overrun(c, o)
      /\ \A a \in Rows : HeldOf[a] \in Nat /\ OverrunOf[a] \in Nat
  BY <1>2 DEF HeldOf, OverrunOf, Rows
<1>4. ActiveReserved = SumFunctionOnSet(HeldOf, Rows) BY DEF ActiveReserved, SumFunction, HeldOf, Rows
<1>5. SumFunctionOnSet(HeldOf, Rows) \in Nat /\ Overruns \in Nat
  <2>1. Rows \in SUBSET Rows OBVIOUS
  <2> QED BY <1>3, <2>1, RowsFinite, SumType DEF Overruns
<1>6. SumFunction([a \in Cards \X Ordinals |-> Overrun(a[1], a[2])]) = Overruns
  BY DEF SumFunction, OverrunOf, Overruns, Rows
<1> QED BY <1>2, <1>3, <1>4, <1>5, <1>6 DEF BudgetFacts, BudgetHeld

\* The same holds after a step.
LEMMA BudgetSumsNext == Typed' => BudgetFacts'
BY BudgetSums, PTL

\* What a row holds and overran depends on what stays.
LEMMA StaysFacts ==
    ASSUME NEW c \in Cards, NEW o \in Ordinals, Stays(c, o)
    PROVE  Held(c, o)' = Held(c, o) /\ Overrun(c, o)' = Overrun(c, o)
BY DEF Stays, Held, Overrun

\* When one row changes the sums change by what it held and overran.
LEMMA OneRow ==
    ASSUME Typed, Typed', NEW c \in Cards, NEW o \in Ordinals, OthersStay(c, o)
    PROVE  /\ ActiveReserved' = ActiveReserved - Held(c, o) + Held(c, o)'
           /\ Overruns' = Overruns - Overrun(c, o) + Overrun(c, o)'
<1>1. BudgetFacts /\ BudgetFacts' BY BudgetSums, BudgetSumsNext
<1> DEFINE h == HeldOf
           g == HeldOf'
           v == OverrunOf
           w == OverrunOf'
           x == <<c, o>>
<1>2. x \in Rows BY DEF Rows
<1>3. /\ \A y \in Rows : h[y] \in Nat /\ v[y] \in Nat
      /\ g[x] \in Nat /\ w[x] \in Nat
      /\ h[x] = Held(c, o) /\ v[x] = Overrun(c, o)
      /\ g[x] = Held(c, o)' /\ w[x] = Overrun(c, o)'
  BY <1>1, <1>2 DEF BudgetFacts
<1>4. \A y \in Rows : y # x => g[y] = h[y] /\ w[y] = v[y]
  <2> SUFFICES ASSUME NEW d \in Cards, NEW p \in Ordinals, <<d, p>> # x
               PROVE  g[<<d, p>>] = h[<<d, p>>] /\ w[<<d, p>>] = v[<<d, p>>]
    BY DEF Rows
  <2>1. Stays(d, p) BY DEF OthersStay
  <2>2. Held(d, p)' = Held(d, p) /\ Overrun(d, p)' = Overrun(d, p) BY <2>1, StaysFacts
  <2> QED BY <1>1, <2>2 DEF BudgetFacts
<1>5. /\ ActiveReserved = SumFunctionOnSet(h, Rows) /\ ActiveReserved' = SumFunctionOnSet(g, Rows)
      /\ Overruns = SumFunctionOnSet(v, Rows) /\ Overruns' = SumFunctionOnSet(w, Rows)
  BY <1>1 DEF BudgetFacts, Overruns
<1> HIDE DEF h, g, v, w, x
<1>6. SumFunctionOnSet(g, Rows) = SumFunctionOnSet(h, Rows) - h[x] + g[x]
  BY <1>2, <1>3, <1>4, RowsFinite, SumChange
<1>7. SumFunctionOnSet(w, Rows) = SumFunctionOnSet(v, Rows) - v[x] + w[x]
  BY <1>2, <1>3, <1>4, RowsFinite, SumChange
<1> QED BY <1>3, <1>5, <1>6, <1>7

\* The amounts of a row of the swarm, before and after a step.
LEMMA RowNumbers ==
    ASSUME Typed, Typed', NEW c \in Cards, NEW o \in Ordinals
    PROVE  /\ att[c][o].reserved \in Nat /\ att[c][o].charged \in Nat /\ att[c][o].lc \in Lifecycles
           /\ att'[c][o].reserved \in Nat /\ att'[c][o].charged \in Nat /\ att'[c][o].lc \in Lifecycles
BY DEF Typed, Attempt

\* When one row changes the books stay in order if that row does.
LEMMA BookedRow ==
    ASSUME Typed, Typed', Booked, NEW c \in Cards, NEW o \in Ordinals, OthersStay(c, o), used' \in Nat,
           att'[c][o].lc \in {"absent", "pending"} => att'[c][o].reserved = 0,
           att'[c][o].lc \notin Terminal => att'[c][o].charged = 0
    PROVE  Booked'
<1>1. ASSUME NEW d \in Cards, NEW p \in Ordinals
      PROVE  /\ att'[d][p].lc \in {"absent", "pending"} => att'[d][p].reserved = 0
             /\ att'[d][p].lc \notin Terminal => att'[d][p].charged = 0
  <2>1. CASE d = c /\ p = o BY <2>1
  <2>2. CASE d # c \/ p # o
    <3>1. Stays(d, p) BY <2>2 DEF OthersStay
    <3>2. att[d][p].lc \in Lifecycles /\ att'[d][p].lc \in Lifecycles BY RowNumbers
    <3> QED BY <3>1, <3>2 DEF Stays, Booked, Lifecycles, Active, Terminal
  <2> QED BY <2>1, <2>2
<1> QED BY <1>1 DEF Booked

\* A settlement moves what its attempt held to what the project has used.
LEMMA SettlesKeepBudget ==
    ASSUME Typed, Typed', Booked, BudgetHeld, NEW c \in Cards, NEW o \in Ordinals, SettlesRow(c, o)
    PROVE  Booked' /\ BudgetHeld'
<1> DEFINE a == att[c][o]
           b == att'[c][o]
<1>1. /\ a.reserved \in Nat /\ b.reserved = a.reserved /\ b.charged \in Nat
      /\ a.lc \in Active \cup {"pending"} /\ b.lc \in Terminal /\ a.lc \notin Terminal
      /\ used \in Nat /\ used' = used + b.charged
  BY RowNumbers DEF SettlesRow, Booked, Active, Terminal
<1>2. Booked'
  BY <1>1, BookedRow DEF SettlesRow, Active, Terminal
<1>3. BudgetHeld'
  <2>1. /\ ActiveReserved' = ActiveReserved - Held(c, o) + Held(c, o)'
        /\ Overruns' = Overruns - Overrun(c, o) + Overrun(c, o)'
    BY OneRow DEF SettlesRow
  <2>2. Held(c, o) = a.reserved BY <1>1 DEF Held, Booked, Active
  <2>3. Held(c, o)' = 0 BY <1>1 DEF Held, Active, Terminal
  <2>4. Overrun(c, o) = 0 BY <1>1 DEF Overrun, Booked
  <2>5. Overrun(c, o)' \in Nat /\ Overrun(c, o)' >= b.charged - a.reserved
    BY <1>1 DEF Overrun
  <2>6. BudgetFacts /\ BudgetFacts' BY BudgetSums, BudgetSumsNext
  <2>7. /\ ActiveReserved \in Nat /\ Overruns \in Nat
        /\ Cap # NoCap => used + ActiveReserved <= Cap + Overruns
        /\ BudgetHeld' <=> (Cap # NoCap => used' + ActiveReserved' <= Cap + Overruns')
    BY <2>6 DEF BudgetFacts
  <2>8. Cap # NoCap => Cap \in Nat BY SwarmAssumption DEF SwarmAssumption
  <2> HIDE DEF a, b
  <2> QED BY <1>1, <2>1, <2>2, <2>3, <2>4, <2>5, <2>7, <2>8
<1> QED BY <1>2, <1>3

\* A claim within the budget keeps the budget.
LEMMA ClaimsKeepBudget ==
    ASSUME Typed, Typed', Booked, BudgetHeld, NEW c \in Cards, NEW o \in Ordinals, ClaimsRow(c, o)
    PROVE  Booked' /\ BudgetHeld'
<1> DEFINE a == att[c][o]
           b == att'[c][o]
<1>1. /\ ReservedFor(c) \in Nat /\ b.reserved = ReservedFor(c) /\ b.charged = 0 /\ a.charged = 0 /\ a.reserved = 0
      /\ a.lc = "pending" /\ b.lc = "starting" /\ used \in Nat /\ used' = used
  BY RowNumbers DEF ClaimsRow, Booked, Terminal
<1>2. Booked'
  BY <1>1, BookedRow DEF ClaimsRow, Active, Terminal
<1>3. BudgetHeld'
  <2>1. ActiveReserved' = ActiveReserved - Held(c, o) + Held(c, o)'
    BY OneRow DEF ClaimsRow
  <2>2. Held(c, o) = 0 /\ Held(c, o)' = ReservedFor(c) BY <1>1 DEF Held, Active
  <2>3. BudgetFacts /\ BudgetFacts' BY BudgetSums, BudgetSumsNext
  <2>4. /\ ActiveReserved \in Nat /\ Overruns' \in Nat
        /\ BudgetHeld' <=> (Cap # NoCap => used' + ActiveReserved' <= Cap + Overruns')
    BY <2>3 DEF BudgetFacts
  <2>5. Cap # NoCap => Cap \in Nat /\ used + ActiveReserved + ReservedFor(c) <= Cap
    BY SwarmAssumption DEF SwarmAssumption, ClaimsRow, WithinBudget
  <2> HIDE DEF a, b
  <2> QED BY <1>1, <2>1, <2>2, <2>4, <2>5
<1> QED BY <1>2, <1>3

\* A claim that is given back frees what it held.
LEMMA DefersKeepBudget ==
    ASSUME Typed, Typed', Booked, BudgetHeld, NEW c \in Cards, NEW o \in Ordinals, DefersRow(c, o)
    PROVE  Booked' /\ BudgetHeld'
<1> DEFINE a == att[c][o]
           b == att'[c][o]
<1>1. /\ b.reserved = 0 /\ b.charged = 0 /\ a.charged = 0 /\ a.reserved \in Nat
      /\ a.lc \in Active /\ b.lc = "pending" /\ used \in Nat /\ used' = used
  BY RowNumbers DEF DefersRow, Booked, Active, Terminal
<1>2. Booked'
  BY <1>1, BookedRow DEF DefersRow, Active, Terminal
<1>3. BudgetHeld'
  <2>1. /\ ActiveReserved' = ActiveReserved - Held(c, o) + Held(c, o)'
        /\ Overruns' = Overruns - Overrun(c, o) + Overrun(c, o)'
    BY OneRow DEF DefersRow
  <2>2. Held(c, o) \in Nat /\ Held(c, o)' = 0 BY <1>1 DEF Held, Active
  <2>3. Overrun(c, o) = 0 /\ Overrun(c, o)' = 0 BY <1>1 DEF Overrun
  <2>4. BudgetFacts /\ BudgetFacts' BY BudgetSums, BudgetSumsNext
  <2>5. /\ ActiveReserved \in Nat /\ Overruns \in Nat
        /\ Cap # NoCap => used + ActiveReserved <= Cap + Overruns
        /\ BudgetHeld' <=> (Cap # NoCap => used' + ActiveReserved' <= Cap + Overruns')
    BY <2>4 DEF BudgetFacts
  <2>6. Cap # NoCap => Cap \in Nat BY SwarmAssumption DEF SwarmAssumption
  <2> HIDE DEF a, b
  <2> QED BY <1>1, <2>1, <2>2, <2>3, <2>5, <2>6
<1> QED BY <1>2, <1>3

\* A step that books nothing keeps the budget.
LEMMA NothingKeepsBudget ==
    ASSUME Typed, Typed', Booked, BudgetHeld, NothingBooked
    PROVE  Booked' /\ BudgetHeld'
<1>1. Booked'
  <2>1. ASSUME NEW d \in Cards, NEW p \in Ordinals
        PROVE  /\ att'[d][p].lc \in {"absent", "pending"} => att'[d][p].reserved = 0
               /\ att'[d][p].lc \notin Terminal => att'[d][p].charged = 0
    <3>1. Stays(d, p) BY DEF NothingBooked
    <3>2. att[d][p].lc \in Lifecycles /\ att'[d][p].lc \in Lifecycles BY RowNumbers
    <3> QED BY <3>1, <3>2 DEF Stays, Booked, Lifecycles, Active, Terminal
  <2> QED BY <2>1 DEF Booked, NothingBooked
<1>2. BudgetHeld'
  <2>1. PICK c \in Cards : TRUE BY SwarmAssumption DEF SwarmAssumption
  <2>2. 1 \in Ordinals BY OrdinalFacts
  <2>3. OthersStay(c, 1) /\ Stays(c, 1) BY <2>2 DEF OthersStay, NothingBooked
  <2>4. /\ ActiveReserved' = ActiveReserved - Held(c, 1) + Held(c, 1)'
        /\ Overruns' = Overruns - Overrun(c, 1) + Overrun(c, 1)'
    BY <2>2, <2>3, OneRow
  <2>5. Held(c, 1)' = Held(c, 1) /\ Overrun(c, 1)' = Overrun(c, 1) BY <2>2, <2>3, StaysFacts
  <2>6. BudgetFacts /\ BudgetFacts' BY BudgetSums, BudgetSumsNext
  <2>7. /\ ActiveReserved \in Nat /\ Overruns \in Nat /\ Held(c, 1) \in Nat /\ Overrun(c, 1) \in Nat
        /\ Cap # NoCap => used + ActiveReserved <= Cap + Overruns
        /\ BudgetHeld' <=> (Cap # NoCap => used' + ActiveReserved' <= Cap + Overruns')
    BY <2>2, <2>6 DEF BudgetFacts
  <2> QED BY <2>4, <2>5, <2>7 DEF NothingBooked
<1> QED BY <1>1, <1>2

----------------------------------------------------------------------------
(* Slots and dependencies.                                                 *)

\* The pump starts nothing new and counts on no more slots than are free
Waits ==
    /\ pump'.at = "start" => /\ pump.at = "start" /\ pump'.avail # -1
                             /\ pump'.card = pump.card /\ pump'.ord = pump.ord
    /\ pump'.avail # -1 => pump'.avail + Cardinality(Occupied) + StartingNow' <= ExecutorMax
    /\ \A c \in Cards : pump'.at = "capacity" /\ pump'.card = c => isUnblocked(c)

\* Done dependencies stay done.
LEMMA UnblockedStays ==
    ASSUME DoneStays, NEW c \in Cards, isUnblocked(c)
    PROVE  isUnblocked(c)'
BY SwarmAssumption DEF SwarmAssumption, DoneStays, isUnblocked

\* The occupied cards can be counted.
LEMMA OccupiedFinite == IsFiniteSet(Occupied) /\ Cardinality(Occupied) \in Nat
<1>1. Occupied \in SUBSET Cards BY DEF Occupied
<1> QED BY <1>1, SwarmAssumption, FS_Subset, FS_CardinalityType DEF SwarmAssumption

\* Freed slots and no new start leave room.
LEMMA RoomStays ==
    ASSUME Room, Waits, pump' \in Pump, slot' \in [Cards -> {0} \cup Ordinals], Occupied' \subseteq Occupied
    PROVE  Room'
<1>1. Cardinality(Occupied) \in Nat /\ Cardinality(Occupied') \in Nat /\ Cardinality(Occupied') <= Cardinality(Occupied)
  <2>1. Occupied' \in SUBSET Occupied OBVIOUS
  <2>2. IsFiniteSet(Occupied') BY <2>1, OccupiedFinite, FS_Subset
  <2> QED BY <2>1, <2>2, OccupiedFinite, FS_Subset, FS_CardinalityType
<1>2. ExecutorMax \in Nat BY SwarmAssumption DEF SwarmAssumption
<1>3. pump'.avail \in Nat \cup {-1} BY DEF Pump
<1>4. StartingNow' \in {0, 1} BY DEF StartingNow
<1> QED BY <1>1, <1>2, <1>3, <1>4 DEF Room, Waits

\* An attempt is active after such a step only if it was before.
LEMMA NoNewActive ==
    ASSUME NoClaim, NEW d \in Cards, NEW p \in Ordinals, att'[d][p].lc \in Active
    PROVE  att[d][p].lc \in Active
<1>1. CASE NothingBooked BY <1>1 DEF NothingBooked, Stays
<1>2. ASSUME NEW c \in Cards, NEW o \in Ordinals, SettlesRow(c, o) \/ DefersRow(c, o)
      PROVE  att[d][p].lc \in Active
  <2>1. CASE d = c /\ p = o BY <1>2, <2>1 DEF SettlesRow, DefersRow, Active, Terminal
  <2>2. CASE d # c \/ p # o BY <1>2, <2>2 DEF SettlesRow, DefersRow, OthersStay, Stays
  <2> QED BY <2>1, <2>2
<1> QED BY <1>1, <1>2 DEF NoClaim

\* Such a step keeps the books and the budget.
LEMMA NoClaimKeepsBudget ==
    ASSUME Typed, Typed', Booked, BudgetHeld, NoClaim
    PROVE  Booked' /\ BudgetHeld'
BY NothingKeepsBudget, SettlesKeepBudget, DefersKeepBudget DEF NoClaim

\* A step that claims nothing and only frees slots that no active lane holds
LEMMA QuietShared ==
    ASSUME Inv, Shared, StepOK, NoClaim, Waits, lanes' \subseteq lanes,
           slot' \in [Cards -> {0} \cup Ordinals], Occupied' \subseteq Occupied,
           \A a \in lanes' : slot[a[1]] = a[2] => slot'[a[1]] = a[2]
    PROVE  Shared'
<1>1. /\ pump \in Pump /\ pump' \in Pump /\ Typed /\ Typed' /\ DoneStays
      /\ lanes \subseteq Cards \X Ordinals /\ lanes' \subseteq Cards \X Ordinals
  BY DEF Inv, StepOK, Typed, Shared
<1>2. ClaimedUnblocked'
  <2>1. ASSUME NEW c \in Cards, NEW o \in Ordinals, att'[c][o].lc \in Active PROVE isUnblocked(c)'
    <3>1. att[c][o].lc \in Active BY <2>1, NoNewActive
    <3>2. isUnblocked(c) BY <3>1 DEF Shared, ClaimedUnblocked
    <3> QED BY <1>1, <3>2, UnblockedStays
  <2>2. ASSUME NEW c \in Cards, pump'.at = "capacity" /\ pump'.card = c PROVE isUnblocked(c)'
    <3>1. isUnblocked(c) BY <2>2 DEF Waits
    <3> QED BY <1>1, <3>1, UnblockedStays
  <2> QED BY <2>1, <2>2 DEF ClaimedUnblocked
<1>3. Room' BY <1>1, RoomStays DEF Shared
<1>4. StartIsAlone'
  <2> SUFFICES ASSUME pump'.at = "start", NEW o \in Ordinals, o # pump'.ord,
                      att'[pump'.card][o].lc \in Active
               PROVE  FALSE
    BY DEF StartIsAlone
  <2>1. pump.at = "start" /\ pump'.card = pump.card /\ pump'.ord = pump.ord /\ pump.card \in Cards
    BY <1>1 DEF Waits, Pump
  <2>2. att[pump.card][o].lc \in Active BY <2>1, NoNewActive
  <2> QED BY <2>1, <2>2 DEF Shared, StartIsAlone
<1>5. RunningHoldsSlot'
  <2> SUFFICES ASSUME NEW a \in lanes', att'[a[1]][a[2]].lc \in Active PROVE slot'[a[1]] = a[2]
    BY DEF RunningHoldsSlot
  <2>1. a \in lanes /\ a[1] \in Cards /\ a[2] \in Ordinals BY <1>1
  <2>2. att[a[1]][a[2]].lc \in Active BY <2>1, NoNewActive
  <2> QED BY <2>1, <2>2 DEF Shared, RunningHoldsSlot
<1>6. Booked' /\ BudgetHeld' BY <1>1, NoClaimKeepsBudget DEF Shared
<1> QED BY <1>1, <1>2, <1>3, <1>4, <1>5, <1>6 DEF Shared

----------------------------------------------------------------------------
(* The steps.                                                              *)

\* The pump goes on where it was, woken or not.
LEMMA KickedWaits ==
    ASSUME Inv, Shared, NEW b, pump' \in {pump, KickIf(pump, b)}
    PROVE  Waits
<1>1. /\ pump'.avail = pump.avail /\ pump'.card = pump.card /\ pump'.ord = pump.ord
      /\ pump'.at = "start" <=> pump.at = "start"
      /\ pump'.at = "capacity" <=> pump.at = "capacity"
  BY DEF KickIf, Kick, Pump, Inv, Typed
<1>2. StartingNow' = StartingNow BY <1>1 DEF StartingNow
<1> QED BY <1>1, <1>2 DEF Waits, Shared, Room, ClaimedUnblocked

\* The pump goes on with its pass, p, woken or not.
LEMMA PassWaits ==
    ASSUME NEW p \in Pump, p.at \in {"pass", "idle", "ready"},
           p.avail # -1 => p.avail + Cardinality(Occupied) <= ExecutorMax,
           NEW b, pump' \in {p, KickIf(p, b)}
    PROVE  Waits
<1>1. pump'.avail = p.avail /\ pump'.at \notin {"start", "capacity"}
  BY DEF KickIf, Kick, Pump
<1>2. StartingNow' = 0 BY <1>1 DEF StartingNow
<1>3. Cardinality(Occupied) \in Nat BY OccupiedFinite
<1>4. p.avail \in Nat \cup {-1} BY DEF Pump
<1> QED BY <1>1, <1>2, <1>3, <1>4 DEF Waits

\* Rows that are left alone book nothing.
LEMMA SameRows ==
    ASSUME att' = att, used' = used
    PROVE  NoClaim
BY DEF NoClaim, NothingBooked, Stays

\* settleAttemptInTransaction settles one row.
LEMMA SettledRowSettles ==
    ASSUME Typed, NEW c \in Cards, NEW o \in Ordinals, att[c][o].lc \in Active \cup {"pending"},
           NEW state \in Terminal, NEW usage \in Usages \cup {NoUsage}, NEW result,
           att' = Settled(c, o, state, usage, result), used' = used + Charge(c, o, usage)
    PROVE  NoClaim
<1> DEFINE old == att[c][o]
           charge == Charge(c, o, usage)
           evidence == IF state = "completed" \/ result # "none" THEN result ELSE "absence"
           ticket == IF old.reservation \in {"active", "claimed"} THEN "consumed" ELSE old.reservation
           b == [old EXCEPT !.lc = state, !.charged = charge]
           a == [b EXCEPT !.result = evidence, !.reservation = ticket]
<1>1. att \in [Cards -> [Ordinals -> Attempt]] /\ old \in Attempt BY DEF Typed
<1>2. att' = WithAttempt(c, o, a)
  <2>1. att' = WithAttempt(c, o, [old EXCEPT !.lc = state, !.charged = charge,
                                          !.result = evidence, !.reservation = ticket])
    BY <1>1 DEF Settled, Attempt
  <2> QED BY <2>1
<1>3. a.lc = state /\ a.charged = charge /\ a.reserved = old.reserved
  <2>1. b.lc = state /\ b.charged = charge /\ b.reserved = old.reserved /\ DOMAIN b = DOMAIN old
    BY <1>1 DEF Attempt
  <2>2. DOMAIN b = {"lc", "reserved", "charged", "reservation", "result", "decision"}
    BY <1>1, <2>1 DEF Attempt
  <2> HIDE DEF b, evidence, ticket, charge
  <2> QED BY <2>1, <2>2
<1> HIDE DEF a
<1>4. /\ att'[c][o] = a
      /\ \A d \in Cards, p \in Ordinals : d # c \/ p # o => att'[d][p] = att[d][p]
  BY <1>1, <1>2 DEF WithAttempt
<1>5. SettlesRow(c, o) BY <1>3, <1>4 DEF SettlesRow, OthersStay, Stays
<1> QED BY <1>5 DEF NoClaim

\* A cleanup settlement settles one row or none.
LEMMA CleanupSettles ==
    ASSUME Typed, NEW c \in Cards, NEW o \in Ordinals, NEW state \in Terminal, settleCleanup(c, o, state)
    PROVE  NoClaim
<1>1. CASE SettleAllowed(c, o, state)
  <2>1. att[c][o].lc \in Active \cup {"pending"} BY <1>1 DEF SettleAllowed
  <2> QED BY <1>1, <2>1, SettledRowSettles DEF settleCleanup
<1>2. CASE ~SettleAllowed(c, o, state)
  BY <1>2, SameRows DEF settleCleanup
<1> QED BY <1>1, <1>2

\* Steps that touch neither slots nor lanes and claim nothing
LEMMA SameSlots ==
    ASSUME Inv, Shared, StepOK, NoClaim, Waits, lanes' = lanes, slot' = slot
    PROVE  Shared'
<1>1. Occupied' = Occupied /\ slot \in [Cards -> {0} \cup Ordinals] BY DEF Occupied, Shared, Room
<1> QED BY <1>1, QuietShared

\* Beginning and ending a pass, and a released resource
LEMMA PassShared ==
    ASSUME Inv, Shared, StepOK, BeginPass \/ EndPass \/ ResourceReleased
    PROVE  Shared'
<1>1. lanes' = lanes /\ slot' = slot /\ att' = att /\ used' = used
  BY DEF BeginPass, EndPass, ResourceReleased
<1>2. pump \in Pump /\ pump' \in Pump BY DEF Inv, StepOK, Typed
<1>3. Waits
  <2>1. CASE BeginPass
    <3>1. pump'.avail = -1 /\ pump'.at = "pass" BY <1>2, <2>1 DEF BeginPass, Pump
    <3> QED BY <3>1 DEF Waits
  <2>2. CASE EndPass
    <3>1. pump'.avail = pump.avail /\ pump'.at \in {"ready", "idle"} /\ pump.at = "pass"
      BY <1>2, <2>2 DEF EndPass, Pump
    <3>2. StartingNow = 0 /\ StartingNow' = 0 BY <3>1 DEF StartingNow
    <3>3. pump'.avail # -1 => pump'.avail + Cardinality(Occupied) + StartingNow' <= ExecutorMax
      BY <3>1, <3>2 DEF Shared, Room
    <3>4. pump'.at # "start" /\ pump'.at # "capacity" BY <3>1
    <3> QED BY <3>3, <3>4 DEF Waits
  <2>3. CASE ResourceReleased
    <3>1. pump' = KickIf(pump, pump.at = "idle") BY <2>3 DEF ResourceReleased, KickIf
    <3> QED BY <3>1, KickedWaits
  <2> QED BY <2>1, <2>2, <2>3
<1> QED BY <1>1, <1>3, SameRows, SameSlots

\* The tail of an iteration claims a card with its dependencies done, a slot that was
\* counted and tokens within the budget, or it claims nothing.
LEMMA AdmitShared ==
    ASSUME Inv, Shared, StepOK, NEW c \in Cards, NEW o \in Ordinals, NEW p \in Pump, p.at = "pass",
           p.avail # -1 => p.avail + Cardinality(Occupied) <= ExecutorMax,
           isUnblocked(c), Admit(c, o, p), slot' = slot, lanes' = lanes
    PROVE  Shared'
<1> DEFINE skip == \/ p.avail <= 0 \/ Cardinality(ActiveAttempts) >= ExecutorMax
                   \/ o = latest[c] /\ early[c] = "future"
                   \/ ~Claimable(c, o)
                   \/ ~BudgetExhausted /\ ~WithinBudget(c)
<1>1. /\ Typed /\ Typed' /\ DoneStays /\ Booked /\ BudgetHeld
      /\ att \in [Cards -> [Ordinals -> Attempt]]
  BY DEF Inv, StepOK, Shared, Typed
<1>2. CASE skip
  <2>1. pump' = p /\ att' = att /\ used' = used BY <1>2 DEF Admit
  <2> QED BY <2>1, PassWaits, SameRows, SameSlots
<1>3. CASE ~skip /\ BudgetExhausted
  <2>1. settleCleanup(c, o, "cancelled") /\ pump' = KickIf(p, CanMove(c, Undecided))
    BY <1>3 DEF Admit
  <2>2. "cancelled" \in Terminal BY DEF Terminal
  <2> QED BY <1>1, <2>1, <2>2, CleanupSettles, PassWaits, SameSlots
<1>4. CASE ~skip /\ ~BudgetExhausted
  <2> DEFINE old == att[c][o]
             b == [old EXCEPT !.lc = "starting", !.reserved = ReservedFor(c)]
             a == [b EXCEPT !.reservation = IF old.reservation = "active" THEN "claimed" ELSE old.reservation]
  <2>1. /\ att' = WithAttempt(c, o, [old EXCEPT !.lc = "starting", !.reserved = ReservedFor(c),
                                            !.reservation = IF @ = "active" THEN "claimed" ELSE @])
        /\ pump' = [p EXCEPT !.at = "start", !.card = c, !.ord = o, !.avail = @ - 1]
        /\ used' = used
    BY <1>4 DEF Admit
  <2>2. o = latest[c] /\ old.lc = "pending" /\ WithinBudget(c) /\ p.avail \in Nat /\ p.avail > 0
    BY <1>4 DEF Claimable, Pump
  <2>3. /\ pump'.at = "start" /\ pump'.card = c /\ pump'.ord = o /\ pump'.avail = p.avail - 1
    BY <2>1 DEF Pump
  <2>4. old \in Attempt BY <1>1
  <2>5. att' = WithAttempt(c, o, a) BY <2>1, <2>4 DEF Attempt
  <2>6. a.lc = "starting" /\ a.charged = old.charged /\ a.reserved = ReservedFor(c)
    BY <2>4 DEF Attempt
  <2> HIDE DEF a
  <2>7. /\ att'[c][o] = a
        /\ \A d \in Cards, q \in Ordinals : d # c \/ q # o => att'[d][q] = att[d][q]
    BY <1>1, <2>5 DEF WithAttempt
  <2>8. ClaimsRow(c, o) BY <2>1, <2>2, <2>6, <2>7 DEF ClaimsRow, OthersStay, Stays
  <2>9. Booked' /\ BudgetHeld' BY <1>1, <2>8, ClaimsKeepBudget
  <2>10. ASSUME NEW d \in Cards, NEW q \in Ordinals, att'[d][q].lc \in Active
         PROVE  (d = c /\ q = o) \/ att[d][q].lc \in Active
    BY <2>7, <2>10
  <2>11. ClaimedUnblocked'
    <3>1. ASSUME NEW d \in Cards, NEW q \in Ordinals, att'[d][q].lc \in Active PROVE isUnblocked(d)'
      <4>1. isUnblocked(d) BY <2>10, <3>1 DEF Shared, ClaimedUnblocked
      <4> QED BY <1>1, <4>1, UnblockedStays
    <3> QED BY <2>3, <3>1 DEF ClaimedUnblocked
  <2>12. Room'
    <3>1. Occupied' = Occupied /\ Cardinality(Occupied) \in Nat BY OccupiedFinite DEF Occupied
    <3>2. StartingNow' = 1 BY <2>3 DEF StartingNow
    <3>3. pump'.avail # -1 /\ pump'.avail + Cardinality(Occupied) + 1 <= ExecutorMax
      <4>1. ExecutorMax \in Nat BY SwarmAssumption DEF SwarmAssumption
      <4> QED BY <2>2, <2>3, <3>1, <4>1
    <3> QED BY <3>1, <3>2, <3>3 DEF Room, Shared
  <2>13. StartIsAlone'
    <3>1. \A q \in Ordinals : q # o => att[c][q].lc \notin Active
      <4>1. latest[c] \in Nat /\ \A q \in Ordinals : q \in Nat BY <2>2, OrdinalFacts
      <4> QED BY <2>2, <4>1 DEF Inv, Lineage, OneLiveAttempt, NoAttempt, Active, Terminal
    <3> QED BY <2>3, <2>10, <3>1 DEF StartIsAlone
  <2>14. RunningHoldsSlot'
    <3> SUFFICES ASSUME NEW x \in lanes, att'[x[1]][x[2]].lc \in Active PROVE slot[x[1]] = x[2]
      BY DEF RunningHoldsSlot
    <3>1. x \in Cards \X Ordinals /\ x = <<x[1], x[2]>> BY DEF Shared
    <3>2. <<c, o>> \notin lanes BY <2>2 DEF Inv, Lanes, UnclaimedHasNoLane
    <3>3. att[x[1]][x[2]].lc \in Active BY <2>10, <3>1, <3>2
    <3> QED BY <3>3 DEF Shared, RunningHoldsSlot
  <2> QED BY <2>9, <2>11, <2>12, <2>13, <2>14 DEF Shared
<1> QED BY <1>2, <1>3, <1>4

\* One iteration of the pass
LEMMA VisitShared ==
    ASSUME Inv, Shared, StepOK, NEW c \in Cards, VisitCard(c)
    PROVE  Shared'
<1> DEFINE rest == [pump EXCEPT !.todo = @ \ {c}]
<1>1. Typed /\ pump \in Pump /\ latest[c] \in Ordinals BY DEF Inv, Typed
<1>2. /\ rest \in Pump /\ rest.at = "pass" /\ rest.avail = pump.avail
      /\ pump.at = "pass" /\ lanes' = lanes /\ slot' = slot
  BY <1>1 DEF VisitCard, Pump
<1>3. rest.avail # -1 => rest.avail + Cardinality(Occupied) <= ExecutorMax
  <2>1. StartingNow = 0 BY <1>2 DEF StartingNow
  <2>2. Cardinality(Occupied) \in Nat /\ pump.avail \in Int BY <1>1, OccupiedFinite DEF Pump
  <2> QED BY <1>2, <2>1, <2>2 DEF Shared, Room
<1> HIDE DEF rest
<1>4. CASE pump' = rest /\ att' = att /\ used' = used
  BY <1>2, <1>3, <1>4, PassWaits, SameRows, SameSlots
<1>5. CASE pump' = KickIf(rest, CanMove(c, Undecided)) /\ att' = att /\ used' = used
  BY <1>2, <1>3, <1>5, PassWaits, SameRows, SameSlots
<1>6. CASE Latest(c).lc \notin Active \cup Terminal /\ FailUnavailable(c)
  <2>1. \E b : pump' = KickIf(rest, b) BY <1>6 DEF FailUnavailable, rest
  <2>2. NoClaim
    <3>1. CASE ~Authorized BY <1>6, <3>1, SameRows DEF FailUnavailable
    <3>2. CASE Authorized
      <4>1. Latest(c).lc = "pending"
        <5>1. att[c][latest[c]].lc \in Lifecycles /\ att[c][latest[c]].lc # "absent"
          BY <1>1 DEF Typed, Attempt, Inv, Lineage, OneLiveAttempt
        <5> QED BY <1>6, <5>1 DEF Latest, Lifecycles
      <4>2. "failed" \in Terminal /\ NoUsage \in Usages \cup {NoUsage} BY DEF Terminal
      <4>3. att' = Settled(c, latest[c], "failed", NoUsage, "none") /\ used' = used + Charge(c, latest[c], NoUsage)
        BY <1>6, <3>2 DEF FailUnavailable
      <4> QED BY <1>1, <4>1, <4>2, <4>3, SettledRowSettles DEF Latest
    <3> QED BY <3>1, <3>2
  <2> QED BY <1>2, <1>3, <2>1, <2>2, PassWaits, SameSlots
<1>7. CASE isUnblocked(c) /\ pump.avail = -1 /\ att' = att /\ used' = used
           /\ pump' = [rest EXCEPT !.at = "capacity", !.card = c, !.ord = latest[c]]
  <2>1. pump'.at = "capacity" /\ pump'.card = c /\ pump'.avail = -1
    BY <1>2, <1>7 DEF Pump
  <2>2. Waits BY <1>7, <2>1 DEF Waits
  <2> QED BY <1>2, <1>7, <2>2, SameRows, SameSlots
<1>8. CASE isUnblocked(c) /\ Admit(c, latest[c], rest)
  BY <1>1, <1>2, <1>3, <1>8, AdmitShared
<1> QED BY <1>4, <1>5, <1>6, <1>7, <1>8 DEF VisitCard, rest

\* The capacity is sampled after an await
LEMMA CapacityShared ==
    ASSUME Inv, Shared, StepOK, CapacityResolves
    PROVE  Shared'
<1> DEFINE free == IF Cardinality(Occupied) < ExecutorMax THEN ExecutorMax - Cardinality(Occupied) ELSE 0
           p == [pump EXCEPT !.at = "pass", !.avail = free]
<1>1. Cardinality(Occupied) \in Nat /\ ExecutorMax \in Nat
  BY OccupiedFinite, SwarmAssumption DEF SwarmAssumption
<1>2. Cardinality(Occupied) <= ExecutorMax BY DEF Shared, Room
<1>3. free \in Nat /\ free + Cardinality(Occupied) <= ExecutorMax BY <1>1, <1>2
<1>4. pump \in Pump /\ pump.card \in Cards /\ pump.ord \in Ordinals BY DEF Inv, Typed, Pump
<1>5. /\ Admit(pump.card, pump.ord, p) /\ pump.at = "capacity" /\ slot' = slot /\ lanes' = lanes
  BY DEF CapacityResolves
<1> HIDE DEF free
<1>6. p \in Pump /\ p.at = "pass" /\ p.avail = free BY <1>3, <1>4 DEF Pump
<1>7. isUnblocked(pump.card) BY <1>4, <1>5 DEF Shared, ClaimedUnblocked
<1> HIDE DEF p
<1> QED BY <1>3, <1>4, <1>5, <1>6, <1>7, AdmitShared

\* A worker starts: it takes the slot that was left for it, and no other attempt of
\* its card is active.
LEMMA StartSucceedsShared ==
    ASSUME Inv, Shared, StepOK, NEW admitted \in BOOLEAN, StartSucceeds(admitted)
    PROVE  Shared'
<1> DEFINE c == pump.card
           o == pump.ord
           run == att[c][o].lc = "starting" /\ Authorized
<1>1. /\ Typed /\ Typed' /\ DoneStays /\ Booked /\ BudgetHeld
      /\ pump \in Pump /\ pump' \in Pump /\ c \in Cards /\ o \in Ordinals
      /\ att \in [Cards -> [Ordinals -> Attempt]]
      /\ slot \in [Cards -> {0} \cup Ordinals] /\ lanes \subseteq Cards \X Ordinals
  BY DEF Inv, StepOK, Shared, Typed, Pump, Room
<1>2. /\ pump.at = "start" /\ used' = used
      /\ att' = IF run THEN WithAttempt(c, o, [att[c][o] EXCEPT !.lc = "running"]) ELSE att
      /\ slot' = IF admitted THEN [slot EXCEPT ![c] = o] ELSE slot
      /\ lanes' = IF admitted THEN lanes \cup {<<c, o>>} ELSE lanes
      /\ \E b : pump' \in {AfterStart, KickIf(AfterStart, b)}
  BY DEF StartSucceeds
<1>3. AfterStart \in Pump /\ AfterStart.at = "pass" /\ AfterStart.avail = pump.avail
  BY <1>1 DEF AfterStart, Pump
<1>4. pump'.at = "pass" /\ pump'.avail = pump.avail BY <1>2, <1>3 DEF KickIf, Kick, Pump
<1>5. \A d \in Cards, p \in Ordinals : Stays(d, p)
  <2>1. CASE run
    <3> DEFINE a == [att[c][o] EXCEPT !.lc = "running"]
    <3>1. /\ a.lc = "running" /\ a.reserved = att[c][o].reserved /\ a.charged = att[c][o].charged
          /\ att[c][o].lc = "starting"
      BY <1>1, <2>1 DEF Attempt
    <3>2. att' = WithAttempt(c, o, a) BY <1>2, <2>1
    <3> HIDE DEF a
    <3>3. /\ att'[c][o] = a
          /\ \A d \in Cards, p \in Ordinals : d # c \/ p # o => att'[d][p] = att[d][p]
      BY <1>1, <3>2 DEF WithAttempt
    <3> QED BY <3>1, <3>3 DEF Stays, Active, Terminal
  <2>2. CASE ~run BY <1>2, <2>2 DEF Stays
  <2> QED BY <2>1, <2>2
<1> HIDE DEF run
<1>6. Booked' /\ BudgetHeld'
  <2>1. NothingBooked BY <1>2, <1>5 DEF NothingBooked
  <2> QED BY <1>1, <2>1, NothingKeepsBudget
<1>7. ClaimedUnblocked'
  <2>1. ASSUME NEW d \in Cards, NEW q \in Ordinals, att'[d][q].lc \in Active PROVE isUnblocked(d)'
    <3>1. isUnblocked(d) BY <1>5, <2>1 DEF Stays, Shared, ClaimedUnblocked
    <3> QED BY <1>1, <3>1, UnblockedStays
  <2> QED BY <1>4, <2>1 DEF ClaimedUnblocked
<1>8. Room'
  <2>1. IsFiniteSet(Occupied) /\ Cardinality(Occupied) \in Nat BY OccupiedFinite
  <2>2. Occupied' \subseteq Occupied \cup {c} BY <1>1, <1>2 DEF Occupied
  <2>3. /\ IsFiniteSet(Occupied \cup {c}) /\ Cardinality(Occupied \cup {c}) <= Cardinality(Occupied) + 1
        /\ Cardinality(Occupied \cup {c}) \in Nat
    <3>1. /\ IsFiniteSet(Occupied \cup {c})
          /\ Cardinality(Occupied \cup {c}) =
                IF c \in Occupied THEN Cardinality(Occupied) ELSE Cardinality(Occupied) + 1
      BY <2>1, FS_AddElement
    <3> QED BY <2>1, <3>1
  <2>4. /\ Cardinality(Occupied') \in Nat
        /\ Cardinality(Occupied') <= Cardinality(Occupied \cup {c})
    <3>1. Occupied' \in SUBSET (Occupied \cup {c}) BY <2>2
    <3> QED BY <2>3, <3>1, FS_Subset, FS_CardinalityType
  <2>5. StartingNow = 1 /\ StartingNow' = 0 BY <1>2, <1>4 DEF StartingNow
  <2>6. pump.avail \in Nat /\ pump.avail + Cardinality(Occupied) + 1 <= ExecutorMax
    BY <1>1, <1>2, <2>5 DEF Shared, Room, Pump
  <2>7. slot' \in [Cards -> {0} \cup Ordinals] BY <1>1, <1>2
  <2>8. ExecutorMax \in Nat BY SwarmAssumption DEF SwarmAssumption
  <2>9. Cardinality(Occupied') + pump.avail <= ExecutorMax /\ Cardinality(Occupied') <= ExecutorMax
    BY <2>1, <2>3, <2>4, <2>6, <2>8
  <2> QED BY <1>4, <2>4, <2>5, <2>6, <2>7, <2>8, <2>9 DEF Room
<1>9. StartIsAlone' BY <1>4 DEF StartIsAlone
<1>10. RunningHoldsSlot'
  <2> SUFFICES ASSUME NEW x \in lanes', att'[x[1]][x[2]].lc \in Active PROVE slot'[x[1]] = x[2]
    BY DEF RunningHoldsSlot
  <2>1. x[1] \in Cards /\ x[2] \in Ordinals /\ x = <<x[1], x[2]>> BY <1>1, <1>2
  <2>2. att[x[1]][x[2]].lc \in Active BY <1>5, <2>1 DEF Stays
  <2>3. CASE x = <<c, o>>
    <3>1. admitted
      <4>1. <<c, o>> \notin lanes BY <1>2 DEF Inv, Lanes, FreshStart
      <4> QED BY <1>2, <2>3, <4>1
    <3> QED BY <1>1, <1>2, <2>3, <3>1
  <2>4. CASE x # <<c, o>>
    <3>1. x[1] # c
      <4>1. x[1] = c => x[2] # o BY <2>1, <2>4
      <4> QED BY <1>2, <2>1, <2>2, <4>1 DEF Shared, StartIsAlone
    <3>2. slot[x[1]] = x[2] BY <1>2, <2>2, <2>4 DEF Shared, RunningHoldsSlot
    <3> QED BY <1>1, <1>2, <3>1, <3>2
  <2> QED BY <2>3, <2>4
<1>11. lanes' \subseteq Cards \X Ordinals BY <1>1, <1>2
<1> QED BY <1>6, <1>7, <1>8, <1>9, <1>10, <1>11 DEF Shared

\* The pump goes on with its pass after a start that failed.
LEMMA AfterStartWaits ==
    ASSUME Inv, Shared, NEW b, pump' \in {AfterStart, KickIf(AfterStart, b)}
    PROVE  Waits
<1>1. AfterStart \in Pump /\ AfterStart.at = "pass" /\ AfterStart.avail = pump.avail /\ pump \in Pump
  BY DEF AfterStart, Pump, Inv, Typed
<1>2. Cardinality(Occupied) \in Nat /\ ExecutorMax \in Nat
  BY OccupiedFinite, SwarmAssumption DEF SwarmAssumption
<1>3. pump.avail # -1 => pump.avail + Cardinality(Occupied) <= ExecutorMax
  BY <1>1, <1>2 DEF Shared, Room, StartingNow, Pump
<1> HIDE DEF AfterStart
<1> QED BY <1>1, <1>3, PassWaits

\* A start that fails settles the attempt; one that is deferred gives the claim back.
LEMMA StartEndsShared ==
    ASSUME Inv, Shared, StepOK, StartFails \/ StartDeferred
    PROVE  Shared'
<1> DEFINE c == pump.card
           o == pump.ord
<1>1. /\ Typed /\ c \in Cards /\ o \in Ordinals /\ lanes' = lanes /\ slot' = slot
      /\ att \in [Cards -> [Ordinals -> Attempt]]
  BY DEF Inv, Typed, Pump, StartFails, StartDeferred
<1>2. CASE StartFailed
  <2>1. settleCleanup(c, o, "failed") /\ pump' = KickIf(AfterStart, CanMove(c, Undecided)) BY <1>2 DEF StartFailed
  <2>2. "failed" \in Terminal BY DEF Terminal
  <2>3. NoClaim BY <1>1, <2>1, <2>2, CleanupSettles
  <2>4. Waits BY <2>1, AfterStartWaits
  <2> QED BY <1>1, <2>3, <2>4, SameSlots
<1>3. CASE StartDeferred /\ ~StartFailed
  <2> DEFINE old == att[c][o]
             b == [old EXCEPT !.lc = "pending", !.reserved = 0]
             a == [b EXCEPT !.reservation = IF old.reservation = "claimed" THEN "active" ELSE old.reservation]
  <2>1. /\ att' = WithAttempt(c, o, [old EXCEPT !.lc = "pending", !.reserved = 0,
                                         !.reservation = IF @ = "claimed" THEN "active" ELSE @])
        /\ old.lc = "starting" /\ pump' = AfterStart /\ used' = used
    BY <1>3 DEF StartDeferred
  <2>2. old \in Attempt BY <1>1
  <2>3. att' = WithAttempt(c, o, a) BY <2>1, <2>2 DEF Attempt
  <2>4. a.lc = "pending" /\ a.reserved = 0 /\ a.charged = old.charged BY <2>2 DEF Attempt
  <2> HIDE DEF a
  <2>5. /\ att'[c][o] = a
        /\ \A d \in Cards, q \in Ordinals : d # c \/ q # o => att'[d][q] = att[d][q]
    BY <1>1, <2>3 DEF WithAttempt
  <2>6. DefersRow(c, o) BY <2>1, <2>4, <2>5 DEF DefersRow, OthersStay, Stays, Active
  <2>7. NoClaim BY <1>1, <2>6 DEF NoClaim
  <2>8. Waits BY <2>1, AfterStartWaits
  <2> QED BY <1>1, <2>7, <2>8, SameSlots
<1> QED BY <1>2, <1>3 DEF StartFails, StartDeferred

\* A turn that ends settles its attempt or nothing.
LEMMA ExecutorShared ==
    ASSUME Inv, Shared, StepOK, NEW c \in Cards, NEW o \in Ordinals, Executor(c, o)
    PROVE  Shared'
<1>1. Typed BY DEF Inv
<1>2. ASSUME NEW usage \in Usages \cup {NoUsage}, NEW result \in {"accepted", "unmet"}, NEW late \in BOOLEAN,
             NEW stored \in BOOLEAN, FinishSpin(c, o, usage, result, late, stored)
      PROVE  Shared'
  <2> DEFINE state == IF late THEN "timed_out"
                      ELSE IF Overdrawn(c, o, usage) THEN "failed" ELSE "completed"
  <2>1. lanes' = lanes /\ slot' = slot BY <1>2 DEF FinishSpin
  <2>2. CASE ~SettleAllowed(c, o, "completed") \/ ~stored
    <3>1. att' = att /\ used' = used /\ pump' = pump BY <1>2, <2>2 DEF FinishSpin
    <3> QED BY <2>1, <3>1, KickedWaits, SameRows, SameSlots
  <2>3. CASE SettleAllowed(c, o, "completed") /\ stored
    <3>1. att[c][o].lc \in Active \cup {"pending"} BY <2>3 DEF SettleAllowed
    <3>2. att' = Settled(c, o, state, usage, result) /\ used' = used + Charge(c, o, usage)
      BY <1>2, <2>3 DEF FinishSpin
    <3>3. state \in Terminal BY DEF Terminal
    <3> HIDE DEF state
    <3>4. NoClaim BY <1>1, <3>1, <3>2, <3>3, SettledRowSettles
    <3>5. \E b : pump' \in {pump, KickIf(pump, b)} BY <1>2, <2>3 DEF FinishSpin
    <3>6. Waits BY <3>5, KickedWaits
    <3> QED BY <2>1, <3>4, <3>6, SameSlots
  <2> QED BY <2>2, <2>3
<1>3. ASSUME NEW usage \in Usages \cup {NoUsage}, NEW stored \in BOOLEAN, FailSpin(c, o, usage, stored)
      PROVE  Shared'
  <2>1. lanes' = lanes /\ slot' = slot BY <1>3 DEF FailSpin
  <2>2. \E b : pump' \in {pump, KickIf(pump, b)}
    <3>1. pump' = pump \/ pump' = KickIf(pump, retryOrFailApplies(c)) BY <1>3 DEF FailSpin
    <3> QED BY <3>1
  <2>3. NoClaim
    <3>1. CASE att' = att /\ used' = used BY <3>1, SameRows
    <3>2. CASE SettleAllowed(c, o, "failed") /\ att' = Settled(c, o, "failed", usage, "none")
               /\ used' = used + Charge(c, o, usage)
      <4>1. att[c][o].lc \in Active \cup {"pending"} BY <3>2 DEF SettleAllowed
      <4>2. "failed" \in Terminal BY DEF Terminal
      <4> QED BY <1>1, <3>2, <4>1, <4>2, SettledRowSettles
    <3> QED BY <1>3, <3>1, <3>2 DEF FailSpin
  <2>4. Waits BY <2>2, KickedWaits
  <2> QED BY <2>1, <2>3, <2>4, SameSlots
<1>4. ASSUME NEW usage \in Usages \cup {NoUsage}, NEW result \in {"accepted", "unmet"}, NEW late \in BOOLEAN,
             VerdictUnread(c, o, usage, result, late)
      PROVE  Shared'
  <2> DEFINE state == IF late THEN "timed_out" ELSE "completed"
  <2>1. /\ lanes' = lanes /\ slot' = slot /\ pump' = pump
        /\ att[c][o].lc \in Active \cup {"pending"}
        /\ att' = Settled(c, o, state, usage, result) /\ used' = used + Charge(c, o, usage)
    BY <1>4 DEF VerdictUnread, SettleAllowed
  <2>2. state \in Terminal BY DEF Terminal
  <2> HIDE DEF state
  <2>3. NoClaim BY <1>1, <2>1, <2>2, SettledRowSettles
  <2>4. Waits BY <2>1, KickedWaits
  <2> QED BY <2>1, <2>3, <2>4, SameSlots
<1> QED BY <1>2, <1>3, <1>4 DEF Executor

\* A lane that closes frees the slot of its card only if it owns it.
LEMMA CloseShared ==
    ASSUME Inv, Shared, StepOK, NEW c \in Cards, NEW o \in Ordinals, LaneCloses(c, o)
    PROVE  Shared'
<1>1. /\ slot \in [Cards -> {0} \cup Ordinals] /\ lanes \subseteq Cards \X Ordinals
      /\ 0 \notin Ordinals
  BY DEF Shared, Room, Ordinals
<1>2. /\ att' = att /\ used' = used /\ lanes' = lanes \ {<<c, o>>} /\ slot' = FreedSlot(c, o)
      /\ pump' = KickIf(pump, slot' # slot)
  BY DEF LaneCloses
<1>3. slot' \in [Cards -> {0} \cup Ordinals] /\ Occupied' \subseteq Occupied
  BY <1>1, <1>2 DEF FreedSlot, Occupied
<1>4. \A a \in lanes' : slot[a[1]] = a[2] => slot'[a[1]] = a[2]
  <2> SUFFICES ASSUME NEW a \in lanes', slot[a[1]] = a[2] PROVE slot'[a[1]] = a[2] OBVIOUS
  <2>1. a = <<a[1], a[2]>> /\ a[1] \in Cards /\ a # <<c, o>> BY <1>1, <1>2
  <2>2. a[1] # c \/ a[2] # o BY <2>1
  <2> QED BY <1>1, <1>2, <2>1, <2>2 DEF FreedSlot
<1>5. Waits BY <1>2, KickedWaits
<1>6. NoClaim BY <1>2, SameRows
<1> QED BY <1>2, <1>3, <1>4, <1>5, <1>6, QuietShared

\* The lease reconciler settles the attempt or records the intent to cancel it.
LEMMA LeaseShared ==
    ASSUME Inv, Shared, StepOK, NEW c \in Cards, Lease(c)
    PROVE  Shared'
<1>1. /\ Typed /\ latest[c] \in Ordinals /\ att \in [Cards -> [Ordinals -> Attempt]]
      /\ lanes' = lanes /\ slot' = slot /\ pump' = pump
  BY DEF Inv, Typed, Lease, LeaseExpires, CancelRequested, CancelResolves
<1>2. Waits BY <1>1, KickedWaits
<1>3. NoClaim
  <2>1. CASE LeaseExpires(c) \/ CancelResolves(c)
    <3>1. settleCleanup(c, latest[c], "timed_out") \/ settleCleanup(c, latest[c], "cancelled")
      BY <2>1 DEF LeaseExpires, CancelResolves
    <3>2. "timed_out" \in Terminal /\ "cancelled" \in Terminal BY DEF Terminal
    <3> QED BY <1>1, <3>1, <3>2, CleanupSettles
  <2>2. CASE CancelRequested(c)
    <3> DEFINE o == latest[c]
               a == [att[c][o] EXCEPT !.lc = "cancel_requested"]
    <3>1. /\ a.lc = "cancel_requested" /\ a.reserved = att[c][o].reserved /\ a.charged = att[c][o].charged
          /\ att[c][o].lc \in Active /\ att[c][o].lc \notin Terminal
      BY <1>1, <2>2 DEF CancelRequested, Latest, Attempt, Active, Terminal
    <3>2. att' = WithAttempt(c, o, a) /\ used' = used BY <2>2 DEF CancelRequested, Latest
    <3> HIDE DEF a
    <3>3. /\ att'[c][o] = a
          /\ \A d \in Cards, p \in Ordinals : d # c \/ p # o => att'[d][p] = att[d][p]
      BY <1>1, <3>2 DEF WithAttempt
    <3>4. \A d \in Cards, p \in Ordinals : Stays(d, p)
      BY <3>1, <3>3 DEF Stays, Active, Terminal
    <3> QED BY <3>2, <3>4 DEF NoClaim, NothingBooked
  <2> QED BY <2>1, <2>2 DEF Lease
<1> QED BY <1>1, <1>2, <1>3, SameSlots

\* A decision and the pending successor it allocates book nothing.
LEMMA RetryShared ==
    ASSUME Inv, Shared, StepOK, NEW c \in Cards, NEW decision \in {"retry", "review", "stop"}, NEW backoff \in BOOLEAN,
           handleSupervisedRetry(c, decision, backoff)
    PROVE  Shared'
<1> DEFINE o == latest[c]
           a == [att[c][o] EXCEPT !.decision = decision]
           w == WithAttempt(c, o, a)
           n == o + 1
           fresh == [NewAttempt EXCEPT !.reservation = "active"]
<1>1. /\ Typed /\ o \in Ordinals /\ att \in [Cards -> [Ordinals -> Attempt]]
      /\ lanes' = lanes /\ slot' = slot /\ used' = used
  BY DEF Inv, Typed, handleSupervisedRetry
<1>2. att' = w \/ att' = [w EXCEPT ![c][n] = fresh]
  BY DEF handleSupervisedRetry, AllocateTarget, Latest
<1>3. \E b : pump' \in {pump, KickIf(pump, b)}
  <2>1. pump' = pump \/ \E b : pump' = KickIf(pump, b) BY DEF handleSupervisedRetry, cascadeFail
  <2> QED BY <2>1
<1>4. a \in Attempt /\ a.lc = att[c][o].lc /\ a.reserved = att[c][o].reserved /\ a.charged = att[c][o].charged
  <2> DEFINE old == att[c][o]
  <2>1. old \in Attempt BY <1>1
  <2> HIDE DEF old
  <2>2. [old EXCEPT !.decision = decision] \in Attempt BY <2>1 DEF Attempt
  <2> QED BY <2>1, <2>2 DEF old, Attempt
<1>5. /\ fresh.lc = "pending" /\ fresh.reserved = 0 /\ fresh.charged = 0
      /\ NoAttempt.lc = "absent" /\ NoAttempt.reserved = 0 /\ NoAttempt.charged = 0
  BY DEF NewAttempt, NoAttempt
<1>6. o \in Nat /\ n > o /\ n # o BY <1>1, OrdinalFacts
<1>7. \A p \in Ordinals : p = n => att[c][p] = NoAttempt
  BY <1>6 DEF Inv, Lineage, OneLiveAttempt
<1> HIDE DEF a, fresh, n
<1>8. /\ w \in [Cards -> [Ordinals -> Attempt]] /\ w[c][o] = a
      /\ \A d \in Cards, p \in Ordinals : d # c \/ p # o => w[d][p] = att[d][p]
  BY <1>1, <1>4 DEF WithAttempt
<1> HIDE DEF w
<1>9. \A d \in Cards, p \in Ordinals :
          [w EXCEPT ![c][n] = fresh][d][p] = IF d = c /\ p = n THEN fresh ELSE w[d][p]
  BY <1>8
<1>10. \A d \in Cards, p \in Ordinals :
          att'[d][p] = w[d][p] \/ (d = c /\ p = n /\ att'[d][p] = fresh)
  BY <1>2, <1>9
<1>11. \A d \in Cards, p \in Ordinals : Stays(d, p)
  <2> SUFFICES ASSUME NEW d \in Cards, NEW p \in Ordinals PROVE Stays(d, p) OBVIOUS
  <2>1. CASE d = c /\ p = n /\ att'[d][p] = fresh
    BY <1>5, <1>7, <2>1 DEF Stays, Active, Terminal
  <2>2. CASE att'[d][p] = w[d][p] BY <1>4, <1>8, <2>2 DEF Stays
  <2> QED BY <1>10, <2>1, <2>2
<1>12. NoClaim BY <1>1, <1>11 DEF NoClaim, NothingBooked
<1>13. Waits BY <1>3, KickedWaits
<1> QED BY <1>1, <1>12, <1>13, SameSlots

\* Passes of the cards, timers and the root touch no attempt.
LEMMA OtherShared ==
    ASSUME Inv, Shared, StepOK,
           \/ \E c \in Cards : ReconcileCard(c) \/ BackoffElapses(c) \/ HoldElapses(c)
           \/ RootDeadlinePasses \/ \E to \in {"executing", "reviewing", "terminal"} : RootMoves(to)
           \/ UNCHANGED vars
    PROVE  Shared'
<1>1. att' = att /\ used' = used /\ lanes' = lanes /\ slot' = slot
  BY DEF ReconcileCard, BackoffElapses, HoldElapses, RootMoves, RootDeadlinePasses, vars
<1>2. \E b : pump' \in {pump, KickIf(pump, b)}
  <2>1. pump' = pump \/ \E b : pump' = KickIf(pump, b)
    BY DEF ReconcileCard, BackoffElapses, HoldElapses, RootMoves, RootDeadlinePasses, vars
  <2> QED BY <2>1
<1>3. Waits BY <1>2, KickedWaits
<1> QED BY <1>1, <1>3, SameRows, SameSlots

\* runAttemptRecovery: what an attempt held is what it is charged.
LEMMA RecoveryBooks ==
    ASSUME Typed, NEW c \in Cards, Lost(c)
    PROVE  LET o == latest[c]
               row == Settled(c, o, "timed_out", NoUsage, "none")[c]
           IN  /\ row[o].lc = "timed_out" /\ row[o].reserved = att[c][o].reserved
               /\ row[o].charged = att[c][o].reserved
               /\ \A p \in Ordinals : p # o => row[p] = att[c][p]
<1> DEFINE o == latest[c]
           old == att[c][o]
           ticket == IF old.reservation \in {"active", "claimed"} THEN "consumed" ELSE old.reservation
           b == [old EXCEPT !.lc = "timed_out", !.charged = old.reserved]
           a == [b EXCEPT !.result = "absence", !.reservation = ticket]
           w == WithAttempt(c, o, a)
<1>1. att \in [Cards -> [Ordinals -> Attempt]] /\ old \in Attempt /\ o \in Ordinals BY DEF Typed
<1>2. Charge(c, o, NoUsage) = old.reserved BY DEF Charge
<1>3. Settled(c, o, "timed_out", NoUsage, "none") = w
  <2>1. Settled(c, o, "timed_out", NoUsage, "none") =
            WithAttempt(c, o, [old EXCEPT !.lc = "timed_out", !.charged = old.reserved,
                                          !.result = "absence", !.reservation = ticket])
    BY <1>1, <1>2 DEF Settled, Attempt
  <2> QED BY <2>1
<1>4. a.lc = "timed_out" /\ a.charged = old.reserved /\ a.reserved = old.reserved
  <2>1. b.lc = "timed_out" /\ b.charged = old.reserved /\ b.reserved = old.reserved
        /\ DOMAIN b = {"lc", "reserved", "charged", "reservation", "result", "decision"}
    BY <1>1 DEF Attempt
  <2> HIDE DEF b, ticket
  <2> QED BY <2>1
<1> HIDE DEF a
<1>5. w[c][o] = a /\ \A p \in Ordinals : p # o => w[c][p] = att[c][p]
  BY <1>1 DEF WithAttempt
<1> HIDE DEF w
<1> QED BY <1>3, <1>4, <1>5

\* A restart charges every lost attempt what it held; its slots and lanes are gone.
LEMMA CrashShared ==
    ASSUME Inv, Shared, StepOK, Crash
    PROVE  Shared'
<1> DEFINE row(c) == Settled(c, latest[c], "timed_out", NoUsage, "none")[c]
           L == {c \in Cards : Lost(c)}
           g == [c \in Cards |-> Charge(c, latest[c], NoUsage)]
           p == [c \in Cards |-> <<c, latest[c]>>]
           z == [c \in Cards |-> 0]
           P == {p[c] : c \in L}
           D == Rows \ P
           h == HeldOf
           k == HeldOf'
           v == OverrunOf
           x == OverrunOf'
<1>1. /\ Typed /\ Typed' /\ DoneStays /\ Booked /\ BudgetHeld
      /\ att \in [Cards -> [Ordinals -> Attempt]] /\ latest \in [Cards -> Ordinals]
  BY DEF Inv, StepOK, Shared, Typed
<1>2. /\ att' = [c \in Cards |-> IF Lost(c) THEN row(c) ELSE att[c]]
      /\ used' = used + SumFunctionOnSet(g, L)
      /\ slot' = [c \in Cards |-> 0] /\ lanes' = {} /\ pump' = NewPump
  BY DEF Crash
<1>3. \A c \in Cards : Lost(c) =>
         /\ row(c)[latest[c]].lc = "timed_out"
         /\ row(c)[latest[c]].reserved = att[c][latest[c]].reserved
         /\ row(c)[latest[c]].charged = att[c][latest[c]].reserved
         /\ \A q \in Ordinals : q # latest[c] => row(c)[q] = att[c][q]
  BY <1>1, RecoveryBooks, Zenon
<1> HIDE DEF row
<1>4. \A c \in Cards, q \in Ordinals :
         IF Lost(c) /\ q = latest[c]
         THEN /\ att'[c][q].lc = "timed_out" /\ att'[c][q].reserved = att[c][q].reserved
              /\ att'[c][q].charged = att[c][q].reserved
              /\ att[c][q].lc \in Active
         ELSE att'[c][q] = att[c][q]
  BY <1>2, <1>3 DEF Lost, Latest
<1>5. \A c \in L : c \in Cards /\ Lost(c) /\ p[c] = <<c, latest[c]>> /\ p[c] \in Rows
                   /\ g[c] = att[c][latest[c]].reserved /\ z[c] = 0
  BY <1>1 DEF Rows, Charge
<1>6. \A c \in Cards, q \in Ordinals : <<c, q>> \in P <=> Lost(c) /\ q = latest[c]
  BY <1>5
<1>7. BudgetFacts /\ BudgetFacts' BY <1>1, BudgetSums, BudgetSumsNext
<1>8. \A c \in Cards, q \in Ordinals :
         /\ h[<<c, q>>] = Held(c, q) /\ k[<<c, q>>] = Held(c, q)'
         /\ v[<<c, q>>] = Overrun(c, q) /\ x[<<c, q>>] = Overrun(c, q)'
  BY <1>7 DEF BudgetFacts
<1>9. \A c \in Cards, q \in Ordinals :
         /\ Lost(c) /\ q = latest[c] => Held(c, q) = att[c][q].reserved /\ Held(c, q)' = 0
         /\ ~(Lost(c) /\ q = latest[c]) => Held(c, q)' = Held(c, q)
         /\ Overrun(c, q)' = Overrun(c, q)
  <2> SUFFICES ASSUME NEW c \in Cards, NEW q \in Ordinals
               PROVE  /\ Lost(c) /\ q = latest[c] => Held(c, q) = att[c][q].reserved /\ Held(c, q)' = 0
                      /\ ~(Lost(c) /\ q = latest[c]) => Held(c, q)' = Held(c, q)
                      /\ Overrun(c, q)' = Overrun(c, q)
    OBVIOUS
  <2>1. CASE Lost(c) /\ q = latest[c]
    <3>1. att[c][q].lc \notin Terminal BY <1>4, <2>1 DEF Active, Terminal
    <3>2. att[c][q].charged = 0 /\ att[c][q].reserved \in Nat BY <1>1, <3>1, RowNumbers DEF Booked
    <3>3. Overrun(c, q) = 0 /\ Overrun(c, q)' = 0 BY <1>4, <2>1, <3>2 DEF Overrun
    <3> QED BY <1>4, <2>1, <3>3 DEF Held, Active
  <2>2. CASE ~(Lost(c) /\ q = latest[c])
    BY <1>4, <2>2 DEF Held, Overrun
  <2> QED BY <2>1, <2>2
<1>10. /\ IsFiniteSet(L) /\ IsFiniteSet(D) /\ D \in SUBSET Rows
  <2>1. L \in SUBSET Cards /\ D \in SUBSET Rows OBVIOUS
  <2> HIDE DEF L, D
  <2> QED BY <2>1, RowsFinite, SwarmAssumption, FS_Subset DEF SwarmAssumption
<1>11. /\ \A y \in Rows : h[y] \in Nat /\ k[y] \in Nat /\ v[y] \in Nat /\ x[y] = v[y]
       /\ \A y \in D : k[y] = h[y]
       /\ \A c \in L : g[c] = h[p[c]] /\ z[c] = k[p[c]]
  <2>1. \A y \in Rows : h[y] \in Nat /\ k[y] \in Nat /\ v[y] \in Nat BY <1>7 DEF BudgetFacts
  <2>2. \A c \in Cards, q \in Ordinals : x[<<c, q>>] = v[<<c, q>>] BY <1>8, <1>9
  <2>3. \A c \in Cards, q \in Ordinals : <<c, q>> \notin P => k[<<c, q>>] = h[<<c, q>>]
    <3> SUFFICES ASSUME NEW c \in Cards, NEW q \in Ordinals, <<c, q>> \notin P
                 PROVE  k[<<c, q>>] = h[<<c, q>>]
      OBVIOUS
    <3>1. ~(Lost(c) /\ q = latest[c]) BY <1>6
    <3>2. Held(c, q)' = Held(c, q) BY <1>9, <3>1
    <3> QED BY <1>8, <3>2
  <2>4. \A c \in L : g[c] = h[p[c]] /\ z[c] = k[p[c]]
    <3> SUFFICES ASSUME NEW c \in L PROVE g[c] = h[p[c]] /\ z[c] = k[p[c]] OBVIOUS
    <3>1. c \in Cards /\ Lost(c) /\ latest[c] \in Ordinals BY <1>1
    <3>2. h[<<c, latest[c]>>] = att[c][latest[c]].reserved /\ k[<<c, latest[c]>>] = 0
      BY <1>8, <1>9, <3>1
    <3> QED BY <1>5, <3>2
  <2> HIDE DEF h, k, v, x, P
  <2> QED BY <2>1, <2>2, <2>3, <2>4 DEF Rows
<1>12. \A c, d \in L : p[c] = p[d] => c = d BY <1>5
<1> HIDE DEF h, k, v, x, g, z, p, L
<1>13. SumFunctionOnSet(g, L) + SumFunctionOnSet(h, D) = SumFunctionOnSet(h, Rows)
  BY <1>5, <1>10, <1>11, <1>12, RowsFinite, SumMove
<1>14. SumFunctionOnSet(z, L) + SumFunctionOnSet(k, D) = SumFunctionOnSet(k, Rows)
  BY <1>5, <1>10, <1>11, <1>12, RowsFinite, SumMove
<1>15. SumFunctionOnSet(z, L) = 0 BY <1>5, <1>10, SumZero
<1> HIDE DEF D
<1>16. SumFunctionOnSet(k, D) = SumFunctionOnSet(h, D) BY <1>10, <1>11, SumSame
<1>17. SumFunctionOnSet(x, Rows) = SumFunctionOnSet(v, Rows) BY <1>11, RowsFinite, SumSame
<1>18. SumFunctionOnSet(g, L) \in Nat /\ SumFunctionOnSet(h, D) \in Nat
  <2>1. \A c \in L : g[c] \in Nat BY <1>5, <1>11
  <2>2. L \in SUBSET L OBVIOUS
  <2> QED BY <1>10, <1>11, <2>1, <2>2, SumType
<1>19. Booked'
  <2>1. used' \in Nat BY <1>1, <1>2, <1>18 DEF Booked
  <2> QED BY <1>1, <1>4, <2>1 DEF Booked, Terminal
<1>20. BudgetHeld'
  <2>1. /\ ActiveReserved = SumFunctionOnSet(h, Rows) /\ ActiveReserved' = SumFunctionOnSet(k, Rows)
        /\ Overruns = SumFunctionOnSet(v, Rows) /\ Overruns' = SumFunctionOnSet(x, Rows)
    BY <1>7 DEF BudgetFacts, Overruns, h, k, v, x
  <2>2. /\ Overruns \in Nat /\ used \in Nat
        /\ Cap # NoCap => used + ActiveReserved <= Cap + Overruns
        /\ BudgetHeld' <=> (Cap # NoCap => used' + ActiveReserved' <= Cap + Overruns')
    BY <1>1, <1>7 DEF BudgetFacts, Booked
  <2>3. used' + ActiveReserved' = used + ActiveReserved
    BY <1>2, <1>13, <1>14, <1>15, <1>16, <1>18, <2>1, <2>2
  <2> QED BY <1>17, <2>1, <2>2, <2>3
<1>21. ClaimedUnblocked'
  <2>1. ASSUME NEW d \in Cards, NEW q \in Ordinals, att'[d][q].lc \in Active PROVE isUnblocked(d)'
    <3>1. att[d][q].lc \in Active BY <1>4, <2>1 DEF Active
    <3>2. isUnblocked(d) BY <3>1 DEF Shared, ClaimedUnblocked
    <3> QED BY <1>1, <3>2, UnblockedStays
  <2> QED BY <1>2, <2>1 DEF ClaimedUnblocked, NewPump
<1>22. Room' /\ StartIsAlone' /\ RunningHoldsSlot' /\ lanes' \subseteq Cards \X Ordinals
  <2>1. Occupied' = {} BY <1>2 DEF Occupied
  <2>2. Cardinality(Occupied') = 0 BY <2>1, FS_EmptySet
  <2>3. ExecutorMax \in Nat BY SwarmAssumption DEF SwarmAssumption
  <2> QED BY <1>2, <2>2, <2>3 DEF Room, StartIsAlone, RunningHoldsSlot, NewPump
<1> QED BY <1>19, <1>20, <1>21, <1>22 DEF Shared

----------------------------------------------------------------------------
(* The theorems.                                                           *)

\* Nothing is running and nothing is booked in the initial states.
LEMMA InitShared == Init => Shared
<1> SUFFICES ASSUME Init PROVE Shared OBVIOUS
<1>1. Typed BY InitInv DEF Inv
<1>2. /\ NewAttempt.lc = "pending" /\ NewAttempt.reserved = 0 /\ NewAttempt.charged = 0
      /\ NoAttempt.lc = "absent" /\ NoAttempt.reserved = 0 /\ NoAttempt.charged = 0
  BY DEF NewAttempt, NoAttempt
<1>3. \A c \in Cards, o \in Ordinals : att[c][o] = IF o = 1 THEN NewAttempt ELSE NoAttempt
  BY DEF Init
<1>4. \A c \in Cards, o \in Ordinals :
         /\ att[c][o].lc \in {"pending", "absent"} /\ att[c][o].reserved = 0 /\ att[c][o].charged = 0
  BY <1>2, <1>3
<1>5. Booked BY <1>4 DEF Booked, Init
<1>6. BudgetHeld
  <2>1. BudgetFacts BY <1>1, BudgetSums
  <2>2. \A y \in Rows : HeldOf[y] = 0
    <3>1. \A c \in Cards, o \in Ordinals : Held(c, o) = 0 BY <1>4 DEF Held
    <3> QED BY <3>1 DEF HeldOf, Rows
  <2>3. ActiveReserved = 0 BY <2>1, <2>2, RowsFinite, SumZero DEF BudgetFacts
  <2>4. Cap # NoCap => Cap \in Nat BY SwarmAssumption DEF SwarmAssumption
  <2>5. Overruns \in Nat /\ (BudgetHeld <=> (Cap # NoCap => used + ActiveReserved <= Cap + Overruns))
    BY <2>1 DEF BudgetFacts
  <2> QED BY <2>3, <2>4, <2>5 DEF Init
<1>7. Room
  <2>1. Occupied = {} BY DEF Init, Occupied
  <2>2. Cardinality(Occupied) = 0 BY <2>1, FS_EmptySet
  <2>3. ExecutorMax \in Nat BY SwarmAssumption DEF SwarmAssumption
  <2> QED BY <2>2, <2>3 DEF Init, NewPump, Room
<1>8. ClaimedUnblocked /\ StartIsAlone
  BY <1>4 DEF ClaimedUnblocked, StartIsAlone, Init, NewPump, Active
<1>9. lanes = {} BY DEF Init
<1> QED BY <1>5, <1>6, <1>7, <1>8, <1>9 DEF Shared, RunningHoldsSlot

\* Every step keeps what is shared.
LEMMA NextShared == Inv /\ Shared /\ [Next]_vars => Inv' /\ Shared'
<1> SUFFICES ASSUME Inv, Shared, [Next]_vars PROVE Inv' /\ Shared' OBVIOUS
<1>1. StepOK BY NextStep
<1> SUFFICES Shared' BY <1>1 DEF StepOK
<1>2. CASE PumpStep \/ ResourceReleased
  BY <1>1, <1>2, PassShared, VisitShared, CapacityShared, StartSucceedsShared, StartEndsShared DEF PumpStep
<1>3. ASSUME NEW c \in Cards, Reconcile(c) \/ Lease(c)
      PROVE  Shared'
  BY <1>1, <1>3, OtherShared, RetryShared, LeaseShared DEF Reconcile
<1>4. ASSUME NEW c \in Cards, NEW o \in Ordinals, Executor(c, o) \/ LaneCloses(c, o)
      PROVE  Shared'
  BY <1>1, <1>4, ExecutorShared, CloseShared
<1>5. CASE \/ \E c \in Cards : BackoffElapses(c) \/ HoldElapses(c)
           \/ RootDeadlinePasses \/ \E to \in {"executing", "reviewing", "terminal"} : RootMoves(to)
           \/ UNCHANGED vars
  BY <1>1, <1>5, OtherShared
<1>6. CASE Crash BY <1>1, <1>6, CrashShared
<1> QED BY <1>2, <1>3, <1>4, <1>5, <1>6 DEF Next

\* What is shared holds of every reachable state.
LEMMA SpecShared == Spec => [](Inv /\ Shared)
BY InitInv, InitShared, NextShared, PTL DEF Spec

\* No worker of any dependency graph is active before the cards it depends on are
\* done, although the check and the claim are separated by an await (dispatchOnePass).
THEOREM DependenciesDoneHolds == Spec => []DependenciesDone
<1>1. Inv /\ Shared => DependenciesDone
  BY DEF Inv, Typed, Shared, ClaimedUnblocked, DependenciesDone, Latest, isUnblocked
<1> QED BY SpecShared, <1>1, PTL

\* A start always finds a free slot, for any capacity and number of cards, although
\* lanes open and close between the sample and the start (dispatchOnePass).
THEOREM SlotIsFreeHolds == Spec => []SlotIsFree
<1>1. Inv /\ Shared => SlotIsFree
  <2> SUFFICES ASSUME Inv, Shared, pump.at = "start" PROVE Cardinality(Occupied) < ExecutorMax
    BY DEF SlotIsFree
  <2>1. pump.avail \in Nat /\ StartingNow = 1
    BY DEF Inv, Typed, Pump, Shared, Room, StartingNow
  <2>2. Cardinality(Occupied) \in Nat /\ ExecutorMax \in Nat
    BY OccupiedFinite, SwarmAssumption DEF SwarmAssumption
  <2> QED BY <2>1, <2>2 DEF Shared, Room
<1> QED BY SpecShared, <1>1, PTL

\* A running attempt owns the slot of its card, whichever superseded lanes of the card
\* are still closing (releaseOwnedCard).
THEOREM RunningHoldsSlotHolds == Spec => []RunningHoldsSlot
<1>1. Inv /\ Shared => RunningHoldsSlot BY DEF Shared
<1> QED BY SpecShared, <1>1, PTL

\* Used and reserved tokens exceed the cap of a project only by what executions
\* reported beyond their own reservation, for any number of children, retries and
\* restarts (claimAttemptWithinLimits, settleAttemptInTransaction).
THEOREM BudgetHeldHolds == Spec => []BudgetHeld
<1>1. Inv /\ Shared => BudgetHeld BY DEF Shared
<1> QED BY SpecShared, <1>1, PTL
=============================================================================
