------------------------- MODULE ScheduledRunProofs -------------------------
(***************************************************************************)
(* Proofs about ScheduledRun for any tasks, schedules, limits and numbers  *)
(* of runs and faults: a closed run has its history, what was recorded     *)
(* never changes, a lane is held by a live run or by one whose settlement  *)
(* threw, a failure is reported once, a cancellation that was acknowledged *)
(* and stored is what the run ends as, and a run group has at most one     *)
(* retry.                                                                  *)
(*                                                                         *)
(* The chains of the model are operators from world to world.  Good is     *)
(* what the rows, the history and the task states keep among themselves,   *)
(* Queue what the lanes keep, Keeps what no chain undoes.  Chains are put  *)
(* together from links that do one of three things to the run rows: they   *)
(* move them (Moves), close one (Closes), or reserve the next one.         *)
(***************************************************************************)
EXTENDS ScheduledRun, NumberTheorems, FiniteSetTheorems, SequenceTheorems, TLAPS

Fields == {"st", "row", "used", "hist", "lane", "handles", "adapter", "reported", "torn"}
RowFields == {"task", "trigger", "attempt", "group", "phase", "ceil", "idle", "req",
              "grace", "live", "owned", "card"}
TaskFields == {"next", "retryAt", "retrying", "retryGroup", "fails", "paused", "cool",
               "resumes", "deferred", "completed"}

\* The state of a task, as far as the proof looks at it
StateTyped(s) ==
    /\ DOMAIN s = TaskFields
    /\ s.retrying \in BOOLEAN
    /\ DOMAIN s.deferred = {"attempts", "group", "ceil", "retryAt"}
    /\ s.deferred.attempts \in Nat

\* The columns of the rows, and runs that were given out only
Shape(w) ==
    /\ DOMAIN w = Fields
    /\ w.used \in 0..MaxRuns
    /\ DOMAIN w.st = Tasks /\ \A t \in Tasks : StateTyped(w.st[t])
    /\ DOMAIN w.row = RunIds /\ \A r \in RunIds : DOMAIN w.row[r] = RowFields
    /\ \A r \in 1..w.used : /\ w.row[r].task \in Tasks
                            /\ w.row[r].req \in {"none", "cancelled", "deadline"}
                            /\ w.row[r].live \in BOOLEAN
    /\ DOMAIN w.hist = RunIds /\ DOMAIN w.reported = RunIds /\ DOMAIN w.adapter = RunIds
    /\ DOMAIN w.lane = Lanes /\ \A l \in Lanes : DOMAIN w.lane[l] = {"current", "pending"}
    /\ w.handles \subseteq 1..w.used

Failures == {"failed", "timed_out", "definition_failed", "cancelled", "deferred"}
Categories == {"admission", "definition", "routing", "dependency", "execution", "validation",
               "interruption", "delivery", "supervision"}

\* An outcome and its diagnostic: only a deferral leads to a deferral
EntryTyped(e) ==
    /\ e.outcome \in {"success", "noop", "unknown"} \cup Failures
    /\ e.outcome \in Failures => e.diag.category \in Categories
    /\ e.outcome \in Failures /\ e.diag.category = "admission" =>
          e.outcome = "deferred" \/ (e.outcome = "failed" /\ e.diag.code = "executor_unavailable")

\* A run is closed after its outcome is recorded, and reported with it
History(w) ==
    /\ \A r \in RunIds :
          /\ w.hist[r].outcome # "none" => r <= w.used /\ EntryTyped(w.hist[r])
          /\ w.reported[r] \in {0, 1}
          /\ w.reported[r] = 1 => w.hist[r].outcome \in {"failed", "timed_out"}
    /\ \A r \in 1..w.used : ~w.row[r].live => w.hist[r].outcome # "none"

\* The runs of a group that ended in anything but a deferral
Ended(w, g) == {r \in 1..w.used : w.row[r].group = g /\ w.hist[r].outcome \notin {"none", "deferred"}}
AtMostOne(S) == \A x, y \in S : x = y

\* A first attempt finds no other ended run in its group, a second attempt at most
\* one, and is live only while its task is retrying; a manual run has its group to itself
LiveRun(w, r) ==
    LET run == w.row[r]
        others == Ended(w, run.group) \ {r}
    IN  /\ run.attempt \in {1, 2}
        /\ AtMostOne(others)
        /\ run.attempt = 1 => others = {}
        /\ run.attempt = 2 /\ run.trigger # "manual" => w.st[run.task].retrying
        /\ run.trigger = "manual" => run.group = r /\ \A s \in 1..w.used : w.row[s].group = r => s = r

\* A group has room for the next run of its task, with the ended runs in it
Room(w, t, group, ended) ==
    /\ group \in 1..w.used /\ w.row[group].task = t
    /\ AtMostOne(ended)
    /\ w.st[t].retrying \/ ended = {}
    /\ \A r \in Active(w, t) : w.row[r].trigger = "manual" => group # r

\* The groups that the next run of a task may continue have room for it
Continued(w, t) ==
    LET s == w.st[t]
    IN  /\ s.retrying => Room(w, t, s.retryGroup, Ended(w, s.retryGroup) \ Active(w, t))
        /\ s.deferred.attempts # 0 => Room(w, t, s.deferred.group, Ended(w, s.deferred.group) \ Active(w, t))

\* A group belongs to one task, which has one live run at most
Groups(w) ==
    /\ \A g \in 1..w.used : \A x, y, z \in Ended(w, g) : x = y \/ y = z \/ x = z
    /\ \A r \in 1..w.used : w.row[r].group \in 1..w.used /\ w.row[w.row[r].group].task = w.row[r].task
    /\ \A r, s \in 1..w.used : w.row[r].live /\ w.row[s].live /\ w.row[r].task = w.row[s].task => r = s
    /\ \A r \in 1..w.used : w.row[r].live => LiveRun(w, r)
    /\ \A t \in Tasks : Continued(w, t)

Good(w) == Shape(w) /\ History(w) /\ Groups(w)

\* A lane queues the runs of its trigger and is held by a live one, by the one that
\* is being settled, or by one whose settlement threw
Belongs(w, r, l) == r \in 1..w.used /\ (w.row[r].trigger = "manual" <=> l = "manual")

Queue(w, settling) ==
    \A l \in Lanes :
        LET q == w.lane[l]
        IN  /\ q.current # 0 => Belongs(w, q.current, l) /\ (w.row[q.current].live \/ q.current \in settling \cup w.torn)
            /\ q.pending \in Seq(1..w.used) /\ \A i \in 1..Len(q.pending) : Belongs(w, q.pending[i], l)

\* A cancellation that was acknowledged and stored is waiting to be recorded, or was
Acknowledged ==
    \A r \in acked :
        /\ r \in 1..used
        /\ hist[r].outcome \in {"none", "cancelled"}
        /\ hist[r].outcome = "none" => row[r].req = "cancelled"

IInv == Good(World) /\ Queue(World, {}) /\ Acknowledged

-----------------------------------------------------------------------------
(* What no chain undoes.                                                   *)

\* Recorded outcomes stay, closed runs stay closed, and a requested cancellation
\* waits for its outcome or is it
Keeps(w, v) ==
    /\ w.used <= v.used
    /\ \A r \in RunIds : w.hist[r].outcome # "none" => v.hist[r] = w.hist[r]
    /\ \A r \in 1..w.used :
          /\ ~w.row[r].live => ~v.row[r].live
          /\ w.row[r].req = "cancelled" /\ w.hist[r].outcome = "none" =>
                IF v.hist[r].outcome = "none" THEN v.row[r].req = "cancelled"
                ELSE v.hist[r].outcome = "cancelled"

\* What a chain does to good worlds
Applies(w, v) == Good(v) /\ Queue(v, {}) /\ Keeps(w, v)

\* Run ids are numbers, and those given out are run ids.
LEMMA Ids ==
    ASSUME NEW w, Shape(w)
    PROVE  /\ w.used \in Nat /\ MaxRuns \in Nat /\ RunIds = 1..MaxRuns
           /\ \A r \in 1..w.used : r \in RunIds /\ r \in Nat /\ r # 0
<1>1. MaxRuns \in Nat BY ScheduleAssumption DEF ScheduleAssumption
<1> QED BY <1>1 DEF Shape, RunIds

\* A sequence of the members of a set.
LEMMA SeqInto ==
    ASSUME NEW S, NEW T, NEW p \in Seq(S), \A j \in 1..Len(p) : p[j] \in T
    PROVE  p \in Seq(T)
<1>1. Len(p) \in Nat /\ p \in [1..Len(p) -> S] BY LenProperties
<1>2. p \in [1..Len(p) -> T] BY <1>1
<1> QED BY <1>1, <1>2, SeqDef

\* Chains compose.
LEMMA KeepsTrans ==
    ASSUME NEW u, NEW w, NEW v, Shape(u), Shape(w), Shape(v), Keeps(u, w), Keeps(w, v)
    PROVE  Keeps(u, v)
<1>1. u.used \in Nat /\ w.used \in Nat /\ v.used \in Nat /\ \A r \in 1..u.used : r \in RunIds BY Ids
<1>2. u.used <= v.used BY <1>1 DEF Keeps
<1>3. \A r \in RunIds : u.hist[r].outcome # "none" => v.hist[r] = u.hist[r] BY DEF Keeps
<1>4. ASSUME NEW r \in 1..u.used
      PROVE  /\ ~u.row[r].live => ~v.row[r].live
             /\ u.row[r].req = "cancelled" /\ u.hist[r].outcome = "none" =>
                   IF v.hist[r].outcome = "none" THEN v.row[r].req = "cancelled"
                   ELSE v.hist[r].outcome = "cancelled"
  <2>1. r \in 1..w.used /\ r \in RunIds BY <1>1 DEF Keeps
  <2>2. ~u.row[r].live => ~v.row[r].live BY <2>1 DEF Keeps
  <2>3. ASSUME u.row[r].req = "cancelled", u.hist[r].outcome = "none"
        PROVE  IF v.hist[r].outcome = "none" THEN v.row[r].req = "cancelled"
               ELSE v.hist[r].outcome = "cancelled"
    <3>1. CASE w.hist[r].outcome = "none"
      <4>1. w.row[r].req = "cancelled" BY <2>3, <3>1 DEF Keeps
      <4> QED BY <2>1, <3>1, <4>1 DEF Keeps
    <3>2. CASE w.hist[r].outcome # "none"
      <4>1. w.hist[r].outcome = "cancelled" BY <2>3, <3>2 DEF Keeps
      <4>2. v.hist[r] = w.hist[r] BY <2>1, <3>2 DEF Keeps
      <4> QED BY <4>1, <4>2
    <3> QED BY <3>1, <3>2
  <2> QED BY <2>2, <2>3
<1> QED BY <1>2, <1>3, <1>4 DEF Keeps

-----------------------------------------------------------------------------
(* Chains that close no run and reserve none.                              *)

\* A task's part in the groups is as it was, or was given up with no run live
SameState(w, v, t) ==
    \/ /\ v.st[t].retrying = w.st[t].retrying /\ v.st[t].retryGroup = w.st[t].retryGroup
       /\ v.st[t].deferred.attempts = w.st[t].deferred.attempts
       /\ v.st[t].deferred.group = w.st[t].deferred.group
    \/ Active(w, t) = {} /\ ~v.st[t].retrying /\ v.st[t].deferred.attempts = 0

SameRow(w, v, r) ==
    /\ v.row[r].task = w.row[r].task /\ v.row[r].trigger = w.row[r].trigger
    /\ v.row[r].attempt = w.row[r].attempt /\ v.row[r].group = w.row[r].group
    /\ v.row[r].live = w.row[r].live
    /\ w.row[r].req = "cancelled" => v.row[r].req = "cancelled"

Moves(w, v) ==
    /\ Shape(v) /\ v.used = w.used /\ v.hist = w.hist /\ v.reported = w.reported
    /\ \A r \in 1..w.used : SameRow(w, v, r)
    /\ \A t \in Tasks : SameState(w, v, t)

\* They are chains.
LEMMA MovesApply ==
    ASSUME NEW w, NEW v, Good(w), Moves(w, v)
    PROVE  Good(v) /\ Keeps(w, v)
<1>1. Shape(w) /\ Shape(v) /\ v.used = w.used /\ v.hist = w.hist BY DEF Good, Moves
<1>2. /\ w.used \in Nat
      /\ \A r \in 1..w.used : r \in RunIds
  BY <1>1, Ids
<1>3. \A r \in 1..w.used : /\ v.row[r].task = w.row[r].task /\ v.row[r].trigger = w.row[r].trigger
                           /\ v.row[r].attempt = w.row[r].attempt /\ v.row[r].group = w.row[r].group
                           /\ v.row[r].live = w.row[r].live
                           /\ w.row[r].req = "cancelled" => v.row[r].req = "cancelled"
  BY DEF Moves, SameRow
<1>4. History(v) BY <1>1, <1>3 DEF Good, History, Moves
<1>5. \A g : Ended(v, g) = Ended(w, g) BY <1>1, <1>3 DEF Ended
<1>6. \A t : Active(v, t) = Active(w, t) BY <1>1, <1>3 DEF Active
<1>7. \A r \in 1..w.used : w.row[r].live => w.row[r].task \in Tasks /\ r \in Active(w, w.row[r].task)
  BY <1>1 DEF Shape, Active
<1>8. ASSUME NEW r \in 1..v.used, v.row[r].live PROVE LiveRun(v, r)
  <2>1. r \in 1..w.used /\ w.row[r].live BY <1>1, <1>3, <1>8
  <2>2. LiveRun(w, r) BY <2>1 DEF Good, Groups
  <2>3. Ended(v, v.row[r].group) = Ended(w, w.row[r].group) BY <1>3, <1>5, <2>1
  <2>4. ASSUME w.row[r].attempt = 2, w.row[r].trigger # "manual" PROVE v.st[w.row[r].task].retrying
    <3>1. w.st[w.row[r].task].retrying BY <2>2, <2>4 DEF LiveRun
    <3>2. SameState(w, v, w.row[r].task) BY <1>7, <2>1 DEF Moves
    <3> QED BY <1>7, <2>1, <3>1, <3>2 DEF SameState
  <2>5. v.row[r].trigger = "manual" => \A s \in 1..v.used : v.row[s].group = r => s = r
    BY <1>1, <1>3, <2>1, <2>2 DEF LiveRun
  <2> QED BY <1>3, <2>1, <2>2, <2>3, <2>4, <2>5 DEF LiveRun
<1>9. ASSUME NEW t \in Tasks PROVE Continued(v, t)
  <2>1. Continued(w, t) BY DEF Good, Groups
  <2>2. SameState(w, v, t) BY DEF Moves
  <2>3. CASE Active(w, t) = {} /\ ~v.st[t].retrying /\ v.st[t].deferred.attempts = 0
    BY <2>3 DEF Continued
  <2>4. CASE /\ v.st[t].retrying = w.st[t].retrying /\ v.st[t].retryGroup = w.st[t].retryGroup
             /\ v.st[t].deferred.attempts = w.st[t].deferred.attempts
             /\ v.st[t].deferred.group = w.st[t].deferred.group
    <3>1. \A r \in Active(w, t) : r \in 1..w.used BY DEF Active
    <3>2. ASSUME NEW g, NEW E, Room(w, t, g, E) PROVE Room(v, t, g, E)
      BY <1>1, <1>3, <1>6, <2>4, <3>1, <3>2 DEF Room
    <3> QED BY <1>5, <1>6, <2>1, <2>4, <3>2 DEF Continued
  <2> QED BY <2>2, <2>3, <2>4 DEF SameState
<1>10. Groups(v)
  <2>1. \A g \in 1..v.used : \A x, y, z \in Ended(v, g) : x = y \/ y = z \/ x = z
    BY <1>1, <1>5 DEF Good, Groups
  <2>2. \A r \in 1..v.used : v.row[r].group \in 1..v.used /\ v.row[v.row[r].group].task = v.row[r].task
    BY <1>1, <1>3 DEF Good, Groups
  <2>3. \A r, s \in 1..v.used : v.row[r].live /\ v.row[s].live /\ v.row[r].task = v.row[s].task => r = s
    BY <1>1, <1>3 DEF Good, Groups
  <2> QED BY <1>8, <1>9, <2>1, <2>2, <2>3 DEF Groups
<1>11. Keeps(w, v) BY <1>1, <1>2, <1>3 DEF Keeps
<1> QED BY <1>1, <1>4, <1>10, <1>11 DEF Good

-----------------------------------------------------------------------------
(* Starting, queueing and stopping.                                        *)

\* What these leave alone
Serves(w, v) ==
    /\ Shape(v) /\ v.st = w.st /\ v.used = w.used /\ v.hist = w.hist /\ v.reported = w.reported /\ v.torn = w.torn
    /\ \A r \in 1..w.used : SameRow(w, v, r)

\* They move the rows, do nothing, or follow one another.
LEMMA ServesFacts ==
    /\ \A w, v : Serves(w, v) => Moves(w, v)
    /\ \A w : Shape(w) => Serves(w, w)
    /\ \A u, w, v : Serves(u, w) /\ Serves(w, v) => Serves(u, v)
<1>1. ASSUME NEW w, NEW v, Serves(w, v) PROVE Moves(w, v)
  BY <1>1 DEF Serves, Moves, SameState
<1>2. ASSUME NEW w, Shape(w) PROVE Serves(w, w)
  BY <1>2 DEF Serves, SameRow
<1>3. ASSUME NEW u, NEW w, NEW v, Serves(u, w), Serves(w, v) PROVE Serves(u, v)
  <2>1. \A r \in 1..u.used : SameRow(u, w, r) /\ SameRow(w, v, r) BY <1>3 DEF Serves
  <2>2. \A r \in 1..u.used : SameRow(u, v, r) BY <2>1 DEF SameRow
  <2> QED BY <1>3, <2>2 DEF Serves
<1> QED BY <1>1, <1>2, <1>3

\* The lanes keep what they keep when only rows are served.
LEMMA ServesQueue ==
    ASSUME NEW w, NEW v, NEW X, Serves(w, v), v.lane = w.lane, Queue(w, X)
    PROVE  Queue(v, X)
<1>1. /\ v.used = w.used /\ v.torn = w.torn
      /\ \A r \in 1..w.used : v.row[r].trigger = w.row[r].trigger /\ v.row[r].live = w.row[r].live
  BY DEF Serves, SameRow
<1>2. \A r, l : Belongs(w, r, l) => Belongs(v, r, l) BY <1>1 DEF Belongs
<1>3. \A r, l : Belongs(w, r, l) => v.row[r].live = w.row[r].live BY <1>1 DEF Belongs
<1> QED BY <1>1, <1>2, <1>3 DEF Queue

\* An update of one row that keeps its identity.
LEMMA RowServes ==
    ASSUME NEW w, NEW v, Shape(w), NEW r \in RunIds,
           v.st = w.st, v.used = w.used, v.hist = w.hist, v.reported = w.reported /\ v.torn = w.torn,
           v.lane = w.lane, v.handles = w.handles, v.adapter = w.adapter,
           DOMAIN v = Fields, DOMAIN v.row = RunIds,
           \A s \in RunIds : s # r => v.row[s] = w.row[s],
           DOMAIN v.row[r] = RowFields, SameRow(w, v, r),
           v.row[r].req \in {w.row[r].req, "cancelled", "deadline"}
    PROVE  Serves(w, v)
<1>1. \A s \in 1..w.used : s \in RunIds BY Ids
<1>2. \A s \in 1..w.used : SameRow(w, v, s) BY <1>1 DEF SameRow
<1>3. \A s \in 1..w.used : v.row[s].req \in {"none", "cancelled", "deadline"} BY <1>1 DEF Shape
<1>4. \A s \in RunIds : DOMAIN v.row[s] = RowFields BY DEF Shape
<1>5. Shape(v) BY <1>2, <1>3, <1>4 DEF Shape, SameRow
<1> QED BY <1>2, <1>5 DEF Serves

\* Progress and phases change nothing else.
LEMMA AdvanceServes ==
    ASSUME NEW w, Shape(w), NEW r \in RunIds, NEW phase, NEW progress \in BOOLEAN
    PROVE  LET v == advanceRun(w, r, phase, progress)
           IN  Serves(w, v) /\ v.lane = w.lane /\ v.handles = w.handles /\ v.adapter = w.adapter
<1> DEFINE p == IF phase = "same" THEN w.row[r].phase ELSE phase
           i == IF progress THEN IdleBudget ELSE w.row[r].idle
           u == [w EXCEPT !.row[r].phase = p, !.row[r].idle = i]
<1>1. advanceRun(w, r, phase, progress) \in {w, u}
  <2>1. [w EXCEPT !.row[r].phase = p, !.row[r].idle = IF progress THEN IdleBudget ELSE @] = u BY DEF Shape, Fields
  <2> QED BY <2>1 DEF advanceRun
<1>2. Serves(w, u) /\ u.lane = w.lane /\ u.handles = w.handles /\ u.adapter = w.adapter
  <2>1. DOMAIN w = Fields /\ DOMAIN w.row = RunIds /\ DOMAIN w.row[r] = RowFields BY DEF Shape
  <2>2. /\ u.st = w.st /\ u.used = w.used /\ u.hist = w.hist /\ u.reported = w.reported /\ u.torn = w.torn
        /\ u.lane = w.lane /\ u.handles = w.handles /\ u.adapter = w.adapter
        /\ DOMAIN u = Fields /\ DOMAIN u.row = RunIds
        /\ \A s \in RunIds : s # r => u.row[s] = w.row[s]
    BY <2>1 DEF Fields
  <2>3. DOMAIN u.row[r] = RowFields /\ SameRow(w, u, r) /\ u.row[r].req = w.row[r].req
    BY <2>1 DEF Fields, RowFields, SameRow
  <2> HIDE DEF u
  <2> QED BY <2>2, <2>3, RowServes
<1> HIDE DEF u
<1> QED BY <1>1, <1>2, ServesFacts

\* A request to end a run: a requested cancellation stays.
LEMMA RequestServes ==
    ASSUME NEW w, Shape(w), NEW r \in RunIds, NEW req \in {"cancelled", "deadline"}, NEW lost \in BOOLEAN
    PROVE  LET v == requestRunTerminal(w, r, req, lost)
           IN  Serves(w, v) /\ v.lane = w.lane /\ v.handles = w.handles /\ v.adapter = w.adapter
<1> DEFINE u == [w EXCEPT !.row[r].req = req, !.row[r].phase = "cancelling", !.row[r].grace = Grace]
           v == requestRunTerminal(w, r, req, lost)
<1>1. v = IF lost \/ ~w.row[r].live \/ w.row[r].req = "cancelled" \/ (w.row[r].req = "deadline" /\ req = "deadline")
          THEN w ELSE u
  BY DEF requestRunTerminal
<1>2. DOMAIN w = Fields /\ DOMAIN w.row = RunIds /\ DOMAIN w.row[r] = RowFields BY DEF Shape
<1>3. /\ u.st = w.st /\ u.used = w.used /\ u.hist = w.hist /\ u.reported = w.reported /\ u.torn = w.torn
      /\ u.lane = w.lane /\ u.handles = w.handles /\ u.adapter = w.adapter
      /\ DOMAIN u = Fields /\ DOMAIN u.row = RunIds
      /\ \A s \in RunIds : s # r => u.row[s] = w.row[s]
  BY <1>2 DEF Fields
<1>4. DOMAIN u.row[r] = RowFields /\ u.row[r].req = req /\ (w.row[r].req # "cancelled" => SameRow(w, u, r))
  BY <1>2 DEF Fields, RowFields, SameRow
<1> HIDE DEF u, v
<1>5. w.row[r].req # "cancelled" => Serves(w, u) BY <1>3, <1>4, RowServes
<1>6. Serves(w, v) /\ v.lane = w.lane /\ v.handles = w.handles /\ v.adapter = w.adapter
  BY <1>1, <1>3, <1>5, ServesFacts
<1> QED BY <1>6 DEF v

\* What is told to an adapter, and what an adapter becomes.
LEMMA AdapterServes ==
    ASSUME NEW w, Shape(w), NEW r \in RunIds, NEW a
    PROVE  LET v == [w EXCEPT !.adapter[r] = a]
           IN  Serves(w, v) /\ v.lane = w.lane /\ v.handles = w.handles /\ v.row = w.row
<1> DEFINE v == [w EXCEPT !.adapter[r] = a]
<1>1. DOMAIN w = Fields /\ DOMAIN w.adapter = RunIds BY DEF Shape
<1>2. /\ v.st = w.st /\ v.used = w.used /\ v.hist = w.hist /\ v.reported = w.reported /\ v.torn = w.torn /\ v.row = w.row
      /\ v.lane = w.lane /\ v.handles = w.handles /\ DOMAIN v = Fields /\ DOMAIN v.adapter = RunIds
  BY <1>1 DEF Fields
<1> HIDE DEF v
<1>3. Shape(v) BY <1>2 DEF Shape
<1>4. Serves(w, v) BY <1>2, <1>3 DEF Serves, SameRow
<1> QED BY <1>2, <1>4 DEF v

\* A lane is given to a run, or emptied.
LEMMA LaneServes ==
    ASSUME NEW w, Shape(w), NEW l \in Lanes, NEW q, DOMAIN q = {"current", "pending"}
    PROVE  LET v == [w EXCEPT !.lane[l] = q]
           IN  Serves(w, v) /\ \A m \in Lanes : v.lane[m] = IF m = l THEN q ELSE w.lane[m]
<1> DEFINE v == [w EXCEPT !.lane[l] = q]
<1>1. DOMAIN w = Fields /\ DOMAIN w.lane = Lanes BY DEF Shape
<1>2. /\ v.st = w.st /\ v.used = w.used /\ v.hist = w.hist /\ v.reported = w.reported /\ v.torn = w.torn /\ v.row = w.row
      /\ v.adapter = w.adapter /\ v.handles = w.handles /\ DOMAIN v = Fields /\ DOMAIN v.lane = Lanes
      /\ \A m \in Lanes : v.lane[m] = IF m = l THEN q ELSE w.lane[m]
  BY <1>1 DEF Fields
<1> HIDE DEF v
<1>3. Shape(v) BY <1>2 DEF Shape
<1>4. Serves(w, v) BY <1>2, <1>3 DEF Serves, SameRow
<1> QED BY <1>2, <1>4 DEF v

\* The coordinator's handles.
LEMMA HandlesServe ==
    ASSUME NEW w, Shape(w), NEW H, H \subseteq 1..w.used
    PROVE  LET v == [w EXCEPT !.handles = H] IN Serves(w, v) /\ v.lane = w.lane /\ v.row = w.row
<1> DEFINE v == [w EXCEPT !.handles = H]
<1>1. DOMAIN w = Fields BY DEF Shape
<1>2. /\ v.st = w.st /\ v.used = w.used /\ v.hist = w.hist /\ v.reported = w.reported /\ v.torn = w.torn /\ v.row = w.row
      /\ v.adapter = w.adapter /\ v.lane = w.lane /\ DOMAIN v = Fields /\ v.handles = H
  BY <1>1 DEF Fields
<1> HIDE DEF v
<1>3. Shape(v) BY <1>2 DEF Shape
<1>4. Serves(w, v) BY <1>2, <1>3 DEF Serves, SameRow
<1> QED BY <1>2, <1>4 DEF v

\* A run is handed to its adapter.
LEMMA StartServes ==
    ASSUME NEW w, Shape(w), NEW r \in 1..w.used, NEW fault
    PROVE  Serves(w, start(w, r, fault)) /\ start(w, r, fault).lane = w.lane
<1>1. r \in RunIds /\ w.row[r].task \in Tasks BY Ids DEF Shape
<1> DEFINE t == w.row[r].task
           h1 == [w EXCEPT !.handles = w.handles \cup {r}]
           h == [h1 EXCEPT !.adapter[r] = IF Kind[t] = "agent" THEN "prep" ELSE "running"]
           q1 == advanceRun(h, r, "queued", FALSE)
           q == advanceRun(q1, r, "executing", TRUE)
           p == advanceRun(q, r, "same", TRUE)
           k1 == advanceRun(w, r, "queued", FALSE)
           k == [k1 EXCEPT !.adapter[r] = "gone"]
<1>2. Serves(w, h1) /\ h1.lane = w.lane
  <2>1. w.handles \cup {r} \subseteq 1..w.used BY DEF Shape
  <2> QED BY <2>1, HandlesServe
<1>3. Serves(h1, h) /\ h.lane = h1.lane
  <2>1. Shape(h1) BY <1>2 DEF Serves
  <2> HIDE DEF h1
  <2> QED BY <1>1, <2>1, AdapterServes
<1> HIDE DEF h
<1>4. Serves(h, q1) /\ q1.lane = h.lane
  <2>1. Shape(h) BY <1>3 DEF Serves
  <2> QED BY <1>1, <2>1, AdvanceServes
<1> HIDE DEF q1
<1>5. Serves(q1, q) /\ q.lane = q1.lane
  <2>1. Shape(q1) BY <1>4 DEF Serves
  <2> QED BY <1>1, <2>1, AdvanceServes
<1> HIDE DEF q
<1>6. Serves(q, p) /\ p.lane = q.lane
  <2>1. Shape(q) BY <1>5 DEF Serves
  <2> QED BY <1>1, <2>1, AdvanceServes
<1> HIDE DEF p
<1>6a. Serves(w, k) /\ k.lane = w.lane
  <2>1. Serves(w, k1) /\ k1.lane = w.lane BY <1>1, AdvanceServes
  <2> HIDE DEF k1
  <2>2. Shape(k1) BY <2>1 DEF Serves
  <2>3. Serves(k1, k) /\ k.lane = k1.lane BY <1>1, <2>2, AdapterServes
  <2> HIDE DEF k
  <2> QED BY <2>1, <2>3, ServesFacts
<1>7. start(w, r, fault) \in {h, q, p, k}
  <2>1. [w EXCEPT !.handles = @ \cup {r}, !.adapter[r] = IF Kind[t] = "agent" THEN "prep" ELSE "running"] = h
    BY DEF h, Shape, Fields
  <2>2. Kind[t] \in {"script", "system", "agent"} BY <1>1, ScheduleAssumption DEF ScheduleAssumption
  <2> QED BY <2>1, <2>2 DEF start, q, q1, p
<1>8. Serves(w, h) /\ Serves(w, q) /\ Serves(w, p) BY <1>2, <1>3, <1>4, <1>5, <1>6, ServesFacts
<1> HIDE DEF k
<1> QED BY <1>2, <1>3, <1>4, <1>5, <1>6, <1>6a, <1>7, <1>8

\* A free lane starts its first pending run that is live.
LEMMA StartNextServes ==
    ASSUME NEW w, Shape(w), Queue(w, {}), NEW l \in Lanes, NEW fault
    PROVE  Serves(w, startNext(w, l, fault)) /\ Queue(startNext(w, l, fault), {})
<1> DEFINE p == w.lane[l].pending
           alive == {j \in 1..Len(p) : Live(w, p[j])}
           i == Min(alive)
           empty == [current |-> 0, pending |-> <<>>]
           taken == [current |-> p[i], pending |-> SubSeq(p, i + 1, Len(p))]
           given(q) == [w EXCEPT !.lane[l] = q]
<1>1. p \in Seq(1..w.used) /\ \A j \in 1..Len(p) : Belongs(w, p[j], l) BY DEF Queue
<1>2. Len(p) \in Nat BY <1>1
<1>3. CASE w.lane[l].current # 0 BY <1>3, ServesFacts DEF startNext
<1>4. CASE w.lane[l].current = 0 /\ alive = {}
  <2>1. startNext(w, l, fault) = [w EXCEPT !.lane[l].pending = <<>>] BY <1>4 DEF startNext, Alive
  <2> DEFINE v == [w EXCEPT !.lane[l].pending = <<>>]
  <2>2. DOMAIN w = Fields /\ DOMAIN w.lane = Lanes /\ DOMAIN w.lane[l] = {"current", "pending"} BY DEF Shape
  <2>3. /\ v.st = w.st /\ v.used = w.used /\ v.hist = w.hist /\ v.reported = w.reported /\ v.torn = w.torn /\ v.row = w.row
        /\ v.adapter = w.adapter /\ v.handles = w.handles /\ DOMAIN v = Fields /\ DOMAIN v.lane = Lanes
        /\ \A m \in Lanes : m # l => v.lane[m] = w.lane[m]
    BY <2>2 DEF Fields
  <2>4. DOMAIN v.lane[l] = {"current", "pending"} /\ v.lane[l].current = 0 /\ v.lane[l].pending = <<>>
    BY <1>4, <2>2 DEF Fields
  <2> HIDE DEF v
  <2>5. Shape(v) BY <2>3, <2>4 DEF Shape
  <2>6. Serves(w, v) BY <2>3, <2>5 DEF Serves, SameRow
  <2>7. ASSUME NEW m \in Lanes
        PROVE  LET q == v.lane[m]
               IN  /\ q.current # 0 => Belongs(v, q.current, m) /\ (v.row[q.current].live \/ q.current \in v.torn)
                   /\ q.pending \in Seq(1..v.used) /\ \A j \in 1..Len(q.pending) : Belongs(v, q.pending[j], m)
    <3>1. CASE m = l
      <4>1. <<>> \in Seq(1..v.used) /\ \A j : j \notin 1..Len(<<>>) OBVIOUS
      <4> QED BY <2>4, <3>1, <4>1
    <3>2. CASE m # l BY <2>3, <3>2 DEF Queue, Belongs
    <3> QED BY <3>1, <3>2
  <2>8. Queue(v, {}) BY <2>7 DEF Queue
  <2> QED BY <2>1, <2>6, <2>8 DEF v
<1>5. CASE w.lane[l].current = 0 /\ alive # {}
  <2>1. i \in alive
    <3>1. alive \subseteq Nat /\ alive # {} BY <1>2, <1>5
    <3> HIDE DEF alive
    <3> QED BY <3>1, MinFacts
  <2>2. i \in 1..Len(p) /\ i \in Nat /\ Live(w, p[i]) BY <1>2, <2>1
  <2>3. startNext(w, l, fault) = start(given(taken), p[i], fault) BY <1>5 DEF startNext, Alive
  <2>4. Serves(w, given(taken)) /\ \A m \in Lanes : given(taken).lane[m] = IF m = l THEN taken ELSE w.lane[m]
    <3>1. DOMAIN taken = {"current", "pending"} OBVIOUS
    <3> HIDE DEF taken
    <3> QED BY <3>1, LaneServes
  <2>5. Belongs(w, p[i], l) /\ w.row[p[i]].live BY <1>1, <2>2 DEF Live
  <2>6. taken.pending \in Seq(1..w.used) /\ \A j \in 1..Len(taken.pending) : Belongs(w, taken.pending[j], l)
    <3>1. \A k \in (i + 1)..Len(p) : p[k] \in 1..w.used /\ k \in 1..Len(p) BY <1>1, <1>2, <2>2 DEF Belongs
    <3>2. /\ SubSeq(p, i + 1, Len(p)) \in Seq(1..w.used)
          /\ \A j \in 1..(Len(p) - i) : SubSeq(p, i + 1, Len(p))[j] = p[i + j]
          /\ Len(SubSeq(p, i + 1, Len(p))) = IF i + 1 <= Len(p) THEN Len(p) - i ELSE 0
      <4> DEFINE from == i + 1
                 last == Len(p)
      <4> HIDE DEF p, i
      <4>1. from \in Int /\ last \in Int /\ \A k \in from..last : p[k] \in 1..w.used BY <1>2, <2>2, <3>1
      <4> HIDE DEF last
      <4>2. \A j \in 1..(last - i) : from + j - 1 = i + j BY <2>2, <4>1
      <4>3. last - from + 1 = last - i BY <2>2, <4>1
      <4> HIDE DEF from
      <4>4. /\ SubSeq(p, from, last) \in Seq(1..w.used)
            /\ Len(SubSeq(p, from, last)) = IF from <= last THEN last - from + 1 ELSE 0
            /\ \A j \in 1..(last - from + 1) : SubSeq(p, from, last)[j] = p[from + j - 1]
        BY <4>1, SubSeqProperties
      <4>5. \A j \in 1..(last - i) : SubSeq(p, from, last)[j] = p[i + j] BY <4>2, <4>3, <4>4
      <4> QED BY <4>3, <4>4, <4>5 DEF from, last
    <3>3. \A j \in 1..Len(taken.pending) : j \in 1..(Len(p) - i) /\ i + j \in 1..Len(p) BY <1>2, <2>2, <3>2
    <3> QED BY <1>1, <3>2, <3>3
  <2> DEFINE u == given(taken)
  <2>7. u.used = w.used /\ u.row = w.row /\ u.torn = w.torn BY DEF Shape, Fields
  <2>8. taken.current = p[i] OBVIOUS
  <2> HIDE DEF taken
  <2>9. u.lane[l] = taken /\ \A m \in Lanes : m # l => u.lane[m] = w.lane[m] BY <2>4
  <2> HIDE DEF u
  <2>10. ASSUME NEW m \in Lanes
         PROVE  LET q == u.lane[m]
                IN  /\ q.current # 0 => Belongs(u, q.current, m) /\ (u.row[q.current].live \/ q.current \in u.torn)
                    /\ q.pending \in Seq(1..u.used) /\ \A j \in 1..Len(q.pending) : Belongs(u, q.pending[j], m)
    <3>1. \A q : Belongs(u, q, m) <=> Belongs(w, q, m) BY <2>7 DEF Belongs
    <3>2. CASE m = l BY <2>5, <2>6, <2>7, <2>8, <2>9, <3>1, <3>2
    <3>3. CASE m # l BY <2>7, <2>9, <3>1, <3>3 DEF Queue
    <3> QED BY <3>2, <3>3
  <2>11. Queue(u, {}) BY <2>10 DEF Queue
  <2>12. Shape(u) /\ p[i] \in 1..u.used BY <2>4, <2>5, <2>7 DEF Serves, Belongs, u
  <2>13. Serves(u, start(u, p[i], fault)) /\ start(u, p[i], fault).lane = u.lane BY <2>12, StartServes
  <2> QED BY <2>3, <2>4, <2>11, <2>13, ServesFacts, ServesQueue DEF u
<1> QED BY <1>3, <1>4, <1>5

-----------------------------------------------------------------------------
(* What a settlement does to the state of its task.                        *)

Cleared(p) == ~p.retrying /\ p.deferred.attempts = 0

SameGroups(s, p) ==
    /\ p.retrying = s.retrying /\ p.retryGroup = s.retryGroup
    /\ p.deferred.attempts = s.deferred.attempts /\ p.deferred.group = s.deferred.group

\* A manual run leaves the groups alone, a retry continues the group of a first
\* attempt, a deferral that of the deferred run unless one was deferred before
Patched(s, run, outcome, p) ==
    \/ run.trigger = "manual" /\ SameGroups(s, p)
    \/ Cleared(p)
    \/ /\ run.trigger # "manual" /\ run.attempt = 1
       /\ p.retrying /\ p.retryGroup = run.group /\ p.deferred.attempts = 0
    \/ /\ outcome = "deferred" /\ p.retrying = s.retrying /\ p.retryGroup = s.retryGroup
       /\ p.deferred.attempts # 0
       /\ p.deferred.group = IF s.deferred.attempts = 0 THEN run.group ELSE s.deferred.group

\* A state of the right shape without a deferral is typed.
LEMMA NoDeferralFacts ==
    ASSUME NEW s, DOMAIN s = TaskFields, s.retrying \in BOOLEAN, s.deferred = NoDeferral
    PROVE  StateTyped(s) /\ s.deferred.attempts = 0
<1>1. DOMAIN NoDeferral = {"attempts", "group", "ceil", "retryAt"} /\ NoDeferral.attempts = 0 BY DEF NoDeferral
<1>2. DOMAIN s.deferred = {"attempts", "group", "ceil", "retryAt"} /\ s.deferred.attempts = 0 BY <1>1
<1>3. s.deferred.attempts \in Nat BY <1>2
<1> QED BY <1>2, <1>3 DEF StateTyped

\* Clearing and rescheduling.
LEMMA ScheduleFacts ==
    ASSUME NEW s, StateTyped(s), NEW t, NEW n
    PROVE  /\ StateTyped(nextRunFromSchedule(s, t, n)) /\ SameGroups(s, nextRunFromSchedule(s, t, n))
           /\ StateTyped(ClearRetry(s)) /\ Cleared(ClearRetry(s))
<1>1. DOMAIN s = TaskFields BY DEF StateTyped
<1>2. \A x : LET a == [s EXCEPT !.next = x]
             IN  DOMAIN a = TaskFields /\ a.retrying = s.retrying /\ a.retryGroup = s.retryGroup /\ a.deferred = s.deferred
  BY <1>1 DEF TaskFields
<1>3. \A x : LET a == [s EXCEPT !.completed = x]
             IN  DOMAIN a = TaskFields /\ a.retrying = s.retrying /\ a.retryGroup = s.retryGroup /\ a.deferred = s.deferred
  BY <1>1 DEF TaskFields
<1> DEFINE v == nextRunFromSchedule(s, t, n)
<1>4. DOMAIN v = TaskFields /\ v.retrying = s.retrying /\ v.retryGroup = s.retryGroup /\ v.deferred = s.deferred
  BY <1>2, <1>3 DEF nextRunFromSchedule
<1> HIDE DEF v
<1>5. StateTyped(v) /\ SameGroups(s, v) BY <1>4 DEF StateTyped, SameGroups
<1> DEFINE c == ClearRetry(s)
<1>6. DOMAIN c = TaskFields /\ c.retrying = FALSE /\ c.deferred = NoDeferral BY <1>1 DEF ClearRetry, TaskFields
<1> HIDE DEF c
<1>7. StateTyped(c) /\ Cleared(c) BY <1>6, NoDeferralFacts DEF Cleared
<1> QED BY <1>5, <1>7 DEF v, c

\* A counted failure clears, too.
LEMMA FailurePatchFacts ==
    ASSUME NEW s, StateTyped(s), NEW t, NEW n, NEW pauseNow
    PROVE  StateTyped(failurePatch(s, t, n, pauseNow)) /\ Cleared(failurePatch(s, t, n, pauseNow))
<1> DEFINE f == s.fails + 1
           m == nextRunFromSchedule(ClearRetry(s), t, n)
           c == [m EXCEPT !.fails = f]
           d == [c EXCEPT !.paused = TRUE, !.cool = Cooldown]
<1>1. StateTyped(ClearRetry(s)) /\ Cleared(ClearRetry(s)) BY ScheduleFacts
<1>2. StateTyped(m) /\ SameGroups(ClearRetry(s), m) BY <1>1, ScheduleFacts
<1> HIDE DEF m
<1>3. Cleared(m) BY <1>1, <1>2 DEF Cleared, SameGroups
<1>4. DOMAIN m = TaskFields BY <1>2 DEF StateTyped
<1>5. DOMAIN c = TaskFields /\ c.retrying = m.retrying /\ c.deferred = m.deferred BY <1>4 DEF TaskFields
<1> HIDE DEF c
<1>6. DOMAIN d = TaskFields /\ d.retrying = m.retrying /\ d.deferred = m.deferred BY <1>5 DEF TaskFields
<1> HIDE DEF d
<1>7. StateTyped(c) /\ Cleared(c) /\ StateTyped(d) /\ Cleared(d) BY <1>2, <1>3, <1>5, <1>6 DEF StateTyped, Cleared
<1>8. failurePatch(s, t, n, pauseNow) \in {c, d} BY DEF failurePatch, c, d, m
<1> QED BY <1>7, <1>8

\* Every outcome is one of the four.
LEMMA PatchFacts ==
    ASSUME NEW s, StateTyped(s), NEW run, NEW e, EntryTyped(e), NEW n, NEW hint
    PROVE  LET p == computeStatePatch(s, run, e.outcome, e.diag, n, hint)
           IN  StateTyped(p) /\ Patched(s, run, e.outcome, p)
<1> DEFINE t == run.task
           manual == run.trigger = "manual"
           policy == decideFailurePolicy(e.diag)
           closed == nextRunFromSchedule(ClearRetry(s), t, n)
           p == computeStatePatch(s, run, e.outcome, e.diag, n, hint)
           reset == [closed EXCEPT !.fails = 0, !.resumes = 0]
           again == [s EXCEPT !.next = RetryDelay, !.retryAt = RetryDelay, !.retrying = TRUE,
                              !.retryGroup = run.group, !.deferred = NoDeferral]
           later == deferPatch(s, run, hint)
<1>1. StateTyped(closed) /\ Cleared(closed)
  <2>1. StateTyped(ClearRetry(s)) /\ Cleared(ClearRetry(s)) BY ScheduleFacts
  <2>2. StateTyped(closed) /\ SameGroups(ClearRetry(s), closed) BY <2>1, ScheduleFacts
  <2> QED BY <2>1, <2>2 DEF Cleared, SameGroups
<1>2. StateTyped(reset) /\ Cleared(reset)
  <2> HIDE DEF closed
  <2>1. DOMAIN closed = TaskFields BY <1>1 DEF StateTyped
  <2>2. DOMAIN reset = TaskFields /\ reset.retrying = closed.retrying /\ reset.deferred = closed.deferred
    BY <2>1 DEF TaskFields
  <2> HIDE DEF reset
  <2> QED BY <1>1, <2>2 DEF StateTyped, Cleared
<1>3. /\ StateTyped(again) /\ again.retrying /\ again.retryGroup = run.group /\ again.deferred.attempts = 0
  <2>1. DOMAIN s = TaskFields BY DEF StateTyped
  <2>2. /\ DOMAIN again = TaskFields /\ again.retrying = TRUE /\ again.retryGroup = run.group
        /\ again.deferred = NoDeferral
    BY <2>1 DEF TaskFields
  <2> HIDE DEF again
  <2> QED BY <2>2, NoDeferralFacts
<1>4. /\ StateTyped(later) /\ later.retrying = s.retrying /\ later.retryGroup = s.retryGroup
      /\ later.deferred.attempts # 0
      /\ later.deferred.group = IF s.deferred.attempts = 0 THEN run.group ELSE s.deferred.group
  <2>1. DOMAIN s = TaskFields /\ s.deferred.attempts \in Nat BY DEF StateTyped
  <2>2. PICK at, ceil :
           later = [s EXCEPT !.next = at,
                       !.deferred = [attempts |-> s.deferred.attempts + 1,
                                     group |-> IF s.deferred.attempts = 0 THEN run.group ELSE s.deferred.group,
                                     ceil |-> ceil, retryAt |-> at]]
    BY DEF deferPatch
  <2> DEFINE d == [attempts |-> s.deferred.attempts + 1,
                   group |-> IF s.deferred.attempts = 0 THEN run.group ELSE s.deferred.group,
                   ceil |-> ceil, retryAt |-> at]
  <2> HIDE DEF later
  <2>3. /\ DOMAIN d = {"attempts", "group", "ceil", "retryAt"} /\ d.attempts \in Nat /\ d.attempts # 0
        /\ d.group = IF s.deferred.attempts = 0 THEN run.group ELSE s.deferred.group
    BY <2>1
  <2>4. later = [s EXCEPT !.next = at, !.deferred = d] BY <2>2
  <2> HIDE DEF d
  <2>5. DOMAIN later = TaskFields /\ later.retrying = s.retrying /\ later.retryGroup = s.retryGroup /\ later.deferred = d
    BY <2>1, <2>4 DEF TaskFields
  <2> QED BY <2>3, <2>5 DEF StateTyped
<1>5. e.outcome \in Failures =>
         /\ policy \in {"defer", "pause", "count", "retry", "clear"}
         /\ policy = "defer" => e.diag.category = "admission"
  BY DEF EntryTyped, Categories, decideFailurePolicy
<1>6. p = CASE e.outcome = "success" -> reset
            [] e.outcome = "noop" -> closed
            [] e.outcome = "unknown" -> IF manual THEN s ELSE closed
            [] e.outcome \notin {"success", "noop", "unknown"} ->
                 CASE manual /\ policy # "defer" -> s
                   [] policy = "defer" -> IF e.outcome = "failed" /\ e.diag.code = "executor_unavailable"
                                          THEN failurePatch(s, t, n, FALSE) ELSE later
                   [] policy = "clear" /\ ~manual -> closed
                   [] policy = "retry" /\ ~manual ->
                        IF run.attempt = 1 THEN again ELSE failurePatch(s, t, n, FALSE)
                   [] OTHER -> failurePatch(s, t, n, policy = "pause")
  BY DEF computeStatePatch
<1>7. SameGroups(s, s) BY DEF SameGroups
<1> HIDE DEF policy, closed, reset, again, later, p
<1>8. CASE e.outcome \in {"success", "noop"}
  <2>1. p \in {reset, closed} BY <1>6, <1>8
  <2> QED BY <1>1, <1>2, <2>1 DEF Patched, p
<1>9. CASE e.outcome = "unknown"
  <2>1. p = IF manual THEN s ELSE closed BY <1>6, <1>9
  <2> QED BY <1>1, <1>7, <2>1 DEF Patched, p
<1>10. CASE e.outcome \in Failures
  <2>1. e.outcome \notin {"success", "noop", "unknown"} BY <1>10 DEF Failures
  <2>2. CASE manual /\ policy # "defer"
    <3>1. p = s BY <1>6, <2>1, <2>2
    <3> QED BY <1>7, <2>2, <3>1 DEF Patched, p
  <2>3. CASE policy = "defer" /\ e.outcome = "failed" /\ e.diag.code = "executor_unavailable"
    <3>1. p = failurePatch(s, t, n, FALSE) BY <1>6, <2>1, <2>3
    <3> QED BY <3>1, FailurePatchFacts DEF Patched, p
  <2>4. CASE policy = "defer" /\ ~(e.outcome = "failed" /\ e.diag.code = "executor_unavailable")
    <3>1. p = later BY <1>6, <2>1, <2>4
    <3>2. e.outcome = "deferred" BY <1>5, <1>10, <2>4 DEF EntryTyped
    <3> QED BY <1>4, <3>1, <3>2 DEF Patched, p
  <2>5. CASE policy = "clear" /\ ~manual
    <3>1. p = closed BY <1>6, <2>1, <2>5
    <3> QED BY <1>1, <3>1 DEF Patched, p
  <2>6. CASE policy = "retry" /\ ~manual
    <3>1. p = IF run.attempt = 1 THEN again ELSE failurePatch(s, t, n, FALSE) BY <1>6, <2>1, <2>6
    <3>2. CASE run.attempt = 1
      <4>1. p = again BY <3>1, <3>2
      <4> QED BY <1>3, <2>6, <3>2, <4>1 DEF Patched, p
    <3>3. CASE run.attempt # 1
      <4>1. p = failurePatch(s, t, n, FALSE) BY <3>1, <3>3
      <4> QED BY <4>1, FailurePatchFacts DEF Patched, p
    <3> QED BY <3>2, <3>3
  <2>7. CASE policy \in {"pause", "count"} /\ ~manual
    <3>1. p = failurePatch(s, t, n, policy = "pause") BY <1>6, <2>1, <2>7
    <3> QED BY <3>1, FailurePatchFacts DEF Patched, p
  <2> QED BY <1>5, <1>10, <2>2, <2>3, <2>4, <2>5, <2>6, <2>7
<1> QED BY <1>8, <1>9, <1>10 DEF EntryTyped

-----------------------------------------------------------------------------
(* Settlements.                                                            *)

\* Runs of one group belong to one task, and the one that is live is the only one.
LEMMA GroupFacts ==
    ASSUME NEW w, Good(w), NEW r \in 1..w.used, w.row[r].live
    PROVE  /\ w.row[r].group \in 1..w.used /\ w.row[w.row[r].group].task = w.row[r].task
           /\ Active(w, w.row[r].task) = {r}
           /\ LiveRun(w, r)
           /\ \A s \in 1..w.used : w.row[s].live /\ s # r =>
                 w.row[s].task # w.row[r].task /\ w.row[s].group # w.row[r].group
<1>1. \A s \in 1..w.used : w.row[s].group \in 1..w.used /\ w.row[w.row[s].group].task = w.row[s].task
  BY DEF Good, Groups
<1>2. \A s \in 1..w.used : w.row[s].live /\ w.row[s].task = w.row[r].task => s = r BY DEF Good, Groups
<1>3. Active(w, w.row[r].task) = {r} BY <1>2 DEF Active
<1>4. \A s \in 1..w.used : w.row[s].group = w.row[r].group => w.row[s].task = w.row[r].task BY <1>1
<1>5. LiveRun(w, r) BY DEF Good, Groups
<1> QED BY <1>1, <1>2, <1>3, <1>4, <1>5

\* The outcome of a run is recorded, as cancelled if that was requested.
LEMMA RecordApplies ==
    ASSUME NEW w, Good(w), NEW r \in 1..w.used, w.hist[r].outcome = "none",
           NEW e, EntryTyped(e), w.row[r].req = "cancelled" => e.outcome = "cancelled"
    PROVE  LET h == [w EXCEPT !.hist[r] = e]
           IN  /\ Good(h) /\ Keeps(w, h) /\ h.lane = w.lane /\ h.row = w.row /\ h.used = w.used /\ h.st = w.st
               /\ h.reported[r] = 0 /\ h.reported = w.reported /\ h.torn = w.torn /\ h.hist[r] = e
<1> DEFINE h == [w EXCEPT !.hist[r] = e]
<1>1. Shape(w) /\ History(w) /\ r \in RunIds /\ \A s \in 1..w.used : s \in RunIds BY Ids DEF Good
<1>2. /\ h.st = w.st /\ h.used = w.used /\ h.reported = w.reported /\ h.torn = w.torn /\ h.row = w.row /\ h.lane = w.lane
      /\ h.adapter = w.adapter /\ h.handles = w.handles /\ DOMAIN h = Fields /\ DOMAIN h.hist = RunIds
      /\ \A s \in RunIds : h.hist[s] = IF s = r THEN e ELSE w.hist[s]
  BY <1>1 DEF Shape, Fields
<1> HIDE DEF h
<1>3. w.row[r].live BY <1>1 DEF History
<1>4. e.outcome # "none" BY DEF EntryTyped, Failures
<1>5. Shape(h) BY <1>1, <1>2 DEF Shape
<1>6. w.reported[r] = 0 BY <1>1 DEF History
<1>7. History(h)
  <2>1. r <= w.used BY <1>1, Ids
  <2> QED BY <1>1, <1>2, <1>4, <1>6, <2>1 DEF History
<1> DEFINE g == w.row[r].group
<1>9. /\ \A k : Ended(h, k) \ {r} = Ended(w, k) \ {r}
      /\ \A k : k # g => Ended(h, k) = Ended(w, k)
  BY <1>1, <1>2 DEF Ended
<1>10. \A t : Active(h, t) = Active(w, t) BY <1>2 DEF Active
<1>11. ASSUME NEW k \in 1..h.used, NEW x \in Ended(h, k), NEW y \in Ended(h, k), NEW z \in Ended(h, k)
       PROVE  x = y \/ y = z \/ x = z
  <2>1. CASE k = g
    <3>1. AtMostOne(Ended(w, g) \ {r}) BY <1>3, GroupFacts DEF LiveRun
    <3> QED BY <1>9, <1>11, <2>1, <3>1 DEF AtMostOne
  <2>2. CASE k # g
    <3>1. x \in Ended(w, k) /\ y \in Ended(w, k) /\ z \in Ended(w, k) BY <1>9, <1>11, <2>2
    <3> QED BY <1>2, <3>1 DEF Good, Groups
  <2> QED BY <2>1, <2>2
<1>12. ASSUME NEW s \in 1..h.used, h.row[s].live PROVE LiveRun(h, s)
  <2>1. s \in 1..w.used /\ w.row[s].live /\ LiveRun(w, s) BY <1>2, <1>12, GroupFacts
  <2>2. Ended(h, h.row[s].group) \ {s} = Ended(w, w.row[s].group) \ {s}
    <3>1. CASE s = r BY <1>2, <1>9, <3>1
    <3>2. CASE s # r
      <4>1. w.row[s].group # g BY <1>3, <2>1, <3>2, GroupFacts
      <4> QED BY <1>2, <1>9, <4>1
    <3> QED BY <3>1, <3>2
  <2> QED BY <1>2, <2>1, <2>2 DEF LiveRun
<1>13. ASSUME NEW t \in Tasks PROVE Continued(h, t)
  <2>1. Continued(w, t) BY DEF Good, Groups
  <2>2. ASSUME NEW k, Room(w, t, k, Ended(w, k) \ Active(w, t)) PROVE Room(h, t, k, Ended(h, k) \ Active(h, t))
    <3>1. Ended(h, k) \ Active(h, t) = Ended(w, k) \ Active(w, t)
      <4>1. CASE k = g
        <5>1. t = w.row[r].task BY <1>3, <2>2, <4>1, GroupFacts DEF Room
        <5>2. Active(w, t) = {r} BY <1>3, <5>1, GroupFacts
        <5> QED BY <1>9, <1>10, <5>2
      <4>2. CASE k # g BY <1>9, <1>10, <4>2
      <4> QED BY <4>1, <4>2
    <3> QED BY <1>2, <1>10, <2>2, <3>1 DEF Room
  <2> QED BY <1>2, <2>1, <2>2 DEF Continued
<1>14. Groups(h) BY <1>2, <1>11, <1>12, <1>13 DEF Good, Groups
<1>15. Keeps(w, h)
  <2>1. w.used \in Nat BY <1>1, Ids
  <2> QED BY <1>1, <1>2, <1>4, <2>1 DEF Keeps
<1> QED BY <1>1, <1>2, <1>5, <1>6, <1>7, <1>14, <1>15 DEF Good, h

\* The run is closed, its task's state becomes p, and its failure may be reported
Closes(w, v, r, p) ==
    /\ DOMAIN v = Fields /\ v.used = w.used /\ v.hist = w.hist /\ v.lane = w.lane
    /\ v.handles = w.handles /\ v.adapter = w.adapter /\ w.torn \subseteq v.torn
    /\ v.st = [w.st EXCEPT ![w.row[r].task] = p]
    /\ v.row = [w.row EXCEPT ![r] = Closed(w.row[r])]
    /\ DOMAIN v.reported = RunIds /\ \A s \in RunIds : s # r => v.reported[s] = w.reported[s]
    /\ v.reported[r] \in {0, 1} /\ (v.reported[r] = 1 => w.hist[r].outcome \in {"failed", "timed_out"})

\* A run with an outcome is closed with the patch that goes with it.
LEMMA CloseApplies ==
    ASSUME NEW w, Good(w), NEW r \in 1..w.used, w.row[r].live, w.hist[r].outcome # "none",
           NEW p, StateTyped(p), Patched(w.st[w.row[r].task], w.row[r], w.hist[r].outcome, p),
           NEW v, Shape(v), Closes(w, v, r, p)
    PROVE  Good(v) /\ Keeps(w, v) /\ (Queue(w, {}) => Queue(v, {r}))
<1> DEFINE run == w.row[r]
           t == run.task
           s == w.st[t]
<1> USE DEF Closes
<1>1. Shape(w) /\ History(w) /\ Groups(w) /\ r \in RunIds /\ t \in Tasks /\ \A q \in 1..w.used : q \in RunIds
  BY Ids DEF Good, Shape
<1>2. /\ \A q \in RunIds : q # r => v.row[q] = w.row[q]
      /\ v.row[r].task = t /\ v.row[r].trigger = run.trigger /\ v.row[r].group = run.group
      /\ ~v.row[r].live
  BY <1>1 DEF Shape, Closed, NoRow
<1>3. /\ v.st[t] = p
      /\ \A u \in Tasks : u # t => v.st[u] = w.st[u]
  BY <1>1 DEF Shape
<1>4. /\ \A q \in 1..w.used : v.row[q].group = w.row[q].group /\ v.row[q].task = w.row[q].task
                              /\ v.row[q].trigger = w.row[q].trigger
      /\ \A q \in 1..w.used : v.row[q].live <=> w.row[q].live /\ q # r
  BY <1>1, <1>2
<1>5. \A g : Ended(v, g) = Ended(w, g) BY <1>4 DEF Ended
<1>6. /\ Active(w, t) = {r} /\ Active(v, t) = {}
      /\ \A u : u # t => Active(v, u) = Active(w, u)
  <2>1. Active(w, t) = {r} BY GroupFacts
  <2> QED BY <1>4, <2>1 DEF Active
<1>7. History(v)
  <2>1. ASSUME NEW q \in RunIds
        PROVE  /\ v.hist[q].outcome # "none" => q <= v.used /\ EntryTyped(v.hist[q])
               /\ v.reported[q] \in {0, 1}
               /\ v.reported[q] = 1 => v.hist[q].outcome \in {"failed", "timed_out"}
    BY <1>1 DEF History
  <2>2. \A q \in 1..v.used : ~v.row[q].live => v.hist[q].outcome # "none" BY <1>1, <1>4 DEF History
  <2> QED BY <2>1, <2>2 DEF History
<1>8. ASSUME NEW q \in 1..v.used, v.row[q].live PROVE LiveRun(v, q)
  <2>1. q \in 1..w.used /\ q \in RunIds /\ q # r /\ w.row[q].live BY <1>1, <1>4, <1>8
  <2>2. LiveRun(w, q) /\ w.row[q].task # t /\ w.row[q].task \in Tasks
    BY <1>1, <2>1, GroupFacts DEF Shape
  <2>3. v.row[q] = w.row[q] /\ v.st[w.row[q].task] = w.st[w.row[q].task] BY <1>2, <1>3, <2>1, <2>2
  <2>4. v.row[q].trigger = "manual" => \A x \in 1..v.used : v.row[x].group = q => x = q
    BY <1>4, <2>2, <2>3 DEF LiveRun
  <2>5. Ended(v, v.row[q].group) = Ended(w, w.row[q].group) BY <1>5, <2>3
  <2> QED BY <2>2, <2>3, <2>4, <2>5 DEF LiveRun
<1>9. ASSUME NEW u \in Tasks, u # t PROVE Continued(v, u)
  <2>1. Continued(w, u) BY <1>1 DEF Groups
  <2>2. \A q \in Active(w, u) : q \in 1..w.used BY DEF Active
  <2>3. ASSUME NEW g, NEW E, Room(w, u, g, E) PROVE Room(v, u, g, E)
    BY <1>3, <1>4, <1>6, <1>9, <2>2, <2>3 DEF Room
  <2>4. v.st[u] = w.st[u] /\ \A k : Ended(v, k) \ Active(v, u) = Ended(w, k) \ Active(w, u)
    BY <1>3, <1>5, <1>6, <1>9
  <2> QED BY <2>1, <2>3, <2>4 DEF Continued
<1>10. Continued(v, t)
  <2>1. /\ s.retrying => Room(w, t, s.retryGroup, Ended(w, s.retryGroup) \ {r})
        /\ s.deferred.attempts # 0 => Room(w, t, s.deferred.group, Ended(w, s.deferred.group) \ {r})
    BY <1>1, <1>6 DEF Groups, Continued
  <2>2. SUFFICES /\ p.retrying => Room(v, t, p.retryGroup, Ended(w, p.retryGroup))
                 /\ p.deferred.attempts # 0 => Room(v, t, p.deferred.group, Ended(w, p.deferred.group))
    BY <1>3, <1>5, <1>6 DEF Continued
  <2>3. ASSUME NEW g, g \in 1..w.used, w.row[g].task = t, NEW E, AtMostOne(E), p.retrying \/ E = {}
        PROVE  Room(v, t, g, E)
    BY <1>3, <1>4, <1>6, <2>3 DEF Room
  <2>4. ASSUME NEW g, Room(w, t, g, Ended(w, g) \ {r}), r \notin Ended(w, g), p.retrying = s.retrying
        PROVE  Room(v, t, g, Ended(w, g))
    <3>1. Ended(w, g) \ {r} = Ended(w, g) BY <2>4
    <3>2. g \in 1..w.used /\ w.row[g].task = t /\ AtMostOne(Ended(w, g)) /\ (p.retrying \/ Ended(w, g) = {})
      BY <2>4, <3>1 DEF Room
    <3> QED BY <2>3, <3>2
  <2>5. run.group \in 1..w.used /\ w.row[run.group].task = t /\ LiveRun(w, r) BY GroupFacts
  <2>6. CASE run.trigger = "manual" /\ SameGroups(s, p)
    <3>1. ASSUME NEW g, Room(w, t, g, Ended(w, g) \ {r}) PROVE Room(v, t, g, Ended(w, g))
      <4>1. g # r BY <1>6, <2>6, <3>1 DEF Room
      <4>2. r \notin Ended(w, g) BY <2>5, <2>6, <4>1 DEF LiveRun, Ended
      <4> QED BY <2>4, <2>6, <3>1, <4>2 DEF SameGroups
    <3> QED BY <2>1, <2>6, <3>1 DEF SameGroups
  <2>7. CASE Cleared(p) BY <2>7 DEF Cleared
  <2>8. CASE /\ run.trigger # "manual" /\ run.attempt = 1
             /\ p.retrying /\ p.retryGroup = run.group /\ p.deferred.attempts = 0
    <3>1. AtMostOne(Ended(w, run.group)) BY <2>5, <2>8 DEF LiveRun, AtMostOne
    <3> QED BY <2>3, <2>5, <2>8, <3>1
  <2>9. CASE /\ w.hist[r].outcome = "deferred" /\ p.retrying = s.retrying /\ p.retryGroup = s.retryGroup
             /\ p.deferred.attempts # 0
             /\ p.deferred.group = IF s.deferred.attempts = 0 THEN run.group ELSE s.deferred.group
    <3>1. \A g : r \notin Ended(w, g) BY <2>9 DEF Ended
    <3>2. p.retrying => Room(v, t, p.retryGroup, Ended(w, p.retryGroup)) BY <2>1, <2>4, <2>9, <3>1
    <3>3. CASE s.deferred.attempts # 0 BY <2>1, <2>4, <2>9, <3>1, <3>2, <3>3
    <3>4. CASE s.deferred.attempts = 0
      <4>1. Ended(w, run.group) \ {r} = Ended(w, run.group) BY <3>1
      <4>2. AtMostOne(Ended(w, run.group)) BY <2>5, <4>1 DEF LiveRun
      <4>3. CASE run.trigger = "manual"
        <5>1. Ended(w, run.group) = {} BY <2>5, <3>1, <4>3 DEF LiveRun, Ended
        <5> QED BY <2>3, <2>5, <2>9, <3>2, <3>4, <4>2, <5>1
      <4>4. CASE run.trigger # "manual"
        <5>1. s.retrying \/ Ended(w, run.group) = {} BY <2>5, <4>1, <4>4 DEF LiveRun
        <5> QED BY <2>3, <2>5, <2>9, <3>2, <3>4, <4>2, <5>1
      <4> QED BY <4>3, <4>4
    <3> QED BY <3>3, <3>4
  <2> QED BY <2>6, <2>7, <2>8, <2>9 DEF Patched
<1>11. Groups(v)
  <2>1. \A g \in 1..v.used : \A x, y, z \in Ended(v, g) : x = y \/ y = z \/ x = z BY <1>1, <1>5 DEF Groups
  <2>2. \A q \in 1..v.used : v.row[q].group \in 1..v.used /\ v.row[v.row[q].group].task = v.row[q].task
    BY <1>1, <1>4 DEF Groups
  <2>3. \A q, x \in 1..v.used : v.row[q].live /\ v.row[x].live /\ v.row[q].task = v.row[x].task => q = x
    BY <1>1, <1>4 DEF Groups
  <2> QED BY <1>8, <1>9, <1>10, <2>1, <2>2, <2>3 DEF Groups
<1>12. Keeps(w, v)
  <2>1. w.used \in Nat BY <1>1, Ids
  <2> QED BY <1>1, <1>2, <1>4, <2>1 DEF Keeps
<1>13. ASSUME Queue(w, {}) PROVE Queue(v, {r})
  <2>1. \A q, l : Belongs(w, q, l) => Belongs(v, q, l) BY <1>4 DEF Belongs
  <2>2. \A q, l : Belongs(w, q, l) /\ w.row[q].live => v.row[q].live \/ q \in {r} BY <1>4 DEF Belongs
  <2> QED BY <1>13, <2>1, <2>2 DEF Queue
<1> QED BY <1>7, <1>11, <1>12, <1>13 DEF Good

\* A served world after a chain is a chain.
LEMMA ThenServes ==
    ASSUME NEW u, NEW w, NEW v, Shape(u), Good(w), Keeps(u, w), Serves(w, v)
    PROVE  Good(v) /\ Keeps(u, v)
<1>1. Good(v) /\ Keeps(w, v) BY ServesFacts, MovesApply
<1> QED BY <1>1, KeepsTrans DEF Good

\* The run is closed and its task patched.
LEMMA ClosingFacts ==
    ASSUME NEW w, Good(w), NEW r \in 1..w.used, w.row[r].live, w.hist[r].outcome # "none",
           NEW n, NEW hint, NEW v,
           Closes(w, v, r, computeStatePatch(w.st[w.row[r].task], w.row[r], w.hist[r].outcome, w.hist[r].diag, n, hint))
    PROVE  Good(v) /\ Keeps(w, v) /\ (Queue(w, {}) => Queue(v, {r}))
<1> DEFINE t == w.row[r].task
           p == computeStatePatch(w.st[t], w.row[r], w.hist[r].outcome, w.hist[r].diag, n, hint)
<1>1. Shape(w) /\ History(w) /\ r \in RunIds /\ t \in Tasks /\ StateTyped(w.st[t]) /\ \A q \in 1..w.used : q \in RunIds
  BY Ids DEF Good, Shape
<1>2. EntryTyped(w.hist[r]) BY <1>1 DEF History
<1>3. StateTyped(p) /\ Patched(w.st[t], w.row[r], w.hist[r].outcome, p) BY <1>1, <1>2, PatchFacts
<1>4. Closes(w, v, r, p) OBVIOUS
<1> HIDE DEF p
<1>5. Shape(v)
  <2>1. /\ DOMAIN v.st = Tasks /\ v.st[t] = p /\ \A u \in Tasks : u # t => v.st[u] = w.st[u]
        /\ DOMAIN v.row = RunIds /\ v.row[r] = Closed(w.row[r]) /\ \A q \in RunIds : q # r => v.row[q] = w.row[q]
    BY <1>1, <1>4 DEF Shape, Closes
  <2>2. /\ DOMAIN Closed(w.row[r]) = RowFields /\ Closed(w.row[r]).task = t
        /\ Closed(w.row[r]).req = "none" /\ Closed(w.row[r]).live = FALSE
    BY DEF Closed, NoRow, RowFields
  <2>3. \A u \in Tasks : StateTyped(v.st[u]) BY <1>1, <1>3, <2>1 DEF Shape
  <2>4. \A q \in RunIds : DOMAIN v.row[q] = RowFields BY <1>1, <2>1, <2>2 DEF Shape
  <2>5. \A q \in 1..w.used : /\ v.row[q].task \in Tasks
                             /\ v.row[q].req \in {"none", "cancelled", "deadline"}
                             /\ v.row[q].live \in BOOLEAN
    BY <1>1, <2>1, <2>2 DEF Shape
  <2> QED BY <1>1, <1>4, <2>1, <2>3, <2>4, <2>5 DEF Shape, Closes
<1> QED BY <1>3, <1>4, <1>5, CloseApplies

\* What is left when a run was closed and its lane is still to be freed
ClosedOff(w, c, r, T) ==
    /\ Good(c) /\ Keeps(w, c) /\ (Queue(w, {}) => Queue(c, {r}))
    /\ c.used = w.used /\ c.lane = w.lane /\ c.torn = T /\ DOMAIN c = Fields
    /\ \A q, l : Belongs(w, q, l) => Belongs(c, q, l)

\* What close does, once for each run that it reports.
LEMMA CloseFacts ==
    ASSUME NEW w, Good(w), NEW r \in 1..w.used, w.row[r].live, w.hist[r].outcome # "none",
           NEW n, NEW hint, NEW cascade \in BOOLEAN, w.reported[r] = 0 \/ cascade = FALSE, NEW T, w.torn \subseteq T
    PROVE  LET c == close(w, r, n, hint, cascade)
               v == [c EXCEPT !.torn = T]
           IN  ClosedOff(w, c, r, w.torn) /\ ClosedOff(w, v, r, T)
<1> DEFINE t == w.row[r].task
           p == computeStatePatch(w.st[t], w.row[r], w.hist[r].outcome, w.hist[r].diag, n, hint)
           x == IF Fires(w, r, cascade) THEN w.reported[r] + 1 ELSE w.reported[r]
           c == close(w, r, n, hint, cascade)
           v == [c EXCEPT !.torn = T]
<1>1. Shape(w) /\ History(w) /\ r \in RunIds /\ \A q \in 1..w.used : q \in RunIds BY Ids DEF Good
<1>2. DOMAIN w = Fields /\ DOMAIN w.reported = RunIds /\ DOMAIN w.row = RunIds /\ DOMAIN w.row[r] = RowFields
  BY <1>1 DEF Shape
<1>3. c = [w EXCEPT !.row[r] = Closed(w.row[r]), !.st[t] = p, !.reported[r] = x]
  BY <1>2 DEF close, Fields
<1>4. x \in {0, 1} /\ (x = 1 => w.hist[r].outcome \in {"failed", "timed_out"})
  <2>1. w.reported[r] \in {0, 1} /\ (w.reported[r] = 1 => w.hist[r].outcome \in {"failed", "timed_out"})
    BY <1>1 DEF History
  <2>2. CASE Fires(w, r, cascade)
    <3>1. cascade /\ w.hist[r].outcome \in {"failed", "timed_out"} BY <2>2 DEF Fires
    <3>2. w.reported[r] = 0 BY <3>1
    <3> QED BY <2>2, <3>1, <3>2
  <2>3. CASE ~Fires(w, r, cascade) BY <2>1, <2>3
  <2> QED BY <2>2, <2>3
<1> HIDE DEF p, x, c
<1>5. /\ DOMAIN c = Fields /\ c.used = w.used /\ c.hist = w.hist /\ c.lane = w.lane
      /\ c.handles = w.handles /\ c.adapter = w.adapter /\ c.torn = w.torn
      /\ c.st = [w.st EXCEPT ![t] = p]
      /\ c.row = [w.row EXCEPT ![r] = Closed(w.row[r])]
      /\ c.reported = [w.reported EXCEPT ![r] = x]
  BY <1>2, <1>3 DEF Fields
<1>6. /\ DOMAIN v = Fields /\ v.used = w.used /\ v.hist = w.hist /\ v.lane = w.lane
      /\ v.handles = w.handles /\ v.adapter = w.adapter /\ v.torn = T
      /\ v.st = [w.st EXCEPT ![t] = p]
      /\ v.row = [w.row EXCEPT ![r] = Closed(w.row[r])]
      /\ v.reported = [w.reported EXCEPT ![r] = x]
  BY <1>5 DEF Fields
<1> HIDE DEF v
<1>7. LET f == [w.reported EXCEPT ![r] = x]
      IN  DOMAIN f = RunIds /\ f[r] = x /\ \A q \in RunIds : q # r => f[q] = w.reported[q]
  BY <1>1, <1>2
<1>8. Closes(w, c, r, p) /\ Closes(w, v, r, p) BY <1>4, <1>5, <1>6, <1>7 DEF Closes
<1>9. /\ Good(c) /\ Keeps(w, c) /\ (Queue(w, {}) => Queue(c, {r}))
      /\ Good(v) /\ Keeps(w, v) /\ (Queue(w, {}) => Queue(v, {r}))
  BY <1>8, ClosingFacts DEF p
<1>10. \A q \in 1..w.used : c.row[q].trigger = w.row[q].trigger /\ v.row[q].trigger = w.row[q].trigger
  <2>1. Closed(w.row[r]).trigger = w.row[r].trigger BY DEF Closed, NoRow
  <2> QED BY <1>1, <1>2, <1>5, <1>6, <2>1
<1>11. ClosedOff(w, c, r, w.torn) BY <1>5, <1>9, <1>10 DEF ClosedOff, Belongs
<1>12. ClosedOff(w, v, r, T) BY <1>6, <1>9, <1>10 DEF ClosedOff, Belongs
<1> QED BY <1>11, <1>12 DEF c, v

\* Results as the adapters and the callers of the settler give them.
LEMMA NormalizeFacts ==
    ASSUME NEW run, run.req \in {"none", "cancelled", "deadline"}, NEW o, NEW d, EntryTyped([outcome |-> o, diag |-> d]),
           NEW early \in BOOLEAN
    PROVE  LET e == normalizeTerminal(run, o, d, early)
           IN  EntryTyped(e) /\ (run.req = "cancelled" => e.outcome = "cancelled")
<1> DEFINE given == [outcome |-> o, diag |-> d]
           stopped == [outcome |-> "cancelled", diag |-> Diag("interruption", "cancelled", "none")]
           over == [outcome |-> "failed", diag |-> Diag("interruption", "deadline_exceeded", "none")]
           e == normalizeTerminal(run, o, d, early)
<1>1. EntryTyped(stopped) /\ EntryTyped(over) BY DEF EntryTyped, Failures, Categories, Diag
<1>2. e \in {given, stopped, over} /\ (run.req = "cancelled" => e = stopped) BY DEF normalizeTerminal
<1> QED BY <1>1, <1>2

\* What is left when the outcome of a live run was recorded
Recorded(w, h, r) ==
    /\ Good(h) /\ Keeps(w, h) /\ h.lane = w.lane /\ h.row = w.row /\ h.used = w.used
    /\ h.torn = w.torn /\ h.reported[r] = 0 /\ h.hist[r].outcome # "none"
    /\ w.row[r].live /\ (Queue(w, {}) => Queue(h, {}) /\ Queue(h, {r}))

\* The settler's first write: the outcome of a run that has none.
LEMMA RecordFacts ==
    ASSUME NEW w, Good(w), NEW r \in 1..w.used, w.hist[r].outcome = "none",
           NEW res, EntryTyped([outcome |-> res.outcome, diag |-> res.diag]),
           NEW early \in BOOLEAN, NEW hint
    PROVE  Recorded(w, record(w, r, res, early, hint), r)
<1> DEFINE run == w.row[r]
           spent == /\ res.outcome = "deferred" /\ res.diag.category = "admission"
                    /\ admissionExhausted(w.st[run.task], hint)
           o == IF spent THEN "failed" ELSE res.outcome
           d == IF spent THEN Diag("admission", "executor_unavailable", "none") ELSE res.diag
           fin == normalizeTerminal(run, o, d, early)
           h == [w EXCEPT !.hist[r] = fin]
<1>1. Shape(w) /\ History(w) BY DEF Good
<1>2. run.live /\ run.req \in {"none", "cancelled", "deadline"} BY <1>1 DEF History, Shape
<1>3. EntryTyped([outcome |-> o, diag |-> d])
  <2>1. EntryTyped([outcome |-> "failed", diag |-> Diag("admission", "executor_unavailable", "none")])
    BY DEF EntryTyped, Failures, Categories, Diag
  <2>2. CASE spent BY <2>1, <2>2
  <2>3. CASE ~spent BY <2>3
  <2> QED BY <2>2, <2>3
<1>4. record(w, r, res, early, hint) = h BY DEF record
<1> HIDE DEF o, d
<1>5. EntryTyped(fin) /\ (run.req = "cancelled" => fin.outcome = "cancelled") BY <1>2, <1>3, NormalizeFacts
<1> HIDE DEF fin
<1>6. /\ Good(h) /\ Keeps(w, h) /\ h.lane = w.lane /\ h.row = w.row /\ h.used = w.used /\ h.st = w.st
      /\ h.reported[r] = 0 /\ h.reported = w.reported /\ h.torn = w.torn /\ h.hist[r] = fin
  BY <1>5, RecordApplies
<1>7. fin.outcome # "none" BY <1>5 DEF EntryTyped, Failures
<1> HIDE DEF h
<1>8. Queue(w, {}) => Queue(h, {}) /\ Queue(h, {r}) BY <1>6 DEF Queue, Belongs
<1> QED BY <1>2, <1>4, <1>6, <1>7, <1>8 DEF Recorded

-----------------------------------------------------------------------------
(* The terminal event.                                                     *)

\* A script whose spawn is refused is settled on the spot.
LEMMA RefuseFacts ==
    ASSUME NEW w, Good(w), Queue(w, {}), NEW r \in 1..w.used, w.hist[r].outcome = "none", NEW n, NEW fault
    PROVE  LET v == refuse(w, r, n, fault)
           IN  /\ Good(v) /\ Keeps(w, v) /\ Queue(v, {r}) /\ v.lane = w.lane
               /\ \A q, l : Belongs(w, q, l) => Belongs(v, q, l)
<1> DEFINE h == record(w, r, SpawnRefused, FALSE, 0)
           thrown == fault = "thrown" /\ CanTear(h, r, TRUE, FALSE)
           c == close(h, r, n, 0, ~thrown)
           a == [c EXCEPT !.adapter[r] = "gone"]
           H == IF thrown THEN a.handles \cup {r} ELSE a.handles \ {r}
           v == [a EXCEPT !.handles = H]
<1>1. EntryTyped([outcome |-> SpawnRefused.outcome, diag |-> SpawnRefused.diag])
  BY DEF SpawnRefused, Result, EntryTyped, Failures, Categories, Diag
<1>2. /\ Good(h) /\ Keeps(w, h) /\ h.lane = w.lane /\ h.row = w.row /\ h.used = w.used
      /\ h.reported[r] = 0 /\ h.hist[r].outcome # "none" /\ w.row[r].live /\ Queue(h, {})
  <2>1. Recorded(w, h, r) BY <1>1, RecordFacts
  <2> HIDE DEF h
  <2> QED BY <2>1 DEF Recorded
<1>3. thrown \in BOOLEAN OBVIOUS
<1> HIDE DEF h, thrown
<1>4. /\ Good(c) /\ Keeps(h, c) /\ Queue(c, {r}) /\ c.used = h.used /\ c.lane = h.lane /\ DOMAIN c = Fields
      /\ \A q, l : Belongs(h, q, l) => Belongs(c, q, l)
  <2>1. h.torn \subseteq h.torn /\ (~thrown) \in BOOLEAN BY <1>3
  <2>2. ClosedOff(h, c, r, h.torn) BY <1>2, <2>1, CloseFacts
  <2> HIDE DEF c
  <2> QED BY <1>2, <2>2 DEF ClosedOff
<1>5. refuse(w, r, n, fault) = v
  <2>1. refuse(w, r, n, fault) = [c EXCEPT !.adapter[r] = "gone",
                                           !.handles = IF thrown THEN c.handles \cup {r} ELSE c.handles \ {r}]
    BY <1>4 DEF refuse, h, thrown, Fields
  <2> HIDE DEF c
  <2> QED BY <1>4, <2>1 DEF Fields
<1> HIDE DEF c
<1>6. Shape(w) /\ Shape(h) /\ Shape(c) /\ r \in RunIds BY <1>2, <1>4, Ids DEF Good
<1>7. Serves(c, a) /\ a.lane = c.lane /\ a.row = c.row BY <1>6, AdapterServes
<1> HIDE DEF a
<1>8. Shape(a) /\ a.used = c.used BY <1>7 DEF Serves
<1>9. H \subseteq 1..a.used
  <2>1. a.handles \subseteq 1..a.used BY <1>8 DEF Shape
  <2> QED BY <1>2, <1>4, <1>8, <2>1
<1> HIDE DEF H
<1>10. Serves(a, v) /\ v.lane = a.lane /\ v.row = a.row BY <1>8, <1>9, HandlesServe
<1> HIDE DEF v
<1>11. Serves(c, v) /\ v.lane = c.lane BY <1>7, <1>10, ServesFacts
<1>12. Queue(v, {r}) BY <1>4, <1>11, ServesQueue
<1>13. Good(v) /\ Keeps(h, v) BY <1>4, <1>6, <1>11, ThenServes
<1>14. Keeps(w, v) BY <1>2, <1>6, <1>13, KeepsTrans DEF Good
<1>15. v.used = c.used /\ v.row = c.row BY <1>7, <1>8, <1>10 DEF Serves
<1>16. \A q, l : Belongs(w, q, l) => Belongs(v, q, l)
  <2>1. \A q, l : Belongs(w, q, l) => Belongs(h, q, l) BY <1>2 DEF Belongs
  <2>2. \A q, l : Belongs(c, q, l) => Belongs(v, q, l) BY <1>15 DEF Belongs
  <2> QED BY <1>4, <2>1, <2>2
<1> QED BY <1>2, <1>4, <1>5, <1>11, <1>12, <1>13, <1>14, <1>16

\* A free lane goes on to the first pending run that starts.
LEMMA ProcessLaneApplies ==
    ASSUME NEW w, Good(w), Queue(w, {}), NEW l \in Lanes, NEW n, NEW fault
    PROVE  Applies(w, processLane(w, l, n, fault))
<1> DEFINE i == Min(Alive(w, l))
           r == w.lane[l].pending[i]
           refused == /\ fault \in Refusal
                      /\ w.lane[l].current = 0
                      /\ Alive(w, l) # {}
                      /\ Kind[w.row[r].task] = "script"
                      /\ appendRunOnce(w, r)
           v == refuse(w, r, n, fault)
<1>1. processLane(w, l, n, fault) = IF refused THEN startNext(v, l, "none") ELSE startNext(w, l, fault)
  BY DEF processLane
<1>2. Shape(w) BY DEF Good
<1>3. CASE ~refused
  <2>1. Serves(w, startNext(w, l, fault)) /\ Queue(startNext(w, l, fault), {}) BY <1>2, StartNextServes
  <2>2. Good(startNext(w, l, fault)) /\ Keeps(w, startNext(w, l, fault)) BY <2>1, ServesFacts, MovesApply
  <2> QED BY <1>1, <1>3, <2>1, <2>2 DEF Applies
<1>4. CASE refused
  <2>1. i \in 1..Len(w.lane[l].pending)
    <3>1. Alive(w, l) \subseteq 1..Len(w.lane[l].pending) BY DEF Alive
    <3>2. Alive(w, l) \subseteq Nat /\ Alive(w, l) # {} /\ Alive(w, l) \subseteq 1..Len(w.lane[l].pending)
      BY <1>4, <3>1
    <3> QED BY <3>2, MinFacts
  <2>2. Belongs(w, r, l) BY <2>1 DEF Queue
  <2>3. r \in 1..w.used /\ w.hist[r].outcome = "none" /\ w.lane[l].current = 0
    BY <1>4, <2>2 DEF Belongs, appendRunOnce
  <2> HIDE DEF r
  <2>4. Good(v) /\ Keeps(w, v) /\ Queue(v, {r}) /\ v.lane = w.lane BY <2>3, RefuseFacts
  <2> HIDE DEF v
  <2>5. \A m \in Lanes : v.lane[m].current # r
    <3>1. r # 0 BY <1>2, <2>3, Ids
    <3>2. ASSUME NEW m \in Lanes, v.lane[m].current = r PROVE FALSE
      <4>1. Belongs(w, r, m) BY <2>4, <3>1, <3>2 DEF Queue
      <4>2. m = l BY <2>2, <4>1 DEF Belongs, Lanes
      <4> QED BY <2>3, <2>4, <3>1, <3>2, <4>2
    <3> QED BY <3>2
  <2>6. Queue(v, {}) BY <2>4, <2>5 DEF Queue
  <2>7. Shape(v) BY <2>4 DEF Good
  <2>8. Serves(v, startNext(v, l, "none")) /\ Queue(startNext(v, l, "none"), {}) BY <2>6, <2>7, StartNextServes
  <2>9. Good(startNext(v, l, "none")) /\ Keeps(w, startNext(v, l, "none")) BY <1>2, <2>4, <2>8, ThenServes
  <2>10. processLane(w, l, n, fault) = startNext(v, l, "none") BY <1>1, <1>4
  <2> QED BY <2>8, <2>9, <2>10 DEF Applies
<1> QED BY <1>3, <1>4

\* The end of a run frees the lane it held, or pumps both.
LEMMA EmitTerminalApplies ==
    ASSUME NEW w, Good(w), NEW r \in 1..w.used, Queue(w, {r}), NEW n, NEW fault
    PROVE  Applies(w, emitTerminal(w, r, n, fault))
<1> DEFINE h == [w EXCEPT !.handles = w.handles \ {r}]
           held == {l \in Lanes : w.lane[l].current = r}
<1>0. Shape(w) BY DEF Good
<1>1. Serves(w, h) /\ h.lane = w.lane /\ h.row = w.row
  <2>1. w.handles \ {r} \subseteq 1..w.used BY <1>0 DEF Shape
  <2> QED BY <1>0, <2>1, HandlesServe
<1>2. Shape(h) /\ Queue(h, {r}) BY <1>1, ServesQueue DEF Serves
<1>3. "manual" \in Lanes /\ "scheduled" \in Lanes BY DEF Lanes
<1>4. emitTerminal(w, r, n, fault) =
         IF held = {} THEN processLane(processLane(h, "manual", n, fault), "scheduled", n, fault)
         ELSE processLane([h EXCEPT !.lane[CHOOSE x \in held : TRUE].current = 0], CHOOSE x \in held : TRUE, n, fault)
  BY DEF emitTerminal
<1>5. CASE held = {}
  <2> HIDE DEF h
  <2>1. Queue(h, {}) BY <1>1, <1>2, <1>5 DEF Queue
  <2>2. Good(h) /\ Keeps(w, h) BY <1>1, ServesFacts, MovesApply
  <2> DEFINE u == processLane(h, "manual", n, fault)
             v == processLane(u, "scheduled", n, fault)
  <2>3. Applies(h, u) BY <1>3, <2>1, <2>2, ProcessLaneApplies
  <2> HIDE DEF u
  <2>4. Applies(u, v) BY <1>3, <2>3, ProcessLaneApplies DEF Applies
  <2>5. emitTerminal(w, r, n, fault) = v BY <1>4, <1>5 DEF u
  <2> HIDE DEF v
  <2>6. Keeps(h, v) BY <1>2, <2>3, <2>4, KeepsTrans DEF Applies, Good
  <2>7. Keeps(w, v) BY <1>0, <1>2, <2>2, <2>4, <2>6, KeepsTrans DEF Applies, Good
  <2> QED BY <2>4, <2>5, <2>7 DEF Applies
<1>6. CASE held # {}
  <2> DEFINE l == CHOOSE x \in held : TRUE
             v == [h EXCEPT !.lane[l].current = 0]
  <2>1. l \in Lanes /\ w.lane[l].current = r BY <1>6
  <2> HIDE DEF l
  <2>2. \A m \in Lanes : w.lane[m].current = r => m = l
    <3>1. r # 0 BY <1>0, Ids
    <3>2. \A m \in Lanes : w.lane[m].current = r => Belongs(w, r, m) BY <3>1 DEF Queue
    <3> QED BY <2>1, <3>2 DEF Belongs, Lanes
  <2> HIDE DEF h
  <2>3. DOMAIN h = Fields /\ DOMAIN h.lane = Lanes /\ DOMAIN h.lane[l] = {"current", "pending"} BY <1>2, <2>1 DEF Shape
  <2>4. /\ v.st = h.st /\ v.used = h.used /\ v.hist = h.hist /\ v.reported = h.reported /\ v.torn = h.torn /\ v.row = h.row
        /\ v.adapter = h.adapter /\ v.handles = h.handles /\ DOMAIN v = Fields /\ DOMAIN v.lane = Lanes
        /\ \A m \in Lanes : m # l => v.lane[m] = h.lane[m]
    BY <2>3 DEF Fields
  <2>5. DOMAIN v.lane[l] = {"current", "pending"} /\ v.lane[l].current = 0 /\ v.lane[l].pending = h.lane[l].pending
    BY <2>1, <2>3 DEF Fields
  <2> HIDE DEF v
  <2>6. Shape(v) BY <1>2, <2>4, <2>5 DEF Shape
  <2>7. Serves(h, v) BY <2>4, <2>6 DEF Serves, SameRow
  <2>8. Queue(v, {})
    <3>1. \A q, m : Belongs(v, q, m) <=> Belongs(h, q, m) BY <2>4 DEF Belongs
    <3>2. ASSUME NEW m \in Lanes
          PROVE  LET q == v.lane[m]
                 IN  /\ q.current # 0 => Belongs(v, q.current, m) /\ (v.row[q.current].live \/ q.current \in v.torn)
                     /\ q.pending \in Seq(1..v.used) /\ \A j \in 1..Len(q.pending) : Belongs(v, q.pending[j], m)
      <4>1. /\ h.lane[m].current # 0 => Belongs(h, h.lane[m].current, m) /\ (h.row[h.lane[m].current].live \/ h.lane[m].current \in {r} \cup h.torn)
            /\ h.lane[m].pending \in Seq(1..h.used)
            /\ \A j \in 1..Len(h.lane[m].pending) : Belongs(h, h.lane[m].pending[j], m)
        BY <1>2 DEF Queue
      <4>2. CASE m = l BY <2>4, <2>5, <3>1, <4>1, <4>2
      <4>3. CASE m # l
        <5>1. v.lane[m] = h.lane[m] /\ h.lane[m].current # r BY <1>1, <2>2, <2>4, <4>3
        <5> QED BY <2>4, <3>1, <4>1, <5>1
      <4> QED BY <4>2, <4>3
    <3> QED BY <3>2 DEF Queue
  <2>9. Good(v) /\ Keeps(w, v) BY <1>1, <2>7, ServesFacts, MovesApply
  <2> DEFINE u == processLane(v, l, n, fault)
  <2>10. Applies(v, u) BY <2>1, <2>8, <2>9, ProcessLaneApplies
  <2>11. emitTerminal(w, r, n, fault) = u BY <1>4, <1>6 DEF l, v
  <2> HIDE DEF u
  <2>12. Keeps(w, u) BY <1>0, <2>6, <2>9, <2>10, KeepsTrans DEF Applies, Good
  <2> QED BY <2>10, <2>11, <2>12 DEF Applies
<1> QED BY <1>5, <1>6

-----------------------------------------------------------------------------
(* Settlements: the second half, and both.                                 *)

\* The run is closed and everybody told, unless something throws in between.
LEMMA CloseAndTellApplies ==
    ASSUME NEW w, Good(w), Queue(w, {}), NEW r \in 1..w.used, w.row[r].live, w.hist[r].outcome # "none",
           NEW n, NEW hint, NEW cascade \in BOOLEAN, w.reported[r] = 0 \/ cascade = FALSE, NEW card, NEW fault
    PROVE  Applies(w, closeAndTell(w, r, n, hint, cascade, card, fault))
<1> DEFINE c == close(w, r, n, hint, cascade)
           d == close(w, r, n, hint, FALSE)
           T == w.torn \cup {r}
           v == [d EXCEPT !.torn = T]
           tears == fault = "torn" /\ CanTear(w, r, cascade, card)
<1>1. w.torn \subseteq T /\ Shape(w) BY DEF Good
<1>2. Good(c) /\ Keeps(w, c) /\ Queue(c, {r}) /\ c.used = w.used
  <2>1. ClosedOff(w, c, r, w.torn) BY <1>1, CloseFacts
  <2> HIDE DEF c
  <2> QED BY <2>1 DEF ClosedOff
<1>3. Good(v) /\ Keeps(w, v) /\ Queue(v, {r}) /\ v.torn = T /\ d.torn = w.torn /\ DOMAIN d = Fields
  <2> HIDE DEF T
  <2>1. ClosedOff(w, d, r, w.torn) /\ ClosedOff(w, v, r, T) BY <1>1, CloseFacts
  <2> HIDE DEF d, v
  <2> QED BY <2>1 DEF ClosedOff
<1>4. Queue(v, {}) BY <1>3 DEF Queue
<1>5. [close(w, r, n, hint, FALSE) EXCEPT !.torn = @ \cup {r}] = v BY <1>3 DEF Fields
<1>6. closeAndTell(w, r, n, hint, cascade, card, fault) = IF tears THEN v ELSE emitTerminal(c, r, n, fault)
  BY <1>5 DEF closeAndTell
<1> HIDE DEF c, v
<1>7. Applies(c, emitTerminal(c, r, n, fault)) BY <1>2, EmitTerminalApplies
<1>8. Keeps(w, emitTerminal(c, r, n, fault)) BY <1>1, <1>2, <1>7, KeepsTrans DEF Applies, Good
<1> QED BY <1>3, <1>4, <1>6, <1>7, <1>8 DEF Applies

\* The settler records one outcome and closes the run once.
LEMMA SettleApplies ==
    ASSUME NEW w, Good(w), Queue(w, {}), NEW r \in 1..w.used,
           NEW res, EntryTyped([outcome |-> res.outcome, diag |-> res.diag]), res.cascade \in BOOLEAN,
           NEW early \in BOOLEAN, NEW hint, NEW n, NEW fault
    PROVE  Applies(w, settleRunOnce(w, r, res, early, hint, n, fault))
<1> DEFINE h == record(w, r, res, early, hint)
           v == settleRunOnce(w, r, res, early, hint, n, fault)
<1>1. Shape(w) BY DEF Good
<1>2. CASE w.hist[r].outcome # "none"
  <2>1. v = w BY <1>2 DEF settleRunOnce, appendRunOnce
  <2>2. Keeps(w, w) BY <1>1, ServesFacts, MovesApply
  <2> QED BY <2>1, <2>2 DEF Applies
<1>3. CASE w.hist[r].outcome = "none"
  <2>1. /\ Good(h) /\ Keeps(w, h) /\ h.row = w.row /\ h.used = w.used /\ h.reported[r] = 0
        /\ h.hist[r].outcome # "none" /\ w.row[r].live /\ Queue(h, {}) /\ Queue(h, {r})
    <3>1. Recorded(w, h, r) BY <1>3, RecordFacts
    <3> HIDE DEF h
    <3> QED BY <3>1 DEF Recorded
  <2>2. v = IF fault = "lost" THEN emitTerminal(h, r, n, fault)
            ELSE closeAndTell(h, r, n, hint, res.cascade, res.card, fault)
    BY <1>3, <2>1 DEF settleRunOnce, appendRunOnce
  <2> HIDE DEF h, v
  <2>3. Applies(h, emitTerminal(h, r, n, fault)) BY <2>1, EmitTerminalApplies
  <2>4. Applies(h, closeAndTell(h, r, n, hint, res.cascade, res.card, fault)) BY <2>1, CloseAndTellApplies
  <2>5. Applies(h, v) BY <2>2, <2>3, <2>4
  <2>6. Keeps(w, v) BY <1>1, <2>1, <2>5, KeepsTrans DEF Applies, Good
  <2> QED BY <2>5, <2>6 DEF Applies, v
<1> QED BY <1>2, <1>3

\* The repair from the history does the second half.
LEMMA FromHistoryApplies ==
    ASSUME NEW w, Good(w), Queue(w, {}), NEW r \in 1..w.used, w.row[r].live, w.hist[r].outcome # "none", NEW n,
           NEW fault
    PROVE  Applies(w, settleRunFromHistory(w, r, n, fault))
<1>1. Keeps(w, w)
  <2>1. Shape(w) BY DEF Good
  <2> QED BY <2>1, ServesFacts, MovesApply
<1>2. \A card : Applies(w, closeAndTell(w, r, n, 0, FALSE, card, fault)) BY CloseAndTellApplies
<1> QED BY <1>1, <1>2 DEF settleRunFromHistory, Applies

-----------------------------------------------------------------------------
(* Reservations.                                                           *)

\* A run of a task may be its first or second attempt, in its own group or in this one
MayTake(w, t, trigger, attempt, group) ==
    /\ attempt \in {1, 2}
    /\ attempt = 2 => w.st[t].retrying /\ trigger # "manual"
    /\ group # 0 => Room(w, t, group, Ended(w, group)) /\ trigger # "manual"
    /\ group # 0 /\ attempt = 1 => ~w.st[t].retrying

\* The next run id is given to a task that has no live run: for a group of its own,
\* or for one that has room.
LEMMA ReserveApplies ==
    ASSUME NEW w, Good(w), Queue(w, {}), NEW t \in Tasks, CanReserve(w, t),
           NEW trigger, NEW attempt, NEW group, NEW ceil, MayTake(w, t, trigger, attempt, group)
    PROVE  LET v == reserveRun(w, t, trigger, attempt, group, ceil)
           IN  Applies(w, v) /\ v.used = w.used + 1
<1> DEFINE r == w.used + 1
           g == IF group = 0 THEN r ELSE group
           new == [task |-> t, trigger |-> trigger, attempt |-> attempt, group |-> g,
                   phase |-> "reserved", ceil |-> ceil, idle |-> IdleBudget, req |-> "none", grace |-> 0,
                   live |-> TRUE, owned |-> TRUE, card |-> FALSE]
           v == reserveRun(w, t, trigger, attempt, group, ceil)
<1> USE DEF MayTake
<1>1. /\ Shape(w) /\ History(w) /\ Groups(w) /\ Active(w, t) = {} /\ w.used < MaxRuns
      /\ w.used \in Nat /\ MaxRuns \in Nat /\ RunIds = 1..MaxRuns
  BY Ids DEF Good, CanReserve
<1>2. /\ r \in RunIds /\ r \in Nat /\ r \notin 1..w.used
      /\ 1..r = (1..w.used) \cup {r} /\ \A q \in 1..w.used : q \in RunIds
  BY <1>1
<1>3. /\ DOMAIN v = Fields /\ v.used = r /\ v.row = [w.row EXCEPT ![r] = new]
      /\ v.st = w.st /\ v.hist = w.hist /\ v.lane = w.lane /\ v.handles = w.handles
      /\ v.adapter = w.adapter /\ v.reported = w.reported /\ v.torn = w.torn
  <2>1. DOMAIN w = Fields BY <1>1 DEF Shape
  <2>2. v = [w EXCEPT !.used = r, !.row[r] = new] BY DEF reserveRun
  <2> HIDE DEF v, new
  <2> QED BY <2>1, <2>2 DEF Fields
<1>4. /\ DOMAIN new = RowFields /\ new.task = t /\ new.trigger = trigger /\ new.attempt = attempt
      /\ new.group = g /\ new.req = "none" /\ new.live = TRUE
  BY DEF RowFields
<1> HIDE DEF new, v
<1>5. /\ DOMAIN v.row = RunIds /\ v.row[r] = new
      /\ \A q \in RunIds : q # r => v.row[q] = w.row[q]
      /\ \A q \in 1..w.used : v.row[q] = w.row[q] /\ q # r
  BY <1>1, <1>2, <1>3 DEF Shape
<1>6. Shape(v)
  <2>1. v.used \in 0..MaxRuns BY <1>1, <1>3
  <2>2. \A q \in RunIds : DOMAIN v.row[q] = RowFields BY <1>1, <1>4, <1>5 DEF Shape
  <2>3. \A q \in 1..v.used : /\ v.row[q].task \in Tasks
                             /\ v.row[q].req \in {"none", "cancelled", "deadline"}
                             /\ v.row[q].live \in BOOLEAN
    <3>1. ASSUME NEW q \in 1..w.used
          PROVE  /\ v.row[q].task \in Tasks
                 /\ v.row[q].req \in {"none", "cancelled", "deadline"}
                 /\ v.row[q].live \in BOOLEAN
      BY <1>1, <1>5 DEF Shape
    <3>2. /\ v.row[r].task \in Tasks
          /\ v.row[r].req \in {"none", "cancelled", "deadline"}
          /\ v.row[r].live \in BOOLEAN
      BY <1>4, <1>5
    <3> QED BY <1>2, <1>3, <3>1, <3>2
  <2>4. v.handles \subseteq 1..v.used BY <1>1, <1>2, <1>3 DEF Shape
  <2> QED BY <1>1, <1>3, <1>5, <2>1, <2>2, <2>3, <2>4 DEF Shape
<1>7. w.hist[r].outcome = "none" BY <1>1, <1>2 DEF History
<1>8. History(v)
  <2>1. \A q \in RunIds : q <= w.used => q <= r BY <1>1
  <2>2. \A q \in 1..w.used : ~w.row[q].live => w.hist[q].outcome # "none" BY <1>1 DEF History
  <2>3. \A q \in 1..v.used : ~v.row[q].live => v.hist[q].outcome # "none" BY <1>2, <1>3, <1>4, <1>5, <2>2
  <2> QED BY <1>1, <1>3, <2>1, <2>3 DEF History
<1>9. \A k : Ended(v, k) = Ended(w, k) BY <1>2, <1>3, <1>5, <1>7 DEF Ended
<1>10. Ended(w, r) = {} /\ \A q \in 1..w.used : w.row[q].group # r BY <1>1, <1>2 DEF Ended, Groups
<1>11. Active(v, t) = {r} /\ \A u : u # t => Active(v, u) = Active(w, u)
  BY <1>1, <1>2, <1>3, <1>4, <1>5 DEF Active
<1>12. group # 0 => group \in 1..w.used /\ w.row[group].task = t BY DEF Room
<1>13. ASSUME NEW q \in 1..v.used, v.row[q].live PROVE LiveRun(v, q)
  <2>1. CASE q = r
    <3>1. Ended(v, g) \ {r} = IF group = 0 THEN {} ELSE Ended(w, group)
      <4>1. r \notin Ended(w, group) BY <1>7 DEF Ended
      <4> QED BY <1>9, <1>10, <4>1
    <3>2. AtMostOne(Ended(v, g) \ {r}) /\ (attempt = 1 => Ended(v, g) \ {r} = {})
      BY <3>1 DEF Room, AtMostOne
    <3>3. trigger = "manual" => g = r /\ \A s \in 1..v.used : v.row[s].group = r => s = r
      BY <1>2, <1>3, <1>5, <1>10
    <3> QED BY <1>3, <1>4, <1>5, <2>1, <3>2, <3>3 DEF LiveRun
  <2>2. CASE q # r
    <3>1. q \in 1..w.used /\ v.row[q] = w.row[q] /\ w.row[q].live BY <1>2, <1>3, <1>5, <1>13, <2>2
    <3>2. LiveRun(w, q) BY <1>1, <3>1 DEF Groups
    <3>3. q # g
      <4>1. w.row[q].task # t BY <1>1, <3>1 DEF Active
      <4> QED BY <1>12, <2>2, <4>1
    <3>4. w.row[q].trigger = "manual" => \A s \in 1..v.used : v.row[s].group = q => s = q
      <4>1. v.row[r].group # q BY <1>4, <1>5, <3>3
      <4>2. w.row[q].trigger = "manual" => \A s \in 1..w.used : v.row[s].group = q => s = q
        BY <1>5, <3>2 DEF LiveRun
      <4> QED BY <1>2, <1>3, <4>1, <4>2
    <3> QED BY <1>3, <1>9, <3>1, <3>2, <3>4 DEF LiveRun
  <2> QED BY <2>1, <2>2
<1>14. ASSUME NEW u \in Tasks PROVE Continued(v, u)
  <2>1. Continued(w, u) BY <1>1 DEF Groups
  <2>2. ASSUME NEW k, Room(w, u, k, Ended(w, k) \ Active(w, u)) PROVE Room(v, u, k, Ended(v, k) \ Active(v, u))
    <3>1. Ended(v, k) \ Active(v, u) = Ended(w, k) \ Active(w, u)
      <4>1. r \notin Ended(w, k) BY <1>7 DEF Ended
      <4> QED BY <1>1, <1>9, <1>11, <4>1
    <3>2. k \in 1..v.used /\ k \in 1..w.used /\ k # r /\ v.row[k] = w.row[k] BY <1>2, <1>3, <1>5, <2>2 DEF Room
    <3>3. \A q \in Active(v, u) : v.row[q].trigger = "manual" => k # q
      <4>1. \A q \in Active(w, u) : q \in 1..w.used BY DEF Active
      <4>2. \A q \in Active(v, u) : q = r \/ q \in Active(w, u) BY <1>11
      <4> QED BY <1>5, <2>2, <3>2, <4>1, <4>2 DEF Room
    <3> QED BY <1>3, <2>2, <3>1, <3>2, <3>3 DEF Room
  <2> QED BY <1>3, <2>1, <2>2 DEF Continued
<1>15. Groups(v)
  <2>1. \A k \in 1..v.used : \A x, y, z \in Ended(v, k) : x = y \/ y = z \/ x = z
    BY <1>1, <1>2, <1>3, <1>9, <1>10 DEF Groups
  <2>2. ASSUME NEW q \in 1..v.used
        PROVE  v.row[q].group \in 1..v.used /\ v.row[v.row[q].group].task = v.row[q].task
    <3>1. CASE q = r BY <1>2, <1>3, <1>4, <1>5, <1>12, <3>1
    <3>2. CASE q # r
      <4>1. q \in 1..w.used BY <1>2, <1>3, <3>2
      <4>2. w.row[q].group \in 1..w.used /\ w.row[w.row[q].group].task = w.row[q].task BY <1>1, <4>1 DEF Groups
      <4> QED BY <1>2, <1>3, <1>5, <4>1, <4>2
    <3> QED BY <3>1, <3>2
  <2>3. ASSUME NEW q \in 1..v.used, NEW x \in 1..v.used, v.row[q].live, v.row[x].live, v.row[q].task = v.row[x].task
        PROVE  q = x
    <3>1. \A y \in 1..w.used : w.row[y].live => w.row[y].task # t BY <1>1 DEF Active
    <3>2. CASE q = r \/ x = r BY <1>2, <1>3, <1>4, <1>5, <2>3, <3>1, <3>2
    <3>3. CASE q # r /\ x # r
      <4>1. q \in 1..w.used /\ x \in 1..w.used BY <1>2, <1>3, <3>3
      <4> QED BY <1>1, <1>5, <2>3, <4>1 DEF Groups
    <3> QED BY <3>2, <3>3
  <2> QED BY <1>13, <1>14, <2>1, <2>2, <2>3 DEF Groups
<1>16. Keeps(w, v) BY <1>1, <1>2, <1>3, <1>5 DEF Keeps
<1>17. Queue(v, {})
  <2>1. \A q, l : Belongs(w, q, l) => Belongs(v, q, l) /\ v.row[q] = w.row[q] BY <1>2, <1>3, <1>5 DEF Belongs
  <2>2. ASSUME NEW p, p \in Seq(1..w.used) PROVE p \in Seq(1..v.used)
    <3>1. 1..w.used \subseteq 1..v.used BY <1>2, <1>3
    <3> QED BY <2>2, <3>1, SeqMonotonic
  <2> QED BY <1>3, <2>1, <2>2 DEF Queue
<1> QED BY <1>3, <1>6, <1>8, <1>15, <1>16, <1>17 DEF Good, Applies, v

\* A run is queued in the order of the ranks, or settled as cancelled.
LEMMA EnqueueApplies ==
    ASSUME NEW w, Good(w), Queue(w, {}), NEW r \in 1..w.used, NEW n, NEW fault
    PROVE  Applies(w, enqueue(w, r, n, fault))
<1> DEFINE t == w.row[r].task
           l == IF w.row[r].trigger = "manual" THEN "manual" ELSE "scheduled"
           p == w.lane[l].pending
           later == {j \in 1..Len(p) : Rank[w.row[p[j]].task] > Rank[t]}
           i == Min(later \cup {Len(p) + 1})
           longer == SubSeq(p, 1, i - 1) \o <<r>> \o SubSeq(p, i, Len(p))
           v == [w EXCEPT !.lane[l].pending = longer]
<1>1. Shape(w) /\ l \in Lanes BY DEF Good, Lanes
<1>2. CASE Queued(w, t)
  <2>1. EntryTyped([outcome |-> Cancelled.outcome, diag |-> Cancelled.diag]) /\ Cancelled.cascade \in BOOLEAN
    BY DEF Cancelled, Result, EntryTyped, Failures, Categories, Diag
  <2>2. enqueue(w, r, n, fault) = settleRunOnce(w, r, Cancelled, FALSE, 0, n, fault) BY <1>2 DEF enqueue
  <2> QED BY <2>1, <2>2, SettleApplies
<1>3. CASE ~Queued(w, t)
  <2>1. enqueue(w, r, n, fault) = processLane(v, l, n, fault) BY <1>3 DEF enqueue
  <2> DEFINE B == {q \in 1..w.used : Belongs(w, q, l)}
  <2>2. p \in Seq(B)
    <3>1. p \in Seq(1..w.used) /\ \A j \in 1..Len(p) : Belongs(w, p[j], l) BY <1>1 DEF Queue
    <3> HIDE DEF p, l
    <3>2. \A j \in 1..Len(p) : p[j] \in 1..w.used /\ Belongs(w, p[j], l) BY <3>1 DEF Belongs
    <3>3. \A j \in 1..Len(p) : p[j] \in B BY <3>2
    <3> HIDE DEF B
    <3> QED BY <3>1, <3>3, SeqInto
  <2>3. r \in B BY <1>1 DEF Belongs
  <2> HIDE DEF B, p, l
  <2>4. Len(p) \in Nat BY <2>2
  <2>5. i \in 1..(Len(p) + 1)
    <3> DEFINE S == later \cup {Len(p) + 1}
    <3>1. S \subseteq Nat /\ S # {} /\ S \subseteq 1..(Len(p) + 1) BY <2>4
    <3> HIDE DEF S
    <3>2. Min(S) \in S BY <3>1, MinFacts
    <3> QED BY <3>1, <3>2 DEF S
  <2> HIDE DEF i
  <2>6. longer \in Seq(B)
    <3>1. SubSeq(p, 1, i - 1) \in Seq(B)
      <4>1. \A k \in 1..(i - 1) : p[k] \in B BY <2>2, <2>4, <2>5
      <4>2. 1 \in Int /\ i - 1 \in Int BY <2>4, <2>5
      <4> QED BY <4>1, <4>2, SubSeqProperties
    <3>2. SubSeq(p, i, Len(p)) \in Seq(B)
      <4>1. \A k \in i..Len(p) : p[k] \in B BY <2>2, <2>4, <2>5
      <4>2. i \in Int /\ Len(p) \in Int BY <2>4, <2>5
      <4> QED BY <4>1, <4>2, SubSeqProperties
    <3>3. <<r>> \in Seq(B) BY <2>3
    <3> QED BY <3>1, <3>2, <3>3, ConcatProperties
  <2> HIDE DEF longer
  <2>7. longer \in Seq(1..w.used) /\ \A j \in 1..Len(longer) : Belongs(w, longer[j], l)
    <3>1. \A j \in 1..Len(longer) : longer[j] \in B BY <2>6
    <3>2. \A j \in 1..Len(longer) : longer[j] \in 1..w.used /\ Belongs(w, longer[j], l) BY <3>1 DEF B
    <3> QED BY <2>6, <3>2, SeqInto
  <2>8. DOMAIN w = Fields /\ DOMAIN w.lane = Lanes /\ DOMAIN w.lane[l] = {"current", "pending"} BY <1>1 DEF Shape
  <2>9. /\ v.st = w.st /\ v.used = w.used /\ v.hist = w.hist /\ v.reported = w.reported /\ v.torn = w.torn /\ v.row = w.row
        /\ v.adapter = w.adapter /\ v.handles = w.handles /\ DOMAIN v = Fields /\ DOMAIN v.lane = Lanes
        /\ \A m \in Lanes : m # l => v.lane[m] = w.lane[m]
    BY <2>8 DEF Fields
  <2>10. DOMAIN v.lane[l] = {"current", "pending"} /\ v.lane[l].current = w.lane[l].current /\ v.lane[l].pending = longer
    BY <1>1, <2>8 DEF Fields
  <2> HIDE DEF v
  <2>11. Shape(v) BY <1>1, <2>9, <2>10 DEF Shape
  <2>12. Serves(w, v) BY <2>9, <2>11 DEF Serves, SameRow
  <2>13. Queue(v, {})
    <3>1. \A q, m : Belongs(v, q, m) <=> Belongs(w, q, m) BY <2>9 DEF Belongs
    <3> QED BY <2>7, <2>9, <2>10, <3>1 DEF Queue
  <2>14. Good(v) /\ Keeps(w, v) BY <2>12, ServesFacts, MovesApply
  <2>15. Applies(v, processLane(v, l, n, fault)) BY <1>1, <2>13, <2>14, ProcessLaneApplies
  <2>16. Keeps(w, processLane(v, l, n, fault)) BY <1>1, <2>11, <2>14, <2>15, KeepsTrans DEF Applies, Good
  <2> QED BY <2>1, <2>15, <2>16 DEF Applies
<1> QED BY <1>2, <1>3

\* A new run is reserved and queued, unless the task has one.
LEMMA UnreservedApplies ==
    ASSUME NEW w, Good(w), Queue(w, {}), NEW t \in Tasks, NEW trigger, NEW n, NEW fault
    PROVE  Applies(w, enqueueUnreserved(w, t, trigger, n, fault))
<1> DEFINE again == IF trigger # "manual" /\ w.st[t].retrying THEN 2 ELSE 1
           v == reserveRun(w, t, trigger, again, 0, Ceiling)
<1>1. Shape(w) /\ w.used \in Nat BY Ids DEF Good
<1>2. CASE Queued(w, t) \/ ~CanReserve(w, t)
  <2>1. enqueueUnreserved(w, t, trigger, n, fault) = w BY <1>2 DEF enqueueUnreserved
  <2>2. Keeps(w, w) BY <1>1, ServesFacts, MovesApply
  <2> QED BY <2>1, <2>2 DEF Applies
<1>3. CASE ~Queued(w, t) /\ CanReserve(w, t)
  <2>1. enqueueUnreserved(w, t, trigger, n, fault) = enqueue(v, w.used + 1, n, fault) BY <1>3 DEF enqueueUnreserved
  <2>2. MayTake(w, t, trigger, again, 0) BY DEF MayTake
  <2> HIDE DEF again
  <2>3. Applies(w, v) /\ v.used = w.used + 1 BY <1>3, <2>2, ReserveApplies
  <2> HIDE DEF v
  <2>4. w.used + 1 \in 1..v.used BY <1>1, <2>3
  <2>5. Applies(v, enqueue(v, w.used + 1, n, fault)) BY <2>3, <2>4, EnqueueApplies DEF Applies
  <2> QED BY <1>1, <2>1, <2>3, <2>5, KeepsTrans DEF Applies, Good
<1> QED BY <1>2, <1>3

\* Restart recovery of one live run.
LEMMA RecoverApplies ==
    ASSUME NEW w, Good(w), Queue(w, {}), NEW r \in 1..w.used, w.row[r].live,
           NEW evidence, NEW provable, NEW n, NEW fault
    PROVE  Applies(w, recoverRun(w, r, evidence, provable, n, fault))
<1> DEFINE settled(res) == settleRunOnce(w, r, res, FALSE, 0, n, fault)
<1>1. Applies(w, w)
  <2>1. Shape(w) BY DEF Good
  <2> QED BY <2>1, ServesFacts, MovesApply DEF Applies
<1>2. ASSUME NEW c, NEW d, EntryTyped([outcome |-> c, diag |-> d]), NEW b \in BOOLEAN, NEW a
      PROVE  Applies(w, settled(Result(c, d, b, a)))
  <2>1. Result(c, d, b, a).outcome = c /\ Result(c, d, b, a).diag = d /\ Result(c, d, b, a).cascade = b BY DEF Result
  <2> QED BY <1>2, <2>1, SettleApplies
<1>3. /\ EntryTyped([outcome |-> "success", diag |-> NoDiag])
      /\ EntryTyped([outcome |-> "failed", diag |-> Diag("interruption", "restart_interrupted", "none")])
      /\ EntryTyped([outcome |-> "failed", diag |-> Diag("interruption", "deadline_exceeded", "none")])
      /\ EntryTyped([outcome |-> "unknown", diag |-> Diag("interruption", "owner_lost", "transient")])
  BY DEF EntryTyped, Failures, Categories, Diag
<1>4. /\ \A b \in BOOLEAN : Applies(w, settled(Result("success", NoDiag, b, TRUE)))
      /\ Applies(w, settled(Result("failed", Diag("interruption", "restart_interrupted", "none"), TRUE, TRUE)))
      /\ Applies(w, settleExpiredRun(w, r, n, fault))
      /\ Applies(w, settled(Result("unknown", Diag("interruption", "owner_lost", "transient"), FALSE, FALSE)))
  BY <1>2, <1>3 DEF settleExpiredRun
<1>5. w.hist[r].outcome # "none" => Applies(w, settleRunFromHistory(w, r, n, fault)) BY FromHistoryApplies
<1>6. Applies(w, enqueue(w, r, n, fault)) BY EnqueueApplies
<1> QED BY <1>1, <1>4, <1>5, <1>6 DEF recoverRun

-----------------------------------------------------------------------------
(* Steps.                                                                  *)

\* What every step is shown to do
Stepped == IInv' /\ Keeps(World, World')

\* A cancellation that was acknowledged stays so.
LEMMA StaysAcknowledged ==
    ASSUME Acknowledged, Shape(World), Shape(World'), Keeps(World, World'), acked' = acked
    PROVE  Acknowledged'
<1>1. World.used = used /\ World.row = row /\ World.hist = hist BY DEF World
<1>2. World'.used = used' /\ World'.row = row' /\ World'.hist = hist' BY DEF World
<1>3. \A r \in 1..used : r \in RunIds BY <1>1, Ids
<1>4. 1..used \subseteq 1..used'
  <2>1. used \in Nat /\ used' \in Nat BY <1>1, <1>2, Ids
  <2>2. used <= used' BY <1>1, <1>2 DEF Keeps
  <2> QED BY <2>1, <2>2
<1>5. ASSUME NEW r \in acked
      PROVE  /\ r \in 1..used'
             /\ hist'[r].outcome \in {"none", "cancelled"}
             /\ hist'[r].outcome = "none" => row'[r].req = "cancelled"
  <2>1. /\ r \in 1..used /\ r \in RunIds
        /\ hist[r].outcome \in {"none", "cancelled"}
        /\ hist[r].outcome = "none" => row[r].req = "cancelled"
    BY <1>3 DEF Acknowledged
  <2>2. CASE hist[r].outcome = "none"
    <3>1. IF hist'[r].outcome = "none" THEN row'[r].req = "cancelled" ELSE hist'[r].outcome = "cancelled"
      BY <1>1, <1>2, <2>1, <2>2 DEF Keeps
    <3> QED BY <1>4, <2>1, <3>1
  <2>3. CASE hist[r].outcome # "none"
    <3>1. hist'[r] = hist[r] BY <1>1, <1>2, <2>1, <2>3 DEF Keeps
    <3> QED BY <1>4, <2>1, <2>3, <3>1
  <2> QED BY <2>2, <2>3
<1> QED BY <1>5 DEF Acknowledged

\* What the world becomes is the next world.
LEMMA BecomesApplies ==
    ASSUME Shape(World), NEW w, Applies(World, w), Becomes(w)
    PROVE  Applies(World, World')
<1>1. Good(w) /\ Queue(w, {}) /\ Shape(w) /\ Keeps(World, w) BY DEF Applies, Good
<1>2. /\ World'.st = w.st /\ World'.row = w.row /\ World'.used = w.used /\ World'.hist = w.hist
      /\ World'.lane = w.lane /\ World'.handles = w.handles /\ World'.adapter = w.adapter
      /\ World'.reported = w.reported /\ World'.torn = w.torn
  BY DEF World, Becomes
<1>3. DOMAIN World' = Fields BY DEF World, Fields
<1>4. Shape(World') BY <1>1, <1>2, <1>3 DEF Shape
<1>5. Serves(w, World') BY <1>2, <1>4 DEF Serves, SameRow
<1>6. Good(World') /\ Keeps(w, World') BY <1>1, <1>5, ServesFacts, MovesApply
<1>7. Queue(World', {}) BY <1>1, <1>2, <1>5, ServesQueue
<1>8. Keeps(World, World') BY <1>1, <1>4, <1>6, KeepsTrans
<1> QED BY <1>6, <1>7, <1>8 DEF Applies

\* A chain is a step.
LEMMA ChainStep ==
    ASSUME IInv, NEW w, Applies(World, w), Becomes(w), acked' = acked
    PROVE  Stepped
<1>1. Shape(World) BY DEF IInv, Good
<1>2. Good(World') /\ Queue(World', {}) /\ Keeps(World, World') BY <1>1, BecomesApplies DEF Applies
<1>3. Acknowledged' BY <1>1, <1>2, StaysAcknowledged DEF IInv, Good
<1> QED BY <1>2, <1>3 DEF IInv, Stepped

\* Serving is a chain.
LEMMA ServesApply ==
    ASSUME NEW w, Good(w), Queue(w, {}), NEW v, Serves(w, v), v.lane = w.lane
    PROVE  Applies(w, v)
<1>1. Good(v) /\ Keeps(w, v) BY ServesFacts, MovesApply
<1>2. Queue(v, {}) BY ServesQueue
<1> QED BY <1>1, <1>2 DEF Applies

\* An adapter is told to stop.
LEMMA SignalServes ==
    ASSUME NEW w, Shape(w), NEW r \in RunIds
    PROVE  Serves(w, signalTerminal(w, r)) /\ signalTerminal(w, r).lane = w.lane
           /\ signalTerminal(w, r).row = w.row
<1>1. Serves(w, w) BY ServesFacts
<1> QED BY <1>1, AdapterServes DEF signalTerminal

\* The deadline of a run has passed.
LEMMA DeadlineServes ==
    ASSUME NEW w, Shape(w), NEW r \in RunIds, NEW lost \in BOOLEAN
    PROVE  Serves(w, deadlineExpired(w, r, lost)) /\ deadlineExpired(w, r, lost).lane = w.lane
<1> DEFINE q == requestRunTerminal(w, r, "deadline", lost)
           a == advanceRun(q, r, "same", TRUE)
<1>1. Serves(w, q) /\ q.lane = w.lane BY RequestServes
<1> HIDE DEF q
<1>2. Shape(q) BY <1>1 DEF Serves
<1>3. Serves(q, a) /\ a.lane = q.lane BY <1>2, AdvanceServes
<1> HIDE DEF a
<1>4. Shape(a) BY <1>3 DEF Serves
<1>5. Serves(a, signalTerminal(a, r)) /\ signalTerminal(a, r).lane = a.lane BY <1>4, SignalServes
<1>6. deadlineExpired(w, r, lost) = IF r \in w.handles THEN signalTerminal(a, r) ELSE q BY DEF deadlineExpired, q, a
<1> QED BY <1>1, <1>3, <1>5, <1>6, ServesFacts

\* The mark that a run has a project card.
LEMMA CardServes ==
    ASSUME NEW w, Shape(w), NEW r \in RunIds, NEW c
    PROVE  LET v == [w EXCEPT !.adapter[r] = "running", !.row[r].card = c]
           IN  Serves(w, v) /\ v.lane = w.lane
<1> DEFINE x == [w EXCEPT !.adapter[r] = "running"]
           u == [x EXCEPT !.row[r].card = c]
<1>1. Serves(w, x) /\ x.lane = w.lane BY AdapterServes
<1>2. [w EXCEPT !.adapter[r] = "running", !.row[r].card = c] = u BY DEF Shape, Fields
<1> HIDE DEF x
<1>3. DOMAIN x = Fields /\ DOMAIN x.row = RunIds /\ DOMAIN x.row[r] = RowFields /\ Shape(x)
  BY <1>1 DEF Serves, Shape
<1>4. /\ u.st = x.st /\ u.used = x.used /\ u.hist = x.hist /\ u.reported = x.reported /\ u.torn = x.torn
      /\ u.lane = x.lane /\ u.handles = x.handles /\ u.adapter = x.adapter
      /\ DOMAIN u = Fields /\ DOMAIN u.row = RunIds
      /\ \A s \in RunIds : s # r => u.row[s] = x.row[s]
  BY <1>3 DEF Fields
<1>5. DOMAIN u.row[r] = RowFields /\ SameRow(x, u, r) /\ u.row[r].req = x.row[r].req
  BY <1>3 DEF Fields, RowFields, SameRow
<1> HIDE DEF u
<1>6. Serves(x, u) BY <1>3, <1>4, <1>5, RowServes
<1> QED BY <1>1, <1>2, <1>4, <1>6, ServesFacts

\* An adapter is gone, and its result is settled.
LEMMA GoneSettles ==
    ASSUME NEW w, Good(w), Queue(w, {}), NEW r \in 1..w.used,
           NEW res, EntryTyped([outcome |-> res.outcome, diag |-> res.diag]), res.cascade \in BOOLEAN,
           NEW early \in BOOLEAN, NEW hint, NEW n, NEW fault
    PROVE  Applies(w, Gone(w, r)) /\ Applies(w, settleRunOnce(Gone(w, r), r, res, early, hint, n, fault))
<1> DEFINE g == Gone(w, r)
           v == settleRunOnce(g, r, res, early, hint, n, fault)
<1>1. Shape(w) /\ r \in RunIds BY Ids DEF Good
<1>2. Serves(w, g) /\ g.lane = w.lane BY <1>1, AdapterServes DEF Gone
<1> HIDE DEF g
<1>3. Applies(w, g) BY <1>2, ServesApply
<1>4. r \in 1..g.used BY <1>2 DEF Serves
<1>5. Applies(g, v) BY <1>3, <1>4, SettleApplies DEF Applies
<1> HIDE DEF v
<1>6. Applies(w, v) BY <1>1, <1>3, <1>5, KeepsTrans DEF Applies, Good
<1> QED BY <1>3, <1>6 DEF g, v

\* The world holds the variables.
LEMMA WorldFacts ==
    ASSUME IInv
    PROVE  /\ World.st = st /\ World.row = row /\ World.used = used /\ World.hist = hist
           /\ World.lane = lane /\ World.handles = handles /\ World.adapter = adapter
           /\ World.reported = reported /\ World.torn = torn
           /\ Good(World) /\ Shape(World) /\ Queue(World, {})
           /\ \A r \in 1..used : r \in RunIds
           /\ handles \subseteq 1..used
           /\ Listed \subseteq Tasks
<1>1. World.used = used /\ World.handles = handles BY DEF World
<1>2. Shape(World) BY DEF IInv, Good
<1>3. \A r \in 1..used : r \in RunIds BY <1>1, <1>2, Ids
<1>4. handles \subseteq 1..used BY <1>1, <1>2 DEF Shape
<1> QED BY <1>2, <1>3, <1>4, ScheduleAssumption DEF World, IInv, ScheduleAssumption

\* A due task is admitted: the group it continues has room.
LEMMA AdmitSteps ==
    ASSUME IInv, NEW t \in Listed, NEW n, NEW fault, Admit(t, n, fault)
    PROVE  Stepped
<1> DEFINE d == st[t].deferred
           again == st[t].retrying
           trigger == IF again THEN "retry" ELSE "schedule"
           attempt == IF again THEN 2 ELSE 1
           group == IF d.attempts > 0 THEN d.group ELSE IF again THEN st[t].retryGroup ELSE 0
           ceil == IF d.attempts > 0 THEN d.ceil ELSE Ceiling
           w == reserveRun(World, t, trigger, attempt, group, ceil)
<1>1. /\ World.st = st /\ World.used = used /\ Good(World) /\ Shape(World) /\ Queue(World, {})
      /\ t \in Tasks
  BY WorldFacts
<1>2. CanReserve(World, t) /\ Becomes(enqueue(w, w.used, n, fault)) /\ acked' = acked BY DEF Admit
<1>3. Active(World, t) = {} BY <1>2 DEF CanReserve
<1>4. /\ again => Room(World, t, st[t].retryGroup, Ended(World, st[t].retryGroup))
      /\ d.attempts # 0 => Room(World, t, d.group, Ended(World, d.group))
  <2>1. Continued(World, t) BY <1>1 DEF Good, Groups
  <2> QED BY <1>1, <1>3, <2>1 DEF Continued
<1>5. d.attempts \in Nat /\ again \in BOOLEAN BY <1>1 DEF Shape, StateTyped
<1>6. trigger # "manual" /\ attempt \in {1, 2} /\ (attempt = 2 <=> again) OBVIOUS
<1>7. group # 0 => Room(World, t, group, Ended(World, group))
  BY <1>4, <1>5
<1>8. MayTake(World, t, trigger, attempt, group) BY <1>1, <1>5, <1>6, <1>7 DEF MayTake
<1> HIDE DEF group, attempt, trigger, ceil, again
<1>9. Applies(World, w) /\ w.used = World.used + 1 BY <1>1, <1>2, <1>8, ReserveApplies
<1> HIDE DEF w
<1>10. w.used \in 1..w.used /\ Good(w) /\ Queue(w, {}) /\ Shape(w)
  <2>1. World.used \in Nat BY <1>1, Ids
  <2> QED BY <1>9, <2>1 DEF Applies, Good
<1>11. Applies(w, enqueue(w, w.used, n, fault)) BY <1>10, EnqueueApplies
<1>12. Applies(World, enqueue(w, w.used, n, fault)) BY <1>1, <1>9, <1>10, <1>11, KeepsTrans DEF Applies, Good
<1> QED BY <1>2, <1>12, ChainStep

\* Run now.
LEMMA RunManualSteps ==
    ASSUME IInv, NEW t \in Listed, NEW n, NEW fault, RunManual(t, n, fault)
    PROVE  Stepped
<1>1. Good(World) /\ Queue(World, {}) /\ t \in Tasks BY WorldFacts
<1>2. Applies(World, enqueueUnreserved(World, t, "manual", n, fault)) BY <1>1, UnreservedApplies
<1> QED BY <1>2, ChainStep DEF RunManual

\* A requested cancellation is acknowledged to the operator, and counted when stored.
LEMMA CancelSteps ==
    ASSUME IInv, NEW r \in 1..used, NEW fault, Cancel(r, fault)
    PROVE  Stepped
<1> DEFINE lost == fault = "lost"
           q == requestRunTerminal(World, r, "cancelled", lost)
           w == signalTerminal(q, r)
<1>1. /\ World.row = row /\ World.used = used /\ World.hist = hist
      /\ Good(World) /\ Shape(World) /\ Queue(World, {}) /\ r \in RunIds
  BY WorldFacts
<1>2. Becomes(w) /\ acked' = IF hist[r].outcome = "none" /\ row'[r].req = "cancelled" THEN acked \cup {r} ELSE acked
  BY DEF Cancel
<1>3. Serves(World, q) /\ q.lane = World.lane
  <2>1. lost \in BOOLEAN OBVIOUS
  <2> HIDE DEF lost
  <2> QED BY <1>1, <2>1, RequestServes
<1> HIDE DEF q
<1>4. Shape(q) BY <1>3 DEF Serves
<1>5. Serves(q, w) /\ w.lane = q.lane BY <1>1, <1>4, SignalServes
<1> HIDE DEF w
<1>6. Applies(World, w) BY <1>1, <1>3, <1>5, ServesFacts, ServesApply
<1>7. Good(World') /\ Queue(World', {}) /\ Keeps(World, World') BY <1>1, <1>2, <1>6, BecomesApplies DEF Applies
<1>8. hist' = hist /\ used' = used
  <2>1. hist' = w.hist /\ used' = w.used BY <1>2 DEF Becomes
  <2> QED BY <1>1, <1>3, <1>5, <2>1 DEF Serves
<1>9. World'.row = row' /\ World'.hist = hist' BY DEF World
<1>10. ASSUME NEW s \in acked'
       PROVE  /\ s \in 1..used'
              /\ hist'[s].outcome \in {"none", "cancelled"}
              /\ hist'[s].outcome = "none" => row'[s].req = "cancelled"
  <2>1. CASE s \in acked
    <3>1. s \in 1..used /\ hist[s].outcome \in {"none", "cancelled"} /\ (hist[s].outcome = "none" => row[s].req = "cancelled")
      BY <2>1 DEF IInv, Acknowledged
    <3> QED BY <1>1, <1>7, <1>8, <1>9, <3>1 DEF Keeps
  <2>2. CASE s = r /\ hist[r].outcome = "none" /\ row'[r].req = "cancelled" BY <1>8, <2>2
  <2> QED BY <1>2, <2>1, <2>2
<1>11. Acknowledged' BY <1>10 DEF Acknowledged
<1> QED BY <1>7, <1>11 DEF IInv, Stepped

\* The deadline source looks at a task's live run.
LEMMA WakeDeadlineSteps ==
    ASSUME IInv, NEW t, NEW n, NEW fault, WakeDeadline(t, n, fault)
    PROVE  Stepped
<1> DEFINE lost == fault = "lost"
           passed(r) == IF hist[r].outcome # "none" THEN settleRunFromHistory(World, r, n, fault)
                        ELSE IF GraceOver(r) THEN settleExpiredRun(World, r, n, fault)
                        ELSE IF row[r].ceil = 0 \/ row[r].idle = 0 THEN deadlineExpired(World, r, lost)
                        ELSE World
<1>1. /\ World.row = row /\ World.used = used /\ World.hist = hist
      /\ Good(World) /\ Shape(World) /\ Queue(World, {}) /\ \A r \in 1..used : r \in RunIds
  BY WorldFacts
<1>2. PICK r \in Active(World, t) : Becomes(passed(r)) BY DEF WakeDeadline
<1> DEFINE w == passed(r)
<1>3. r \in 1..World.used /\ World.row[r].live /\ r \in RunIds BY <1>1 DEF Active
<1>4. World.hist[r].outcome # "none" => Applies(World, settleRunFromHistory(World, r, n, fault))
  BY <1>1, <1>3, FromHistoryApplies
<1>5. Applies(World, settleExpiredRun(World, r, n, fault))
  <2> DEFINE res == Result("failed", Diag("interruption", "deadline_exceeded", "none"), TRUE, FALSE)
  <2>1. EntryTyped([outcome |-> res.outcome, diag |-> res.diag]) /\ res.cascade \in BOOLEAN
    BY DEF Result, EntryTyped, Failures, Categories, Diag
  <2> HIDE DEF res
  <2>2. Applies(World, settleRunOnce(World, r, res, FALSE, 0, n, fault)) BY <1>1, <1>3, <2>1, SettleApplies
  <2> QED BY <2>2 DEF settleExpiredRun, res
<1>6. Applies(World, deadlineExpired(World, r, lost))
  <2>1. lost \in BOOLEAN OBVIOUS
  <2> HIDE DEF lost
  <2> QED BY <1>1, <1>3, <2>1, DeadlineServes, ServesApply
<1>7. Applies(World, World) BY <1>1, ServesFacts, ServesApply
<1> HIDE DEF lost
<1>8. Applies(World, w) BY <1>1, <1>4, <1>5, <1>6, <1>7
<1>9. Becomes(w) /\ acked' = acked BY <1>2 DEF WakeDeadline
<1> HIDE DEF w
<1> QED BY <1>8, <1>9, ChainStep

\* What the adapters report.
LEMMA ResultFacts ==
    ASSUME NEW r
    PROVE  \A res \in ScriptResults \cup SystemResults \cup PrepResults(r) \cup AgentResults :
              EntryTyped([outcome |-> res.outcome, diag |-> res.diag]) /\ res.cascade \in BOOLEAN
<1>1. \A res \in ScriptResults : EntryTyped([outcome |-> res.outcome, diag |-> res.diag])
  BY DEF ScriptResults, SpawnRefused, Result, NoDiag, Diag, EntryTyped, Failures, Categories
<1>2. \A res \in SystemResults : EntryTyped([outcome |-> res.outcome, diag |-> res.diag])
  BY DEF SystemResults, Result, NoDiag, Diag, EntryTyped, Failures, Categories
<1>3. \A res \in PrepResults(r) : EntryTyped([outcome |-> res.outcome, diag |-> res.diag])
  BY DEF PrepResults, Result, NoDiag, Diag, EntryTyped, Failures, Categories
<1>4. \A res \in AgentResults : EntryTyped([outcome |-> res.outcome, diag |-> res.diag])
  BY DEF AgentResults, Result, NoDiag, Diag, EntryTyped, Failures, Categories
<1>5. \A c, d, a, b : Result(c, d, a, b).cascade = a BY DEF Result
<1>6. \A res \in ScriptResults \cup SystemResults \cup PrepResults(r) \cup AgentResults :
         \E c, d, b : res \in {Result(c, d, TRUE, b), Result(c, d, FALSE, b)}
  BY DEF ScriptResults, SpawnRefused, SystemResults, PrepResults, AgentResults
<1>7. ASSUME NEW res \in ScriptResults \cup SystemResults \cup PrepResults(r) \cup AgentResults
      PROVE  res.cascade \in BOOLEAN
  <2>1. PICK c, d, b : res \in {Result(c, d, TRUE, b), Result(c, d, FALSE, b)} BY <1>6
  <2>2. res.cascade = TRUE \/ res.cascade = FALSE BY <1>5, <2>1
  <2> QED BY <2>2
<1> QED BY <1>1, <1>2, <1>3, <1>4, <1>7

\* A script ends: settle, release the handle, and queue the follow-up of a gate.
LEMMA ScriptEndsSteps ==
    ASSUME IInv, NEW r \in 1..used, NEW res \in ScriptResults, NEW gate \in BOOLEAN, NEW n,
           NEW fault, ScriptEnds(r, res, gate, n, fault)
    PROVE  Stepped
<1> DEFINE w == settleRunOnce(Gone(World, r), r, res, FALSE, 0, n, fault)
           x == [w EXCEPT !.handles = w.handles \ {r}]
           y == enqueueUnreserved(x, FollowUp, "schedule", n, fault)
<1>1. /\ World.row = row /\ World.used = used
      /\ Good(World) /\ Shape(World) /\ Queue(World, {}) /\ \A s \in 1..used : s \in RunIds
  BY WorldFacts
<1>2. EntryTyped([outcome |-> res.outcome, diag |-> res.diag]) /\ res.cascade \in BOOLEAN BY ResultFacts
<1>3. Applies(World, Gone(World, r)) /\ Applies(World, w) BY <1>1, <1>2, GoneSettles
<1>4. acked' = acked BY DEF ScriptEnds
<1>5. CASE r \notin handles BY <1>3, <1>4, <1>5, ChainStep DEF ScriptEnds
<1>6. CASE r \in handles
  <2>1. Becomes(IF gate THEN y ELSE x) /\ (gate => row[r].task \in Gated) BY <1>6 DEF ScriptEnds
  <2> HIDE DEF w
  <2>2. Good(w) /\ Queue(w, {}) /\ Shape(w) BY <1>3 DEF Applies, Good
  <2>3. Applies(w, x)
    <3>1. w.handles \ {r} \subseteq 1..w.used BY <2>2 DEF Shape
    <3>2. Serves(w, x) /\ x.lane = w.lane BY <2>2, <3>1, HandlesServe
    <3> HIDE DEF x
    <3> QED BY <2>2, <3>2, ServesApply
  <2> HIDE DEF x
  <2>4. Good(x) /\ Queue(x, {}) /\ Shape(x) /\ Applies(World, x)
    BY <1>1, <1>3, <2>2, <2>3, KeepsTrans DEF Applies, Good
  <2>5. ASSUME gate PROVE Applies(World, y)
    <3>1. FollowUp \in Tasks BY <2>1, <2>5, ScheduleAssumption DEF ScheduleAssumption
    <3>2. Applies(x, y) BY <2>4, <3>1, UnreservedApplies
    <3> HIDE DEF y
    <3> QED BY <1>1, <2>4, <3>2, KeepsTrans DEF Applies, Good
  <2> HIDE DEF y
  <2>6. CASE gate BY <1>4, <2>1, <2>5, <2>6, ChainStep
  <2>7. CASE ~gate BY <1>4, <2>1, <2>4, <2>7, ChainStep
  <2> QED BY <2>6, <2>7
<1> QED BY <1>5, <1>6

\* Every other result of an adapter is settled, and the history append may throw.
LEMMA ResultSteps ==
    ASSUME IInv, NEW r \in 1..used, NEW n, NEW fault, NEW early \in BOOLEAN, NEW hint,
           NEW res, \/ SystemEnds(r, res, hint, n, fault) /\ res \in SystemResults
                    \/ AgentPrepEnds(r, res, n, fault) /\ res \in PrepResults(r)
                    \/ AgentEnds(r, res, early, hint, n, fault) /\ res \in AgentResults
                    \/ AgentTimedOut(r, n, fault)
                    \/ AppendFails(r)
    PROVE  Stepped
<1>1. World.used = used /\ Good(World) /\ Queue(World, {}) BY WorldFacts
<1> DEFINE settled(x, e, h) == settleRunOnce(Gone(World, r), r, x, e, h, n, fault)
           late == Result("timed_out", Diag("interruption", "timed_out", "none"), TRUE, TRUE)
<1>2. ASSUME NEW x, EntryTyped([outcome |-> x.outcome, diag |-> x.diag]), x.cascade \in BOOLEAN, NEW e \in BOOLEAN, NEW h
      PROVE  Applies(World, settled(x, e, h)) /\ Applies(World, Gone(World, r))
  BY <1>1, <1>2, GoneSettles
<1>3. EntryTyped([outcome |-> late.outcome, diag |-> late.diag]) /\ late.cascade \in BOOLEAN
  BY DEF Result, Diag, EntryTyped, Failures, Categories
<1>4. res \in SystemResults \cup PrepResults(r) \cup AgentResults =>
         EntryTyped([outcome |-> res.outcome, diag |-> res.diag]) /\ res.cascade \in BOOLEAN
  BY ResultFacts
<1>5. CASE SystemEnds(r, res, hint, n, fault) /\ res \in SystemResults
  <2>1. Applies(World, settled(res, FALSE, hint)) BY <1>2, <1>4, <1>5
  <2> QED BY <1>5, <2>1, ChainStep DEF SystemEnds
<1>6. CASE AgentPrepEnds(r, res, n, fault) /\ res \in PrepResults(r)
  <2>1. Applies(World, settled(res, FALSE, 0)) BY <1>2, <1>4, <1>6
  <2> QED BY <1>6, <2>1, ChainStep DEF AgentPrepEnds
<1>7. CASE AgentEnds(r, res, early, hint, n, fault) /\ res \in AgentResults
  <2>1. Applies(World, settled(res, early, hint)) BY <1>2, <1>4, <1>7
  <2> QED BY <1>7, <2>1, ChainStep DEF AgentEnds
<1>8. CASE AgentTimedOut(r, n, fault)
  <2>1. Applies(World, settled(late, FALSE, 0)) BY <1>2, <1>3
  <2> QED BY <1>8, <2>1, ChainStep DEF AgentTimedOut
<1>9. CASE AppendFails(r)
  <2>1. Applies(World, Gone(World, r)) BY <1>2, <1>3
  <2> QED BY <1>9, <2>1, ChainStep DEF AppendFails
<1> QED BY <1>5, <1>6, <1>7, <1>8, <1>9

\* An adapter makes progress, starts, or is past its deadline.
LEMMA ServingSteps ==
    ASSUME IInv, NEW r \in 1..used, NEW fault, Progress(r) \/ AgentStarts(r) \/ AgentDeadline(r, fault)
    PROVE  Stepped
<1>1. Good(World) /\ Shape(World) /\ Queue(World, {}) /\ r \in RunIds BY WorldFacts
<1>2. CASE Progress(r)
  <2>1. Applies(World, advanceRun(World, r, "same", TRUE)) BY <1>1, AdvanceServes, ServesApply
  <2> QED BY <1>2, <2>1, ChainStep DEF Progress
<1>3. CASE AgentStarts(r)
  <2> DEFINE a == advanceRun(World, r, "queued", FALSE)
             b == advanceRun(a, r, "executing", TRUE)
             c == row[r].live /\ row[r].task \in Projects
             v == [b EXCEPT !.adapter[r] = "running", !.row[r].card = c]
  <2>1. Becomes(v) /\ acked' = acked BY <1>3 DEF AgentStarts
  <2>2. Serves(World, a) /\ a.lane = World.lane BY <1>1, AdvanceServes
  <2> HIDE DEF a
  <2>3. Shape(a) BY <2>2 DEF Serves
  <2>4. Serves(a, b) /\ b.lane = a.lane BY <1>1, <2>3, AdvanceServes
  <2> HIDE DEF b
  <2>5. Shape(b) BY <2>4 DEF Serves
  <2> HIDE DEF c
  <2>6. Serves(b, v) /\ v.lane = b.lane BY <1>1, <2>5, CardServes
  <2> HIDE DEF v
  <2>7. Applies(World, v) BY <1>1, <2>2, <2>4, <2>6, ServesFacts, ServesApply
  <2> QED BY <2>1, <2>7, ChainStep
<1>4. CASE AgentDeadline(r, fault)
  <2> DEFINE lost == fault = "lost"
             q == requestRunTerminal(World, r, "deadline", lost)
             v == [q EXCEPT !.adapter[r] = "expired"]
  <2>1. Becomes(v) /\ acked' = acked BY <1>4 DEF AgentDeadline
  <2>2. Serves(World, q) /\ q.lane = World.lane
    <3>1. lost \in BOOLEAN OBVIOUS
    <3> HIDE DEF lost
    <3> QED BY <1>1, <3>1, RequestServes
  <2> HIDE DEF q
  <2>3. Shape(q) BY <2>2 DEF Serves
  <2>4. Serves(q, v) /\ v.lane = q.lane BY <1>1, <2>3, AdapterServes
  <2> HIDE DEF v
  <2>5. Applies(World, v) BY <1>1, <2>2, <2>4, ServesFacts, ServesApply
  <2> QED BY <2>1, <2>5, ChainStep
<1> QED BY <1>2, <1>3, <1>4

\* Recovery of a task after a restart.
LEMMA RecoverSteps ==
    ASSUME IInv, NEW t, NEW evidence, NEW provable, NEW n, NEW fault,
           Recover(t, evidence, provable, n, fault)
    PROVE  Stepped
<1>1. World.row = row /\ World.used = used /\ Good(World) /\ Queue(World, {}) BY WorldFacts
<1>2. PICK r \in Active(World, t) : Becomes(recoverRun(World, r, evidence, provable, n, fault)) BY DEF Recover
<1>3. r \in 1..World.used /\ World.row[r].live BY <1>1 DEF Active
<1>4. Applies(World, recoverRun(World, r, evidence, provable, n, fault)) BY <1>1, <1>3, RecoverApplies
<1> QED BY <1>2, <1>4, ChainStep DEF Recover

\* Time passes, the task states are edited, and the process dies or comes back:
\* no row is closed or reserved.
LEMMA MoveStep ==
    ASSUME IInv, Moves(World, World'), Queue(World', {}), acked' = acked
    PROVE  Stepped
<1>1. Good(World) /\ Shape(World) BY WorldFacts
<1>2. Good(World') /\ Keeps(World, World') BY <1>1, MovesApply
<1>3. Acknowledged' BY <1>1, <1>2, StaysAcknowledged DEF IInv, Good
<1> QED BY <1>2, <1>3 DEF IInv, Stepped

\* An edit of the task states.
LEMMA StateStep ==
    ASSUME IInv, UNCHANGED <<row, used, hist, lane, handles, adapter, reported, torn, acked>>,
           DOMAIN st' = Tasks,
           \A t \in Tasks : StateTyped(st'[t]) /\ (SameGroups(st[t], st'[t]) \/ (Cleared(st'[t]) /\ Active(World, t) = {}))
    PROVE  Stepped
<1>1. World.st = st /\ World'.st = st' /\ Shape(World) /\ Queue(World, {}) BY WorldFacts DEF World
<1>2. /\ World'.row = World.row /\ World'.used = World.used /\ World'.hist = World.hist
      /\ World'.lane = World.lane /\ World'.handles = World.handles /\ World'.adapter = World.adapter
      /\ World'.reported = World.reported /\ World'.torn = World.torn
  BY DEF World
<1>3. DOMAIN World' = Fields BY DEF World, Fields
<1>4. Shape(World') BY <1>1, <1>2, <1>3 DEF Shape
<1>5. \A r \in 1..World.used : SameRow(World, World', r) BY <1>2 DEF SameRow
<1>6. \A t \in Tasks : SameState(World, World', t) BY <1>1 DEF SameState, SameGroups, Cleared
<1>7. Moves(World, World') BY <1>2, <1>4, <1>5, <1>6 DEF Moves
<1>8. Queue(World', {}) BY <1>1, <1>2 DEF Queue, Belongs
<1> QED BY <1>7, <1>8, MoveStep

\* Operator commands, a skipped occurrence and the automatic resumption.
LEMMA StateSteps ==
    ASSUME IInv, NEW t \in Listed, NEW n,
           SkipStale(t, n) \/ AutoResume(t, n) \/ PauseTask(t) \/ ResumeTask(t, n) \/ TriggerNow(t)
    PROVE  Stepped
<1>1. t \in Tasks /\ DOMAIN st = Tasks /\ \A u \in Tasks : StateTyped(st[u]) BY WorldFacts DEF Shape
<1>2. DOMAIN st[t] = TaskFields BY <1>1 DEF StateTyped
<1>3. ASSUME NEW s, st' = [st EXCEPT ![t] = s], StateTyped(s),
             SameGroups(st[t], s) \/ (Cleared(s) /\ Active(World, t) = {}),
             UNCHANGED <<row, used, hist, lane, handles, adapter, reported, torn, acked>>
      PROVE  Stepped
  <2>1. \A u \in Tasks : SameGroups(st[u], st[u]) BY DEF SameGroups
  <2>2. DOMAIN st' = Tasks /\ st'[t] = s /\ \A u \in Tasks : u # t => st'[u] = st[u] BY <1>1, <1>3
  <2>3. \A u \in Tasks : StateTyped(st'[u]) /\ (SameGroups(st[u], st'[u]) \/ (Cleared(st'[u]) /\ Active(World, u) = {}))
    BY <1>1, <1>3, <2>1, <2>2
  <2> QED BY <1>3, <2>2, <2>3, StateStep
<1>4. ASSUME NEW s, DOMAIN s = TaskFields, s.retrying = st[t].retrying, s.retryGroup = st[t].retryGroup,
             s.deferred = st[t].deferred
      PROVE  StateTyped(s) /\ SameGroups(st[t], s)
  BY <1>1, <1>4 DEF StateTyped, SameGroups
<1>5. CASE SkipStale(t, n)
  <2> DEFINE s == [st[t] EXCEPT !.next = n]
  <2>1. st' = [st EXCEPT ![t] = s] BY <1>1, <1>5 DEF SkipStale
  <2>2. StateTyped(s) /\ SameGroups(st[t], s) BY <1>2, <1>4 DEF TaskFields
  <2> HIDE DEF s
  <2> QED BY <1>3, <1>5, <2>1, <2>2 DEF SkipStale
<1>6. CASE AutoResume(t, n)
  <2> DEFINE f == FreshTask(IF t \in Recurring THEN n ELSE Never)
             s == [f EXCEPT !.resumes = st[t].resumes + 1, !.completed = t \notin Recurring]
  <2>1. st' = [st EXCEPT ![t] = s] /\ Active(World, t) = {} BY <1>6 DEF AutoResume
  <2>2. DOMAIN s = TaskFields /\ s.retrying = FALSE /\ s.deferred = NoDeferral
    BY DEF FreshTask, TaskFields
  <2> HIDE DEF s
  <2>3. StateTyped(s) /\ Cleared(s) BY <2>2, NoDeferralFacts DEF Cleared
  <2> QED BY <1>3, <1>6, <2>1, <2>3 DEF AutoResume
<1>7. CASE PauseTask(t)
  <2> DEFINE s == [st[t] EXCEPT !.paused = TRUE, !.cool = Cooldown]
  <2>1. st' = [st EXCEPT ![t] = s] BY <1>1, <1>7 DEF PauseTask
  <2>2. StateTyped(s) /\ SameGroups(st[t], s) BY <1>2, <1>4 DEF TaskFields
  <2> HIDE DEF s
  <2> QED BY <1>3, <1>7, <2>1, <2>2 DEF PauseTask
<1>8. CASE ResumeTask(t, n)
  <2> DEFINE c == ClearRetry(st[t])
             m == nextRunFromSchedule(c, t, n)
             s == [m EXCEPT !.paused = FALSE, !.cool = 0, !.fails = 0, !.retryAt = Never]
  <2>1. st' = [st EXCEPT ![t] = s] /\ Active(World, t) = {} BY <1>8 DEF ResumeTask
  <2>2. StateTyped(c) /\ Cleared(c) BY <1>1, ScheduleFacts
  <2> HIDE DEF c
  <2>3. StateTyped(m) /\ SameGroups(c, m) BY <2>2, ScheduleFacts
  <2> HIDE DEF m
  <2>4. DOMAIN s = TaskFields /\ s.retrying = m.retrying /\ s.deferred = m.deferred
    <3>1. DOMAIN m = TaskFields BY <2>3 DEF StateTyped
    <3> QED BY <3>1 DEF TaskFields
  <2> HIDE DEF s
  <2>5. StateTyped(s) /\ Cleared(s) BY <2>2, <2>3, <2>4 DEF StateTyped, SameGroups, Cleared
  <2> QED BY <1>3, <1>8, <2>1, <2>5 DEF ResumeTask
<1>9. CASE TriggerNow(t)
  <2> DEFINE s == [st[t] EXCEPT !.next = 0, !.paused = FALSE, !.cool = 0, !.fails = 0]
  <2>1. st' = [st EXCEPT ![t] = s] BY <1>1, <1>9 DEF TriggerNow
  <2>2. StateTyped(s) /\ SameGroups(st[t], s) BY <1>2, <1>4 DEF TaskFields
  <2> HIDE DEF s
  <2> QED BY <1>3, <1>9, <2>1, <2>2 DEF TriggerNow
<1> QED BY <1>5, <1>6, <1>7, <1>8, <1>9

\* Time passes.
LEMMA TickSteps ==
    ASSUME IInv, Tick
    PROVE  Stepped
<1>1. /\ World.st = st /\ World.row = row /\ World.used = used /\ World.hist = hist /\ World.lane = lane
      /\ Shape(World) /\ Queue(World, {}) /\ \A r \in 1..used : r \in RunIds
  BY WorldFacts
<1>2. /\ World'.row = row' /\ World'.st = st' /\ World'.used = used /\ World'.hist = hist
      /\ World'.lane = lane /\ World'.handles = World.handles /\ World'.adapter = World.adapter
      /\ World'.reported = World.reported /\ World'.torn = World.torn /\ DOMAIN World' = Fields
  BY DEF World, Tick, Fields
<1>3. ASSUME NEW r \in RunIds
      PROVE  /\ DOMAIN row'[r] = RowFields
             /\ row'[r].task = row[r].task /\ row'[r].trigger = row[r].trigger /\ row'[r].attempt = row[r].attempt
             /\ row'[r].group = row[r].group /\ row'[r].live = row[r].live /\ row'[r].req = row[r].req
  <2> DEFINE c == [row[r] EXCEPT !.ceil = Countdown(row[r].ceil, 0), !.idle = Countdown(row[r].idle, 0),
                                 !.grace = Countdown(row[r].grace, 0)]
  <2>1. DOMAIN row[r] = RowFields BY <1>1 DEF Shape
  <2>2. row'[r] = IF ~row[r].live THEN row[r] ELSE c BY <2>1 DEF Tick, RowFields
  <2>3. /\ DOMAIN c = RowFields
        /\ c.task = row[r].task /\ c.trigger = row[r].trigger /\ c.attempt = row[r].attempt
        /\ c.group = row[r].group /\ c.live = row[r].live /\ c.req = row[r].req
    BY <2>1 DEF RowFields
  <2> HIDE DEF c
  <2> QED BY <2>1, <2>2, <2>3
<1>4. ASSUME NEW t \in Tasks
      PROVE  StateTyped(st'[t]) /\ SameGroups(st[t], st'[t])
  <2> DEFINE d == [st[t].deferred EXCEPT !.ceil = Countdown(st[t].deferred.ceil, 0),
                                         !.retryAt = Countdown(st[t].deferred.retryAt, 0)]
             s == [st[t] EXCEPT !.next = Countdown(st[t].next, -1 - StaleAfter),
                                !.retryAt = Countdown(st[t].retryAt, 0), !.cool = Countdown(st[t].cool, 0),
                                !.deferred = d]
  <2>1. StateTyped(st[t]) BY <1>1 DEF Shape
  <2>2. DOMAIN st[t] = TaskFields /\ DOMAIN st[t].deferred = {"attempts", "group", "ceil", "retryAt"} BY <2>1 DEF StateTyped
  <2>3. st'[t] = s BY <2>2 DEF Tick, TaskFields
  <2>4. DOMAIN d = {"attempts", "group", "ceil", "retryAt"} /\ d.attempts = st[t].deferred.attempts
        /\ d.group = st[t].deferred.group
    BY <2>2
  <2> HIDE DEF d
  <2>5. DOMAIN s = TaskFields /\ s.retrying = st[t].retrying /\ s.retryGroup = st[t].retryGroup /\ s.deferred = d
    BY <2>2 DEF TaskFields
  <2> HIDE DEF s
  <2> QED BY <2>1, <2>3, <2>4, <2>5 DEF StateTyped, SameGroups
<1>5. DOMAIN row' = RunIds /\ DOMAIN st' = Tasks BY DEF Tick
<1>6. Shape(World') BY <1>1, <1>2, <1>3, <1>4, <1>5 DEF Shape
<1>7. \A r \in 1..World.used : SameRow(World, World', r) BY <1>1, <1>2, <1>3 DEF SameRow
<1>8. \A t \in Tasks : SameState(World, World', t) BY <1>1, <1>2, <1>4 DEF SameState, SameGroups
<1>9. Moves(World, World') BY <1>1, <1>2, <1>6, <1>7, <1>8 DEF Moves
<1>10. Queue(World', {})
  <2>1. \A r, l : Belongs(World, r, l) => Belongs(World', r, l) /\ (World'.row[r].live = World.row[r].live)
    BY <1>1, <1>2, <1>3 DEF Belongs
  <2> QED BY <1>1, <1>2, <2>1 DEF Queue
<1> QED BY <1>9, <1>10, MoveStep DEF Tick

\* Empty lanes.
LEMMA EmptyLanes ==
    ASSUME NEW w, \A l \in Lanes : w.lane[l] = [current |-> 0, pending |-> <<>>]
    PROVE  Queue(w, {})
<1>1. <<>> \in Seq(1..w.used) /\ \A j : j \notin 1..Len(<<>>) OBVIOUS
<1>2. \A l \in Lanes : w.lane[l].current = 0 /\ w.lane[l].pending = <<>> OBVIOUS
<1> QED BY <1>1, <1>2 DEF Queue

\* A crash empties the lanes and leaves the rows and the history.
LEMMA CrashSteps ==
    ASSUME IInv, Crash
    PROVE  Stepped
<1>1. /\ World.st = st /\ World.row = row /\ World.used = used /\ World.hist = hist /\ World.reported = reported
      /\ Shape(World) /\ \A r \in 1..used : r \in RunIds
  BY WorldFacts
<1>2. /\ World'.row = row' /\ World'.st = st /\ World'.used = used /\ World'.hist = hist
      /\ World'.lane = lane' /\ World'.handles = {} /\ World'.adapter = adapter'
      /\ World'.reported = reported /\ DOMAIN World' = Fields
  BY DEF World, Crash, Fields
<1>3. ASSUME NEW r \in RunIds
      PROVE  /\ DOMAIN row'[r] = RowFields
             /\ row'[r].task = row[r].task /\ row'[r].trigger = row[r].trigger /\ row'[r].attempt = row[r].attempt
             /\ row'[r].group = row[r].group /\ row'[r].live = row[r].live /\ row'[r].req = row[r].req
  <2>1. DOMAIN row[r] = RowFields BY <1>1 DEF Shape
  <2>2. row'[r] = [row[r] EXCEPT !.owned = FALSE] BY DEF Crash
  <2> QED BY <2>1, <2>2 DEF RowFields
<1>4. /\ DOMAIN row' = RunIds /\ DOMAIN adapter' = RunIds /\ DOMAIN lane' = Lanes
      /\ \A l \in Lanes : lane'[l] = [current |-> 0, pending |-> <<>>]
  BY DEF Crash
<1>5. Shape(World') BY <1>1, <1>2, <1>3, <1>4 DEF Shape
<1>6. \A r \in 1..World.used : SameRow(World, World', r) BY <1>1, <1>2, <1>3 DEF SameRow
<1>7. \A t \in Tasks : SameState(World, World', t) BY <1>1, <1>2 DEF SameState
<1>8. Moves(World, World') BY <1>1, <1>2, <1>5, <1>6, <1>7 DEF Moves
<1>9. Queue(World', {}) BY <1>2, <1>4, EmptyLanes
<1> QED BY <1>8, <1>9, MoveStep DEF Crash

\* Steps that leave the rows alone.
LEMMA StutterSteps ==
    ASSUME IInv, Boot \/ UNCHANGED vars
    PROVE  Stepped
<1>1. World' = World /\ acked' = acked BY DEF Boot, vars, World
<1>2. Shape(World) /\ Queue(World, {}) BY WorldFacts
<1>3. Moves(World, World) BY <1>2, ServesFacts
<1> QED BY <1>1, <1>2, <1>3, MoveStep

\* Nothing has run.
LEMMA InitIInv == Init => IInv
<1> SUFFICES ASSUME Init PROVE IInv OBVIOUS
<1>1. MaxRuns \in Nat /\ RunIds = 1..MaxRuns BY ScheduleAssumption DEF ScheduleAssumption, RunIds
<1>2. /\ World.st = st /\ World.row = row /\ World.used = 0 /\ World.hist = hist
      /\ World.lane = lane /\ World.handles = {} /\ World.adapter = adapter
      /\ World.reported = reported /\ DOMAIN World = Fields
  BY DEF World, Init, Fields
<1>3. DOMAIN st = Tasks /\ \A t \in Tasks : StateTyped(st[t]) /\ Cleared(st[t])
  <2>1. st \in [Tasks -> {FreshTask(n) : n \in 1..Period \cup {Never}}] BY DEF Init
  <2>2. \A n : StateTyped(FreshTask(n)) /\ Cleared(FreshTask(n))
    BY DEF FreshTask, NoDeferral, StateTyped, TaskFields, Cleared
  <2> QED BY <2>1, <2>2
<1>4. /\ DOMAIN row = RunIds /\ \A r \in RunIds : DOMAIN row[r] = RowFields
      /\ DOMAIN hist = RunIds /\ \A r \in RunIds : hist[r].outcome = "none"
      /\ DOMAIN reported = RunIds /\ \A r \in RunIds : reported[r] = 0
      /\ DOMAIN adapter = RunIds
      /\ DOMAIN lane = Lanes /\ \A l \in Lanes : DOMAIN lane[l] = {"current", "pending"}
  BY DEF Init, NoRow, RowFields
<1>5. Shape(World) BY <1>1, <1>2, <1>3, <1>4 DEF Shape
<1>6. History(World) BY <1>2, <1>4 DEF History
<1>7. Groups(World) BY <1>2, <1>3 DEF Groups, Continued, Cleared
<1>8. Queue(World, {}) BY <1>2, EmptyLanes DEF Init
<1>9. Acknowledged BY DEF Init, Acknowledged
<1> QED BY <1>5, <1>6, <1>7, <1>8, <1>9 DEF IInv, Good

\* Every step keeps the invariant, and undoes nothing.
LEMMA NextSteps == IInv /\ [Next]_vars => Stepped
<1> SUFFICES ASSUME IInv, [Next]_vars PROVE Stepped OBVIOUS
<1>1. CASE Tick BY <1>1, TickSteps
<1>2. CASE Crash BY <1>2, CrashSteps
<1>3. CASE Boot \/ UNCHANGED vars BY <1>3, StutterSteps
<1>4. CASE TaskStep
  <2>1. PICK t \in Listed, n \in 1..Period :
          \/ \E fault \in Faults : Admit(t, n, fault) \/ RunManual(t, n, fault)
          \/ SkipStale(t, n) \/ AutoResume(t, n) \/ PauseTask(t) \/ ResumeTask(t, n) \/ TriggerNow(t)
    BY <1>4 DEF TaskStep
  <2> QED BY <2>1, AdmitSteps, RunManualSteps, StateSteps
<1>5. CASE AdapterStep
  <2>1. PICK r \in 1..used, n \in 1..Period, fault \in Faults :
          \/ \E res \in ScriptResults, gate \in BOOLEAN : ScriptEnds(r, res, gate, n, fault)
          \/ \E res \in SystemResults, hint \in Hints : SystemEnds(r, res, hint, n, fault)
          \/ \E res \in PrepResults(r) : AgentPrepEnds(r, res, n, fault)
          \/ \E res \in AgentResults, early \in BOOLEAN, hint \in Hints : AgentEnds(r, res, early, hint, n, fault)
          \/ AgentTimedOut(r, n, fault)
    BY <1>5 DEF AdapterStep
  <2>2. CASE \E res \in ScriptResults, gate \in BOOLEAN : ScriptEnds(r, res, gate, n, fault)
    BY <2>2, ScriptEndsSteps
  <2>3. CASE \E res \in SystemResults, hint \in Hints : SystemEnds(r, res, hint, n, fault)
    BY <2>3, ResultSteps
  <2>4. CASE \E res \in PrepResults(r) : AgentPrepEnds(r, res, n, fault)
    BY <2>4, ResultSteps
  <2>5. CASE \E res \in AgentResults, early \in BOOLEAN, hint \in Hints : AgentEnds(r, res, early, hint, n, fault)
    BY <2>5, ResultSteps
  <2>6. CASE AgentTimedOut(r, n, fault) BY <2>6, ResultSteps
  <2> QED BY <2>1, <2>2, <2>3, <2>4, <2>5, <2>6
<1>6. CASE RunStep
  <2>1. PICK r \in 1..used, fault \in Faults :
          Cancel(r, fault) \/ Progress(r) \/ AgentStarts(r) \/ AgentDeadline(r, fault) \/ AppendFails(r)
    <3>1. "none" \in Faults BY DEF Faults
    <3> QED BY <1>6, <3>1 DEF RunStep
  <2>2. CASE Cancel(r, fault) BY <2>2, CancelSteps
  <2>3. CASE Progress(r) \/ AgentStarts(r) \/ AgentDeadline(r, fault) BY <2>3, ServingSteps
  <2>4. CASE AppendFails(r) BY <2>4, ResultSteps
  <2> QED BY <2>1, <2>2, <2>3, <2>4
<1>7. CASE \E t \in Listed : Wake(t) \/ RecoverTask(t)
  <2>1. PICK t \in Listed : Wake(t) \/ RecoverTask(t) BY <1>7
  <2>2. CASE Wake(t) BY <2>2, WakeDeadlineSteps DEF Wake
  <2>3. CASE RecoverTask(t) BY <2>3, RecoverSteps DEF RecoverTask
  <2> QED BY <2>1, <2>2, <2>3
<1> QED BY <1>1, <1>2, <1>3, <1>4, <1>5, <1>6, <1>7 DEF Next

\* The inductive invariant holds throughout.
THEOREM Invariance == Spec => []IInv
<1>1. IInv /\ [Next]_vars => IInv' BY NextSteps DEF Stepped
<1> QED BY <1>1, InitIInv, PTL DEF Spec

-----------------------------------------------------------------------------
(* What the invariant says.                                                *)

\* No run is closed without its record: see ClosedHasHistory.
THEOREM ClosedHasHistoryHolds == Spec => []ClosedHasHistory
<1>1. IInv => ClosedHasHistory
  <2> SUFFICES ASSUME IInv PROVE ClosedHasHistory OBVIOUS
  <2>1. World.row = row /\ World.used = used /\ World.hist = hist /\ History(World)
    BY WorldFacts DEF Good
  <2> QED BY <2>1 DEF History, ClosedHasHistory
<1> QED BY <1>1, Invariance, PTL

\* A lane is held by an unfinished run, or by one whose settlement threw: see
\* LaneHoldsLiveRun.
THEOREM LaneHoldsLiveRunHolds == Spec => []LaneHoldsLiveRun
<1>1. IInv => LaneHoldsLiveRun
  <2> SUFFICES ASSUME IInv PROVE LaneHoldsLiveRun OBVIOUS
  <2>1. World.row = row /\ World.lane = lane /\ World.torn = torn /\ Queue(World, {}) BY WorldFacts
  <2> QED BY <2>1 DEF Queue, LaneHoldsLiveRun
<1> QED BY <1>1, Invariance, PTL

\* The failure cascade fires once, for a failure: see FailureReportedOnce.
THEOREM FailureReportedOnceHolds == Spec => []FailureReportedOnce
<1>1. IInv => FailureReportedOnce
  <2> SUFFICES ASSUME IInv PROVE FailureReportedOnce OBVIOUS
  <2>1. World.reported = reported /\ World.hist = hist /\ History(World) BY WorldFacts DEF Good
  <2>2. \A r \in RunIds : reported[r] \in {0, 1} /\ (reported[r] = 1 => hist[r].outcome \in {"failed", "timed_out"})
    BY <2>1 DEF History
  <2> QED BY <2>2 DEF FailureReportedOnce
<1> QED BY <1>1, Invariance, PTL

\* A cancellation that was acknowledged and stored is what the run ends as: see
\* CancelIsHonoured.
THEOREM CancelIsHonouredHolds == Spec => []CancelIsHonoured
<1>1. IInv => CancelIsHonoured BY DEF IInv, Acknowledged, CancelIsHonoured
<1> QED BY <1>1, Invariance, PTL

\* A set in which of any three members two are the same has two at most.
LEMMA TwoAtMost ==
    ASSUME NEW S, \A x, y, z \in S : x = y \/ y = z \/ x = z
    PROVE  Cardinality(S) <= 2
<1>1. PICK a : S # {} => a \in S OBVIOUS
<1>2. PICK b : S \ {a} # {} => b \in S \ {a} OBVIOUS
<1>3. S \subseteq {a, b} BY <1>1, <1>2
<1>4. IsFiniteSet({a, b}) /\ Cardinality({a, b}) <= 2
  <2>1. IsFiniteSet({a}) /\ Cardinality({a}) = 1 BY FS_Singleton
  <2>2. IsFiniteSet({a} \cup {b}) /\ Cardinality({a} \cup {b}) = IF b \in {a} THEN 1 ELSE 2
    <3>1. /\ IsFiniteSet({a} \cup {b})
          /\ Cardinality({a} \cup {b}) = IF b \in {a} THEN Cardinality({a}) ELSE Cardinality({a}) + 1
      BY <2>1, FS_AddElement
    <3> QED BY <2>1, <3>1
  <2>3. {a} \cup {b} = {a, b} OBVIOUS
  <2> QED BY <2>2, <2>3
<1>5. IsFiniteSet(S) /\ Cardinality(S) <= Cardinality({a, b}) BY <1>3, <1>4, FS_Subset
<1>6. Cardinality(S) \in Nat /\ Cardinality({a, b}) \in Nat BY <1>4, <1>5, FS_CardinalityType
<1> QED BY <1>4, <1>5, <1>6

\* A group has one retry at most: see OneRetryPerGroup.
THEOREM OneRetryPerGroupHolds == Spec => []OneRetryPerGroup
<1>1. IInv => OneRetryPerGroup
  <2> SUFFICES ASSUME IInv, NEW g \in 1..used
               PROVE  Cardinality({r \in 1..used : /\ row[r].group = g
                                                   /\ hist[r].outcome \notin {"none", "deferred"}}) <= 2
    BY DEF OneRetryPerGroup
  <2>1. World.row = row /\ World.used = used /\ World.hist = hist /\ Groups(World) BY WorldFacts DEF Good
  <2>2. \A x, y, z \in Ended(World, g) : x = y \/ y = z \/ x = z BY <2>1 DEF Groups
  <2>3. Ended(World, g) = {r \in 1..used : /\ row[r].group = g
                                           /\ hist[r].outcome \notin {"none", "deferred"}}
    BY <2>1 DEF Ended
  <2> QED BY <2>2, <2>3, TwoAtMost
<1> QED BY <1>1, Invariance, PTL

\* What was recorded or closed stays: see SettledStays.
THEOREM SettledStaysHolds == Spec => SettledStays
<1>1. IInv /\ [Next]_vars =>
        [\A r \in RunIds :
           /\ hist[r].outcome # "none" => hist'[r] = hist[r]
           /\ r <= used /\ ~row[r].live => ~row'[r].live]_vars
  <2> SUFFICES ASSUME IInv, [Next]_vars, NEW r \in RunIds
               PROVE  /\ hist[r].outcome # "none" => hist'[r] = hist[r]
                      /\ r <= used /\ ~row[r].live => ~row'[r].live
    OBVIOUS
  <2>1. World.row = row /\ World.used = used /\ World.hist = hist /\ Shape(World) BY WorldFacts
  <2>2. World'.row = row' /\ World'.hist = hist' BY DEF World
  <2>3. Keeps(World, World') BY NextSteps DEF Stepped
  <2>4. r <= used => r \in 1..used
    <3>1. used \in Nat /\ MaxRuns \in Nat /\ RunIds = 1..MaxRuns BY <2>1, Ids
    <3> QED BY <3>1
  <2> QED BY <2>1, <2>2, <2>3, <2>4 DEF Keeps
<1> QED BY <1>1, Invariance, PTL DEF Spec, SettledStays

=============================================================================
