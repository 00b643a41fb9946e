------------------------------ MODULE LoopClock ------------------------------
(***************************************************************************)
(* The loop's choice of its next act (src/dsl41/runner.py, _next_work and  *)
(* run_until_quiescent) over the engine's three sources of due work: the   *)
(* queue of inputs, the oracle's timers and the scheduler's calendar ticks *)
(* (runner_scheduler.py), under a real clock that may jump and step back.  *)
(* With them: the admission stamp and its frontier, an update that         *)
(* replaces a job's ticks, and a restart, which drops the ticks missed     *)
(* while the engine was down and holds owed starts behind a barrier.       *)
(*                                                                         *)
(* A start arms its run's deadline (term_run_time), which kills it; a run  *)
(* that ends well may start another.  A tick's own job is left open (it    *)
(* waits on its conditions).  The clock does not move inside one pass of   *)
(* the loop.                                                               *)
(***************************************************************************)
EXTENDS Naturals, Sequences, FiniteSets, FiniteSetsExt, SequencesExt

CONSTANTS
  Jobs,      \* the jobs with a schedule
  OldTicks,  \* each job's ticks under the definition the engine opens with
  NewTicks,  \* and under the one an update brings
  Runs,      \* the runs, each started once at most
  Delay,     \* how long after its start a run's deadline falls
  Follows,   \* the runs a run's end starts
  Commanded, \* the runs an operator may start
  MaxTime,   \* bound: the last instant the clock shows
  MaxBack,   \* bound: how often the clock steps back
  MaxCrashes \* bound: how often the engine dies

Never == MaxTime + 1
Instants == 0..MaxTime

ASSUME ClockAssumption ==
  /\ IsFiniteSet(Jobs) /\ IsFiniteSet(Runs)
  /\ MaxTime \in Nat /\ MaxBack \in Nat /\ MaxCrashes \in Nat
  /\ OldTicks \in [Jobs -> SUBSET Instants]
  /\ NewTicks \in [Jobs -> SUBSET Instants]
  /\ Delay \in [Runs -> Nat \ {0}]
  /\ Follows \in [Runs -> SUBSET Runs]
  /\ Commanded \subseteq Runs

VARIABLES
  wall,      \* what the wall clock shows
  lastWall,  \* the reading the engine compared last
  front,     \* Frontiers.at, the stamp of the last admitted input
  queue,     \* the inputs in the order they were raised, each under its heap key
  timers,    \* the deadlines in the oracle's heap: [due, run]
  pend,      \* each job's ticks that pop_due has not consumed
  consumed,  \* each job's last consumed tick, 0 for none
  phase,     \* "down", "recovering" or "running"
  missed,    \* the ticks the restart's sweep dropped and has not recorded yet
  deferred,  \* the runs whose start the recovery owes
  after,     \* _deferred_after
  status,    \* each run in the oracle: "new", "live", "done" or "killed"
  launched,  \* the runs whose start was dispatched
  ended,     \* the instant each run's process ended at, which its wrapper records
  update,    \* "none", "open" (admitted, in STOPPING) or "applied"
  pos,       \* Position: the records' last instant, semantic frontier and ticks at it
  fired,     \* observer: how often each tick was admitted
  dropped,   \* observer: how often each tick was recorded as dropped
  slipped,   \* observer: ticks admitted under another stamp, with that stamp
  outage,    \* observer: the runs that ended while the engine was down
  since,     \* observer: the frontier the engine's scheduler was anchored at
  cut,       \* observer: where each job's new definition begins
  backs, crashes

world == <<wall, backs, crashes, ended, outage>>
oracle == <<front, timers, status>>
records == <<pos, update, launched, fired, dropped, slipped>>
anchors == <<since, cut>>
vars == <<wall, lastWall, front, queue, timers, pend, consumed, phase, missed,
          deferred, after, status, launched, ended, update, pos, fired, dropped,
          slipped, outage, since, cut, backs, crashes>>

Ticks == {t \in Jobs \X Instants : t[2] \in OldTicks[t[1]] \cup NewTicks[t[1]]}
Later(a, b) == IF a >= b THEN a ELSE b
Earlier(a, b) == IF a <= b THEN a ELSE b
First(S) == IF S = {} THEN Never ELSE Min(S)

\* The definition in force.
Plan(j) == IF update = "applied" THEN NewTicks[j] ELSE OldTicks[j]
From(S, t) == {x \in S : x >= t}

Init ==
  /\ wall = 0 /\ lastWall = 0 /\ front = 0
  /\ queue = <<>> /\ timers = {}
  /\ pend = [j \in Jobs |-> From(OldTicks[j], wall)]
  /\ consumed = [j \in Jobs |-> 0]
  /\ phase = "running"
  /\ missed = {} /\ deferred = {} /\ after = 0
  /\ status = [r \in Runs |-> "new"] /\ launched = {}
  /\ ended = [r \in Runs |-> Never] /\ outage = {}
  /\ update = "none"
  /\ pos = [last |-> wall, frontier |-> wall, ticks |-> {}]
  /\ fired = [t \in Ticks |-> 0]
  /\ dropped = [t \in Ticks |-> 0]
  /\ slipped = {}
  /\ since = wall
  /\ cut = [j \in Jobs |-> Never]
  /\ backs = 0 /\ crashes = 0

(***************************************************************************)
(* The stamps                                                              *)
(***************************************************************************)

\* now_of: the clock, never before the admission frontier.
NowOf(t) == Later(t, front)

\* _note_clock_step: after a backward step, what was due keeps its order of
\* arrival at one instant; later work keeps its stamp.
Noted ==
  LET cutoff == Later(Later(wall, front), lastWall)
      at     == NowOf(wall)
  IN IF wall >= cutoff THEN queue
     ELSE [i \in DOMAIN queue |->
            IF queue[i].key <= cutoff
            THEN [queue[i] EXCEPT !.key = at, !.at = Earlier(@, at)]
            ELSE queue[i]]

\* _push: an input raised while the clock shows less than the frontier.
Stamped(p) ==
  IF wall < front /\ p.at <= front THEN [p EXCEPT !.at = front, !.key = front] ELSE p

Pending(kind, what, at) == [kind |-> kind, what |-> what, at |-> at, key |-> at]

Push(ps) ==
  /\ queue' = Noted \o [i \in DOMAIN ps |-> Stamped(ps[i])]
  /\ lastWall' = wall

(***************************************************************************)
(* What is due                                                             *)
(***************************************************************************)
HeadAt(q) == First({q[i].key : i \in DOMAIN q})
\* The heap's head: the least stamp, and of those the first raised.
HeadOf(q) == CHOOSE i \in DOMAIN q :
  /\ q[i].key = HeadAt(q)
  /\ \A k \in DOMAIN q : q[k].key = HeadAt(q) => i <= k
RawDue == First({t.due : t \in timers})
SchedDue == First(UNION {pend[j] : j \in Jobs})

\* The instant a queued input must not pass (DL-232).
HeadGate == RawDue

\* _next_work's predicates, in the order they are asked; the horizon of a held
\* open engine is the end of time.
TakesEvent(q) ==
  /\ q # <<>>
  /\ HeadAt(q) <= HeadGate
  /\ HeadAt(q) <= SchedDue
  /\ HeadAt(q) <= NowOf(wall)
TakesTick(q) ==
  /\ SchedDue # Never
  /\ SchedDue < HeadAt(q)
  /\ SchedDue <= Later(RawDue, NowOf(wall))
  /\ SchedDue <= NowOf(wall)
TimerBeforeEvent(q) ==
  /\ RawDue # Never /\ q # <<>>
  /\ RawDue < HeadAt(q)
  /\ HeadAt(q) <= NowOf(wall)
TakesTimer == RawDue <= NowOf(wall)

NextWork(q) ==
  IF TakesEvent(q) THEN [act |-> "event", at |-> HeadAt(q)]
  ELSE IF TakesTick(q) THEN [act |-> "tick", at |-> SchedDue]
  ELSE IF TimerBeforeEvent(q) THEN [act |-> "timer", at |-> Later(RawDue, front)]
  ELSE IF TakesTimer THEN [act |-> "timer", at |-> NowOf(wall)]
  ELSE [act |-> "wait", at |-> Min({Later(RawDue, NowOf(wall)), HeadAt(q), SchedDue})]

\* (mutant) Only a queued input holds the barrier.
BadTakesDueWork(work, instant) == work.act = "event" /\ work.at <= instant

\* _takes_due_work, over the chosen act.
TakesDueWork(work, instant) == work.act # "wait" /\ work.at <= instant

(***************************************************************************)
(* One admission                                                           *)
(***************************************************************************)

\* _admit_and_apply's stamp: never ahead of the clock, never before the frontier.
StampOf(at) == NowOf(Earlier(at, wall))

\* Position.note, over a record that is semantic for the scheduler.
Semantic(p, at, ticks) ==
  [last     |-> Later(p.last, at),
   frontier |-> Later(p.frontier, at),
   ticks    |-> IF at > p.frontier THEN ticks
                ELSE IF at = p.frontier THEN p.ticks \cup ticks ELSE p.ticks]
Plain(p, at) == [p EXCEPT !.last = Later(@, at)]

\* The batch's time half fires every timer due by the stamp, before the input:
\* a deadline kills its run if that is still live.
FiredBy(at) == {t \in timers : t.due <= at}
TimeHalf(at) == [r \in Runs |->
  IF status[r] = "live" /\ \E t \in FiredBy(at) : t.run = r THEN "killed" ELSE status[r]]

\* A time observation: an input with no verb.
Observe(at) ==
  /\ front' = at
  /\ timers' = timers \ FiredBy(at)
  /\ status' = TimeHalf(at)
  /\ pos' = Semantic(pos, at, {})
  /\ UNCHANGED <<fired, slipped, launched, deferred, after>>

\* The starts an input decides are dispatched at once, or owed while recovering.
Dispatch(runs, at) ==
  IF runs = {} \/ phase # "recovering"
  THEN /\ launched' = launched \cup runs
       /\ pos' = Plain(pos, IF runs = {} THEN at ELSE Later(at, wall))
       /\ UNCHANGED <<deferred, after>>
  ELSE /\ deferred' = deferred \cup runs
       /\ after' = IF after = 0 THEN wall ELSE after
       /\ pos' = Plain(pos, at)
       /\ UNCHANGED launched

\* `over` are the runs the input ends, `runs` those it starts.
Admit(over, runs, at) ==
  /\ front' = at
  /\ timers' = (timers \ FiredBy(at)) \cup {[due |-> at + Delay[r], run |-> r] : r \in runs}
  /\ status' = [r \in Runs |-> IF r \in runs THEN "live"
                             ELSE IF r \in over THEN "done" ELSE TimeHalf(at)[r]]
  /\ Dispatch(runs, at)
  /\ UNCHANGED <<fired, slipped>>

\* A start of a run that is not new is ignored: its time half applies.
Command(run, at) == Admit({}, {r \in {run} : status[r] = "new"}, at)
\* A completion of a run its deadline killed is stale: its time half applies.
Completion(run, at) ==
  IF TimeHalf(at)[run] = "live"
  THEN Admit({run}, {r \in Follows[run] : status[r] = "new"}, at)
  ELSE Admit({}, {}, at)

AdmitTick(tick, at) ==
  /\ front' = at
  /\ timers' = timers \ FiredBy(at)
  /\ status' = TimeHalf(at)
  /\ pos' = Semantic(pos, at, {<<tick[1], at>>})
  /\ fired' = [fired EXCEPT ![tick] = @ + 1]
  /\ slipped' = IF at = tick[2] THEN slipped ELSE slipped \cup {<<tick, at>>}
  /\ UNCHANGED <<launched, deferred, after>>

(***************************************************************************)
(* The passes of the loop                                                  *)
(***************************************************************************)
Up == phase # "down"
Work == NextWork(Noted)
Rest(q) == RemoveAt(q, HeadOf(q))
CatchingUp == \E i \in DOMAIN queue : queue[i].kind = "catch_up"

\* The barrier is asked before the act is taken, once the catch-up is over.
ReadyAt == NowOf(wall)
Barrier ==
  /\ phase = "recovering" /\ ~CatchingUp
  /\ ~TakesDueWork(Work, Later(ReadyAt, Later(after, ReadyAt)))
Passes(act) == Up /\ ~Barrier /\ Work.act = act /\ lastWall' = wall

TakeInput ==
  /\ Passes("event")
  /\ LET p == Noted[HeadOf(Noted)] IN
       \/ p.kind = "command" /\ Command(p.what, StampOf(p.at))
       \/ p.kind = "completion" /\ Completion(p.what, StampOf(p.at))
       \/ p.kind = "tick" /\ AdmitTick(p.what, StampOf(p.at))
  /\ queue' = Rest(Noted)
  /\ UNCHANGED <<world, pend, consumed, phase, missed, update, dropped, anchors>>

TakeTimer ==
  /\ Passes("timer")
  /\ Observe(StampOf(Work.at))
  /\ queue' = Noted
  /\ UNCHANGED <<world, pend, consumed, phase, missed, update, dropped, anchors>>

\* pop_due consumes every tick due by the earliest and queues their starts.
PopDue ==
  /\ Passes("tick")
  /\ LET at == Work.at
         due == {j \in Jobs : at \in pend[j]}
         ps  == [i \in 1..Cardinality(due) |-> Pending("tick", <<SetToSeq(due)[i], at>>, at)]
     IN /\ Push(ps)
        /\ pend' = [j \in Jobs |-> pend[j] \ {at}]
        /\ consumed' = [j \in Jobs |-> IF j \in due THEN at ELSE consumed[j]]
  /\ UNCHANGED <<world, oracle, phase, missed, deferred, after, records, anchors>>

\* (mutant) An end found by a restart is stamped when it is found.
BadEndStamp(run) == NowOf(wall)

\* An end found by a restart is stamped with itself, never before the frontier,
\* and not with the clock (perform_step, DL-426).
EndStamp(run) == IF phase = "recovering" THEN Later(ended[run], front) ELSE NowOf(wall)
ToObserve == {r \in launched : /\ ended[r] # Never /\ status[r] = "live"
                              /\ \A i \in DOMAIN queue :
                                   queue[i].kind = "completion" => queue[i].what # r}

\* The catch-up queues the end of every attempt the outage ended.
TakeCatchUp ==
  /\ Passes("event")
  /\ Noted[HeadOf(Noted)].kind = "catch_up"
  /\ LET over == SetToSeq(ToObserve)
         ps   == [i \in DOMAIN over |-> Pending("completion", over[i], EndStamp(over[i]))]
     IN queue' = Rest(Noted) \o [i \in DOMAIN ps |-> Stamped(ps[i])]
  /\ UNCHANGED <<world, oracle, pend, consumed, phase, missed, deferred, after, records, anchors>>

\* (mutant) The old definition's due ticks go with it.
BadNewPend(j, at) == {x \in NewTicks[j] : IF consumed[j] >= at THEN x > consumed[j] ELSE x >= at}

\* The application of an update (runner._update_step, Scheduler.replace): a
\* changed job's old ticks by now stay owed, its new ones count from now or
\* from past its last consumed tick; then one time observation.
NewPend(j, at) ==
  LET owed == From(pend[j], 0) \cap 0..at
      new  == {x \in NewTicks[j] : IF consumed[j] >= at THEN x > consumed[j] ELSE x >= at}
  IN owed \cup {x \in new : \A o \in owed : x > o}
Changed == {j \in Jobs : OldTicks[j] # NewTicks[j]}

TakeUpdate ==
  /\ Passes("event")
  /\ Noted[HeadOf(Noted)].kind = "update_exit"
  /\ LET at == NowOf(wall) IN
       /\ pend' = [j \in Jobs |-> IF j \in Changed THEN NewPend(j, at) ELSE pend[j]]
       /\ cut' = [j \in Jobs |-> IF consumed[j] >= at THEN consumed[j] + 1 ELSE at]
       /\ Observe(at)
  /\ update' = "applied"
  /\ queue' = Rest(Noted)
  /\ UNCHANGED <<world, consumed, phase, missed, dropped, since>>

\* _finish_recovery: the owed starts that still stand are carried out, then the
\* start and the missed ticks are recorded.
Standing == {r \in deferred : status[r] = "live"}
SweptTicks(S, t) == {x \in S : x[2] = t}
FinishRecovery ==
  /\ Barrier
  /\ phase' = "running"
  /\ launched' = launched \cup Standing
  /\ deferred' = {}
  /\ dropped' = [t \in Ticks |-> dropped[t] + (IF t \in missed THEN 1 ELSE 0)]
  /\ LET p == IF Standing = {} THEN pos ELSE Plain(pos, wall)
         t == Max({x[2] : x \in missed})
     IN pos' = IF missed = {} THEN p ELSE Semantic(p, t, SweptTicks(missed, t))
  /\ missed' = {}
  /\ queue' = Noted /\ lastWall' = wall
  /\ UNCHANGED <<world, oracle, pend, consumed, after, update, fired, slipped, anchors>>

(***************************************************************************)
(* What comes from outside                                                 *)
(***************************************************************************)
Inputs == <<front, timers, status, pend, consumed, phase, missed, deferred, after>>

\* A control input, stamped when its connection reads it (now_admitted).
Raise(run) ==
  /\ phase = "running" /\ run \in Commanded /\ status[run] = "new"
  /\ \A i \in DOMAIN queue : queue[i].what # run
  /\ Push(<<Pending("command", run, NowOf(wall))>>)
  /\ UNCHANGED <<world, Inputs, records, anchors>>

ObserveEnd(run) ==
  /\ Up /\ ~CatchingUp /\ run \in ToObserve
  /\ Push(<<Pending("completion", run, EndStamp(run))>>)
  /\ UNCHANGED <<world, Inputs, records, anchors>>

\* A run's process ends; its wrapper records when, engine or no engine.
ProcessEnds(run) ==
  /\ run \in launched /\ ended[run] = Never
  /\ ended' = [ended EXCEPT ![run] = wall]
  /\ outage' = IF Up THEN outage ELSE outage \cup {run}
  /\ UNCHANGED <<wall, backs, crashes, lastWall, queue, Inputs, records, anchors>>

RequestUpdate ==
  /\ phase = "running" /\ update = "none"
  /\ update' = "open"
  /\ UNCHANGED <<world, lastWall, queue, Inputs, launched, pos, fired, dropped, slipped, anchors>>

\* post_update_exit: the stop set is down.  While a restart recovers it goes
\* after everything queued, and only once the catch-up is over.
PostUpdateExit ==
  /\ Up /\ ~CatchingUp /\ update = "open" /\ \A i \in DOMAIN queue : queue[i].kind # "update_exit"
  /\ LET last == Later(pos.last, Max({wall} \cup {queue[i].key : i \in DOMAIN queue}))
     IN Push(<<Pending("update_exit", <<>>, IF phase = "recovering" THEN last ELSE wall)>>)
  /\ UNCHANGED <<world, Inputs, records, anchors>>

ClockMoves ==
  /\ \E t \in Instants :
       /\ t # wall
       /\ t < wall => backs < MaxBack
       /\ wall' = t
       /\ backs' = IF t < wall THEN backs + 1 ELSE backs
  /\ UNCHANGED <<crashes, ended, outage, lastWall, queue, Inputs, records, anchors>>

Crash ==
  /\ Up /\ crashes < MaxCrashes
  /\ crashes' = crashes + 1
  /\ phase' = "down"
  /\ queue' = <<>> /\ missed' = {} /\ deferred' = {} /\ after' = 0
  /\ pend' = [j \in Jobs |-> {}]
  /\ consumed' = [j \in Jobs |-> 0]
  /\ UNCHANGED <<wall, backs, ended, outage, lastWall, oracle, records, anchors>>

\* The restored frontier is the records' last instant.
RecordedFront == Later(front, pos.last)

\* _missed_ticks: those from the durable frontier to now, the adjudicated apart.
MissedTicks(upto) ==
  {t \in Ticks : /\ t[2] \in From(Plan(t[1]), pos.frontier)
                 /\ t[2] <= upto
                 /\ t \notin pos.ticks}

\* resume: the runs started and never dispatched are owed; the missed ticks are
\* dropped, and the scheduler stands past now.
Restart ==
  /\ phase = "down"
  /\ phase' = "recovering"
  /\ front' = RecordedFront
  /\ lastWall' = wall
  /\ queue' = <<Pending("catch_up", <<>>, pos.last)>>
  /\ LET upto == Later(Later(wall, front'), pos.frontier) IN
       /\ missed' = MissedTicks(upto)
       /\ pend' = [j \in Jobs |-> From(Plan(j), upto + 1)]
       /\ consumed' = [j \in Jobs |->
            Max({0} \cup (From(Plan(j), pos.frontier) \cap 0..upto))]
  /\ deferred' = {r \in Runs \ launched : status[r] = "live"}
  /\ after' = IF deferred' = {} THEN 0 ELSE pos.last
  /\ since' = pos.frontier
  /\ cut' = [j \in Jobs |-> IF update = "applied" THEN 0 ELSE Never]
  /\ UNCHANGED <<world, timers, status, records>>

Loop ==
  \/ TakeInput \/ TakeTimer \/ PopDue
  \/ TakeCatchUp \/ TakeUpdate \/ FinishRecovery

Next ==
  \/ Loop
  \/ \E run \in Runs : Raise(run) \/ ObserveEnd(run) \/ ProcessEnds(run)
  \/ RequestUpdate \/ PostUpdateExit
  \/ ClockMoves
  \/ Crash \/ Restart

Spec == Init /\ [][Next]_vars

(***************************************************************************)
(* Properties                                                              *)
(***************************************************************************)

\* Where a tick is while it is to come, and what accounts for one.
Coming(t) ==
  \/ t[2] \in pend[t[1]] \/ t \in missed
  \/ \E i \in DOMAIN queue : queue[i].kind = "tick" /\ queue[i].what = t
Planned(t) == t[2] \in (IF t[2] < cut[t[1]] THEN OldTicks[t[1]] ELSE NewTicks[t[1]])
Accounted(t) ==
  \/ fired[t] + dropped[t] > 0
  \/ Coming(t)
  \/ \E x \in slipped : x[1][1] = t[1] /\ x[2] = t[2]

\* Each tick is taken once over restarts, updates and clock steps.  While the
\* engine runs none since its scheduler's anchor is forgotten: it is admitted,
\* recorded as dropped, or still to come in the scheduler, the queue or the
\* sweep's drops; and none is acted on twice, in whichever engine's life.  A tick
\* admitted under another instant than its own is the exception to both.
EveryTickOnce ==
  Up => \A t \in Ticks :
    /\ Planned(t) /\ t[2] >= since => Accounted(t)
    /\ fired[t] + dropped[t] <= 1 \/ \E x \in slipped : x[1] = t

\* A run that ended during an outage is not killed by a deadline that fell after
\* that end and after the last recorded instant (DL-426), unless the clock stepped
\* back: a step rebases what is queued, the catch-up too.
EndBeatsDeadline ==
  [][\A r \in Runs :
       backs = 0 /\ status[r] = "live" /\ status'[r] = "killed" /\ r \in outage
         => \A t \in timers : t.run = r => t.due <= ended[r] \/ t.due <= pos.last]_vars

\* Ready inputs keep their order of arrival.
ArrivalOrder ==
  \A i, k \in DOMAIN queue :
    i < k /\ queue[i].kind = "command" /\ queue[k].kind = "update_exit"
      => queue[i].key <= queue[k].key

\* What fell due first goes first.  The batch that applies a queued input fires no
\* timer due before its stamp, which fires as an input of its own (DL-232); and a start
\* the recovery owes is not launched once its deadline is past (DL-425).  And an update's
\* exit never overtakes a command raised before it, however the clock stepped between.
InDueOrder ==
  [][/\ ArrivalOrder'
     /\ Len(queue') < Len(queue) /\ phase' = phase /\ front' # front /\ update' = update
          => \A t \in timers \ timers' : t.due >= front'
     /\ \A r \in launched' \ launched :
          phase = "recovering" => \A t \in timers : t.run = r => t.due > wall]_vars

=============================================================================
