----------------------------- MODULE EngineLoop -----------------------------
(***************************************************************************)
(* The engine between the oracle and the attempts (src/dsl41/runner.py and *)
(* the restart's catch-up in runner_startup.py): the starts and kills an   *)
(* applied input implies, the plan an outcome owes, the starts a job's     *)
(* unsettled attempt keeps back, the drain, and what a restart rebuilds    *)
(* from the records.                                                       *)
(*                                                                         *)
(* The oracle is one row per job, which any input may move; an attempt is  *)
(* what AttemptTier says of it.  A handler writes several records, and the *)
(* engine may die between any two of them, so a handler leaves the calls it *)
(* has still to make on its job's agenda: one call is one step, and no     *)
(* other handler runs before the agenda is empty.  Calls of two jobs share *)
(* no state.                                                               *)
(***************************************************************************)
EXTENDS Naturals, Sequences

CONSTANTS
  Jobs,         \* the dispatchable jobs
  MaxRuns,      \* bound: how often a job starts
  MaxAttempts,  \* MAX_ATTEMPTS_PER_RUN
  Overwrites    \* whether an operator sets an ended job's status back to STARTING

ASSUME EngineAssumption ==
  /\ MaxRuns \in Nat \ {0}
  /\ MaxAttempts \in Nat \ {0}
  /\ Overwrites \in BOOLEAN

VARIABLES
  \* in the store
  row,       \* the oracle's row of each job: its run number, whether it is live
  life,      \* each attempt in the open table
  stopped,   \* attempts a record names as stopped by the oracle
  plan,      \* the next step of each attempt's plan
  pending,   \* runs with a dispatch_pending record
  decided,   \* replay.spawns: runs an input of the tail, the records past the snapshot,
             \* started and did not end
  recorded,  \* runs with a dispatch record in the tail
  refused,   \* observer: runs whose start was closed with no launch
  \* in memory
  phase,     \* the engine lifecycle, with the recovery that precedes RUNNING
  tier,      \* what the attempt tier and the engine hold of each attempt
  live,      \* each job's live attempt
  queue,     \* attempts whose plan's input is queued
  deferred,  \* attempts the recovery owes a dispatch
  held,      \* starts kept back behind an unsettled attempt of their job
  waiting,   \* attempts whose replacement is kept back
  catchUp,   \* open attempts the catch-up has not taken yet
  owed,      \* whether the catch-up's last step is still to come
  agenda     \* the calls the current handler has still to make, per job

store == <<row, life, stopped, plan, pending, decided, recorded, refused>>
memory == <<phase, tier, live, queue, deferred, held, waiting, catchUp, owed>>
vars == <<store, memory, agenda>>

\* An attempt is its job, run and ordinal; a run is its first attempt.
Attempts == Jobs \X (1..MaxRuns) \X (1..MaxAttempts)
Runs == Jobs \X (1..MaxRuns) \X {1}
None == <<>>

JobOf(a) == a[1]
RunOf(a) == <<a[1], a[2], 1>>
Replacement(a) == <<a[1], a[2], a[3] + 1>>

\* What the engine's memory holds of an attempt: its state in the chart, what its
\* ladder or hold does, whether its first stop is the oracle's kill, whether its
\* plan is done and whether its task is over.
Unknown == [state |-> "unknown", cleaning |-> "no", killed |-> FALSE,
            planDone |-> FALSE, exited |-> FALSE]

Init ==
  /\ row = [j \in Jobs |-> [run |-> 0, live |-> FALSE]]
  /\ life = [a \in Attempts |-> "never"]
  /\ stopped = {}
  /\ plan = [a \in Attempts |-> "none"]
  /\ pending = {} /\ decided = {} /\ recorded = {} /\ refused = {}
  /\ phase = "running"
  /\ tier = [a \in Attempts |-> Unknown]
  /\ live = [j \in Jobs |-> None]
  /\ queue = {} /\ deferred = {} /\ waiting = {} /\ catchUp = {}
  /\ held = [j \in Jobs |-> <<>>]
  /\ owed = FALSE
  /\ agenda = [j \in Jobs |-> <<>>]

-----------------------------------------------------------------------------
(* Readings.                                                               *)

Idle == \A j \in Jobs : agenda[j] = <<>>

Up == phase # "down"
Recovering == phase \in {"recovering", "owing", "barrier"}

\* No handler runs inside another, nor inside the catch-up's last step or the
\* barrier's lifting.
Ready == phase \in {"recovering", "running", "draining"} /\ Idle

\* spawn_superseded answers None: the oracle still wants this run.
Wanted(a) == row[JobOf(a)].live /\ row[JobOf(a)].run = a[2]

BadUnsettled(r) == r.state \in {"live", "stopping"} \/ (r.state = "ended" /\ ~r.planDone)

Unsettled(r) ==
  \/ r.state \in {"live", "stopping"}
  \/ r.state = "ended" /\ (~r.planDone \/ r.cleaning # "no")

BadBlocked(t, j, replacing) ==
  \E b \in Attempts : JobOf(b) = j /\ (t[b].cleaning = "held" \/ Unsettled(t[b]))

\* An unsettled attempt of the job keeps its next dispatch back.  A replacement
\* does not wait for the plan it is the last step of.
Blocked(t, j, replacing) ==
  \E b \in Attempts :
    /\ JobOf(b) = j
    /\ t[b].cleaning = "held" \/ (b # replacing /\ Unsettled(t[b]))

\* The stop of a live attempt: one whose group is known gets its ladder at once.
Stop(r, cleaning, killed) ==
  IF r.state = "live"
  THEN [r EXCEPT !.state = "stopping", !.cleaning = cleaning, !.killed = killed]
  ELSE r

\* _must_wait: the earlier attempt still live in the shell is stopped first.
MustStop(a) == Wanted(a) /\ live[JobOf(a)] # None

AfterStop(a, cleaning) ==
  IF MustStop(a)
  THEN [tier EXCEPT ![live[JobOf(a)]] = Stop(@, cleaning, TRUE)]
  ELSE tier

\* An attempt with nothing left to wait for is forgotten.
Kept(r) ==
  IF r.state = "ended" /\ r.planDone /\ r.exited /\ r.cleaning = "no" THEN Unknown ELSE r

\* A handler's call c is made, and calls more in its place.
Calling(j, c) == agenda[j] # <<>> /\ Head(agenda[j])[1] = c
Of(j) == Head(agenda[j])[2]
Then(j, more) == agenda' = [agenda EXCEPT ![j] = more \o Tail(@)]

-----------------------------------------------------------------------------
(* Inputs.                                                                 *)

Changes ==
  {"none", "start", "end", "again", "start_end", "inactive"}
    \cup IF Overwrites THEN {"overwrite"} ELSE {}

\* What one batch may do to a row: start it, end it, end and start it again,
\* start it and end it, or set it aside without ending its run.  An overwrite
\* makes the row live at the run it has.
Possible(j, c) ==
  CASE c = "none" -> TRUE
    [] c \in {"start", "start_end"} -> ~row[j].live /\ row[j].run < MaxRuns
    [] c = "again" -> row[j].live /\ row[j].run < MaxRuns
    [] c \in {"end", "inactive"} -> row[j].live
    [] c = "overwrite" -> ~row[j].live /\ row[j].run > 0

Moved(r, c) ==
  [run |-> IF c \in {"start", "again", "start_end"} THEN r.run + 1 ELSE r.run,
   live |-> IF c = "none" THEN r.live ELSE c \in {"start", "again", "overwrite"}]

\* dispatch_plan: a start where the run number moved, a kill where the row came
\* to a terminal status while the shell holds a live run of the job.
DispatchPlan(j, c) ==
  LET kill == IF live[j] # None THEN <<<<"kill", live[j]>>>> ELSE <<>>
      spawn == <<<<"spawn", <<j, row[j].run + 1, 1>>>>>>
  IN CASE c = "start" -> spawn
       [] c = "end" -> kill
       [] c = "again" -> kill \o spawn
       [] c = "start_end" -> spawn \o kill
       [] OTHER -> <<>>

\* The starts a replay of the input finds: a run the input also ended is left out, since the
\* row no longer wants it (spawn_superseded).
ReplayedStarts(c) ==
  {<<j, row[j].run + 1, 1>> : j \in {k \in Jobs : c[k] \in {"start", "again"}}}

\* The decision is durable before anything it implies is done.
Apply(c, after) ==
  /\ row' = [j \in Jobs |-> Moved(row[j], c[j])]
  /\ decided' = decided \cup ReplayedStarts(c)
  /\ agenda' = [j \in Jobs |-> DispatchPlan(j, c[j]) \o after[j]]

NoCalls == [j \in Jobs |-> <<>>]

\* The catch-up's steps sort ahead of every request (catch_up).
TakesCommands == phase = "running" \/ (phase = "recovering" /\ catchUp = {} /\ ~owed)

\* A command, a tick or a timer.  A draining engine rejects a command, and the
\* time half of its input moves rows all the same; an overwrite is a command.
Input ==
  /\ Ready
  /\ \E c \in [Jobs -> Changes] :
       /\ \E j \in Jobs : c[j] # "none"
       /\ \A j \in Jobs : Possible(j, c[j]) /\ (c[j] = "overwrite" => TakesCommands)
       /\ Apply(c, NoCalls)
  /\ UNCHANGED <<life, stopped, plan, pending, recorded, refused, memory>>

\* The input of a plan: the completion of a run that is no longer live is
\* rejected.  Its step is marked done in the transaction of its admission.
PlanInput(a) ==
  /\ Ready
  /\ a \in queue
  /\ queue' = queue \ {a}
  /\ plan' = [plan EXCEPT ![a] = "done"]
  /\ \E c \in [Jobs -> Changes] :
       /\ \A j \in Jobs : Possible(j, c[j]) /\ c[j] # "overwrite"
       /\ IF Wanted(a) THEN c[JobOf(a)] \in {"end", "again"} ELSE \A j \in Jobs : c[j] = "none"
       /\ Apply(c, [NoCalls EXCEPT ![JobOf(a)] = <<<<"perform", a>>>>])
  /\ UNCHANGED <<life, stopped, pending, recorded, refused>>
  /\ UNCHANGED <<phase, tier, live, deferred, held, waiting, catchUp, owed>>

-----------------------------------------------------------------------------
(* Calls.                                                                  *)

\* spawn: the dispatch record is durable before the task exists.
Launch(a, t) ==
  /\ tier' = [t EXCEPT ![a] = [Unknown EXCEPT !.state = "live"]]
  /\ live' = [live EXCEPT ![JobOf(a)] = a]
  /\ life' = [life EXCEPT ![a] = "open"]
  /\ recorded' = recorded \cup {RunOf(a)}

\* What a dispatch that was kept back, or given up, leaves of the live attempt.
NoLaunch(a, t) ==
  /\ tier' = t
  /\ live' = IF MustStop(a) THEN [live EXCEPT ![JobOf(a)] = None] ELSE live
  /\ UNCHANGED <<life, recorded>>

\* _kill, of the run it was planned for.
Kill(j) ==
  /\ Calling(j, "kill")
  /\ IF live[j] # None /\ RunOf(live[j]) = RunOf(Of(j))
     THEN /\ live' = [live EXCEPT ![j] = None]
          /\ \E cleaning \in {"no", "ladder"} :
               tier' = [tier EXCEPT ![live[j]] = Stop(@, cleaning, TRUE)]
     ELSE UNCHANGED <<live, tier>>
  /\ Then(j, <<>>)
  /\ UNCHANGED <<store, phase, queue, deferred, held, waiting, catchUp, owed>>

\* A decided start: owed while the engine recovers, left to the restart while
\* it drains, kept back behind an unsettled attempt, launched, or not wanted
\* any more by the batch that decided it.
Spawn(j) ==
  /\ Calling(j, "spawn")
  /\ LET a == Of(j) IN
     \E cleaning \in {"no", "ladder"} :
       LET t == AfterStop(a, cleaning)
           kept == phase = "running" /\ Blocked(t, j, None)
           goes == phase = "running" /\ ~kept /\ Wanted(a)
       IN /\ pending' = IF kept \/ phase # "running" THEN pending \cup {a} ELSE pending
          /\ deferred' = IF Recovering THEN deferred \cup {<<a, "start">>} ELSE deferred
          /\ held' = IF kept THEN [held EXCEPT ![j] = Append(@, a)] ELSE held
          /\ refused' = IF phase = "running" /\ ~kept /\ ~goes THEN refused \cup {a} ELSE refused
          /\ CASE goes -> Launch(a, t)
               [] phase = "running" /\ ~goes -> NoLaunch(a, t)
               [] OTHER -> UNCHANGED <<tier, live, life, recorded>>
  /\ Then(j, <<>>)
  /\ UNCHANGED <<row, stopped, plan, decided, phase, queue, waiting, catchUp, owed>>

\* _discharge of a start: closed with no launch once the oracle moved on.
DischargeStart(j) ==
  /\ Calling(j, "discharge_start")
  /\ LET a == Of(j) IN
     \E cleaning \in {"no", "ladder"} :
       LET t == AfterStop(a, cleaning)
           kept == Wanted(a) /\ Blocked(t, j, None)
           goes == Wanted(a) /\ ~kept
       IN /\ pending' = IF kept THEN pending ELSE pending \ {a}
          /\ held' = IF kept THEN [held EXCEPT ![j] = Append(@, a)] ELSE held
          /\ refused' = IF Wanted(a) THEN refused ELSE refused \cup {a}
          /\ IF goes THEN Launch(a, t) ELSE NoLaunch(a, t)
  /\ Then(j, <<>>)
  /\ UNCHANGED <<row, stopped, plan, decided, phase, queue, deferred, waiting, catchUp, owed>>

\* _discharge of a plan's replacement: its done mark rides with its dispatch.
DischargePlan(j) ==
  /\ Calling(j, "discharge_plan")
  /\ LET a == Of(j) IN
     \E cleaning \in {"no", "ladder"} :
       LET t == AfterStop(a, cleaning)
           kept == Wanted(a) /\ Blocked(t, j, a)
       IN /\ IF kept
             THEN waiting' = waiting \cup {a} /\ Then(j, <<>>) /\ UNCHANGED plan
             ELSE /\ plan' = [plan EXCEPT ![a] = "done"]
                  /\ Then(j, <<<<"perform", a>>>>)
                  /\ UNCHANGED waiting
          /\ IF Wanted(a) /\ ~kept THEN Launch(Replacement(a), t) ELSE NoLaunch(a, t)
  /\ UNCHANGED <<row, stopped, pending, decided, refused>>
  /\ UNCHANGED <<phase, queue, deferred, held, catchUp, owed>>

\* A draining engine leaves a replacement to the restart.
LeftToRestart(a) == plan[a] = "rerun" /\ phase = "draining"

\* perform_plan: an input is queued; a replacement waits for its attempt's
\* ladder, for the barrier, or for the restart of a draining engine; a plan with
\* nothing left to do settles its attempt.
Perform(j) ==
  /\ Calling(j, "perform")
  /\ LET a == Of(j)
         finished == plan[a] \notin {"input", "rerun"} \/ LeftToRestart(a)
         laddering == tier[a].cleaning = "ladder"
         dispatch == plan[a] = "rerun" /\ ~finished
     IN /\ queue' = IF plan[a] = "input" THEN queue \cup {a} ELSE queue
        /\ waiting' = IF dispatch /\ laddering THEN waiting \cup {a} ELSE waiting
        /\ deferred' = IF dispatch /\ ~laddering /\ Recovering
                       THEN deferred \cup {<<a, "plan">>}
                       ELSE deferred
        /\ tier' = IF finished /\ tier[a].state # "unknown"
                   THEN [tier EXCEPT ![a] = Kept([@ EXCEPT !.planDone = TRUE])]
                   ELSE tier
        /\ Then(j, CASE finished -> <<<<"release", a>>>>
                     [] dispatch /\ ~laddering /\ ~Recovering -> <<<<"discharge_plan", a>>>>
                     [] OTHER -> <<>>)
  /\ UNCHANGED <<store, phase, live, held, catchUp, owed>>

\* _ladder_ended: an outcome committed while the ladder ran is closed now.
LadderEnded(j) ==
  /\ Calling(j, "ladder_ended")
  /\ LET a == Of(j) IN
     /\ life' = [life EXCEPT ![a] = IF @ = "closing" THEN "closed" ELSE @]
     /\ waiting' = waiting \ {a}
     /\ tier' = [tier EXCEPT ![a] = Kept(@)]
     /\ Then(j, IF a \in waiting
                THEN <<<<"perform", a>>, <<"release", a>>>>
                ELSE <<<<"release", a>>>>)
  /\ UNCHANGED <<row, stopped, plan, pending, decided, recorded, refused>>
  /\ UNCHANGED <<phase, live, queue, deferred, held, catchUp, owed>>

\* The replacements an attempt's settling lets go.  One whose own ladder runs
\* would be put back at once.
Released(j) ==
  {a \in waiting : JobOf(a) = j /\ tier[a].cleaning # "ladder" /\ ~Blocked(tier, j, a)}

\* _release: the replacements first, then the starts.
Release(j) ==
  /\ Calling(j, "release")
  /\ \/ \E a \in Released(j) :
          /\ waiting' = waiting \ {a}
          /\ Then(j, <<<<"perform", a>>, <<"release", a>>>>)
          /\ UNCHANGED <<held, deferred>>
     \/ /\ Released(j) = {}
        /\ phase = "draining" \/ Blocked(tier, j, None)
        /\ Then(j, <<>>)
        /\ UNCHANGED <<waiting, held, deferred>>
     \/ /\ Released(j) = {}
        /\ phase # "draining" /\ ~Blocked(tier, j, None)
        /\ held' = [held EXCEPT ![j] = <<>>]
        /\ IF Recovering
           THEN /\ deferred' = deferred \cup {<<held[j][i], "start">> : i \in DOMAIN held[j]}
                /\ Then(j, <<>>)
           ELSE /\ Then(j, [i \in DOMAIN held[j] |-> <<"discharge_start", held[j][i]>>])
                /\ UNCHANGED deferred
        /\ UNCHANGED waiting
  /\ UNCHANGED <<store, phase, tier, live, queue, catchUp, owed>>

Call(j) ==
  \/ Kill(j) \/ Spawn(j) \/ DischargeStart(j) \/ DischargePlan(j)
  \/ Perform(j) \/ LadderEnded(j) \/ Release(j)

-----------------------------------------------------------------------------
(* What the attempt tier tells the engine, in the order AttemptTier allows. *)

\* The last attempt the limit allows is not replaced.
Limit(a) == a[3] >= MaxAttempts

\* follow_up_plan: a completion is told; an interruption of a run the oracle
\* still wants is replaced, or held where the job is marked, the attempt is the
\* last the limit allows, or its records do not read.
Plans(a, own, killed) ==
  CASE own -> {"input"}
    [] ~own /\ (killed \/ ~Wanted(a)) -> {"none"}
    [] OTHER -> IF Limit(a) THEN {"input"} ELSE {"input", "rerun"}

\* commit_outcome: the outcome and its plan are one transaction.
Commit(a, cleaning, killed, calls) ==
  \E own \in BOOLEAN :
    /\ \E p \in Plans(a, own, killed) : plan' = [plan EXCEPT ![a] = p]
    /\ life' = [life EXCEPT ![a] = IF cleaning = "no" THEN "closed" ELSE "closing"]
    /\ tier' = [tier EXCEPT ![a].state = "ended", ![a].cleaning = cleaning, ![a].killed = killed]
    /\ agenda' = [agenda EXCEPT ![JobOf(a)] = <<<<"perform", a>>>> \o calls]

\* The attempt's end is told: a ladder that runs and a hold go on, and what is
\* found left of it starts one.
Ended(a) ==
  /\ Ready
  /\ a \notin catchUp
  /\ tier[a].state \in {"live", "stopping"}
  /\ \E cleaning \in IF tier[a].cleaning = "no" THEN {"no", "ladder", "held"} ELSE {tier[a].cleaning} :
       Commit(a, cleaning, tier[a].killed, <<>>)
  /\ UNCHANGED <<row, stopped, pending, decided, recorded, refused>>
  /\ UNCHANGED <<phase, live, queue, deferred, held, waiting, catchUp, owed>>

\* The wrapper of a running attempt is lost, or a stopping one's group becomes
\* known: a ladder.  One whose record never comes is held.
Cleaning(a) ==
  /\ Ready
  /\ a \notin catchUp
  /\ tier[a].cleaning = "no"
  /\ \/ tier[a].state = "live" /\ tier' = [tier EXCEPT ![a] = Stop(@, "ladder", FALSE)]
     \/ /\ tier[a].state = "stopping"
        /\ \E cleaning \in {"ladder", "held"} : tier' = [tier EXCEPT ![a].cleaning = cleaning]
  /\ UNCHANGED <<store, agenda, phase, live, queue, deferred, held, waiting, catchUp, owed>>

\* A ladder ends: what outlived it is held.
LadderEnds(a) ==
  /\ Ready
  /\ tier[a].cleaning = "ladder"
  /\ \/ /\ tier' = [tier EXCEPT ![a].cleaning = "held"]
        /\ UNCHANGED agenda
     \/ /\ tier' = [tier EXCEPT ![a].cleaning = "no"]
        /\ agenda' = [agenda EXCEPT ![JobOf(a)] = <<<<"ladder_ended", a>>>>]
  /\ UNCHANGED <<store, phase, live, queue, deferred, held, waiting, catchUp, owed>>

\* group_gone: an ended attempt is let go as its ladder's end would have; a
\* stopping one has its record read once more.
GroupGone(a) ==
  /\ Ready
  /\ tier[a].cleaning = "held"
  /\ \/ /\ tier[a].state = "ended"
        /\ tier' = [tier EXCEPT ![a].cleaning = "no"]
        /\ agenda' = [agenda EXCEPT ![JobOf(a)] = <<<<"ladder_ended", a>>>>]
        /\ UNCHANGED <<life, plan>>
     \/ tier[a].state = "stopping" /\ Commit(a, "no", tier[a].killed, <<<<"release", a>>>>)
  /\ UNCHANGED <<row, stopped, pending, decided, recorded, refused>>
  /\ UNCHANGED <<phase, live, queue, deferred, held, waiting, catchUp, owed>>

\* _settle finds the attempt's task done.
TaskDone(a) ==
  /\ Ready
  /\ tier[a].state \in {"stopping", "ended"}
  /\ ~tier[a].exited
  /\ tier' = [tier EXCEPT ![a] = Kept([@ EXCEPT !.exited = TRUE])]
  /\ live' = [live EXCEPT ![JobOf(a)] = IF @ = a THEN None ELSE @]
  /\ UNCHANGED <<store, agenda, phase, queue, deferred, held, waiting, catchUp, owed>>

-----------------------------------------------------------------------------
(* Snapshots, drains, crashes and restarts.                                *)

BadAppliedBoundary == ~Recovering /\ deferred = {}

\* at_applied_boundary: every applied input has the record of each start it
\* decided.
AppliedBoundary == Idle /\ ~Recovering /\ deferred = {}

Snapshot ==
  /\ phase = "running"
  /\ AppliedBoundary
  /\ decided' = {} /\ recorded' = {}
  /\ UNCHANGED <<row, life, stopped, plan, pending, refused, memory, agenda>>

\* The stops a draining or a shutdown record names.
StopsNamed == stopped \cup {a \in Attempts : Unsettled(tier[a]) /\ tier[a].killed}

BeginDrain ==
  /\ Ready
  /\ phase = "running"
  /\ phase' = "draining"
  /\ stopped' = StopsNamed
  /\ \E known \in SUBSET {a \in Attempts : tier[a].state = "live"} :
       tier' = [a \in Attempts |-> Stop(tier[a], IF a \in known THEN "ladder" ELSE "no", FALSE)]
  /\ UNCHANGED <<row, life, plan, pending, decided, recorded, refused, agenda>>
  /\ UNCHANGED <<live, queue, deferred, held, waiting, catchUp, owed>>

Down ==
  /\ phase' = "down"
  /\ tier' = [a \in Attempts |-> Unknown]
  /\ live' = [j \in Jobs |-> None]
  /\ queue' = {} /\ deferred' = {} /\ waiting' = {} /\ catchUp' = {}
  /\ held' = [j \in Jobs |-> <<>>]
  /\ owed' = FALSE
  /\ agenda' = [j \in Jobs |-> <<>>]

\* The drain is over, or its deadline: the last snapshot, and the engine goes.
Leave ==
  /\ Ready
  /\ phase = "draining"
  /\ stopped' = StopsNamed
  /\ decided' = {} /\ recorded' = {}
  /\ Down
  /\ UNCHANGED <<row, life, plan, pending, refused>>

\* The engine dies, in the middle of a handler too.
Crash ==
  /\ Up
  /\ Down
  /\ UNCHANGED store

\* _adopt_open_attempts: the fold writes nothing.
Restart ==
  /\ phase = "down"
  /\ phase' = "recovering"
  /\ catchUp' = {a \in Attempts : life[a] \in {"open", "closing"}}
  /\ owed' = TRUE
  /\ tier' = [a \in Attempts |->
       CASE life[a] = "open" -> [Unknown EXCEPT !.state = "live", !.exited = TRUE]
         [] life[a] = "closing" ->
              [Unknown EXCEPT !.state = "ended", !.exited = TRUE,
                              !.planDone = plan[a] \notin {"input", "rerun"}]
         [] OTHER -> Unknown]
  /\ UNCHANGED <<store, agenda, live, queue, deferred, held, waiting>>

\* One catch-up step: an attempt with no outcome is observed once, a closing one
\* cleaned up.
CatchUp(a) ==
  /\ Ready
  /\ a \in catchUp
  /\ catchUp' = catchUp \ {a}
  /\ \E cleaning \in {"no", "ladder", "held"} :
       \/ life[a] = "open" /\ Commit(a, cleaning, a \in stopped, <<>>)
       \/ /\ life[a] = "closing"
          /\ tier' = [tier EXCEPT ![a].cleaning = cleaning]
          /\ agenda' = IF cleaning = "no"
                       THEN [agenda EXCEPT ![JobOf(a)] = <<<<"ladder_ended", a>>>>]
                       ELSE agenda
          /\ UNCHANGED <<life, plan>>
  /\ UNCHANGED <<row, stopped, pending, decided, recorded, refused>>
  /\ UNCHANGED <<phase, live, queue, deferred, held, waiting, owed>>

\* The catch-up's last step runs to its end: the plans, then the starts.
OwedStep ==
  /\ Ready
  /\ phase = "recovering" /\ owed /\ catchUp = {}
  /\ phase' = "owing"
  /\ owed' = FALSE
  /\ UNCHANGED <<store, agenda, tier, live, queue, deferred, held, waiting, catchUp>>

\* The plans the store holds unfinished and this engine has not taken up.
OwedPlans ==
  {a \in Attempts : plan[a] \in {"input", "rerun"}
                      /\ a \notin queue \cup waiting /\ <<a, "plan">> \notin deferred}

OwedPlan(a) ==
  /\ phase = "owing" /\ Idle
  /\ a \in OwedPlans
  /\ agenda' = [agenda EXCEPT ![JobOf(a)] = <<<<"perform", a>>>>]
  /\ UNCHANGED <<store, memory>>

BadCovered == pending

\* Runs a dispatch, a pending record, an open attempt or a replacement covers.
Covered ==
  recorded \cup pending
    \cup {RunOf(a) : a \in {b \in Attempts : life[b] \in {"open", "closing"} \/ plan[b] = "rerun"}}

\* Starts the tail decided and that nothing shows dispatched.
Uncovered == {a \in decided : Wanted(a)} \ Covered

OwedStart(a) ==
  /\ phase = "owing" /\ Idle /\ OwedPlans = {}
  /\ a \in Uncovered
  /\ pending' = pending \cup {a}
  /\ UNCHANGED <<row, life, stopped, plan, decided, recorded, refused, memory, agenda>>

OwedDone ==
  /\ phase = "owing" /\ Idle /\ OwedPlans = {} /\ Uncovered = {}
  /\ phase' = "recovering"
  /\ deferred' = deferred \cup (pending \X {"start"})
  /\ UNCHANGED <<store, agenda, tier, live, queue, held, waiting, catchUp, owed>>

\* _finish_recovery, once every due input has been taken: what is deferred is
\* discharged, with what that defers in turn.
LiftBarrier ==
  /\ Ready
  /\ phase = "recovering" /\ catchUp = {} /\ ~owed /\ queue = {}
  /\ phase' = "barrier"
  /\ UNCHANGED <<store, agenda, tier, live, queue, deferred, held, waiting, catchUp, owed>>

Discharge(d) ==
  /\ phase = "barrier" /\ Idle
  /\ d \in deferred
  /\ deferred' = deferred \ {d}
  /\ agenda' = [agenda EXCEPT ![JobOf(d[1])] =
       <<<<IF d[2] = "start" THEN "discharge_start" ELSE "discharge_plan", d[1]>>>>]
  /\ UNCHANGED <<store, phase, tier, live, queue, held, waiting, catchUp, owed>>

ReplayDone ==
  /\ phase = "barrier" /\ Idle
  /\ deferred = {}
  /\ phase' = "running"
  /\ UNCHANGED <<store, agenda, tier, live, queue, deferred, held, waiting, catchUp, owed>>

-----------------------------------------------------------------------------

Handler(a) ==
  \/ PlanInput(a) \/ Ended(a) \/ Cleaning(a) \/ LadderEnds(a) \/ GroupGone(a) \/ TaskDone(a)
  \/ CatchUp(a) \/ OwedPlan(a)

Next ==
  \/ \E j \in Jobs : Call(j)
  \/ \E a \in Attempts : Handler(a)
  \/ \E a \in Runs : OwedStart(a)
  \/ \E d \in deferred : Discharge(d)
  \/ Input \/ Snapshot \/ BeginDrain \/ Leave \/ Crash
  \/ Restart \/ OwedStep \/ OwedDone \/ LiftBarrier \/ ReplayDone

Spec == Init /\ [][Next]_vars

\* The event loop serves what is ready, a stopped attempt ends
\* (AttemptTier!StopsComeToAnEnd), and a held group goes in the end.  Nothing
\* makes a running command end, an operator act, or a restart come.
Fairness ==
  /\ \A j \in Jobs : WF_vars(Call(j))
  /\ \A a \in Attempts :
       /\ WF_vars(PlanInput(a)) /\ WF_vars(LadderEnds(a)) /\ WF_vars(GroupGone(a))
       /\ WF_vars(CatchUp(a)) /\ WF_vars(OwedPlan(a))
       /\ SF_vars(tier[a].state = "stopping" /\ Ended(a))
  /\ \A a \in Runs : WF_vars(OwedStart(a))
  /\ WF_vars(\E d \in deferred : Discharge(d))
  /\ WF_vars(OwedStep) /\ WF_vars(OwedDone) /\ WF_vars(LiftBarrier) /\ WF_vars(ReplayDone)

FairSpec == Spec /\ Fairness

-----------------------------------------------------------------------------
(* Properties.                                                             *)

\* One attempt of a job at a time: no start and no replacement is dispatched
\* while another attempt of the job is not closed in the store, in whatever
\* order its record, its ladder, its plan, a drain and a restart come (blocked,
\* _must_wait, _release).
OneOpenPerJob ==
  \A a, b \in Attempts :
    JobOf(a) = JobOf(b) /\ life[a] \in {"open", "closing"} /\ life[b] \in {"open", "closing"}
      => a = b

\* A run the oracle wants is never forgotten: an attempt, a plan, or a pending
\* record carries it, or, until the engine that decided it is idle or a restart
\* has passed its barrier, the decision itself (commit_outcome, _owe, _pending,
\* _discharge_pending, at_applied_boundary).
RunNeverLost ==
  \A j \in Jobs : row[j].live =>
    LET run == {a \in Attempts : JobOf(a) = j /\ a[2] = row[j].run} IN
    \/ \E a \in run : life[a] = "open" \/ plan[a] \in {"input", "rerun"} \/ a \in pending
    \/ /\ \E a \in run : a \in decided \ recorded
       /\ ~Ready \/ phase = "recovering"

\* A run has one first attempt and one replacement per plan: nothing that was
\* dispatched is dispatched again, whatever the restart finds.  A draining engine
\* dispatches nothing, by no path: not a decided start, not a replacement, not a start
\* its last settled attempt lets go.
DispatchedOnce ==
  [][\A a \in Attempts :
       /\ live'[JobOf(a)] = a /\ live[JobOf(a)] # a => life[a] = "never"
       /\ phase = "draining" /\ life[a] = "never" => life'[a] = "never"]_vars

\* A run the oracle wants gets a live attempt, from wherever the engine is: its
\* start held behind an earlier run, a replacement behind a ladder, either behind
\* the restart's barrier.  None of the waits is for each other (_release, blocked,
\* _finish_recovery).
WantedRunGoes ==
  \A r \in Runs :
    (Wanted(r) /\ phase \notin {"down", "draining"})
      ~> (\/ \E a \in Attempts : RunOf(a) = r /\ tier[a].state = "live"
          \/ ~Wanted(r)
          \/ phase \in {"down", "draining"})

\* A start closed with no launch launches nothing later: a STARTING overwrite
\* does not request a launch (the ghost-run gate).
RefusedStaysRefused ==
  [][\A a \in refused : life[a] = "never" => life'[a] = "never"]_vars

=============================================================================
