-------------------------------- MODULE Update --------------------------------
(***************************************************************************)
(* An update without a restart (src/dsl41/runner_update.py, the UPDATE     *)
(* chart of reload_update.py and runner.py's _update_step): one request    *)
(* replaces the definitions of a running engine.  Its admission journals   *)
(* the intent and stops the attempts of the jobs the plan changes or       *)
(* removes; while they stop, nothing of the plan's jobs is dispatched and  *)
(* what the stopped attempts end with is kept back; when the last stop is  *)
(* finished one step swaps the configuration and carries everything on     *)
(* under it.  A restart takes an unfinished update up again.               *)
(*                                                                         *)
(* The update's step makes several records and the engine may die between  *)
(* any two: a handler leaves the calls it has still to make on the agenda, *)
(* and nothing but a crash comes before the agenda is empty.  An attempt's *)
(* life within the tier is AttemptTier's, the records of one start         *)
(* EngineLoop's: each is one step here.  What the engine keeps back is     *)
(* what the store says is pending, so the starts and replacements that     *)
(* wait have no variable of their own.                                     *)
(***************************************************************************)
EXTENDS Naturals, Sequences, FiniteSets, SequencesExt

CONSTANTS
  Jobs,
  Estates,    \* what the update changes: the cases an engine may meet
  MaxRuns,    \* bound: how often a job may start
  MaxInputs,  \* bound: how often a command, a tick or a timer comes
  MaxCrashes  \* bound: how often the engine dies

Attempts == Jobs \X (1..MaxRuns) \X (1..2)    \* the second of a run replaces the first
None == <<>>

ASSUME UpdateAssumption ==
  /\ IsFiniteSet(Jobs)
  /\ MaxRuns \in Nat /\ MaxInputs \in Nat /\ MaxCrashes \in Nat
  /\ \A e \in Estates :
       /\ e.touched \subseteq Jobs       \* the jobs the plan changes or removes
       /\ e.removed \subseteq e.touched
       /\ e.boxed \subseteq Jobs         \* the members of a box the plan restarts
       /\ e.watches \subseteq Jobs       \* file watches, which the attempt tier does not run
       /\ e.oldMarks \subseteq Jobs      \* the non-idempotent jobs, before and after
       /\ e.newMarks \subseteq Jobs
       /\ e.runs \in [Jobs -> 0..MaxRuns]  \* bound: how often each job starts

VARIABLES
  estate,
  \* in the store
  update,     \* "none", "admitted" (its intent) or "applied"
  stops,      \* the intent's jobs, with the attempt each stop interrupts
  row,        \* the oracle's row of each job: its run number, whether it is live
  life,       \* each attempt in the open table
  plan,       \* what follows each attempt: its step, then done
  pending,    \* the jobs with a dispatch_pending record of their row's run
  \* in memory
  phase,      \* "down", "catching up", "recovering", "running" or "draining"
  tier,       \* each attempt: "live", "stopping", "busy" (ended, its stop not finished),
              \* "ended", "cancelled" (a watch) or "unknown"
  open,       \* the chart's open set: the jobs not down yet
  kept,       \* each attempt's outcome, if it is kept back
  meanwhile,  \* the jobs that were down during the catch-up
  queue,      \* the loop's queue: inputs of plans, ends of the stop set, the first look
  catchUp,    \* the open attempts the catch-up has not taken
  agenda,     \* the calls the current handler has still to make
  waiting,    \* a client has the admission and not yet the application
  inputs, crashes

store == <<update, stops, row, life, plan, pending>>
memory == <<phase, tier, open, kept, meanwhile, queue, catchUp, waiting>>
vars == <<estate, store, memory, agenda, inputs, crashes>>
counts == <<estate, inputs, crashes>>

JobOf(a) == a[1]
Replacement(a) == <<a[1], a[2], 2>>
Interrupted(j) == j \in DOMAIN stops /\ stops[j] # None

Stopping == update = "admitted"
Removed == IF update = "applied" THEN estate.removed ELSE {}
Marked == IF update = "applied" THEN estate.newMarks ELSE estate.oldMarks
Moved == (estate.oldMarks \cup estate.newMarks) \ (estate.oldMarks \cap estate.newMarks)
Up == phase # "down"
Ready == Up /\ agenda = <<>>

\* spawn_superseded answers None: the oracle still wants this run.
Wanted(a) == row[JobOf(a)].live /\ row[JobOf(a)].run = a[2] /\ JobOf(a) \notin Removed

Settled(a) == plan[a] \in {"nothing", "done"} \/ (plan[a] = "rerun" /\ phase = "draining")
Unsettled(a) == tier[a] \in {"live", "stopping", "busy"} \/ (tier[a] = "ended" /\ ~Settled(a))

\* blocked: an unsettled attempt keeps the job's next dispatch back, a replacement
\* only if it is another's.  A watch is cancelled and nothing waits for it.
Blocked(j, replacing) ==
  \E a \in Attempts : /\ JobOf(a) = j /\ j \notin estate.watches
                      /\ Unsettled(a) /\ (a # replacing \/ tier[a] = "busy")

\* holds: the dispatch filter, all the while the update stops.
Holds(j) == Stopping /\ j \in estate.touched

MustWait(j, replacing) == phase # "running" \/ Holds(j) \/ Blocked(j, replacing)

\* The calls of the current step.
Calls(name) == agenda # <<>> /\ Head(agenda)[1] = name
Arg == Head(agenda)[2]
Then(calls) == agenda' = calls \o (IF agenda = <<>> THEN <<>> ELSE Tail(agenda))
InOrder(S, call(_)) == LET s == SetToSeq(S) IN [i \in DOMAIN s |-> call(s[i])]

-----------------------------------------------------------------------------
(* The end of an attempt.                                                  *)

\* follow_up_plan, under the configuration and the rows as they are now.
PlanFor(a, kind, marked, wanted) ==
  IF kind = "natural" THEN "feed"
  ELSE IF ~wanted THEN "nothing"
  ELSE IF JobOf(a) \in marked \/ a[3] = 2 THEN "hold"
  ELSE "rerun"

\* (mutant) An outcome is kept only while its job is in the open set.
BadKeeps(a, kind) == Stopping /\ JobOf(a) \in open /\ stops[JobOf(a)] = a

\* keeps: the outcome of an attempt the update stops, and an interruption whose
\* plan follows a mark the update moves.
Keeps(a, kind) ==
  /\ Stopping
  /\ \/ JobOf(a) \in open /\ stops[JobOf(a)] = a
     \/ JobOf(a) \in Moved /\ kind = "stopped"

\* stop_done, of an attempt that has ended.
StopDone(t) == t = "ended"

\* (mutant) During the catch-up an end is queued like any other.
BadNotesEnd(j) ==
  /\ queue' = Append(queue, [is |-> "exit", of |-> j, found |-> FALSE])
  /\ UNCHANGED meanwhile

\* ended: the end of a stop-set job is a step of the loop; during the catch-up it
\* is left to the first look.
NotesEnd(j) ==
  IF phase = "catching up"
  THEN meanwhile' = meanwhile \cup {j} /\ UNCHANGED queue
  ELSE /\ queue' = Append(queue, [is |-> "exit", of |-> j, found |-> FALSE])
       /\ UNCHANGED meanwhile

\* Down once its attempt's stop is finished, at the record or at the ladder's end.
MayBeDown(a, now) ==
  IF Stopping /\ JobOf(a) \in open /\ stops[JobOf(a)] = a /\ StopDone(now)
  THEN NotesEnd(JobOf(a))
  ELSE UNCHANGED <<queue, meanwhile>>

\* commit_outcome: the outcome and its plan are one transaction.
Commit(a, p, now) ==
  /\ plan' = [plan EXCEPT ![a] = p]
  /\ life' = [life EXCEPT ![a] = IF now = "busy" THEN "closing" ELSE "closed"]

\* record_outcome
Outcome(a, kind, now) ==
  /\ tier' = [tier EXCEPT ![a] = now]
  /\ IF Keeps(a, kind)
     THEN /\ kept' = [kept EXCEPT ![a] = kind]
          /\ MayBeDown(a, now)
          /\ UNCHANGED <<plan, life, agenda>>
     ELSE /\ Commit(a, PlanFor(a, kind, Marked, Wanted(a)), now)
          /\ Then(<<<<"perform", a>>>>)
          /\ UNCHANGED <<kept, queue, meanwhile>>

\* An attempt ends, of itself or at its stop; its ladder may still run.
Ends(a) ==
  /\ Ready /\ a \notin catchUp
  /\ tier[a] \in {"live", "stopping"}
  /\ \E kind \in {"natural", "stopped"} :
       IF JobOf(a) \in estate.watches
       THEN kind = "natural" /\ Outcome(a, kind, "ended")
       ELSE \E now \in {"busy", "ended"} : Outcome(a, kind, now)
  /\ UNCHANGED <<update, stops, row, pending, phase, open, catchUp, waiting, counts>>

\* _ladder_ended, group_gone: the attempt's stop is finished.
StopEnds(a) ==
  /\ tier' = [tier EXCEPT ![a] = "ended"]
  /\ life' = [life EXCEPT ![a] = IF @ = "closing" THEN "closed" ELSE @]
  /\ Then(<<<<"perform", a>>, <<"release", JobOf(a)>>>>)
  /\ MayBeDown(a, "ended")
  /\ UNCHANGED <<update, stops, row, plan, pending, phase, open, kept, waiting, counts>>

LadderEnds(a) ==
  /\ Ready /\ a \notin catchUp
  /\ tier[a] = "busy"
  /\ StopEnds(a)
  /\ UNCHANGED catchUp

-----------------------------------------------------------------------------
(* Dispatches.                                                             *)

Launch(a) ==
  /\ life' = [life EXCEPT ![a] = "open"]
  /\ tier' = [tier EXCEPT ![a] = "live"]

\* An input of the loop's queue is taken in its order; while a restart recovers, one
\* raised late is stamped with its own instant and may come before any that waits.
Feed(a) ==
  \E n \in 0..Len(queue) :
    /\ n = Len(queue) \/ phase = "recovering"
    /\ queue' = InsertAt(queue, n + 1,
                          [is |-> "feed", of |-> a, found |-> phase = "catching up"])

\* perform_plan: an input is queued; a replacement goes, is kept back, or is left to
\* the restart; a plan with nothing left lets go what its attempt kept back.
Perform ==
  /\ Calls("perform")
  /\ LET a == Arg IN
     \/ /\ plan[a] \in {"feed", "hold"}
        /\ Feed(a)
        /\ Then(<<>>)
        /\ UNCHANGED <<plan, life, tier>>
     \/ /\ plan[a] = "rerun" /\ ~Wanted(a) /\ phase = "running" /\ tier[a] # "busy"
        /\ plan' = [plan EXCEPT ![a] = "done"]
        /\ Then(<<<<"release", JobOf(a)>>>>)
        /\ UNCHANGED <<life, tier, queue>>
     \/ /\ plan[a] = "rerun" /\ Wanted(a) /\ ~MustWait(JobOf(a), a)
        /\ plan' = [plan EXCEPT ![a] = "done"]
        /\ Launch(Replacement(a))
        /\ Then(<<<<"release", JobOf(a)>>>>)
        /\ UNCHANGED queue
     \/ /\ plan[a] = "rerun"
        /\ IF Wanted(a) THEN MustWait(JobOf(a), a) ELSE phase # "running" \/ tier[a] = "busy"
        /\ Then(<<>>)
        /\ UNCHANGED <<plan, life, tier, queue>>
     \/ /\ plan[a] \in {"none", "nothing", "done"}
        /\ Then(<<<<"release", JobOf(a)>>>>)
        /\ UNCHANGED <<plan, life, tier, queue>>
  /\ UNCHANGED <<update, stops, row, pending, phase, open, kept, meanwhile, catchUp, waiting, counts>>

\* The replacements a release performs: those their own ladder does not hold.
Waiting(j) == {a \in Attempts : JobOf(a) = j /\ plan[a] = "rerun" /\ ~Blocked(j, a)}
FirstRun(j) == <<j, row[j].run, 1>>

\* _release: the replacements, then the start.
Release ==
  /\ Calls("release")
  /\ LET j == Arg IN
     \/ /\ phase = "running" /\ ~Holds(j)
        /\ \E a \in Waiting(j) : Then(<<<<"perform", a>>>>)
        /\ UNCHANGED <<pending, life, tier>>
     \/ /\ ~MustWait(j, None) /\ Waiting(j) = {} /\ j \in pending
        /\ pending' = pending \ {j}
        /\ IF Wanted(FirstRun(j)) THEN Launch(FirstRun(j)) ELSE UNCHANGED <<life, tier>>
        /\ Then(<<>>)
     \/ /\ \/ phase # "running" \/ Holds(j)
           \/ Waiting(j) = {} /\ (Blocked(j, None) \/ j \notin pending)
        /\ Then(<<>>)
        /\ UNCHANGED <<pending, life, tier>>
  /\ UNCHANGED <<update, stops, row, plan, phase, open, kept, meanwhile, queue, catchUp, waiting, counts>>

\* The oracle ends the runs of some jobs: each live attempt is killed, a watch's
\* closed with no plan.
EndRuns(S) ==
  LET killed == {a \in Attempts : JobOf(a) \in S /\ tier[a] = "live" /\ a \notin catchUp}
      watches == {a \in killed : JobOf(a) \in estate.watches}
  IN /\ row' = [j \in Jobs |-> IF j \in S THEN [row[j] EXCEPT !.live = FALSE] ELSE row[j]]
     /\ tier' = [a \in Attempts |-> IF a \in watches THEN "unknown"
                                    ELSE IF a \in killed THEN "stopping" ELSE tier[a]]
     /\ life' = [a \in Attempts |-> IF a \in watches THEN "closed" ELSE life[a]]
     /\ plan' = [a \in Attempts |-> IF a \in watches THEN "nothing" ELSE plan[a]]

Startable == {j \in Jobs \ Removed : ~row[j].live /\ row[j].run < estate.runs[j]}

\* The oracle starts some jobs: each is launched, or durably kept back.
StartRuns(S) ==
  LET go == {j \in S : ~MustWait(j, None)}
      now == {<<j, row[j].run + 1, 1>> : j \in go}
  IN /\ row' = [j \in Jobs |-> IF j \in S THEN [run |-> row[j].run + 1, live |-> TRUE] ELSE row[j]]
     /\ life' = [a \in Attempts |-> IF a \in now THEN "open" ELSE life[a]]
     /\ tier' = [a \in Attempts |-> IF a \in now THEN "live" ELSE tier[a]]
     /\ pending' = (pending \ go) \cup (S \ go)

\* A command, a tick or a timer ends a run or starts one.
Input(j) ==
  /\ Ready /\ phase \in {"recovering", "running"} /\ inputs < MaxInputs
  /\ inputs' = inputs + 1
  /\ \/ row[j].live /\ EndRuns({j}) /\ UNCHANGED pending
     \/ j \in Startable /\ StartRuns({j}) /\ UNCHANGED plan
  /\ UNCHANGED <<update, stops, phase, open, kept, meanwhile, queue, catchUp, waiting, agenda,
                 estate, crashes>>

\* The input of a plan ends its run, unless the oracle has moved on.
TakeFeed ==
  /\ Ready /\ queue # <<>> /\ Head(queue).is = "feed"
  /\ LET a == Head(queue).of IN
       /\ row' = IF Wanted(a) THEN [row EXCEPT ![JobOf(a)].live = FALSE] ELSE row
       /\ plan' = [plan EXCEPT ![a] = "done"]
       /\ Then(<<<<"perform", a>>>>)
  /\ queue' = Tail(queue)
  /\ UNCHANGED <<update, stops, life, pending, phase, tier, open, kept, meanwhile, catchUp, waiting, counts>>

-----------------------------------------------------------------------------
(* The update.                                                             *)

\* The attempt of a job's run that the tier or the shell holds.
AttemptOf(j) ==
  LET known == {a \in Attempts : JobOf(a) = j /\ a[2] = row[j].run /\ life[a] # "never"}
  IN IF known = {} THEN None ELSE CHOOSE a \in known : \A b \in known : b[3] <= a[3]

StopSet == {j \in estate.touched \cup estate.boxed : row[j].live}

\* admit, for a new request: the intent is durable before any stop.
Admit ==
  /\ Ready /\ phase = "running" /\ update = "none"
  /\ update' = "admitted"
  /\ stops' = [j \in StopSet |-> AttemptOf(j)]
  /\ open' = StopSet
  /\ waiting' = TRUE
  /\ agenda' = InOrder(StopSet, LAMBDA j : <<"stop", j>>) \o <<<<"settle">>>>
  /\ UNCHANGED <<row, life, plan, pending, phase, tier, kept, meanwhile, queue, catchUp, counts>>

\* An exact retry waits for the application it would get at once after it.
Retry ==
  /\ Ready /\ phase \in {"running", "draining"} /\ Stopping
  /\ waiting' = TRUE
  /\ UNCHANGED <<store, phase, tier, open, kept, meanwhile, queue, catchUp, agenda, counts>>

\* stop_attempt: a job with nothing left to stop is down at once.
Stop ==
  /\ Calls("stop")
  /\ LET j == Arg
         a == stops[j]
     IN IF a # None /\ j \notin estate.watches /\ tier[a] \in {"live", "stopping", "busy"}
        THEN /\ tier' = [tier EXCEPT ![a] = IF @ = "live" THEN "stopping" ELSE @]
             /\ UNCHANGED open
        ELSE /\ tier' = IF a # None /\ tier[a] = "live"
                        THEN [tier EXCEPT ![a] = "cancelled"] ELSE tier
             /\ open' = open \ {j}
  /\ Then(<<>>)
  /\ UNCHANGED <<store, phase, kept, meanwhile, queue, catchUp, waiting, counts>>

\* _update_step, of an end of the stop set or the first look.
TakeExit ==
  /\ Ready /\ queue # <<>> /\ Head(queue).is # "feed"
  /\ IF Head(queue).is = "look"
     THEN open' = open \ meanwhile /\ meanwhile' = {}
     ELSE open' = open \ {Head(queue).of} /\ UNCHANGED meanwhile
  /\ queue' = Tail(queue)
  /\ agenda' = <<<<"settle">>>>
  /\ UNCHANGED <<store, phase, tier, kept, catchUp, waiting, counts>>

\* Every stop is finished: the runs of restarted boxes end, then the update applies.
Settle ==
  /\ Calls("settle")
  /\ Then(IF Stopping /\ open = {} THEN <<<<"box ends">>, <<"apply">>>> ELSE <<>>)
  /\ UNCHANGED <<store, memory, counts>>

BoxEnds ==
  /\ Calls("box ends")
  /\ EndRuns({j \in estate.boxed : row[j].live})
  /\ Then(<<>>)
  /\ UNCHANGED <<update, stops, pending, phase, open, kept, meanwhile, queue, catchUp, waiting, counts>>

KeptBack == {a \in Attempts : kept[a] # "no"}
Cancelled == {a \in Attempts : tier[a] = "cancelled"}

\* The jobs whose starts the filter kept back.
Filtered == estate.touched

\* The application: the new configuration and what follows each kept outcome, chosen
\* under it, are one record; the rest of the step carries it out.
Apply ==
  /\ Calls("apply")
  /\ update' = "applied"
  /\ row' = [j \in Jobs |-> IF j \in estate.removed THEN [row[j] EXCEPT !.live = FALSE] ELSE row[j]]
  /\ LET stays(a) == Wanted(a) /\ JobOf(a) \notin estate.removed
         commit(a) == <<"commit", a, PlanFor(a, kept[a], estate.newMarks, stays(a))>>
         resume(a) == <<"resume", a, stays(a)>>
     IN Then(<<<<"advance">>, <<"box starts">>>>
             \o InOrder(KeptBack, commit) \o InOrder(Cancelled, resume)
             \o InOrder(Filtered, LAMBDA j : <<"release", j>>) \o <<<<"answer">>>>)
  /\ UNCHANGED <<stops, life, plan, pending, memory, counts>>

\* One time advance: its timers may end runs.
Advance ==
  /\ Calls("advance")
  /\ \E S \in SUBSET {j \in Jobs : row[j].live} : EndRuns(S)
  /\ Then(<<>>)
  /\ UNCHANGED <<update, stops, pending, phase, open, kept, meanwhile, queue, catchUp, waiting, counts>>

\* The restarted boxes start again, a marked member held.
BoxStarts ==
  /\ Calls("box starts")
  /\ \E S \in SUBSET ((Startable \cap estate.boxed) \ estate.newMarks) : StartRuns(S)
  /\ Then(<<>>)
  /\ UNCHANGED <<update, stops, plan, phase, open, kept, meanwhile, queue, catchUp, waiting, counts>>

\* What was kept back is committed as the application chose.
CommitKept ==
  /\ Calls("commit")
  /\ Commit(Arg, Head(agenda)[3], tier[Arg])
  /\ kept' = [kept EXCEPT ![Arg] = "no"]
  /\ Then(<<<<"perform", Arg>>>>)
  /\ UNCHANGED <<update, stops, row, pending, phase, tier, open, meanwhile, queue, catchUp, waiting, counts>>

\* resume_cancelled: a watch is taken up again, or closed.
ResumeCancelled ==
  /\ Calls("resume")
  /\ LET a == Arg IN
     IF Head(agenda)[3]
     THEN tier' = [tier EXCEPT ![a] = "live"] /\ UNCHANGED <<life, plan>>
     ELSE tier' = [tier EXCEPT ![a] = "unknown"] /\ Commit(a, "nothing", "ended")
  /\ Then(<<>>)
  /\ UNCHANGED <<update, stops, row, pending, phase, open, kept, meanwhile, queue, catchUp, waiting, counts>>

Answer ==
  /\ Calls("answer")
  /\ waiting' = FALSE
  /\ Then(<<>>)
  /\ UNCHANGED <<store, phase, tier, open, kept, meanwhile, queue, catchUp, counts>>

-----------------------------------------------------------------------------
(* Drains, crashes and restarts.                                           *)

\* bound: the engine drains and dies only while an update stops or applies; before and
\* after that it is EngineLoop's
UnderWay == Stopping \/ (update = "applied" /\ agenda # <<>>)

\* The drain stops every attempt and cancels every watch.
BeginDrain ==
  /\ Ready /\ phase = "running" /\ UnderWay
  /\ phase' = "draining"
  /\ tier' = [a \in Attempts |-> IF tier[a] # "live" THEN tier[a]
                                 ELSE IF JobOf(a) \in estate.watches THEN "unknown" ELSE "stopping"]
  /\ UNCHANGED <<store, open, kept, meanwhile, queue, catchUp, waiting, agenda, counts>>

Down ==
  /\ phase' = "down"
  /\ tier' = [a \in Attempts |-> "unknown"]
  /\ open' = {} /\ kept' = [a \in Attempts |-> "no"] /\ meanwhile' = {}
  /\ queue' = <<>> /\ catchUp' = {} /\ agenda' = <<>> /\ waiting' = FALSE

\* The drain is over once every attempt is settled, one kept back by an update too.
Leave ==
  /\ Ready /\ phase = "draining"
  /\ \A a \in Attempts : ~Unsettled(a)
  /\ Down
  /\ UNCHANGED <<store, counts>>

Crash ==
  /\ Up /\ UnderWay /\ crashes < MaxCrashes
  /\ crashes' = crashes + 1
  /\ Down
  /\ UNCHANGED <<store, estate, inputs>>

\* The fold: every open attempt, and the update with the jobs its stops leave open.
Restart ==
  /\ phase = "down"
  /\ phase' = "catching up"
  /\ catchUp' = {a \in Attempts : life[a] \in {"open", "closing"}}
  /\ tier' = [a \in Attempts |-> CASE life[a] = "open" -> "live"
                                   [] life[a] = "closing" -> "busy"
                                   [] OTHER -> "unknown"]
  /\ open' = IF Stopping
             THEN {j \in DOMAIN stops \ estate.watches : Interrupted(j) /\ stops[j] \in catchUp'}
             ELSE {}
  /\ UNCHANGED <<store, kept, meanwhile, queue, agenda, waiting, counts>>

\* An attempt with no outcome is observed once, a closing one cleaned up; a watch is
\* taken up from its log, fed, or closed.
CatchUp(a) ==
  /\ Ready /\ a \in catchUp
  /\ catchUp' = catchUp \ {a}
  /\ IF JobOf(a) \in estate.watches
     THEN \/ Outcome(a, "natural", "ended")
          \/ ~Wanted(a) /\ Outcome(a, "stopped", "ended")
          \/ Wanted(a) /\ UNCHANGED <<plan, life, tier, kept, queue, meanwhile, agenda>>
     ELSE \/ /\ life[a] = "open"
             /\ \E kind \in {"natural", "stopped"}, now \in {"busy", "ended"} : Outcome(a, kind, now)
          \/ /\ life[a] = "closing"
             /\ \/ StopEnds(a)
                \/ UNCHANGED <<plan, life, tier, kept, queue, meanwhile, agenda>>
  /\ UNCHANGED <<update, stops, row, pending, phase, open, waiting, counts>>

\* (mutant) The look is left to the end of the last stop.
BadLook == <<>>

\* The restart's first look at a resumed update's stop set.
Look == IF Stopping THEN <<[is |-> "look", of |-> None, found |-> FALSE]>> ELSE <<>>

Queued(a) == \E i \in DOMAIN queue : queue[i].of = a

\* _owed: the store's unfinished inputs are queued again, then the first look.
OwedStep ==
  /\ Ready /\ phase = "catching up" /\ catchUp = {}
  /\ phase' = "recovering"
  /\ queue' = queue
       \o InOrder({a \in Attempts : plan[a] \in {"feed", "hold"} /\ ~Queued(a)},
                  LAMBDA a : [is |-> "feed", of |-> a, found |-> TRUE])
       \o Look
  /\ UNCHANGED <<store, tier, open, kept, meanwhile, catchUp, agenda, waiting, counts>>

\* The barrier is lifted once no input is due: what is owed goes, or is kept back.
LiftBarrier ==
  /\ Ready /\ phase = "recovering"
  /\ \A i \in DOMAIN queue : queue[i].is # "feed"
  /\ phase' = "running"
  /\ agenda' = InOrder(Jobs, LAMBDA j : <<"release", j>>)
  /\ UNCHANGED <<store, tier, open, kept, meanwhile, queue, catchUp, waiting, counts>>

-----------------------------------------------------------------------------
Init ==
  /\ estate \in Estates
  /\ update = "none" /\ stops = None
  /\ \E S \in SUBSET {j \in Jobs : estate.runs[j] > 0} :
       LET now == {<<j, 1, 1>> : j \in S}
       IN /\ row = [j \in Jobs |-> [run |-> IF j \in S THEN 1 ELSE 0, live |-> j \in S]]
          /\ life = [a \in Attempts |-> IF a \in now THEN "open" ELSE "never"]
          /\ tier = [a \in Attempts |-> IF a \in now THEN "live" ELSE "unknown"]
  /\ plan = [a \in Attempts |-> "none"]
  /\ pending = {}
  /\ phase = "running"
  /\ open = {} /\ kept = [a \in Attempts |-> "no"] /\ meanwhile = {}
  /\ queue = <<>> /\ catchUp = {} /\ agenda = <<>>
  /\ waiting = FALSE /\ inputs = 0 /\ crashes = 0

Call ==
  \/ Perform \/ Release \/ Stop \/ Settle \/ BoxEnds \/ Apply \/ Advance \/ BoxStarts
  \/ CommitKept \/ ResumeCancelled \/ Answer

Next ==
  \/ Call
  \/ \E a \in Attempts : Ends(a) \/ LadderEnds(a) \/ CatchUp(a)
  \/ \E j \in Jobs : Input(j)
  \/ TakeFeed \/ TakeExit \/ Admit \/ Retry
  \/ BeginDrain \/ Leave \/ Crash \/ Restart \/ OwedStep \/ LiftBarrier

Spec == Init /\ [][Next]_vars

\* The loop goes on while it has something to do, and the stopped attempts end and
\* their stops are finished (AttemptTier!StopsComeToAnEnd).  Nothing makes a running
\* attempt end, an operator act, or a restart come.
LoopStep ==
  Call \/ TakeFeed \/ TakeExit \/ OwedStep \/ LiftBarrier \/ \E a \in Attempts : CatchUp(a)
StopStep == \E a \in Attempts : (tier[a] = "stopping" /\ Ends(a)) \/ LadderEnds(a)

Fairness == WF_vars(LoopStep) /\ WF_vars(StopStep)

FairSpec == Spec /\ Fairness

-----------------------------------------------------------------------------
(* Properties.                                                             *)

\* The update applies only when every stop it asked for is finished, the outcome of
\* every attempt it interrupted is known, and every input a restart recovered has been
\* fed: stop_done, and the first look after the catch-up (spec-restart 6).
StopsFinishedFirst ==
  [][Stopping /\ update' = "applied" =>
       /\ \A j \in DOMAIN stops \ estate.watches : Interrupted(j) =>
            /\ tier[stops[j]] \notin {"live", "stopping", "busy"}
            /\ kept[stops[j]] # "no" \/ plan[stops[j]] # "none"
       /\ \A i \in DOMAIN queue : ~queue[i].found]_vars

\* What the plan changes does not go on under the old definitions, in whatever order
\* the stopped attempts end and whoever restarts between.  While the update stops, no
\* plan is made for an attempt it interrupted, nor for the interruption of a job whose
\* mark it moves, and a plan made is never remade; no attempt of its jobs starts, nor
\* of a removed job afterwards, and no job but a watch has two attempts alive (keeps,
\* _choose_follow_ups, holds, _release).
NothingGoesOnUnderTheOld ==
  [][/\ Stopping /\ Stopping' =>
         \A j \in DOMAIN stops \ estate.watches :
           Interrupted(j) /\ plan[stops[j]] = "none" => plan'[stops[j]] = "none"
     /\ \A a \in Attempts :
          /\ plan'[a] \in {"rerun", "hold"} /\ plan[a] # plan'[a] =>
               plan[a] = "none" /\ ~(Stopping /\ JobOf(a) \in Moved)
          /\ plan[a] \in {"done", "nothing"} => plan'[a] = plan[a]
          /\ life[a] = "never" /\ life'[a] = "open" =>
               /\ ~(Stopping /\ JobOf(a) \in estate.touched)
               /\ JobOf(a) \notin Removed
               /\ \A b \in Attempts : JobOf(b) = JobOf(a) /\ JobOf(b) \notin estate.watches =>
                    tier[b] \notin {"live", "stopping", "busy"}]_vars

\* Between two steps of a running engine, a start or a replacement that waits has the
\* update or an unsettled attempt of its job before it (Filtered, _release, blocked).
KeptBackGoes ==
  Ready /\ phase = "running" =>
    \A j \in Jobs \ (IF Stopping THEN estate.touched ELSE {}) :
      /\ j \in pending => Blocked(j, None)
      /\ \A a \in Attempts : JobOf(a) = j /\ plan[a] = "rerun" => Blocked(j, a)

\* An admitted update is applied, however its stops end, unless the engine leaves or
\* dies; whoever waits for its application is answered; and what it kept back has gone
\* as soon as nothing keeps it (look, cleaned, finish).
UpdateGoesThrough ==
  /\ (Stopping /\ Up) ~> (update = "applied" \/ ~Up)
  /\ waiting ~> ~waiting
  /\ []KeptBackGoes
=============================================================================
