---------------------------- MODULE AttemptTier ----------------------------
(***************************************************************************)
(* One engine and the attempts it runs: the attempt tier and the engine    *)
(* lifecycle (src/dsl41/runner_attempts.py, engine_charts.py), the adapter *)
(* that reports what each wrapper leaves in its spool (runner_adapters.py),*)
(* the ladders, timers and held groups (runner_stops.py), the part of the  *)
(* store's open table that outlives the engine (runner_journal.py) and the *)
(* restart's fold over it (runner_startup.py).                             *)
(*                                                                         *)
(* A handler runs to its end before the event loop takes another, so one   *)
(* handler is one action.  A handler that posts several events to the chart*)
(* of one attempt is a composition of operators on that attempt's record.  *)
(***************************************************************************)
EXTENDS Wrapper, Naturals

CONSTANTS
  LeakPolicy,  \* the process-leak switch: "terminate" or "leak"
  MaxCrashes   \* bound: how often the engine dies without leaving

ASSUME TierAssumption ==
  /\ LeakPolicy \in {"terminate", "leak"}
  /\ MaxCrashes \in Nat

VARIABLES
  phase,    \* the engine lifecycle's state; DOWN while no engine runs
  leaving,  \* the shutdown record the lifecycle chose at STOPPED
  tier,     \* the tier's and the engine's in-memory facts of each attempt
  adapter,  \* where the attempt's adapter task is in observe()
  aborted,  \* Launch.aborted: a stop asked the adapter for its wrapper's end
  owed,     \* the restart's catch-up step an open attempt waits for
  store,    \* what the journal's records say of the attempt
  crashes   \* how often the engine died

engineVars == <<phase, leaving, tier, adapter, aborted, owed, store, crashes>>
vars == <<wrapperVars, engineVars>>

Live == {"SPAWNING", "RUNNING", "STOPPING"}
Outcomes == {"natural", "stopped", "lifeline", "spawn_failed", "unobservable"}
Causes ==
  {"none", "engine_stop", "oracle_kill", "wrapper_lost"}

TierRecord == [
  state     : Live \cup {"NONE", "ENDED", "FORGOTTEN"},
  cause     : Causes,              \* the first stop taken
  outcome   : Outcomes \cup {"none"},
  gen       : 0..2,                \* the record timer's generation
  timer     : 0..2,                \* the generation of the armed timer, 0 for none
  spawn     : BOOLEAN,             \* the tier has seen spawn.json
  ladder    : {"none", "laddering", "verdict", "finishing", "raised", "done"},
  survived  : BOOLEAN,             \* something of it outlived the KILL
  failed    : BOOLEAN,             \* its ladder raised
  leakHold  : BOOLEAN,             \* held only until a reading succeeds
  selected  : BOOLEAN,             \* its stop uses the signals its kill named
  awaiting  : BOOLEAN,             \* a selected stop waits for spawn.json
  planDone  : BOOLEAN,             \* its follow-up plan is carried out
  exited    : BOOLEAN]             \* its adapter task is over

StoreRecord == [
  open    : {"never", "open", "closing", "closed"},
  outcome : Outcomes \cup {"none"},
  stop    : Causes,                \* the stop a draining or shutdown record names
  plan    : {"none", "input", "rerun", "done", "replaced"}]  \* its follow-up

Blank == [
  state |-> "NONE", cause |-> "none", outcome |-> "none", gen |-> 0, timer |-> 0,
  spawn |-> FALSE, ladder |-> "none", survived |-> FALSE, failed |-> FALSE,
  leakHold |-> FALSE, selected |-> FALSE, awaiting |-> FALSE, planDone |-> FALSE,
  exited |-> FALSE]

NeverDispatched ==
  [open |-> "never", outcome |-> "none", stop |-> "none", plan |-> "none"]

TierTypeOK ==
  /\ WrapperTypeOK
  /\ phase \in {"STARTING", "RUNNING", "DRAINING", "STOPPED", "DOWN"}
  /\ leaving \in {"none", "clean_shutdown", "unclean_shutdown", "shutdown_during_startup"}
  /\ tier \in [Attempts -> TierRecord]
  /\ adapter \in [Attempts ->
       {"none", "spawning", "unlaunched", "sending", "polling", "waiting", "done"}]
  /\ aborted \in [Attempts -> BOOLEAN]
  /\ owed \in [Attempts -> {"none", "observe", "cleanup"}]
  /\ store \in [Attempts -> StoreRecord]
  /\ crashes \in 0..MaxCrashes

Init ==
  /\ WrapperInit
  /\ phase = "STARTING"
  /\ leaving = "none"
  /\ tier = [a \in Attempts |-> Blank]
  /\ adapter = [a \in Attempts |-> "none"]
  /\ aborted = [a \in Attempts |-> FALSE]
  /\ owed = [a \in Attempts |-> "none"]
  /\ store = [a \in Attempts |-> NeverDispatched]
  /\ crashes = 0

EngineUp == phase # "DOWN"

-----------------------------------------------------------------------------
(* Readings.                                                               *)

LadderPending(r) == r.ladder \in {"laddering", "verdict", "finishing", "raised"}

Held(r) == r.survived \/ r.failed

Unsettled(r) ==
  \/ r.state \in Live
  \/ r.state = "ENDED" /\ (~r.planDone \/ LadderPending(r) \/ Held(r))

BadLeftOf(a, r) == command[a]

\* What carries the attempt's cookie: the command's processes, and the wrapper
\* as long as no spawn.json has named its pid.
LeftOf(a, r) ==
  command[a] \cup IF WrapperAlive(a) /\ ~r.spawn THEN {"wrapper"} ELSE {}

\* One reading; a scan that fails proves nothing gone.
Look(a, r, scanFails) ==
  IF scanFails THEN "unknown" ELSE IF LeftOf(a, r) = {} THEN "none" ELSE "ours"

\* Something is left of a command whose group the tier can name.
CommandAlive(a, r, scanFails) == r.spawn /\ Look(a, r, scanFails) # "none"

ScanOutcomes == IF "scan" \in Faults THEN BOOLEAN ELSE {FALSE}

-----------------------------------------------------------------------------
(* The ATTEMPT chart, and the intents of its rows, on one attempt's record. *)

\* _what_is_left: the reading at the record, before the outcome is journaled.
WhatIsLeft(a, r, scanFails) ==
  LET look == Look(a, r, scanFails)
      leak == r.outcome = "natural" /\ LeakPolicy = "leak"
  IN CASE LadderPending(r) \/ r.failed \/ look = "none" -> r
       [] OTHER ->
            IF leak
            THEN IF look = "unknown"
                 THEN [r EXCEPT !.survived = TRUE, !.leakHold = TRUE]
                 ELSE r
            ELSE [r EXCEPT !.ladder = IF @ = "none" THEN "laddering" ELSE "verdict"]

\* A row to ENDED: the outcome, the reading, and the timer cancelled.
End(a, r, outcome, scanFails) ==
  WhatIsLeft(a, [r EXCEPT !.state = "ENDED", !.outcome = outcome, !.timer = 0], scanFails)

\* The stop of an attempt whose group is known: the ladder, under the timer
\* generation the row just moved to.
Restarted(r) == [r EXCEPT !.gen = @ + 1, !.ladder = "laddering"]

\* spawn.json was seen; a second sight of it posts nothing.
SpawnRecorded(r) ==
  IF r.spawn
  THEN r
  ELSE CASE r.state = "SPAWNING" -> [r EXCEPT !.spawn = TRUE, !.state = "RUNNING"]
         [] r.state = "STOPPING" -> Restarted([r EXCEPT !.spawn = TRUE])
         [] OTHER -> [r EXCEPT !.spawn = TRUE]

\* exit_record_from_status and outcome_of: whose end status.json records.
OutcomeOf(record, stopping) ==
  CASE record = "parent_lost" -> "lifeline"
    [] record \in {"record_failed", "spawn_failed"} -> "spawn_failed"
    [] OTHER -> IF stopping THEN "stopped" ELSE "natural"

StatusRecorded(a, r, scanFails) ==
  IF r.state \in Live
  THEN End(a, r, OutcomeOf(statusFile[a], r.state = "STOPPING"), scanFails)
  ELSE r

SpawnFailed(a, r, scanFails) ==
  IF r.state \in {"SPAWNING", "STOPPING"} /\ ~r.spawn
  THEN End(a, r, "spawn_failed", scanFails)
  ELSE r

\* The wrapper is gone and left no record: its command is looked for.
WrapperExited(a, r, scanFails) ==
  CASE r.state \notin Live -> r
    [] r.state \in Live /\ CommandAlive(a, r, scanFails) ->
         IF r.state = "RUNNING"
         THEN Restarted([r EXCEPT !.state = "STOPPING", !.cause = "wrapper_lost"])
         ELSE r
    [] OTHER -> End(a, r, "unobservable", scanFails)

\* Launch.abort answers that a launch it must not touch is still pending.
AbortWaits(a, r) ==
  adapter[a] \in {"polling", "waiting"} /\ r.selected /\ WrapperAlive(a)

\* attempt.03 and attempt.04: the first stop.  With no spawn.json there is no
\* group to signal: the wrapper is aborted and the timer armed at once.
StopRow(a, r, cause) ==
  CASE r.state = "SPAWNING" ->
         [r EXCEPT !.state = "STOPPING", !.cause = cause, !.gen = @ + 1,
                   !.timer = r.gen + 1, !.awaiting = AbortWaits(a, r)]
    [] r.state = "RUNNING" ->
         Restarted([r EXCEPT !.state = "STOPPING", !.cause = cause])
    [] OTHER -> r

BadRestoredStop(r, cause) == r

\* The stop a restart found recorded: the cleanup will signal, not this.
RestoredStop(r, cause) ==
  IF r.state \in {"SPAWNING", "RUNNING"}
  THEN [r EXCEPT !.state = "STOPPING", !.cause = cause, !.gen = @ + 1]
  ELSE r

EngineDied(a, r, scanFails) == End(a, r, "unobservable", scanFails)

\* The chart discards a timer of an earlier generation.
Current(r, generation) == r.state = "STOPPING" /\ generation = r.gen

\* record_timeout: the spool is read once more, then the command.
RecordTimeout(a, r, generation, scanFails) ==
  LET launched == spawnFile[a] /\ ~r.spawn
      seen == IF launched THEN SpawnRecorded(r) ELSE r
  IN CASE ~Current(r, generation) -> r
       [] Current(r, generation) /\ statusFile[a] # "none" ->
            StatusRecorded(a, seen, scanFails)
       [] Current(r, generation) /\ statusFile[a] = "none" /\ launched -> seen
       [] OTHER ->
            IF r.awaiting /\ ~r.spawn /\ AbortWaits(a, r)
            THEN [r EXCEPT !.timer = generation]
            ELSE IF CommandAlive(a, r, scanFails)
                 THEN [r EXCEPT !.survived = TRUE]
                 ELSE End(a, r, "unobservable", scanFails)

-----------------------------------------------------------------------------
(* What the engine does with an attempt whose handler has run.             *)

\* The interruption rule.  The catalog, the marked set and the oracle's row are
\* not modelled, so every plan they can lead to is possible.
Plans(outcome, cause) ==
  IF outcome \in {"natural", "spawn_failed"}
  THEN {"input"}
  ELSE CASE cause = "oracle_kill" -> {"none"}
         [] cause = "quarantined" -> {"none", "input"}
         [] OTHER -> {"none", "input", "rerun"}

\* _forget_if_over: no observation can come and nothing is left to wait for.
Over(r) == r.exited /\ r.planDone /\ ~LadderPending(r) /\ ~Held(r)

Kept(r) == IF Over(r) THEN [Blank EXCEPT !.state = "FORGOTTEN"] ELSE r

BadSettled(b) == tier'[b].state \notin Live
LateSettled(b) == ~Unsettled(tier[b])

Settled(b) == ~Unsettled(tier'[b])

\* on_settled: the drain ends with its last unsettled attempt.
SettleCheck(called) ==
  IF called /\ phase = "DRAINING" /\ \A b \in Attempts : Settled(b)
  THEN phase' = "STOPPED" /\ leaving' = "clean_shutdown"
  ELSE UNCHANGED <<phase, leaving>>

BadOpenAfter(r) == "closed"

\* The record ends the observation, not the stop: the attempt stays open while
\* its ladder runs or it is held.
OpenAfter(r) == IF LadderPending(r) \/ Held(r) THEN "closing" ELSE "closed"

\* commit_outcome, where the handler ended the attempt: the outcome and its
\* plan are one transaction.
Handled(a, r, cause, called) ==
  IF r.outcome = tier[a].outcome
  THEN /\ tier' = [tier EXCEPT ![a] = Kept(r)]
       /\ SettleCheck(called)
       /\ UNCHANGED store
  ELSE \E plan \in Plans(r.outcome, cause) :
         /\ store' = [store EXCEPT ![a].open = OpenAfter(r),
                                   ![a].outcome = r.outcome,
                                   ![a].plan = plan]
         /\ tier' = [tier EXCEPT ![a] = Kept([r EXCEPT !.planDone = (plan = "none")])]
         /\ SettleCheck(called \/ plan = "none")

\* _ladder_ended with no hold: an outcome committed meanwhile is closed now.
Closed(a, r) ==
  /\ tier' = [tier EXCEPT ![a] = Kept(r)]
  /\ store' = [store EXCEPT ![a].open = IF @ = "closing" THEN "closed" ELSE @]
  /\ SettleCheck(TRUE)

\* A finished ladder's callback comes before the loop's next handler, unless
\* that handler was due already.
Turn(a) == EngineUp /\ (tier[a].ladder = "finishing" => "turn" \in Faults)

-----------------------------------------------------------------------------
(* The adapter task of one attempt: observe() and _watch().                *)

\* The dispatch record is durable before the adapter's task exists.
Dispatch(a) ==
  /\ phase = "RUNNING"
  /\ store[a].open = "never"
  /\ store' = [store EXCEPT ![a].open = "open"]
  /\ tier' = [tier EXCEPT ![a].state = "SPAWNING"]
  /\ adapter' = [adapter EXCEPT ![a] = "spawning"]
  /\ UNCHANGED <<wrapperVars, phase, leaving, aborted, owed, crashes>>

\* The wrapper is created; one a stop asked for meanwhile is killed unlaunched.
AdapterCreate(a) ==
  /\ Turn(a)
  /\ adapter[a] = "spawning"
  /\ wrapper' = [wrapper EXCEPT ![a] = IF aborted[a] THEN "exited" ELSE "reading"]
  /\ lifeline' = [lifeline EXCEPT ![a] = TRUE]
  /\ adapter' = [adapter EXCEPT ![a] = IF aborted[a] THEN "unlaunched" ELSE "sending"]
  /\ UNCHANGED <<verdict, command, killed, spawnFile, statusFile, endedFirst>>
  /\ UNCHANGED <<phase, leaving, tier, aborted, owed, store, crashes>>

\* The attempt's task ends: its lifeline is closed on every path.
AdapterEnds(a) ==
  /\ adapter' = [adapter EXCEPT ![a] = "done"]
  /\ lifeline' = [lifeline EXCEPT ![a] = FALSE]
  /\ UNCHANGED <<wrapper, verdict, command, killed, spawnFile, statusFile, endedFirst>>
  /\ UNCHANGED <<aborted, owed, crashes>>

\* Nothing was launched: the wrapper could not be created, or it died before
\* its spec was sent whole.
AdapterFails(a) ==
  /\ Turn(a)
  /\ \/ adapter[a] = "spawning" /\ "create" \in Faults
     \/ adapter[a] = "sending" /\ wrapper[a] = "exited"
  /\ \E fails \in ScanOutcomes :
       Handled(a, SpawnFailed(a, tier[a], fails), tier[a].cause, FALSE)
  /\ AdapterEnds(a)

AdapterUnlaunched(a) ==
  /\ Turn(a)
  /\ adapter[a] = "unlaunched"
  /\ \E fails \in ScanOutcomes :
       Handled(a, WrapperExited(a, tier[a], fails), tier[a].cause, FALSE)
  /\ AdapterEnds(a)

\* The spec is sent; a spec the pipe took whole says nothing of its reader.  A
\* stop that came while it was on its way is taken up now.
AdapterSend(a) ==
  /\ Turn(a)
  /\ adapter[a] = "sending"
  /\ wrapper' = [wrapper EXCEPT ![a] = IF @ = "reading" THEN "ready" ELSE @]
  /\ lifeline' = [lifeline EXCEPT ![a] = @ /\ (aborted[a] => tier[a].selected)]
  /\ adapter' = [adapter EXCEPT ![a] = "polling"]
  /\ UNCHANGED <<verdict, command, killed, spawnFile, statusFile, endedFirst>>
  /\ UNCHANGED <<phase, leaving, tier, aborted, owed, store, crashes>>

PollSpawn(a) ==
  /\ Turn(a)
  /\ adapter[a] = "polling"
  /\ spawnFile[a]
  /\ Handled(a, SpawnRecorded(tier[a]), tier[a].cause, FALSE)
  /\ adapter' = [adapter EXCEPT ![a] = "waiting"]
  /\ UNCHANGED <<wrapperVars, aborted, owed, crashes>>

\* The wrapper exited: a spawn.json not seen yet is posted before the record.
PollExit(a) ==
  /\ Turn(a)
  /\ adapter[a] \in {"polling", "waiting"}
  /\ wrapper[a] = "exited"
  /\ LET seen == IF spawnFile[a] THEN SpawnRecorded(tier[a]) ELSE tier[a]
     IN \E fails \in ScanOutcomes :
          Handled(a, IF statusFile[a] # "none"
                     THEN StatusRecorded(a, seen, fails)
                     ELSE WrapperExited(a, seen, fails), seen.cause, FALSE)
  /\ AdapterEnds(a)

TaskReaped(a) ==
  /\ Turn(a)
  /\ adapter[a] = "done"
  /\ adapter' = [adapter EXCEPT ![a] = "none"]
  /\ tier' = [tier EXCEPT ![a] = Kept([@ EXCEPT !.exited = TRUE])]
  /\ UNCHANGED <<wrapperVars, phase, leaving, aborted, owed, store, crashes>>

-----------------------------------------------------------------------------
(* Stops, ladders, timers and held groups.                                 *)

\* Launch.abort on the attempts of S, stopped with no spawn.json seen: before
\* the spec is sent the wrapper is killed; after it the lifeline is closed,
\* unless spawn.json is there already or a selected kill waits for it.
KillWrappers(S, selected) ==
  /\ aborted' = [b \in Attempts |-> aborted[b] \/ b \in S]
  /\ wrapper' = [b \in Attempts |->
       IF b \in S /\ adapter[b] = "sending" THEN "exited" ELSE wrapper[b]]
  /\ lifeline' = [b \in Attempts |->
       lifeline[b] /\ ~(b \in S /\ adapter[b] = "polling" /\ ~selected /\ ~spawnFile[b])]
  /\ UNCHANGED <<verdict, command, killed, spawnFile, statusFile, endedFirst>>

\* The oracle ended the run: its task is stopped, with the signals its kill
\* named or with the default ladder.
OracleKill(a, selected) ==
  /\ Turn(a)
  /\ tier[a].state \in {"SPAWNING", "RUNNING"}
  /\ adapter[a] # "none"
  /\ tier' = [tier EXCEPT ![a] = StopRow(a, [@ EXCEPT !.selected = selected], "oracle_kill")]
  /\ KillWrappers({b \in {a} : tier[b].state = "SPAWNING"}, selected)
  /\ UNCHANGED <<phase, leaving, adapter, owed, store, crashes>>

\* record_timeout, from the timer or from the release of a held group.
TimerFires(a) ==
  /\ EngineUp
  /\ tier[a].timer # 0
  /\ tier[a].ladder # "finishing"
  /\ \E fails \in ScanOutcomes :
       Handled(a, RecordTimeout(a, [tier[a] EXCEPT !.timer = 0], tier[a].timer, fails),
               tier[a].cause, FALSE)
  /\ UNCHANGED <<wrapperVars, adapter, aborted, owed, crashes>>

\* _ladder up to its KILL, which a selected kill's signals may leave out; a
\* ladder whose reading failed raises at its end.
LadderRuns(a) ==
  /\ EngineUp
  /\ tier[a].ladder = "laddering"
  /\ \E fails \in ScanOutcomes, kills \in {TRUE, ~tier[a].selected} :
       /\ killed' = IF kills /\ ~fails
                    THEN [killed EXCEPT ![a] = @ \cup LeftOf(a, tier[a])]
                    ELSE killed
       /\ tier' = [tier EXCEPT
            ![a].selected = FALSE,
            ![a].ladder = IF fails THEN "raised"
                          ELSE IF tier[a].state = "ENDED" THEN "verdict" ELSE "finishing",
            ![a].timer = IF fails \/ tier[a].state = "ENDED" THEN @ ELSE tier[a].gen]
  /\ UNCHANGED <<wrapper, verdict, command, lifeline, spawnFile, statusFile, endedFirst>>
  /\ UNCHANGED <<phase, leaving, adapter, aborted, owed, store, crashes>>

\* _survivor_verdict: the first look that finds nothing ends it; the last look,
\* a grace after the KILL, holds what is left.
VerdictEnds(a) ==
  /\ EngineUp
  /\ tier[a].ladder = "verdict"
  /\ \E fails \in ScanOutcomes :
       tier' = [tier EXCEPT ![a].ladder = "finishing",
                            ![a].survived = @ \/ Look(a, tier[a], fails) # "none"]
  /\ UNCHANGED <<wrapperVars, phase, leaving, adapter, aborted, owed, store, crashes>>

\* _ladder_done: the hold of a failed ladder precedes the release.
LadderDone(a) ==
  /\ EngineUp
  /\ tier[a].ladder \in {"finishing", "raised"}
  /\ LET r == [tier[a] EXCEPT !.ladder = "done", !.failed = @ \/ tier[a].ladder = "raised"]
     IN IF Held(r)
        THEN tier' = [tier EXCEPT ![a] = r] /\ SettleCheck(TRUE) /\ UNCHANGED store
        ELSE Closed(a, r)
  /\ UNCHANGED <<wrapperVars, adapter, aborted, owed, crashes>>

\* The held poll found nothing left, or a leak held for a reading was read: a
\* stopping attempt has its spool read once more, an ended one may settle.
HeldReleased(a) ==
  /\ EngineUp
  /\ Held(tier[a])
  /\ tier[a].leakHold \/ LeftOf(a, tier[a]) = {}
  /\ LET r == [tier[a] EXCEPT !.survived = FALSE, !.failed = FALSE, !.leakHold = FALSE]
     IN IF r.state = "STOPPING"
        THEN \E fails \in ScanOutcomes :
               Handled(a, RecordTimeout(a, r, r.gen, fails), r.cause, TRUE)
        ELSE Closed(a, r)
  /\ UNCHANGED <<wrapperVars, adapter, aborted, owed, crashes>>

ToKill(r) == Held(r) /\ ~r.leakHold

\* The held poll KILLs what it finds of an attempt that outlived its stop.
HeldKilled(a) ==
  /\ EngineUp
  /\ ToKill(tier[a])
  /\ killed' = [killed EXCEPT ![a] = @ \cup LeftOf(a, tier[a])]
  /\ UNCHANGED <<wrapper, verdict, command, lifeline, spawnFile, statusFile, endedFirst>>
  /\ UNCHANGED engineVars

\* A feed or a hold is done with its admission; a replacement is dispatched
\* once nothing holds it back, and left to the restart while the engine drains.
PlanFinishes(a) ==
  /\ EngineUp
  /\ store[a].plan \in {"input", "rerun"}
  /\ tier[a].state \in {"NONE", "ENDED"} /\ ~tier[a].planDone
  /\ owed[a] = "none"
  /\ LET drained == store[a].plan = "rerun" /\ phase \in {"DRAINING", "STOPPED"}
         r == [tier[a] EXCEPT !.planDone = TRUE]
     IN /\ store[a].plan = "rerun" /\ ~drained => ~LadderPending(r) /\ ~Held(r)
        /\ tier' = IF tier[a].state = "NONE" THEN tier ELSE [tier EXCEPT ![a] = Kept(r)]
        /\ store' = [store EXCEPT ![a].plan =
             CASE drained -> @ [] @ = "input" -> "done" [] OTHER -> "replaced"]
  /\ SettleCheck(tier[a].state # "NONE")
  /\ UNCHANGED <<wrapperVars, adapter, aborted, owed, crashes>>

-----------------------------------------------------------------------------
(* The engine's life.                                                      *)

\* The barrier lifts once every catch-up step is taken and every input those
\* steps queued has been admitted.
ReplayDone ==
  /\ phase = "STARTING"
  /\ \A a \in Attempts : owed[a] = "none" /\ store[a].plan # "input"
  /\ phase' = "RUNNING"
  /\ UNCHANGED <<wrapperVars, leaving, tier, adapter, aborted, owed, store, crashes>>

\* OpenTable._note_stops of a draining record: the first stop stands, an
\* unsettled attempt with none gets the drain's.
RecordStop(a) ==
  CASE store[a].open \notin {"open", "closing"} \/ ~Unsettled(tier[a])
         \/ store[a].stop # "none" -> store[a].stop
    [] OTHER -> IF tier[a].cause = "none" THEN "engine_stop" ELSE tier[a].cause

\* begin_drain: the draining record first, then a stop for every live attempt.
BeginDrain ==
  /\ phase = "RUNNING"
  /\ \A a \in Attempts : Turn(a)
  /\ store' = [a \in Attempts |-> [store[a] EXCEPT !.stop = RecordStop(a)]]
  /\ tier' = [a \in Attempts |-> StopRow(a, tier[a], "engine_stop")]
  /\ KillWrappers({b \in Attempts : tier[b].state = "SPAWNING"}, FALSE)
  /\ IF \A b \in Attempts : Settled(b)
     THEN phase' = "STOPPED" /\ leaving' = "clean_shutdown"
     ELSE phase' = "DRAINING" /\ UNCHANGED leaving
  /\ UNCHANGED <<adapter, owed, crashes>>

StopDuringStartup ==
  /\ phase = "STARTING"
  /\ phase' = "STOPPED"
  /\ leaving' = "shutdown_during_startup"
  /\ UNCHANGED <<wrapperVars, tier, adapter, aborted, owed, store, crashes>>

\* The drain's deadline passes, by itself or moved up by a second stop request.
AbortDeadline ==
  /\ phase = "DRAINING"
  /\ phase' = "STOPPED"
  /\ leaving' = "unclean_shutdown"
  /\ UNCHANGED <<wrapperVars, tier, adapter, aborted, owed, store, crashes>>

\* Every lifeline closes with the engine's process, and a wrapper that never
\* got its spec whole exits on the end of file.
EngineGone ==
  /\ phase' = "DOWN"
  /\ leaving' = "none"
  /\ lifeline' = [a \in Attempts |-> FALSE]
  /\ wrapper' = [a \in Attempts |-> IF wrapper[a] = "reading" THEN "exited" ELSE wrapper[a]]
  /\ UNCHANGED <<verdict, command, killed, spawnFile, statusFile, endedFirst>>
  /\ tier' = [a \in Attempts |-> Blank]
  /\ adapter' = [a \in Attempts |-> "none"]
  /\ aborted' = [a \in Attempts |-> FALSE]
  /\ owed' = [a \in Attempts |-> "none"]

\* _finish_leaving and the teardown; a shutdown record's stops are the engine's
\* last word on what each unsettled attempt was taking.
Leave ==
  /\ phase = "STOPPED"
  /\ store' = [a \in Attempts |->
       IF leaving = "unclean_shutdown" /\ store[a].open \in {"open", "closing"}
          /\ Unsettled(tier[a]) /\ tier[a].cause # "none"
       THEN [store[a] EXCEPT !.stop = tier[a].cause]
       ELSE store[a]]
  /\ EngineGone
  /\ UNCHANGED crashes

Crash ==
  /\ EngineUp
  /\ crashes < MaxCrashes
  /\ crashes' = crashes + 1
  /\ EngineGone
  /\ UNCHANGED store

\* _adopt_open_attempts: an attempt with no outcome is observed, a closing one
\* is restored ENDED and cleaned up.
Adopted(a) ==
  CASE store[a].open = "open" -> [Blank EXCEPT !.state = "SPAWNING", !.exited = TRUE]
    [] store[a].open = "closing" ->
         [Blank EXCEPT !.state = "ENDED", !.exited = TRUE, !.outcome = store[a].outcome,
                       !.cause = store[a].stop,
                       !.planDone = store[a].plan \notin {"input", "rerun"}]
    [] OTHER -> Blank

Restart ==
  /\ phase = "DOWN"
  /\ phase' = "STARTING"
  /\ tier' = [a \in Attempts |-> Adopted(a)]
  /\ owed' = [a \in Attempts |->
       CASE store[a].open = "open" -> "observe"
         [] store[a].open = "closing" -> "cleanup"
         [] OTHER -> "none"]
  /\ UNCHANGED <<wrapperVars, leaving, adapter, aborted, store, crashes>>

\* The catch-up's step of an attempt with no outcome: the spool, the stop the
\* last engine was taking, then the record, or the engine's death as its end.
\* Records that cannot be trusted quarantine the attempt.
RestartObserve(a) ==
  /\ phase = "STARTING"
  /\ owed[a] = "observe"
  /\ owed' = [owed EXCEPT ![a] = "none"]
  /\ LET seen == IF spawnFile[a] THEN SpawnRecorded(tier[a]) ELSE tier[a]
         r == IF store[a].stop = "none" THEN seen ELSE RestoredStop(seen, store[a].stop)
     IN \E fails \in ScanOutcomes :
          \/ Handled(a, IF statusFile[a] # "none"
                        THEN StatusRecorded(a, r, fails)
                        ELSE EngineDied(a, r, fails), r.cause, FALSE)
          \/ /\ "spool" \in Faults
             /\ Handled(a, EngineDied(a, seen, fails), "quarantined", FALSE)
  /\ UNCHANGED <<wrapperVars, adapter, aborted, crashes>>

RestartCleanup(a) ==
  /\ phase = "STARTING"
  /\ owed[a] = "cleanup"
  /\ owed' = [owed EXCEPT ![a] = "none"]
  /\ \E fails \in ScanOutcomes :
       LET r == WhatIsLeft(a, [tier[a] EXCEPT !.spawn = spawnFile[a]], fails)
       IN IF LadderPending(r) \/ Held(r)
          THEN tier' = [tier EXCEPT ![a] = r] /\ UNCHANGED <<store, phase, leaving>>
          ELSE Closed(a, r)
  /\ UNCHANGED <<wrapperVars, adapter, aborted, crashes>>

-----------------------------------------------------------------------------

Handler(a) ==
  \/ AdapterCreate(a) \/ AdapterFails(a) \/ AdapterUnlaunched(a) \/ AdapterSend(a)
  \/ PollSpawn(a) \/ PollExit(a) \/ TaskReaped(a)
  \/ TimerFires(a) \/ LadderRuns(a) \/ VerdictEnds(a) \/ LadderDone(a)
  \/ HeldReleased(a) \/ HeldKilled(a) \/ PlanFinishes(a)
  \/ RestartObserve(a) \/ RestartCleanup(a)

World(a) == WrapperWorld(a) /\ UNCHANGED engineVars

Next ==
  \/ \E a \in Attempts :
       \/ World(a)
       \/ Dispatch(a)
       \/ Handler(a)
       \/ \E selected \in BOOLEAN : OracleKill(a, selected)
  \/ ReplayDone \/ BeginDrain \/ StopDuringStartup \/ AbortDeadline
  \/ Leave \/ Crash \/ Restart

\* The event loop runs every handler that stays due, the kernel schedules the
\* wrappers and ends what was killed.  Nobody owes a start, a kill, a drain, a
\* deadline, a crash or a restart, and the command owes nothing.
Fairness ==
  /\ \A a \in Attempts :
       /\ WF_vars(AdapterCreate(a) \/ AdapterFails(a) \/ AdapterUnlaunched(a))
       /\ WF_vars(AdapterSend(a) \/ PollSpawn(a) \/ PollExit(a) \/ TaskReaped(a))
       /\ WF_vars(TimerFires(a))
       /\ WF_vars(LadderRuns(a) \/ VerdictEnds(a) \/ LadderDone(a))
       /\ WF_vars(HeldReleased(a))
       /\ WF_vars(HeldKilled(a))
       /\ WF_vars(PlanFinishes(a))
       /\ WF_vars(RestartObserve(a) \/ RestartCleanup(a))
       /\ WF_vars(WrapperMain(a) /\ UNCHANGED engineVars)
       /\ WF_vars("wrapper" \in killed[a] /\ WrapperKilled(a) /\ UNCHANGED engineVars)
       /\ \A p \in Processes : WF_vars(KilledProcessEnds(a, p) /\ UNCHANGED engineVars)
  /\ WF_vars(Leave)

Spec == Init /\ [][Next]_vars
FairSpec == Spec /\ Fairness

-----------------------------------------------------------------------------
(* Properties.                                                             *)

\* An attempt leaves the store's open table, so that its job may run again and
\* nothing adopts it after a restart, only when no process of it is left and
\* its wrapper can start none; process-leak=leak exempts a natural end
\* (OpenTable.note, commit_outcome, _what_is_left, _survivor_verdict).
ClosedMeansGone ==
  \A a \in Attempts :
    store[a].open = "closed" /\ ~(LeakPolicy = "leak" /\ store[a].outcome = "natural")
      => command[a] = {} /\ wrapper[a] \notin {"reading", "ready"}

\* The clean shutdown record is the word that the next start has nothing to
\* adopt: no attempt is open and no outcome waits for a ladder or a hold.
CleanShutdownLeavesNothingOpen ==
  leaving = "clean_shutdown" =>
    \A a \in Attempts : store[a].open \in {"never", "closed"} /\ store[a].plan # "input"

\* A run the draining record names as stopped is never told to the oracle as a
\* natural completion, whichever engine reads its record and however often the
\* engine died in between (_note_stops, restored_stop, outcome_of).
DrainedNeverNatural ==
  [][\A a \in Attempts :
       store[a].outcome = "none" /\ store'[a].outcome = "natural"
         => store[a].stop = "none"]_vars

\* Each attempt keeps the contract of AttemptLife.
Life == INSTANCE AttemptLife WITH
  life <- [a \in Attempts |-> store[a].open],
  outcome <- [a \in Attempts |-> store[a].outcome],
  owes <- [a \in Attempts |-> store[a].plan],
  running <- [a \in Attempts |-> command[a] # {}],
  MayLeak <- (LeakPolicy = "leak")

ImplementsAttemptLife == Life!Spec

\* Stops come to an end, in whatever order a record, its ladder, its plan, its
\* task and a hold come: a drain ends by itself, with readings that succeed never
\* by its deadline, and every attempt that was stopped or ended is forgotten,
\* unless the engine goes down first (on_settled, _forget_if_over).
StopsComeToAnEnd ==
  /\ phase = "DRAINING" ~> phase \in {"STOPPED", "DOWN"}
  /\ \A a \in Attempts :
       tier[a].state \in {"STOPPING", "ENDED"}
         ~> (tier[a].state = "FORGOTTEN" \/ phase = "DOWN")

=============================================================================
