# A verification of dsl41's runner

dsl41 compiles AutoSys JIL and runs what it compiled: an engine keeps the
state of the jobs (the oracle), launches their commands on the local machine,
records everything it decides in an SQLite store, and answers operators over a
control socket. The compiler is a pure program. The runner is where the hard
behaviour is: one event loop whose handlers are called in any order by
processes, timers, clients and signals, a store that has to be right when the
engine dies between any two records, and wrapper processes that go on
without an engine. These modules model the runner.

All paths below are relative to `src/src/dsl41/` unless they begin with
`docs/`, which is `src/docs/`.

## 1. Inventory

### 1.1 The parts that carry the runner's logic

**The wrapper** (`runner_wrapper.py`). One process for each attempt of a job.
*State:* where it is in `main`, its command's process group, two files in the
attempt's spool: `spawn.json` (the command was launched) and `status.json` (how
it ended). *Operations:* read its spec, start the command, write spawn.json,
wait for the command's exit or for the end of the lifeline pipe that means the
engine is gone, TERM and KILL the group, write status.json, reap. *Interacts
with* the engine through the lifeline and the two files only. *Hard:* the
command exits while the lifeline closes; a write fails with the command
running; something kills the wrapper; the command leaves descendants behind.
*Correct when* a record of an end is written only when the command's leader is
dead, a completion is not recorded as a kill, and an abandoned command ends.

**The attempt tier** (`runner_attempts.py`, `runner_stops.py`,
`engine_charts.py`). *State:* for each attempt an instance of the ATTEMPT
chart (SPAWNING, RUNNING, STOPPING, ENDED), the running ladder, the armed
record timer and its generation, what the last look found of its processes, the
held groups. *Operations:* the intents of the chart, each posted by a handler:
spawn_recorded, status_recorded, spawn_failed, wrapper_exited, stop_requested,
record_timeout, engine_died, and the ladder's end. *Interacts with* the adapter
(which reports the spool), the stops module (signals, looks at /proc), the
engine (which journals each end). *Hard:* a stop before spawn.json exists; a
record while the ladder runs; a stale timer; a ladder that raises; a reading
that fails. *Correct when* an attempt is closed only with nothing left of its
command, and every attempt that is over is let go.

**The local command adapter** (`runner_adapters.py`). *State:* where its task
is in `observe`: creating the wrapper, sending the spec, polling for spawn.json,
waiting for the record. *Interacts with* the wrapper and the tier. The file
watchers and the fake adapters are in the same file.

**The engine** (`runner.py`). *State:* the lifecycle (the ENGINE chart of
`engine_charts.py`), the queue of inputs, the live attempt of each job, the
starts held back behind an unsettled attempt, the owed plans, the frontier.
*Operations:* admit and apply an input, dispatch a start, a kill or a
replacement, commit an outcome, carry out its plan, drain, snapshot, leave.
*Hard:* a handler makes several records and the engine may die between any two;
a drain begins with plans queued and starts held. *Correct when* no two attempts
of a job run at once, none is launched twice, and no wanted run is lost.

**The restart** (`runner_startup.py`). *State:* the catch-up's list of open
attempts, the owed plans and starts. *Operations:* load the snapshot, replay the
tail, read the spool of each open attempt, stop or adopt it, finish the plans
the records show unfinished, launch the starts the tail decided and nothing
discharged, lift the barrier.

**Admission** (`runner_admission.py`, `runner.py` `_admit_and_apply`,
`runner_control.py`, `runner_codes.py`). *State:* the decision index, the
frontier, the queue, the requests waiting for an answer. *Operations:* look a
retry up, refuse, gate on the revision, apply, commit, answer; evict what
retention deleted. *Hard:* the answer is lost and the client sends again, to
this engine or the next; the engine dies between apply, commit and answer.
*Correct when* an id is admitted once and an answer is the durable decision.

**The subscription** (`runner_journal.py`, `runner_control.py`). *State:* for
each client a feed (the SUBSCRIPTION chart), its backlog, its seam. *Operations:*
subscribe, backfill up to the seam, go live, publish, overflow, end. *Hard:*
records are appended and pruned during the backfill; a stalled client; a cursor
ahead of the store, or below what is retained. *Correct when* a client reads
each input once and in order and misses nothing the store retains.

**The journal and the store** (`runner_journal.py`, `runner_store.py`,
`runner_ledger.py`). *State:* the record sequence, the snapshot, the open table,
the decisions. *Operations:* append a transaction, snapshot, prune up to a
floor. *Correct when* the snapshot and the tail give what the engine had, and
pruning leaves what a restart needs.

**The oracle** (`oracle*.py`, `job_chart*.py`). *State:* a row per job with the
JOB chart, its run number and revision, the flags an operator set, what a box's row
says of its run, the timers. *Operations:* the application of one input: the move of a
row, the boxes above it, the wakes of the jobs whose conditions name it, the batch of a
box's start and end. *Hard:* a box's status follows its members' and theirs follow its,
in one cascade; a box may start again inside its own end. *Correct when* no input leaves
a box running that its members have finished with, or a job waiting that could start.
**Conditions** (`conditions.py`, `semantics.py`) evaluate starting conditions.

**The queue scan and capacity** (`scan_chart.py`, `capacity.py`) admit waiting jobs by
load and priority. *State:* the units each row reserves or kept, the spent units, the
ranks of the waiters, the coordinator (idle or in a pass), the mark of an owed scan.
*Hard:* a readmission's cascade changes the queue its pass is walking; a job starts
again before the end of its last run is settled; a scan is asked inside a scan.
*Correct when* a waiting job is neither passed over for ever nor admitted past a limit.

**The scheduler and the clock** (`runner_scheduler.py`, `runner_clock.py`,
`oracle_schedule.py`, `runner.py` `_next_work`) say what is due. *State:* the queue's
keys, the oracle's timers, the ticks of each calendar not yet consumed, the frontier, the
wall reading compared last. *Hard:* a deadline, a tick and a command fall due at once or
while the loop was busy; the clock steps back; an outage drops ticks. *Correct when*
inputs fire in time order and each tick is taken once.

**The executor** (`state_machine.py`) interprets every chart above. *State:* of each
instance its active states, the occurrence of each, its deferred events and timer
generations; one pool and one worklist for the instances of a tier; the path of steps that
led to the item in hand. *Operations:* start, restore, forget, post, run; inside a run a
microstep selects rows in all the regions at once, leaves and enters, calls actions, and
puts what they report ahead of the rest. *Hard:* rows of two regions, of a state the
regions share and deferrals meet in one event; a completion is handled after events that
may have left its state and entered it again; a deferred event is released among other
instances' work; a cached count follows items of different ancestry. *Correct when* every
microstep ends in a legal configuration, every event is decided once, and a declaration
that passes the checks meets no event it cannot decide.

**An update without a restart** (`runner_update.py`, `reload_*.py`) changes the
estate under a running engine. *State:* the UPDATE chart, its intent in the store, the
open set of the jobs not down yet, the outcomes kept back, the watches it cancelled, the
filter. *Operations:* admit (journal the intent, stop the stop set), take the end of a
stop, apply, carry on; resume after a restart. *Hard:* the stopped attempts end in any
order, some with their group still alive; a restart comes in between and finds some of
them ended; what was kept back has to go on once, under the new definitions. *Correct
when* it applies after every stop is finished and before anything of its jobs goes on.

**The file workers** (`file_processing*.py`). Programs that an estate runs as jobs: an
archiver, a processor, and an operator's command. *State:* the inbox, the objects named
by their content, a TODO file for each work to do, and a ledger in SQLite with the
receipts and the work rows. *Operations:* archive (repair what an earlier run left, admit
a listing of the inbox, copy, commit, publish the TODO, unlink the source), process (take
work in doubt before fresh work, claim, call the handler, record, remove the TODO), rule
on a row. *Interact* through the files and the ledger only; each role has a lock. *Hard:*
no transaction spans the ledger and a file, and either role may die between any two of
them; a basename is used again; a ruling comes late. *Correct when* no delivery is lost
and none is acted on twice.

**The access map** (`runner_access.py`) decides each request and revokes
streams.

### 1.2 The rest

Configuration and preflight, the history reader, the status hook, the compiler
(`ast_jil.py`, `ir.py`, `lint.py`, `derive.py`, `equiv.py`, `minify.py`, ...), the
simulation register, the rehearsal, the
command line and the TUI. They are sequential: validation, transformation or
presentation with no state to interleave. `PROJECT.json` lists each with the
reason it is left out, or with its place in the plan.

### 1.3 How the parts interact

    control socket ---- requests ----> admission --+--> oracle (rows, timers)
          ^                                        |         | starts, kills
          |  backfill, live                        v         v
    subscription <------ publish ------------ journal <--- dispatch ---> attempt tier
                                             (store)  outcome, plan  |        ^
                                                 |                   | ladder |
                                                 v                   v        | spool
                                              restart             adapter --> wrapper --> command

The file workers are apart from this: processes that share files and a ledger.

Everything in the engine runs on one event loop. A handler runs to its end
before the next unless it awaits, so a handler is one action here, split only
where it awaits or where a crash in between leaves a different store.

## 2. The modules

| module | models | composed with |
|---|---|---|
| `Wrapper` | a wrapper and its command's processes | |
| `AttemptTier` | the attempt tier, the adapter, the stops, the engine's lifecycle and the restart's fold, over the store's open table | EXTENDS `Wrapper` |
| `AttemptLife` | the abstract life of an attempt: what the rest of the engine may rely on | implemented by `AttemptTier` |
| `EngineLoop` | starts, kills, outcomes, plans, holds, drain, snapshot, restart, for several runs of a job | takes `AttemptTier`'s promises as the moves of an attempt |
| `Subscription` | one client of `subscribe`, over the journal | |
| `Admission` | inputs, retries, decisions, retention, restarts | |
| `QueueScan` | waiting for capacity: start attempts, settlements, the scan and its cascades, one box | |
| `LoopClock` | the choice of the next work by time, ticks, deadlines, stamps, a clock that steps, the sweep of a restart | takes `EngineLoop`'s dispatch and `Update`'s application as single acts |
| `JobBox` | jobs, boxes in boxes, conditions and the cascade of a move | the starts that wait for capacity are `QueueScan`'s |
| `Update` | an update without a restart, over the attempts of several jobs | takes `AttemptTier`'s promises as the moves of an attempt, `EngineLoop`'s dispatch as one step |
| `FileWork` | the file workers: archiver, processor, operator | |
| `Statechart` | a statechart declaration: its tree, selection, the checks it passes | |
| `Executor` | the interpreter of declarations for the instances of a tier | EXTENDS `Statechart` |
| `MCQueueScan`, `MCLoopClock`, `MCJobBox`, `MCUpdate`, `MCExecutor` | small instances: catalogs, ticks and runs, plans of an update, declarations | each EXTENDS its module |
| `AttemptTier_proofs`, `EngineLoop_proofs`, `Subscription_proofs`, `Admission_proofs`, `QueueScan_proofs`, `LoopClock_proofs`, `Update_proofs`, `FileWork_proofs` | the theorems | each EXTENDS its module; the wrapper's and the contract's are in `AttemptTier_proofs` |

`PROJECT.json` gives the source lines of each definition. Names follow the
source: `RecordTimeout`, `LadderDone`, `HeldReleased`, `CommandAlive`,
`StopRow` are the tier's methods and rows; `DischargeStart`, `OwedStep`,
`LiftBarrier`, `Release` are the engine's and the restart's. A definition whose name
begins with `Bad` is the mutated form of the one that follows it, a plausible
mistake in that code; it is used by no action.

### 2.1 Wrapper

Each variable is a function on the attempts, since wrappers share nothing.
`wrapper[a]` is the line of `main` it has reached, `command[a]` the live
processes of its command: the leader and at most one descendant, for all the
code ever asks is whether the leader or anything else is alive. TERM is not a
state: a process that ignores it behaves as one that never got it. The engine's
side of the pipe (`Create`, `SendSpec`, `LetGo`) is in the module, so that it
can be checked alone and be extended by the tier.

### 2.2 AttemptTier

`tier[a]` is a record: the chart's state and the engine's in-memory facts about
one attempt. Rows of the chart are operators from record to record
(`SpawnRecorded`, `StatusRecorded`, `WrapperExited`, `StopRow`, ...) and a
handler composes them, as the code posts several events in one handler.
`Handled` is what every handler ends with: the journaling of an outcome when the
attempt has just ended (`_take_outcome`, the `closing` record when its
ladder is open or its group is held), the letting go of an attempt that is over, the
lifecycle's `all_attempts_settled`.

A ladder is a task with three points at which something can come between its
steps: running (`laddering`), past its last reading and waiting for the loop
to take its end (`verdict`), and past its last step with its callback due
(`finishing`). At the last, the loop's ready queue decides what runs first; the
fault `turn` allows another handler already due to run before the callback. A
ladder that raises ends with `raised`.

The environment supplies what the code cannot know: `scanFails` (a reading of
/proc fails or cannot tell), the wrapper's death, the exits, a restart that cannot
trust the spool. `Faults` selects them for each instance.

What is left out: an update's stops and kept outcomes (they are `Update`'s); the join of tasks at
shutdown, which is merged with the steps before `Leave`; the separate signals of a custom
ladder; invalid spool records (a restart's distrust of a spool stands for
them); platforms whose process environments cannot be read.

### 2.3 AttemptLife

Seven steps of one attempt as the store shows it: never, open, closing, closed,
with one outcome and one plan. `AttemptTier` implements it (`Life` is the
instance with its refinement mapping, `ImplementsAttemptLife` the property):
the outcome is committed once and never changed, the plan is taken once and only
after the outcome, crashes and restarts included.

### 2.4 EngineLoop

An attempt is `<<job, run, ordinal>>`. A handler that writes several records
leaves the rest of its calls on its job's `agenda`; one call is one step, and no
handler starts before the agenda is empty (`Ready`), so the only thing that comes
between two calls is `Crash`. The oracle is a row `[run, live]` per job and any
input may move it in any way the code's start and kill intents can follow. `decided` is
`replay.spawns`: what a replay of the tail finds started and not ended by the same input
(`ReplayedStarts`). An overwrite is a command, so it waits for a restart's catch-up and
a draining engine takes none.

What is left out: the file watchers, an update's holds (`Update`'s), quarantine and marked
jobs beyond their effect (an input that launches nothing). `deferred` is a set
and the catch-up takes the open attempts in any order, which allows more than the
code's sorted order does. A snapshot may be taken at any idle point at which the
code's own condition (`AppliedBoundary`) holds.

### 2.5 Subscription

One client, since feeds share only the order of appends. A record is named by
its place in the store. The sizes of lines are a small set against a small
budget. The backfill not sent yet is a gap's first index and a set of records, of which the
handler sends the marker and then the smallest. When the stream breaks the client keeps any prefix of the lines
it has not read. `StreamEnds` also stands for the engine's restart, which a
client sees as nothing else.

### 2.6 Admission

The oracle is one entity's revision, moved at most once by an input, by its time
half or by its command. Whether an apply faults, a completion is stale or a time
half raises is left open, as these depend on the rest of the oracle. In the
real-clock engine there is no await between the apply, the commit and the
answer, so `hand` holds the input between them and only a crash comes there. An
update appears as its intent's claim on a request id. Stamps are left out. An id
whose decision retention has deleted is free again: that is documented
behaviour, and `OncePerId` says "while it is retained".

### 2.7 QueueScan

An input of the oracle runs to its end before the next, and within it an item's
whole cascade runs before the item after it. The module keeps the items still to run as
`agenda`, a stack with its head first: an action takes the head and puts in its
place what the row sends. `TakeInput` is the only way in, when the agenda is empty and no
scan is owed. The coordinator is `scan` (its chart's state, the mode of the pass,
whether a full scan was asked inside it, the waiters still to have a turn), with the
input's mark `scanOwed` and the latch `readmitted`. A `TurnItem` on the agenda is the pass
itself: a readmission puts the move's cascade in front of it, so `PassEnds` comes
behind that cascade, as the completion of the chart's `awaiting_readmit` does.

`ranked` is the order of the `waiter_seq` numbers, `reserved` a row's reservations
by bucket, whether its run holds them or they were kept after it. The tests for capacity
(`Used`, `Fits`, `LoadBlocked`, `ResourceBlocked`, `Admissible`) and the release of
a run (`Unreleased`, `Kept`, `Spent`) are the functions of `capacity.py` and
`oracle_state.py`. `Moves` is the readmission's move with its box rules, its
settlement and its wakes.

Left open: a start's condition and window (`StartIgnored` may take any unforced
attempt), and whether a member's move ends its box (`BoxRules`). Left out: gates
(resources tested and never acquired); a catalog replaced under waiters, and the excess that
frees; ON_ICE and ON_NOEXEC beyond the moves they make; what a run window decides for a start it
postpones or for a waiter that left the queue; nested boxes; several machines;
the bound on nested starts, which a condition that names its own job reaches.
A row's run number is not kept: a settlement is told to be early by `done`, and
the comparison of run numbers behind it is the code's second line.

`reblocked` and `asked` are observers, read by no action. `reblocked` is the
case the decision log accepts (DL-247, DL-255): a box that starts makes its
queued members block again, and owes no scan.

### 2.8 LoopClock

One pass of the loop is one step: `Work` is what `_next_work` returns, over the
queue (each input under its heap key), the oracle's deadlines and the scheduler's
ticks, and `TakeInput`, `TakeTimer` and `TakeUpdate` are what `run_until_quiescent`
does with it. An input's batch fires its own time half first (`TimeHalf`). `NowOf` and
`Noted` are the stamp's floor and the comparison of the clock with its last reading,
which rebases the keys of queued inputs when it stepped back. An update replaces the
ticks of a job (`NewPend`); a restart's sweep finds the missed ticks from the records'
frontier (`MissedTicks`), stamps what the catch-up finds (`EndStamp`) and records the
drops when the recovery ends. `pos` is what the records say of time, kept apart from
the live frontier, since a restart has only the first.

Left out: the calendar's arithmetic (`autocal.py`, `timezones.py`: the ticks are
given), what a tick's own job does, time zones, virtual clocks. Three consequences of
the code that the properties have to allow for are worth knowing. A tick queued when the
clock steps back is rebased with the rest of the queue and is then admitted under another
instant than its own, so after a crash the same tick may fire again (`slipped`). The
ticks an update replaced are owed by nobody once a crash follows its application, as
the frontier is past them (DL-427; `cut`, `since`). A step back during a recovery rebases
the catch-up too, so an overdue deadline may kill a run whose end is recorded
(`EndBeatsDeadline` excepts it).

### 2.9 JobBox

An input of the oracle is one macrostep with an `agenda` of items, as in `QueueScan`.
A moment (`Program`) reads its gate when it pops, and the item names are the names of
`oracle_cascade.py`'s handlers: `Door`, `BoxRecompute`, `WalkUp`, `IceMoment`,
`BoxRunEnds`, `BoxEnds`, `Notice`, `AutoHold`, `WindowPass`, `AfterInject`, `Retry`.
A condition is a set of alternatives, each a set of atoms, evaluated over the rows
with iced predecessors as the code does. A catalog (`cat`) is a variable that never
changes, so one run has one initial state for each catalog, and each catalog says
which inputs meet it.

Admission's entry and completion run no cascade in between and are one step. Left out:
capacity and QUE_WAIT, exit-code and lookback conditions, global variables, disarming,
alarms, the deadline of a run (it is a kill on RUNNING), and the days of a window (its
side is what the clock says). `seen` is an observer: what an operator set by hand, and
a box whose member an operator took off ice, answer for nothing until the engine moves
them. `OverrideBeatsWake` speaks of overrides that name jobs of the box that are not on
ice.

### 2.10 Update

`estate` says what the plan changes: the touched, removed and boxed jobs, the watches,
the marks before and after. The store keeps the intent (`update`, `stops`), the rows,
each attempt's place in the open table, its plan, and the starts that wait; the memory
keeps the rest. A handler leaves the calls it has still to make on the `agenda`, and
only a crash comes before it is empty: so an engine may die between the application and
any of the calls that carry it out (`Advance`, `BoxStarts`, `CommitKept`,
`ResumeCancelled`, `Release`, `Answer`). `Keeps`, `MayBeDown`, `NotesEnd` and `StopDone`
are `keeps`, `keep`, `ended` and `stop_done`; `Holds` is the filter; `PlanFor` the
interruption rule; `Restart`, `CatchUp`, `OwedStep` and `Look` are the fold, the
catch-up, the owed step and the first look at a resumed stop set. An attempt's life
in the tier is four steps: live, stopping, busy (ended, its stop not finished), ended.

Left out: the plan's preparation and its checks, the order of a box's members, the
time the request waits in the queue, a second request while one stops (it is refused),
a drain's deadline (a crash stands for it). An attempt may be replaced once, where the
code's limit is five.

### 2.11 FileWork

A content stands for its hash, its object and its work key. Each transaction of the
ledger and each file operation is one step, and `arch.at` and `proc.at` say where the
run of either role is: so the processor may finish work between the archiver's look at
the handover (`CheckHandover`) and its unlink (`Unlink`), and either may die
(`ArchiverDies`, `ProcessorDies`) with the ledger ahead of the files. A run that stops on
an error, a refusal or a busy ledger leaves what a death leaves, so these are the same
action. `PROCESS` is the chart of a work row, `Move` is `_move`, and a batch of one or
of all is chosen by each run. The producer (`Deliver`) may use a name again; the handler
acts at most once in a call and tells the truth, or says that it cannot tell
(`Truthful`); the operator looks without a lock and rules later, on what he saw
(`Look`, `Rule`).

A listing of a directory is one step. Left out: stage files, damaged files and schemas and the
refusals they cause, the order "newest" (the contract calls it diagnostic), the copy's
own length (a file is complete when it appears).

### 2.12 Statechart and Executor

`Statechart` has the pure part of `state_machine.py`, over a declaration as a record of
functions: the tree (`Index`, `Owner`, `ExitOrder`, `EntryOrder`, `Configuration`), the
selection (`Select`, in the steps of `_select`: `Found` has the walks, then `Kept`,
`Yielded`, `WithoutConflicts`, `Surviving`) and the checks of a declaration (`WellFormed`,
`FallsThrough`, `Warned`). `Executor` has the state of the class of that name: `inst` its
instances, `pool`, `work`, `deferring`, `path` and `onpath` under the source's names. A
microstep is one action (`StepStart`, `StepContinuation`, `StepCompletion`, `StepStale`,
`StepEvent`, with `Execute` as `_fire` and `Defer` as `_defer`); what happens between two
macrosteps is `Release`, `TakeRoot` and `RunEnds`; the tier's calls come between two runs,
since each of them raises inside one. A link of an ancestry is an object in the code, told
apart by identity, and is known here by the microstep that made it. `issued` and `handled`
number the events and count their decisions; they are observers.

Guards read one fact of the instance, or count one step of the ancestry, and partition
their cases, as the code's contract asks (`GuardsPartition`). An error ends the run and
the model stops there: what the failing microstep wrote before is left out, as the tier
dispatches nothing more to it. Left out: `fork`, `resolve` and `explain`, which work on a
copy; the tier's hook, payloads and intents; wait states and exclusions of the declaration
checks; coverage. The charts of the other modules are translated from their own tables:
this module is of the interpreter, and its declarations are made up.

## 3. What the runs check

| run | question | distinct states, time |
|---|---|---|
| `attempt` | are the wrapper's records true; is anything of a command alive after its close; is a clean shutdown clean; is the abstract life implemented; does a drain end; is an attempt that is over let go? | 566 thousand, 130 s |
| `turn` | *violated*: section 6 | |
| `engine` | never two attempts of a job, none twice, no run lost, nothing launched in a drain; does a wanted run get a live attempt from wherever the engine is? | 243 thousand, 90 s |
| `overwrite` | *violated*: section 6 | |
| `subscription` | each input once and in order, nothing retained passed over; does a client that reads get every record above its seam? | 289 thousand, 25 s |
| `admission` | an id admitted once, an answer is the durable decision, a command applies at its revision; is every try answered while its engine lives? | 429 thousand, 30 s |
| `queue` | is a resource ever over its amount, a waiter that could start left between inputs or overtaken by a scan, a run's units released by another run's end? | 516 thousand, 15 s |
| `clock` | is each tick taken once, does an end found after an outage beat a later deadline, does a deadline go before a later command and a launch, do commands keep their order, under a clock that steps back? | 0.8 million, 40 s |
| `jobs` | does any input leave a box running behind its members or behind a window nobody decides, a job waiting that it let go, a member of an ended run alive? | 3.2 million, 90 s |
| `update` | does an update apply too early, does anything go on under the old definitions, does it go through, does what it kept back go on after it? | 710 thousand, 95 s |
| `files` | is a delivery ever lost or acted on twice, is the queue kept, does the handover converge, whoever dies? | 1.1 million, 50 s |
| `executor` | does every microstep end in a legal configuration with no completion lost or stale, is each event decided once, are the cached counts exact, do the checks of a declaration promise what a run shows? | 279 thousand, 95 s |

The properties, and what would break them:

* `RecordMeansLeaderDead`, `CompletionBeatsParentDeath`: the order of the two
  tests in the wrapper's wait loop, and the wait after the KILL.
* `ClosedMeansGone`: a look that misses a process the cookie finds; a
  record taken during a ladder; a held group let go too early; a wrapper that
  launches after the engine gave up waiting for it.
* `CleanShutdownLeavesNothingOpen`: a lifecycle that leaves before the last
  attempt settled.
* `StopsComeToAnEnd`: a settlement nobody posts, a held group nobody polls, a
  ladder whose end is lost: a drain that never ends, an attempt never forgotten.
* `DrainedNeverNatural`: a restart that does not know an attempt's end came
  from the drain's stop.
* `OneOpenPerJob`, `DispatchedOnce`, `RunNeverLost`, `WantedRunGoes`: a
  start released too early, a plan taken twice over a restart, a decided start
  that a snapshot forgot, a replacement made in a drain, holds that wait for each other.
* `InputsExactlyOnce`, `NothingRetainedIsLost`, `RecordsArrive`: the seam, the
  backfill's cut, the live filter, a feed ended by an overflow and taken for live.
* `OncePerId`, `AnswersStand`, `AppliedAtItsRevision`,
  `RequestsAreAnswered`: the decision index's fallback to the store, its
  eviction, the fingerprint compared on a retry, the revision a restart replays, a
  decision whose waiters nobody wakes.
* `NoneWaitsInVain`: something that frees units or lifts a block and asks
  for no scan; a pass that moved a waiter and is not begun again; a start that takes load
  and owes no scan (it may turn a resource waiter back into a load waiter, and lift
  the block it was); a full scan asked inside an admit-only one and merged into it.
* `NoneOvertaken`: a pass in another order than the queue's.
* `UnitsStayWithTheRun`: a settlement that comes after the next run's start; units
  counted twice or not at all.
* `InDueOrder`: keys left behind when the clock steps back; a batch that fires a timer
  with a later input; a start the recovery owes launched before its own deadline.
* `EveryTickOnce`: a tick consumed and not queued, a replaced calendar that repeats or
  drops an instant, a sweep that records what was admitted.
* `EndBeatsDeadline`: an end found by the catch-up and stamped with the restart's time.
* `NoBoxHangs`: a way a last member gets done that visits no box; a
  nested box's member outside its window that no pass met.
* `TerminatorsEndTheirRun`, `OverrideBeatsWake`, `IdleBoxAgrees`: the order of a box's
  visit, its terminators and its members' wakes, in a box that starts again.
* `NoWakeLost`: a condition made true inside a batch that wakes nobody after it.
* `StopsFinishedFirst`: an update that applies at the record of an attempt whose group
  lives, or before a restart has fed what it recovered.
* `NothingGoesOnUnderTheOld`: an outcome whose plan is chosen too early, a start the
  filter lets through, one attempt released twice by the application.
* `UpdateGoesThrough`: a restart that finds every stop ended and never looks; a start or a
  replacement that the filter kept back and the application does not release.
* `EffectOnce`: a ruling on a row that was claimed again since it was seen; a claim
  whose process died taken for fresh work.
* `NothingLost`: an unlink that takes a second delivery under the same name; a source gone
  before its work is handed over.
* `OldestFirst`: fresh work taken before work in doubt.
* `HandoverConverges`: a repair that leaves a TODO of decided work, or does not publish
  one that a death left out.
* `RestsInAConfiguration`: rows of two regions that leave or enter one state twice; a
  completion taken for a later occurrence of its state, or never queued.
* `EventsHandledOnce`: an event lost or repeated between pool, worklist and deferred
  queue; a queue of two forgotten once its first event was released; a head nobody defers
  any more left there when the run ends, of whichever instance.
* `ChecksSuffice`: a hole one region leaves and the declaration check overlooks, because
  another region takes the event; two regions' rows that meet badly and no warning names.
* `CountIsExact`: links of an item that is over still counted for the next one.

`OneOpenPerJob` speaks of attempts that are unsettled; with `ClosedIsGone` it
gives what an operator cares about: two commands of one job never run at once.

### 3.1 Bounds, and why they are enough

* *Attempts.* `AttemptTier` shares nothing between attempts but the lifecycle,
  and one attempt with two crashes has every order of its handlers.
  What depends on several attempts is the count of unsettled ones; the theorems
  `CleanShutdownIsClean` and `ClosedIsGone` cover any number. Two attempts exceed
  what TLC does in a few minutes.
* *Crashes.* Two, so that an engine dies during the catch-up that another
  engine's death caused. A third meets no store the second did not.
* *EngineLoop.* Two runs of two attempts: a run, its replacement, the next run
  held behind either. Three runs of one job (6.9 million states) and two jobs of one
  run (5.7 million) were checked once and are too slow to keep, as was the inductive
  invariant of the proofs (10 million states).
* *Subscription.* Four records are an input, its decision, a dispatch and one
  more, or a snapshot's own record; a budget that one large line fills; two
  connections. The safety properties were checked once with five records (2.2 million
  states).
* *Admission.* One id and two clients with two tries each and two records: a
  retry against a decision, against its pruning, and against the other client's
  use of the id. The safety properties with three records (5.3 million states), and the
  inductive invariant of the proofs with two ids, one client of three tries and four
  records (16 million states), were checked once.
* *LoopClock.* Three instants, one step back, two crashes; two jobs whose ticks meet at one
  instant, one of them changed by the update; two runs, the end of one starting the
  other. The same with four instants and one crash (1.8 million states) was checked once,
  the inductive invariants of the proofs with it.
* *JobBox.* Four jobs are a box in a box with a member in each. Ten catalogs of
  conditions, overrides, terminators, windows, ticks and switches, each with the inputs
  and subjects that concern it; two nested starts of a job, where the code allows more.
* *Update.* Two jobs, so that two stops end in either order, and four plans. One
  command, tick or timer beside the update's own moves, one crash, and drains and
  crashes only while an update is under way: before and after it, the engine is
  `EngineLoop`'s. `MaxRuns` is two: the run an update stops and the one that follows it.
* *QueueScan.* Three jobs: a waiter, one it blocks, and one that holds the units.
  Each catalog is a case: all alike; units kept after a failure or for ever, with a
  chain of starts; spent units; priorities on load; on load and a resource; the
  same with units kept; a start that sends a resource waiter back to its load check;
  a box with two members; a queued member whose box stops. They are constants of one
  run, so each initial state is one catalog.

* *FileWork.* Two names and two contents are a duplicate, a second work and a reused name;
  two claims of a row are a claim that died and the one after it, which a late ruling must
  tell apart. The safety properties were checked once with three deliveries and two deaths
  (12.9 million states), and the theorems hold for any.
* *Executor.* One tree: a composite with two regions, another inside one of them,
  final states on every level. 304 estates of declarations over it that pass the checks: any two of
  ten rows for one event (leaving a region, the shared state, a state that is entered
  again, staying, refusing); rows at any of six states and none at the root; one or two
  deferrals of two events, one of them a timer's, under either overflow policy with a queue
  of one, and some of them with a queue of two, where an event waits behind a head; one
  instance that sends to itself and two that send to each other until a step is twice in
  the ancestry; and two that defer the same event with queues of two, moved by one
  macrostep, so that both have heads to release, each with an event behind it, or one has
  while the other's is still deferred. The tier posts while fewer than two events were raised (the
  rest are sent by actions) and adds two instances, one forgotten and added again
  included. So an event meets every pair of rows in the configurations a run leads to, and
  a queue is full.

`CHECK_DEADLOCK FALSE` is set where the system does stop: a wrapper exits, a
client is done, a bound is reached.

### 3.2 Fairness, and why the code justifies it

* *AttemptTier.* Weak fairness on each handler of the event loop, which takes
  ready callbacks in turn; on the wrapper's steps, which wait for nothing but
  time; on the delivery of KILL; on `Leave`. None on the command's exit (a
  command may run for ever), the oracle's kill, the drain's request or deadline, a
  crash or a restart. `StopsComeToAnEnd` therefore says that the ladders end the
  drain, not the deadline.
* *EngineLoop.* Weak fairness on calls and handlers. Strong fairness on
  the end of a stopped attempt, for a crash interrupts it and the restart takes it up
  again; `AttemptTier`'s `StopsComeToAnEnd` is the justification. A held group is
  assumed to go in the end: the code waits for it, too.
* *Subscription.* Weak fairness on the handler and on a client that reads.
* *Admission.* Weak fairness on the loop taking its queue, the commit and the
  reply. None on retries.
* *Update.* Weak fairness on the loop's next step, whichever it is, and on the end of
  some stop that was asked for, which `StopsComeToAnEnd` gives. None on the end of an
  attempt nobody stops, a retry, a drain, a crash or a restart: so the property is that
  the update applies unless the engine goes down, and that its client is answered.
* *FileWork.* Weak fairness on the archiver: the estate's schedule runs it again and
  again, and a run that does not die goes on. Nothing of the processor, its handler, the
  operator or the producer: the handover depends on none of them.
* *QueueScan, LoopClock, JobBox.* Their properties are safety properties: what must
  not wait is stated of the state between two inputs.

## 4. What is proved

For every value of the constants: any attempts, jobs, runs, catalogs, calendars, request ids,
clients, names and contents, any length of the log and any number of crashes and restarts:

| theorem | says |
|---|---|
| `WrapperTypeCorrect` | `WrapperTypeOK` |
| `RecordsAreTrue` | a record of an end is written only with the leader dead |
| `CompletionsStand` | a completion is never recorded as a kill |
| `TierTypeCorrect` | `TierTypeOK` |
| `CleanShutdownIsClean` | a recorded clean shutdown left no attempt open |
| `ClosedIsGone` | without `turn`, a closed attempt has nothing left of its command |
| `DrainedIsNeverNatural` | an attempt the drain recorded as stopped never ends as a natural completion |
| `TierKeepsTheContract` | without `turn`, `AttemptTier` implements `AttemptLife` |
| `EngineInvariant` | `EngineInv`: the store, the memory, what waits and the calls to come agree |
| `OneOpenPerJobHolds` | two attempts of a job are never open at once |
| `DispatchedOnceHolds` | nothing is dispatched twice, and nothing in a drain |
| `RunNeverLostHolds` | without overwrites, a run the oracle wants is always carried by something |
| `InputsReadOnce` | a client reads each input once, in order, and misses only what a gap marker told it of |
| `RetainedIsRead` | a client passes over no record of its stream that the store still holds |
| `AdmissionInvariant` | `AdmissionInv`: the frontier, the snapshot and the index are what the log says |
| `OncePerIdHolds` | an id is admitted once while it is retained |
| `IndexIsTheStoreHolds` | between two inputs the index knows no deleted decision |
| `AnswersStandHolds` | an answer is the durable decision of its command |
| `AppliedAtItsRevisionHolds` | a command is applied only to the revision it was composed against |
| `TypeCorrect` | `TypeOK` of the queue: the rows, the units, the agenda and the pass |
| `UnitsStayWithTheRunHolds` | a run keeps its units until it ends, and no resource is over its amount |
| `NoneOvertakenHolds` | a scan admits no waiter past one ahead of it that could start |
| `NoneWaitsInVainHolds` | without a STATUS STARTING, no waiter that could start is left between inputs |
| `TicksInvariant` | `TickInv`: where a tick is, the records and the scheduler agree |
| `EveryTickIsTakenOnce` | a tick is admitted, recorded as dropped or still to come, and acted on once |
| `DeadlinesInvariant` | `DueInv`: what learns of an end in an outage is due in time and before an exit |
| `WhatIsDueGoesFirst` | a deadline goes before a later input and a late launch, commands before an exit |
| `AnEndBeatsALaterDeadline` | an end in an outage beats a later deadline, unless the clock stepped back |
| `UpdateInvariant` | `UpdateInv`: the store, the tier, the queue and the calls to come agree about an update |
| `StopsAreFinishedFirst` | an update applies after every stop is finished and every recovered end is fed |
| `NothingGoesOn` | what an update changes makes no plan and starts nothing under the old definitions |
| `WorkInvariant` | `WorkInv`: the directories, the ledger and the roles agree |
| `EffectOnceHolds` | the handler's effect on a content happens at most once |
| `NothingLostHolds` | a delivery is in the inbox until it is archived and handed over |
| `OrderInvariant` | `OrderInv`: what is older than claimable work is decided or in hand |
| `OldestFirstHolds` | work is handed to the handler after all that is older is decided |

*Assumptions:* `FaultsAssumption`, `TierAssumption`, `EngineAssumption`,
`SubscriptionAssumption`, `AdmissionAssumption`, `QueueAssumption`, `ClockAssumption`,
`UpdateAssumption` and `FileWorkAssumption`: types of the constants, and in a catalog that
a job off the machine puts no load on it and a terminator is a member. Where a theorem
needs more it says so in its statement: no `turn` fault, no overwrites, no STATUS STARTING
(section 6 has what each of them breaks).
Sets of attempts, jobs, ids and contents need not be finite. Four kinds are, as in the
code: the names an inbox holds, since receipts are counted, the jobs of `QueueScan`, since
their units are summed, the jobs and runs of `LoopClock`, since a pass puts what it found
into a queue one by one, and the jobs of `Update`, since a handler calls for them one
after the other.

*Wrapper.* `RecordMeansLeaderDead` is not inductive: that the leader is dead at
`recording` follows from where `main` was. `WrapperInv` adds, for each
attempt, that a verdict is there exactly between its choice and its record, that
nothing runs before the launch, and that an outcome chosen for a lost lifeline
was chosen with the leader alive.

*Tier.* `TierInv` ties the three places an attempt is kept. `RecordOK` relates
the fields of the in-memory record (a ladder implies STOPPING or ENDED, an
armed timer is not newer than the generation). `StoreOK` says an attempt has an
outcome exactly when it is closing or closed. `Linked` relates the two: what is
live in memory is open in the store, an ended attempt has its outcome there.
`InputDue` keeps a plan's queued input tied to an ended attempt. `Undisturbed`
is the shape of a clean shutdown between the lifecycle's choice and `Leave`.
Each row of the chart has a lemma (`...Moves`) saying how it moves a record, so
that a handler's proof cites the rows it composes and not their bodies;
`HandledStep` does the part all handlers share.

*Gone.* `ClosedMeansGone` needs facts that cross four parts. `Facts(a)` says
that the spawn.json the tier has seen was written by a wrapper past its launch;
that a wrapper the engine has not named yet counts as left; that once an attempt is over
its adapter creates no wrapper that runs (it was aborted); and that a ladder
at `finishing` has had its verdict, unless it is held. The last is what a
handler between the last step and the callback breaks, which is why the theorem
has `"turn" \notin Faults` and why the run `turn` finds the violation.

*Stops.* `DrainedNeverNatural` needs only one fact more than `TierInv`: an attempt whose
stop is recorded and that is still without an outcome (`StopStands`) is STOPPING in the
memory, or the engine is down or has still to observe it after a restart, which restores
the stop before it reads anything. From STOPPING no row of the chart ends an attempt as
natural, whatever was read and in whatever order: `Ends` says so of each row, and the
handlers compose rows. It holds with every fault, `turn` included.

*The contract.* `LifeInv` is `GoneInv`, `StopInv` and that a natural outcome was read
from a record (`ReadFromRecord`): a wrapper that wrote its record starts nothing any
more. Each step of the tier moves the stored row of one attempt in one of five ways
(`StoreStep`: untouched, opened, decided, shut, paid); each of these, with `LifeInv`, is
the action of `AttemptLife` of that name or a stutter, and each step of a wrapper is
`Run`, an end of processes, or neither. What `AttemptLife` asks beyond the row is that a
close, also one made with the outcome, finds nothing of the command, and that
only an open attempt starts anything; there the proof of *Gone* is used, and with it its
assumption on `turn`.

*Engine.* `OneOpenPerJob` says nothing of why a second attempt would not be opened, so
`EngineInv` has six parts. `StoreOK`: a plan is there only after the outcome, and a
replacement is not dispatched while its predecessor's plan is still to be carried out.
`TierOK` ties what is open in the store to what the memory holds: open is live or
stopping there, and a closing attempt has a ladder, a held group, a place in the
catch-up, or the end of its ladder as the next call. `RecoveryOK`: nothing is launched
before the barrier. `WaitsOK`: a start waits in one place, once. `AgendaOK` speaks of the
calls that a handler has still to make, of which the first may assume less than those
behind it. The heart is the lemma `NotBlocked`: a job whose dispatch is not blocked in
the memory has no open attempt in the store. `DispatchedOnce` follows from `StoreOK` and
`AgendaOK` step by step.

*Runs.* `RunNeverLost` is not inductive because what carries a run is handed on in
several steps, in which two calls, a record and the memory disagree. `RunsInv` adds to
`EngineInv` that a run has at most one carrier, that an attempt followed by a replacement
is over, and what the memory says of a stop: an attempt that was stopped for good
(`killed`) is of a run the oracle does not want, so an attempt that ends while its run is
wanted was interrupted and is owed a plan. The assumption is needed: where operators
overwrite, TLC refutes `RunNeverLost` in four states, since the status set makes the
oracle want a run whose start was let go, and nothing carries that.

*Subscription.* Both theorems are about what the client reads next, so `FeedInv` speaks of
each line on the wire as if it were that one. A record is `Settled` when nothing is owed of
it any more (it is read, pruned, not on the wire, or before where the client began).
`LineOK` says that all before a line's record is settled or on the wire before it, and
`StreamOK` (`Accounted`) that an open stream still holds whatever is not settled: on the
wire, in the backfill, in the backlog, or to be read from the store. The second is what
makes the first hold of the next line sent, and it is where the seam matters: the backlog
has all above it from the moment of the subscription, and the backfill all up to it.
`CursorOK` and `BaseOK` say that what lies behind a cursor is settled, which lets a client
come back with it; that holds because `Cut` is positional. `LineInputOK` and
`StreamInputOK` say the same of the input indexes, where an index below a gap marker is
`Known`; `PastCursor` and `OrderOK` are what forbids a second reading. A cursor ahead of
the store is the case that `Skipped` and the second alternative of `CursorOK` are for. The
number of connections, the prunes and the size of the backlog play no part.

*Admission.* The log is a sequence with a deleted front and the properties count over
it. `AdmissionInv` says that an input is ahead of its decision by at most one record and
only while an input is in hand; that the snapshot holds the frontier and the revision of
the records up to it; and that the index holds decisions by their place among all
decisions, so that the eviction by that number forgets what retention deleted. A decision's
place decides whether it is retained, which is what `OncePerId` needs of a retry that
finds nothing.

*Ticks.* `EveryTickOnce` counts what was done with a tick over all the lives of the
engine, of which an engine remembers little: its own consumed instants (`consumed`),
and after a crash the records' frontier with the ticks recorded at it. `TickInv` says
where a tick can be. `OnceOK`: it is with the scheduler, queued, missed or acted on, never
two of these. `PendOK` and `OldOK`: what the scheduler still holds is later than
its last consumed instant, and what is queued or done with is not, which is what lets an
update lay a new calendar over the consumed part. `RecordsOK`: a tick acted on lies
behind the frontier, or at it and among its ticks, so that a sweep does not find it
again. `AccountedOK`: a tick since this engine's anchor is in one of these places. A tick
that a backward step moved to another instant is excepted (`Fresh`), as is, after a
crash, what an update cut off. `NotedDerived` and `RestDerived` say what a queue keeps
when a backward step rebases it.

*Deadlines.* `InDueOrder` follows from the choice of the least key (`TakenHead`) and
from `TickInv`, for every step but the exit of an update, whose place behind the commands is
`ArrivalOrder`. `EndBeatsDeadline` needs a fact about the past: that a live run which
ended in an outage has an input that learns of its end. `OutageOK` keeps one in the queue,
the catch-up or a completion, stamped no later than the end or the last record, and before
any exit of an update (which would let the recovery pass). `ForwardOK` is what a clock that
never stepped back is good for: no stamp and no key is ahead of it, so nothing is
rebased (`Forward`). A run's deadline is unique (`TimersOK`), so a kill by an earlier
one is no excuse.

*Updates.* Both theorems about an update say what a step may not do; `UpdateInv` is why.
`StopsFinishedFirst` is decided long before the update applies: it needs that a job leaves
the open set only when its stop is finished and its outcome is kept or planned (`StopsOK`),
so an end in the queue, or noted by a catch-up (`MeanwhileOK`), is of a stop that is
finished (`Fine`, `Ended`); and that whatever a restart found is queued before any such end and
before the first look (`FoundFirst`), so that the step that finds the open set empty finds
nothing recovered behind it (`NothingFound`). `Due` says what a call still on the agenda
relies on, `LastOK` that the application comes last in its step, and `OnceOK` that it
commits no outcome twice. `NothingGoesOn` needs `AttemptOK`, which relates an attempt's
place in the open table, the tier, its plan and what is kept back: an attempt that has ended
in memory while still open in the store is kept back, so no other handler makes its
plan. `RunOK` and `PendingOK` say that a start is of a new attempt. Each action has a lemma that
gives both the invariant and `StepFits`, what it does to plans and lives; the properties
are read off those. `Onward` is the part all steps share: a finished stop stays so until
the update applies, across a crash as well.

*Files.* `Stays` is the lemma the rest leans on: work that is known, decided or handed
over stays so, and an object is never removed; so what the archiver read about a handover
still holds when it unlinks. `ReceiptsOK` gives a received receipt its source, `ArchiverOK`
what a run has in hand. `ProcessorOK` and `EffectsOK` tie the number of effects to the
state of the row and to the call in progress. `SawOK` is what the comparison of the attempt
buys: a row the operator saw UNKNOWN is not RUNNING under the same attempt, and if it is
UNKNOWN under it what he found out about the effect is still true.

*Queue.* `OldestFirst` needs the order kept by both roles. `OrderOK`: receipts are
numbered as they come, without ties, and every work row is older than every receipt still
to be archived, so a new row is the youngest (`CommitOrder`); that holds because the
archiver takes what is received from the oldest on (`SelectOK`). `HandoverOK`: no row is
admitted before all older ones have their TODO or are decided, because a run repairs what
the last one left before it archives; so the listing of a processor that sees a TODO
sees those of all older work too, however the two interleave. `QueueOK`: what is older
than fresh work in the processor's hands is decided or in its hands too, and is dropped
from them only decided (`QueueKept`). `AdmitNumbers` is the one place that counts.

*Scan and capacity.* The three properties of `QueueScan` rest on `TypeOK`, whose part `Shape`
keeps the agenda dispatchable, and on one invariant each; TLC checked each of them on the run's
catalogs first. `TypeOK` makes `Total`, the sum of a bucket over the jobs' rows, a
number: what it loses or gains when one row changes (`TotalPlus`, `TotalSame`,
`TotalMost`) is proved by taking a smallest set of jobs that breaks it, since the prover
has no induction over an operator. `SortedWaiters` is a chosen order function, and
`OrderExists` builds one for any length of queue.

`UnitsStayWithTheRun` needs `UnitsInv`: a settlement that releases and is not marked done
stands for a row that is neither live nor queued (`EndedRuns`). That is what
`SettlementOwed` asks before a start: a job whose settlement is still on the agenda settles
first, and the item that comes later is `done`, so it releases nothing of the new run.
An admission adds what it fits beside all other rows, so `NoneOver` comes with it.

`NoneOvertaken` needs `PassInv`: no job has two ranks (`Once`), and while a pass
stands between two turns, the turns left are the end of the queue as it is now, and
every waiter before them was looked at and did not fit, or its box is not idle where the
pass cancels (`PassLooks`). A waiter that moves sets `readmitted`; the pass begins
again before anything is read from the list, which is why no other item may come between
two turns.

`NoneWaitsInVain` needs all of that and five facts more (`WaitInv`). `Awaited`: with no scan
coming, a waiter that fits is behind a load that owes one (`scan_owed`), and then a
waiter with a priority is in the queue; `OwedScan` asks for both. `Asked`: a full scan
asked in the input is running or recorded in the pass, or no waiter's box is idle.
`RankMeansWaiting`: a rank belongs to a waiting row, or to one that has left and whose wake
is still on the agenda. `ReservedWithin` bounds a reservation by its demand, so
that an admission over units a row has kept frees none of them; `ForcedFirst` says a forced
start, which no gate holds back, is the only item of its input and meets no scan asked
before it. Each item then changes nothing a waiter is tested by (`FitCalm`), or puts the
wake that asks for a scan on the agenda, or takes units. The last is the hard case: more
load can let a waiter go, since a resource waiter that no longer fits the machine blocks
nobody. That needs a waiter that does not fit the
machine any more, or a new one that does not (`Pressed`), and then a waiter with a priority
is there for the owed scan.

*Model-checked only:* every liveness property (fairness and ENABLED are out of the
prover's reach); `UpdateGoesThrough`, whose third part is safety but
rests on every release having been called; all of `JobBox` and `Executor`. The plan has the ones worth a proof.

## 5. What is not modelled

Section 1.2, and within the modelled parts what sections 2.1 to 2.12 list. The
components of `PROJECT.json` say for each part what is partly there. Every hazard of
`PROJECT.json` has a property.

## 6. Where the code and its words differ

* **A record taken in a finished ladder's turn** (run `turn`;
  `runner_attempts.py:829`). The ladder's task looks at the state for the last time, finds
  the attempt not ended, arms the record timer and ends. Before its callback runs,
  a `status_recorded` already due is handled; the ladder still counts as
  pending, so nobody looks at what is left, and then the callback closes the
  attempt. A descendant of the command may be alive. The comment at lines
  758-760 relies on the ladder taking the verdict at its end.
* **A STARTING overwrite launches after a restart** (run `overwrite`;
  `runner_startup.py:1495`). A start is held behind an unsettled attempt, a later input
  ends its run, and it is closed with no launch when the hold is released. An operator
  then sets the row to STARTING. The start is still among those a replay of the tail
  finds and nothing covers it, so the next restart launches it. (A start its own input
  ended is left out by the replay and stays refused.) `docs/glossary.md:88-90` says an
  overwrite does not request a launch.

Four more were met and have no run:

* **A cursor just below the first retained input** (`runner_journal.py:1504`). The gap rule
  compares input indexes only; the decision and dispatches of the cursor's own input may
  be pruned, are never sent, and no marker says so. `docs/control-protocol.md:865,947`
  promise what the client missed. `NothingRetainedIsLost` speaks of what is retained.
* **A second crash loses the ticks of the first** (`runner_startup.py:1518`). The sweep finds the missed ticks from the records'
  frontier and keeps them in memory until the recovery ends. An overdue timer admitted in the
  recovery moves the frontier; if the engine dies before the drops are recorded, the next
  sweep begins behind them. `docs/blocks/scheduler.md:51` says missed ticks are
  dropped and journaled. `EveryTickOnce` speaks of the ticks since the scheduler's
  own anchor for this reason.
* **A STARTING overwrite of a waiter wakes no one** (`oracle_reads.py:304`). A move
  from QUE_WAIT to STARTING asks for no scan, because "the scan already running" made
  it. An operator's STATUS STARTING makes the same move with no scan running, so a waiter
  it blocked stays queued though it could start. `oracle.py:161-162` says a job leaving
  the queue wakes the queue. No input of `QueueScan` injects it.
* **A restart takes a watch up before the update applies** (`runner_update.py:521-527`,
  `runner_startup.py:1458`). `runner_update.py:17-19` has a cancelled watch launched again, or
  closed, after the application. A restart while the update stops leaves file watches to
  the fold, which takes them up under the old definition, a removed job's too, and the
  application then knows nothing of them. `Update`'s properties except watches for this.

## 7. The plan

Done, in this order: `Wrapper`, `AttemptTier` with `AttemptLife`, their proofs,
`EngineLoop`, `Subscription`, `Admission`, `QueueScan`, `LoopClock`, `JobBox`,
`Update`, the proofs of `Admission` and `EngineLoop`, `FileWork` and its proofs,
`Statechart` and `Executor`, the proofs of `Subscription`, of the contract
(`TierKeepsTheContract`), of `RunNeverLost`, of `LoopClock`, of `Update` and of `QueueScan`.

Modules to come, the most important first:

1. `Store`: appends, snapshot, tail and the prune floor from the open table
   (`runner_journal.py`, `runner_store.py`), the abstract store of `EngineLoop`
   and `Admission` as what it implements.
2. `FileWatch`: the watcher's two readings and its stop (`runner_adapters.py`), and
   with it the watch that `Update` abstracts.
3. An abstract box (its status as a function of its members') that `JobBox`
   implements; gates and catalog swaps in `QueueScan`.
4. The access map's revocation.

Proofs to come: `KeptBackGoes` for any plan of an update; that a microstep keeps a legal
configuration (`RestsInAConfiguration`) for any declaration; the boxes of `JobBox`.
