------------------------------ MODULE QueueScan ------------------------------
(***************************************************************************)
(* The queue of jobs that wait for capacity, and its scan                  *)
(* (src/dsl41/capacity.py, scan_chart.py and the start family of           *)
(* oracle_cascade.py).  A start that does not fit waits; whatever frees    *)
(* capacity or lifts a priority block asks for a scan, which readmits the  *)
(* waiters in order, one turn after another, and begins again after a      *)
(* waiter that moved.                                                      *)
(*                                                                         *)
(* One input is one macrostep: it leaves items on an agenda, and an item's *)
(* whole cascade runs before the item after it (statechart-engine.md 5).   *)
(* No other input comes between.  A condition, a run window and a box's    *)
(* overrides are left open: an attempt finds its gates open or shut.       *)
(* STARTING and RUNNING are one status here.                               *)
(***************************************************************************)
EXTENDS Naturals, Sequences, FiniteSets, FiniteSetsExt, SequencesExt

CONSTANTS
  Jobs,      \* the jobs that are not the box
  Resources, \* named resources
  Machine,   \* the load bucket of the one sized machine
  Catalogs,  \* the catalogs an engine may open with
  Injects    \* the statuses an operator or an attempt's end reports

Buckets == Resources \cup {Machine}

\* An unset priority sorts behind every declared one, and reads as 0.
Unset == 99

Policies == {"completion", "success", "never"}

Catalog == [
  prio       : [Jobs -> 0..Unset],
  demand     : [Jobs -> [Buckets -> Nat]],
  size       : [Buckets -> Nat],
  onMachine  : SUBSET Jobs,            \* the jobs that run on the sized machine
  free       : [Jobs -> Policies],     \* when a run's resource units go back
  depletable : SUBSET Resources,
  members    : SUBSET Jobs,            \* of the one box
  terminators : SUBSET Jobs,           \* members with job_terminator
  recheck    : BOOLEAN,                \* queued-recheck is not 0
  refs       : [Jobs -> Seq(Jobs)],    \* the jobs whose condition names the job
  boxRefs    : Seq(Jobs),
  boxAgain   : BOOLEAN]                \* the box's condition names the box

Reports == {"idle", "success", "failure", "starting", "running"}

ASSUME QueueAssumption ==
  /\ IsFiniteSet(Jobs)
  /\ Machine \notin Resources
  /\ Catalogs \subseteq Catalog
  /\ Injects \subseteq Reports
  /\ \A c \in Catalogs :
       /\ c.terminators \subseteq c.members
       /\ \A j \in Jobs \ c.onMachine : c.demand[j][Machine] = 0

VARIABLES
  cat,       \* the catalog
  status,
  hold,      \* the jobs ON_HOLD
  ranked,    \* the jobs with a waiter_seq, in the order of their ranks
  reserved,  \* the units each row reserves: its run's, or those it kept
  consumed,  \* the units of a depletable that are spent
  box,       \* the box's status, as its members and their attempts read it
  scanOwed,  \* the input owes an admit-only scan
  scan,      \* the coordinator
  readmitted,\* the latch: the pass's last readmission moved its waiter
  agenda,    \* the items of this macrostep still to run
  reblocked, \* observer: the box came up over a queued member since the last pass
  asked      \* observer: this input asked a full scan, its box not stopped since

rows == <<status, hold, ranked, reserved, consumed, box>>
coordinator == <<scanOwed, scan, readmitted>>
observed == <<reblocked, asked>>
vars == <<cat, rows, coordinator, agenda, observed>>

Statuses == {"idle", "success", "failure", "waiting", "live"}
Failed == {"failure"}
Terminal == {"success", "failure"}

Nothing == [b \in Buckets |-> 0]

\* The units of a bucket over some jobs' rows.
Total(f, b, js) == MapThenSumSet(LAMBDA j : f[j][b], js)

\* The elements of a sequence that are in a set: SelectSeq's own definition,
\* written out so that a proof can unfold it.
Only(s, set) ==
  LET kept[n \in 0..Len(s)] ==
        IF n = 0 THEN <<>>
        ELSE IF s[n] \in set THEN Append(kept[n - 1], s[n])
        ELSE kept[n - 1]
  IN kept[Len(s)]

(***************************************************************************)
(* Capacity: what fits, and who blocks whom.                               *)
(***************************************************************************)
Prio(j) == IF cat.prio[j] = Unset THEN 0 ELSE cat.prio[j]

Used(r, own) ==
  consumed[r] + Total(reserved, r, Jobs \ {own})

\* A job's own held units are available to it.
Fits(j, r) ==
  cat.demand[j][r] = 0 \/ Used(r, j) + cat.demand[j][r] <= cat.size[r]

\* A job that is not live reserves no load, so there is none of its own to credit.
LoadFits(j) ==
  \/ cat.demand[j][Machine] = 0
  \/ cat.demand[j][Machine] + Total(reserved, Machine, Jobs) <= cat.size[Machine]

Short(j) == \E r \in Resources : ~Fits(j, r)
Names(j) == {r \in Resources : cat.demand[j][r] > 0}

\* A held waiter, and a member of a box that is not running, block no one.
CountsAsWaiter(j) == j \notin hold /\ (j \in cat.members => box = "running")

Waiters == ToSet(ranked)
Ahead(j) == {u \in Waiters \ {j} : 0 < Prio(u) /\ Prio(u) < Prio(j)}

LoadBlocked(j) ==
  /\ j \in cat.onMachine
  /\ \E u \in Ahead(j) : ~LoadFits(u) /\ CountsAsWaiter(u)

PassedLoad(j) == LoadFits(j) /\ ~LoadBlocked(j)

ResourceBlocked(j) ==
  \E u \in Ahead(j) :
    /\ Names(u) \cap Names(j) # {}
    /\ Short(u)
    /\ PassedLoad(u)
    /\ CountsAsWaiter(u)

\* A forced start, and one whose priority is unset or 0, checks no load.
Admissible(j, force) ==
  /\ ~ResourceBlocked(j)
  /\ ~Short(j)
  /\ force \/ Prio(j) = 0 \/ PassedLoad(j)

\* The waiters by priority, then by rank.
Before(i, k) ==
  \/ cat.prio[ranked[i]] < cat.prio[ranked[k]]
  \/ cat.prio[ranked[i]] = cat.prio[ranked[k]] /\ i < k

SortedWaiters ==
  LET order == CHOOSE p \in [DOMAIN ranked -> DOMAIN ranked] :
                 \A i, k \in DOMAIN ranked : i < k => Before(p[i], p[k])
  IN [i \in DOMAIN ranked |-> ranked[order[i]]]

Dequeued(j) == Only(ranked, Jobs \ {j})
HasPriorityWaiters ==
  \E j \in Waiters : Prio(j) > 0 /\ (j \in cat.onMachine \/ Names(j) # {})

(***************************************************************************)
(* The agenda: what a row sends beyond its own move.                       *)
(***************************************************************************)
StartOf(j, force) == [op |-> "start", job |-> j, force |-> force]
ScanItem == [op |-> "scan"]
TurnItem == [op |-> "turn"]
LoadMark == [op |-> "mark"]
BoxStartItem == [op |-> "box start"]
BoxStarted == [op |-> "box started"]
BoxEndsAt(j) == [op |-> "box ends", job |-> j]
Notice(j, queue) == [op |-> "notice", job |-> j, queue |-> queue]
BatchEnd == [op |-> "batch end", owed |-> FALSE]
Rules(j) == [op |-> "rules", job |-> j]
Started(j) == [op |-> "started", job |-> j]

\* lifts: QUE_WAIT -> STARTING is an admission, made by the scan already running.
Lifts(old, new) == old = "waiting" /\ new \notin {"waiting", "starting"}

Settle(j, old, new) == [
  op        |-> "settle",
  job       |-> j,
  success   |-> new = "success",
  releasing |-> old = "live" /\ new \notin {"starting", "running"},
  lifts     |-> Lifts(old, new),
  done      |-> FALSE,
  released  |-> FALSE]

If(b, s) == IF b THEN s ELSE <<>>
Attempts(s) == [i \in DOMAIN s |-> StartOf(s[i], FALSE)]

\* A move's box rules, its settlement and its wakes, which the settlement sends.
\* A move to STARTING or QUE_WAIT ends no box.
MoveSends(j, old, new) ==
  If(j \in cat.members /\ new \notin {"waiting", "starting"}, <<Rules(j)>>)
    \o <<Settle(j, old, new)>>

Wakes(j, queue) == Attempts(cat.refs[j]) \o If(queue, <<ScanItem>>)
BoxWakes == Attempts(cat.boxRefs) \o If(cat.boxAgain, <<BoxStartItem>>)
Members == SetToSeq(cat.members)

MarkOf(j) == If(cat.demand[j][Machine] > 0, <<LoadMark>>)

Op(name) == agenda # <<>> /\ Head(agenda).op = name
Run(items) == agenda' = items \o Tail(agenda)
Pop == agenda' = Tail(agenda)

(***************************************************************************)
(* Units: reserved at an admission, settled when the run leaves LIVE.      *)
(***************************************************************************)
Holds(j) == reserved[j] # Nothing

\* What the end of a run does not free: kept on the row, or spent if depletable.
Unreleased(j, success) == [b \in Buckets |->
  IF \/ b = Machine
     \/ cat.free[j] = "completion"
     \/ cat.free[j] = "success" /\ success
  THEN 0 ELSE reserved[j][b]]

Kept(j, success) == [b \in Buckets |->
  IF b \in cat.depletable THEN 0 ELSE Unreleased(j, success)[b]]

Spent(j, success) == [b \in Buckets |->
  IF b \in cat.depletable THEN Unreleased(j, success)[b] ELSE 0]

LeaveLive(j, success) ==
  /\ reserved' = [reserved EXCEPT ![j] = Kept(j, success)]
  /\ consumed' = [b \in Buckets |-> consumed[b] + Spent(j, success)[b]]

\* (mutant) No run settles early.
NotOwed(j) == {}

SettlementOwed(j) ==
  {i \in DOMAIN agenda :
     /\ agenda[i].op = "settle"
     /\ agenda[i].job = j
     /\ agenda[i].releasing
     /\ ~agenda[i].done}

(***************************************************************************)
(* A start attempt.                                                        *)
(***************************************************************************)
LiveOrQueued(j) == status[j] \in {"live", "waiting"}

GatesOpen(j, force) ==
  /\ ~LiveOrQueued(j)
  /\ force \/ (j \notin hold /\ (j \in cat.members => box = "running"))

Attempt(j, force) ==
  /\ Op("start")
  /\ j = Head(agenda).job
  /\ force = Head(agenda).force

\* A gate holds the attempt: the job is live or queued, held, its box does not
\* run, or its condition is false.  A forced attempt reads the first alone.
StartIgnored(j, force) ==
  /\ Attempt(j, force)
  /\ GatesOpen(j, force) => ~force
  /\ Pop
  /\ UNCHANGED <<cat, rows, coordinator, observed>>

\* job.401: a run of the job ended inside a cascade that still runs its box
\* rules; its units settle first, and the same attempt is made again.
StartSettlesFirst(j, force) ==
  /\ Attempt(j, force)
  /\ GatesOpen(j, force)
  /\ \E i \in SettlementOwed(j) :
       /\ LeaveLive(j, agenda[i].success)
       /\ agenda' = [agenda EXCEPT ![i].done = TRUE, ![i].released = Holds(j)]
  /\ UNCHANGED <<cat, status, hold, ranked, box, coordinator, observed>>

OnHeld(j, force) == force /\ status[j] \in Failed /\ Holds(j)

Ready(j, force) ==
  /\ Attempt(j, force)
  /\ GatesOpen(j, force)
  /\ SettlementOwed(j) = {}

\* job.104: a forced start of a failed job on the units it kept: nothing is
\* tested, and its load is held besides.
StartOnHeld(j, force) ==
  /\ Ready(j, force)
  /\ OnHeld(j, force)
  /\ status' = [status EXCEPT ![j] = "live"]
  /\ reserved' = [reserved EXCEPT ![j][Machine] = cat.demand[j][Machine]]
  /\ Run(MoveSends(j, status[j], "starting") \o <<Started(j)>> \o MarkOf(j))
  /\ UNCHANGED <<cat, hold, ranked, consumed, box, coordinator, observed>>

\* job.102: the demand is reserved, in place of units the job kept.
StartAdmitted(j, force) ==
  /\ Ready(j, force)
  /\ ~OnHeld(j, force)
  /\ Admissible(j, force)
  /\ status' = [status EXCEPT ![j] = "live"]
  /\ reserved' = [reserved EXCEPT ![j] = cat.demand[j]]
  /\ Run(MoveSends(j, status[j], "starting") \o <<Started(j)>> \o MarkOf(j))
  /\ UNCHANGED <<cat, hold, ranked, consumed, box, coordinator, observed>>

\* job.103: a rank the row still carries is an earlier wait's, and drops first.
StartQueued(j, force) ==
  /\ Ready(j, force)
  /\ ~OnHeld(j, force)
  /\ ~Admissible(j, force)
  /\ status' = [status EXCEPT ![j] = "waiting"]
  /\ ranked' = Append(Dequeued(j), j)
  /\ Run(MoveSends(j, status[j], "waiting") \o MarkOf(j))
  /\ UNCHANGED <<cat, hold, reserved, consumed, box, coordinator, observed>>

\* job.105: an admitted start's second move, to RUNNING.
Runs ==
  /\ Op("started")
  /\ LET j == Head(agenda).job
     IN Run(If(status[j] = "live", MoveSends(j, "live", "running")))
  /\ UNCHANGED <<cat, rows, coordinator, observed>>

TakesLoad ==
  /\ Op("mark")
  /\ scanOwed' = TRUE
  /\ Pop
  /\ UNCHANGED <<cat, rows, scan, readmitted, reblocked, asked>>

\* The settlement after the box rules, unless the run settled early; the rank a
\* move left drops with it.  Then the wakes.
SettleRun ==
  /\ Op("settle")
  /\ LET move == Head(agenda)
         releases == move.releasing /\ ~move.done
     IN /\ IF releases THEN LeaveLive(move.job, move.success) ELSE UNCHANGED <<reserved, consumed>>
        /\ ranked' = IF ~move.done /\ status[move.job] # "waiting" THEN Dequeued(move.job) ELSE ranked
        /\ Run(Wakes(move.job, move.released \/ move.lifts \/ (releases /\ Holds(move.job))))
  /\ UNCHANGED <<cat, status, hold, box, coordinator, observed>>

(***************************************************************************)
(* The box.                                                                *)
(***************************************************************************)

\* A box leaving RUNNING owes the admit-only scan; one that failed ends its
\* job_terminator members, as long as the run that ended is still the box's.
BoxLeaves(ok, rest) ==
  /\ box' = "idle"
  /\ scanOwed' = TRUE
  /\ asked' = FALSE
  /\ agenda' = BoxWakes
       \o If(~ok, LET ends == SetToSeq(cat.terminators)
                  IN [i \in DOMAIN ends |-> BoxEndsAt(ends[i])])
       \o rest

\* A member's move at its box: the door, its overrides and its fold end a
\* RUNNING box or they do not.
BoxRules ==
  /\ Op("rules")
  /\ \/ Pop /\ UNCHANGED <<box, scanOwed, asked>>
     \/ \E ok \in BOOLEAN : box = "running" /\ BoxLeaves(ok, Tail(agenda))
  /\ UNCHANGED <<cat, status, hold, ranked, reserved, consumed, scan, readmitted, reblocked>>

BoxEnds ==
  /\ Op("box ends")
  /\ LET j == Head(agenda).job
     IN IF status[j] = "live"
        THEN status' = [status EXCEPT ![j] = "failure"] /\ Run(MoveSends(j, "live", "failure"))
        ELSE Pop /\ UNCHANGED status
  /\ UNCHANGED <<cat, hold, ranked, reserved, consumed, box, coordinator, observed>>

BoxIgnored ==
  /\ Op("box start")
  /\ Pop
  /\ UNCHANGED <<cat, rows, coordinator, observed>>

\* A box's start resets its members but the live and queued ones, each with its
\* notice; the ends its last run still owed its members lapse.
BoxStarts ==
  /\ Op("box start")
  /\ box = "idle"
  /\ LET reset == {j \in cat.members : status[j] \in Terminal}
         notices == [i \in DOMAIN SetToSeq(reset) |-> Notice(SetToSeq(reset)[i], FALSE)]
     IN /\ status' = [j \in Jobs |-> IF j \in reset THEN "idle" ELSE status[j]]
        /\ agenda' = Attempts(cat.boxRefs) \o notices \o <<BatchEnd, BoxStarted>>
             \o Only(Tail(agenda), {i \in ToSet(agenda) : i.op # "box ends"})
  /\ box' = "starting"
  /\ UNCHANGED <<cat, hold, ranked, reserved, consumed, coordinator, observed>>

BoxRuns ==
  /\ Op("box started")
  /\ box' = "running"
  /\ reblocked' = (reblocked \/ \E j \in cat.members : status[j] = "waiting")
  /\ Run(Attempts(cat.boxRefs) \o Attempts(Members))
  /\ UNCHANGED <<cat, status, hold, ranked, reserved, consumed, coordinator, asked>>

\* A batch's notice of one row: its box rules and its wakes while it is still
\* INACTIVE; a row a wake has moved on owes the queue its wake.
BatchNotice ==
  /\ Op("notice")
  /\ LET n == Head(agenda)
         end == CHOOSE i \in DOMAIN Tail(agenda) :
                  Tail(agenda)[i].op = "batch end"
                  /\ \A k \in 1..(i - 1) : Tail(agenda)[k].op # "batch end"
     IN IF status[n.job] = "idle"
        THEN Run(<<Rules(n.job)>> \o Wakes(n.job, n.queue))
        ELSE agenda' = [Tail(agenda) EXCEPT ![end].owed = @ \/ n.queue]
  /\ UNCHANGED <<cat, rows, coordinator, observed>>

BatchEnds ==
  /\ Op("batch end")
  /\ Run(If(Head(agenda).owed, <<ScanItem>>))
  /\ UNCHANGED <<cat, rows, coordinator, observed>>

(***************************************************************************)
(* The scan (scan_chart.py): a pass gives each waiter of its list a turn.  *)
(***************************************************************************)
Resting == [at |-> "idle", keep |-> FALSE, full |-> FALSE, turns |-> <<>>]

\* (mutant) A pass in the order of the ranks alone.
BadBegins(keep) ==
  /\ scan' = [at |-> "pass", keep |-> keep, full |-> FALSE, turns |-> ranked]
  /\ scanOwed' = FALSE
  /\ readmitted' = FALSE
  /\ reblocked' = FALSE

\* `pass`'s entry: the waiters' order read now, the owed mark and the latch cleared.
Begins(keep) ==
  /\ scan' = [at |-> "pass", keep |-> keep, full |-> FALSE, turns |-> SortedWaiters]
  /\ scanOwed' = FALSE
  /\ readmitted' = FALSE
  /\ reblocked' = FALSE

\* queue_scan.01
ScanBegins ==
  /\ Op("scan")
  /\ scan.at = "idle"
  /\ Begins(FALSE)
  /\ asked' = TRUE
  /\ Run(<<TurnItem>>)
  /\ UNCHANGED <<cat, rows>>

\* queue_scan.02 and .03: every sender inside a pass asks a full scan.
ScanRequested ==
  /\ Op("scan")
  /\ scan.at = "pass"
  /\ scan' = [scan EXCEPT !.full = TRUE]
  /\ asked' = TRUE
  /\ Pop
  /\ UNCHANGED <<cat, rows, scanOwed, readmitted, reblocked>>

\* The first waiter of the pass's list still queued takes the turn.
AtTurn(w) ==
  /\ Op("turn")
  /\ ~readmitted
  /\ \E i \in DOMAIN scan.turns :
       /\ scan.turns[i] = w
       /\ status[w] = "waiting"
       /\ \A k \in 1..(i - 1) : status[scan.turns[k]] # "waiting"

TurnTaken(w) ==
  scan' = [scan EXCEPT !.turns =
             SubSeq(@, 1 + (CHOOSE i \in DOMAIN @ : @[i] = w), Len(@))]

BoxIdle(w) == w \in cat.members /\ box # "running"
Fit(w) == ~BoxIdle(w) /\ w \notin hold /\ Admissible(w, FALSE)

\* job.181
TurnKeeps(w) ==
  /\ AtTurn(w)
  /\ IF BoxIdle(w) THEN scan.keep ELSE ~Fit(w)
  /\ TurnTaken(w)
  /\ UNCHANGED <<cat, rows, scanOwed, readmitted, agenda, reblocked, asked>>

\* A readmission that moves its waiter: the rank drops, the latch hears of it,
\* and the turn ends behind the move's whole cascade.
Moves(w, new) ==
  /\ TurnTaken(w)
  /\ status' = [status EXCEPT ![w] = IF new = "starting" THEN "live" ELSE new]
  /\ ranked' = Dequeued(w)
  /\ readmitted' = TRUE
  /\ agenda' = MoveSends(w, "waiting", new) \o If(new = "starting", <<Started(w)>>) \o agenda
  /\ UNCHANGED <<cat, hold, consumed, box, scanOwed, reblocked, asked>>

\* job.108
TurnAdmits(w) ==
  /\ AtTurn(w)
  /\ Fit(w)
  /\ Moves(w, "starting")
  /\ reserved' = [reserved EXCEPT ![w] = cat.demand[w]]

\* job.109: the member's box stopped running.
TurnCancels(w) ==
  /\ AtTurn(w)
  /\ BoxIdle(w) /\ ~scan.keep
  /\ Moves(w, "idle")
  /\ UNCHANGED reserved

\* job.438, job.439: the queued recheck failed.
TurnLeaves(w) ==
  /\ AtTurn(w)
  /\ Fit(w) /\ cat.recheck
  /\ Moves(w, "idle")
  /\ UNCHANGED reserved

PassUpgrades == scan.keep /\ scan.full
\* (mutant) A pass that moved a waiter is the last.
NoRestart == FALSE

PassRestarts == readmitted

\* queue_scan.07, .08 and .09
PassEnds ==
  /\ Op("turn")
  /\ readmitted \/ \A i \in DOMAIN scan.turns : status[scan.turns[i]] # "waiting"
  /\ IF PassUpgrades \/ PassRestarts
     THEN Begins(scan.keep /\ ~PassUpgrades) /\ UNCHANGED agenda
     ELSE scan' = Resting /\ Pop /\ UNCHANGED <<scanOwed, readmitted, reblocked>>
  /\ UNCHANGED <<cat, rows, asked>>

\* The input's owed scan: a root of its own after the input's macrostep.
OwedScan ==
  /\ agenda = <<>>
  /\ scanOwed
  /\ IF HasPriorityWaiters
     THEN Begins(TRUE) /\ agenda' = <<TurnItem>>
     ELSE scanOwed' = FALSE /\ UNCHANGED <<scan, readmitted, agenda, reblocked>>
  /\ UNCHANGED <<cat, rows, asked>>

(***************************************************************************)
(* The inputs: each begins at rest, and the next waits for the last one's  *)
(* whole cascade.                                                          *)
(***************************************************************************)
AtRest == agenda = <<>> /\ ~scanOwed
TakeInput == AtRest /\ asked' = FALSE

\* STARTJOB and FORCE_STARTJOB, which takes a job that can start off hold.
StartJob(j, force) ==
  /\ TakeInput
  /\ hold' = IF force /\ ~LiveOrQueued(j) THEN hold \ {j} ELSE hold
  /\ agenda' = <<StartOf(j, force)>>
  /\ UNCHANGED <<cat, status, ranked, reserved, consumed, box, coordinator, reblocked>>

\* STATUS, from the attempt's end or an operator.  KILLJOB on a live or queued
\* job and ON_ICE on a waiter make the moves to failure and to idle.
Status(j, new) ==
  /\ TakeInput
  /\ new \in Injects
  /\ new = "idle" => status[j] # "idle"
  /\ status' = [status EXCEPT ![j] = IF new \in {"starting", "running"} THEN "live" ELSE new]
  /\ agenda' = MoveSends(j, status[j], new)
  /\ UNCHANGED <<cat, hold, ranked, reserved, consumed, box, coordinator, reblocked>>

OnHold(j) ==
  /\ TakeInput
  /\ status[j] # "live"
  /\ hold' = hold \cup {j}
  /\ agenda' = If(status[j] = "waiting", <<ScanItem>>)
  /\ UNCHANGED <<cat, status, ranked, reserved, consumed, box, coordinator, reblocked>>

\* OFF_HOLD, of a job that is on hold or not (job.205, .221, .237, .238).
OffHold(j) ==
  /\ TakeInput
  /\ hold' = hold \ {j}
  /\ agenda' = IF status[j] = "waiting" THEN <<ScanItem>> ELSE <<StartOf(j, FALSE)>>
  /\ UNCHANGED <<cat, status, ranked, reserved, consumed, box, coordinator, reblocked>>

\* RELEASE_RESOURCE on a job that is not live and kept units.
ReleaseResource(j) ==
  /\ TakeInput
  /\ status[j] # "live" /\ Holds(j)
  /\ reserved' = [reserved EXCEPT ![j] = Nothing]
  /\ agenda' = <<ScanItem>>
  /\ UNCHANGED <<cat, status, hold, ranked, consumed, box, coordinator, reblocked>>

StartBox ==
  /\ TakeInput
  /\ cat.members # {} /\ box = "idle"
  /\ agenda' = <<BoxStartItem>>
  /\ UNCHANGED <<cat, rows, coordinator, reblocked>>

\* A STATUS or a KILLJOB that ends the RUNNING box.
EndBox(ok) ==
  /\ TakeInput
  /\ box = "running"
  /\ BoxLeaves(ok, <<>>)
  /\ UNCHANGED <<cat, status, hold, ranked, reserved, consumed, scan, readmitted, reblocked>>

\* The box set INACTIVE: every member not yet INACTIVE is written and settled
\* first, and then each gets its notice.
SetBoxInactive ==
  /\ TakeInput
  /\ cat.members # {}
  /\ box' = "idle"
  /\ scanOwed' = (box = "running")
  /\ LET set == {j \in cat.members : status[j] # "idle"}
         settled == {j \in set : status[j] = "live"}
         ns == SetToSeq(set)
         released(j) == (j \in settled /\ Holds(j)) \/ Lifts(status[j], "idle")
         spent == [j \in Jobs |-> Spent(j, FALSE)]
     IN /\ status' = [j \in Jobs |-> IF j \in set THEN "idle" ELSE status[j]]
        /\ ranked' = Only(ranked, Jobs \ set)
        /\ reserved' = [j \in Jobs |-> IF j \in settled THEN Kept(j, FALSE) ELSE reserved[j]]
        /\ consumed' = [b \in Buckets |-> consumed[b] + Total(spent, b, settled)]
        /\ agenda' = BoxWakes \o [i \in DOMAIN ns |-> Notice(ns[i], released(ns[i]))] \o <<BatchEnd>>
  /\ UNCHANGED <<cat, hold, scan, readmitted, reblocked>>

-----------------------------------------------------------------------------
Init ==
  /\ cat \in Catalogs
  /\ status = [j \in Jobs |-> "idle"]
  /\ hold = {}
  /\ ranked = <<>>
  /\ reserved = [j \in Jobs |-> Nothing]
  /\ consumed = Nothing
  /\ box = "idle"
  /\ scanOwed = FALSE
  /\ scan = Resting
  /\ readmitted = FALSE
  /\ agenda = <<>>
  /\ reblocked = FALSE
  /\ asked = FALSE

Input ==
  \/ \E j \in Jobs :
       \/ \E force \in BOOLEAN : StartJob(j, force)
       \/ \E new \in Injects : Status(j, new)
       \/ OnHold(j) \/ OffHold(j) \/ ReleaseResource(j)
  \/ StartBox
  \/ \E ok \in BOOLEAN : EndBox(ok)
  \/ SetBoxInactive

Item ==
  \/ \E j \in Jobs, force \in BOOLEAN :
       \/ StartIgnored(j, force) \/ StartSettlesFirst(j, force)
       \/ StartOnHeld(j, force) \/ StartAdmitted(j, force) \/ StartQueued(j, force)
  \/ Runs \/ TakesLoad \/ SettleRun
  \/ BoxRules \/ BoxEnds \/ BoxIgnored \/ BoxStarts \/ BoxRuns \/ BatchNotice \/ BatchEnds
  \/ ScanBegins \/ ScanRequested \/ PassEnds \/ OwedScan
  \/ \E w \in Jobs : TurnKeeps(w) \/ TurnAdmits(w) \/ TurnCancels(w) \/ TurnLeaves(w)

Next == Input \/ Item

Spec == Init /\ [][Next]_vars

(***************************************************************************)
(* Properties.                                                             *)
(***************************************************************************)

\* No resource is over its amount: every start checks the ones it names (DL-255).
NoneOver ==
  \A r \in Resources :
    consumed[r] + Total(reserved, r, Jobs) <= cat.size[r]

\* What a run reserved stays with it until it ends: the settlement of an earlier
\* run, which waits behind that run's box rules, never releases the units of one
\* that the same cascade started (job.401, DL-340).  So no resource is over its
\* amount, across units kept, spent and taken over, and settlements that come late.
UnitsStayWithTheRun ==
  [][/\ NoneOver'
     /\ \A j \in Jobs :
          status[j] = "live" /\ status'[j] = "live" => reserved'[j] = reserved[j]]_vars

\* Between inputs the queue holds only waiters that must wait: whatever freed
\* units or lifted a block in the input's cascade, a pass has seen it, and an
\* input that asked for a full scan, inside an admit-only one or not, left no
\* queued member of a stopped box unless the box stopped later in the same input
\* (DL-247).  A box that starts over a queued member owes no scan (DL-255), so
\* its effect may wait for the next pass; and an operator's STATUS STARTING takes
\* a waiter out of the queue with no scan, so no run injects it.
NoneWaitsInVain ==
  AtRest =>
    /\ ~reblocked => \A w \in Waiters : CountsAsWaiter(w) => ~Admissible(w, FALSE)
    /\ asked => \A w \in Waiters : ~BoxIdle(w)

\* A scan never admits a waiter past one that is ahead of it in the queue's
\* order and could start.
NoneOvertaken ==
  [][\A w \in Jobs :
       Op("turn") /\ status[w] = "waiting" /\ status'[w] = "live" =>
         \A i, k \in DOMAIN SortedWaiters :
           i < k /\ SortedWaiters[k] = w =>
             LET u == SortedWaiters[i]
             IN ~(status[u] = "waiting" /\ CountsAsWaiter(u) /\ Admissible(u, FALSE))]_vars

=============================================================================
