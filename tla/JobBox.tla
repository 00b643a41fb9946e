------------------------------- MODULE JobBox -------------------------------
(***************************************************************************)
(* Jobs, boxes and the cascade of a move (src/dsl41/oracle_cascade.py,     *)
(* oracle_facts.py, oracle_reads.py and the rows of job_chart_rows.py).    *)
(* A box's status follows its members' and a member's start follows its    *)
(* box's: a move meets the boxes above it first, then wakes the jobs whose *)
(* condition names it, and either may start a box again inside the same    *)
(* input.                                                                  *)
(*                                                                         *)
(* One input is one macrostep: it leaves items on an agenda, and an item's *)
(* whole cascade runs before the item after it (statechart-engine.md 5).   *)
(* A moment (Program) reads its gate when it pops.  ADMITTED's entry and   *)
(* its completion run no cascade in between, so an admission is one step.  *)
(* Capacity and QUE_WAIT are QueueScan's: every start here fits.           *)
(***************************************************************************)
EXTENDS Naturals, Sequences, FiniteSets, SequencesExt

CONSTANTS
  Jobs,
  None,      \* no box
  Catalogs,  \* the catalogs an engine may open with
  MaxNested  \* MAX_NESTED_STARTS

Atoms == [job : Jobs, is : {"s", "f", "t", "d", "n"}]

\* A condition is the set of its alternatives, each a set of atoms.
Conditions == SUBSET SUBSET Atoms
NoCondition == {{}}
NotDeclared == {}

Statuses == {"INACTIVE", "STARTING", "RUNNING", "SUCCESS", "FAILURE", "TERMINATED"}
Live == {"STARTING", "RUNNING"}
Failed == {"FAILURE", "TERMINATED"}
Terminal == Failed \cup {"SUCCESS"}

Operations == {"start", "force", "end", "interrupt", "inject", "inactive", "kill",
               "ice", "hold", "noexec", "window"}

ASSUME JobBoxAssumption ==
  /\ None \notin Jobs
  /\ MaxNested \in Nat \ {0}
  /\ \A c \in Catalogs :
       /\ c.order \in Seq(Jobs) /\ ToSet(c.order) = Jobs /\ IsInjective(c.order)
       /\ c.boxes \subseteq Jobs
       /\ c.parent \in [Jobs -> c.boxes \cup {None}]
       /\ \A f \in {c.cond, c.success, c.failure} : f \in [Jobs -> Conditions]
       /\ \A s \in {c.boxTerminators, c.jobTerminators, c.autoHold, c.dated, c.windowed} :
            s \subseteq Jobs
       /\ {c.offIceNextRun, c.allOutCompletes, c.idleIgnoresIced, c.terminatedCounts}
            \subseteq BOOLEAN
       /\ c.operations \subseteq Operations    \* a bound: the inputs this catalog meets
       /\ c.subjects \subseteq Jobs            \* a bound: the jobs they name

VARIABLES
  cat,     \* the catalog
  status,
  flag,    \* the jobs with ON_ICE, ON_HOLD and ON_NOEXEC, and those armed by a tick
  mark,    \* what a box's row says of its run: the members that ran, that were
           \* resolved to INACTIVE, and that came off ice during the run
  run,     \* the starts of a job within this input: its run_number, from the input on
  window,  \* a job's side of its run_window, and the starts deferred to its opening
  pass,    \* the box runs of the pending window pass, if one is open
  agenda,  \* the items of this macrostep still to run
  seen     \* observer: what the input found, and what an operator made of a status

rows == <<status, flag, mark, run, window>>
vars == <<cat, rows, pass, agenda, seen>>

(***************************************************************************)
(* Reads of the catalog and of the rows.                                   *)
(***************************************************************************)
Parent(j) == cat.parent[j]
IsBox(j) == j \in cat.boxes
Members(b) == SelectSeq(cat.order, LAMBDA m : Parent(m) = b)
IsLive(j) == status[j] \in Live

\* The boxes above a job, innermost first.
RECURSIVE Above(_)
Above(j) == IF Parent(j) = None THEN <<>> ELSE <<Parent(j)>> \o Above(Parent(j))

\* Every job the boxes contain, top-down; skipLive leaves out a live one's subtree.
RECURSIVE Below(_, _)
Below(boxes, skipLive) ==
  IF boxes = <<>> THEN <<>>
  ELSE LET inside == SelectSeq(Members(Head(boxes)), LAMBDA m : ~(skipLive /\ IsLive(m)))
       IN inside \o Below(Tail(boxes) \o SelectSeq(inside, IsBox), skipLive)

Contained(b) == Below(<<b>>, FALSE)
ContainedSet(b) == ToSet(Contained(b))

\* An iced predecessor reads success, done and not running, whatever its row says.
AtomTrue(a) ==
  IF a.job \in flag.ice THEN a.is \in {"s", "d", "n"}
  ELSE CASE a.is = "s" -> status[a.job] = "SUCCESS"
         [] a.is = "f" -> status[a.job] = "FAILURE"
         [] a.is = "t" -> status[a.job] = "TERMINATED"
         [] a.is = "d" -> status[a.job] \in Terminal
         [] a.is = "n" -> status[a.job] \notin Live

Holds(condition) == \E alternative \in condition : \A a \in alternative : AtomTrue(a)
Named(condition) == {a.job : a \in UNION condition}
Referencers(j) == SelectSeq(cat.order, LAMBDA k : j \in Named(cat.cond[k]))

\* The member's gate on its box's run (StartFacts.box).
Gate(j) ==
  CASE Parent(j) = None -> "none"
    [] Parent(j) # None /\ status[Parent(j)] # "RUNNING" -> "idle"
    [] Parent(j) # None /\ status[Parent(j)] = "RUNNING" ->
         IF j \in mark.ran THEN "ran" ELSE IF j \in mark.icedOut THEN "iced_out" ELSE "running"

\* An iced member is out of its box's run once nothing of it is live.
OutOfTheRun(j) ==
  /\ j \in flag.ice
  /\ ~IsLive(j)
  /\ \A k \in ContainedSet(j) : ~IsLive(k)

InRun(b, n) == status[b] = "RUNNING" /\ run[b] = n
Resolves(j, new) ==
  new = "INACTIVE" /\ status[Parent(j)] = "RUNNING" /\ j \in mark.resolved
ReadsOverrides(new, resolved) == new \in Terminal \cup {"RUNNING"} \/ resolved
TerminatorFires(j, new) ==
  /\ j \in cat.boxTerminators
  /\ new = "FAILURE" \/ (new = "TERMINATED" /\ cat.terminatedCounts)

(***************************************************************************)
(* The verdicts on a box.                                                  *)
(***************************************************************************)
MemberSet(b) == ToSet(Members(b))

Done(j) ==
  \/ OutOfTheRun(j)
  \/ j \in mark.icedOut \cup mark.resolved /\ ~IsLive(j)
  \/ status[j] \in Terminal

\* The members whose status votes: those that ran, and those that end as they stand.
Voters(b) ==
  {m \in MemberSet(b) : m \in mark.ran \/ (status[m] \in Terminal /\ ~OutOfTheRun(m))}

\* The default verdict of some votes; a declared override of its kind suppresses it.
Default(b, failed) ==
  IF failed
  THEN IF cat.failure[b] = NotDeclared THEN "FAILURE" ELSE "none"
  ELSE IF cat.success[b] = NotDeclared THEN "SUCCESS" ELSE "none"

FoldTarget(b) ==
  IF \A m \in MemberSet(b) : Done(m)
  THEN Default(b, \E m \in Voters(b) : status[m] \in Failed)
  ELSE "none"

\* The verdict of a box's overrides, of those that are due.
Declared(b) == {cat.success[b], cat.failure[b]}
Overrides(b, due) ==
  IF cat.success[b] \in due /\ Holds(cat.success[b]) THEN "SUCCESS"
  ELSE IF cat.failure[b] \in due /\ Holds(cat.failure[b]) THEN "FAILURE"
  ELSE "none"

\* One visit of a RUNNING box's door: its overrides, if the visit reads them and
\* they name the member or the member is complete; then, if it folds, the fold.
DoorTarget(d) ==
  LET due == {c \in Declared(d.box) : d.overrides /\ (d.completed \/ d.member \in Named(c))}
      first == Overrides(d.box, due)
  IN IF first # "none" THEN first ELSE IF d.folds THEN FoldTarget(d.box) ELSE "none"

\* An idle box derives its status from the members that are not INACTIVE.
RecomputeTarget(b, trigger) ==
  LET votes == {m \in MemberSet(b) :
                  status[m] # "INACTIVE" /\ ~(cat.idleIgnoresIced /\ OutOfTheRun(m))}
      first == Overrides(b, Declared(b))
  IN IF \/ cat.idleIgnoresIced /\ votes = {} /\ OutOfTheRun(trigger)
        \/ \E m \in votes : status[m] \notin Terminal
     THEN "none"
     ELSE IF first # "none" THEN first
     ELSE Default(b, \E m \in votes : status[m] \in Failed)

(***************************************************************************)
(* The agenda.  An item knows how many admitted starts of each job it      *)
(* descends from (up), which its sends inherit.                            *)
(***************************************************************************)
Start(j) == [op |-> "start", job |-> j, force |-> FALSE, scheduled |-> FALSE]
Relayed(j, force) == [op |-> "start", job |-> j, force |-> force, scheduled |-> TRUE]
Decided(j, b, n) == [op |-> "decided", job |-> j, box |-> b, run |-> n]
Started(j, n) == [op |-> "started", job |-> j, run |-> n]
Rules(j, old, new) == [op |-> "rules", job |-> j, old |-> old, new |-> new]
Wake(j) == [op |-> "wake", job |-> j]
Door(b, j, new, overrides, folds, completion) ==
  [op |-> "door", box |-> b, member |-> j, overrides |-> overrides, folds |-> folds,
   completed |-> completion \/ new \in Terminal]
BoxRecompute(b, j) == [op |-> "recompute", box |-> b, member |-> j]
MemberEnds(b) == [op |-> "member ends", box |-> b]
WalkUp(j, new, runs) == [op |-> "walk", job |-> j, new |-> new, runs |-> runs]
WalkOn(j, new, resolved, runs, boxes, behind) ==
  [op |-> "walk on", job |-> j, new |-> new, resolved |-> resolved, runs |-> runs,
   boxes |-> boxes, behind |-> behind]
IceMoment(j, runs) == [op |-> "ice moment", job |-> j, runs |-> runs]
BoxRunEnds(b) == [op |-> "disarm", box |-> b]
BoxEnds(b) == [op |-> "box ends", box |-> b]
BoxEndsStep(b, n, members) == [op |-> "box ends step", box |-> b, run |-> n, members |-> members]
Notice(j, old, n, runs) == [op |-> "notice", job |-> j, old |-> old, run |-> n, runs |-> runs]
AutoHold(b) == [op |-> "auto hold", box |-> b]
WindowPass(b, n, owner) == [op |-> "window pass", box |-> b, run |-> n, owner |-> owner]
AllOut(b, n) == [op |-> "all out", box |-> b, run |-> n]
AfterInject(j, was, n) == [op |-> "after inject", job |-> j, was |-> was, run |-> n]
Retry(j, n) == [op |-> "retry", job |-> j, run |-> n]
Commit == [op |-> "commit"]

If(b, s) == IF b THEN s ELSE <<>>
Each(s, item(_)) == [i \in DOMAIN s |-> item(s[i])]

Item == Head(agenda).item
Op(name) == agenda # <<>> /\ Item.op = name
Under(up, items) == Each(items, LAMBDA i : [item |-> i, up |-> up])
Run(items) == agenda' = Under(Head(agenda).up, items) \o Tail(agenda)
Pop == agenda' = Tail(agenda)

\* (mutant) The wakes run before the box has met the move.
BadMoveSends(j, old, new) == <<Wake(j), Rules(j, old, new)>>

\* A move's box rules, then its wakes.
MoveSends(j, old, new) == <<Rules(j, old, new), Wake(j)>>

\* A kill: a box's end at its job_terminators follows, for the run that ended.
KillSends(j) ==
  MoveSends(j, status[j], "TERMINATED")
    \o If(IsBox(j), <<BoxEndsStep(j, run[j], Members(j))>>)

(***************************************************************************)
(* A move's box rules (_box_rules).                                        *)
(***************************************************************************)
\* (mutant) Only a box that never ran derives its status.
BadRecomputes(b, new) == status[b] = "INACTIVE" /\ new \in Terminal

Recomputes(b, new) == ~IsLive(b) /\ status[b] # "TERMINATED" /\ new \in Terminal

MemberRules(b, j, new) ==
  LET resolved == Resolves(j, new)
  IN IF new \in Failed /\ TerminatorFires(j, new) /\ status[b] = "RUNNING"
     THEN <<MemberEnds(b)>>
     ELSE If(status[b] = "RUNNING",
             <<Door(b, j, new, ReadsOverrides(new, resolved), TRUE, resolved)>>)
          \o If(Recomputes(b, new), <<BoxRecompute(b, j)>>)

\* The walk up: the first box still in its run reads its overrides, and the
\* walk goes on behind that visit's whole cascade.
WalkSends(j, new, resolved, runs, boxes) ==
  LET still == {i \in DOMAIN boxes : InRun(boxes[i], runs[boxes[i]])}
      first == CHOOSE i \in still : \A k \in still : i <= k
  IN If(ReadsOverrides(new, resolved) /\ still # {},
        <<Door(boxes[first], j, new, TRUE, FALSE, resolved),
          WalkOn(j, new, resolved, runs, SubSeq(boxes, first + 1, Len(boxes)), boxes[first])>>)

\* (mutant) A live member that ends in an iced box is no moment of that box.
BadIceMoments(j, old, new, runs) == <<>>

\* What is live inside an iced box keeps it in the run above it, until it ends.
IceMoments(j, old, new, runs) ==
  If(Len(Above(j)) > 1 /\ old \in Live /\ new \notin Live,
     Each(Front(Above(j)), LAMBDA holder : IceMoment(holder, runs)))

RulesSends(j, old, new, runs) ==
  LET chain == Above(j)
  IN If(chain # <<>>, MemberRules(Parent(j), j, new))
     \o If(Len(chain) > 1, <<WalkUp(j, new, runs)>>)
     \o IceMoments(j, old, new, runs)
     \o If(IsBox(j) /\ new \in Terminal, <<BoxRunEnds(j)>>)

BoxRules ==
  /\ Op("rules")
  /\ Run(RulesSends(Item.job, Item.old, Item.new, run))
  /\ UNCHANGED <<cat, rows, pass, seen>>

Walks ==
  /\ Op("walk")
  /\ Run(WalkSends(Item.job, Item.new, Resolves(Item.job, Item.new), Item.runs, Tail(Above(Item.job))))
  /\ UNCHANGED <<cat, rows, pass, seen>>

\* The walk ends at a box that ended, or started again, behind its visit.
WalksOn ==
  /\ Op("walk on")
  /\ Run(If(InRun(Item.behind, Item.runs[Item.behind]),
            WalkSends(Item.job, Item.new, Item.resolved, Item.runs, Item.boxes)))
  /\ UNCHANGED <<cat, rows, pass, seen>>

\* An iced member out of its RUNNING box's run is a completion moment for the box.
IceResolves ==
  /\ Op("ice moment")
  /\ LET j == Item.job
         b == Parent(j)
     IN Run(If(/\ b # None
               /\ InRun(b, Item.runs[b])
               /\ j \notin mark.ran \cup mark.resolved \cup mark.icedOut
               /\ OutOfTheRun(j),
               <<Door(b, j, status[j], TRUE, TRUE, TRUE),
                 WalkOn(j, status[j], TRUE, Item.runs, Tail(Above(j)), b)>>))
  /\ UNCHANGED <<cat, rows, pass, seen>>

\* A move's wakes, in catalog order.
Wakes ==
  /\ Op("wake")
  /\ Run(Each(Referencers(Item.job), Start))
  /\ UNCHANGED <<cat, rows, pass, seen>>

\* An unconsumed arm dies with its box's run.
Disarms ==
  /\ Op("disarm")
  /\ flag' = [flag EXCEPT !.armed = @ \ MemberSet(Item.box)]
  /\ Pop
  /\ UNCHANGED <<cat, status, mark, run, window, pass, seen>>

\* The status moves of one job: the row's write, and what it sends.
Moves(j, new, sends) ==
  /\ status' = [status EXCEPT ![j] = new]
  /\ Run(sends)
  /\ seen' = [seen EXCEPT !.operated = @ \ {j}]
  /\ UNCHANGED <<cat, flag, mark, run, window, pass>>

\* job.126 to job.129, and job.457 and job.458, which decide nothing.
DoorDecides ==
  /\ Op("door")
  /\ LET b == Item.box
         target == DoorTarget(Item)
     IN IF target # "none"
        THEN Moves(b, target, MoveSends(b, "RUNNING", target) \o <<BoxEnds(b)>>)
        ELSE Pop /\ UNCHANGED <<cat, rows, pass, seen>>

\* job.446 to job.449
IdleRecompute ==
  /\ Op("recompute")
  /\ LET b == Item.box
         target == RecomputeTarget(b, Item.member)
     IN IF target \notin {"none", status[b]}
        THEN Moves(b, target, MoveSends(b, status[b], target))
        ELSE Pop /\ UNCHANGED <<cat, rows, pass, seen>>

\* job.130: a box_terminator member ended a RUNNING box.
BoxTerminated ==
  /\ Op("member ends")
  /\ Moves(Item.box, "TERMINATED", KillSends(Item.box))

\* A completed box that ended FAILURE, read behind its end's wakes.
BoxCompleted ==
  /\ Op("box ends")
  /\ Run(If(status[Item.box] \in Failed, <<BoxEndsStep(Item.box, run[Item.box], Members(Item.box))>>))
  /\ UNCHANGED <<cat, rows, pass, seen>>

\* (mutant) The end of one run reaches the members of the next.
BadStillTheRun(b, n) == status[b] # "INACTIVE"

StillTheRun(b, n) == run[b] = n /\ status[b] # "INACTIVE"

\* job.116: one member at a time, while the run that ended is still the box's.
BoxEndsAtMember ==
  /\ Op("box ends step")
  /\ LET ends == SelectSeq(Item.members, LAMBDA m : IsLive(m) /\ m \in cat.jobTerminators)
         m == Head(ends)
         rest == SubSeq(Item.members, 1 + (CHOOSE i \in DOMAIN Item.members : Item.members[i] = m),
                        Len(Item.members))
     IN IF ends # <<>> /\ StillTheRun(Item.box, Item.run)
        THEN Moves(m, "TERMINATED", KillSends(m) \o <<BoxEndsStep(Item.box, Item.run, rest)>>)
        ELSE Pop /\ UNCHANGED <<cat, rows, pass, seen>>

(***************************************************************************)
(* A start attempt (start_verdict): its gates, in order.                   *)
(***************************************************************************)
Unarmed(a) == a.job \in cat.dated /\ ~a.scheduled /\ a.job \notin flag.armed

OpenToPlain(a) ==
  /\ a.job \notin flag.ice \cup flag.hold
  /\ ~Unarmed(a)
  /\ Gate(a.job) \in {"none", "running"}

Passes(a) ==
  /\ ~IsLive(a.job)
  /\ a.force \/ (OpenToPlain(a) /\ Holds(cat.cond[a.job]))

\* The first gate that shuts is a hold or a false condition: a dated job's tick latches.
Latches(a) ==
  /\ ~IsLive(a.job) /\ ~a.force
  /\ a.scheduled /\ a.job \in cat.dated \ flag.armed
  /\ Gate(a.job) # "idle" /\ a.job \notin flag.ice
  /\ a.job \in flag.hold \/ (OpenToPlain(a) /\ ~Holds(cat.cond[a.job]))

Inside(j) == window.side[j] = "inside"

Bounded(j) == Head(agenda).up[j] >= MaxNested
Bypasses(j) ==
  ~IsBox(j) /\ (j \in flag.noexec \/ \E i \in DOMAIN Above(j) : Above(j)[i] \in flag.noexec)

\* Outside its run_window a start is deferred to the opening, or skipped: a
\* completed job moves to INACTIVE, and a member that has not run in its RUNNING
\* box's run is resolved, with no move to ride when it is INACTIVE already.
Postponed(j) ==
  LET inBoxRun == Gate(j) \in {"running", "iced_out"}
      skips == window.side[j] = "skip" /\ (inBoxRun \/ Gate(j) = "none")
      moves == skips /\ status[j] # "INACTIVE"
  IN /\ window' = IF window.side[j] = "defer" THEN [window EXCEPT !.deferred = @ \cup {j}] ELSE window
     /\ mark' = IF skips /\ inBoxRun THEN [mark EXCEPT !.resolved = @ \cup {j}] ELSE mark
     /\ status' = IF moves THEN [status EXCEPT ![j] = "INACTIVE"] ELSE status
     /\ seen' = IF moves THEN [seen EXCEPT !.operated = @ \ {j}] ELSE seen
     /\ Run(IF moves THEN MoveSends(j, status[j], "INACTIVE")
            ELSE If(skips /\ inBoxRun, <<Rules(j, "INACTIVE", "INACTIVE")>>))
     /\ UNCHANGED <<cat, flag, run, pass>>

\* job.180, job.441, job.429 and job.100
StartStops ==
  /\ Op("start")
  /\ ~Passes(Item) \/ (Inside(Item.job) /\ Bounded(Item.job))
  /\ flag' = IF Latches(Item) THEN [flag EXCEPT !.armed = @ \cup {Item.job}] ELSE flag
  /\ Pop
  /\ UNCHANGED <<cat, status, mark, run, window, pass, seen>>

StartPostponed ==
  /\ Op("start")
  /\ Passes(Item) /\ ~Inside(Item.job)
  /\ Postponed(Item.job)

\* The window pass's decision: the window alone, while the box run lasts.
StartDecided ==
  /\ Op("decided")
  /\ LET j == Item.job
     IN IF InRun(Item.box, Item.run) /\ ~Inside(j) /\ (IsLive(j) => window.side[j] = "defer")
        THEN Postponed(j)
        ELSE Pop /\ UNCHANGED <<cat, rows, pass, seen>>

\* What an actual start writes on a box's row: the member ran, its marks are
\* void, and a box that starts begins its own sets afresh.
Marked(j) ==
  LET fresh == IF IsBox(j) THEN MemberSet(j) ELSE {}
      ran == IF Parent(j) = None THEN mark.ran ELSE mark.ran \cup {j}
  IN [ran |-> ran \ fresh,
      resolved |-> mark.resolved \ ({j} \cup fresh),
      icedOut |-> mark.icedOut \ ({j} \cup fresh)]

Goes(a) ==
  /\ Op("start")
  /\ a = Item
  /\ Passes(a) /\ Inside(a.job) /\ ~Bounded(a.job)

\* Every run begins so: the arm is consumed and the run's items descend from it.
Begins(j, new, resets, sends) ==
  /\ run' = [run EXCEPT ![j] = @ + 1]
  /\ mark' = Marked(j)
  /\ flag' = [flag EXCEPT !.armed = @ \ {j}]
  /\ status' = [k \in Jobs |-> IF k = j THEN new
                               ELSE IF k \in resets THEN "INACTIVE" ELSE status[k]]
  /\ window' = IF IsBox(j) THEN [window EXCEPT !.deferred = @ \ MemberSet(j)] ELSE window
  /\ agenda' = LET up == Head(agenda).up
               IN Under([up EXCEPT ![j] = @ + 1], sends) \o Tail(agenda)
  /\ seen' = [seen EXCEPT !.operated =
                IF Item.force THEN @ \cup {j} ELSE @ \ ({j} \cup resets)]
  /\ UNCHANGED <<cat, pass>>

\* job.101: ON_NOEXEC on the job or on a box above it.
StartBypasses ==
  /\ Goes(Item)
  /\ Bypasses(Item.job)
  /\ Begins(Item.job, "SUCCESS", {}, MoveSends(Item.job, status[Item.job], "SUCCESS"))

\* job.102: to STARTING, then to RUNNING behind that move's cascade.
StartJob ==
  /\ Goes(Item)
  /\ ~Bypasses(Item.job) /\ ~IsBox(Item.job)
  /\ LET j == Item.job
     IN Begins(j, "STARTING", {}, MoveSends(j, status[j], "STARTING") \o <<Started(j, run[j] + 1)>>)

\* job.124: a box's start resets every completed job it contains but a live
\* subbox's, each with its notice behind the move to STARTING.
StartBox ==
  /\ Goes(Item)
  /\ IsBox(Item.job)
  /\ LET b == Item.job
         resets == SelectSeq(Below(<<b>>, TRUE), LAMBDA k : status[k] \in Terminal)
         runs == [run EXCEPT ![b] = @ + 1]
     IN Begins(b, "STARTING", ToSet(resets),
               MoveSends(b, status[b], "STARTING")
                 \o Each(resets, LAMBDA k : Notice(k, status[k], runs[k], runs))
                 \o <<Started(b, runs[b])>>)

\* (mutant) A member that a box's start reset wakes nobody.
BadNoticeSends(j, old, runs) == RulesSends(j, old, "INACTIVE", runs)

NoticeSends(j, old, runs) == RulesSends(j, old, "INACTIVE", runs) \o <<Wake(j)>>

\* A row of a batch still INACTIVE in its run meets its boxes and wakes its jobs.
BatchNotice ==
  /\ Op("notice")
  /\ Run(If(status[Item.job] = "INACTIVE" /\ run[Item.job] = Item.run,
            NoticeSends(Item.job, Item.old, Item.runs)))
  /\ UNCHANGED <<cat, rows, pass, seen>>

StartedIs(j) ==
  /\ Op("started")
  /\ j = Item.job
  /\ status[j] = "STARTING" /\ run[j] = Item.run

\* job.183: a wake of its STARTING ended the run, or started the job again.
StartedLate ==
  /\ Op("started")
  /\ ~StartedIs(Item.job)
  /\ Pop
  /\ UNCHANGED <<cat, rows, pass, seen>>

JobRuns ==
  /\ StartedIs(Item.job) /\ ~IsBox(Item.job)
  /\ LET j == Item.job
     IN /\ status' = [status EXCEPT ![j] = "RUNNING"]
        /\ Run(MoveSends(j, "STARTING", "RUNNING"))
  /\ UNCHANGED <<cat, flag, mark, run, window, pass, seen>>

NoPass == [open |-> FALSE, starts |-> <<>>]

\* job.125: a box's RUNNING: its members' auto_hold, their starts, then the
\* window pass, opened here when none is pending.
BoxRuns ==
  /\ StartedIs(Item.job) /\ IsBox(Item.job)
  /\ LET b == Item.job
     IN /\ status' = [status EXCEPT ![b] = "RUNNING"]
        /\ pass' = [pass EXCEPT !.open = TRUE]
        /\ Run(MoveSends(b, "STARTING", "RUNNING") \o <<AutoHold(b)>>
                 \o Each(Members(b), Start) \o <<WindowPass(b, run[b], ~pass.open)>>)
  /\ UNCHANGED <<cat, flag, mark, run, window, seen>>

AutoHolds ==
  /\ Op("auto hold")
  /\ flag' = [flag EXCEPT !.hold = @ \cup (MemberSet(Item.box) \cap cat.autoHold)]
  /\ Pop
  /\ UNCHANGED <<cat, status, mark, run, window, pass, seen>>

WaitsForWindow(j) ==
  /\ j \in cat.windowed
  /\ j \notin flag.ice \cup flag.hold \cup mark.ran \cup mark.resolved
  /\ ~IsLive(j)

\* The members of some box runs that wait on one side of their window.
Waiting(starts, side) ==
  FlattenSeq(Each(starts, LAMBDA s :
    Each(SelectSeq(Members(s.box), LAMBDA m :
           InRun(s.box, s.run) /\ WaitsForWindow(m) /\ window.side[m] = side),
         LAMBDA m : Decided(m, s.box, s.run))))

\* A box run joins the pending pass; the box start that opened it runs it for
\* every box run registered, deferrals before skips, then each box that no member
\* is in the run of.
WindowPasses ==
  /\ Op("window pass")
  /\ LET starts == Append(pass.starts, [box |-> Item.box, run |-> Item.run])
     IN IF Item.owner
        THEN /\ pass' = NoPass
             /\ Run(Waiting(starts, "defer") \o Waiting(starts, "skip")
                      \o If(cat.allOutCompletes, Each(starts, LAMBDA s : AllOut(s.box, s.run))))
        ELSE pass' = [pass EXCEPT !.starts = starts] /\ Pop
  /\ UNCHANGED <<cat, rows, seen>>

AllMembersOut ==
  /\ Op("all out")
  /\ LET b == Item.box
     IN Run(If(InRun(b, Item.run) /\ \A m \in MemberSet(b) : OutOfTheRun(m),
               <<Door(b, None, "none", TRUE, TRUE, TRUE)>>))
  /\ UNCHANGED <<cat, rows, pass, seen>>

\* An operator's INACTIVE on a member of an idle box that its own cascade left alone.
AfterInjects ==
  /\ Op("after inject")
  /\ LET b == Parent(Item.job)
         settled == {"RUNNING", "STARTING", "TERMINATED"}
     IN Run(If(Item.was \notin settled /\ status[b] \notin settled /\ run[b] = Item.run,
               <<BoxRecompute(b, Item.job)>>))
  /\ UNCHANGED <<cat, rows, pass, seen>>

\* A job ON_NOEXEC released from its hold, unless a wake of the input started it.
RetryStep ==
  /\ Op("retry")
  /\ Run(If(run[Item.job] = Item.run, <<Start(Item.job)>>))
  /\ UNCHANGED <<cat, rows, pass, seen>>

(***************************************************************************)
(* The inputs: each begins at rest, and the next waits for the last one's  *)
(* whole cascade.                                                          *)
(***************************************************************************)
NoRuns == [j \in Jobs |-> 0]

\* An input leaves its items.  The observer keeps the conditions that held
\* before it: OFF_ICE, and a force on an iced job, re-evaluate none.
Input(name, j, items, evaluates) ==
  /\ agenda = <<>>
  /\ name \in cat.operations /\ j \in cat.subjects
  /\ agenda' = Under(NoRuns, Append(items, Commit))
  /\ seen' = [truth |-> IF evaluates THEN {k \in Jobs : Holds(cat.cond[k])} ELSE Jobs,
              operated |-> CASE name \in {"inject", "inactive"} -> seen.operated \cup {j}
                             [] name \in {"ice", "force"} /\ j \in flag.ice -> seen.operated \cup {Parent(j)}
                             [] name \in {"end", "interrupt", "kill"} -> seen.operated \ {j}
                             [] OTHER -> seen.operated]
  /\ UNCHANGED <<cat, run, pass>>

CommitInput ==
  /\ Op("commit")
  /\ agenda' = <<>>
  /\ run' = NoRuns
  /\ seen' = [seen EXCEPT !.truth = {}]
  /\ UNCHANGED <<cat, status, flag, mark, window, pass>>

StartEvent(j) ==
  /\ Input("start", j, <<Relayed(j, FALSE)>>, TRUE)
  /\ UNCHANGED <<status, flag, mark, window>>

\* FORCE_STARTJOB takes a job that can start off ice and off hold.
ForceStart(j) ==
  /\ Input("force", j, <<Relayed(j, TRUE)>>, j \notin flag.ice)
  /\ flag' = IF IsLive(j) THEN flag ELSE [flag EXCEPT !.ice = @ \ {j}, !.hold = @ \ {j}]
  /\ UNCHANGED <<status, mark, window>>

\* An attempt's end; an interrupted one holds its job in the same transition.
AttemptEnds(j, name, new) ==
  /\ status[j] = "RUNNING" /\ ~IsBox(j)
  /\ Input(name, j, MoveSends(j, "RUNNING", new), TRUE)
  /\ status' = [status EXCEPT ![j] = new]
  /\ flag' = IF name = "interrupt" THEN [flag EXCEPT !.hold = @ \cup {j}] ELSE flag
  /\ UNCHANGED <<mark, window>>

\* job.119: an operator's status, on a box too.
InjectStatus(j, new) ==
  /\ Input("inject", j, MoveSends(j, status[j], new), TRUE)
  /\ status' = [status EXCEPT ![j] = new]
  /\ UNCHANGED <<flag, mark, window>>

\* An operator's INACTIVE resolves a member of a RUNNING box, before its move.
Resolved(j) ==
  IF Parent(j) # None /\ status[Parent(j)] = "RUNNING"
  THEN [mark EXCEPT !.resolved = @ \cup {j}] ELSE mark

InjectTail(j) ==
  If(Parent(j) # None, <<AfterInject(j, status[Parent(j)], run[Parent(j)])>>)

\* The batch INACTIVE path: a box and every job in it, then each one's notice.
BatchSends(b) ==
  LET rowsMoved == <<b>> \o SelectSeq(Contained(b), LAMBDA k : status[k] # "INACTIVE")
  IN Each(rowsMoved, LAMBDA k : Notice(k, status[k], run[k], run)) \o InjectTail(b)

BatchInactive(b) ==
  [j \in Jobs |-> IF j = b \/ j \in ContainedSet(b) THEN "INACTIVE" ELSE status[j]]

\* The box runs the cascade ends take their members' arms with them.
BatchArmed(b) ==
  {j \in flag.armed :
     ~(Parent(j) = b \/ (Parent(j) \in ContainedSet(b) /\ status[Parent(j)] # "INACTIVE"))}

InjectInactive(j) ==
  /\ Input("inactive", j,
           IF IsBox(j) THEN BatchSends(j)
           ELSE MoveSends(j, status[j], "INACTIVE") \o InjectTail(j), TRUE)
  /\ status' = IF IsBox(j) THEN BatchInactive(j) ELSE [status EXCEPT ![j] = "INACTIVE"]
  /\ flag' = IF IsBox(j) THEN [flag EXCEPT !.armed = BatchArmed(j)] ELSE flag
  /\ mark' = Resolved(j)
  /\ UNCHANGED window

KillJob(j) ==
  /\ IsLive(j)
  /\ Input("kill", j, KillSends(j), TRUE)
  /\ status' = [status EXCEPT ![j] = "TERMINATED"]
  /\ UNCHANGED <<flag, mark, window>>

\* ON_ICE, ignored on a live job; on a job on ice it wakes again.
OnIce(j) ==
  /\ ~IsLive(j)
  /\ Input("ice", j, If(j \notin flag.ice, <<IceMoment(j, run)>>) \o <<Wake(j)>>, TRUE)
  /\ flag' = [flag EXCEPT !.ice = @ \cup {j}]
  /\ UNCHANGED <<status, mark, window>>

\* OFF_ICE: a member taken off ice in a RUNNING box it has not run in sits the run out.
OffIce(j) ==
  /\ j \in flag.ice
  /\ Input("ice", j, <<>>, FALSE)
  /\ flag' = [flag EXCEPT !.ice = @ \ {j}]
  /\ mark' = IF cat.offIceNextRun /\ Gate(j) \in {"running", "iced_out"}
             THEN [mark EXCEPT !.icedOut = @ \cup {j}] ELSE mark
  /\ UNCHANGED <<status, window>>

OnHold(j) ==
  /\ ~IsLive(j) /\ j \notin flag.hold
  /\ Input("hold", j, <<>>, TRUE)
  /\ flag' = [flag EXCEPT !.hold = @ \cup {j}]
  /\ UNCHANGED <<status, mark, window>>

OffHold(j) ==
  /\ Input("hold", j, <<Start(j)>>, TRUE)
  /\ flag' = [flag EXCEPT !.hold = @ \ {j}]
  /\ UNCHANGED <<status, mark, window>>

\* ON_NOEXEC, on a box for every job it contains: a completed job goes back to
\* INACTIVE, a box with all it contains, and what it released from a hold retries.
Tree(j) == <<j>> \o Contained(j)
Retries(j) ==
  Each(SelectSeq(Tree(j), LAMBDA k : k \in flag.hold), LAMBDA k : Retry(k, run[k]))

NoexecIgnored(j) ==
  \/ j \in flag.ice \/ status[j] = "RUNNING"
  \/ ~IsBox(j) /\ status[j] = "STARTING"
  \/ \E k \in ContainedSet(j) : k \in flag.ice \/ IsLive(k)

NoexecSettles(j) ==
  IF IsBox(j)
  THEN \/ \E k \in {j} \cup ContainedSet(j) : status[k] # "INACTIVE"
       \/ Parent(j) # None /\ status[Parent(j)] = "RUNNING"
  ELSE status[j] \in Failed

OnNoexec(j) ==
  /\ ~NoexecIgnored(j)
  /\ LET settles == NoexecSettles(j)
         batch == IsBox(j) /\ settles
     IN /\ Input("noexec", j,
                 If(settles, IF batch THEN BatchSends(j)
                             ELSE MoveSends(j, status[j], "INACTIVE") \o InjectTail(j))
                   \o Retries(j), TRUE)
        /\ flag' = [flag EXCEPT !.noexec = @ \cup ToSet(Tree(j)), !.hold = @ \ ToSet(Tree(j)),
                                !.armed = IF batch THEN BatchArmed(j) ELSE @]
        /\ status' = IF batch THEN BatchInactive(j)
                     ELSE IF settles THEN [status EXCEPT ![j] = "INACTIVE"] ELSE status
        /\ mark' = IF settles THEN Resolved(j) ELSE mark
  /\ UNCHANGED window

OffNoexec(j) ==
  /\ Input("noexec", j, <<>>, TRUE)
  /\ flag' = [flag EXCEPT !.noexec = @ \ ToSet(Tree(j))]
  /\ UNCHANGED <<status, mark, window>>

\* Time passes a window's edge: after its close a start skips, nearer the opening
\* it is deferred to it, and the opening makes the deferred start.
WindowTurns(j) ==
  /\ j \in cat.windowed
  /\ LET opens == window.side[j] = "defer"
     IN /\ Input("window", j, If(opens /\ j \in window.deferred, <<Relayed(j, FALSE)>>), TRUE)
        /\ window' = [side |-> [window.side EXCEPT ![j] =
                        CASE @ = "inside" -> "skip" [] @ = "skip" -> "defer" [] OTHER -> "inside"],
                      deferred |-> IF opens THEN window.deferred \ {j} ELSE window.deferred]
  /\ UNCHANGED <<status, flag, mark>>

-----------------------------------------------------------------------------
Init ==
  /\ cat \in Catalogs
  /\ status = [j \in Jobs |-> "INACTIVE"]
  /\ flag = [ice |-> {}, hold |-> {}, noexec |-> {}, armed |-> {}]
  /\ mark = [ran |-> {}, resolved |-> {}, icedOut |-> {}]
  /\ run = NoRuns
  /\ window = [side |-> [j \in Jobs |-> "inside"], deferred |-> {}]
  /\ pass = NoPass
  /\ agenda = <<>>
  /\ seen = [truth |-> {}, operated |-> {}]

Inputs ==
  \E j \in Jobs :
    \/ StartEvent(j) \/ ForceStart(j)
    \/ \E new \in {"SUCCESS", "FAILURE"} : AttemptEnds(j, "end", new)
    \/ AttemptEnds(j, "interrupt", "FAILURE")
    \/ \E new \in Statuses \ {"INACTIVE"} : InjectStatus(j, new)
    \/ InjectInactive(j) \/ KillJob(j)
    \/ OnIce(j) \/ OffIce(j) \/ OnHold(j) \/ OffHold(j)
    \/ OnNoexec(j) \/ OffNoexec(j)
    \/ WindowTurns(j)

Items ==
  \/ BoxRules \/ Walks \/ WalksOn \/ IceResolves \/ Wakes \/ Disarms
  \/ DoorDecides \/ IdleRecompute \/ BoxTerminated \/ BoxCompleted \/ BoxEndsAtMember
  \/ StartStops \/ StartPostponed \/ StartDecided \/ StartBypasses \/ StartJob \/ StartBox
  \/ BatchNotice \/ StartedLate \/ JobRuns \/ BoxRuns \/ AutoHolds
  \/ WindowPasses \/ AllMembersOut \/ AfterInjects \/ RetryStep
  \/ CommitInput

Next == Inputs \/ Items

Spec == Init /\ [][Next]_vars

(***************************************************************************)
(* Properties.  What an operator set by hand (seen.operated) is the        *)
(* operator's: a status of theirs, and a box one of whose members they     *)
(* took off ice, answer for nothing until the engine moves them.           *)
(***************************************************************************)
AtEnd == Op("commit")

\* No input leaves a RUNNING box that nothing will end: neither one whose members are
\* done, for whatever made the last of them done (an end, a kill, an INACTIVE, ice, a
\* window's skip, a live job that ends inside an iced subbox) visited the box afterwards
\* (_box_rules, _ice_resolves, _window_pass); nor one with a member outside its window
\* that no pass met, or that waits for an opening that will not start it (a nested box's
\* members are met by the outer start's pass).  The exceptions to the first are a declared
\* override, which suppresses the default, and all_members_out_completes switched off.
NoBoxHangs ==
  AtEnd => \A b \in cat.boxes : status[b] = "RUNNING" =>
    /\ \/ b \in seen.operated
       \/ FoldTarget(b) = "none"
       \/ ~cat.allOutCompletes /\ \A m \in MemberSet(b) : OutOfTheRun(m)
    /\ \A m \in MemberSet(b) : run[b] > 0 /\ WaitsForWindow(m) =>
         /\ window.side[m] = "defer" => m \in window.deferred
         /\ window.side[m] # "skip"

\* job_terminator takes the run that ended and no other (_box_ends, job.116): a
\* failed box leaves no live member that declares it, and a box that its own end
\* started again, inside the same input, keeps the members of the new run.
TerminatorsEndTheirRun ==
  AtEnd => \A m \in cat.jobTerminators \ seen.operated :
    LET b == Parent(m)
    IN b # None /\ b \notin seen.operated =>
         /\ status[b] \in Failed => ~IsLive(m)
         /\ status[b] = "RUNNING" /\ run[m] > 0 /\ ~IsBox(m) => status[m] # "TERMINATED"

\* A completed box without overrides agrees with its members, run by their box or
\* one at a time under an idle one (FoldFacts, RecomputeFacts): it is FAILURE exactly
\* when one of its completed members failed.  Iced members are not compared.
IdleBoxAgrees ==
  AtEnd => \A b \in cat.boxes \ seen.operated :
    (/\ status[b] \in {"SUCCESS", "FAILURE"}
     /\ cat.success[b] = NotDeclared /\ cat.failure[b] = NotDeclared
     /\ \A m \in MemberSet(b) : status[m] \in Terminal /\ m \notin flag.ice)
    => (status[b] = "FAILURE" <=> \E m \in MemberSet(b) : status[m] \in Failed)

\* No wake is lost (_wake, start_verdict): a job whose condition an input made true,
\* and that could start at its end, has started in it.  The cascade may make a
\* condition true and the box RUNNING in either order, inside a batch or out of it.
NoWakeLost ==
  AtEnd => \A j \in Jobs \ seen.truth :
    (/\ cat.cond[j] # NoCondition /\ Holds(cat.cond[j])
     /\ OpenToPlain(Start(j)) /\ Inside(j) /\ ~IsLive(j))
    => run[j] > 0

\* An override names jobs of its box that are not on ice, and holds.
Fulfilled(b, condition) ==
  Named(condition) \subseteq ContainedSet(b) \ flag.ice /\ Holds(condition)

\* No job starts in a box whose override already holds: the move that fulfilled it
\* ended the box, through every box between, before its wakes (_box_rules, _walk_up).
OverrideBeatsWake ==
  [][\A j \in Jobs :
       LET b == Parent(j)
       IN (/\ Op("start") /\ Item.job = j /\ ~Item.force
           /\ run'[j] > run[j]
           /\ b \notin seen.operated \cup {None})
          => ~Fulfilled(b, cat.success[b]) /\ ~Fulfilled(b, cat.failure[b])]_vars

=============================================================================
