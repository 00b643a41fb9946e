------------------------------- MODULE Executor -------------------------------
(***************************************************************************)
(* The statechart executor (src/dsl41/state_machine.py, Executor): one     *)
(* worklist and one pool for all the instances of a tier.  post and start  *)
(* put a root item in the pool; run takes one root item after another,     *)
(* released deferred events ahead of the pool, and runs every item one     *)
(* produced before it takes the next.                                      *)
(*                                                                         *)
(* A microstep is one action: selection, the rows it fires, the actions    *)
(* they call and what those report are one call of _step.  The tier's own  *)
(* calls come between two runs only, since every one of them raises while  *)
(* a run is in flight (_idle).                                             *)
(*                                                                         *)
(* An error ends the run and empties the worklist; the tier dispatches     *)
(* nothing more, so the model stops there.  What a failing microstep had   *)
(* already written is left out, and so are fork, resolve, explain, the     *)
(* tier's hook, payloads, intents, hits and the history for reports.       *)
(***************************************************************************)
EXTENDS Statechart, Bags

CONSTANTS
  Keys,       \* the instances a tier may add
  Estates,    \* the declarations they follow: functions from Keys
  MaxPosts,   \* bound: events raised before the tier posts its last
  MaxAdded    \* bound: instances it adds, one forgotten and added again included

ASSUME ExecutorAssumption ==
  /\ MaxPosts \in Nat /\ MaxAdded \in Nat
  /\ \A est \in Estates : DOMAIN est \subseteq Keys

VARIABLES
  estate,     \* each instance's declaration, indexed
  inst,       \* _instances: the record of each instance there is
  pool,       \* _pool: root items
  work,       \* _worklist
  deferring,  \* _deferring: the instances with a deferred queue
  added,      \* _added: the serial of the last instance added
  running,    \* _running
  step,       \* microsteps of this run; a link of an ancestry is known by its microstep
  path,       \* _path: the ancestry of the item in hand
  onpath,     \* _on_path: how often each step is on it
  issued,     \* events posted or sent so far, numbered
  handled,    \* of each: how often a microstep decided it for good
  error       \* what ended a run, or ""

vars == <<estate, inst, pool, work, deferring, added, running, step, path, onpath,
          issued, handled, error>>

Item(kind, k, e, gen, id) ==
  [kind |-> kind, key |-> k, event |-> e, gen |-> gen, id |-> id,
   name |-> "", serial |-> 0, anc |-> <<>>]

\* The ancestry of what the microstep of an item produces.
Chained(item) == Append(item.anc, [n |-> step + 1, step |-> <<item.key, item.event>>])

-----------------------------------------------------------------------------
(* The path of the item in hand (_align, _count).                          *)

\* The links the path shares with an ancestry: the deepest one that is the same link.
Shared(anc) ==
  LET same == {i \in DOMAIN path \cap DOMAIN anc : path[i].n = anc[i].n}
  IN IF same = {} THEN 0 ELSE CHOOSE i \in same : \A j \in same : j <= i

\* (mutant) What is dropped from the path stays counted.
BadUncounted(counts, links) == counts

Uncounted(counts, links) == FoldLeft(LAMBDA b, l : b (-) SetToBag({l.step}), counts, links)

Aligned(anc) ==
  LET keep == Shared(anc)
      on == SubSeq(anc, keep + 1, Len(anc))
  IN [path |-> SubSeq(path, 1, keep) \o on,
      counts |-> FoldLeft(LAMBDA b, l : b (+) SetToBag({l.step}),
                          Uncounted(onpath, SubSeq(path, keep + 1, Len(path))), on)]

Links(anc, s) == Cardinality({i \in DOMAIN anc : anc[i].step = s})

\* Read off the path when the item is the one in hand, counted otherwise.
Counted(p, counts, anc, s) ==
  IF IF anc = <<>> THEN p = <<>> ELSE p # <<>> /\ Last(p).n = Last(anc).n
  THEN CopiesIn(s, counts)
  ELSE Links(anc, s)

\* What the guards see for an item when the path is p.
Context(p, counts, item) ==
  [data |-> inst[item.key].data,
   nested |-> Counted(p, counts, item.anc, estate[item.key].counted)]

-----------------------------------------------------------------------------
(* One microstep's rows (_run_row, _choose, _enter, _call).                 *)

\* What a microstep gathers: the instance as written, and what its actions report.
Gathering(k) ==
  [record |-> inst[k], reported |-> <<>>, then |-> <<>>, fresh |-> <<>>]

Call(c, m, name) ==
  IF name = "" THEN m
  ELSE LET f == c.acts[name]
       IN [m EXCEPT !.reported = @ \o f.send,
                    !.then = IF f.then = "" THEN @ ELSE Append(@, f.then),
                    !.record.gens = [t \in DOMAIN @ |-> @[t] + IF t \in f.rearm THEN 1 ELSE 0]]

Leave(c, m, s) == [Call(c, m, c.exit[s]) EXCEPT !.record.active = @ \ {s}]

Enter(c, m, s) ==
  LET serial == m.record.entries + 1
      record == [m.record EXCEPT !.active = @ \cup {s},
                                 !.entries = serial,
                                 !.entered = (s :> serial) @@ @]
  IN Call(c, [m EXCEPT !.record = record, !.fresh = Append(@, s)], c.entry[s])

EnterAll(c, m, order) == FoldLeft(LAMBDA n, s : Enter(c, n, s), m, order)

\* A choice takes its first enabled branch; the last one has no guard.
Branch(c, r, x) ==
  LET held == {i \in DOMAIN r.branches : Holds(c, r.branches[i].guard, x)}
  IN r.branches[CHOOSE i \in held : \A j \in held : i <= j]

RunRow(c, m, r, x) ==
  IF r.kind # "external" THEN Call(c, m, r.action)
  ELSE LET left == FoldLeft(LAMBDA n, s : Leave(c, n, s), m, ExitOrder(c, m.record.active, r))
           branch == Branch(c, r, x)
           acted == Call(c, Call(c, left, r.action), branch.action)
       IN EnterAll(c, acted, EntryOrder(c, EntryTop(c, r, branch.target), branch.target))

\* The states a microstep completed, once each: a simple state it entered, and a composite
\* whose regions all rest in a final state since.
Completed(c, m) ==
  LET done(s) == IF s \in c.final THEN c.parent[s] ELSE s
      rests(s) == \A t \in m.record.active : c.parent[t] = s => t \in c.final
      ends(i) == /\ IF m.fresh[i] \in c.final THEN rests(done(m.fresh[i])) ELSE Simple(c, m.fresh[i])
                 /\ RowsOf(c, done(m.fresh[i]), COMPLETION) # {}
      completes(i) == ends(i) /\ \A j \in 1..(i - 1) : ~ends(j) \/ done(m.fresh[j]) # done(m.fresh[i])
      turns == SelectSeq([i \in DOMAIN m.fresh |-> i], completes)
  IN [n \in DOMAIN turns |-> done(m.fresh[turns[n]])]

-----------------------------------------------------------------------------
(* Executing what was selected (_fire, _queue_order).                       *)

\* An action may raise an event only for an instance of the same executor.
Deliverable(m) == \A i \in DOMAIN m.reported : m.reported[i][1] \in DOMAIN inst

\* The item in hand is decided for good; what the microstep reported is numbered.
Decided(item, more) ==
  /\ issued' = issued + more
  /\ handled' = [i \in 1..(issued + more) |->
       IF i > issued THEN 0 ELSE handled[i] + IF i = item.id THEN 1 ELSE 0]

\* What a microstep puts at the front: what it reported, its continuations, its completions.
Produced(item, c, m) ==
  LET anc == Chained(item)
      sent == [i \in DOMAIN m.reported |->
        [Item("event", m.reported[i][1], m.reported[i][2], 0, issued + i) EXCEPT !.anc = anc]]
      continued == [i \in DOMAIN m.then |->
        [Item("continuation", item.key, item.event, 0, 0) EXCEPT !.anc = anc, !.name = m.then[i]]]
      done == Completed(c, m)
      completions == [i \in DOMAIN done |->
        [Item("completion", item.key, COMPLETION, 0, 0) EXCEPT
           !.anc = anc, !.name = done[i], !.serial = m.record.entered[done[i]]]]
  IN sent \o continued \o completions

Stop(why) ==
  /\ error' = why
  /\ running' = FALSE /\ work' = <<>>
  /\ path' = <<>> /\ onpath' = EmptyBag /\ step' = 0
  /\ UNCHANGED <<estate, inst, pool, deferring, added, issued, handled>>

\* The item in hand, its ancestry on the path, and what guards see for it.
InHand(kind) == running /\ work # <<>> /\ Head(work).kind = kind

Sees(item) == LET a == Aligned(item.anc) IN Context(a.path, a.counts, item)

Turn(item) ==
  LET a == Aligned(item.anc)
  IN /\ path' = a.path /\ onpath' = a.counts /\ step' = step + 1
     /\ UNCHANGED <<estate, pool, added, running, error>>

\* The microstep's write, and its share of the worklist; a report that cannot be delivered
\* ends the run instead.
Execute(item, m) ==
  \/ /\ Deliverable(m)
     /\ inst' = [inst EXCEPT ![item.key] = m.record]
     /\ work' = Produced(item, estate[item.key], m) \o Tail(work)
     /\ Decided(item, Len(m.reported))
     /\ Turn(item) /\ UNCHANGED deferring
  \/ ~Deliverable(m) /\ Stop("no instance")

Fire(item, rows) ==
  LET c == estate[item.key]
      x == Sees(item)
  IN Execute(item, FoldLeft(LAMBDA m, r : RunRow(c, m, r, x), Gathering(item.key), rows))

\* A completion or an overflow has one enabled row where the guards keep their contract.
FireOne(item, rows) ==
  IF Cardinality(rows) = 1 THEN Fire(item, SetToSeq(rows))
  ELSE Stop(IF rows = {} THEN "unhandled" ELSE "ambiguous")

\* An item that changes nothing but what is left to do.
Drop(item) ==
  /\ work' = Tail(work)
  /\ Decided(item, 0)
  /\ Turn(item) /\ UNCHANGED <<inst, deferring>>

-----------------------------------------------------------------------------
(* The tier's calls (start, restore, forget, post, run).                   *)

Idle == ~running /\ error = ""

Added(k, active) ==
  LET c == estate[k]
  IN /\ k \notin DOMAIN inst /\ added < MaxAdded
     /\ added' = added + 1
     /\ \E fact \in BOOLEAN :
          inst' = inst @@ (k :>
            [active |-> active, data |-> fact, deferred |-> <<>>,
             gens |-> [t \in c.timers |-> 0],
             entered |-> [s \in active |-> 0], entries |-> 0, added |-> added + 1])
     /\ UNCHANGED <<estate, work, deferring, running, step, path, onpath, issued, handled, error>>

\* The initial entry is a root item of the next run.
Start(k) ==
  /\ Idle
  /\ Added(k, {})
  /\ pool' = Append(pool, Item("start", k, INITIAL, 0, 0))

\* An instance in a given configuration; no action runs.
Restore(k, A) ==
  /\ Idle
  /\ Configuration(estate[k], A)
  /\ Added(k, A)
  /\ UNCHANGED pool

\* An instance at rest in a final configuration with nothing left to handle.
Forget(k) ==
  LET c == estate[k]
      i == inst[k]
  IN /\ Idle /\ k \in DOMAIN inst
     /\ ~Simple(c, Root(c))
     /\ \A s \in i.active : c.parent[s] = Root(c) => s \in c.final
     /\ i.deferred = <<>> /\ \A n \in DOMAIN pool : pool[n].key # k
     /\ inst' = [j \in DOMAIN inst \ {k} |-> inst[j]]
     /\ UNCHANGED <<estate, pool, work, deferring, added, running, step, path, onpath,
                    issued, handled, error>>

\* A time event carries the generation it was armed with, the current one or an older.
Post(k, e, gen) ==
  /\ Idle /\ k \in DOMAIN inst
  /\ issued < MaxPosts
  /\ pool' = Append(pool, Item("event", k, e, gen, issued + 1))
  /\ issued' = issued + 1
  /\ handled' = Append(handled, 0)
  /\ UNCHANGED <<estate, inst, work, deferring, added, running, step, path, onpath, error>>

RunBegins ==
  /\ Idle /\ (pool # <<>> \/ deferring # {})
  /\ running' = TRUE
  /\ UNCHANGED <<estate, inst, pool, work, deferring, added, step, path, onpath,
                 issued, handled, error>>

-----------------------------------------------------------------------------
(* Between two macrosteps (_release, run).                                 *)

Stale(k, e, gen) == e \in estate[k].timers /\ gen # inst[k].gens[e]

\* What the head of an instance's deferred queue comes to as a root item.
HeadOf(k) == Head(inst[k].deferred)

HeadSelects(k) ==
  Select(estate[k], inst[k].active, HeadOf(k).event,
         Context(path, onpath, Item("event", k, HeadOf(k).event, HeadOf(k).gen, 0)))

HeadStale(k) == Stale(k, HeadOf(k).event, HeadOf(k).gen)

Held(k) ==
  /\ ~HeadStale(k)
  /\ LET s == HeadSelects(k) IN ~s.ambiguous /\ s.rows = <<>> /\ s.deferring # <<>>

\* The instances in the order they were added, up to the first head that is not held.
Releasable == {k \in deferring : ~Held(k)}

FirstAdded(K) == CHOOSE k \in K : \A j \in K : inst[k].added <= inst[j].added

BetweenMacrosteps == running /\ work = <<>>

\* (mutant) A release forgets the instance, whatever is behind its head.
BadTakeHead(k) ==
  /\ inst' = [inst EXCEPT ![k].deferred = Tail(@)]
  /\ deferring' = deferring \ {k}

TakeHead(k) ==
  /\ inst' = [inst EXCEPT ![k].deferred = Tail(@)]
  /\ deferring' = IF Len(inst[k].deferred) = 1 THEN deferring \ {k} ELSE deferring

ReleaseHead(k) ==
  LET head == HeadOf(k)
  IN IF ~HeadStale(k) /\ HeadSelects(k).ambiguous THEN Stop("ambiguous")
     ELSE /\ TakeHead(k)
          /\ work' = <<Item("event", k, head.event, head.gen, head.id)>>
          /\ UNCHANGED <<estate, pool, added, running, step, path, onpath, issued, handled, error>>

Release ==
  /\ BetweenMacrosteps /\ Releasable # {}
  /\ ReleaseHead(FirstAdded(Releasable))

TakeRoot ==
  /\ BetweenMacrosteps /\ Releasable = {} /\ pool # <<>>
  /\ work' = <<Head(pool)>>
  /\ pool' = Tail(pool)
  /\ UNCHANGED <<estate, inst, deferring, added, running, step, path, onpath, issued, handled, error>>

RunEnds ==
  /\ BetweenMacrosteps /\ Releasable = {} /\ pool = <<>>
  /\ running' = FALSE
  /\ path' = <<>> /\ onpath' = EmptyBag /\ step' = 0
  /\ UNCHANGED <<estate, inst, pool, work, deferring, added, issued, handled, error>>

-----------------------------------------------------------------------------
(* The microsteps (_step, _decide, _defer).                                *)

StepStart ==
  /\ InHand("start")
  /\ LET item == Head(work)
         c == estate[item.key]
     IN Execute(item, EnterAll(c, Gathering(item.key), EntryOrder(c, Root(c), Root(c))))

StepContinuation ==
  /\ InHand("continuation")
  /\ LET item == Head(work)
     IN Execute(item, Call(estate[item.key], Gathering(item.key), item.name))

\* (mutant) Any occurrence of the state will do.
BadOccurrenceGone(item) == item.name \notin inst[item.key].active

\* The completed state was left, or left and entered again, since.
OccurrenceGone(item) ==
  \/ item.name \notin inst[item.key].active
  \/ inst[item.key].entered[item.name] # item.serial

StepCompletion ==
  /\ InHand("completion")
  /\ LET item == Head(work)
         rows == Enabled(estate[item.key], item.name, COMPLETION, Sees(item))
     IN \/ OccurrenceGone(item) /\ Drop(item)
        \/ ~OccurrenceGone(item) /\ FireOne(item, rows)

Selects(item) == Select(estate[item.key], inst[item.key].active, item.event, Sees(item))

StepStale ==
  /\ InHand("event")
  /\ LET item == Head(work) IN Stale(item.key, item.event, item.gen) /\ Drop(item)

\* Queue the event behind what is deferred, or apply the overflow policy.
Defer(item, states) ==
  LET c == estate[item.key]
      queue == inst[item.key].deferred
      full == Len(queue) >= c.bound
      over == Enabled(c, states[1], OVERFLOWED, Sees(item))
  IN \/ /\ ~full
        /\ inst' = [inst EXCEPT ![item.key].deferred =
             Append(@, [event |-> item.event, gen |-> item.gen, id |-> item.id])]
        /\ deferring' = deferring \cup {item.key}
        /\ work' = Tail(work)
        /\ Turn(item) /\ UNCHANGED <<issued, handled>>
     \/ full /\ c.overflow # "drop" /\ Stop("overflow")
     \/ full /\ c.overflow = "drop" /\ FireOne(item, over)

\* What the selection for an event comes to.
Decide(item, s) ==
  \/ s.ambiguous /\ Stop("ambiguous")
  \/ ~s.ambiguous /\ s.rows # <<>> /\ Fire(item, s.rows)
  \/ ~s.ambiguous /\ s.rows = <<>> /\ s.deferring # <<>> /\ Defer(item, s.deferring)
  \/ /\ ~s.ambiguous /\ s.rows = <<>> /\ s.deferring = <<>>
     /\ \/ AtTheEnd(estate[item.key], inst[item.key].active) /\ Drop(item)
        \/ ~AtTheEnd(estate[item.key], inst[item.key].active) /\ Stop("unhandled")

StepEvent ==
  /\ InHand("event")
  /\ LET item == Head(work)
     IN ~Stale(item.key, item.event, item.gen) /\ Decide(item, Selects(item))

-----------------------------------------------------------------------------

\* A declaration passes the checks before it is used, and its guards keep their contract.
Init ==
  /\ estate \in Estates
  /\ \A k \in DOMAIN estate : WellFormed(estate[k]) /\ GuardsPartition(estate[k])
  /\ inst = <<>>
  /\ pool = <<>> /\ work = <<>> /\ deferring = {} /\ added = 0
  /\ running = FALSE /\ step = 0 /\ path = <<>> /\ onpath = EmptyBag
  /\ issued = 0 /\ handled = <<>> /\ error = ""

Next ==
  \/ \E k \in DOMAIN estate :
       \/ Start(k) \/ Forget(k)
       \/ \E A \in estate[k].saved : Restore(k, A)
       \/ \E e \in Alphabet(estate[k]) :
            \E gen \in IF k \in DOMAIN inst /\ e \in estate[k].timers THEN 0..inst[k].gens[e] ELSE {0} :
              Post(k, e, gen)
  \/ RunBegins \/ Release \/ TakeRoot \/ RunEnds
  \/ StepStart \/ StepContinuation \/ StepCompletion \/ StepStale \/ StepEvent

Spec == Init /\ [][Next]_vars

-----------------------------------------------------------------------------
(* Properties.                                                             *)

\* The regions of s all rest in a final state.
Complete(c, A, s) == Simple(c, s) \/ \A t \in A : c.parent[t] = s => t \in c.final

\* Between two microsteps every instance is in a legal configuration, or waits for its initial
\* entry, whatever its regions' rows left and entered together.  A completion is taken for the
\* occurrence of its state that completed: one that is still good is of a state that is
\* complete; and once a macrostep is over, none that has a completion row rests completed
\* (_fire, _completions, _occurrence_gone).
RestsInAConfiguration ==
  /\ \A k \in DOMAIN inst :
       LET c == estate[k]
           A == inst[k].active
       IN IF A = {} THEN error = "" => \E q \in {pool, work} : \E i \in DOMAIN q :
                           q[i].kind = "start" /\ q[i].key = k
          ELSE /\ Configuration(c, A)
               /\ work = <<>> /\ error = "" =>
                    \A s \in A : Complete(c, A, s) => RowsOf(c, s, COMPLETION) = {}
  /\ \A i \in DOMAIN work :
       work[i].kind = "completion" /\ ~OccurrenceGone(work[i])
         => Complete(estate[work[i].key], inst[work[i].key].active, work[i].name)

\* An event posted or sent is in one place: in the pool, on the worklist, in one deferred
\* queue, or decided, and then once only, whatever was deferred, released, overflowed,
\* discarded or ignored on the way.  An instance with a deferred queue is one a release looks
\* at, however many of its events were released; and when the tier may act again, what is
\* deferred is behind a head that its configuration still defers: no release is owed, over
\* all the instances a run touched (_defer, _release, run).
EventsHandledOnce ==
  error = "" =>
    /\ \A n \in 1..issued :
         handled[n]
           + Cardinality({i \in DOMAIN pool : pool[i].id = n})
           + Cardinality({i \in DOMAIN work : work[i].id = n})
           + Cardinality({p \in UNION {{k} \X DOMAIN inst[k].deferred : k \in DOMAIN inst} :
                            inst[p[1]].deferred[p[2]].id = n})
         = 1
    /\ \A k \in DOMAIN inst :
         inst[k].deferred # <<>> => k \in deferring /\ (running \/ Held(k))

\* The count a guard reads off the path is the number of links of its item's ancestry, after
\* whatever items ran before it in the run (_align, _count).
CountIsExact ==
  [][step' = step + 1 =>
       LET anc == Head(work).anc
           steps == UNION {{k} \X (Alphabet(estate[k]) \cup {COMPLETION, INITIAL}) : k \in DOMAIN estate}
       IN \A s \in steps : Counted(path', onpath', anc, s) = Links(anc, s)]_vars

\* A selection is decided, deferred or ignored at the end, and is ambiguous or drops a row for
\* its source only where a warning said so.
Foreseen(c, A, s) ==
  /\ s.ambiguous \/ s.rows # <<>> \/ s.deferring # <<>> \/ AtTheEnd(c, A)
  /\ s.ambiguous \/ s.dropped # {} => Warned(c)

\* What the declaration checks promise (well_formed, chart_warnings).  Of every configuration
\* a run leaves: each event is decided, deferred or ignored at the end; and a selection that
\* is ambiguous, or drops a row for its source, is one that a warning named.  So no run stops
\* on an event nothing decides, but for one sent to an instance whose initial entry is still
\* in the pool.
ChecksSuffice ==
  /\ Idle => \A k \in DOMAIN inst :
       LET c == estate[k]
           A == inst[k].active
       IN A # {} => \A e \in Alphabet(c) : \A n \in {0, c.limit} :
            Foreseen(c, A, Select(c, A, e, [data |-> inst[k].data, nested |-> n]))
  /\ error = "ambiguous" => \E k \in DOMAIN inst : Warned(estate[k])
  /\ error = "unhandled" => \E k \in DOMAIN inst : inst[k].active = {}

=============================================================================
