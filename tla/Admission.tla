------------------------------ MODULE Admission ------------------------------
(***************************************************************************)
(* The admission of inputs (src/dsl41/runner.py _admit_and_apply and       *)
(* runner_admission.py): an input is looked up, applied and made durable   *)
(* by the single writer; its requester is answered from the durable        *)
(* decision, or does not hear and sends it again under the same id.        *)
(*                                                                         *)
(* The oracle is one entity's revision.  The time half of an input may     *)
(* move it, and so may the command; one input moves it at most once.  What *)
(* a faulting apply, a stale completion and a time half that raises depend *)
(* on is left open.  Between the apply and the answer nothing else runs,   *)
(* but the engine may die.                                                 *)
(***************************************************************************)
EXTENDS Naturals, Sequences, FiniteSets

CONSTANTS
  Ids,       \* request ids, of commands and of updates: none an engine-made one
  Clients,   \* requesters, each with one request at a time
  MaxTries,  \* bound: how often a client sends, first tries and retries
  MaxLog     \* bound: durable records

ASSUME AdmissionAssumption ==
  /\ MaxTries \in Nat \ {0} /\ MaxLog \in Nat \ {0}
  /\ {id \in Ids : id \in {"engine"} \X Nat} = {}

VARIABLES
  \* in the store
  log,       \* the decisions and update intents ever committed, in order
  pruned,    \* how many of them retention has deleted
  snap,      \* the snapshot a restart begins at
  \* in the engine
  phase,
  committed, \* the frontier's committed index
  rev,       \* the entity's revision in the oracle
  known,     \* the decision index: the decisions this engine made or replayed
  queue,     \* inputs in the order they arrived
  hand,      \* the input between its apply and its answer
  \* in the clients
  client,    \* what each client waits for
  told       \* observer: the decisions clients were answered with

store == <<log, pruned, snap>>
engine == <<phase, committed, rev, known, queue, hand>>
vars == <<store, engine, client, told>>

None == <<>>

\* An engine-made input is named by the index it is about to take.
EngineId(n) == <<"engine", n>>

\* The log's entries.  A command's fingerprint is the revision it was composed
\* against; whether an engine-made input was applied is left out; an intent has no
\* index.
\*   [id, fp, outcome : {"applied", "rejected", "engine", "intent"}, index, moved]

Init ==
  /\ log = <<>> /\ pruned = 0
  /\ snap = [at |-> 0, rev |-> 0, committed |-> 0]
  /\ phase = "running"
  /\ committed = 0 /\ rev = 0 /\ known = {} /\ queue = <<>> /\ hand = None
  /\ client = [c \in Clients |-> [st |-> "idle", try |-> 0, req |-> None]]
  /\ told = {}

-----------------------------------------------------------------------------
(* The store.                                                              *)

Retained == {log[n] : n \in pruned + 1..Len(log)}

Moves(from, to) == Cardinality({n \in from..to : log[n].moved})

Decisions(from, to) == Cardinality({n \in from..to : log[n].outcome # "intent"})

-----------------------------------------------------------------------------
(* The engine.                                                             *)

Ready == phase # "down" /\ hand = None

BadFound(id) == {e \in known : e.id = id}

\* DecisionIndex.lookup: what this engine decided, or else what the store
\* retains under the id.
Found(id) ==
  LET mine == {e \in known : e.id = id}
  IN IF mine # {} THEN mine ELSE {e \in Retained : e.id = id}

BadSame(e, req) == e.outcome # "intent"

\* An exact retry, and not another command or an update under its id.
Same(e, req) == e.outcome # "intent" /\ e.fp = req.fp

\* precondition_reason: the revision from before the input's own time half.
Passed(req) == req.fp = rev

BadAnswered(p) == client[p.by].st = "waiting" /\ p.try = 1

Answered(p) == client[p.by].st = "waiting" /\ client[p.by].try = p.try

\* The answer reaches a client that still waits for it.
Answer(p, e) ==
  IF p # None /\ Answered(p)
  THEN /\ client' = [client EXCEPT ![p.by].st = "idle"]
       /\ told' = told \cup {[req |-> p.req, entry |-> e]}
  ELSE UNCHANGED <<client, told>>

Refuse(p) ==
  /\ client' = [client EXCEPT ![p.by].st = IF Answered(p) THEN "idle" ELSE @]
  /\ UNCHANGED told

\* A retry is answered from the first decision, and takes no index.
Retried ==
  /\ Ready /\ queue # <<>>
  /\ \E e \in Found(Head(queue).req.id) :
       IF Same(e, Head(queue).req) THEN Answer(Head(queue), e) ELSE Refuse(Head(queue))
  /\ queue' = Tail(queue)
  /\ UNCHANGED <<store, phase, committed, rev, known, hand>>

\* _dry_apply: a fault in either half refuses, and nothing is stored.
Faulted ==
  /\ Ready /\ phase = "running" /\ queue # <<>>
  /\ Found(Head(queue).req.id) = {}
  /\ Refuse(Head(queue))
  /\ queue' = Tail(queue)
  /\ UNCHANGED <<store, phase, committed, rev, known, hand>>

\* The apply of one input: the time half, and the command where the gate lets
\* it.  The index takes the decision before the store does.
Applying(id, req, p, outcome) ==
  \E moved \in BOOLEAN :
    LET entry == [id |-> id, fp |-> req.fp, outcome |-> outcome,
                  index |-> committed + 1, moved |-> moved]
    IN /\ committed' = committed + 1
       /\ rev' = IF moved THEN rev + 1 ELSE rev
       /\ known' = known \cup {entry}
       /\ hand' = [entry |-> entry, for |-> p, durable |-> FALSE]

\* A command a draining engine takes is rejected, and its time half applies.
Command ==
  /\ Ready /\ queue # <<>> /\ Len(log) < MaxLog
  /\ LET p == Head(queue) IN
     /\ Found(p.req.id) = {}
     /\ Applying(p.req.id, p.req, p,
                 IF phase = "running" /\ Passed(p.req) THEN "applied" ELSE "rejected")
  /\ queue' = Tail(queue)
  /\ UNCHANGED <<store, phase, client, told>>

\* A completion, a tick or a timer: applied, or rejected as stale, as naming a
\* removed job, or as quarantined.
EngineMade ==
  /\ Ready /\ Len(log) < MaxLog
  /\ Applying(EngineId(committed + 1), [fp |-> 0], None, "engine")
  /\ UNCHANGED <<store, phase, queue, client, told>>

\* Journal.admission: the input and its decision are one transaction.
Commit ==
  /\ hand # None /\ ~hand.durable
  /\ log' = Append(log, hand.entry)
  /\ hand' = [hand EXCEPT !.durable = TRUE]
  /\ UNCHANGED <<pruned, snap, phase, committed, rev, known, queue, client, told>>

Reply ==
  /\ hand # None /\ hand.durable
  /\ Answer(hand.for, hand.entry)
  /\ hand' = None
  /\ UNCHANGED <<store, phase, committed, rev, known, queue>>

\* An update's intent takes its request id in the same column.
UpdateIntent ==
  /\ Ready /\ phase = "running" /\ Len(log) < MaxLog
  /\ \E id \in Ids :
       /\ {e \in known \cup Retained : e.id = id} = {}
       /\ log' = Append(log, [id |-> id, fp |-> 0, outcome |-> "intent", index |-> 0,
                              moved |-> FALSE])
  /\ UNCHANGED <<pruned, snap, engine, client, told>>

-----------------------------------------------------------------------------
(* Snapshots, retention, the drain, crashes and restarts.                  *)

\* evict_below: decisions older than the oldest one retained.
Evicted(entries, gone) ==
  LET kept == {log[n].index : n \in {m \in gone + 1..Len(log) : log[m].outcome # "intent"}}
  IN {e \in entries : \E k \in kept : k <= e.index}

\* prune_before deletes below the snapshot only.
Floor == Len(log)

\* take_snapshot, which prunes behind itself as far as retention and the open
\* table let it.
TakeSnapshot ==
  /\ snap' = [at |-> Len(log), rev |-> rev, committed |-> committed]
  /\ pruned' \in pruned..Floor
  /\ UNCHANGED log

Snapshot ==
  /\ Ready /\ phase = "running"
  /\ TakeSnapshot
  /\ known' = IF pruned' > pruned THEN Evicted(known, pruned') ELSE known
  /\ UNCHANGED <<phase, committed, rev, queue, hand, client, told>>

BeginDrain ==
  /\ Ready /\ phase = "running"
  /\ phase' = "draining"
  /\ UNCHANGED <<store, committed, rev, known, queue, hand, client, told>>

Down ==
  /\ phase' = "down"
  /\ committed' = 0 /\ rev' = 0 /\ known' = {} /\ queue' = <<>> /\ hand' = None
  /\ UNCHANGED told

\* Every connection ends, and no answer comes.
HungUp ==
  client' = [c \in Clients |->
    IF client[c].st = "waiting" THEN [client[c] EXCEPT !.st = "unknown"] ELSE client[c]]

\* The drain's last step.
Leave ==
  /\ Ready /\ phase = "draining"
  /\ TakeSnapshot
  /\ Down /\ HungUp

\* The engine dies, between an apply and its commit or its answer too, or stops
\* because an engine-made input's time half raised.
Crash ==
  /\ phase # "down"
  /\ Down /\ HungUp
  /\ UNCHANGED store

BadReplayed == 0

\* How many of the tail's inputs have moved the entity.
Replayed == Moves(snap.at + 1, Len(log))

\* The frontier the tail leaves.
Resumed == snap.committed + Decisions(snap.at + 1, Len(log))

\* resume_run: the snapshot, and the tail replayed past it.
Restart ==
  /\ phase = "down"
  /\ phase' = "running"
  /\ committed' = Resumed
  /\ rev' = snap.rev + Replayed
  /\ known' = {e \in {log[n] : n \in snap.at + 1..Len(log)} : e.outcome # "intent"}
  /\ UNCHANGED <<store, queue, hand, client, told>>

-----------------------------------------------------------------------------
(* The clients.                                                            *)

Submit(c, req) ==
  /\ client[c].try < MaxTries
  /\ client' = [client EXCEPT ![c] = [st |-> "waiting", try |-> @.try + 1, req |-> req]]
  /\ queue' = Append(queue, [by |-> c, try |-> client[c].try + 1, req |-> req])

\* A command composed against the revision the client reads.
Send(c) ==
  /\ Ready
  /\ client[c].st = "idle"
  /\ \E id \in Ids : Submit(c, [id |-> id, fp |-> rev])
  /\ UNCHANGED <<store, phase, committed, rev, known, hand, told>>

\* The same id, with the revision of the first try.
Retry(c) ==
  /\ Ready
  /\ client[c].st = "unknown"
  /\ Submit(c, client[c].req)
  /\ UNCHANGED <<store, phase, committed, rev, known, hand, told>>

\* The decision window passes, or the connection breaks: the input stays queued.
GiveUp(c) ==
  /\ client[c].st = "waiting"
  /\ client' = [client EXCEPT ![c].st = "unknown"]
  /\ UNCHANGED <<store, engine, told>>

Next ==
  \/ Retried \/ Faulted \/ Command \/ EngineMade \/ Commit \/ Reply \/ UpdateIntent
  \/ Snapshot \/ BeginDrain \/ Leave \/ Crash \/ Restart
  \/ \E c \in Clients : Send(c) \/ Retry(c) \/ GiveUp(c)

Spec == Init /\ [][Next]_vars

\* The loop takes what is queued.
FairSpec ==
  /\ Spec
  /\ WF_vars(Retried \/ Faulted \/ Command)
  /\ WF_vars(Commit) /\ WF_vars(Reply)

-----------------------------------------------------------------------------
(* Properties.                                                             *)

\* A request id is admitted once while the store retains it: whatever was lost,
\* retried, pruned or restarted in between, an input about to become durable has
\* an id no retained record has (DecisionIndex.lookup with its fallback,
\* evict_below, the frontier a restart resumes).
OncePerId ==
  /\ \A m, n \in pruned + 1..Len(log) : log[m].id = log[n].id => m = n
  /\ hand # None /\ ~hand.durable => \A e \in Retained : e.id # hand.entry.id

\* The decision index and the store are one memory: an engine between two inputs
\* knows no decision that retention has deleted, and none the store does not hold
\* (note, record, evict_below, resume_run).
IndexIsTheStore == Ready => known \subseteq Retained

\* What a client was told stands: the decision it was answered with is durable,
\* and is the one of the very command it sent, the first try's or another's
\* (the answer follows the commit; an id under another command is refused).
AnswersStand ==
  \A t \in told :
    /\ \E n \in 1..Len(log) : log[n] = t.entry
    /\ t.entry.id = t.req.id /\ t.entry.fp = t.req.fp

\* A command is applied only to the revision it was composed against, counted in
\* what the store holds: no input between the read and the apply has moved the
\* entity, over any crash, snapshot or restart (precondition_reason, replay).
AppliedAtItsRevision ==
  \A n \in 1..Len(log) :
    log[n].outcome = "applied" => log[n].fp = Moves(1, n - 1)

\* Every request gets an answer while its engine lives, a retry of a decided
\* command too.
RequestsAreAnswered ==
  \A c \in Clients :
    client[c].st = "waiting" /\ Len(log) < MaxLog
      ~> client[c].st # "waiting" \/ Len(log) = MaxLog

=============================================================================
