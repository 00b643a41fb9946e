------------------------------- MODULE FileWork -------------------------------
(***************************************************************************)
(* The file workers (src/dsl41/file_processing.py): an archiver takes      *)
(* deliveries from the inbox into content-named objects and work rows, and *)
(* hands the work over by a TODO file; a processor runs a handler on it;   *)
(* an operator rules on what the handler left in doubt.                    *)
(*                                                                         *)
(* The ledger's transactions and the file operations are atomic each, and  *)
(* nothing spans both: either role may die, or stop on an error, between   *)
(* any two.  The archiver and the processor run at once, each under its    *)
(* own lock; the operator rules under the processor's.                     *)
(*                                                                         *)
(* A content stands for its hash, its object and its work key.  Stage      *)
(* files, damage to files and the Policy order "newest", which the         *)
(* contract calls diagnostic, are left out.                                *)
(***************************************************************************)
EXTENDS Naturals, FiniteSets

CONSTANTS
  Names,         \* inbox basenames, numbered as they sort
  Contents,      \* what a file may hold
  MaxDeliveries, \* bound: how often the producer delivers
  MaxAttempts,   \* bound: claims of one work row
  MaxCrashes     \* bound: runs of either role that die or stop on an error

None == <<>>

ASSUME FileWorkAssumption ==
  /\ Names \subseteq Nat /\ IsFiniteSet(Names) /\ None \notin Contents
  /\ MaxDeliveries \in Nat /\ MaxAttempts \in Nat /\ MaxCrashes \in Nat

VARIABLES
  \* the directories
  inbox,     \* what each name holds
  objects,   \* the contents archived
  todo,      \* the work keys with a TODO file
  \* the ledger
  receipt,   \* of each name: none, received, archived or cleaned
  order,     \* of each name with a receipt: its sequence number
  key,       \* of each archived receipt: its work key
  work,      \* of each content: the state and the attempt of its row
  age,       \* of each work row: the sequence number of its first receipt
  \* the roles
  arch,      \* the archiver's run
  proc,      \* the run of whoever holds process.lock
  saw,       \* what the operator read before ruling
  \* observers and bounds
  effects,   \* how often the handler's effect on a content has happened
  arrived,   \* the contents ever delivered
  deliveries, crashes

files == <<inbox, objects, todo>>
ledger == <<receipt, order, key, work, age>>
observed == <<effects, arrived, deliveries, crashes>>
vars == <<files, ledger, arch, proc, saw, observed>>

Batches == {"one", "all"}

IdleArchiver ==
  [at |-> "idle", names |-> {}, keys |-> {}, queue |-> {}, now |-> None, hash |-> None,
   next |-> "sweep"]

IdleProcessor ==
  [at |-> "idle", keys |-> {}, queue |-> {}, now |-> None, call |-> "process", did |-> FALSE]

Init ==
  /\ inbox = [n \in Names |-> None] /\ objects = {} /\ todo = {}
  /\ receipt = [n \in Names |-> "none"] /\ order = [n \in Names |-> 0]
  /\ key = [n \in Names |-> None]
  /\ work = [c \in Contents |-> [state |-> "none", attempt |-> 0]]
  /\ age = [c \in Contents |-> 0]
  /\ arch = IdleArchiver /\ proc = IdleProcessor /\ saw = None
  /\ effects = [c \in Contents |-> 0]
  /\ arrived = {} /\ deliveries = 0 /\ crashes = 0

-----------------------------------------------------------------------------
(* The chart of a work row (file_processing_charts.py PROCESS).            *)

PROCESS ==
  {<<"READY", "claim", "RUNNING">>, <<"RUNNING", "completed", "DONE">>,
   <<"RUNNING", "retry_safe", "READY">>, <<"RUNNING", "uncertain", "UNKNOWN">>,
   <<"UNKNOWN", "completed", "DONE">>, <<"UNKNOWN", "retry_safe", "READY">>,
   <<"UNKNOWN", "uncertain", "UNKNOWN">>, <<"READY", "rejected", "REJECTED">>,
   <<"UNKNOWN", "rejected", "REJECTED">>}

Final == {"DONE", "REJECTED"}

Known(c) == work[c].state # "none"

Terminal(c) == work[c].state \in Final

\* _move: one transaction; only the claim counts an attempt.
Move(c, event, state) ==
  /\ <<work[c].state, event, state>> \in PROCESS
  /\ work' = [work EXCEPT ![c] =
                [state |-> state,
                 attempt |-> IF event = "claim" THEN @.attempt + 1 ELSE @.attempt]]

\* _publish_todo, under the ledger's write lock: a terminal row never gets a TODO,
\* and a leftover one is removed.
PublishTodo(c) == todo' = IF Terminal(c) THEN todo \ {c} ELSE todo \cup {c}

\* _handed_over
HandedOver(c) == Terminal(c) \/ c \in todo

\* The oldest of some names, and of some work keys.
OldestName(n, S) == n \in S /\ \A m \in S : order[n] <= order[m]

OldestWork(c, S) == c \in S /\ \A d \in S : age[c] <= age[d]

-----------------------------------------------------------------------------
(* The producer: complete files, atomically.  It should never use a name   *)
(* again, and may.                                                         *)

Deliver(n, c) ==
  /\ deliveries < MaxDeliveries /\ inbox[n] = None
  /\ inbox' = [inbox EXCEPT ![n] = c]
  /\ arrived' = arrived \cup {c}
  /\ deliveries' = deliveries + 1
  /\ UNCHANGED <<objects, todo, ledger, arch, proc, saw, effects, crashes>>

-----------------------------------------------------------------------------
(* The archiver (archive).                                                 *)

Reused(n) == inbox[n] # None /\ receipt[n] = "cleaned"

\* (mutant) Repair leaves decided rows alone.
BadToRepair == {c \in Contents : Known(c) /\ ~Terminal(c)}

ToRepair == {c \in Contents : Known(c)}

\* The run begins by refusing a basename used again after its cleanup; then repair
\* takes every work row there is.
ArchiveStart ==
  /\ arch.at = "idle" /\ \A n \in Names : ~Reused(n)
  /\ arch' = [IdleArchiver EXCEPT !.at = "todos",
                                  !.names = {n \in Names : inbox[n] # None},
                                  !.keys = ToRepair]
  /\ UNCHANGED <<files, ledger, proc, saw, observed>>

\* _repair: the TODO of every row, in the order of their receipts,
RepairTodo ==
  /\ arch.at = "todos"
  /\ \E c \in arch.keys :
       /\ OldestWork(c, arch.keys)
       /\ PublishTodo(c)
       /\ arch' = [arch EXCEPT !.keys = @ \ {c}]
  /\ UNCHANGED <<inbox, objects, ledger, proc, saw, observed>>

TodosRepaired ==
  /\ arch.at = "todos" /\ arch.keys = {}
  /\ arch' = [arch EXCEPT !.at = "sweep"]
  /\ UNCHANGED <<files, ledger, proc, saw, observed>>

\* and the cleanup of every archived receipt, in their order.
Uncleaned == {n \in Names : receipt[n] = "archived"}

RepairCleanup ==
  /\ arch.at = "sweep"
  /\ \E n \in Uncleaned :
       /\ OldestName(n, Uncleaned)
       /\ arch' = [arch EXCEPT !.at = "check", !.now = n]
  /\ UNCHANGED <<files, ledger, proc, saw, observed>>

Swept ==
  /\ arch.at = "sweep" /\ Uncleaned = {}
  /\ arch' = [arch EXCEPT !.at = "admit"]
  /\ UNCHANGED <<files, ledger, proc, saw, observed>>

\* The delivery snapshot gets its receipts, in the order of the names, before any is
\* selected (_select).
Admitted == Cardinality({n \in Names : receipt[n] # "none"})

Admit(batch) ==
  LET new == {n \in arch.names : receipt[n] = "none"}
      received == new \cup {n \in Names : receipt[n] = "received"}
  IN /\ arch.at = "admit"
     /\ receipt' = [n \in Names |-> IF n \in new THEN "received" ELSE receipt[n]]
     /\ order' = [n \in Names |->
                    IF n \in new THEN Admitted + Cardinality({m \in new : m <= n})
                                 ELSE order[n]]
     /\ arch' = [arch EXCEPT !.at = "select", !.next = "select", !.names = {},
                   !.queue = IF batch = "all" THEN received
                             ELSE {n \in received : \A m \in received : order'[n] <= order'[m]}]
     /\ UNCHANGED <<files, key, work, age, proc, saw, observed>>

Select ==
  /\ arch.at = "select"
  /\ \E n \in arch.queue :
       /\ OldestName(n, arch.queue)
       /\ arch' = [arch EXCEPT !.at = "object", !.now = n, !.queue = @ \ {n}]
  /\ UNCHANGED <<files, ledger, proc, saw, observed>>

ArchiveEnd ==
  /\ arch.at = "select" /\ arch.queue = {}
  /\ arch' = IdleArchiver
  /\ UNCHANGED <<files, ledger, proc, saw, observed>>

\* _object: the delivery is copied and hashed in one read and published under its
\* hash; an object that is there already is used.
PublishObject ==
  /\ arch.at = "object"
  /\ objects' = objects \cup {inbox[arch.now]}
  /\ arch' = [arch EXCEPT !.at = "commit", !.hash = inbox[arch.now]]
  /\ UNCHANGED <<inbox, todo, ledger, proc, saw, observed>>

\* The work row and the receipt, in one transaction; a duplicate changes no row.
CommitArchive ==
  LET n == arch.now  c == arch.hash
  IN /\ arch.at = "commit"
     /\ receipt' = [receipt EXCEPT ![n] = "archived"]
     /\ key' = [key EXCEPT ![n] = c]
     /\ work' = IF Known(c) THEN work ELSE [work EXCEPT ![c] = [state |-> "READY", attempt |-> 0]]
     /\ age' = IF Known(c) THEN age ELSE [age EXCEPT ![c] = order[n]]
     /\ arch' = [arch EXCEPT !.at = "publish", !.hash = None]
     /\ UNCHANGED <<files, order, proc, saw, observed>>

PublishNew ==
  /\ arch.at = "publish"
  /\ PublishTodo(key[arch.now])
  /\ arch' = [arch EXCEPT !.at = "check"]
  /\ UNCHANGED <<inbox, objects, ledger, proc, saw, observed>>

\* _cleanup_receipt: the handover is read under the write lock; an incomplete one is
\* a refusal.
CheckHandover ==
  /\ arch.at = "check"
  /\ arch' = IF HandedOver(key[arch.now]) THEN [arch EXCEPT !.at = "unlink"] ELSE IdleArchiver
  /\ UNCHANGED <<files, ledger, proc, saw, observed>>

\* (mutant) Whatever has the name goes.
BadIsSource(n) == TRUE

IsSource(n) == inbox[n] = key[n]

\* Then the source goes, if it is what was archived; another content is a refusal.
Unlink ==
  LET n == arch.now
  IN /\ arch.at = "unlink"
     /\ inbox' = [inbox EXCEPT ![n] = IF IsSource(n) THEN None ELSE @]
     /\ arch' = IF inbox[n] = None \/ IsSource(n) THEN [arch EXCEPT !.at = "mark"]
                                               ELSE IdleArchiver
     /\ UNCHANGED <<objects, todo, ledger, proc, saw, observed>>

MarkCleaned ==
  /\ arch.at = "mark"
  /\ receipt' = [receipt EXCEPT ![arch.now] = "cleaned"]
  /\ arch' = [arch EXCEPT !.at = arch.next, !.now = None]
  /\ UNCHANGED <<files, order, key, work, age, proc, saw, observed>>

ArchiverDies ==
  /\ arch.at # "idle" /\ crashes < MaxCrashes
  /\ crashes' = crashes + 1
  /\ arch' = IdleArchiver
  /\ UNCHANGED <<files, ledger, proc, saw, effects, arrived, deliveries>>

-----------------------------------------------------------------------------
(* The processor (process).  While it holds process.lock nobody else moves *)
(* a row, so the rows its scan read are the rows there are.                *)

ProcessStart ==
  /\ proc.at = "idle"
  /\ proc' = [IdleProcessor EXCEPT !.at = "scan", !.keys = todo]
  /\ UNCHANGED <<files, ledger, arch, saw, observed>>

\* One TODO of the listing, under the write lock: of a terminal row it is a leftover.
Scan(c) ==
  /\ proc.at = "scan" /\ c \in proc.keys
  /\ todo' = IF Terminal(c) THEN todo \ {c} ELSE todo
  /\ proc' = [proc EXCEPT !.keys = @ \ {c},
                          !.queue = IF Terminal(c) THEN @ ELSE @ \cup {c}]
  /\ UNCHANGED <<inbox, objects, ledger, arch, saw, observed>>

\* What is left in doubt comes before what is fresh, each from the oldest on.
Recovery(S) == {c \in S : work[c].state # "READY"}

\* (mutant) What is fresh comes first.
BadFirst(c, S) ==
  OldestWork(c, IF Recovery(S) # S THEN S \ Recovery(S) ELSE S)

First(c, S) == OldestWork(c, IF Recovery(S) # {} THEN Recovery(S) ELSE S)

Choose(batch) ==
  /\ proc.at = "scan" /\ proc.keys = {}
  /\ proc' = [proc EXCEPT !.at = "next",
                !.queue = IF batch = "all" THEN @ ELSE {c \in @ : First(c, @)}]
  /\ UNCHANGED <<files, ledger, arch, saw, observed>>

ProcessEnd ==
  /\ proc.at = "next" /\ proc.queue = {}
  /\ proc' = IdleProcessor
  /\ UNCHANGED <<files, ledger, arch, saw, observed>>

Take(c, call) ==
  /\ proc.at = "next" /\ c \in proc.queue /\ First(c, proc.queue)
  /\ proc' = [proc EXCEPT !.at = "call", !.queue = @ \ {c}, !.now = c, !.call = call,
                          !.did = FALSE]

\* A claim whose process died is in doubt, and reconciled in the same run.
Normalize(c) ==
  /\ work[c].state = "RUNNING"
  /\ Take(c, "reconcile") /\ Move(c, "uncertain", "UNKNOWN")
  /\ UNCHANGED <<files, receipt, order, key, age, arch, saw, observed>>

Reconcile(c) ==
  /\ work[c].state = "UNKNOWN"
  /\ Take(c, "reconcile")
  /\ UNCHANGED <<files, ledger, arch, saw, observed>>

\* The claim is durable before the handler is called.
Claim(c) ==
  /\ work[c].attempt < MaxAttempts
  /\ Take(c, "process") /\ Move(c, "claim", "RUNNING")
  /\ UNCHANGED <<files, receipt, order, key, age, arch, saw, observed>>

\* The handler's effect, once in a call of process and none in a reconciliation.
HandlerActs ==
  /\ proc.at = "call" /\ proc.call = "process" /\ ~proc.did
  /\ effects' = [effects EXCEPT ![proc.now] = @ + 1]
  /\ proc' = [proc EXCEPT !.did = TRUE]
  /\ UNCHANGED <<files, ledger, arch, saw, arrived, deliveries, crashes>>

\* What a handler may answer: process knows what its own call did, reconcile what has
\* been done; and either may fail to tell, raise, or not be there (Unknown).
Truthful(event) ==
  LET done == IF proc.call = "process" THEN proc.did ELSE effects[proc.now] > 0
  IN (event = "completed" => done) /\ (event = "retry_safe" => ~done)

\* The first outcome that is not final ends the run.
Outcome(event, state) ==
  /\ proc.at = "call" /\ Truthful(event)
  /\ event # "rejected" /\ Move(proc.now, event, state)
  /\ proc' = IF state \in Final THEN [proc EXCEPT !.at = "done", !.did = FALSE]
                                ELSE IdleProcessor
  /\ UNCHANGED <<files, receipt, order, key, age, arch, saw, observed>>

\* _remove_todo, after the move is durable; an operator's ruling has no more to take.
RemoveTodo ==
  /\ proc.at = "done"
  /\ todo' = todo \ {proc.now}
  /\ proc' = [proc EXCEPT !.at = "next", !.now = None, !.call = "process"]
  /\ UNCHANGED <<inbox, objects, ledger, arch, saw, observed>>

ProcessorDies ==
  /\ proc.at # "idle" /\ crashes < MaxCrashes
  /\ crashes' = crashes + 1
  /\ proc' = IdleProcessor
  /\ UNCHANGED <<files, ledger, arch, saw, effects, arrived, deliveries>>

-----------------------------------------------------------------------------
(* The operator: reads take no lock (show_work), and what he finds out of  *)
(* the effect is true when he looks; a ruling takes process.lock and names *)
(* the state and the attempt he saw (rule_work).                           *)

Look(c) ==
  /\ saw = None /\ Known(c) /\ ~Terminal(c)
  /\ saw' = [key |-> c, row |-> work[c], done |-> effects[c] > 0]
  /\ UNCHANGED <<files, ledger, arch, proc, observed>>

\* completed rests on evidence, retry_safe on a reason; a RUNNING row takes uncertain
\* only, and only it does.
Justified(event) ==
  /\ (saw.row.state = "RUNNING") = (event = "uncertain")
  /\ event = "completed" => saw.done
  /\ event = "retry_safe" => ~saw.done

\* (mutant) The state alone is compared.
BadAsSeen == work[saw.key].state = saw.row.state

AsSeen == work[saw.key] = saw.row

Rule(event, state) ==
  /\ proc.at = "idle" /\ saw # None
  /\ event # "claim" /\ Justified(event)
  /\ AsSeen
  /\ Move(saw.key, event, state)
  /\ proc' = IF state \in Final THEN [IdleProcessor EXCEPT !.at = "done", !.now = saw.key]
                                ELSE IdleProcessor
  /\ saw' = None
  /\ UNCHANGED <<files, receipt, order, key, age, arch, observed>>

\* The row has moved since: nothing happens, and he looks again.
RuleRefused ==
  /\ proc.at = "idle" /\ saw # None /\ ~AsSeen
  /\ saw' = None
  /\ UNCHANGED <<files, ledger, arch, proc, observed>>

-----------------------------------------------------------------------------
Archiver ==
  \/ ArchiveStart \/ RepairTodo \/ TodosRepaired \/ RepairCleanup \/ Swept
  \/ \E batch \in Batches : Admit(batch)
  \/ Select \/ ArchiveEnd \/ PublishObject \/ CommitArchive \/ PublishNew
  \/ CheckHandover \/ Unlink \/ MarkCleaned

Processor ==
  \/ ProcessStart
  \/ \E c \in Contents : Scan(c)
  \/ \E batch \in Batches : Choose(batch)
  \/ ProcessEnd
  \/ \E c \in Contents : Normalize(c) \/ Reconcile(c) \/ Claim(c)
  \/ HandlerActs
  \/ \E row \in PROCESS : Outcome(row[2], row[3])
  \/ RemoveTodo

Operator ==
  \/ \E c \in Contents : Look(c)
  \/ \E row \in PROCESS : Rule(row[2], row[3])
  \/ RuleRefused

Next ==
  \/ \E n \in Names, c \in Contents : Deliver(n, c)
  \/ Archiver \/ ArchiverDies
  \/ Processor \/ ProcessorDies
  \/ Operator

Spec == Init /\ [][Next]_vars

\* The archiver is invoked again and again, by whatever schedule the estate has, and
\* a run that does not die goes on; nothing is assumed of the processor, of its
\* handler or of the operator.
FairSpec == Spec /\ WF_vars(Archiver)

-----------------------------------------------------------------------------
(* Properties.                                                             *)

\* The business effect on a content happens at most once: it has not happened while the
\* work may be handed to the handler, and has when the work is DONE; whatever dies
\* between the effect and its record, however often the content is delivered, and
\* however late an operator rules on what he saw, if handler and operator say what is
\* true (_move, process, rule_work).
EffectOnce ==
  \A c \in Contents :
    /\ effects[c] <= 1
    /\ work[c].state = "READY" => effects[c] = 0
    /\ work[c].state = "DONE" => effects[c] = 1

\* A content delivered is in the inbox still, or it is an object whose work is handed
\* over or decided: no crash, duplicate or reused basename takes the last copy, or
\* leaves work no processor would find (CONTRACT.md invariant 7, _cleanup_receipt).
NothingLost ==
  \A c \in arrived :
    (\E n \in Names : inbox[n] = c) \/ (c \in objects /\ HandedOver(c))

\* "The queue is ordered" (CONTRACT.md): work is first handed to the handler, or handed
\* again, when all that was admitted before it is decided, crashes of either role and
\* rulings between or not.
OldestFirst ==
  [][\A c, d \in Contents :
       work[c].state = "READY" /\ work'[c].state = "RUNNING" /\ Known(d) /\ age[d] < age[c]
         => Terminal(d)]_vars

\* When deliveries pause (here at their bound), the inbox is emptied and the TODO files
\* come to agree with the ledger, whoever died in between, unless the producer used a
\* name again and stopped the archiver.
Settled ==
  /\ \A n \in Names : inbox[n] = None
  /\ \A c \in Contents : c \in todo <=> Known(c) /\ ~Terminal(c)

Blocked ==
  \E n \in Names : Reused(n) \/ (receipt[n] = "archived" /\ inbox[n] \notin {None, key[n]})

HandoverConverges == []<>(Settled \/ Blocked)
=============================================================================
