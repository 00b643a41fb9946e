--------------------------- MODULE Admission_proofs ---------------------------
(***************************************************************************)
(* The proofs that a request id is admitted once, that the decision index  *)
(* holds nothing the store does not, that what a client was told stands,   *)
(* and that a command is applied at its own revision only: for every set   *)
(* of ids and clients, any number of tries and a log of any length.        *)
(***************************************************************************)
EXTENDS Admission, TLAPS, FiniteSetTheorems

EngineIds == {EngineId(n) : n \in Nat}
Outcomes == {"applied", "rejected", "engine", "intent"}
Entry == [id : Ids \cup EngineIds, fp : Nat, outcome : Outcomes, index : Nat,
          moved : BOOLEAN]
Request == [id : Ids, fp : Nat]
Queued == [by : Clients, try : Nat, req : Request]
Hand == [entry : Entry, for : Queued \cup {None}, durable : BOOLEAN]

\* A client that is not idle has a request.
ClientOK ==
  /\ client \in [Clients -> [st : {"idle", "waiting", "unknown"}, try : Nat,
                            req : Request \cup {None}]]
  /\ \A c \in Clients : client[c].st # "idle" => client[c].req \in Request

TypeOK ==
  /\ log \in Seq(Entry)
  /\ pruned \in Nat
  /\ snap \in [at : Nat, rev : Nat, committed : Nat]
  /\ phase \in {"running", "draining", "down"}
  /\ committed \in Nat /\ rev \in Nat
  /\ known \in SUBSET Entry
  /\ queue \in Seq(Queued)
  /\ hand \in Hand \cup {None}
  /\ ClientOK
  /\ told \in SUBSET [req : Request, entry : Entry]

-----------------------------------------------------------------------------
(* The strengthening.  The frontier and the revision are counts over the    *)
(* log, one ahead while a decision is not durable yet; the snapshot's are   *)
(* counts over the part it stands for; an index is its place among the      *)
(* decisions, so that an engine-made id is taken once and a decision below  *)
(* the oldest retained one has a smaller index.                             *)

Pending == hand # None /\ ~hand.durable

Ordered == pruned <= snap.at /\ snap.at <= Len(log)

SnapCounts == snap.rev = Moves(1, snap.at) /\ snap.committed = Decisions(1, snap.at)

EngineCounts ==
  phase # "down" =>
    /\ rev = Moves(1, Len(log)) + (IF Pending /\ hand.entry.moved THEN 1 ELSE 0)
    /\ committed = Decisions(1, Len(log)) + (IF Pending THEN 1 ELSE 0)

\* An entry's id tells what made it.
Named(e) == IF e.outcome = "engine" THEN e.id = EngineId(e.index) ELSE e.id \in Ids

Placed ==
  \A n \in 1..Len(log) :
    /\ Named(log[n])
    /\ log[n].outcome # "intent" => log[n].index = Decisions(1, n)

KnownOnly ==
  \A e \in known :
    /\ e.outcome # "intent"
    /\ e \in Retained \/ (Pending /\ e = hand.entry)

InHand ==
  hand # None =>
    /\ hand.entry.outcome # "intent"
    /\ hand.for # None => /\ hand.entry.id = hand.for.req.id
                          /\ hand.entry.fp = hand.for.req.fp
    /\ hand.durable => \E n \in 1..Len(log) : log[n] = hand.entry
    /\ ~hand.durable =>
         /\ Named(hand.entry)
         /\ hand.entry.index = committed
         /\ \A e \in Retained : e.id # hand.entry.id
         /\ hand.entry.outcome = "applied" => hand.entry.fp = Moves(1, Len(log))

DownEmpty == phase = "down" => hand = None /\ known = {}

RetainedOnce == \A m, n \in pruned + 1..Len(log) : log[m].id = log[n].id => m = n

AdmissionInv ==
  /\ TypeOK /\ Ordered /\ SnapCounts /\ EngineCounts /\ Placed /\ KnownOnly
  /\ InHand /\ DownEmpty /\ RetainedOnce /\ AnswersStand /\ AppliedAtItsRevision

-----------------------------------------------------------------------------
(* Counting in a log.                                                       *)

MovesIn(l, from, to) == Cardinality({n \in from..to : l[n].moved})
DecisionsIn(l, from, to) == Cardinality({n \in from..to : l[n].outcome # "intent"})

LEMMA CountsAreOfTheLog ==
  ASSUME NEW from, NEW to
  PROVE  /\ Moves(from, to) = MovesIn(log, from, to)
         /\ Decisions(from, to) = DecisionsIn(log, from, to)
  BY DEF Moves, Decisions, MovesIn, DecisionsIn

LEMMA PartOfInterval ==
  ASSUME NEW from \in Nat, NEW to \in Nat, NEW S, S \subseteq from..to
  PROVE  IsFiniteSet(S) /\ Cardinality(S) \in Nat
<1>1. IsFiniteSet(from..to)
  BY FS_Interval
<1>2. IsFiniteSet(S)
  BY <1>1, FS_Subset
<1> QED
  BY <1>2, FS_CardinalityType

LEMMA CountsAreNaturals ==
  ASSUME NEW l, NEW from \in Nat, NEW to \in Nat
  PROVE  MovesIn(l, from, to) \in Nat /\ DecisionsIn(l, from, to) \in Nat
<1>1. {n \in from..to : l[n].moved} \subseteq from..to
  OBVIOUS
<1>2. {n \in from..to : l[n].outcome # "intent"} \subseteq from..to
  OBVIOUS
<1> QED
  BY <1>1, <1>2, PartOfInterval DEF MovesIn, DecisionsIn

\* Nothing is counted in an empty part.
LEMMA CountsOfNothing ==
  ASSUME NEW l, NEW from \in Nat, NEW to \in Nat, to < from
  PROVE  MovesIn(l, from, to) = 0 /\ DecisionsIn(l, from, to) = 0
<1>1. {n \in from..to : l[n].moved} = {} /\ {n \in from..to : l[n].outcome # "intent"} = {}
  OBVIOUS
<1> QED
  BY <1>1, FS_EmptySet DEF MovesIn, DecisionsIn

LEMMA DisjointUnion ==
  ASSUME NEW S, NEW T, IsFiniteSet(S), IsFiniteSet(T), S \cap T = {}
  PROVE  Cardinality(S \cup T) = Cardinality(S) + Cardinality(T)
<1>1. Cardinality(S \cup T) = Cardinality(S) + Cardinality(T) - Cardinality(S \cap T)
  BY FS_Union
<1>2. Cardinality(S \cap T) = 0
  BY FS_EmptySet
<1>3. Cardinality(S) \in Nat /\ Cardinality(T) \in Nat
  BY FS_CardinalityType
<1> QED
  BY <1>1, <1>2, <1>3

\* A count is that of a first part and of the rest.
LEMMA CountsSplit ==
  ASSUME NEW l, NEW m \in Nat, NEW k \in 0..m
  PROVE  /\ MovesIn(l, 1, m) = MovesIn(l, 1, k) + MovesIn(l, k + 1, m)
         /\ DecisionsIn(l, 1, m) = DecisionsIn(l, 1, k) + DecisionsIn(l, k + 1, m)
<1> DEFINE M(from, to) == {n \in from..to : l[n].moved}
           D(from, to) == {n \in from..to : l[n].outcome # "intent"}
<1>0. 1..m = (1..k) \cup (k+1)..m /\ (1..k) \cap ((k+1)..m) = {}
  OBVIOUS
<1>1. /\ M(1, m) = M(1, k) \cup M(k + 1, m) /\ M(1, k) \cap M(k + 1, m) = {}
      /\ D(1, m) = D(1, k) \cup D(k + 1, m) /\ D(1, k) \cap D(k + 1, m) = {}
  BY <1>0, Zenon
<1>2. /\ IsFiniteSet(M(1, k)) /\ IsFiniteSet(M(k + 1, m))
      /\ IsFiniteSet(D(1, k)) /\ IsFiniteSet(D(k + 1, m))
  <2>1. /\ M(1, k) \subseteq 1..k /\ M(k + 1, m) \subseteq (k + 1)..m
        /\ D(1, k) \subseteq 1..k /\ D(k + 1, m) \subseteq (k + 1)..m
    OBVIOUS
  <2>2. k \in Nat /\ k + 1 \in Nat /\ 1 \in Nat
    OBVIOUS
  <2> HIDE DEF M, D
  <2> QED
    BY <2>1, <2>2, PartOfInterval
<1>3. /\ MovesIn(l, 1, m) = Cardinality(M(1, m)) /\ MovesIn(l, 1, k) = Cardinality(M(1, k))
      /\ MovesIn(l, k + 1, m) = Cardinality(M(k + 1, m))
      /\ DecisionsIn(l, 1, m) = Cardinality(D(1, m))
      /\ DecisionsIn(l, 1, k) = Cardinality(D(1, k))
      /\ DecisionsIn(l, k + 1, m) = Cardinality(D(k + 1, m))
  BY DEF MovesIn, DecisionsIn
<1> HIDE DEF M, D
<1> QED
  BY <1>1, <1>2, <1>3, DisjointUnion

\* One entry more.
LEMMA CountsOfOne ==
  ASSUME NEW l, NEW k \in Nat
  PROVE  /\ MovesIn(l, k, k) = IF l[k].moved THEN 1 ELSE 0
         /\ DecisionsIn(l, k, k) = IF l[k].outcome # "intent" THEN 1 ELSE 0
<1>0. k..k = {k}
  OBVIOUS
<1>1. {n \in k..k : l[n].moved} = IF l[k].moved THEN {k} ELSE {}
  BY <1>0, Zenon
<1>2. {n \in k..k : l[n].outcome # "intent"} = IF l[k].outcome # "intent" THEN {k} ELSE {}
  BY <1>0, Zenon
<1> QED
  BY <1>1, <1>2, FS_EmptySet, FS_Singleton DEF MovesIn, DecisionsIn

\* A decision raises the count of every place at or past it.
LEMMA DecisionsGrow ==
  ASSUME NEW l, NEW k \in Nat, NEW j \in 0..k
  PROVE  /\ DecisionsIn(l, 1, j) <= DecisionsIn(l, 1, k)
         /\ j < k /\ l[k].outcome # "intent" => DecisionsIn(l, 1, j) < DecisionsIn(l, 1, k)
<1> USE CountsAreNaturals
<1>1. \A a \in Nat, b \in Nat : b <= a => DecisionsIn(l, 1, b) <= DecisionsIn(l, 1, a)
  BY CountsSplit
<1>2. ASSUME j < k, l[k].outcome # "intent"
      PROVE  DecisionsIn(l, 1, j) < DecisionsIn(l, 1, k)
  <2>1. DecisionsIn(l, 1, k) = DecisionsIn(l, 1, k - 1) + DecisionsIn(l, k, k)
    BY <1>2, CountsSplit, k - 1 \in 0..k, (k - 1) + 1 = k
  <2>2. DecisionsIn(l, k, k) = 1
    BY <1>2, CountsOfOne
  <2>3. DecisionsIn(l, 1, j) <= DecisionsIn(l, 1, k - 1)
    BY <1>1, <1>2, k - 1 \in Nat, j \in Nat, j <= k - 1
  <2>4. /\ DecisionsIn(l, 1, j) \in Nat /\ DecisionsIn(l, 1, k - 1) \in Nat
        /\ DecisionsIn(l, 1, k) \in Nat
    BY <1>2, k - 1 \in Nat, j \in Nat
  <2> HIDE CountsAreNaturals
  <2> QED
    BY <2>1, <2>2, <2>3, <2>4
<1> QED
  BY <1>1, <1>2, j \in Nat, j <= k

\* Appending leaves the counts of the places before it, and adds what it is.
LEMMA CountsOfAppend ==
  ASSUME NEW l \in Seq(Entry), NEW e \in Entry
  PROVE  /\ \A from \in Nat, to \in 0..Len(l) :
              /\ from >= 1 =>
                   /\ MovesIn(Append(l, e), from, to) = MovesIn(l, from, to)
                   /\ DecisionsIn(Append(l, e), from, to) = DecisionsIn(l, from, to)
         /\ MovesIn(Append(l, e), 1, Len(l) + 1) =
              MovesIn(l, 1, Len(l)) + (IF e.moved THEN 1 ELSE 0)
         /\ DecisionsIn(Append(l, e), 1, Len(l) + 1) =
              DecisionsIn(l, 1, Len(l)) + (IF e.outcome # "intent" THEN 1 ELSE 0)
<1> DEFINE m == Append(l, e)
<1>0. Len(l) \in Nat /\ m[Len(l) + 1] = e /\ \A n \in 1..Len(l) : m[n] = l[n]
  OBVIOUS
<1> HIDE DEF m
<1>1. ASSUME NEW from \in Nat, NEW to \in 0..Len(l), from >= 1
      PROVE  /\ MovesIn(m, from, to) = MovesIn(l, from, to)
             /\ DecisionsIn(m, from, to) = DecisionsIn(l, from, to)
  <2>1. \A n \in from..to : m[n] = l[n]
    BY <1>0, <1>1
  <2>2. /\ {n \in from..to : m[n].moved} = {n \in from..to : l[n].moved}
        /\ {n \in from..to : m[n].outcome # "intent"} =
           {n \in from..to : l[n].outcome # "intent"}
    BY <2>1, Zenon
  <2> QED
    BY <2>2 DEF MovesIn, DecisionsIn
<1>2. /\ MovesIn(m, 1, Len(l) + 1) = MovesIn(m, 1, Len(l)) + MovesIn(m, Len(l) + 1, Len(l) + 1)
      /\ DecisionsIn(m, 1, Len(l) + 1) =
           DecisionsIn(m, 1, Len(l)) + DecisionsIn(m, Len(l) + 1, Len(l) + 1)
  BY <1>0, CountsSplit, Len(l) + 1 \in Nat, Len(l) \in 0..(Len(l) + 1)
<1>3. /\ MovesIn(m, Len(l) + 1, Len(l) + 1) = IF e.moved THEN 1 ELSE 0
      /\ DecisionsIn(m, Len(l) + 1, Len(l) + 1) = IF e.outcome # "intent" THEN 1 ELSE 0
  BY <1>0, CountsOfOne, Len(l) + 1 \in Nat
<1>4. /\ MovesIn(m, 1, Len(l)) = MovesIn(l, 1, Len(l))
      /\ DecisionsIn(m, 1, Len(l)) = DecisionsIn(l, 1, Len(l))
  BY <1>0, <1>1, Len(l) \in 0..Len(l), 1 \in Nat, 1 >= 1
<1> QED
  BY <1>1, <1>2, <1>3, <1>4 DEF m

-----------------------------------------------------------------------------
(* What the invariant says at the points the actions start from.            *)

LEMMA ReadyFacts ==
  ASSUME AdmissionInv, Ready
  PROVE  /\ hand = None /\ ~Pending /\ phase \in {"running", "draining"}
         /\ rev = MovesIn(log, 1, Len(log)) /\ committed = DecisionsIn(log, 1, Len(log))
         /\ known \subseteq Retained
         /\ \A e \in known : e.outcome # "intent"
<1>1. hand = None /\ ~Pending /\ phase \in {"running", "draining"}
  BY DEF AdmissionInv, TypeOK, Ready, Pending
<1>2. /\ rev = Moves(1, Len(log)) + 0 /\ committed = Decisions(1, Len(log)) + 0
  BY <1>1 DEF AdmissionInv, EngineCounts
<1>3. MovesIn(log, 1, Len(log)) \in Nat /\ DecisionsIn(log, 1, Len(log)) \in Nat
  BY CountsAreNaturals DEF AdmissionInv, TypeOK
<1>4. \A e \in known : e \in Retained /\ e.outcome # "intent"
  BY <1>1 DEF AdmissionInv, KnownOnly
<1> QED
  BY <1>1, <1>2, <1>3, <1>4, CountsAreOfTheLog

LEMMA HandFacts ==
  ASSUME AdmissionInv, hand # None
  PROVE  hand \in Hand /\ phase # "down"
  BY DEF AdmissionInv, TypeOK, DownEmpty

LEMMA HandIsThere == ASSUME NEW h \in Hand  PROVE h # None
<1>1. "entry" \in DOMAIN h
  BY DEF Hand
<1>2. DOMAIN <<>> = {}
  OBVIOUS
<1> QED
  BY <1>1, <1>2, Zenon DEF None

LEMMA RetainedAreEntries ==
  ASSUME AdmissionInv, NEW e \in Retained
  PROVE  e \in Entry /\ \E n \in 1..Len(log) : log[n] = e
<1>1. PICK n \in pruned + 1..Len(log) : e = log[n]
  BY DEF Retained
<1>2. n \in 1..Len(log)
  BY <1>1 DEF AdmissionInv, TypeOK
<1> QED
  BY <1>1, <1>2 DEF AdmissionInv, TypeOK

\* A step that touches neither the store nor the engine's memory of it.
LEMMA StoreStays ==
  ASSUME AdmissionInv, UNCHANGED <<store, committed, rev, known, hand>>,
         phase' = phase \/ (phase' # "down" /\ phase # "down")
  PROVE  /\ Ordered' /\ SnapCounts' /\ EngineCounts' /\ Placed' /\ KnownOnly' /\ InHand'
         /\ DownEmpty' /\ RetainedOnce' /\ AppliedAtItsRevision'
  BY DEF AdmissionInv, Ordered, SnapCounts, EngineCounts, Placed, Named, KnownOnly, InHand,
         DownEmpty, RetainedOnce, AppliedAtItsRevision, Pending, store, Moves, Decisions,
         Retained

LEMMA TakenFromQueue ==
  ASSUME TypeOK, queue # <<>>
  PROVE  Head(queue) \in Queued /\ Tail(queue) \in Seq(Queued)
  BY DEF TypeOK

\* A client whose state alone changes, and that has a request unless it is idle.
LEMMA StateSet ==
  ASSUME ClientOK, NEW c \in Clients, NEW s \in {"idle", "waiting", "unknown"},
         s # "idle" => client[c].req \in Request,
         client' = [client EXCEPT ![c].st = s]
  PROVE  ClientOK'
<1> DEFINE Record == [st : {"idle", "waiting", "unknown"}, try : Nat, req : Request \cup {None}]
<1>1. client \in [Clients -> Record]
  BY DEF ClientOK
<1>2. client[c] \in Record
  BY <1>1
<1>3. [client[c] EXCEPT !.st = s] \in Record
  BY <1>2
<1>4. client' = [client EXCEPT ![c] = [client[c] EXCEPT !.st = s]]
  OBVIOUS
<1>5. client' \in [Clients -> Record]
  <2> HIDE DEF Record
  <2> QED
    BY <1>1, <1>3, <1>4
<1>6. ASSUME NEW d \in Clients, client'[d].st # "idle"
      PROVE  client'[d].req \in Request
  <2>1. CASE d = c
    <3>1. client'[c] = [client[c] EXCEPT !.st = s]
      BY <1>1, <1>4
    <3>2. client'[c].st = s /\ client'[c].req = client[c].req
      BY <1>2, <3>1
    <3> QED
      BY <1>6, <2>1, <3>2
  <2>2. CASE d # c
    <3>1. client'[d] = client[d]
      BY <1>1, <1>4, <2>2
    <3> QED
      BY <1>6, <3>1 DEF ClientOK
  <2> QED
    BY <2>1, <2>2
<1> QED
  BY <1>5, <1>6 DEF ClientOK

LEMMA AnswerStands ==
  ASSUME AdmissionInv, NEW p \in Queued \cup {None}, NEW e \in Entry, Answer(p, e),
         p # None => e.id = p.req.id /\ e.fp = p.req.fp,
         \E n \in 1..Len(log) : log[n] = e, log' = log
  PROVE  ClientOK' /\ (told \in SUBSET [req : Request, entry : Entry])' /\ AnswersStand'
<1>1. CASE p # None /\ Answered(p)
  <2>1. p \in Queued
    BY <1>1
  <2>2. /\ client' = [client EXCEPT ![p.by].st = "idle"]
        /\ told' = told \cup {[req |-> p.req, entry |-> e]}
    BY <1>1 DEF Answer
  <2>3. ClientOK'
    <3>1. ClientOK /\ p.by \in Clients
      BY <2>1 DEF AdmissionInv, TypeOK, Queued
    <3> QED
      BY <2>2, <3>1, StateSet
  <2>4. p.req \in Request
    BY <2>1 DEF Queued
  <2>5. told' \in SUBSET [req : Request, entry : Entry]
    BY <2>2, <2>4 DEF AdmissionInv, TypeOK
  <2>6. AnswersStand'
    BY <1>1, <2>2 DEF AdmissionInv, AnswersStand
  <2> QED
    BY <2>3, <2>5, <2>6
<1>2. CASE ~(p # None /\ Answered(p))
  <2>1. UNCHANGED <<client, told>>
    BY <1>2 DEF Answer
  <2> QED
    BY <2>1 DEF AdmissionInv, TypeOK, ClientOK, AnswersStand
<1> QED
  BY <1>1, <1>2

LEMMA RefusalStands ==
  ASSUME AdmissionInv, NEW p \in Queued, Refuse(p), log' = log
  PROVE  ClientOK' /\ (told \in SUBSET [req : Request, entry : Entry])' /\ AnswersStand'
<1>1. told' = told
  BY DEF Refuse
<1>2. ClientOK'
  <2>1. ClientOK /\ p.by \in Clients
    BY DEF AdmissionInv, TypeOK, Queued
  <2>2. /\ client[p.by].st \in {"idle", "waiting", "unknown"}
        /\ client[p.by].st # "idle" => client[p.by].req \in Request
    BY <2>1 DEF ClientOK
  <2>3. CASE Answered(p)
    <3>1. client' = [client EXCEPT ![p.by].st = "idle"]
      BY <2>3 DEF Refuse
    <3> QED
      BY <2>1, <3>1, StateSet
  <2>4. CASE ~Answered(p)
    <3>1. client' = [client EXCEPT ![p.by].st = client[p.by].st]
      BY <2>4 DEF Refuse
    <3> QED
      BY <2>1, <2>2, <3>1, StateSet
  <2> QED
    BY <2>3, <2>4
<1> QED
  BY <1>1, <1>2 DEF AdmissionInv, TypeOK, AnswersStand

-----------------------------------------------------------------------------
(* The steps.                                                               *)

LEMMA InitInv == ASSUME Init PROVE AdmissionInv
<1>1. TypeOK
  <2>1. /\ log = <<>> /\ pruned = 0 /\ snap = [at |-> 0, rev |-> 0, committed |-> 0]
        /\ phase = "running" /\ committed = 0 /\ rev = 0 /\ known = {} /\ queue = <<>>
        /\ hand = None /\ told = {}
    BY DEF Init
  <2>2. ClientOK
    BY DEF Init, ClientOK
  <2> QED
    BY <2>1, <2>2 DEF TypeOK
<1>2. Moves(1, 0) = 0 /\ Decisions(1, 0) = 0
  BY CountsOfNothing, CountsAreOfTheLog
<1>3. ~Pending /\ Len(log) = 0
  BY DEF Init, Pending
<1>4. Ordered /\ SnapCounts /\ EngineCounts
  BY <1>2, <1>3 DEF Init, Ordered, SnapCounts, EngineCounts
<1>5. Placed /\ KnownOnly /\ InHand /\ DownEmpty /\ RetainedOnce /\ AnswersStand
      /\ AppliedAtItsRevision
  BY <1>3 DEF Init, Placed, KnownOnly, InHand, DownEmpty, RetainedOnce, AnswersStand,
              AppliedAtItsRevision
<1> QED
  BY <1>1, <1>4, <1>5 DEF AdmissionInv

LEMMA RetriedInv == ASSUME AdmissionInv, Retried PROVE AdmissionInv'
<1> DEFINE p == Head(queue)
<1>1. /\ Ready /\ queue # <<>> /\ queue' = Tail(queue)
      /\ UNCHANGED <<store, phase, committed, rev, known, hand>>
  BY DEF Retried
<1>2. PICK e \in Found(p.req.id) : IF Same(e, p.req) THEN Answer(p, e) ELSE Refuse(p)
  BY DEF Retried
<1>3. p \in Queued /\ queue' \in Seq(Queued)
  BY <1>1, TakenFromQueue DEF AdmissionInv
<1> HIDE DEF p
<1>4. e \in Retained /\ e.id = p.req.id
  BY <1>1, ReadyFacts DEF Found
<1>5. e \in Entry /\ \E n \in 1..Len(log) : log[n] = e
  BY <1>4, RetainedAreEntries
<1>6. log' = log
  BY <1>1 DEF store
<1>7. ClientOK' /\ (told \in SUBSET [req : Request, entry : Entry])' /\ AnswersStand'
  <2>1. CASE Same(e, p.req)
    <3>1. Answer(p, e) /\ e.fp = p.req.fp
      BY <1>2, <2>1 DEF Same
    <3> QED
      BY <1>3, <1>4, <1>5, <1>6, <3>1, AnswerStands
  <2>2. CASE ~Same(e, p.req)
    BY <1>2, <1>3, <1>6, <2>2, RefusalStands
  <2> QED
    BY <2>1, <2>2
<1>8. TypeOK'
  BY <1>1, <1>3, <1>7 DEF AdmissionInv, TypeOK, store
<1> QED
  BY <1>1, <1>7, <1>8, StoreStays DEF AdmissionInv

LEMMA FaultedInv == ASSUME AdmissionInv, Faulted PROVE AdmissionInv'
<1>1. /\ queue # <<>> /\ queue' = Tail(queue) /\ Refuse(Head(queue))
      /\ UNCHANGED <<store, phase, committed, rev, known, hand>>
  BY DEF Faulted
<1>2. Head(queue) \in Queued /\ queue' \in Seq(Queued)
  BY <1>1, TakenFromQueue DEF AdmissionInv
<1>3. log' = log
  BY <1>1 DEF store
<1>4. ClientOK' /\ (told \in SUBSET [req : Request, entry : Entry])' /\ AnswersStand'
  BY <1>1, <1>2, <1>3, RefusalStands
<1>5. TypeOK'
  BY <1>1, <1>2, <1>4 DEF AdmissionInv, TypeOK, store
<1> QED
  BY <1>1, <1>4, <1>5, StoreStays DEF AdmissionInv

\* An input that no retained record has the id of is applied.
LEMMA ApplyingStands ==
  ASSUME AdmissionInv, Ready,
         NEW id \in Ids \cup EngineIds, NEW req, req.fp \in Nat,
         NEW p \in Queued \cup {None}, NEW outcome \in Outcomes \ {"intent"},
         p # None => id = p.req.id /\ req.fp = p.req.fp,
         IF outcome = "engine" THEN id = EngineId(committed + 1) ELSE id \in Ids,
         \A e \in Retained : e.id # id,
         outcome = "applied" => req.fp = rev,
         Applying(id, req, p, outcome),
         UNCHANGED <<store, phase, told>>, queue' \in Seq(Queued), ClientOK'
  PROVE  AdmissionInv'
<1>1. PICK moved \in BOOLEAN :
        /\ committed' = committed + 1
        /\ rev' = IF moved THEN rev + 1 ELSE rev
        /\ known' = known \cup {[id |-> id, fp |-> req.fp, outcome |-> outcome,
                                index |-> committed + 1, moved |-> moved]}
        /\ hand' = [entry |-> [id |-> id, fp |-> req.fp, outcome |-> outcome,
                              index |-> committed + 1, moved |-> moved],
                   for |-> p, durable |-> FALSE]
  BY DEF Applying
<1> DEFINE entry == [id |-> id, fp |-> req.fp, outcome |-> outcome,
                     index |-> committed + 1, moved |-> moved]
<1>2. /\ committed \in Nat /\ rev \in Nat
  BY DEF AdmissionInv, TypeOK
<1>3. /\ entry \in Entry /\ entry.id = id /\ entry.fp = req.fp /\ entry.outcome = outcome
      /\ entry.index = committed + 1 /\ entry.moved = moved
  BY <1>2 DEF Entry
<1>4. /\ known' = known \cup {entry} /\ hand' = [entry |-> entry, for |-> p, durable |-> FALSE]
  BY <1>1
<1> HIDE DEF entry
<1>5. hand' \in Hand /\ hand' # None /\ hand'.entry = entry /\ hand'.for = p /\ ~hand'.durable
  BY <1>3, <1>4, HandIsThere DEF Hand
<1>6. Pending'
  BY <1>5 DEF Pending
<1>7. log' = log /\ pruned' = pruned /\ snap' = snap /\ Retained' = Retained
  BY DEF store, Retained
<1>8. TypeOK'
  BY <1>1, <1>2, <1>3, <1>4, <1>5, <1>7 DEF AdmissionInv, TypeOK
<1>9. Ordered' /\ SnapCounts' /\ Placed' /\ RetainedOnce' /\ AnswersStand'
      /\ AppliedAtItsRevision'
  <2>1. Ordered' /\ SnapCounts'
    BY <1>7 DEF AdmissionInv, Ordered, SnapCounts, Moves, Decisions
  <2>2. Placed' /\ RetainedOnce'
    BY <1>7 DEF AdmissionInv, Placed, Named, RetainedOnce, Decisions
  <2>3. AnswersStand'
    BY <1>7 DEF AdmissionInv, AnswersStand
  <2>4. AppliedAtItsRevision'
    BY <1>7 DEF AdmissionInv, AppliedAtItsRevision, Moves
  <2> QED
    BY <2>1, <2>2, <2>3, <2>4
<1>10. EngineCounts'
  <2>1. /\ Moves(1, Len(log))' = Moves(1, Len(log))
        /\ Decisions(1, Len(log))' = Decisions(1, Len(log))
    BY <1>7 DEF Moves, Decisions
  <2>2. /\ rev = Moves(1, Len(log)) /\ committed = Decisions(1, Len(log))
    BY ReadyFacts, CountsAreOfTheLog
  <2> QED
    BY <1>1, <1>2, <1>3, <1>5, <1>6, <2>1, <2>2 DEF EngineCounts
<1>11. KnownOnly'
  BY <1>3, <1>4, <1>5, <1>6, <1>7, ReadyFacts DEF KnownOnly
<1>12. InHand'
  <2>1. Named(entry)
    BY <1>3 DEF Named
  <2>2. outcome = "applied" => entry.fp = Moves(1, Len(log))
    BY <1>3, ReadyFacts, CountsAreOfTheLog
  <2>3. Moves(1, Len(log))' = Moves(1, Len(log))
    BY <1>7 DEF Moves
  <2> QED
    BY <1>1, <1>3, <1>5, <1>7, <2>1, <2>2, <2>3 DEF InHand, Named
<1>13. DownEmpty'
  BY ReadyFacts DEF DownEmpty
<1> QED
  BY <1>8, <1>9, <1>10, <1>11, <1>12, <1>13 DEF AdmissionInv

LEMMA CommandInv == ASSUME AdmissionInv, Command PROVE AdmissionInv'
<1> DEFINE p == Head(queue)
           outcome == IF phase = "running" /\ Passed(p.req) THEN "applied" ELSE "rejected"
<1>1. /\ Ready /\ queue # <<>> /\ queue' = Tail(queue) /\ Found(p.req.id) = {}
      /\ Applying(p.req.id, p.req, p, outcome)
      /\ UNCHANGED <<store, phase, client, told>>
  BY DEF Command
<1>2. p \in Queued /\ queue' \in Seq(Queued)
  BY <1>1, TakenFromQueue DEF AdmissionInv
<1>3. p.req.id \in Ids /\ p.req.fp \in Nat
  BY <1>2 DEF Queued, Request
<1>4. /\ outcome \in Outcomes \ {"intent"} /\ outcome # "engine"
      /\ outcome = "applied" => p.req.fp = rev
  BY DEF Outcomes, Passed
<1> HIDE DEF p, outcome
<1>5. \A e \in Retained : e.id # p.req.id
  BY <1>1 DEF Found
<1>6. ClientOK'
  BY <1>1 DEF AdmissionInv, TypeOK, ClientOK
<1>7. UNCHANGED <<store, phase, told>>
  BY <1>1
<1> QED
  BY <1>1, <1>2, <1>3, <1>4, <1>5, <1>6, <1>7, ApplyingStands

\* An engine-made id is taken once: every earlier one has a smaller index.
LEMMA NextEngineIdIsNew ==
  ASSUME AdmissionInv, Ready, NEW e \in Retained
  PROVE  e.id # EngineId(committed + 1)
<1>1. PICK n \in 1..Len(log) : e = log[n]
  BY RetainedAreEntries
<1>2. committed \in Nat /\ Len(log) \in Nat /\ e \in Entry
  BY RetainedAreEntries DEF AdmissionInv, TypeOK
<1>3. Named(e) /\ (e.outcome # "intent" => e.index = DecisionsIn(log, 1, n))
  BY <1>1, CountsAreOfTheLog DEF AdmissionInv, Placed
<1>4. CASE e.outcome = "engine"
  <2>1. e.id = EngineId(e.index) /\ e.index = DecisionsIn(log, 1, n)
    BY <1>3, <1>4 DEF Named
  <2>2. DecisionsIn(log, 1, n) <= DecisionsIn(log, 1, Len(log))
    BY <1>2, DecisionsGrow, n \in 0..Len(log)
  <2>3. committed = DecisionsIn(log, 1, Len(log))
    BY ReadyFacts
  <2>4. e.index # committed + 1 /\ e.index \in Nat
    BY <1>2, <2>1, <2>2, <2>3 DEF Entry
  <2> QED
    BY <2>1, <2>4 DEF EngineId
<1>5. CASE e.outcome # "engine"
  <2>1. e.id \in Ids
    BY <1>3, <1>5 DEF Named
  <2>2. EngineId(committed + 1) \in {"engine"} \X Nat
    BY <1>2 DEF EngineId
  <2> QED
    BY <2>1, <2>2, AdmissionAssumption
<1> QED
  BY <1>4, <1>5

LEMMA EngineMadeInv == ASSUME AdmissionInv, EngineMade PROVE AdmissionInv'
<1> DEFINE id == EngineId(committed + 1)
           req == [fp |-> 0]
<1>1. /\ Ready /\ Applying(id, req, None, "engine")
      /\ UNCHANGED <<store, phase, queue, client, told>>
  BY DEF EngineMade
<1>2. id \in Ids \cup EngineIds /\ req.fp \in Nat /\ id = EngineId(committed + 1)
  BY DEF AdmissionInv, TypeOK, EngineIds
<1>3. \A e \in Retained : e.id # id
  BY <1>1, NextEngineIdIsNew
<1> HIDE DEF id, req
<1>4. queue' \in Seq(Queued) /\ ClientOK' /\ UNCHANGED <<store, phase, told>>
  BY <1>1 DEF AdmissionInv, TypeOK, ClientOK
<1>5. "engine" \in Outcomes \ {"intent"} /\ "engine" # "applied"
  BY DEF Outcomes
<1>6. None \in Queued \cup {None}
  OBVIOUS
<1> QED
  BY <1>1, <1>2, <1>3, <1>4, <1>5, <1>6, ApplyingStands

\* A record is appended whose id no retained one has.
LEMMA AppendStands ==
  ASSUME AdmissionInv, NEW e \in Entry, log' = Append(log, e),
         UNCHANGED <<pruned, snap, told>>,
         \A r \in Retained : r.id # e.id,
         Named(e),
         e.outcome # "intent" => e.index = DecisionsIn(log, 1, Len(log)) + 1,
         e.outcome = "applied" => e.fp = MovesIn(log, 1, Len(log))
  PROVE  /\ (log \in Seq(Entry))' /\ Ordered' /\ SnapCounts' /\ Placed' /\ RetainedOnce'
         /\ AnswersStand' /\ AppliedAtItsRevision'
         /\ Retained' = Retained \cup {e}
         /\ Len(log') = Len(log) + 1
         /\ Moves(1, Len(log))' = Moves(1, Len(log)) + (IF e.moved THEN 1 ELSE 0)
         /\ Decisions(1, Len(log))' =
              Decisions(1, Len(log)) + (IF e.outcome # "intent" THEN 1 ELSE 0)
         /\ \A n \in 1..Len(log) : log'[n] = log[n]
         /\ log'[Len(log) + 1] = e
<1>1. /\ log \in Seq(Entry) /\ Len(log) \in Nat /\ pruned \in Nat /\ snap.at \in Nat
      /\ pruned <= snap.at /\ snap.at <= Len(log)
  BY DEF AdmissionInv, TypeOK, Ordered
<1>2. /\ log' \in Seq(Entry) /\ Len(log') = Len(log) + 1 /\ log'[Len(log) + 1] = e
      /\ \A n \in 1..Len(log) : log'[n] = log[n]
  BY <1>1
<1>3. \A to \in 0..Len(log) : /\ MovesIn(log', 1, to) = MovesIn(log, 1, to)
                               /\ DecisionsIn(log', 1, to) = DecisionsIn(log, 1, to)
  BY <1>1, CountsOfAppend, 1 \in Nat, 1 >= 1
<1>4. /\ MovesIn(log', 1, Len(log')) = MovesIn(log, 1, Len(log)) + (IF e.moved THEN 1 ELSE 0)
      /\ DecisionsIn(log', 1, Len(log')) =
           DecisionsIn(log, 1, Len(log)) + (IF e.outcome # "intent" THEN 1 ELSE 0)
  BY <1>1, <1>2, CountsOfAppend
<1>5. /\ \A from, to : Moves(from, to)' = MovesIn(log', from, to)
      /\ \A from, to : Decisions(from, to)' = DecisionsIn(log', from, to)
  BY DEF Moves, Decisions, MovesIn, DecisionsIn
<1>6. Ordered'
  BY <1>1, <1>2 DEF Ordered
<1>7. SnapCounts'
  <2>1. /\ Moves(1, snap.at)' = MovesIn(log', 1, snap.at)
        /\ Decisions(1, snap.at)' = DecisionsIn(log', 1, snap.at)
    BY DEF Moves, Decisions, MovesIn, DecisionsIn
  <2> QED
    BY <1>1, <1>3, <2>1, CountsAreOfTheLog, snap.at \in 0..Len(log)
       DEF AdmissionInv, SnapCounts
<1>8. Placed'
  <2> SUFFICES ASSUME NEW n \in 1..Len(log')
               PROVE  /\ Named(log'[n])
                      /\ log'[n].outcome # "intent" =>
                           log'[n].index = DecisionsIn(log', 1, n)
    BY DEF Placed, Named, Decisions, DecisionsIn
  <2>1. CASE n \in 1..Len(log)
    BY <1>2, <1>3, <2>1, CountsAreOfTheLog DEF AdmissionInv, Placed
  <2>2. CASE n = Len(log) + 1
    BY <1>2, <1>4, <2>2
  <2> QED
    BY <1>1, <1>2, <2>1, <2>2
<1>9. Retained' = Retained \cup {e}
  <2>1. Retained' = {log'[n] : n \in pruned + 1..Len(log) + 1}
    BY <1>2 DEF Retained
  <2>2. pruned + 1..Len(log) + 1 = (pruned + 1..Len(log)) \cup {Len(log) + 1}
    BY <1>1
  <2>3. \A n \in pruned + 1..Len(log) : log'[n] = log[n]
    BY <1>1, <1>2
  <2> QED
    BY <1>2, <2>1, <2>2, <2>3, ZenonT(40) DEF Retained
<1>10. RetainedOnce'
  <2> SUFFICES ASSUME NEW m \in pruned + 1..Len(log) + 1, NEW n \in pruned + 1..Len(log) + 1,
                      log'[m].id = log'[n].id
               PROVE  m = n
    BY <1>2, ZenonT(40) DEF RetainedOnce
  <2>1. \A k \in pruned + 1..Len(log) : log'[k] = log[k] /\ log[k].id # e.id
    BY <1>1, <1>2 DEF Retained
  <2>2. \A k \in pruned + 1..Len(log) + 1 : k = Len(log) + 1 \/ k \in pruned + 1..Len(log)
    BY <1>1
  <2> QED
    BY <1>2, <2>1, <2>2 DEF AdmissionInv, RetainedOnce
<1>11. AnswersStand'
  BY <1>1, <1>2 DEF AdmissionInv, AnswersStand
<1>12. AppliedAtItsRevision'
  <2> SUFFICES ASSUME NEW n \in 1..Len(log'), log'[n].outcome = "applied"
               PROVE  log'[n].fp = MovesIn(log', 1, n - 1)
    BY DEF AppliedAtItsRevision, Moves, MovesIn
  <2>1. n - 1 \in 0..Len(log)
    BY <1>1, <1>2
  <2>2. CASE n \in 1..Len(log)
    BY <1>2, <1>3, <2>1, <2>2, CountsAreOfTheLog DEF AdmissionInv, AppliedAtItsRevision
  <2>3. CASE n = Len(log) + 1
    BY <1>1, <1>2, <1>3, <2>1, <2>3
  <2> QED
    BY <1>1, <1>2, <2>2, <2>3
<1>13. /\ Moves(1, Len(log))' = Moves(1, Len(log)) + (IF e.moved THEN 1 ELSE 0)
       /\ Decisions(1, Len(log))' =
            Decisions(1, Len(log)) + (IF e.outcome # "intent" THEN 1 ELSE 0)
  <2>1. /\ Moves(1, Len(log))' = MovesIn(log', 1, Len(log'))
        /\ Decisions(1, Len(log))' = DecisionsIn(log', 1, Len(log'))
    BY DEF Moves, Decisions, MovesIn, DecisionsIn
  <2> QED
    BY <1>4, <2>1, CountsAreOfTheLog
<1> QED
  BY <1>2, <1>6, <1>7, <1>8, <1>9, <1>10, <1>11, <1>12, <1>13

LEMMA CommitInv == ASSUME AdmissionInv, Commit PROVE AdmissionInv'
<1> DEFINE e == hand.entry
<1>1. /\ hand # None /\ ~hand.durable /\ log' = Append(log, e)
      /\ hand' = [hand EXCEPT !.durable = TRUE]
      /\ UNCHANGED <<pruned, snap, phase, committed, rev, known, queue, client, told>>
  BY DEF Commit
<1>2. hand \in Hand /\ phase # "down" /\ Pending
  BY <1>1, HandFacts DEF Pending
<1>3. /\ e \in Entry /\ e.outcome # "intent" /\ Named(e) /\ e.index = committed
      /\ \A r \in Retained : r.id # e.id
      /\ e.outcome = "applied" => e.fp = Moves(1, Len(log))
  BY <1>1, <1>2 DEF AdmissionInv, InHand, Hand
<1>4. /\ rev = Moves(1, Len(log)) + (IF e.moved THEN 1 ELSE 0)
      /\ committed = Decisions(1, Len(log)) + 1
  BY <1>2 DEF AdmissionInv, EngineCounts
<1>5. /\ hand' \in Hand /\ hand' # None /\ hand'.durable /\ hand'.entry = e
      /\ hand'.for = hand.for
  <2>1. /\ hand' \in Hand /\ hand'.durable /\ hand'.entry = e /\ hand'.for = hand.for
    BY <1>1, <1>2 DEF Hand
  <2> QED
    BY <2>1, HandIsThere
<1> HIDE DEF e
<1>6. UNCHANGED <<pruned, snap, told>>
  BY <1>1
<1>7. /\ e.outcome # "intent" => e.index = DecisionsIn(log, 1, Len(log)) + 1
      /\ e.outcome = "applied" => e.fp = MovesIn(log, 1, Len(log))
  BY <1>3, <1>4, CountsAreOfTheLog
<1>8. /\ (log \in Seq(Entry))' /\ Ordered' /\ SnapCounts' /\ Placed' /\ RetainedOnce'
      /\ AnswersStand' /\ AppliedAtItsRevision'
      /\ Retained' = Retained \cup {e}
      /\ Len(log') = Len(log) + 1
      /\ Moves(1, Len(log))' = Moves(1, Len(log)) + (IF e.moved THEN 1 ELSE 0)
      /\ Decisions(1, Len(log))' =
           Decisions(1, Len(log)) + (IF e.outcome # "intent" THEN 1 ELSE 0)
      /\ log'[Len(log) + 1] = e
  BY <1>1, <1>3, <1>6, <1>7, AppendStands
<1>9. TypeOK'
  BY <1>1, <1>5, <1>8 DEF AdmissionInv, TypeOK, ClientOK
<1>10. ~Pending'
  BY <1>5 DEF Pending
<1>11. EngineCounts'
  <2>1. Moves(1, Len(log)) \in Nat /\ Decisions(1, Len(log)) \in Nat
    BY CountsAreNaturals, CountsAreOfTheLog DEF AdmissionInv, TypeOK
  <2> QED
    BY <1>1, <1>3, <1>4, <1>8, <1>10, <2>1 DEF EngineCounts
<1>12. KnownOnly'
  BY <1>1, <1>8, <1>10 DEF AdmissionInv, KnownOnly, e
<1>13. InHand'
  <2>1. hand.for # None => hand.entry.id = hand.for.req.id /\ hand.entry.fp = hand.for.req.fp
    BY <1>1 DEF AdmissionInv, InHand
  <2>2. Len(log) + 1 \in 1..Len(log')
    BY <1>8 DEF AdmissionInv, TypeOK
  <2> QED
    BY <1>3, <1>5, <1>8, <2>1, <2>2 DEF InHand, e
<1>14. DownEmpty'
  BY <1>1, <1>2 DEF DownEmpty
<1> QED
  BY <1>8, <1>9, <1>11, <1>12, <1>13, <1>14 DEF AdmissionInv

LEMMA ReplyInv == ASSUME AdmissionInv, Reply PROVE AdmissionInv'
<1>1. /\ hand # None /\ hand.durable /\ Answer(hand.for, hand.entry) /\ hand' = None
      /\ UNCHANGED <<store, phase, committed, rev, known, queue>>
  BY DEF Reply
<1>2. hand \in Hand /\ ~Pending /\ ~Pending'
  BY <1>1, HandFacts DEF Pending
<1>3. /\ hand.for \in Queued \cup {None} /\ hand.entry \in Entry
      /\ hand.for # None => hand.entry.id = hand.for.req.id /\ hand.entry.fp = hand.for.req.fp
      /\ \E n \in 1..Len(log) : log[n] = hand.entry
  BY <1>1, <1>2 DEF AdmissionInv, InHand, Hand
<1>4. log' = log /\ pruned' = pruned /\ snap' = snap
  BY <1>1 DEF store
<1>5. ClientOK' /\ (told \in SUBSET [req : Request, entry : Entry])' /\ AnswersStand'
  BY <1>1, <1>3, <1>4, AnswerStands
<1>6. TypeOK'
  BY <1>1, <1>4, <1>5 DEF AdmissionInv, TypeOK
<1>7. Ordered' /\ SnapCounts' /\ EngineCounts'
  BY <1>1, <1>2, <1>4 DEF AdmissionInv, Ordered, SnapCounts, EngineCounts, Moves, Decisions
<1>8. Placed' /\ RetainedOnce' /\ AppliedAtItsRevision'
  BY <1>4 DEF AdmissionInv, Placed, Named, RetainedOnce, AppliedAtItsRevision, Moves, Decisions
<1>9. KnownOnly'
  BY <1>1, <1>2, <1>4 DEF AdmissionInv, KnownOnly, Retained
<1>10. InHand' /\ DownEmpty'
  BY <1>1 DEF AdmissionInv, InHand, DownEmpty
<1> QED
  BY <1>5, <1>6, <1>7, <1>8, <1>9, <1>10 DEF AdmissionInv

LEMMA UpdateIntentInv == ASSUME AdmissionInv, UpdateIntent PROVE AdmissionInv'
<1>1. PICK id \in Ids :
        /\ {e \in known \cup Retained : e.id = id} = {}
        /\ log' = Append(log, [id |-> id, fp |-> 0, outcome |-> "intent", index |-> 0,
                              moved |-> FALSE])
  BY DEF UpdateIntent
<1> DEFINE e == [id |-> id, fp |-> 0, outcome |-> "intent", index |-> 0, moved |-> FALSE]
<1>2. /\ e \in Entry /\ e.outcome = "intent" /\ ~e.moved /\ e.id = id /\ Named(e)
  BY DEF Entry, Outcomes, Named
<1>3. log' = Append(log, e)
  BY <1>1
<1> HIDE DEF e
<1>4. Ready /\ UNCHANGED <<pruned, snap, engine, client, told>>
  BY DEF UpdateIntent
<1>5. UNCHANGED <<pruned, snap, told>> /\ UNCHANGED <<phase, committed, rev, known, queue, hand>>
  BY <1>4 DEF engine
<1>6. \A r \in Retained : r.id # e.id
  BY <1>1, <1>2
<1>7. /\ (log \in Seq(Entry))' /\ Ordered' /\ SnapCounts' /\ Placed' /\ RetainedOnce'
      /\ AnswersStand' /\ AppliedAtItsRevision'
      /\ Retained' = Retained \cup {e}
      /\ Moves(1, Len(log))' = Moves(1, Len(log)) + (IF e.moved THEN 1 ELSE 0)
      /\ Decisions(1, Len(log))' =
           Decisions(1, Len(log)) + (IF e.outcome # "intent" THEN 1 ELSE 0)
  BY <1>2, <1>3, <1>5, <1>6, AppendStands
<1>8. hand = None /\ hand' = None /\ ~Pending /\ ~Pending'
  BY <1>4, <1>5, ReadyFacts DEF Pending
<1>9. TypeOK'
  BY <1>4, <1>5, <1>7 DEF AdmissionInv, TypeOK, ClientOK
<1>10. EngineCounts'
  <2>1. Moves(1, Len(log)) \in Nat /\ Decisions(1, Len(log)) \in Nat
    BY CountsAreNaturals, CountsAreOfTheLog DEF AdmissionInv, TypeOK
  <2> QED
    BY <1>2, <1>5, <1>7, <1>8, <2>1 DEF AdmissionInv, EngineCounts
<1>11. KnownOnly' /\ InHand' /\ DownEmpty'
  BY <1>5, <1>7, <1>8 DEF AdmissionInv, KnownOnly, InHand, DownEmpty
<1> QED
  BY <1>7, <1>9, <1>10, <1>11 DEF AdmissionInv

\* A snapshot that prunes behind itself.
LEMMA SnapshotStands ==
  ASSUME AdmissionInv, Ready, TakeSnapshot, told' = told
  PROVE  /\ (log \in Seq(Entry))' /\ (pruned \in Nat)' /\ Ordered' /\ SnapCounts' /\ Placed'
         /\ RetainedOnce' /\ AnswersStand' /\ AppliedAtItsRevision'
         /\ (snap \in [at : Nat, rev : Nat, committed : Nat])'
         /\ pruned' >= pruned
<1>1. /\ snap' = [at |-> Len(log), rev |-> rev, committed |-> committed]
      /\ pruned' \in pruned..Len(log) /\ log' = log
  BY DEF TakeSnapshot, Floor
<1>2. /\ log \in Seq(Entry) /\ pruned \in Nat /\ rev \in Nat /\ committed \in Nat
      /\ Len(log) \in Nat
  BY DEF AdmissionInv, TypeOK
<1>3. rev = Moves(1, Len(log)) /\ committed = Decisions(1, Len(log))
  BY ReadyFacts, CountsAreOfTheLog
<1>4. /\ snap'.at = Len(log) /\ snap'.rev = rev /\ snap'.committed = committed
      /\ snap' \in [at : Nat, rev : Nat, committed : Nat]
  BY <1>1, <1>2
<1>5. Ordered' /\ SnapCounts'
  <2>1. Moves(1, snap.at)' = Moves(1, Len(log)) /\ Decisions(1, snap.at)' = Decisions(1, Len(log))
    BY <1>1, <1>4 DEF Moves, Decisions
  <2> QED
    BY <1>1, <1>2, <1>3, <1>4, <2>1 DEF Ordered, SnapCounts
<1>6. Placed' /\ AnswersStand' /\ AppliedAtItsRevision'
  BY <1>1 DEF AdmissionInv, Placed, Named, AnswersStand, AppliedAtItsRevision, Moves, Decisions
<1>7. RetainedOnce'
  <2>1. pruned' + 1..Len(log) \subseteq pruned + 1..Len(log)
    BY <1>1, <1>2
  <2> QED
    BY <1>1, <2>1, Zenon DEF AdmissionInv, RetainedOnce
<1> QED
  BY <1>1, <1>2, <1>4, <1>5, <1>6, <1>7

\* A decision that retention deletes is below the oldest one it leaves.
LEMMA SnapshotInv == ASSUME AdmissionInv, Snapshot PROVE AdmissionInv'
<1>1. /\ Ready /\ TakeSnapshot
      /\ known' = IF pruned' > pruned THEN Evicted(known, pruned') ELSE known
      /\ UNCHANGED <<phase, committed, rev, queue, hand, client, told>>
  BY DEF Snapshot
<1>2. /\ (log \in Seq(Entry))' /\ (pruned \in Nat)' /\ Ordered' /\ SnapCounts' /\ Placed'
      /\ RetainedOnce' /\ AnswersStand' /\ AppliedAtItsRevision'
      /\ (snap \in [at : Nat, rev : Nat, committed : Nat])'
      /\ pruned' >= pruned
  BY <1>1, SnapshotStands
<1>3. /\ log' = log /\ hand = None /\ hand' = None /\ ~Pending /\ ~Pending'
  BY <1>1, ReadyFacts DEF TakeSnapshot, Pending
<1>4. known' \subseteq known
  BY <1>1 DEF Evicted
<1>5. TypeOK'
  BY <1>1, <1>2, <1>4 DEF AdmissionInv, TypeOK, ClientOK
<1>6. EngineCounts'
  BY <1>1, <1>3 DEF AdmissionInv, EngineCounts, Moves, Decisions
<1>7. InHand' /\ DownEmpty'
  BY <1>1, <1>3, ReadyFacts DEF InHand, DownEmpty
<1>8. KnownOnly'
  <2> SUFFICES ASSUME NEW e \in known'
               PROVE  e.outcome # "intent" /\ e \in Retained'
    BY DEF KnownOnly
  <2>1. e \in known /\ e.outcome # "intent" /\ e \in Retained
    BY <1>1, <1>4, ReadyFacts
  <2>2. PICK n \in pruned + 1..Len(log) : e = log[n]
    BY <2>1 DEF Retained
  <2>3. /\ pruned \in Nat /\ Len(log) \in Nat /\ n \in Nat /\ n \in 1..Len(log)
        /\ pruned' \in Nat
    BY <1>2, <2>2 DEF AdmissionInv, TypeOK
  <2>4. CASE pruned' = pruned
    BY <1>3, <2>1, <2>4 DEF Retained
  <2>5. CASE pruned' > pruned
    <3>1. PICK m \in pruned' + 1..Len(log) : log[m].outcome # "intent" /\ log[m].index <= e.index
      BY <1>1, <2>5 DEF Evicted
    <3>2. m \in Nat /\ m \in 1..Len(log)
      BY <2>3, <3>1
    <3>3. /\ log[m].index = DecisionsIn(log, 1, m) /\ e.index = DecisionsIn(log, 1, n)
      BY <2>1, <2>2, <2>3, <3>1, <3>2, CountsAreOfTheLog DEF AdmissionInv, Placed
    <3>4. ~(n < m)
      <4>1. SUFFICES ASSUME n < m PROVE FALSE
        OBVIOUS
      <4>2. DecisionsIn(log, 1, n) < DecisionsIn(log, 1, m)
        BY <2>3, <3>1, <3>2, <4>1, DecisionsGrow, n \in 0..m
      <4>3. DecisionsIn(log, 1, n) \in Nat /\ DecisionsIn(log, 1, m) \in Nat
        BY <2>3, <3>2, CountsAreNaturals
      <4> QED
        BY <3>1, <3>3, <4>2, <4>3
    <3>5. n \in pruned' + 1..Len(log)
      BY <2>2, <2>3, <3>1, <3>2, <3>4
    <3> QED
      BY <1>3, <2>1, <2>2, <3>5 DEF Retained
  <2> QED
    BY <1>2, <2>3, <2>4, <2>5 DEF AdmissionInv, TypeOK
<1> QED
  BY <1>2, <1>5, <1>6, <1>7, <1>8 DEF AdmissionInv

LEMMA BeginDrainInv == ASSUME AdmissionInv, BeginDrain PROVE AdmissionInv'
<1>1. /\ Ready /\ phase' = "draining"
      /\ UNCHANGED <<store, committed, rev, known, queue, hand, client, told>>
  BY DEF BeginDrain
<1>2. phase # "down" /\ phase' # "down"
  BY <1>1 DEF Ready
<1>3. TypeOK' /\ AnswersStand'
  BY <1>1 DEF AdmissionInv, TypeOK, ClientOK, AnswersStand, store
<1>4. UNCHANGED <<store, committed, rev, known, hand>>
  BY <1>1
<1> QED
  BY <1>2, <1>3, <1>4, StoreStays DEF AdmissionInv

\* What is left of an engine that is down.
LEMMA DownStands ==
  ASSUME AdmissionInv, Down, HungUp
  PROVE  /\ phase' = "down" /\ (committed \in Nat /\ rev \in Nat)' /\ known' = {}
         /\ queue' = <<>> /\ hand' = None /\ told' = told
         /\ EngineCounts' /\ KnownOnly' /\ InHand' /\ DownEmpty' /\ ClientOK'
<1>1. /\ phase' = "down" /\ committed' = 0 /\ rev' = 0 /\ known' = {} /\ queue' = <<>>
      /\ hand' = None /\ told' = told
  BY DEF Down
<1>2. EngineCounts' /\ KnownOnly' /\ InHand' /\ DownEmpty'
  BY <1>1 DEF EngineCounts, KnownOnly, InHand, DownEmpty
<1>3. ClientOK'
  BY DEF AdmissionInv, TypeOK, ClientOK, HungUp
<1> QED
  BY <1>1, <1>2, <1>3

LEMMA LeaveInv == ASSUME AdmissionInv, Leave PROVE AdmissionInv'
<1>1. Ready /\ TakeSnapshot /\ Down /\ HungUp
  BY DEF Leave
<1>2. /\ phase' = "down" /\ (committed \in Nat /\ rev \in Nat)' /\ known' = {}
      /\ queue' = <<>> /\ hand' = None /\ told' = told
      /\ EngineCounts' /\ KnownOnly' /\ InHand' /\ DownEmpty' /\ ClientOK'
  BY <1>1, DownStands
<1>3. /\ (log \in Seq(Entry))' /\ (pruned \in Nat)' /\ Ordered' /\ SnapCounts' /\ Placed'
      /\ RetainedOnce' /\ AnswersStand' /\ AppliedAtItsRevision'
      /\ (snap \in [at : Nat, rev : Nat, committed : Nat])'
  BY <1>1, <1>2, SnapshotStands
<1>4. TypeOK'
  BY <1>2, <1>3 DEF AdmissionInv, TypeOK
<1> QED
  BY <1>2, <1>3, <1>4 DEF AdmissionInv

LEMMA CrashInv == ASSUME AdmissionInv, Crash PROVE AdmissionInv'
<1>1. Down /\ HungUp /\ log' = log /\ pruned' = pruned /\ snap' = snap
  BY DEF Crash, store
<1>2. /\ phase' = "down" /\ (committed \in Nat /\ rev \in Nat)' /\ known' = {}
      /\ queue' = <<>> /\ hand' = None /\ told' = told
      /\ EngineCounts' /\ KnownOnly' /\ InHand' /\ DownEmpty' /\ ClientOK'
  BY <1>1, DownStands
<1>3. Ordered' /\ SnapCounts' /\ Placed' /\ RetainedOnce'
  BY <1>1 DEF AdmissionInv, Ordered, SnapCounts, Placed, Named, RetainedOnce, Moves, Decisions
<1>4. AnswersStand' /\ AppliedAtItsRevision'
  BY <1>1, <1>2 DEF AdmissionInv, AnswersStand, AppliedAtItsRevision, Moves
<1>5. TypeOK'
  BY <1>1, <1>2 DEF AdmissionInv, TypeOK
<1> QED
  BY <1>2, <1>3, <1>4, <1>5 DEF AdmissionInv

\* The replayed tail brings the counts back to those over the whole log.
LEMMA RestartInv == ASSUME AdmissionInv, Restart PROVE AdmissionInv'
<1>1. /\ phase = "down" /\ phase' = "running"
      /\ committed' = snap.committed + Decisions(snap.at + 1, Len(log))
      /\ rev' = snap.rev + Moves(snap.at + 1, Len(log))
      /\ known' = {e \in {log[n] : n \in snap.at + 1..Len(log)} : e.outcome # "intent"}
      /\ UNCHANGED <<queue, hand, client, told>>
      /\ log' = log /\ pruned' = pruned /\ snap' = snap
  BY DEF Restart, Resumed, Replayed, store
<1>2. /\ log \in Seq(Entry) /\ Len(log) \in Nat /\ pruned \in Nat /\ snap.at \in Nat
      /\ pruned <= snap.at /\ snap.at <= Len(log)
  BY DEF AdmissionInv, TypeOK, Ordered
<1>3. hand = None /\ hand' = None /\ ~Pending'
  BY <1>1 DEF AdmissionInv, DownEmpty, Pending
<1>4. committed' = DecisionsIn(log, 1, Len(log)) /\ rev' = MovesIn(log, 1, Len(log))
  BY <1>1, <1>2, CountsSplit, CountsAreOfTheLog, snap.at \in 0..Len(log)
     DEF AdmissionInv, SnapCounts
<1>5. committed' \in Nat /\ rev' \in Nat
  BY <1>2, <1>4, CountsAreNaturals
<1>6. known' \subseteq Retained /\ \A e \in known' : e.outcome # "intent"
  BY <1>1, <1>2 DEF Retained
<1>7. known' \subseteq Entry
  BY <1>6, RetainedAreEntries
<1>8. TypeOK'
  BY <1>1, <1>5, <1>7 DEF AdmissionInv, TypeOK, ClientOK
<1>9. EngineCounts'
  <2>1. /\ Moves(1, Len(log))' = MovesIn(log, 1, Len(log))
        /\ Decisions(1, Len(log))' = DecisionsIn(log, 1, Len(log))
    BY <1>1 DEF Moves, Decisions, MovesIn, DecisionsIn
  <2> QED
    BY <1>3, <1>4, <1>5, <2>1 DEF EngineCounts
<1>10. KnownOnly'
  BY <1>1, <1>6 DEF KnownOnly, Retained
<1>11. InHand' /\ DownEmpty'
  BY <1>1, <1>3 DEF InHand, DownEmpty
<1>12. Ordered' /\ SnapCounts' /\ Placed' /\ RetainedOnce'
  BY <1>1 DEF AdmissionInv, Ordered, SnapCounts, Placed, Named, RetainedOnce, Moves, Decisions
<1>13. AnswersStand' /\ AppliedAtItsRevision'
  BY <1>1 DEF AdmissionInv, AnswersStand, AppliedAtItsRevision, Moves
<1> QED
  BY <1>8, <1>9, <1>10, <1>11, <1>12, <1>13 DEF AdmissionInv

LEMMA SubmitTypes ==
  ASSUME AdmissionInv, NEW c \in Clients, NEW req \in Request, Submit(c, req)
  PROVE  queue' \in Seq(Queued) /\ ClientOK'
<1>1. /\ client' = [client EXCEPT ![c] = [st |-> "waiting", try |-> @.try + 1, req |-> req]]
      /\ queue' = Append(queue, [by |-> c, try |-> client[c].try + 1, req |-> req])
  BY DEF Submit
<1>2. client[c].try \in Nat
  BY DEF AdmissionInv, TypeOK, ClientOK
<1>3. [by |-> c, try |-> client[c].try + 1, req |-> req] \in Queued
  BY <1>2 DEF Queued
<1>4. queue' \in Seq(Queued)
  BY <1>1, <1>3 DEF AdmissionInv, TypeOK
<1>5. ClientOK'
  BY <1>1, <1>2 DEF AdmissionInv, TypeOK, ClientOK
<1> QED
  BY <1>4, <1>5

LEMMA ClientInv ==
  ASSUME AdmissionInv, NEW c \in Clients, Send(c) \/ Retry(c) \/ GiveUp(c)
  PROVE  AdmissionInv'
<1>1. UNCHANGED <<store, phase, committed, rev, known, hand, told>>
  BY DEF Send, Retry, GiveUp, engine
<1>2. queue' \in Seq(Queued) /\ ClientOK'
  <2>1. CASE Send(c)
    <3>1. PICK id \in Ids : Submit(c, [id |-> id, fp |-> rev])
      BY <2>1 DEF Send
    <3>2. [id |-> id, fp |-> rev] \in Request
      BY DEF AdmissionInv, TypeOK, Request
    <3> QED
      BY <3>1, <3>2, SubmitTypes
  <2>2. CASE Retry(c)
    <3>1. Submit(c, client[c].req) /\ client[c].req \in Request
      BY <2>2 DEF Retry, AdmissionInv, TypeOK, ClientOK
    <3> QED
      BY <3>1, SubmitTypes
  <2>3. CASE GiveUp(c)
    BY <2>3 DEF GiveUp, AdmissionInv, TypeOK, ClientOK, engine
  <2> QED
    BY <2>1, <2>2, <2>3
<1>3. TypeOK' /\ AnswersStand'
  BY <1>1, <1>2 DEF AdmissionInv, TypeOK, AnswersStand, store
<1>4. UNCHANGED <<store, committed, rev, known, hand>> /\ phase' = phase
  BY <1>1
<1> QED
  BY <1>3, <1>4, StoreStays DEF AdmissionInv

LEMMA StutterInv == ASSUME AdmissionInv, UNCHANGED vars PROVE AdmissionInv'
<1>1. UNCHANGED <<store, committed, rev, known, hand>> /\ phase' = phase
  BY DEF vars, engine
<1>2. TypeOK' /\ AnswersStand'
  BY DEF AdmissionInv, TypeOK, ClientOK, AnswersStand, vars, engine, store
<1> QED
  BY <1>1, <1>2, StoreStays DEF AdmissionInv

-----------------------------------------------------------------------------
(* The theorems.                                                            *)

LEMMA NextInv == ASSUME AdmissionInv, [Next]_vars PROVE AdmissionInv'
  BY RetriedInv, FaultedInv, CommandInv, EngineMadeInv, CommitInv, ReplyInv, UpdateIntentInv,
     SnapshotInv, BeginDrainInv, LeaveInv, CrashInv, RestartInv, ClientInv, StutterInv
     DEF Next

\* The frontier, the revision and the decision index are what the log says, through
\* every crash, snapshot, deletion and restart (resume_run, take_snapshot).
THEOREM AdmissionInvariant == Spec => []AdmissionInv
<1>1. Init => AdmissionInv
  BY InitInv
<1>2. AdmissionInv /\ [Next]_vars => AdmissionInv'
  BY NextInv
<1> QED
  BY <1>1, <1>2, PTL DEF Spec

\* A request id is admitted once while the store retains it (DecisionIndex.lookup
\* with its fallback, evict_below).
THEOREM OncePerIdHolds == Spec => []OncePerId
<1>1. AdmissionInv => OncePerId
  BY DEF AdmissionInv, RetainedOnce, InHand, OncePerId
<1> QED
  BY <1>1, AdmissionInvariant, PTL

\* An engine between two inputs knows no decision that the store does not hold
\* (note, record, evict_below, resume_run).
THEOREM IndexIsTheStoreHolds == Spec => []IndexIsTheStore
<1>1. AdmissionInv => IndexIsTheStore
  BY ReadyFacts DEF IndexIsTheStore
<1> QED
  BY <1>1, AdmissionInvariant, PTL

\* The decision a client was answered with is durable and is that of its command
\* (the answer follows the commit; an id under another command is refused).
THEOREM AnswersStandHolds == Spec => []AnswersStand
<1>1. AdmissionInv => AnswersStand
  BY DEF AdmissionInv
<1> QED
  BY <1>1, AdmissionInvariant, PTL

\* A command is applied only to the revision it was composed against
\* (precondition_reason, the tail a restart replays).
THEOREM AppliedAtItsRevisionHolds == Spec => []AppliedAtItsRevision
<1>1. AdmissionInv => AppliedAtItsRevision
  BY DEF AdmissionInv
<1> QED
  BY <1>1, AdmissionInvariant, PTL

=============================================================================
