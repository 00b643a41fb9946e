--------------------------- MODULE LoopClock_proofs ---------------------------
(***************************************************************************)
(* The proofs that every tick is taken once, that what fell due first goes *)
(* first, and that an end found by a restart beats a later deadline: for   *)
(* every calendar, every set of runs, any number of crashes and backward   *)
(* clock steps.                                                            *)
(***************************************************************************)
EXTENDS LoopClock, FiniteSetTheorems, WellFoundedInduction, TLAPS

Kinds == {"command", "completion", "tick", "catch_up", "update_exit"}
Item == [kind : Kinds, what : Runs \cup Ticks \cup {<<>>}, at : Nat, key : Nat]

TypeOK ==
  /\ wall \in Instants /\ lastWall \in Nat /\ front \in Nat
  /\ queue \in Seq(Item)
  /\ timers \in SUBSET [due : Nat, run : Runs]
  /\ pend \in [Jobs -> SUBSET Instants] /\ consumed \in [Jobs -> Nat]
  /\ phase \in {"down", "recovering", "running"}
  /\ missed \in SUBSET Ticks
  /\ deferred \in SUBSET Runs /\ after \in Nat
  /\ status \in [Runs -> {"new", "live", "done", "killed"}]
  /\ launched \in SUBSET Runs /\ ended \in [Runs -> 0..Never]
  /\ update \in {"none", "open", "applied"}
  /\ pos \in [last : Nat, frontier : Nat, ticks : SUBSET (Jobs \X Nat)]
  /\ fired \in [Ticks -> Nat] /\ dropped \in [Ticks -> Nat]
  /\ slipped \in SUBSET (Ticks \X Nat)
  /\ outage \in SUBSET Runs
  /\ since \in Nat /\ cut \in [Jobs -> Nat]
  /\ backs \in Nat

-----------------------------------------------------------------------------
(* Ticks.                                                                   *)

QueuedAt(i, t) == queue[i].kind = "tick" /\ queue[i].what = t
Queued(t) == \E i \in DOMAIN queue : QueuedAt(i, t)
Acted(t) == fired[t] + dropped[t] > 0

\* Never admitted under another instant than its own.
Fresh(t) == \A x \in slipped : x[1] # t

\* An instant of the job that another of its ticks took over.
TakenOver(t) == \E x \in slipped : x[1][1] = t[1] /\ x[2] = t[2]

\* What an item stands for.
ItemOK(p) ==
  /\ p.at <= p.key
  /\ p.kind = "tick" => p.what \in Ticks
  /\ p.kind \in {"command", "completion"} => p.what \in Runs
  /\ p.kind = "update_exit" => update = "open"
  /\ p.kind = "catch_up" => phase = "recovering"
  /\ p.kind = "command" => phase = "running" /\ p.key <= Later(lastWall, front)
ItemsOK == \A i \in DOMAIN queue : ItemOK(queue[i])
ExitOnce == \A i, k \in DOMAIN queue :
  queue[i].kind = "update_exit" /\ queue[k].kind = "update_exit" => i = k

DownOK == phase = "down" => queue = <<>> /\ missed = {} /\ pend = [j \in Jobs |-> {}]

FrontOK ==
  /\ front <= pos.last /\ pos.frontier <= pos.last
  /\ Up => since <= front

\* The scheduler's ticks are ticks, and none by its last consumed one.
PendOK == \A j \in Jobs : \A x \in pend[j] :
  /\ <<j, x>> \in Ticks
  /\ x > consumed[j] \/ (x = 0 /\ consumed[j] = 0)

\* A tick is in one place.
OnceOK == \A t \in Ticks :
  /\ t[2] \in pend[t[1]] => t \notin missed /\ ~Queued(t) /\ (Fresh(t) => ~Acted(t))
  /\ Queued(t) => t \notin missed /\ (Fresh(t) => ~Acted(t))
  /\ t \in missed => (Fresh(t) => ~Acted(t))
  /\ Fresh(t) => fired[t] + dropped[t] <= 1
QueuedOnce == \A i, k \in DOMAIN queue :
  queue[i].kind = "tick" /\ queue[k].kind = "tick" /\ queue[i].what = queue[k].what => i = k

\* What the old definition's ticks have come to, until an update replaces it.
OldOK == update # "applied" =>
  /\ \A j \in Jobs : pend[j] \subseteq OldTicks[j] /\ cut[j] = Never
  /\ \A t \in Ticks :
       /\ t \in missed \/ Queued(t) =>
            t[2] \in OldTicks[t[1]] /\ t[2] <= consumed[t[1]]
       /\ Acted(t) =>
            /\ t[2] \in OldTicks[t[1]]
            /\ Up /\ Fresh(t) => t[2] <= consumed[t[1]] \/ t[2] < since

\* What the records hold of the ticks acted on.
RecordsOK ==
  /\ \A t \in pos.ticks \cap Ticks : Acted(t) \/ TakenOver(t)
  /\ \A t \in Ticks : Acted(t) /\ Fresh(t) =>
       t[2] < pos.frontier \/ (t[2] = pos.frontier /\ t \in pos.ticks)

AccountedOK == Up => \A t \in Ticks : Planned(t) /\ t[2] >= since => Accounted(t)

TickInv == /\ TypeOK /\ ItemsOK /\ DownOK /\ FrontOK /\ PendOK /\ OnceOK /\ QueuedOnce
           /\ ExitOnce /\ OldOK /\ RecordsOK /\ AccountedOK

-----------------------------------------------------------------------------
(* Deadlines.                                                               *)

TimersOK ==
  /\ \A t \in timers : status[t.run] # "new"
  /\ \A t, u \in timers : t.run = u.run => t = u
  /\ \A r \in launched : status[r] # "new"
  /\ outage \subseteq launched
  /\ \A r \in outage : ended[r] # Never

\* A clock that never stepped back is ahead of every stamp.
ForwardOK == backs = 0 =>
  /\ front <= wall /\ lastWall <= wall /\ pos.last <= wall
  /\ \A i \in DOMAIN queue : queue[i].key <= wall
  /\ \A t \in missed : t[2] <= wall
  /\ \A r \in Runs : ended[r] # Never => ended[r] <= wall

\* The input that learns of an outage's end, before any exit of an update.
Learns(i, r) ==
  \/ queue[i].kind = "catch_up" /\ queue[i].key <= pos.last
  \/ /\ queue[i].kind = "completion" /\ queue[i].what = r
     /\ queue[i].key <= Later(ended[r], pos.last)
BeforeExit(i) == \A k \in DOMAIN queue :
  queue[k].kind = "update_exit" => i < k /\ queue[i].key <= queue[k].key
OutageOK == Up /\ backs = 0 => \A r \in outage :
  status[r] = "live" => \E i \in DOMAIN queue : Learns(i, r) /\ BeforeExit(i)
CatchUpAlone == \A i, k \in DOMAIN queue :
  queue[i].kind = "catch_up" => i = k \/ queue[k].kind = "tick"

DueInv == TimersOK /\ ForwardOK /\ OutageOK /\ CatchUpAlone /\ ArrivalOrder

-----------------------------------------------------------------------------
(* Numbers.                                                                 *)

LEMMA LeastOf ==
  ASSUME NEW S \in SUBSET Nat, S # {}
  PROVE  Min(S) \in S /\ \A y \in S : Min(S) <= y
<1>1. PICK x \in S : \A y \in S : ~ (<<y, x>> \in OpToRel(<, Nat))
  BY NatLessThanWellFounded, WFMin
<1>2. \A y \in S : ~(y < x)
  BY <1>1 DEF OpToRel
<1>3. \A y \in S : x <= y
  BY <1>2
<1> QED BY <1>3 DEF Min

LEMMA GreatestOf ==
  ASSUME NEW S \in SUBSET Nat, S # {}, NEW b \in Nat, \A x \in S : x <= b
  PROVE  Max(S) \in S /\ \A y \in S : y <= Max(S)
<1> DEFINE T == {n \in Nat : n <= b /\ b - n \in S}
<1>1. T # {}
  <2>1. PICK x \in S : TRUE
    OBVIOUS
  <2>2. b - x \in Nat /\ b - x <= b /\ b - (b - x) = x
    BY <2>1
  <2> QED BY <2>2
<1>2. PICK n \in T : \A y \in T : n <= y
  BY <1>1, LeastOf
<1>3. \A y \in S : y <= b - n
  <2> TAKE y \in S
  <2>1. b - y \in T
    <3>1. b - y \in Nat /\ b - y <= b /\ b - (b - y) = y
      OBVIOUS
    <3> QED BY <3>1
  <2>2. n \in Nat /\ n <= b - y
    BY <1>2, <2>1
  <2> QED BY <2>2
<1> HIDE DEF T
<1>4. b - n \in S
  BY DEF T
<1> QED BY <1>3, <1>4 DEF Max

LEMMA FirstOf ==
  ASSUME NEW S \in SUBSET Nat
  PROVE  /\ First(S) \in Nat
         /\ S = {} => First(S) = Never
         /\ S # {} => First(S) \in S
         /\ \A y \in S : First(S) <= y
<1>1. MaxTime \in Nat
  BY ClockAssumption
<1>2. CASE S = {}
  BY <1>1, <1>2 DEF First, Never
<1>3. CASE S # {}
  <2>1. First(S) = Min(S)
    BY <1>3 DEF First
  <2>2. Min(S) \in S /\ \A y \in S : Min(S) <= y
    BY <1>3, LeastOf
  <2>3. PICK m : m = Min(S)
    OBVIOUS
  <2> QED BY <1>3, <2>1, <2>2, <2>3
<1> QED BY <1>2, <1>3

LEMMA LaterOf ==
  ASSUME NEW a \in Nat, NEW b \in Nat
  PROVE  /\ Later(a, b) \in Nat /\ Later(a, b) >= a /\ Later(a, b) >= b
         /\ Later(a, b) \in {a, b}
         /\ Earlier(a, b) \in Nat /\ Earlier(a, b) <= a /\ Earlier(a, b) <= b
         /\ Earlier(a, b) \in {a, b}
BY DEF Later, Earlier

LEMMA Listed ==
  ASSUME NEW S, IsFiniteSet(S)
  PROVE  /\ Cardinality(S) \in Nat
         /\ SetToSeq(S) \in [1..Cardinality(S) -> S]
         /\ \A i, k \in 1..Cardinality(S) : SetToSeq(S)[i] = SetToSeq(S)[k] => i = k
         /\ \A x \in S : \E i \in 1..Cardinality(S) : SetToSeq(S)[i] = x
<1>1. ExistsBijection(1..Cardinality(S), S) /\ Cardinality(S) \in Nat
  BY FS_CardinalityType
<1> DEFINE n == Cardinality(S)
           f == SetToSeq(S)
<1>2. PICK g \in [1..n -> S] : IsInjective(g)
  BY <1>1 DEF ExistsBijection, Bijection, Injection
<1>3. f \in [1..n -> S] /\ IsInjective(f)
  BY <1>2 DEF SetToSeq
<1>4. \A i, k \in 1..n : f[i] = f[k] => i = k
  BY <1>3 DEF IsInjective
<1>5. Cardinality(1..n) = n
  BY <1>1, FS_Interval
<1>6. f \in Injection(1..n, S)
  BY <1>3 DEF Injection
<1>7. f \in Surjection(1..n, S)
  BY <1>5, <1>6, FS_Injection
<1> HIDE DEF f
<1>8. \A x \in S : \E i \in 1..n : f[i] = x
  BY <1>7 DEF Surjection
<1> QED BY <1>1, <1>3, <1>4, <1>8 DEF f

-----------------------------------------------------------------------------
(* The queue.                                                               *)

Forward == front <= wall /\ lastWall <= wall

\* What _note_clock_step leaves of an item.
Rebased(p, q) ==
  /\ p.kind = q.kind /\ p.what = q.what /\ p.at <= p.key
  /\ q.kind = "command" => p.key <= NowOf(wall)

\* R holds the queue's items but the h-th, in their order.
Derived(R, h) ==
  /\ R \in Seq(Item)
  /\ \E f \in [DOMAIN R -> DOMAIN queue \ {h}] :
       /\ \A k \in DOMAIN queue \ {h} : \E i \in DOMAIN R : f[i] = k
       /\ \A i, k \in DOMAIN R : i < k => f[i] < f[k]
       /\ \A i \in DOMAIN R : Rebased(R[i], queue[f[i]])
       /\ \A i, k \in DOMAIN R : queue[f[i]].key <= queue[f[k]].key => R[i].key <= R[k].key
       /\ Forward => \A i \in DOMAIN R : R[i] = queue[f[i]]

LEMMA Numbers ==
  ASSUME TypeOK
  PROVE  /\ wall \in Nat /\ front \in Nat /\ lastWall \in Nat /\ MaxTime \in Nat /\ Never \in Nat
         /\ Instants \subseteq Nat
         /\ NowOf(wall) \in Nat /\ NowOf(wall) >= wall /\ NowOf(wall) >= front
<1>1. MaxTime \in Nat /\ Never \in Nat /\ Instants \subseteq Nat
  BY ClockAssumption DEF Instants, Never
<1>2. wall \in Nat /\ front \in Nat /\ lastWall \in Nat
  BY <1>1 DEF TypeOK
<1>3. NowOf(wall) = Later(wall, front)
  BY DEF NowOf
<1> QED BY <1>1, <1>2, <1>3, LaterOf

LEMMA QueueItems ==
  ASSUME TypeOK
  PROVE  /\ queue \in Seq(Item) /\ DOMAIN queue = 1..Len(queue) /\ Len(queue) \in Nat
         /\ \A i \in DOMAIN queue : queue[i] \in Item
BY DEF TypeOK

LEMMA NotedAt ==
  ASSUME TypeOK, ItemsOK
  PROVE  /\ Noted \in Seq(Item) /\ DOMAIN Noted = DOMAIN queue /\ Len(Noted) = Len(queue)
         /\ \A i \in DOMAIN queue : Rebased(Noted[i], queue[i])
         /\ \A i, k \in DOMAIN queue :
              queue[i].key <= queue[k].key => Noted[i].key <= Noted[k].key
         /\ Forward => Noted = queue
<1> DEFINE cutoff == Later(Later(wall, front), lastWall)
           at     == NowOf(wall)
           Shift(p) == IF p.key <= cutoff THEN [p EXCEPT !.key = at, !.at = Earlier(@, at)] ELSE p
           shifted == [i \in DOMAIN queue |-> Shift(queue[i])]
<1>0. wall \in Nat /\ front \in Nat /\ lastWall \in Nat
  BY Numbers
<1>1. cutoff \in Nat /\ cutoff >= wall /\ cutoff >= front /\ cutoff >= lastWall
  <2>1. PICK n : n = Later(wall, front)
    OBVIOUS
  <2>2. n \in Nat /\ n >= wall /\ n >= front
    BY <1>0, <2>1, LaterOf
  <2>3. cutoff = Later(n, lastWall)
    BY <2>1
  <2> QED BY <1>0, <2>2, <2>3 DEF Later
<1>2. at \in Nat /\ at <= cutoff /\ at >= wall /\ at >= front
  BY Numbers, LaterOf DEF NowOf
<1>3. Noted = IF wall >= cutoff THEN queue ELSE shifted
  BY DEF Noted
<1>4. ASSUME NEW p \in Item, p.at <= p.key
      PROVE  /\ Shift(p) \in Item /\ Shift(p).kind = p.kind /\ Shift(p).what = p.what
             /\ Shift(p).at <= Shift(p).key
             /\ p.key <= cutoff => Shift(p).key = at
             /\ ~(p.key <= cutoff) => Shift(p).key = p.key
  <2>1. CASE p.key <= cutoff
    <3>1. Earlier(p.at, at) \in Nat /\ Earlier(p.at, at) <= at
      BY <1>2, LaterOf DEF Item
    <3>2. Shift(p) = [p EXCEPT !.key = at, !.at = Earlier(p.at, at)]
      BY <2>1 DEF Item
    <3> HIDE DEF Shift
    <3> QED BY <1>2, <2>1, <3>1, <3>2 DEF Item
  <2>2. CASE ~(p.key <= cutoff)
    BY <1>4, <2>2 DEF Item
  <2> QED BY <2>1, <2>2
<1> HIDE DEF cutoff, at, Shift
<1>5. \A i \in DOMAIN queue : queue[i] \in Item /\ queue[i].at <= queue[i].key
  BY QueueItems DEF ItemsOK, ItemOK
<1>6. ASSUME NEW i \in DOMAIN queue, queue[i].kind = "command"
      PROVE  queue[i].key <= Later(lastWall, front)
  BY <1>6 DEF ItemsOK, ItemOK
<1>7. Later(lastWall, front) \in Nat /\ Later(lastWall, front) <= cutoff
  BY <1>1, Numbers, LaterOf
<1>8. CASE wall >= cutoff
  <2>1. Noted = queue
    BY <1>3, <1>8
  <2>2. \A i \in DOMAIN queue : Rebased(queue[i], queue[i])
    <3> TAKE i \in DOMAIN queue
    <3>1. at = NowOf(wall) /\ wall \in Nat
      BY Numbers DEF at
    <3>2. queue[i].kind = "command" => queue[i].key <= NowOf(wall)
      BY <1>1, <1>2, <1>5, <1>6, <1>7, <1>8, <3>1 DEF Item
    <3> QED BY <1>5, <3>2 DEF Rebased
  <2> QED BY <2>1, <2>2, QueueItems
<1>9. CASE ~(wall >= cutoff)
  <2>1. Noted = shifted
    BY <1>3, <1>9
  <2>2. shifted \in Seq(Item) /\ DOMAIN shifted = DOMAIN queue /\ Len(shifted) = Len(queue)
    <3>1. \A i \in 1..Len(queue) : Shift(queue[i]) \in Item
      BY <1>4, <1>5, QueueItems
    <3>2. shifted = [i \in 1..Len(queue) |-> Shift(queue[i])]
      BY QueueItems
    <3> QED BY <3>1, <3>2, QueueItems
  <2>3. \A i \in DOMAIN queue : shifted[i] = Shift(queue[i])
    OBVIOUS
  <2> HIDE DEF shifted
  <2>4. \A i \in DOMAIN queue : Rebased(shifted[i], queue[i])
    <3> TAKE i \in DOMAIN queue
    <3>1. at = NowOf(wall)
      BY DEF at
    <3>2. queue[i].kind = "command" => queue[i].key <= cutoff
      BY <1>1, <1>5, <1>6, <1>7 DEF Item
    <3>3. queue[i].kind = "command" => shifted[i].key <= NowOf(wall)
      BY <1>2, <1>4, <1>5, <2>3, <3>1, <3>2
    <3> QED BY <1>4, <1>5, <2>3, <3>3 DEF Rebased
  <2>5. \A i, k \in DOMAIN queue : queue[i].key <= queue[k].key => shifted[i].key <= shifted[k].key
    <3> TAKE i, k \in DOMAIN queue
    <3>1. queue[i].key \in Nat /\ queue[k].key \in Nat
      BY <1>5 DEF Item
    <3>2. /\ queue[i].key <= cutoff => shifted[i].key = at
          /\ ~(queue[i].key <= cutoff) => shifted[i].key = queue[i].key
          /\ queue[k].key <= cutoff => shifted[k].key = at
          /\ ~(queue[k].key <= cutoff) => shifted[k].key = queue[k].key
      BY <1>4, <1>5, <2>3
    <3> QED BY <1>1, <1>2, <3>1, <3>2
  <2>6. ~Forward
    <3>1. SUFFICES ASSUME front <= wall, lastWall <= wall  PROVE wall >= cutoff
      BY <1>9 DEF Forward
    <3> QED BY <1>0, <3>1 DEF cutoff, Later
  <2> QED BY <2>1, <2>2, <2>4, <2>5, <2>6
<1> QED BY <1>8, <1>9

LEMMA Joined ==
  ASSUME NEW S, NEW a \in Seq(S), NEW b \in Seq(S)
  PROVE  /\ a \o b \in Seq(S) /\ Len(a \o b) = Len(a) + Len(b)
         /\ DOMAIN (a \o b) = 1..(Len(a) + Len(b))
         /\ Len(a) \in Nat /\ Len(b) \in Nat
         /\ DOMAIN a = 1..Len(a) /\ DOMAIN b = 1..Len(b)
         /\ \A i \in 1..(Len(a) + Len(b)) :
              (a \o b)[i] = IF i <= Len(a) THEN a[i] ELSE b[i - Len(a)]
OBVIOUS

LEMMA RestOf ==
  ASSUME NEW q \in Seq(Item), NEW h \in 1..Len(q), NEW R, R = RemoveAt(q, h)
  PROVE  /\ R \in Seq(Item) /\ Len(R) = Len(q) - 1 /\ DOMAIN R = 1..(Len(q) - 1)
         /\ \A i \in DOMAIN R : R[i] = q[IF i < h THEN i ELSE i + 1]
<1> DEFINE A == SubSeq(q, 1, h - 1)
           B == SubSeq(q, h + 1, Len(q))
<1>1. A \in Seq(Item) /\ Len(A) = h - 1 /\ \A i \in 1..(h - 1) : A[i] = q[i]
  OBVIOUS
<1>2. B \in Seq(Item) /\ Len(B) = Len(q) - h /\ \A i \in 1..(Len(q) - h) : B[i] = q[i + h]
  OBVIOUS
<1> HIDE DEF A, B
<1>3. R = A \o B
  BY DEF RemoveAt, A, B
<1>4. R \in Seq(Item) /\ Len(R) = Len(q) - 1
  <2>1. A \o B \in Seq(Item) /\ Len(A \o B) = Len(A) + Len(B)
    BY <1>1, <1>2, Joined
  <2>3. Len(A) + Len(B) = Len(q) - 1
    BY <1>1, <1>2
  <2> QED BY <1>3, <2>1, <2>3
<1>5. \A i \in 1..(Len(q) - 1) : R[i] = q[IF i < h THEN i ELSE i + 1]
  <2> TAKE i \in 1..(Len(q) - 1)
  <2>1. CASE i < h
    BY <1>1, <1>2, <1>3, <2>1
  <2>2. CASE ~(i < h)
    <3>1. R[i] = B[i - (h - 1)]
      BY <1>1, <1>2, <1>3, <2>2
    <3>2. i - (h - 1) \in 1..(Len(q) - h) /\ i - (h - 1) + h = i + 1
      BY <2>2
    <3> QED BY <1>2, <2>2, <3>1, <3>2
  <2> QED BY <2>1, <2>2
<1> QED BY <1>4, <1>5

LEMMA NotedDerived ==
  ASSUME TypeOK, ItemsOK
  PROVE  Derived(Noted, 0)
<1> DEFINE f == [i \in DOMAIN queue |-> i]
<1>1. DOMAIN queue \ {0} = DOMAIN queue
  BY QueueItems
<1>2. f \in [DOMAIN Noted -> DOMAIN queue \ {0}]
  BY <1>1, NotedAt
<1>3. Forward => \A i \in DOMAIN queue : Noted[i] = queue[i]
  BY NotedAt
<1> QED BY <1>1, <1>2, <1>3, NotedAt DEF Derived

LEMMA RestDerived ==
  ASSUME TypeOK, ItemsOK, NEW h \in DOMAIN queue, NEW R, R = RemoveAt(Noted, h)
  PROVE  Derived(R, h) /\ Len(R) = Len(queue) - 1
<1> DEFINE up(i) == IF i < h THEN i ELSE i + 1
           f == [i \in DOMAIN R |-> up(i)]
<1>1. /\ R \in Seq(Item) /\ Len(R) = Len(queue) - 1 /\ DOMAIN R = 1..(Len(queue) - 1)
      /\ \A i \in DOMAIN R : R[i] = Noted[up(i)]
  <2>1. PICK q : q = Noted
    OBVIOUS
  <2>2. q \in Seq(Item) /\ Len(q) = Len(queue) /\ h \in 1..Len(q)
    BY <2>1, NotedAt, QueueItems
  <2>3. R = RemoveAt(q, h)
    BY <2>1
  <2>4. /\ R \in Seq(Item) /\ Len(R) = Len(q) - 1 /\ DOMAIN R = 1..(Len(q) - 1)
        /\ \A i \in DOMAIN R : R[i] = q[IF i < h THEN i ELSE i + 1]
    BY <2>2, <2>3, RestOf
  <2> QED BY <2>1, <2>2, <2>4
<1>2. Len(queue) \in Nat /\ DOMAIN queue = 1..Len(queue) /\ h \in 1..Len(queue)
  BY QueueItems
<1>3. \A i \in DOMAIN R : up(i) \in DOMAIN queue /\ up(i) # h
  BY <1>1, <1>2
<1>4. \A k \in DOMAIN queue \ {h} : \E i \in DOMAIN R : up(i) = k
  <2> TAKE k \in DOMAIN queue \ {h}
  <2>1. CASE k < h
    BY <1>1, <1>2, <2>1
  <2>2. CASE k > h
    <3>1. k - 1 \in DOMAIN R /\ up(k - 1) = k
      BY <1>1, <1>2, <2>2
    <3> QED BY <3>1
  <2> QED BY <1>2, <2>1, <2>2
<1>5. \A i, k \in DOMAIN R : i < k => up(i) < up(k)
  BY <1>1
<1>6. \A i \in DOMAIN R : f[i] = up(i)
  OBVIOUS
<1>7. f \in [DOMAIN R -> DOMAIN queue \ {h}]
  BY <1>3
<1> HIDE DEF f, up
<1>8. \A i \in DOMAIN R : Rebased(R[i], queue[f[i]])
  BY <1>1, <1>3, <1>6, NotedAt
<1>9. \A i, k \in DOMAIN R : queue[f[i]].key <= queue[f[k]].key => R[i].key <= R[k].key
  BY <1>1, <1>3, <1>6, NotedAt
<1>10. Forward => \A i \in DOMAIN R : R[i] = queue[f[i]]
  BY <1>1, <1>3, <1>6, NotedAt
<1>11. /\ \A k \in DOMAIN queue \ {h} : \E i \in DOMAIN R : f[i] = k
       /\ \A i, k \in DOMAIN R : i < k => f[i] < f[k]
  BY <1>4, <1>5, <1>6
<1> QED BY <1>1, <1>7, <1>8, <1>9, <1>10, <1>11 DEF Derived

LEMMA HeadFacts ==
  ASSUME NEW q \in Seq(Item), q # <<>>
  PROVE  /\ HeadOf(q) \in DOMAIN q /\ q[HeadOf(q)].key = HeadAt(q) /\ HeadAt(q) \in Nat
         /\ \A i \in DOMAIN q : HeadAt(q) <= q[i].key
         /\ \A i \in DOMAIN q : q[i].key = HeadAt(q) => HeadOf(q) <= i
<1> DEFINE K == {q[i].key : i \in DOMAIN q}
           H == {i \in DOMAIN q : q[i].key = HeadAt(q)}
<1>1. DOMAIN q = 1..Len(q) /\ Len(q) \in Nat /\ 1 \in DOMAIN q
  OBVIOUS
<1>2. \A i \in DOMAIN q : q[i].key \in Nat
  <2>1. \A i \in DOMAIN q : q[i] \in Item
    BY <1>1
  <2> QED BY <2>1 DEF Item
<1>3. K \in SUBSET Nat /\ K # {}
  BY <1>1, <1>2
<1>4. HeadAt(q) \in K /\ \A y \in K : HeadAt(q) <= y
  <2>1. HeadAt(q) = First(K)
    BY DEF HeadAt
  <2> HIDE DEF K
  <2> QED BY <1>3, <2>1, FirstOf
<1>5. H \in SUBSET Nat /\ H # {}
  BY <1>1, <1>4
<1>6. PICK i \in H : \A k \in H : i <= k
  BY <1>5, LeastOf
<1>7. /\ HeadOf(q) \in DOMAIN q /\ q[HeadOf(q)].key = HeadAt(q)
      /\ \A k \in DOMAIN q : q[k].key = HeadAt(q) => HeadOf(q) <= k
  BY <1>6 DEF HeadOf
<1> QED BY <1>2, <1>3, <1>4, <1>7

\* The queue a step leaves: what it derives, and what it appends.
LEMMA NextQueue ==
  ASSUME NEW R \in Seq(Item), NEW A \in Seq(Item), queue' = R \o A
  PROVE  /\ queue' \in Seq(Item)
         /\ Len(R) \in Nat /\ Len(A) \in Nat /\ DOMAIN R = 1..Len(R) /\ DOMAIN A = 1..Len(A)
         /\ DOMAIN queue' = 1..(Len(R) + Len(A)) /\ Len(queue') = Len(R) + Len(A)
         /\ \A i \in DOMAIN R : i \in DOMAIN queue' /\ queue'[i] = R[i]
         /\ \A m \in DOMAIN A : Len(R) + m \in DOMAIN queue' /\ queue'[Len(R) + m] = A[m]
         /\ \A i \in DOMAIN queue' :
              \/ i \in DOMAIN R /\ queue'[i] = R[i]
              \/ i - Len(R) \in DOMAIN A /\ queue'[i] = A[i - Len(R)]
BY Joined

LEMMA NothingAppended ==
  ASSUME NEW R \in Seq(Item)
  PROVE  R = R \o <<>> /\ <<>> \in Seq(Item) /\ DOMAIN <<>> = {}
OBVIOUS

LEMMA SameTicks ==
  ASSUME TypeOK, QueuedOnce, NEW R, NEW h \in Nat, Derived(R, h),
         NEW A \in Seq(Item), queue' = R \o A,
         h \in DOMAIN queue => queue[h].kind # "tick",
         \A m \in DOMAIN A : A[m].kind # "tick"
  PROVE  QueuedOnce' /\ \A t \in Ticks : Queued(t)' <=> Queued(t)
<1>1. PICK f \in [DOMAIN R -> DOMAIN queue \ {h}] :
       /\ \A k \in DOMAIN queue \ {h} : \E i \in DOMAIN R : f[i] = k
       /\ \A i, k \in DOMAIN R : i < k => f[i] < f[k]
       /\ \A i \in DOMAIN R : Rebased(R[i], queue[f[i]])
  BY DEF Derived
<1>2. R \in Seq(Item)
  BY DEF Derived
<1>3. \A i \in DOMAIN queue' : queue'[i].kind = "tick" =>
        i \in DOMAIN R /\ queue'[i] = R[i] /\ f[i] \in DOMAIN queue
          /\ queue[f[i]].kind = "tick" /\ queue[f[i]].what = queue'[i].what
  BY <1>1, <1>2, NextQueue DEF Rebased
<1>4. \A i, k \in DOMAIN R : f[i] = f[k] => i = k
  <2>1. DOMAIN R \subseteq Nat /\ \A i \in DOMAIN R : f[i] \in Nat
    BY <1>2, QueueItems
  <2> QED BY <1>1, <2>1
<1>5. QueuedOnce'
  <2> SUFFICES ASSUME NEW i \in DOMAIN queue', NEW k \in DOMAIN queue',
                      queue'[i].kind = "tick", queue'[k].kind = "tick",
                      queue'[i].what = queue'[k].what
               PROVE  i = k
    BY DEF QueuedOnce
  <2>1. /\ f[i] \in DOMAIN queue /\ queue[f[i]].kind = "tick" /\ queue[f[i]].what = queue'[i].what
        /\ f[k] \in DOMAIN queue /\ queue[f[k]].kind = "tick" /\ queue[f[k]].what = queue'[k].what
    BY <1>3
  <2>2. f[i] = f[k]
    BY <2>1 DEF QueuedOnce
  <2> QED BY <1>3, <1>4, <2>2
<1>6. ASSUME NEW t \in Ticks  PROVE Queued(t)' <=> Queued(t)
  <2>1. ASSUME Queued(t)'  PROVE Queued(t)
    <3>1. PICK i \in DOMAIN queue' : queue'[i].kind = "tick" /\ queue'[i].what = t
      BY <2>1 DEF Queued, QueuedAt
    <3> QED BY <1>3, <3>1 DEF Queued, QueuedAt
  <2>2. ASSUME Queued(t)  PROVE Queued(t)'
    <3>1. PICK k \in DOMAIN queue : queue[k].kind = "tick" /\ queue[k].what = t
      BY <2>2 DEF Queued, QueuedAt
    <3>2. PICK i \in DOMAIN R : f[i] = k
      BY <1>1, <3>1
    <3>3. i \in DOMAIN queue' /\ queue'[i].kind = "tick" /\ queue'[i].what = t
      BY <1>1, <1>2, <3>1, <3>2, NextQueue DEF Rebased
    <3> QED BY <3>3 DEF Queued, QueuedAt
  <2> QED BY <2>1, <2>2
<1> QED BY <1>5, <1>6

LEMMA ItemsStay ==
  ASSUME TypeOK, ItemsOK, ExitOnce, NEW R, NEW h \in Nat, Derived(R, h),
         NEW A \in Seq(Item), queue' = R \o A,
         lastWall' = wall, front' \in Nat, front' >= front,
         \A k \in DOMAIN queue \ {h} :
           /\ queue[k].kind = "update_exit" => update' = "open"
           /\ queue[k].kind = "catch_up" => phase' = "recovering"
           /\ queue[k].kind = "command" => phase' = "running",
         \A m \in DOMAIN A : ItemOK(A[m])',
         \A m \in DOMAIN A : A[m].kind = "update_exit" =>
           Len(A) = 1 /\ \A k \in DOMAIN queue : queue[k].kind # "update_exit"
  PROVE  ItemsOK' /\ ExitOnce'
<1>1. PICK f \in [DOMAIN R -> DOMAIN queue \ {h}] :
       /\ \A i, k \in DOMAIN R : i < k => f[i] < f[k]
       /\ \A i \in DOMAIN R : Rebased(R[i], queue[f[i]])
  BY DEF Derived
<1>2. R \in Seq(Item)
  BY DEF Derived
<1>3. ASSUME NEW i \in DOMAIN R  PROVE ItemOK(R[i])'
  <2> DEFINE p == R[i]
             q == queue[f[i]]
  <2>1. f[i] \in DOMAIN queue \ {h} /\ p \in Item /\ Rebased(p, q)
    BY <1>1, <1>2
  <2>2. ItemOK(q)
    BY <2>1 DEF ItemsOK
  <2>3. p.kind = q.kind /\ p.what = q.what /\ p.at <= p.key
    BY <2>1 DEF Rebased
  <2>4. p.kind = "tick" => p.what \in Ticks
    BY <2>2, <2>3 DEF ItemOK
  <2>5. p.kind \in {"command", "completion"} => p.what \in Runs
    BY <2>2, <2>3 DEF ItemOK
  <2>6. p.kind = "command" => p.key <= Later(lastWall', front')
    <3> SUFFICES ASSUME p.kind = "command"  PROVE p.key <= Later(lastWall', front')
      OBVIOUS
    <3>1. p.key <= NowOf(wall)
      BY <2>1, <2>3 DEF Rebased
    <3>2. NowOf(wall) <= Later(wall, front')
      BY Numbers DEF NowOf, Later
    <3>3. Later(wall, front') \in Nat
      BY Numbers, LaterOf
    <3> QED BY <2>1, <3>1, <3>2, <3>3, Numbers DEF Item
  <2>7. /\ p.kind = "update_exit" => update' = "open"
        /\ p.kind = "catch_up" => phase' = "recovering"
        /\ p.kind = "command" => phase' = "running"
    BY <2>1, <2>3
  <2> HIDE DEF p, q
  <2>8. (/\ p.at <= p.key
         /\ p.kind = "tick" => p.what \in Ticks
         /\ p.kind \in {"command", "completion"} => p.what \in Runs)
    BY <2>3, <2>4, <2>5
  <2>9. PICK x : x = p
    OBVIOUS
  <2>10. ItemOK(x)'
    BY <2>6, <2>7, <2>8, <2>9 DEF ItemOK
  <2> QED BY <2>9, <2>10 DEF p
<1>4. \A i \in DOMAIN queue' : ItemOK(queue[i])'
  <2> TAKE i \in DOMAIN queue'
  <2>1. CASE i \in DOMAIN R /\ queue'[i] = R[i]
    <3>1. PICK x : x = R[i]
      OBVIOUS
    <3>2. ItemOK(x)'
      BY <1>3, <2>1, <3>1
    <3> QED BY <2>1, <3>1, <3>2 DEF ItemOK
  <2>2. CASE i - Len(R) \in DOMAIN A /\ queue'[i] = A[i - Len(R)]
    <3>1. PICK x : x = A[i - Len(R)]
      OBVIOUS
    <3>2. ItemOK(x)'
      BY <2>2, <3>1
    <3> QED BY <2>2, <3>1, <3>2 DEF ItemOK
  <2> QED BY <1>2, <2>1, <2>2, NextQueue
<1>5. ItemsOK'
  BY <1>4 DEF ItemsOK
<1>6. \A i, k \in DOMAIN R : R[i].kind = "update_exit" /\ R[k].kind = "update_exit" => i = k
  <2>1. \A i \in DOMAIN R : i \in Nat /\ f[i] \in Nat
    BY <1>2, QueueItems
  <2>2. \A i, k \in DOMAIN R : R[i].kind = "update_exit" /\ R[k].kind = "update_exit" => f[i] = f[k]
    BY <1>1 DEF Rebased, ExitOnce
  <2> QED BY <1>1, <2>1, <2>2
<1>7. \A i \in DOMAIN R, m \in DOMAIN A :
         ~(R[i].kind = "update_exit" /\ A[m].kind = "update_exit")
  BY <1>1 DEF Rebased
<1>8. \A i, k \in DOMAIN A : A[i].kind = "update_exit" /\ A[k].kind = "update_exit" => i = k
  OBVIOUS
<1>9. ExitOnce'
  <2> SUFFICES ASSUME NEW i \in DOMAIN queue', NEW k \in DOMAIN queue',
                      queue'[i].kind = "update_exit", queue'[k].kind = "update_exit"
               PROVE  i = k
    BY DEF ExitOnce
  <2>1. /\ i \in Nat /\ k \in Nat /\ Len(R) \in Nat
        /\ \/ i \in DOMAIN R /\ queue'[i] = R[i]
           \/ i - Len(R) \in DOMAIN A /\ queue'[i] = A[i - Len(R)]
        /\ \/ k \in DOMAIN R /\ queue'[k] = R[k]
           \/ k - Len(R) \in DOMAIN A /\ queue'[k] = A[k - Len(R)]
    BY <1>2, NextQueue
  <2>2. i = k \/ i - Len(R) = k - Len(R)
    BY <1>6, <1>7, <1>8, <2>1
  <2> QED BY <2>1, <2>2
<1> QED BY <1>5, <1>9

-----------------------------------------------------------------------------
(* What is due, and the stamp it gets.                                      *)

LEMMA DueFacts ==
  ASSUME TypeOK
  PROVE  /\ RawDue \in Nat /\ \A t \in timers : RawDue <= t.due
         /\ SchedDue \in Nat /\ \A j \in Jobs : \A x \in pend[j] : SchedDue <= x
         /\ SchedDue # Never => \E j \in Jobs : SchedDue \in pend[j]
<1> DEFINE D == {t.due : t \in timers}
           U == UNION {pend[j] : j \in Jobs}
<1>1. D \in SUBSET Nat /\ \A t \in timers : t.due \in D
  BY DEF TypeOK
<1>2. U \in SUBSET Nat /\ \A x \in U : \E j \in Jobs : x \in pend[j]
  <2>1. \A j \in Jobs : pend[j] \in SUBSET Nat
    BY Numbers DEF TypeOK
  <2> QED BY <2>1
<1>3. \A j \in Jobs : \A x \in pend[j] : x \in U
  OBVIOUS
<1>4. RawDue = First(D) /\ SchedDue = First(U)
  BY DEF RawDue, SchedDue
<1> HIDE DEF D, U
<1>5. RawDue \in Nat /\ \A y \in D : RawDue <= y
  BY <1>1, <1>4, FirstOf
<1>6. SchedDue \in Nat /\ (\A y \in U : SchedDue <= y) /\ (SchedDue # Never => SchedDue \in U)
  BY <1>2, <1>4, FirstOf
<1> QED BY <1>1, <1>2, <1>3, <1>5, <1>6

LEMMA WorkFacts ==
  ASSUME TypeOK, NEW q \in Seq(Item), NEW w, w = NextWork(q)
  PROVE  /\ w.act \in {"event", "tick", "timer", "wait"}
         /\ w.act = "event" => /\ q # <<>> /\ HeadAt(q) <= RawDue /\ HeadAt(q) <= NowOf(wall)
                               /\ w.at = HeadAt(q)
         /\ w.act = "tick" => /\ SchedDue # Never /\ w.at = SchedDue /\ SchedDue <= NowOf(wall)
                              /\ SchedDue \in Nat
         /\ w.act = "timer" =>
              /\ w.at \in Nat
              /\ \/ q # <<>> /\ RawDue < HeadAt(q) /\ w.at = Later(RawDue, front)
                 \/ /\ w.at = NowOf(wall)
                    /\ q # <<>> => HeadAt(q) > NowOf(wall) \/ HeadAt(q) > Never
         /\ RawDue <= NowOf(wall) => w.act # "wait" /\ w.at <= NowOf(wall)
<1>1. /\ RawDue \in Nat /\ SchedDue \in Nat /\ NowOf(wall) \in Nat /\ front \in Nat /\ Never \in Nat
      /\ front <= NowOf(wall)
  BY DueFacts, Numbers
<1>2. q # <<>> => HeadAt(q) \in Nat
  BY HeadFacts
<1>3. Later(RawDue, front) \in Nat /\ (RawDue <= NowOf(wall) => Later(RawDue, front) <= NowOf(wall))
  BY <1>1 DEF Later
<1>4. CASE TakesEvent(q)
  <2>1. w = [act |-> "event", at |-> HeadAt(q)]
    BY <1>4 DEF NextWork
  <2> QED BY <1>4, <2>1 DEF TakesEvent, HeadGate
<1>5. CASE ~TakesEvent(q) /\ TakesTick(q)
  <2>1. w = [act |-> "tick", at |-> SchedDue]
    BY <1>5 DEF NextWork
  <2> QED BY <1>1, <1>5, <2>1 DEF TakesTick
<1>6. CASE ~TakesEvent(q) /\ ~TakesTick(q) /\ TimerBeforeEvent(q)
  <2>1. w = [act |-> "timer", at |-> Later(RawDue, front)]
    BY <1>6 DEF NextWork
  <2> QED BY <1>1, <1>3, <1>6, <2>1 DEF TimerBeforeEvent
<1>7. CASE ~TakesEvent(q) /\ ~TakesTick(q) /\ ~TimerBeforeEvent(q) /\ TakesTimer
  <2>1. w = [act |-> "timer", at |-> NowOf(wall)]
    BY <1>7 DEF NextWork
  <2>2. ASSUME q # <<>>, HeadAt(q) <= NowOf(wall), HeadAt(q) <= Never  PROVE FALSE
    <3>1. HeadAt(q) \in Nat
      BY <1>2, <2>2
    <3>2. ~(RawDue # Never /\ RawDue < HeadAt(q))
      BY <1>7, <2>2 DEF TimerBeforeEvent
    <3>3. HeadAt(q) <= RawDue
      BY <1>1, <2>2, <3>1, <3>2
    <3>4. ~(HeadAt(q) <= SchedDue)
      BY <1>7, <2>2, <3>3 DEF TakesEvent, HeadGate
    <3>5. SchedDue # Never /\ SchedDue < HeadAt(q) /\ SchedDue <= NowOf(wall)
      BY <1>1, <2>2, <3>1, <3>4
    <3>6. SchedDue <= Later(RawDue, NowOf(wall))
      BY <1>1, <3>5 DEF Later
    <3> QED BY <1>7, <3>5, <3>6 DEF TakesTick
  <2>3. q # <<>> => HeadAt(q) > NowOf(wall) \/ HeadAt(q) > Never
    BY <1>1, <1>2, <2>2
  <2> QED BY <1>1, <2>1, <2>3
<1>8. CASE ~TakesEvent(q) /\ ~TakesTick(q) /\ ~TimerBeforeEvent(q) /\ ~TakesTimer
  <2>1. w.act = "wait"
    BY <1>8 DEF NextWork
  <2> QED BY <1>8, <2>1 DEF TakesTimer
<1> QED BY <1>4, <1>5, <1>6, <1>7, <1>8

LEMMA StampFacts ==
  ASSUME TypeOK, NEW x \in Nat
  PROVE  /\ StampOf(x) \in Nat /\ StampOf(x) >= front
         /\ StampOf(x) <= x \/ StampOf(x) = front
         /\ StampOf(x) <= wall \/ StampOf(x) = front
BY Numbers DEF StampOf, NowOf, Later, Earlier

LEMMA HalfFacts ==
  ASSUME TypeOK, NEW at
  PROVE  /\ TimeHalf(at) \in [Runs -> {"new", "live", "done", "killed"}]
         /\ \A r \in Runs : \/ TimeHalf(at)[r] = status[r]
                            \/ /\ status[r] = "live" /\ TimeHalf(at)[r] = "killed"
                               /\ \E t \in timers : t.run = r /\ t.due <= at
         /\ FiredBy(at) \subseteq timers /\ \A t \in FiredBy(at) : t.due <= at
BY DEF TypeOK, TimeHalf, FiredBy

\* The records after a time observation, an admission or a dispatch.
PosType == [last : Nat, frontier : Nat, ticks : SUBSET (Jobs \X Nat)]
LEMMA PosFacts ==
  ASSUME NEW p \in PosType, p.frontier <= p.last, NEW at \in Nat,
         NEW T \in SUBSET (Jobs \X Nat)
  PROVE  /\ Plain(p, at) \in PosType /\ Plain(p, at).frontier = p.frontier
         /\ Plain(p, at).ticks = p.ticks /\ Plain(p, at).last >= p.last /\ Plain(p, at).last >= at
         /\ Plain(p, at).last \in {p.last, at}
         /\ Semantic(p, at, T) \in PosType
         /\ Semantic(p, at, T).last >= p.last /\ Semantic(p, at, T).last >= at
         /\ Semantic(p, at, T).last \in {p.last, at}
         /\ Semantic(p, at, T).frontier <= Semantic(p, at, T).last
         /\ \/ at > p.frontier /\ Semantic(p, at, T).frontier = at /\ Semantic(p, at, T).ticks = T
            \/ /\ at = p.frontier /\ Semantic(p, at, T).frontier = at
               /\ Semantic(p, at, T).ticks = p.ticks \cup T
            \/ /\ at < p.frontier /\ Semantic(p, at, T).frontier = p.frontier
               /\ Semantic(p, at, T).ticks = p.ticks
<1>1. p.last \in Nat /\ p.frontier \in Nat /\ p.ticks \in SUBSET (Jobs \X Nat)
  BY DEF PosType
<1>2. /\ Later(p.last, at) \in Nat /\ Later(p.last, at) >= p.last /\ Later(p.last, at) >= at
      /\ Later(p.last, at) \in {p.last, at}
  BY <1>1, LaterOf
<1>3. Plain(p, at) = [p EXCEPT !.last = Later(p.last, at)]
  BY DEF Plain, PosType
<1>4. /\ Plain(p, at) \in PosType /\ Plain(p, at).last = Later(p.last, at)
      /\ Plain(p, at).frontier = p.frontier /\ Plain(p, at).ticks = p.ticks
  BY <1>2, <1>3 DEF PosType
<1> DEFINE s == Semantic(p, at, T)
<1>5. /\ s.last = Later(p.last, at) /\ s.frontier = Later(p.frontier, at)
      /\ s.ticks = IF at > p.frontier THEN T
                   ELSE IF at = p.frontier THEN p.ticks \cup T ELSE p.ticks
      /\ s = [last |-> s.last, frontier |-> s.frontier, ticks |-> s.ticks]
  BY DEF Semantic
<1>6. \/ at > p.frontier /\ s.frontier = at /\ s.ticks = T
      \/ at = p.frontier /\ s.frontier = at /\ s.ticks = p.ticks \cup T
      \/ at < p.frontier /\ s.frontier = p.frontier /\ s.ticks = p.ticks
  BY <1>1, <1>5 DEF Later
<1>7. s \in PosType
  <2>1. s.last \in Nat /\ s.frontier \in Nat /\ s.ticks \in SUBSET (Jobs \X Nat)
    BY <1>1, <1>2, <1>5, <1>6
  <2> HIDE DEF s
  <2> QED BY <1>5, <2>1 DEF PosType
<1>8. s.frontier <= s.last
  BY <1>1, <1>5 DEF Later
<1> QED BY <1>2, <1>4, <1>5, <1>6, <1>7, <1>8

-----------------------------------------------------------------------------
(* What an admission leaves of the invariant.                               *)

\* The variables an admission moves.
AdmissionType ==
  /\ front \in Nat /\ timers \in SUBSET [due : Nat, run : Runs]
  /\ status \in [Runs -> {"new", "live", "done", "killed"}]
  /\ deferred \in SUBSET Runs /\ after \in Nat /\ launched \in SUBSET Runs
  /\ pos \in PosType /\ fired \in [Ticks -> Nat] /\ slipped \in SUBSET (Ticks \X Nat)

LEMMA RecordsKept ==
  ASSUME TypeOK, RecordsOK, UNCHANGED <<fired, dropped, slipped>>, pos' \in PosType,
         \/ pos'.frontier = pos.frontier /\ pos'.ticks = pos.ticks
         \/ pos'.frontier > pos.frontier /\ pos'.ticks = {}
  PROVE  RecordsOK'
<1>1. \A t : /\ Acted(t)' <=> Acted(t)
             /\ Fresh(t)' <=> Fresh(t)
             /\ TakenOver(t)' <=> TakenOver(t)
  BY DEF Acted, Fresh, TakenOver
<1>2. \A t \in Ticks : t[2] \in Nat
  BY Numbers DEF Ticks
<1>3. pos.frontier \in Nat /\ pos'.frontier \in Nat
  BY DEF TypeOK, PosType
<1>4. pos'.ticks \subseteq pos.ticks
  OBVIOUS
<1>5. \A t \in pos'.ticks \cap Ticks : Acted(t)' \/ TakenOver(t)'
  BY <1>1, <1>4 DEF RecordsOK
<1>6. ASSUME NEW t \in Ticks, Acted(t)', Fresh(t)'
      PROVE  t[2] < pos'.frontier \/ (t[2] = pos'.frontier /\ t \in pos'.ticks)
  <2>1. t[2] < pos.frontier \/ (t[2] = pos.frontier /\ t \in pos.ticks)
    BY <1>1, <1>6 DEF RecordsOK
  <2> QED BY <1>2, <1>3, <2>1
<1> QED BY <1>5, <1>6 DEF RecordsOK

LEMMA PendKept == ASSUME PendOK, pend' = pend, consumed' = consumed  PROVE PendOK'
BY DEF PendOK

LEMMA TicksKept ==
  ASSUME OnceOK, PendOK, OldOK, AccountedOK,
         \A t \in Ticks : Queued(t)' <=> Queued(t),
         UNCHANGED <<pend, consumed, missed, fired, dropped, slipped, since, cut>>,
         phase' = "down" <=> phase = "down",
         update' = "applied" <=> update = "applied"
  PROVE  OnceOK' /\ PendOK' /\ OldOK' /\ AccountedOK'
<1>1. \A t : /\ Acted(t)' <=> Acted(t)
             /\ Fresh(t)' <=> Fresh(t)
             /\ TakenOver(t)' <=> TakenOver(t)
             /\ Planned(t)' <=> Planned(t)
  BY DEF Acted, Fresh, TakenOver, Planned
<1>2. OnceOK'
  BY <1>1 DEF OnceOK
<1>3. PendOK'
  BY DEF PendOK
<1>4. Up' <=> Up
  BY DEF Up
<1>5. OldOK'
  BY <1>1, <1>4 DEF OldOK
<1>6. \A t \in Ticks : Accounted(t)' <=> Accounted(t)
  <2> TAKE t \in Ticks
  <2>1. (Coming(t) <=> t[2] \in pend[t[1]] \/ t \in missed \/ Queued(t))
    BY DEF Coming, Queued, QueuedAt
  <2>2. (Coming(t)' <=> t[2] \in pend'[t[1]] \/ t \in missed' \/ Queued(t)')
    BY DEF Coming, Queued, QueuedAt
  <2>3. Coming(t)' <=> Coming(t)
    BY <2>1, <2>2
  <2> QED BY <1>1, <2>3 DEF Accounted, Acted
<1>7. AccountedOK'
  BY <1>1, <1>4, <1>6 DEF AccountedOK
<1> QED BY <1>2, <1>3, <1>5, <1>7

LEMMA Observed ==
  ASSUME TypeOK, FrontOK, RecordsOK, NEW at \in Nat, at >= front, Observe(at),
         UNCHANGED <<dropped, since, phase>>
  PROVE  /\ AdmissionType' /\ FrontOK' /\ RecordsOK' /\ front' = at
         /\ \A r \in Runs : \/ status'[r] = status[r]
                            \/ /\ status[r] = "live" /\ status'[r] = "killed"
                               /\ \E t \in timers : t.run = r /\ t.due <= at
         /\ timers' \subseteq timers /\ \A t \in timers \ timers' : t.due <= at
         /\ pos'.last \in {pos.last, at} /\ pos'.last >= pos.last
<1>1. pos \in PosType /\ pos.frontier <= pos.last /\ front <= pos.last
  BY DEF TypeOK, PosType, FrontOK
<1>2. pos' = Semantic(pos, at, {})
  BY DEF Observe
<1>3. /\ pos' \in PosType /\ pos'.last >= pos.last /\ pos'.last >= at
      /\ pos'.last \in {pos.last, at} /\ pos'.frontier <= pos'.last
      /\ \/ at > pos.frontier /\ pos'.frontier = at /\ pos'.ticks = {}
         \/ at = pos.frontier /\ pos'.frontier = at /\ pos'.ticks = pos.ticks
         \/ at < pos.frontier /\ pos'.frontier = pos.frontier /\ pos'.ticks = pos.ticks
  <2>1. PICK T \in SUBSET (Jobs \X Nat) : T = {}
    OBVIOUS
  <2>2. pos' = Semantic(pos, at, T)
    BY <1>2, <2>1
  <2>3. /\ Semantic(pos, at, T) \in PosType
        /\ Semantic(pos, at, T).last >= pos.last /\ Semantic(pos, at, T).last >= at
        /\ Semantic(pos, at, T).last \in {pos.last, at}
        /\ Semantic(pos, at, T).frontier <= Semantic(pos, at, T).last
        /\ \/ at > pos.frontier /\ Semantic(pos, at, T).frontier = at /\ Semantic(pos, at, T).ticks = T
           \/ /\ at = pos.frontier /\ Semantic(pos, at, T).frontier = at
              /\ Semantic(pos, at, T).ticks = pos.ticks \cup T
           \/ /\ at < pos.frontier /\ Semantic(pos, at, T).frontier = pos.frontier
              /\ Semantic(pos, at, T).ticks = pos.ticks
    BY <1>1, PosFacts
  <2> QED BY <2>1, <2>2, <2>3
<1>4. RecordsOK'
  <2>1. UNCHANGED <<fired, dropped, slipped>>
    BY DEF Observe
  <2>2. \/ pos'.frontier = pos.frontier /\ pos'.ticks = pos.ticks
        \/ pos'.frontier > pos.frontier /\ pos'.ticks = {}
    BY <1>3
  <2> QED BY <1>3, <2>1, <2>2, RecordsKept
<1>5. front' = at /\ timers' = timers \ FiredBy(at) /\ status' = TimeHalf(at)
  BY DEF Observe
<1>6. FrontOK'
  <2>1. pos'.last >= front' /\ pos'.frontier <= pos'.last
    BY <1>3, <1>5
  <2>2. since \in Nat /\ front \in Nat
    BY DEF TypeOK
  <2>3. Up' => since' <= front'
    BY <1>5, <2>2 DEF FrontOK, Up
  <2>4. front' \in Nat /\ pos'.last \in Nat
    BY <1>3, <1>5 DEF PosType
  <2> QED BY <2>1, <2>3, <2>4 DEF FrontOK
<1>7. AdmissionType'
  BY <1>3, <1>5, HalfFacts DEF AdmissionType, TypeOK, Observe
<1> QED BY <1>3, <1>4, <1>5, <1>6, <1>7, HalfFacts

LEMMA Dispatched ==
  ASSUME TypeOK, FrontOK, NEW runs \in SUBSET Runs, NEW at \in Nat, Dispatch(runs, at)
  PROVE  /\ deferred' \in SUBSET Runs /\ after' \in Nat /\ launched' \in SUBSET Runs
         /\ launched \subseteq launched'
         /\ phase = "recovering" => launched' = launched
         /\ pos' \in PosType /\ pos'.frontier = pos.frontier /\ pos'.ticks = pos.ticks
         /\ pos'.last >= pos.last /\ pos'.last >= at
         /\ pos'.last \in {pos.last, at, wall}
<1>1. pos \in PosType /\ pos.frontier <= pos.last /\ wall \in Nat
  BY Numbers DEF TypeOK, PosType, FrontOK
<1>2. Later(at, wall) \in Nat /\ Later(at, wall) >= at /\ Later(at, wall) \in {at, wall}
  BY <1>1, LaterOf
<1>3. PICK x \in Nat : pos' = Plain(pos, x) /\ x >= at /\ x \in {at, wall}
  BY <1>2 DEF Dispatch
<1>4. /\ pos' \in PosType /\ pos'.frontier = pos.frontier /\ pos'.ticks = pos.ticks
      /\ pos'.last >= pos.last /\ pos'.last >= x /\ pos'.last \in {pos.last, x}
  BY <1>1, <1>3, PosFacts
<1>5. pos'.last >= at /\ pos'.last \in {pos.last, at, wall}
  BY <1>3, <1>4 DEF PosType
<1>6. /\ deferred' \in SUBSET Runs /\ after' \in Nat /\ launched' \in SUBSET Runs
      /\ launched \subseteq launched'
      /\ phase = "recovering" => launched' = launched
  BY <1>1 DEF Dispatch, TypeOK
<1> QED BY <1>4, <1>5, <1>6

LEMMA Admitted ==
  ASSUME TypeOK, FrontOK, RecordsOK, NEW over \in SUBSET Runs, NEW runs \in SUBSET Runs,
         NEW at \in Nat, at >= front, Admit(over, runs, at),
         UNCHANGED <<dropped, since, phase>>
  PROVE  /\ AdmissionType' /\ FrontOK' /\ RecordsOK' /\ front' = at
         /\ timers' = (timers \ FiredBy(at)) \cup {[due |-> at + Delay[r], run |-> r] : r \in runs}
         /\ status' = [r \in Runs |-> IF r \in runs THEN "live"
                                    ELSE IF r \in over THEN "done" ELSE TimeHalf(at)[r]]
         /\ launched \subseteq launched' /\ (phase = "recovering" => launched' = launched)
         /\ fired' = fired /\ slipped' = slipped
         /\ pos'.last \in {pos.last, at, wall} /\ pos'.last >= pos.last
<1>1. /\ front' = at /\ Dispatch(runs, at) /\ fired' = fired /\ slipped' = slipped
      /\ timers' = (timers \ FiredBy(at)) \cup {[due |-> at + Delay[r], run |-> r] : r \in runs}
      /\ status' = [r \in Runs |-> IF r \in runs THEN "live"
                                 ELSE IF r \in over THEN "done" ELSE TimeHalf(at)[r]]
  BY DEF Admit
<1>2. /\ deferred' \in SUBSET Runs /\ after' \in Nat /\ launched' \in SUBSET Runs
      /\ launched \subseteq launched'
      /\ phase = "recovering" => launched' = launched
      /\ pos' \in PosType /\ pos'.frontier = pos.frontier /\ pos'.ticks = pos.ticks
      /\ pos'.last >= pos.last /\ pos'.last >= at
      /\ pos'.last \in {pos.last, at, wall}
  BY <1>1, Dispatched
<1>3. RecordsOK'
  BY <1>1, <1>2, RecordsKept
<1>4. FrontOK'
  <2>1. since \in Nat /\ front \in Nat
    BY DEF TypeOK
  <2>2. pos.frontier \in Nat /\ pos.last \in Nat /\ pos'.last \in Nat
    BY <1>2 DEF TypeOK, PosType
  <2> QED BY <1>1, <1>2, <2>1, <2>2 DEF FrontOK, Up
<1>5. timers' \in SUBSET [due : Nat, run : Runs]
  <2>1. \A r \in runs : at + Delay[r] \in Nat
    BY ClockAssumption
  <2> QED BY <1>1, <2>1 DEF TypeOK
<1>6. status' \in [Runs -> {"new", "live", "done", "killed"}]
  BY <1>1, HalfFacts
<1>7. AdmissionType'
  BY <1>1, <1>2, <1>5, <1>6 DEF AdmissionType, TypeOK
<1> QED BY <1>1, <1>2, <1>3, <1>4, <1>7

-----------------------------------------------------------------------------
(* The passes of the loop.                                                  *)

LEMMA TakenHead ==
  ASSUME TypeOK, ItemsOK, Passes("event"), NEW h, h = HeadOf(Noted), NEW p, p = Noted[h]
  PROVE  /\ h \in DOMAIN queue /\ h \in Nat /\ p \in Item /\ Rebased(p, queue[h]) /\ ItemOK(queue[h])
         /\ p.key <= RawDue /\ p.key <= NowOf(wall) /\ p.at \in Nat /\ p.key \in Nat
         /\ \A i \in DOMAIN queue : p.key <= Noted[i].key /\ (p.key = Noted[i].key => h <= i)
         /\ Noted # <<>> /\ Derived(Rest(Noted), h) /\ Len(Rest(Noted)) = Len(queue) - 1
         /\ phase # "down" /\ lastWall' = wall
<1>1. Noted \in Seq(Item) /\ DOMAIN Noted = DOMAIN queue
  BY NotedAt
<1>2. /\ Noted # <<>> /\ HeadAt(Noted) <= RawDue /\ HeadAt(Noted) <= NowOf(wall)
  <2>1. PICK w : w = Work
    OBVIOUS
  <2>2. w = NextWork(Noted) /\ w.act = "event"
    BY <2>1 DEF Work, Passes
  <2> QED BY <1>1, <2>2, WorkFacts
<1>3. PICK q \in Seq(Item) : q = Noted
  BY <1>1
<1>4. /\ h \in DOMAIN q /\ q[h].key = HeadAt(q)
      /\ \A i \in DOMAIN q : HeadAt(q) <= q[i].key
      /\ \A i \in DOMAIN q : q[i].key = HeadAt(q) => h <= i
  BY <1>2, <1>3, HeadFacts
<1>5. h \in DOMAIN queue /\ h \in Nat
  BY <1>1, <1>3, <1>4, QueueItems
<1>6. p \in Item /\ p.at \in Nat /\ p.key \in Nat
  <2>1. p \in Item
    BY <1>3, <1>4
  <2> QED BY <2>1 DEF Item
<1>7. Rebased(p, queue[h])
  BY <1>5, NotedAt
<1>8. ItemOK(queue[h])
  BY <1>5 DEF ItemsOK
<1>9. Rest(Noted) = RemoveAt(Noted, h)
  BY DEF Rest
<1>10. Derived(Rest(Noted), h) /\ Len(Rest(Noted)) = Len(queue) - 1
  BY <1>5, <1>9, RestDerived
<1>11. phase # "down" /\ lastWall' = wall
  BY DEF Passes, Up
<1> QED BY <1>1, <1>2, <1>3, <1>4, <1>5, <1>6, <1>7, <1>8, <1>10, <1>11

LEMMA TakeRunInv ==
  ASSUME TickInv, Passes("event"), NEW h, h = HeadOf(Noted), queue[h].kind # "tick",
         NEW over \in SUBSET Runs, NEW runs \in SUBSET Runs,
         NEW at \in Nat, at >= front, Admit(over, runs, at), queue' = Rest(Noted),
         UNCHANGED <<world, pend, consumed, phase, missed, update, dropped, anchors>>
  PROVE  TickInv'
<1> USE DEF TickInv
<1>1. PICK p : p = Noted[h]
  OBVIOUS
<1>2. PICK R : R = Rest(Noted)
  OBVIOUS
<1>3. h \in Nat /\ Derived(R, h) /\ phase # "down" /\ lastWall' = wall
  BY <1>1, <1>2, TakenHead
<1>4. queue' = R \o <<>> /\ R \in Seq(Item) /\ <<>> \in Seq(Item) /\ DOMAIN <<>> = {}
  <2>1. R \in Seq(Item)
    BY <1>3 DEF Derived
  <2> QED BY <1>2, <2>1, NothingAppended
<1>5. PICK A \in Seq(Item) : A = <<>> /\ queue' = R \o A /\ DOMAIN A = {}
  BY <1>4
<1>6. QueuedOnce' /\ \A t \in Ticks : Queued(t)' <=> Queued(t)
  BY <1>3, <1>5, SameTicks
<1>7. UNCHANGED <<dropped, since, phase, missed, pend, consumed, update, cut>>
  BY DEF anchors
<1>8. AdmissionType' /\ FrontOK' /\ RecordsOK' /\ front' = at /\ fired' = fired /\ slipped' = slipped
  BY <1>7, Admitted
<1>9. OnceOK' /\ PendOK' /\ OldOK' /\ AccountedOK'
  BY <1>6, <1>7, <1>8, TicksKept
<1>10. ItemsOK' /\ ExitOnce'
  <2>1. \A k \in DOMAIN queue : ItemOK(queue[k])
    BY DEF ItemsOK
  <2>2. \A k \in DOMAIN queue \ {h} :
           /\ queue[k].kind = "update_exit" => update' = "open"
           /\ queue[k].kind = "catch_up" => phase' = "recovering"
           /\ queue[k].kind = "command" => phase' = "running"
    BY <1>7, <2>1 DEF ItemOK
  <2> QED BY <1>3, <1>5, <1>8, <2>2, ItemsStay
<1>11. DownOK'
  BY <1>3, <1>7 DEF DownOK
<1>12. TypeOK'
  <2>1. queue' \in Seq(Item)
    BY <1>2, <1>4
  <2>2. UNCHANGED <<wall, backs, ended, outage>>
    BY DEF world
  <2>3. lastWall' \in Nat
    BY <1>3, Numbers
  <2> QED BY <1>7, <1>8, <2>1, <2>2, <2>3 DEF TypeOK, AdmissionType, PosType
<1> QED BY <1>6, <1>8, <1>9, <1>10, <1>11, <1>12

LEMMA TickGone ==
  ASSUME TypeOK, QueuedOnce, NEW R, NEW h \in DOMAIN queue, Derived(R, h), queue' = R,
         NEW t \in Ticks, QueuedAt(h, t)
  PROVE  QueuedOnce' /\ \A s \in Ticks : Queued(s)' <=> Queued(s) /\ s # t
<1>1. PICK f \in [DOMAIN R -> DOMAIN queue \ {h}] :
       /\ \A k \in DOMAIN queue \ {h} : \E i \in DOMAIN R : f[i] = k
       /\ \A i, k \in DOMAIN R : i < k => f[i] < f[k]
       /\ \A i \in DOMAIN R : Rebased(R[i], queue[f[i]])
  BY DEF Derived
<1>2. R \in Seq(Item)
  BY DEF Derived
<1>3. \A i \in DOMAIN R : /\ f[i] \in DOMAIN queue /\ f[i] # h
                         /\ queue[f[i]].kind = R[i].kind /\ queue[f[i]].what = R[i].what
  BY <1>1 DEF Rebased
<1>4. \A i, k \in DOMAIN R : f[i] = f[k] => i = k
  <2>1. DOMAIN R \subseteq Nat /\ \A i \in DOMAIN R : f[i] \in Nat
    BY <1>2, QueueItems
  <2> QED BY <1>1, <2>1
<1>5. QueuedOnce'
  <2> SUFFICES ASSUME NEW i \in DOMAIN R, NEW k \in DOMAIN R,
                      R[i].kind = "tick", R[k].kind = "tick", R[i].what = R[k].what
               PROVE  i = k
    BY DEF QueuedOnce
  <2>1. f[i] = f[k]
    BY <1>3 DEF QueuedOnce
  <2> QED BY <1>4, <2>1
<1>6. ASSUME NEW s \in Ticks  PROVE Queued(s)' <=> Queued(s) /\ s # t
  <2>1. Queued(s)' <=> \E i \in DOMAIN R : R[i].kind = "tick" /\ R[i].what = s
    BY DEF Queued, QueuedAt
  <2>2. ASSUME Queued(s)'  PROVE Queued(s) /\ s # t
    <3>1. PICK i \in DOMAIN R : R[i].kind = "tick" /\ R[i].what = s
      BY <2>1, <2>2
    <3>2. f[i] \in DOMAIN queue /\ f[i] # h /\ queue[f[i]].kind = "tick" /\ queue[f[i]].what = s
      BY <1>3, <3>1
    <3>3. s # t
      BY <3>2 DEF QueuedOnce, QueuedAt
    <3> QED BY <3>2, <3>3 DEF Queued, QueuedAt
  <2>3. ASSUME Queued(s), s # t  PROVE Queued(s)'
    <3>1. PICK k \in DOMAIN queue : queue[k].kind = "tick" /\ queue[k].what = s
      BY <2>3 DEF Queued, QueuedAt
    <3>2. k # h
      BY <2>3, <3>1 DEF QueuedAt
    <3>3. PICK i \in DOMAIN R : f[i] = k
      BY <1>1, <3>1, <3>2
    <3> QED BY <1>3, <2>1, <3>1, <3>3
  <2> QED BY <2>2, <2>3
<1> QED BY <1>5, <1>6

LEMMA TickTypes ==
  ASSUME TypeOK
  PROVE  /\ \A t \in Ticks : /\ t = <<t[1], t[2]>> /\ t[1] \in Jobs /\ t[2] \in Nat /\ t[2] <= MaxTime
                             /\ fired[t] \in Nat /\ dropped[t] \in Nat
         /\ \A j \in Jobs : \A x \in Instants : <<j, x>>[1] = j /\ <<j, x>>[2] = x
<1>1. MaxTime \in Nat
  BY Numbers
<1>2. \A t \in Ticks : t \in Jobs \X Instants
  BY DEF Ticks
<1>3. \A t \in Ticks : fired[t] \in Nat /\ dropped[t] \in Nat
  BY DEF TypeOK
<1> QED BY <1>1, <1>2, <1>3 DEF Instants

LEMMA TakeTickInv ==
  ASSUME TickInv, Passes("event"), NEW h, h = HeadOf(Noted), NEW t \in Ticks, QueuedAt(h, t),
         NEW at \in Nat, at >= front, AdmitTick(t, at), queue' = Rest(Noted),
         UNCHANGED <<world, pend, consumed, phase, missed, update, dropped, anchors>>
  PROVE  TickInv'
<1> USE DEF TickInv
<1>1. PICK p : p = Noted[h]
  OBVIOUS
<1>2. PICK R : R = Rest(Noted)
  OBVIOUS
<1>3. h \in DOMAIN queue /\ h \in Nat /\ Derived(R, h) /\ phase # "down" /\ lastWall' = wall
  BY <1>1, <1>2, TakenHead
<1>4. R \in Seq(Item) /\ queue' = R
  BY <1>2, <1>3 DEF Derived
<1>5. QueuedOnce' /\ \A s \in Ticks : Queued(s)' <=> Queued(s) /\ s # t
  BY <1>3, <1>4, TickGone
<1>6. UNCHANGED <<dropped, since, phase, missed, pend, consumed, update, cut>>
  BY DEF anchors
<1>7. /\ front' = at /\ timers' = timers \ FiredBy(at) /\ status' = TimeHalf(at)
      /\ pos' = Semantic(pos, at, {<<t[1], at>>})
      /\ fired' = [fired EXCEPT ![t] = @ + 1]
      /\ slipped' = IF at = t[2] THEN slipped ELSE slipped \cup {<<t, at>>}
      /\ UNCHANGED <<launched, deferred, after>>
  BY DEF AdmitTick
<1>8. /\ t[1] \in Jobs /\ t[2] \in Nat /\ t = <<t[1], t[2]>>
      /\ \A s \in Ticks : s[1] \in Jobs /\ s[2] \in Nat /\ s = <<s[1], s[2]>>
                          /\ fired[s] \in Nat /\ dropped[s] \in Nat
  BY TickTypes
<1>9. PICK T \in SUBSET (Jobs \X Nat) : T = {<<t[1], at>>}
  <2>1. <<t[1], at>> \in Jobs \X Nat
    BY <1>8
  <2> QED BY <2>1
<1>10. pos \in PosType /\ pos.frontier <= pos.last
  BY DEF TypeOK, PosType, FrontOK
<1>11. /\ pos' \in PosType /\ pos'.last >= at /\ pos'.frontier <= pos'.last
       /\ \/ at > pos.frontier /\ pos'.frontier = at /\ pos'.ticks = T
          \/ at = pos.frontier /\ pos'.frontier = at /\ pos'.ticks = pos.ticks \cup T
          \/ at < pos.frontier /\ pos'.frontier = pos.frontier /\ pos'.ticks = pos.ticks
  <2>1. pos' = Semantic(pos, at, T)
    BY <1>7, <1>9
  <2> QED BY <1>10, <2>1, PosFacts
<1>12. Queued(t)
  BY <1>3 DEF Queued
<1>13. \A s \in Ticks : s # t => (Acted(s)' <=> Acted(s)) /\ fired'[s] = fired[s]
  <2>1. \A s \in Ticks : s # t => fired'[s] = fired[s]
    BY <1>7 DEF TypeOK
  <2> QED BY <1>6, <2>1 DEF Acted
<1>14. fired'[t] = fired[t] + 1 /\ Acted(t)'
  <2>1. fired'[t] = fired[t] + 1
    BY <1>7 DEF TypeOK
  <2> QED BY <1>6, <1>8, <2>1 DEF Acted
<1>15. slipped \subseteq slipped'
  BY <1>7
<1>16. \A s : (Fresh(s)' => Fresh(s)) /\ (TakenOver(s) => TakenOver(s)')
  BY <1>15 DEF Fresh, TakenOver
<1>17. Fresh(t)' => at = t[2]
  <2> SUFFICES ASSUME at # t[2]  PROVE ~Fresh(t)'
    OBVIOUS
  <2>1. PICK x : x = <<t, at>>
    OBVIOUS
  <2>2. x \in slipped' /\ x[1] = t
    BY <1>7, <2>1
  <2> QED BY <2>2 DEF Fresh
<1>18. at # t[2] => TakenOver(<<t[1], at>>)'
  <2> SUFFICES ASSUME at # t[2]  PROVE TakenOver(<<t[1], at>>)'
    OBVIOUS
  <2>1. <<t, at>> \in slipped'
    BY <1>7
  <2>2. <<t, at>>[1][1] = t[1] /\ <<t, at>>[2] = at
    OBVIOUS
  <2>3. PICK x : x = <<t[1], at>>
    OBVIOUS
  <2>4. TakenOver(x)'
    BY <2>1, <2>2, <2>3 DEF TakenOver
  <2> QED BY <2>3, <2>4
<1>19. OnceOK'
  <2> SUFFICES ASSUME NEW s \in Ticks
               PROVE  /\ s[2] \in pend'[s[1]] => s \notin missed' /\ ~Queued(s)' /\ (Fresh(s)' => ~Acted(s)')
                      /\ Queued(s)' => s \notin missed' /\ (Fresh(s)' => ~Acted(s)')
                      /\ s \in missed' => (Fresh(s)' => ~Acted(s)')
                      /\ Fresh(s)' => fired'[s] + dropped'[s] <= 1
    BY DEF OnceOK
  <2>1. CASE s = t
    <3>1. t[2] \notin pend[t[1]] /\ t \notin missed /\ (Fresh(t) => ~Acted(t))
      BY <1>12 DEF OnceOK
    <3>2. ~Queued(t)'
      BY <1>5
    <3>3. Fresh(t)' => fired'[t] + dropped'[t] <= 1
      BY <1>6, <1>8, <1>14, <1>16, <3>1 DEF Acted
    <3> QED BY <1>6, <2>1, <3>1, <3>2, <3>3
  <2>2. CASE s # t
    BY <1>5, <1>6, <1>13, <1>16, <2>2 DEF OnceOK
  <2> QED BY <2>1, <2>2
<1>20. PendOK'
  <2>1. pend' = pend /\ consumed' = consumed
    BY <1>6
  <2> QED BY <2>1, PendKept
<1>21. OldOK'
  <2> SUFFICES ASSUME update # "applied"
               PROVE  /\ \A j \in Jobs : pend'[j] \subseteq OldTicks[j] /\ cut'[j] = Never
                      /\ \A s \in Ticks :
                           /\ s \in missed' \/ Queued(s)' =>
                                s[2] \in OldTicks[s[1]] /\ s[2] <= consumed'[s[1]]
                           /\ Acted(s)' =>
                                /\ s[2] \in OldTicks[s[1]]
                                /\ Up' /\ Fresh(s)' => s[2] <= consumed'[s[1]] \/ s[2] < since'
    BY <1>6 DEF OldOK
  <2>1. \A s \in Ticks : s \in missed' \/ Queued(s)' =>
          s[2] \in OldTicks[s[1]] /\ s[2] <= consumed'[s[1]]
    BY <1>5, <1>6 DEF OldOK
  <2>2. t[2] \in OldTicks[t[1]] /\ t[2] <= consumed[t[1]]
    BY <1>12 DEF OldOK
  <2>3. Up' <=> Up
    BY <1>6 DEF Up
  <2>4. ASSUME NEW s \in Ticks, Acted(s)'
        PROVE  /\ s[2] \in OldTicks[s[1]]
               /\ Up' /\ Fresh(s)' => s[2] <= consumed'[s[1]] \/ s[2] < since'
    <3>1. CASE s = t
      BY <1>6, <2>2, <3>1
    <3>2. CASE s # t
      BY <1>6, <1>13, <1>16, <2>3, <2>4, <3>2 DEF OldOK
    <3> QED BY <3>1, <3>2
  <2>5. \A j \in Jobs : pend'[j] \subseteq OldTicks[j] /\ cut'[j] = Never
    BY <1>6 DEF OldOK
  <2> QED BY <2>1, <2>4, <2>5
<1>22. RecordsOK'
  <2>1. ASSUME NEW s \in pos'.ticks \cap Ticks  PROVE Acted(s)' \/ TakenOver(s)'
    <3>1. CASE s \in pos.ticks
      <4>1. Acted(s) \/ TakenOver(s)
        BY <3>1 DEF RecordsOK
      <4>2. Acted(s) => Acted(s)'
        BY <1>13, <1>14
      <4> QED BY <1>16, <4>1, <4>2
    <3>2. CASE s \notin pos.ticks
      <4>1. s = <<t[1], at>>
        BY <1>9, <1>11, <3>2
      <4> QED BY <1>8, <1>14, <1>18, <4>1
    <3> QED BY <3>1, <3>2
  <2>2. pos.frontier \in Nat
    BY <1>10 DEF PosType
  <2>3. ASSUME NEW s \in Ticks, Acted(s)', Fresh(s)'
        PROVE  s[2] < pos'.frontier \/ (s[2] = pos'.frontier /\ s \in pos'.ticks)
    <3>1. CASE s = t
      <4>1. at = t[2] /\ T = {t}
        BY <1>8, <1>9, <1>17, <2>3, <3>1
      <4> QED BY <1>11, <2>2, <3>1, <4>1
    <3>2. CASE s # t
      <4>1. s[2] < pos.frontier \/ (s[2] = pos.frontier /\ s \in pos.ticks)
        BY <1>13, <1>16, <2>3, <3>2 DEF RecordsOK
      <4>2. s[2] \in Nat
        BY <1>8
      <4> QED BY <1>11, <2>2, <4>1, <4>2
    <3> QED BY <3>1, <3>2
  <2> QED BY <2>1, <2>3 DEF RecordsOK
<1>23. AccountedOK'
  <2> SUFFICES ASSUME NEW s \in Ticks, Planned(s)', s[2] >= since'
               PROVE  Accounted(s)'
    BY DEF AccountedOK
  <2>1. Planned(s) /\ s[2] >= since /\ Up
    BY <1>3, <1>6 DEF Planned, Up
  <2>2. Accounted(s)
    BY <2>1 DEF AccountedOK
  <2>3. Acted(s) \/ (s[2] \in pend[s[1]] \/ s \in missed \/ Queued(s)) \/ TakenOver(s)
    BY <2>2 DEF Accounted, Coming, Acted, TakenOver, Queued, QueuedAt
  <2>4. Acted(s)' \/ (s[2] \in pend'[s[1]] \/ s \in missed' \/ Queued(s)') \/ TakenOver(s)'
    BY <1>5, <1>6, <1>13, <1>14, <1>16, <2>3
  <2> QED BY <2>4 DEF Accounted, Coming, Acted, TakenOver, Queued, QueuedAt
<1>24. FrontOK'
  <2>1. since \in Nat /\ front \in Nat
    BY DEF TypeOK
  <2>2. Up /\ since <= front
    BY <1>3 DEF FrontOK, Up
  <2>3. pos'.last >= front' /\ pos'.frontier <= pos'.last /\ pos'.last \in Nat
    BY <1>7, <1>11 DEF PosType
  <2> QED BY <1>6, <1>7, <2>1, <2>2, <2>3 DEF FrontOK
<1>25. ItemsOK' /\ ExitOnce'
  <2>1. \A k \in DOMAIN queue : ItemOK(queue[k])
    BY DEF ItemsOK
  <2>2. \A k \in DOMAIN queue \ {h} :
           /\ queue[k].kind = "update_exit" => update' = "open"
           /\ queue[k].kind = "catch_up" => phase' = "recovering"
           /\ queue[k].kind = "command" => phase' = "running"
    BY <1>6, <2>1 DEF ItemOK
  <2>3. PICK A \in Seq(Item) : A = <<>> /\ queue' = R \o A /\ DOMAIN A = {}
    BY <1>4, NothingAppended
  <2> QED BY <1>3, <1>7, <2>2, <2>3, ItemsStay
<1>26. DownOK'
  BY <1>3, <1>6 DEF DownOK
<1>27. TypeOK'
  <2>1. queue' \in Seq(Item)
    BY <1>4
  <2>2. UNCHANGED <<wall, backs, ended, outage>>
    BY DEF world
  <2>3. lastWall' \in Nat /\ front' \in Nat
    BY <1>3, <1>7, Numbers
  <2>4. fired' \in [Ticks -> Nat]
    BY <1>7, <1>8 DEF TypeOK
  <2>5. slipped' \in SUBSET (Ticks \X Nat)
    BY <1>7 DEF TypeOK
  <2>6. status' \in [Runs -> {"new", "live", "done", "killed"}] /\ timers' \in SUBSET [due : Nat, run : Runs]
    BY <1>7, HalfFacts DEF TypeOK
  <2>7. pos' \in [last : Nat, frontier : Nat, ticks : SUBSET (Jobs \X Nat)]
    BY <1>11 DEF PosType
  <2> QED BY <1>6, <1>7, <2>1, <2>2, <2>3, <2>4, <2>5, <2>6, <2>7 DEF TypeOK
<1> QED BY <1>5, <1>19, <1>20, <1>21, <1>22, <1>23, <1>24, <1>25, <1>26, <1>27

LEMMA TakeInputInv == ASSUME TickInv, TakeInput  PROVE TickInv'
<1>1. TypeOK /\ ItemsOK
  BY DEF TickInv
<1>2. PICK h : h = HeadOf(Noted)
  OBVIOUS
<1>3. PICK p : p = Noted[h]
  OBVIOUS
<1>4. Passes("event") /\ queue' = Rest(Noted)
      /\ UNCHANGED <<world, pend, consumed, phase, missed, update, dropped, anchors>>
  BY DEF TakeInput
<1>5. /\ h \in DOMAIN queue /\ p \in Item /\ Rebased(p, queue[h]) /\ ItemOK(queue[h])
      /\ p.at \in Nat
  BY <1>1, <1>2, <1>3, <1>4, TakenHead
<1>6. p.kind = queue[h].kind /\ p.what = queue[h].what
  BY <1>5 DEF Rebased
<1>7. PICK at : at = StampOf(p.at)
  OBVIOUS
<1>8. at \in Nat /\ at >= front
  BY <1>1, <1>5, <1>7, StampFacts
<1>9. \/ p.kind = "command" /\ Command(p.what, at)
      \/ p.kind = "completion" /\ Completion(p.what, at)
      \/ p.kind = "tick" /\ AdmitTick(p.what, at)
  BY <1>2, <1>3, <1>7 DEF TakeInput
<1>10. CASE p.kind = "tick" /\ AdmitTick(p.what, at)
  <2>1. PICK t : t = p.what
    OBVIOUS
  <2>2. t \in Ticks /\ QueuedAt(h, t)
    BY <1>5, <1>6, <1>10, <2>1 DEF ItemOK, QueuedAt
  <2> QED BY <1>2, <1>4, <1>8, <1>10, <2>1, <2>2, TakeTickInv
<1>11. CASE p.kind = "command" /\ Command(p.what, at)
  <2>1. p.what \in Runs /\ queue[h].kind # "tick"
    BY <1>5, <1>6, <1>11 DEF ItemOK
  <2>2. PICK over \in SUBSET Runs, runs \in SUBSET Runs : Admit(over, runs, at)
    BY <1>11, <2>1 DEF Command
  <2> QED BY <1>2, <1>4, <1>8, <2>1, <2>2, TakeRunInv
<1>12. CASE p.kind = "completion" /\ Completion(p.what, at)
  <2>1. p.what \in Runs /\ queue[h].kind # "tick"
    BY <1>5, <1>6, <1>12 DEF ItemOK
  <2>2. \A r \in Follows[p.what] : r \in Runs
    BY <2>1, ClockAssumption
  <2>3. PICK over \in SUBSET Runs, runs \in SUBSET Runs : Admit(over, runs, at)
    BY <1>12, <2>1, <2>2 DEF Completion
  <2> QED BY <1>2, <1>4, <1>8, <2>1, <2>3, TakeRunInv
<1> QED BY <1>9, <1>10, <1>11, <1>12

\* What passes for the ticks of a step whose queue derives from the last one's and
\* which leaves the ticks where they are.
LEMMA OtherStep ==
  ASSUME TickInv, NEW R, NEW h \in Nat, Derived(R, h), NEW A \in Seq(Item), queue' = R \o A,
         h \in DOMAIN queue => queue[h].kind # "tick",
         lastWall' = wall, front' \in Nat, front' >= front,
         \A k \in DOMAIN queue \ {h} : queue[k].kind = "catch_up" => phase' = "recovering",
         phase' = phase \/ phase' = "running", phase # "down",
         update' = update,
         \A m \in DOMAIN A : ItemOK(A[m])' /\ A[m].kind # "tick",
         \A m \in DOMAIN A : A[m].kind = "update_exit" =>
           Len(A) = 1 /\ \A k \in DOMAIN queue : queue[k].kind # "update_exit",
         UNCHANGED <<pend, consumed, missed, fired, dropped, slipped, since, cut>>
  PROVE  /\ queue' \in Seq(Item) /\ ItemsOK' /\ ExitOnce' /\ DownOK' /\ PendOK' /\ OnceOK'
         /\ QueuedOnce' /\ OldOK' /\ AccountedOK'
<1> USE DEF TickInv
<1>1. QueuedOnce' /\ \A t \in Ticks : Queued(t)' <=> Queued(t)
  BY SameTicks
<1>2. phase' # "down" /\ phase' \in {"recovering", "running"}
  BY DEF TypeOK
<1>3. OnceOK' /\ PendOK' /\ OldOK' /\ AccountedOK'
  BY <1>1, <1>2, TicksKept
<1>4. \A k \in DOMAIN queue : ItemOK(queue[k])
  BY DEF ItemsOK
<1>5. \A k \in DOMAIN queue \ {h} :
        /\ queue[k].kind = "update_exit" => update' = "open"
        /\ queue[k].kind = "catch_up" => phase' = "recovering"
        /\ queue[k].kind = "command" => phase' = "running"
  BY <1>4 DEF ItemOK
<1>6. ItemsOK' /\ ExitOnce'
  BY <1>5, ItemsStay
<1>7. R \in Seq(Item)
  BY DEF Derived
<1>8. queue' \in Seq(Item)
  BY <1>7, NextQueue
<1>9. DownOK'
  BY <1>2 DEF DownOK
<1> QED BY <1>1, <1>3, <1>6, <1>8, <1>9

LEMMA TakeTimerInv == ASSUME TickInv, TakeTimer  PROVE TickInv'
<1> USE DEF TickInv
<1>1. /\ Passes("timer") /\ queue' = Noted
      /\ UNCHANGED <<world, pend, consumed, phase, missed, update, dropped, anchors>>
  BY DEF TakeTimer
<1>2. PICK at : at = StampOf(Work.at)
  OBVIOUS
<1>3. Work.at \in Nat
  <2>1. PICK w : w = Work
    OBVIOUS
  <2>2. w = NextWork(Noted) /\ w.act = "timer"
    BY <1>1, <2>1 DEF Work, Passes
  <2>3. w.at \in Nat
    BY <2>2, NotedAt, WorkFacts
  <2> QED BY <2>1, <2>3
<1>4. at \in Nat /\ at >= front
  BY <1>2, <1>3, StampFacts
<1>5. Observe(at)
  BY <1>2 DEF TakeTimer
<1>6. /\ UNCHANGED <<dropped, since, phase>>
      /\ UNCHANGED <<pend, consumed, missed, fired, dropped, slipped, since, cut>>
      /\ UNCHANGED <<wall, backs, ended, outage, update>>
      /\ phase # "down" /\ lastWall' = wall
  BY <1>1, <1>5 DEF anchors, world, Observe, Passes, Up
<1>7. AdmissionType' /\ FrontOK' /\ RecordsOK' /\ front' = at
  BY <1>4, <1>5, <1>6, Observed
<1>8. PICK R : R = Noted
  OBVIOUS
<1>9. Derived(R, 0)
  BY <1>8, NotedDerived
<1>10. PICK A \in Seq(Item) : A = <<>> /\ queue' = R \o A /\ DOMAIN A = {}
  <2>1. R \in Seq(Item)
    BY <1>9 DEF Derived
  <2> QED BY <1>1, <1>8, <2>1, NothingAppended
<1>11. \A k \in DOMAIN queue : queue[k].kind = "catch_up" => phase' = "recovering"
  BY <1>6 DEF ItemsOK, ItemOK
<1>12. 0 \notin DOMAIN queue
  BY QueueItems
<1>13. /\ queue' \in Seq(Item) /\ ItemsOK' /\ ExitOnce' /\ DownOK' /\ PendOK' /\ OnceOK'
       /\ QueuedOnce' /\ OldOK' /\ AccountedOK'
  BY <1>4, <1>6, <1>7, <1>9, <1>10, <1>11, <1>12, OtherStep
<1>14. TypeOK'
  BY <1>6, <1>7, <1>13, Numbers DEF TypeOK, AdmissionType, PosType
<1> QED BY <1>7, <1>13, <1>14

\* _push stamps what is raised before the frontier.
LEMMA StampedFacts ==
  ASSUME TypeOK, NEW p \in Item, p.at <= p.key
  PROVE  /\ Stamped(p) \in Item /\ Stamped(p).kind = p.kind /\ Stamped(p).what = p.what
         /\ Stamped(p).at <= Stamped(p).key
         /\ \/ Stamped(p) = p /\ ~(wall < front /\ p.at <= front)
            \/ wall < front /\ p.at <= front /\ Stamped(p).key = front
<1>1. front \in Nat
  BY Numbers
<1>2. CASE wall < front /\ p.at <= front
  <2>1. Stamped(p) = [p EXCEPT !.at = front, !.key = front]
    BY <1>2 DEF Stamped
  <2>2. /\ Stamped(p) \in Item /\ Stamped(p).kind = p.kind /\ Stamped(p).what = p.what
        /\ Stamped(p).at = front /\ Stamped(p).key = front
    BY <1>1, <2>1 DEF Item
  <2> QED BY <1>1, <1>2, <2>2
<1>3. CASE ~(wall < front /\ p.at <= front)
  <2>1. Stamped(p) = p
    BY <1>3 DEF Stamped
  <2> QED BY <1>3, <2>1
<1> QED BY <1>2, <1>3

Popped(due, at) ==
  LET ps == [i \in 1..Cardinality(due) |-> Pending("tick", <<SetToSeq(due)[i], at>>, at)]
  IN [i \in DOMAIN ps |-> Stamped(ps[i])]

LEMMA PopFacts ==
  ASSUME TickInv, NEW at \in Nat, NEW due \in SUBSET Jobs, \A j \in due : <<j, at>> \in Ticks,
         NEW A, A = Popped(due, at)
  PROVE  /\ A \in Seq(Item) /\ DOMAIN A = 1..Len(A) /\ Len(A) \in Nat
         /\ \A m \in DOMAIN A : /\ A[m].kind = "tick" /\ A[m].at <= A[m].key
                                /\ \E j \in due : A[m].what = <<j, at>>
                                /\ A[m].key = at \/ (A[m].key = front /\ wall < front)
         /\ \A m, n \in DOMAIN A : A[m].what = A[n].what => m = n
         /\ \A j \in due : \E m \in DOMAIN A : A[m].what = <<j, at>>
<1> DEFINE L == SetToSeq(due)
           n == Cardinality(due)
           P(i) == Pending("tick", <<L[i], at>>, at)
<1>1. IsFiniteSet(due)
  BY ClockAssumption, FS_Subset
<1>2. /\ n \in Nat /\ L \in [1..n -> due]
      /\ \A i, k \in 1..n : L[i] = L[k] => i = k
      /\ \A x \in due : \E i \in 1..n : L[i] = x
  BY <1>1, Listed
<1> HIDE DEF L, n
<1>3. ASSUME NEW i \in 1..n
      PROVE  /\ P(i) \in Item /\ P(i).at <= P(i).key /\ P(i).kind = "tick"
             /\ P(i).what = <<L[i], at>> /\ P(i).key = at /\ L[i] \in due
  <2>1. L[i] \in due
    BY <1>2
  <2>2. <<L[i], at>> \in Ticks
    BY <2>1
  <2>3. P(i) = [kind |-> "tick", what |-> <<L[i], at>>, at |-> at, key |-> at]
    BY DEF Pending
  <2> HIDE DEF P
  <2> QED BY <2>1, <2>2, <2>3 DEF Item, Kinds
<1>4. A = [i \in 1..n |-> Stamped(P(i))]
  BY DEF L, n, Popped
<1> HIDE DEF P
<1>5. ASSUME NEW i \in 1..n
      PROVE  /\ A[i] \in Item /\ A[i].kind = "tick" /\ A[i].what = <<L[i], at>>
             /\ A[i].at <= A[i].key /\ L[i] \in due
             /\ A[i].key = at \/ (A[i].key = front /\ wall < front)
  <2>1. A[i] = Stamped(P(i))
    BY <1>4
  <2>2. TypeOK
    BY DEF TickInv
  <2>3. PICK p : p = P(i)
    OBVIOUS
  <2>4. /\ Stamped(p) \in Item /\ Stamped(p).kind = p.kind /\ Stamped(p).what = p.what
        /\ Stamped(p).at <= Stamped(p).key
        /\ Stamped(p) = p \/ (wall < front /\ Stamped(p).key = front)
    BY <1>3, <2>2, <2>3, StampedFacts
  <2> QED BY <1>3, <2>1, <2>3, <2>4
<1>6. A \in Seq(Item) /\ Len(A) = n /\ DOMAIN A = 1..n
  <2>1. A \in [1..n -> Item]
    BY <1>4, <1>5
  <2> QED BY <1>2, <2>1
<1>7. \A m, k \in 1..n : A[m].what = A[k].what => m = k
  <2> SUFFICES ASSUME NEW m \in 1..n, NEW k \in 1..n, A[m].what = A[k].what  PROVE m = k
    OBVIOUS
  <2>1. <<L[m], at>> = <<L[k], at>>
    BY <1>5
  <2> QED BY <1>2, <2>1
<1>8. \A j \in due : \E m \in 1..n : A[m].what = <<j, at>>
  <2> TAKE j \in due
  <2>1. PICK m \in 1..n : L[m] = j
    BY <1>2
  <2>2. A[m].what = <<j, at>>
    BY <1>5, <2>1
  <2> QED BY <2>2
<1>9. \A m \in 1..n : /\ A[m].kind = "tick" /\ A[m].at <= A[m].key
                      /\ \E j \in due : A[m].what = <<j, at>>
                      /\ A[m].key = at \/ (A[m].key = front /\ wall < front)
  <2> TAKE m \in 1..n
  <2>1. L[m] \in due /\ A[m].what = <<L[m], at>>
    BY <1>5
  <2> QED BY <1>5, <2>1
<1> QED BY <1>2, <1>6, <1>7, <1>8, <1>9

LEMMA PopDueInv == ASSUME TickInv, PopDue  PROVE TickInv'
<1> USE DEF TickInv
<1>1. PICK at : at = Work.at
  OBVIOUS
<1>2. PICK due : due = {j \in Jobs : at \in pend[j]}
  OBVIOUS
<1>3. PICK A : A = Popped(due, at)
  OBVIOUS
<1>4. PICK R : R = Noted
  OBVIOUS
<1>5. /\ Passes("tick") /\ queue' = R \o A /\ lastWall' = wall
      /\ pend' = [j \in Jobs |-> pend[j] \ {at}]
      /\ consumed' = [j \in Jobs |-> IF j \in due THEN at ELSE consumed[j]]
      /\ UNCHANGED <<world, oracle, phase, missed, deferred, after, records, anchors>>
  BY <1>1, <1>2, <1>3, <1>4 DEF PopDue, Push, Popped
<1>6. at = SchedDue /\ SchedDue # Never
  <2>1. PICK w : w = Work
    OBVIOUS
  <2>2. w = NextWork(Noted) /\ w.act = "tick"
    BY <1>5, <2>1 DEF Work, Passes
  <2> QED BY <1>1, <2>1, <2>2, NotedAt, WorkFacts
<1>7. at \in Nat /\ \A j \in Jobs : \A x \in pend[j] : at <= x
  BY <1>6, DueFacts
<1>8. due \in SUBSET Jobs /\ \A j \in due : <<j, at>> \in Ticks
  BY <1>2 DEF PendOK
<1>9. /\ A \in Seq(Item) /\ DOMAIN A = 1..Len(A) /\ Len(A) \in Nat
      /\ \A m \in DOMAIN A : /\ A[m].kind = "tick" /\ A[m].at <= A[m].key
                             /\ \E j \in due : A[m].what = <<j, at>>
      /\ \A m, n \in DOMAIN A : A[m].what = A[n].what => m = n
      /\ \A j \in due : \E m \in DOMAIN A : A[m].what = <<j, at>>
  BY <1>3, <1>7, <1>8, PopFacts
<1>10. /\ UNCHANGED <<phase, missed, update, fired, dropped, slipped, since, cut, front, pos>>
       /\ UNCHANGED <<wall, backs, ended, outage, timers, status, launched, deferred, after>>
  BY <1>5 DEF world, oracle, records, anchors
<1>11. R \in Seq(Item) /\ DOMAIN R = DOMAIN queue
       /\ \A i \in DOMAIN queue : R[i].kind = queue[i].kind /\ R[i].what = queue[i].what
  BY <1>4, NotedAt DEF Rebased
<1>12. /\ queue' \in Seq(Item) /\ Len(R) \in Nat
       /\ \A i \in DOMAIN R : i \in DOMAIN queue' /\ queue'[i] = R[i]
       /\ \A m \in DOMAIN A : Len(R) + m \in DOMAIN queue' /\ queue'[Len(R) + m] = A[m]
       /\ \A i \in DOMAIN queue' :
            \/ i \in DOMAIN R /\ queue'[i] = R[i]
            \/ i - Len(R) \in DOMAIN A /\ queue'[i] = A[i - Len(R)]
       /\ DOMAIN queue' = 1..(Len(R) + Len(A))
  BY <1>5, <1>9, <1>11, NextQueue
<1>13. \A j \in due : ~Queued(<<j, at>>)
  <2> TAKE j \in due
  <2>1. PICK t \in Ticks : t = <<j, at>>
    BY <1>8
  <2>2. t[2] \in pend[t[1]]
    BY <1>2, <2>1
  <2>3. ~Queued(t)
    BY <2>2 DEF OnceOK
  <2> QED BY <2>1, <2>3
<1>14. ASSUME NEW t \in Ticks
       PROVE  Queued(t)' <=> Queued(t) \/ (t[1] \in due /\ t[2] = at)
  <2>0. t = <<t[1], t[2]>>
    BY TickTypes
  <2>1. ASSUME Queued(t)'  PROVE Queued(t) \/ (t[1] \in due /\ t[2] = at)
    <3>1. PICK i \in DOMAIN queue' : queue'[i].kind = "tick" /\ queue'[i].what = t
      BY <2>1 DEF Queued, QueuedAt
    <3>2. CASE i \in DOMAIN R /\ queue'[i] = R[i]
      BY <1>11, <3>1, <3>2 DEF Queued, QueuedAt
    <3>3. CASE i - Len(R) \in DOMAIN A /\ queue'[i] = A[i - Len(R)]
      BY <1>9, <3>1, <3>3
    <3> QED BY <1>12, <3>2, <3>3
  <2>2. ASSUME Queued(t)  PROVE Queued(t)'
    <3>1. PICK k \in DOMAIN queue : queue[k].kind = "tick" /\ queue[k].what = t
      BY <2>2 DEF Queued, QueuedAt
    <3>2. k \in DOMAIN queue' /\ queue'[k].kind = "tick" /\ queue'[k].what = t
      BY <1>11, <1>12, <3>1
    <3> QED BY <3>2 DEF Queued, QueuedAt
  <2>3. ASSUME t[1] \in due, t[2] = at  PROVE Queued(t)'
    <3>1. PICK m \in DOMAIN A : A[m].what = <<t[1], at>>
      BY <1>9, <2>3
    <3>2. A[m].kind = "tick" /\ A[m].what = t
      BY <1>9, <2>0, <2>3, <3>1
    <3>3. Len(R) + m \in DOMAIN queue' /\ queue'[Len(R) + m] = A[m]
      BY <1>12
    <3> QED BY <3>2, <3>3 DEF Queued, QueuedAt
  <2> QED BY <2>1, <2>2, <2>3
<1>15. QueuedOnce'
  <2> SUFFICES ASSUME NEW i \in DOMAIN queue', NEW k \in DOMAIN queue',
                      queue'[i].kind = "tick", queue'[k].kind = "tick",
                      queue'[i].what = queue'[k].what
               PROVE  i = k
    BY DEF QueuedOnce
  <2>1. i \in Nat /\ k \in Nat
    BY <1>12
  <2>2. CASE i \in DOMAIN R /\ queue'[i] = R[i] /\ k \in DOMAIN R /\ queue'[k] = R[k]
    <3>1. queue[i].kind = "tick" /\ queue[k].kind = "tick" /\ queue[i].what = queue[k].what
      BY <1>11, <2>2
    <3> QED BY <1>11, <2>2, <3>1 DEF QueuedOnce
  <2>3. ASSUME NEW x \in DOMAIN R, NEW y \in DOMAIN A, R[x].kind = "tick", R[x].what = A[y].what
        PROVE  FALSE
    <3>1. PICK j \in due : A[y].what = <<j, at>>
      BY <1>9
    <3>2. Queued(<<j, at>>)
      BY <1>11, <2>3, <3>1 DEF Queued, QueuedAt
    <3> QED BY <1>13, <3>2
  <2>4. CASE i - Len(R) \in DOMAIN A /\ queue'[i] = A[i - Len(R)]
             /\ k - Len(R) \in DOMAIN A /\ queue'[k] = A[k - Len(R)]
    <3>1. i - Len(R) = k - Len(R)
      BY <1>9, <2>4
    <3> QED BY <1>12, <2>1, <3>1
  <2> QED BY <1>12, <2>2, <2>3, <2>4
<1>16. \A t : (Acted(t)' <=> Acted(t)) /\ (Fresh(t)' <=> Fresh(t)) /\ (TakenOver(t)' <=> TakenOver(t))
  BY <1>10 DEF Acted, Fresh, TakenOver
<1>17. \A t \in Ticks : t[1] \in Jobs /\ t[2] \in Nat /\ t = <<t[1], t[2]>>
  BY TickTypes
<1>18. \A j \in Jobs : /\ pend'[j] = pend[j] \ {at}
                       /\ consumed'[j] = IF j \in due THEN at ELSE consumed[j]
                       /\ j \in due <=> at \in pend[j]
                       /\ consumed[j] \in Nat /\ pend[j] \subseteq Nat
  BY <1>2, <1>5, Numbers DEF TypeOK
<1>19. OnceOK'
  <2> SUFFICES ASSUME NEW t \in Ticks
               PROVE  /\ t[2] \in pend'[t[1]] => t \notin missed' /\ ~Queued(t)' /\ (Fresh(t)' => ~Acted(t)')
                      /\ Queued(t)' => t \notin missed' /\ (Fresh(t)' => ~Acted(t)')
                      /\ t \in missed' => (Fresh(t)' => ~Acted(t)')
                      /\ Fresh(t)' => fired'[t] + dropped'[t] <= 1
    BY DEF OnceOK
  <2>1. /\ t[2] \in pend[t[1]] => t \notin missed /\ ~Queued(t) /\ (Fresh(t) => ~Acted(t))
        /\ Queued(t) => t \notin missed /\ (Fresh(t) => ~Acted(t))
        /\ t \in missed => (Fresh(t) => ~Acted(t))
        /\ Fresh(t) => fired[t] + dropped[t] <= 1
    BY DEF OnceOK
  <2> QED BY <1>10, <1>14, <1>16, <1>17, <1>18, <2>1
<1>20. PendOK'
  <2> SUFFICES ASSUME NEW j \in Jobs, NEW x \in pend'[j]
               PROVE  <<j, x>> \in Ticks /\ (x > consumed'[j] \/ (x = 0 /\ consumed'[j] = 0))
    BY DEF PendOK
  <2>1. x \in pend[j] /\ x # at /\ x >= at /\ x \in Nat
    BY <1>7, <1>18
  <2>2. <<j, x>> \in Ticks /\ (x > consumed[j] \/ (x = 0 /\ consumed[j] = 0))
    BY <2>1 DEF PendOK
  <2> QED BY <1>7, <1>18, <2>1, <2>2
<1>21. \A j \in Jobs : consumed[j] <= consumed'[j] /\ consumed'[j] \in Nat
  <2> TAKE j \in Jobs
  <2>1. j \in due => at > consumed[j] \/ (at = 0 /\ consumed[j] = 0)
    BY <1>18 DEF PendOK
  <2> QED BY <1>7, <1>18, <2>1
<1>22. OldOK'
  <2> SUFFICES ASSUME update # "applied"
               PROVE  /\ \A j \in Jobs : pend'[j] \subseteq OldTicks[j] /\ cut'[j] = Never
                      /\ \A t \in Ticks :
                           /\ t \in missed' \/ Queued(t)' =>
                                t[2] \in OldTicks[t[1]] /\ t[2] <= consumed'[t[1]]
                           /\ Acted(t)' =>
                                /\ t[2] \in OldTicks[t[1]]
                                /\ Up' /\ Fresh(t)' => t[2] <= consumed'[t[1]] \/ t[2] < since'
    BY <1>10 DEF OldOK
  <2>1. \A j \in Jobs : pend[j] \subseteq OldTicks[j] /\ cut[j] = Never
    BY DEF OldOK
  <2>2. Up' <=> Up
    BY <1>10 DEF Up
  <2>3. ASSUME NEW t \in Ticks
        PROVE  /\ t \in missed' \/ Queued(t)' => t[2] \in OldTicks[t[1]] /\ t[2] <= consumed'[t[1]]
               /\ Acted(t)' =>
                    /\ t[2] \in OldTicks[t[1]]
                    /\ Up' /\ Fresh(t)' => t[2] <= consumed'[t[1]] \/ t[2] < since'
    <3>1. /\ t \in missed \/ Queued(t) => t[2] \in OldTicks[t[1]] /\ t[2] <= consumed[t[1]]
          /\ Acted(t) => /\ t[2] \in OldTicks[t[1]]
                         /\ Up /\ Fresh(t) => t[2] <= consumed[t[1]] \/ t[2] < since
      BY DEF OldOK
    <3>2. t[1] \in Jobs /\ t[2] \in Nat
      BY <1>17
    <3>3. t[1] \in due /\ t[2] = at => t[2] \in OldTicks[t[1]] /\ t[2] <= consumed'[t[1]]
      BY <1>7, <1>18, <2>1, <3>2
    <3>4. consumed[t[1]] <= consumed'[t[1]] /\ consumed[t[1]] \in Nat /\ consumed'[t[1]] \in Nat
      BY <1>18, <1>21, <3>2
    <3>5. t[2] <= consumed[t[1]] => t[2] <= consumed'[t[1]]
      BY <3>2, <3>4
    <3> QED BY <1>10, <1>14, <1>16, <2>2, <3>1, <3>3, <3>5
  <2> QED BY <1>10, <1>18, <2>1, <2>3
<1>23. RecordsOK'
  BY <1>10, <1>16 DEF RecordsOK
<1>24. AccountedOK'
  <2> SUFFICES ASSUME NEW t \in Ticks, Up', Planned(t)', t[2] >= since'
               PROVE  Accounted(t)'
    BY DEF AccountedOK
  <2>1. Planned(t) /\ t[2] >= since /\ Up
    BY <1>10 DEF Planned, Up
  <2>2. Accounted(t)
    BY <2>1 DEF AccountedOK
  <2>3. Acted(t) \/ (t[2] \in pend[t[1]] \/ t \in missed \/ Queued(t)) \/ TakenOver(t)
    BY <2>2 DEF Accounted, Coming, Acted, TakenOver, Queued, QueuedAt
  <2>4. t[2] \in pend[t[1]] => t[2] \in pend'[t[1]] \/ Queued(t)'
    BY <1>14, <1>17, <1>18
  <2>5. Acted(t)' \/ (t[2] \in pend'[t[1]] \/ t \in missed' \/ Queued(t)') \/ TakenOver(t)'
    BY <1>10, <1>14, <1>16, <2>3, <2>4
  <2> QED BY <2>5 DEF Accounted, Coming, Acted, TakenOver, Queued, QueuedAt
<1>25. ItemsOK' /\ ExitOnce'
  <2>1. \A k \in DOMAIN queue : ItemOK(queue[k])
    BY DEF ItemsOK
  <2>2. Derived(R, 0)
    BY <1>4, NotedDerived
  <2>3. \A k \in DOMAIN queue \ {0} :
           /\ queue[k].kind = "update_exit" => update' = "open"
           /\ queue[k].kind = "catch_up" => phase' = "recovering"
           /\ queue[k].kind = "command" => phase' = "running"
    BY <1>10, <2>1 DEF ItemOK
  <2>4. \A m \in DOMAIN A : A[m].kind = "tick" /\ A[m].what \in Ticks /\ A[m].at <= A[m].key
    <3> TAKE m \in DOMAIN A
    <3>1. PICK j \in due : A[m].what = <<j, at>>
      BY <1>9
    <3>2. <<j, at>> \in Ticks
      BY <1>8
    <3> QED BY <1>9, <3>1, <3>2
  <2>5. \A m \in DOMAIN A : ItemOK(A[m])'
    BY <2>4 DEF ItemOK
  <2>6. front' \in Nat /\ front' >= front
    BY <1>10, Numbers
  <2>7. \A m \in DOMAIN A : A[m].kind # "update_exit"
    BY <2>4
  <2> QED BY <1>5, <1>9, <2>2, <2>3, <2>5, <2>6, <2>7, ItemsStay
<1>26. DownOK'
  BY <1>5, <1>10 DEF DownOK, Passes, Up
<1>27. FrontOK'
  BY <1>10 DEF FrontOK, Up
<1>28. TypeOK'
  <2>1. pend' \in [Jobs -> SUBSET Instants]
    BY <1>5 DEF TypeOK
  <2>2. consumed' \in [Jobs -> Nat]
    BY <1>5, <1>21
  <2>3. lastWall' \in Nat
    BY <1>5, Numbers
  <2> QED BY <1>10, <1>12, <2>1, <2>2, <2>3 DEF TypeOK
<1> QED BY <1>15, <1>19, <1>20, <1>22, <1>23, <1>24, <1>25, <1>26, <1>27, <1>28

-----------------------------------------------------------------------------
(* What comes from outside, and the catch-up.                               *)

LEMMA PushOne ==
  ASSUME TypeOK, ItemsOK, NEW x \in Item, x.at <= x.key, Push(<<x>>)
  PROVE  \E A \in Seq(Item) : /\ A = <<Stamped(x)>> /\ DOMAIN A = {1} /\ Len(A) = 1
                              /\ A[1] = Stamped(x) /\ A[1] \in Item
                              /\ queue' = Noted \o A /\ lastWall' = wall
<1>1. PICK ps : ps = <<x>>
  OBVIOUS
<1>2. DOMAIN ps = 1..1 /\ ps[1] = x
  BY <1>1
<1>3. PICK A : A = [i \in DOMAIN ps |-> Stamped(ps[i])]
  OBVIOUS
<1>4. queue' = Noted \o A /\ lastWall' = wall
  BY <1>1, <1>3 DEF Push
<1>5. Stamped(x) \in Item
  BY StampedFacts
<1>6. A = [i \in 1..1 |-> Stamped(ps[i])]
  BY <1>2, <1>3
<1>7. PICK y \in Item : y = Stamped(x)
  BY <1>5
<1>8. A = <<y>>
  BY <1>2, <1>6, <1>7
<1>9. A \in Seq(Item) /\ DOMAIN A = {1} /\ Len(A) = 1 /\ A[1] = y
  BY <1>8
<1> QED BY <1>4, <1>7, <1>8, <1>9

LEMMA PendingItem ==
  ASSUME NEW kind \in Kinds, NEW what \in Runs \cup Ticks \cup {<<>>}, NEW at \in Nat,
         NEW x, x = Pending(kind, what, at)
  PROVE  x \in Item /\ x.kind = kind /\ x.what = what /\ x.at = at /\ x.key = at
BY DEF Pending, Item

LEMMA EndStampFacts ==
  ASSUME TypeOK, NEW r \in Runs
  PROVE  /\ EndStamp(r) \in Nat
         /\ phase = "recovering" => EndStamp(r) = Later(ended[r], front)
         /\ phase # "recovering" => EndStamp(r) = NowOf(wall)
<1>1. ended[r] \in Nat
  BY Numbers DEF TypeOK
<1> QED BY <1>1, Numbers, LaterOf DEF EndStamp

\* The ends a catch-up queues.
Caught ==
  LET over == SetToSeq(ToObserve)
      ps   == [i \in DOMAIN over |-> Pending("completion", over[i], EndStamp(over[i]))]
  IN [i \in DOMAIN ps |-> Stamped(ps[i])]

LEMMA CaughtFacts ==
  ASSUME TypeOK, NEW A, A = Caught
  PROVE  /\ A \in Seq(Item) /\ DOMAIN A = 1..Len(A) /\ Len(A) \in Nat
         /\ \A m \in DOMAIN A : /\ A[m].kind = "completion" /\ A[m].at <= A[m].key
                                /\ A[m].what \in ToObserve /\ A[m].what \in Runs
                                /\ \/ A[m].key = EndStamp(A[m].what)
                                   \/ A[m].key = front /\ wall < front
         /\ \A r \in ToObserve : \E m \in DOMAIN A : A[m].what = r
<1> DEFINE L == SetToSeq(ToObserve)
           n == Cardinality(ToObserve)
           P(i) == Pending("completion", L[i], EndStamp(L[i]))
<1>0. ToObserve \in SUBSET Runs
  BY DEF ToObserve, TypeOK
<1>1. IsFiniteSet(ToObserve)
  BY <1>0, ClockAssumption, FS_Subset
<1>2. /\ n \in Nat /\ L \in [1..n -> ToObserve]
      /\ \A x \in ToObserve : \E i \in 1..n : L[i] = x
  BY <1>1, Listed
<1> HIDE DEF L, n
<1>3. ASSUME NEW i \in 1..n
      PROVE  /\ P(i) \in Item /\ P(i).at <= P(i).key /\ P(i).kind = "completion"
             /\ P(i).what = L[i] /\ P(i).key = EndStamp(L[i]) /\ L[i] \in ToObserve /\ L[i] \in Runs
  <2>1. PICK r : r = L[i]
    OBVIOUS
  <2>2. r \in ToObserve /\ r \in Runs
    BY <1>0, <1>2, <2>1
  <2>3. PICK e : e = EndStamp(r)
    OBVIOUS
  <2>4. e \in Nat
    BY <2>2, <2>3, EndStampFacts
  <2>5. P(i) = Pending("completion", r, e)
    BY <2>1, <2>3
  <2> HIDE DEF P
  <2>6. PICK x : x = P(i)
    OBVIOUS
  <2>7. "completion" \in Kinds /\ r \in Runs \cup Ticks \cup {<<>>}
    BY <2>2 DEF Kinds
  <2>8. x \in Item /\ x.kind = "completion" /\ x.what = r /\ x.at = e /\ x.key = e
    BY <2>4, <2>5, <2>6, <2>7, PendingItem
  <2> QED BY <2>1, <2>2, <2>3, <2>4, <2>6, <2>8
<1>4. A = [i \in 1..n |-> Stamped(P(i))]
  <2>1. DOMAIN L = 1..n
    BY <1>2
  <2> QED BY <2>1 DEF L, Caught
<1> HIDE DEF P
<1>5. ASSUME NEW i \in 1..n
      PROVE  /\ A[i] \in Item /\ A[i].kind = "completion" /\ A[i].what = L[i]
             /\ A[i].at <= A[i].key /\ L[i] \in ToObserve /\ L[i] \in Runs
             /\ A[i].key = EndStamp(L[i]) \/ (A[i].key = front /\ wall < front)
  <2>1. A[i] = Stamped(P(i))
    BY <1>4
  <2>3. PICK p : p = P(i)
    OBVIOUS
  <2>4. /\ Stamped(p) \in Item /\ Stamped(p).kind = p.kind /\ Stamped(p).what = p.what
        /\ Stamped(p).at <= Stamped(p).key
        /\ Stamped(p) = p \/ (wall < front /\ Stamped(p).key = front)
    BY <1>3, <2>3, StampedFacts
  <2> QED BY <1>3, <2>1, <2>3, <2>4
<1>6. A \in Seq(Item) /\ Len(A) = n /\ DOMAIN A = 1..n
  <2>1. A \in [1..n -> Item]
    BY <1>4, <1>5
  <2> QED BY <1>2, <2>1
<1>7. \A r \in ToObserve : \E m \in 1..n : A[m].what = r
  <2> TAKE r \in ToObserve
  <2>1. PICK m \in 1..n : L[m] = r
    BY <1>2
  <2> QED BY <1>5, <2>1
<1>8. \A m \in 1..n : /\ A[m].kind = "completion" /\ A[m].at <= A[m].key
                      /\ A[m].what \in ToObserve /\ A[m].what \in Runs
                      /\ A[m].key = EndStamp(A[m].what) \/ (A[m].key = front /\ wall < front)
  BY <1>5
<1> QED BY <1>2, <1>6, <1>7, <1>8

LEMMA TakeCatchUpInv == ASSUME TickInv, TakeCatchUp  PROVE TickInv'
<1> USE DEF TickInv
<1>1. PICK h : h = HeadOf(Noted)
  OBVIOUS
<1>2. PICK p : p = Noted[h]
  OBVIOUS
<1>3. PICK R : R = Rest(Noted)
  OBVIOUS
<1>4. PICK A : A = Caught
  OBVIOUS
<1>5. /\ Passes("event") /\ p.kind = "catch_up" /\ queue' = R \o A
      /\ UNCHANGED <<world, oracle, pend, consumed, phase, missed, deferred, after, records, anchors>>
  BY <1>1, <1>2, <1>3, <1>4 DEF TakeCatchUp, Caught
<1>6. /\ h \in DOMAIN queue /\ h \in Nat /\ Rebased(p, queue[h]) /\ Derived(R, h)
      /\ phase # "down" /\ lastWall' = wall
  BY <1>1, <1>2, <1>3, <1>5, TakenHead
<1>7. queue[h].kind # "tick"
  BY <1>5, <1>6 DEF Rebased
<1>8. /\ A \in Seq(Item)
      /\ \A m \in DOMAIN A : A[m].kind = "completion" /\ A[m].at <= A[m].key /\ A[m].what \in Runs
  BY <1>4, CaughtFacts
<1>9. /\ UNCHANGED <<pend, consumed, missed, fired, dropped, slipped, since, cut>>
      /\ UNCHANGED <<phase, update, front, pos, wall, backs, ended, outage>>
      /\ UNCHANGED <<timers, status, launched, deferred, after>>
  BY <1>5 DEF world, oracle, records, anchors
<1>10. \A m \in DOMAIN A : ItemOK(A[m])' /\ A[m].kind # "tick"
  BY <1>8 DEF ItemOK
<1>11. \A k \in DOMAIN queue \ {h} : queue[k].kind = "catch_up" => phase' = "recovering"
  BY <1>9 DEF ItemsOK, ItemOK
<1>12. \A m \in DOMAIN A : A[m].kind # "update_exit"
  BY <1>8
<1>13. front' \in Nat /\ front' >= front
  BY <1>9, Numbers
<1>14. /\ queue' \in Seq(Item) /\ ItemsOK' /\ ExitOnce' /\ DownOK' /\ PendOK' /\ OnceOK'
       /\ QueuedOnce' /\ OldOK' /\ AccountedOK'
  BY <1>5, <1>6, <1>7, <1>8, <1>9, <1>10, <1>11, <1>12, <1>13, OtherStep
<1>15. TypeOK'
  BY <1>6, <1>9, <1>14, Numbers DEF TypeOK
<1>16. FrontOK'
  BY <1>9 DEF FrontOK, Up
<1>17. RecordsOK'
  BY <1>9 DEF RecordsOK, Acted, Fresh, TakenOver
<1> QED BY <1>14, <1>15, <1>16, <1>17

LEMMA BoundedOf ==
  ASSUME NEW S \in SUBSET Nat, IsFiniteSet(S)
  PROVE  \E b \in Nat : \A x \in S : x <= b
<1> DEFINE Bounded(T) == \E b \in Nat : \A x \in T : x <= b
           Bad == {T \in FiniteSubsetsOf(Nat) : ~Bounded(T)}
<1>1. SUFFICES ASSUME ~Bounded(S)  PROVE FALSE
  OBVIOUS
<1>2. S \in Bad
  BY <1>1 DEF FiniteSubsetsOf
<1>3. PICK T \in Bad : \A U \in Bad : ~(<<U, T>> \in StrictSubsetOrdering(Nat))
  <2>1. Bad \subseteq FiniteSubsetsOf(Nat) /\ Bad # {}
    BY <1>2
  <2> HIDE DEF Bad
  <2> QED BY <2>1, FS_StrictSubsetOrderingWellFounded, WFMin
<1>4. T \in SUBSET Nat /\ IsFiniteSet(T) /\ ~Bounded(T)
  BY <1>3 DEF FiniteSubsetsOf
<1>5. PICK x \in T : TRUE
  <2>1. T = {} => \A y \in T : y <= 0
    OBVIOUS
  <2> QED BY <1>4, <2>1
<1> DEFINE U == T \ {x}
<1>6. U \in SUBSET Nat /\ IsFiniteSet(U) /\ U \subseteq T /\ U # T
  BY <1>4, <1>5, FS_Subset
<1>7. Bounded(U)
  <2>1. <<U, T>> \in StrictSubsetOrdering(Nat)
    BY <1>4, <1>6 DEF StrictSubsetOrdering
  <2>2. U \notin Bad
    BY <1>3, <2>1
  <2> QED BY <1>6, <2>2 DEF FiniteSubsetsOf
<1>8. PICK b \in Nat : \A y \in U : y <= b
  BY <1>7
<1>9. x \in Nat
  BY <1>4, <1>5
<1>10. \A y \in T : y <= b + x
  <2> TAKE y \in T
  <2>1. y \in Nat /\ (y = x \/ y <= b)
    BY <1>4, <1>8
  <2> QED BY <1>9, <2>1
<1>11. b + x \in Nat
  BY <1>9
<1> QED BY <1>4, <1>10, <1>11

\* Where post_update_exit puts the exit of an update.
LEMMA ExitStamp ==
  ASSUME TypeOK, NEW m, m = Max({wall} \cup {queue[i].key : i \in DOMAIN queue})
  PROVE  /\ m \in Nat /\ m >= wall /\ \A i \in DOMAIN queue : queue[i].key <= m
         /\ m = wall \/ \E i \in DOMAIN queue : m = queue[i].key
<1> DEFINE K == {queue[i].key : i \in DOMAIN queue}
           S == {wall} \cup K
           n == Len(queue)
           f == [i \in 1..n |-> queue[i].key]
<1>1. \A i \in DOMAIN queue : queue[i].key \in Nat
  BY QueueItems DEF Item
<1>2. n \in Nat /\ DOMAIN queue = 1..n
  BY QueueItems
<1>3. f \in Surjection(1..n, K)
  BY <1>2 DEF Surjection
<1>4. IsFiniteSet(1..n)
  BY <1>2, FS_Interval
<1> HIDE DEF n, f
<1>5. IsFiniteSet(K)
  BY <1>3, <1>4, FS_Surjection
<1>6. IsFiniteSet(S)
  <2>1. S = K \cup {wall}
    OBVIOUS
  <2> HIDE DEF K, S
  <2> QED BY <1>5, <2>1, FS_AddElement
<1>7. S \in SUBSET Nat /\ S # {}
  BY <1>1, Numbers
<1>8. m = Max(S)
  OBVIOUS
<1>9. \A i \in DOMAIN queue : queue[i].key \in S
  OBVIOUS
<1>10. wall \in S /\ \A x \in S : x = wall \/ \E i \in DOMAIN queue : x = queue[i].key
  OBVIOUS
<1> HIDE DEF K, S
<1>11. PICK b \in Nat : \A x \in S : x <= b
  BY <1>6, <1>7, BoundedOf
<1>12. Max(S) \in S /\ \A y \in S : y <= Max(S)
  BY <1>7, <1>11, GreatestOf
<1> QED BY <1>7, <1>8, <1>9, <1>10, <1>12

\* An input raised from outside.
LEMMA Raised ==
  ASSUME TickInv, NEW x \in Item, x.at <= x.key, Push(<<x>>), phase # "down",
         x.kind \in {"command", "completion", "update_exit"},
         x.kind # "update_exit" => x.what \in Runs,
         x.kind = "command" => phase = "running" /\ Stamped(x).key <= NowOf(wall),
         x.kind = "update_exit" =>
           update = "open" /\ \A k \in DOMAIN queue : queue[k].kind # "update_exit",
         UNCHANGED <<world, Inputs, records, anchors>>
  PROVE  TickInv'
<1> USE DEF TickInv
<1>1. PICK A \in Seq(Item) : /\ A = <<Stamped(x)>> /\ DOMAIN A = {1} /\ Len(A) = 1
                             /\ A[1] = Stamped(x) /\ A[1] \in Item
                             /\ queue' = Noted \o A /\ lastWall' = wall
  BY PushOne
<1>2. PICK R : R = Noted
  OBVIOUS
<1>3. Derived(R, 0) /\ queue' = R \o A
  BY <1>1, <1>2, NotedDerived
<1>4. /\ UNCHANGED <<pend, consumed, missed, fired, dropped, slipped, since, cut>>
      /\ UNCHANGED <<phase, update, front, pos, wall, backs, ended, outage>>
      /\ UNCHANGED <<timers, status, launched, deferred, after>>
  BY DEF world, Inputs, records, anchors
<1>5. PICK y : y = Stamped(x)
  OBVIOUS
<1>6. y.kind = x.kind /\ y.what = x.what /\ y.at <= y.key
  BY <1>5, StampedFacts
<1>7. ItemOK(y)'
  <2>1. y.kind = "command" => y.key <= NowOf(wall)
    BY <1>5, <1>6
  <2>2. NowOf(wall) = Later(lastWall', front')
    BY <1>1, <1>4 DEF NowOf
  <2> QED BY <1>4, <1>6, <2>1, <2>2 DEF ItemOK
<1>8. \A m \in DOMAIN A : ItemOK(A[m])' /\ A[m].kind # "tick"
  <2> TAKE m \in DOMAIN A
  <2>1. A[m] = y
    BY <1>1, <1>5
  <2>2. y.kind # "tick"
    BY <1>6
  <2> QED BY <1>7, <2>1, <2>2
<1>9. \A k \in DOMAIN queue \ {0} : queue[k].kind = "catch_up" => phase' = "recovering"
  BY <1>4 DEF ItemsOK, ItemOK
<1>10. \A m \in DOMAIN A : A[m].kind = "update_exit" =>
         Len(A) = 1 /\ \A k \in DOMAIN queue : queue[k].kind # "update_exit"
  BY <1>1, <1>5, <1>6
<1>11. front' \in Nat /\ front' >= front
  BY <1>4, Numbers
<1>12. 0 \in DOMAIN queue => queue[0].kind # "tick"
  BY QueueItems
<1>13. /\ lastWall' = wall /\ 0 \in Nat /\ update' = update
       /\ phase' = phase \/ phase' = "running"
  BY <1>1, <1>4
<1>14. /\ queue' \in Seq(Item) /\ ItemsOK' /\ ExitOnce' /\ DownOK' /\ PendOK' /\ OnceOK'
       /\ QueuedOnce' /\ OldOK' /\ AccountedOK'
  <2> HIDE DEF TickInv
  <2> QED BY <1>3, <1>4, <1>8, <1>9, <1>10, <1>11, <1>12, <1>13, OtherStep
<1>15. TypeOK'
  BY <1>4, <1>13, <1>14, Numbers DEF TypeOK
<1>16. FrontOK'
  BY <1>4 DEF FrontOK, Up
<1>17. RecordsOK'
  BY <1>4 DEF RecordsOK, Acted, Fresh, TakenOver
<1> QED BY <1>14, <1>15, <1>16, <1>17

LEMMA RaiseInv == ASSUME TickInv, NEW run \in Runs, Raise(run)  PROVE TickInv'
<1>1. TypeOK
  BY DEF TickInv
<1>2. PICK n \in Nat : n = NowOf(wall)
  BY <1>1, Numbers
<1>3. PICK x : x = Pending("command", run, n)
  OBVIOUS
<1>4. "command" \in Kinds /\ run \in Runs \cup Ticks \cup {<<>>}
  BY DEF Kinds
<1>5. x \in Item /\ x.kind = "command" /\ x.what = run /\ x.at = n /\ x.key = n
  BY <1>3, <1>4, PendingItem
<1>6. x.at <= x.key
  BY <1>5
<1>7. Stamped(x).key <= NowOf(wall)
  <2>1. Stamped(x) = x \/ Stamped(x).key = front
    BY <1>1, <1>5, <1>6, StampedFacts
  <2> QED BY <1>1, <1>2, <1>5, <2>1, Numbers
<1>8. Push(<<x>>) /\ phase = "running" /\ UNCHANGED <<world, Inputs, records, anchors>>
  BY <1>2, <1>3 DEF Raise
<1> QED BY <1>5, <1>6, <1>7, <1>8, Raised

LEMMA ObserveEndInv == ASSUME TickInv, NEW run \in Runs, ObserveEnd(run)  PROVE TickInv'
<1>1. TypeOK
  BY DEF TickInv
<1>2. PICK n \in Nat : n = EndStamp(run)
  BY <1>1, EndStampFacts
<1>3. PICK x : x = Pending("completion", run, n)
  OBVIOUS
<1>4. "completion" \in Kinds /\ run \in Runs \cup Ticks \cup {<<>>}
  BY DEF Kinds
<1>5. x \in Item /\ x.kind = "completion" /\ x.what = run /\ x.at = n /\ x.key = n
  BY <1>3, <1>4, PendingItem
<1>6. x.at <= x.key
  BY <1>5
<1>7. Push(<<x>>) /\ phase # "down" /\ UNCHANGED <<world, Inputs, records, anchors>>
  BY <1>2, <1>3 DEF ObserveEnd, Up
<1> QED BY <1>5, <1>6, <1>7, Raised

LEMMA PostUpdateExitInv == ASSUME TickInv, PostUpdateExit  PROVE TickInv'
<1>1. TypeOK
  BY DEF TickInv
<1>2. PICK m : m = Max({wall} \cup {queue[i].key : i \in DOMAIN queue})
  OBVIOUS
<1>3. m \in Nat
  BY <1>1, <1>2, ExitStamp
<1>4. PICK n : n = IF phase = "recovering" THEN Later(pos.last, m) ELSE wall
  OBVIOUS
<1>5. n \in Nat
  <2>1. pos.last \in Nat /\ wall \in Nat
    BY <1>1, Numbers DEF TypeOK
  <2> QED BY <1>3, <1>4, <2>1, LaterOf
<1>6. PICK x : x = Pending("update_exit", <<>>, n)
  OBVIOUS
<1>7. "update_exit" \in Kinds /\ <<>> \in Runs \cup Ticks \cup {<<>>}
  BY DEF Kinds
<1>8. x \in Item /\ x.kind = "update_exit" /\ x.at = n /\ x.key = n
  BY <1>5, <1>6, <1>7, PendingItem
<1>9. x.at <= x.key
  BY <1>5, <1>8
<1>10. Push(<<x>>)
  BY <1>2, <1>4, <1>6 DEF PostUpdateExit
<1>11. /\ phase # "down" /\ UNCHANGED <<world, Inputs, records, anchors>>
       /\ update = "open" /\ \A k \in DOMAIN queue : queue[k].kind # "update_exit"
  BY DEF PostUpdateExit, Up
<1> QED BY <1>8, <1>9, <1>10, <1>11, Raised

\* A step that leaves the queue, the ticks and the engine's clock alone.
LEMMA OutsideStep ==
  ASSUME TickInv,
         UNCHANGED <<lastWall, queue, Inputs, pos, fired, dropped, slipped, anchors>>,
         wall' \in Instants, ended' \in [Runs -> 0..Never], outage' \in SUBSET Runs,
         backs' \in Nat, launched' = launched,
         update' = update \/ (update = "none" /\ update' = "open")
  PROVE  TickInv'
<1> USE DEF TickInv
<1>1. /\ UNCHANGED <<lastWall, queue, pos, fired, dropped, slipped, since, cut>>
      /\ UNCHANGED <<front, timers, status, pend, consumed, phase, missed, deferred, after>>
  BY DEF Inputs, anchors
<1>2. TypeOK'
  BY <1>1 DEF TypeOK
<1>3. ItemsOK' /\ ExitOnce' /\ DownOK' /\ FrontOK' /\ QueuedOnce' /\ RecordsOK'
  BY <1>1 DEF ItemsOK, ItemOK, ExitOnce, DownOK, FrontOK, Up, QueuedOnce, RecordsOK,
              Acted, Fresh, TakenOver
<1>4. \A t \in Ticks : Queued(t)' <=> Queued(t)
  BY <1>1 DEF Queued, QueuedAt
<1>5. OnceOK' /\ PendOK' /\ OldOK' /\ AccountedOK'
  BY <1>1, <1>4, TicksKept
<1> QED BY <1>2, <1>3, <1>5

LEMMA OutsideInv ==
  ASSUME TickInv, RequestUpdate \/ ClockMoves \/ \E run \in Runs : ProcessEnds(run)
  PROVE  TickInv'
<1>1. /\ wall \in Instants /\ ended \in [Runs -> 0..Never] /\ outage \in SUBSET Runs
      /\ backs \in Nat /\ MaxTime \in Nat
  BY Numbers DEF TickInv, TypeOK
<1>2. wall \in 0..Never
  BY <1>1 DEF Never, Instants
<1>3. CASE RequestUpdate
  <2>1. /\ UNCHANGED <<lastWall, queue, Inputs, pos, fired, dropped, slipped, anchors>>
        /\ UNCHANGED <<wall, ended, outage, backs, launched>>
        /\ update = "none" /\ update' = "open"
    BY <1>3 DEF RequestUpdate, world
  <2> QED BY <1>1, <2>1, OutsideStep
<1>4. CASE ClockMoves
  <2>1. /\ UNCHANGED <<lastWall, queue, Inputs, pos, fired, dropped, slipped, anchors>>
        /\ UNCHANGED <<ended, outage, launched, update>>
        /\ wall' \in Instants /\ backs' \in {backs, backs + 1}
    BY <1>4 DEF ClockMoves, records
  <2>2. backs' \in Nat
    BY <1>1, <2>1
  <2> QED BY <1>1, <2>1, <2>2, OutsideStep
<1>5. ASSUME NEW run \in Runs, ProcessEnds(run)  PROVE TickInv'
  <2>1. /\ UNCHANGED <<lastWall, queue, Inputs, pos, fired, dropped, slipped, anchors>>
        /\ UNCHANGED <<wall, backs, launched, update>>
        /\ ended' = [ended EXCEPT ![run] = wall]
        /\ outage' \in {outage, outage \cup {run}}
    BY <1>5 DEF ProcessEnds, records
  <2>2. ended' \in [Runs -> 0..Never] /\ outage' \in SUBSET Runs
    BY <1>1, <1>2, <2>1
  <2> QED BY <1>1, <2>1, <2>2, OutsideStep
<1> QED BY <1>3, <1>4, <1>5

LEMMA SinceFront ==
  ASSUME TypeOK, FrontOK, Up, NEW at \in Nat, at >= front
  PROVE  since \in Nat /\ since <= at
<1>1. since \in Nat /\ front \in Nat /\ since <= front
  BY DEF TypeOK, FrontOK
<1> QED BY <1>1

\* The ticks an update leaves a job: what it owes under the old definition, and
\* what the new one has past it.
LEMMA NewPendFacts ==
  ASSUME TypeOK, PendOK, NEW j \in Jobs, NEW at \in Nat, NEW x \in NewPend(j, at)
  PROVE  /\ x \in Instants /\ x \in Nat /\ <<j, x>> \in Ticks
         /\ x > consumed[j] \/ (x = 0 /\ consumed[j] = 0)
         /\ x \in pend[j] \/ (x >= at /\ x > consumed[j])
<1>1. consumed[j] \in Nat /\ pend[j] \subseteq Instants /\ Instants \subseteq Nat
      /\ NewTicks[j] \subseteq Instants
  BY Numbers, ClockAssumption DEF TypeOK
<1>2. CASE x \in pend[j]
  BY <1>1, <1>2 DEF PendOK
<1>3. CASE x \notin pend[j]
  <2>1. x \in NewTicks[j] /\ (IF consumed[j] >= at THEN x > consumed[j] ELSE x >= at)
    BY <1>3 DEF NewPend, From
  <2>2. <<j, x>> \in Ticks
    <3>1. x \in Instants
      BY <1>1, <2>1
    <3>2. <<j, x>> \in Jobs \X Instants /\ <<j, x>>[1] = j /\ <<j, x>>[2] = x
      BY <3>1
    <3> QED BY <2>1, <3>2 DEF Ticks
  <2>3. x \in Nat
    BY <1>1, <2>1
  <2> QED BY <1>1, <2>1, <2>2, <2>3
<1> QED BY <1>2, <1>3

LEMMA NewPendHas ==
  ASSUME TypeOK, PendOK, NEW j \in Jobs, NEW at \in Nat, NEW x \in Instants,
         NEW c, c = IF consumed[j] >= at THEN consumed[j] + 1 ELSE at
  PROVE  /\ x < c /\ x \in pend[j] => x \in NewPend(j, at)
         /\ x >= c /\ x \in NewTicks[j] => x \in NewPend(j, at)
<1> DEFINE owed == From(pend[j], 0) \cap 0..at
<1>1. consumed[j] \in Nat /\ x \in Nat /\ pend[j] \subseteq Nat
  BY Numbers DEF TypeOK
<1>2. ASSUME x < c, x \in pend[j]  PROVE x \in NewPend(j, at)
  <2>1. x > consumed[j] \/ (x = 0 /\ consumed[j] = 0)
    BY <1>2 DEF PendOK
  <2>2. x <= at
    BY <1>1, <1>2, <2>1
  <2>3. x \in owed
    BY <1>1, <1>2, <2>2 DEF From
  <2> QED BY <2>3 DEF NewPend
<1>3. ASSUME x >= c, x \in NewTicks[j]  PROVE x \in NewPend(j, at)
  <2>1. IF consumed[j] >= at THEN x > consumed[j] ELSE x >= at
    BY <1>1, <1>3
  <2>2. x >= at
    BY <1>1, <2>1
  <2>3. CASE x \in owed
    BY <2>3 DEF NewPend
  <2>4. CASE x \notin owed
    <3>1. \A o \in owed : x > o
      <4> TAKE o \in owed
      <4>1. o \in 0..at /\ o # x
        BY <2>4
      <4> QED BY <1>1, <2>2, <4>1
    <3> QED BY <1>3, <2>1, <3>1 DEF NewPend
  <2> QED BY <2>3, <2>4
<1> QED BY <1>2, <1>3

LEMMA TakeUpdateInv == ASSUME TickInv, TakeUpdate  PROVE TickInv'
<1> USE DEF TickInv
<1>1. PICK h : h = HeadOf(Noted)
  OBVIOUS
<1>2. PICK p : p = Noted[h]
  OBVIOUS
<1>3. PICK R : R = Rest(Noted)
  OBVIOUS
<1>4. PICK at \in Nat : at = NowOf(wall) /\ at >= front
  BY Numbers
<1>5. /\ Passes("event") /\ p.kind = "update_exit"
      /\ pend' = [j \in Jobs |-> IF j \in Changed THEN NewPend(j, at) ELSE pend[j]]
      /\ cut' = [j \in Jobs |-> IF consumed[j] >= at THEN consumed[j] + 1 ELSE at]
      /\ Observe(at) /\ update' = "applied" /\ queue' = R
      /\ UNCHANGED <<world, consumed, phase, missed, dropped, since>>
  BY <1>1, <1>2, <1>3, <1>4 DEF TakeUpdate
<1>6. /\ h \in DOMAIN queue /\ h \in Nat /\ Rebased(p, queue[h]) /\ ItemOK(queue[h])
      /\ Derived(R, h) /\ phase # "down" /\ lastWall' = wall
  BY <1>1, <1>2, <1>3, <1>5, TakenHead
<1>7. queue[h].kind = "update_exit" /\ update = "open"
  BY <1>5, <1>6 DEF Rebased, ItemOK
<1>8. PICK A \in Seq(Item) : A = <<>> /\ queue' = R \o A /\ DOMAIN A = {} /\ R \in Seq(Item)
  <2>1. R \in Seq(Item)
    BY <1>6 DEF Derived
  <2> QED BY <1>5, <2>1, NothingAppended
<1>9. QueuedOnce' /\ \A t \in Ticks : Queued(t)' <=> Queued(t)
  BY <1>6, <1>7, <1>8, SameTicks
<1>10. /\ AdmissionType' /\ FrontOK' /\ RecordsOK' /\ front' = at
  BY <1>4, <1>5, Observed
<1>11. fired' = fired /\ slipped' = slipped /\ dropped' = dropped
  BY <1>5 DEF Observe
<1>12. \A t : (Acted(t)' <=> Acted(t)) /\ (Fresh(t)' <=> Fresh(t)) /\ (TakenOver(t)' <=> TakenOver(t))
  BY <1>11 DEF Acted, Fresh, TakenOver
<1>13. \A t \in Ticks : t[1] \in Jobs /\ t[2] \in Nat /\ t = <<t[1], t[2]>> /\ t[2] \in Instants
  BY TickTypes DEF Ticks
<1>14. since \in Nat /\ since <= at
  BY <1>4, <1>6, SinceFront DEF Up
<1>15. \A j \in Jobs : \A x \in pend'[j] :
         /\ x \in Instants /\ x \in Nat /\ <<j, x>> \in Ticks
         /\ x > consumed[j] \/ (x = 0 /\ consumed[j] = 0)
         /\ x \in pend[j] \/ (x >= at /\ x > consumed[j])
  <2> TAKE j \in Jobs
  <2> TAKE x \in pend'[j]
  <2>1. CASE j \in Changed
    <3>1. x \in NewPend(j, at)
      BY <1>5, <2>1
    <3> QED BY <3>1, NewPendFacts
  <2>2. CASE j \notin Changed
    <3>1. x \in pend[j]
      BY <1>5, <2>2
    <3> QED BY <3>1, Numbers DEF PendOK, TypeOK
  <2> QED BY <2>1, <2>2
<1>16. PendOK'
  BY <1>5, <1>15 DEF PendOK
<1>17. OnceOK'
  <2> SUFFICES ASSUME NEW t \in Ticks
               PROVE  /\ t[2] \in pend'[t[1]] => t \notin missed' /\ ~Queued(t)' /\ (Fresh(t)' => ~Acted(t)')
                      /\ Queued(t)' => t \notin missed' /\ (Fresh(t)' => ~Acted(t)')
                      /\ t \in missed' => (Fresh(t)' => ~Acted(t)')
                      /\ Fresh(t)' => fired'[t] + dropped'[t] <= 1
    BY DEF OnceOK
  <2>1. /\ t[2] \in pend[t[1]] => t \notin missed /\ ~Queued(t) /\ (Fresh(t) => ~Acted(t))
        /\ Queued(t) => t \notin missed /\ (Fresh(t) => ~Acted(t))
        /\ t \in missed => (Fresh(t) => ~Acted(t))
        /\ Fresh(t) => fired[t] + dropped[t] <= 1
    BY DEF OnceOK
  <2>2. /\ t \in missed \/ Queued(t) => t[2] <= consumed[t[1]]
        /\ Acted(t) /\ Fresh(t) => t[2] <= consumed[t[1]] \/ t[2] < since
    BY <1>6, <1>7 DEF OldOK, Up
  <2>3. t[1] \in Jobs /\ t[2] \in Nat /\ consumed[t[1]] \in Nat
    BY <1>13 DEF TypeOK
  <2>4. t[2] \in pend'[t[1]] => t[2] \in pend[t[1]] \/ (t[2] >= at /\ t[2] > consumed[t[1]])
    BY <1>15, <2>3
  <2>5. t[2] >= at /\ t[2] > consumed[t[1]]
          => t \notin missed /\ ~Queued(t) /\ (Fresh(t) => ~Acted(t))
    BY <1>14, <2>2, <2>3
  <2> QED BY <1>5, <1>9, <1>11, <1>12, <2>1, <2>4, <2>5
<1>18. OldOK'
  BY <1>5 DEF OldOK
<1>19. AccountedOK'
  <2> SUFFICES ASSUME NEW t \in Ticks, Planned(t)', t[2] >= since'  PROVE Accounted(t)'
    BY DEF AccountedOK
  <2>1. PICK j \in Jobs : j = t[1]
    BY <1>13
  <2>2. PICK x \in Instants : x = t[2] /\ x \in Nat
    BY <1>13
  <2>3. PICK c : c = IF consumed[j] >= at THEN consumed[j] + 1 ELSE at
    OBVIOUS
  <2>4. cut'[j] = c
    BY <1>5, <2>3
  <2>5. x \in (IF x < c THEN OldTicks[j] ELSE NewTicks[j])
    BY <2>1, <2>2, <2>4 DEF Planned
  <2>6. x \in OldTicks[j] => Planned(t)
    <3>1. cut[j] = Never
      BY <1>7 DEF OldOK
    <3>2. x < Never
      BY <2>2, Numbers DEF Instants, Never
    <3> QED BY <2>1, <2>2, <3>1, <3>2 DEF Planned
  <2>7. x \in OldTicks[j] => Acted(t) \/ (x \in pend[j] \/ t \in missed \/ Queued(t)) \/ TakenOver(t)
    <3> SUFFICES ASSUME x \in OldTicks[j]
                 PROVE  Acted(t) \/ (x \in pend[j] \/ t \in missed \/ Queued(t)) \/ TakenOver(t)
      OBVIOUS
    <3>1. Accounted(t)
      BY <1>5, <1>6, <2>6 DEF AccountedOK, Up
    <3> QED BY <2>1, <2>2, <3>1 DEF Accounted, Coming, Acted, TakenOver, Queued, QueuedAt
  <2>8. CASE j \in Changed
    <3>1. pend'[j] = NewPend(j, at)
      BY <1>5, <2>8
    <3>2. x < c /\ x \in pend[j] => x \in pend'[j]
      BY <2>3, <3>1, NewPendHas
    <3>3. x >= c /\ x \in NewTicks[j] => x \in pend'[j]
      BY <2>3, <3>1, NewPendHas
    <3>4. c \in Nat
      BY <2>3 DEF TypeOK
    <3>5. Acted(t) \/ (x \in pend'[j] \/ t \in missed \/ Queued(t)) \/ TakenOver(t)
      BY <2>2, <2>5, <2>7, <3>2, <3>3, <3>4
    <3>6. Acted(t)' \/ (x \in pend'[j] \/ t \in missed' \/ Queued(t)') \/ TakenOver(t)'
      BY <1>5, <1>9, <1>12, <3>5
    <3> QED BY <2>1, <2>2, <3>6 DEF Accounted, Coming, Acted, TakenOver, Queued, QueuedAt
  <2>9. CASE j \notin Changed
    <3>1. x \in OldTicks[j] /\ pend'[j] = pend[j]
      BY <1>5, <2>5, <2>9 DEF Changed
    <3>2. Acted(t)' \/ (x \in pend'[j] \/ t \in missed' \/ Queued(t)') \/ TakenOver(t)'
      BY <1>5, <1>9, <1>12, <2>7, <3>1
    <3> QED BY <2>1, <2>2, <3>2 DEF Accounted, Coming, Acted, TakenOver, Queued, QueuedAt
  <2> QED BY <2>8, <2>9
<1>20. ItemsOK' /\ ExitOnce'
  <2>1. \A k \in DOMAIN queue : ItemOK(queue[k])
    BY DEF ItemsOK
  <2>2. \A k \in DOMAIN queue \ {h} : queue[k].kind # "update_exit"
    BY <1>6, <1>7 DEF ExitOnce
  <2>3. \A k \in DOMAIN queue \ {h} :
           /\ queue[k].kind = "update_exit" => update' = "open"
           /\ queue[k].kind = "catch_up" => phase' = "recovering"
           /\ queue[k].kind = "command" => phase' = "running"
    BY <1>5, <2>1, <2>2 DEF ItemOK
  <2>4. front' \in Nat /\ front' >= front
    BY <1>4, <1>10
  <2> QED BY <1>6, <1>8, <2>3, <2>4, ItemsStay
<1>21. DownOK'
  BY <1>5, <1>6 DEF DownOK
<1>22. TypeOK'
  <2>1. pend' \in [Jobs -> SUBSET Instants]
    <3>1. \A j \in Jobs : pend'[j] \in SUBSET Instants
      BY <1>15
    <3>2. \A j \in Jobs : pend'[j] = IF j \in Changed THEN NewPend(j, at) ELSE pend[j]
      BY <1>5
    <3> QED BY <1>5, <3>1, <3>2
  <2>2. cut' \in [Jobs -> Nat]
    <3>1. \A j \in Jobs : consumed[j] \in Nat
      BY DEF TypeOK
    <3> QED BY <1>5, <3>1
  <2>3. UNCHANGED <<wall, backs, ended, outage>>
    BY <1>5 DEF world
  <2>4. lastWall' \in Nat /\ queue' \in Seq(Item)
    BY <1>5, <1>6, <1>8, Numbers
  <2> QED BY <1>5, <1>10, <1>11, <2>1, <2>2, <2>3, <2>4 DEF TypeOK, AdmissionType, PosType
<1> QED BY <1>9, <1>10, <1>16, <1>17, <1>18, <1>19, <1>20, <1>21, <1>22

\* The last of the missed ticks' instants.
LEMMA LastMissed ==
  ASSUME TypeOK, NEW S \in SUBSET Ticks, S # {}, NEW m, m = Max({x[2] : x \in S})
  PROVE  /\ m \in Nat /\ (\A x \in S : x[2] <= m) /\ (\E x \in S : x[2] = m)
         /\ SweptTicks(S, m) \in SUBSET (Jobs \X Nat) /\ SweptTicks(S, m) \subseteq S
         /\ \A x \in S : x[2] = m => x \in SweptTicks(S, m)
<1> DEFINE D == {x[2] : x \in S}
<1>1. \A x \in S : x[2] \in Nat /\ x[2] <= MaxTime /\ x \in Jobs \X Nat
  <2> TAKE x \in S
  <2>1. x = <<x[1], x[2]>> /\ x[1] \in Jobs /\ x[2] \in Nat /\ x[2] <= MaxTime
    BY TickTypes
  <2> QED BY <2>1
<1>2. D \in SUBSET Nat /\ D # {} /\ MaxTime \in Nat /\ \A y \in D : y <= MaxTime
  BY <1>1, Numbers
<1>3. m = Max(D)
  OBVIOUS
<1>4. (\A x \in S : x[2] \in D) /\ \A y \in D : \E x \in S : x[2] = y
  OBVIOUS
<1> HIDE DEF D
<1>5. m \in D /\ \A y \in D : y <= m
  BY <1>2, <1>3, GreatestOf
<1>6. /\ SweptTicks(S, m) \in SUBSET (Jobs \X Nat) /\ SweptTicks(S, m) \subseteq S
      /\ \A x \in S : x[2] = m => x \in SweptTicks(S, m)
  BY <1>1 DEF SweptTicks
<1> QED BY <1>2, <1>4, <1>5, <1>6

\* What the recovery's last records leave of Position.
LEMMA RecoveryPos ==
  ASSUME TypeOK, FrontOK, FinishRecovery
  PROVE  /\ pos' \in PosType /\ pos'.last >= pos.last /\ pos'.frontier <= pos'.last
         /\ pos'.frontier >= pos.frontier
         /\ \A x \in missed : x[2] < pos'.frontier \/ (x[2] = pos'.frontier /\ x \in pos'.ticks)
         /\ pos'.ticks \subseteq pos.ticks \cup missed
         /\ pos'.frontier = pos.frontier => pos.ticks \subseteq pos'.ticks
         /\ pos'.last \in {pos.last, wall} \/ \E x \in missed : pos'.last = x[2]
<1>1. pos \in PosType /\ pos.frontier <= pos.last /\ wall \in Nat
  BY Numbers DEF TypeOK, PosType, FrontOK
<1>2. PICK p : p = IF Standing = {} THEN pos ELSE Plain(pos, wall)
  OBVIOUS
<1>3. /\ p \in PosType /\ p.last >= pos.last /\ p.last \in {pos.last, wall}
      /\ p.frontier = pos.frontier /\ p.ticks = pos.ticks
  <2>1. /\ Plain(pos, wall) \in PosType /\ Plain(pos, wall).frontier = pos.frontier
        /\ Plain(pos, wall).ticks = pos.ticks /\ Plain(pos, wall).last >= pos.last
        /\ Plain(pos, wall).last \in {pos.last, wall}
    BY <1>1, PosFacts
  <2>2. pos.last >= pos.last
    BY <1>1 DEF PosType
  <2> QED BY <1>1, <1>2, <2>1, <2>2
<1>4. p.frontier <= p.last
  BY <1>1, <1>3 DEF PosType
<1>5. PICK m : m = Max({x[2] : x \in missed})
  OBVIOUS
<1>6. pos' = IF missed = {} THEN p ELSE Semantic(p, m, SweptTicks(missed, m))
  BY <1>2, <1>5 DEF FinishRecovery
<1>7. CASE missed = {}
  BY <1>1, <1>3, <1>4, <1>6, <1>7 DEF PosType
<1>8. CASE missed # {}
  <2>1. PICK T : T = SweptTicks(missed, m)
    OBVIOUS
  <2>2. missed \in SUBSET Ticks
    BY DEF TypeOK
  <2>3. /\ m \in Nat /\ (\A x \in missed : x[2] <= m) /\ (\E x \in missed : x[2] = m)
        /\ T \in SUBSET (Jobs \X Nat) /\ T \subseteq missed
        /\ \A x \in missed : x[2] = m => x \in T
    BY <1>5, <1>8, <2>1, <2>2, LastMissed
  <2>4. pos' = Semantic(p, m, T)
    BY <1>6, <1>8, <2>1
  <2>5. /\ pos' \in PosType /\ pos'.last >= p.last /\ pos'.last \in {p.last, m}
        /\ pos'.frontier <= pos'.last
        /\ \/ m > p.frontier /\ pos'.frontier = m /\ pos'.ticks = T
           \/ m = p.frontier /\ pos'.frontier = m /\ pos'.ticks = p.ticks \cup T
           \/ m < p.frontier /\ pos'.frontier = p.frontier /\ pos'.ticks = p.ticks
    <3>1. /\ Semantic(p, m, T) \in PosType
          /\ Semantic(p, m, T).last >= p.last
          /\ Semantic(p, m, T).last \in {p.last, m}
          /\ Semantic(p, m, T).frontier <= Semantic(p, m, T).last
          /\ \/ m > p.frontier /\ Semantic(p, m, T).frontier = m /\ Semantic(p, m, T).ticks = T
             \/ /\ m = p.frontier /\ Semantic(p, m, T).frontier = m
                /\ Semantic(p, m, T).ticks = p.ticks \cup T
             \/ /\ m < p.frontier /\ Semantic(p, m, T).frontier = p.frontier
                /\ Semantic(p, m, T).ticks = p.ticks
      BY <1>3, <1>4, <2>3, PosFacts
    <3> QED BY <2>4, <3>1
  <2>6. /\ pos.last \in Nat /\ p.last \in Nat /\ pos'.last \in Nat /\ p.frontier \in Nat
        /\ pos'.frontier \in Nat
    BY <1>1, <1>3, <2>5 DEF PosType
  <2>7. \A x \in missed : x[2] \in Nat
    BY <2>2, TickTypes
  <2>8. pos'.last >= pos.last
    BY <1>3, <2>5, <2>6
  <2>9. pos'.frontier >= pos.frontier
    BY <1>3, <2>3, <2>5, <2>6
  <2>10. pos'.ticks \subseteq pos.ticks \cup missed
    BY <1>3, <2>3, <2>5
  <2>11. pos'.frontier = pos.frontier => pos.ticks \subseteq pos'.ticks
    BY <1>3, <2>3, <2>5, <2>6
  <2>12. \A x \in missed : x[2] < pos'.frontier \/ (x[2] = pos'.frontier /\ x \in pos'.ticks)
    <3> TAKE x \in missed
    <3>1. x[2] \in Nat /\ x[2] <= m /\ (x[2] = m => x \in T)
      BY <2>3, <2>7
    <3> QED BY <2>3, <2>5, <2>6, <3>1
  <2>13. pos'.last \in {pos.last, wall} \/ \E x \in missed : pos'.last = x[2]
    BY <1>3, <2>3, <2>5
  <2> QED BY <2>5, <2>8, <2>9, <2>10, <2>11, <2>12, <2>13
<1> QED BY <1>7, <1>8

LEMMA FinishRecoveryInv == ASSUME TickInv, FinishRecovery  PROVE TickInv'
<1> USE DEF TickInv
<1>1. /\ phase = "recovering" /\ phase' = "running" /\ missed' = {} /\ deferred' = {}
      /\ launched' = launched \cup Standing /\ queue' = Noted /\ lastWall' = wall
      /\ dropped' = [t \in Ticks |-> dropped[t] + (IF t \in missed THEN 1 ELSE 0)]
      /\ UNCHANGED <<world, oracle, pend, consumed, after, update, fired, slipped, anchors>>
      /\ \A i \in DOMAIN queue : queue[i].kind # "catch_up"
  BY DEF FinishRecovery, Barrier, CatchingUp
<1>2. /\ UNCHANGED <<front, timers, status, since, cut>>
      /\ UNCHANGED <<wall, backs, ended, outage>>
      /\ UNCHANGED <<pend, consumed, after, update, fired, slipped>>
  BY <1>1 DEF world, oracle, anchors
<1>3. /\ pos' \in PosType /\ pos'.last >= pos.last /\ pos'.frontier <= pos'.last
      /\ pos'.frontier >= pos.frontier
      /\ \A x \in missed : x[2] < pos'.frontier \/ (x[2] = pos'.frontier /\ x \in pos'.ticks)
      /\ pos'.ticks \subseteq pos.ticks \cup missed
      /\ pos'.frontier = pos.frontier => pos.ticks \subseteq pos'.ticks
  BY RecoveryPos
<1>4. PICK R : R = Noted
  OBVIOUS
<1>5. Derived(R, 0) /\ R \in Seq(Item)
  BY <1>4, NotedDerived DEF Derived
<1>6. PICK A \in Seq(Item) : A = <<>> /\ queue' = R \o A /\ DOMAIN A = {}
  BY <1>1, <1>4, <1>5, NothingAppended
<1>7. QueuedOnce' /\ \A t \in Ticks : Queued(t)' <=> Queued(t)
  <2>1. 0 \in DOMAIN queue => queue[0].kind # "tick"
    BY QueueItems
  <2>2. \A m \in DOMAIN A : A[m].kind # "tick"
    BY <1>6
  <2> QED BY <1>5, <1>6, <2>1, <2>2, SameTicks
<1>8. ItemsOK' /\ ExitOnce'
  <2>1. \A k \in DOMAIN queue \ {0} :
           /\ queue[k].kind = "update_exit" => update' = "open"
           /\ queue[k].kind = "catch_up" => phase' = "recovering"
           /\ queue[k].kind = "command" => phase' = "running"
    BY <1>1, <1>2 DEF ItemsOK, ItemOK
  <2>2. front' \in Nat /\ front' >= front
    BY <1>2, Numbers
  <2>3. lastWall' = wall /\ 0 \in Nat
    BY <1>1
  <2> QED BY <1>5, <1>6, <2>1, <2>2, <2>3, ItemsStay
<1>9. \A t \in Ticks : /\ fired[t] \in Nat /\ dropped[t] \in Nat
                       /\ t[1] \in Jobs /\ t[2] \in Nat
  BY TickTypes
<1>10. \A t \in Ticks : /\ Acted(t)' <=> (Acted(t) \/ t \in missed)
                        /\ Fresh(t)' <=> Fresh(t)
                        /\ TakenOver(t)' <=> TakenOver(t)
                        /\ dropped'[t] = dropped[t] + (IF t \in missed THEN 1 ELSE 0)
  BY <1>1, <1>2, <1>9 DEF Acted, Fresh, TakenOver
<1>11. OnceOK'
  <2> SUFFICES ASSUME NEW t \in Ticks
               PROVE  /\ t[2] \in pend'[t[1]] => t \notin missed' /\ ~Queued(t)' /\ (Fresh(t)' => ~Acted(t)')
                      /\ Queued(t)' => t \notin missed' /\ (Fresh(t)' => ~Acted(t)')
                      /\ t \in missed' => (Fresh(t)' => ~Acted(t)')
                      /\ Fresh(t)' => fired'[t] + dropped'[t] <= 1
    BY DEF OnceOK
  <2>1. /\ t[2] \in pend[t[1]] => t \notin missed /\ ~Queued(t) /\ (Fresh(t) => ~Acted(t))
        /\ Queued(t) => t \notin missed /\ (Fresh(t) => ~Acted(t))
        /\ t \in missed => (Fresh(t) => ~Acted(t))
        /\ Fresh(t) => fired[t] + dropped[t] <= 1
    BY DEF OnceOK
  <2>2. Fresh(t)' => fired'[t] + dropped'[t] <= 1
    BY <1>2, <1>9, <1>10, <2>1 DEF Acted
  <2> QED BY <1>1, <1>2, <1>7, <1>10, <2>1, <2>2
<1>12. PendOK'
  BY <1>2, PendKept
<1>13. OldOK'
  <2> SUFFICES ASSUME update # "applied"
               PROVE  /\ \A j \in Jobs : pend'[j] \subseteq OldTicks[j] /\ cut'[j] = Never
                      /\ \A t \in Ticks :
                           /\ t \in missed' \/ Queued(t)' =>
                                t[2] \in OldTicks[t[1]] /\ t[2] <= consumed'[t[1]]
                           /\ Acted(t)' =>
                                /\ t[2] \in OldTicks[t[1]]
                                /\ Up' /\ Fresh(t)' => t[2] <= consumed'[t[1]] \/ t[2] < since'
    BY <1>2 DEF OldOK
  <2>1. Up
    BY <1>1 DEF Up
  <2>2. ASSUME NEW t \in Ticks
        PROVE  /\ t \in missed' \/ Queued(t)' => t[2] \in OldTicks[t[1]] /\ t[2] <= consumed'[t[1]]
               /\ Acted(t)' =>
                    /\ t[2] \in OldTicks[t[1]]
                    /\ Up' /\ Fresh(t)' => t[2] <= consumed'[t[1]] \/ t[2] < since'
    <3>1. /\ t \in missed \/ Queued(t) => t[2] \in OldTicks[t[1]] /\ t[2] <= consumed[t[1]]
          /\ Acted(t) => /\ t[2] \in OldTicks[t[1]]
                         /\ Fresh(t) => t[2] <= consumed[t[1]] \/ t[2] < since
      BY <2>1 DEF OldOK
    <3> QED BY <1>1, <1>2, <1>7, <1>10, <3>1
  <2> QED BY <1>2, <2>2 DEF OldOK
<1>14. RecordsOK'
  <2>1. \A t \in pos'.ticks \cap Ticks : Acted(t)' \/ TakenOver(t)'
    BY <1>3, <1>10 DEF RecordsOK
  <2>2. ASSUME NEW t \in Ticks, Acted(t)', Fresh(t)'
        PROVE  t[2] < pos'.frontier \/ (t[2] = pos'.frontier /\ t \in pos'.ticks)
    <3>1. t \notin missed => t[2] < pos.frontier \/ (t[2] = pos.frontier /\ t \in pos.ticks)
      BY <1>10, <2>2 DEF RecordsOK
    <3>2. pos.frontier \in Nat /\ pos'.frontier \in Nat /\ t[2] \in Nat
      BY <1>3, <1>9 DEF TypeOK, PosType
    <3> QED BY <1>3, <3>1, <3>2
  <2> QED BY <2>1, <2>2 DEF RecordsOK
<1>15. AccountedOK'
  <2> SUFFICES ASSUME NEW t \in Ticks, Planned(t)', t[2] >= since'  PROVE Accounted(t)'
    BY DEF AccountedOK
  <2>1. Planned(t) /\ t[2] >= since /\ Up
    BY <1>1, <1>2 DEF Planned, Up
  <2>2. Accounted(t)
    BY <2>1 DEF AccountedOK
  <2>3. Acted(t) \/ (t[2] \in pend[t[1]] \/ t \in missed \/ Queued(t)) \/ TakenOver(t)
    BY <2>2 DEF Accounted, Coming, Acted, TakenOver, Queued, QueuedAt
  <2>4. Acted(t)' \/ (t[2] \in pend'[t[1]] \/ t \in missed' \/ Queued(t)') \/ TakenOver(t)'
    BY <1>2, <1>7, <1>10, <2>3
  <2> QED BY <2>4 DEF Accounted, Coming, Acted, TakenOver, Queued, QueuedAt
<1>16. DownOK'
  BY <1>1 DEF DownOK
<1>17. FrontOK'
  <2>1. front \in Nat /\ pos.last \in Nat /\ pos'.last \in Nat
    BY <1>3 DEF TypeOK, PosType
  <2> QED BY <1>1, <1>2, <1>3, <2>1 DEF FrontOK, Up
<1>18. TypeOK'
  <2>1. dropped' \in [Ticks -> Nat]
    <3>1. \A t \in Ticks : dropped[t] + (IF t \in missed THEN 1 ELSE 0) \in Nat
      BY <1>9
    <3> QED BY <1>1, <3>1
  <2>2. launched' \in SUBSET Runs /\ deferred' \in SUBSET Runs /\ missed' \in SUBSET Ticks
    BY <1>1 DEF Standing, TypeOK
  <2>3. lastWall' \in Nat /\ queue' \in Seq(Item)
    BY <1>1, <1>4, <1>5, Numbers
  <2> QED BY <1>1, <1>2, <1>3, <2>1, <2>2, <2>3 DEF TypeOK, PosType
<1> QED BY <1>7, <1>8, <1>11, <1>12, <1>13, <1>14, <1>15, <1>16, <1>17, <1>18

LEMMA CrashInv == ASSUME TickInv, Crash  PROVE TickInv'
<1> USE DEF TickInv
<1>1. /\ phase' = "down" /\ queue' = <<>> /\ missed' = {} /\ deferred' = {} /\ after' = 0
      /\ pend' = [j \in Jobs |-> {}] /\ consumed' = [j \in Jobs |-> 0]
      /\ UNCHANGED <<front, timers, status, since, cut, wall, backs, ended, outage, lastWall>>
      /\ UNCHANGED <<pos, update, launched, fired, dropped, slipped>>
  BY DEF Crash, oracle, records, anchors
<1>2. DOMAIN queue' = {}
  BY <1>1
<1>3. \A t : (Acted(t)' <=> Acted(t)) /\ (Fresh(t)' <=> Fresh(t)) /\ (TakenOver(t)' <=> TakenOver(t))
  BY <1>1 DEF Acted, Fresh, TakenOver
<1>4. \A t \in Ticks : ~Queued(t)' /\ t[2] \notin pend'[t[1]] /\ t \notin missed'
  <2> TAKE t \in Ticks
  <2>1. t[1] \in Jobs
    BY TickTypes
  <2> QED BY <1>1, <1>2, <2>1 DEF Queued
<1>5. OnceOK'
  BY <1>1, <1>3, <1>4 DEF OnceOK
<1>6. PendOK' /\ DownOK' /\ FrontOK'
  BY <1>1 DEF PendOK, DownOK, FrontOK, Up
<1>7. ItemsOK' /\ ExitOnce' /\ QueuedOnce'
  BY <1>2 DEF ItemsOK, ExitOnce, QueuedOnce
<1>8. OldOK'
  BY <1>1, <1>3, <1>4 DEF OldOK, Up
<1>9. RecordsOK'
  BY <1>1, <1>3 DEF RecordsOK
<1>10. AccountedOK'
  BY <1>1 DEF AccountedOK, Up
<1>11. TypeOK'
  <2>1. queue' \in Seq(Item) /\ pend' \in [Jobs -> SUBSET Instants] /\ consumed' \in [Jobs -> Nat]
    BY <1>1
  <2> QED BY <1>1, <2>1 DEF TypeOK
<1> QED BY <1>5, <1>6, <1>7, <1>8, <1>9, <1>10, <1>11

LEMMA PlanFacts ==
  ASSUME NEW j \in Jobs
  PROVE  /\ Plan(j) \subseteq Instants
         /\ \A x \in Plan(j) : <<j, x>> \in Ticks
<1>1. OldTicks[j] \subseteq Instants /\ NewTicks[j] \subseteq Instants
  BY ClockAssumption
<1>2. ASSUME NEW x \in OldTicks[j] \cup NewTicks[j]  PROVE <<j, x>> \in Ticks
  <2>1. <<j, x>> \in Jobs \X Instants /\ <<j, x>>[1] = j /\ <<j, x>>[2] = x
    BY <1>1
  <2> QED BY <2>1 DEF Ticks
<1> QED BY <1>1, <1>2 DEF Plan

LEMMA RestartInv == ASSUME TickInv, Restart  PROVE TickInv'
<1> USE DEF TickInv
<1>1. PICK f \in Nat : f = RecordedFront /\ f >= pos.last /\ f >= front /\ f = pos.last
  <2>1. front \in Nat /\ pos.last \in Nat /\ front <= pos.last
    BY DEF TypeOK, FrontOK
  <2> QED BY <2>1 DEF RecordedFront, Later
<1>2. PICK F \in Nat : F = pos.frontier
  BY DEF TypeOK
<1>3. PICK upto \in Nat : /\ upto = Later(Later(wall, f), F)
                          /\ upto >= wall /\ upto >= f /\ upto >= F
  <2>1. Later(wall, f) \in Nat /\ Later(wall, f) >= wall /\ Later(wall, f) >= f
    BY <1>1, Numbers, LaterOf
  <2>2. /\ Later(Later(wall, f), F) \in Nat /\ Later(Later(wall, f), F) >= Later(wall, f)
        /\ Later(Later(wall, f), F) >= F
    BY <1>2, <2>1, LaterOf
  <2> QED BY <1>1, <1>2, <2>1, <2>2, Numbers
<1>4. /\ phase = "down" /\ phase' = "recovering" /\ front' = f /\ lastWall' = wall
      /\ missed' = MissedTicks(upto)
      /\ pend' = [j \in Jobs |-> From(Plan(j), upto + 1)]
      /\ consumed' = [j \in Jobs |-> Max({0} \cup (From(Plan(j), F) \cap 0..upto))]
      /\ deferred' = {r \in Runs \ launched : status[r] = "live"}
      /\ after' \in {0, pos.last} /\ since' = F
      /\ cut' = [j \in Jobs |-> IF update = "applied" THEN 0 ELSE Never]
      /\ UNCHANGED <<wall, backs, ended, outage, timers, status>>
      /\ UNCHANGED <<pos, update, launched, fired, dropped, slipped>>
  BY <1>1, <1>2, <1>3 DEF Restart, world, records
<1>5. PICK x \in Item : queue' = <<x>> /\ x.kind = "catch_up" /\ x.at <= x.key
  <2>1. PICK y : y = Pending("catch_up", <<>>, pos.last)
    OBVIOUS
  <2>2. "catch_up" \in Kinds /\ <<>> \in Runs \cup Ticks \cup {<<>>} /\ pos.last \in Nat
    BY DEF Kinds, TypeOK
  <2>3. y \in Item /\ y.kind = "catch_up" /\ y.at = pos.last /\ y.key = pos.last
    BY <2>1, <2>2, PendingItem
  <2>4. queue' = <<y>>
    BY <2>1 DEF Restart
  <2>5. y.at <= y.key
    BY <2>2, <2>3
  <2> QED BY <2>3, <2>4, <2>5
<1>6. queue' \in Seq(Item) /\ DOMAIN queue' = {1} /\ queue'[1] = x
  BY <1>5
<1>7. \A t : (Acted(t)' <=> Acted(t)) /\ (Fresh(t)' <=> Fresh(t)) /\ (TakenOver(t)' <=> TakenOver(t))
  BY <1>4 DEF Acted, Fresh, TakenOver
<1>8. \A t : ~Queued(t)'
  BY <1>5, <1>6 DEF Queued, QueuedAt
<1>9. \A t \in Ticks : /\ t[1] \in Jobs /\ t[2] \in Nat /\ t[2] \in Instants
                       /\ t = <<t[1], t[2]>> /\ t[2] < Never
  <2>1. \A t \in Ticks : t[1] \in Jobs /\ t[2] \in Nat /\ t = <<t[1], t[2]>> /\ t[2] <= MaxTime
    BY TickTypes
  <2> QED BY <2>1, Numbers DEF Instants, Never
<1>10. \A j \in Jobs : /\ Plan(j) \subseteq Instants /\ Plan(j) \subseteq Nat
                       /\ \A y \in Plan(j) : <<j, y>> \in Ticks
  BY PlanFacts, Numbers
<1>11. \A j \in Jobs : /\ consumed'[j] \in Nat /\ consumed'[j] <= upto
                       /\ \A y \in Plan(j) : y >= F /\ y <= upto => y <= consumed'[j]
  <2> TAKE j \in Jobs
  <2>1. PICK S : S = {0} \cup (From(Plan(j), F) \cap 0..upto)
    OBVIOUS
  <2>2. S \in SUBSET Nat /\ S # {} /\ \A y \in S : y <= upto
    BY <1>10, <2>1
  <2>3. Max(S) \in S /\ \A y \in S : y <= Max(S)
    BY <2>2, GreatestOf
  <2>4. consumed'[j] = Max(S)
    BY <1>4, <2>1
  <2>5. \A y \in Plan(j) : y >= F /\ y <= upto => y \in S
    BY <1>10, <2>1 DEF From
  <2> QED BY <2>2, <2>3, <2>4, <2>5
<1>12. \A j \in Jobs : \A y : y \in pend'[j] <=> y \in Plan(j) /\ y > upto
  <2> TAKE j \in Jobs
  <2> TAKE y
  <2>1. y \in pend'[j] <=> y \in Plan(j) /\ y >= upto + 1
    BY <1>4 DEF From
  <2>2. y \in Plan(j) => y \in Nat
    BY <1>10
  <2> QED BY <2>1, <2>2
<1>13. \A t \in Ticks : t \in missed' <=>
          t[2] \in Plan(t[1]) /\ t[2] >= F /\ t[2] <= upto /\ t \notin pos.ticks
  BY <1>2, <1>4 DEF MissedTicks, From
<1>14. missed' \subseteq Ticks
  BY <1>4 DEF MissedTicks
<1>15. \A t \in Ticks : Acted(t) /\ Fresh(t) => t[2] < F \/ (t[2] = F /\ t \in pos.ticks)
  BY <1>2 DEF RecordsOK
<1>16. OnceOK'
  <2> SUFFICES ASSUME NEW t \in Ticks
               PROVE  /\ t[2] \in pend'[t[1]] => t \notin missed' /\ ~Queued(t)' /\ (Fresh(t)' => ~Acted(t)')
                      /\ Queued(t)' => t \notin missed' /\ (Fresh(t)' => ~Acted(t)')
                      /\ t \in missed' => (Fresh(t)' => ~Acted(t)')
                      /\ Fresh(t)' => fired'[t] + dropped'[t] <= 1
    BY DEF OnceOK
  <2>1. Fresh(t) => fired[t] + dropped[t] <= 1
    BY DEF OnceOK
  <2>2. t[1] \in Jobs /\ t[2] \in Nat
    BY <1>9
  <2>3. t[2] \in pend'[t[1]] => t[2] > upto
    BY <1>12, <2>2
  <2>4. t \in missed' => t[2] <= upto /\ t[2] >= F /\ t \notin pos.ticks
    BY <1>13
  <2>5. t[2] > upto => t[2] > F
    BY <1>3, <2>2
  <2>6. (Acted(t) /\ Fresh(t)) => t[2] < F \/ (t[2] = F /\ t \in pos.ticks)
    BY <1>15
  <2> QED BY <1>4, <1>7, <1>8, <2>1, <2>2, <2>3, <2>4, <2>5, <2>6
<1>17. PendOK'
  <2> SUFFICES ASSUME NEW j \in Jobs, NEW y \in pend'[j]
               PROVE  <<j, y>> \in Ticks /\ (y > consumed'[j] \/ (y = 0 /\ consumed'[j] = 0))
    BY DEF PendOK
  <2>1. y \in Plan(j) /\ y > upto
    BY <1>12
  <2>2. y \in Nat /\ <<j, y>> \in Ticks
    BY <1>10, <2>1
  <2>3. consumed'[j] \in Nat /\ consumed'[j] <= upto
    BY <1>11
  <2> QED BY <2>1, <2>2, <2>3
<1>18. OldOK'
  <2> SUFFICES ASSUME update # "applied"
               PROVE  /\ \A j \in Jobs : pend'[j] \subseteq OldTicks[j] /\ cut'[j] = Never
                      /\ \A t \in Ticks :
                           /\ t \in missed' \/ Queued(t)' =>
                                t[2] \in OldTicks[t[1]] /\ t[2] <= consumed'[t[1]]
                           /\ Acted(t)' =>
                                /\ t[2] \in OldTicks[t[1]]
                                /\ Up' /\ Fresh(t)' => t[2] <= consumed'[t[1]] \/ t[2] < since'
    BY <1>4 DEF OldOK
  <2>1. \A j \in Jobs : Plan(j) = OldTicks[j]
    BY DEF Plan
  <2>2. \A j \in Jobs : pend'[j] \subseteq OldTicks[j] /\ cut'[j] = Never
    BY <1>4, <1>12, <2>1
  <2>3. ASSUME NEW t \in Ticks
        PROVE  /\ t \in missed' \/ Queued(t)' => t[2] \in OldTicks[t[1]] /\ t[2] <= consumed'[t[1]]
               /\ Acted(t)' =>
                    /\ t[2] \in OldTicks[t[1]]
                    /\ Up' /\ Fresh(t)' => t[2] <= consumed'[t[1]] \/ t[2] < since'
    <3>1. t[1] \in Jobs /\ t[2] \in Nat
      BY <1>9
    <3>2. t \in missed' => t[2] \in OldTicks[t[1]] /\ t[2] <= consumed'[t[1]]
      BY <1>11, <1>13, <2>1, <3>1
    <3>3. Acted(t) => t[2] \in OldTicks[t[1]]
      BY DEF OldOK
    <3>4. (Acted(t) /\ Fresh(t)) => t[2] < F \/ t[2] = F
      BY <1>15
    <3>5. t[2] = F /\ t[2] \in OldTicks[t[1]] => t[2] <= consumed'[t[1]]
      BY <1>3, <1>11, <2>1, <3>1
    <3> QED BY <1>4, <1>7, <1>8, <3>2, <3>3, <3>4, <3>5
  <2> QED BY <2>2, <2>3
<1>19. RecordsOK'
  BY <1>4, <1>7 DEF RecordsOK
<1>20. AccountedOK'
  <2> SUFFICES ASSUME NEW t \in Ticks, Planned(t)', t[2] >= since'  PROVE Accounted(t)'
    BY DEF AccountedOK
  <2>1. t[1] \in Jobs /\ t[2] \in Nat /\ t[2] < Never /\ t[2] >= F
    BY <1>4, <1>9
  <2>2. t[2] \in Plan(t[1])
    <3>1. cut'[t[1]] = IF update = "applied" THEN 0 ELSE Never
      BY <1>4, <2>1
    <3>2. t[2] \in (IF t[2] < cut'[t[1]] THEN OldTicks[t[1]] ELSE NewTicks[t[1]])
      BY DEF Planned
    <3> QED BY <2>1, <3>1, <3>2 DEF Plan
  <2>3. t[2] > upto => t[2] \in pend'[t[1]]
    BY <1>12, <2>1, <2>2
  <2>4. t[2] <= upto /\ t \notin pos.ticks => t \in missed'
    BY <1>13, <2>1, <2>2
  <2>5. t \in pos.ticks => Acted(t) \/ TakenOver(t)
    BY DEF RecordsOK
  <2>6. Acted(t)' \/ (t[2] \in pend'[t[1]] \/ t \in missed') \/ TakenOver(t)'
    BY <1>7, <2>1, <2>3, <2>4, <2>5
  <2> QED BY <2>6 DEF Accounted, Coming, Acted, TakenOver
<1>21. ItemsOK' /\ ExitOnce' /\ QueuedOnce'
  <2>1. ItemOK(x)'
    BY <1>4, <1>5 DEF ItemOK
  <2>2. ItemsOK'
    BY <1>6, <2>1 DEF ItemsOK, ItemOK
  <2> QED BY <1>6, <2>2 DEF ExitOnce, QueuedOnce
<1>22. DownOK' /\ FrontOK'
  <2>1. pos.frontier <= pos.last
    BY DEF FrontOK
  <2> QED BY <1>1, <1>2, <1>4, <2>1 DEF DownOK, FrontOK
<1>23. TypeOK'
  <2>1. pend' \in [Jobs -> SUBSET Instants]
    BY <1>4, <1>10 DEF From
  <2>2. consumed' \in [Jobs -> Nat]
    BY <1>4, <1>11
  <2>3. cut' \in [Jobs -> Nat]
    BY <1>4, Numbers
  <2>4. deferred' \in SUBSET Runs /\ after' \in Nat /\ lastWall' \in Nat
    <3>1. pos.last \in Nat /\ wall \in Nat
      BY Numbers DEF TypeOK
    <3>2. deferred' \in SUBSET Runs
      BY <1>4
    <3> QED BY <1>4, <3>1, <3>2
  <2> QED BY <1>2, <1>1, <1>4, <1>6, <1>14, <2>1, <2>2, <2>3, <2>4 DEF TypeOK
<1> QED BY <1>16, <1>17, <1>18, <1>19, <1>20, <1>21, <1>22, <1>23

LEMMA InitInv == Init => TickInv
<1> SUFFICES ASSUME Init  PROVE TickInv
  OBVIOUS
<1> USE DEF Init
<1>1. MaxTime \in Nat /\ Never \in Nat /\ 0 \in Instants /\ Instants \subseteq Nat /\ Never \in 0..Never
  BY ClockAssumption DEF Never, Instants
<1>2. \A j \in Jobs : OldTicks[j] \subseteq Instants /\ pend[j] = OldTicks[j]
  <2> TAKE j \in Jobs
  <2>1. OldTicks[j] \subseteq Instants
    BY ClockAssumption
  <2>2. pend[j] = From(OldTicks[j], 0)
    OBVIOUS
  <2>3. ASSUME NEW x \in OldTicks[j]  PROVE x >= 0
    <3>1. x \in Nat
      BY <1>1, <2>1
    <3> HIDE DEF Init
    <3> QED BY <3>1
  <2> QED BY <2>1, <2>2, <2>3 DEF From
<1>3. DOMAIN queue = {}
  OBVIOUS
<1>4. \A t \in Ticks : /\ t[1] \in Jobs /\ t[2] \in Nat /\ t[2] < Never /\ t \in Jobs \X Instants
  <2>1. \A t \in Ticks : t \in Jobs \X Instants
    BY DEF Ticks
  <2> QED BY <1>1, <2>1 DEF Instants, Never
<1>5. \A t \in Ticks : ~Acted(t) /\ ~Queued(t) /\ Fresh(t)
  BY <1>3 DEF Acted, Queued, Fresh
<1>6. TypeOK
  <2>1. pend \in [Jobs -> SUBSET Instants]
    BY <1>2
  <2>2. queue \in Seq(Item)
    OBVIOUS
  <2> QED BY <1>1, <2>1, <2>2 DEF TypeOK
<1>7. ItemsOK /\ ExitOnce /\ QueuedOnce /\ DownOK
  BY <1>3 DEF ItemsOK, ExitOnce, QueuedOnce, DownOK
<1>8. FrontOK
  BY DEF FrontOK
<1>9. PendOK
  <2> SUFFICES ASSUME NEW j \in Jobs, NEW x \in pend[j]
               PROVE  <<j, x>> \in Ticks /\ (x > consumed[j] \/ (x = 0 /\ consumed[j] = 0))
    BY DEF PendOK
  <2>1. x \in OldTicks[j] /\ x \in Nat
    BY <1>1, <1>2
  <2>2. Plan(j) = OldTicks[j] /\ consumed[j] = 0
    BY DEF Plan
  <2>3. <<j, x>> \in Ticks
    BY <2>1, <2>2, PlanFacts
  <2> QED BY <2>1, <2>2, <2>3
<1>10. OnceOK
  BY <1>5 DEF OnceOK
<1>11. OldOK
  BY <1>2, <1>5 DEF OldOK
<1>12. RecordsOK
  BY <1>5 DEF RecordsOK
<1>13. AccountedOK
  <2> SUFFICES ASSUME NEW t \in Ticks, Planned(t)  PROVE Accounted(t)
    BY DEF AccountedOK
  <2>1. t[2] \in pend[t[1]]
    BY <1>2, <1>4 DEF Planned
  <2> QED BY <2>1 DEF Accounted, Coming
<1> QED BY <1>6, <1>7, <1>8, <1>9, <1>10, <1>11, <1>12, <1>13 DEF TickInv

LEMMA NextInv == ASSUME TickInv, [Next]_vars  PROVE TickInv'
<1>1. CASE TakeInput
  BY <1>1, TakeInputInv
<1>2. CASE TakeTimer
  BY <1>2, TakeTimerInv
<1>3. CASE PopDue
  BY <1>3, PopDueInv
<1>4. CASE TakeCatchUp
  BY <1>4, TakeCatchUpInv
<1>5. CASE TakeUpdate
  BY <1>5, TakeUpdateInv
<1>6. CASE FinishRecovery
  BY <1>6, FinishRecoveryInv
<1>7. ASSUME NEW run \in Runs, Raise(run)  PROVE TickInv'
  BY <1>7, RaiseInv
<1>8. ASSUME NEW run \in Runs, ObserveEnd(run)  PROVE TickInv'
  BY <1>8, ObserveEndInv
<1>9. CASE RequestUpdate \/ ClockMoves \/ \E run \in Runs : ProcessEnds(run)
  BY <1>9, OutsideInv
<1>10. CASE PostUpdateExit
  BY <1>10, PostUpdateExitInv
<1>11. CASE Crash
  BY <1>11, CrashInv
<1>12. CASE Restart
  BY <1>12, RestartInv
<1>13. CASE UNCHANGED vars
  <2>1. TypeOK'
    BY <1>13 DEF vars, TickInv, TypeOK
  <2>2. ItemsOK' /\ ExitOnce' /\ DownOK' /\ FrontOK'
    BY <1>13 DEF vars, TickInv, ItemsOK, ItemOK, ExitOnce, DownOK, FrontOK, Up
  <2>3. PendOK' /\ OnceOK' /\ QueuedOnce'
    BY <1>13 DEF vars, TickInv, PendOK, OnceOK, Queued, QueuedAt, Fresh, Acted, QueuedOnce
  <2>4. OldOK'
    BY <1>13 DEF vars, TickInv, OldOK, Up, Queued, QueuedAt, Fresh, Acted
  <2>5. RecordsOK'
    BY <1>13 DEF vars, TickInv, RecordsOK, TakenOver, Fresh, Acted
  <2>6. AccountedOK'
    BY <1>13 DEF vars, TickInv, AccountedOK, Planned, Accounted, Coming, Queued, QueuedAt,
         Fresh, Acted, TakenOver, Up
  <2> QED BY <2>1, <2>2, <2>3, <2>4, <2>5, <2>6 DEF TickInv
<1> QED BY <1>1, <1>2, <1>3, <1>4, <1>5, <1>6, <1>7, <1>8, <1>9, <1>10, <1>11, <1>12, <1>13
        DEF Next, Loop

\* The invariant of the ticks holds in every state: where each tick is, and what the
\* records and the scheduler remember of it, agree (Scheduler.pop_due and .replace,
\* Position.note and _missed_ticks).
THEOREM TicksInvariant == Spec => []TickInv
<1>1. Init => TickInv
  BY InitInv
<1>2. TickInv /\ [Next]_vars => TickInv'
  BY NextInv
<1> QED BY <1>1, <1>2, PTL DEF Spec

\* Over restarts, updates and steps of the clock each tick is admitted, recorded as
\* dropped or still to come, and none is acted on twice, in whichever engine's life
\* (pop_due, replace, _missed_ticks, _finish_recovery).
THEOREM EveryTickIsTakenOnce == Spec => []EveryTickOnce
<1>1. TickInv => EveryTickOnce
  <2> SUFFICES ASSUME TickInv, Up, NEW t \in Ticks
               PROVE  /\ Planned(t) /\ t[2] >= since => Accounted(t)
                      /\ fired[t] + dropped[t] <= 1 \/ \E x \in slipped : x[1] = t
    BY DEF EveryTickOnce
  <2>1. Planned(t) /\ t[2] >= since => Accounted(t)
    BY DEF TickInv, AccountedOK
  <2>2. Fresh(t) => fired[t] + dropped[t] <= 1
    BY DEF TickInv, OnceOK
  <2> QED BY <2>1, <2>2 DEF Fresh
<1> QED BY <1>1, TicksInvariant, PTL

-----------------------------------------------------------------------------
(* Deadlines.                                                               *)

\* A clock that never stepped back rebases nothing.
LEMMA ForwardFacts ==
  ASSUME TypeOK, ForwardOK, backs = 0
  PROVE  /\ Forward /\ NowOf(wall) = wall /\ front <= wall /\ pos.last <= wall
         /\ (\A i \in DOMAIN queue : queue[i].key <= wall)
         /\ \A r \in Runs : ended[r] # Never => ended[r] <= wall
<1>1. /\ front <= wall /\ lastWall <= wall /\ pos.last <= wall
      /\ (\A i \in DOMAIN queue : queue[i].key <= wall)
      /\ \A r \in Runs : ended[r] # Never => ended[r] <= wall
  BY DEF ForwardOK
<1>2. NowOf(wall) = wall
  BY <1>1, Numbers DEF NowOf, Later
<1> QED BY <1>1, <1>2 DEF Forward

\* What a derived queue with something appended keeps.
LEMMA QueueKept ==
  ASSUME TypeOK, ForwardOK, CatchUpAlone, ArrivalOrder,
         NEW R, NEW h \in Nat, Derived(R, h), NEW A \in Seq(Item), queue' = R \o A,
         backs = 0 => \A m \in DOMAIN A : A[m].key <= wall,
         \A m \in DOMAIN A : A[m].kind # "catch_up",
         (\E i \in DOMAIN queue \ {h} : queue[i].kind = "catch_up")
            => \A m \in DOMAIN A : A[m].kind = "tick",
         \A m \in DOMAIN A : A[m].kind = "update_exit" =>
           /\ Len(A) = 1
           /\ (\E i \in DOMAIN queue : queue[i].kind = "command") => A[m].key = NowOf(wall)
  PROVE  /\ backs = 0 => \A i \in DOMAIN queue' : queue'[i].key <= wall
         /\ CatchUpAlone' /\ ArrivalOrder'
<1>1. PICK f \in [DOMAIN R -> DOMAIN queue \ {h}] :
       /\ \A k \in DOMAIN queue \ {h} : \E i \in DOMAIN R : f[i] = k
       /\ \A i, k \in DOMAIN R : i < k => f[i] < f[k]
       /\ \A i \in DOMAIN R : Rebased(R[i], queue[f[i]])
       /\ \A i, k \in DOMAIN R : queue[f[i]].key <= queue[f[k]].key => R[i].key <= R[k].key
       /\ Forward => \A i \in DOMAIN R : R[i] = queue[f[i]]
  BY DEF Derived
<1>2. R \in Seq(Item)
  BY DEF Derived
<1>3. /\ Len(R) \in Nat /\ DOMAIN R = 1..Len(R) /\ DOMAIN A = 1..Len(A) /\ Len(A) \in Nat
      /\ DOMAIN queue' = 1..(Len(R) + Len(A))
      /\ \A i \in DOMAIN queue' :
           \/ i \in DOMAIN R /\ queue'[i] = R[i]
           \/ i - Len(R) \in DOMAIN A /\ queue'[i] = A[i - Len(R)]
  BY <1>2, NextQueue
<1>4. \A i \in DOMAIN R : /\ f[i] \in DOMAIN queue /\ f[i] # h /\ f[i] \in Nat /\ i \in Nat
                         /\ R[i].kind = queue[f[i]].kind
  BY <1>1, <1>3, QueueItems DEF Rebased
<1>5. backs = 0 => \A i \in DOMAIN queue' : queue'[i].key <= wall
  <2> SUFFICES ASSUME backs = 0, NEW i \in DOMAIN queue'  PROVE queue'[i].key <= wall
    OBVIOUS
  <2>1. Forward /\ \A k \in DOMAIN queue : queue[k].key <= wall
    BY ForwardFacts
  <2>2. CASE i \in DOMAIN R /\ queue'[i] = R[i]
    BY <1>1, <1>4, <2>1, <2>2
  <2>3. CASE i - Len(R) \in DOMAIN A /\ queue'[i] = A[i - Len(R)]
    BY <2>3
  <2> QED BY <1>3, <2>2, <2>3
<1>6. CatchUpAlone'
  <2> SUFFICES ASSUME NEW i \in DOMAIN queue', NEW k \in DOMAIN queue',
                      queue'[i].kind = "catch_up"
               PROVE  i = k \/ queue'[k].kind = "tick"
    BY DEF CatchUpAlone
  <2>1. i \in DOMAIN R /\ queue'[i] = R[i]
    BY <1>3
  <2>2. f[i] \in DOMAIN queue \ {h} /\ queue[f[i]].kind = "catch_up"
    BY <1>1, <1>4, <2>1
  <2>3. CASE k \in DOMAIN R /\ queue'[k] = R[k]
    <3>1. f[i] = f[k] \/ queue[f[k]].kind = "tick"
      BY <1>4, <2>2, <2>3 DEF CatchUpAlone
    <3>2. f[i] = f[k] => i = k
      <4>1. i \in Nat /\ k \in Nat /\ f[i] \in Nat /\ f[k] \in Nat
        BY <1>4, <2>1, <2>3
      <4>2. (i < k => f[i] < f[k]) /\ (k < i => f[k] < f[i])
        BY <1>1, <2>1, <2>3
      <4> QED BY <4>1, <4>2
    <3> QED BY <1>4, <2>3, <3>1, <3>2
  <2>4. CASE k - Len(R) \in DOMAIN A /\ queue'[k] = A[k - Len(R)]
    BY <2>2, <2>4
  <2> QED BY <1>3, <2>3, <2>4
<1>7. ArrivalOrder'
  <2> SUFFICES ASSUME NEW i \in DOMAIN queue', NEW k \in DOMAIN queue', i < k,
                      queue'[i].kind = "command", queue'[k].kind = "update_exit"
               PROVE  queue'[i].key <= queue'[k].key
    BY DEF ArrivalOrder
  <2>1. CASE /\ i \in DOMAIN R /\ queue'[i] = R[i]
             /\ k \in DOMAIN R /\ queue'[k] = R[k]
    <3>1. queue[f[i]].key <= queue[f[k]].key
      <4>1. f[i] \in DOMAIN queue /\ f[k] \in DOMAIN queue /\ f[i] < f[k]
        BY <1>1, <1>4, <2>1
      <4>2. queue[f[i]].kind = "command" /\ queue[f[k]].kind = "update_exit"
        BY <1>4, <2>1
      <4> QED BY <4>1, <4>2 DEF ArrivalOrder
    <3> QED BY <1>1, <2>1, <3>1
  <2>2. CASE /\ i \in DOMAIN R /\ queue'[i] = R[i]
             /\ k - Len(R) \in DOMAIN A /\ queue'[k] = A[k - Len(R)]
    <3>1. f[i] \in DOMAIN queue /\ queue[f[i]].kind = "command"
      BY <1>4, <2>2
    <3>2. queue'[k].key = NowOf(wall)
      BY <2>2, <3>1
    <3>3. R[i].key <= NowOf(wall)
      BY <1>1, <2>2, <3>1 DEF Rebased
    <3> QED BY <2>2, <3>2, <3>3
  <2>3. CASE /\ i - Len(R) \in DOMAIN A /\ queue'[i] = A[i - Len(R)]
             /\ k \in DOMAIN R /\ queue'[k] = R[k]
    <3>1. i > Len(R) /\ k <= Len(R) /\ i \in Nat /\ k \in Nat
      BY <1>3, <2>3
    <3> QED BY <1>3, <3>1
  <2>4. CASE /\ i - Len(R) \in DOMAIN A /\ queue'[i] = A[i - Len(R)]
             /\ k - Len(R) \in DOMAIN A /\ queue'[k] = A[k - Len(R)]
    <3>1. Len(A) = 1
      BY <2>4
    <3>2. i = k
      BY <1>3, <2>4, <3>1
    <3> QED BY <1>3, <3>2
  <2> QED BY <1>3, <2>1, <2>2, <2>3, <2>4
<1> QED BY <1>5, <1>6, <1>7

\* What learns of an outage's end stays before any exit of an update.
LEMMA LearnerStays ==
  ASSUME TypeOK, ForwardOK, backs = 0,
         NEW R, NEW h \in Nat, Derived(R, h), NEW A \in Seq(Item), queue' = R \o A,
         NEW r \in Runs, NEW k \in DOMAIN queue \ {h}, Learns(k, r), BeforeExit(k),
         ended' = ended, pos'.last \in Nat, pos'.last >= pos.last,
         \A m \in DOMAIN A : A[m].kind = "update_exit" => queue[k].key <= A[m].key
  PROVE  \E i \in DOMAIN queue' : Learns(i, r)' /\ BeforeExit(i)'
<1>1. PICK f \in [DOMAIN R -> DOMAIN queue \ {h}] :
       /\ \A n \in DOMAIN queue \ {h} : \E i \in DOMAIN R : f[i] = n
       /\ \A i, n \in DOMAIN R : i < n => f[i] < f[n]
       /\ Forward => \A i \in DOMAIN R : R[i] = queue[f[i]]
  BY DEF Derived
<1>2. R \in Seq(Item)
  BY DEF Derived
<1>3. /\ Len(R) \in Nat /\ DOMAIN R = 1..Len(R) /\ DOMAIN A = 1..Len(A) /\ Len(A) \in Nat
      /\ DOMAIN queue' = 1..(Len(R) + Len(A))
      /\ \A i \in DOMAIN R : i \in DOMAIN queue' /\ queue'[i] = R[i]
      /\ \A i \in DOMAIN queue' :
           \/ i \in DOMAIN R /\ queue'[i] = R[i]
           \/ i - Len(R) \in DOMAIN A /\ queue'[i] = A[i - Len(R)]
  BY <1>2, NextQueue
<1>4. \A i \in DOMAIN R : R[i] = queue[f[i]] /\ f[i] \in DOMAIN queue /\ f[i] \in Nat
  BY <1>1, <1>3, ForwardFacts, QueueItems
<1>5. PICK i \in DOMAIN R : f[i] = k
  BY <1>1
<1>6. queue'[i] = queue[k] /\ i \in DOMAIN queue' /\ queue[k].key \in Nat
  <2>1. queue[k] \in Item
    BY QueueItems
  <2> QED BY <1>3, <1>4, <1>5, <2>1 DEF Item
<1>7. pos.last \in Nat /\ ended[r] \in Nat
  BY Numbers DEF TypeOK
<1>8. Learns(i, r)'
  <2>1. \/ queue[k].kind = "catch_up" /\ queue[k].key <= pos.last
        \/ /\ queue[k].kind = "completion" /\ queue[k].what = r
           /\ queue[k].key <= Later(ended[r], pos.last)
    BY DEF Learns
  <2>2. queue[k].key <= pos.last => queue[k].key <= pos'.last
    BY <1>6, <1>7
  <2>3. queue[k].key <= Later(ended[r], pos.last) => queue[k].key <= Later(ended[r], pos'.last)
    BY <1>6, <1>7 DEF Later
  <2> QED BY <1>6, <2>1, <2>2, <2>3 DEF Learns
<1>9. BeforeExit(i)'
  <2> SUFFICES ASSUME NEW n \in DOMAIN queue', queue'[n].kind = "update_exit"
               PROVE  i < n /\ queue'[i].key <= queue'[n].key
    BY DEF BeforeExit
  <2>1. CASE n \in DOMAIN R /\ queue'[n] = R[n]
    <3>1. k < f[n] /\ queue[k].key <= queue[f[n]].key
      BY <1>4, <2>1 DEF BeforeExit
    <3>2. i < n
      BY <1>1, <1>3, <1>4, <1>5, <2>1, <3>1
    <3> QED BY <1>4, <1>6, <2>1, <3>1, <3>2
  <2>2. CASE n - Len(R) \in DOMAIN A /\ queue'[n] = A[n - Len(R)]
    <3>1. i < n
      BY <1>3, <2>2
    <3> QED BY <1>6, <2>2, <3>1
  <2> QED BY <1>3, <2>1, <2>2
<1> QED BY <1>6, <1>8, <1>9

LEMMA DueStep ==
  ASSUME TickInv, DueInv, TickInv', TimersOK', phase # "down",
         NEW R, NEW h \in Nat, Derived(R, h), NEW A \in Seq(Item), queue' = R \o A,
         lastWall' = wall, UNCHANGED <<wall, backs, ended, outage>>,
         pos'.last >= pos.last,
         \A r \in outage : status'[r] = "live" =>
           status[r] = "live" /\ (h \in DOMAIN queue => ~Learns(h, r)),
         backs = 0 => /\ front' <= wall /\ pos'.last <= wall
                      /\ \A m \in DOMAIN A : A[m].key <= wall
                      /\ \A t \in missed' : t[2] <= wall,
         \A m \in DOMAIN A : A[m].kind # "catch_up",
         (\E i \in DOMAIN queue \ {h} : queue[i].kind = "catch_up")
            => \A m \in DOMAIN A : A[m].kind = "tick",
         \A m \in DOMAIN A : A[m].kind = "update_exit" =>
           /\ Len(A) = 1
           /\ (\E i \in DOMAIN queue : queue[i].kind = "command") => A[m].key = NowOf(wall)
           /\ backs = 0 => \A k \in DOMAIN queue : queue[k].key <= A[m].key
  PROVE  DueInv'
<1>1. /\ TypeOK /\ TypeOK' /\ TimersOK /\ ForwardOK /\ OutageOK /\ CatchUpAlone /\ ArrivalOrder
  BY DEF TickInv, DueInv
<1>2. /\ backs = 0 => \A i \in DOMAIN queue' : queue'[i].key <= wall
      /\ CatchUpAlone' /\ ArrivalOrder'
  BY <1>1, QueueKept
<1>3. ForwardOK'
  <2> SUFFICES ASSUME backs = 0
               PROVE  /\ front' <= wall /\ wall <= wall /\ pos'.last <= wall
                      /\ \A i \in DOMAIN queue' : queue'[i].key <= wall
                      /\ \A t \in missed' : t[2] <= wall
                      /\ \A r \in Runs : ended[r] # Never => ended[r] <= wall
    BY DEF ForwardOK
  <2>1. wall <= wall
    BY <1>1, Numbers
  <2>2. \A r \in Runs : ended[r] # Never => ended[r] <= wall
    BY <1>1, ForwardFacts
  <2> QED BY <1>2, <2>1, <2>2
<1>4. OutageOK'
  <2> SUFFICES ASSUME backs = 0, NEW r \in outage, status'[r] = "live"
               PROVE  \E i \in DOMAIN queue' : Learns(i, r)' /\ BeforeExit(i)'
    BY DEF OutageOK
  <2>1. r \in Runs /\ pos'.last \in Nat
    BY <1>1 DEF TypeOK
  <2>2. PICK k \in DOMAIN queue : Learns(k, r) /\ BeforeExit(k)
    BY <1>1 DEF OutageOK, Up
  <2>3. k \in DOMAIN queue \ {h}
    BY <2>2
  <2>4. \A m \in DOMAIN A : A[m].kind = "update_exit" => queue[k].key <= A[m].key
    BY <2>2
  <2> QED BY <1>1, <2>1, <2>2, <2>3, <2>4, LearnerStays
<1> QED BY <1>2, <1>3, <1>4 DEF DueInv

\* A step that appends nothing.
LEMMA DueShort ==
  ASSUME TickInv, DueInv, TickInv', TimersOK', phase # "down",
         NEW R, NEW h \in Nat, Derived(R, h), queue' = R,
         lastWall' = wall, UNCHANGED <<wall, backs, ended, outage>>,
         pos'.last >= pos.last,
         \A r \in outage : status'[r] = "live" =>
           status[r] = "live" /\ (h \in DOMAIN queue => ~Learns(h, r)),
         backs = 0 => /\ front' <= wall /\ pos'.last <= wall
                      /\ \A t \in missed' : t[2] <= wall
  PROVE  DueInv'
<1>1. R \in Seq(Item)
  BY DEF Derived
<1>2. PICK A \in Seq(Item) : A = <<>> /\ queue' = R \o A /\ DOMAIN A = {}
  BY <1>1, NothingAppended
<1>3. \A m \in DOMAIN A : FALSE
  BY <1>2
<1> QED BY <1>2, <1>3, DueStep

\* The deadlines of a step that adds none.
LEMMA TimersKept ==
  ASSUME TypeOK, TimersOK, timers' \subseteq timers, launched \subseteq launched',
         \A r \in Runs : status'[r] = "new" => status[r] = "new",
         \A r \in launched' : r \in launched \/ status'[r] # "new",
         ended' = ended, outage' = outage
  PROVE  TimersOK'
<1>1. \A t \in timers : t.run \in Runs
  BY DEF TypeOK
<1>2. \A r \in launched : r \in Runs
  BY DEF TypeOK
<1>3. \A t \in timers' : status'[t.run] # "new"
  BY <1>1 DEF TimersOK
<1>4. \A t, u \in timers' : t.run = u.run => t = u
  BY DEF TimersOK
<1>5. \A r \in launched' : status'[r] # "new"
  BY <1>2 DEF TimersOK
<1>6. outage' \subseteq launched' /\ \A r \in outage' : ended'[r] # Never
  BY DEF TimersOK
<1> QED BY <1>3, <1>4, <1>5, <1>6 DEF TimersOK

\* The deadlines of an admission: those of the runs it starts are their first.
LEMMA TimersAdmitted ==
  ASSUME TickInv, TimersOK, NEW over \in SUBSET Runs, NEW runs \in SUBSET Runs,
         \A r \in runs : status[r] = "new", NEW at \in Nat, at >= front, Admit(over, runs, at),
         UNCHANGED <<dropped, since, phase, ended, outage>>
  PROVE  TimersOK'
<1>1. TypeOK /\ FrontOK /\ RecordsOK
  BY DEF TickInv
<1>2. /\ AdmissionType' /\ launched \subseteq launched'
      /\ timers' = (timers \ FiredBy(at)) \cup {[due |-> at + Delay[r], run |-> r] : r \in runs}
      /\ status' = [r \in Runs |-> IF r \in runs THEN "live"
                                 ELSE IF r \in over THEN "done" ELSE TimeHalf(at)[r]]
  <2>1. UNCHANGED <<dropped, since, phase>>
    OBVIOUS
  <2>2. AdmissionType' /\ launched \subseteq launched'
    BY <1>1, <2>1, Admitted
  <2> QED BY <2>2 DEF Admit
<1>3. \A r \in Runs : status'[r] = "new" => status[r] = "new"
  <2> TAKE r \in Runs
  <2>1. \/ TimeHalf(at)[r] = status[r]
        \/ status[r] = "live" /\ TimeHalf(at)[r] = "killed"
    BY <1>1, HalfFacts
  <2> QED BY <1>2, <2>1
<1>4. \A r \in runs : status'[r] = "live"
  BY <1>2
<1>5. launched' \subseteq launched \cup runs
  BY DEF Admit, Dispatch
<1>6. \A t \in timers' : t \in timers \/ \E r \in runs : t = [due |-> at + Delay[r], run |-> r]
  BY <1>2
<1>7. \A t \in timers : t.run \in Runs /\ status[t.run] # "new"
  BY <1>1 DEF TimersOK, TypeOK
<1>8. \A t \in timers' : status'[t.run] # "new"
  <2> TAKE t \in timers'
  <2>1. CASE t \in timers
    BY <1>3, <1>7, <2>1
  <2>2. ASSUME NEW r \in runs, t = [due |-> at + Delay[r], run |-> r]  PROVE status'[t.run] # "new"
    BY <1>4, <2>2
  <2> QED BY <1>6, <2>1, <2>2
<1>9. \A t, u \in timers' : t.run = u.run => t = u
  <2> SUFFICES ASSUME NEW t \in timers', NEW u \in timers', t.run = u.run  PROVE t = u
    OBVIOUS
  <2>1. \A r \in runs : \A x \in timers : x.run # r
    BY <1>7
  <2>2. CASE t \in timers /\ u \in timers
    BY <2>2 DEF TimersOK
  <2>3. ASSUME NEW r \in runs, t = [due |-> at + Delay[r], run |-> r]  PROVE t = u
    <3>1. t.run = r
      BY <2>3
    <3>2. u \notin timers
      BY <2>1, <3>1
    <3>3. PICK s \in runs : u = [due |-> at + Delay[s], run |-> s]
      BY <1>6, <3>2
    <3>4. s = r
      BY <3>1, <3>3
    <3> QED BY <2>3, <3>3, <3>4
  <2>4. ASSUME NEW r \in runs, u = [due |-> at + Delay[r], run |-> r], t \in timers  PROVE FALSE
    <3>1. u.run = r
      BY <2>4
    <3> QED BY <2>1, <2>4, <3>1
  <2> QED BY <1>6, <2>2, <2>3, <2>4
<1>10. \A r \in launched' : status'[r] # "new"
  <2>1. \A r \in launched : r \in Runs /\ status[r] # "new"
    BY <1>1 DEF TimersOK, TypeOK
  <2> QED BY <1>3, <1>4, <1>5, <2>1
<1>11. outage' \subseteq launched' /\ \A r \in outage' : ended'[r] # Never
  BY <1>2 DEF TimersOK
<1> QED BY <1>8, <1>9, <1>10, <1>11 DEF TimersOK

LEMMA AdmittedDue ==
  ASSUME TickInv, DueInv, TickInv', Passes("event"), NEW h, h = HeadOf(Noted),
         NEW over \in SUBSET Runs, NEW runs \in SUBSET Runs, \A r \in runs : status[r] = "new",
         NEW at \in Nat, at >= front, at <= wall \/ at = front, Admit(over, runs, at),
         queue' = Rest(Noted), \A r \in outage : status'[r] = "live" => ~Learns(h, r),
         UNCHANGED <<world, pend, consumed, phase, missed, update, dropped, anchors>>
  PROVE  DueInv'
<1>1. TypeOK /\ ItemsOK /\ FrontOK /\ RecordsOK /\ TimersOK /\ ForwardOK
  BY DEF TickInv, DueInv
<1>2. PICK R : R = Rest(Noted)
  OBVIOUS
<1>3. h \in Nat /\ Derived(R, h) /\ phase # "down" /\ lastWall' = wall
  <2>1. PICK p : p = Noted[h]
    OBVIOUS
  <2> QED BY <1>1, <1>2, <2>1, TakenHead
<1>4. /\ UNCHANGED <<dropped, since, phase>> /\ missed' = missed
      /\ UNCHANGED <<wall, backs, ended, outage>>
  BY DEF world, anchors
<1>5. TimersOK'
  <2>1. UNCHANGED <<dropped, since, phase, ended, outage>>
    BY <1>4
  <2> QED BY <1>1, <2>1, TimersAdmitted
<1>6. /\ front' = at /\ pos'.last \in {pos.last, at, wall} /\ pos'.last >= pos.last
      /\ status' = [r \in Runs |-> IF r \in runs THEN "live"
                                 ELSE IF r \in over THEN "done" ELSE TimeHalf(at)[r]]
  <2>1. front' = at /\ pos'.last \in {pos.last, at, wall} /\ pos'.last >= pos.last
    BY <1>1, <1>4, Admitted
  <2> QED BY <2>1 DEF Admit
<1>7. \A r \in outage : status'[r] = "live" => status[r] = "live"
  <2> TAKE r \in outage
  <2>1. r \in Runs /\ r \in launched
    BY <1>1 DEF TypeOK, TimersOK
  <2>2. r \notin runs
    BY <1>1, <2>1 DEF TimersOK
  <2>3. \/ TimeHalf(at)[r] = status[r]
        \/ status[r] = "live" /\ TimeHalf(at)[r] = "killed"
    BY <1>1, <2>1, HalfFacts
  <2> QED BY <1>6, <2>1, <2>2, <2>3
<1>8. backs = 0 => /\ front' <= wall /\ pos'.last <= wall
                   /\ \A t \in missed' : t[2] <= wall
  <2> SUFFICES ASSUME backs = 0
               PROVE  front' <= wall /\ pos'.last <= wall /\ \A t \in missed' : t[2] <= wall
    OBVIOUS
  <2>1. front <= wall /\ pos.last <= wall /\ wall <= wall
    BY <1>1, ForwardFacts, Numbers
  <2>2. \A t \in missed : t[2] <= wall
    BY <1>1 DEF ForwardOK
  <2>3. at <= wall
    BY <2>1
  <2> QED BY <1>4, <1>6, <2>1, <2>2, <2>3
<1>9. queue' = R
  BY <1>2
<1> QED BY <1>3, <1>4, <1>5, <1>6, <1>7, <1>8, <1>9, DueShort

LEMMA TakeInputDue == ASSUME TickInv, DueInv, TickInv', TakeInput  PROVE DueInv'
<1>1. TypeOK /\ ItemsOK /\ FrontOK /\ RecordsOK /\ TimersOK /\ ForwardOK
  BY DEF TickInv, DueInv
<1>2. PICK h : h = HeadOf(Noted)
  OBVIOUS
<1>3. PICK p : p = Noted[h]
  OBVIOUS
<1>4. Passes("event") /\ queue' = Rest(Noted)
      /\ UNCHANGED <<world, pend, consumed, phase, missed, update, dropped, anchors>>
  BY DEF TakeInput
<1>5. /\ h \in DOMAIN queue /\ h \in Nat /\ p \in Item /\ Rebased(p, queue[h]) /\ ItemOK(queue[h])
      /\ p.at \in Nat /\ Derived(Rest(Noted), h) /\ phase # "down" /\ lastWall' = wall
  BY <1>1, <1>2, <1>3, <1>4, TakenHead
<1>6. p.kind = queue[h].kind /\ p.what = queue[h].what
  BY <1>5 DEF Rebased
<1>7. PICK at : at = StampOf(p.at)
  OBVIOUS
<1>8. at \in Nat /\ at >= front /\ (at <= wall \/ at = front)
  BY <1>1, <1>5, <1>7, StampFacts
<1>9. \/ p.kind = "command" /\ Command(p.what, at)
      \/ p.kind = "completion" /\ Completion(p.what, at)
      \/ p.kind = "tick" /\ AdmitTick(p.what, at)
  BY <1>2, <1>3, <1>7 DEF TakeInput
<1>10. CASE p.kind = "command" /\ Command(p.what, at)
  <2>1. p.what \in Runs /\ queue[h].kind = "command"
    BY <1>5, <1>6, <1>10 DEF ItemOK
  <2>2. PICK runs \in SUBSET Runs : Admit({}, runs, at) /\ \A r \in runs : status[r] = "new"
    BY <1>10, <2>1 DEF Command
  <2>3. PICK over \in SUBSET Runs : Admit(over, runs, at)
    BY <2>2
  <2>4. \A r \in outage : ~Learns(h, r)
    BY <2>1 DEF Learns
  <2> QED BY <1>2, <1>4, <1>8, <2>2, <2>3, <2>4, AdmittedDue
<1>11. CASE p.kind = "completion" /\ Completion(p.what, at)
  <2>1. PICK run \in Runs : run = p.what
    BY <1>5, <1>6, <1>11 DEF ItemOK
  <2>2. queue[h].kind = "completion" /\ queue[h].what = run
    BY <1>6, <1>11, <2>1
  <2>3. \A r \in Follows[run] : r \in Runs
    BY ClockAssumption
  <2>4. PICK over \in SUBSET Runs, runs \in SUBSET Runs :
          /\ Admit(over, runs, at) /\ (\A r \in runs : status[r] = "new")
          /\ TimeHalf(at)[run] = "live" => run \in over
    BY <1>11, <2>1, <2>3 DEF Completion
  <2>6. status' = [r \in Runs |-> IF r \in runs THEN "live"
                                ELSE IF r \in over THEN "done" ELSE TimeHalf(at)[r]]
    BY <2>4 DEF Admit
  <2>7. \A r \in outage : status'[r] = "live" => ~Learns(h, r)
    <3> SUFFICES ASSUME NEW r \in outage, Learns(h, r)  PROVE status'[r] # "live"
      OBVIOUS
    <3>1. r = run
      BY <2>2 DEF Learns
    <3>2. status[run] # "new"
      BY <1>1, <3>1 DEF TimersOK
    <3>3. run \notin runs
      BY <2>4, <3>2
    <3> QED BY <2>4, <2>6, <3>1, <3>3
  <2> QED BY <1>2, <1>4, <1>8, <2>4, <2>7, AdmittedDue
<1>12. CASE p.kind = "tick" /\ AdmitTick(p.what, at)
  <2>1. PICK R : R = Rest(Noted)
    OBVIOUS
  <2>2. Derived(R, h) /\ queue' = R
    BY <1>4, <1>5, <2>1
  <2>3. /\ front' = at /\ timers' = timers \ FiredBy(at) /\ status' = TimeHalf(at)
        /\ launched' = launched /\ pos' = Semantic(pos, at, {<<p.what[1], at>>})
    BY <1>12 DEF AdmitTick
  <2>4. missed' = missed /\ UNCHANGED <<wall, backs, ended, outage>>
    BY <1>4 DEF world
  <2>5. \A r \in Runs : \/ status'[r] = status[r]
                        \/ status[r] = "live" /\ status'[r] = "killed"
    BY <1>1, <2>3, HalfFacts
  <2>6. TimersOK'
    <3>1. /\ timers' \subseteq timers /\ launched \subseteq launched'
          /\ \A r \in Runs : status'[r] = "new" => status[r] = "new"
          /\ \A r \in launched' : r \in launched \/ status'[r] # "new"
      BY <2>3, <2>5
    <3>2. ended' = ended /\ outage' = outage
      BY <2>4
    <3> QED BY <1>1, <3>1, <3>2, TimersKept
  <2>7. pos'.last \in {pos.last, at} /\ pos'.last >= pos.last
    <3>1. pos.last \in Nat
      BY <1>1 DEF TypeOK
    <3>2. pos'.last = Later(pos.last, at)
      BY <2>3 DEF Semantic
    <3> QED BY <1>8, <3>1, <3>2, LaterOf
  <2>8. \A r \in outage : status'[r] = "live" =>
          status[r] = "live" /\ (h \in DOMAIN queue => ~Learns(h, r))
    <3>1. \A r \in outage : r \in Runs
      BY <1>1 DEF TypeOK
    <3>2. queue[h].kind = "tick"
      BY <1>6, <1>12
    <3> QED BY <2>5, <3>1, <3>2 DEF Learns
  <2>9. backs = 0 => /\ front' <= wall /\ pos'.last <= wall
                     /\ \A t \in missed' : t[2] <= wall
    <3> SUFFICES ASSUME backs = 0
                 PROVE  front' <= wall /\ pos'.last <= wall /\ \A t \in missed' : t[2] <= wall
      OBVIOUS
    <3>1. front <= wall /\ pos.last <= wall /\ wall <= wall
      BY <1>1, ForwardFacts, Numbers
    <3>2. \A t \in missed : t[2] <= wall
      BY <1>1 DEF ForwardOK
    <3>3. at <= wall
      BY <1>8, <3>1
    <3> QED BY <2>3, <2>4, <2>7, <3>1, <3>2, <3>3
  <2> QED BY <1>5, <2>2, <2>4, <2>6, <2>7, <2>8, <2>9, DueShort
<1> QED BY <1>9, <1>10, <1>11, <1>12

\* A time observation, from the queue or from a timer.
LEMMA ObservedDue ==
  ASSUME TickInv, DueInv, TickInv', phase # "down",
         NEW R, NEW h \in Nat, Derived(R, h), queue' = R,
         h \in DOMAIN queue => queue[h].kind = "update_exit",
         NEW at \in Nat, at >= front, at <= wall \/ at = front, Observe(at),
         lastWall' = wall, UNCHANGED <<world, phase, missed, dropped, since>>
  PROVE  DueInv'
<1>1. TypeOK /\ FrontOK /\ RecordsOK /\ TimersOK /\ ForwardOK
  BY DEF TickInv, DueInv
<1>2. /\ UNCHANGED <<dropped, since, phase>> /\ missed' = missed
      /\ UNCHANGED <<wall, backs, ended, outage>>
  BY DEF world
<1>3. /\ front' = at /\ timers' \subseteq timers
      /\ pos'.last \in {pos.last, at} /\ pos'.last >= pos.last
      /\ \A r \in Runs : \/ status'[r] = status[r]
                         \/ status[r] = "live" /\ status'[r] = "killed"
  BY <1>1, <1>2, Observed
<1>4. launched' = launched
  BY DEF Observe
<1>5. TimersOK'
  BY <1>1, <1>2, <1>3, <1>4, TimersKept
<1>6. \A r \in outage : status'[r] = "live" =>
        status[r] = "live" /\ (h \in DOMAIN queue => ~Learns(h, r))
  <2>1. \A r \in outage : r \in Runs
    BY <1>1 DEF TypeOK
  <2> QED BY <1>3, <2>1 DEF Learns
<1>7. backs = 0 => /\ front' <= wall /\ pos'.last <= wall
                   /\ \A t \in missed' : t[2] <= wall
  <2> SUFFICES ASSUME backs = 0
               PROVE  front' <= wall /\ pos'.last <= wall /\ \A t \in missed' : t[2] <= wall
    OBVIOUS
  <2>1. front <= wall /\ pos.last <= wall /\ wall <= wall
    BY <1>1, ForwardFacts, Numbers
  <2>2. \A t \in missed : t[2] <= wall
    BY <1>1 DEF ForwardOK
  <2>3. at <= wall
    BY <2>1
  <2> QED BY <1>2, <1>3, <2>1, <2>2, <2>3
<1> QED BY <1>2, <1>3, <1>5, <1>6, <1>7, DueShort

LEMMA TakeTimerDue == ASSUME TickInv, DueInv, TickInv', TakeTimer  PROVE DueInv'
<1>1. TypeOK /\ ItemsOK
  BY DEF TickInv
<1>2. /\ Passes("timer") /\ queue' = Noted /\ lastWall' = wall /\ phase # "down"
      /\ UNCHANGED <<world, phase, missed, dropped, since>>
  BY DEF TakeTimer, Passes, Up, anchors
<1>3. PICK w : w = Work
  OBVIOUS
<1>4. w.at \in Nat
  <2>1. w = NextWork(Noted) /\ w.act = "timer"
    BY <1>2, <1>3 DEF Work, Passes
  <2> QED BY <1>1, <2>1, NotedAt, WorkFacts
<1>5. PICK at : at = StampOf(w.at)
  OBVIOUS
<1>6. at \in Nat /\ at >= front /\ (at <= wall \/ at = front)
  BY <1>1, <1>4, <1>5, StampFacts
<1>7. Observe(at)
  BY <1>3, <1>5 DEF TakeTimer
<1>8. PICK R : R = Noted
  OBVIOUS
<1>9. Derived(R, 0) /\ queue' = R
  BY <1>1, <1>2, <1>8, NotedDerived
<1>10. 0 \in DOMAIN queue => queue[0].kind = "update_exit"
  BY <1>1, QueueItems
<1> QED BY <1>2, <1>6, <1>7, <1>9, <1>10, ObservedDue

LEMMA TakeUpdateDue == ASSUME TickInv, DueInv, TickInv', TakeUpdate  PROVE DueInv'
<1>1. TypeOK /\ ItemsOK
  BY DEF TickInv
<1>2. PICK h : h = HeadOf(Noted)
  OBVIOUS
<1>3. PICK p : p = Noted[h]
  OBVIOUS
<1>4. PICK R : R = Rest(Noted)
  OBVIOUS
<1>5. PICK at \in Nat : at = NowOf(wall) /\ at >= front /\ (at <= wall \/ at = front)
  <2>1. NowOf(wall) = Later(wall, front) /\ NowOf(wall) \in Nat /\ NowOf(wall) >= front
    BY <1>1, Numbers DEF NowOf
  <2>2. Later(wall, front) <= wall \/ Later(wall, front) = front
    BY <1>1, Numbers DEF Later
  <2> QED BY <2>1, <2>2
<1>6. /\ Passes("event") /\ p.kind = "update_exit" /\ Observe(at) /\ queue' = R
      /\ UNCHANGED <<world, phase, missed, dropped, since>>
  BY <1>2, <1>3, <1>4, <1>5 DEF TakeUpdate
<1>7. /\ h \in DOMAIN queue /\ h \in Nat /\ Rebased(p, queue[h])
      /\ Derived(R, h) /\ phase # "down" /\ lastWall' = wall
  BY <1>1, <1>2, <1>3, <1>4, <1>6, TakenHead
<1>8. queue[h].kind = "update_exit"
  BY <1>6, <1>7 DEF Rebased
<1> QED BY <1>5, <1>6, <1>7, <1>8, ObservedDue

LEMMA PopDueForward == ASSUME TickInv, DueInv, TickInv', PopDue  PROVE DueInv'
<1>1. TypeOK /\ ItemsOK /\ PendOK /\ TimersOK /\ ForwardOK
  BY DEF TickInv, DueInv
<1>2. PICK at : at = Work.at
  OBVIOUS
<1>3. PICK due : due = {j \in Jobs : at \in pend[j]}
  OBVIOUS
<1>4. PICK A : A = Popped(due, at)
  OBVIOUS
<1>5. PICK R : R = Noted
  OBVIOUS
<1>6. /\ Passes("tick") /\ queue' = R \o A /\ lastWall' = wall
      /\ UNCHANGED <<world, oracle, phase, missed, deferred, after, records, anchors>>
  BY <1>2, <1>3, <1>4, <1>5 DEF PopDue, Push, Popped
<1>7. at \in Nat /\ at <= NowOf(wall)
  <2>1. PICK w : w = Work
    OBVIOUS
  <2>2. w = NextWork(Noted) /\ w.act = "tick"
    BY <1>6, <2>1 DEF Work, Passes
  <2>3. w.at = SchedDue /\ SchedDue <= NowOf(wall) /\ SchedDue \in Nat
    BY <1>1, <2>2, NotedAt, WorkFacts
  <2> QED BY <1>2, <2>1, <2>3
<1>8. due \in SUBSET Jobs /\ \A j \in due : <<j, at>> \in Ticks
  BY <1>1, <1>3 DEF PendOK
<1>9. /\ A \in Seq(Item)
      /\ \A m \in DOMAIN A : /\ A[m].kind = "tick"
                             /\ A[m].key = at \/ (A[m].key = front /\ wall < front)
  BY <1>4, <1>7, <1>8, PopFacts
<1>10. Derived(R, 0) /\ 0 \notin DOMAIN queue /\ phase # "down"
  BY <1>1, <1>5, <1>6, NotedDerived, QueueItems DEF Passes, Up
<1>11. /\ UNCHANGED <<front, timers, status, launched, pos, missed>>
       /\ UNCHANGED <<wall, backs, ended, outage>>
  BY <1>6 DEF world, oracle, records
<1>12. TimersOK'
  BY <1>1, <1>11, TimersKept
<1>13. backs = 0 => /\ front' <= wall /\ pos'.last <= wall
                    /\ \A m \in DOMAIN A : A[m].key <= wall
                    /\ \A t \in missed' : t[2] <= wall
  <2> SUFFICES ASSUME backs = 0
               PROVE  /\ front' <= wall /\ pos'.last <= wall
                      /\ \A m \in DOMAIN A : A[m].key <= wall
                      /\ \A t \in missed' : t[2] <= wall
    OBVIOUS
  <2>1. front <= wall /\ pos.last <= wall /\ NowOf(wall) = wall
    BY <1>1, ForwardFacts
  <2>2. \A t \in missed : t[2] <= wall
    BY <1>1 DEF ForwardOK
  <2> QED BY <1>7, <1>9, <1>11, <2>1, <2>2
<1>14. pos'.last >= pos.last
  BY <1>1, <1>11 DEF TypeOK
<1>15. 0 \in Nat /\ \A m \in DOMAIN A : A[m].kind # "catch_up" /\ A[m].kind # "update_exit"
  BY <1>9
<1>16. \A r \in outage : status'[r] = "live" =>
         status[r] = "live" /\ (0 \in DOMAIN queue => ~Learns(0, r))
  BY <1>10, <1>11
<1>17. \A m \in DOMAIN A : A[m].kind = "tick"
  BY <1>9
<1> QED BY <1>6, <1>9, <1>10, <1>11, <1>12, <1>13, <1>14, <1>15, <1>16, <1>17, DueStep

LEMMA FinishRecoveryDue == ASSUME TickInv, DueInv, TickInv', FinishRecovery  PROVE DueInv'
<1>1. TypeOK /\ ItemsOK /\ FrontOK /\ TimersOK /\ ForwardOK
  BY DEF TickInv, DueInv
<1>2. /\ phase = "recovering" /\ missed' = {} /\ launched' = launched \cup Standing
      /\ queue' = Noted /\ lastWall' = wall
      /\ UNCHANGED <<front, timers, status>> /\ UNCHANGED <<wall, backs, ended, outage>>
  BY DEF FinishRecovery, Barrier, world, oracle
<1>3. /\ pos' \in PosType /\ pos'.last >= pos.last
      /\ pos'.last \in {pos.last, wall} \/ \E x \in missed : pos'.last = x[2]
  BY <1>1, RecoveryPos
<1>4. PICK R : R = Noted
  OBVIOUS
<1>5. Derived(R, 0) /\ queue' = R /\ 0 \notin DOMAIN queue /\ 0 \in Nat
  BY <1>1, <1>2, <1>4, NotedDerived, QueueItems
<1>6. TimersOK'
  <2>1. \A r \in launched' : r \in launched \/ status'[r] # "new"
    BY <1>2 DEF Standing
  <2>2. timers' \subseteq timers /\ launched \subseteq launched'
    BY <1>2
  <2> QED BY <1>1, <1>2, <2>1, <2>2, TimersKept
<1>7. backs = 0 => /\ front' <= wall /\ pos'.last <= wall
                   /\ \A t \in missed' : t[2] <= wall
  <2> SUFFICES ASSUME backs = 0
               PROVE  front' <= wall /\ pos'.last <= wall /\ \A t \in missed' : t[2] <= wall
    OBVIOUS
  <2>1. front <= wall /\ pos.last <= wall /\ wall <= wall
    BY <1>1, ForwardFacts, Numbers
  <2>2. \A t \in missed : t[2] <= wall
    BY <1>1 DEF ForwardOK
  <2> QED BY <1>2, <1>3, <2>1, <2>2
<1>8. phase # "down" /\ \A r \in outage : status'[r] = "live" =>
        status[r] = "live" /\ (0 \in DOMAIN queue => ~Learns(0, r))
  BY <1>2, <1>5
<1> QED BY <1>2, <1>3, <1>5, <1>6, <1>7, <1>8, DueShort

LEMMA RaisedDue ==
  ASSUME TickInv, DueInv, TickInv', NEW x \in Item, x.at <= x.key, Push(<<x>>), phase # "down",
         x.kind \in {"command", "completion", "update_exit"},
         \A i \in DOMAIN queue : queue[i].kind # "catch_up",
         backs = 0 => x.key <= wall,
         x.kind = "update_exit" =>
           /\ (\E i \in DOMAIN queue : queue[i].kind = "command") => Stamped(x).key = NowOf(wall)
           /\ backs = 0 => \A k \in DOMAIN queue : queue[k].key <= x.key,
         UNCHANGED <<world, Inputs, records, anchors>>
  PROVE  DueInv'
<1>1. TypeOK /\ ItemsOK /\ TimersOK /\ ForwardOK
  BY DEF TickInv, DueInv
<1>2. PICK A \in Seq(Item) : /\ A = <<Stamped(x)>> /\ DOMAIN A = {1} /\ Len(A) = 1
                             /\ A[1] = Stamped(x) /\ A[1] \in Item
                             /\ queue' = Noted \o A /\ lastWall' = wall
  BY <1>1, PushOne
<1>3. PICK R : R = Noted
  OBVIOUS
<1>4. Derived(R, 0) /\ queue' = R \o A /\ 0 \notin DOMAIN queue /\ 0 \in Nat
  BY <1>1, <1>2, <1>3, NotedDerived, QueueItems
<1>5. /\ UNCHANGED <<front, timers, status, launched, pos, missed>>
      /\ UNCHANGED <<wall, backs, ended, outage>>
  BY DEF world, Inputs, records
<1>6. PICK y : y = Stamped(x)
  OBVIOUS
<1>7. y.kind = x.kind /\ (y = x \/ wall < front)
  BY <1>1, <1>6, StampedFacts
<1>8. \A m \in DOMAIN A : A[m] = y
  BY <1>2, <1>6
<1>9. backs = 0 => y = x
  <2>1. backs = 0 => front <= wall /\ front \in Nat /\ wall \in Nat
    BY <1>1, ForwardFacts, Numbers
  <2> QED BY <1>7, <2>1
<1>10. TimersOK'
  BY <1>1, <1>5, TimersKept
<1>11. backs = 0 => /\ front' <= wall /\ pos'.last <= wall
                    /\ \A m \in DOMAIN A : A[m].key <= wall
                    /\ \A t \in missed' : t[2] <= wall
  <2> SUFFICES ASSUME backs = 0
               PROVE  /\ front' <= wall /\ pos'.last <= wall
                      /\ \A m \in DOMAIN A : A[m].key <= wall
                      /\ \A t \in missed' : t[2] <= wall
    OBVIOUS
  <2>1. front <= wall /\ pos.last <= wall
    BY <1>1, ForwardFacts
  <2>2. \A t \in missed : t[2] <= wall
    BY <1>1 DEF ForwardOK
  <2> QED BY <1>5, <1>8, <1>9, <2>1, <2>2
<1>12. pos'.last >= pos.last
  BY <1>1, <1>5 DEF TypeOK
<1>13. \A r \in outage : status'[r] = "live" =>
         status[r] = "live" /\ (0 \in DOMAIN queue => ~Learns(0, r))
  BY <1>4, <1>5
<1>14. \A m \in DOMAIN A : A[m].kind # "catch_up"
  BY <1>7, <1>8
<1>15. ~(\E i \in DOMAIN queue \ {0} : queue[i].kind = "catch_up")
  OBVIOUS
<1>16. \A m \in DOMAIN A : A[m].kind = "update_exit" =>
         /\ Len(A) = 1
         /\ (\E i \in DOMAIN queue : queue[i].kind = "command") => A[m].key = NowOf(wall)
         /\ backs = 0 => \A k \in DOMAIN queue : queue[k].key <= A[m].key
  BY <1>2, <1>6, <1>7, <1>8, <1>9
<1> QED BY <1>2, <1>4, <1>5, <1>10, <1>11, <1>12, <1>13, <1>14, <1>15, <1>16, DueStep

LEMMA RaiseDue == ASSUME TickInv, DueInv, TickInv', NEW run \in Runs, Raise(run)  PROVE DueInv'
<1>1. TypeOK /\ ItemsOK /\ ForwardOK
  BY DEF TickInv, DueInv
<1>2. PICK n \in Nat : n = NowOf(wall)
  BY <1>1, Numbers
<1>3. PICK x : x = Pending("command", run, n)
  OBVIOUS
<1>4. "command" \in Kinds /\ run \in Runs \cup Ticks \cup {<<>>}
  BY DEF Kinds
<1>5. x \in Item /\ x.kind = "command" /\ x.what = run /\ x.at = n /\ x.key = n
  BY <1>3, <1>4, PendingItem
<1>6. x.at <= x.key
  BY <1>5
<1>7. Push(<<x>>) /\ phase = "running" /\ UNCHANGED <<world, Inputs, records, anchors>>
  BY <1>2, <1>3 DEF Raise
<1>8. \A i \in DOMAIN queue : queue[i].kind # "catch_up"
  BY <1>1, <1>7 DEF ItemsOK, ItemOK
<1>9. backs = 0 => x.key <= wall
  BY <1>1, <1>2, <1>5, ForwardFacts, Numbers
<1>10. x.kind # "update_exit" /\ x.kind \in {"command", "completion", "update_exit"}
  BY <1>5
<1>11. phase # "down"
  BY <1>7
<1> QED BY <1>5, <1>6, <1>7, <1>8, <1>9, <1>10, <1>11, RaisedDue

LEMMA ObserveEndDue ==
  ASSUME TickInv, DueInv, TickInv', NEW run \in Runs, ObserveEnd(run)  PROVE DueInv'
<1>1. TypeOK /\ ItemsOK /\ ForwardOK
  BY DEF TickInv, DueInv
<1>2. PICK n \in Nat : n = EndStamp(run)
  BY <1>1, EndStampFacts
<1>3. PICK x : x = Pending("completion", run, n)
  OBVIOUS
<1>4. "completion" \in Kinds /\ run \in Runs \cup Ticks \cup {<<>>}
  BY DEF Kinds
<1>5. x \in Item /\ x.kind = "completion" /\ x.what = run /\ x.at = n /\ x.key = n
  BY <1>3, <1>4, PendingItem
<1>6. x.at <= x.key
  BY <1>5
<1>7. /\ Push(<<x>>) /\ phase # "down" /\ UNCHANGED <<world, Inputs, records, anchors>>
      /\ ended[run] # Never
  BY <1>2, <1>3 DEF ObserveEnd, Up, ToObserve
<1>8. \A i \in DOMAIN queue : queue[i].kind # "catch_up"
  BY DEF ObserveEnd, CatchingUp
<1>9. backs = 0 => x.key <= wall
  <2> SUFFICES ASSUME backs = 0  PROVE n <= wall
    BY <1>5
  <2>1. front <= wall /\ ended[run] <= wall /\ NowOf(wall) = wall /\ wall \in Nat
    BY <1>1, <1>7, ForwardFacts, Numbers
  <2>2. EndStamp(run) = NowOf(wall) \/ EndStamp(run) = Later(ended[run], front)
    BY DEF EndStamp
  <2>3. Later(ended[run], front) <= wall
    BY <2>1 DEF Later
  <2> QED BY <1>2, <2>1, <2>2, <2>3
<1>10. x.kind # "update_exit" /\ x.kind \in {"command", "completion", "update_exit"}
  BY <1>5
<1> QED BY <1>5, <1>6, <1>7, <1>8, <1>9, <1>10, RaisedDue

LEMMA PostUpdateExitDue ==
  ASSUME TickInv, DueInv, TickInv', PostUpdateExit  PROVE DueInv'
<1>1. TypeOK /\ ItemsOK /\ ForwardOK
  BY DEF TickInv, DueInv
<1>2. PICK m : m = Max({wall} \cup {queue[i].key : i \in DOMAIN queue})
  OBVIOUS
<1>3. /\ m \in Nat /\ m >= wall /\ (\A i \in DOMAIN queue : queue[i].key <= m)
      /\ m = wall \/ \E i \in DOMAIN queue : m = queue[i].key
  BY <1>1, <1>2, ExitStamp
<1>4. PICK n : n = IF phase = "recovering" THEN Later(pos.last, m) ELSE wall
  OBVIOUS
<1>5. pos.last \in Nat /\ wall \in Nat /\ front \in Nat
  BY <1>1, Numbers DEF TypeOK
<1>6. n \in Nat
  BY <1>3, <1>4, <1>5, LaterOf
<1>7. PICK x : x = Pending("update_exit", <<>>, n)
  OBVIOUS
<1>8. "update_exit" \in Kinds /\ <<>> \in Runs \cup Ticks \cup {<<>>}
  BY DEF Kinds
<1>9. x \in Item /\ x.kind = "update_exit" /\ x.at = n /\ x.key = n
  BY <1>6, <1>7, <1>8, PendingItem
<1>10. x.at <= x.key
  BY <1>6, <1>9
<1>11. Push(<<x>>)
  BY <1>2, <1>4, <1>7 DEF PostUpdateExit
<1>12. /\ phase # "down" /\ UNCHANGED <<world, Inputs, records, anchors>>
       /\ \A i \in DOMAIN queue : queue[i].kind # "catch_up"
  BY DEF PostUpdateExit, Up, CatchingUp
<1>13. backs = 0 => x.key <= wall /\ \A k \in DOMAIN queue : queue[k].key <= x.key
  <2> SUFFICES ASSUME backs = 0  PROVE n <= wall /\ \A k \in DOMAIN queue : queue[k].key <= n
    BY <1>9
  <2>1. pos.last <= wall /\ \A i \in DOMAIN queue : queue[i].key <= wall
    BY <1>1, ForwardFacts
  <2>2. m <= wall
    BY <1>3, <1>5, <2>1
  <2>3. m = wall
    BY <1>3, <1>5, <2>2
  <2>4. n = wall
    BY <1>4, <1>5, <2>1, <2>3 DEF Later
  <2> QED BY <1>5, <2>1, <2>4
<1>14. (\E i \in DOMAIN queue : queue[i].kind = "command") => Stamped(x).key = NowOf(wall)
  <2> SUFFICES ASSUME NEW i \in DOMAIN queue, queue[i].kind = "command"
               PROVE  Stamped(x).key = NowOf(wall)
    OBVIOUS
  <2>1. phase = "running"
    BY <1>1 DEF ItemsOK, ItemOK
  <2>2. n = wall
    BY <1>4, <2>1
  <2>3. \/ Stamped(x) = x /\ ~(wall < front /\ x.at <= front)
        \/ wall < front /\ x.at <= front /\ Stamped(x).key = front
    BY <1>1, <1>9, <1>10, StampedFacts
  <2> QED BY <1>5, <1>9, <2>2, <2>3 DEF NowOf, Later
<1> QED BY <1>9, <1>10, <1>11, <1>12, <1>13, <1>14, RaisedDue

LEMMA TakeCatchUpDue == ASSUME TickInv, DueInv, TickInv', TakeCatchUp  PROVE DueInv'
<1>1. /\ TypeOK /\ TypeOK' /\ ItemsOK /\ FrontOK /\ TimersOK /\ ForwardOK /\ OutageOK
      /\ CatchUpAlone /\ ArrivalOrder
  BY DEF TickInv, DueInv
<1>2. PICK h : h = HeadOf(Noted)
  OBVIOUS
<1>3. PICK p : p = Noted[h]
  OBVIOUS
<1>4. PICK R : R = Rest(Noted)
  OBVIOUS
<1>5. PICK A : A = Caught
  OBVIOUS
<1>6. /\ Passes("event") /\ p.kind = "catch_up" /\ queue' = R \o A
      /\ UNCHANGED <<world, oracle, pend, consumed, phase, missed, deferred, after, records, anchors>>
  BY <1>2, <1>3, <1>4, <1>5 DEF TakeCatchUp, Caught
<1>7. /\ h \in DOMAIN queue /\ h \in Nat /\ Rebased(p, queue[h]) /\ ItemOK(queue[h])
      /\ Derived(R, h) /\ phase # "down" /\ lastWall' = wall
  BY <1>1, <1>2, <1>3, <1>4, <1>6, TakenHead
<1>8. queue[h].kind = "catch_up" /\ phase = "recovering"
  BY <1>6, <1>7 DEF Rebased, ItemOK
<1>9. /\ A \in Seq(Item)
      /\ \A m \in DOMAIN A : /\ A[m].kind = "completion" /\ A[m].what \in ToObserve /\ A[m].what \in Runs
                             /\ \/ A[m].key = EndStamp(A[m].what)
                                \/ A[m].key = front /\ wall < front
      /\ \A r \in ToObserve : \E m \in DOMAIN A : A[m].what = r
  BY <1>1, <1>5, CaughtFacts
<1>10. /\ UNCHANGED <<front, timers, status, launched, pos, missed>>
       /\ UNCHANGED <<wall, backs, ended, outage, phase>>
  BY <1>6 DEF world, oracle, records
<1>11. \A i \in DOMAIN queue : i = h \/ queue[i].kind = "tick"
  BY <1>1, <1>7, <1>8 DEF CatchUpAlone
<1>12. \A r \in Runs : EndStamp(r) = Later(ended[r], front) /\ ended[r] \in Nat
  <2>1. \A r \in Runs : ended[r] \in Nat
    BY <1>1, Numbers DEF TypeOK
  <2> QED BY <1>8, <2>1 DEF EndStamp
<1>13. backs = 0 => \A m \in DOMAIN A : /\ A[m].key <= wall
                                       /\ A[m].key <= Later(ended[A[m].what], pos.last)
  <2> SUFFICES ASSUME backs = 0, NEW m \in DOMAIN A
               PROVE  A[m].key <= wall /\ A[m].key <= Later(ended[A[m].what], pos.last)
    OBVIOUS
  <2>1. PICK r \in Runs : r = A[m].what
    BY <1>9
  <2>2. front <= wall /\ front \in Nat /\ wall \in Nat
    BY <1>1, ForwardFacts, Numbers
  <2>3. A[m].key = Later(ended[r], front)
    BY <1>9, <1>12, <2>1, <2>2
  <2>4. ended[r] <= wall
    BY <1>1, <1>9, <2>1, ForwardFacts DEF ToObserve
  <2>5. front <= pos.last /\ pos.last \in Nat /\ ended[r] \in Nat
    BY <1>1, <1>12 DEF TypeOK, FrontOK
  <2>6. Later(ended[r], front) <= wall
    BY <2>2, <2>4 DEF Later
  <2>7. Later(ended[r], front) <= Later(ended[r], pos.last)
    BY <2>2, <2>5 DEF Later
  <2> QED BY <2>1, <2>3, <2>6, <2>7
<1>14. /\ backs = 0 => \A i \in DOMAIN queue' : queue'[i].key <= wall
       /\ CatchUpAlone' /\ ArrivalOrder'
  <2>1. \A m \in DOMAIN A : A[m].kind # "catch_up" /\ A[m].kind # "update_exit"
    BY <1>9
  <2>2. ~(\E i \in DOMAIN queue \ {h} : queue[i].kind = "catch_up")
    BY <1>11
  <2>3. backs = 0 => \A m \in DOMAIN A : A[m].key <= wall
    BY <1>13
  <2> QED BY <1>1, <1>6, <1>7, <1>9, <2>1, <2>2, <2>3, QueueKept
<1>15. TimersOK'
  BY <1>1, <1>10, TimersKept
<1>16. ForwardOK'
  BY <1>1, <1>7, <1>10, <1>14, Numbers DEF ForwardOK
<1>17. OutageOK'
  <2> SUFFICES ASSUME backs = 0, NEW r \in outage, status[r] = "live"
               PROVE  \E i \in DOMAIN queue' : Learns(i, r)' /\ BeforeExit(i)'
    BY <1>10 DEF OutageOK
  <2>1. r \in ToObserve
    <3>1. r \in launched /\ ended[r] # Never
      BY <1>1 DEF TimersOK
    <3>2. \A i \in DOMAIN queue : queue[i].kind # "completion"
      BY <1>8, <1>11
    <3> QED BY <3>1, <3>2 DEF ToObserve
  <2>2. PICK m \in DOMAIN A : A[m].what = r
    BY <1>9, <2>1
  <2>3. R \in Seq(Item)
    BY <1>7 DEF Derived
  <2>4. Len(R) + m \in DOMAIN queue' /\ queue'[Len(R) + m] = A[m]
    BY <1>6, <1>9, <2>3, NextQueue
  <2>5. PICK i \in DOMAIN queue' : i = Len(R) + m /\ queue'[i] = A[m]
    BY <2>4
  <2>6. Learns(i, r)'
    BY <1>9, <1>10, <1>13, <2>2, <2>5 DEF Learns
  <2>7. \A k \in DOMAIN queue' : queue'[k].kind # "update_exit"
    <3>1. \A k \in DOMAIN R : R[k].kind # "update_exit"
      <4>1. PICK f \in [DOMAIN R -> DOMAIN queue \ {h}] :
              \A k \in DOMAIN R : Rebased(R[k], queue[f[k]])
        BY <1>7 DEF Derived
      <4> QED BY <1>11, <4>1 DEF Rebased
    <3>2. \A k \in DOMAIN queue' :
             \/ k \in DOMAIN R /\ queue'[k] = R[k]
             \/ k - Len(R) \in DOMAIN A /\ queue'[k] = A[k - Len(R)]
      BY <1>6, <1>9, <2>3, NextQueue
    <3> QED BY <1>9, <3>1, <3>2
  <2> QED BY <2>6, <2>7 DEF BeforeExit
<1> QED BY <1>14, <1>15, <1>16, <1>17 DEF DueInv

LEMMA OutsideDue ==
  ASSUME TickInv, DueInv, TickInv',
         RequestUpdate \/ ClockMoves \/ \E run \in Runs : ProcessEnds(run)
  PROVE  DueInv'
<1>1. TypeOK /\ TypeOK' /\ TimersOK /\ ForwardOK /\ OutageOK /\ CatchUpAlone /\ ArrivalOrder
  BY DEF TickInv, DueInv
<1>2. /\ UNCHANGED <<lastWall, queue, front, timers, status, phase, missed, launched, pos>>
      /\ wall' \in Nat /\ wall \in Nat
  <2>1. wall' \in Nat /\ wall \in Nat
    BY <1>1, Numbers DEF TypeOK
  <2> QED BY <2>1 DEF RequestUpdate, ClockMoves, ProcessEnds, Inputs, records
<1>3. CatchUpAlone' /\ ArrivalOrder'
  BY <1>1, <1>2 DEF CatchUpAlone, ArrivalOrder
<1>4. CASE RequestUpdate \/ ClockMoves
  <2>1. /\ ended' = ended /\ outage' = outage
        /\ backs' = 0 => backs = 0 /\ wall' >= wall
    <3>1. backs \in Nat
      BY <1>1 DEF TypeOK
    <3> QED BY <1>2, <1>4, <3>1 DEF RequestUpdate, ClockMoves, world
  <2>2. TimersOK'
    BY <1>1, <1>2, <2>1, TimersKept
  <2>3. ForwardOK'
    <3> SUFFICES ASSUME backs' = 0
                 PROVE  /\ front <= wall' /\ lastWall <= wall' /\ pos.last <= wall'
                        /\ \A i \in DOMAIN queue : queue[i].key <= wall'
                        /\ \A t \in missed : t[2] <= wall'
                        /\ \A r \in Runs : ended[r] # Never => ended[r] <= wall'
      BY <1>2, <2>1 DEF ForwardOK
    <3>1. backs = 0 /\ wall' >= wall
      BY <2>1
    <3>2. /\ front \in Nat /\ lastWall \in Nat /\ pos.last \in Nat
          /\ \A i \in DOMAIN queue : queue[i].key \in Nat
      BY <1>1, Numbers, QueueItems DEF TypeOK, Item
    <3>3. \A t \in missed : t[2] \in Nat
      BY <1>1, TickTypes DEF TypeOK
    <3>4. \A r \in Runs : ended[r] \in Nat
      BY <1>1, Numbers DEF TypeOK
    <3>5. /\ front <= wall /\ lastWall <= wall /\ pos.last <= wall
          /\ \A i \in DOMAIN queue : queue[i].key <= wall
          /\ \A t \in missed : t[2] <= wall
          /\ \A r \in Runs : ended[r] # Never => ended[r] <= wall
      BY <1>1, <3>1 DEF ForwardOK
    <3>6. \A n \in Nat : n <= wall => n <= wall'
      BY <1>2, <3>1
    <3> QED BY <3>2, <3>3, <3>4, <3>5, <3>6
  <2>4. OutageOK'
    BY <1>1, <1>2, <2>1 DEF OutageOK, Up, Learns, BeforeExit
  <2> QED BY <1>3, <2>2, <2>3, <2>4 DEF DueInv
<1>5. ASSUME NEW run \in Runs, ProcessEnds(run)  PROVE DueInv'
  <2>1. /\ run \in launched /\ ended[run] = Never /\ ended' = [ended EXCEPT ![run] = wall]
        /\ outage' = IF Up THEN outage ELSE outage \cup {run}
        /\ wall' = wall /\ backs' = backs
    BY <1>5 DEF ProcessEnds
  <2>2. run \notin outage /\ wall # Never
    <3>1. wall \in 0..MaxTime /\ MaxTime \in Nat
      BY <1>1, Numbers DEF TypeOK, Instants
    <3> QED BY <1>1, <2>1, <3>1 DEF TimersOK, Never
  <2>3. \A r \in Runs : ended'[r] = IF r = run THEN wall ELSE ended[r]
    BY <1>1, <2>1 DEF TypeOK
  <2>4. TimersOK'
    <3>1. \A r \in outage : r \in Runs /\ ended'[r] # Never
      BY <1>1, <2>2, <2>3 DEF TimersOK, TypeOK
    <3>2. ended'[run] # Never
      BY <2>2, <2>3
    <3> QED BY <1>1, <1>2, <2>1, <3>1, <3>2 DEF TimersOK
  <2>5. ForwardOK'
    <3>1. wall <= wall
      BY <1>2
    <3> QED BY <1>1, <1>2, <2>1, <2>3, <3>1 DEF ForwardOK
  <2>6. OutageOK'
    <3> SUFFICES ASSUME Up, backs = 0, NEW r \in outage, status[r] = "live"
                 PROVE  \E i \in DOMAIN queue' : Learns(i, r)' /\ BeforeExit(i)'
      BY <1>2, <2>1 DEF OutageOK, Up
    <3>1. PICK i \in DOMAIN queue : Learns(i, r) /\ BeforeExit(i)
      BY <1>1 DEF OutageOK
    <3>2. ended'[r] = ended[r]
      BY <1>1, <2>2, <2>3 DEF TypeOK
    <3> QED BY <1>2, <3>1, <3>2 DEF Learns, BeforeExit
  <2> QED BY <1>3, <2>4, <2>5, <2>6 DEF DueInv
<1> QED BY <1>4, <1>5

LEMMA CrashDue == ASSUME TickInv, DueInv, Crash  PROVE DueInv'
<1>1. /\ TypeOK /\ TimersOK /\ ForwardOK
  BY DEF TickInv, DueInv
<1>2. /\ phase' = "down" /\ queue' = <<>> /\ missed' = {}
      /\ UNCHANGED <<front, timers, status, wall, backs, ended, outage, lastWall, pos, launched>>
  BY DEF Crash, oracle, records
<1>3. DOMAIN queue' = {}
  BY <1>2
<1>4. TimersOK'
  BY <1>1, <1>2, TimersKept
<1>5. ForwardOK'
  BY <1>1, <1>2, <1>3 DEF ForwardOK
<1>6. OutageOK' /\ CatchUpAlone' /\ ArrivalOrder'
  BY <1>2, <1>3 DEF OutageOK, Up, CatchUpAlone, ArrivalOrder
<1> QED BY <1>4, <1>5, <1>6 DEF DueInv

LEMMA RestartDue == ASSUME TickInv, DueInv, Restart  PROVE DueInv'
<1>1. /\ TypeOK /\ FrontOK /\ TimersOK /\ ForwardOK
  BY DEF TickInv, DueInv
<1>2. /\ wall \in Nat /\ front \in Nat /\ pos.last \in Nat /\ pos.frontier \in Nat
      /\ front <= pos.last /\ pos.frontier <= pos.last
  BY <1>1, Numbers DEF TypeOK, FrontOK
<1>3. RecordedFront = pos.last
  BY <1>2 DEF RecordedFront, Later
<1>4. PICK upto : upto = Later(Later(wall, pos.last), pos.frontier)
  OBVIOUS
<1>5. /\ phase' = "recovering" /\ front' = pos.last /\ lastWall' = wall
      /\ missed' = MissedTicks(upto)
      /\ queue' = <<Pending("catch_up", <<>>, pos.last)>>
      /\ UNCHANGED <<wall, backs, ended, outage, timers, status, pos, launched>>
  BY <1>3, <1>4 DEF Restart, world, records
<1>6. PICK x \in Item : /\ queue' = <<x>> /\ x.kind = "catch_up" /\ x.key = pos.last
                        /\ DOMAIN queue' = {1} /\ queue'[1] = x
  <2>0. PICK n \in Nat : n = pos.last
    BY <1>2
  <2>1. PICK y : y = Pending("catch_up", <<>>, n)
    OBVIOUS
  <2>2. "catch_up" \in Kinds /\ <<>> \in Runs \cup Ticks \cup {<<>>}
    BY DEF Kinds
  <2>3. y \in Item /\ y.kind = "catch_up" /\ y.key = pos.last
    BY <2>0, <2>1, <2>2, PendingItem
  <2>4. queue' = <<y>>
    BY <1>5, <2>0, <2>1
  <2>5. DOMAIN queue' = {1} /\ queue'[1] = y
    BY <2>4
  <2> QED BY <2>3, <2>4, <2>5
<1>7. TimersOK'
  BY <1>1, <1>5, TimersKept
<1>8. ForwardOK'
  <2> SUFFICES ASSUME backs = 0
               PROVE  /\ pos.last <= wall /\ wall <= wall
                      /\ \A i \in DOMAIN queue' : queue'[i].key <= wall
                      /\ \A t \in missed' : t[2] <= wall
                      /\ \A r \in Runs : ended[r] # Never => ended[r] <= wall
    BY <1>5 DEF ForwardOK
  <2>1. pos.last <= wall /\ \A r \in Runs : ended[r] # Never => ended[r] <= wall
    BY <1>1, ForwardFacts
  <2>2. upto = wall
    BY <1>2, <1>4, <2>1 DEF Later
  <2>3. \A t \in missed' : t[2] <= wall
    BY <1>5, <2>2 DEF MissedTicks
  <2>4. \A i \in DOMAIN queue' : queue'[i].key <= wall
    BY <1>6, <2>1
  <2> QED BY <1>2, <2>1, <2>3, <2>4
<1>9. OutageOK'
  <2> SUFFICES ASSUME NEW r \in outage
               PROVE  \E i \in DOMAIN queue' : Learns(i, r)' /\ BeforeExit(i)'
    BY <1>5 DEF OutageOK
  <2>1. Learns(1, r)'
    <3>1. x.key <= pos.last
      BY <1>2, <1>6
    <3> QED BY <1>5, <1>6, <3>1 DEF Learns
  <2>2. BeforeExit(1)'
    BY <1>6 DEF BeforeExit
  <2> QED BY <1>6, <2>1, <2>2
<1>10. CatchUpAlone' /\ ArrivalOrder'
  BY <1>6 DEF CatchUpAlone, ArrivalOrder
<1> QED BY <1>7, <1>8, <1>9, <1>10 DEF DueInv

LEMMA InitDue == Init => DueInv
<1> SUFFICES ASSUME Init  PROVE DueInv
  OBVIOUS
<1> USE DEF Init
<1>1. DOMAIN queue = {} /\ 0 <= 0
  OBVIOUS
<1>2. TimersOK
  BY DEF TimersOK
<1>3. ForwardOK
  <2>1. \A r \in Runs : ended[r] = Never
    OBVIOUS
  <2> QED BY <1>1, <2>1 DEF ForwardOK
<1>4. OutageOK /\ CatchUpAlone /\ ArrivalOrder
  BY <1>1 DEF OutageOK, CatchUpAlone, ArrivalOrder
<1> QED BY <1>2, <1>3, <1>4 DEF DueInv

LEMMA NextDue == ASSUME TickInv, DueInv, [Next]_vars  PROVE DueInv'
<1>1. TickInv'
  BY NextInv
<1>2. CASE TakeInput
  BY <1>1, <1>2, TakeInputDue
<1>3. CASE TakeTimer
  BY <1>1, <1>3, TakeTimerDue
<1>4. CASE PopDue
  BY <1>1, <1>4, PopDueForward
<1>5. CASE TakeCatchUp
  BY <1>1, <1>5, TakeCatchUpDue
<1>6. CASE TakeUpdate
  BY <1>1, <1>6, TakeUpdateDue
<1>7. CASE FinishRecovery
  BY <1>1, <1>7, FinishRecoveryDue
<1>8. ASSUME NEW run \in Runs, Raise(run)  PROVE DueInv'
  BY <1>1, <1>8, RaiseDue
<1>9. ASSUME NEW run \in Runs, ObserveEnd(run)  PROVE DueInv'
  BY <1>1, <1>9, ObserveEndDue
<1>10. CASE RequestUpdate \/ ClockMoves \/ \E run \in Runs : ProcessEnds(run)
  BY <1>1, <1>10, OutsideDue
<1>11. CASE PostUpdateExit
  BY <1>1, <1>11, PostUpdateExitDue
<1>12. CASE Crash
  BY <1>12, CrashDue
<1>13. CASE Restart
  BY <1>13, RestartDue
<1>14. CASE UNCHANGED vars
  BY <1>14 DEF vars, DueInv, TimersOK, ForwardOK, OutageOK, Up, Learns, BeforeExit,
       CatchUpAlone, ArrivalOrder
<1> QED BY <1>2, <1>3, <1>4, <1>5, <1>6, <1>7, <1>8, <1>9, <1>10, <1>11, <1>12, <1>13, <1>14
        DEF Next, Loop

-----------------------------------------------------------------------------
(* The order of what is due.                                                *)

\* Taking an input: its stamp passes no deadline that fires in its batch.
LEMMA InputInOrder ==
  ASSUME TickInv, TakeInput
  PROVE  /\ front' # front => \A t \in timers : t.due >= front'
         /\ phase = "recovering" => launched' = launched
<1>1. TypeOK /\ ItemsOK /\ FrontOK /\ RecordsOK
  BY DEF TickInv
<1>2. PICK h : h = HeadOf(Noted)
  OBVIOUS
<1>3. PICK p : p = Noted[h]
  OBVIOUS
<1>4. PICK at : at = StampOf(p.at)
  OBVIOUS
<1>5. Passes("event")
  BY DEF TakeInput
<1>6. /\ p.key <= RawDue /\ p.at \in Nat /\ p.key \in Nat /\ Rebased(p, queue[h])
      /\ ItemOK(queue[h])
  BY <1>1, <1>2, <1>3, <1>5, TakenHead
<1>7. p.at <= p.key
  BY <1>6 DEF Rebased
<1>8. at \in Nat /\ at >= front /\ (at <= p.at \/ at = front)
  BY <1>1, <1>4, <1>6, StampFacts
<1>9. \/ p.kind = "command" /\ Command(p.what, at)
      \/ p.kind = "completion" /\ Completion(p.what, at)
      \/ p.kind = "tick" /\ AdmitTick(p.what, at)
  BY <1>2, <1>3, <1>4 DEF TakeInput
<1>10. front' = at
  BY <1>9 DEF Command, Completion, Admit, AdmitTick
<1>11. at # front => \A t \in timers : t.due >= at
  <2> SUFFICES ASSUME at # front, NEW t \in timers  PROVE t.due >= at
    OBVIOUS
  <2>1. at <= p.at /\ RawDue \in Nat /\ RawDue <= t.due /\ t.due \in Nat
    BY <1>1, <1>8, DueFacts DEF TypeOK
  <2> QED BY <1>6, <1>7, <1>8, <2>1
<1>12. phase = "recovering" => launched' = launched
  BY <1>9 DEF Command, Completion, Admit, AdmitTick, Dispatch
<1> QED BY <1>10, <1>11, <1>12

\* The barrier falls only before the first deadline the recovery armed.
LEMMA RecoveryInOrder ==
  ASSUME TickInv, FinishRecovery
  PROVE  \A t \in timers : t.due > wall
<1>1. TypeOK /\ ItemsOK
  BY DEF TickInv
<1>2. ~TakesDueWork(Work, Later(ReadyAt, Later(after, ReadyAt)))
  BY DEF FinishRecovery, Barrier
<1>3. PICK w : w = Work
  OBVIOUS
<1>4. /\ w.act \in {"event", "tick", "timer", "wait"}
      /\ RawDue <= NowOf(wall) => w.act # "wait" /\ w.at <= NowOf(wall)
      /\ w.act = "event" => w.at = HeadAt(Noted) /\ Noted # <<>>
      /\ w.act = "tick" => w.at = SchedDue
      /\ w.act = "timer" => w.at \in Nat
  <2>1. w = NextWork(Noted) /\ Noted \in Seq(Item)
    BY <1>1, <1>3, NotedAt DEF Work
  <2> QED BY <1>1, <2>1, WorkFacts
<1>5. w.act # "wait" => w.at \in Nat
  <2>1. Noted # <<>> => HeadAt(Noted) \in Nat
    <3>1. PICK q \in Seq(Item) : q = Noted
      BY <1>1, NotedAt
    <3> QED BY <3>1, HeadFacts
  <2> QED BY <1>1, <1>4, <2>1, DueFacts
<1>6. NowOf(wall) \in Nat /\ after \in Nat /\ wall \in Nat /\ NowOf(wall) >= wall
  BY <1>1, Numbers DEF TypeOK
<1>7. PICK limit \in Nat : limit = Later(ReadyAt, Later(after, ReadyAt)) /\ limit >= NowOf(wall)
  BY <1>6 DEF ReadyAt, Later
<1>8. ~(RawDue <= NowOf(wall))
  <2> SUFFICES ASSUME RawDue <= NowOf(wall)  PROVE FALSE
    OBVIOUS
  <2>1. w.act # "wait" /\ w.at <= NowOf(wall) /\ w.at \in Nat
    BY <1>4, <1>5
  <2>2. w.at <= limit
    BY <1>6, <1>7, <2>1
  <2>3. TakesDueWork(w, limit)
    BY <2>1, <2>2 DEF TakesDueWork
  <2> QED BY <1>2, <1>3, <1>7, <2>3
<1>9. \A t \in timers : RawDue <= t.due /\ t.due \in Nat /\ RawDue \in Nat
  BY <1>1, DueFacts DEF TypeOK
<1> QED BY <1>6, <1>8, <1>9

OrderStep ==
  /\ ArrivalOrder'
  /\ Len(queue') < Len(queue) /\ phase' = phase /\ front' # front /\ update' = update
       => \A t \in timers \ timers' : t.due >= front'
  /\ \A r \in launched' \ launched :
       phase = "recovering" => \A t \in timers : t.run = r => t.due > wall

LEMMA InOrder == ASSUME TickInv, DueInv, [Next]_vars  PROVE OrderStep \/ UNCHANGED vars
<1>1. ArrivalOrder'
  BY NextDue DEF DueInv
<1>2. TypeOK /\ ItemsOK
  BY DEF TickInv
<1>3. CASE TakeInput
  BY <1>1, <1>3, InputInOrder DEF OrderStep
<1>4. CASE TakeTimer
  <2>1. Len(queue') = Len(queue) /\ Len(queue) \in Nat
    BY <1>2, <1>4, NotedAt, QueueItems DEF TakeTimer
  <2>2. launched' = launched
    BY <1>4 DEF TakeTimer, Observe
  <2> QED BY <1>1, <2>1, <2>2 DEF OrderStep
<1>5. CASE PopDue \/ TakeCatchUp
  BY <1>1, <1>5 DEF PopDue, TakeCatchUp, OrderStep, oracle, records
<1>6. CASE TakeUpdate
  <2>1. PICK h : h = HeadOf(Noted)
    OBVIOUS
  <2>2. PICK p : p = Noted[h]
    OBVIOUS
  <2>3. Passes("event") /\ p.kind = "update_exit" /\ update' = "applied" /\ launched' = launched
    BY <1>6, <2>1, <2>2 DEF TakeUpdate, Observe
  <2>4. Rebased(p, queue[h]) /\ ItemOK(queue[h])
    BY <1>2, <2>1, <2>2, <2>3, TakenHead
  <2>5. update # "applied"
    BY <2>3, <2>4 DEF Rebased, ItemOK
  <2> QED BY <1>1, <2>3, <2>5 DEF OrderStep
<1>7. CASE FinishRecovery
  <2>1. phase' # phase /\ \A t \in timers : t.due > wall
    BY <1>7, RecoveryInOrder DEF FinishRecovery, Barrier
  <2> QED BY <1>1, <2>1 DEF OrderStep
<1>8. ASSUME NEW run \in Runs, Raise(run) \/ ObserveEnd(run) \/ ProcessEnds(run)  PROVE OrderStep
  BY <1>1, <1>8 DEF Raise, ObserveEnd, ProcessEnds, OrderStep, Inputs, records
<1>9. CASE RequestUpdate \/ PostUpdateExit \/ ClockMoves
  BY <1>1, <1>9 DEF RequestUpdate, PostUpdateExit, ClockMoves, OrderStep, Inputs, records
<1>10. CASE Crash \/ Restart
  BY <1>1, <1>10 DEF Crash, Restart, Up, OrderStep, records
<1> QED BY <1>3, <1>4, <1>5, <1>6, <1>7, <1>8, <1>9, <1>10 DEF Next, Loop

-----------------------------------------------------------------------------
(* An end found by a restart comes before a later deadline.                 *)

\* The stamp of the step that kills a run of an outage is no later than what learns
\* of its end.
LEMMA KillStamp ==
  ASSUME TickInv, DueInv, backs = 0, NEW r \in outage, status[r] = "live",
         NEW k \in DOMAIN queue, Learns(k, r), NEW at \in Nat, at <= Later(queue[k].key, front),
         NEW u \in timers, u.run = r, u.due <= at
  PROVE  \A t \in timers : t.run = r => t.due <= ended[r] \/ t.due <= pos.last
<1>1. TypeOK /\ FrontOK /\ TimersOK
  BY DEF TickInv, DueInv
<1>2. /\ front \in Nat /\ pos.last \in Nat /\ front <= pos.last /\ ended[r] \in Nat
      /\ queue[k].key \in Nat /\ u.due \in Nat
  <2>1. front \in Nat /\ pos.last \in Nat /\ front <= pos.last
    BY <1>1 DEF TypeOK, FrontOK
  <2>2. ended[r] \in Nat
    <3>1. r \in Runs
      BY <1>1 DEF TypeOK
    <3>2. ended[r] \in 0..Never
      BY <1>1, <3>1 DEF TypeOK
    <3> QED BY <3>2, Numbers
  <2>3. queue[k].key \in Nat
    BY <1>1, QueueItems DEF Item
  <2>4. u.due \in Nat
    BY <1>1 DEF TypeOK
  <2> QED BY <2>1, <2>2, <2>3, <2>4
<1>3. queue[k].key <= Later(ended[r], pos.last)
  BY <1>2 DEF Learns, Later
<1>4. u.due <= ended[r] \/ u.due <= pos.last
  BY <1>2, <1>3 DEF Later
<1> QED BY <1>1, <1>4 DEF TimersOK

EndStep ==
  \A r \in Runs :
    backs = 0 /\ status[r] = "live" /\ status'[r] = "killed" /\ r \in outage
      => \A t \in timers : t.run = r => t.due <= ended[r] \/ t.due <= pos.last

LEMMA EndsFirst == ASSUME TickInv, DueInv, [Next]_vars  PROVE EndStep
<1>1. TypeOK /\ ItemsOK /\ FrontOK /\ RecordsOK /\ TimersOK /\ ForwardOK /\ OutageOK
  BY DEF TickInv, DueInv
<1>2. SUFFICES ASSUME NEW r \in outage, backs = 0, status[r] = "live", status'[r] = "killed"
               PROVE  \A t \in timers : t.run = r => t.due <= ended[r] \/ t.due <= pos.last
  BY DEF EndStep
<1>3. r \in Runs
  BY <1>1 DEF TypeOK
<1>4. Forward /\ NowOf(wall) = wall /\ front <= wall
  BY <1>1, <1>2, ForwardFacts
<1>5. /\ Noted \in Seq(Item) /\ DOMAIN Noted = DOMAIN queue
      /\ \A i \in DOMAIN queue : Noted[i] = queue[i]
  BY <1>1, <1>4, NotedAt DEF Forward
<1>6. \A i \in DOMAIN queue : queue[i].key \in Nat /\ queue[i].key <= wall
  BY <1>1, <1>2, ForwardFacts, QueueItems DEF Item
<1>7. wall \in Nat /\ front \in Nat /\ wall < Never
  <2>1. wall \in 0..MaxTime /\ MaxTime \in Nat /\ front \in Nat
    BY <1>1, Numbers DEF TypeOK, Instants
  <2> QED BY <2>1 DEF Never
<1>8. ASSUME Up  PROVE \E k \in DOMAIN queue : Learns(k, r) /\ BeforeExit(k)
  BY <1>1, <1>2, <1>8 DEF OutageOK
<1>9. ASSUME Passes("event"), NEW h, h = HeadOf(Noted)
      PROVE  \E k \in DOMAIN queue :
               /\ Learns(k, r) /\ queue[h].kind # "update_exit"
               /\ queue[h].key <= queue[k].key /\ h \in DOMAIN queue /\ queue[h].at <= queue[h].key
  <2>1. PICK k \in DOMAIN queue : Learns(k, r) /\ BeforeExit(k)
    BY <1>8, <1>9 DEF Passes
  <2>2. PICK p : p = Noted[h]
    OBVIOUS
  <2>3. /\ h \in DOMAIN queue /\ h \in Nat /\ ItemOK(queue[h])
        /\ \A i \in DOMAIN queue : p.key <= Noted[i].key /\ (p.key = Noted[i].key => h <= i)
    BY <1>1, <1>9, <2>2, TakenHead
  <2>4. /\ p = queue[h] /\ queue[h].key <= queue[k].key
        /\ queue[h].key = queue[k].key => h <= k
    BY <1>5, <2>2, <2>3
  <2>5. queue[h].kind # "update_exit"
    <3> SUFFICES ASSUME queue[h].kind = "update_exit"  PROVE FALSE
      OBVIOUS
    <3>1. k < h /\ queue[k].key <= queue[h].key
      BY <2>1, <2>3 DEF BeforeExit
    <3>2. queue[k].key = queue[h].key
      BY <1>6, <2>3, <2>4, <3>1
    <3>3. k \in Nat
      BY <1>1, QueueItems
    <3> QED BY <2>3, <2>4, <3>1, <3>2, <3>3
  <2> QED BY <2>1, <2>3, <2>4, <2>5 DEF ItemOK
<1>10. CASE TakeInput
  <2>1. PICK h : h = HeadOf(Noted)
    OBVIOUS
  <2>2. PICK p : p = Noted[h]
    OBVIOUS
  <2>3. PICK at : at = StampOf(p.at)
    OBVIOUS
  <2>4. Passes("event")
    BY <1>10 DEF TakeInput
  <2>5. PICK k \in DOMAIN queue :
          /\ Learns(k, r) /\ queue[h].key <= queue[k].key /\ h \in DOMAIN queue
          /\ queue[h].at <= queue[h].key
    BY <1>9, <2>1, <2>4
  <2>6. p = queue[h] /\ p.at \in Nat
    BY <1>1, <1>5, <2>2, <2>5, QueueItems DEF Item
  <2>7. at \in Nat /\ (at <= p.at \/ at = front)
    BY <1>1, <2>3, <2>6, StampFacts
  <2>8. at <= Later(queue[k].key, front)
    BY <1>6, <1>7, <2>5, <2>6, <2>7 DEF Later
  <2>9. \/ p.kind = "command" /\ Command(p.what, at)
        \/ p.kind = "completion" /\ Completion(p.what, at)
        \/ p.kind = "tick" /\ AdmitTick(p.what, at)
    BY <1>10, <2>1, <2>2, <2>3 DEF TakeInput
  <2>10. TimeHalf(at)[r] = "killed"
    <3>1. ASSUME NEW over, NEW runs, Admit(over, runs, at)  PROVE TimeHalf(at)[r] = "killed"
      <4>1. status' = [s \in Runs |-> IF s \in runs THEN "live"
                                    ELSE IF s \in over THEN "done" ELSE TimeHalf(at)[s]]
        BY <3>1 DEF Admit
      <4> QED BY <1>2, <1>3, <4>1
    <3>2. CASE Command(p.what, at)
      BY <3>1, <3>2 DEF Command
    <3>3. CASE Completion(p.what, at)
      BY <3>1, <3>3 DEF Completion
    <3>4. CASE AdmitTick(p.what, at)
      BY <1>2, <3>4 DEF AdmitTick
    <3> QED BY <2>9, <3>2, <3>3, <3>4
  <2>11. PICK u \in timers : u.run = r /\ u.due <= at
    BY <1>1, <1>2, <1>3, <2>10, HalfFacts
  <2> QED BY <1>2, <2>5, <2>7, <2>8, <2>11, KillStamp
<1>11. CASE TakeTimer
  <2>1. Passes("timer") /\ Up
    BY <1>11 DEF TakeTimer, Passes
  <2>2. PICK k \in DOMAIN queue : Learns(k, r)
    BY <1>8, <2>1
  <2>3. PICK w : w = Work
    OBVIOUS
  <2>4. PICK q \in Seq(Item) : q = Noted /\ DOMAIN q = DOMAIN queue
    BY <1>5
  <2>5. q # <<>> /\ HeadAt(q) \in Nat /\ HeadAt(q) <= queue[k].key
    <3>1. q # <<>>
      BY <2>4
    <3>2. HeadAt(q) \in Nat /\ \A i \in DOMAIN q : HeadAt(q) <= q[i].key
      BY <3>1, HeadFacts
    <3> QED BY <1>5, <2>2, <2>4, <3>1, <3>2
  <2>6. /\ w.at \in Nat
        /\ \/ RawDue < HeadAt(q) /\ w.at = Later(RawDue, front)
           \/ HeadAt(q) > NowOf(wall) \/ HeadAt(q) > Never
    <3>1. w = NextWork(q) /\ w.act = "timer"
      BY <2>1, <2>3, <2>4 DEF Work, Passes
    <3> QED BY <1>1, <2>5, <3>1, WorkFacts
  <2>7. HeadAt(q) <= wall
    BY <1>6, <1>7, <2>5
  <2>8. RawDue < HeadAt(q) /\ w.at = Later(RawDue, front) /\ RawDue \in Nat
    <3>1. ~(HeadAt(q) > NowOf(wall)) /\ ~(HeadAt(q) > Never)
      <4>1. Never \in Nat
        BY <1>1, Numbers
      <4> QED BY <1>4, <1>7, <2>5, <2>7, <4>1
    <3> QED BY <1>1, <2>6, <3>1, DueFacts
  <2>9. w.at <= Later(queue[k].key, front)
    BY <1>6, <1>7, <2>5, <2>8 DEF Later
  <2>10. PICK at \in Nat : at = StampOf(w.at) /\ (at <= w.at \/ at = front)
    BY <1>1, <2>6, StampFacts
  <2>11. at <= Later(queue[k].key, front)
    BY <1>6, <1>7, <2>6, <2>9, <2>10 DEF Later
  <2>12. TimeHalf(at)[r] = "killed"
    BY <1>2, <1>11, <2>3, <2>10 DEF TakeTimer, Observe
  <2>13. PICK u \in timers : u.run = r /\ u.due <= at
    BY <1>1, <1>2, <1>3, <2>12, HalfFacts
  <2> QED BY <1>2, <2>2, <2>11, <2>13, KillStamp
<1>12. CASE TakeUpdate
  <2>1. PICK h : h = HeadOf(Noted)
    OBVIOUS
  <2>2. PICK p : p = Noted[h]
    OBVIOUS
  <2>3. Passes("event") /\ p.kind = "update_exit"
    BY <1>12, <2>1, <2>2 DEF TakeUpdate
  <2>4. queue[h].kind # "update_exit" /\ h \in DOMAIN queue
    BY <1>9, <2>1, <2>3
  <2> QED BY <1>5, <2>2, <2>3, <2>4
<1>13. CASE PopDue \/ TakeCatchUp \/ FinishRecovery
  BY <1>2, <1>13 DEF PopDue, TakeCatchUp, FinishRecovery, oracle
<1>14. ASSUME NEW run \in Runs, Raise(run) \/ ObserveEnd(run) \/ ProcessEnds(run)  PROVE FALSE
  BY <1>2, <1>14 DEF Raise, ObserveEnd, ProcessEnds, Inputs
<1>15. CASE RequestUpdate \/ PostUpdateExit \/ ClockMoves \/ Crash \/ Restart
  BY <1>2, <1>15 DEF RequestUpdate, PostUpdateExit, ClockMoves, Crash, Restart, Inputs, oracle
<1>16. CASE UNCHANGED vars
  BY <1>2, <1>16 DEF vars
<1> QED BY <1>10, <1>11, <1>12, <1>13, <1>14, <1>15, <1>16 DEF Next, Loop

\* Behind a clock that never stepped back, whatever learns of an end during an outage
\* is due by that end or by the last record, and before any exit of an update
\* (perform_plan, catch_up, post_update_exit); deadlines belong to runs that started,
\* one to each.
THEOREM DeadlinesInvariant == Spec => []DueInv
<1>1. Init => DueInv
  BY InitDue
<1>2. TickInv /\ DueInv /\ [Next]_vars => DueInv'
  BY NextDue
<1> QED BY <1>1, <1>2, TicksInvariant, PTL DEF Spec

\* What fell due first goes first: no batch of a queued input fires a deadline before
\* its stamp, no owed start is launched past its deadline, and an update's exit stays
\* behind the commands raised before it (_next_work, _takes_due_work, post_update_exit).
THEOREM WhatIsDueGoesFirst == Spec => InDueOrder
<1>1. TickInv /\ DueInv /\ [Next]_vars => [OrderStep]_vars
  BY InOrder
<1>2. TickInv /\ DueInv /\ [Next]_vars =>
        [/\ ArrivalOrder'
         /\ Len(queue') < Len(queue) /\ phase' = phase /\ front' # front /\ update' = update
              => \A t \in timers \ timers' : t.due >= front'
         /\ \A r \in launched' \ launched :
              phase = "recovering" => \A t \in timers : t.run = r => t.due > wall]_vars
  BY <1>1 DEF OrderStep
<1> QED BY <1>2, TicksInvariant, DeadlinesInvariant, PTL DEF Spec, InDueOrder

\* A run that ended during an outage is killed by no deadline that fell after both its
\* end and the last record, unless the clock stepped back (perform_plan's stamp of an
\* end a recovery finds).
THEOREM AnEndBeatsALaterDeadline == Spec => EndBeatsDeadline
<1>1. TickInv /\ DueInv /\ [Next]_vars => [EndStep]_vars
  BY EndsFirst
<1>2. TickInv /\ DueInv /\ [Next]_vars =>
        [\A r \in Runs :
           backs = 0 /\ status[r] = "live" /\ status'[r] = "killed" /\ r \in outage
             => \A t \in timers : t.run = r => t.due <= ended[r] \/ t.due <= pos.last]_vars
  BY <1>1 DEF EndStep
<1> QED BY <1>2, TicksInvariant, DeadlinesInvariant, PTL DEF Spec, EndBeatsDeadline

=============================================================================
