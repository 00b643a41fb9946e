------------------------- MODULE Subscription_proofs -------------------------
(***************************************************************************)
(* The proofs that a subscriber misses and repeats nothing: for any sizes  *)
(* of records and of the backlog, any number of records and of             *)
(* connections, and a store pruned at any time.                            *)
(***************************************************************************)
EXTENDS Subscription, TLAPS, WellFoundedInduction

Record == [kind : {"input", "decision", "dispatch", "engine"}, index : Nat, size : Nat]
WireLine == [what : {"ack", "marker", "record", "refusal"}, n : Int]

TypeOK ==
  /\ log \in Seq(Record) /\ first \in Nat \ {0} /\ snapshot \in Nat
  /\ feed \in {"none", "backfill", "live", "closed", "removed"}
  /\ backlog \in Seq([seq : Nat, size : Nat])
  /\ request \in [since : Int, seam : Nat]
  /\ stage \in {"off", "read", "send", "live"}
  /\ toSend \in [marker : Nat, records : SUBSET Nat]
  /\ wire \in Seq(WireLine)
  /\ client \in [state : {"new", "waiting", "reading", "lost"}, cursor : Int, told : Int]
  /\ got \subseteq Nat /\ start \in [seq : Nat, index : Nat]

Connected == client.state \in {"waiting", "reading"}

\* The cursor that the acknowledgement names.
Base == IF request.since # NoSince THEN request.since ELSE start.index

\* The inputs are numbered from 1, in the order of the store; only what a snapshot
\* covers is pruned.
LogOK ==
  /\ Indexes = 1..Committed /\ Committed \in Nat
  /\ \A s, t \in DOMAIN log : IsInput(s) /\ IsInput(t) /\ s < t => log[s].index < log[t].index
  /\ snapshot <= LastSeq /\ (first = 1 \/ first <= snapshot)

\* The record is before the input a cursor names.
Behind(t, n) == \E i \in t..LastSeq : IsInput(i) /\ log[i].index <= n

\* Nothing is owed of the record any more.
Settled(t) ==
  t <= start.seq \/ ~OnWire(t) \/ t \in got \/ t < first \/ Behind(t, start.index)

\* What is behind the cursor, the client's or the connection's, is settled.
CursorOK ==
  /\ client.cursor >= NoSince
  /\ client.state = "new" <=> ~Connected /\ client.cursor = NoSince
  /\ client.cursor # NoSince =>
       /\ client.cursor >= start.index
       /\ client.cursor <= start.index \/ client.cursor <= Committed
       /\ \A t \in DOMAIN log : Behind(t, client.cursor) => Settled(t)
  /\ start.seq <= LastSeq

BaseOK == Connected =>
  /\ Base >= start.index /\ (Base <= start.index \/ Base <= Committed)
  /\ request.since >= NoSince /\ request.seam <= LastSeq
  /\ \A t \in DOMAIN log : Behind(t, Base) => Settled(t)
  /\ client.state = "waiting" => client.cursor \in {NoSince, Base}
  /\ client.state = "reading" => client.cursor >= Base
  /\ request.since = NoSince =>
       /\ start.seq = request.seam /\ start.index <= Committed
       /\ \A s \in DOMAIN log : IsInput(s) => (s > request.seam <=> log[s].index > start.index)

\* What the handler holds at each stage.
StageOK ==
  /\ Open <=> stage # "off"
  /\ Open => Connected
  /\ ~Connected => wire = <<>>
  /\ stage \in {"off", "live"} => toSend = Nothing
  /\ ~Open => backlog = <<>>
  /\ stage = "read" =>
       /\ toSend = Nothing /\ request.since # NoSince /\ client.told = 0
       /\ client.cursor \in {NoSince, Base}
       /\ \A i \in DOMAIN wire : wire[i].what = "ack"
  /\ \A s \in toSend.records : s \in DOMAIN log /\ s <= request.seam
  /\ \A i \in DOMAIN backlog : backlog[i].seq \in DOMAIN log /\ backlog[i].seq > request.seam
                               /\ OnWire(backlog[i].seq)
  /\ \A i, k \in DOMAIN backlog : i < k => backlog[i].seq < backlog[k].seq

\* The acknowledgement is the first line and the marker comes once, before any record.
WireOK ==
  /\ client.state = "waiting" =>
       IF wire = <<>> THEN ~Open ELSE wire[1] = Line("ack", Base)
  /\ \A i \in DOMAIN wire : wire[i].what = "ack" => i = 1 /\ client.state = "waiting"
  /\ client.state = "waiting" => client.told = 0
  /\ \A i \in DOMAIN wire : wire[i].what = "marker" =>
       /\ client.told = 0 /\ toSend.marker = 0
       /\ \A k \in DOMAIN wire : wire[k].what = "marker" => k = i
  /\ toSend.marker # 0 => client.told = 0
  /\ \A i \in DOMAIN wire : wire[i].what = "refusal" => ~Open

OnItsWay(s) ==
  \/ \E i \in DOMAIN wire : wire[i] = Line("record", s)
  \/ s \in toSend.records
  \/ \E i \in DOMAIN backlog : backlog[i].seq = s /\ ~Skipped(s)

\* Records are on their way in the order of the store ...
OrderOK ==
  \A i \in DOMAIN wire : wire[i].what = "record" =>
    /\ wire[i].n \in DOMAIN log
    /\ \A k \in DOMAIN wire : wire[k].what = "record" /\ i < k => wire[i].n < wire[k].n
    /\ \A s \in toSend.records : wire[i].n < s
    /\ \A k \in DOMAIN backlog : wire[i].n < backlog[k].seq

\* ... and past the cursor.
PastCursor ==
  \A s \in DOMAIN log : OnItsWay(s) /\ IsInput(s) =>
    log[s].index > Base /\ log[s].index > client.cursor

\* The records before a line's are settled or before it on the wire.
LineAt(i) == wire[i].what = "record" =>
  \A t \in 1..(wire[i].n - 1) :
    Settled(t) \/ \E k \in 1..(i - 1) : wire[k] = Line("record", t)
LineOK == \A i \in DOMAIN wire : LineAt(i)

\* An open stream holds, or has still to read, every record that is not settled.
Accounted(t) ==
  \/ Settled(t)
  \/ \E i \in DOMAIN wire : wire[i] = Line("record", t)
  \/ t \in toSend.records
  \/ \E i \in DOMAIN backlog : backlog[i].seq = t
  \/ stage = "read" /\ t <= request.seam /\ ~Behind(t, Base)
StreamOK == Open => \A t \in DOMAIN log : Accounted(t)

\* The input of an index is read or told of, or the line at k is it or tells of it.
Known(x) == x <= Base \/ x <= client.cursor \/ x < client.told
Says(k, x) ==
  \/ wire[k].what = "record" /\ IsInput(wire[k].n) /\ log[wire[k].n].index = x
  \/ wire[k].what = "marker" /\ x < wire[k].n

\* An input comes on the wire after the one before it, or after a marker that
\* tells of that one.
InputAt(i) == wire[i].what = "record" /\ IsInput(wire[i].n) =>
  LET x == log[wire[i].n].index - 1 IN
  Known(x) \/ \E k \in 1..(i - 1) : Says(k, x)
LineInputOK == \A i \in DOMAIN wire : InputAt(i)

\* So it will for every input an open stream has still to send.
InputAccounted(u) ==
  LET x == log[u].index IN
  \/ Known(x) \/ \E k \in DOMAIN wire : Says(k, x)
  \/ x < toSend.marker
  \/ u \in toSend.records
  \/ \E i \in DOMAIN backlog : backlog[i].seq = u
  \/ stage = "read" /\ u <= request.seam
StreamInputOK == Open => \A u \in DOMAIN log : IsInput(u) => InputAccounted(u)

FeedInv ==
  /\ TypeOK /\ LogOK /\ CursorOK /\ BaseOK /\ StageOK /\ WireOK /\ OrderOK /\ PastCursor
  /\ LineOK /\ StreamOK /\ LineInputOK /\ StreamInputOK
-----------------------------------------------------------------------------
(* Sequences, and the numbers of inputs.                                   *)

LEMMA Appended ==
  ASSUME NEW S, NEW q \in Seq(S), NEW e \in S, NEW p, p = Append(q, e)
  PROVE  /\ p \in Seq(S) /\ Len(p) = Len(q) + 1 /\ p[Len(q) + 1] = e
         /\ \A i \in DOMAIN q : p[i] = q[i]
         /\ DOMAIN q = 1..Len(q) /\ DOMAIN p = 1..(Len(q) + 1) /\ Len(q) \in Nat
OBVIOUS

LEMMA TailOf ==
  ASSUME NEW S, NEW q \in Seq(S), q # <<>>, NEW p, p = Tail(q)
  PROVE  /\ p \in Seq(S) /\ Len(p) = Len(q) - 1 /\ Head(q) = q[1] /\ q[1] \in S
         /\ \A i \in DOMAIN p : i + 1 \in DOMAIN q /\ p[i] = q[i + 1]
         /\ DOMAIN q = 1..Len(q) /\ DOMAIN p = 1..(Len(q) - 1) /\ Len(q) \in Nat \ {0}
OBVIOUS

LEMMA PrefixOf ==
  ASSUME NEW S, NEW q \in Seq(S), NEW n \in 0..Len(q), NEW p, p = SubSeq(q, 1, n)
  PROVE  /\ p \in Seq(S) /\ DOMAIN p = 1..n /\ DOMAIN q = 1..Len(q) /\ Len(q) \in Nat
         /\ \A i \in DOMAIN p : i \in DOMAIN q /\ p[i] = q[i]
OBVIOUS

LEMMA Smallest ==
  ASSUME NEW T, T \subseteq Nat, T # {}
  PROVE  \E x \in T : \A y \in T : x <= y
<1>1. PICK x \in T : \A y \in T : <<y, x>> \notin OpToRel(<, Nat)
  BY NatLessThanWellFounded, WFMin
<1>2. \A y \in T : ~(y < x)
  BY <1>1 DEF OpToRel
<1> QED
  BY <1>2

LEMMA LargestOf ==
  ASSUME NEW K \in Nat, NEW I, I = 1..K
  PROVE  (IF I = {} THEN 0 ELSE CHOOSE i \in I : \A k \in I : k <= i) = K
<1>1. CASE K = 0
  BY <1>1
<1>2. CASE K # 0
  <2>1. K \in I /\ \A k \in I : k <= K
    BY <1>2
  <2>2. PICK n : n = CHOOSE i \in I : \A k \in I : k <= i
    OBVIOUS
  <2>3. n \in I /\ \A k \in I : k <= n
    BY <2>1, <2>2
  <2>4. n = K
    BY <2>1, <2>3
  <2> QED
    BY <2>1, <2>2, <2>4
<1> QED
  BY <1>1, <1>2

\* Every input counted is in the store's history, and no other.
LEMMA InputIndexes ==
  ASSUME LogOK
  PROVE  /\ \A s \in DOMAIN log : IsInput(s) => log[s].index \in 1..Committed
         /\ \A n \in 1..Committed : \E s \in DOMAIN log : IsInput(s) /\ log[s].index = n
BY DEF LogOK, Indexes, IsInput

LEMMA Records ==
  ASSUME log \in Seq(Record)
  PROVE  /\ LastSeq \in Nat /\ DOMAIN log = 1..LastSeq
         /\ \A s \in DOMAIN log : log[s] \in Record /\ log[s].index \in Nat
<1>1. LastSeq \in Nat /\ DOMAIN log = 1..LastSeq /\ \A s \in DOMAIN log : log[s] \in Record
  BY DEF LastSeq
<1>2. \A r \in Record : r.index \in Nat
  BY DEF Record
<1> QED
  BY <1>1, <1>2

LEMMA EarliestIs ==
  ASSUME TypeOK, LogOK
  PROVE  /\ Earliest \in Nat \ {0}
         /\ \A s \in DOMAIN log : IsInput(s) => (s < first <=> log[s].index < Earliest)
<1> DEFINE kept == {s \in first..LastSeq : IsInput(s)}
<1>1. /\ DOMAIN log = 1..LastSeq /\ LastSeq \in Nat /\ first \in Nat \ {0} /\ Committed \in Nat
      /\ \A s \in DOMAIN log : log[s].index \in Nat
  BY Records DEF TypeOK, LogOK
<1>2. \A s \in DOMAIN log : IsInput(s) => log[s].index \in 1..Committed
  BY InputIndexes
<1>3. CASE kept = {}
  <2>1. Earliest = Committed + 1
    BY <1>3 DEF Earliest
  <2>2. \A s \in DOMAIN log : IsInput(s) => s < first
    BY <1>1, <1>3
  <2> QED
    BY <1>1, <1>2, <2>1, <2>2
<1>4. CASE kept # {}
  <2>1. kept \subseteq Nat
    BY <1>1
  <2>2. \E x \in kept : \A y \in kept : x <= y
    BY <1>4, <2>1, Smallest
  <2>0. PICK e : e = CHOOSE s \in kept : \A t \in kept : s <= t
    OBVIOUS
  <2>3. e \in kept /\ \A t \in kept : e <= t
    BY <2>0, <2>2
  <2>4. Earliest = log[e].index
    BY <1>4, <2>0 DEF Earliest
  <2>5. e \in DOMAIN log /\ IsInput(e) /\ e >= first
    BY <1>1, <2>3
  <2>6. ASSUME NEW s \in DOMAIN log, IsInput(s)
        PROVE  s < first <=> log[s].index < log[e].index
    <3>1. s < first => s < e
      BY <1>1, <2>5
    <3>2. s >= first => e <= s
      BY <1>1, <2>3, <2>6
    <3>3. s < e => log[s].index < log[e].index
      BY <2>5, <2>6 DEF LogOK
    <3>4. e < s => log[e].index < log[s].index
      BY <2>5, <2>6 DEF LogOK
    <3> QED
      BY <1>1, <2>5, <3>1, <3>2, <3>3, <3>4
  <2>7. Earliest \in 1..Committed
    BY <1>2, <2>4, <2>5
  <2> QED
    BY <1>1, <2>4, <2>6, <2>7
<1> QED
  BY <1>3, <1>4

-----------------------------------------------------------------------------
(* What is settled stays so.                                               *)

\* What every step but a subscription keeps: the log only grows, by inputs with new
\* indexes; the head only moves on; the client forgets nothing it has read.
LogStep ==
  /\ log \in Seq(Record) /\ log' \in Seq(Record) /\ LastSeq <= LastSeq'
  /\ \A s \in DOMAIN log : log'[s] = log[s]
  /\ \A s \in (LastSeq + 1)..LastSeq' : log'[s].kind = "input" => log'[s].index > Committed
  /\ Committed \in Nat /\ Committed' \in Nat /\ Committed <= Committed'
  /\ first \in Nat /\ first' \in Nat /\ first <= first'
  /\ start \in [seq : Nat, index : Nat] /\ start' = start /\ got \subseteq got'

LEMMA Kinds ==
  ASSUME LogStep
  PROVE  /\ DOMAIN log = 1..LastSeq /\ DOMAIN log' = 1..LastSeq'
         /\ LastSeq \in Nat /\ LastSeq' \in Nat
         /\ \A s \in DOMAIN log : s \in DOMAIN log'
         /\ \A s \in DOMAIN log : (IsInput(s)' <=> IsInput(s)) /\ (OnWire(s)' <=> OnWire(s))
<1>1. /\ DOMAIN log = 1..LastSeq /\ DOMAIN log' = 1..LastSeq'
      /\ LastSeq \in Nat /\ LastSeq' \in Nat /\ LastSeq <= LastSeq'
  BY DEF LogStep, LastSeq
<1>2. \A s \in DOMAIN log : log'[s] = log[s]
  BY DEF LogStep
<1> QED
  BY <1>1, <1>2 DEF IsInput, OnWire

LEMMA StaysBehind ==
  ASSUME LogStep, NEW t \in DOMAIN log, NEW n, Behind(t, n)
  PROVE  Behind(t, n)'
<1>1. PICK i \in t..LastSeq : IsInput(i) /\ log[i].index <= n
  BY DEF Behind
<1>2. i \in DOMAIN log /\ log'[i] = log[i]
  BY <1>1, Kinds DEF LogStep
<1>3. i \in t..LastSeq' /\ IsInput(i)' /\ log'[i].index <= n
  BY <1>1, <1>2, Kinds DEF LogStep
<1> QED
  BY <1>3 DEF Behind

LEMMA StaysSettled ==
  ASSUME LogStep, NEW t \in DOMAIN log, Settled(t)
  PROVE  Settled(t)'
<1>1. Behind(t, start.index) => Behind(t, start.index)'
  <2> SUFFICES ASSUME Behind(t, start.index)  PROVE Behind(t, start.index)'
    OBVIOUS
  <2>1. PICK n : n = start.index
    OBVIOUS
  <2>2. Behind(t, n)'
    BY <2>1, StaysBehind
  <2>3. start' = start
    BY DEF LogStep
  <2> QED
    BY <2>1, <2>2, <2>3 DEF Behind
<1>2. /\ start' = start /\ first <= first' /\ first \in Nat /\ first' \in Nat
      /\ got \subseteq got' /\ t \in Nat
  BY Kinds DEF LogStep
<1>3. OnWire(t)' <=> OnWire(t)
  BY Kinds
<1> QED
  BY <1>1, <1>2, <1>3 DEF Settled

\* What is behind a cursor not ahead of the store stays settled.
LEMMA StaysBehindSettled ==
  ASSUME LogStep, NEW n \in Int, n <= start.index \/ n <= Committed,
         \A t \in DOMAIN log : Behind(t, n) => Settled(t)
  PROVE  \A t \in DOMAIN log' : Behind(t, n)' => Settled(t)'
<1> SUFFICES ASSUME NEW t \in DOMAIN log', Behind(t, n)'  PROVE Settled(t)'
  OBVIOUS
<1>1. PICK i \in t..LastSeq' : IsInput(i)' /\ log'[i].index <= n
  BY DEF Behind
<1>2. t \in Nat \ {0} /\ LastSeq \in Nat /\ LastSeq' \in Nat /\ t <= i /\ i \in Nat
  BY <1>1, Kinds
<1>3. CASE i <= LastSeq
  <2>1. t \in DOMAIN log /\ i \in DOMAIN log
    BY <1>2, <1>3, Kinds
  <2>2. Behind(t, n)
    <3>1. IsInput(i) /\ log[i].index <= n /\ i \in t..LastSeq
      BY <1>1, <1>2, <1>3, <2>1, Kinds DEF LogStep
    <3> QED
      BY <3>1 DEF Behind
  <2> QED
    BY <2>1, <2>2, StaysSettled
<1>4. CASE i > LastSeq
  <2>1. log'[i].index > Committed /\ log'[i].index \in Nat
    <3>1. log'[i].kind = "input" /\ i \in (LastSeq + 1)..LastSeq'
      BY <1>1, <1>2, <1>4 DEF IsInput
    <3>2. log' \in Seq(Record) /\ i \in DOMAIN log'
      BY <1>1, <1>2, Kinds DEF LogStep
    <3>3. log'[i] \in Record
      BY <3>2
    <3> QED
      BY <3>1, <3>3 DEF LogStep, Record
  <2>2. n <= start.index /\ start'.index = start.index /\ start.index \in Nat
    BY <1>1, <2>1 DEF LogStep
  <2>3. log'[i].index <= start'.index
    BY <1>1, <2>1, <2>2
  <2>4. Behind(t, start.index)'
    BY <1>1, <2>3 DEF Behind
  <2> QED
    BY <2>4 DEF Settled
<1> QED
  BY <1>2, <1>3, <1>4

-----------------------------------------------------------------------------
(* The journal's appends.                                                  *)

LEMMA SameLog ==
  ASSUME FeedInv, UNCHANGED <<log, start>>, first <= first', first' \in Nat, got \subseteq got'
  PROVE  LogStep
<1>1. Committed' = Committed
  BY DEF Committed, Indexes
<1>2. Committed \in Nat /\ log \in Seq(Record) /\ first \in Nat /\ LastSeq \in Nat
      /\ start \in [seq : Nat, index : Nat]
  BY Records DEF FeedInv, LogOK, TypeOK
<1> QED
  BY <1>1, <1>2 DEF LogStep, LastSeq

\* What is appended together: its first record may be an input, the next one.
Fresh(records) ==
  /\ records \in Seq(Record) /\ Len(records) \in {1, 2}
  /\ records[1].kind = "input" => records[1].index = Committed + 1
  /\ Len(records) = 2 => records[2].kind # "input"

LEMMA Published ==
  ASSUME FeedInv, NEW records, Fresh(records), Publish(records)
  PROVE  /\ log' \in Seq(Record) /\ LastSeq' = LastSeq + Len(records) /\ LastSeq \in Nat
         /\ DOMAIN log = 1..LastSeq /\ DOMAIN log' = 1..LastSeq'
         /\ \A s \in DOMAIN log : log'[s] = log[s]
         /\ log'[LastSeq + 1] = records[1]
         /\ Len(records) = 2 => log'[LastSeq + 2] = records[2]
         /\ \A s \in DOMAIN log' \ DOMAIN log :
              s = LastSeq + 1 \/ (Len(records) = 2 /\ s = LastSeq + 2)
<1>1. log \in Seq(Record) /\ records \in Seq(Record) /\ log' = log \o records
      /\ Len(records) \in {1, 2}
  BY DEF FeedInv, TypeOK, Fresh, Publish
<1>2. /\ log' \in Seq(Record) /\ Len(log') = Len(log) + Len(records)
      /\ \A s \in 1..Len(log) : log'[s] = log[s]
      /\ \A i \in 1..Len(records) : log'[Len(log) + i] = records[i]
      /\ DOMAIN log = 1..Len(log) /\ DOMAIN log' = 1..Len(log') /\ Len(log) \in Nat
  <2>1. PICK l : l = log'
    OBVIOUS
  <2> QED
    BY <1>1, <2>1
<1> HIDE <1>1
<1>3. Len(records) = 1 \/ Len(records) = 2
  BY <1>1
<1> QED
  BY <1>2, <1>3 DEF LastSeq

LEMMA PublishLog ==
  ASSUME FeedInv, NEW records, Fresh(records), Publish(records),
         snapshot' = snapshot \/ snapshot' = LastSeq
  PROVE  LogStep /\ LogOK'
<1>1. Committed \in Nat /\ Indexes = 1..Committed
      /\ snapshot \in Nat /\ snapshot <= LastSeq /\ (first = 1 \/ first <= snapshot)
  BY DEF FeedInv, LogOK, TypeOK
<1>2. \A s \in DOMAIN log : IsInput(s) => log[s].index \in 1..Committed
  BY InputIndexes DEF FeedInv
<1>3. \A s \in DOMAIN log : (IsInput(s)' <=> IsInput(s)) /\ log'[s] = log[s]
  BY Published DEF IsInput
<1>4. \A s \in DOMAIN log' \ DOMAIN log : IsInput(s)' =>
        s = LastSeq + 1 /\ records[1].kind = "input" /\ log'[s].index = Committed + 1
  BY Published DEF IsInput, Fresh
<1>5. Indexes' = {log'[s].index : s \in {t \in DOMAIN log' : IsInput(t)'}}
  BY DEF Indexes, IsInput
<1>6. Indexes = {log[s].index : s \in {t \in DOMAIN log : IsInput(t)}}
  BY DEF Indexes, IsInput
<1>7. PICK K : K = IF records[1].kind = "input" THEN Committed + 1 ELSE Committed
  OBVIOUS
<1>8. Indexes' = 1..K
  <2>1. ASSUME NEW n \in Indexes'  PROVE n \in 1..K
    <3>1. PICK s \in DOMAIN log' : IsInput(s)' /\ n = log'[s].index
      BY <1>5, <2>1
    <3>2. CASE s \in DOMAIN log
      BY <1>1, <1>2, <1>3, <1>7, <3>1, <3>2
    <3>3. CASE s \notin DOMAIN log
      BY <1>1, <1>4, <1>7, <3>1, <3>3
    <3> QED
      BY <3>2, <3>3
  <2>2. ASSUME NEW n \in 1..K  PROVE n \in Indexes'
    <3>1. CASE n \in 1..Committed
      <4>1. PICK s \in DOMAIN log : IsInput(s) /\ log[s].index = n
        BY <1>1, <1>6, <3>1
      <4>2. s \in DOMAIN log' /\ IsInput(s)' /\ log'[s].index = n
        BY <1>3, <4>1, Published DEF Fresh
      <4> QED
        BY <1>5, <4>2
    <3>2. CASE n \notin 1..Committed
      <4>1. n = Committed + 1 /\ records[1].kind = "input"
        BY <1>1, <1>7, <2>2, <3>2
      <4>2. PICK s : s = LastSeq + 1
        OBVIOUS
      <4>3. s \in DOMAIN log' /\ log'[s] = records[1]
        BY <4>2, Published DEF Fresh
      <4>4. IsInput(s)' /\ log'[s].index = n
        BY <4>1, <4>3 DEF IsInput, Fresh
      <4> QED
        BY <1>5, <4>3, <4>4
    <3> QED
      BY <3>1, <3>2
  <2> QED
    BY <2>1, <2>2
<1>9. Committed' = K /\ K \in Nat /\ Committed <= K
  <2>1. K \in Nat /\ Committed <= K
    BY <1>1, <1>7
  <2>2. PICK I : I = Indexes'
    OBVIOUS
  <2>3. Committed' = IF I = {} THEN 0 ELSE CHOOSE i \in I : \A k \in I : k <= i
    BY <2>2 DEF Committed
  <2>4. I = 1..K /\ K \in Nat
    BY <1>8, <2>1, <2>2
  <2>5. (IF I = {} THEN 0 ELSE CHOOSE i \in I : \A k \in I : k <= i) = K
    BY <2>4, LargestOf
  <2> QED
    BY <2>1, <2>3, <2>5
<1>10. LogStep
  <2>1. first' = first /\ start' = start /\ got' = got
    BY DEF Publish, reader
  <2>2. \A s \in (LastSeq + 1)..LastSeq' : s \in DOMAIN log' \ DOMAIN log
    BY Published DEF Fresh
  <2>3. \A s \in (LastSeq + 1)..LastSeq' : log'[s].kind = "input" => log'[s].index > Committed
    BY <1>1, <1>4, <2>2 DEF IsInput
  <2>4. LastSeq <= LastSeq'
    BY Published DEF Fresh
  <2> QED
    BY <1>1, <1>9, <2>1, <2>3, <2>4, Published DEF LogStep, FeedInv, TypeOK
<1>11. ASSUME NEW s \in DOMAIN log', NEW t \in DOMAIN log', IsInput(s)', IsInput(t)', s < t
       PROVE  log'[s].index < log'[t].index
  <2>1. s \in DOMAIN log
    BY <1>4, <1>11, Published DEF Fresh
  <2>2. CASE t \in DOMAIN log
    BY <1>3, <1>11, <2>1, <2>2 DEF FeedInv, LogOK
  <2>3. CASE t \notin DOMAIN log
    BY <1>1, <1>2, <1>3, <1>4, <1>11, <2>1, <2>3
  <2> QED
    BY <2>2, <2>3
<1>12. snapshot' <= LastSeq' /\ (first' = 1 \/ first' <= snapshot')
  <2>1. first' = first /\ LastSeq' = LastSeq + Len(records) /\ Len(records) \in {1, 2}
        /\ LastSeq \in Nat /\ first \in Nat
    BY Published DEF Publish, Fresh, FeedInv, TypeOK
  <2> QED
    BY <1>1, <2>1
<1> QED
  BY <1>8, <1>9, <1>10, <1>11, <1>12 DEF LogOK

Item == [seq : Nat, size : Nat]

\* What a record's offer makes of a feed.
Taken(f, g, n, r) ==
  \/ g = f /\ (f.state \notin {"backfill", "live"} \/ r.kind = "engine")
  \/ /\ f.state \in {"backfill", "live"} /\ r.kind # "engine" /\ g.state = f.state
     /\ g.queue = Append(f.queue, [seq |-> n, size |-> r.size])
  \/ f.state \in {"backfill", "live"} /\ g = [state |-> "removed", queue |-> <<>>]

LEMMA OfferTakes ==
  ASSUME NEW st, NEW q, NEW n, NEW r, NEW f, f = [state |-> st, queue |-> q]
  PROVE  Taken(f, Offer(f, n, r), n, r)
<1>1. f.state = st /\ f.queue = q
  OBVIOUS
<1>2. CASE st \notin {"backfill", "live"} \/ r.kind = "engine"
  BY <1>1, <1>2 DEF Offer, Taken
<1>3. CASE st \in {"backfill", "live"} /\ r.kind # "engine" /\ Fits(q, r.size)
  <2>1. Offer(f, n, r) = [state |-> st, queue |-> Append(q, [seq |-> n, size |-> r.size])]
    BY <1>1, <1>3 DEF Offer
  <2> QED
    BY <1>1, <1>3, <2>1 DEF Taken
<1>4. CASE st \in {"backfill", "live"} /\ r.kind # "engine" /\ ~Fits(q, r.size)
  <2>1. Offer(f, n, r) = [state |-> "removed", queue |-> <<>>]
    BY <1>1, <1>4 DEF Offer
  <2> QED
    BY <1>1, <1>4, <2>1 DEF Taken
<1> QED
  BY <1>2, <1>3, <1>4

\* The feed goes on with what was appended in its backlog ...
FeedGrows ==
  /\ feed' = feed /\ stage' = stage /\ toSend' = toSend /\ wire' = wire
  /\ backlog' \in Seq(Item) /\ Len(backlog) <= Len(backlog')
  /\ \A i \in DOMAIN backlog : backlog'[i] = backlog[i]
  /\ ~Open => backlog' = backlog
  /\ \A i \in DOMAIN backlog' \ DOMAIN backlog :
       backlog'[i].seq \in (LastSeq + 1)..LastSeq' /\ log'[backlog'[i].seq].kind # "engine"
  /\ \A i, k \in DOMAIN backlog' \ DOMAIN backlog : i < k => backlog'[i].seq < backlog'[k].seq
  /\ Open => \A s \in (LastSeq + 1)..LastSeq' :
       OnWire(s)' => \E i \in DOMAIN backlog' : backlog'[i].seq = s

\* ... or the stream ends, whatever is on its way.
StreamCut ==
  /\ feed' \in {"closed", "removed"} /\ backlog' = <<>> /\ stage' = "off"
  /\ toSend' = Nothing /\ Aborted(wire)

LEMMA OneQueued ==
  ASSUME NEW q \in Seq(Item), NEW n \in Nat, NEW r \in Record, NEW p,
         p = Append(q, [seq |-> n, size |-> r.size])
  PROVE  /\ p \in Seq(Item) /\ DOMAIN q = 1..Len(q) /\ DOMAIN p = 1..(Len(q) + 1)
         /\ Len(q) \in Nat /\ Len(p) = Len(q) + 1
         /\ \A i \in DOMAIN q : p[i] = q[i]
         /\ p[Len(q) + 1].seq = n
<1>1. [seq |-> n, size |-> r.size] \in Item
  BY DEF Item, Record
<1> QED
  BY <1>1, Appended

LEMMA PublishFeed ==
  ASSUME FeedInv, NEW records, Fresh(records), Publish(records)
  PROVE  FeedGrows \/ (Open /\ StreamCut)
<1>1. /\ feed' = Offered(records).state /\ backlog' = Offered(records).queue
      /\ IF Open /\ feed' = "removed"
         THEN stage' = "off" /\ toSend' = Nothing /\ Aborted(wire)
         ELSE UNCHANGED <<stage, toSend, wire>>
  BY DEF Publish
<1>2. PICK f : f = [state |-> feed, queue |-> backlog]
  OBVIOUS
<1>3. PICK g : g = Offer(f, LastSeq + 1, records[1])
  OBVIOUS
<1>4. PICK h : h = IF Len(records) = 1 THEN g ELSE Offer(g, LastSeq + 2, records[2])
  OBVIOUS
<1>5. feed' = h.state /\ backlog' = h.queue
  BY <1>1, <1>2, <1>3, <1>4 DEF Offered
<1>6. /\ backlog \in Seq(Item) /\ (~Open => backlog = <<>>) /\ LastSeq \in Nat
      /\ feed \in {"none", "backfill", "live", "closed", "removed"}
      /\ Open <=> feed \in {"backfill", "live"}
  BY Records DEF FeedInv, TypeOK, StageOK, Item, Open
<1>7. /\ Len(records) \in {1, 2} /\ records[1] \in Record
      /\ Len(records) = 2 => records[2] \in Record
  BY DEF Fresh
<1>8. /\ LastSeq' = LastSeq + Len(records) /\ log'[LastSeq + 1] = records[1]
      /\ Len(records) = 2 => log'[LastSeq + 2] = records[2]
  BY Published
<1>9. Taken(f, g, LastSeq + 1, records[1])
  BY <1>2, <1>3, OfferTakes
<1>10. CASE ~Open
  <2>1. g = f
    BY <1>2, <1>6, <1>9, <1>10 DEF Taken
  <2>2. h = f
    <3>1. Len(records) # 1 => Taken(g, h, LastSeq + 2, records[2])
      BY <1>2, <1>4, <2>1, OfferTakes
    <3> QED
      BY <1>2, <1>4, <1>6, <1>10, <2>1, <3>1 DEF Taken
  <2>3. feed' = feed /\ backlog' = backlog /\ UNCHANGED <<stage, toSend, wire>>
    BY <1>1, <1>2, <1>5, <1>10, <2>2
  <2> QED
    BY <1>6, <1>10, <2>3 DEF FeedGrows
<1>11. CASE Open /\ feed' # "removed"
  <2>1. g.state = feed /\ g = [state |-> g.state, queue |-> g.queue]
        /\ \/ g.queue = backlog /\ records[1].kind = "engine"
           \/ /\ records[1].kind # "engine"
              /\ g.queue = Append(backlog, [seq |-> LastSeq + 1, size |-> records[1].size])
    <3>1. g.state \in {feed, "removed"}
      BY <1>2, <1>9 DEF Taken
    <3>2. g.state # "removed"
      <4> SUFFICES ASSUME g.state = "removed"  PROVE FALSE
        OBVIOUS
      <4>1. g = [state |-> "removed", queue |-> <<>>]
        BY <1>2, <1>6, <1>9, <1>11 DEF Taken
      <4>2. Len(records) # 1 => Taken(g, h, LastSeq + 2, records[2])
        BY <1>4, <4>1, OfferTakes
      <4>3. h = g
        BY <1>4, <4>1, <4>2 DEF Taken
      <4> QED
        BY <1>5, <1>11, <4>1, <4>3
    <3>3. g = [state |-> g.state, queue |-> g.queue]
      <4>1. f = [state |-> f.state, queue |-> f.queue]
        BY <1>2
      <4>2. CASE Fits(f.queue, records[1].size)
        BY <1>3, <4>1, <4>2 DEF Offer
      <4>3. CASE ~Fits(f.queue, records[1].size)
        BY <1>3, <4>1, <4>3 DEF Offer
      <4> QED
        BY <4>2, <4>3
    <3> QED
      BY <1>2, <1>6, <1>9, <1>11, <3>1, <3>2, <3>3 DEF Taken
  <2>2. /\ h.state = feed /\ feed \in {"backfill", "live"}
        /\ \/ Len(records) = 1 /\ h.queue = g.queue
           \/ Len(records) = 2 /\ h.queue = g.queue /\ records[2].kind = "engine"
           \/ /\ Len(records) = 2 /\ records[2].kind # "engine"
              /\ h.queue = Append(g.queue, [seq |-> LastSeq + 2, size |-> records[2].size])
    <3>1. Len(records) # 1 => Taken(g, h, LastSeq + 2, records[2])
      BY <1>4, <2>1, OfferTakes
    <3> QED
      BY <1>4, <1>5, <1>6, <1>7, <1>11, <2>1, <3>1 DEF Taken
  <2>3. /\ g.queue \in Seq(Item) /\ Len(g.queue) \in Nat
        /\ DOMAIN g.queue = 1..Len(g.queue) /\ DOMAIN backlog = 1..Len(backlog)
        /\ Len(backlog) \in Nat
        /\ \A i \in DOMAIN backlog : g.queue[i] = backlog[i]
        /\ \/ Len(g.queue) = Len(backlog) /\ records[1].kind = "engine"
           \/ /\ Len(g.queue) = Len(backlog) + 1 /\ records[1].kind # "engine"
              /\ g.queue[Len(backlog) + 1].seq = LastSeq + 1
    <3>1. CASE g.queue = backlog /\ records[1].kind = "engine"
      BY <1>6, <3>1
    <3>2. CASE /\ records[1].kind # "engine"
               /\ g.queue = Append(backlog, [seq |-> LastSeq + 1, size |-> records[1].size])
      BY <1>6, <1>7, <3>2, OneQueued
    <3> QED
      BY <2>1, <3>1, <3>2
  <2>4. /\ h.queue \in Seq(Item) /\ Len(h.queue) \in Nat /\ DOMAIN h.queue = 1..Len(h.queue)
        /\ \A i \in DOMAIN g.queue : h.queue[i] = g.queue[i]
        /\ \/ /\ Len(h.queue) = Len(g.queue)
              /\ Len(records) = 1 \/ records[2].kind = "engine"
           \/ /\ Len(h.queue) = Len(g.queue) + 1 /\ Len(records) = 2
              /\ records[2].kind # "engine" /\ h.queue[Len(g.queue) + 1].seq = LastSeq + 2
    <3>1. CASE h.queue = g.queue /\ (Len(records) = 1 \/ records[2].kind = "engine")
      BY <2>3, <3>1
    <3>2. CASE /\ Len(records) = 2 /\ records[2].kind # "engine"
               /\ h.queue = Append(g.queue, [seq |-> LastSeq + 2, size |-> records[2].size])
      BY <1>6, <1>7, <2>3, <3>2, OneQueued
    <3> QED
      BY <2>2, <3>1, <3>2
  <2>5. /\ backlog' \in Seq(Item) /\ DOMAIN backlog' = 1..Len(backlog')
        /\ Len(backlog) <= Len(backlog') /\ \A i \in DOMAIN backlog : backlog'[i] = backlog[i]
    BY <1>5, <2>3, <2>4
  <2>6. ASSUME NEW i \in DOMAIN backlog' \ DOMAIN backlog
        PROVE  \/ /\ i = Len(backlog) + 1 /\ backlog'[i].seq = LastSeq + 1
                  /\ records[1].kind # "engine"
               \/ /\ i = Len(g.queue) + 1 /\ backlog'[i].seq = LastSeq + 2 /\ Len(records) = 2
                  /\ records[2].kind # "engine"
    BY <1>5, <2>3, <2>4, <2>6
  <2>7. \A i \in DOMAIN backlog' \ DOMAIN backlog :
          backlog'[i].seq \in (LastSeq + 1)..LastSeq' /\ log'[backlog'[i].seq].kind # "engine"
    BY <1>6, <1>7, <1>8, <2>6
  <2>8. \A i, k \in DOMAIN backlog' \ DOMAIN backlog :
          i < k => backlog'[i].seq < backlog'[k].seq
    BY <1>6, <2>3, <2>6
  <2>9. ASSUME NEW s \in (LastSeq + 1)..LastSeq', OnWire(s)'
        PROVE  \E i \in DOMAIN backlog' : backlog'[i].seq = s
    <3>1. s = LastSeq + 1 \/ (s = LastSeq + 2 /\ Len(records) = 2)
      <4>1. CASE Len(records) = 1
        BY <1>6, <1>8, <2>9, <4>1
      <4>2. CASE Len(records) = 2
        BY <1>6, <1>8, <2>9, <4>2
      <4> QED
        BY <1>7, <4>1, <4>2
    <3>2. CASE s = LastSeq + 1
      <4>1. records[1].kind # "engine"
        BY <1>8, <2>9, <3>2 DEF OnWire
      <4>2. /\ Len(backlog) + 1 \in DOMAIN backlog'
            /\ backlog'[Len(backlog) + 1].seq = LastSeq + 1
        BY <1>5, <2>3, <2>4, <4>1
      <4> QED
        BY <3>2, <4>2
    <3>3. CASE s = LastSeq + 2 /\ Len(records) = 2
      <4>1. records[2].kind # "engine"
        BY <1>8, <2>9, <3>3 DEF OnWire
      <4>2. /\ Len(g.queue) + 1 \in DOMAIN backlog'
            /\ backlog'[Len(g.queue) + 1].seq = LastSeq + 2
        BY <1>5, <2>3, <2>4, <3>3, <4>1
      <4> QED
        BY <3>3, <4>2
    <3> QED
      BY <3>1, <3>2, <3>3
  <2>10. feed' = feed /\ UNCHANGED <<stage, toSend, wire>>
    BY <1>1, <1>5, <1>11, <2>2
  <2> QED
    BY <1>11, <2>5, <2>7, <2>8, <2>9, <2>10 DEF FeedGrows
<1>12. CASE Open /\ feed' = "removed"
  <2>1. backlog' = <<>>
    <3>1. Taken(g, h, LastSeq + 2, records[2]) \/ h = g
      <4>1. g = [state |-> g.state, queue |-> g.queue]
        <5>1. f = [state |-> f.state, queue |-> f.queue]
          BY <1>2
        <5>2. CASE Fits(f.queue, records[1].size)
          BY <1>3, <5>1, <5>2 DEF Offer
        <5>3. CASE ~Fits(f.queue, records[1].size)
          BY <1>3, <5>1, <5>3 DEF Offer
        <5> QED
          BY <5>2, <5>3
      <4> QED
        BY <1>4, <4>1, OfferTakes
    <3>2. g.state = "removed" => g.queue = <<>>
      BY <1>2, <1>6, <1>9, <1>12 DEF Taken
    <3>3. h.state = "removed" => h.queue = <<>>
      BY <3>1, <3>2 DEF Taken
    <3> QED
      BY <1>5, <1>12, <3>3
  <2> QED
    BY <1>1, <1>12, <2>1 DEF StreamCut
<1> QED
  BY <1>10, <1>11, <1>12

-----------------------------------------------------------------------------
(* What every step of a stream keeps.                                      *)

LEMMA Shapes ==
  ASSUME FeedInv
  PROVE  /\ LastSeq \in Nat /\ DOMAIN log = 1..LastSeq /\ Committed \in Nat
         /\ \A s \in DOMAIN log : log[s] \in Record /\ log[s].index \in Nat
         /\ Len(wire) \in Nat /\ DOMAIN wire = 1..Len(wire) /\ wire \in Seq(WireLine)
         /\ \A i \in DOMAIN wire : wire[i] \in WireLine /\ wire[i].n \in Int
         /\ Len(backlog) \in Nat /\ DOMAIN backlog = 1..Len(backlog) /\ backlog \in Seq(Item)
         /\ \A i \in DOMAIN backlog : backlog[i].seq \in Nat
         /\ request.seam \in Nat /\ request.since \in Int /\ Base \in Int
         /\ client.cursor \in Int /\ client.told \in Int
         /\ start.seq \in Nat /\ start.index \in Nat /\ first \in Nat \ {0}
<1>1. /\ log \in Seq(Record) /\ wire \in Seq(WireLine) /\ backlog \in Seq(Item)
      /\ Committed \in Nat
  BY DEF FeedInv, TypeOK, LogOK, Item
<1>2. /\ request.seam \in Nat /\ request.since \in Int
      /\ client.cursor \in Int /\ client.told \in Int
      /\ start.seq \in Nat /\ start.index \in Nat /\ first \in Nat \ {0}
  BY DEF FeedInv, TypeOK
<1>3. \A l \in WireLine : l.n \in Int
  BY DEF WireLine
<1>4. \A b \in Item : b.seq \in Nat
  BY DEF Item
<1> QED
  BY <1>1, <1>2, <1>3, <1>4, Records DEF Base

LEMMA Places ==
  ASSUME FeedInv
  PROVE  /\ LastSeq \in Nat
         /\ \A s \in DOMAIN log : s \in Nat \ {0} /\ s <= LastSeq /\ log[s].index \in Nat
         /\ \A i \in DOMAIN backlog : backlog[i].seq \in Nat
BY Shapes

LEMMA CursorStays ==
  ASSUME FeedInv, LogStep, UNCHANGED <<request, client>>
  PROVE  CursorOK' /\ BaseOK' /\ Base' = Base
<1>1. Base' = Base /\ start' = start /\ request' = request /\ client' = client
  BY DEF Base, LogStep
<1>2. LastSeq <= LastSeq' /\ Committed <= Committed' /\ Committed' \in Nat /\ LastSeq' \in Nat
  BY Kinds DEF LogStep
<1>3. CursorOK'
  <2>1. client.cursor # NoSince =>
          \A t \in DOMAIN log' : Behind(t, client.cursor)' => Settled(t)'
    <3> SUFFICES ASSUME client.cursor # NoSince
                 PROVE  \A t \in DOMAIN log' : Behind(t, client.cursor)' => Settled(t)'
      OBVIOUS
    <3>1. PICK n : n = client.cursor
      OBVIOUS
    <3>2. \A t \in DOMAIN log : Behind(t, n) => Settled(t)
      BY <3>1 DEF FeedInv, CursorOK
    <3>3. \A t \in DOMAIN log' : Behind(t, n)' => Settled(t)'
      BY <3>1, <3>2, StaysBehindSettled, Shapes DEF FeedInv, CursorOK
    <3> QED
      BY <1>1, <3>1, <3>3 DEF Behind
  <2> QED
    BY <1>1, <1>2, <2>1, Shapes DEF FeedInv, CursorOK, Connected, Behind
<1>4. BaseOK'
  <2> SUFFICES ASSUME Connected  PROVE BaseOK'
    BY <1>1 DEF BaseOK, Connected
  <2>1. \A t \in DOMAIN log' : Behind(t, Base)' => Settled(t)'
    <3>1. PICK n : n = Base
      OBVIOUS
    <3>2. \A t \in DOMAIN log : Behind(t, n) => Settled(t)
      BY <3>1 DEF FeedInv, BaseOK
    <3>3. \A t \in DOMAIN log' : Behind(t, n)' => Settled(t)'
      BY <3>1, <3>2, StaysBehindSettled, Shapes DEF FeedInv, BaseOK
    <3> QED
      BY <1>1, <3>1, <3>3 DEF Behind
  <2>2. ASSUME request.since = NoSince
        PROVE  \A s \in DOMAIN log' : IsInput(s)' =>
                 (s > request.seam <=> log'[s].index > start.index)
    <3> SUFFICES ASSUME NEW s \in DOMAIN log', IsInput(s)'
                 PROVE  s > request.seam <=> log'[s].index > start.index
      OBVIOUS
    <3>1. /\ start.index <= Committed /\ request.seam <= LastSeq
          /\ \A t \in DOMAIN log : IsInput(t) =>
               (t > request.seam <=> log[t].index > start.index)
      BY <2>2 DEF FeedInv, BaseOK
    <3>2. CASE s \in DOMAIN log
      BY <3>1, <3>2, Kinds DEF LogStep
    <3>3. CASE s \notin DOMAIN log
      <4>1. s \in (LastSeq + 1)..LastSeq' /\ log'[s].kind = "input"
        BY <3>3, Kinds DEF IsInput
      <4>2. log'[s].index > Committed /\ log'[s].index \in Nat
        <5>1. log'[s] \in Record
          BY DEF LogStep
        <5> QED
          BY <4>1, <5>1 DEF LogStep, Record
      <4> QED
        BY <3>1, <4>1, <4>2, Shapes
    <3> QED
      BY <3>2, <3>3
  <2> QED
    BY <1>1, <1>2, <2>1, <2>2, Shapes DEF FeedInv, BaseOK, Connected, Behind
<1> QED
  BY <1>1, <1>3, <1>4

\* A line stands for what it stood for while the lines up to it are the same.
LEMMA LineStays ==
  ASSUME FeedInv, LogStep, UNCHANGED <<request, client>>,
         NEW i \in DOMAIN wire, \A k \in 1..i : wire'[k] = wire[k]
  PROVE  LineAt(i)' /\ InputAt(i)'
<1>1. i \in Nat \ {0} /\ i <= Len(wire) /\ DOMAIN wire = 1..Len(wire) /\ wire'[i] = wire[i]
      /\ Len(wire) \in Nat
  BY Shapes
<1>2. LineAt(i)'
  <2> SUFFICES ASSUME wire[i].what = "record", NEW t \in 1..(wire[i].n - 1)
               PROVE  Settled(t)' \/ \E k \in 1..(i - 1) : wire'[k] = Line("record", t)
    BY <1>1 DEF LineAt
  <2>1. Settled(t) \/ \E k \in 1..(i - 1) : wire[k] = Line("record", t)
    BY DEF FeedInv, LineOK, LineAt
  <2>2. t \in DOMAIN log
    <3>1. wire[i].n \in DOMAIN log
      BY DEF FeedInv, OrderOK
    <3> QED
      BY <3>1, Shapes
  <2>3. Settled(t) => Settled(t)'
    BY <2>2, StaysSettled
  <2> QED
    BY <1>1, <2>1, <2>3
<1>3. InputAt(i)'
  <2> SUFFICES ASSUME wire[i].what = "record", IsInput(wire[i].n)',
                      NEW x, x = log'[wire[i].n].index - 1
               PROVE  Known(x)' \/ \E k \in 1..(i - 1) : Says(k, x)'
    BY <1>1 DEF InputAt, IsInput
  <2>1. wire[i].n \in DOMAIN log
    BY DEF FeedInv, OrderOK
  <2>2. PICK s : s = wire[i].n
    OBVIOUS
  <2>3. IsInput(s) /\ x = log[s].index - 1
    <3>1. IsInput(s)'
      BY <1>1, <2>2 DEF IsInput
    <3> QED
      BY <2>1, <2>2, <3>1, Kinds DEF LogStep
  <2>4. Known(x) \/ \E k \in 1..(i - 1) : Says(k, x)
    BY <2>2, <2>3 DEF FeedInv, LineInputOK, InputAt
  <2>5. Known(x) => Known(x)'
    BY CursorStays DEF Known
  <2>6. ASSUME NEW k \in 1..(i - 1), Says(k, x)  PROVE Says(k, x)'
    <3>1. wire'[k] = wire[k] /\ k \in DOMAIN wire
      BY <1>1
    <3>2. wire[k].what = "record" => wire[k].n \in DOMAIN log
      BY <3>1 DEF FeedInv, OrderOK
    <3>3. PICK m : m = wire[k].n
      OBVIOUS
    <3>4. wire[k].what = "record" => (IsInput(m)' <=> IsInput(m)) /\ log'[m] = log[m]
      BY <3>2, <3>3, Kinds DEF LogStep
    <3> QED
      BY <2>6, <3>1, <3>3, <3>4 DEF Says, IsInput
  <2> QED
    BY <2>4, <2>5, <2>6
<1> QED
  BY <1>2, <1>3

\* The lines not lost are the first ones.
LEMMA LinesLost ==
  ASSUME FeedInv, LogStep, UNCHANGED <<request, client>>, Aborted(wire)
  PROVE  /\ wire' \in Seq(WireLine) /\ DOMAIN wire' \subseteq DOMAIN wire
         /\ \A i \in DOMAIN wire' : wire'[i] = wire[i]
         /\ (wire' # <<>> => wire # <<>> /\ 1 \in DOMAIN wire')
         /\ LineOK' /\ LineInputOK'
<1>1. PICK n \in 0..Len(wire) : wire' = SubSeq(wire, 1, n)
  BY DEF Aborted
<1>2. PICK w : w = wire'
  OBVIOUS
<1>3. /\ w \in Seq(WireLine) /\ DOMAIN w = 1..n /\ DOMAIN wire = 1..Len(wire)
      /\ Len(wire) \in Nat /\ \A i \in DOMAIN w : i \in DOMAIN wire /\ w[i] = wire[i]
  BY <1>1, <1>2, PrefixOf, Shapes
<1>4. w # <<>> => wire # <<>> /\ 1 \in DOMAIN w
  <2>1. w # <<>> => n # 0
    BY <1>3
  <2>2. n # 0 => Len(wire) # 0
    BY <1>3
  <2> QED
    BY <1>3, <2>1, <2>2
<1>5. ASSUME NEW i \in DOMAIN wire'  PROVE LineAt(i)' /\ InputAt(i)'
  <2>1. i \in DOMAIN wire /\ \A k \in 1..i : wire'[k] = wire[k]
    BY <1>2, <1>3
  <2> QED
    BY <2>1, LineStays
<1> QED
  BY <1>2, <1>3, <1>4, <1>5 DEF LineOK, LineInputOK

LEMMA CutKeeps ==
  ASSUME FeedInv, LogStep, LogOK', TypeOK', Open, StreamCut, UNCHANGED <<request, client>>
  PROVE  FeedInv'
<1>1. CursorOK' /\ BaseOK' /\ Base' = Base
  BY CursorStays
<1>2. /\ wire' \in Seq(WireLine) /\ DOMAIN wire' \subseteq DOMAIN wire
      /\ \A i \in DOMAIN wire' : wire'[i] = wire[i]
      /\ (wire' # <<>> => wire # <<>> /\ 1 \in DOMAIN wire')
      /\ LineOK' /\ LineInputOK'
  BY LinesLost DEF StreamCut
<1>3. /\ ~Open' /\ stage' = "off" /\ toSend' = Nothing /\ backlog' = <<>>
      /\ Connected /\ Connected' /\ client' = client /\ request' = request
  BY DEF StreamCut, Open, Connected, FeedInv, StageOK
<1>4. StageOK'
  <2>1. Nothing.records = {} /\ DOMAIN backlog' = {}
    BY <1>3 DEF Nothing
  <2> QED
    BY <1>3, <2>1 DEF StageOK
<1>5. WireOK'
  <2>1. Nothing.marker = 0
    BY DEF Nothing
  <2> QED
    BY <1>1, <1>2, <1>3, <2>1 DEF FeedInv, WireOK
<1>6. OrderOK'
  <2>1. Nothing.records = {} /\ DOMAIN backlog' = {}
    BY <1>3 DEF Nothing
  <2>2. \A s \in DOMAIN log : s \in DOMAIN log'
    BY Kinds
  <2> QED
    BY <1>2, <1>3, <2>1, <2>2 DEF FeedInv, OrderOK
<1>7. PastCursor'
  <2> SUFFICES ASSUME NEW s \in DOMAIN log', OnItsWay(s)', IsInput(s)'
               PROVE  log'[s].index > Base /\ log'[s].index > client.cursor
    BY <1>1, <1>3 DEF PastCursor
  <2>1. Nothing.records = {} /\ DOMAIN backlog' = {}
    BY <1>3 DEF Nothing
  <2>2. PICK i \in DOMAIN wire' : wire'[i] = Line("record", s)
    BY <1>3, <2>1 DEF OnItsWay, Line
  <2>3. i \in DOMAIN wire /\ wire[i] = Line("record", s)
    BY <1>2, <2>2
  <2>4. s \in DOMAIN log
    BY <2>3 DEF FeedInv, OrderOK, Line
  <2>5. OnItsWay(s) /\ IsInput(s) /\ log'[s] = log[s]
    BY <2>3, <2>4, Kinds DEF OnItsWay, LogStep
  <2> QED
    BY <2>4, <2>5 DEF FeedInv, PastCursor
<1> QED
  BY <1>1, <1>2, <1>3, <1>4, <1>5, <1>6, <1>7 DEF FeedInv, StreamOK, StreamInputOK

LEMMA GrowsItems ==
  ASSUME FeedInv, LogStep, FeedGrows
  PROVE  /\ DOMAIN backlog \subseteq DOMAIN backlog' /\ DOMAIN backlog' = 1..Len(backlog')
         /\ Len(backlog') \in Nat
         /\ \A i \in DOMAIN backlog' \ DOMAIN backlog :
              /\ i > Len(backlog) /\ backlog'[i].seq \in DOMAIN log' \ DOMAIN log
              /\ backlog'[i].seq > LastSeq /\ Open
              /\ log'[backlog'[i].seq].kind # "engine"
<1>1. /\ backlog' \in Seq(Item) /\ Len(backlog) <= Len(backlog')
      /\ DOMAIN backlog = 1..Len(backlog) /\ Len(backlog) \in Nat
  BY Shapes DEF FeedGrows
<1>2. DOMAIN backlog' = 1..Len(backlog') /\ Len(backlog') \in Nat
  BY <1>1
<1>3. DOMAIN log = 1..LastSeq /\ DOMAIN log' = 1..LastSeq' /\ LastSeq \in Nat /\ LastSeq' \in Nat
  BY Kinds
<1> QED
  BY <1>1, <1>2, <1>3 DEF FeedGrows

LEMMA GrowKeeps ==
  ASSUME FeedInv, LogStep, LogOK', TypeOK', FeedGrows, UNCHANGED <<request, client>>
  PROVE  FeedInv'
<1>1. CursorOK' /\ BaseOK' /\ Base' = Base
  BY CursorStays
<1>2. /\ wire' = wire /\ toSend' = toSend /\ stage' = stage /\ feed' = feed
      /\ (Open' <=> Open) /\ (Connected' <=> Connected) /\ client' = client /\ request' = request
  BY DEF FeedGrows, Open, Connected
<1>3. /\ \A s \in DOMAIN log : s \in DOMAIN log' /\ log'[s] = log[s]
      /\ \A s \in DOMAIN log : (IsInput(s)' <=> IsInput(s)) /\ (OnWire(s)' <=> OnWire(s))
      /\ DOMAIN log' = 1..LastSeq' /\ LastSeq' \in Nat /\ LastSeq <= LastSeq'
  BY Kinds DEF LogStep
<1>4. Open => Connected /\ request.seam <= LastSeq
  BY DEF FeedInv, StageOK, BaseOK
<1>5. \A i \in DOMAIN backlog : i \in DOMAIN backlog' /\ backlog'[i] = backlog[i]
  BY GrowsItems DEF FeedGrows
<1>6. StageOK'
  <2>1. ASSUME NEW i \in DOMAIN backlog'
        PROVE  /\ backlog'[i].seq \in DOMAIN log' /\ backlog'[i].seq > request.seam
               /\ log'[backlog'[i].seq].kind # "engine"
    <3>1. CASE i \in DOMAIN backlog
      <4>1. /\ backlog[i].seq \in DOMAIN log /\ backlog[i].seq > request.seam
            /\ log[backlog[i].seq].kind # "engine"
        BY <3>1 DEF FeedInv, StageOK, OnWire
      <4> QED
        BY <1>3, <1>5, <3>1, <4>1
    <3>2. CASE i \notin DOMAIN backlog
      BY <1>3, <1>4, <3>2, GrowsItems, Shapes
    <3> QED
      BY <3>1, <3>2
  <2>2. ASSUME NEW i \in DOMAIN backlog', NEW k \in DOMAIN backlog', i < k
        PROVE  backlog'[i].seq < backlog'[k].seq
    <3>1. CASE k \in DOMAIN backlog
      <4>1. i \in DOMAIN backlog
        BY <2>2, <3>1, GrowsItems, Shapes
      <4> QED
        BY <1>5, <2>2, <3>1, <4>1 DEF FeedInv, StageOK
    <3>2. CASE k \notin DOMAIN backlog /\ i \in DOMAIN backlog
      <4>1. backlog[i].seq \in DOMAIN log /\ backlog'[i] = backlog[i]
        BY <1>5, <3>2 DEF FeedInv, StageOK
      <4>2. backlog'[k].seq > LastSeq /\ backlog'[k].seq \in DOMAIN log'
        BY <3>2, GrowsItems
      <4>3. backlog'[k].seq \in Nat
        BY <4>2, Kinds
      <4> QED
        BY <4>1, <4>2, <4>3, Places
    <3>3. CASE k \notin DOMAIN backlog /\ i \notin DOMAIN backlog
      BY <2>2, <3>3 DEF FeedGrows
    <3> QED
      BY <3>1, <3>2, <3>3
  <2>3. ~Open' => backlog' = <<>>
    BY <1>2 DEF FeedGrows, FeedInv, StageOK
  <2> QED
    BY <1>1, <1>2, <1>3, <2>1, <2>2, <2>3 DEF FeedInv, StageOK, OnWire
<1>7. WireOK'
  BY <1>1, <1>2 DEF FeedInv, WireOK
<1>8. OrderOK'
  <2> SUFFICES ASSUME NEW i \in DOMAIN wire, wire[i].what = "record"
               PROVE  /\ wire[i].n \in DOMAIN log'
                      /\ \A k \in DOMAIN wire :
                           wire[k].what = "record" /\ i < k => wire[i].n < wire[k].n
                      /\ \A s \in toSend.records : wire[i].n < s
                      /\ \A k \in DOMAIN backlog' : wire[i].n < backlog'[k].seq
    BY <1>2 DEF OrderOK
  <2>1. wire[i].n \in DOMAIN log
    BY DEF FeedInv, OrderOK
  <2>2. ASSUME NEW k \in DOMAIN backlog'  PROVE wire[i].n < backlog'[k].seq
    <3>1. CASE k \in DOMAIN backlog
      BY <1>5, <3>1 DEF FeedInv, OrderOK
    <3>2. CASE k \notin DOMAIN backlog
      <4>1. backlog'[k].seq > LastSeq /\ backlog'[k].seq \in DOMAIN log'
        BY <3>2, GrowsItems
      <4>2. backlog'[k].seq \in Nat
        BY <4>1, Kinds
      <4> QED
        BY <2>1, <4>1, <4>2, Places
    <3> QED
      BY <3>1, <3>2
  <2> QED
    BY <1>3, <2>1, <2>2 DEF FeedInv, OrderOK
<1>9. PastCursor'
  <2> SUFFICES ASSUME NEW s \in DOMAIN log', OnItsWay(s)', IsInput(s)'
               PROVE  log'[s].index > Base /\ log'[s].index > client.cursor
    BY <1>1, <1>2 DEF PastCursor
  <2>1. CASE s \in DOMAIN log
    <3>1. IsInput(s) /\ log'[s] = log[s] /\ (Skipped(s)' <=> Skipped(s))
      BY <1>2, <1>3, <2>1 DEF Skipped
    <3>2. ASSUME NEW i \in DOMAIN backlog', backlog'[i].seq = s  PROVE i \in DOMAIN backlog
      BY <2>1, <3>2, GrowsItems
    <3>3. OnItsWay(s)
      BY <1>2, <1>5, <3>1, <3>2 DEF OnItsWay
    <3> QED
      BY <2>1, <3>1, <3>3 DEF FeedInv, PastCursor
  <2>2. CASE s \notin DOMAIN log
    <3>1. Open /\ ~Skipped(s)'
      <4>1. \A i \in DOMAIN wire : wire[i] = Line("record", s) => FALSE
        BY <2>2 DEF FeedInv, OrderOK, Line
      <4>2. s \notin toSend.records
        BY <2>2 DEF FeedInv, StageOK
      <4>3. PICK i \in DOMAIN backlog' : backlog'[i].seq = s /\ ~Skipped(s)'
        BY <1>2, <4>1, <4>2 DEF OnItsWay
      <4>4. i \notin DOMAIN backlog
        BY <1>5, <2>2, <4>3 DEF FeedInv, StageOK
      <4> QED
        BY <4>3, <4>4, GrowsItems
    <3>2. log'[s].index > Committed /\ log'[s].index \in Nat
      <4>1. s \in (LastSeq + 1)..LastSeq' /\ log'[s].kind = "input"
        BY <2>2, Kinds DEF IsInput
      <4>2. log'[s] \in Record
        BY DEF LogStep
      <4> QED
        BY <4>1, <4>2 DEF LogStep, Record
    <3>3. request.since # NoSince => log'[s].index > Base
      <4>1. request.since # NoSince => ~(log'[s].index <= request.since)
        BY <1>2, <3>1 DEF Skipped
      <4> QED
        BY <3>2, <4>1, Shapes DEF Base
    <3>4. request.since = NoSince => log'[s].index > Base
      <4>1. request.since = NoSince => Base = start.index /\ start.index <= Committed
        BY <1>4, <3>1 DEF Base, FeedInv, BaseOK
      <4> QED
        BY <3>2, <4>1, Shapes
    <3>5. log'[s].index > client.cursor
      <4>1. client.cursor = NoSince \/ client.cursor <= Committed \/ client.cursor <= start.index
        BY DEF FeedInv, CursorOK
      <4>2. Base >= start.index
        BY <1>4, <3>1 DEF FeedInv, BaseOK
      <4>3. log'[s].index > Base
        BY <3>3, <3>4
      <4> QED
        BY <3>2, <4>1, <4>2, <4>3, Shapes DEF NoSince
    <3> QED
      BY <3>3, <3>4, <3>5
  <2> QED
    BY <2>1, <2>2
<1>10. LineOK' /\ LineInputOK'
  <2>1. \A i \in DOMAIN wire : LineAt(i)' /\ InputAt(i)'
    BY <1>2, LineStays
  <2> QED
    BY <1>2, <2>1 DEF LineOK, LineInputOK
<1>11. StreamOK'
  <2> SUFFICES ASSUME Open, NEW t \in DOMAIN log'  PROVE Accounted(t)'
    BY <1>2 DEF StreamOK
  <2>1. CASE t \in DOMAIN log
    <3>1. Accounted(t)
      BY <2>1 DEF FeedInv, StreamOK
    <3>2. Settled(t) => Settled(t)'
      BY <2>1, StaysSettled
    <3>3. Behind(t, Base)' => Settled(t)'
      BY <1>1, <1>2, <1>4, <2>1 DEF BaseOK
    <3> QED
      BY <1>2, <1>5, <3>1, <3>2, <3>3 DEF Accounted
  <2>2. CASE t \notin DOMAIN log
    <3>1. t \in (LastSeq + 1)..LastSeq'
      BY <2>2, Kinds
    <3>2. OnWire(t)' => \E i \in DOMAIN backlog' : backlog'[i].seq = t
      BY <3>1 DEF FeedGrows
    <3> QED
      BY <3>2 DEF Accounted, Settled
  <2> QED
    BY <2>1, <2>2
<1>12. StreamInputOK'
  <2> SUFFICES ASSUME Open, NEW u \in DOMAIN log', IsInput(u)'  PROVE InputAccounted(u)'
    BY <1>2 DEF StreamInputOK
  <2>1. CASE u \in DOMAIN log
    <3>1. InputAccounted(u) /\ log'[u] = log[u]
      BY <1>3, <2>1 DEF FeedInv, StreamInputOK
    <3>2. PICK x : x = log[u].index
      OBVIOUS
    <3>3. Known(x) => Known(x)'
      BY <1>1, <1>2 DEF Known
    <3>4. ASSUME NEW k \in DOMAIN wire, Says(k, x)  PROVE Says(k, x)'
      <4>1. wire[k].what = "record" => wire[k].n \in DOMAIN log
        BY DEF FeedInv, OrderOK
      <4>2. PICK m : m = wire[k].n
        OBVIOUS
      <4>3. wire[k].what = "record" => (IsInput(m)' <=> IsInput(m)) /\ log'[m] = log[m]
        BY <1>3, <4>1, <4>2
      <4> QED
        BY <1>2, <3>4, <4>2, <4>3 DEF Says, IsInput
    <3> QED
      BY <1>2, <1>5, <3>1, <3>2, <3>3, <3>4 DEF InputAccounted
  <2>2. CASE u \notin DOMAIN log
    <3>1. u \in (LastSeq + 1)..LastSeq' /\ OnWire(u)'
      BY <2>2, Kinds DEF IsInput, OnWire
    <3>2. \E i \in DOMAIN backlog' : backlog'[i].seq = u
      BY <3>1 DEF FeedGrows
    <3> QED
      BY <3>2 DEF InputAccounted
  <2> QED
    BY <2>1, <2>2
<1> QED
  BY <1>1, <1>6, <1>7, <1>8, <1>9, <1>10, <1>11, <1>12 DEF FeedInv

LEMMA PublishKeeps ==
  ASSUME FeedInv, NEW records, Fresh(records), Publish(records),
         snapshot' = snapshot \/ snapshot' = LastSeq
  PROVE  FeedInv'
<1>1. LogStep /\ LogOK'
  BY PublishLog
<1>2. UNCHANGED <<first, request, client, got, start>>
  BY DEF Publish, reader
<1>3. snapshot' \in Nat /\ log' \in Seq(Record)
  BY <1>1, Shapes DEF FeedInv, TypeOK, LogStep
<1>4. CASE FeedGrows
  <2>1. TypeOK'
    BY <1>2, <1>3, <1>4 DEF FeedInv, TypeOK, FeedGrows, Item
  <2> QED
    BY <1>1, <1>2, <1>4, <2>1, GrowKeeps
<1>5. CASE Open /\ StreamCut
  <2>1. wire' \in Seq(WireLine)
    BY <1>1, <1>2, <1>5, LinesLost DEF StreamCut
  <2>2. backlog' \in Seq(Item) /\ toSend' \in [marker : Nat, records : SUBSET Nat]
    BY <1>5 DEF StreamCut, Nothing
  <2>3. TypeOK'
    BY <1>2, <1>3, <1>5, <2>1, <2>2 DEF FeedInv, TypeOK, StreamCut, Item
  <2> QED
    BY <1>1, <1>2, <1>5, <2>3, CutKeeps
<1> QED
  BY <1>4, <1>5, PublishFeed

LEMMA JournalKeeps ==
  ASSUME FeedInv, Admission \/ Dispatch \/ TakeSnapshot
  PROVE  FeedInv'
<1>0. Committed + 1 \in Nat /\ \A size \in Sizes : size \in Nat
  BY SubscriptionAssumption, Shapes
<1>1. CASE Admission
  <2>1. PICK size \in Sizes :
          Publish(<<[kind |-> "input", index |-> Committed + 1, size |-> size],
                    [kind |-> "decision", index |-> Committed + 1, size |-> size]>>)
    BY <1>1 DEF Admission
  <2>2. PICK a : a = [kind |-> "input", index |-> Committed + 1, size |-> size]
    OBVIOUS
  <2>3. PICK b : b = [kind |-> "decision", index |-> Committed + 1, size |-> size]
    OBVIOUS
  <2>4. a \in Record /\ b \in Record
    BY <1>0, <2>2, <2>3 DEF Record
  <2>5. /\ a.kind = "input" /\ a.index = Committed + 1 /\ b.kind # "input"
    BY <2>2, <2>3
  <2>6. Fresh(<<a, b>>)
    BY <2>4, <2>5 DEF Fresh
  <2>7. snapshot' = snapshot
    BY <1>1 DEF Admission
  <2> QED
    BY <2>1, <2>2, <2>3, <2>6, <2>7, PublishKeeps
<1>2. CASE Dispatch
  <2>1. PICK size \in Sizes : Publish(<<[kind |-> "dispatch", index |-> 0, size |-> size]>>)
    BY <1>2 DEF Dispatch
  <2>2. PICK a : a = [kind |-> "dispatch", index |-> 0, size |-> size]
    OBVIOUS
  <2>3. a \in Record /\ a.kind # "input"
    BY <1>0, <2>2 DEF Record
  <2>4. Fresh(<<a>>)
    BY <2>3 DEF Fresh
  <2>5. snapshot' = snapshot
    BY <1>2 DEF Dispatch
  <2> QED
    BY <2>1, <2>2, <2>4, <2>5, PublishKeeps
<1>3. CASE TakeSnapshot
  <2>1. PICK a : a = [kind |-> "engine", index |-> 0, size |-> 0]
    OBVIOUS
  <2>2. a \in Record /\ a.kind # "input"
    BY <2>1 DEF Record
  <2>3. Fresh(<<a>>)
    BY <2>2 DEF Fresh
  <2> QED
    BY <1>3, <2>1, <2>3, PublishKeeps DEF TakeSnapshot
<1> QED
  BY <1>1, <1>2, <1>3

LEMMA SameLogOK ==
  ASSUME FeedInv, UNCHANGED <<log, snapshot>>, first' = first \/ first' <= snapshot
  PROVE  LogOK'
<1>1. Committed' = Committed /\ Indexes' = Indexes
  BY DEF Committed, Indexes
<1> QED
  BY <1>1 DEF FeedInv, LogOK, LastSeq, IsInput

LEMMA PruneKeeps ==
  ASSUME FeedInv, Prune
  PROVE  FeedInv'
<1>1. PICK bound \in (first + 1)..snapshot : first' = bound
  BY DEF Prune
<1>2. UNCHANGED <<log, snapshot, feed, backlog, request, stage, toSend, wire, client, got, start>>
  BY DEF Prune, server, reader
<1>3. first \in Nat \ {0} /\ snapshot \in Nat /\ first' \in Nat \ {0} /\ first <= first'
      /\ first' <= snapshot
  BY <1>1 DEF FeedInv, TypeOK
<1>4. LogStep /\ LogOK'
  BY <1>2, <1>3, SameLog, SameLogOK
<1>5. FeedGrows
  <2>1. LastSeq' = LastSeq /\ LastSeq \in Nat
    BY <1>2, Shapes DEF LastSeq
  <2> QED
    BY <1>2, <2>1, Shapes DEF FeedGrows
<1>6. TypeOK'
  BY <1>2, <1>3 DEF FeedInv, TypeOK
<1> QED
  BY <1>2, <1>4, <1>5, <1>6, GrowKeeps

LEMMA EndKeeps ==
  ASSUME FeedInv, StreamEnds
  PROVE  FeedInv'
<1>1. /\ UNCHANGED <<log, first, snapshot, request, client, got, start>>
      /\ Open /\ StreamCut
  BY DEF StreamEnds, store, reader, StreamCut
<1>2. first \in Nat
  BY Shapes
<1>3. LogStep /\ LogOK'
  BY <1>1, <1>2, SameLog, SameLogOK
<1>4. wire' \in Seq(WireLine)
  BY <1>1, <1>3, LinesLost DEF StreamCut
<1>5. backlog' \in Seq(Item) /\ toSend' \in [marker : Nat, records : SUBSET Nat]
  BY <1>1 DEF StreamCut, Nothing
<1>6. TypeOK'
  BY <1>1, <1>4, <1>5 DEF FeedInv, TypeOK, StreamCut, Item
<1> QED
  BY <1>1, <1>3, <1>6, CutKeeps

-----------------------------------------------------------------------------
(* The handler.                                                            *)

Calm == UNCHANGED <<log, first, snapshot, start, got, request, client>>

LEMMA CalmKeeps ==
  ASSUME FeedInv, Calm
  PROVE  /\ LogStep /\ LogOK' /\ CursorOK' /\ BaseOK' /\ Base' = Base /\ LastSeq' = LastSeq
         /\ (Connected' <=> Connected) /\ client' = client /\ request' = request /\ log' = log
         /\ \A t \in DOMAIN log : Settled(t) => Settled(t)'
         /\ \A x : Known(x) => Known(x)'
         /\ \A s : (IsInput(s)' <=> IsInput(s)) /\ (Skipped(s)' <=> Skipped(s))
                   /\ (OnWire(s)' <=> OnWire(s))
<1>1. first \in Nat
  BY Shapes
<1>2. LogStep /\ LogOK'
  BY <1>1, SameLog, SameLogOK DEF Calm
<1>3. CursorOK' /\ BaseOK' /\ Base' = Base
  BY <1>2, CursorStays DEF Calm
<1> QED
  BY <1>2, <1>3, StaysSettled DEF Calm, LastSeq, Connected, Known, IsInput, Skipped, OnWire

LEMMA GoLiveKeeps ==
  ASSUME FeedInv, GoLive
  PROVE  FeedInv'
<1>1. /\ Calm /\ UNCHANGED <<backlog, toSend, wire>> /\ stage = "send" /\ toSend = Nothing
      /\ feed' = "live" /\ stage' = "live"
  BY DEF GoLive, Calm, store, reader
<1>2. Open /\ Open'
  BY <1>1 DEF FeedInv, StageOK, Open
<1>3. TypeOK'
  BY <1>1 DEF FeedInv, TypeOK, Calm
<1>4. StageOK' /\ WireOK'
  BY <1>1, <1>2, CalmKeeps DEF FeedInv, StageOK, WireOK
<1>5. OrderOK'
  BY <1>1, CalmKeeps DEF FeedInv, OrderOK
<1>6. PastCursor'
  BY <1>1, CalmKeeps DEF FeedInv, PastCursor, OnItsWay
<1>7. LineOK' /\ LineInputOK'
  <2>1. \A i \in DOMAIN wire : LineAt(i)' /\ InputAt(i)'
    BY <1>1, CalmKeeps, LineStays DEF Calm
  <2> QED
    BY <1>1, <2>1 DEF LineOK, LineInputOK
<1>8. StreamOK'
  BY <1>1, <1>2, CalmKeeps DEF FeedInv, StreamOK, Accounted
<1>9. StreamInputOK'
  BY <1>1, <1>2, CalmKeeps DEF FeedInv, StreamInputOK, InputAccounted, Says
<1> QED
  BY <1>3, <1>4, <1>5, <1>6, <1>7, <1>8, <1>9, <1>1, CalmKeeps DEF FeedInv

\* What the backfill holds at the cursor, and what it leaves out.
LEMMA OwedIs ==
  ASSUME FeedInv, stage = "read", NEW owed, owed = Owed(first..Upto, request.since)
  PROVE  /\ owed \subseteq DOMAIN log
         /\ \A s \in owed : s <= request.seam /\ (IsInput(s) => log[s].index > Base)
         /\ \A t \in DOMAIN log : t <= request.seam =>
              t \in owed \/ t < first \/ ~OnWire(t) \/ Behind(t, Base)
<1>1. Base = request.since /\ request.seam <= LastSeq
  BY DEF FeedInv, StageOK, BaseOK, Base, Open
<1>2. /\ first..Upto = first..request.seam /\ first \in Nat \ {0} /\ request.seam \in Nat
      /\ DOMAIN log = 1..LastSeq /\ LastSeq \in Nat
  BY Shapes DEF Upto
<1>3. PICK kept : kept = first..request.seam
  OBVIOUS
<1>4. kept \subseteq DOMAIN log /\ \A s \in kept : s <= request.seam
  BY <1>1, <1>2, <1>3
<1>5. /\ owed = {s \in kept : OnWire(s) /\ \A t \in Cut(kept, Base) : t < s}
      /\ Cut(kept, Base) = {s \in kept : IsInput(s) /\ log[s].index <= Base}
  BY <1>1, <1>2, <1>3 DEF Owed, Cut
<1>6. ASSUME NEW s \in owed, IsInput(s)  PROVE log[s].index > Base
  <2>1. s \in kept /\ (s \in Cut(kept, Base) => s < s)
    BY <1>5, <1>6
  <2>2. ~(log[s].index <= Base)
    BY <1>2, <1>4, <1>5, <1>6, <2>1
  <2> QED
    BY <1>4, <2>1, <2>2, Shapes
<1>7. ASSUME NEW t \in DOMAIN log, t <= request.seam, t \notin owed, ~(t < first), OnWire(t)
      PROVE  Behind(t, Base)
  <2>1. t \in kept
    BY <1>2, <1>3, <1>7
  <2>2. PICK i \in Cut(kept, Base) : ~(i < t)
    BY <1>5, <1>7, <2>1
  <2>3. i \in t..LastSeq /\ IsInput(i) /\ log[i].index <= Base
    BY <1>2, <1>4, <1>5, <2>2
  <2> QED
    BY <2>3 DEF Behind
<1> QED
  BY <1>4, <1>5, <1>6, <1>7

LEMMA ReadBackfillKeeps ==
  ASSUME FeedInv, ReadBackfill
  PROVE  FeedInv'
<1>0. PICK owed : owed = Owed(first..Upto, request.since)
  OBVIOUS
<1>1. /\ Calm /\ UNCHANGED <<feed, backlog, wire>> /\ stage = "read" /\ stage' = "send"
      /\ toSend' = [marker |-> IF Gap(request.since) THEN Earliest ELSE 0, records |-> owed]
  BY <1>0 DEF ReadBackfill, Calm, store, reader
<1>2. /\ Open /\ Open' /\ Connected /\ Base = request.since /\ client.told = 0
      /\ client.cursor \in {NoSince, Base}
      /\ \A i \in DOMAIN wire : wire[i].what = "ack"
  BY <1>1 DEF FeedInv, StageOK, Open, Base
<1>3. /\ owed \subseteq DOMAIN log
      /\ \A s \in owed : s <= request.seam /\ (IsInput(s) => log[s].index > Base)
      /\ \A t \in DOMAIN log : t <= request.seam =>
           t \in owed \/ t < first \/ ~OnWire(t) \/ Behind(t, Base)
  BY <1>0, <1>1, OwedIs
<1>4. /\ Earliest \in Nat \ {0}
      /\ \A s \in DOMAIN log : IsInput(s) => (s < first <=> log[s].index < Earliest)
  BY EarliestIs DEF FeedInv
<1>5. /\ toSend'.records = owed /\ toSend'.marker \in Nat
      /\ toSend'.marker = IF Gap(request.since) THEN Earliest ELSE 0
  BY <1>1, <1>4
<1>6. TypeOK'
  <2>1. owed \in SUBSET Nat
    BY <1>3, Shapes
  <2> QED
    BY <1>1, <1>4, <2>1 DEF FeedInv, TypeOK, Calm
<1>7. StageOK'
  BY <1>1, <1>2, <1>3, <1>5, CalmKeeps DEF FeedInv, StageOK
<1>8. WireOK'
  <2>1. \A i \in DOMAIN wire : wire[i].what # "marker" /\ wire[i].what # "refusal"
    BY <1>2
  <2> QED
    BY <1>1, <1>2, <2>1, CalmKeeps DEF FeedInv, WireOK
<1>9. OrderOK' /\ LineOK' /\ LineInputOK'
  BY <1>1, <1>2 DEF OrderOK, LineOK, LineAt, LineInputOK, InputAt
<1>10. PastCursor'
  <2> SUFFICES ASSUME NEW s \in DOMAIN log, OnItsWay(s)', IsInput(s)
               PROVE  log[s].index > Base /\ log[s].index > client.cursor
    BY CalmKeeps, <1>1 DEF PastCursor
  <2>1. CASE s \in owed
    <3>1. log[s].index > Base /\ log[s].index \in Nat
      BY <1>3, <2>1, Shapes
    <3> QED
      BY <1>2, <3>1 DEF NoSince
  <2>2. CASE s \notin owed
    <3>1. OnItsWay(s)
      BY <1>1, <1>5, <2>2, CalmKeeps DEF OnItsWay
    <3> QED
      BY <3>1 DEF FeedInv, PastCursor
  <2> QED
    BY <2>1, <2>2
<1>11. StreamOK'
  <2> SUFFICES ASSUME NEW t \in DOMAIN log  PROVE Accounted(t)'
    BY CalmKeeps, <1>1 DEF StreamOK
  <2>1. Accounted(t)
    BY <1>2 DEF FeedInv, StreamOK
  <2>2. toSend.records = {}
    BY <1>1 DEF FeedInv, StageOK, Nothing
  <2>3. CASE t <= request.seam /\ ~Behind(t, Base)
    <3>1. t \in owed \/ Settled(t)
      BY <1>3, <2>3 DEF Settled
    <3> QED
      BY <1>5, <3>1, CalmKeeps, <1>1 DEF Accounted
  <2>4. CASE ~(t <= request.seam /\ ~Behind(t, Base))
    BY <1>1, <2>1, <2>2, <2>4, CalmKeeps DEF Accounted
  <2> QED
    BY <2>3, <2>4
<1>12. StreamInputOK'
  <2> SUFFICES ASSUME NEW u \in DOMAIN log, IsInput(u)  PROVE InputAccounted(u)'
    BY CalmKeeps, <1>1 DEF StreamInputOK
  <2>1. PICK x : x = log[u].index
    OBVIOUS
  <2>2. x \in Nat /\ u \in Nat \ {0}
    BY <2>1, Shapes
  <2>3. CASE u <= request.seam
    <3>1. CASE x <= Base
      BY <1>1, <2>1, <3>1, CalmKeeps DEF InputAccounted, Known
    <3>2. CASE u < first /\ ~(x <= Base)
      <4>1. x < Earliest
        BY <1>4, <2>1, <3>2
      <4>2. Gap(request.since)
        BY <1>2, <1>4, <2>2, <3>2, <4>1, Shapes DEF Gap
      <4>3. x < toSend'.marker
        BY <1>5, <4>1, <4>2
      <4> QED
        BY <1>1, <2>1, <4>3, CalmKeeps DEF InputAccounted
    <3>3. CASE ~(u < first) /\ ~(x <= Base)
      <4>1. ~Behind(u, Base)
        <5> SUFFICES ASSUME NEW i \in u..LastSeq, IsInput(i), log[i].index <= Base
                     PROVE  FALSE
          BY DEF Behind
        <5>1. i \in DOMAIN log /\ u <= i /\ log[i].index \in Nat
          BY <2>2, Shapes
        <5>2. u < i => x < log[i].index
          BY <2>1, <5>1 DEF FeedInv, LogOK
        <5>3. i = u \/ u < i
          BY <2>2, <5>1
        <5> QED
          BY <2>1, <2>2, <3>3, <5>1, <5>2, <5>3, Shapes
      <4>2. OnWire(u)
        BY DEF OnWire, IsInput
      <4>3. u \in owed
        BY <1>3, <2>3, <3>3, <4>1, <4>2
      <4> QED
        BY <1>5, <4>3 DEF InputAccounted
    <3> QED
      BY <3>1, <3>2, <3>3
  <2>4. CASE ~(u <= request.seam)
    <3>1. InputAccounted(u)
      BY <1>2 DEF FeedInv, StreamInputOK
    <3>2. toSend.records = {} /\ toSend.marker = 0
      BY <1>1 DEF FeedInv, StageOK, Nothing
    <3>3. ~(x < 0)
      BY <2>2
    <3> QED
      BY <1>1, <2>1, <2>4, <3>1, <3>2, <3>3, CalmKeeps DEF InputAccounted, Says
  <2> QED
    BY <2>3, <2>4
<1> QED
  BY <1>6, <1>7, <1>8, <1>9, <1>10, <1>11, <1>12, <1>1, CalmKeeps DEF FeedInv

\* One line more on the wire.
LEMMA OneLine ==
  ASSUME FeedInv, Calm, NEW l \in WireLine, wire' = Append(wire, l)
  PROVE  /\ wire' \in Seq(WireLine) /\ DOMAIN wire' = 1..(Len(wire) + 1)
         /\ wire'[Len(wire) + 1] = l
         /\ \A i \in DOMAIN wire : i \in DOMAIN wire' /\ wire'[i] = wire[i]
         /\ \A i \in DOMAIN wire' : i \in DOMAIN wire \/ i = Len(wire) + 1
         /\ \A i \in DOMAIN wire : LineAt(i)' /\ InputAt(i)'
         /\ \A x : \A k \in DOMAIN wire : Says(k, x) => Says(k, x)'
         /\ 1 \in DOMAIN wire' /\ wire' # <<>>
<1>1. PICK w : w = wire'
  OBVIOUS
<1>2. /\ w \in Seq(WireLine) /\ DOMAIN w = 1..(Len(wire) + 1) /\ w[Len(wire) + 1] = l
      /\ \A i \in DOMAIN wire : w[i] = wire[i]
      /\ DOMAIN wire = 1..Len(wire) /\ Len(wire) \in Nat
  BY <1>1, Shapes, Appended
<1>3. w # <<>> /\ 1 \in DOMAIN w
  BY <1>2
<1>4. ASSUME NEW i \in DOMAIN wire  PROVE LineAt(i)' /\ InputAt(i)'
  <2>1. \A k \in 1..i : wire'[k] = wire[k]
    BY <1>1, <1>2
  <2> QED
    BY <2>1, CalmKeeps, LineStays DEF Calm
<1>5. \A x : \A k \in DOMAIN wire : Says(k, x) => Says(k, x)'
  BY <1>1, <1>2, CalmKeeps DEF Says, IsInput
<1> QED
  BY <1>1, <1>2, <1>3, <1>4, <1>5

LEMMA RefusedKeeps ==
  ASSUME FeedInv, BackfillRefused
  PROVE  FeedInv'
<1>1. /\ Calm /\ UNCHANGED toSend /\ wire' = Append(wire, Line("refusal", 0))
      /\ stage = "read" /\ stage' = "off" /\ feed' = "closed" /\ backlog' = <<>>
  BY DEF BackfillRefused, Calm, store, reader
<1>2. Line("refusal", 0) \in WireLine
  BY DEF Line, WireLine
<1>3. /\ ~Open' /\ Open /\ Connected /\ toSend = Nothing /\ client.told = 0
      /\ \A i \in DOMAIN wire : wire[i].what = "ack"
  BY <1>1 DEF FeedInv, StageOK, Open
<1>4. Line("refusal", 0).what = "refusal"
  BY DEF Line
<1>5. TypeOK'
  BY <1>1, <1>2, OneLine DEF FeedInv, TypeOK, Calm
<1>6. StageOK'
  <2>1. DOMAIN backlog' = {} /\ Nothing.records = {}
    BY <1>1 DEF Nothing
  <2> QED
    BY <1>1, <1>3, <2>1, CalmKeeps DEF FeedInv, StageOK
<1>7. WireOK'
  <2>1. \A i \in DOMAIN wire' : wire'[i].what \in {"ack", "refusal"}
    BY <1>1, <1>2, <1>3, <1>4, OneLine
  <2>2. client.state = "waiting" => wire'[1] = Line("ack", Base)
    <3>1. client.state = "waiting" => wire # <<>> /\ wire[1] = Line("ack", Base)
      BY <1>3 DEF FeedInv, WireOK
    <3>2. wire # <<>> => 1 \in DOMAIN wire
      BY Shapes
    <3> QED
      BY <1>1, <1>2, <3>1, <3>2, OneLine
  <2>3. Nothing.marker = 0
    BY DEF Nothing
  <2>4. \A i \in DOMAIN wire' : wire'[i].what = "ack" => i \in DOMAIN wire
    BY <1>1, <1>2, <1>4, OneLine
  <2>5. \A i \in DOMAIN wire' : wire'[i].what = "ack" => i = 1 /\ client.state = "waiting"
    BY <1>1, <1>2, <2>4, OneLine DEF FeedInv, WireOK
  <2>6. wire' # <<>>
    BY <1>1, <1>2, OneLine
  <2> QED
    BY <1>1, <1>3, <2>1, <2>2, <2>3, <2>5, <2>6, CalmKeeps DEF FeedInv, WireOK
<1>8. \A i \in DOMAIN wire' : wire'[i].what # "record"
  BY <1>1, <1>2, <1>3, <1>4, OneLine
<1>9. OrderOK' /\ LineOK' /\ LineInputOK'
  BY <1>8 DEF OrderOK, LineOK, LineAt, LineInputOK, InputAt
<1>10. PastCursor'
  <2>1. DOMAIN backlog' = {} /\ Nothing.records = {}
    BY <1>1 DEF Nothing
  <2>2. \A s : ~OnItsWay(s)'
    BY <1>1, <1>3, <1>8, <2>1 DEF OnItsWay, Line
  <2> QED
    BY <2>2 DEF PastCursor
<1> QED
  BY <1>5, <1>6, <1>7, <1>9, <1>10, <1>1, <1>3, CalmKeeps DEF FeedInv, StreamOK, StreamInputOK

LEMMA MarkerKeeps ==
  ASSUME FeedInv, Calm, UNCHANGED <<feed, backlog, stage>>, stage = "send",
         toSend.marker # 0, wire' = Append(wire, Line("marker", toSend.marker)),
         toSend' = [toSend EXCEPT !.marker = 0]
  PROVE  FeedInv'
<1>1. PICK l : l = Line("marker", toSend.marker)
  OBVIOUS
<1>2. /\ toSend \in [marker : Nat, records : SUBSET Nat] /\ toSend.marker \in Nat
      /\ l \in WireLine /\ l.what = "marker" /\ l.n = toSend.marker
  BY <1>1 DEF FeedInv, TypeOK, Line, WireLine
<1>3. /\ wire' = Append(wire, l)
      /\ toSend'.records = toSend.records /\ toSend'.marker = 0
      /\ toSend' \in [marker : Nat, records : SUBSET Nat]
  BY <1>1, <1>2
<1>4. Open /\ (Open' <=> Open) /\ client.told = 0
  BY DEF FeedInv, StageOK, WireOK, Open
<1>5. TypeOK'
  BY <1>2, <1>3, OneLine DEF FeedInv, TypeOK, Calm
<1>6. StageOK'
  BY <1>3, <1>4, CalmKeeps DEF FeedInv, StageOK
<1>7. WireOK'
  <2>1. \A i \in DOMAIN wire : wire[i].what # "marker" /\ wire[i].what # "refusal"
    BY <1>4 DEF FeedInv, WireOK
  <2>2. \A i, k \in DOMAIN wire' :
          wire'[i].what = "marker" /\ wire'[k].what = "marker" => k = i
    BY <1>2, <1>3, <2>1, OneLine
  <2>3. client.state = "waiting" => wire'[1] = Line("ack", Base)
    <3>1. client.state = "waiting" => wire # <<>> /\ wire[1] = Line("ack", Base)
      BY <1>4 DEF FeedInv, WireOK
    <3>2. wire # <<>> => 1 \in DOMAIN wire
      BY Shapes
    <3> QED
      BY <1>2, <1>3, <3>1, <3>2, OneLine
  <2>4. \A i \in DOMAIN wire' : wire'[i].what = "ack" => i = 1 /\ client.state = "waiting"
    BY <1>2, <1>3, OneLine DEF FeedInv, WireOK
  <2>5. \A i \in DOMAIN wire' : wire'[i].what # "refusal"
    BY <1>2, <1>3, <2>1, OneLine
  <2>6. wire' # <<>>
    BY <1>2, <1>3, OneLine
  <2> QED
    BY <1>3, <1>4, <2>2, <2>3, <2>4, <2>5, <2>6, CalmKeeps DEF FeedInv, WireOK
<1>8. \A i \in DOMAIN wire' : wire'[i].what = "record" => i \in DOMAIN wire /\ wire'[i] = wire[i]
  BY <1>2, <1>3, OneLine
<1>9. OrderOK'
  BY <1>3, <1>8, CalmKeeps DEF FeedInv, OrderOK
<1>10. PastCursor'
  <2>1. \A s : OnItsWay(s)' => OnItsWay(s)
    BY <1>3, <1>8, CalmKeeps DEF OnItsWay, Line
  <2> QED
    BY <2>1, CalmKeeps DEF FeedInv, PastCursor
<1>11. LineOK' /\ LineInputOK'
  <2>1. ASSUME NEW i \in DOMAIN wire'  PROVE LineAt(i)' /\ InputAt(i)'
    <3>1. CASE i \in DOMAIN wire
      BY <1>2, <1>3, <3>1, OneLine
    <3>2. CASE i \notin DOMAIN wire
      BY <1>8, <3>2 DEF LineAt, InputAt
    <3> QED
      BY <3>1, <3>2
  <2> QED
    BY <2>1 DEF LineOK, LineInputOK
<1>12. StreamOK'
  <2> SUFFICES ASSUME NEW t \in DOMAIN log  PROVE Accounted(t)'
    BY CalmKeeps DEF StreamOK
  <2>1. Accounted(t)
    BY <1>4 DEF FeedInv, StreamOK
  <2>2. (\E i \in DOMAIN wire : wire[i] = Line("record", t))
           => \E i \in DOMAIN wire' : wire'[i] = Line("record", t)
    BY <1>2, <1>3, OneLine
  <2> QED
    BY <1>3, <2>1, <2>2, CalmKeeps DEF Accounted
<1>13. StreamInputOK'
  <2> SUFFICES ASSUME NEW u \in DOMAIN log, IsInput(u)  PROVE InputAccounted(u)'
    BY CalmKeeps DEF StreamInputOK
  <2>1. PICK x : x = log[u].index
    OBVIOUS
  <2>2. InputAccounted(u)
    BY <1>4 DEF FeedInv, StreamInputOK
  <2>3. (\E k \in DOMAIN wire : Says(k, x)) => \E k \in DOMAIN wire' : Says(k, x)'
    BY <1>2, <1>3, OneLine
  <2>4. x < toSend.marker => \E k \in DOMAIN wire' : Says(k, x)'
    <3> SUFFICES ASSUME x < toSend.marker  PROVE \E k \in DOMAIN wire' : Says(k, x)'
      OBVIOUS
    <3>0. PICK n : n = Len(wire) + 1
      OBVIOUS
    <3>1. PICK k \in DOMAIN wire' : wire'[k] = l
      <4>1. Len(wire) \in Nat
        BY Shapes
      <4>2. wire'[n] = l /\ DOMAIN wire' = 1..n
        BY <1>2, <1>3, <3>0, OneLine
      <4>3. n \in 1..n
        BY <3>0, <4>1
      <4> QED
        BY <4>2, <4>3
    <3> QED
      BY <1>2, <3>1 DEF Says
  <2> QED
    BY <1>3, <2>1, <2>2, <2>3, <2>4, CalmKeeps DEF InputAccounted
<1> QED
  BY <1>5, <1>6, <1>7, <1>9, <1>10, <1>11, <1>12, <1>13, CalmKeeps DEF FeedInv

\* The record that goes next finds everything before it settled or sent.
LEMMA NextRecord ==
  ASSUME FeedInv, Calm, Open, stage # "read", toSend.marker = 0,
         NEW s \in DOMAIN log, \A r \in toSend.records : s <= r,
         \A k \in DOMAIN backlog : s <= backlog[k].seq,
         wire' = Append(wire, Line("record", s)), NEW n, n = Len(wire) + 1
  PROVE  LineAt(n)' /\ InputAt(n)'
<1>1. n = Len(wire) + 1
  OBVIOUS
<1>2. PICK l : l = Line("record", s)
  OBVIOUS
<1>3. l \in WireLine /\ l.what = "record" /\ l.n = s /\ s \in Nat \ {0}
  BY <1>2, Shapes DEF Line, WireLine
<1>4. /\ wire'[n] = l /\ n \in Nat /\ 1..(n - 1) = DOMAIN wire
      /\ \A k \in DOMAIN wire : wire'[k] = wire[k]
      /\ \A x : \A k \in DOMAIN wire : Says(k, x) => Says(k, x)'
  BY <1>1, <1>2, <1>3, OneLine, Shapes
<1>5. LineAt(n)'
  <2> SUFFICES ASSUME NEW t \in 1..(s - 1)
               PROVE  Settled(t)' \/ \E k \in DOMAIN wire : wire'[k] = Line("record", t)
    BY <1>3, <1>4 DEF LineAt
  <2>1. t \in DOMAIN log /\ t \in Nat /\ t < s
    BY <1>3, Shapes
  <2>2. Accounted(t)
    BY <2>1 DEF FeedInv, StreamOK
  <2>3. t \notin toSend.records /\ \A k \in DOMAIN backlog : backlog[k].seq # t
    <3>1. ~(s <= t)
      BY <1>3, <2>1
    <3> QED
      BY <3>1
  <2> QED
    BY <1>4, <2>1, <2>2, <2>3, CalmKeeps DEF Accounted
<1>6. InputAt(n)'
  <2> SUFFICES ASSUME IsInput(s), NEW x, x = log[s].index - 1
               PROVE  Known(x)' \/ \E k \in DOMAIN wire : Says(k, x)'
    BY <1>3, <1>4, CalmKeeps DEF InputAt, IsInput
  <2>1. x \in Nat /\ (x = 0 \/ x \in 1..Committed)
    <3>1. log[s].index \in 1..Committed
      BY InputIndexes DEF FeedInv
    <3>2. Committed \in Nat
      BY Shapes
    <3> QED
      BY <3>1, <3>2
  <2>2. CASE x = 0
    <3>1. Base >= start.index
      BY DEF FeedInv, StageOK, BaseOK
    <3>2. x <= Base
      BY <2>2, <3>1, Shapes
    <3> QED
      BY <3>2, CalmKeeps DEF Known
  <2>3. CASE x \in 1..Committed
    <3>1. PICK u \in DOMAIN log : IsInput(u) /\ log[u].index = x
      BY <2>3, InputIndexes DEF FeedInv
    <3>2. u < s
      <4>1. u \in Nat /\ log[s].index \in Nat /\ x < log[s].index
        BY <2>1, <3>1, Places
      <4>2. s < u => log[s].index < x
        BY <3>1 DEF FeedInv, LogOK
      <4>3. u # s
        BY <3>1, <4>1
      <4> QED
        BY <1>3, <2>1, <4>1, <4>2, <4>3
    <3>3. InputAccounted(u)
      BY <3>1 DEF FeedInv, StreamInputOK
    <3>4. u \notin toSend.records /\ \A k \in DOMAIN backlog : backlog[k].seq # u
      <4>1. ~(s <= u)
        BY <1>3, <3>1, <3>2, Places
      <4> QED
        BY <4>1
    <3>5. ~(x < toSend.marker)
      BY <2>1
    <3> QED
      BY <1>4, <3>1, <3>3, <3>4, <3>5, CalmKeeps DEF InputAccounted
  <2> QED
    BY <2>1, <2>2, <2>3
<1> QED
  BY <1>1, <1>5, <1>6

\* A record leaves the backfill or the backlog, and only it.
Left(s) ==
  /\ toSend' \in [marker : Nat, records : SUBSET Nat]
  /\ toSend'.marker = toSend.marker /\ toSend'.records \subseteq toSend.records
  /\ toSend.records \subseteq toSend'.records \cup {s}
  /\ toSend = Nothing => toSend' = Nothing
  /\ \A r \in toSend'.records : s < r
  /\ backlog' \in Seq(Item) /\ Open
  /\ \A i \in DOMAIN backlog' : s < backlog'[i].seq
  /\ \A i \in DOMAIN backlog' : \E k \in DOMAIN backlog : backlog'[i] = backlog[k]
  /\ \A k \in DOMAIN backlog :
       backlog[k].seq = s \/ \E i \in DOMAIN backlog' : backlog'[i] = backlog[k]
  /\ \A i, k \in DOMAIN backlog' : i < k => backlog'[i].seq < backlog'[k].seq

LEMMA LeftKeeps ==
  ASSUME FeedInv, Calm, UNCHANGED <<feed, stage>>, stage # "read", NEW s, Left(s)
  PROVE  /\ StageOK' /\ (Open' <=> Open)
         /\ \A t : (\E i \in DOMAIN backlog' : backlog'[i].seq = t)
                     => \E k \in DOMAIN backlog : backlog[k].seq = t
         /\ \A t : (\E k \in DOMAIN backlog : backlog[k].seq = t)
                     => t = s \/ \E i \in DOMAIN backlog' : backlog'[i].seq = t
<1>1. (Open' <=> Open) /\ Open
  BY DEF Open, Left
<1>2. \A t : (\E i \in DOMAIN backlog' : backlog'[i].seq = t)
               => \E k \in DOMAIN backlog : backlog[k].seq = t
  BY DEF Left
<1>3. \A t : (\E k \in DOMAIN backlog : backlog[k].seq = t)
               => t = s \/ \E i \in DOMAIN backlog' : backlog'[i].seq = t
  BY DEF Left
<1>4. \A i \in DOMAIN backlog' : /\ backlog'[i].seq \in DOMAIN log
                                 /\ backlog'[i].seq > request.seam /\ OnWire(backlog'[i].seq)
  BY DEF Left, FeedInv, StageOK
<1>5. \A i \in DOMAIN backlog' : /\ backlog'[i].seq \in DOMAIN log'
                                 /\ backlog'[i].seq > request'.seam
                                 /\ log'[backlog'[i].seq].kind # "engine"
  BY <1>4, CalmKeeps DEF OnWire
<1>6. StageOK'
  BY <1>1, <1>5, CalmKeeps DEF FeedInv, StageOK, Left, OnWire
<1> QED
  BY <1>1, <1>2, <1>3, <1>6

LEMMA RecordKeeps ==
  ASSUME FeedInv, Calm, UNCHANGED <<feed, stage>>, stage # "read", toSend.marker = 0,
         NEW s \in DOMAIN log, Left(s), OnItsWay(s),
         \A i \in DOMAIN wire : wire[i].what = "record" => wire[i].n < s,
         \A r \in toSend.records : s <= r, \A k \in DOMAIN backlog : s <= backlog[k].seq,
         wire' = Append(wire, Line("record", s))
  PROVE  FeedInv'
<1>1. PICK l : l = Line("record", s)
  OBVIOUS
<1>2. PICK n : n = Len(wire) + 1
  OBVIOUS
<1>3. l \in WireLine /\ l.what = "record" /\ l.n = s /\ s \in Nat \ {0}
  BY <1>1, Shapes DEF Line, WireLine
<1>4. /\ wire' = Append(wire, l) /\ wire'[n] = l /\ n \in DOMAIN wire' /\ n \in Nat
      /\ \A i \in DOMAIN wire' : i \in DOMAIN wire \/ i = n
      /\ \A i \in DOMAIN wire : i < n
  BY <1>1, <1>2, <1>3, OneLine, Shapes
<1>5. Open /\ (Open' <=> Open) /\ StageOK'
  BY LeftKeeps DEF Left
<1>6. TypeOK'
  BY <1>3, <1>4, OneLine DEF FeedInv, TypeOK, Calm, Left, Item
<1>7. WireOK'
  <2>1. client.state = "waiting" => wire'[1] = Line("ack", Base)
    <3>1. client.state = "waiting" => wire # <<>> /\ wire[1] = Line("ack", Base)
      BY <1>5 DEF FeedInv, WireOK
    <3>2. wire # <<>> => 1 \in DOMAIN wire
      BY Shapes
    <3> QED
      BY <1>3, <1>4, <3>1, <3>2, OneLine
  <2>2. \A i \in DOMAIN wire' : wire'[i].what # "record" => i \in DOMAIN wire /\ wire'[i] = wire[i]
    BY <1>3, <1>4, OneLine
  <2>3. wire' # <<>>
    BY <1>3, <1>4, OneLine
  <2>4. toSend'.marker = 0
    BY DEF Left
  <2>5. client.state = "waiting" => client.told = 0
    BY DEF FeedInv, WireOK
  <2>6. \A i \in DOMAIN wire' : wire'[i].what = "ack" => i = 1 /\ client.state = "waiting"
    BY <2>2 DEF FeedInv, WireOK
  <2>7. \A i \in DOMAIN wire' : wire'[i].what = "marker" =>
          /\ client.told = 0
          /\ \A k \in DOMAIN wire' : wire'[k].what = "marker" => k = i
    BY <2>2 DEF FeedInv, WireOK
  <2>8. \A i \in DOMAIN wire' : wire'[i].what = "refusal" => ~Open
    BY <2>2 DEF FeedInv, WireOK
  <2> QED
    BY <1>5, <2>1, <2>3, <2>4, <2>5, <2>6, <2>7, <2>8, CalmKeeps DEF WireOK
<1>8. OrderOK'
  <2>1. ASSUME NEW i \in DOMAIN wire', wire'[i].what = "record"
        PROVE  /\ wire'[i].n \in DOMAIN log
               /\ \A k \in DOMAIN wire' : wire'[k].what = "record" /\ i < k => wire'[i].n < wire'[k].n
               /\ \A r \in toSend'.records : wire'[i].n < r
               /\ \A k \in DOMAIN backlog' : wire'[i].n < backlog'[k].seq
    <3>1. CASE i \in DOMAIN wire
      <4>1. wire'[i] = wire[i] /\ wire[i].what = "record"
        BY <1>3, <1>4, <2>1, <3>1, OneLine
      <4>2. \A k \in DOMAIN wire' : wire'[k].what = "record" /\ i < k => wire'[i].n < wire'[k].n
        <5> SUFFICES ASSUME NEW k \in DOMAIN wire', wire'[k].what = "record", i < k
                     PROVE  wire'[i].n < wire'[k].n
          OBVIOUS
        <5>1. CASE k \in DOMAIN wire
          <6>1. wire'[k] = wire[k]
            BY <1>3, <1>4, <5>1, OneLine
          <6> QED
            BY <3>1, <4>1, <5>1, <6>1 DEF FeedInv, OrderOK
        <5>2. CASE k = n
          BY <1>3, <1>4, <3>1, <4>1, <5>2
        <5> QED
          BY <1>4, <5>1, <5>2
      <4>3. \A k \in DOMAIN backlog' : wire'[i].n < backlog'[k].seq
        BY <3>1, <4>1, LeftKeeps DEF FeedInv, OrderOK, Left
      <4> QED
        BY <3>1, <4>1, <4>2, <4>3 DEF FeedInv, OrderOK, Left
    <3>2. CASE i = n
      BY <1>3, <1>4, <3>2 DEF Left
    <3> QED
      BY <1>4, <3>1, <3>2
  <2> QED
    BY <2>1, CalmKeeps DEF OrderOK
<1>9. PastCursor'
  <2>1. ASSUME NEW t \in DOMAIN log, OnItsWay(t)'  PROVE OnItsWay(t)
    <3>1. CASE \E i \in DOMAIN wire' : wire'[i] = Line("record", t)
      <4>1. PICK i \in DOMAIN wire' : wire'[i] = Line("record", t)
        BY <3>1
      <4>2. CASE i \in DOMAIN wire
        <5>1. wire'[i] = wire[i]
          BY <1>3, <1>4, <4>2, OneLine
        <5> QED
          BY <4>1, <4>2, <5>1 DEF OnItsWay
      <4>3. CASE i = n
        BY <1>3, <1>4, <4>1, <4>3 DEF Line
      <4> QED
        BY <1>4, <4>2, <4>3
    <3>2. CASE ~\E i \in DOMAIN wire' : wire'[i] = Line("record", t)
      BY <2>1, <3>2, LeftKeeps, CalmKeeps DEF OnItsWay, Left
    <3> QED
      BY <3>1, <3>2
  <2> QED
    BY <2>1, CalmKeeps DEF FeedInv, PastCursor
<1>10. LineOK' /\ LineInputOK'
  <2>1. LineAt(n)' /\ InputAt(n)'
    BY <1>2, <1>5, NextRecord
  <2>2. \A i \in DOMAIN wire : LineAt(i)' /\ InputAt(i)'
    BY <1>3, <1>4, OneLine
  <2>3. \A i \in DOMAIN wire' : LineAt(i)' /\ InputAt(i)'
    BY <1>4, <2>1, <2>2
  <2> QED
    BY <2>3 DEF LineOK, LineInputOK
<1>11. StreamOK'
  <2> SUFFICES ASSUME NEW t \in DOMAIN log  PROVE Accounted(t)'
    BY CalmKeeps DEF StreamOK
  <2>1. Accounted(t)
    BY <1>5 DEF FeedInv, StreamOK
  <2>2. (\E i \in DOMAIN wire : wire[i] = Line("record", t))
           => \E i \in DOMAIN wire' : wire'[i] = Line("record", t)
    BY <1>3, <1>4, OneLine
  <2>3. t = s => \E i \in DOMAIN wire' : wire'[i] = Line("record", t)
    BY <1>1, <1>4
  <2>4. t \in toSend.records => t = s \/ t \in toSend'.records
    BY DEF Left
  <2> QED
    BY <2>1, <2>2, <2>3, <2>4, LeftKeeps, CalmKeeps DEF Accounted
<1>12. StreamInputOK'
  <2> SUFFICES ASSUME NEW u \in DOMAIN log, IsInput(u)  PROVE InputAccounted(u)'
    BY CalmKeeps DEF StreamInputOK
  <2>1. PICK x : x = log[u].index
    OBVIOUS
  <2>2. InputAccounted(u)
    BY <1>5 DEF FeedInv, StreamInputOK
  <2>3. (\E k \in DOMAIN wire : Says(k, x)) => \E k \in DOMAIN wire' : Says(k, x)'
    BY <1>3, <1>4, OneLine
  <2>4. u = s => \E k \in DOMAIN wire' : Says(k, x)'
    BY <1>3, <1>4, <2>1, CalmKeeps DEF Says, IsInput
  <2>5. u \in toSend.records => u = s \/ u \in toSend'.records
    BY DEF Left
  <2>6. toSend'.marker = toSend.marker
    BY DEF Left
  <2>7. log'[u].index = x /\ (Known(x) => Known(x)')
    BY <2>1, CalmKeeps
  <2>8. (\E i \in DOMAIN backlog : backlog[i].seq = u)
           => u = s \/ \E i \in DOMAIN backlog' : backlog'[i].seq = u
    BY LeftKeeps
  <2> QED
    BY <2>1, <2>2, <2>3, <2>4, <2>5, <2>6, <2>7, <2>8 DEF InputAccounted
<1> QED
  BY <1>5, <1>6, <1>7, <1>8, <1>9, <1>10, <1>11, <1>12, CalmKeeps DEF FeedInv

LEMMA SendBackfillKeeps ==
  ASSUME FeedInv, SendBackfill
  PROVE  FeedInv'
<1>1. Calm /\ UNCHANGED <<feed, backlog, stage>> /\ stage = "send" /\ Open
  BY DEF SendBackfill, Calm, store, reader, FeedInv, StageOK
<1>2. CASE /\ toSend.marker # 0
           /\ wire' = Append(wire, Line("marker", toSend.marker))
           /\ toSend' = [toSend EXCEPT !.marker = 0]
  BY <1>1, <1>2, MarkerKeeps
<1>3. CASE /\ toSend.marker = 0
           /\ \E s \in toSend.records :
                /\ \A t \in toSend.records : s <= t
                /\ wire' = Append(wire, Line("record", s))
                /\ toSend' = [toSend EXCEPT !.records = @ \ {s}]
  <2>1. PICK s \in toSend.records :
          /\ \A t \in toSend.records : s <= t
          /\ wire' = Append(wire, Line("record", s))
          /\ toSend' = [toSend EXCEPT !.records = @ \ {s}]
    BY <1>3
  <2>2. toSend \in [marker : Nat, records : SUBSET Nat]
    BY DEF FeedInv, TypeOK
  <2>3. /\ toSend'.marker = toSend.marker /\ toSend'.records = toSend.records \ {s}
        /\ toSend' \in [marker : Nat, records : SUBSET Nat]
    BY <2>1, <2>2
  <2>4. /\ s \in DOMAIN log /\ s <= request.seam
        /\ \A k \in DOMAIN backlog : backlog[k].seq > request.seam
    BY <2>1 DEF FeedInv, StageOK
  <2>5. s \in Nat /\ \A k \in DOMAIN backlog : s < backlog[k].seq
    BY <2>4, Shapes
  <2>6. toSend # Nothing
    BY <2>1 DEF Nothing
  <2>7. Left(s)
    <3>1. \A r \in toSend'.records : s < r
      BY <2>1, <2>2, <2>3, <2>5
    <3> QED
      BY <1>1, <2>3, <2>5, <2>6, <3>1, Shapes DEF Left, FeedInv, StageOK
  <2>8. OnItsWay(s)
    BY <2>1 DEF OnItsWay
  <2>9. \A i \in DOMAIN wire : wire[i].what = "record" => wire[i].n < s
    BY <2>1 DEF FeedInv, OrderOK
  <2>10. \A k \in DOMAIN backlog : s <= backlog[k].seq
    BY <2>5, Shapes
  <2> QED
    BY <1>1, <1>3, <2>1, <2>4, <2>7, <2>8, <2>9, <2>10, RecordKeeps
<1> QED
  BY <1>2, <1>3 DEF SendBackfill

LEMMA SkippedKeeps ==
  ASSUME FeedInv, Calm, UNCHANGED <<feed, stage, wire>>, stage # "read",
         NEW s \in DOMAIN log, Left(s), Skipped(s)
  PROVE  FeedInv'
<1>1. Open /\ (Open' <=> Open) /\ StageOK'
  BY LeftKeeps DEF Left
<1>2. IsInput(s) /\ log[s].index <= Base
  BY DEF Skipped, Base
<1>3. TypeOK'
  BY DEF FeedInv, TypeOK, Calm, Left, Item
<1>4. WireOK'
  BY <1>1, CalmKeeps DEF FeedInv, WireOK, Left
<1>5. OrderOK'
  BY CalmKeeps DEF FeedInv, OrderOK, Left
<1>6. PastCursor'
  <2>1. \A t : OnItsWay(t)' => OnItsWay(t)
    BY LeftKeeps, CalmKeeps DEF OnItsWay, Left
  <2> QED
    BY <2>1, CalmKeeps DEF FeedInv, PastCursor
<1>7. LineOK' /\ LineInputOK'
  <2>1. \A i \in DOMAIN wire : LineAt(i)' /\ InputAt(i)'
    BY CalmKeeps, LineStays DEF Calm
  <2> QED
    BY <2>1 DEF LineOK, LineInputOK
<1>8. StreamOK'
  <2> SUFFICES ASSUME NEW t \in DOMAIN log  PROVE Accounted(t)'
    BY CalmKeeps DEF StreamOK
  <2>1. Accounted(t)
    BY <1>1 DEF FeedInv, StreamOK
  <2>2. Settled(s)
    <3>1. s \in s..LastSeq
      BY Shapes
    <3>2. Behind(s, Base)
      BY <1>2, <3>1 DEF Behind
    <3> QED
      BY <1>1, <3>2 DEF FeedInv, StageOK, BaseOK
  <2>3. t \in toSend.records => t = s \/ t \in toSend'.records
    BY DEF Left
  <2> QED
    BY <2>1, <2>2, <2>3, LeftKeeps, CalmKeeps DEF Accounted
<1>9. StreamInputOK'
  <2> SUFFICES ASSUME NEW u \in DOMAIN log, IsInput(u)  PROVE InputAccounted(u)'
    BY CalmKeeps DEF StreamInputOK
  <2>1. PICK x : x = log[u].index
    OBVIOUS
  <2>2. InputAccounted(u)
    BY <1>1 DEF FeedInv, StreamInputOK
  <2>3. \A k \in DOMAIN wire : Says(k, x) => Says(k, x)'
    BY CalmKeeps DEF Says, IsInput
  <2>4. u = s => Known(x)
    BY <1>2, <2>1 DEF Known
  <2>5. u \in toSend.records => u = s \/ u \in toSend'.records
    BY DEF Left
  <2>6. toSend'.marker = toSend.marker
    BY DEF Left
  <2> QED
    BY <2>1, <2>2, <2>3, <2>4, <2>5, <2>6, LeftKeeps, CalmKeeps DEF InputAccounted
<1> QED
  BY <1>1, <1>3, <1>4, <1>5, <1>6, <1>7, <1>8, <1>9, CalmKeeps DEF FeedInv

LEMMA SendLiveKeeps ==
  ASSUME FeedInv, SendLive
  PROVE  FeedInv'
<1>1. /\ Calm /\ UNCHANGED <<feed, stage, toSend>> /\ stage = "live" /\ Open
      /\ backlog # <<>> /\ backlog' = Tail(backlog) /\ toSend = Nothing
  BY DEF SendLive, Calm, store, reader, FeedInv, StageOK
<1>2. PICK s : s = Head(backlog).seq
  OBVIOUS
<1>3. PICK b : b = backlog'
  OBVIOUS
<1>4. /\ b \in Seq(Item) /\ Head(backlog) = backlog[1] /\ 1 \in DOMAIN backlog
      /\ \A i \in DOMAIN b : i + 1 \in DOMAIN backlog /\ b[i] = backlog[i + 1]
      /\ DOMAIN backlog = 1..Len(backlog) /\ DOMAIN b = 1..(Len(backlog) - 1)
      /\ Len(backlog) \in Nat \ {0}
  BY <1>1, <1>3, TailOf, Shapes
<1>5. \A k \in DOMAIN backlog : k = 1 \/ (k - 1 \in DOMAIN b /\ b[k - 1] = backlog[k])
  <2> SUFFICES ASSUME NEW k \in DOMAIN backlog, k # 1
               PROVE  k - 1 \in DOMAIN b /\ b[k - 1] = backlog[k]
    OBVIOUS
  <2>1. k - 1 \in DOMAIN b /\ (k - 1) + 1 = k
    BY <1>4
  <2> QED
    BY <1>4, <2>1
<1>6. s = backlog[1].seq /\ s \in DOMAIN log /\ s \in Nat
  BY <1>2, <1>4, Shapes DEF FeedInv, StageOK
<1>7. /\ \A i \in DOMAIN b : s < b[i].seq
      /\ \A k \in DOMAIN backlog : s <= backlog[k].seq
  <2>1. \A k \in DOMAIN backlog : 1 < k => s < backlog[k].seq
    BY <1>4, <1>6 DEF FeedInv, StageOK
  <2>2. \A i \in DOMAIN b : i + 1 \in DOMAIN backlog /\ 1 < i + 1
    BY <1>4
  <2>3. \A k \in DOMAIN backlog : k = 1 \/ 1 < k
    BY <1>4
  <2>4. \A k \in DOMAIN backlog : backlog[k].seq \in Nat
    BY Shapes
  <2>5. \A k \in DOMAIN backlog : s < backlog[k].seq => s <= backlog[k].seq
    BY <1>6, <2>4
  <2> QED
    BY <1>4, <1>6, <2>1, <2>2, <2>3, <2>4, <2>5
<1>8. Left(s)
  <2>1. \A i, k \in DOMAIN b : i < k => b[i].seq < b[k].seq
    <3> SUFFICES ASSUME NEW i \in DOMAIN b, NEW k \in DOMAIN b, i < k
                 PROVE  b[i].seq < b[k].seq
      OBVIOUS
    <3>1. i + 1 \in DOMAIN backlog /\ k + 1 \in DOMAIN backlog /\ i + 1 < k + 1
      BY <1>4
    <3> QED
      BY <1>4, <3>1 DEF FeedInv, StageOK
  <2>2. toSend.records = {} /\ toSend \in [marker : Nat, records : SUBSET Nat]
    BY <1>1 DEF Nothing
  <2> QED
    BY <1>1, <1>3, <1>4, <1>5, <1>6, <1>7, <2>1, <2>2 DEF Left
<1>9. toSend.marker = 0 /\ toSend.records = {}
  BY <1>1 DEF Nothing
<1>10. CASE Skipped(s)
  <2>1. wire' = wire
    BY <1>2, <1>10 DEF SendLive
  <2> QED
    BY <1>1, <1>6, <1>8, <1>10, <2>1, SkippedKeeps
<1>11. CASE ~Skipped(s)
  <2>1. wire' = Append(wire, Line("record", s))
    BY <1>2, <1>11 DEF SendLive
  <2>2. OnItsWay(s)
    BY <1>4, <1>6, <1>11 DEF OnItsWay
  <2>3. \A i \in DOMAIN wire : wire[i].what = "record" => wire[i].n < s
    BY <1>4, <1>6 DEF FeedInv, OrderOK
  <2> QED
    BY <1>1, <1>6, <1>7, <1>8, <1>9, <2>1, <2>2, <2>3, RecordKeeps
<1> QED
  BY <1>10, <1>11

-----------------------------------------------------------------------------
(* The client.                                                             *)

\* The client takes the first line; its cursor goes to the acknowledged one, or to
\* the input read, or stays.
Takes(l) ==
  /\ wire # <<>> /\ l = wire[1] /\ wire' = Tail(wire)
  /\ UNCHANGED <<log, first, snapshot, start, request, feed, backlog, stage, toSend>>
  /\ got' = IF l.what = "record" THEN got \cup {l.n} ELSE got
  /\ client' \in [state : {"reading"}, cursor : Int, told : Int]
  /\ client'.told = IF l.what = "marker" THEN l.n ELSE client.told
  /\ client.cursor <= client'.cursor /\ Base <= client'.cursor
  /\ \/ client'.cursor = Base
     \/ client'.cursor = client.cursor
     \/ l.what = "record" /\ IsInput(l.n) /\ client'.cursor = log[l.n].index
  /\ l.what = "record" /\ IsInput(l.n) => client'.cursor = log[l.n].index
  /\ l.what = "ack" => client'.cursor = Base

LEMMA TakenIs ==
  ASSUME FeedInv, NEW l, Takes(l)
  PROVE  /\ l \in WireLine /\ l.n \in Int /\ 1 \in DOMAIN wire
         /\ \A i \in DOMAIN wire' : /\ i \in Nat \ {0} /\ i + 1 \in DOMAIN wire
                                    /\ wire'[i] = wire[i + 1]
         /\ \A k \in DOMAIN wire : /\ k \in Nat \ {0}
                                   /\ k = 1 \/ (k - 1 \in DOMAIN wire' /\ wire'[k - 1] = wire[k])
         /\ wire' \in Seq(WireLine) /\ TypeOK' /\ LogStep /\ LogOK'
         /\ log' = log /\ LastSeq' = LastSeq /\ Base' = Base /\ start' = start
         /\ request' = request /\ Connected /\ Connected' /\ (Open' <=> Open)
         /\ \A t \in DOMAIN log : Settled(t) => Settled(t)'
         /\ \A t : t \in got' => Settled(t)'
         /\ \A s : (IsInput(s)' <=> IsInput(s)) /\ (Skipped(s)' <=> Skipped(s))
                   /\ (OnWire(s)' <=> OnWire(s))
         /\ \A t, n : Behind(t, n)' <=> Behind(t, n)
<1>1. PICK w : w = wire'
  OBVIOUS
<1>2. /\ w \in Seq(WireLine)
      /\ \A i \in DOMAIN w : i + 1 \in DOMAIN wire /\ w[i] = wire[i + 1]
      /\ DOMAIN wire = 1..Len(wire) /\ DOMAIN w = 1..(Len(wire) - 1)
      /\ Len(wire) \in Nat \ {0} /\ wire[1] \in WireLine
  <2>1. wire \in Seq(WireLine) /\ wire # <<>> /\ w = Tail(wire)
    BY <1>1, Shapes DEF Takes
  <2> QED
    BY <2>1, TailOf
<1>3. \A k \in DOMAIN wire : k = 1 \/ (k - 1 \in DOMAIN w /\ w[k - 1] = wire[k])
  <2> SUFFICES ASSUME NEW k \in DOMAIN wire, k # 1
               PROVE  k - 1 \in DOMAIN w /\ w[k - 1] = wire[k]
    OBVIOUS
  <2>1. k - 1 \in DOMAIN w /\ (k - 1) + 1 = k
    BY <1>2
  <2> QED
    BY <1>2, <2>1
<1>4. l \in WireLine /\ l.n \in Int /\ 1 \in DOMAIN wire
  BY <1>2, Shapes DEF Takes
<1>5. l.what = "record" => l.n \in Nat
  BY <1>4, Shapes DEF FeedInv, OrderOK, Takes
<1>6. got' \subseteq Nat /\ got \subseteq got'
  BY <1>5 DEF FeedInv, TypeOK, Takes
<1>7. TypeOK'
  BY <1>1, <1>2, <1>6 DEF FeedInv, TypeOK, Takes
<1>8. first \in Nat
  BY Shapes
<1>9. LogStep /\ LogOK'
  BY <1>6, <1>8, SameLog, SameLogOK DEF Takes
<1>10. /\ log' = log /\ LastSeq' = LastSeq /\ Base' = Base /\ start' = start
       /\ request' = request /\ (Open' <=> Open)
  BY DEF Takes, LastSeq, Base, Open
<1>11. Connected /\ Connected'
  BY DEF Takes, Connected, FeedInv, StageOK
<1>12. \A t : t \in got' => Settled(t)'
  BY DEF Settled
<1>13. \A s : (IsInput(s)' <=> IsInput(s)) /\ (Skipped(s)' <=> Skipped(s))
              /\ (OnWire(s)' <=> OnWire(s))
  BY <1>10 DEF IsInput, Skipped, OnWire
<1>14. \A t, n : Behind(t, n)' <=> Behind(t, n)
  BY <1>10, <1>13 DEF Behind
<1> QED
  BY <1>1, <1>2, <1>3, <1>4, <1>7, <1>9, <1>10, <1>11, <1>12, <1>13, <1>14, StaysSettled

\* The cursor moves over what is settled, or is read with this line.
LEMMA CursorMoves ==
  ASSUME FeedInv, NEW l, Takes(l)
  PROVE  CursorOK' /\ BaseOK'
<1>1. PICK c : c = client'.cursor
  OBVIOUS
<1>2. c \in Int /\ c >= Base /\ Base >= start.index /\ start.index \in Nat /\ Base \in Int
  BY <1>1, TakenIs, Shapes DEF FeedInv, BaseOK, Takes
<1>3. ASSUME l.what = "record", IsInput(l.n), c = log[l.n].index
      PROVE  /\ c <= Committed
             /\ \A t \in DOMAIN log : Behind(t, c) => Settled(t)'
  <2>1. PICK s : s = l.n
    OBVIOUS
  <2>2. s \in DOMAIN log /\ IsInput(s) /\ c = log[s].index /\ s \in Nat
    BY <1>3, <2>1, TakenIs, Shapes DEF FeedInv, OrderOK, Takes
  <2>3. c <= Committed
    <3>1. log[s].index \in 1..Committed
      BY <2>2, InputIndexes DEF FeedInv
    <3> QED
      BY <2>2, <3>1, Shapes
  <2>4. ASSUME NEW t \in DOMAIN log, Behind(t, c)  PROVE Settled(t)'
    <3>1. PICK i \in t..LastSeq : IsInput(i) /\ log[i].index <= c
      BY <2>4 DEF Behind
    <3>2. i \in DOMAIN log /\ i \in Nat /\ t \in Nat \ {0} /\ t <= i
      BY <3>1, Shapes
    <3>3. ~(s < i)
      <4>1. s < i => c < log[i].index
        BY <2>2, <3>1, <3>2 DEF FeedInv, LogOK
      <4>2. c \in Int /\ log[i].index \in Int
        BY <1>2, <3>2, Shapes
      <4> QED
        BY <3>1, <4>1, <4>2
    <3>4. t <= s
      BY <2>2, <3>2, <3>3
    <3>5. CASE t = s
      BY <1>3, <2>1, <3>5, TakenIs DEF Takes
    <3>6. CASE t < s
      <4>1. t \in 1..(s - 1)
        BY <2>2, <3>2, <3>6
      <4>2. Settled(t) \/ \E k \in 1..0 : wire[k] = Line("record", t)
        <5>1. LineAt(1)
          BY TakenIs DEF FeedInv, LineOK
        <5>2. wire[1].what = "record" /\ wire[1].n = s
          BY <1>3, <2>1 DEF Takes
        <5> QED
          BY <4>1, <5>1, <5>2 DEF LineAt
      <4> QED
        BY <4>2, TakenIs
    <3> QED
      BY <2>2, <3>2, <3>4, <3>5, <3>6
  <2> QED
    BY <2>3, <2>4
<1>4. /\ c <= start.index \/ c <= Committed
      /\ \A t \in DOMAIN log : Behind(t, c) => Settled(t)'
  <2>1. CASE c = Base
    <3>1. \A t \in DOMAIN log : Behind(t, c) => Settled(t)
      BY <2>1, TakenIs DEF FeedInv, BaseOK
    <3> QED
      BY <2>1, <3>1, TakenIs DEF FeedInv, BaseOK
  <2>2. CASE c = client.cursor
    <3>1. client.cursor # NoSince
      BY <1>2, <2>2 DEF NoSince
    <3>2. \A t \in DOMAIN log : Behind(t, c) => Settled(t)
      BY <2>2, <3>1 DEF FeedInv, CursorOK
    <3> QED
      BY <2>2, <3>1, <3>2, TakenIs DEF FeedInv, CursorOK
  <2> QED
    BY <1>1, <1>3, <2>1, <2>2 DEF Takes
<1>5. client'.state = "reading" /\ Committed' = Committed
  BY DEF Takes, Committed, Indexes
<1>6. CursorOK'
  <2>1. c >= NoSince
    BY <1>2 DEF NoSince
  <2>2. start.seq <= LastSeq
    BY DEF FeedInv, CursorOK
  <2>3. \A t \in DOMAIN log : Behind(t, client.cursor)' => Settled(t)'
    BY <1>1, <1>4, TakenIs DEF Behind
  <2> QED
    BY <1>1, <1>2, <1>4, <1>5, <2>1, <2>2, <2>3, TakenIs DEF CursorOK
<1>7. BaseOK'
  <2>1. \A t \in DOMAIN log : Behind(t, Base)' => Settled(t)'
    <3>1. PICK n : n = Base
      OBVIOUS
    <3>2. \A t \in DOMAIN log : Behind(t, n) => Settled(t)
      BY <3>1, TakenIs DEF FeedInv, BaseOK
    <3> QED
      BY <3>1, <3>2, TakenIs DEF Behind
  <2> QED
    BY <1>1, <1>2, <1>5, <2>1, TakenIs DEF FeedInv, BaseOK
<1> QED
  BY <1>6, <1>7

\* What the lines left say, with what the client has just learnt.
LEMMA LinesLeft ==
  ASSUME FeedInv, NEW l, Takes(l)
  PROVE  /\ \A x \in Nat : Known(x) => Known(x)'
         /\ \A x : \A k \in DOMAIN wire : Says(k, x) =>
              Known(x)' \/ (k - 1 \in DOMAIN wire' /\ Says(k - 1, x)')
         /\ \A t : \A k \in DOMAIN wire : wire[k] = Line("record", t) =>
              t \in got' \/ (k - 1 \in DOMAIN wire' /\ wire'[k - 1] = Line("record", t))
<1>1. \A x \in Nat : Known(x) => Known(x)'
  <2> SUFFICES ASSUME NEW x \in Nat, Known(x)  PROVE Known(x)'
    OBVIOUS
  <2>1. Base' = Base /\ client.cursor <= client'.cursor /\ client'.cursor \in Int
        /\ client.cursor \in Int
    BY TakenIs, Shapes DEF Takes
  <2>2. x < client.told => client'.told = client.told
    <3>1. l.what = "marker" => client.told = 0
      BY TakenIs DEF FeedInv, WireOK, Takes
    <3> QED
      BY <3>1 DEF Takes
  <2> QED
    BY <2>1, <2>2 DEF Known
<1>2. ASSUME NEW x, NEW k \in DOMAIN wire, Says(k, x)
      PROVE  Known(x)' \/ (k - 1 \in DOMAIN wire' /\ Says(k - 1, x)')
  <2>1. CASE k = 1
    <3>1. wire[k] = l
      BY <2>1 DEF Takes
    <3>2. CASE l.what = "record" /\ IsInput(l.n) /\ log[l.n].index = x
      <4>1. client'.cursor = x /\ client'.cursor \in Int
        BY <3>2 DEF Takes
      <4> QED
        BY <4>1 DEF Known
    <3>3. CASE l.what = "marker" /\ x < l.n
      BY <3>3 DEF Takes, Known
    <3> QED
      BY <1>2, <3>1, <3>2, <3>3 DEF Says
  <2>2. CASE k # 1
    <3>1. PICK j : j = k - 1
      OBVIOUS
    <3>2. j \in DOMAIN wire' /\ wire'[j] = wire[k]
      BY <2>2, <3>1, TakenIs
    <3>3. Says(j, x)'
      BY <1>2, <3>2, TakenIs DEF Says, IsInput
    <3> QED
      BY <3>1, <3>2, <3>3 DEF Says
  <2> QED
    BY <2>1, <2>2
<1>3. ASSUME NEW t, NEW k \in DOMAIN wire, wire[k] = Line("record", t)
      PROVE  t \in got' \/ (k - 1 \in DOMAIN wire' /\ wire'[k - 1] = Line("record", t))
  <2>1. k = 1 => l.what = "record" /\ l.n = t
    BY <1>3 DEF Takes, Line
  <2> QED
    BY <1>3, <2>1, TakenIs DEF Takes
<1> QED
  BY <1>1, <1>2, <1>3

LEMMA TakesKeeps ==
  ASSUME FeedInv, NEW l, Takes(l)
  PROVE  FeedInv'
<1>1. CursorOK' /\ BaseOK' /\ TypeOK' /\ LogOK'
  BY CursorMoves, TakenIs
<1>2. /\ client'.state = "reading" /\ UNCHANGED <<backlog, toSend, stage>>
      /\ client'.told = IF l.what = "marker" THEN l.n ELSE client.told
      /\ l = wire[1] /\ wire # <<>>
  BY DEF Takes
<1>3. StageOK'
  <2>1. stage = "read" =>
          /\ client'.told = 0 /\ client'.cursor = Base
          /\ \A i \in DOMAIN wire' : wire'[i].what = "ack"
    BY <1>2, TakenIs DEF FeedInv, StageOK, Takes
  <2> QED
    BY <1>2, <2>1, TakenIs DEF FeedInv, StageOK
<1>4. WireOK'
  <2>1. \A i \in DOMAIN wire' : wire'[i].what # "ack"
    <3> SUFFICES ASSUME NEW i \in DOMAIN wire', wire'[i].what = "ack"  PROVE FALSE
      OBVIOUS
    <3>1. PICK k : k = i + 1
      OBVIOUS
    <3>2. k \in DOMAIN wire /\ wire[k].what = "ack" /\ k # 1
      BY <3>1, TakenIs
    <3> QED
      BY <3>2 DEF FeedInv, WireOK
  <2>2. ASSUME NEW i \in DOMAIN wire', wire'[i].what = "marker"
        PROVE  /\ client'.told = 0 /\ toSend.marker = 0
               /\ \A k \in DOMAIN wire' : wire'[k].what = "marker" => k = i
    <3>1. PICK m : m = i + 1
      OBVIOUS
    <3>2. m \in DOMAIN wire /\ wire[m].what = "marker" /\ m # 1 /\ i \in Nat
      BY <2>2, <3>1, TakenIs
    <3>3. /\ client.told = 0 /\ toSend.marker = 0
          /\ \A k \in DOMAIN wire : wire[k].what = "marker" => k = m
      BY <3>2 DEF FeedInv, WireOK
    <3>4. l.what # "marker"
      BY <1>2, <3>2, <3>3, TakenIs
    <3>5. ASSUME NEW k \in DOMAIN wire', wire'[k].what = "marker"  PROVE k = i
      <4>1. PICK j : j = k + 1
        OBVIOUS
      <4>2. j \in DOMAIN wire /\ wire[j].what = "marker" /\ k \in Nat
        BY <3>5, <4>1, TakenIs
      <4>3. j = m
        BY <3>3, <4>2
      <4> QED
        BY <3>1, <3>2, <4>1, <4>2, <4>3
    <3> QED
      BY <1>2, <3>3, <3>4, <3>5
  <2>3. toSend.marker # 0 => client'.told = 0
    <3>1. l.what = "marker" => toSend.marker = 0
      BY <1>2, TakenIs DEF FeedInv, WireOK
    <3> QED
      BY <1>2, <3>1 DEF FeedInv, WireOK
  <2>4. \A i \in DOMAIN wire' : wire'[i].what = "refusal" => ~Open
    BY TakenIs DEF FeedInv, WireOK
  <2> QED
    BY <1>2, <2>1, <2>2, <2>3, <2>4, TakenIs DEF WireOK
<1>5. OrderOK'
  <2>1. ASSUME NEW i \in DOMAIN wire', wire'[i].what = "record"
        PROVE  /\ wire'[i].n \in DOMAIN log
               /\ \A k \in DOMAIN wire' : wire'[k].what = "record" /\ i < k => wire'[i].n < wire'[k].n
               /\ \A s \in toSend.records : wire'[i].n < s
               /\ \A k \in DOMAIN backlog : wire'[i].n < backlog[k].seq
    <3>1. PICK j : j = i + 1
      OBVIOUS
    <3>2. j \in DOMAIN wire /\ wire'[i] = wire[j] /\ i \in Nat
      BY <3>1, TakenIs
    <3>3. ASSUME NEW k \in DOMAIN wire', wire'[k].what = "record", i < k
          PROVE  wire[j].n < wire'[k].n
      <4>1. PICK m : m = k + 1
        OBVIOUS
      <4>2. m \in DOMAIN wire /\ wire'[k] = wire[m] /\ j < m
        BY <3>1, <3>2, <3>3, <4>1, TakenIs
      <4> QED
        BY <2>1, <3>2, <3>3, <4>2 DEF FeedInv, OrderOK
    <3> QED
      BY <2>1, <3>2, <3>3 DEF FeedInv, OrderOK
  <2> QED
    BY <1>2, <2>1, TakenIs DEF OrderOK
<1>6. PastCursor'
  <2> SUFFICES ASSUME NEW s \in DOMAIN log, OnItsWay(s)', IsInput(s)
               PROVE  log[s].index > Base /\ log[s].index > client'.cursor
    BY TakenIs DEF PastCursor
  <2>1. \/ \E k \in DOMAIN wire : k # 1 /\ wire[k] = Line("record", s)
        \/ s \in toSend.records
        \/ \E i \in DOMAIN backlog : backlog[i].seq = s /\ ~Skipped(s)
    <3>1. CASE \E i \in DOMAIN wire' : wire'[i] = Line("record", s)
      <4>1. PICK i \in DOMAIN wire' : wire'[i] = Line("record", s)
        BY <3>1
      <4>2. PICK k : k = i + 1
        OBVIOUS
      <4>3. k \in DOMAIN wire /\ k # 1 /\ wire[k] = Line("record", s)
        BY <4>1, <4>2, TakenIs
      <4> QED
        BY <4>3
    <3>2. CASE ~\E i \in DOMAIN wire' : wire'[i] = Line("record", s)
      BY <1>2, <3>2, TakenIs DEF OnItsWay
    <3> QED
      BY <3>1, <3>2
  <2>2. OnItsWay(s)
    BY <2>1 DEF OnItsWay
  <2>3. log[s].index > Base /\ log[s].index > client.cursor
    BY <2>2 DEF FeedInv, PastCursor
  <2>4. ASSUME l.what = "record", IsInput(l.n)  PROVE log[l.n].index < log[s].index
    <3>1. PICK r : r = l.n
      OBVIOUS
    <3>2. r \in DOMAIN log /\ IsInput(r)
      BY <1>2, <2>4, <3>1, TakenIs DEF FeedInv, OrderOK
    <3>3. r < s
      <4>1. \A k \in DOMAIN wire : k # 1 /\ wire[k] = Line("record", s) => 1 < k /\ wire[k].what = "record" /\ wire[k].n = s
        BY TakenIs DEF Line
      <4> QED
        BY <1>2, <2>1, <2>4, <3>1, <4>1, TakenIs DEF FeedInv, OrderOK
    <3>4. log[r].index < log[s].index
      BY <3>2, <3>3 DEF FeedInv, LogOK
    <3> QED
      BY <3>1, <3>4
  <2>5. log[s].index \in Int
    BY Shapes
  <2> QED
    BY <2>3, <2>4, <2>5 DEF Takes
<1>7. LineOK'
  <2> SUFFICES ASSUME NEW i \in DOMAIN wire', wire'[i].what = "record",
                      NEW t \in 1..(wire'[i].n - 1)
               PROVE  Settled(t)' \/ \E k \in 1..(i - 1) : wire'[k] = Line("record", t)
    BY DEF LineOK, LineAt
  <2>1. PICK j : j = i + 1
    OBVIOUS
  <2>2. j \in DOMAIN wire /\ wire'[i] = wire[j] /\ i \in Nat \ {0}
    BY <2>1, TakenIs
  <2>3. wire[j].n \in DOMAIN log /\ t \in DOMAIN log
    <3>1. wire[j].n \in DOMAIN log
      BY <2>2 DEF FeedInv, OrderOK
    <3> QED
      BY <2>2, <3>1, Shapes
  <2>4. Settled(t) \/ \E k \in 1..(j - 1) : wire[k] = Line("record", t)
    BY <2>2 DEF FeedInv, LineOK, LineAt
  <2>5. CASE Settled(t)
    BY <2>3, <2>5, TakenIs
  <2>6. CASE \E k \in 1..(j - 1) : wire[k] = Line("record", t)
    <3>1. PICK k \in 1..(j - 1) : wire[k] = Line("record", t)
      BY <2>6
    <3>2. k \in DOMAIN wire /\ k \in 1..i
      BY <2>1, <2>2, <3>1, Shapes
    <3>3. t \in got' \/ (k - 1 \in DOMAIN wire' /\ wire'[k - 1] = Line("record", t))
      BY <3>1, <3>2, LinesLeft
    <3>4. k - 1 \in DOMAIN wire' => k - 1 \in 1..(i - 1)
      BY <2>2, <3>2, TakenIs
    <3> QED
      BY <3>3, <3>4, TakenIs
  <2> QED
    BY <2>4, <2>5, <2>6
<1>8. StreamOK'
  <2> SUFFICES ASSUME Open, NEW t \in DOMAIN log  PROVE Accounted(t)'
    BY TakenIs DEF StreamOK
  <2>1. Accounted(t)
    BY DEF FeedInv, StreamOK
  <2>2. ASSUME NEW k \in DOMAIN wire, wire[k] = Line("record", t)
        PROVE  Settled(t)' \/ \E i \in DOMAIN wire' : wire'[i] = Line("record", t)
    BY <2>2, LinesLeft, TakenIs
  <2> QED
    BY <1>2, <2>1, <2>2, TakenIs DEF Accounted
<1>9. LineInputOK'
  <2> SUFFICES ASSUME NEW i \in DOMAIN wire', wire'[i].what = "record", IsInput(wire'[i].n),
                      NEW x, x = log[wire'[i].n].index - 1
               PROVE  Known(x)' \/ \E k \in 1..(i - 1) : Says(k, x)'
    BY TakenIs DEF LineInputOK, InputAt, IsInput
  <2>1. PICK j : j = i + 1
    OBVIOUS
  <2>2. j \in DOMAIN wire /\ wire'[i] = wire[j] /\ i \in Nat \ {0}
    BY <2>1, TakenIs
  <2>3. Known(x) \/ \E k \in 1..(j - 1) : Says(k, x)
    BY <2>2 DEF FeedInv, LineInputOK, InputAt
  <2>4. x \in Nat
    <3>1. wire[j].n \in DOMAIN log
      BY <2>2 DEF FeedInv, OrderOK
    <3>2. PICK s : s = wire[j].n
      OBVIOUS
    <3>3. log[s].index \in 1..Committed /\ x = log[s].index - 1
      BY <2>2, <3>1, <3>2, InputIndexes DEF FeedInv
    <3>4. Committed \in Nat
      BY Shapes
    <3> QED
      BY <3>3, <3>4
  <2>5. CASE \E k \in 1..(j - 1) : Says(k, x)
    <3>1. PICK k \in 1..(j - 1) : Says(k, x)
      BY <2>5
    <3>2. k \in DOMAIN wire /\ k \in 1..i
      BY <2>1, <2>2, <3>1, Shapes
    <3>3. Known(x)' \/ (k - 1 \in DOMAIN wire' /\ Says(k - 1, x)')
      BY <3>1, <3>2, LinesLeft
    <3>4. k - 1 \in DOMAIN wire' => k - 1 \in 1..(i - 1)
      BY <2>2, <3>2, TakenIs
    <3>5. PICK m : m = k - 1
      OBVIOUS
    <3>6. Known(x)' \/ (m \in 1..(i - 1) /\ Says(m, x)')
      BY <3>3, <3>4, <3>5 DEF Says
    <3> QED
      BY <3>6
  <2> QED
    BY <2>3, <2>4, <2>5, LinesLeft
<1>10. StreamInputOK'
  <2> SUFFICES ASSUME Open, NEW u \in DOMAIN log, IsInput(u)  PROVE InputAccounted(u)'
    BY TakenIs DEF StreamInputOK
  <2>1. PICK x : x = log[u].index
    OBVIOUS
  <2>2. x \in Nat
    BY <2>1, Shapes
  <2>3. InputAccounted(u)
    BY DEF FeedInv, StreamInputOK
  <2>4. ASSUME NEW k \in DOMAIN wire, Says(k, x)
        PROVE  Known(x)' \/ \E i \in DOMAIN wire' : Says(i, x)'
    <3>1. PICK m : m = k - 1
      OBVIOUS
    <3>2. Known(x)' \/ (m \in DOMAIN wire' /\ Says(m, x)')
      BY <2>4, <3>1, LinesLeft DEF Says
    <3> QED
      BY <3>2
  <2>5. Known(x) => Known(x)'
    BY <2>2, LinesLeft
  <2> QED
    BY <1>2, <2>1, <2>3, <2>4, <2>5, TakenIs DEF InputAccounted
<1> QED
  BY <1>1, <1>3, <1>4, <1>5, <1>6, <1>7, <1>8, <1>9, <1>10 DEF FeedInv

\* The refusal is the last line of a closed stream.
LEMMA RefusalKeeps ==
  ASSUME FeedInv, UNCHANGED <<store, server, client, got, start>>, ~Open, wire' = <<>>
  PROVE  FeedInv'
<1>1. Calm /\ UNCHANGED <<feed, backlog, stage, toSend>>
  BY DEF Calm, store, server
<1>2. stage = "off" /\ toSend = Nothing /\ backlog = <<>> /\ ~Open'
  BY <1>1 DEF FeedInv, StageOK, Open
<1>3. DOMAIN wire' = {} /\ DOMAIN backlog = {} /\ Nothing.records = {} /\ Nothing.marker = 0
  BY <1>2 DEF Nothing
<1>4. TypeOK'
  BY <1>1 DEF FeedInv, TypeOK, Calm
<1>5. StageOK' /\ OrderOK' /\ LineOK' /\ LineInputOK' /\ StreamOK' /\ StreamInputOK'
  BY <1>1, <1>2, <1>3 DEF StageOK, OrderOK, LineOK, LineInputOK, StreamOK, StreamInputOK
<1>7. WireOK'
  BY <1>1, <1>2, <1>3, CalmKeeps DEF FeedInv, WireOK
<1>6. PastCursor'
  BY <1>1, <1>2, <1>3 DEF PastCursor, OnItsWay
<1> QED
  BY <1>1, <1>4, <1>5, <1>6, <1>7, CalmKeeps DEF FeedInv

LEMMA ReadKeeps ==
  ASSUME FeedInv, Read
  PROVE  FeedInv'
<1>1. PICK l : l = Head(wire)
  OBVIOUS
<1>2. /\ wire # <<>> /\ l = wire[1] /\ 1 \in DOMAIN wire /\ l \in WireLine /\ l.n \in Int
      /\ UNCHANGED <<log, first, snapshot, start, request, feed, backlog, stage, toSend>>
      /\ got' = IF l.what = "record" THEN got \cup {l.n} ELSE got
      /\ wire' = IF l.what = "refusal" THEN <<>> ELSE Tail(wire)
  <2>1. wire # <<>> /\ wire \in Seq(WireLine)
    BY Shapes DEF Read
  <2>2. l = wire[1] /\ 1 \in DOMAIN wire
    BY <1>1, <2>1
  <2> QED
    BY <1>1, <2>1, <2>2, Shapes DEF Read, store, server
<1>3. client \in [state : {"new", "waiting", "reading", "lost"}, cursor : Int, told : Int]
  BY DEF FeedInv, TypeOK
<1>4. client.state # "waiting" => client.state = "reading" /\ client.cursor >= Base
  BY <1>2 DEF FeedInv, StageOK, BaseOK, Connected
<1>5. client.state = "waiting" => l = Line("ack", Base) /\ l.what = "ack" /\ l.n = Base
  BY <1>2 DEF FeedInv, WireOK, Line
<1>6. CASE l.what = "ack"
  <2>1. client.state = "waiting" /\ l.n = Base /\ client.cursor <= Base
    <3>1. client.state = "waiting"
      BY <1>2, <1>6 DEF FeedInv, WireOK
    <3>2. client.cursor \in {NoSince, Base} /\ Base >= start.index
      BY <3>1 DEF FeedInv, BaseOK, Connected
    <3> QED
      BY <1>5, <3>1, <3>2, Shapes DEF NoSince
  <2>2. client' = [client EXCEPT !.state = "reading", !.cursor = l.n]
    BY <1>1, <1>6 DEF Read
  <2>3. /\ client'.state = "reading" /\ client'.cursor = Base /\ client'.told = client.told
        /\ client' \in [state : {"reading"}, cursor : Int, told : Int]
    BY <1>3, <2>1, <2>2, Shapes
  <2>4. Takes(l)
    BY <1>2, <1>6, <2>1, <2>3, Shapes DEF Takes
  <2> QED
    BY <2>4, TakesKeeps
<1>7. CASE l.what = "marker"
  <2>1. client' = [client EXCEPT !.told = l.n]
    BY <1>1, <1>7 DEF Read
  <2>2. /\ client'.cursor = client.cursor /\ client'.told = l.n
        /\ client' \in [state : {"reading"}, cursor : Int, told : Int]
    BY <1>2, <1>3, <1>4, <1>5, <1>7, <2>1
  <2>3. Takes(l)
    BY <1>2, <1>4, <1>5, <1>7, <2>2, Shapes DEF Takes
  <2> QED
    BY <2>3, TakesKeeps
<1>8. CASE l.what = "record" /\ IsInput(l.n)
  <2>1. client' = [client EXCEPT !.cursor = log[l.n].index]
    BY <1>1, <1>8 DEF Read
  <2>2. PICK s : s = l.n
    OBVIOUS
  <2>3. s \in DOMAIN log /\ OnItsWay(s)
    <3>1. l = Line("record", s)
      BY <1>2, <1>8, <2>2 DEF Line, WireLine
    <3> QED
      BY <1>2, <1>8, <2>2, <3>1 DEF FeedInv, OrderOK, OnItsWay
  <2>4. log[s].index > client.cursor /\ log[s].index \in Int
    BY <1>8, <2>2, <2>3, Shapes DEF FeedInv, PastCursor
  <2>5. /\ client'.cursor = log[s].index /\ client'.told = client.told
        /\ client' \in [state : {"reading"}, cursor : Int, told : Int]
    BY <1>3, <1>4, <1>5, <1>8, <2>1, <2>2, <2>4
  <2>6. client.cursor <= client'.cursor /\ Base <= client'.cursor
    BY <1>4, <1>5, <1>8, <2>4, <2>5, Shapes
  <2>7. Takes(l)
    BY <1>2, <1>8, <2>2, <2>5, <2>6 DEF Takes
  <2> QED
    BY <2>7, TakesKeeps
<1>9. CASE l.what = "record" /\ ~IsInput(l.n)
  <2>1. client' = client
    BY <1>1, <1>9 DEF Read
  <2>2. client' \in [state : {"reading"}, cursor : Int, told : Int]
    BY <1>3, <1>4, <1>5, <1>9, <2>1
  <2>3. Takes(l)
    BY <1>2, <1>4, <1>5, <1>9, <2>1, <2>2, Shapes DEF Takes
  <2> QED
    BY <2>3, TakesKeeps
<1>10. CASE l.what = "refusal"
  <2>1. client' = client
    BY <1>1, <1>10 DEF Read
  <2>2. ~Open
    BY <1>2, <1>10 DEF FeedInv, WireOK
  <2> QED
    BY <1>2, <1>10, <2>1, <2>2, RefusalKeeps DEF store, server
<1> QED
  BY <1>2, <1>6, <1>7, <1>8, <1>9, <1>10 DEF WireLine

LEMMA ReadEndKeeps ==
  ASSUME FeedInv, ReadEnd
  PROVE  FeedInv'
<1>1. /\ ~Open /\ wire = <<>> /\ Connected
      /\ client' = [client EXCEPT !.state = IF client.cursor = NoSince THEN "new" ELSE "lost"]
      /\ UNCHANGED <<log, first, snapshot, feed, backlog, request, stage, toSend, wire, got, start>>
  BY DEF ReadEnd, Connected, store, server
<1>2. /\ client'.cursor = client.cursor /\ client'.told = client.told /\ ~Connected'
      /\ client'.state = "new" <=> client.cursor = NoSince
      /\ client' \in [state : {"new", "waiting", "reading", "lost"}, cursor : Int, told : Int]
  BY <1>1 DEF FeedInv, TypeOK, Connected
<1>3. stage = "off" /\ toSend = Nothing /\ backlog = <<>> /\ ~Open' /\ client'.state # "waiting"
  BY <1>1, <1>2 DEF FeedInv, StageOK, Open, Connected
<1>4. DOMAIN wire = {} /\ DOMAIN backlog = {} /\ Nothing.records = {} /\ Nothing.marker = 0
  BY <1>1, <1>3 DEF Nothing
<1>5. first \in Nat
  BY Shapes
<1>6. LogStep /\ LogOK'
  BY <1>1, <1>5, SameLog, SameLogOK
<1>7. TypeOK'
  BY <1>1, <1>2 DEF FeedInv, TypeOK
<1>8. CursorOK'
  <2>1. /\ \A t \in DOMAIN log : Settled(t) => Settled(t)'
        /\ Committed' = Committed /\ LastSeq' = LastSeq /\ log' = log /\ start' = start
    BY <1>1, <1>6, StaysSettled DEF Committed, Indexes, LastSeq
  <2>2. \A t : Behind(t, client.cursor)' <=> Behind(t, client.cursor)
    BY <1>1, <1>2, <2>1 DEF Behind, IsInput
  <2> QED
    BY <1>2, <2>1, <2>2 DEF FeedInv, CursorOK
<1>9. BaseOK' /\ StageOK' /\ WireOK' /\ OrderOK' /\ LineOK' /\ LineInputOK' /\ StreamOK'
      /\ StreamInputOK'
  BY <1>1, <1>2, <1>3, <1>4
     DEF BaseOK, StageOK, WireOK, OrderOK, LineOK, LineInputOK, StreamOK, StreamInputOK
<1>10. PastCursor'
  BY <1>1, <1>3, <1>4 DEF PastCursor, OnItsWay
<1> QED
  BY <1>6, <1>7, <1>8, <1>9, <1>10 DEF FeedInv

-----------------------------------------------------------------------------
(* A subscription begins, or begins again at the client's cursor.          *)

\* The stream starts with the acknowledgement, of the cursor or of all there is.
LEMMA AckAlone ==
  ASSUME FeedInv, Subscribe
  PROVE  /\ UNCHANGED <<log, first, snapshot, got>> /\ LastSeq' = LastSeq
         /\ Committed' = Committed /\ LogOK'
         /\ client' \in [state : {"waiting"}, cursor : Int, told : {0}]
         /\ client'.cursor = client.cursor
         /\ feed' = "backfill" /\ backlog' = <<>> /\ toSend' = Nothing
         /\ DOMAIN wire' = {1} /\ wire' \in Seq(WireLine) /\ wire'[1] = Line("ack", Base')
         /\ request'.seam = LastSeq /\ request' \in [since : Int, seam : Nat]
         /\ stage' = (IF request'.since # NoSince THEN "read" ELSE "send")
         /\ \/ /\ client.cursor # NoSince /\ request'.since = client.cursor /\ start' = start
            \/ /\ client.cursor = NoSince /\ request'.since = NoSince
               /\ start' = [seq |-> LastSeq, index |-> Committed]
            \/ /\ client.cursor = NoSince /\ request'.since \in 0..(Committed + 1)
               /\ start' = [seq |-> 0, index |-> request'.since]
<1>1. PICK since \in IF client.cursor # NoSince
                     THEN {client.cursor}
                     ELSE {NoSince} \cup 0..(Committed + 1) :
       /\ request' = [since |-> since, seam |-> LastSeq]
       /\ wire' = <<Line("ack", IF since # NoSince THEN since ELSE Committed)>>
       /\ stage' = IF since # NoSince THEN "read" ELSE "send"
       /\ start' = IF client.cursor # NoSince THEN start
                   ELSE IF since = NoSince THEN [seq |-> LastSeq, index |-> Committed]
                   ELSE [seq |-> 0, index |-> since]
  BY DEF Subscribe
<1>2. /\ UNCHANGED <<log, first, snapshot, got>>
      /\ feed' = "backfill" /\ backlog' = <<>> /\ toSend' = Nothing
      /\ client' = [client EXCEPT !.state = "waiting", !.told = 0]
  BY DEF Subscribe, store
<1>3. client \in [state : {"new", "waiting", "reading", "lost"}, cursor : Int, told : Int]
  BY DEF FeedInv, TypeOK
<1>4. /\ client' \in [state : {"waiting"}, cursor : Int, told : {0}]
      /\ client'.cursor = client.cursor
  BY <1>2, <1>3
<1>5. LastSeq' = LastSeq /\ Committed' = Committed /\ LogOK'
  BY <1>2, SameLogOK DEF LastSeq, Committed, Indexes
<1>6. since \in Int /\ request'.since = since /\ request'.seam = LastSeq
      /\ request' \in [since : Int, seam : Nat]
  BY <1>1, <1>3, Shapes DEF NoSince
<1>7. \/ client.cursor # NoSince /\ since = client.cursor /\ start' = start
      \/ /\ client.cursor = NoSince /\ since = NoSince
         /\ start' = [seq |-> LastSeq, index |-> Committed]
      \/ /\ client.cursor = NoSince /\ since \in 0..(Committed + 1)
         /\ start' = [seq |-> 0, index |-> since]
  <2>1. CASE client.cursor # NoSince
    BY <1>1, <2>1
  <2>2. CASE client.cursor = NoSince /\ since = NoSince
    BY <1>1, <2>2
  <2>3. CASE client.cursor = NoSince /\ since # NoSince
    BY <1>1, <2>3
  <2> QED
    BY <2>1, <2>2, <2>3
<1>8. Base' = IF since # NoSince THEN since ELSE Committed
  <2>1. since = NoSince => start'.index = Committed
    BY <1>7, Shapes DEF NoSince
  <2> QED
    BY <1>6, <2>1 DEF Base
<1>9. Line("ack", Base') \in WireLine
  BY <1>6, <1>8, Shapes DEF Line, WireLine
<1>10. wire' = <<Line("ack", Base')>>
  BY <1>1, <1>8
<1>11. DOMAIN wire' = {1} /\ wire' \in Seq(WireLine) /\ wire'[1] = Line("ack", Base')
  BY <1>9, <1>10
<1> QED
  BY <1>1, <1>2, <1>4, <1>5, <1>6, <1>7, <1>11

\* A first subscription owes what is after its cursor, or after all there is; a
\* later one what the first did.
LEMMA SubscribedFrom ==
  ASSUME FeedInv, Subscribe
  PROVE  /\ start' \in [seq : Nat, index : Nat] /\ start'.seq <= LastSeq
         /\ Base' \in Int /\ Base' >= start'.index
         /\ Base' <= start'.index \/ Base' <= Committed
         /\ request'.since >= NoSince
         /\ client.cursor # NoSince => Base' = client.cursor /\ start' = start
         /\ \A t \in DOMAIN log : Behind(t, Base)' => Settled(t)'
         /\ request'.since = NoSince =>
              /\ start'.seq = request'.seam /\ start'.index <= Committed
              /\ \A s \in DOMAIN log : IsInput(s) =>
                   (s > request'.seam <=> log[s].index > start'.index)
<1>1. CASE client.cursor # NoSince /\ request'.since = client.cursor /\ start' = start
  <2>1. Base' = client.cursor
    BY <1>1 DEF Base
  <2>2. /\ client.cursor >= NoSince /\ client.cursor >= start.index /\ start.seq <= LastSeq
        /\ client.cursor <= start.index \/ client.cursor <= Committed
        /\ \A t \in DOMAIN log : Behind(t, client.cursor) => Settled(t)
    BY <1>1 DEF FeedInv, CursorOK
  <2>3. ASSUME NEW t \in DOMAIN log, Behind(t, Base)'  PROVE Settled(t)'
    <3>1. PICK n : n = client.cursor
      OBVIOUS
    <3>2. UNCHANGED <<log, first, got, start>>
      BY <1>1, AckAlone
    <3>3. Behind(t, n)
      BY <2>1, <2>3, <3>1, <3>2 DEF Behind, LastSeq, IsInput
    <3>4. Settled(t)
      BY <2>2, <3>1, <3>3
    <3> QED
      BY <3>2, <3>4 DEF Settled, Behind, LastSeq, IsInput, OnWire
  <2>4. start \in [seq : Nat, index : Nat] /\ client.cursor \in Int
    BY Shapes DEF FeedInv, TypeOK
  <2>5. Committed' = Committed
    BY AckAlone
  <2> QED
    BY <1>1, <2>1, <2>2, <2>3, <2>4, <2>5
<1>2. CASE client.cursor = NoSince /\ request'.since = NoSince
           /\ start' = [seq |-> LastSeq, index |-> Committed]
  <2>1. Base' = Committed /\ start'.seq = LastSeq /\ start'.index = Committed
        /\ start' \in [seq : Nat, index : Nat]
    BY <1>2, Shapes DEF Base
  <2>2. \A t \in DOMAIN log : Settled(t)'
    BY <2>1, Shapes DEF Settled
  <2>3. \A s \in DOMAIN log : IsInput(s) =>
          s <= LastSeq /\ log[s].index <= Committed /\ s \in Nat /\ log[s].index \in Nat
    <3>1. \A s \in DOMAIN log : IsInput(s) => log[s].index \in 1..Committed
      BY InputIndexes DEF FeedInv
    <3> QED
      BY <3>1, Shapes
  <2>4. request'.seam = LastSeq
    BY AckAlone
  <2> QED
    BY <1>2, <2>1, <2>2, <2>3, <2>4, Shapes DEF NoSince
<1>3. CASE client.cursor = NoSince /\ request'.since \in 0..(Committed + 1)
           /\ start' = [seq |-> 0, index |-> request'.since]
  <2>1. PICK n : n = request'.since
    OBVIOUS
  <2>2. /\ n \in Nat /\ n # NoSince /\ Base' = n /\ start'.seq = 0 /\ start'.index = n
        /\ start' \in [seq : Nat, index : Nat]
    BY <1>3, <2>1, Shapes DEF Base, NoSince
  <2>3. n <= n
    BY <2>2
  <2>4. \A t \in DOMAIN log : Behind(t, Base)' => Settled(t)'
    BY <2>2 DEF Settled, Behind
  <2> QED
    BY <1>3, <2>1, <2>2, <2>3, <2>4, Shapes DEF NoSince
<1> QED
  BY <1>1, <1>2, <1>3, AckAlone

LEMMA SubscribeKeeps ==
  ASSUME FeedInv, Subscribe
  PROVE  FeedInv'
<1>1. /\ log' = log /\ LastSeq' = LastSeq /\ Committed' = Committed /\ LogOK'
      /\ client'.state = "waiting" /\ client'.told = 0 /\ client'.cursor = client.cursor
      /\ Connected' /\ Open' /\ feed' = "backfill" /\ request'.seam = LastSeq
      /\ stage' = (IF request'.since # NoSince THEN "read" ELSE "send")
      /\ DOMAIN wire' = {1} /\ wire'[1] = Line("ack", Base')
      /\ DOMAIN backlog' = {} /\ toSend'.records = {} /\ toSend'.marker = 0 /\ toSend' = Nothing
  BY AckAlone DEF Connected, Open, Nothing
<1>2. TypeOK'
  <2>1. client' \in [state : {"new", "waiting", "reading", "lost"}, cursor : Int, told : Int]
    BY AckAlone
  <2>2. toSend' \in [marker : Nat, records : SUBSET Nat]
    BY <1>1 DEF Nothing
  <2>3. backlog' \in Seq([seq : Nat, size : Nat])
    BY AckAlone
  <2>4. stage' \in {"off", "read", "send", "live"}
    BY <1>1
  <2> QED
    BY <2>1, <2>2, <2>3, <2>4, AckAlone, SubscribedFrom DEF FeedInv, TypeOK
<1>3. client.cursor \in {NoSince, Base'}
  BY SubscribedFrom
<1>4. CursorOK'
  <2>1. \A t \in DOMAIN log :
          client.cursor # NoSince => (Behind(t, client.cursor)' => Settled(t)')
    <3> SUFFICES ASSUME NEW t \in DOMAIN log, client.cursor # NoSince, Behind(t, client.cursor)'
                 PROVE  Settled(t)'
      OBVIOUS
    <3>1. PICK n : n = client.cursor
      OBVIOUS
    <3>2. Behind(t, n)' /\ Base' = n
      BY <1>1, <3>1, SubscribedFrom DEF Behind
    <3> QED
      BY <3>2, SubscribedFrom DEF Behind
  <2>2. client.cursor # NoSince =>
          /\ client.cursor >= start.index /\ start' = start
          /\ client.cursor <= start.index \/ client.cursor <= Committed
    BY SubscribedFrom DEF FeedInv, CursorOK
  <2>3. client.cursor >= NoSince
    BY DEF FeedInv, CursorOK
  <2> QED
    BY <1>1, <2>1, <2>2, <2>3, SubscribedFrom DEF CursorOK
<1>5. BaseOK'
  <2>1. LastSeq \in Nat
    BY Shapes
  <2> QED
    BY <1>1, <1>3, <2>1, SubscribedFrom DEF BaseOK, IsInput
<1>6. StageOK'
  BY <1>1, <1>3 DEF StageOK, Line
<1>7. WireOK'
  <2>1. wire' # <<>>
    BY <1>1
  <2> QED
    BY <1>1, <2>1 DEF WireOK, Line
<1>8. OrderOK' /\ LineOK' /\ LineInputOK'
  BY <1>1 DEF OrderOK, LineOK, LineInputOK, LineAt, InputAt, Line
<1>9. PastCursor'
  BY <1>1 DEF PastCursor, OnItsWay, Line
<1>10. StreamOK'
  <2> SUFFICES ASSUME NEW t \in DOMAIN log  PROVE Accounted(t)'
    BY <1>1 DEF StreamOK
  <2>1. t <= LastSeq /\ t \in Nat
    BY Shapes
  <2>2. CASE request'.since # NoSince
    <3>1. Behind(t, Base)' => Settled(t)'
      BY SubscribedFrom
    <3> QED
      BY <1>1, <2>1, <2>2, <3>1 DEF Accounted
  <2>3. CASE request'.since = NoSince
    <3>1. t <= start'.seq
      BY <1>1, <2>1, <2>3, SubscribedFrom
    <3> QED
      BY <3>1 DEF Accounted, Settled
  <2> QED
    BY <2>2, <2>3
<1>11. StreamInputOK'
  <2> SUFFICES ASSUME NEW u \in DOMAIN log, IsInput(u)  PROVE InputAccounted(u)'
    BY <1>1 DEF StreamInputOK, IsInput
  <2>1. u <= LastSeq /\ u \in Nat /\ log[u].index \in Nat
    BY Shapes
  <2>2. CASE request'.since # NoSince
    BY <1>1, <2>1, <2>2 DEF InputAccounted
  <2>3. CASE request'.since = NoSince
    <3>1. PICK x : x = log[u].index
      OBVIOUS
    <3>2. x <= Base'
      <4>1. ~(x > start'.index)
        BY <1>1, <2>1, <2>3, <3>1, Shapes, SubscribedFrom
      <4>2. start'.index \in Nat /\ Base' \in Int /\ Base' >= start'.index
        BY SubscribedFrom
      <4> QED
        BY <2>1, <3>1, <4>1, <4>2
    <3> QED
      BY <1>1, <3>1, <3>2 DEF InputAccounted, Known
  <2> QED
    BY <2>2, <2>3
<1> QED
  BY <1>1, <1>2, <1>4, <1>5, <1>6, <1>7, <1>8, <1>9, <1>10, <1>11 DEF FeedInv

-----------------------------------------------------------------------------
(* The invariant holds, and the client's reads are what it says.           *)

LEMMA FeedInit == Init => FeedInv
<1> SUFFICES ASSUME Init  PROVE FeedInv
  OBVIOUS
<1>1. /\ log = <<>> /\ first = 1 /\ snapshot = 0 /\ feed = "none" /\ backlog = <<>>
      /\ stage = "off" /\ toSend = Nothing /\ wire = <<>> /\ got = {}
      /\ request = [since |-> NoSince, seam |-> 0] /\ start = [seq |-> 0, index |-> 0]
      /\ client = [state |-> "new", cursor |-> NoSince, told |-> 0]
  BY DEF Init
<1>2. DOMAIN log = {} /\ LastSeq = 0 /\ DOMAIN wire = {} /\ DOMAIN backlog = {}
      /\ toSend.records = {} /\ toSend.marker = 0 /\ ~Connected /\ ~Open
  BY <1>1 DEF LastSeq, Nothing, Connected, Open
<1>3. Indexes = {}
  BY <1>2 DEF Indexes
<1>4. Committed = 0
  BY <1>3 DEF Committed
<1>5. TypeOK
  BY <1>1 DEF TypeOK, NoSince, Nothing
<1>6. LogOK
  BY <1>1, <1>2, <1>3, <1>4 DEF LogOK
<1>7. CursorOK
  BY <1>1, <1>2 DEF CursorOK, NoSince
<1>8. BaseOK /\ StreamOK /\ StreamInputOK
  BY <1>2 DEF BaseOK, StreamOK, StreamInputOK
<1>9. StageOK /\ WireOK
  BY <1>1, <1>2 DEF StageOK, WireOK
<1>10. OrderOK /\ PastCursor /\ LineOK /\ LineInputOK
  BY <1>2 DEF OrderOK, PastCursor, LineOK, LineInputOK
<1> QED
  BY <1>5, <1>6, <1>7, <1>8, <1>9, <1>10 DEF FeedInv

LEMMA FeedNext ==
  ASSUME FeedInv, [Next]_vars
  PROVE  FeedInv'
<1>1. CASE Admission \/ Dispatch \/ TakeSnapshot
  BY <1>1, JournalKeeps
<1>2. CASE Prune
  BY <1>2, PruneKeeps
<1>3. CASE Subscribe
  BY <1>3, SubscribeKeeps
<1>4. CASE Handler
  BY <1>4, ReadBackfillKeeps, SendBackfillKeeps, GoLiveKeeps, SendLiveKeeps DEF Handler
<1>5. CASE BackfillRefused
  BY <1>5, RefusedKeeps
<1>6. CASE StreamEnds
  BY <1>6, EndKeeps
<1>7. CASE Client
  BY <1>7, ReadKeeps, ReadEndKeeps DEF Client
<1>8. CASE UNCHANGED vars
  <2>1. Calm /\ UNCHANGED <<feed, backlog, stage, toSend, wire>>
    BY <1>8 DEF vars, store, server, reader, Calm
  <2>2. (Open' <=> Open) /\ TypeOK'
    BY <2>1 DEF Open, FeedInv, TypeOK, Calm
  <2>3. StageOK' /\ WireOK' /\ OrderOK'
    BY <2>1, <2>2, CalmKeeps DEF FeedInv, StageOK, WireOK, OrderOK
  <2>4. PastCursor'
    BY <2>1, CalmKeeps DEF FeedInv, PastCursor, OnItsWay
  <2>5. LineOK' /\ LineInputOK'
    <3>1. \A i \in DOMAIN wire : LineAt(i)' /\ InputAt(i)'
      BY <2>1, CalmKeeps, LineStays DEF Calm
    <3> QED
      BY <2>1, <3>1 DEF LineOK, LineInputOK
  <2>6. StreamOK'
    <3> SUFFICES ASSUME Open, NEW t \in DOMAIN log  PROVE Accounted(t)'
      BY <2>1, <2>2, CalmKeeps DEF StreamOK
    <3>1. Accounted(t)
      BY DEF FeedInv, StreamOK
    <3>2. (Settled(t) => Settled(t)') /\ (Behind(t, Base)' <=> Behind(t, Base))
      BY <2>1, CalmKeeps DEF Behind
    <3> QED
      BY <2>1, <3>1, <3>2, CalmKeeps DEF Accounted
  <2>7. StreamInputOK'
    BY <2>1, <2>2, CalmKeeps DEF FeedInv, StreamInputOK, InputAccounted, Says
  <2> QED
    BY <2>1, <2>2, <2>3, <2>4, <2>5, <2>6, <2>7, CalmKeeps DEF FeedInv
<1> QED
  BY <1>1, <1>2, <1>3, <1>4, <1>5, <1>6, <1>7, <1>8 DEF Next

\* What the client reads is the first line, when it has read the acknowledgement.
LEMMA ReadsFirst ==
  ASSUME FeedInv, NEW s \in DOMAIN log, Reads(s)
  PROVE  /\ 1 \in DOMAIN wire /\ wire[1] = Line("record", s)
         /\ wire[1].what = "record" /\ wire[1].n = s
         /\ client.state = "reading" /\ client.cursor >= Base /\ OnItsWay(s)
<1>1. 1 \in DOMAIN wire /\ wire[1] = Line("record", s) /\ wire # <<>>
  <2>1. wire \in Seq(WireLine) /\ wire # <<>> /\ Head(wire) = Line("record", s)
    BY Shapes DEF Reads
  <2> QED
    BY <2>1
<1>2. wire[1].what = "record" /\ wire[1].n = s
  BY <1>1 DEF Line
<1>3. client.state # "waiting"
  BY <1>1 DEF FeedInv, WireOK, Line
<1>4. client.state = "reading" /\ client.cursor >= Base
  BY <1>1, <1>3 DEF FeedInv, StageOK, BaseOK, Connected
<1> QED
  BY <1>1, <1>2, <1>4 DEF OnItsWay

LEMMA InputsInTurn ==
  ASSUME FeedInv, NEW s \in DOMAIN log, Reads(s), IsInput(s)
  PROVE  /\ log[s].index > client.cursor
         /\ log[s].index <= Greater(client.cursor + 1, client.told)
<1>1. log[s].index > client.cursor
  BY ReadsFirst DEF FeedInv, PastCursor
<1>2. PICK x : x = log[s].index - 1
  OBVIOUS
<1>3. Known(x)
  <2>1. InputAt(1)
    BY ReadsFirst DEF FeedInv, LineInputOK
  <2>2. Known(x) \/ \E k \in 1..0 : Says(k, x)
    BY <1>2, <2>1, ReadsFirst DEF InputAt
  <2> QED
    BY <2>2
<1>4. log[s].index \in Nat /\ client.cursor \in Int /\ client.told \in Int /\ Base \in Int
      /\ Base <= client.cursor
  BY Shapes, ReadsFirst
<1>5. x <= client.cursor \/ x < client.told
  BY <1>2, <1>3, <1>4 DEF Known
<1> QED
  BY <1>1, <1>2, <1>4, <1>5 DEF Greater

LEMMA OnlyPrunedPassed ==
  ASSUME FeedInv, NEW s \in DOMAIN log, Reads(s), NEW t \in Missed(s)
  PROVE  t < first
<1>1. /\ t \in (start.seq + 1)..(s - 1) /\ OnWire(t) /\ t \notin got
      /\ \A i \in t..LastSeq : ~(IsInput(i) /\ log[i].index <= start.index)
  BY DEF Missed
<1>2. t \in 1..(s - 1) /\ ~(t <= start.seq) /\ ~Behind(t, start.index)
  BY <1>1, Shapes DEF Behind
<1>3. LineAt(1)
  BY ReadsFirst DEF FeedInv, LineOK
<1>4. Settled(t) \/ \E k \in 1..0 : wire[k] = Line("record", t)
  BY <1>2, <1>3, ReadsFirst DEF LineAt
<1>5. Settled(t)
  BY <1>4
<1> QED
  BY <1>1, <1>2, <1>5 DEF Settled

\* A client that resumes with its cursor reads each input once and in order, and
\* misses only those a gap marker told it of: the backfill's seam and its cut, the
\* skip of what a cursor ahead of the store holds and resume_cursor together.
THEOREM InputsReadOnce == Spec => InputsExactlyOnce
<1>1. Init => FeedInv
  BY FeedInit
<1>2. FeedInv /\ [Next]_vars => FeedInv'
  BY FeedNext
<1>3. FeedInv /\ [Next]_vars =>
        [\A s \in DOMAIN log : Reads(s) /\ IsInput(s) =>
           /\ log[s].index > client.cursor
           /\ log[s].index <= Greater(client.cursor + 1, client.told)]_vars
  BY InputsInTurn
<1> QED
  BY <1>1, <1>2, <1>3, PTL DEF Spec, InputsExactlyOnce

\* When the client reads a record, it has read every one before it that is of its
\* stream and that the store still holds: none appended during the backfill, held
\* by a dropped backlog or following the cursor's own input is passed over.
THEOREM RetainedIsRead == Spec => NothingRetainedIsLost
<1>1. Init => FeedInv
  BY FeedInit
<1>2. FeedInv /\ [Next]_vars => FeedInv'
  BY FeedNext
<1>3. FeedInv /\ [Next]_vars =>
        [\A s \in DOMAIN log : Reads(s) => \A t \in Missed(s) : t < first]_vars
  BY OnlyPrunedPassed
<1> QED
  BY <1>1, <1>2, <1>3, PTL DEF Spec, NothingRetainedIsLost

=============================================================================
