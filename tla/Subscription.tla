---------------------------- MODULE Subscription ----------------------------
(***************************************************************************)
(* One client of the control socket's `subscribe` (runner_control.py,      *)
(* runner_journal.py): the store's records go to it as a backfill up to a  *)
(* seam and then live from a bounded backlog, while records are appended,  *)
(* the store's head is pruned, the stream breaks and the client comes back *)
(* with its cursor.                                                        *)
(*                                                                         *)
(* A record is named by its place in the store.  A feed shares nothing     *)
(* with another feed but the order of the journal's appends, so one client *)
(* is enough.                                                              *)
(***************************************************************************)
EXTENDS Integers, Sequences, SequencesExt

CONSTANTS
  Sizes,        \* the bytes a record may take as a stream line
  Budget,       \* SUBSCRIBER_BACKLOG_BYTES
  HighWater,    \* lines the transport takes before a write waits
  MaxLog,       \* bound: records in the store
  MaxConnects   \* bound: connections of the client

ASSUME SubscriptionAssumption ==
  /\ Sizes \subseteq Nat \ {0}
  /\ Budget \in Nat /\ HighWater \in Nat \ {0}
  /\ MaxLog \in Nat /\ MaxConnects \in Nat

VARIABLES
  log,       \* every record ever appended
  first,     \* the first record retained
  snapshot,  \* the last record the latest snapshot covers
  feed,      \* the SUBSCRIPTION instance's state
  backlog,   \* the live records queued for the feed
  request,   \* the connection's `since`, and the seam
  stage,     \* what the handler does next
  toSend,    \* the backfill not sent yet: a gap's first index, or 0, and its records
  wire,      \* the lines written and not read
  client,    \* what the client knows: its cursor and the lowest index it was told of
  got,       \* observer: the records the client has read
  start,     \* observer: what its first subscription begins after
  connects

store == <<log, first, snapshot>>
server == <<feed, backlog, request, stage, toSend>>
reader == <<client, got, start, connects>>
vars == <<store, server, wire, reader>>

NoSince == -1
Nothing == [marker |-> 0, records |-> {}]

LastSeq == Len(log)
Indexes == {log[s].index : s \in {t \in DOMAIN log : log[t].kind = "input"}}
Committed == IF Indexes = {} THEN 0 ELSE CHOOSE i \in Indexes : \A k \in Indexes : k <= i

\* wire_record: an engine's own records are not on the wire.
OnWire(s) == log[s].kind # "engine"
IsInput(s) == log[s].kind = "input"

Line(what, n) == [what |-> what, n |-> n]

Bytes(q) == FoldLeft(LAMBDA sum, item : sum + item.size, 0, q)

Greater(a, b) == IF a > b THEN a ELSE b

Init ==
  /\ log = <<>> /\ first = 1 /\ snapshot = 0
  /\ feed = "none" /\ backlog = <<>> /\ stage = "off" /\ toSend = Nothing /\ wire = <<>>
  /\ request = [since |-> NoSince, seam |-> 0]
  /\ client = [state |-> "new", cursor |-> NoSince, told |-> 0]
  /\ got = {} /\ start = [seq |-> 0, index |-> 0] /\ connects = 0

-----------------------------------------------------------------------------
(* The journal.                                                            *)

Open == feed \in {"backfill", "live"}

\* An empty backlog takes one record of any size.
Fits(q, size) == q = <<>> \/ Bytes(q) + size <= Budget

\* One record is offered to the feed as it becomes durable; one that does not fit
\* removes the feed.
Offer(f, seq, r) ==
  IF f.state \notin {"backfill", "live"} \/ r.kind = "engine" THEN f
  ELSE IF Fits(f.queue, r.size)
  THEN [f EXCEPT !.queue = Append(@, [seq |-> seq, size |-> r.size])]
  ELSE [state |-> "removed", queue |-> <<>>]

\* _publish, after the append has succeeded: its one or two records, in order.
Offered(records) ==
  LET once == Offer([state |-> feed, queue |-> backlog], LastSeq + 1, records[1]) IN
  IF Len(records) = 1 THEN once ELSE Offer(once, LastSeq + 2, records[2])

\* The transport is aborted: what the peer has not taken may be lost.
Aborted(lines) == \E n \in 0..Len(lines) : wire' = SubSeq(lines, 1, n)

\* A removed feed's handler is cancelled wherever it waits.
Publish(records) ==
  /\ LastSeq + Len(records) <= MaxLog
  /\ log' = log \o records
  /\ feed' = Offered(records).state
  /\ backlog' = Offered(records).queue
  /\ IF Open /\ feed' = "removed"
     THEN stage' = "off" /\ toSend' = Nothing /\ Aborted(wire)
     ELSE UNCHANGED <<stage, toSend, wire>>
  /\ UNCHANGED <<first, request, reader>>

\* An admission is its input and its decision, in one transaction.
Admission ==
  /\ \E size \in Sizes :
       Publish(<<[kind |-> "input", index |-> Committed + 1, size |-> size],
                 [kind |-> "decision", index |-> Committed + 1, size |-> size]>>)
  /\ UNCHANGED snapshot

Dispatch ==
  /\ \E size \in Sizes : Publish(<<[kind |-> "dispatch", index |-> 0, size |-> size]>>)
  /\ UNCHANGED snapshot

\* take_snapshot, and the prune behind it: the rows below one bound that no open
\* item and no retention day holds, never above the snapshot.
TakeSnapshot ==
  /\ Publish(<<[kind |-> "engine", index |-> 0, size |-> 0]>>)
  /\ snapshot' = LastSeq

Prune ==
  /\ \E bound \in (first + 1)..snapshot : first' = bound
  /\ UNCHANGED <<log, snapshot, server, wire, reader>>

-----------------------------------------------------------------------------
(* The handler.  Every send is awaited, and anything may happen meanwhile.  *)

CanSend == Len(wire) < HighWater

\* _subscribe: the feed joins the fan-out and the seam is sampled with no await
\* between; the acknowledgement names the cursor.
Subscribe ==
  /\ client.state \in {"new", "lost"}
  /\ connects < MaxConnects
  /\ connects' = connects + 1
  /\ \E since \in IF client.cursor # NoSince
                  THEN {client.cursor}
                  ELSE {NoSince} \cup 0..(Committed + 1) :
       /\ request' = [since |-> since, seam |-> LastSeq]
       /\ wire' = <<Line("ack", IF since # NoSince THEN since ELSE Committed)>>
       /\ stage' = IF since # NoSince THEN "read" ELSE "send"
       /\ start' = IF client.cursor # NoSince THEN start
                   ELSE IF since = NoSince THEN [seq |-> LastSeq, index |-> Committed]
                   ELSE [seq |-> 0, index |-> since]
  /\ feed' = "backfill" /\ backlog' = <<>> /\ toSend' = Nothing
  /\ client' = [client EXCEPT !.state = "waiting", !.told = 0]
  /\ UNCHANGED <<store, got>>

BadUpto == LastSeq

\* The backfill ends at the seam, whatever was appended since.
Upto == request.seam

BadCut(retained, since) ==
  {s \in retained : log[s].kind \in {"input", "decision"} /\ log[s].index <= since}

\* The cut is positional: everything after the last input at or below the cursor.
Cut(retained, since) == {s \in retained : IsInput(s) /\ log[s].index <= since}

Owed(retained, since) ==
  {s \in retained : OnWire(s) /\ \A t \in Cut(retained, since) : t < s}

\* The first retained input's index; with none, the one after the snapshot's.
Earliest ==
  LET kept == {s \in first..LastSeq : IsInput(s)} IN
  IF kept = {} THEN Committed + 1
  ELSE log[CHOOSE s \in kept : \A t \in kept : s <= t].index

Gap(since) == first > 1 /\ since < Earliest - 1

\* read_backfill: the store as it is now, which a prune may have cut since the
\* seam was sampled.  A store that cannot be read refuses on the stream, and the
\* server hangs up.
ReadBackfill ==
  /\ stage = "read" /\ CanSend
  /\ toSend' = [marker |-> IF Gap(request.since) THEN Earliest ELSE 0,
                records |-> Owed(first..Upto, request.since)]
  /\ stage' = "send"
  /\ UNCHANGED <<store, feed, backlog, request, wire, reader>>

BackfillRefused ==
  /\ stage = "read" /\ CanSend
  /\ wire' = Append(wire, Line("refusal", 0))
  /\ stage' = "off" /\ feed' = "closed" /\ backlog' = <<>>
  /\ UNCHANGED <<store, request, toSend, reader>>

SendBackfill ==
  /\ stage = "send" /\ CanSend
  /\ \/ /\ toSend.marker # 0
        /\ wire' = Append(wire, Line("marker", toSend.marker))
        /\ toSend' = [toSend EXCEPT !.marker = 0]
     \/ /\ toSend.marker = 0
        /\ \E s \in toSend.records :
             /\ \A t \in toSend.records : s <= t
             /\ wire' = Append(wire, Line("record", s))
             /\ toSend' = [toSend EXCEPT !.records = @ \ {s}]
  /\ UNCHANGED <<store, feed, backlog, request, stage, reader>>

GoLive ==
  /\ stage = "send" /\ CanSend
  /\ toSend = Nothing
  /\ feed' = "live" /\ stage' = "live"
  /\ UNCHANGED <<store, backlog, request, toSend, wire, reader>>

BadSkipped(s) == request.since # NoSince /\ IsInput(s) /\ log[s].index <= request.seam

\* What a cursor ahead of the store already holds is not owed.
Skipped(s) == request.since # NoSince /\ IsInput(s) /\ log[s].index <= request.since

SendLive ==
  /\ stage = "live" /\ CanSend
  /\ backlog # <<>>
  /\ backlog' = Tail(backlog)
  /\ wire' = IF Skipped(Head(backlog).seq) THEN wire
             ELSE Append(wire, Line("record", Head(backlog).seq))
  /\ UNCHANGED <<store, feed, request, stage, toSend, reader>>

\* The engine goes, an access is revoked, or the peer's connection fails.
StreamEnds ==
  /\ Open
  /\ feed' = "closed" /\ backlog' = <<>> /\ stage' = "off" /\ toSend' = Nothing
  /\ Aborted(wire)
  /\ UNCHANGED <<store, request, reader>>

-----------------------------------------------------------------------------
(* The client.                                                             *)

\* One line is read; resume_cursor moves the cursor on the ack and on each record
\* with a seq.
Read ==
  /\ wire # <<>>
  /\ LET line == Head(wire) IN
     /\ wire' = IF line.what = "refusal" THEN <<>> ELSE Tail(wire)
     /\ CASE line.what = "ack" ->
               client' = [client EXCEPT !.state = "reading", !.cursor = line.n]
          [] line.what = "marker" -> client' = [client EXCEPT !.told = line.n]
          [] line.what = "record" /\ IsInput(line.n) ->
               client' = [client EXCEPT !.cursor = log[line.n].index]
          [] OTHER -> UNCHANGED client
     /\ got' = IF line.what = "record" THEN got \cup {line.n} ELSE got
  /\ UNCHANGED <<store, server, start, connects>>

\* The stream's end is read; a client that read no ack starts afresh.
ReadEnd ==
  /\ ~Open /\ wire = <<>>
  /\ client.state \in {"waiting", "reading"}
  /\ client' = [client EXCEPT !.state = IF client.cursor = NoSince THEN "new" ELSE "lost"]
  /\ UNCHANGED <<store, server, wire, got, start, connects>>

-----------------------------------------------------------------------------

Handler == ReadBackfill \/ SendBackfill \/ GoLive \/ SendLive
Client == Read \/ ReadEnd

Next ==
  \/ Admission \/ Dispatch \/ TakeSnapshot \/ Prune
  \/ Subscribe \/ Handler \/ BackfillRefused \/ StreamEnds
  \/ Client

Spec == Init /\ [][Next]_vars

\* The handler's task runs and the client reads; nothing makes records come.
FairSpec == Spec /\ WF_vars(Handler) /\ WF_vars(Client)

-----------------------------------------------------------------------------
(* Properties.                                                             *)

Reads(s) == wire # <<>> /\ Head(wire) = Line("record", s) /\ wire' = Tail(wire)

\* Across the seam, a prune and any number of connections, a client that resumes
\* with its cursor reads each input once, in order, and misses none but those a
\* gap marker told it of (_subscribe, read_backfill, resume_cursor).
InputsExactlyOnce ==
  [][\A s \in DOMAIN log : Reads(s) /\ IsInput(s) =>
       /\ log[s].index > client.cursor
       /\ log[s].index <= Greater(client.cursor + 1, client.told)]_vars

\* What the client has not read of its stream, from its first cursor on.
Missed(s) ==
  {t \in (start.seq + 1)..(s - 1) :
     /\ OnWire(t) /\ t \notin got
     /\ \A i \in t..LastSeq : ~(IsInput(i) /\ log[i].index <= start.index)}

\* No record of any kind that the store still holds is passed over: what was
\* appended during the backfill, what a dropped backlog held, what follows the
\* cursor's own input (read_backfill, _drop_backlog).
NothingRetainedIsLost ==
  [][\A s \in DOMAIN log : Reads(s) => \A t \in Missed(s) : t < first]_vars

\* A reading client gets every record of its stream, unless the stream ends.
RecordsArrive ==
  \A s \in 1..MaxLog :
    (/\ s \in DOMAIN log /\ Open
     /\ s > request.seam /\ OnWire(s)
     /\ IsInput(s) => log[s].index > request.since)
      ~> (s \in got \/ ~Open)

=============================================================================
