---------------------------- MODULE Update_proofs ----------------------------
(***************************************************************************)
(* The proofs that an update applies only when every stop it asked for is  *)
(* finished, and that nothing it changes goes on under the old             *)
(* definitions: for every estate, any number of jobs, runs and inputs, and *)
(* any number of crashes and restarts.                                     *)
(***************************************************************************)
EXTENDS Update, FiniteSetTheorems, SequenceTheorems, TLAPS

Plans == {"none", "feed", "hold", "rerun", "nothing", "done"}
Tiers == {"live", "stopping", "busy", "ended", "cancelled", "unknown"}

Entry == [is : {"feed"}, of : Attempts, found : BOOLEAN]
           \cup [is : {"exit"}, of : Jobs, found : {FALSE}]
           \cup [is : {"look"}, of : {None}, found : {FALSE}]

CallSet == ({"perform"} \X Attempts) \cup ({"release", "stop"} \X Jobs)
             \cup {<<"settle">>, <<"box ends">>, <<"apply">>, <<"advance">>, <<"box starts">>, <<"answer">>}
             \cup ({"commit"} \X Attempts \X Plans) \cup ({"resume"} \X Attempts \X BOOLEAN)

TypeOK ==
  /\ estate \in Estates
  /\ update \in {"none", "admitted", "applied"}
  /\ DOMAIN stops \subseteq Jobs
  /\ \A j \in DOMAIN stops : stops[j] # None => stops[j] \in Attempts /\ JobOf(stops[j]) = j
  /\ row \in [Jobs -> [run : 0..MaxRuns, live : BOOLEAN]]
  /\ life \in [Attempts -> {"never", "open", "closing", "closed"}]
  /\ plan \in [Attempts -> Plans]
  /\ pending \in SUBSET Jobs
  /\ phase \in {"down", "catching up", "recovering", "running", "draining"}
  /\ tier \in [Attempts -> Tiers]
  /\ open \in SUBSET Jobs
  /\ kept \in [Attempts -> {"no", "natural", "stopped"}]
  /\ meanwhile \in SUBSET Jobs
  /\ queue \in Seq(Entry)
  /\ catchUp \in SUBSET Attempts
  /\ agenda \in Seq(CallSet)

-----------------------------------------------------------------------------
(* The strengthening.                                                       *)

\* What the open table, the plan and the memory hold of one attempt.
AttemptOK(a) ==
  /\ life[a] \in {"never", "open"} <=> plan[a] = "none"
  /\ life[a] = "never" => tier[a] = "unknown"
  /\ tier[a] \in {"live", "stopping", "cancelled"} => life[a] = "open"
  /\ life[a] = "closing" \/ tier[a] = "busy" => JobOf(a) \notin estate.watches
  /\ tier[a] = "cancelled" => JobOf(a) \in estate.watches
  /\ tier[a] \in {"busy", "ended"} /\ life[a] = "open" => kept[a] # "no"
  /\ kept[a] # "no" => life[a] = "open" /\ tier[a] \in {"busy", "ended"}
  /\ Up /\ tier[a] = "unknown" /\ JobOf(a) \notin estate.watches => life[a] \in {"never", "closed"}
  /\ a \in catchUp => life[a] \in {"open", "closing"} /\ kept[a] = "no"

\* An attempt belongs to a run that started, a replacement to one whose plan is carried out.
RunOK(a) ==
  /\ life[a] # "never" => a[2] <= row[JobOf(a)].run
  /\ a[3] = 2 /\ life[a] # "never" => plan[<<a[1], a[2], 1>>] = "done"
  /\ plan[a] = "rerun" => a[3] = 1

PendingOK == \A j \in pending : row[j].run >= 1 /\ life[FirstRun(j)] = "never"

\* The stop of an attempt is finished, and what it ended with is known.
Finished(a) ==
  /\ tier[a] \notin {"live", "stopping", "busy"}
  /\ kept[a] # "no" \/ plan[a] # "none"

StopsOK == Stopping =>
  /\ open \subseteq DOMAIN stops
  /\ \A j \in DOMAIN stops \ estate.watches : Interrupted(j) =>
       /\ life[stops[j]] # "never"
       /\ Up /\ j \notin open => Finished(stops[j])

Ended(j) == j \in DOMAIN stops /\ Interrupted(j) /\ Finished(stops[j])
MeanwhileOK == \A j \in meanwhile : update # "none" /\ (Stopping => Ended(j))

\* An exit is of a stop that is finished.
Fine(q) ==
  /\ q.is = "feed" => plan[q.of] \in {"feed", "hold", "done"}
  /\ q.is = "exit" => update # "none" /\ (Stopping => Ended(q.of))
  /\ q.is # "feed" => phase # "catching up"
  /\ q.found => phase \in {"catching up", "recovering"}
FineOK == \A i \in DOMAIN queue : Fine(queue[i])

\* What a restart found comes before any exit and before the first look.
FoundFirst == \A i, k \in DOMAIN queue : queue[i].found /\ queue[k].is # "feed" => i < k

QueueOK == FineOK /\ FoundFirst

NothingFound == phase # "catching up" /\ \A i \in DOMAIN queue : ~queue[i].found

\* What a call that is still to come relies on.
Due(c) ==
  /\ c[1] = "stop" => c[2] \in DOMAIN stops
  /\ c[1] \in {"settle", "box ends", "apply"} => NothingFound
  /\ c[1] \in {"box ends", "apply"} => Stopping /\ open = {}
  /\ c[1] = "commit" => /\ kept[c[2]] # "no" /\ ~Stopping
                        /\ c[3] \in {"feed", "hold", "rerun", "nothing"}
                        /\ c[3] = "rerun" => c[2][3] = 1
  /\ c[1] = "resume" => tier[c[2]] = "cancelled" /\ phase # "catching up"
DueOK == \A i \in DOMAIN agenda : Due(agenda[i])

\* The last call of its step.
LastOK == \A i \in DOMAIN agenda : agenda[i][1] \in {"settle", "apply"} => i = Len(agenda)

\* Each outcome is committed once, each watch resumed once.
OnceOK == \A i, k \in DOMAIN agenda :
  agenda[i][1] \in {"commit", "resume"} /\ agenda[k][1] = agenda[i][1] /\ agenda[k][2] = agenda[i][2]
    => i = k

AgendaOK == DueOK /\ LastOK /\ OnceOK

CatchOK == catchUp # {} => phase = "catching up"

DownOK == phase = "down" =>
  /\ queue = <<>> /\ agenda = <<>> /\ open = {} /\ meanwhile = {} /\ catchUp = {}
  /\ \A a \in Attempts : tier[a] = "unknown" /\ kept[a] = "no"

UpdateInv ==
  /\ TypeOK
  /\ \A a \in Attempts : AttemptOK(a) /\ RunOK(a)
  /\ PendingOK /\ StopsOK /\ MeanwhileOK /\ QueueOK /\ AgendaOK /\ CatchOK /\ DownOK
-----------------------------------------------------------------------------
(* Attempts, lists.                                                         *)

LEMMA AttemptParts ==
  ASSUME NEW a \in Attempts
  PROVE  /\ a[1] \in Jobs /\ a[2] \in 1..MaxRuns /\ a[2] \in Nat /\ a[3] \in 1..2
         /\ JobOf(a) = a[1] /\ JobOf(a) \in Jobs
         /\ a = <<a[1], a[2], a[3]>> /\ a # None
BY DEF Attempts, JobOf, None

LEMMA AttemptMade ==
  ASSUME NEW j \in Jobs, NEW n \in 1..MaxRuns, NEW k \in 1..2
  PROVE  /\ <<j, n, k>> \in Attempts /\ JobOf(<<j, n, k>>) = j
         /\ <<j, n, k>>[1] = j /\ <<j, n, k>>[2] = n /\ <<j, n, k>>[3] = k
BY DEF Attempts, JobOf

LEMMA FirstMade ==
  ASSUME NEW j \in Jobs, NEW n \in 1..MaxRuns
  PROVE  /\ <<j, n, 1>> \in Attempts /\ JobOf(<<j, n, 1>>) = j
         /\ <<j, n, 1>>[1] = j /\ <<j, n, 1>>[2] = n /\ <<j, n, 1>>[3] = 1
<1>1. 1 \in 1..2
  OBVIOUS
<1> QED BY <1>1, AttemptMade

LEMMA AttemptsFinite == IsFiniteSet(Attempts) /\ IsFiniteSet(Jobs)
<1>1. MaxRuns \in Nat /\ IsFiniteSet(Jobs)
  BY UpdateAssumption
<1>2. IsFiniteSet(1..MaxRuns)
  <2>1. MaxRuns \in Int /\ 1 \in Int
    BY <1>1
  <2> QED BY <2>1, FS_Interval
<1>3. IsFiniteSet(1..2)
  <2>1. PICK n \in Nat : n = 2
    OBVIOUS
  <2>2. IsFiniteSet(1..n)
    BY FS_Interval
  <2> QED BY <2>1, <2>2
<1>4. IsFiniteSet(Jobs \X (1..MaxRuns))
  BY <1>1, <1>2, FS_Product
<1> DEFINE Pairs == (Jobs \X (1..MaxRuns)) \X (1..2)
           f == [q \in Pairs |-> <<q[1][1], q[1][2], q[2]>>]
<1>5. IsFiniteSet(Pairs)
  BY <1>3, <1>4, FS_Product
<1>6. f \in Surjection(Pairs, Attempts)
  <2>1. \A q \in Pairs : f[q] \in Attempts
    BY DEF Attempts
  <2>2. f \in [Pairs -> Attempts]
    BY <2>1
  <2>3. ASSUME NEW a \in Attempts  PROVE \E q \in Pairs : f[q] = a
    <3>1. PICK q : q = <<<<a[1], a[2]>>, a[3]>>
      OBVIOUS
    <3>2. q \in Pairs /\ q[1][1] = a[1] /\ q[1][2] = a[2] /\ q[2] = a[3]
      BY <3>1, AttemptParts
    <3>3. f[q] = <<a[1], a[2], a[3]>>
      BY <3>2
    <3> QED BY <3>2, <3>3, AttemptParts
  <2> QED BY <2>2, <2>3 DEF Surjection
<1> HIDE DEF Pairs, f
<1> QED BY <1>1, <1>5, <1>6, FS_Surjection

LEMMA Listed ==
  ASSUME NEW S, IsFiniteSet(S)
  PROVE  /\ Cardinality(S) \in Nat
         /\ SetToSeq(S) \in [1..Cardinality(S) -> S]
         /\ \A i, k \in 1..Cardinality(S) : SetToSeq(S)[i] = SetToSeq(S)[k] => i = k
<1>1. ExistsBijection(1..Cardinality(S), S) /\ Cardinality(S) \in Nat
  BY FS_CardinalityType
<1> DEFINE n == Cardinality(S)
<1>2. PICK g \in [1..n -> S] : IsInjective(g)
  BY <1>1 DEF ExistsBijection, Bijection, Injection
<1>3. SetToSeq(S) \in [1..n -> S] /\ IsInjective(SetToSeq(S))
  BY <1>2 DEF SetToSeq
<1> QED BY <1>1, <1>3 DEF IsInjective

-----------------------------------------------------------------------------
(* The agenda.                                                              *)

LEMMA ThenFacts ==
  ASSUME TypeOK, NEW calls \in Seq(CallSet), Then(calls)
  PROVE  /\ agenda' \in Seq(CallSet)
         /\ Len(calls) \in Nat /\ Len(agenda') \in Nat /\ DOMAIN agenda' = 1..Len(agenda')
         /\ agenda = <<>> => agenda' = calls
         /\ agenda # <<>> => Len(agenda') = Len(calls) + Len(agenda) - 1
         /\ \A i \in DOMAIN agenda' :
              \/ i \in DOMAIN calls /\ i <= Len(calls) /\ agenda'[i] = calls[i]
              \/ /\ i > Len(calls) /\ agenda # <<>>
                 /\ i - Len(calls) + 1 \in DOMAIN agenda /\ i - Len(calls) + 1 # 1
                 /\ agenda'[i] = agenda[i - Len(calls) + 1]
<1>1. agenda \in Seq(CallSet)
  BY DEF TypeOK
<1>2. CASE agenda = <<>>
  <2>1. agenda' = calls
    BY <1>2 DEF Then
  <2> QED BY <1>2, <2>1
<1>3. CASE agenda # <<>>
  <2>0. Tail(agenda) \in Seq(CallSet)
    BY <1>1, <1>3
  <2>1. PICK tail \in Seq(CallSet) : tail = Tail(agenda)
    BY <2>0
  <2>2. /\ Len(agenda) \in Nat /\ Len(agenda) >= 1 /\ Len(tail) = Len(agenda) - 1
        /\ DOMAIN agenda = 1..Len(agenda)
        /\ \A i \in 1..Len(tail) : tail[i] = agenda[i + 1]
    BY <1>1, <1>3, <2>1
  <2>3. agenda' = calls \o tail
    BY <1>3, <2>1 DEF Then
  <2>4. /\ agenda' \in Seq(CallSet) /\ Len(agenda') = Len(calls) + Len(tail)
        /\ DOMAIN agenda' = 1..Len(agenda') /\ Len(calls) \in Nat /\ DOMAIN calls = 1..Len(calls)
        /\ \A i \in DOMAIN agenda' :
             agenda'[i] = IF i <= Len(calls) THEN calls[i] ELSE tail[i - Len(calls)]
    BY <2>3
  <2>5. ASSUME NEW i \in DOMAIN agenda', i > Len(calls)
        PROVE  /\ i - Len(calls) + 1 \in DOMAIN agenda /\ i - Len(calls) + 1 # 1
               /\ agenda'[i] = agenda[i - Len(calls) + 1]
    BY <2>2, <2>4, <2>5
  <2> QED BY <1>3, <2>2, <2>4, <2>5
<1> QED BY <1>2, <1>3

\* A call makes others, which come before those already due.
LEMMA AgendaGoesOn ==
  ASSUME TypeOK, AgendaOK, NEW calls \in Seq(CallSet), Then(calls),
         \A i \in DOMAIN calls : calls[i][1] \in {"perform", "release"},
         \A i \in DOMAIN agenda \ {1} : \A c : c = agenda[i] => Due(c)'
  PROVE  agenda' \in Seq(CallSet) /\ AgendaOK'
<1>1. /\ agenda' \in Seq(CallSet)
      /\ Len(calls) \in Nat /\ Len(agenda') \in Nat /\ DOMAIN agenda' = 1..Len(agenda')
      /\ agenda # <<>> => Len(agenda') = Len(calls) + Len(agenda) - 1
      /\ \A i \in DOMAIN agenda' :
           \/ i \in DOMAIN calls /\ i <= Len(calls) /\ agenda'[i] = calls[i]
           \/ /\ i > Len(calls) /\ agenda # <<>>
              /\ i - Len(calls) + 1 \in DOMAIN agenda /\ i - Len(calls) + 1 # 1
              /\ agenda'[i] = agenda[i - Len(calls) + 1]
  BY ThenFacts
<1>2. Len(agenda) \in Nat
  <2>1. agenda \in Seq(CallSet)
    BY DEF TypeOK
  <2> QED BY <2>1
<1>3. DueOK'
  <2> SUFFICES ASSUME NEW i \in DOMAIN agenda'  PROVE Due(agenda[i])'
    BY DEF DueOK
  <2>1. CASE i \in DOMAIN calls /\ agenda'[i] = calls[i]
    BY <2>1 DEF Due
  <2>2. CASE /\ i - Len(calls) + 1 \in DOMAIN agenda /\ i - Len(calls) + 1 # 1
             /\ agenda'[i] = agenda[i - Len(calls) + 1]
    <3>1. PICK c : c = agenda[i - Len(calls) + 1]
      OBVIOUS
    <3>2. Due(c)'
      BY <2>2, <3>1
    <3> QED BY <2>2, <3>1, <3>2
  <2> QED BY <1>1, <2>1, <2>2
<1>4. LastOK'
  <2> SUFFICES ASSUME NEW i \in DOMAIN agenda', agenda'[i][1] \in {"settle", "apply"}
               PROVE  i = Len(agenda')
    BY DEF LastOK
  <2>1. /\ agenda # <<>> /\ i - Len(calls) + 1 \in DOMAIN agenda /\ i \in Nat
        /\ agenda'[i] = agenda[i - Len(calls) + 1]
    BY <1>1
  <2>2. i - Len(calls) + 1 = Len(agenda)
    BY <2>1 DEF AgendaOK, LastOK
  <2> QED BY <1>1, <1>2, <2>1, <2>2
<1>5. OnceOK'
  <2> SUFFICES ASSUME NEW i \in DOMAIN agenda', NEW k \in DOMAIN agenda',
                      agenda'[i][1] \in {"commit", "resume"}, agenda'[k][1] = agenda'[i][1],
                      agenda'[k][2] = agenda'[i][2]
               PROVE  i = k
    BY DEF OnceOK
  <2>1. /\ i - Len(calls) + 1 \in DOMAIN agenda /\ agenda'[i] = agenda[i - Len(calls) + 1]
        /\ k - Len(calls) + 1 \in DOMAIN agenda /\ agenda'[k] = agenda[k - Len(calls) + 1]
        /\ i \in Nat /\ k \in Nat
    <3>1. i \in Nat /\ k \in Nat
      BY <1>1
    <3>2. ~(i \in DOMAIN calls /\ agenda'[i] = calls[i])
      OBVIOUS
    <3>3. ~(k \in DOMAIN calls /\ agenda'[k] = calls[k])
      OBVIOUS
    <3> QED BY <1>1, <3>1, <3>2, <3>3
  <2>2. i - Len(calls) + 1 = k - Len(calls) + 1
    BY <2>1 DEF AgendaOK, OnceOK
  <2> QED BY <1>1, <2>1, <2>2
<1> QED BY <1>1, <1>3, <1>4, <1>5 DEF AgendaOK

LEMMA NothingMore ==
  /\ <<>> \in Seq(CallSet) /\ \A i \in DOMAIN <<>> : <<>>[i][1] \in {"perform", "release"}
OBVIOUS

LEMMA OneMore ==
  ASSUME NEW c \in CallSet, c[1] \in {"perform", "release"}
  PROVE  <<c>> \in Seq(CallSet) /\ \A i \in DOMAIN <<c>> : <<c>>[i][1] \in {"perform", "release"}
OBVIOUS

LEMMA HeadFacts ==
  ASSUME TypeOK, AgendaOK, agenda # <<>>, NEW c, c = Head(agenda)
  PROVE  c \in CallSet /\ Due(c) /\ c = agenda[1] /\ 1 \in DOMAIN agenda
<1>1. agenda \in Seq(CallSet)
  BY DEF TypeOK
<1>2. c = agenda[1] /\ 1 \in DOMAIN agenda /\ agenda[1] \in CallSet
  BY <1>1
<1> QED BY <1>2 DEF AgendaOK, DueOK

-----------------------------------------------------------------------------
(* What no step undoes.                                                     *)

LEMMA SameAttempt ==
  ASSUME NEW a \in Attempts, AttemptOK(a), UNCHANGED estate,
         life'[a] = life[a], plan'[a] = plan[a], tier'[a] = tier[a], kept'[a] = kept[a],
         Up' => Up, a \in catchUp' => a \in catchUp
  PROVE  AttemptOK(a)'
BY DEF AttemptOK

\* A plan carried out, an attempt begun and a stop finished stay so.
Onward ==
  /\ UNCHANGED <<estate, stops>> /\ (update # "none" => update' # "none") /\ (Stopping' => Stopping)
  /\ \A a \in Attempts :
       /\ plan[a] = "done" => plan'[a] = "done"
       /\ plan[a] \in {"feed", "hold"} => plan'[a] \in {"feed", "hold", "done"}
       /\ life[a] # "never" => life'[a] # "never"
       /\ Stopping' /\ Finished(a) => Finished(a)'

PhaseKept ==
  /\ phase' = "catching up" => phase = "catching up"
  /\ phase \in {"catching up", "recovering"} => phase' \in {"catching up", "recovering"}

LEMMA EndedStays ==
  ASSUME TypeOK, Onward, Stopping', NEW j, Ended(j)
  PROVE  Ended(j)'
<1>1. j \in DOMAIN stops /\ stops[j] # None /\ stops[j] \in Attempts /\ Finished(stops[j])
  BY DEF TypeOK, Ended, Interrupted
<1>2. stops' = stops
  BY DEF Onward
<1>3. PICK a \in Attempts : a = stops[j]
  BY <1>1
<1>4. Finished(a)'
  BY <1>1, <1>3 DEF Onward
<1> QED BY <1>1, <1>2, <1>3, <1>4 DEF Ended, Interrupted

LEMMA RunsOnward ==
  ASSUME TypeOK, \A a \in Attempts : RunOK(a), Onward,
         \A j \in Jobs : row'[j].run \in Nat /\ row'[j].run >= row[j].run,
         \A a \in Attempts : life[a] = "never" /\ life'[a] # "never" =>
           a[2] <= row'[JobOf(a)].run /\ (a[3] = 2 => plan'[<<a[1], a[2], 1>>] = "done"),
         \A a \in Attempts : plan'[a] = "rerun" => plan[a] = "rerun" \/ a[3] = 1
  PROVE  \A a \in Attempts : RunOK(a)'
<1> SUFFICES ASSUME NEW a \in Attempts  PROVE RunOK(a)'
  OBVIOUS
<1>1. a[1] \in Jobs /\ a[2] \in Nat /\ a[2] \in 1..MaxRuns /\ JobOf(a) = a[1]
  BY AttemptParts
<1>2. <<a[1], a[2], 1>> \in Attempts
  <2>1. 1 \in 1..2
    OBVIOUS
  <2> QED BY <1>1, <2>1, AttemptMade
<1>3. row[a[1]].run \in Nat
  <2>1. row[a[1]].run \in 0..MaxRuns
    BY <1>1 DEF TypeOK
  <2> QED BY <2>1
<1>4. life'[a] # "never" => a[2] <= row'[JobOf(a)].run
  <2>1. CASE life[a] = "never"
    BY <2>1
  <2>2. CASE life[a] # "never"
    <3>1. a[2] <= row[a[1]].run
      BY <1>1, <2>2 DEF RunOK
    <3>2. row'[a[1]].run \in Nat /\ row'[a[1]].run >= row[a[1]].run
      BY <1>1
    <3> QED BY <1>1, <1>3, <3>1, <3>2
  <2> QED BY <2>1, <2>2
<1>5. a[3] = 2 /\ life'[a] # "never" => plan'[<<a[1], a[2], 1>>] = "done"
  BY <1>2 DEF RunOK, Onward
<1>6. plan'[a] = "rerun" => a[3] = 1
  BY DEF RunOK
<1> QED BY <1>4, <1>5, <1>6 DEF RunOK, JobOf

LEMMA StopsOnward ==
  ASSUME TypeOK, StopsOK, Onward, Up' => Up, open' \subseteq open,
         Stopping' => \A j \in open \ open' :
           j \in DOMAIN stops \ estate.watches /\ Interrupted(j) => Finished(stops[j])'
  PROVE  StopsOK'
<1> SUFFICES ASSUME Stopping', NEW j \in DOMAIN stops' \ estate'.watches, Interrupted(j)'
             PROVE  life'[stops'[j]] # "never" /\ (Up' /\ j \notin open' => Finished(stops[j])')
  <2>1. Stopping' => open' \subseteq DOMAIN stops'
    BY DEF StopsOK, Onward
  <2> QED BY <2>1 DEF StopsOK
<1>1. stops' = stops /\ estate' = estate /\ Stopping
  BY DEF Onward
<1>2. j \in DOMAIN stops \ estate.watches /\ Interrupted(j) /\ stops[j] # None /\ stops[j] \in Attempts
  BY <1>1 DEF Interrupted, TypeOK
<1>3. PICK a \in Attempts : a = stops[j]
  BY <1>2
<1>4. life[a] # "never" /\ (Up /\ j \notin open => Finished(a))
  BY <1>1, <1>2, <1>3 DEF StopsOK
<1>5. life'[a] # "never" /\ (Finished(a) => Finished(a)')
  BY <1>4 DEF Onward
<1>6. ASSUME j \in open, j \notin open'  PROVE Finished(a)'
  <2>1. Finished(stops[j])'
    BY <1>1, <1>2, <1>6
  <2> QED BY <1>1, <1>3, <2>1
<1>7. Up' /\ j \notin open' => Finished(a)'
  BY <1>4, <1>5, <1>6
<1>8. Up' /\ j \notin open' => Finished(stops[j])'
  BY <1>1, <1>3, <1>7
<1>9. life'[stops'[j]] # "never"
  BY <1>1, <1>3, <1>5
<1> QED BY <1>8, <1>9

LEMMA MeanwhileOnward ==
  ASSUME TypeOK, MeanwhileOK, Onward,
         \A j \in meanwhile' \ meanwhile : update' # "none" /\ (Stopping' => Ended(j)')
  PROVE  MeanwhileOK'
BY EndedStays DEF MeanwhileOK, Onward

LEMMA FineStays ==
  ASSUME TypeOK, Onward, PhaseKept, NEW q \in Entry, Fine(q)
  PROVE  Fine(q)'
<1>1. q.is = "feed" => q.of \in Attempts
  BY DEF Entry
<1>2. q.is = "feed" => plan'[q.of] \in {"feed", "hold", "done"}
  BY <1>1 DEF Fine, Onward
<1>3. q.is = "exit" => update' # "none" /\ (Stopping' => Ended(q.of)')
  BY EndedStays DEF Fine, Onward
<1> QED BY <1>2, <1>3 DEF Fine, PhaseKept

-----------------------------------------------------------------------------
(* The queue.                                                               *)

LEMMA QueueItems ==
  ASSUME TypeOK
  PROVE  /\ queue \in Seq(Entry) /\ DOMAIN queue = 1..Len(queue) /\ Len(queue) \in Nat
         /\ \A i \in DOMAIN queue : queue[i] \in Entry
<1>1. queue \in Seq(Entry)
  BY DEF TypeOK
<1> QED BY <1>1

LEMMA Appended ==
  ASSUME NEW T, NEW q \in Seq(T), NEW e \in T, NEW r, r = Append(q, e)
  PROVE  /\ r \in Seq(T) /\ DOMAIN r = 1..(Len(q) + 1)
         /\ \A i \in DOMAIN r : \/ i \in DOMAIN q /\ i < Len(q) + 1 /\ r[i] = q[i]
                                \/ i = Len(q) + 1 /\ r[i] = e
OBVIOUS

\* r is the sequence q over T, with e after the first n.
IsInserted(T, q, e, n, r) ==
  /\ r \in Seq(T) /\ DOMAIN r = 1..(Len(q) + 1)
  /\ \A i \in DOMAIN r : \/ i <= n /\ i \in DOMAIN q /\ r[i] = q[i]
                         \/ i = n + 1 /\ r[i] = e
                         \/ i > n + 1 /\ i - 1 \in DOMAIN q /\ r[i] = q[i - 1]

LEMMA Inserted ==
  ASSUME NEW T, NEW q \in Seq(T), NEW e \in T, NEW n \in 0..Len(q), NEW r, r = InsertAt(q, n + 1, e)
  PROVE  IsInserted(T, q, e, n, r)
<1>1. Len(q) \in Nat /\ DOMAIN q = 1..Len(q) /\ n \in Nat /\ n <= Len(q) /\ (n + 1) - 1 = n
  OBVIOUS
<1>2. PICK s : s = SubSeq(q, 1, n)
  OBVIOUS
<1>3. s \in Seq(T) /\ Len(s) = n /\ \A i \in 1..n : s[i] = q[i]
  BY <1>1, <1>2
<1>4. PICK t : t = SubSeq(q, n + 1, Len(q))
  OBVIOUS
<1>5. t \in Seq(T) /\ Len(t) = Len(q) - n /\ \A i \in 1..(Len(q) - n) : t[i] = q[i + n]
  <2>1. \A i \in (n + 1)..Len(q) : q[i] \in T
    BY <1>1
  <2>a. n + 1 \in Int /\ Len(q) \in Int
    BY <1>1
  <2>b. PICK m \in Int : m = n + 1
    BY <2>a
  <2>c. PICK k \in Int : k = Len(q)
    BY <2>a
  <2>d. Len(SubSeq(q, m, k)) = IF m <= k THEN k - m + 1 ELSE 0
    <3>1. \A i \in m..k : q[i] \in T
      BY <2>1, <2>b, <2>c
    <3> QED BY ONLY <3>1, SubSeqProperties
  <2>2. Len(t) = IF m <= k THEN k - m + 1 ELSE 0
    <3>1. t = SubSeq(q, m, k)
      BY ONLY <1>4, <2>b, <2>c, Zenon
    <3> QED BY ONLY <2>d, <3>1, Zenon
  <2>3. Len(t) = Len(q) - n
    <3>1. n <= k /\ n \in Nat
      BY <1>1, <2>c
    <3>2. (IF m <= k THEN k - m + 1 ELSE 0) = k - n
      BY ONLY <2>b, <3>1
    <3> QED BY <2>2, <2>c, <3>2
  <2>4. t \in Seq(T)
    BY <1>1, <1>4, <2>1
  <2>5. \A i \in 1..(Len(q) - n) : t[i] = q[(n + 1) + i - 1]
    BY <1>1, <1>4
  <2>6. \A i \in 1..(Len(q) - n) : (n + 1) + i - 1 = i + n
    BY <1>1
  <2> QED BY <2>3, <2>4, <2>5, <2>6
<1>6. r = (s \o <<e>>) \o t
  <2>1. r = SubSeq(q, 1, (n + 1) - 1) \o <<e>> \o SubSeq(q, n + 1, Len(q))
    BY DEF InsertAt
  <2>2. r = SubSeq(q, 1, n) \o <<e>> \o SubSeq(q, n + 1, Len(q))
    BY <1>1, <2>1
  <2> QED BY <1>2, <1>4, <2>2
<1>7. PICK u : u = s \o <<e>>
  OBVIOUS
<1>8. u \in Seq(T) /\ Len(u) = n + 1 /\ (\A i \in 1..n : u[i] = q[i]) /\ u[n + 1] = e
  BY <1>1, <1>3, <1>7
<1>9. r = u \o t
  BY <1>6, <1>7
<1>10. r \in Seq(T) /\ Len(r) = Len(q) + 1 /\ DOMAIN r = 1..(Len(q) + 1)
  <2>1. r \in Seq(T) /\ Len(r) = Len(u) + Len(t)
    BY <1>5, <1>8, <1>9, ConcatProperties, ZenonT(40)
  <2>2. Len(r) = Len(q) + 1
    BY <1>1, <1>5, <1>8, <2>1
  <2> QED BY <2>1, <2>2
<1>11. \A i \in 1..(Len(u) + Len(t)) : r[i] = IF i <= Len(u) THEN u[i] ELSE t[i - Len(u)]
  <2>1. u \in Seq(T) /\ t \in Seq(T)
    BY <1>5, <1>8
  <2> QED BY ONLY <2>1, <1>9, ConcatProperties
<1>12. ASSUME NEW i \in DOMAIN r
       PROVE  \/ i <= n /\ i \in DOMAIN q /\ r[i] = q[i]
              \/ i = n + 1 /\ r[i] = e
              \/ i > n + 1 /\ i - 1 \in DOMAIN q /\ r[i] = q[i - 1]
  <2>1. i \in Nat /\ i >= 1 /\ i <= Len(q) + 1 /\ i \in 1..(Len(u) + Len(t))
    BY <1>1, <1>5, <1>8, <1>10
  <2>2. CASE i <= n + 1
    <3>1. r[i] = u[i]
      BY <1>8, <1>11, <2>1, <2>2
    <3> QED BY <1>1, <1>8, <2>1, <2>2, <3>1
  <2>3. CASE i > n + 1
    <3>1. r[i] = t[i - (n + 1)]
      BY <1>1, <1>8, <1>11, <2>1, <2>3
    <3>2. i - (n + 1) \in 1..(Len(q) - n) /\ (i - (n + 1)) + n = i - 1
      BY <1>1, <2>1, <2>3
    <3>3. t[i - (n + 1)] = q[(i - (n + 1)) + n]
      BY <1>5, <3>2
    <3>4. r[i] = q[i - 1]
      BY <3>1, <3>2, <3>3
    <3>5. i - 1 \in DOMAIN q
      BY <1>1, <2>1, <2>3
    <3> QED BY <2>3, <3>4, <3>5
  <2> QED BY <1>1, <2>1, <2>2, <2>3
<1> QED BY <1>10, <1>12 DEF IsInserted

LEMMA QueueStays ==
  ASSUME TypeOK, QueueOK, Onward, PhaseKept, UNCHANGED queue
  PROVE  QueueOK'
<1>1. FineOK'
  <2> SUFFICES ASSUME NEW i \in DOMAIN queue  PROVE \A q : q = queue[i] => Fine(q)'
    BY DEF FineOK
  <2>1. queue[i] \in Entry /\ Fine(queue[i])
    BY QueueItems DEF QueueOK, FineOK
  <2> QED BY <2>1, FineStays
<1>2. FoundFirst'
  BY DEF QueueOK, FoundFirst
<1> QED BY <1>1, <1>2 DEF QueueOK

LEMMA QueueTaken ==
  ASSUME TypeOK, QueueOK, Onward, PhaseKept, queue # <<>>, queue' = Tail(queue)
  PROVE  /\ queue' \in Seq(Entry) /\ QueueOK'
         /\ \A i \in DOMAIN queue' : i + 1 \in DOMAIN queue /\ queue'[i] = queue[i + 1]
<1>1. queue \in Seq(Entry) /\ Len(queue) \in Nat /\ DOMAIN queue = 1..Len(queue)
  BY QueueItems
<1>2. /\ queue' \in Seq(Entry)
      /\ \A i \in DOMAIN queue' : i \in Nat /\ i + 1 \in DOMAIN queue /\ queue'[i] = queue[i + 1]
  BY <1>1
<1>3. FineOK'
  <2> SUFFICES ASSUME NEW i \in DOMAIN queue'  PROVE \A q : q = queue[i + 1] => Fine(q)'
    BY <1>2 DEF FineOK
  <2>1. queue[i + 1] \in Entry /\ Fine(queue[i + 1])
    BY <1>2, QueueItems DEF QueueOK, FineOK
  <2> QED BY <2>1, FineStays
<1>4. FoundFirst'
  <2> SUFFICES ASSUME NEW i \in DOMAIN queue', NEW k \in DOMAIN queue',
                      queue'[i].found, queue'[k].is # "feed"
               PROVE  i < k
    BY DEF FoundFirst
  <2>1. i + 1 < k + 1
    BY <1>2 DEF QueueOK, FoundFirst
  <2> QED BY <1>2, <2>1
<1> QED BY <1>2, <1>3, <1>4 DEF QueueOK

\* An exit is queued behind everything.
LEMMA QueueExit ==
  ASSUME TypeOK, QueueOK, Onward, PhaseKept, NEW j \in Jobs, phase' # "catching up",
         update' # "none", Stopping' => Ended(j)',
         queue' = Append(queue, [is |-> "exit", of |-> j, found |-> FALSE])
  PROVE  queue' \in Seq(Entry) /\ QueueOK'
<1>1. queue \in Seq(Entry) /\ Len(queue) \in Nat /\ DOMAIN queue = 1..Len(queue)
  BY QueueItems
<1>2. PICK e : e = [is |-> "exit", of |-> j, found |-> FALSE]
  OBVIOUS
<1>3. e \in Entry /\ e.is = "exit" /\ e.of = j /\ ~e.found
  BY <1>2 DEF Entry
<1>4. queue' = Append(queue, e)
  BY <1>2
<1>5. /\ queue' \in Seq(Entry) /\ DOMAIN queue' = 1..(Len(queue) + 1)
      /\ \A i \in DOMAIN queue' :
           \/ i \in DOMAIN queue /\ i < Len(queue) + 1 /\ queue'[i] = queue[i]
           \/ i = Len(queue) + 1 /\ queue'[i] = e
  <2>1. e \in Entry
    BY <1>3
  <2>2. PICK r : r = queue'
    OBVIOUS
  <2>3. r = Append(queue, e)
    BY <1>4, <2>2
  <2>4. /\ r \in Seq(Entry) /\ DOMAIN r = 1..(Len(queue) + 1)
        /\ \A i \in DOMAIN r : \/ i \in DOMAIN queue /\ i < Len(queue) + 1 /\ r[i] = queue[i]
                               \/ i = Len(queue) + 1 /\ r[i] = e
    BY ONLY <1>1, <2>1, <2>3, Appended
  <2> QED BY <2>2, <2>4
<1>6. Fine(e)'
  BY <1>3 DEF Fine
<1>7. FineOK'
  <2> SUFFICES ASSUME NEW i \in DOMAIN queue'  PROVE \A q : q = queue'[i] => Fine(q)'
    BY DEF FineOK
  <2>1. CASE i \in DOMAIN queue /\ queue'[i] = queue[i]
    <3>1. queue[i] \in Entry /\ Fine(queue[i])
      BY <2>1, QueueItems DEF QueueOK, FineOK
    <3> QED BY <2>1, <3>1, FineStays
  <2> QED BY <1>5, <1>6, <2>1
<1>8. FoundFirst'
  <2> SUFFICES ASSUME NEW i \in DOMAIN queue', NEW k \in DOMAIN queue',
                      queue'[i].found, queue'[k].is # "feed"
               PROVE  i < k
    BY DEF FoundFirst
  <2>1. i \in DOMAIN queue /\ queue'[i] = queue[i] /\ i < Len(queue) + 1
    BY <1>3, <1>5
  <2>2. CASE k \in DOMAIN queue /\ queue'[k] = queue[k]
    BY <2>1, <2>2 DEF QueueOK, FoundFirst
  <2>3. CASE k = Len(queue) + 1
    BY <2>1, <2>3
  <2> QED BY <1>5, <2>2, <2>3
<1> QED BY <1>5, <1>7, <1>8 DEF QueueOK

LEMMA QueueFeed ==
  ASSUME TypeOK, QueueOK, Onward, PhaseKept, NEW a \in Attempts, plan[a] \in {"feed", "hold"},
         UNCHANGED phase, Feed(a)
  PROVE  queue' \in Seq(Entry) /\ QueueOK' /\ (NothingFound => NothingFound')
<1>1. queue \in Seq(Entry) /\ Len(queue) \in Nat /\ DOMAIN queue = 1..Len(queue)
  BY QueueItems
<1>2. PICK e : e = [is |-> "feed", of |-> a, found |-> phase = "catching up"]
  OBVIOUS
<1>3. e \in Entry /\ e.is = "feed" /\ e.of = a /\ (e.found <=> phase = "catching up")
  BY <1>2 DEF Entry
<1>4. PICK n \in 0..Len(queue) :
        (n = Len(queue) \/ phase = "recovering") /\ queue' = InsertAt(queue, n + 1, e)
  BY <1>2 DEF Feed
<1>5. /\ queue' \in Seq(Entry) /\ DOMAIN queue' = 1..(Len(queue) + 1) /\ n \in Nat
      /\ \A i \in DOMAIN queue' :
           \/ i <= n /\ i \in DOMAIN queue /\ queue'[i] = queue[i]
           \/ i = n + 1 /\ queue'[i] = e
           \/ i > n + 1 /\ i - 1 \in DOMAIN queue /\ queue'[i] = queue[i - 1]
  <2>1. queue \in Seq(Entry) /\ e \in Entry /\ n \in 0..Len(queue) /\ queue' = InsertAt(queue, n + 1, e)
    BY <1>1, <1>3, <1>4
  <2>2. n \in Nat
    BY <1>1
  <2>3. PICK r : r = queue'
    OBVIOUS
  <2>4. r = InsertAt(queue, n + 1, e)
    BY <2>1, <2>3
  <2>5. /\ r \in Seq(Entry) /\ DOMAIN r = 1..(Len(queue) + 1)
        /\ \A i \in DOMAIN r : \/ i <= n /\ i \in DOMAIN queue /\ r[i] = queue[i]
                               \/ i = n + 1 /\ r[i] = e
                               \/ i > n + 1 /\ i - 1 \in DOMAIN queue /\ r[i] = queue[i - 1]
    <3>1. IsInserted(Entry, queue, e, n, r)
      BY ONLY <2>1, <2>4, Inserted, Zenon
    <3> QED BY <3>1 DEF IsInserted
  <2> QED BY <2>2, <2>3, <2>5
<1>6. Fine(e)'
  <2>1. plan'[a] \in {"feed", "hold", "done"}
    BY DEF Onward
  <2> QED BY <1>3, <2>1 DEF Fine
<1>7. FineOK'
  <2> SUFFICES ASSUME NEW i \in DOMAIN queue'  PROVE \A q : q = queue'[i] => Fine(q)'
    BY DEF FineOK
  <2>1. ASSUME NEW k \in DOMAIN queue, queue'[i] = queue[k]
        PROVE  \A q : q = queue'[i] => Fine(q)'
    <3>1. queue[k] \in Entry /\ Fine(queue[k])
      BY QueueItems DEF QueueOK, FineOK
    <3> QED BY <2>1, <3>1, FineStays
  <2> QED BY <1>5, <1>6, <2>1
<1>8. FoundFirst'
  <2> SUFFICES ASSUME NEW i \in DOMAIN queue', NEW k \in DOMAIN queue',
                      queue'[i].found, queue'[k].is # "feed"
               PROVE  i < k
    BY DEF FoundFirst
  <2>1. /\ i \in Nat /\ k \in Nat
        /\ \/ k <= n /\ k \in DOMAIN queue /\ queue'[k] = queue[k]
           \/ k > n + 1 /\ k - 1 \in DOMAIN queue /\ queue'[k] = queue[k - 1]
    <3>1. i \in Nat /\ k \in Nat
      BY <1>1, <1>5
    <3>2. queue'[k] # e
      BY <1>3
    <3> QED BY <1>5, <3>1, <3>2
  <2>2. phase # "catching up"
    BY <2>1 DEF QueueOK, FineOK, Fine
  <2>3. \/ i <= n /\ i \in DOMAIN queue /\ queue'[i] = queue[i]
        \/ i > n + 1 /\ i - 1 \in DOMAIN queue /\ queue'[i] = queue[i - 1]
    BY <1>3, <1>5, <2>2
  <2>4. PICK x \in DOMAIN queue : queue'[i] = queue[x] /\ ((x = i /\ i <= n) \/ (x = i - 1 /\ i > n + 1))
    BY <2>3
  <2>5. PICK y \in DOMAIN queue : queue'[k] = queue[y] /\ ((y = k /\ k <= n) \/ (y = k - 1 /\ k > n + 1))
    BY <2>1
  <2>6. x < y
    BY <2>4, <2>5 DEF QueueOK, FoundFirst
  <2> QED BY <1>5, <2>1, <2>4, <2>5, <2>6
<1>9. NothingFound => NothingFound'
  <2> SUFFICES ASSUME NothingFound, NEW i \in DOMAIN queue'  PROVE phase' # "catching up" /\ ~queue'[i].found
    BY DEF NothingFound
  <2>1. phase # "catching up" /\ \A k \in DOMAIN queue : ~queue[k].found
    BY DEF NothingFound
  <2> QED BY <1>3, <1>5, <2>1
<1> QED BY <1>5, <1>7, <1>8, <1>9 DEF QueueOK

-----------------------------------------------------------------------------
(* What the steps have in common.                                           *)

LEMMA CallParts ==
  ASSUME NEW c \in CallSet
  PROVE  /\ c[1] = "perform" => c[2] \in Attempts
         /\ c[1] \in {"release", "stop"} => c[2] \in Jobs
         /\ c[1] = "commit" => c[2] \in Attempts /\ c[3] \in Plans
         /\ c[1] = "resume" => c[2] \in Attempts /\ c[3] \in BOOLEAN
<1>1. CASE c \in {"perform"} \X Attempts
  BY <1>1
<1>2. CASE c \in {"release", "stop"} \X Jobs
  BY <1>2
<1>3. CASE c \in {<<"settle">>, <<"box ends">>, <<"apply">>, <<"advance">>, <<"box starts">>, <<"answer">>}
  <2>1. c[1] \in {"settle", "box ends", "apply", "advance", "box starts", "answer"}
    <3>1. PICK n \in {"settle", "box ends", "apply", "advance", "box starts", "answer"} : c = <<n>>
      BY <1>3, Zenon
    <3>2. c[1] = n
      BY <3>1
    <3> QED BY <3>2
  <2> QED BY <2>1
<1>4. CASE c \in {"commit"} \X Attempts \X Plans
  <2>1. c[1] = "commit" /\ c[2] \in Attempts /\ c[3] \in Plans
    BY <1>4
  <2> QED BY <2>1
<1>5. CASE c \in {"resume"} \X Attempts \X BOOLEAN
  <2>1. c[1] = "resume" /\ c[2] \in Attempts /\ c[3] \in BOOLEAN
    BY <1>5
  <2> QED BY <2>1
<1> QED BY <1>1, <1>2, <1>3, <1>4, <1>5 DEF CallSet

LEMMA CallMade ==
  /\ \A a \in Attempts : <<"perform", a>> \in CallSet
  /\ \A j \in Jobs : <<"release", j>> \in CallSet /\ <<"stop", j>> \in CallSet
  /\ \A a \in Attempts, p \in Plans : <<"commit", a, p>> \in CallSet
  /\ \A a \in Attempts : <<"resume", a, TRUE>> \in CallSet /\ <<"resume", a, FALSE>> \in CallSet
  /\ <<"settle">> \in CallSet /\ <<"box ends">> \in CallSet /\ <<"apply">> \in CallSet
  /\ <<"advance">> \in CallSet /\ <<"box starts">> \in CallSet /\ <<"answer">> \in CallSet
BY DEF CallSet

\* The calls still to come do not mind what a call does to the attempts.
LEMMA CarriedOn ==
  ASSUME UpdateInv, Up, NEW calls \in Seq(CallSet), Then(calls),
         \A i \in DOMAIN calls : calls[i][1] \in {"perform", "release"},
         Onward, UNCHANGED <<phase, open, kept, meanwhile, catchUp, update>>,
         QueueOK', NothingFound => NothingFound',
         \A a \in Attempts : tier[a] = "cancelled" => tier'[a] = "cancelled"
  PROVE  /\ agenda' \in Seq(CallSet)
         /\ StopsOK' /\ MeanwhileOK' /\ AgendaOK' /\ CatchOK' /\ DownOK'
<1>1. TypeOK /\ StopsOK /\ MeanwhileOK /\ AgendaOK /\ CatchOK
  BY DEF UpdateInv
<1>2. Up'
  BY DEF Up
<1>3. ASSUME NEW i \in DOMAIN agenda \ {1}, NEW c, c = agenda[i]  PROVE Due(c)'
  <2>1. Due(c) /\ c \in CallSet
    <3>1. agenda \in Seq(CallSet)
      BY <1>1 DEF TypeOK
    <3>2. agenda[i] \in CallSet
      BY <3>1
    <3> QED BY <1>1, <1>3, <3>2 DEF AgendaOK, DueOK
  <2>2. stops' = stops /\ kept' = kept /\ open' = open /\ (Stopping' <=> Stopping)
    BY DEF Onward, Stopping
  <2>3. c[1] = "resume" => c[2] \in Attempts /\ tier'[c[2]] = "cancelled"
    BY <2>1, CallParts DEF Due
  <2> QED BY <2>1, <2>2, <2>3 DEF Due
<1>4. agenda' \in Seq(CallSet) /\ AgendaOK'
  BY <1>1, <1>3, AgendaGoesOn
<1>5. StopsOK'
  BY <1>1, <1>2, StopsOnward DEF Up
<1>6. MeanwhileOK'
  BY <1>1, MeanwhileOnward
<1>7. CatchOK' /\ DownOK'
  BY <1>1, <1>2 DEF CatchOK, DownOK, Up
<1> QED BY <1>4, <1>5, <1>6, <1>7

LEMMA Carried ==
  ASSUME UpdateInv, Up, NEW calls \in Seq(CallSet), Then(calls),
         \A i \in DOMAIN calls : calls[i][1] \in {"perform", "release"},
         Onward, UNCHANGED <<phase, open, kept, meanwhile, catchUp, queue, update>>,
         \A a \in Attempts : tier[a] = "cancelled" => tier'[a] = "cancelled"
  PROVE  /\ agenda' \in Seq(CallSet)
         /\ StopsOK' /\ MeanwhileOK' /\ QueueOK' /\ AgendaOK' /\ CatchOK' /\ DownOK'
<1>1. TypeOK /\ QueueOK /\ PhaseKept
  BY DEF UpdateInv, PhaseKept
<1>2. QueueOK'
  BY <1>1, QueueStays
<1>3. NothingFound => NothingFound'
  BY DEF NothingFound
<1> QED BY <1>2, <1>3, CarriedOn

\* No attempt begins under the definitions the update replaces.
LaunchFits(a) ==
  /\ ~(Stopping /\ JobOf(a) \in estate.touched)
  /\ JobOf(a) \notin Removed
  /\ \A b \in Attempts : JobOf(b) = JobOf(a) /\ JobOf(b) \notin estate.watches =>
       tier[b] \notin {"live", "stopping", "busy"}

LEMMA EndRunsFacts ==
  ASSUME UpdateInv, NEW S \in SUBSET Jobs, EndRuns(S),
         UNCHANGED <<estate, update, stops, pending, phase, kept>>, catchUp' \subseteq catchUp
  PROVE  /\ row' \in [Jobs -> [run : 0..MaxRuns, live : BOOLEAN]]
         /\ life' \in [Attempts -> {"never", "open", "closing", "closed"}]
         /\ plan' \in [Attempts -> Plans] /\ tier' \in [Attempts -> Tiers]
         /\ \A a \in Attempts : AttemptOK(a)' /\ RunOK(a)'
         /\ PendingOK' /\ Onward
         /\ \A a \in Attempts :
              /\ tier[a] = "cancelled" => tier'[a] = "cancelled"
              /\ \/ plan'[a] = plan[a]
                 \/ plan[a] = "none" /\ plan'[a] = "nothing" /\ JobOf(a) \in estate.watches
              /\ life'[a] = life[a] \/ (life[a] = "open" /\ life'[a] = "closed")
<1> DEFINE killed == {a \in Attempts : JobOf(a) \in S /\ tier[a] = "live" /\ a \notin catchUp}
           watches == {a \in killed : JobOf(a) \in estate.watches}
<1>0. TypeOK /\ PendingOK /\ \A a \in Attempts : AttemptOK(a) /\ RunOK(a)
  BY DEF UpdateInv
<1>1. /\ row' = [j \in Jobs |-> IF j \in S THEN [row[j] EXCEPT !.live = FALSE] ELSE row[j]]
      /\ tier' = [a \in Attempts |-> IF a \in watches THEN "unknown"
                                     ELSE IF a \in killed THEN "stopping" ELSE tier[a]]
      /\ life' = [a \in Attempts |-> IF a \in watches THEN "closed" ELSE life[a]]
      /\ plan' = [a \in Attempts |-> IF a \in watches THEN "nothing" ELSE plan[a]]
  BY DEF EndRuns
<1>2. \A j \in Jobs : row[j] \in [run : 0..MaxRuns, live : BOOLEAN]
  BY <1>0 DEF TypeOK
<1>3. /\ row' \in [Jobs -> [run : 0..MaxRuns, live : BOOLEAN]]
      /\ \A j \in Jobs : row'[j].run = row[j].run
  BY <1>1, <1>2
<1>4. /\ life' \in [Attempts -> {"never", "open", "closing", "closed"}]
      /\ plan' \in [Attempts -> Plans] /\ tier' \in [Attempts -> Tiers]
  BY <1>0, <1>1 DEF TypeOK, Plans, Tiers
<1>5. ASSUME NEW a \in Attempts
      PROVE  \/ /\ tier'[a] = "unknown" /\ life'[a] = "closed" /\ plan'[a] = "nothing"
                /\ tier[a] = "live" /\ JobOf(a) \in estate.watches /\ a \notin catchUp
             \/ /\ tier'[a] = "stopping" /\ life'[a] = life[a] /\ plan'[a] = plan[a]
                /\ tier[a] = "live" /\ JobOf(a) \notin estate.watches
             \/ tier'[a] = tier[a] /\ life'[a] = life[a] /\ plan'[a] = plan[a]
  BY <1>1
<1> HIDE DEF killed, watches
<1>6. ASSUME NEW a \in Attempts
      PROVE  /\ AttemptOK(a)'
             /\ tier[a] = "cancelled" => tier'[a] = "cancelled"
             /\ \/ plan'[a] = plan[a]
                \/ plan[a] = "none" /\ plan'[a] = "nothing" /\ JobOf(a) \in estate.watches
             /\ life'[a] = life[a] \/ (life[a] = "open" /\ life'[a] = "closed")
             /\ Finished(a) => Finished(a)'
             /\ plan'[a] = "rerun" => plan[a] = "rerun"
  <2>1. AttemptOK(a)
    BY <1>0
  <2>2. CASE /\ tier'[a] = "unknown" /\ life'[a] = "closed" /\ plan'[a] = "nothing"
             /\ tier[a] = "live" /\ JobOf(a) \in estate.watches /\ a \notin catchUp
    BY <2>1, <2>2 DEF AttemptOK, Finished, Up
  <2>3. CASE /\ tier'[a] = "stopping" /\ life'[a] = life[a] /\ plan'[a] = plan[a]
             /\ tier[a] = "live" /\ JobOf(a) \notin estate.watches
    BY <2>1, <2>3 DEF AttemptOK, Finished, Up
  <2>4. CASE tier'[a] = tier[a] /\ life'[a] = life[a] /\ plan'[a] = plan[a]
    BY <2>1, <2>4 DEF AttemptOK, Finished, Up
  <2> QED BY <1>5, <2>2, <2>3, <2>4
<1>7. Onward
  BY <1>6 DEF Onward, Stopping, AttemptOK
<1>8. \A a \in Attempts : RunOK(a)'
  <2>1. \A j \in Jobs : row[j].run \in Nat
    BY <1>2
  <2>2. \A j \in Jobs : row'[j].run \in Nat /\ row'[j].run >= row[j].run
    BY <1>3, <2>1
  <2>3. \A a \in Attempts : life[a] = "never" => life'[a] = "never"
    BY <1>6
  <2> QED BY <1>0, <1>6, <1>7, <2>2, <2>3, RunsOnward
<1>9. PendingOK'
  <2> SUFFICES ASSUME NEW j \in pending  PROVE row'[j].run >= 1 /\ life'[<<j, row'[j].run, 1>>] = "never"
    BY DEF PendingOK, FirstRun
  <2>1. j \in Jobs /\ row[j].run >= 1 /\ life[<<j, row[j].run, 1>>] = "never" /\ row[j].run \in 0..MaxRuns
    BY <1>0, <1>2 DEF PendingOK, FirstRun, TypeOK
  <2>2. PICK n \in 1..MaxRuns : n = row[j].run
    BY <2>1
  <2>3. <<j, n, 1>> \in Attempts
    BY <2>1, FirstMade
  <2>4. life'[<<j, n, 1>>] = "never"
    BY <1>6, <2>1, <2>2, <2>3
  <2> QED BY <1>3, <2>1, <2>2, <2>4
<1> QED BY <1>3, <1>4, <1>6, <1>7, <1>8, <1>9

LEMMA StartRunsFacts ==
  ASSUME UpdateInv, NEW S \in SUBSET Startable, StartRuns(S),
         UNCHANGED <<estate, update, stops, plan, phase, kept, catchUp>>
  PROVE  /\ row' \in [Jobs -> [run : 0..MaxRuns, live : BOOLEAN]]
         /\ life' \in [Attempts -> {"never", "open", "closing", "closed"}]
         /\ tier' \in [Attempts -> Tiers] /\ pending' \in SUBSET Jobs
         /\ \A a \in Attempts : AttemptOK(a)' /\ RunOK(a)'
         /\ PendingOK' /\ Onward
         /\ \A a \in Attempts :
              /\ tier[a] = "cancelled" => tier'[a] = "cancelled"
              /\ \/ life'[a] = life[a]
                 \/ life[a] = "never" /\ life'[a] = "open" /\ LaunchFits(a)
<1> DEFINE go == {j \in S : ~MustWait(j, None)}
           now == {<<j, row[j].run + 1, 1>> : j \in go}
<1>0. TypeOK /\ PendingOK /\ \A a \in Attempts : AttemptOK(a) /\ RunOK(a)
  BY DEF UpdateInv
<1>1. /\ row' = [j \in Jobs |-> IF j \in S THEN [run |-> row[j].run + 1, live |-> TRUE] ELSE row[j]]
      /\ life' = [a \in Attempts |-> IF a \in now THEN "open" ELSE life[a]]
      /\ tier' = [a \in Attempts |-> IF a \in now THEN "live" ELSE tier[a]]
      /\ pending' = (pending \ go) \cup (S \ go)
  BY DEF StartRuns
<1>2. \A j \in Jobs : row[j] \in [run : 0..MaxRuns, live : BOOLEAN] /\ row[j].run \in 0..MaxRuns
  BY <1>0 DEF TypeOK
<1>3. ASSUME NEW j \in S
      PROVE  j \in Jobs \ Removed /\ row[j].run \in Nat /\ row[j].run + 1 \in 1..MaxRuns
  <2>1. j \in Jobs \ Removed /\ row[j].run < estate.runs[j]
    BY DEF Startable
  <2>2. estate.runs \in [Jobs -> 0..MaxRuns] /\ MaxRuns \in Nat
    BY <1>0, UpdateAssumption DEF TypeOK
  <2> QED BY <1>2, <2>1, <2>2
<1>4. /\ row' \in [Jobs -> [run : 0..MaxRuns, live : BOOLEAN]]
      /\ \A j \in S : row'[j].run = row[j].run + 1
      /\ \A j \in Jobs \ S : row'[j] = row[j]
  <2>1. ASSUME NEW j \in Jobs
        PROVE  /\ row'[j] \in [run : 0..MaxRuns, live : BOOLEAN]
               /\ j \in S => row'[j].run = row[j].run + 1
               /\ j \notin S => row'[j] = row[j]
    <3>1. CASE j \in S
      <4>1. row[j].run + 1 \in 0..MaxRuns
        BY <1>2, <1>3, <3>1
      <4> QED BY <1>1, <3>1, <4>1
    <3>2. CASE j \notin S
      BY <1>1, <1>2, <3>2
    <3> QED BY <3>1, <3>2
  <2>2. row' = [j \in Jobs |-> row'[j]]
    BY <1>1
  <2> QED BY <1>3, <2>1, <2>2
<1>5. ASSUME NEW a \in now
      PROVE  /\ a \in Attempts /\ JobOf(a) \in go /\ a = <<JobOf(a), row[JobOf(a)].run + 1, 1>>
             /\ a[2] = row[JobOf(a)].run + 1 /\ a[3] = 1 /\ life[a] = "never"
  <2>1. PICK j \in go : a = <<j, row[j].run + 1, 1>>
    OBVIOUS
  <2>2. j \in Jobs /\ row[j].run \in Nat /\ row[j].run + 1 \in 1..MaxRuns
    BY <1>3
  <2>3. PICK n \in 1..MaxRuns : n = row[j].run + 1
    BY <2>2
  <2>4. a = <<j, n, 1>> /\ a \in Attempts /\ JobOf(a) = j /\ a[2] = n /\ a[3] = 1
    BY <2>1, <2>2, <2>3, FirstMade
  <2>5. life[a] # "never" => n <= row[j].run
    BY <1>0, <2>4 DEF RunOK
  <2>6. life[a] = "never"
    BY <2>2, <2>3, <2>5
  <2> QED BY <2>3, <2>4, <2>6
<1>6. /\ life' \in [Attempts -> {"never", "open", "closing", "closed"}]
      /\ tier' \in [Attempts -> Tiers] /\ pending' \in SUBSET Jobs
  BY <1>0, <1>1, <1>3 DEF TypeOK, Tiers
<1>7. ASSUME NEW a \in now  PROVE LaunchFits(a)
  <2>1. /\ JobOf(a) \in Jobs \ Removed /\ ~MustWait(JobOf(a), None) /\ a \in Attempts
    BY <1>3, <1>5
  <2>2. ~Holds(JobOf(a)) /\ ~Blocked(JobOf(a), None)
    BY <2>1 DEF MustWait
  <2>3. ASSUME NEW b \in Attempts, JobOf(b) = JobOf(a), JobOf(b) \notin estate.watches
        PROVE  tier[b] \notin {"live", "stopping", "busy"}
    <3>1. b # None
      BY AttemptParts
    <3>2. ~Unsettled(b)
      BY <2>2, <2>3, <3>1 DEF Blocked
    <3> QED BY <3>2 DEF Unsettled
  <2> QED BY <2>1, <2>2, <2>3 DEF LaunchFits, Holds
<1>8. ASSUME NEW a \in Attempts
      PROVE  \/ /\ a \in now /\ life[a] = "never" /\ life'[a] = "open" /\ tier'[a] = "live"
                /\ a[2] = row[JobOf(a)].run + 1 /\ a[3] = 1 /\ JobOf(a) \in S /\ LaunchFits(a)
             \/ a \notin now /\ life'[a] = life[a] /\ tier'[a] = tier[a]
  BY <1>1, <1>5, <1>7
<1>9. ASSUME NEW a \in Attempts
      PROVE  /\ AttemptOK(a)'
             /\ tier[a] = "cancelled" => tier'[a] = "cancelled"
             /\ Finished(a) => Finished(a)'
  <2>1. AttemptOK(a)
    BY <1>0
  <2>2. CASE life[a] = "never" /\ life'[a] = "open" /\ tier'[a] = "live"
    BY <2>1, <2>2 DEF AttemptOK, Finished, Up
  <2>3. CASE life'[a] = life[a] /\ tier'[a] = tier[a]
    BY <2>1, <2>3 DEF AttemptOK, Finished, Up
  <2> QED BY <1>8, <2>2, <2>3
<1>10. Onward
  BY <1>8, <1>9 DEF Onward, Stopping, AttemptOK
<1>11. \A a \in Attempts : RunOK(a)'
  <2>1. \A j \in Jobs : row[j].run \in Nat
    BY <1>2
  <2>2. ASSUME NEW j \in Jobs  PROVE row'[j].run \in Nat /\ row'[j].run >= row[j].run
    BY <1>4, <2>1
  <2>3. ASSUME NEW a \in Attempts, life[a] = "never", life'[a] # "never"
        PROVE  a[2] <= row'[JobOf(a)].run /\ (a[3] = 2 => plan'[<<a[1], a[2], 1>>] = "done")
    <3>1. a[2] = row[JobOf(a)].run + 1 /\ a[3] = 1 /\ JobOf(a) \in S
      BY <1>8, <2>3
    <3>2. row'[JobOf(a)].run = row[JobOf(a)].run + 1 /\ row[JobOf(a)].run \in Nat
      BY <1>3, <1>4, <3>1
    <3> QED BY <3>1, <3>2
  <2>4. \A a \in Attempts : plan'[a] = "rerun" => plan[a] = "rerun" \/ a[3] = 1
    OBVIOUS
  <2> QED BY <1>0, <1>10, <2>2, <2>3, <2>4, RunsOnward
<1>12. PendingOK'
  <2> SUFFICES ASSUME NEW j \in pending'  PROVE row'[j].run >= 1 /\ life'[<<j, row'[j].run, 1>>] = "never"
    BY DEF PendingOK, FirstRun
  <2>0. j \in Jobs /\ j \notin go
    BY <1>1, <1>6
  <2>1. row'[j].run \in 1..MaxRuns /\ life[<<j, row'[j].run, 1>>] = "never"
    <3>1. CASE j \in S
      <4>1. PICK n \in 1..MaxRuns : n = row[j].run + 1
        BY <1>3, <3>1
      <4>2. <<j, n, 1>> \in Attempts /\ JobOf(<<j, n, 1>>) = j /\ <<j, n, 1>>[2] = n
        BY <2>0, FirstMade
      <4>3. life[<<j, n, 1>>] # "never" => n <= row[j].run
        BY <1>0, <4>2 DEF RunOK
      <4>4. ~(n <= row[j].run)
        BY <1>3, <3>1, <4>1
      <4> QED BY <1>4, <3>1, <4>1, <4>3, <4>4
    <3>2. CASE j \notin S
      <4>1. j \in pending /\ row'[j] = row[j]
        BY <1>1, <1>4, <2>0, <3>2
      <4>2. row[j].run >= 1 /\ life[<<j, row[j].run, 1>>] = "never" /\ row[j].run \in 0..MaxRuns
        BY <1>0, <1>2, <2>0, <4>1 DEF PendingOK, FirstRun
      <4> QED BY <4>1, <4>2
    <3> QED BY <3>1, <3>2
  <2>2. PICK n \in 1..MaxRuns : n = row'[j].run
    BY <2>1
  <2>3. <<j, n, 1>> \in Attempts /\ JobOf(<<j, n, 1>>) = j
    BY <2>0, FirstMade
  <2>4. <<j, n, 1>> \notin now
    BY <1>5, <2>0, <2>3
  <2>5. life'[<<j, n, 1>>] = "never"
    BY <1>8, <2>1, <2>2, <2>3, <2>4
  <2> QED BY <2>1, <2>2, <2>5
<1> QED BY <1>4, <1>6, <1>8, <1>9, <1>10, <1>11, <1>12

\* What a step may do to a plan, and to an attempt that never was.
PlanFits(a) ==
  \/ plan'[a] = plan[a]
  \/ plan[a] \in {"feed", "hold", "rerun"} /\ plan'[a] = "done"
  \/ /\ plan[a] = "none"
     /\ Stopping => /\ ~(Interrupted(JobOf(a)) /\ stops[JobOf(a)] = a /\ JobOf(a) \notin estate.watches)
                    /\ plan'[a] \in {"rerun", "hold"} => JobOf(a) \notin Moved
LifeFits(a) == life[a] = "never" /\ life'[a] = "open" => LaunchFits(a)

StepFits == \A a \in Attempts : PlanFits(a) /\ LifeFits(a)

LEMMA Unmoved ==
  ASSUME UpdateInv, UNCHANGED <<estate, stops, life, plan, pending, tier, kept>>,
         \A j \in Jobs : row'[j].run = row[j].run, Up' => Up, catchUp' \subseteq catchUp,
         update # "none" => update' # "none", Stopping' => Stopping
  PROVE  /\ \A a \in Attempts : AttemptOK(a)' /\ RunOK(a)'
         /\ PendingOK' /\ Onward /\ StepFits
<1>0. TypeOK /\ PendingOK /\ \A a \in Attempts : AttemptOK(a) /\ RunOK(a)
  BY DEF UpdateInv
<1>1. \A a \in Attempts : AttemptOK(a)'
  BY <1>0, SameAttempt
<1>2. \A a \in Attempts : RunOK(a)'
  <2> SUFFICES ASSUME NEW a \in Attempts  PROVE RunOK(a)'
    OBVIOUS
  <2>1. row'[JobOf(a)].run = row[JobOf(a)].run
    BY AttemptParts
  <2> QED BY <1>0, <2>1 DEF RunOK, JobOf
<1>3. PendingOK'
  <2> SUFFICES ASSUME NEW j \in pending  PROVE row'[j].run >= 1 /\ life'[<<j, row'[j].run, 1>>] = "never"
    BY DEF PendingOK, FirstRun
  <2>1. j \in Jobs
    BY <1>0 DEF TypeOK
  <2>2. row'[j].run = row[j].run
    BY <2>1
  <2>3. row[j].run >= 1 /\ life[<<j, row[j].run, 1>>] = "never"
    BY <1>0 DEF PendingOK, FirstRun
  <2> QED BY <2>2, <2>3
<1>4. Onward
  BY DEF Onward, Finished
<1>5. StepFits
  BY DEF StepFits, PlanFits, LifeFits
<1> QED BY <1>1, <1>2, <1>3, <1>4, <1>5

LEMMA CallIsUp ==
  ASSUME UpdateInv, agenda # <<>>
  PROVE  Up
BY DEF UpdateInv, DownOK, Up

LEMMA BoxEndsStep ==
  ASSUME UpdateInv, BoxEnds
  PROVE  UpdateInv' /\ StepFits
<1>0. TypeOK /\ agenda # <<>> /\ Up
  BY CallIsUp DEF UpdateInv, BoxEnds, Calls
<1>1. /\ EndRuns({j \in estate.boxed : row[j].live}) /\ Then(<<>>)
      /\ UNCHANGED <<estate, update, stops, pending, phase, open, kept, meanwhile, queue, catchUp>>
  BY DEF BoxEnds, counts
<1>2. {j \in estate.boxed : row[j].live} \in SUBSET Jobs
  BY <1>0, UpdateAssumption DEF TypeOK
<1>3. PICK S \in SUBSET Jobs : EndRuns(S)
  BY <1>1, <1>2
<1>4. /\ row' \in [Jobs -> [run : 0..MaxRuns, live : BOOLEAN]]
      /\ life' \in [Attempts -> {"never", "open", "closing", "closed"}]
      /\ plan' \in [Attempts -> Plans] /\ tier' \in [Attempts -> Tiers]
      /\ \A a \in Attempts : AttemptOK(a)' /\ RunOK(a)'
      /\ PendingOK' /\ Onward
      /\ \A a \in Attempts :
           /\ tier[a] = "cancelled" => tier'[a] = "cancelled"
           /\ \/ plan'[a] = plan[a]
              \/ plan[a] = "none" /\ plan'[a] = "nothing" /\ JobOf(a) \in estate.watches
           /\ life'[a] = life[a] \/ (life[a] = "open" /\ life'[a] = "closed")
  BY <1>1, <1>3, EndRunsFacts
<1>5. /\ agenda' \in Seq(CallSet)
      /\ StopsOK' /\ MeanwhileOK' /\ QueueOK' /\ AgendaOK' /\ CatchOK' /\ DownOK'
  BY <1>0, <1>1, <1>4, NothingMore, Carried
<1>6. TypeOK'
  BY <1>0, <1>1, <1>4, <1>5 DEF TypeOK
<1>7. StepFits
  BY <1>4 DEF StepFits, PlanFits, LifeFits
<1> QED BY <1>4, <1>5, <1>6, <1>7 DEF UpdateInv

LEMMA AdvanceStep ==
  ASSUME UpdateInv, Advance
  PROVE  UpdateInv' /\ StepFits
<1>0. TypeOK /\ agenda # <<>> /\ Up
  BY CallIsUp DEF UpdateInv, Advance, Calls
<1>1. /\ Then(<<>>)
      /\ UNCHANGED <<estate, update, stops, pending, phase, open, kept, meanwhile, queue, catchUp>>
  BY DEF Advance, counts
<1>3. PICK S \in SUBSET Jobs : EndRuns(S)
  BY DEF Advance
<1>4. /\ row' \in [Jobs -> [run : 0..MaxRuns, live : BOOLEAN]]
      /\ life' \in [Attempts -> {"never", "open", "closing", "closed"}]
      /\ plan' \in [Attempts -> Plans] /\ tier' \in [Attempts -> Tiers]
      /\ \A a \in Attempts : AttemptOK(a)' /\ RunOK(a)'
      /\ PendingOK' /\ Onward
      /\ \A a \in Attempts :
           /\ tier[a] = "cancelled" => tier'[a] = "cancelled"
           /\ \/ plan'[a] = plan[a]
              \/ plan[a] = "none" /\ plan'[a] = "nothing" /\ JobOf(a) \in estate.watches
           /\ life'[a] = life[a] \/ (life[a] = "open" /\ life'[a] = "closed")
  BY <1>1, <1>3, EndRunsFacts
<1>5. /\ agenda' \in Seq(CallSet)
      /\ StopsOK' /\ MeanwhileOK' /\ QueueOK' /\ AgendaOK' /\ CatchOK' /\ DownOK'
  BY <1>0, <1>1, <1>4, NothingMore, Carried
<1>6. TypeOK'
  BY <1>0, <1>1, <1>4, <1>5 DEF TypeOK
<1>7. StepFits
  BY <1>4 DEF StepFits, PlanFits, LifeFits
<1> QED BY <1>4, <1>5, <1>6, <1>7 DEF UpdateInv

LEMMA BoxStartsStep ==
  ASSUME UpdateInv, BoxStarts
  PROVE  UpdateInv' /\ StepFits
<1>0. TypeOK /\ agenda # <<>> /\ Up
  BY CallIsUp DEF UpdateInv, BoxStarts, Calls
<1>1. /\ Then(<<>>)
      /\ UNCHANGED <<estate, update, stops, plan, phase, open, kept, meanwhile, queue, catchUp>>
  BY DEF BoxStarts, counts
<1>3. PICK S \in SUBSET Startable : StartRuns(S)
  BY DEF BoxStarts
<1>4. /\ row' \in [Jobs -> [run : 0..MaxRuns, live : BOOLEAN]]
      /\ life' \in [Attempts -> {"never", "open", "closing", "closed"}]
      /\ tier' \in [Attempts -> Tiers] /\ pending' \in SUBSET Jobs
      /\ \A a \in Attempts : AttemptOK(a)' /\ RunOK(a)'
      /\ PendingOK' /\ Onward
      /\ \A a \in Attempts :
           /\ tier[a] = "cancelled" => tier'[a] = "cancelled"
           /\ \/ life'[a] = life[a]
              \/ life[a] = "never" /\ life'[a] = "open" /\ LaunchFits(a)
  BY <1>1, <1>3, StartRunsFacts
<1>5. /\ agenda' \in Seq(CallSet)
      /\ StopsOK' /\ MeanwhileOK' /\ QueueOK' /\ AgendaOK' /\ CatchOK' /\ DownOK'
  BY <1>0, <1>1, <1>4, NothingMore, Carried
<1>6. TypeOK'
  BY <1>0, <1>1, <1>4, <1>5 DEF TypeOK
<1>7. StepFits
  BY <1>1, <1>4 DEF StepFits, PlanFits, LifeFits
<1> QED BY <1>4, <1>5, <1>6, <1>7 DEF UpdateInv

LEMMA AnswerStep ==
  ASSUME UpdateInv, Answer
  PROVE  UpdateInv' /\ StepFits
<1>0. TypeOK /\ agenda # <<>> /\ Up
  BY CallIsUp DEF UpdateInv, Answer, Calls
<1>1. /\ Then(<<>>)
      /\ UNCHANGED <<estate, update, stops, row, life, plan, pending, phase, tier, open, kept, meanwhile,
                     queue, catchUp>>
  BY DEF Answer, counts, store
<1>2. /\ \A a \in Attempts : AttemptOK(a)' /\ RunOK(a)'
      /\ PendingOK' /\ Onward /\ StepFits
  <2>1. (Up' => Up) /\ (Stopping' => Stopping)
    BY <1>1 DEF Up, Stopping
  <2> QED BY <1>1, <2>1, Unmoved
<1>3. /\ agenda' \in Seq(CallSet)
      /\ StopsOK' /\ MeanwhileOK' /\ QueueOK' /\ AgendaOK' /\ CatchOK' /\ DownOK'
  BY <1>0, <1>1, <1>2, NothingMore, Carried
<1>4. TypeOK'
  BY <1>0, <1>1, <1>3 DEF TypeOK
<1> QED BY <1>2, <1>3, <1>4 DEF UpdateInv

LEMMA PlanDoneFacts ==
  ASSUME UpdateInv, NEW a \in Attempts, plan[a] \in {"feed", "hold", "rerun", "done"},
         plan' = [plan EXCEPT ![a] = "done"],
         UNCHANGED <<estate, update, stops, life, pending, phase, tier, kept, catchUp>>,
         \A j \in Jobs : row'[j].run = row[j].run
  PROVE  /\ plan' \in [Attempts -> Plans]
         /\ \A b \in Attempts : AttemptOK(b)' /\ RunOK(b)'
         /\ PendingOK' /\ Onward /\ StepFits
<1>0. TypeOK /\ PendingOK /\ \A b \in Attempts : AttemptOK(b) /\ RunOK(b)
  BY DEF UpdateInv
<1>1. /\ plan' \in [Attempts -> Plans] /\ plan'[a] = "done"
      /\ \A b \in Attempts : plan'[b] = plan[b] \/ b = a
  BY <1>0 DEF TypeOK, Plans
<1>2. ASSUME NEW b \in Attempts
      PROVE  AttemptOK(b)' /\ (Finished(b) => Finished(b)') /\ PlanFits(b) /\ LifeFits(b)
             /\ (plan'[b] = "rerun" => plan[b] = "rerun") /\ (plan[b] = "done" => plan'[b] = "done")
             /\ (plan[b] \in {"feed", "hold"} => plan'[b] \in {"feed", "hold", "done"})
  <2>1. AttemptOK(b)
    BY <1>0
  <2>2. CASE plan'[b] = plan[b]
    BY <2>1, <2>2 DEF AttemptOK, Finished, PlanFits, LifeFits, Up
  <2>3. CASE b = a
    BY <1>1, <2>1, <2>3 DEF AttemptOK, Finished, PlanFits, LifeFits, Up
  <2> QED BY <1>1, <2>2, <2>3
<1>3. Onward
  BY <1>2 DEF Onward, Stopping
<1>4. \A b \in Attempts : RunOK(b)'
  <2>1. ASSUME NEW j \in Jobs  PROVE row'[j].run \in Nat /\ row'[j].run >= row[j].run
    <3>1. row[j].run \in 0..MaxRuns
      BY <1>0 DEF TypeOK
    <3> QED BY <3>1
  <2> QED BY <1>0, <1>2, <1>3, <2>1, RunsOnward
<1>5. PendingOK'
  <2> SUFFICES ASSUME NEW j \in pending  PROVE row'[j].run >= 1 /\ life'[<<j, row'[j].run, 1>>] = "never"
    BY DEF PendingOK, FirstRun
  <2>1. j \in Jobs
    BY <1>0 DEF TypeOK
  <2>2. row'[j].run = row[j].run
    BY <2>1
  <2>3. row[j].run >= 1 /\ life[<<j, row[j].run, 1>>] = "never"
    BY <1>0 DEF PendingOK, FirstRun
  <2> QED BY <2>2, <2>3
<1> QED BY <1>1, <1>2, <1>3, <1>4, <1>5 DEF StepFits

LEMMA LaunchFacts ==
  ASSUME UpdateInv, NEW a \in Attempts, life[a] = "never", Launch(a), LaunchFits(a),
         UNCHANGED <<estate, update, stops, row, phase, kept, catchUp>>,
         a[2] <= row[JobOf(a)].run, a[3] = 2 => plan'[<<a[1], a[2], 1>>] = "done",
         plan' \in [Attempts -> Plans],
         \A b \in Attempts : plan'[b] = plan[b] \/ (plan[b] = "rerun" /\ plan'[b] = "done"),
         pending' \subseteq pending, \A j \in pending' : FirstRun(j) # a
  PROVE  /\ life' \in [Attempts -> {"never", "open", "closing", "closed"}]
         /\ tier' \in [Attempts -> Tiers]
         /\ \A b \in Attempts : AttemptOK(b)' /\ RunOK(b)'
         /\ PendingOK' /\ Onward /\ StepFits
         /\ \A b \in Attempts : tier[b] = "cancelled" => tier'[b] = "cancelled"
<1>0. TypeOK /\ PendingOK /\ \A b \in Attempts : AttemptOK(b) /\ RunOK(b)
  BY DEF UpdateInv
<1>1. life' = [life EXCEPT ![a] = "open"] /\ tier' = [tier EXCEPT ![a] = "live"]
  BY DEF Launch
<1>2. /\ life' \in [Attempts -> {"never", "open", "closing", "closed"}]
      /\ tier' \in [Attempts -> Tiers] /\ life'[a] = "open" /\ tier'[a] = "live"
      /\ \A b \in Attempts : (life'[b] = life[b] /\ tier'[b] = tier[b]) \/ b = a
  BY <1>0, <1>1 DEF TypeOK, Tiers
<1>3. ASSUME NEW b \in Attempts
      PROVE  AttemptOK(b)' /\ (Finished(b) => Finished(b)') /\ PlanFits(b) /\ LifeFits(b)
             /\ (tier[b] = "cancelled" => tier'[b] = "cancelled")
             /\ (plan'[b] = "rerun" => plan[b] = "rerun") /\ (plan[b] = "done" => plan'[b] = "done")
             /\ (plan[b] \in {"feed", "hold"} => plan'[b] \in {"feed", "hold", "done"})
             /\ (life[b] # "never" => life'[b] # "never")
  <2>1. AttemptOK(b)
    BY <1>0
  <2>2. CASE b # a
    <3>1. life'[b] = life[b] /\ tier'[b] = tier[b]
      BY <1>2, <2>2
    <3>2. CASE plan'[b] = plan[b]
      BY <2>1, <3>1, <3>2 DEF AttemptOK, Finished, PlanFits, LifeFits, Up
    <3>3. CASE plan[b] = "rerun" /\ plan'[b] = "done"
      BY <2>1, <3>1, <3>3 DEF AttemptOK, Finished, PlanFits, LifeFits, Up
    <3> QED BY <3>2, <3>3
  <2>3. CASE b = a
    <3>1. plan[b] = "none" /\ plan'[b] = "none"
      BY <2>1, <2>3 DEF AttemptOK
    <3> QED BY <1>2, <2>1, <2>3, <3>1 DEF AttemptOK, Finished, PlanFits, LifeFits, Up
  <2> QED BY <2>2, <2>3
<1>4. Onward
  BY <1>3 DEF Onward, Stopping
<1>5. \A b \in Attempts : RunOK(b)'
  <2>1. ASSUME NEW j \in Jobs  PROVE row'[j].run \in Nat /\ row'[j].run >= row[j].run
    <3>1. row[j].run \in 0..MaxRuns
      BY <1>0 DEF TypeOK
    <3> QED BY <3>1
  <2>2. \A b \in Attempts : life[b] = "never" /\ life'[b] # "never" =>
           b[2] <= row'[JobOf(b)].run /\ (b[3] = 2 => plan'[<<b[1], b[2], 1>>] = "done")
    BY <1>2
  <2>3. \A b \in Attempts : plan'[b] = "rerun" => plan[b] = "rerun" \/ b[3] = 1
    BY <1>3
  <2> QED BY <1>0, <1>4, <2>1, <2>2, <2>3, RunsOnward
<1>6. PendingOK'
  <2> SUFFICES ASSUME NEW j \in pending'  PROVE row[j].run >= 1 /\ life'[<<j, row[j].run, 1>>] = "never"
    BY DEF PendingOK, FirstRun
  <2>1. j \in Jobs /\ row[j].run \in 0..MaxRuns
    BY <1>0 DEF TypeOK
  <2>2. row[j].run >= 1 /\ life[<<j, row[j].run, 1>>] = "never"
    BY <1>0 DEF PendingOK, FirstRun
  <2>3. <<j, row[j].run, 1>> # a
    BY DEF FirstRun
  <2>4. PICK n \in 1..MaxRuns : n = row[j].run
    BY <2>1, <2>2
  <2>5. <<j, n, 1>> \in Attempts
    BY <2>1, FirstMade
  <2> QED BY <1>2, <2>2, <2>3, <2>4, <2>5
<1> QED BY <1>2, <1>3, <1>4, <1>5, <1>6 DEF StepFits

\* Nothing is in the way of a launch.
LEMMA NotInTheWay ==
  ASSUME UpdateInv, NEW j \in Jobs, NEW r, ~MustWait(j, r), j \notin Removed,
         r # None => r \in Attempts /\ plan[r] # "none",
         NEW a \in Attempts, JobOf(a) = j
  PROVE  LaunchFits(a)
<1>1. ~Holds(j) /\ ~Blocked(j, r)
  BY DEF MustWait
<1>2. ASSUME NEW b \in Attempts, JobOf(b) = JobOf(a), JobOf(b) \notin estate.watches
      PROVE  tier[b] \notin {"live", "stopping", "busy"}
  <2>1. ~(Unsettled(b) /\ (b # r \/ tier[b] = "busy"))
    BY <1>1, <1>2 DEF Blocked
  <2>2. CASE b = r
    <3>1. tier[b] # "busy"
      BY <2>1, <2>2 DEF Unsettled
    <3>2. plan[b] # "none" /\ AttemptOK(b)
      BY <2>2, AttemptParts DEF UpdateInv
    <3> QED BY <3>1, <3>2 DEF AttemptOK
  <2>3. CASE b # r
    BY <2>1, <2>3 DEF Unsettled
  <2> QED BY <2>2, <2>3
<1> QED BY <1>1, <1>2 DEF LaunchFits, Holds

LEMMA CallHead ==
  ASSUME UpdateInv, agenda # <<>>, NEW c, c = Head(agenda)
  PROVE  c \in CallSet /\ Due(c) /\ TypeOK /\ Up
BY HeadFacts, CallIsUp DEF UpdateInv

LEMMA PerformStep ==
  ASSUME UpdateInv, Perform
  PROVE  UpdateInv' /\ StepFits
<1>1. PICK c : c = Head(agenda)
  OBVIOUS
<1>2. agenda # <<>> /\ c[1] = "perform" /\ Arg = c[2]
  BY <1>1 DEF Perform, Calls, Arg
<1>3. PICK a \in Attempts : a = Arg
  BY <1>1, <1>2, CallHead, CallParts
<1>4. TypeOK /\ Up /\ AttemptOK(a) /\ RunOK(a) /\ QueueOK
  BY <1>1, <1>2, CallHead DEF UpdateInv
<1>5. UNCHANGED <<estate, update, stops, row, pending, phase, open, kept, meanwhile, catchUp>>
  BY DEF Perform, counts
<1>6. JobOf(a) \in Jobs /\ a[1] \in Jobs /\ a[2] \in 1..MaxRuns /\ JobOf(a) = a[1]
  BY AttemptParts
<1>7. <<"release", JobOf(a)>> \in CallSet
  BY <1>6, CallMade
<1> DEFINE one == <<<<"release", JobOf(a)>>>>
<1>8. one \in Seq(CallSet) /\ \A i \in DOMAIN one : one[i][1] \in {"perform", "release"}
  <2>1. PICK d : d = <<"release", JobOf(a)>>
    OBVIOUS
  <2>2. d \in CallSet /\ d[1] = "release"
    BY <1>7, <2>1
  <2> QED BY <2>1, <2>2, OneMore
<1> HIDE DEF one
<1>9. PhaseKept /\ (Up' => Up) /\ (Stopping' => Stopping)
  BY <1>5 DEF PhaseKept, Up, Stopping
<1>10. CASE plan[a] \in {"feed", "hold"} /\ Feed(a) /\ Then(<<>>) /\ UNCHANGED <<plan, life, tier>>
  <2>1. /\ \A b \in Attempts : AttemptOK(b)' /\ RunOK(b)'
        /\ PendingOK' /\ Onward /\ StepFits
    BY <1>5, <1>9, <1>10, Unmoved
  <2>2. queue' \in Seq(Entry) /\ QueueOK' /\ (NothingFound => NothingFound')
    BY <1>4, <1>5, <1>9, <1>10, <2>1, QueueFeed
  <2>3. /\ agenda' \in Seq(CallSet)
        /\ StopsOK' /\ MeanwhileOK' /\ AgendaOK' /\ CatchOK' /\ DownOK'
    BY <1>4, <1>5, <1>10, <2>1, <2>2, NothingMore, CarriedOn
  <2>4. TypeOK'
    BY <1>4, <1>5, <1>10, <2>2, <2>3 DEF TypeOK
  <2> QED BY <2>1, <2>2, <2>3, <2>4 DEF UpdateInv
<1>11. CASE /\ plan[a] = "rerun" /\ plan' = [plan EXCEPT ![a] = "done"] /\ Then(one)
            /\ UNCHANGED <<life, tier, queue>>
  <2>1. /\ plan' \in [Attempts -> Plans]
        /\ \A b \in Attempts : AttemptOK(b)' /\ RunOK(b)'
        /\ PendingOK' /\ Onward /\ StepFits
    BY <1>5, <1>11, PlanDoneFacts
  <2>2. /\ agenda' \in Seq(CallSet)
        /\ StopsOK' /\ MeanwhileOK' /\ QueueOK' /\ AgendaOK' /\ CatchOK' /\ DownOK'
    BY <1>4, <1>5, <1>8, <1>11, <2>1, Carried
  <2>3. TypeOK'
    BY <1>4, <1>5, <1>11, <2>1, <2>2 DEF TypeOK
  <2> QED BY <2>1, <2>2, <2>3 DEF UpdateInv
<1>12. CASE /\ plan[a] = "rerun" /\ Wanted(a) /\ ~MustWait(JobOf(a), a)
            /\ plan' = [plan EXCEPT ![a] = "done"] /\ Launch(Replacement(a)) /\ Then(one)
            /\ UNCHANGED queue
  <2>1. PICK r : r = Replacement(a)
    OBVIOUS
  <2>2. r \in Attempts /\ JobOf(r) = JobOf(a) /\ r[1] = a[1] /\ r[2] = a[2] /\ r[3] = 2
    <3>1. 2 \in 1..2
      OBVIOUS
    <3>2. r = <<a[1], a[2], 2>>
      BY <2>1 DEF Replacement
    <3>3. PICK j, n : j = a[1] /\ n = a[2]
      OBVIOUS
    <3>4. j \in Jobs /\ n \in 1..MaxRuns
      BY <1>6, <3>3
    <3>5. /\ <<j, n, 2>> \in Attempts /\ JobOf(<<j, n, 2>>) = j
          /\ <<j, n, 2>>[1] = j /\ <<j, n, 2>>[2] = n /\ <<j, n, 2>>[3] = 2
      BY ONLY <3>1, <3>4, AttemptMade
    <3> QED BY <1>6, <3>2, <3>3, <3>5
  <2>3. a[3] = 1 /\ a = <<a[1], a[2], 1>>
    BY <1>4, <1>12, AttemptParts DEF RunOK
  <2>4. life[r] = "never"
    <3>1. RunOK(r)
      BY <2>2 DEF UpdateInv
    <3>2. r[3] = 2 /\ life[r] # "never" => plan[a] = "done"
      BY <2>2, <2>3, <3>1 DEF RunOK
    <3> QED BY <1>12, <2>2, <3>2
  <2>5. /\ plan' \in [Attempts -> Plans] /\ plan'[a] = "done"
        /\ \A b \in Attempts : plan'[b] = plan[b] \/ (plan[b] = "rerun" /\ plan'[b] = "done")
    BY <1>4, <1>12 DEF TypeOK, Plans
  <2>6. a[2] <= row[JobOf(a)].run
    <3>1. life[a] # "never"
      BY <1>4, <1>12 DEF AttemptOK
    <3> QED BY <1>4, <3>1 DEF RunOK
  <2>7. LaunchFits(r)
    <3>1. JobOf(a) \notin Removed /\ plan[a] # "none"
      BY <1>12 DEF Wanted
    <3> QED BY <1>6, <1>12, <2>2, <3>1, NotInTheWay
  <2>8. \A j \in pending' : FirstRun(j) # r
    <3>1. \A j \in pending' : FirstRun(j)[3] = 1
      BY DEF FirstRun
    <3> QED BY <2>2, <3>1
  <2>9. /\ Launch(r) /\ r[2] <= row[JobOf(r)].run /\ pending' \subseteq pending
        /\ r[3] = 2 => plan'[<<r[1], r[2], 1>>] = "done"
    BY <1>5, <1>12, <2>1, <2>2, <2>3, <2>5, <2>6
  <2>10. /\ life' \in [Attempts -> {"never", "open", "closing", "closed"}]
         /\ tier' \in [Attempts -> Tiers]
         /\ \A b \in Attempts : AttemptOK(b)' /\ RunOK(b)'
         /\ PendingOK' /\ Onward /\ StepFits
         /\ \A b \in Attempts : tier[b] = "cancelled" => tier'[b] = "cancelled"
    BY <1>5, <2>2, <2>4, <2>5, <2>7, <2>8, <2>9, LaunchFacts
  <2>11. /\ agenda' \in Seq(CallSet)
         /\ StopsOK' /\ MeanwhileOK' /\ QueueOK' /\ AgendaOK' /\ CatchOK' /\ DownOK'
    BY <1>4, <1>5, <1>8, <1>12, <2>10, Carried
  <2>12. TypeOK'
    BY <1>4, <1>5, <1>12, <2>5, <2>10, <2>11 DEF TypeOK
  <2> QED BY <2>10, <2>11, <2>12 DEF UpdateInv
<1>13. CASE UNCHANGED <<plan, life, tier, queue>> /\ (Then(<<>>) \/ Then(one))
  <2>1. /\ \A b \in Attempts : AttemptOK(b)' /\ RunOK(b)'
        /\ PendingOK' /\ Onward /\ StepFits
    BY <1>5, <1>9, <1>13, Unmoved
  <2>2. /\ agenda' \in Seq(CallSet)
        /\ StopsOK' /\ MeanwhileOK' /\ QueueOK' /\ AgendaOK' /\ CatchOK' /\ DownOK'
    <3>1. CASE Then(<<>>)
      BY <1>4, <1>5, <1>13, <2>1, <3>1, NothingMore, Carried
    <3>2. CASE Then(one)
      BY <1>4, <1>5, <1>8, <1>13, <2>1, <3>2, Carried
    <3> QED BY <1>13, <3>1, <3>2
  <2>3. TypeOK'
    BY <1>4, <1>5, <1>13, <2>2 DEF TypeOK
  <2> QED BY <2>1, <2>2, <2>3 DEF UpdateInv
<1> QED BY <1>3, <1>10, <1>11, <1>12, <1>13 DEF Perform, one

LEMMA ReleaseStep ==
  ASSUME UpdateInv, Release
  PROVE  UpdateInv' /\ StepFits
<1>1. PICK c : c = Head(agenda)
  OBVIOUS
<1>2. agenda # <<>> /\ c[1] = "release" /\ Arg = c[2]
  BY <1>1 DEF Release, Calls, Arg
<1>3. PICK j \in Jobs : j = Arg
  BY <1>1, <1>2, CallHead, CallParts
<1>4. TypeOK /\ Up /\ PendingOK
  BY <1>1, <1>2, CallHead DEF UpdateInv
<1>5. UNCHANGED <<estate, update, stops, row, plan, phase, open, kept, meanwhile, queue, catchUp>>
  BY DEF Release, counts
<1>6. (Up' => Up) /\ (Stopping' => Stopping)
  BY <1>5 DEF Up, Stopping
<1>7. CASE UNCHANGED <<pending, life, tier>> /\ (Then(<<>>) \/ \E a \in Attempts : Then(<<<<"perform", a>>>>))
  <2>1. /\ \A b \in Attempts : AttemptOK(b)' /\ RunOK(b)'
        /\ PendingOK' /\ Onward /\ StepFits
    BY <1>5, <1>6, <1>7, Unmoved
  <2>2. /\ agenda' \in Seq(CallSet)
        /\ StopsOK' /\ MeanwhileOK' /\ QueueOK' /\ AgendaOK' /\ CatchOK' /\ DownOK'
    <3>1. CASE Then(<<>>)
      BY <1>4, <1>5, <1>7, <2>1, <3>1, NothingMore, Carried
    <3>2. ASSUME NEW a \in Attempts, Then(<<<<"perform", a>>>>)
          PROVE  /\ agenda' \in Seq(CallSet)
                 /\ StopsOK' /\ MeanwhileOK' /\ QueueOK' /\ AgendaOK' /\ CatchOK' /\ DownOK'
      <4>1. PICK d : d = <<"perform", a>>
        OBVIOUS
      <4>2. d \in CallSet /\ d[1] = "perform"
        BY <4>1, CallMade
      <4>3. <<d>> \in Seq(CallSet) /\ \A i \in DOMAIN <<d>> : <<d>>[i][1] \in {"perform", "release"}
        BY <4>2, OneMore
      <4> QED BY <1>4, <1>5, <1>7, <2>1, <3>2, <4>1, <4>3, Carried
    <3> QED BY <1>7, <3>1, <3>2
  <2>3. TypeOK'
    BY <1>4, <1>5, <1>7, <2>2 DEF TypeOK
  <2> QED BY <2>1, <2>2, <2>3 DEF UpdateInv
<1>8. CASE /\ ~MustWait(j, None) /\ j \in pending /\ pending' = pending \ {j} /\ Wanted(FirstRun(j))
           /\ Launch(FirstRun(j)) /\ Then(<<>>)
  <2>1. PICK r : r = FirstRun(j)
    OBVIOUS
  <2>2. row[j].run \in 1..MaxRuns /\ life[r] = "never"
    <3>1. row[j].run \in 0..MaxRuns /\ row[j].run >= 1
      BY <1>4, <1>8 DEF PendingOK, TypeOK
    <3> QED BY <1>4, <1>8, <2>1, <3>1 DEF PendingOK
  <2>3. PICK n \in 1..MaxRuns : n = row[j].run
    BY <2>2
  <2>4. r \in Attempts /\ JobOf(r) = j /\ r[1] = j /\ r[2] = n /\ r[3] = 1
    BY <2>1, <2>3, FirstMade DEF FirstRun
  <2>5. LaunchFits(r)
    <3>1. j \notin Removed
      BY <1>8, <2>1, <2>4 DEF Wanted
    <3> QED BY <1>8, <2>4, <3>1, NotInTheWay
  <2>6. \A k \in pending' : FirstRun(k) # r
    <3>1. \A k \in pending' : k # j /\ FirstRun(k)[1] = k
      BY <1>8 DEF FirstRun
    <3> QED BY <2>4, <3>1
  <2>7. /\ Launch(r) /\ r[2] <= row[JobOf(r)].run /\ pending' \subseteq pending
        /\ r[3] = 2 => plan'[<<r[1], r[2], 1>>] = "done"
        /\ plan' \in [Attempts -> Plans]
        /\ \A b \in Attempts : plan'[b] = plan[b] \/ (plan[b] = "rerun" /\ plan'[b] = "done")
    <3>1. row[JobOf(r)].run = n /\ n \in Nat
      BY <2>3, <2>4
    <3>2. r[2] <= row[JobOf(r)].run
      BY <2>4, <3>1
    <3>3. plan' \in [Attempts -> Plans]
      BY <1>4, <1>5 DEF TypeOK
    <3>4. r[3] # 2
      BY <2>4
    <3> QED BY <1>5, <1>8, <2>1, <3>2, <3>3, <3>4
  <2>8. /\ life' \in [Attempts -> {"never", "open", "closing", "closed"}]
        /\ tier' \in [Attempts -> Tiers]
        /\ \A b \in Attempts : AttemptOK(b)' /\ RunOK(b)'
        /\ PendingOK' /\ Onward /\ StepFits
        /\ \A b \in Attempts : tier[b] = "cancelled" => tier'[b] = "cancelled"
    BY <1>5, <2>2, <2>4, <2>5, <2>6, <2>7, LaunchFacts
  <2>9. /\ agenda' \in Seq(CallSet)
        /\ StopsOK' /\ MeanwhileOK' /\ QueueOK' /\ AgendaOK' /\ CatchOK' /\ DownOK'
    BY <1>4, <1>5, <1>8, <2>8, NothingMore, Carried
  <2>10. TypeOK'
    BY <1>4, <1>5, <1>8, <2>8, <2>9 DEF TypeOK
  <2> QED BY <2>8, <2>9, <2>10 DEF UpdateInv
<1>9. CASE pending' = pending \ {j} /\ UNCHANGED <<life, tier>> /\ Then(<<>>)
  <2>1. /\ \A b \in Attempts : AttemptOK(b)' /\ RunOK(b)' /\ PlanFits(b) /\ LifeFits(b)
    BY <1>5, <1>9, SameAttempt DEF UpdateInv, RunOK, PlanFits, LifeFits, Up
  <2>2. PendingOK'
    BY <1>4, <1>5, <1>9 DEF PendingOK, FirstRun
  <2>3. Onward
    BY <1>5, <1>9 DEF Onward, Finished, Stopping
  <2>4. /\ agenda' \in Seq(CallSet)
        /\ StopsOK' /\ MeanwhileOK' /\ QueueOK' /\ AgendaOK' /\ CatchOK' /\ DownOK'
    BY <1>4, <1>5, <1>9, <2>3, NothingMore, Carried
  <2>5. TypeOK'
    BY <1>4, <1>5, <1>9, <2>4 DEF TypeOK
  <2> QED BY <2>1, <2>2, <2>4, <2>5 DEF UpdateInv, StepFits
<1> QED BY <1>3, <1>7, <1>8, <1>9 DEF Release, Waiting

LEMMA LastCall ==
  ASSUME UpdateInv, agenda # <<>>, Head(agenda)[1] \in {"settle", "apply"},
         NEW calls \in Seq(CallSet), Then(calls)
  PROVE  agenda' = calls
<1>1. agenda \in Seq(CallSet) /\ LastOK /\ TypeOK
  BY DEF UpdateInv, TypeOK, AgendaOK
<1>2. 1 \in DOMAIN agenda /\ Head(agenda) = agenda[1]
  BY <1>1
<1>3. Len(agenda) = 1
  BY <1>1, <1>2 DEF LastOK
<1>4. Tail(agenda) \in Seq(CallSet) /\ Len(Tail(agenda)) = 0
  BY <1>1, <1>3
<1>5. Tail(agenda) = <<>>
  BY <1>4, EmptySeq
<1>6. agenda' = calls \o <<>>
  BY <1>5 DEF Then
<1> QED BY <1>6, ConcatEmptySeq

LEMMA SettleStep ==
  ASSUME UpdateInv, Settle
  PROVE  UpdateInv' /\ StepFits
<1>1. PICK c : c = Head(agenda)
  OBVIOUS
<1>2. agenda # <<>> /\ c[1] = "settle"
  BY <1>1 DEF Settle, Calls
<1>3. TypeOK /\ Up /\ NothingFound /\ QueueOK /\ StopsOK /\ MeanwhileOK /\ CatchOK
  BY <1>1, <1>2, CallHead DEF Due, UpdateInv
<1>4. UNCHANGED <<estate, update, stops, row, life, plan, pending, phase, tier, open, kept, meanwhile,
                  queue, catchUp>>
  BY DEF Settle, counts, store, memory
<1>5. (Up' => Up) /\ (Stopping' => Stopping) /\ PhaseKept /\ Up'
  BY <1>3, <1>4 DEF PhaseKept, Up, Stopping
<1>6. /\ \A b \in Attempts : AttemptOK(b)' /\ RunOK(b)'
      /\ PendingOK' /\ Onward /\ StepFits
  BY <1>4, <1>5, Unmoved
<1>7. agenda' \in Seq(CallSet) /\ AgendaOK'
  <2>1. CASE Stopping /\ open = {}
    <3>1. PICK x, y : x = <<"box ends">> /\ y = <<"apply">>
      OBVIOUS
    <3>2. <<x, y>> \in Seq(CallSet) /\ Then(<<x, y>>)
      <4>1. x \in CallSet /\ y \in CallSet
        BY <3>1, CallMade
      <4>2. <<x, y>> \in Seq(CallSet)
        BY ONLY <4>1
      <4>3. Then(<<x, y>>)
        BY <2>1, <3>1, Zenon DEF Settle
      <4> QED BY <4>2, <4>3
    <3>3. agenda' = <<x, y>>
      BY <1>1, <1>2, <3>2, LastCall
    <3>4. /\ Len(agenda') = 2 /\ DOMAIN agenda' = 1..2
          /\ agenda'[1][1] = "box ends" /\ agenda'[2][1] = "apply"
      <4>1. x[1] = "box ends" /\ y[1] = "apply"
        BY <3>1
      <4>2. Len(agenda') = 2 /\ DOMAIN agenda' = 1..2 /\ agenda'[1] = x /\ agenda'[2] = y
        BY <3>3
      <4> QED BY <4>1, <4>2
    <3>5. NothingFound' /\ Stopping' /\ open' = {}
      BY <1>3, <1>4, <2>1 DEF NothingFound, Stopping
    <3>6. ASSUME NEW i \in DOMAIN agenda'
          PROVE  /\ agenda'[i][1] \in {"box ends", "apply"} /\ (agenda'[i][1] = "apply" => i = 2)
                 /\ Due(agenda[i])'
      <4>1. i = 1 \/ i = 2
        <5>1. \A k \in 1..2 : k = 1 \/ k = 2
          BY ONLY TRUE
        <5> QED BY <3>4, <5>1
      <4>2. agenda'[i][1] \in {"box ends", "apply"} /\ (agenda'[i][1] = "apply" => i = 2)
        BY <3>4, <4>1
      <4> QED BY <3>5, <4>2 DEF Due
    <3> QED BY <3>2, <3>3, <3>4, <3>6 DEF AgendaOK, DueOK, LastOK, OnceOK
  <2>2. CASE ~(Stopping /\ open = {})
    <3>1. Then(<<>>)
      BY <2>2 DEF Settle
    <3>2. agenda' = <<>>
      BY <1>1, <1>2, <3>1, NothingMore, LastCall
    <3> QED BY <3>2 DEF AgendaOK, DueOK, LastOK, OnceOK
  <2> QED BY <2>1, <2>2
<1>8. StopsOK' /\ MeanwhileOK' /\ QueueOK'
  BY <1>3, <1>4, <1>5, <1>6, StopsOnward, MeanwhileOnward, QueueStays
<1>9. CatchOK' /\ DownOK'
  BY <1>3, <1>4, <1>5 DEF CatchOK, DownOK, Up
<1>10. TypeOK'
  BY <1>3, <1>4, <1>7 DEF TypeOK
<1> QED BY <1>6, <1>7, <1>8, <1>9, <1>10 DEF UpdateInv

LEMMA StopCallStep ==
  ASSUME UpdateInv, Stop
  PROVE  UpdateInv' /\ StepFits
<1>1. PICK c : c = Head(agenda)
  OBVIOUS
<1>2. agenda # <<>> /\ c[1] = "stop" /\ Arg = c[2]
  BY <1>1 DEF Stop, Calls, Arg
<1>3. PICK j \in Jobs : j = Arg /\ j \in DOMAIN stops
  BY <1>1, <1>2, CallHead, CallParts DEF Due
<1>4. PICK a : a = stops[j]
  OBVIOUS
<1>5. /\ TypeOK /\ Up /\ StopsOK /\ MeanwhileOK /\ QueueOK /\ AgendaOK /\ CatchOK /\ PendingOK
      /\ \A b \in Attempts : AttemptOK(b) /\ RunOK(b)
  BY <1>1, <1>2, CallHead DEF UpdateInv
<1>6. /\ Then(<<>>)
      /\ UNCHANGED <<estate, update, stops, row, life, plan, pending, phase, kept, meanwhile, queue, catchUp>>
  BY DEF Stop, counts, store
<1>7. a # None => a \in Attempts /\ JobOf(a) = j
  BY <1>3, <1>4, <1>5 DEF TypeOK
<1>8. /\ tier' \in [Attempts -> Tiers]
      /\ \A b \in Attempts :
           \/ tier'[b] = tier[b]
           \/ tier[b] = "live" /\ tier'[b] = "stopping" /\ JobOf(b) \notin estate.watches
           \/ tier[b] = "live" /\ tier'[b] = "cancelled" /\ JobOf(b) \in estate.watches
      /\ open' \subseteq open
      /\ \A k \in open \ open' : k = j /\ ~(a # None /\ j \notin estate.watches /\ tier[a] \in {"live", "stopping", "busy"})
  <2>0. tier \in [Attempts -> Tiers]
    BY <1>5 DEF TypeOK
  <2>1. CASE /\ a # None /\ j \notin estate.watches /\ tier[a] \in {"live", "stopping", "busy"}
             /\ tier' = [tier EXCEPT ![a] = IF @ = "live" THEN "stopping" ELSE @] /\ UNCHANGED open
    BY <1>7, <2>0, <2>1 DEF Tiers
  <2>2. CASE /\ ~(a # None /\ j \notin estate.watches /\ tier[a] \in {"live", "stopping", "busy"})
             /\ tier' = IF a # None /\ tier[a] = "live" THEN [tier EXCEPT ![a] = "cancelled"] ELSE tier
             /\ open' = open \ {j}
    <3>1. CASE a # None /\ tier[a] = "live"
      <4>1. tier' = [tier EXCEPT ![a] = "cancelled"] /\ j \in estate.watches
        BY <2>2, <3>1
      <4> QED BY <1>7, <2>0, <2>2, <3>1, <4>1 DEF Tiers
    <3>2. CASE ~(a # None /\ tier[a] = "live")
      BY <2>0, <2>2, <3>2
    <3> QED BY <3>1, <3>2
  <2> QED BY <1>3, <1>4, <2>1, <2>2 DEF Stop
<1>9. ASSUME NEW b \in Attempts
      PROVE  /\ AttemptOK(b)' /\ (tier[b] = "cancelled" => tier'[b] = "cancelled")
             /\ (Finished(b) => Finished(b)') /\ RunOK(b)' /\ PlanFits(b) /\ LifeFits(b)
  <2>1. AttemptOK(b) /\ RunOK(b)
    BY <1>5
  <2>2. AttemptOK(b)' /\ (tier[b] = "cancelled" => tier'[b] = "cancelled") /\ (Finished(b) => Finished(b)')
    <3>1. CASE tier'[b] = tier[b]
      BY <1>6, <2>1, <3>1 DEF AttemptOK, Finished, Up
    <3>2. CASE tier[b] = "live" /\ tier'[b] = "stopping" /\ JobOf(b) \notin estate.watches
      BY <1>6, <2>1, <3>2 DEF AttemptOK, Finished, Up
    <3>3. CASE tier[b] = "live" /\ tier'[b] = "cancelled" /\ JobOf(b) \in estate.watches
      BY <1>6, <2>1, <3>3 DEF AttemptOK, Finished, Up
    <3> QED BY <1>8, <3>1, <3>2, <3>3
  <2>3. RunOK(b)' /\ PlanFits(b) /\ LifeFits(b)
    BY <1>6, <2>1 DEF RunOK, PlanFits, LifeFits
  <2> QED BY <2>2, <2>3
<1>10. Onward /\ PhaseKept /\ Up' /\ (Up' => Up) /\ (Stopping' <=> Stopping)
  BY <1>5, <1>6, <1>9 DEF Onward, PhaseKept, Up, Stopping
<1>11. StopsOK'
  <2>1. ASSUME Stopping', NEW k \in open \ open', k \in DOMAIN stops \ estate.watches, Interrupted(k)
        PROVE  Finished(stops[k])'
    <3>1. /\ k = j /\ a # None /\ a \in Attempts /\ JobOf(a) = j
          /\ tier[a] \notin {"live", "stopping", "busy"} /\ j \notin estate.watches
      BY <1>4, <1>7, <1>8, <2>1 DEF Interrupted
    <3>2. life[a] # "never" /\ AttemptOK(a)
      BY <1>4, <1>5, <1>10, <2>1, <3>1 DEF StopsOK
    <3>3. Finished(a)
      <4>1. tier[a] \in {"ended", "cancelled", "unknown"}
        BY <1>5, <3>1 DEF TypeOK, Tiers
      <4>2. life[a] \in {"open", "closing", "closed"}
        BY <1>5, <3>1, <3>2 DEF TypeOK
      <4> QED BY <1>5, <3>1, <3>2, <4>1, <4>2 DEF AttemptOK, Finished
    <3>4. Finished(a)'
      BY <1>9, <3>1, <3>3
    <3> QED BY <1>4, <1>6, <3>1, <3>4
  <2> QED BY <1>5, <1>8, <1>10, <2>1, StopsOnward
<1>12. MeanwhileOK' /\ QueueOK'
  <2>1. \A k \in meanwhile' \ meanwhile : update' # "none" /\ (Stopping' => Ended(k)')
    BY <1>6
  <2> QED BY <1>5, <1>6, <1>10, <2>1, MeanwhileOnward, QueueStays
<1>13. agenda' \in Seq(CallSet) /\ AgendaOK'
  <2>1. ASSUME NEW i \in DOMAIN agenda \ {1}, NEW d, d = agenda[i]  PROVE Due(d)'
    <3>1. Due(d) /\ d \in CallSet
      <4>1. agenda \in Seq(CallSet)
        BY <1>5 DEF TypeOK
      <4>2. agenda[i] \in CallSet
        BY <4>1
      <4> QED BY <1>5, <2>1, <4>2 DEF AgendaOK, DueOK
    <3>2. d[1] = "resume" => d[2] \in Attempts /\ tier'[d[2]] = "cancelled"
      BY <1>9, <3>1, CallParts DEF Due
    <3>3. (NothingFound => NothingFound') /\ (open = {} => open' = {})
      BY <1>6, <1>8 DEF NothingFound
    <3> QED BY <1>6, <1>10, <3>1, <3>2, <3>3 DEF Due
  <2> QED BY <1>5, <1>6, <2>1, NothingMore, AgendaGoesOn
<1>14. CatchOK' /\ DownOK' /\ PendingOK'
  BY <1>5, <1>6, <1>10 DEF CatchOK, DownOK, Up, PendingOK, FirstRun
<1>15. TypeOK'
  <2>1. open' \in SUBSET Jobs
    BY <1>5, <1>8 DEF TypeOK
  <2> QED BY <1>5, <1>6, <1>8, <1>13, <2>1 DEF TypeOK
<1> QED BY <1>9, <1>11, <1>12, <1>13, <1>14, <1>15 DEF UpdateInv, StepFits

-----------------------------------------------------------------------------
(* The application and what it leaves to do.                                *)

Once(q) == \A i, k \in DOMAIN q :
  q[i][1] \in {"commit", "resume"} /\ q[k][1] = q[i][1] /\ q[k][2] = q[i][2] => i = k

LEMMA Joined ==
  ASSUME NEW S, NEW T, NEW s \in Seq(S), NEW t \in Seq(T), Once(s), Once(t),
         \A x \in S, y \in T : ~(x[1] \in {"commit", "resume"} /\ y[1] = x[1])
  PROVE  s \o t \in Seq(S \cup T) /\ Once(s \o t)
<1> DEFINE U == S \cup T
<1>1. s \in Seq(U) /\ t \in Seq(U)
  BY SeqMonotonic
<1>2. PICK r : r = s \o t
  OBVIOUS
<1>3. /\ r \in Seq(U) /\ Len(r) = Len(s) + Len(t)
      /\ \A i \in 1..(Len(s) + Len(t)) : r[i] = IF i <= Len(s) THEN s[i] ELSE t[i - Len(s)]
  BY <1>1, <1>2, ConcatProperties
<1>4. /\ Len(s) \in Nat /\ Len(t) \in Nat /\ DOMAIN r = 1..(Len(s) + Len(t))
      /\ DOMAIN s = 1..Len(s) /\ DOMAIN t = 1..Len(t)
  BY <1>3, LenProperties
<1>5. ASSUME NEW i \in DOMAIN r
      PROVE  /\ i \in Nat
             /\ \/ i \in DOMAIN s /\ r[i] = s[i] /\ s[i] \in S
                \/ i - Len(s) \in DOMAIN t /\ r[i] = t[i - Len(s)] /\ t[i - Len(s)] \in T
  <2>1. i \in Nat /\ i >= 1 /\ i <= Len(s) + Len(t)
    BY <1>4
  <2>2. CASE i <= Len(s)
    <3>1. i \in 1..Len(s) /\ r[i] = s[i]
      BY <1>3, <1>4, <2>1, <2>2
    <3> QED BY <1>4, <2>1, <3>1, ElementOfSeq
  <2>3. CASE ~(i <= Len(s))
    <3>1. i - Len(s) \in 1..Len(t) /\ r[i] = t[i - Len(s)]
      BY <1>3, <1>4, <2>1, <2>3
    <3> QED BY <1>4, <2>1, <3>1, ElementOfSeq
  <2> QED BY <2>2, <2>3
<1>6. Once(r)
  <2> SUFFICES ASSUME NEW i \in DOMAIN r, NEW k \in DOMAIN r, r[i][1] \in {"commit", "resume"},
                      r[k][1] = r[i][1], r[k][2] = r[i][2]
               PROVE  i = k
    BY DEF Once
  <2>1. i \in Nat /\ k \in Nat
    BY <1>5
  <2>2. CASE i \in DOMAIN s /\ r[i] = s[i] /\ s[i] \in S
    <3>1. k \in DOMAIN s /\ r[k] = s[k]
      BY <1>5, <2>2
    <3> QED BY <2>2, <3>1 DEF Once
  <2>3. CASE i - Len(s) \in DOMAIN t /\ r[i] = t[i - Len(s)] /\ t[i - Len(s)] \in T
    <3>1. k - Len(s) \in DOMAIN t /\ r[k] = t[k - Len(s)]
      BY <1>5, <2>3
    <3>2. i - Len(s) = k - Len(s)
      BY <2>3, <3>1 DEF Once
    <3> QED BY <1>4, <2>1, <3>2
  <2> QED BY <1>5, <2>2, <2>3
<1> QED BY <1>2, <1>3, <1>6

LEMMA InOrderFacts ==
  ASSUME NEW S, IsFiniteSet(S), NEW T, NEW f \in [S -> T],
         \A x \in S : f[x][2] = x,
         NEW q, q = [i \in DOMAIN SetToSeq(S) |-> f[SetToSeq(S)[i]]]
  PROVE  q \in Seq(T) /\ Once(q)
<1>1. PICK n, s : n = Cardinality(S) /\ s = SetToSeq(S)
  OBVIOUS
<1>2. n \in Nat /\ s \in [1..n -> S] /\ \A i, k \in 1..n : s[i] = s[k] => i = k
  BY <1>1, Listed
<1>3. q = [i \in 1..n |-> f[s[i]]]
  BY <1>1, <1>2
<1>4. q \in [1..n -> T]
  BY <1>2, <1>3
<1>5. q \in Seq(T)
  BY <1>2, <1>4, SeqDef
<1>6. ASSUME NEW i \in 1..n, NEW k \in 1..n, q[k][2] = q[i][2]  PROVE i = k
  <2>1. s[i] \in S /\ s[k] \in S /\ q[i] = f[s[i]] /\ q[k] = f[s[k]]
    BY <1>2, <1>3
  <2>2. s[i] = s[k]
    BY <1>6, <2>1
  <2> QED BY <1>2, <2>2
<1>7. DOMAIN q = 1..n
  BY <1>3
<1> QED BY <1>5, <1>6, <1>7 DEF Once

\* The calls of an application: each fits what it finds.
LEMMA ApplyCalls ==
  ASSUME UpdateInv, Apply
  PROVE  agenda' \in Seq(CallSet) /\ AgendaOK'
<1>1. PICK c : c = Head(agenda)
  OBVIOUS
<1>2. agenda # <<>> /\ c[1] = "apply"
  BY <1>1 DEF Apply, Calls
<1>3. TypeOK /\ \A a \in Attempts : AttemptOK(a)
  BY DEF UpdateInv
<1> DEFINE stays(a) == Wanted(a) /\ JobOf(a) \notin estate.removed
           choice(a) == PlanFor(a, kept[a], estate.newMarks, stays(a))
           comm == [a \in KeptBack |-> <<"commit", a, choice(a)>>]
           resu == [a \in Cancelled |-> <<"resume", a, stays(a)>>]
           rele == [j \in Filtered |-> <<"release", j>>]
           first == <<<<"advance">>, <<"box starts">>>>
           q1 == [i \in DOMAIN SetToSeq(KeptBack) |-> comm[SetToSeq(KeptBack)[i]]]
           q2 == [i \in DOMAIN SetToSeq(Cancelled) |-> resu[SetToSeq(Cancelled)[i]]]
           q3 == [i \in DOMAIN SetToSeq(Filtered) |-> rele[SetToSeq(Filtered)[i]]]
           last == <<<<"answer">>>>
           S1 == {<<"advance">>, <<"box starts">>}
           S2 == {<<"commit", a, choice(a)>> : a \in KeptBack}
           S3 == {<<"resume", a, stays(a)>> : a \in Cancelled}
           S4 == {<<"release", j>> : j \in Filtered}
           S5 == {<<"answer">>}
<1>4. /\ KeptBack \subseteq Attempts /\ Cancelled \subseteq Attempts /\ Filtered \subseteq Jobs
      /\ IsFiniteSet(KeptBack) /\ IsFiniteSet(Cancelled) /\ IsFiniteSet(Filtered)
  <2>1. KeptBack \subseteq Attempts /\ Cancelled \subseteq Attempts /\ Filtered \subseteq Jobs
    BY <1>3, UpdateAssumption DEF KeptBack, Cancelled, Filtered, TypeOK
  <2> QED BY <2>1, AttemptsFinite, FS_Subset
<1>5. \A a \in Attempts : /\ choice(a) \in {"feed", "nothing", "hold", "rerun"}
                          /\ choice(a) = "rerun" => a[3] = 1
                          /\ stays(a) \in BOOLEAN
  <2> SUFFICES ASSUME NEW a \in Attempts
               PROVE  /\ choice(a) \in {"feed", "nothing", "hold", "rerun"}
                      /\ choice(a) = "rerun" => a[3] = 1
                      /\ stays(a) \in BOOLEAN
    OBVIOUS
  <2>1. a[3] = 1 \/ a[3] = 2
    <3>1. a[3] \in 1..2
      BY AttemptParts
    <3> QED BY <3>1
  <2>2. choice(a) \in {"feed", "nothing", "hold", "rerun"} /\ (choice(a) = "rerun" => a[3] = 1)
    BY <2>1 DEF PlanFor
  <2> QED BY <2>2
<1>6. Then(first \o q1 \o q2 \o q3 \o last)
  <2>1. \A i \in DOMAIN SetToSeq(KeptBack) : SetToSeq(KeptBack)[i] \in KeptBack
    BY <1>4, Listed
  <2>2. \A i \in DOMAIN SetToSeq(Cancelled) : SetToSeq(Cancelled)[i] \in Cancelled
    BY <1>4, Listed
  <2>3. \A i \in DOMAIN SetToSeq(Filtered) : SetToSeq(Filtered)[i] \in Filtered
    BY <1>4, Listed
  <2>4. q1 = InOrder(KeptBack, LAMBDA a : <<"commit", a, choice(a)>>)
    BY <2>1 DEF InOrder
  <2>5. q2 = InOrder(Cancelled, LAMBDA a : <<"resume", a, stays(a)>>)
    BY <2>2 DEF InOrder
  <2>6. q3 = InOrder(Filtered, LAMBDA j : <<"release", j>>)
    BY <2>3 DEF InOrder
  <2> QED BY <2>4, <2>5, <2>6 DEF Apply
<1>7. q1 \in Seq(S2) /\ Once(q1)
  <2>1. comm \in [KeptBack -> S2] /\ \A a \in KeptBack : comm[a][2] = a
    OBVIOUS
  <2>2. PICK f, T, s : f = comm /\ T = S2 /\ s = q1
    OBVIOUS
  <2>3. f \in [KeptBack -> T] /\ \A x \in KeptBack : f[x][2] = x
    BY <2>1, <2>2
  <2>4. s = [i \in DOMAIN SetToSeq(KeptBack) |-> f[SetToSeq(KeptBack)[i]]]
    BY <2>2
  <2>5. s \in Seq(T) /\ Once(s)
    BY ONLY <1>4, <2>3, <2>4, InOrderFacts
  <2> QED BY ONLY <2>2, <2>5, Zenon
<1>8. q2 \in Seq(S3) /\ Once(q2)
  <2>1. resu \in [Cancelled -> S3] /\ \A a \in Cancelled : resu[a][2] = a
    OBVIOUS
  <2>2. PICK f, T, s : f = resu /\ T = S3 /\ s = q2
    OBVIOUS
  <2>3. f \in [Cancelled -> T] /\ \A x \in Cancelled : f[x][2] = x
    BY <2>1, <2>2
  <2>4. s = [i \in DOMAIN SetToSeq(Cancelled) |-> f[SetToSeq(Cancelled)[i]]]
    BY <2>2
  <2>5. s \in Seq(T) /\ Once(s)
    BY ONLY <1>4, <2>3, <2>4, InOrderFacts
  <2> QED BY ONLY <2>2, <2>5, Zenon
<1>9. q3 \in Seq(S4) /\ Once(q3)
  <2>1. rele \in [Filtered -> S4] /\ \A j \in Filtered : rele[j][2] = j
    OBVIOUS
  <2>2. PICK f, T, s : f = rele /\ T = S4 /\ s = q3
    OBVIOUS
  <2>3. f \in [Filtered -> T] /\ \A x \in Filtered : f[x][2] = x
    BY <2>1, <2>2
  <2>4. s = [i \in DOMAIN SetToSeq(Filtered) |-> f[SetToSeq(Filtered)[i]]]
    BY <2>2
  <2>5. s \in Seq(T) /\ Once(s)
    BY ONLY <1>4, <2>3, <2>4, InOrderFacts
  <2> QED BY ONLY <2>2, <2>5, Zenon
<1>10. first \in Seq(S1) /\ last \in Seq(S5)
  OBVIOUS
<1>11. /\ \A x \in S1 : x[1] \in {"advance", "box starts"}
       /\ \A x \in S2 : x[1] = "commit"
       /\ \A x \in S3 : x[1] = "resume"
       /\ \A x \in S4 : x[1] = "release"
       /\ \A x \in S5 : x[1] = "answer"
  OBVIOUS
<1>12. Once(first) /\ Once(last)
  <2>1. \A i \in DOMAIN first : first[i] \in S1
    BY <1>10, LenProperties, ElementOfSeq
  <2>2. \A i \in DOMAIN last : last[i] \in S5
    BY <1>10, LenProperties, ElementOfSeq
  <2> QED BY <1>11, <2>1, <2>2 DEF Once
<1> DEFINE D == (((S1 \cup S2) \cup S3) \cup S4) \cup S5
<1>13. ASSUME NEW d \in D
       PROVE  d \in CallSet /\ d[1] \notin {"settle", "apply"} /\ Due(d)'
  <2>0. phase # "catching up"
    BY <1>1, <1>2, CallHead DEF Due, NothingFound
  <2>1. ~Stopping' /\ kept' = kept /\ tier' = tier /\ phase' # "catching up"
    BY <2>0 DEF Apply, Stopping, memory
  <2>2. CASE d \in S2
    <3>1. PICK a \in KeptBack : d = <<"commit", a, choice(a)>>
      BY <2>2
    <3>2. /\ a \in Attempts /\ kept[a] # "no" /\ choice(a) \in {"feed", "nothing", "hold", "rerun"}
          /\ (choice(a) = "rerun" => a[3] = 1)
      BY <1>4, <1>5 DEF KeptBack
    <3>3. PICK p : p = choice(a)
      OBVIOUS
    <3>4. p \in {"feed", "nothing", "hold", "rerun"} /\ (p = "rerun" => a[3] = 1) /\ p \in Plans
      BY <3>2, <3>3 DEF Plans
    <3>5. d \in CallSet /\ d[1] = "commit" /\ d[2] = a /\ d[3] = p
      BY <3>1, <3>2, <3>3, <3>4, CallMade
    <3> QED BY <2>1, <3>2, <3>4, <3>5 DEF Due
  <2>3. CASE d \in S3
    <3>1. PICK a \in Cancelled : d = <<"resume", a, stays(a)>>
      BY <2>3
    <3>2. PICK b \in BOOLEAN : b = stays(a)
      OBVIOUS
    <3>3. a \in Attempts /\ tier[a] = "cancelled"
      BY DEF Cancelled
    <3>4. d \in CallSet /\ d[1] = "resume" /\ d[2] = a
      BY <3>1, <3>2, <3>3 DEF CallSet
    <3> QED BY <2>1, <3>3, <3>4 DEF Due
  <2>4. CASE d \in S4
    <3>1. PICK j \in Filtered : d = <<"release", j>>
      BY <2>4
    <3>2. d \in CallSet /\ d[1] = "release"
      BY <1>4, <3>1, CallMade
    <3> QED BY <3>2 DEF Due
  <2>5. CASE d \in S1 \cup S5
    <3>1. d \in CallSet /\ d[1] \in {"advance", "box starts", "answer"}
      BY <1>11, <2>5, CallMade
    <3> QED BY <3>1 DEF Due
  <2> QED BY <2>2, <2>3, <2>4, <2>5
<1> HIDE DEF comm, resu, rele, first, last, q1, q2, q3, S1, S2, S3, S4, S5
<1> DEFINE Apart(S, T) == \A x \in S, y \in T : ~(x[1] \in {"commit", "resume"} /\ y[1] = x[1])
<1>a. /\ Apart(S1, S2) /\ Apart(S1 \cup S2, S3)
      /\ Apart((S1 \cup S2) \cup S3, S4) /\ Apart(((S1 \cup S2) \cup S3) \cup S4, S5)
  <2>1. \A x \in S1 : x[1] \notin {"commit", "resume"}
    BY <1>11
  <2>2. \A x \in S4 \cup S5 : x[1] \notin {"commit", "resume"}
    BY <1>11
  <2>3. \A x \in S2, y \in S3 : x[1] # y[1]
    BY <1>11
  <2> QED BY <2>1, <2>2, <2>3
<1>14. first \o q1 \in Seq(S1 \cup S2) /\ Once(first \o q1)
  BY ONLY <1>7, <1>10, <1>a, <1>12, Joined
<1>15. (first \o q1) \o q2 \in Seq((S1 \cup S2) \cup S3) /\ Once((first \o q1) \o q2)
  BY ONLY <1>8, <1>a, <1>14, Joined
<1>16. /\ ((first \o q1) \o q2) \o q3 \in Seq(((S1 \cup S2) \cup S3) \cup S4)
       /\ Once(((first \o q1) \o q2) \o q3)
  BY ONLY <1>9, <1>a, <1>15, Joined
<1>17. PICK r : r = (((first \o q1) \o q2) \o q3) \o last
  OBVIOUS
<1>18. r \in Seq(D) /\ Once(r)
  <2>1. /\ (((first \o q1) \o q2) \o q3) \o last \in Seq(D)
        /\ Once((((first \o q1) \o q2) \o q3) \o last)
    BY ONLY <1>10, <1>a, <1>12, <1>16, Joined, ZenonT(40)
  <2> QED BY <1>17, <2>1
<1>19. r \in Seq(CallSet) /\ Then(r)
  <2>1. D \subseteq CallSet
    BY <1>13
  <2> QED BY <1>6, <1>17, <1>18, <2>1, SeqMonotonic
<1>20. agenda' = r
  BY <1>1, <1>2, <1>19, LastCall
<1>21. ASSUME NEW i \in DOMAIN r, NEW d, d = r[i]  PROVE d[1] \notin {"settle", "apply"} /\ Due(d)'
  <2>1. d \in D
    BY <1>18, <1>21, LenProperties, ElementOfSeq
  <2> QED BY <1>13, <2>1
<1>22. DueOK' /\ LastOK'
  BY <1>20, <1>21 DEF DueOK, LastOK
<1>23. OnceOK'
  BY <1>18, <1>20 DEF Once, OnceOK
<1> QED BY <1>19, <1>20, <1>22, <1>23 DEF AgendaOK

LEMMA ApplyStep ==
  ASSUME UpdateInv, Apply
  PROVE  UpdateInv' /\ StepFits
<1>1. /\ TypeOK /\ Up /\ StopsOK /\ MeanwhileOK /\ QueueOK /\ CatchOK
      /\ agenda' \in Seq(CallSet) /\ AgendaOK'
  BY ApplyCalls, CallIsUp DEF UpdateInv, Apply, Calls
<1>2. /\ update' = "applied"
      /\ UNCHANGED <<estate, stops, life, plan, pending, phase, tier, open, kept, meanwhile, queue, catchUp>>
  BY DEF Apply, memory, counts
<1>3. /\ row' \in [Jobs -> [run : 0..MaxRuns, live : BOOLEAN]]
      /\ \A j \in Jobs : row'[j].run = row[j].run
  <2>1. \A j \in Jobs : row[j] \in [run : 0..MaxRuns, live : BOOLEAN]
    BY <1>1 DEF TypeOK
  <2>2. row' = [j \in Jobs |-> IF j \in estate.removed THEN [row[j] EXCEPT !.live = FALSE] ELSE row[j]]
    BY DEF Apply
  <2> QED BY <2>1, <2>2
<1>4. ~Stopping' /\ update' # "none" /\ (Up' => Up) /\ Up' /\ PhaseKept
  BY <1>1, <1>2 DEF Stopping, Up, PhaseKept
<1>5. /\ \A b \in Attempts : AttemptOK(b)' /\ RunOK(b)'
      /\ PendingOK' /\ Onward /\ StepFits
  BY <1>2, <1>3, <1>4, Unmoved
<1>6. StopsOK'
  BY <1>4 DEF StopsOK
<1>7. MeanwhileOK' /\ QueueOK'
  <2>1. \A k \in meanwhile' \ meanwhile : update' # "none" /\ (Stopping' => Ended(k)')
    BY <1>2
  <2> QED BY <1>1, <1>2, <1>4, <1>5, <2>1, MeanwhileOnward, QueueStays
<1>8. CatchOK' /\ DownOK'
  BY <1>1, <1>2, <1>4 DEF CatchOK, DownOK, Up
<1>9. TypeOK'
  BY <1>1, <1>2, <1>3 DEF TypeOK
<1> QED BY <1>1, <1>5, <1>6, <1>7, <1>8, <1>9 DEF UpdateInv

\* A commit and a resumption are of an attempt no other call is of.
LEMMA OnlyThis ==
  ASSUME UpdateInv, agenda # <<>>, NEW c, c = Head(agenda), c[1] \in {"commit", "resume"},
         NEW i \in DOMAIN agenda \ {1}, NEW d, d = agenda[i]
  PROVE  d \in CallSet /\ Due(d) /\ ~(d[1] = c[1] /\ d[2] = c[2])
<1>1. TypeOK /\ AgendaOK /\ agenda \in Seq(CallSet)
  BY DEF UpdateInv, TypeOK
<1>2. c = agenda[1] /\ 1 \in DOMAIN agenda
  BY <1>1, HeadFacts
<1>3. d \in CallSet /\ Due(d)
  <2>1. agenda[i] \in CallSet
    BY <1>1
  <2> QED BY <1>1, <2>1 DEF AgendaOK, DueOK
<1>4. ~(d[1] = c[1] /\ d[2] = c[2])
  BY <1>1, <1>2 DEF AgendaOK, OnceOK
<1> QED BY <1>3, <1>4

LEMMA CommitKeptStep ==
  ASSUME UpdateInv, CommitKept
  PROVE  UpdateInv' /\ StepFits
<1>1. PICK c : c = Head(agenda)
  OBVIOUS
<1>2. agenda # <<>> /\ c[1] = "commit" /\ Arg = c[2]
  BY <1>1 DEF CommitKept, Calls, Arg
<1>3. PICK a \in Attempts, p \in Plans : a = Arg /\ p = c[3]
  BY <1>1, <1>2, CallHead, CallParts
<1>4. /\ kept[a] # "no" /\ ~Stopping /\ p \in {"feed", "hold", "rerun", "nothing"}
      /\ p = "rerun" => a[3] = 1
  BY <1>1, <1>2, <1>3, CallHead DEF Due
<1>5. /\ TypeOK /\ Up /\ StopsOK /\ MeanwhileOK /\ QueueOK /\ AgendaOK /\ CatchOK /\ PendingOK
      /\ \A b \in Attempts : AttemptOK(b) /\ RunOK(b)
  BY <1>1, <1>2, CallHead DEF UpdateInv
<1>6. UNCHANGED <<estate, update, stops, row, pending, phase, tier, open, meanwhile, queue, catchUp>>
  BY DEF CommitKept, counts
<1>7. /\ plan' = [plan EXCEPT ![a] = p]
      /\ life' = [life EXCEPT ![a] = IF tier[a] = "busy" THEN "closing" ELSE "closed"]
      /\ kept' = [kept EXCEPT ![a] = "no"]
      /\ Then(<<<<"perform", a>>>>)
  BY <1>1, <1>3 DEF CommitKept, Commit
<1>8. /\ plan' \in [Attempts -> Plans] /\ life' \in [Attempts -> {"never", "open", "closing", "closed"}]
      /\ kept' \in [Attempts -> {"no", "natural", "stopped"}]
      /\ plan'[a] = p /\ kept'[a] = "no" /\ life'[a] = IF tier[a] = "busy" THEN "closing" ELSE "closed"
      /\ \A b \in Attempts : b = a \/ (plan'[b] = plan[b] /\ life'[b] = life[b] /\ kept'[b] = kept[b])
  BY <1>5, <1>7 DEF TypeOK
<1>9. life[a] = "open" /\ tier[a] \in {"busy", "ended"} /\ plan[a] = "none"
  BY <1>4, <1>5 DEF AttemptOK
<1>10. ASSUME NEW b \in Attempts
       PROVE  /\ AttemptOK(b)' /\ PlanFits(b) /\ LifeFits(b)
              /\ (plan'[b] = "rerun" => plan[b] = "rerun" \/ b[3] = 1) /\ (plan[b] = "done" => plan'[b] = "done")
              /\ (plan[b] \in {"feed", "hold"} => plan'[b] \in {"feed", "hold", "done"})
              /\ (life[b] # "never" => life'[b] # "never") /\ (life[b] = "never" => life'[b] = "never")
  <2>1. AttemptOK(b)
    BY <1>5
  <2>2. CASE b # a
    BY <1>6, <1>8, <2>1, <2>2 DEF AttemptOK, PlanFits, LifeFits, Up
  <2>3. CASE b = a
    <3>1. life'[b] \in {"closing", "closed"} /\ (tier[b] = "busy" <=> life'[b] = "closing")
      BY <1>8, <2>3
    <3>2. PlanFits(b) /\ LifeFits(b)
      BY <1>4, <1>9, <2>3 DEF PlanFits, LifeFits
    <3>3. b \notin catchUp
      BY <1>4, <2>1, <2>3 DEF AttemptOK
    <3>4. JobOf(b) \in estate.watches => tier[b] # "busy"
      BY <2>1 DEF AttemptOK
    <3>5. plan'[b] = p /\ kept'[b] = "no" /\ tier'[b] = tier[b] /\ p # "none"
      BY <1>4, <1>6, <1>8, <2>3
    <3>6. AttemptOK(b)'
      BY <1>6, <1>9, <2>3, <3>1, <3>3, <3>4, <3>5 DEF AttemptOK, Up
    <3> QED BY <1>4, <1>9, <2>3, <3>1, <3>2, <3>5, <3>6
  <2> QED BY <2>2, <2>3
<1>11. ~Stopping' /\ Up' /\ PhaseKept
  BY <1>4, <1>5, <1>6 DEF Stopping, Up, PhaseKept
<1>12. Onward
  BY <1>6, <1>10, <1>11 DEF Onward
<1>13. \A b \in Attempts : RunOK(b)'
  <2>1. ASSUME NEW j \in Jobs  PROVE row'[j].run \in Nat /\ row'[j].run >= row[j].run
    <3>1. row[j].run \in 0..MaxRuns
      BY <1>5 DEF TypeOK
    <3> QED BY <1>6, <3>1
  <2> QED BY <1>5, <1>10, <1>12, <2>1, RunsOnward
<1>14. PendingOK'
  <2> SUFFICES ASSUME NEW j \in pending  PROVE row[j].run >= 1 /\ life'[<<j, row[j].run, 1>>] = "never"
    BY <1>6 DEF PendingOK, FirstRun
  <2>1. j \in Jobs /\ row[j].run \in 0..MaxRuns
    BY <1>5 DEF TypeOK
  <2>2. row[j].run >= 1 /\ life[<<j, row[j].run, 1>>] = "never"
    BY <1>5 DEF PendingOK, FirstRun
  <2>3. PICK n \in 1..MaxRuns : n = row[j].run
    BY <2>1, <2>2
  <2>4. <<j, n, 1>> \in Attempts
    BY <2>1, FirstMade
  <2> QED BY <1>10, <2>2, <2>3, <2>4
<1>15. agenda' \in Seq(CallSet) /\ AgendaOK'
  <2>1. ASSUME NEW i \in DOMAIN agenda \ {1}, NEW d, d = agenda[i]  PROVE Due(d)'
    <3>1. d \in CallSet /\ Due(d) /\ ~(d[1] = c[1] /\ d[2] = c[2])
      BY <1>1, <1>2, <2>1, OnlyThis
    <3>2. d[1] = "commit" => d[2] \in Attempts /\ d[2] # a /\ kept'[d[2]] # "no"
      <4>1. d[1] = "commit" => d[2] \in Attempts /\ d[2] # a
        BY <1>2, <1>3, <3>1, CallParts
      <4>2. d[1] = "commit" => kept[d[2]] # "no"
        BY <3>1 DEF Due
      <4> QED BY <1>8, <4>1, <4>2
    <3>3. (NothingFound => NothingFound') /\ (Stopping' <=> Stopping)
      BY <1>6 DEF NothingFound, Stopping
    <3> QED BY <1>6, <3>1, <3>2, <3>3 DEF Due
  <2>2. PICK d : d = <<"perform", a>>
    OBVIOUS
  <2>3. d \in CallSet /\ d[1] = "perform"
    BY <2>2, CallMade
  <2>4. <<d>> \in Seq(CallSet) /\ \A i \in DOMAIN <<d>> : <<d>>[i][1] \in {"perform", "release"}
    BY <2>3, OneMore
  <2>5. Then(<<d>>)
    BY <1>7, <2>2
  <2> QED BY <1>5, <2>1, <2>4, <2>5, AgendaGoesOn
<1>16. StopsOK'
  BY <1>11 DEF StopsOK
<1>17. MeanwhileOK' /\ QueueOK'
  <2>1. \A k \in meanwhile' \ meanwhile : update' # "none" /\ (Stopping' => Ended(k)')
    BY <1>6
  <2> QED BY <1>5, <1>6, <1>11, <1>12, <2>1, MeanwhileOnward, QueueStays
<1>18. CatchOK' /\ DownOK'
  BY <1>5, <1>6, <1>11 DEF CatchOK, DownOK, Up
<1>19. TypeOK'
  BY <1>5, <1>6, <1>8, <1>15 DEF TypeOK
<1> QED BY <1>10, <1>13, <1>14, <1>15, <1>16, <1>17, <1>18, <1>19 DEF UpdateInv, StepFits

LEMMA ResumeCancelledStep ==
  ASSUME UpdateInv, ResumeCancelled
  PROVE  UpdateInv' /\ StepFits
<1>1. PICK c : c = Head(agenda)
  OBVIOUS
<1>2. agenda # <<>> /\ c[1] = "resume" /\ Arg = c[2]
  BY <1>1 DEF ResumeCancelled, Calls, Arg
<1>3. PICK a \in Attempts : a = Arg
  BY <1>1, <1>2, CallHead, CallParts
<1>4. tier[a] = "cancelled" /\ phase # "catching up"
  BY <1>1, <1>2, <1>3, CallHead DEF Due
<1>5. /\ TypeOK /\ Up /\ StopsOK /\ MeanwhileOK /\ QueueOK /\ AgendaOK /\ CatchOK /\ PendingOK
      /\ \A b \in Attempts : AttemptOK(b) /\ RunOK(b)
  BY <1>1, <1>2, CallHead DEF UpdateInv
<1>6. /\ Then(<<>>)
      /\ UNCHANGED <<estate, update, stops, row, pending, phase, kept, open, meanwhile, queue, catchUp>>
  BY DEF ResumeCancelled, counts
<1>7. life[a] = "open" /\ plan[a] = "none" /\ kept[a] = "no" /\ JobOf(a) \in estate.watches
  BY <1>4, <1>5 DEF AttemptOK
<1>8. /\ plan' \in [Attempts -> Plans] /\ life' \in [Attempts -> {"never", "open", "closing", "closed"}]
      /\ tier' \in [Attempts -> Tiers]
      /\ \/ tier'[a] = "live" /\ life'[a] = "open" /\ plan'[a] = "none"
         \/ tier'[a] = "unknown" /\ life'[a] = "closed" /\ plan'[a] = "nothing"
      /\ \A b \in Attempts : b = a \/ (plan'[b] = plan[b] /\ life'[b] = life[b] /\ tier'[b] = tier[b])
  <2>1. \/ tier' = [tier EXCEPT ![a] = "live"] /\ UNCHANGED <<life, plan>>
        \/ /\ tier' = [tier EXCEPT ![a] = "unknown"] /\ plan' = [plan EXCEPT ![a] = "nothing"]
           /\ life' = [life EXCEPT ![a] = "closed"]
    BY <1>3 DEF ResumeCancelled, Commit
  <2> QED BY <1>5, <1>7, <2>1 DEF TypeOK, Plans, Tiers
<1>9. ASSUME NEW b \in Attempts
      PROVE  /\ AttemptOK(b)' /\ PlanFits(b) /\ LifeFits(b) /\ (Finished(b) => Finished(b)')
             /\ (plan'[b] = "rerun" => plan[b] = "rerun") /\ (plan[b] = "done" => plan'[b] = "done")
             /\ (plan[b] \in {"feed", "hold"} => plan'[b] \in {"feed", "hold", "done"})
             /\ (life[b] # "never" => life'[b] # "never") /\ (life[b] = "never" => life'[b] = "never")
  <2>1. AttemptOK(b)
    BY <1>5
  <2>2. CASE b # a
    BY <1>6, <1>8, <2>1, <2>2 DEF AttemptOK, PlanFits, LifeFits, Finished, Up
  <2>3. CASE b = a
    <3>1. kept'[b] = "no" /\ estate' = estate /\ catchUp' = catchUp
      BY <1>6, <1>7, <2>3
    <3>3. CASE tier'[a] = "live" /\ life'[a] = "open" /\ plan'[a] = "none"
      BY <1>4, <1>7, <2>1, <2>3, <3>1, <3>3 DEF AttemptOK, PlanFits, LifeFits, Finished, Up
    <3>4. CASE tier'[a] = "unknown" /\ life'[a] = "closed" /\ plan'[a] = "nothing"
      <4>1. b \notin catchUp
        BY <1>4, <1>5, <2>3 DEF CatchOK
      <4> QED BY <1>4, <1>7, <2>1, <2>3, <3>1, <3>4, <4>1 DEF AttemptOK, PlanFits, LifeFits, Finished, Up
    <3> QED BY <1>8, <3>3, <3>4
  <2> QED BY <2>2, <2>3
<1>10. Onward /\ Up' /\ PhaseKept
  BY <1>5, <1>6, <1>9 DEF Onward, Stopping, Up, PhaseKept
<1>11. \A b \in Attempts : RunOK(b)'
  <2>1. ASSUME NEW j \in Jobs  PROVE row'[j].run \in Nat /\ row'[j].run >= row[j].run
    <3>1. row[j].run \in 0..MaxRuns
      BY <1>5 DEF TypeOK
    <3> QED BY <1>6, <3>1
  <2> QED BY <1>5, <1>9, <1>10, <2>1, RunsOnward
<1>12. PendingOK'
  <2> SUFFICES ASSUME NEW j \in pending  PROVE row[j].run >= 1 /\ life'[<<j, row[j].run, 1>>] = "never"
    BY <1>6 DEF PendingOK, FirstRun
  <2>1. j \in Jobs /\ row[j].run \in 0..MaxRuns
    BY <1>5 DEF TypeOK
  <2>2. row[j].run >= 1 /\ life[<<j, row[j].run, 1>>] = "never"
    BY <1>5 DEF PendingOK, FirstRun
  <2>3. PICK n \in 1..MaxRuns : n = row[j].run
    BY <2>1, <2>2
  <2>4. <<j, n, 1>> \in Attempts
    BY <2>1, FirstMade
  <2> QED BY <1>9, <2>2, <2>3, <2>4
<1>13. agenda' \in Seq(CallSet) /\ AgendaOK'
  <2>1. ASSUME NEW i \in DOMAIN agenda \ {1}, NEW d, d = agenda[i]  PROVE Due(d)'
    <3>1. d \in CallSet /\ Due(d) /\ ~(d[1] = c[1] /\ d[2] = c[2])
      BY <1>1, <1>2, <2>1, OnlyThis
    <3>2. d[1] = "resume" => d[2] \in Attempts /\ d[2] # a /\ tier'[d[2]] = "cancelled"
      <4>1. d[1] = "resume" => d[2] \in Attempts /\ d[2] # a
        BY <1>2, <1>3, <3>1, CallParts
      <4>2. d[1] = "resume" => tier[d[2]] = "cancelled"
        BY <3>1 DEF Due
      <4> QED BY <1>8, <4>1, <4>2
    <3>3. (NothingFound => NothingFound') /\ (Stopping' <=> Stopping)
      BY <1>6 DEF NothingFound, Stopping
    <3> QED BY <1>6, <3>1, <3>2, <3>3 DEF Due
  <2> QED BY <1>5, <1>6, <2>1, NothingMore, AgendaGoesOn
<1>14. StopsOK' /\ MeanwhileOK' /\ QueueOK'
  <2>1. \A k \in meanwhile' \ meanwhile : update' # "none" /\ (Stopping' => Ended(k)')
    BY <1>6
  <2>2. (Up' => Up) /\ open' = open
    BY <1>5, <1>6
  <2> QED BY <1>5, <1>6, <1>10, <2>1, <2>2, MeanwhileOnward, QueueStays, StopsOnward
<1>15. CatchOK' /\ DownOK'
  BY <1>5, <1>6, <1>10 DEF CatchOK, DownOK, Up
<1>16. TypeOK'
  BY <1>5, <1>6, <1>8, <1>13 DEF TypeOK
<1> QED BY <1>9, <1>11, <1>12, <1>13, <1>14, <1>15, <1>16 DEF UpdateInv, StepFits

-----------------------------------------------------------------------------
(* The ends of the attempts.                                                *)

LEMMA NothingDue ==
  ASSUME agenda' = <<>>
  PROVE  agenda' \in Seq(CallSet) /\ AgendaOK'
BY DEF AgendaOK, DueOK, LastOK, OnceOK

\* The calls of a handler that finds none due.
LEMMA FirstCalls ==
  ASSUME UpdateInv, agenda = <<>>, NEW calls \in Seq(CallSet), Then(calls),
         \A i \in DOMAIN calls : calls[i][1] \in {"perform", "release"}
  PROVE  agenda' \in Seq(CallSet) /\ AgendaOK'
<1>1. TypeOK /\ AgendaOK
  BY DEF UpdateInv
<1>2. \A i \in DOMAIN agenda \ {1} : \A c : c = agenda[i] => Due(c)'
  OBVIOUS
<1> QED BY <1>1, <1>2, AgendaGoesOn

LEMMA DownNoted ==
  ASSUME TypeOK, QueueOK, MeanwhileOK, Onward, UNCHANGED <<phase, update>>,
         NEW a \in Attempts, NEW now, MayBeDown(a, now),
         Stopping /\ JobOf(a) \in open /\ stops[JobOf(a)] = a /\ now = "ended" => Ended(JobOf(a))'
  PROVE  /\ queue' \in Seq(Entry) /\ QueueOK'
         /\ meanwhile' \in SUBSET Jobs /\ MeanwhileOK'
<1>1. PhaseKept /\ queue \in Seq(Entry) /\ meanwhile \in SUBSET Jobs
  BY DEF PhaseKept, TypeOK
<1>2. CASE UNCHANGED <<queue, meanwhile>>
  <2>1. \A k \in meanwhile' \ meanwhile : update' # "none" /\ (Stopping' => Ended(k)')
    BY <1>2
  <2>2. queue' = queue /\ meanwhile' = meanwhile
    BY <1>2
  <2> QED BY <1>1, <2>1, <2>2, QueueStays, MeanwhileOnward
<1>3. CASE /\ Stopping /\ JobOf(a) \in open /\ stops[JobOf(a)] = a /\ now = "ended"
           /\ NotesEnd(JobOf(a))
  <2>1. PICK j \in Jobs : j = JobOf(a)
    BY AttemptParts
  <2>2. Ended(j)' /\ update' # "none"
    <3>1. Ended(JobOf(a))' /\ update' # "none"
      BY <1>3 DEF Stopping
    <3>2. JobOf(a)' = j
      BY <2>1 DEF JobOf
    <3> QED BY <2>1, <3>1, <3>2
  <2>3. CASE phase = "catching up"
    <3>1. meanwhile' = meanwhile \cup {j} /\ UNCHANGED queue
      BY <1>3, <2>1, <2>3 DEF NotesEnd
    <3>2. \A k \in meanwhile' \ meanwhile : k = j
      BY <3>1
    <3>3. \A k \in meanwhile' \ meanwhile : update' # "none" /\ (Stopping' => Ended(k)')
      BY <2>2, <3>2
    <3> QED BY <1>1, <3>1, <3>3, QueueStays, MeanwhileOnward
  <2>4. CASE phase # "catching up"
    <3>1. queue' = Append(queue, [is |-> "exit", of |-> j, found |-> FALSE]) /\ UNCHANGED meanwhile
      BY <1>3, <2>1, <2>4 DEF NotesEnd
    <3>2. \A k \in meanwhile' \ meanwhile : update' # "none" /\ (Stopping' => Ended(k)')
      BY <3>1
    <3>3. queue' \in Seq(Entry) /\ QueueOK'
      BY <1>1, <2>2, <2>4, <3>1, QueueExit
    <3> QED BY <1>1, <3>1, <3>2, <3>3, MeanwhileOnward
  <2> QED BY <2>3, <2>4
<1> QED BY <1>2, <1>3 DEF MayBeDown, StopDone

LEMMA OutcomeStep ==
  ASSUME UpdateInv, Up, agenda = <<>>, NEW a \in Attempts, NEW kind \in {"natural", "stopped"},
         NEW now \in {"busy", "ended"}, life[a] = "open", kept[a] = "no",
         JobOf(a) \in estate.watches => now = "ended",
         Outcome(a, kind, now), catchUp' = catchUp \ {a},
         UNCHANGED <<estate, update, stops, row, pending, phase, open>>
  PROVE  UpdateInv' /\ StepFits
<1>1. /\ TypeOK /\ StopsOK /\ MeanwhileOK /\ QueueOK /\ AgendaOK /\ CatchOK /\ PendingOK
      /\ \A b \in Attempts : AttemptOK(b) /\ RunOK(b)
  BY DEF UpdateInv
<1>2. plan[a] = "none" /\ ~Finished(a)
  BY <1>1 DEF AttemptOK, Finished
<1>3. Up' /\ (Stopping' <=> Stopping) /\ PhaseKept
  BY DEF Up, Stopping, PhaseKept
<1>4. tier' = [tier EXCEPT ![a] = now]
  BY DEF Outcome
<1>5. /\ tier' \in [Attempts -> Tiers] /\ tier'[a] = now
      /\ \A b \in Attempts : b # a => tier'[b] = tier[b]
  BY <1>1, <1>4 DEF TypeOK, Tiers
<1>6. ASSUME Stopping, Interrupted(JobOf(a)), stops[JobOf(a)] = a, JobOf(a) \notin estate.watches
      PROVE  JobOf(a) \in open
  <2>1. JobOf(a) \in DOMAIN stops \ estate.watches
    BY <1>6 DEF Interrupted
  <2> QED BY <1>1, <1>2, <1>6, <2>1 DEF StopsOK
<1>7. CASE Keeps(a, kind)
  <2>1. /\ kept' = [kept EXCEPT ![a] = kind] /\ MayBeDown(a, now)
        /\ UNCHANGED <<plan, life, agenda>>
    BY <1>7 DEF Outcome
  <2>2. /\ kept' \in [Attempts -> {"no", "natural", "stopped"}] /\ kept'[a] = kind
        /\ \A b \in Attempts : b # a => kept'[b] = kept[b]
    BY <1>1, <2>1 DEF TypeOK
  <2>3. ASSUME NEW b \in Attempts
        PROVE  AttemptOK(b)' /\ RunOK(b)' /\ PlanFits(b) /\ LifeFits(b) /\ (Finished(b) => Finished(b)')
    <3>1. AttemptOK(b) /\ RunOK(b)
      BY <1>1
    <3>2. RunOK(b)' /\ PlanFits(b) /\ LifeFits(b)
      BY <2>1, <3>1 DEF RunOK, PlanFits, LifeFits
    <3>3. CASE b # a
      BY <1>5, <2>1, <2>2, <3>1, <3>2, <3>3 DEF AttemptOK, Finished, Up
    <3>4. CASE b = a
      <4>1. /\ life'[b] = "open" /\ plan'[b] = "none" /\ tier'[b] = now /\ kept'[b] # "no"
            /\ b \notin catchUp' /\ estate' = estate
        BY <1>2, <1>5, <2>1, <2>2, <3>4
      <4>2. AttemptOK(b)'
        BY <3>4, <4>1 DEF AttemptOK
      <4> QED BY <1>2, <3>2, <3>4, <4>2
    <3> QED BY <3>3, <3>4
  <2>4. Onward
    BY <1>3, <2>1, <2>3 DEF Onward
  <2>5. Stopping /\ JobOf(a) \in open /\ stops[JobOf(a)] = a /\ now = "ended" => Ended(JobOf(a))'
    <3> SUFFICES ASSUME Stopping, JobOf(a) \in open, stops[JobOf(a)] = a, now = "ended"
                 PROVE  Ended(JobOf(a))'
      OBVIOUS
    <3>1. JobOf(a) \in DOMAIN stops /\ a # None
      BY <1>1, AttemptParts DEF StopsOK
    <3>2. Finished(a)'
      BY <1>5, <2>2 DEF Finished
    <3>3. PICK j : j = JobOf(a)
      OBVIOUS
    <3>4. Ended(j)'
      BY <3>1, <3>2, <3>3 DEF Ended, Interrupted
    <3> QED BY <3>3, <3>4 DEF JobOf
  <2>6. /\ queue' \in Seq(Entry) /\ QueueOK'
        /\ meanwhile' \in SUBSET Jobs /\ MeanwhileOK'
    BY <1>1, <2>1, <2>4, <2>5, DownNoted
  <2>7. agenda' \in Seq(CallSet) /\ AgendaOK'
    BY <2>1, NothingDue
  <2>8. StopsOK'
    BY <1>1, <1>3, <2>4, StopsOnward
  <2>9. CatchOK' /\ DownOK' /\ PendingOK'
    BY <1>1, <1>3, <2>1 DEF CatchOK, DownOK, Up, PendingOK, FirstRun
  <2>10. TypeOK'
    BY <1>1, <1>5, <2>1, <2>2, <2>6, <2>7 DEF TypeOK
  <2> QED BY <2>3, <2>6, <2>7, <2>8, <2>9, <2>10 DEF UpdateInv, StepFits
<1>8. CASE ~Keeps(a, kind)
  <2>1. PICK p : p = PlanFor(a, kind, Marked, Wanted(a))
    OBVIOUS
  <2>2. /\ plan' = [plan EXCEPT ![a] = p]
        /\ life' = [life EXCEPT ![a] = IF now = "busy" THEN "closing" ELSE "closed"]
        /\ Then(<<<<"perform", a>>>>) /\ UNCHANGED <<kept, queue, meanwhile>>
    BY <1>8, <2>1 DEF Outcome, Commit
  <2>3. /\ p \in {"feed", "nothing", "hold", "rerun"}
        /\ p = "rerun" => a[3] = 1
        /\ p \in {"hold", "rerun"} => kind = "stopped"
    <3>1. a[3] = 1 \/ a[3] = 2
      <4>1. a[3] \in 1..2
        BY AttemptParts
      <4> QED BY <4>1
    <3> QED BY <2>1, <3>1 DEF PlanFor
  <2>4. /\ plan' \in [Attempts -> Plans] /\ life' \in [Attempts -> {"never", "open", "closing", "closed"}]
        /\ plan'[a] = p /\ life'[a] = IF now = "busy" THEN "closing" ELSE "closed"
        /\ \A b \in Attempts : b # a => plan'[b] = plan[b] /\ life'[b] = life[b]
    BY <1>1, <2>2, <2>3 DEF TypeOK, Plans
  <2>5. PlanFits(a)
    <3>1. ASSUME Stopping
          PROVE  /\ ~(Interrupted(JobOf(a)) /\ stops[JobOf(a)] = a /\ JobOf(a) \notin estate.watches)
                 /\ p \in {"rerun", "hold"} => JobOf(a) \notin Moved
      BY <1>6, <1>8, <2>3, <3>1 DEF Keeps
    <3> QED BY <1>2, <2>4, <3>1 DEF PlanFits
  <2>6. ASSUME NEW b \in Attempts
        PROVE  /\ AttemptOK(b)' /\ PlanFits(b) /\ LifeFits(b) /\ (Finished(b) => Finished(b)')
               /\ (plan'[b] = "rerun" => plan[b] = "rerun" \/ b[3] = 1) /\ (plan[b] = "done" => plan'[b] = "done")
               /\ (plan[b] \in {"feed", "hold"} => plan'[b] \in {"feed", "hold", "done"})
               /\ (life[b] # "never" => life'[b] # "never") /\ (life[b] = "never" => life'[b] = "never")
    <3>1. AttemptOK(b)
      BY <1>1
    <3>2. CASE b # a
      BY <1>5, <2>2, <2>4, <3>1, <3>2 DEF AttemptOK, PlanFits, LifeFits, Finished, Up
    <3>3. CASE b = a
      <4>1. /\ life'[b] \in {"closing", "closed"} /\ (now = "busy" <=> life'[b] = "closing")
            /\ plan'[b] = p /\ p # "none" /\ tier'[b] = now /\ kept'[b] = "no"
            /\ b \notin catchUp' /\ estate' = estate
        BY <1>5, <2>2, <2>3, <2>4, <3>3
      <4>2. AttemptOK(b)'
        BY <3>3, <4>1 DEF AttemptOK
      <4>3. LifeFits(b)
        BY <3>3, <4>1 DEF LifeFits
      <4> QED BY <1>2, <2>3, <2>5, <3>3, <4>1, <4>2, <4>3
    <3> QED BY <3>2, <3>3
  <2>7. Onward
    BY <1>3, <2>6 DEF Onward
  <2>8. \A b \in Attempts : RunOK(b)'
    <3>1. ASSUME NEW j \in Jobs  PROVE row'[j].run \in Nat /\ row'[j].run >= row[j].run
      <4>1. row[j].run \in 0..MaxRuns
        BY <1>1 DEF TypeOK
      <4> QED BY <4>1
    <3> QED BY <1>1, <2>6, <2>7, <3>1, RunsOnward
  <2>9. PendingOK'
    <3> SUFFICES ASSUME NEW j \in pending  PROVE row[j].run >= 1 /\ life'[<<j, row[j].run, 1>>] = "never"
      BY DEF PendingOK, FirstRun
    <3>1. j \in Jobs /\ row[j].run \in 0..MaxRuns
      BY <1>1 DEF TypeOK
    <3>2. row[j].run >= 1 /\ life[<<j, row[j].run, 1>>] = "never"
      BY <1>1 DEF PendingOK, FirstRun
    <3>3. PICK n \in 1..MaxRuns : n = row[j].run
      BY <3>1, <3>2
    <3>4. <<j, n, 1>> \in Attempts
      BY <3>1, FirstMade
    <3> QED BY <2>6, <3>2, <3>3, <3>4
  <2>10. agenda' \in Seq(CallSet) /\ AgendaOK'
    <3>1. PICK d : d = <<"perform", a>>
      OBVIOUS
    <3>2. d \in CallSet /\ d[1] = "perform"
      BY <3>1, CallMade
    <3>3. <<d>> \in Seq(CallSet) /\ \A i \in DOMAIN <<d>> : <<d>>[i][1] \in {"perform", "release"}
      BY <3>2, OneMore
    <3>4. Then(<<d>>)
      BY <2>2, <3>1
    <3> QED BY <3>3, <3>4, FirstCalls
  <2>11. MeanwhileOK' /\ QueueOK' /\ StopsOK'
    <3>1. \A k \in meanwhile' \ meanwhile : update' # "none" /\ (Stopping' => Ended(k)')
      BY <2>2
    <3> QED BY <1>1, <1>3, <2>2, <2>7, <3>1, MeanwhileOnward, QueueStays, StopsOnward
  <2>12. CatchOK' /\ DownOK'
    BY <1>1, <1>3 DEF CatchOK, DownOK, Up
  <2>13. TypeOK'
    BY <1>1, <1>5, <2>2, <2>4, <2>10 DEF TypeOK
  <2> QED BY <2>6, <2>8, <2>9, <2>10, <2>11, <2>12, <2>13 DEF UpdateInv, StepFits
<1> QED BY <1>7, <1>8

LEMMA EndsStep ==
  ASSUME UpdateInv, NEW a \in Attempts, Ends(a)
  PROVE  UpdateInv' /\ StepFits
<1>1. /\ Up /\ agenda = <<>> /\ a \notin catchUp /\ tier[a] \in {"live", "stopping"}
      /\ UNCHANGED <<estate, update, stops, row, pending, phase, open, catchUp>>
  BY DEF Ends, Ready, counts
<1>2. PICK kind \in {"natural", "stopped"}, now \in {"busy", "ended"} :
        Outcome(a, kind, now) /\ (JobOf(a) \in estate.watches => now = "ended")
  BY DEF Ends
<1>3. life[a] = "open" /\ kept[a] = "no"
  <2>1. AttemptOK(a) /\ TypeOK
    BY DEF UpdateInv
  <2> QED BY <1>1, <2>1 DEF AttemptOK, TypeOK
<1>4. catchUp' = catchUp \ {a}
  BY <1>1
<1> QED BY <1>1, <1>2, <1>3, <1>4, OutcomeStep

LEMMA StopEndsStep ==
  ASSUME UpdateInv, Up, agenda = <<>>, NEW a \in Attempts, tier[a] = "busy" \/ life[a] = "closing",
         StopEnds(a), catchUp' = catchUp \ {a}
  PROVE  UpdateInv' /\ StepFits
<1>1. /\ TypeOK /\ StopsOK /\ MeanwhileOK /\ QueueOK /\ AgendaOK /\ CatchOK /\ PendingOK
      /\ \A b \in Attempts : AttemptOK(b) /\ RunOK(b)
  BY DEF UpdateInv
<1>2. /\ UNCHANGED <<estate, update, stops, row, plan, pending, phase, open, kept>>
      /\ tier' = [tier EXCEPT ![a] = "ended"]
      /\ life' = [life EXCEPT ![a] = IF @ = "closing" THEN "closed" ELSE @]
      /\ Then(<<<<"perform", a>>, <<"release", JobOf(a)>>>>)
      /\ MayBeDown(a, "ended")
  BY DEF StopEnds, counts
<1>3. Up' /\ (Stopping' <=> Stopping) /\ PhaseKept
  BY <1>2 DEF Up, Stopping, PhaseKept
<1>4. /\ tier' \in [Attempts -> Tiers] /\ tier'[a] = "ended"
      /\ life' \in [Attempts -> {"never", "open", "closing", "closed"}]
      /\ life'[a] = IF life[a] = "closing" THEN "closed" ELSE life[a]
      /\ \A b \in Attempts : b # a => tier'[b] = tier[b] /\ life'[b] = life[b]
  BY <1>1, <1>2 DEF TypeOK, Tiers
<1>5. ASSUME NEW b \in Attempts
      PROVE  /\ AttemptOK(b)' /\ PlanFits(b) /\ LifeFits(b) /\ (Finished(b) => Finished(b)')
             /\ (life[b] # "never" <=> life'[b] # "never") /\ (b = a => Finished(b)')
  <2>1. AttemptOK(b)
    BY <1>1
  <2>2. CASE b # a
    BY <1>2, <1>4, <2>1, <2>2 DEF AttemptOK, PlanFits, LifeFits, Finished, Up
  <2>3. CASE b = a
    <3>1. /\ tier'[b] = "ended" /\ life'[b] = IF life[b] = "closing" THEN "closed" ELSE life[b]
          /\ plan'[b] = plan[b] /\ kept'[b] = kept[b] /\ b \notin catchUp' /\ estate' = estate
      BY <1>2, <1>4, <2>3
    <3>2. life[b] \in {"open", "closing", "closed"} /\ (life[b] = "open" => kept[b] # "no")
      BY <1>1, <2>1, <2>3 DEF AttemptOK, TypeOK
    <3>3. AttemptOK(b)'
      BY <2>1, <3>1, <3>2 DEF AttemptOK
    <3>4. Finished(b)'
      BY <2>1, <3>1, <3>2 DEF AttemptOK, Finished
    <3> QED BY <3>1, <3>2, <3>3, <3>4 DEF PlanFits, LifeFits
  <2> QED BY <2>2, <2>3
<1>6. Onward
  BY <1>2, <1>3, <1>5 DEF Onward
<1>7. \A b \in Attempts : RunOK(b)'
  <2>1. ASSUME NEW j \in Jobs  PROVE row'[j].run \in Nat /\ row'[j].run >= row[j].run
    <3>1. row[j].run \in 0..MaxRuns
      BY <1>1 DEF TypeOK
    <3> QED BY <1>2, <3>1
  <2>2. \A b \in Attempts : plan'[b] = "rerun" => plan[b] = "rerun" \/ b[3] = 1
    BY <1>2
  <2> QED BY <1>1, <1>5, <1>6, <2>1, <2>2, RunsOnward
<1>8. PendingOK'
  <2> SUFFICES ASSUME NEW j \in pending  PROVE row[j].run >= 1 /\ life'[<<j, row[j].run, 1>>] = "never"
    BY <1>2 DEF PendingOK, FirstRun
  <2>1. j \in Jobs /\ row[j].run \in 0..MaxRuns
    BY <1>1 DEF TypeOK
  <2>2. row[j].run >= 1 /\ life[<<j, row[j].run, 1>>] = "never"
    BY <1>1 DEF PendingOK, FirstRun
  <2>3. PICK n \in 1..MaxRuns : n = row[j].run
    BY <2>1, <2>2
  <2>4. <<j, n, 1>> \in Attempts
    BY <2>1, FirstMade
  <2> QED BY <1>5, <2>2, <2>3, <2>4
<1>9. Stopping /\ JobOf(a) \in open /\ stops[JobOf(a)] = a /\ "ended" = "ended" => Ended(JobOf(a))'
  <2> SUFFICES ASSUME Stopping, JobOf(a) \in open, stops[JobOf(a)] = a
               PROVE  Ended(JobOf(a))'
    OBVIOUS
  <2>1. JobOf(a) \in DOMAIN stops /\ a # None
    BY <1>1, AttemptParts DEF StopsOK
  <2>2. PICK j : j = JobOf(a)
    OBVIOUS
  <2>3. Ended(j)'
    BY <1>2, <1>5, <2>1, <2>2 DEF Ended, Interrupted
  <2> QED BY <2>2, <2>3 DEF JobOf
<1>10. /\ queue' \in Seq(Entry) /\ QueueOK'
       /\ meanwhile' \in SUBSET Jobs /\ MeanwhileOK'
  BY <1>1, <1>2, <1>6, <1>9, DownNoted
<1>11. agenda' \in Seq(CallSet) /\ AgendaOK'
  <2>1. PICK x, y : x = <<"perform", a>> /\ y = <<"release", JobOf(a)>>
    OBVIOUS
  <2>2. x \in CallSet /\ y \in CallSet /\ x[1] = "perform" /\ y[1] = "release"
    BY <2>1, AttemptParts, CallMade
  <2>3. <<x, y>> \in Seq(CallSet) /\ \A i \in DOMAIN <<x, y>> : <<x, y>>[i][1] \in {"perform", "release"}
    BY ONLY <2>2
  <2>4. Then(<<x, y>>)
    BY <1>2, <2>1
  <2> QED BY <2>3, <2>4, FirstCalls
<1>12. StopsOK'
  BY <1>1, <1>2, <1>3, <1>6, StopsOnward
<1>13. CatchOK' /\ DownOK'
  BY <1>1, <1>2, <1>3 DEF CatchOK, DownOK, Up
<1>14. TypeOK'
  BY <1>1, <1>2, <1>4, <1>10, <1>11 DEF TypeOK
<1> QED BY <1>5, <1>7, <1>8, <1>10, <1>11, <1>12, <1>13, <1>14 DEF UpdateInv, StepFits

LEMMA LadderEndsStep ==
  ASSUME UpdateInv, NEW a \in Attempts, LadderEnds(a)
  PROVE  UpdateInv' /\ StepFits
<1>1. Up /\ agenda = <<>> /\ tier[a] = "busy" /\ StopEnds(a) /\ catchUp' = catchUp \ {a}
  BY DEF LadderEnds, Ready
<1> QED BY <1>1, StopEndsStep

\* A step that leaves the attempts, the queue and the calls alone.
LEMMA QuietStep ==
  ASSUME UpdateInv, Up, agenda = <<>>, agenda' = <<>>,
         UNCHANGED <<estate, update, stops, row, life, plan, pending, phase, tier, open, kept, meanwhile, queue>>,
         catchUp' \subseteq catchUp
  PROVE  UpdateInv' /\ StepFits
<1>1. /\ TypeOK /\ StopsOK /\ MeanwhileOK /\ QueueOK /\ CatchOK
  BY DEF UpdateInv
<1>2. Up' /\ (Stopping' <=> Stopping) /\ PhaseKept
  BY DEF Up, Stopping, PhaseKept
<1>3. /\ \A b \in Attempts : AttemptOK(b)' /\ RunOK(b)'
      /\ PendingOK' /\ Onward /\ StepFits
  BY <1>2, Unmoved
<1>4. \A k \in meanwhile' \ meanwhile : update' # "none" /\ (Stopping' => Ended(k)')
  OBVIOUS
<1>5. StopsOK' /\ MeanwhileOK' /\ QueueOK'
  BY <1>1, <1>2, <1>3, <1>4, StopsOnward, MeanwhileOnward, QueueStays
<1>6. CatchOK' /\ DownOK' /\ AgendaOK'
  BY <1>1, <1>2, NothingDue DEF CatchOK, DownOK, Up
<1>7. TypeOK'
  BY <1>1, NothingDue DEF TypeOK
<1> QED BY <1>3, <1>5, <1>6, <1>7 DEF UpdateInv

LEMMA CatchUpStep ==
  ASSUME UpdateInv, NEW a \in Attempts, CatchUp(a)
  PROVE  UpdateInv' /\ StepFits
<1>1. /\ Up /\ agenda = <<>> /\ a \in catchUp /\ catchUp' = catchUp \ {a}
      /\ UNCHANGED <<estate, update, stops, row, pending, phase, open>>
  BY DEF CatchUp, Ready, counts
<1>2. AttemptOK(a)
  BY DEF UpdateInv
<1>3. kept[a] = "no" /\ (life[a] = "open" \/ (life[a] = "closing" /\ JobOf(a) \notin estate.watches))
  BY <1>1, <1>2 DEF AttemptOK
<1>4. ASSUME NEW kind \in {"natural", "stopped"}, NEW now \in {"busy", "ended"}, Outcome(a, kind, now),
             JobOf(a) \in estate.watches => now = "ended", life[a] = "open"
      PROVE  UpdateInv' /\ StepFits
  BY <1>1, <1>3, <1>4, OutcomeStep
<1>5. CASE UNCHANGED <<plan, life, tier, kept, queue, meanwhile, agenda>>
  BY <1>1, <1>5, QuietStep
<1>6. CASE life[a] = "closing" /\ StopEnds(a)
  BY <1>1, <1>6, StopEndsStep
<1>7. CASE JobOf(a) \in estate.watches
  <2>1. life[a] = "open"
    BY <1>3, <1>7
  <2>2. \/ Outcome(a, "natural", "ended") \/ Outcome(a, "stopped", "ended")
        \/ UNCHANGED <<plan, life, tier, kept, queue, meanwhile, agenda>>
    BY <1>7 DEF CatchUp
  <2>3. CASE Outcome(a, "natural", "ended")
    BY <1>4, <2>1, <2>3
  <2>4. CASE Outcome(a, "stopped", "ended")
    BY <1>4, <2>1, <2>4
  <2> QED BY <1>5, <2>2, <2>3, <2>4
<1>8. CASE JobOf(a) \notin estate.watches
  <2>1. \/ /\ life[a] = "open"
           /\ \E kind \in {"natural", "stopped"}, now \in {"busy", "ended"} : Outcome(a, kind, now)
        \/ life[a] = "closing" /\ StopEnds(a)
        \/ UNCHANGED <<plan, life, tier, kept, queue, meanwhile, agenda>>
    BY <1>8 DEF CatchUp
  <2> QED BY <1>4, <1>5, <1>6, <1>8, <2>1
<1> QED BY <1>7, <1>8

-----------------------------------------------------------------------------
(* The inputs.                                                              *)

\* What a step leaves in order that no call follows.
LEMMA RestCarried ==
  ASSUME UpdateInv, Up, agenda' = <<>>, Onward,
         UNCHANGED <<phase, open, meanwhile, catchUp, queue, update>>
  PROVE  /\ agenda' \in Seq(CallSet)
         /\ StopsOK' /\ MeanwhileOK' /\ QueueOK' /\ AgendaOK' /\ CatchOK' /\ DownOK'
<1>1. TypeOK /\ StopsOK /\ MeanwhileOK /\ QueueOK /\ CatchOK
  BY DEF UpdateInv
<1>2. Up' /\ (Up' => Up) /\ PhaseKept
  BY DEF Up, PhaseKept
<1>3. \A k \in meanwhile' \ meanwhile : update' # "none" /\ (Stopping' => Ended(k)')
  OBVIOUS
<1>4. StopsOK' /\ MeanwhileOK' /\ QueueOK'
  BY <1>1, <1>2, <1>3, StopsOnward, MeanwhileOnward, QueueStays
<1>5. CatchOK' /\ DownOK'
  BY <1>1, <1>2 DEF CatchOK, DownOK, Up
<1> QED BY <1>4, <1>5, NothingDue

LEMMA InputStep ==
  ASSUME UpdateInv, NEW j \in Jobs, Input(j)
  PROVE  UpdateInv' /\ StepFits
<1>1. /\ Up /\ agenda' = <<>> /\ TypeOK
      /\ UNCHANGED <<estate, update, stops, phase, open, kept, meanwhile, queue, catchUp>>
  BY DEF Input, Ready, UpdateInv
<1>2. CASE EndRuns({j}) /\ UNCHANGED pending
  <2>1. PICK S \in SUBSET Jobs : EndRuns(S)
    BY <1>2
  <2>2. /\ row' \in [Jobs -> [run : 0..MaxRuns, live : BOOLEAN]]
        /\ life' \in [Attempts -> {"never", "open", "closing", "closed"}]
        /\ plan' \in [Attempts -> Plans] /\ tier' \in [Attempts -> Tiers]
        /\ \A a \in Attempts : AttemptOK(a)' /\ RunOK(a)'
        /\ PendingOK' /\ Onward
        /\ \A a \in Attempts :
             /\ tier[a] = "cancelled" => tier'[a] = "cancelled"
             /\ \/ plan'[a] = plan[a]
                \/ plan[a] = "none" /\ plan'[a] = "nothing" /\ JobOf(a) \in estate.watches
             /\ life'[a] = life[a] \/ (life[a] = "open" /\ life'[a] = "closed")
    BY <1>1, <1>2, <2>1, EndRunsFacts
  <2>3. /\ agenda' \in Seq(CallSet)
        /\ StopsOK' /\ MeanwhileOK' /\ QueueOK' /\ AgendaOK' /\ CatchOK' /\ DownOK'
    BY <1>1, <2>2, RestCarried
  <2>4. TypeOK'
    BY <1>1, <1>2, <2>2, <2>3 DEF TypeOK
  <2>5. StepFits
    BY <2>2 DEF StepFits, PlanFits, LifeFits
  <2> QED BY <2>2, <2>3, <2>4, <2>5 DEF UpdateInv
<1>3. CASE j \in Startable /\ StartRuns({j}) /\ UNCHANGED plan
  <2>1. PICK S \in SUBSET Startable : StartRuns(S)
    BY <1>3
  <2>2. /\ row' \in [Jobs -> [run : 0..MaxRuns, live : BOOLEAN]]
        /\ life' \in [Attempts -> {"never", "open", "closing", "closed"}]
        /\ tier' \in [Attempts -> Tiers] /\ pending' \in SUBSET Jobs
        /\ \A a \in Attempts : AttemptOK(a)' /\ RunOK(a)'
        /\ PendingOK' /\ Onward
        /\ \A a \in Attempts :
             /\ tier[a] = "cancelled" => tier'[a] = "cancelled"
             /\ \/ life'[a] = life[a]
                \/ life[a] = "never" /\ life'[a] = "open" /\ LaunchFits(a)
    BY <1>1, <1>3, <2>1, StartRunsFacts
  <2>3. /\ agenda' \in Seq(CallSet)
        /\ StopsOK' /\ MeanwhileOK' /\ QueueOK' /\ AgendaOK' /\ CatchOK' /\ DownOK'
    BY <1>1, <2>2, RestCarried
  <2>4. TypeOK'
    BY <1>1, <1>3, <2>2, <2>3 DEF TypeOK
  <2>5. StepFits
    BY <1>3, <2>2 DEF StepFits, PlanFits, LifeFits
  <2> QED BY <2>2, <2>3, <2>4, <2>5 DEF UpdateInv
<1> QED BY <1>2, <1>3 DEF Input

LEMMA TakeFeedStep ==
  ASSUME UpdateInv, TakeFeed
  PROVE  UpdateInv' /\ StepFits
<1>1. /\ Up /\ agenda = <<>> /\ queue # <<>> /\ queue' = Tail(queue) /\ TypeOK /\ QueueOK
      /\ StopsOK /\ MeanwhileOK /\ CatchOK
      /\ UNCHANGED <<estate, update, stops, life, pending, phase, tier, open, kept, meanwhile, catchUp>>
  BY DEF TakeFeed, Ready, counts, UpdateInv
<1>2. PICK q : q = Head(queue)
  OBVIOUS
<1>3. q \in Entry /\ Fine(q) /\ q.is = "feed"
  <2>1. queue \in Seq(Entry)
    BY <1>1 DEF TypeOK
  <2>2. 1 \in DOMAIN queue /\ q = queue[1] /\ queue[1] \in Entry
    BY <1>1, <1>2, <2>1
  <2> QED BY <1>1, <1>2, <2>2 DEF QueueOK, FineOK, TakeFeed
<1>4. PICK a \in Attempts : a = q.of
  BY <1>3 DEF Entry
<1>5. plan[a] \in {"feed", "hold", "rerun", "done"}
  BY <1>3, <1>4 DEF Fine
<1>6. /\ row' = IF Wanted(a) THEN [row EXCEPT ![JobOf(a)].live = FALSE] ELSE row
      /\ plan' = [plan EXCEPT ![a] = "done"]
      /\ Then(<<<<"perform", a>>>>)
  BY <1>2, <1>4 DEF TakeFeed
<1>7. /\ row' \in [Jobs -> [run : 0..MaxRuns, live : BOOLEAN]]
      /\ \A j \in Jobs : row'[j].run = row[j].run
  <2>1. row \in [Jobs -> [run : 0..MaxRuns, live : BOOLEAN]] /\ JobOf(a) \in Jobs
    BY <1>1, AttemptParts DEF TypeOK
  <2>2. CASE Wanted(a)
    <3>1. row' = [row EXCEPT ![JobOf(a)] = [row[JobOf(a)] EXCEPT !.live = FALSE]]
      BY <1>6, <2>2
    <3>2. /\ [row[JobOf(a)] EXCEPT !.live = FALSE] \in [run : 0..MaxRuns, live : BOOLEAN]
          /\ [row[JobOf(a)] EXCEPT !.live = FALSE].run = row[JobOf(a)].run
      BY <2>1
    <3> QED BY <2>1, <3>1, <3>2
  <2>3. CASE ~Wanted(a)
    BY <1>6, <2>1, <2>3
  <2> QED BY <2>2, <2>3
<1>8. /\ plan' \in [Attempts -> Plans]
      /\ \A b \in Attempts : AttemptOK(b)' /\ RunOK(b)'
      /\ PendingOK' /\ Onward /\ StepFits
  BY <1>1, <1>5, <1>6, <1>7, PlanDoneFacts
<1>9. Up' /\ (Up' => Up) /\ PhaseKept /\ (\A k \in meanwhile' \ meanwhile : update' # "none" /\ (Stopping' => Ended(k)'))
  BY <1>1 DEF Up, PhaseKept
<1>10. queue' \in Seq(Entry) /\ QueueOK'
  BY <1>1, <1>8, <1>9, QueueTaken
<1>11. StopsOK' /\ MeanwhileOK'
  BY <1>1, <1>8, <1>9, StopsOnward, MeanwhileOnward
<1>12. agenda' \in Seq(CallSet) /\ AgendaOK'
  <2>1. PICK d : d = <<"perform", a>>
    OBVIOUS
  <2>2. d \in CallSet /\ d[1] = "perform"
    BY <2>1, CallMade
  <2>3. <<d>> \in Seq(CallSet) /\ \A i \in DOMAIN <<d>> : <<d>>[i][1] \in {"perform", "release"}
    BY <2>2, OneMore
  <2>4. Then(<<d>>)
    BY <1>6, <2>1
  <2> QED BY <1>1, <2>3, <2>4, FirstCalls
<1>13. CatchOK' /\ DownOK'
  BY <1>1, <1>9 DEF CatchOK, DownOK, Up
<1>14. TypeOK'
  BY <1>1, <1>7, <1>8, <1>10, <1>12 DEF TypeOK
<1> QED BY <1>8, <1>10, <1>11, <1>12, <1>13, <1>14 DEF UpdateInv

LEMMA TakeExitStep ==
  ASSUME UpdateInv, TakeExit
  PROVE  UpdateInv' /\ StepFits
<1>1. /\ Up /\ agenda = <<>> /\ queue # <<>> /\ queue' = Tail(queue) /\ TypeOK /\ QueueOK
      /\ StopsOK /\ MeanwhileOK /\ CatchOK /\ agenda' = <<<<"settle">>>>
      /\ UNCHANGED <<estate, update, stops, row, life, plan, pending, phase, tier, kept, catchUp>>
  BY DEF TakeExit, Ready, counts, store, UpdateInv
<1>2. PICK q : q = Head(queue)
  OBVIOUS
<1>3. q \in Entry /\ Fine(q) /\ q.is # "feed" /\ 1 \in DOMAIN queue /\ q = queue[1]
  <2>1. queue \in Seq(Entry)
    BY <1>1 DEF TypeOK
  <2>2. 1 \in DOMAIN queue /\ q = queue[1] /\ queue[1] \in Entry
    BY <1>1, <1>2, <2>1
  <2> QED BY <1>1, <1>2, <2>2 DEF QueueOK, FineOK, TakeExit
<1>4. /\ open' \subseteq open /\ meanwhile' \subseteq meanwhile
      /\ \A k \in open \ open' : Stopping => Ended(k)
  <2>1. CASE q.is = "look"
    <3>1. open' = open \ meanwhile /\ meanwhile' = {}
      BY <1>2, <2>1 DEF TakeExit
    <3> QED BY <1>1, <3>1 DEF MeanwhileOK
  <2>2. CASE q.is # "look"
    <3>1. open' = open \ {q.of} /\ UNCHANGED meanwhile
      BY <1>2, <2>2 DEF TakeExit
    <3>2. q.is = "exit"
      BY <1>3, <2>2 DEF Entry
    <3> QED BY <1>3, <3>1, <3>2 DEF Fine
  <2> QED BY <2>1, <2>2
<1>5. Up' /\ (Up' => Up) /\ PhaseKept /\ (Stopping' <=> Stopping) /\ update' = update
  BY <1>1 DEF Up, PhaseKept, Stopping
<1>6. /\ \A b \in Attempts : AttemptOK(b)' /\ RunOK(b)'
      /\ PendingOK' /\ Onward /\ StepFits
  BY <1>1, <1>5, Unmoved
<1>7. /\ queue' \in Seq(Entry) /\ QueueOK'
      /\ \A i \in DOMAIN queue' : i + 1 \in DOMAIN queue /\ queue'[i] = queue[i + 1]
  BY <1>1, <1>5, <1>6, QueueTaken
<1>8. NothingFound'
  <2>1. phase # "catching up"
    BY <1>3 DEF Fine
  <2>2. ASSUME NEW i \in DOMAIN queue', queue'[i].found  PROVE FALSE
    <3>1. i + 1 < 1
      BY <1>1, <1>3, <1>7, <2>2 DEF QueueOK, FoundFirst
    <3>2. i \in Nat
      BY <1>7, LenProperties
    <3> QED BY <3>1, <3>2
  <2> QED BY <1>1, <2>1, <2>2 DEF NothingFound
<1>9. StopsOK'
  <2>1. ASSUME Stopping', NEW k \in open \ open', k \in DOMAIN stops \ estate.watches, Interrupted(k)
        PROVE  Finished(stops[k])'
    <3>1. Ended(k)
      BY <1>4, <1>5, <2>1
    <3>2. Finished(stops[k])
      BY <3>1 DEF Ended
    <3> QED BY <1>1, <3>2 DEF Finished
  <2> QED BY <1>1, <1>4, <1>5, <1>6, <2>1, StopsOnward
<1>10. MeanwhileOK'
  <2>1. \A k \in meanwhile' \ meanwhile : update' # "none" /\ (Stopping' => Ended(k)')
    BY <1>4
  <2> QED BY <1>1, <1>6, <2>1, MeanwhileOnward
<1>11. agenda' \in Seq(CallSet) /\ AgendaOK'
  <2>1. PICK d : d = <<"settle">>
    OBVIOUS
  <2>2. d \in CallSet /\ d[1] = "settle"
    BY <2>1, CallMade
  <2>3. agenda' = <<d>>
    BY <1>1, <2>1
  <2>4. agenda' \in Seq(CallSet) /\ Len(agenda') = 1 /\ DOMAIN agenda' = {1} /\ agenda'[1] = d
    BY <2>2, <2>3
  <2>5. Due(d)'
    BY <1>8, <2>2 DEF Due
  <2> QED BY <2>2, <2>4, <2>5 DEF AgendaOK, DueOK, LastOK, OnceOK
<1>12. CatchOK' /\ DownOK'
  BY <1>1, <1>5 DEF CatchOK, DownOK, Up
<1>13. TypeOK'
  <2>1. open' \in SUBSET Jobs /\ meanwhile' \in SUBSET Jobs
    BY <1>1, <1>4 DEF TypeOK
  <2> QED BY <1>1, <1>7, <1>11, <2>1 DEF TypeOK
<1> QED BY <1>6, <1>7, <1>9, <1>10, <1>11, <1>12, <1>13 DEF UpdateInv

LEMMA PairParts ==
  ASSUME NEW A, NEW B, NEW d \in A \X B
  PROVE  d = <<d[1], d[2]>> /\ d[1] \in A /\ d[2] \in B
OBVIOUS

\* The calls of the jobs of a set, one after the other.
LEMMA CallsOf ==
  ASSUME NEW S \in SUBSET Jobs, NEW name \in {"stop", "release"},
         NEW q, q = InOrder(S, LAMBDA j : <<name, j>>)
  PROVE  q \in Seq({name} \X S) /\ {name} \X S \subseteq CallSet
<1>1. PICK n, s : n = Cardinality(S) /\ s = SetToSeq(S)
  OBVIOUS
<1>2. n \in Nat /\ s \in [1..n -> S]
  <2>1. IsFiniteSet(S)
    BY AttemptsFinite, FS_Subset
  <2> QED BY <1>1, <2>1, Listed
<1>3. q = [i \in 1..n |-> <<name, s[i]>>]
  BY <1>1, <1>2 DEF InOrder
<1>4. PICK T : T = {name} \X S
  OBVIOUS
<1>5. \A i \in 1..n : <<name, s[i]>> \in T
  <2> SUFFICES ASSUME NEW i \in 1..n  PROVE <<name, s[i]>> \in T
    OBVIOUS
  <2>1. s[i] \in S
    BY <1>2
  <2> QED BY <1>4, <2>1
<1>6. q \in [1..n -> T]
  BY <1>3, <1>5
<1>7. q \in Seq(T)
  BY <1>2, <1>6, SeqDef
<1>8. T \subseteq CallSet
  <2> SUFFICES ASSUME NEW d \in T  PROVE d \in CallSet
    OBVIOUS
  <2>1. PICK j \in S : d = <<name, j>>
    <3>1. d \in {name} \X S
      BY <1>4
    <3>2. PICK b, j : b = d[1] /\ j = d[2]
      OBVIOUS
    <3>3. d = <<b, j>> /\ b \in {name} /\ j \in S
      BY ONLY <3>1, <3>2, PairParts
    <3>4. d = <<name, j>> /\ j \in S
      BY ONLY <3>3
    <3> QED BY <3>4
  <2> QED BY <2>1, CallMade
<1> QED BY <1>4, <1>7, <1>8

LEMMA AttemptOfFacts ==
  ASSUME UpdateInv, NEW j \in Jobs, AttemptOf(j) # None
  PROVE  AttemptOf(j) \in Attempts /\ JobOf(AttemptOf(j)) = j /\ life[AttemptOf(j)] # "never"
<1> DEFINE known == {a \in Attempts : JobOf(a) = j /\ a[2] = row[j].run /\ life[a] # "never"}
<1>1. known # {} /\ AttemptOf(j) = CHOOSE a \in known : \A b \in known : b[3] <= a[3]
  BY DEF AttemptOf
<1>2. \A a \in known : a[3] = 1 \/ a[3] = 2
  <2> SUFFICES ASSUME NEW a \in Attempts  PROVE a[3] = 1 \/ a[3] = 2
    OBVIOUS
  <2>1. a[3] \in 1..2
    BY AttemptParts
  <2> QED BY <2>1
<1>3. \E a \in known : \A b \in known : b[3] <= a[3]
  <2>1. CASE \E a \in known : a[3] = 2
    BY <1>2, <2>1
  <2>2. CASE ~\E a \in known : a[3] = 2
    BY <1>1, <1>2, <2>2
  <2> QED BY <2>1, <2>2
<1>4. AttemptOf(j) \in known
  BY <1>1, <1>3
<1> QED BY <1>4

LEMMA AdmitStep ==
  ASSUME UpdateInv, Admit
  PROVE  UpdateInv' /\ StepFits
<1>1. /\ TypeOK /\ MeanwhileOK /\ QueueOK /\ CatchOK /\ PendingOK
      /\ \A b \in Attempts : AttemptOK(b) /\ RunOK(b)
  BY DEF UpdateInv
<1>2. /\ phase = "running" /\ update = "none" /\ update' = "admitted"
      /\ stops' = [j \in StopSet |-> AttemptOf(j)] /\ open' = StopSet
      /\ UNCHANGED <<estate, row, life, plan, pending, phase, tier, kept, meanwhile, queue, catchUp>>
  BY DEF Admit, counts
<1>3. StopSet \in SUBSET Jobs
  BY <1>1, UpdateAssumption DEF StopSet, TypeOK
<1>4. /\ DOMAIN stops' = StopSet
      /\ \A j \in StopSet : stops'[j] # None =>
           stops'[j] \in Attempts /\ JobOf(stops'[j]) = j /\ life[stops'[j]] # "never"
  BY <1>2, <1>3, AttemptOfFacts
<1>5. \A b \in Attempts : AttemptOK(b)' /\ RunOK(b)' /\ PlanFits(b) /\ LifeFits(b)
  BY <1>1, <1>2, SameAttempt DEF RunOK, PlanFits, LifeFits, Up
<1>6. PendingOK'
  BY <1>1, <1>2 DEF PendingOK, FirstRun
<1>7. StopsOK'
  BY <1>2, <1>4 DEF StopsOK, Interrupted
<1>8. MeanwhileOK'
  BY <1>1, <1>2 DEF MeanwhileOK
<1>9. NothingFound /\ QueueOK'
  <2>1. ASSUME NEW i \in DOMAIN queue  PROVE Fine(queue[i])' /\ ~queue[i].found /\ queue[i].is # "exit"
    <3>1. queue[i] \in Entry /\ Fine(queue[i])
      BY <1>1, QueueItems DEF QueueOK, FineOK
    <3> QED BY <1>2, <3>1 DEF Fine
  <2> QED BY <1>1, <1>2, <2>1 DEF NothingFound, QueueOK, FineOK, FoundFirst
<1>10. agenda' \in Seq(CallSet) /\ AgendaOK'
  <2>1. PICK q, d : q = InOrder(StopSet, LAMBDA j : <<"stop", j>>) /\ d = <<"settle">>
    OBVIOUS
  <2>2. agenda' = q \o <<d>>
    BY <2>1 DEF Admit
  <2>3. q \in Seq({"stop"} \X StopSet) /\ {"stop"} \X StopSet \subseteq CallSet
    BY <1>3, <2>1, CallsOf
  <2>4. d \in CallSet /\ d[1] = "settle" /\ q \in Seq(CallSet)
    BY <2>1, <2>3, CallMade, SeqMonotonic
  <2>5. PICK r : r = q \o <<d>>
    OBVIOUS
  <2>6. /\ r \in Seq(CallSet) /\ Len(r) = Len(q) + 1
        /\ \A i \in 1..(Len(q) + 1) : r[i] = IF i <= Len(q) THEN q[i] ELSE <<d>>[i - Len(q)]
    <3>1. <<d>> \in Seq(CallSet) /\ Len(<<d>>) = 1
      BY <2>4
    <3> QED BY <2>4, <2>5, <3>1, ConcatProperties
  <2>7. Len(q) \in Nat /\ DOMAIN r = 1..(Len(q) + 1)
    BY <2>4, <2>6, LenProperties
  <2>8. ASSUME NEW i \in DOMAIN r
        PROVE  \/ r[i] \in {"stop"} \X StopSet
               \/ i = Len(q) + 1 /\ r[i] = d
    <3>1. i \in Nat /\ i >= 1 /\ i <= Len(q) + 1
      BY <2>7
    <3>2. CASE i <= Len(q)
      <4>1. i \in 1..Len(q) /\ r[i] = q[i]
        BY <2>6, <2>7, <3>1, <3>2
      <4> QED BY <2>3, <4>1, ElementOfSeq
    <3>3. CASE ~(i <= Len(q))
      <4>1. i = Len(q) + 1 /\ i - Len(q) = 1
        BY <2>7, <3>1, <3>3
      <4> QED BY <2>6, <2>7, <3>3, <4>1
    <3> QED BY <3>2, <3>3
  <2>9. NothingFound'
    BY <1>2, <1>9 DEF NothingFound
  <2>10. ASSUME NEW i \in DOMAIN r, NEW x, x = r[i]
         PROVE  Due(x)' /\ (x[1] \in {"settle", "apply"} => i = Len(r)) /\ x[1] \notin {"commit", "resume"}
    <3>1. CASE r[i] \in {"stop"} \X StopSet
      <4>1. x[1] = "stop" /\ x[2] \in StopSet
        BY <2>10, <3>1
      <4> QED BY <1>4, <4>1 DEF Due
    <3>2. CASE i = Len(q) + 1 /\ r[i] = d
      <4>1. x[1] = "settle" /\ i = Len(r)
        BY <2>4, <2>6, <2>10, <3>2
      <4> QED BY <2>9, <4>1 DEF Due
    <3> QED BY <2>8, <3>1, <3>2
  <2>11. agenda' = r
    BY <2>2, <2>5
  <2> QED BY <2>6, <2>10, <2>11 DEF AgendaOK, DueOK, LastOK, OnceOK
<1>11. CatchOK' /\ DownOK'
  BY <1>1, <1>2 DEF CatchOK, DownOK
<1>12. TypeOK'
  BY <1>1, <1>2, <1>3, <1>4, <1>10 DEF TypeOK
<1> QED BY <1>5, <1>6, <1>7, <1>8, <1>9, <1>10, <1>11, <1>12 DEF UpdateInv, StepFits

LEMMA RetryStep ==
  ASSUME UpdateInv, Retry
  PROVE  UpdateInv' /\ StepFits
<1>1. /\ Up /\ agenda = <<>> /\ agenda' = <<>>
      /\ UNCHANGED <<estate, update, stops, row, life, plan, pending, phase, tier, open, kept, meanwhile, queue>>
      /\ catchUp' \subseteq catchUp
  BY DEF Retry, Ready, store, counts
<1> QED BY <1>1, QuietStep

-----------------------------------------------------------------------------
(* Drains, crashes and restarts.                                            *)

LEMMA BeginDrainStep ==
  ASSUME UpdateInv, BeginDrain
  PROVE  UpdateInv' /\ StepFits
<1>1. /\ TypeOK /\ StopsOK /\ MeanwhileOK /\ QueueOK /\ CatchOK /\ PendingOK
      /\ \A b \in Attempts : AttemptOK(b) /\ RunOK(b)
  BY DEF UpdateInv
<1>2. /\ Up /\ phase = "running" /\ phase' = "draining" /\ agenda' = <<>>
      /\ UNCHANGED <<estate, update, stops, row, life, plan, pending, open, kept, meanwhile, queue, catchUp>>
  BY DEF BeginDrain, Ready, counts, store
<1>3. /\ tier' \in [Attempts -> Tiers]
      /\ \A b \in Attempts :
           \/ tier[b] # "live" /\ tier'[b] = tier[b]
           \/ tier[b] = "live" /\ tier'[b] = "stopping" /\ JobOf(b) \notin estate.watches
           \/ tier[b] = "live" /\ tier'[b] = "unknown" /\ JobOf(b) \in estate.watches
  <2>1. tier' = [a \in Attempts |-> IF tier[a] # "live" THEN tier[a]
                                    ELSE IF JobOf(a) \in estate.watches THEN "unknown" ELSE "stopping"]
    BY DEF BeginDrain
  <2> QED BY <1>1, <2>1 DEF TypeOK, Tiers
<1>4. ASSUME NEW b \in Attempts
      PROVE  AttemptOK(b)' /\ RunOK(b)' /\ PlanFits(b) /\ LifeFits(b) /\ (Finished(b) => Finished(b)')
  <2>1. AttemptOK(b) /\ RunOK(b)
    BY <1>1
  <2>2. AttemptOK(b)' /\ (Finished(b) => Finished(b)')
    BY <1>2, <1>3, <2>1 DEF AttemptOK, Finished, Up
  <2>3. RunOK(b)' /\ PlanFits(b) /\ LifeFits(b)
    BY <1>2, <2>1 DEF RunOK, PlanFits, LifeFits
  <2> QED BY <2>2, <2>3
<1>5. Onward /\ PhaseKept /\ Up' /\ (Up' => Up)
  BY <1>2, <1>4 DEF Onward, PhaseKept, Up, Stopping
<1>6. StopsOK' /\ MeanwhileOK' /\ QueueOK'
  <2>1. \A k \in meanwhile' \ meanwhile : update' # "none" /\ (Stopping' => Ended(k)')
    BY <1>2
  <2> QED BY <1>1, <1>2, <1>5, <2>1, StopsOnward, MeanwhileOnward, QueueStays
<1>7. PendingOK' /\ CatchOK' /\ DownOK'
  BY <1>1, <1>2 DEF PendingOK, FirstRun, CatchOK, DownOK
<1>8. TypeOK'
  BY <1>1, <1>2, <1>3, NothingDue DEF TypeOK
<1> QED BY <1>2, <1>4, <1>6, <1>7, <1>8, NothingDue DEF UpdateInv, StepFits

LEMMA DownStep ==
  ASSUME UpdateInv, Down, UNCHANGED <<store, estate>>
  PROVE  UpdateInv' /\ StepFits
<1>1. /\ TypeOK /\ StopsOK /\ PendingOK
      /\ \A b \in Attempts : AttemptOK(b) /\ RunOK(b)
  BY DEF UpdateInv
<1>2. /\ phase' = "down" /\ agenda' = <<>> /\ queue' = <<>> /\ open' = {} /\ meanwhile' = {} /\ catchUp' = {}
      /\ tier' = [a \in Attempts |-> "unknown"] /\ kept' = [a \in Attempts |-> "no"]
      /\ UNCHANGED <<estate, update, stops, row, life, plan, pending>>
  BY DEF Down, store
<1>3. /\ tier' \in [Attempts -> Tiers] /\ kept' \in [Attempts -> {"no", "natural", "stopped"}]
      /\ \A a \in Attempts : tier'[a] = "unknown" /\ kept'[a] = "no"
  BY <1>2 DEF Tiers
<1>4. ASSUME NEW b \in Attempts
      PROVE  AttemptOK(b)' /\ RunOK(b)' /\ PlanFits(b) /\ LifeFits(b)
  <2>1. AttemptOK(b) /\ RunOK(b)
    BY <1>1
  <2>2. AttemptOK(b)'
    BY <1>2, <1>3, <2>1 DEF AttemptOK, Up
  <2>3. RunOK(b)' /\ PlanFits(b) /\ LifeFits(b)
    BY <1>2, <2>1 DEF RunOK, PlanFits, LifeFits
  <2> QED BY <2>2, <2>3
<1>5. StopsOK' /\ MeanwhileOK' /\ PendingOK' /\ CatchOK' /\ DownOK'
  <2>1. StopsOK'
    BY <1>1, <1>2 DEF StopsOK, Up, Stopping, Interrupted
  <2> QED BY <1>1, <1>2, <1>3, <2>1 DEF MeanwhileOK, PendingOK, FirstRun, CatchOK, DownOK
<1>6. QueueOK'
  BY <1>2 DEF QueueOK, FineOK, FoundFirst
<1>7. TypeOK'
  <2>1. queue' \in Seq(Entry)
    BY <1>2
  <2> QED BY <1>1, <1>2, <1>3, <2>1, NothingDue DEF TypeOK
<1> QED BY <1>2, <1>4, <1>5, <1>6, <1>7, NothingDue DEF UpdateInv, StepFits

LEMMA RestartStep ==
  ASSUME UpdateInv, Restart
  PROVE  UpdateInv' /\ StepFits
<1>1. /\ TypeOK /\ StopsOK /\ PendingOK /\ phase = "down"
      /\ queue = <<>> /\ agenda = <<>> /\ meanwhile = {}
      /\ \A a \in Attempts : kept[a] = "no"
      /\ \A b \in Attempts : AttemptOK(b) /\ RunOK(b)
  BY DEF UpdateInv, Restart, DownOK
<1>2. /\ phase' = "catching up"
      /\ UNCHANGED <<estate, update, stops, row, life, plan, pending, kept, meanwhile, queue, agenda>>
  BY DEF Restart, store, counts
<1>3. catchUp' = {a \in Attempts : life[a] \in {"open", "closing"}}
  BY DEF Restart
<1>4. /\ tier' \in [Attempts -> Tiers]
      /\ \A a \in Attempts : /\ life[a] = "open" => tier'[a] = "live"
                             /\ life[a] = "closing" => tier'[a] = "busy"
                             /\ life[a] \in {"never", "closed"} => tier'[a] = "unknown"
  <2>1. tier' = [a \in Attempts |-> CASE life[a] = "open" -> "live"
                                      [] life[a] = "closing" -> "busy"
                                      [] OTHER -> "unknown"]
    BY DEF Restart
  <2> QED BY <2>1 DEF Tiers
<1>5. ASSUME NEW b \in Attempts
      PROVE  AttemptOK(b)' /\ RunOK(b)' /\ PlanFits(b) /\ LifeFits(b)
  <2>1. AttemptOK(b) /\ RunOK(b) /\ kept'[b] = "no" /\ life[b] \in {"never", "open", "closing", "closed"}
    BY <1>1, <1>2 DEF TypeOK
  <2>2. b \in catchUp' <=> life[b] \in {"open", "closing"}
    BY <1>3
  <2>3. AttemptOK(b)'
    BY <1>2, <1>4, <2>1, <2>2 DEF AttemptOK, Up
  <2>4. RunOK(b)' /\ PlanFits(b) /\ LifeFits(b)
    BY <1>2, <2>1 DEF RunOK, PlanFits, LifeFits
  <2> QED BY <2>3, <2>4
<1>6. open' = IF Stopping
              THEN {j \in DOMAIN stops \ estate.watches : Interrupted(j) /\ stops[j] \in catchUp'}
              ELSE {}
  BY DEF Restart
<1>7. StopsOK'
  <2> SUFFICES ASSUME Stopping
               PROVE  /\ open' \subseteq DOMAIN stops
                      /\ \A j \in DOMAIN stops \ estate.watches : Interrupted(j) =>
                           life[stops[j]] # "never" /\ (j \notin open' => Finished(stops[j])')
    BY <1>2 DEF StopsOK, Stopping, Interrupted
  <2>1. ASSUME NEW j \in DOMAIN stops \ estate.watches, Interrupted(j), j \notin open'
        PROVE  Finished(stops[j])'
    <3>1. PICK a \in Attempts : a = stops[j] /\ JobOf(a) = j
      BY <1>1, <2>1 DEF TypeOK, Interrupted
    <3>2. a \notin catchUp' /\ life[a] # "never"
      BY <1>1, <1>6, <2>1, <3>1 DEF StopsOK
    <3>3. life[a] = "closed"
      BY <1>1, <1>3, <3>2 DEF TypeOK
    <3>4. tier'[a] = "unknown" /\ plan[a] # "none"
      BY <1>1, <1>4, <3>3 DEF AttemptOK
    <3>5. Finished(a)'
      BY <1>2, <3>4 DEF Finished
    <3> QED BY <1>2, <3>1, <3>5
  <2> QED BY <1>1, <1>6, <2>1 DEF StopsOK
<1>8. MeanwhileOK' /\ PendingOK' /\ CatchOK' /\ DownOK' /\ QueueOK' /\ agenda' \in Seq(CallSet) /\ AgendaOK'
  <2>1. MeanwhileOK' /\ PendingOK'
    BY <1>1, <1>2 DEF MeanwhileOK, PendingOK, FirstRun
  <2>2. CatchOK' /\ DownOK'
    BY <1>2 DEF CatchOK, DownOK
  <2>3. queue' = <<>> /\ agenda' = <<>>
    BY <1>1, <1>2
  <2>4. QueueOK'
    BY <2>3 DEF QueueOK, FineOK, FoundFirst
  <2> QED BY <2>1, <2>2, <2>3, <2>4, NothingDue
<1>9. TypeOK'
  <2>1. open' \in SUBSET Jobs /\ catchUp' \in SUBSET Attempts
    BY <1>1, <1>3, <1>6 DEF TypeOK
  <2> QED BY <1>1, <1>2, <1>4, <1>8, <2>1 DEF TypeOK
<1> QED BY <1>5, <1>7, <1>8, <1>9 DEF UpdateInv, StepFits

LEMMA OwedItems ==
  ASSUME NEW S \in SUBSET Attempts, NEW q,
         q = InOrder(S, LAMBDA a : [is |-> "feed", of |-> a, found |-> TRUE])
  PROVE  q \in Seq({[is |-> "feed", of |-> a, found |-> TRUE] : a \in S})
<1>1. PICK n, s : n = Cardinality(S) /\ s = SetToSeq(S)
  OBVIOUS
<1>2. n \in Nat /\ s \in [1..n -> S]
  <2>1. IsFiniteSet(S)
    BY AttemptsFinite, FS_Subset
  <2> QED BY <1>1, <2>1, Listed
<1>3. q = [i \in 1..n |-> [is |-> "feed", of |-> s[i], found |-> TRUE]]
  BY <1>1, <1>2 DEF InOrder
<1>4. PICK T : T = {[is |-> "feed", of |-> a, found |-> TRUE] : a \in S}
  OBVIOUS
<1>5. \A i \in 1..n : [is |-> "feed", of |-> s[i], found |-> TRUE] \in T
  <2> SUFFICES ASSUME NEW i \in 1..n  PROVE [is |-> "feed", of |-> s[i], found |-> TRUE] \in T
    OBVIOUS
  <2>1. s[i] \in S
    BY <1>2
  <2> QED BY <1>4, <2>1
<1>6. q \in [1..n -> T]
  BY <1>3, <1>5
<1>7. q \in Seq(T)
  BY <1>2, <1>6, SeqDef
<1> QED BY <1>4, <1>7

LEMMA OwedStepStep ==
  ASSUME UpdateInv, OwedStep
  PROVE  UpdateInv' /\ StepFits
<1>1. /\ TypeOK /\ StopsOK /\ MeanwhileOK /\ QueueOK /\ CatchOK
  BY DEF UpdateInv
<1>2. /\ Up /\ agenda' = <<>> /\ phase = "catching up" /\ phase' = "recovering" /\ catchUp' = {} /\ catchUp = {}
      /\ UNCHANGED <<estate, update, stops, row, life, plan, pending, tier, open, kept, meanwhile>>
  BY DEF OwedStep, Ready, counts, store
<1>3. Up' /\ (Up' => Up) /\ PhaseKept /\ (Stopping' => Stopping) /\ catchUp' \subseteq catchUp
  BY <1>2 DEF Up, PhaseKept, Stopping
<1>4. /\ \A b \in Attempts : AttemptOK(b)' /\ RunOK(b)'
      /\ PendingOK' /\ Onward /\ StepFits
  BY <1>2, <1>3, Unmoved
<1> DEFINE S == {a \in Attempts : plan[a] \in {"feed", "hold"} /\ ~Queued(a)}
           F == {[is |-> "feed", of |-> a, found |-> TRUE] : a \in S}
<1>5. PICK f : f = InOrder(S, LAMBDA a : [is |-> "feed", of |-> a, found |-> TRUE])
  OBVIOUS
<1>6. f \in Seq(F)
  BY <1>5, OwedItems
<1>7. ASSUME NEW e \in F
      PROVE  e \in Entry /\ e.is = "feed" /\ plan[e.of] \in {"feed", "hold"}
  <2>1. PICK a \in S : e = [is |-> "feed", of |-> a, found |-> TRUE]
    OBVIOUS
  <2>2. a \in Attempts /\ plan[a] \in {"feed", "hold"}
    OBVIOUS
  <2> QED BY <2>1, <2>2 DEF Entry
<1> HIDE DEF S, F
<1>8. PICK g : g = queue \o f
  OBVIOUS
<1>9. f \in Seq(Entry) /\ queue \in Seq(Entry)
  BY <1>1, <1>6, <1>7, SeqMonotonic DEF TypeOK
<1>10. /\ g \in Seq(Entry) /\ Len(g) = Len(queue) + Len(f)
       /\ \A i \in 1..(Len(queue) + Len(f)) : g[i] = IF i <= Len(queue) THEN queue[i] ELSE f[i - Len(queue)]
  BY <1>8, <1>9, ConcatProperties
<1>11. Len(queue) \in Nat /\ Len(f) \in Nat /\ Len(g) \in Nat /\ DOMAIN queue = 1..Len(queue) /\ DOMAIN g = 1..Len(g)
  BY <1>9, <1>10, LenProperties
<1>12. ASSUME NEW i \in DOMAIN g
       PROVE  g[i] \in Entry /\ g[i].is = "feed" /\ plan[g[i].of] \in {"feed", "hold", "done"}
  <2>1. i \in Nat /\ i >= 1 /\ i <= Len(queue) + Len(f)
    BY <1>10, <1>11
  <2>2. CASE i <= Len(queue)
    <3>1. i \in DOMAIN queue /\ g[i] = queue[i]
      BY <1>10, <1>11, <2>1, <2>2
    <3>2. queue[i] \in Entry /\ Fine(queue[i])
      BY <1>1, <3>1, QueueItems DEF QueueOK, FineOK
    <3>3. queue[i].is = "feed"
      BY <1>2, <3>2 DEF Fine
    <3> QED BY <3>1, <3>2, <3>3 DEF Fine
  <2>3. CASE ~(i <= Len(queue))
    <3>1. i - Len(queue) \in 1..Len(f) /\ g[i] = f[i - Len(queue)]
      BY <1>10, <1>11, <2>1, <2>3
    <3>2. f[i - Len(queue)] \in F
      BY <1>6, <3>1, ElementOfSeq
    <3> QED BY <1>7, <3>1, <3>2
  <2> QED BY <2>2, <2>3
<1>13. queue' = g \o Look
  BY <1>5, <1>8 DEF OwedStep, S
<1>14. /\ queue' \in Seq(Entry) /\ DOMAIN queue' = 1..Len(queue') /\ Len(queue') \in Nat
       /\ \A i \in DOMAIN queue' :
            /\ queue'[i] \in Entry
            /\ \/ queue'[i].is = "feed" /\ plan[queue'[i].of] \in {"feed", "hold", "done"}
               \/ queue'[i].is = "look" /\ ~queue'[i].found /\ i = Len(queue')
  <2>1. CASE Stopping
    <3>1. PICK e : e = [is |-> "look", of |-> None, found |-> FALSE]
      OBVIOUS
    <3>2. e \in Entry /\ e.is = "look" /\ ~e.found
      BY <3>1 DEF Entry
    <3>3. queue' = g \o <<e>>
      BY <1>13, <2>1, <3>1 DEF Look
    <3>4. PICK r : r = Append(g, e)
      OBVIOUS
    <3>5. queue' = r
      BY <1>10, <3>2, <3>3, <3>4, AppendIsConcat
    <3>6. /\ r \in Seq(Entry) /\ DOMAIN r = 1..(Len(g) + 1)
          /\ \A i \in DOMAIN r : \/ i \in DOMAIN g /\ i < Len(g) + 1 /\ r[i] = g[i]
                                 \/ i = Len(g) + 1 /\ r[i] = e
      BY ONLY <1>10, <3>2, <3>4, Appended
    <3>7. DOMAIN r = 1..Len(r) /\ Len(r) \in Nat
      BY <3>6, LenProperties
    <3>8. Len(r) = Len(g) + 1
      BY <1>11, <3>6, <3>7
    <3> QED BY <1>12, <3>2, <3>5, <3>6, <3>7, <3>8
  <2>2. CASE ~Stopping
    <3>1. queue' = g
      BY <1>10, <1>13, <2>2, ConcatEmptySeq DEF Look
    <3> QED BY <1>10, <1>11, <1>12, <3>1
  <2> QED BY <2>1, <2>2
<1>15. QueueOK'
  <2>1. ASSUME NEW i \in DOMAIN queue', NEW q, q = queue'[i]  PROVE Fine(q)'
    <3>1. q.is = "feed" => plan'[q.of] \in {"feed", "hold", "done"}
      BY <1>2, <1>14, <2>1
    <3>2. q.is # "exit"
      BY <1>14, <2>1
    <3> QED BY <1>2, <3>1, <3>2 DEF Fine
  <2>2. ASSUME NEW i \in DOMAIN queue', NEW k \in DOMAIN queue', queue'[i].found, queue'[k].is # "feed"
        PROVE  i < k
    <3>1. k = Len(queue') /\ ~queue'[k].found /\ i # k
      BY <1>14, <2>2
    <3>2. i \in Nat /\ i <= Len(queue') /\ k \in Nat
      BY <1>14
    <3> QED BY <3>1, <3>2
  <2> QED BY <2>1, <2>2 DEF QueueOK, FineOK, FoundFirst
<1>16. StopsOK' /\ MeanwhileOK'
  <2>1. \A k \in meanwhile' \ meanwhile : update' # "none" /\ (Stopping' => Ended(k)')
    BY <1>2
  <2> QED BY <1>1, <1>2, <1>3, <1>4, <2>1, StopsOnward, MeanwhileOnward
<1>17. CatchOK' /\ DownOK'
  BY <1>2 DEF CatchOK, DownOK
<1>18. TypeOK'
  BY <1>1, <1>2, <1>14, NothingDue DEF TypeOK
<1> QED BY <1>2, <1>4, <1>15, <1>16, <1>17, <1>18, NothingDue DEF UpdateInv

LEMMA LiftBarrierStep ==
  ASSUME UpdateInv, LiftBarrier
  PROVE  UpdateInv' /\ StepFits
<1>1. /\ TypeOK /\ StopsOK /\ MeanwhileOK /\ QueueOK /\ CatchOK
  BY DEF UpdateInv
<1>2. /\ Up /\ phase = "recovering" /\ phase' = "running"
      /\ \A i \in DOMAIN queue : queue[i].is # "feed"
      /\ UNCHANGED <<estate, update, stops, row, life, plan, pending, tier, open, kept, meanwhile, queue, catchUp>>
  BY DEF LiftBarrier, Ready, counts, store
<1>3. Up' /\ (Up' => Up) /\ (Stopping' => Stopping)
  BY <1>2 DEF Up, Stopping
<1>4. /\ \A b \in Attempts : AttemptOK(b)' /\ RunOK(b)'
      /\ PendingOK' /\ Onward /\ StepFits
  BY <1>2, <1>3, Unmoved
<1>5. QueueOK'
  <2>1. ASSUME NEW i \in DOMAIN queue, NEW q, q = queue[i]  PROVE Fine(q)'
    <3>1. q \in Entry /\ Fine(q) /\ q.is # "feed"
      BY <1>1, <1>2, <2>1, QueueItems DEF QueueOK, FineOK
    <3>2. ~q.found
      BY <3>1 DEF Entry
    <3>3. q.is = "exit" => update' # "none" /\ (Stopping' => Ended(q.of)')
      BY <1>1, <1>4, <3>1, EndedStays DEF Fine, Onward
    <3> QED BY <1>2, <3>1, <3>2, <3>3 DEF Fine
  <2> QED BY <1>1, <1>2, <2>1 DEF QueueOK, FineOK, FoundFirst
<1>6. agenda' \in Seq(CallSet) /\ AgendaOK'
  <2>1. PICK q : q = InOrder(Jobs, LAMBDA j : <<"release", j>>)
    OBVIOUS
  <2>2. q \in Seq({"release"} \X Jobs) /\ {"release"} \X Jobs \subseteq CallSet
    BY <2>1, CallsOf
  <2>3. ASSUME NEW i \in DOMAIN q, NEW x, x = q[i]  PROVE x[1] = "release"
    <3>1. x \in {"release"} \X Jobs
      BY <2>2, <2>3, LenProperties, ElementOfSeq
    <3> QED BY <3>1
  <2>4. agenda' = q
    BY <2>1 DEF LiftBarrier
  <2>5. ASSUME NEW i \in DOMAIN q, NEW x, x = q[i]  PROVE Due(x)'
    BY <2>3, <2>5 DEF Due
  <2> QED BY <2>2, <2>3, <2>4, <2>5, SeqMonotonic DEF AgendaOK, DueOK, LastOK, OnceOK
<1>7. StopsOK' /\ MeanwhileOK'
  <2>1. \A k \in meanwhile' \ meanwhile : update' # "none" /\ (Stopping' => Ended(k)')
    BY <1>2
  <2> QED BY <1>1, <1>2, <1>3, <1>4, <2>1, StopsOnward, MeanwhileOnward
<1>8. CatchOK' /\ DownOK'
  BY <1>1, <1>2 DEF CatchOK, DownOK
<1>9. TypeOK'
  BY <1>1, <1>2, <1>6 DEF TypeOK
<1> QED BY <1>4, <1>5, <1>6, <1>7, <1>8, <1>9 DEF UpdateInv

-----------------------------------------------------------------------------
(* The theorems.                                                            *)

LEMMA InitInv == Init => UpdateInv
<1> SUFFICES ASSUME Init  PROVE UpdateInv
  OBVIOUS
<1>1. /\ estate \in Estates /\ update = "none" /\ stops = <<>> /\ phase = "running"
      /\ plan = [a \in Attempts |-> "none"] /\ kept = [a \in Attempts |-> "no"]
      /\ pending = {} /\ open = {} /\ meanwhile = {} /\ catchUp = {}
      /\ queue = <<>> /\ agenda = <<>>
  BY DEF Init, None
<1>2. PICK S \in SUBSET {j \in Jobs : estate.runs[j] > 0} :
        /\ row = [j \in Jobs |-> [run |-> IF j \in S THEN 1 ELSE 0, live |-> j \in S]]
        /\ life = [a \in Attempts |-> IF a \in {<<j, 1, 1>> : j \in S} THEN "open" ELSE "never"]
        /\ tier = [a \in Attempts |-> IF a \in {<<j, 1, 1>> : j \in S} THEN "live" ELSE "unknown"]
  BY DEF Init
<1>3. PICK now : now = {<<j, 1, 1>> : j \in S}
  OBVIOUS
<1>4. \A a \in Attempts : a \in now => a[1] \in S /\ a[2] = 1 /\ a[3] = 1
  <2> SUFFICES ASSUME NEW a \in now  PROVE a[1] \in S /\ a[2] = 1 /\ a[3] = 1
    OBVIOUS
  <2>1. PICK j \in S : a = <<j, 1, 1>>
    BY <1>3
  <2> QED BY <2>1
<1>5. \A j \in S : 1 \in 0..MaxRuns
  <2> SUFFICES ASSUME NEW j \in S  PROVE 1 \in 0..MaxRuns
    OBVIOUS
  <2>1. j \in Jobs /\ estate.runs[j] > 0 /\ estate.runs \in [Jobs -> 0..MaxRuns] /\ MaxRuns \in Nat
    BY <1>1, <1>2, UpdateAssumption
  <2>2. PICK n : n = estate.runs[j]
    OBVIOUS
  <2>3. n \in 0..MaxRuns /\ n > 0
    BY <2>1, <2>2
  <2> QED BY <2>1, <2>3
<1>6. TypeOK
  <2>1. 0 \in 0..MaxRuns
    BY UpdateAssumption
  <2>2. row \in [Jobs -> [run : 0..MaxRuns, live : BOOLEAN]]
    <3>1. \A j \in Jobs : [run |-> IF j \in S THEN 1 ELSE 0, live |-> j \in S]
                            \in [run : 0..MaxRuns, live : BOOLEAN]
      <4> SUFFICES ASSUME NEW j \in Jobs
                   PROVE [run |-> IF j \in S THEN 1 ELSE 0, live |-> j \in S]
                            \in [run : 0..MaxRuns, live : BOOLEAN]
        OBVIOUS
      <4>1. (IF j \in S THEN 1 ELSE 0) \in 0..MaxRuns /\ (j \in S) \in BOOLEAN
        BY <1>5, <2>1
      <4> QED BY <4>1
    <3> QED BY <1>2, <3>1
  <2>3. life \in [Attempts -> {"never", "open", "closing", "closed"}] /\ tier \in [Attempts -> Tiers]
    BY <1>2 DEF Tiers
  <2>4. plan \in [Attempts -> Plans] /\ kept \in [Attempts -> {"no", "natural", "stopped"}]
    BY <1>1 DEF Plans
  <2>5. DOMAIN stops = {} /\ queue \in Seq(Entry) /\ agenda \in Seq(CallSet)
    BY <1>1
  <2> QED BY <1>1, <2>2, <2>3, <2>4, <2>5 DEF TypeOK
<1>7. ASSUME NEW a \in Attempts  PROVE AttemptOK(a) /\ RunOK(a)
  <2>1. /\ plan[a] = "none" /\ kept[a] = "no" /\ a \notin catchUp /\ Up
        /\ \/ a \in now /\ life[a] = "open" /\ tier[a] = "live"
           \/ a \notin now /\ life[a] = "never" /\ tier[a] = "unknown"
    BY <1>1, <1>2, <1>3 DEF Up
  <2>2. AttemptOK(a)
    BY <2>1 DEF AttemptOK
  <2>3. RunOK(a)
    <3>1. CASE a \in now
      <4>1. a[1] \in S /\ a[2] = 1 /\ a[3] = 1 /\ a[1] \in Jobs
        BY <1>4, <3>1, AttemptParts
      <4>2. row[a[1]].run = 1
        BY <1>2, <4>1
      <4> QED BY <2>1, <4>1, <4>2 DEF RunOK, JobOf
    <3>2. CASE a \notin now
      BY <2>1, <3>2 DEF RunOK
    <3> QED BY <3>1, <3>2
  <2> QED BY <2>2, <2>3
<1>8. PendingOK /\ StopsOK /\ MeanwhileOK
  BY <1>1 DEF PendingOK, StopsOK, MeanwhileOK, Stopping
<1>9. QueueOK /\ AgendaOK
  <2>1. DOMAIN queue = {} /\ DOMAIN agenda = {}
    BY <1>1
  <2> QED BY <2>1 DEF QueueOK, FineOK, FoundFirst, AgendaOK, DueOK, LastOK, OnceOK
<1>10. CatchOK /\ DownOK
  BY <1>1 DEF CatchOK, DownOK
<1> QED BY <1>6, <1>7, <1>8, <1>9, <1>10 DEF UpdateInv

LEMMA Stutter ==
  ASSUME UpdateInv, UNCHANGED vars
  PROVE  UpdateInv' /\ StepFits
<1>1. UNCHANGED <<estate, update, stops, row, life, plan, pending, phase, tier, open, kept, meanwhile,
                  queue, catchUp, agenda>>
  BY DEF vars, store, memory
<1>2. TypeOK' /\ PendingOK' /\ StopsOK' /\ MeanwhileOK' /\ CatchOK' /\ DownOK'
  <2>1. TypeOK'
    BY <1>1 DEF UpdateInv, TypeOK
  <2>2. PendingOK' /\ StopsOK' /\ MeanwhileOK'
    BY <1>1 DEF UpdateInv, PendingOK, StopsOK, MeanwhileOK, Ended, Finished, Interrupted, Stopping, Up, FirstRun
  <2>3. CatchOK' /\ DownOK'
    BY <1>1 DEF UpdateInv, CatchOK, DownOK
  <2> QED BY <2>1, <2>2, <2>3
<1>3. QueueOK'
  BY <1>1 DEF UpdateInv, QueueOK, FineOK, FoundFirst, Fine, Ended, Finished, Interrupted, Stopping
<1>4. AgendaOK'
  BY <1>1 DEF UpdateInv, AgendaOK, DueOK, LastOK, OnceOK, Due, NothingFound, Stopping
<1>5. ASSUME NEW a \in Attempts
      PROVE  AttemptOK(a)' /\ RunOK(a)' /\ PlanFits(a) /\ LifeFits(a)
  <2>1. AttemptOK(a) /\ RunOK(a)
    BY DEF UpdateInv
  <2>2. AttemptOK(a)'
    BY <1>1, <2>1 DEF AttemptOK, Up
  <2>3. RunOK(a)'
    BY <1>1, <2>1 DEF RunOK
  <2>4. PlanFits(a) /\ LifeFits(a)
    BY <1>1 DEF PlanFits, LifeFits
  <2> QED BY <2>2, <2>3, <2>4
<1> QED BY <1>2, <1>3, <1>4, <1>5 DEF UpdateInv, StepFits

LEMMA NextInv ==
  ASSUME UpdateInv, [Next]_vars
  PROVE  UpdateInv' /\ StepFits
<1>1. CASE Call
  <2>1. CASE Perform
    BY <2>1, PerformStep
  <2>2. CASE Release
    BY <2>2, ReleaseStep
  <2>3. CASE Stop
    BY <2>3, StopCallStep
  <2>4. CASE Settle
    BY <2>4, SettleStep
  <2>5. CASE BoxEnds
    BY <2>5, BoxEndsStep
  <2>6. CASE Apply
    BY <2>6, ApplyStep
  <2>7. CASE Advance
    BY <2>7, AdvanceStep
  <2>8. CASE BoxStarts
    BY <2>8, BoxStartsStep
  <2>9. CASE CommitKept
    BY <2>9, CommitKeptStep
  <2>10. CASE ResumeCancelled
    BY <2>10, ResumeCancelledStep
  <2>11. CASE Answer
    BY <2>11, AnswerStep
  <2> QED BY <1>1, <2>1, <2>2, <2>3, <2>4, <2>5, <2>6, <2>7, <2>8, <2>9, <2>10, <2>11 DEF Call
<1>2. ASSUME NEW a \in Attempts, Ends(a) \/ LadderEnds(a) \/ CatchUp(a)
      PROVE  UpdateInv' /\ StepFits
  <2>1. CASE Ends(a)
    BY <2>1, EndsStep
  <2>2. CASE LadderEnds(a)
    BY <2>2, LadderEndsStep
  <2>3. CASE CatchUp(a)
    BY <2>3, CatchUpStep
  <2> QED BY <1>2, <2>1, <2>2, <2>3
<1>3. ASSUME NEW j \in Jobs, Input(j)  PROVE UpdateInv' /\ StepFits
  BY <1>3, InputStep
<1>4. CASE TakeFeed
  BY <1>4, TakeFeedStep
<1>5. CASE TakeExit
  BY <1>5, TakeExitStep
<1>6. CASE Admit
  BY <1>6, AdmitStep
<1>7. CASE Retry
  BY <1>7, RetryStep
<1>8. CASE BeginDrain
  BY <1>8, BeginDrainStep
<1>9. CASE Leave
  <2>1. Down /\ UNCHANGED <<store, estate>>
    BY <1>9 DEF Leave, counts
  <2> QED BY <2>1, DownStep
<1>10. CASE Crash
  <2>1. Down /\ UNCHANGED <<store, estate>>
    BY <1>10 DEF Crash
  <2> QED BY <2>1, DownStep
<1>11. CASE Restart
  BY <1>11, RestartStep
<1>12. CASE OwedStep
  BY <1>12, OwedStepStep
<1>13. CASE LiftBarrier
  BY <1>13, LiftBarrierStep
<1>14. CASE UNCHANGED vars
  BY <1>14, Stutter
<1> QED BY <1>1, <1>2, <1>3, <1>4, <1>5, <1>6, <1>7, <1>8, <1>9, <1>10, <1>11, <1>12, <1>13, <1>14 DEF Next

\* What one step does to the update: only the step that finds every stop finished
\* applies it.
LEMMA WhoApplies ==
  ASSUME UpdateInv, [Next]_vars, Stopping, update' = "applied"
  PROVE  Apply
<1>1. update' # update
  BY DEF Stopping
<1>2. ASSUME Call  PROVE Apply
  BY <1>1, <1>2 DEF Call, Perform, Release, Stop, Settle, BoxEnds, Advance, BoxStarts, CommitKept,
     ResumeCancelled, Answer, store
<1>3. ASSUME NEW a \in Attempts, Ends(a) \/ LadderEnds(a) \/ CatchUp(a)  PROVE FALSE
  BY <1>1, <1>3 DEF Ends, LadderEnds, CatchUp, StopEnds
<1>4. ASSUME NEW j \in Jobs, Input(j)  PROVE FALSE
  BY <1>1, <1>4 DEF Input
<1>5. ~(TakeFeed \/ TakeExit \/ Retry \/ BeginDrain)
  BY <1>1 DEF TakeFeed, TakeExit, Retry, BeginDrain, store
<1>6. ~(Leave \/ Crash \/ Restart \/ OwedStep \/ LiftBarrier)
  BY <1>1 DEF Leave, Crash, Restart, OwedStep, LiftBarrier, store
<1>7. ~Admit
  BY DEF Admit, Stopping
<1>8. ~UNCHANGED vars
  BY <1>1 DEF vars, store
<1> QED BY <1>2, <1>3, <1>4, <1>5, <1>6, <1>7, <1>8 DEF Next

\* The update's state is well typed and of one piece: the plan, the open table and the
\* tier agree on every attempt, an attempt whose stop the update asked for stays known
\* until it is finished, and what the loop has still to do finds what it relies on, in
\* whatever order ends, restarts and commands come (runner_update.py's admit, look and
\* finish, runner.py's _update_step and _owed).
THEOREM UpdateInvariant == Spec => []UpdateInv
<1>1. Init => UpdateInv
  BY InitInv
<1>2. UpdateInv /\ [Next]_vars => UpdateInv'
  BY NextInv
<1> QED BY <1>1, <1>2, PTL DEF Spec

\* The update applies only when every stop it asked for is finished, what each of the
\* attempts it interrupted ended with is known, and every input a restart recovered has
\* been fed: stop_done and the first look after the catch-up.
THEOREM StopsAreFinishedFirst == Spec => StopsFinishedFirst
<1> DEFINE Held == Stopping /\ update' = "applied" =>
       /\ \A j \in DOMAIN stops \ estate.watches : Interrupted(j) =>
            /\ tier[stops[j]] \notin {"live", "stopping", "busy"}
            /\ kept[stops[j]] # "no" \/ plan[stops[j]] # "none"
       /\ \A i \in DOMAIN queue : ~queue[i].found
<1>1. UpdateInv /\ [Next]_vars => Held
  <2> SUFFICES ASSUME UpdateInv, [Next]_vars, Stopping, update' = "applied"
               PROVE  /\ \A j \in DOMAIN stops \ estate.watches : Interrupted(j) => Finished(stops[j])
                      /\ \A i \in DOMAIN queue : ~queue[i].found
    BY DEF Finished
  <2>1. Apply
    BY WhoApplies
  <2>2. PICK c : c = Head(agenda)
    OBVIOUS
  <2>3. agenda # <<>> /\ c[1] = "apply"
    BY <2>1, <2>2 DEF Apply, Calls
  <2>4. Due(c) /\ Up
    BY <2>2, <2>3, CallHead
  <2>5. open = {} /\ NothingFound
    BY <2>3, <2>4 DEF Due
  <2>6. \A j \in DOMAIN stops \ estate.watches : Interrupted(j) => Finished(stops[j])
    BY <2>4, <2>5 DEF UpdateInv, StopsOK
  <2> QED BY <2>5, <2>6 DEF NothingFound
<1>2. UpdateInv /\ [Next]_vars => [Held]_vars
  BY <1>1
<1> QED BY <1>2, UpdateInvariant, PTL DEF Spec, StopsFinishedFirst

\* What the plan changes does not go on under the old definitions, whoever ends and
\* restarts between: no plan is made for an attempt the update interrupted, nor for the
\* interruption of a job whose mark it moves, while it stops; a plan made is never
\* remade; no attempt of its jobs starts; and no job but a watch has two attempts alive
\* (keeps, _choose_follow_ups, holds, _release, blocked).
THEOREM NothingGoesOn == Spec => NothingGoesOnUnderTheOld
<1> DEFINE Kept == Stopping /\ Stopping' =>
             \A j \in DOMAIN stops \ estate.watches :
               Interrupted(j) /\ plan[stops[j]] = "none" => plan'[stops[j]] = "none"
           Planned == \A a \in Attempts :
             /\ plan'[a] \in {"rerun", "hold"} /\ plan[a] # plan'[a] =>
                  plan[a] = "none" /\ ~(Stopping /\ JobOf(a) \in Moved)
             /\ plan[a] \in {"done", "nothing"} => plan'[a] = plan[a]
             /\ life[a] = "never" /\ life'[a] = "open" =>
                  /\ ~(Stopping /\ JobOf(a) \in estate.touched)
                  /\ JobOf(a) \notin Removed
                  /\ \A b \in Attempts : JobOf(b) = JobOf(a) /\ JobOf(b) \notin estate.watches =>
                       tier[b] \notin {"live", "stopping", "busy"}
<1>1. UpdateInv /\ [Next]_vars => Kept /\ Planned
  <2> SUFFICES ASSUME UpdateInv, [Next]_vars  PROVE Kept /\ Planned
    OBVIOUS
  <2>1. StepFits /\ TypeOK
    BY NextInv DEF UpdateInv
  <2>2. Kept
    <3> SUFFICES ASSUME Stopping, NEW j \in DOMAIN stops \ estate.watches, Interrupted(j),
                        plan[stops[j]] = "none"
                 PROVE  plan'[stops[j]] = "none"
      OBVIOUS
    <3>1. PICK a : a = stops[j]
      OBVIOUS
    <3>2. a \in Attempts /\ JobOf(a) = j
      BY <2>1, <3>1 DEF TypeOK, Interrupted
    <3>3. PlanFits(a) /\ Interrupted(JobOf(a)) /\ stops[JobOf(a)] = a /\ JobOf(a) \notin estate.watches
      BY <2>1, <3>1, <3>2 DEF StepFits
    <3> QED BY <3>1, <3>3 DEF PlanFits
  <2>3. Planned
    BY <2>1 DEF StepFits, PlanFits, LifeFits, LaunchFits
  <2> QED BY <2>2, <2>3
<1>2. UpdateInv /\ [Next]_vars => [Kept /\ Planned]_vars
  BY <1>1
<1> QED BY <1>2, UpdateInvariant, PTL DEF Spec, NothingGoesOnUnderTheOld

=============================================================================
