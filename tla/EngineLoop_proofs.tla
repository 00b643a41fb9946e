-------------------------- MODULE EngineLoop_proofs --------------------------
(***************************************************************************)
(* The proofs that one attempt of a job is open at a time and that nothing *)
(* is dispatched twice, nor by a draining engine, whether or not operators *)
(* overwrite; and that a run the oracle wants is never forgotten, where    *)
(* none does: for every set of jobs, any number of runs and attempts.      *)
(***************************************************************************)
EXTENDS EngineLoop, TLAPS

Names == {"kill", "spawn", "discharge_start", "discharge_plan", "perform", "ladder_ended",
          "release"}
Starts == {"spawn", "discharge_start"}
HeadOnly == {"discharge_plan", "ladder_ended"}

TierRecord == [state : {"unknown", "live", "stopping", "ended"},
               cleaning : {"no", "ladder", "held"}, killed : BOOLEAN,
               planDone : BOOLEAN, exited : BOOLEAN]

TypeOK ==
  /\ row \in [Jobs -> [run : 0..MaxRuns, live : BOOLEAN]]
  /\ life \in [Attempts -> {"never", "open", "closing", "closed"}]
  /\ plan \in [Attempts -> {"none", "input", "rerun", "done"}]
  /\ pending \in SUBSET Runs /\ decided \in SUBSET Runs /\ recorded \in SUBSET Runs
  /\ phase \in {"running", "draining", "down", "recovering", "owing", "barrier"}
  /\ tier \in [Attempts -> TierRecord]
  /\ live \in [Jobs -> Attempts \cup {None}]
  /\ \A j \in Jobs : live[j] # None => JobOf(live[j]) = j
  /\ queue \in SUBSET Attempts /\ waiting \in SUBSET Attempts /\ catchUp \in SUBSET Attempts
  /\ deferred \in SUBSET (Attempts \X {"start", "plan"})
  /\ held \in [Jobs -> Seq(Runs)]
  /\ agenda \in [Jobs -> Seq(Names \X Attempts)]

-----------------------------------------------------------------------------
(* The strengthening.                                                       *)

Started(a) == a[2] <= row[JobOf(a)].run

HeldBack(a) == \E i \in DOMAIN held[JobOf(a)] : held[JobOf(a)][i] = a

\* A start that nothing has launched yet.
Unlaunched(a) == a \in Runs /\ life[a] = "never" /\ Started(a)

\* In the store: a plan is there once its attempt's outcome is, a replacement once
\* its plan's step is done, and a decided run that was dispatched has its record.
StoreOK ==
  /\ \A a \in Attempts :
       /\ life[a] # "never" => Started(a)
       /\ life[a] \in {"never", "open"} =>
            /\ plan[a] = "none"
            /\ a[3] < MaxAttempts => life[Replacement(a)] = "never"
       /\ plan[a] = "rerun" => a[3] < MaxAttempts /\ life[Replacement(a)] = "never"
  /\ \A a \in pending : Unlaunched(a)
  /\ \A a \in decided : life[a] # "never" => a \in recorded

LadderEndDue(a) ==
  agenda[JobOf(a)] # <<>> /\ Head(agenda[JobOf(a)]) = <<"ladder_ended", a>>

\* What is open in the store keeps the job's next dispatch back in the memory, or
\* is about to be closed, or has not been taken by the catch-up.
TierOK ==
  Up => \A a \in Attempts :
          /\ life[a] = "open" <=> tier[a].state \in {"live", "stopping"}
          /\ life[a] = "closing" =>
               /\ tier[a].state = "ended"
               /\ a \in catchUp \/ tier[a].cleaning # "no" \/ LadderEndDue(a)

\* The recovery launches nothing before its barrier, and its catch-up takes an
\* attempt before anything else does.
RecoveryOK ==
  /\ phase \in {"recovering", "owing", "down"} =>
       \A j \in Jobs : held[j] = <<>> /\ live[j] = None
  /\ catchUp # {} => phase = "recovering"
  /\ ~Recovering => deferred = {}
  /\ \A a \in catchUp : tier[a].exited /\ tier[a].cleaning = "no"
  /\ queue \cap catchUp = {} /\ waiting \cap catchUp = {}
  /\ phase = "down" => Idle /\ queue = {} /\ waiting = {}

\* A start waits in one place, once, and a replacement that waits for the barrier
\* has no ladder.
WaitsOK ==
  /\ \A a \in queue : plan[a] = "input"
  /\ \A a \in Attempts :
       /\ <<a, "start">> \in deferred => Unlaunched(a)
       /\ <<a, "plan">> \in deferred =>
            plan[a] = "rerun" /\ tier[a].cleaning # "ladder" /\ a \notin catchUp
  /\ \A j \in Jobs : \A i \in DOMAIN held[j] :
       /\ JobOf(held[j][i]) = j /\ Unlaunched(held[j][i])
       /\ <<held[j][i], "start">> \notin deferred
       /\ \A k \in DOMAIN held[j] : held[j][i] = held[j][k] => i = k

CallOK(c) ==
  /\ c[1] \in Starts => Unlaunched(c[2]) /\ ~HeldBack(c[2]) /\ <<c[2], "start">> \notin deferred
  /\ c[1] = "spawn" => c[2] \notin pending
  /\ c[1] \in {"discharge_start", "discharge_plan"} => phase \in {"running", "barrier"}
  /\ c[1] \in {"perform", "ladder_ended"} => c[2] \notin catchUp
  /\ c[1] = "discharge_plan" =>
       plan[c[2]] = "rerun" /\ tier[c[2]].cleaning # "ladder" /\ <<c[2], "plan">> \notin deferred

AgendaOK ==
  \A j \in Jobs : \A i \in DOMAIN agenda[j] :
    /\ JobOf(agenda[j][i][2]) = j
    /\ CallOK(agenda[j][i])
    /\ i # 1 => agenda[j][i][1] \notin HeadOnly
    /\ \A k \in DOMAIN agenda[j] :
         agenda[j][i][1] \in Starts /\ agenda[j][k][1] \in Starts
           /\ agenda[j][i][2] = agenda[j][k][2] => i = k

EngineInv ==
  TypeOK /\ StoreOK /\ TierOK /\ RecoveryOK /\ WaitsOK /\ AgendaOK /\ OneOpenPerJob

-----------------------------------------------------------------------------
(* Attempts, runs and replacements.                                         *)

LEMMA AttemptParts ==
  ASSUME NEW a \in Attempts
  PROVE  /\ JobOf(a) \in Jobs /\ a[2] \in 1..MaxRuns /\ a[3] \in 1..MaxAttempts
         /\ a = <<JobOf(a), a[2], a[3]>> /\ a # None
         /\ RunOf(a) \in Runs /\ JobOf(RunOf(a)) = JobOf(a) /\ RunOf(a)[2] = a[2]
<1>1. a \in Jobs \X (1..MaxRuns) \X (1..MaxAttempts)
  BY DEF Attempts
<1>2. /\ a[1] \in Jobs /\ a[2] \in 1..MaxRuns /\ a[3] \in 1..MaxAttempts
      /\ a = <<a[1], a[2], a[3]>>
  BY <1>1
<1>3. a # None
  <2>1. 1 \in DOMAIN a
    BY <1>1
  <2>2. DOMAIN <<>> = {}
    OBVIOUS
  <2> QED
    BY <2>1, <2>2, Zenon DEF None
<1> QED
  BY <1>2, <1>3 DEF JobOf, RunOf, Runs

LEMMA RunsAreAttempts ==
  ASSUME NEW a \in Runs
  PROVE  a \in Attempts /\ a[3] = 1 /\ RunOf(a) = a
  BY EngineAssumption DEF Runs, Attempts, RunOf

LEMMA Replacements ==
  ASSUME NEW a \in Attempts, a[3] < MaxAttempts
  PROVE  /\ Replacement(a) \in Attempts /\ Replacement(a) \notin Runs
         /\ JobOf(Replacement(a)) = JobOf(a) /\ Replacement(a)[2] = a[2]
         /\ Replacement(a)[3] = a[3] + 1
         /\ \A b \in Attempts : Replacement(b) = Replacement(a) => b = a
<1>1. /\ a[1] \in Jobs /\ a[2] \in 1..MaxRuns /\ a[3] \in 1..MaxAttempts
  BY AttemptParts DEF JobOf
<1>2. /\ Replacement(a)[1] = a[1] /\ Replacement(a)[2] = a[2] /\ Replacement(a)[3] = a[3] + 1
  BY DEF Replacement
<1>3. Replacement(a) \in Attempts
  BY <1>1, EngineAssumption DEF Replacement, Attempts
<1>4. Replacement(a) \notin Runs
  BY <1>1, <1>2, RunsAreAttempts
<1>5. ASSUME NEW b \in Attempts, Replacement(b) = Replacement(a)  PROVE b = a
  <2>1. /\ b[1] \in Jobs /\ b[2] \in 1..MaxRuns /\ b[3] \in 1..MaxAttempts
        /\ b = <<b[1], b[2], b[3]>> /\ a = <<a[1], a[2], a[3]>>
    BY AttemptParts DEF JobOf
  <2>2. b[1] = a[1] /\ b[2] = a[2] /\ b[3] + 1 = a[3] + 1
    BY <1>5 DEF Replacement
  <2>3. b[3] = a[3]
    BY <1>1, <2>1, <2>2
  <2> QED
    BY <2>1, <2>2, <2>3
<1> QED
  BY <1>2, <1>3, <1>4, <1>5 DEF JobOf

-----------------------------------------------------------------------------
(* Agendas.                                                                 *)

CallSet == Names \X Attempts

\* The calls that wait behind the one a step makes.
Rest(j) == {agenda[j][i] : i \in 2..Len(agenda[j])}

\* What a sequence n has whose first part is more and whose rest is the tail of s.
Spliced(n, more, s) ==
  /\ n \in Seq(CallSet)
  /\ \A i \in DOMAIN n :
       \/ i \in DOMAIN more /\ n[i] = more[i]
       \/ \E k \in 2..Len(s) : i = Len(more) + k - 1 /\ n[i] = s[k]

LEMMA AfterHead ==
  ASSUME NEW s \in Seq(CallSet), s # <<>>, NEW more \in Seq(CallSet)
  PROVE  Spliced(more \o Tail(s), more, s)
<1>0. PICK n : n = more \o Tail(s)
  OBVIOUS
<1>1. /\ Tail(s) \in Seq(CallSet) /\ Len(Tail(s)) = Len(s) - 1 /\ Len(s) \in Nat \ {0}
      /\ Len(more) \in Nat
      /\ \A k \in 1..Len(s) - 1 : Tail(s)[k] = s[k + 1]
  OBVIOUS
<1>2. /\ n \in Seq(CallSet) /\ Len(n) = Len(more) + Len(s) - 1
      /\ \A i \in 1..Len(more) : n[i] = more[i]
      /\ \A i \in Len(more) + 1..Len(n) : n[i] = Tail(s)[i - Len(more)]
  BY <1>0, <1>1
<1>3. ASSUME NEW i \in DOMAIN n, i \notin DOMAIN more
      PROVE  \E k \in 2..Len(s) : i = Len(more) + k - 1 /\ n[i] = s[k]
  <2>1. i \in Len(more) + 1..Len(n)
    BY <1>1, <1>2, <1>3
  <2>2. n[i] = Tail(s)[i - Len(more)]
    BY <1>2, <2>1
  <2>3. /\ i - Len(more) \in 1..Len(s) - 1 /\ i - Len(more) + 1 \in 2..Len(s)
        /\ i = Len(more) + (i - Len(more) + 1) - 1
    BY <1>1, <1>2, <2>1
  <2>4. Tail(s)[i - Len(more)] = s[i - Len(more) + 1]
    BY <1>1, <2>3
  <2> QED
    BY <2>2, <2>3, <2>4
<1>4. \A i \in DOMAIN n : i \in DOMAIN more => n[i] = more[i]
  BY <1>2
<1> QED
  BY <1>0, <1>2, <1>3, <1>4 DEF Spliced

LEMMA RestFacts ==
  ASSUME TypeOK, AgendaOK, NEW j \in Jobs, agenda[j] # <<>>, NEW c \in Rest(j)
  PROVE  /\ c \in CallSet /\ JobOf(c[2]) = j /\ CallOK(c) /\ c[1] \notin HeadOnly
         /\ c[1] \in Starts /\ Head(agenda[j])[1] \in Starts => c[2] # Of(j)
<1>1. PICK i \in 2..Len(agenda[j]) : c = agenda[j][i]
  BY DEF Rest
<1>2. /\ agenda[j] \in Seq(CallSet) /\ Len(agenda[j]) \in Nat \ {0}
  BY DEF TypeOK, CallSet
<1>3. /\ i \in DOMAIN agenda[j] /\ i # 1 /\ 1 \in DOMAIN agenda[j]
      /\ Head(agenda[j]) = agenda[j][1] /\ c \in CallSet
  BY <1>1, <1>2
<1>4. /\ JobOf(c[2]) = j /\ CallOK(c) /\ c[1] \notin HeadOnly
  BY <1>1, <1>3 DEF AgendaOK
<1>5. c[1] \in Starts /\ Head(agenda[j])[1] \in Starts => c[2] # Of(j)
  BY <1>1, <1>3 DEF AgendaOK, Of
<1> QED
  BY <1>3, <1>4, <1>5

\* The call an agenda is at.
LEMMA HeadFacts ==
  ASSUME TypeOK, AgendaOK, NEW j \in Jobs, NEW name, Calling(j, name)
  PROVE  /\ agenda[j] # <<>> /\ <<name, Of(j)>> \in CallSet /\ Head(agenda[j]) = <<name, Of(j)>>
         /\ Of(j) \in Attempts /\ JobOf(Of(j)) = j /\ CallOK(<<name, Of(j)>>)
         /\ ~Idle
<1>1. /\ agenda[j] # <<>> /\ Head(agenda[j])[1] = name /\ ~Idle
  BY DEF Calling, Idle
<1>2. /\ agenda[j] \in Seq(CallSet) /\ 1 \in DOMAIN agenda[j] /\ Head(agenda[j]) = agenda[j][1]
      /\ Head(agenda[j]) \in CallSet
  BY <1>1 DEF TypeOK, CallSet
<1>3. Head(agenda[j]) = <<name, Of(j)>> /\ Of(j) \in Attempts
  BY <1>1, <1>2 DEF Of, CallSet
<1>4. JobOf(Of(j)) = j /\ CallOK(Head(agenda[j]))
  BY <1>2 DEF AgendaOK, Of
<1> QED
  BY <1>1, <1>2, <1>3, <1>4

\* The calls of an agenda after a step, named before it.
LEMMA AgendaByCalls ==
  ASSUME \A k \in Jobs : \A i \in DOMAIN agenda'[k] : \A c :
           c = agenda'[k][i] =>
             /\ JobOf(c[2]) = k
             /\ CallOK(c)'
             /\ i # 1 => c[1] \notin HeadOnly
             /\ \A m \in DOMAIN agenda'[k] :
                  c[1] \in Starts /\ agenda'[k][m][1] \in Starts
                    /\ c[2] = agenda'[k][m][2] => i = m
  PROVE  AgendaOK'
<1> SUFFICES ASSUME NEW k \in Jobs, NEW i \in DOMAIN agenda'[k]
             PROVE  /\ JobOf(agenda'[k][i][2]) = k
                    /\ CallOK(agenda[k][i])'
                    /\ i # 1 => agenda'[k][i][1] \notin HeadOnly
                    /\ \A m \in DOMAIN agenda'[k] :
                         agenda'[k][i][1] \in Starts /\ agenda'[k][m][1] \in Starts
                           /\ agenda'[k][i][2] = agenda'[k][m][2] => i = m
  BY DEF AgendaOK, JobOf
<1>1. PICK c : c = agenda'[k][i]
  OBVIOUS
<1>2. CallOK(c)'
  BY <1>1
<1>3. CallOK(agenda[k][i])'
  BY <1>1, <1>2 DEF CallOK, Unlaunched, Started, HeldBack, JobOf
<1> QED
  BY <1>1, <1>3

\* A step that makes a job's next call and puts more in its place.
LEMMA CallStep ==
  ASSUME TypeOK, AgendaOK, NEW j \in Jobs, agenda[j] # <<>>,
         NEW more \in Seq(CallSet), Then(j, more),
         \A i \in DOMAIN more : /\ JobOf(more[i][2]) = j /\ CallOK(more[i])'
                                /\ i # 1 => more[i][1] \notin HeadOnly,
         \A i, k \in DOMAIN more :
           more[i][1] \in Starts /\ more[k][1] \in Starts /\ more[i][2] = more[k][2] => i = k,
         \A i \in DOMAIN more, c \in Rest(j) :
           more[i][1] \in Starts /\ c[1] \in Starts => c[2] # more[i][2],
         \A c \in CallSet : (JobOf(c[2]) # j \/ c \in Rest(j)) /\ CallOK(c) => CallOK(c)'
  PROVE  (agenda \in [Jobs -> Seq(Names \X Attempts)])' /\ AgendaOK'
<1>1. agenda \in [Jobs -> Seq(CallSet)] /\ agenda' = [agenda EXCEPT ![j] = more \o Tail(@)]
  BY DEF TypeOK, CallSet, Then
<1>0. PICK n : n = more \o Tail(agenda[j])
  OBVIOUS
<1>2. /\ n \in Seq(CallSet)
      /\ \A i \in DOMAIN n :
           \/ i \in DOMAIN more /\ n[i] = more[i]
           \/ \E k \in 2..Len(agenda[j]) : i = Len(more) + k - 1 /\ n[i] = agenda[j][k]
  <2>1. PICK s : s = agenda[j]
    OBVIOUS
  <2>2. s \in Seq(CallSet) /\ s # <<>> /\ n = more \o Tail(s)
    BY <1>0, <1>1, <2>1
  <2>3. Spliced(n, more, s)
    BY <2>2, AfterHead, Zenon
  <2> QED
    BY <2>1, <2>3 DEF Spliced
<1>3. agenda' \in [Jobs -> Seq(CallSet)] /\ agenda'[j] = n
      /\ \A k \in Jobs : k # j => agenda'[k] = agenda[k]
  BY <1>0, <1>1, <1>2
<1>4. \A k \in 2..Len(agenda[j]) : /\ agenda[j][k] \in Rest(j) /\ k \in DOMAIN agenda[j] /\ k # 1
                                   /\ k \in Nat
  BY <1>1 DEF Rest
<1>5. Len(more) \in Nat
  OBVIOUS
<1>6. ASSUME NEW i \in DOMAIN n
      PROVE  JobOf(n[i][2]) = j /\ CallOK(n[i])' /\ (i # 1 => n[i][1] \notin HeadOnly)
  <2>1. CASE i \in DOMAIN more /\ n[i] = more[i]
    BY <2>1
  <2>2. CASE \E k \in 2..Len(agenda[j]) : i = Len(more) + k - 1 /\ n[i] = agenda[j][k]
    <3>1. n[i] \in Rest(j)
      BY <1>4, <2>2
    <3> QED
      BY <3>1, RestFacts
  <2> QED
    BY <1>2, <1>6, <2>1, <2>2
<1>7. ASSUME NEW i \in DOMAIN n, NEW k \in DOMAIN n, n[i][1] \in Starts, n[k][1] \in Starts,
             n[i][2] = n[k][2]
      PROVE  i = k
  <2>1. CASE i \in DOMAIN more /\ n[i] = more[i] /\ k \in DOMAIN more /\ n[k] = more[k]
    BY <1>7, <2>1
  <2>2. ASSUME NEW x \in DOMAIN more, NEW c \in Rest(j), more[x][1] \in Starts, c[1] \in Starts
        PROVE  more[x][2] # c[2]
    BY <2>2
  <2>3. ASSUME NEW x \in 2..Len(agenda[j]), NEW y \in 2..Len(agenda[j]),
               i = Len(more) + x - 1, n[i] = agenda[j][x],
               k = Len(more) + y - 1, n[k] = agenda[j][y]
        PROVE  i = k
    <3>1. x = y
      BY <1>4, <1>7, <2>3 DEF AgendaOK
    <3> QED
      BY <2>3, <3>1
  <2>6. /\ \/ i \in DOMAIN more /\ n[i] = more[i]
           \/ \E x \in 2..Len(agenda[j]) : i = Len(more) + x - 1 /\ n[i] = agenda[j][x]
        /\ \/ k \in DOMAIN more /\ n[k] = more[k]
           \/ \E x \in 2..Len(agenda[j]) : k = Len(more) + x - 1 /\ n[k] = agenda[j][x]
    BY <1>2, <1>7
  <2>7. CASE i \in DOMAIN more /\ n[i] = more[i]
    <3>1. CASE k \in DOMAIN more /\ n[k] = more[k]
      BY <2>1, <2>7, <3>1
    <3>2. CASE ~(k \in DOMAIN more /\ n[k] = more[k])
      <4>1. n[k] \in Rest(j)
        BY <1>4, <2>6, <3>2
      <4> QED
        BY <1>7, <2>2, <2>7, <4>1
    <3> QED
      BY <3>1, <3>2
  <2>8. CASE ~(i \in DOMAIN more /\ n[i] = more[i])
    <3>1. CASE k \in DOMAIN more /\ n[k] = more[k]
      <4>1. n[i] \in Rest(j)
        BY <1>4, <2>6, <2>8
      <4> QED
        BY <1>7, <2>2, <3>1, <4>1
    <3>2. CASE ~(k \in DOMAIN more /\ n[k] = more[k])
      BY <2>3, <2>6, <2>8, <3>2
    <3> QED
      BY <3>1, <3>2
  <2> QED
    BY <2>7, <2>8
<1>8. ASSUME NEW k \in Jobs, k # j, NEW c \in CallSet, NEW i \in DOMAIN agenda[k],
             c = agenda[k][i]
      PROVE  CallOK(c)'
  <2>1. JobOf(c[2]) = k /\ CallOK(c)
    BY <1>1, <1>8 DEF AgendaOK
  <2> QED
    BY <1>8, <2>1
<1>9. AgendaOK'
  <2> SUFFICES ASSUME NEW k \in Jobs, NEW i \in DOMAIN agenda'[k], NEW c, c = agenda'[k][i]
               PROVE  /\ JobOf(c[2]) = k
                      /\ CallOK(c)'
                      /\ i # 1 => c[1] \notin HeadOnly
                      /\ \A m \in DOMAIN agenda'[k] :
                           c[1] \in Starts /\ agenda'[k][m][1] \in Starts
                             /\ c[2] = agenda'[k][m][2] => i = m
    BY AgendaByCalls
  <2>1. CASE k = j
    <3>1. c = n[i] /\ i \in DOMAIN n
      BY <1>3, <2>1
    <3>2. CallOK(c)'
      BY <1>6, <3>1
    <3> QED
      BY <1>3, <1>6, <1>7, <2>1, <3>1, <3>2
  <2>2. CASE k # j
    <3>1. agenda'[k] = agenda[k] /\ c = agenda[k][i] /\ i \in DOMAIN agenda[k]
      BY <1>3, <2>2
    <3>2. c \in CallSet
      BY <1>1, <3>1
    <3>3. CallOK(c)'
      BY <1>8, <2>2, <3>1, <3>2
    <3> QED
      BY <3>1, <3>3 DEF AgendaOK
  <2> QED
    BY <2>1, <2>2
<1> QED
  BY <1>3, <1>9 DEF CallSet

-----------------------------------------------------------------------------
(* Stops and launches.                                                      *)

\* What a dispatch may have done to the tier before it goes or is kept back.
StopOnly(t) ==
  /\ t \in [Attempts -> TierRecord]
  /\ \A a \in Attempts : t[a] = tier[a] \/ (tier[a].state = "live" /\ t[a].state = "stopping")

LEMMA AfterStopOnly ==
  ASSUME TypeOK, NEW a \in Attempts, NEW cleaning \in {"no", "ladder"}, NEW t,
         t = AfterStop(a, cleaning)
  PROVE  StopOnly(t)
<1>1. tier \in [Attempts -> TierRecord]
  BY DEF TypeOK
<1>2. CASE MustStop(a)
  <2>1. live[JobOf(a)] \in Attempts
    BY <1>2, AttemptParts DEF MustStop, TypeOK
  <2>2. PICK b \in Attempts : b = live[JobOf(a)]
    BY <2>1
  <2>3. t = [tier EXCEPT ![b] = Stop(tier[b], cleaning, TRUE)]
    BY <1>2, <2>2 DEF AfterStop
  <2>4. /\ Stop(tier[b], cleaning, TRUE) \in TierRecord
        /\ tier[b].state = "live" => Stop(tier[b], cleaning, TRUE).state = "stopping"
        /\ tier[b].state # "live" => Stop(tier[b], cleaning, TRUE) = tier[b]
    <3>1. tier[b] \in TierRecord /\ cleaning \in {"no", "ladder", "held"}
      BY <1>1
    <3> QED
      BY <3>1 DEF Stop, TierRecord
  <2> QED
    BY <1>1, <2>3, <2>4 DEF StopOnly
<1>3. CASE ~MustStop(a)
  BY <1>1, <1>3 DEF AfterStop, StopOnly
<1> QED
  BY <1>2, <1>3

LEMMA PastTheRecovery ==
  ASSUME EngineInv, phase \in {"running", "draining", "barrier"}
  PROVE  catchUp = {} /\ Up /\ (phase # "barrier" => deferred = {})
  BY DEF EngineInv, RecoveryOK, Up, Recovering

\* A dispatch that nothing keeps back finds no other attempt of its job open.
LEMMA NotBlocked ==
  ASSUME EngineInv, phase \in {"running", "barrier"}, NEW t, StopOnly(t), NEW a \in Attempts,
         NEW r, a # r, ~LadderEndDue(a), ~Blocked(t, JobOf(a), r)
  PROVE  life[a] \notin {"open", "closing"}
<1>1. catchUp = {} /\ Up
  BY PastTheRecovery
<1>2. ~Unsettled(t[a])
  BY DEF Blocked
<1>3. life[a] # "open"
  BY <1>1, <1>2 DEF EngineInv, TierOK, StopOnly, Unsettled
<1>4. life[a] # "closing"
  BY <1>1, <1>2 DEF EngineInv, TierOK, StopOnly, Unsettled
<1> QED
  BY <1>3, <1>4

\* An attempt that is launched where none of its job is open.
LEMMA Launched ==
  ASSUME EngineInv, phase \in {"running", "barrier"}, NEW b \in Attempts, life[b] = "never",
         NEW t, StopOnly(t), Launch(b, t),
         \A a \in Attempts : JobOf(a) = JobOf(b) => life[a] \notin {"open", "closing"},
         \A k \in Jobs : k # JobOf(b) => agenda'[k] = agenda[k],
         UNCHANGED <<phase, catchUp>>
  PROVE  /\ life' \in [Attempts -> {"never", "open", "closing", "closed"}]
         /\ tier' \in [Attempts -> TierRecord]
         /\ live' \in [Jobs -> Attempts \cup {None}]
         /\ \A j \in Jobs : live'[j] # None => JobOf(live'[j]) = j
         /\ recorded' \in SUBSET Runs
         /\ OneOpenPerJob' /\ TierOK'
         /\ life'[b] = "open" /\ tier'[b].state = "live"
         /\ \A a \in Attempts : a # b => life'[a] = life[a] /\ tier'[a] = t[a]
<1>1. /\ tier' = [t EXCEPT ![b] = [Unknown EXCEPT !.state = "live"]]
      /\ live' = [live EXCEPT ![JobOf(b)] = b]
      /\ life' = [life EXCEPT ![b] = "open"]
      /\ recorded' = recorded \cup {RunOf(b)}
  BY DEF Launch
<1>2. /\ life \in [Attempts -> {"never", "open", "closing", "closed"}]
      /\ live \in [Jobs -> Attempts \cup {None}] /\ recorded \in SUBSET Runs
      /\ \A j \in Jobs : live[j] # None => JobOf(live[j]) = j
      /\ t \in [Attempts -> TierRecord]
  BY DEF EngineInv, TypeOK, StopOnly
<1>3. /\ [Unknown EXCEPT !.state = "live"] \in TierRecord
      /\ [Unknown EXCEPT !.state = "live"].state = "live"
  BY DEF Unknown, TierRecord
<1>4. /\ life' \in [Attempts -> {"never", "open", "closing", "closed"}]
      /\ tier' \in [Attempts -> TierRecord]
      /\ life'[b] = "open" /\ tier'[b].state = "live"
      /\ \A a \in Attempts : a # b => life'[a] = life[a] /\ tier'[a] = t[a]
  BY <1>1, <1>2, <1>3
<1>5. JobOf(b) \in Jobs /\ RunOf(b) \in Runs
  BY AttemptParts
<1>6. /\ live' \in [Jobs -> Attempts \cup {None}]
      /\ \A j \in Jobs : live'[j] # None => JobOf(live'[j]) = j
      /\ recorded' \in SUBSET Runs
  BY <1>1, <1>2, <1>5
<1>7. OneOpenPerJob'
  BY <1>4 DEF EngineInv, OneOpenPerJob, JobOf
<1>8. TierOK'
  <2> SUFFICES ASSUME NEW a \in Attempts
               PROVE  /\ life'[a] = "open" <=> tier'[a].state \in {"live", "stopping"}
                      /\ life'[a] = "closing" =>
                           /\ tier'[a].state = "ended"
                           /\ a \in catchUp \/ tier'[a].cleaning # "no" \/ LadderEndDue(a)'
    BY DEF TierOK
  <2>1. CASE a = b
    BY <1>4, <2>1
  <2>2. CASE a # b
    <3>1. /\ life[a] = "open" <=> tier[a].state \in {"live", "stopping"}
          /\ life[a] = "closing" =>
               /\ tier[a].state = "ended"
               /\ a \in catchUp \/ tier[a].cleaning # "no" \/ LadderEndDue(a)
      BY PastTheRecovery DEF EngineInv, TierOK
    <3>2. /\ life'[a] = life[a] /\ tier'[a] = t[a]
          /\ t[a] = tier[a] \/ (tier[a].state = "live" /\ t[a].state = "stopping")
      BY <1>4, <2>2 DEF StopOnly
    <3>3. life[a] = "closing" /\ LadderEndDue(a) => LadderEndDue(a)'
      BY AttemptParts DEF LadderEndDue, JobOf
    <3> QED
      BY <3>1, <3>2, <3>3
  <2> QED
    BY <2>1, <2>2
<1> QED
  BY <1>4, <1>6, <1>7, <1>8

\* The tier after stops only, in a step that ends no attempt.
LEMMA OnlyStopped ==
  ASSUME EngineInv, Up, NEW t, StopOnly(t), tier' = t, UNCHANGED <<life, catchUp>>,
         \A a \in Attempts : life[a] = "closing" /\ LadderEndDue(a) => LadderEndDue(a)'
  PROVE  TierOK' /\ OneOpenPerJob' /\ tier' \in [Attempts -> TierRecord]
<1>1. TierOK'
  <2> SUFFICES ASSUME NEW a \in Attempts
               PROVE  /\ life[a] = "open" <=> t[a].state \in {"live", "stopping"}
                      /\ life[a] = "closing" =>
                           /\ t[a].state = "ended"
                           /\ a \in catchUp \/ t[a].cleaning # "no" \/ LadderEndDue(a)'
    BY DEF TierOK
  <2>1. /\ life[a] = "open" <=> tier[a].state \in {"live", "stopping"}
        /\ life[a] = "closing" =>
             /\ tier[a].state = "ended"
             /\ a \in catchUp \/ tier[a].cleaning # "no" \/ LadderEndDue(a)
    BY DEF EngineInv, TierOK
  <2>2. t[a] = tier[a] \/ (tier[a].state = "live" /\ t[a].state = "stopping")
    BY DEF StopOnly
  <2> QED
    BY <2>1, <2>2
<1>2. OneOpenPerJob'
  BY DEF EngineInv, OneOpenPerJob, JobOf
<1> QED
  BY <1>1, <1>2 DEF StopOnly

\* An attempt whose plan says rerun is not touched by a stop.
LEMMA RerunNotStopped ==
  ASSUME EngineInv, Up, NEW t, StopOnly(t), NEW a \in Attempts, plan[a] = "rerun"
  PROVE  t[a] = tier[a] /\ life[a] \in {"closing", "closed"}
<1>1. life[a] \in {"closing", "closed"}
  BY DEF EngineInv, StoreOK, TypeOK
<1> QED
  BY <1>1 DEF EngineInv, TierOK, StopOnly

-----------------------------------------------------------------------------
(* The calls.                                                               *)

\* A call leaves the calls behind it as they are, with nothing in its place.
LEMMA CallGone ==
  ASSUME TypeOK, AgendaOK, NEW j \in Jobs, agenda[j] # <<>>, Then(j, <<>>),
         \A c \in CallSet : (JobOf(c[2]) # j \/ c \in Rest(j)) /\ CallOK(c) => CallOK(c)'
  PROVE  (agenda \in [Jobs -> Seq(Names \X Attempts)])' /\ AgendaOK'
<1>1. <<>> \in Seq(CallSet) /\ DOMAIN <<>> = {}
  OBVIOUS
<1>2. PICK more : more = <<>>
  OBVIOUS
<1>3. more \in Seq(CallSet) /\ DOMAIN more = {} /\ Then(j, more)
  BY <1>1, <1>2
<1> QED
  BY <1>3, CallStep

LEMMA OtherAgendas ==
  ASSUME TypeOK, NEW j \in Jobs, NEW more, Then(j, more)
  PROVE  \A k \in Jobs : k # j => agenda'[k] = agenda[k]
  BY DEF Then, TypeOK

\* The due end of a ladder is due still, unless it is what the step takes.
LEMMA LadderEndsStay ==
  ASSUME TypeOK, AgendaOK, NEW j \in Jobs, NEW name, Calling(j, name), name # "ladder_ended",
         NEW more, Then(j, more)
  PROVE  /\ \A a \in Attempts : LadderEndDue(a) => LadderEndDue(a)'
         /\ \A a \in Attempts : JobOf(a) = j => ~LadderEndDue(a)
<1>1. Head(agenda[j]) = <<name, Of(j)>>
  BY HeadFacts
<1>2. \A a \in Attempts : JobOf(a) = j => ~LadderEndDue(a)
  BY <1>1 DEF LadderEndDue
<1>3. \A a \in Attempts : LadderEndDue(a) => LadderEndDue(a)'
  BY <1>2, OtherAgendas, AttemptParts DEF LadderEndDue, JobOf
<1> QED
  BY <1>2, <1>3

LEMMA KillInv == ASSUME EngineInv, NEW j \in Jobs, Kill(j)  PROVE EngineInv'
<1>1. /\ Calling(j, "kill") /\ Then(j, <<>>)
      /\ UNCHANGED <<row, life, plan, pending, decided, recorded>>
      /\ UNCHANGED <<phase, queue, deferred, held, waiting, catchUp>>
  BY DEF Kill, store
<1>2. TypeOK /\ AgendaOK
  BY DEF EngineInv
<1>3. agenda[j] # <<>> /\ ~Idle
  BY <1>1, <1>2, HeadFacts
<1>4. Up
  BY <1>3 DEF EngineInv, RecoveryOK, Up
<1>5. /\ live' \in [Jobs -> Attempts \cup {None}]
      /\ \A k \in Jobs : live'[k] = live[k] \/ live'[k] = None
      /\ \E t : StopOnly(t) /\ tier' = t
      /\ live[j] = None => tier' = tier
  <2>1. CASE live[j] # None /\ RunOf(live[j]) = RunOf(Of(j))
    <3>1. PICK cleaning \in {"no", "ladder"} :
            tier' = [tier EXCEPT ![live[j]] = Stop(@, cleaning, TRUE)]
      BY <2>1 DEF Kill
    <3>2. live' = [live EXCEPT ![j] = None]
      BY <2>1 DEF Kill
    <3>3. PICK b \in Attempts : b = live[j]
      BY <1>2, <2>1 DEF TypeOK
    <3>4. tier' = [tier EXCEPT ![b] = Stop(tier[b], cleaning, TRUE)]
      BY <3>1, <3>3
    <3>5. tier \in [Attempts -> TierRecord]
      BY <1>2 DEF TypeOK
    <3>6. /\ Stop(tier[b], cleaning, TRUE) \in TierRecord
          /\ tier[b].state = "live" => Stop(tier[b], cleaning, TRUE).state = "stopping"
          /\ tier[b].state # "live" => Stop(tier[b], cleaning, TRUE) = tier[b]
      BY <3>5 DEF Stop, TierRecord
    <3>7. StopOnly(tier')
      BY <3>4, <3>5, <3>6 DEF StopOnly
    <3> QED
      BY <1>2, <2>1, <3>2, <3>7 DEF TypeOK
  <2>2. CASE ~(live[j] # None /\ RunOf(live[j]) = RunOf(Of(j)))
    <3>1. live' = live /\ tier' = tier
      BY <2>2 DEF Kill
    <3> QED
      BY <1>2, <3>1 DEF TypeOK, StopOnly
  <2> QED
    BY <2>1, <2>2
<1>6. PICK t : StopOnly(t) /\ tier' = t
  BY <1>5
<1>7. \A a \in Attempts : LadderEndDue(a) => LadderEndDue(a)'
  BY <1>1, <1>2, LadderEndsStay
<1>8. TierOK' /\ OneOpenPerJob' /\ tier' \in [Attempts -> TierRecord]
  BY <1>1, <1>4, <1>6, <1>7, OnlyStopped
<1>9. \A a \in Attempts : plan[a] = "rerun" => tier'[a] = tier[a]
  BY <1>4, <1>6, RerunNotStopped
<1>10. StoreOK' /\ WaitsOK'
  BY <1>1, <1>9 DEF EngineInv, StoreOK, WaitsOK, Unlaunched, Started
<1>11. RecoveryOK'
  BY <1>1, <1>3, <1>4, <1>5 DEF EngineInv, RecoveryOK, Recovering, Up
<1>12. (agenda \in [Jobs -> Seq(Names \X Attempts)])' /\ AgendaOK'
  <2> SUFFICES ASSUME NEW c \in CallSet, CallOK(c)  PROVE CallOK(c)'
    BY <1>1, <1>2, <1>3, CallGone
  <2> QED
    BY <1>1, <1>9 DEF CallOK, Unlaunched, Started, HeldBack, CallSet
<1>13. TypeOK'
  BY <1>1, <1>2, <1>5, <1>8, <1>12 DEF TypeOK
<1> QED
  BY <1>8, <1>10, <1>11, <1>12, <1>13 DEF EngineInv

\* The calls that are left when a start is taken are of other starts.
LEMMA OtherStarts ==
  ASSUME TypeOK, AgendaOK, NEW j \in Jobs, NEW name \in Starts, Calling(j, name),
         NEW c \in CallSet, JobOf(c[2]) # j \/ c \in Rest(j), c[1] \in Starts
  PROVE  c[2] # Of(j)
<1>1. agenda[j] # <<>> /\ JobOf(Of(j)) = j /\ Head(agenda[j])[1] = name
  BY HeadFacts DEF Calling
<1> QED
  BY <1>1, RestFacts

LEMMA Appended ==
  ASSUME NEW s \in Seq(Runs), NEW a \in Runs
  PROVE  /\ Append(s, a) \in Seq(Runs)
         /\ \A i \in DOMAIN Append(s, a) :
              \/ i \in DOMAIN s /\ Append(s, a)[i] = s[i]
              \/ i = Len(s) + 1 /\ Append(s, a)[i] = a
         /\ DOMAIN Append(s, a) = 1..Len(s) + 1 /\ Len(s) \in Nat /\ DOMAIN s = 1..Len(s)
  OBVIOUS

\* A start that is kept back, given up or launched.
LEMMA StartTaken ==
  ASSUME EngineInv, NEW j \in Jobs, NEW name \in Starts, Calling(j, name), Then(j, <<>>),
         phase \in {"running", "barrier"}, NEW a \in Attempts, a = Of(j),
         NEW t, StopOnly(t),
         \/ /\ NoLaunch(a, t)
            /\ pending' \subseteq pending \cup {a}
            /\ held' = [held EXCEPT ![j] = Append(@, a)]
         \/ /\ NoLaunch(a, t)
            /\ pending' \subseteq pending
            /\ held' = held
         \/ /\ Launch(a, t)
            /\ ~Blocked(t, j, None)
            /\ pending' = pending \ {a}
            /\ held' = held,
         UNCHANGED <<row, plan, decided, phase, queue, deferred, waiting, catchUp>>
  PROVE  EngineInv'
<1>1. TypeOK /\ AgendaOK
  BY DEF EngineInv
<1>2. /\ agenda[j] # <<>> /\ JobOf(a) = j /\ a # None
      /\ Unlaunched(a) /\ ~HeldBack(a) /\ <<a, "start">> \notin deferred
  BY <1>1, HeadFacts, AttemptParts DEF CallOK
<1>3. a \in Runs /\ a[3] = 1 /\ RunOf(a) = a /\ life[a] = "never" /\ Started(a)
  BY <1>2, RunsAreAttempts DEF Unlaunched
<1>4. catchUp = {} /\ Up /\ (phase # "barrier" => deferred = {})
  BY PastTheRecovery
<1>5. /\ \A x \in Attempts : LadderEndDue(x) => LadderEndDue(x)'
      /\ \A x \in Attempts : JobOf(x) = j => ~LadderEndDue(x)
  BY <1>1, LadderEndsStay DEF Starts
<1>6. \A x \in Attempts : plan[x] = "rerun" => t[x] = tier[x] /\ x # a
  BY <1>3, <1>4, RerunNotStopped
<1>7. \A c \in CallSet : (JobOf(c[2]) # j \/ c \in Rest(j)) /\ c[1] \in Starts => c[2] # a
  BY <1>1, OtherStarts
<1>8. /\ held \in [Jobs -> Seq(Runs)] /\ pending \in SUBSET Runs /\ recorded \in SUBSET Runs
      /\ live \in [Jobs -> Attempts \cup {None}]
      /\ \A k \in Jobs : live[k] # None => JobOf(live[k]) = k
  BY <1>1 DEF TypeOK
<1>9. CASE NoLaunch(a, t) /\ pending' \subseteq pending \cup {a}
           /\ (held' = held \/ held' = [held EXCEPT ![j] = Append(@, a)])
  <2>1. /\ tier' = t /\ UNCHANGED <<life, recorded>>
        /\ live' \in [Jobs -> Attempts \cup {None}]
        /\ \A k \in Jobs : live'[k] = live[k] \/ live'[k] = None
    BY <1>8, <1>9 DEF NoLaunch
  <2>2. TierOK' /\ OneOpenPerJob' /\ tier' \in [Attempts -> TierRecord]
    BY <1>4, <1>5, <2>1, OnlyStopped
  <2>3. StoreOK'
    BY <1>2, <1>9, <2>1 DEF EngineInv, StoreOK, Unlaunched, Started
  <2>4. RecoveryOK'
    BY <1>4 DEF EngineInv, RecoveryOK, Recovering
  <2>5. /\ held' \in [Jobs -> Seq(Runs)]
        /\ \A k \in Jobs : \A i \in DOMAIN held'[k] :
             \/ i \in DOMAIN held[k] /\ held'[k][i] = held[k][i]
             \/ k = j /\ i = Len(held[j]) + 1 /\ held'[k][i] = a
        /\ \A k \in Jobs : DOMAIN held[k] = 1..Len(held[k]) /\ Len(held[k]) \in Nat
    <3>1. \A k \in Jobs : DOMAIN held[k] = 1..Len(held[k]) /\ Len(held[k]) \in Nat
      BY <1>8
    <3>2. CASE held' = held
      BY <1>8, <3>1, <3>2
    <3>3. CASE held' = [held EXCEPT ![j] = Append(@, a)]
      <4>1. PICK s : s = held[j]
        OBVIOUS
      <4>2. PICK n : n = Append(s, a)
        OBVIOUS
      <4>3. s \in Seq(Runs)
        BY <1>8, <4>1
      <4>4. /\ n \in Seq(Runs)
            /\ \A i \in DOMAIN n : \/ i \in DOMAIN s /\ n[i] = s[i]
                                   \/ i = Len(s) + 1 /\ n[i] = a
        BY <1>3, <4>2, <4>3, Appended
      <4>5. held' = [held EXCEPT ![j] = n]
        BY <3>3, <4>1, <4>2
      <4>6. held' \in [Jobs -> Seq(Runs)] /\ held'[j] = n
            /\ \A k \in Jobs : k # j => held'[k] = held[k]
        BY <1>8, <4>4, <4>5
      <4>7. \A k \in Jobs : \A i \in DOMAIN held'[k] :
              \/ i \in DOMAIN held[k] /\ held'[k][i] = held[k][i]
              \/ k = j /\ i = Len(held[j]) + 1 /\ held'[k][i] = a
        BY <4>1, <4>4, <4>6
      <4> QED
        BY <3>1, <4>6, <4>7
    <3> QED
      BY <1>9, <3>2, <3>3
  <2>6. \A k \in Jobs : \A i \in DOMAIN held[k] :
          /\ JobOf(held[k][i]) = k /\ Unlaunched(held[k][i])
          /\ <<held[k][i], "start">> \notin deferred
          /\ \A m \in DOMAIN held[k] : held[k][i] = held[k][m] => i = m
    BY DEF EngineInv, WaitsOK
  <2>7. \A k \in Jobs : \A i \in DOMAIN held[k] : held[k][i] # a
    BY <1>2, <2>6 DEF HeldBack
  <2>8. \A k \in Jobs : \A i \in DOMAIN held'[k] :
          /\ JobOf(held'[k][i]) = k /\ Unlaunched(held'[k][i])
          /\ <<held'[k][i], "start">> \notin deferred
          /\ \A m \in DOMAIN held'[k] : held'[k][i] = held'[k][m] => i = m
    <3> SUFFICES ASSUME NEW k \in Jobs, NEW i \in DOMAIN held'[k]
                 PROVE  /\ JobOf(held'[k][i]) = k /\ Unlaunched(held'[k][i])
                        /\ <<held'[k][i], "start">> \notin deferred
                        /\ \A m \in DOMAIN held'[k] : held'[k][i] = held'[k][m] => i = m
      OBVIOUS
    <3>1. \A m \in DOMAIN held'[k] :
            \/ m \in DOMAIN held[k] /\ held'[k][m] = held[k][m] /\ held[k][m] # a
            \/ k = j /\ m = Len(held[j]) + 1 /\ held'[k][m] = a
      BY <2>5, <2>7
    <3>2. CASE i \in DOMAIN held[k] /\ held'[k][i] = held[k][i] /\ held[k][i] # a
      <4>1. /\ JobOf(held[k][i]) = k /\ Unlaunched(held[k][i])
            /\ <<held[k][i], "start">> \notin deferred
        BY <2>6, <3>2
      <4>2. ASSUME NEW m \in DOMAIN held'[k], held'[k][i] = held'[k][m]  PROVE i = m
        <5>1. m \in DOMAIN held[k] /\ held'[k][m] = held[k][m]
          BY <3>1, <3>2, <4>2
        <5> QED
          BY <2>6, <3>2, <4>2, <5>1
      <4> QED
        BY <3>2, <4>1, <4>2
    <3>3. CASE k = j /\ i = Len(held[j]) + 1 /\ held'[k][i] = a
      BY <1>2, <3>1, <3>3
    <3> QED
      BY <3>1, <3>2, <3>3
  <2>9. \A x : Unlaunched(x)' <=> Unlaunched(x)
    BY <2>1 DEF Unlaunched, Started
  <2>10. WaitsOK'
    <3>1. \A k \in Jobs : \A i \in DOMAIN held'[k] : Unlaunched(held[k][i])'
      BY <2>1, <2>8 DEF Unlaunched, Started, JobOf
    <3>2. \A x \in Attempts : plan[x] = "rerun" => tier'[x] = tier[x]
      BY <1>6, <2>1
    <3> QED
      BY <2>8, <2>9, <3>1, <3>2 DEF EngineInv, WaitsOK, JobOf
  <2>11. (agenda \in [Jobs -> Seq(Names \X Attempts)])' /\ AgendaOK'
    <3>1. ASSUME NEW c \in CallSet, CallOK(c), JobOf(c[2]) # j \/ c \in Rest(j)
          PROVE  CallOK(c)'
      <4>1. c[2] \in Attempts /\ JobOf(c[2]) \in Jobs
        BY AttemptParts DEF CallSet
      <4>2. c[1] \in Starts => c[2] # a
        BY <1>7, <3>1
      <4>3. c[1] \in Starts => ~HeldBack(c[2])'
        BY <2>5, <3>1, <4>1, <4>2 DEF CallOK, HeldBack, JobOf
      <4>4. c[1] = "spawn" => c[2] \notin pending'
        BY <1>9, <3>1, <4>2 DEF CallOK, Starts
      <4>5. c[1] = "discharge_plan" => tier'[c[2]] = tier[c[2]]
        BY <1>6, <2>1, <3>1, <4>1 DEF CallOK
      <4> QED
        BY <2>9, <3>1, <4>3, <4>4, <4>5 DEF CallOK
    <3> QED
      BY <1>1, <1>2, <3>1, CallGone
  <2>12. TypeOK'
    BY <1>1, <1>3, <1>8, <1>9, <2>1, <2>2, <2>5, <2>11 DEF TypeOK
  <2> QED
    BY <2>2, <2>3, <2>4, <2>10, <2>11, <2>12 DEF EngineInv
<1>10. CASE Launch(a, t) /\ ~Blocked(t, j, None) /\ pending' = pending \ {a} /\ held' = held
  <2>1. \A x \in Attempts : JobOf(x) = JobOf(a) => life[x] \notin {"open", "closing"}
    BY <1>2, <1>5, <1>10, NotBlocked, AttemptParts
  <2>2. \A k \in Jobs : k # JobOf(a) => agenda'[k] = agenda[k]
    BY <1>1, <1>2, OtherAgendas
  <2>3. /\ life' \in [Attempts -> {"never", "open", "closing", "closed"}]
        /\ tier' \in [Attempts -> TierRecord]
        /\ live' \in [Jobs -> Attempts \cup {None}]
        /\ \A k \in Jobs : live'[k] # None => JobOf(live'[k]) = k
        /\ recorded' \in SUBSET Runs
        /\ OneOpenPerJob' /\ TierOK'
        /\ life'[a] = "open" /\ tier'[a].state = "live"
        /\ \A x \in Attempts : x # a => life'[x] = life[x] /\ tier'[x] = t[x]
    BY <1>3, <1>10, <2>1, <2>2, Launched
  <2>4. recorded' = recorded \cup {a}
    BY <1>3, <1>10 DEF Launch
  <2>5. \A x \in Attempts : x[3] < MaxAttempts => Replacement(x) \in Attempts /\ Replacement(x) # a
    BY <1>3, Replacements
  <2>6. \A x : x # a => (Unlaunched(x)' <=> Unlaunched(x))
    BY <2>3, RunsAreAttempts DEF Unlaunched, Started
  <2>7. StoreOK'
    <3>1. \A x \in Attempts :
            /\ life'[x] # "never" => Started(x)'
            /\ life'[x] \in {"never", "open"} =>
                 /\ plan'[x] = "none"
                 /\ x[3] < MaxAttempts => life'[Replacement(x)] = "never"
            /\ plan'[x] = "rerun" => x[3] < MaxAttempts /\ life'[Replacement(x)] = "never"
      BY <1>3, <2>3, <2>5 DEF EngineInv, StoreOK, Started
    <3>2. \A x \in pending' : Unlaunched(x)'
      BY <1>10, <2>6 DEF EngineInv, StoreOK
    <3>3. \A x \in decided' : life'[x] # "never" => x \in recorded'
      BY <1>1, <2>3, <2>4, RunsAreAttempts DEF EngineInv, StoreOK, TypeOK
    <3> QED
      BY <3>1, <3>2, <3>3 DEF StoreOK
  <2>8. RecoveryOK'
    BY <1>4 DEF EngineInv, RecoveryOK, Recovering
  <2>9. WaitsOK'
    <3>1. \A x \in Attempts : plan[x] = "rerun" => tier'[x] = tier[x]
      BY <1>6, <2>3
    <3>2. \A k \in Jobs : \A i \in DOMAIN held[k] :
            Unlaunched(held[k][i]) /\ held[k][i] # a
      BY <1>2 DEF EngineInv, WaitsOK, HeldBack
    <3>3. \A k \in Jobs : \A i \in DOMAIN held'[k] : Unlaunched(held[k][i])'
      BY <1>10, <2>6, <3>2 DEF Unlaunched, Started, JobOf
    <3> QED
      BY <1>2, <1>10, <2>6, <3>1, <3>3 DEF EngineInv, WaitsOK, JobOf
  <2>10. (agenda \in [Jobs -> Seq(Names \X Attempts)])' /\ AgendaOK'
    <3>1. ASSUME NEW c \in CallSet, CallOK(c), JobOf(c[2]) # j \/ c \in Rest(j)
          PROVE  CallOK(c)'
      <4>1. c[2] \in Attempts
        BY DEF CallSet
      <4>2. c[1] \in Starts => c[2] # a
        BY <1>7, <3>1
      <4>3. c[1] = "discharge_plan" => tier'[c[2]] = tier[c[2]]
        BY <1>6, <2>3, <3>1, <4>1 DEF CallOK
      <4>4. c[1] \in Starts => Unlaunched(c[2])' /\ ~HeldBack(c[2])'
        BY <1>10, <2>6, <3>1, <4>2 DEF CallOK, HeldBack, JobOf
      <4> QED
        BY <1>10, <3>1, <4>3, <4>4 DEF CallOK
    <3> QED
      BY <1>1, <1>2, <3>1, CallGone
  <2>11. TypeOK'
    BY <1>1, <1>8, <1>10, <2>3, <2>10 DEF TypeOK
  <2> QED
    BY <2>3, <2>7, <2>8, <2>9, <2>10, <2>11 DEF EngineInv
<1> QED
  BY <1>9, <1>10
\* A start that is left to the barrier or to the restart.
LEMMA StartOwed ==
  ASSUME EngineInv, NEW j \in Jobs, Calling(j, "spawn"), Then(j, <<>>),
         NEW a \in Attempts, a = Of(j),
         pending' = pending \cup {a},
         deferred' = IF Recovering THEN deferred \cup {<<a, "start">>} ELSE deferred,
         UNCHANGED <<row, life, plan, decided, recorded, phase, tier, live, queue, held,
                     waiting, catchUp>>
  PROVE  EngineInv'
<1>1. TypeOK /\ AgendaOK
  BY DEF EngineInv
<1>2. /\ agenda[j] # <<>> /\ ~Idle /\ JobOf(a) = j
      /\ Unlaunched(a) /\ ~HeldBack(a)
  BY <1>1, HeadFacts DEF CallOK, Starts
<1>3. a \in Runs
  BY <1>2 DEF Unlaunched
<1>4. \A x \in Attempts : LadderEndDue(x) => LadderEndDue(x)'
  BY <1>1, LadderEndsStay
<1>5. \A x : Unlaunched(x)' <=> Unlaunched(x)
  BY DEF Unlaunched, Started
<1>6. \A d : d \in deferred' => d \in deferred \/ d = <<a, "start">>
  OBVIOUS
<1>7. \A c \in CallSet : (JobOf(c[2]) # j \/ c \in Rest(j)) /\ c[1] \in Starts => c[2] # a
  BY <1>1, OtherStarts DEF Starts
<1>8. StoreOK'
  BY <1>2, <1>5 DEF EngineInv, StoreOK, Started
<1>9. TierOK' /\ OneOpenPerJob'
  BY <1>4 DEF EngineInv, TierOK, OneOpenPerJob, Up
<1>10. RecoveryOK'
  BY <1>2 DEF EngineInv, RecoveryOK, Recovering
<1>11. WaitsOK'
  <2>1. \A k \in Jobs : \A i \in DOMAIN held[k] :
          held[k][i] # a /\ Unlaunched(held[k][i])' /\ <<held[k][i], "start">> \notin deferred'
    <3> SUFFICES ASSUME NEW k \in Jobs, NEW i \in DOMAIN held[k], NEW h, h = held[k][i]
                 PROVE  h # a /\ Unlaunched(held[k][i])' /\ <<h, "start">> \notin deferred'
      OBVIOUS
    <3>1. JobOf(h) = k /\ Unlaunched(h) /\ <<h, "start">> \notin deferred
      BY DEF EngineInv, WaitsOK
    <3>2. h # a
      BY <1>2, <3>1 DEF HeldBack
    <3>3. Unlaunched(held[k][i])'
      BY <3>1 DEF Unlaunched, Started, JobOf
    <3> QED
      BY <1>6, <3>1, <3>2, <3>3
  <2>2. \A x \in Attempts : <<x, "start">> \in deferred' => Unlaunched(x)'
    BY <1>2, <1>5, <1>6 DEF EngineInv, WaitsOK
  <2>3. \A x \in Attempts : <<x, "plan">> \in deferred' => <<x, "plan">> \in deferred
    BY <1>6
  <2> QED
    BY <2>1, <2>2, <2>3 DEF EngineInv, WaitsOK, JobOf
<1>12. (agenda \in [Jobs -> Seq(Names \X Attempts)])' /\ AgendaOK'
  <2> SUFFICES ASSUME NEW c \in CallSet, CallOK(c), JobOf(c[2]) # j \/ c \in Rest(j)
               PROVE  CallOK(c)'
    BY <1>1, <1>2, CallGone
  <2>1. c[1] \in Starts => c[2] # a
    BY <1>7
  <2>2. c[1] \in Starts => Unlaunched(c[2])' /\ ~HeldBack(c[2])' /\ <<c[2], "start">> \notin deferred'
    BY <1>5, <1>6, <2>1 DEF CallOK, HeldBack, JobOf
  <2>3. c[1] = "spawn" => c[2] \notin pending'
    BY <2>1 DEF CallOK, Starts
  <2>4. c[1] = "discharge_plan" => <<c[2], "plan">> \notin deferred'
    BY <1>6 DEF CallOK
  <2> QED
    BY <2>2, <2>3, <2>4 DEF CallOK
<1>13. TypeOK'
  BY <1>1, <1>3, <1>12 DEF TypeOK
<1> QED
  BY <1>8, <1>9, <1>10, <1>11, <1>12, <1>13 DEF EngineInv

LEMMA SpawnInv == ASSUME EngineInv, NEW j \in Jobs, Spawn(j)  PROVE EngineInv'
<1>1. PICK a : a = Of(j)
  OBVIOUS
<1>2. /\ Calling(j, "spawn") /\ Then(j, <<>>)
      /\ UNCHANGED <<row, plan, decided, phase, queue, waiting, catchUp>>
  BY DEF Spawn
<1>3. a \in Attempts /\ CallOK(<<"spawn", a>>)
  BY <1>1, <1>2, HeadFacts DEF EngineInv
<1>4. a \notin pending
  BY <1>3 DEF CallOK
<1>5. CASE phase # "running"
  <2>1. /\ pending' = pending \cup {a}
        /\ deferred' = IF Recovering THEN deferred \cup {<<a, "start">>} ELSE deferred
        /\ UNCHANGED <<life, recorded, tier, live, held>>
    BY <1>1, <1>5 DEF Spawn
  <2> QED
    BY <1>1, <1>2, <1>3, <2>1, StartOwed
<1>6. CASE phase = "running"
  <2>1. PICK cleaning \in {"no", "ladder"} :
          LET t == AfterStop(a, cleaning)
              kept == Blocked(t, j, None)
              goes == ~kept /\ Wanted(a)
          IN /\ pending' = IF kept THEN pending \cup {a} ELSE pending
             /\ held' = IF kept THEN [held EXCEPT ![j] = Append(@, a)] ELSE held
             /\ goes => Launch(a, t)
             /\ ~goes => NoLaunch(a, t)
    BY <1>1, <1>6 DEF Spawn
  <2>2. deferred' = deferred
    BY <1>6 DEF Spawn, Recovering
  <2>3. PICK t : t = AfterStop(a, cleaning)
    OBVIOUS
  <2>4. StopOnly(t)
    BY <1>3, <2>3, AfterStopOnly DEF EngineInv
  <2>5. /\ pending' = IF Blocked(t, j, None) THEN pending \cup {a} ELSE pending
        /\ held' = IF Blocked(t, j, None) THEN [held EXCEPT ![j] = Append(@, a)] ELSE held
        /\ ~Blocked(t, j, None) /\ Wanted(a) => Launch(a, t)
        /\ ~(~Blocked(t, j, None) /\ Wanted(a)) => NoLaunch(a, t)
    BY <2>1, <2>3
  <2>6. \/ /\ NoLaunch(a, t)
           /\ pending' \subseteq pending \cup {a}
           /\ held' = [held EXCEPT ![j] = Append(@, a)]
        \/ /\ NoLaunch(a, t)
           /\ pending' \subseteq pending
           /\ held' = held
        \/ /\ Launch(a, t)
           /\ ~Blocked(t, j, None)
           /\ pending' = pending \ {a}
           /\ held' = held
    BY <1>4, <2>5
  <2> QED
    BY <1>1, <1>2, <1>3, <1>6, <2>2, <2>4, <2>6, StartTaken DEF Starts
<1> QED
  BY <1>5, <1>6

LEMMA DischargeStartInv ==
  ASSUME EngineInv, NEW j \in Jobs, DischargeStart(j)  PROVE EngineInv'
<1>1. PICK a : a = Of(j)
  OBVIOUS
<1>2. /\ Calling(j, "discharge_start") /\ Then(j, <<>>)
      /\ UNCHANGED <<row, plan, decided, phase, queue, deferred, waiting, catchUp>>
  BY DEF DischargeStart
<1>3. a \in Attempts /\ CallOK(<<"discharge_start", a>>)
  BY <1>1, <1>2, HeadFacts DEF EngineInv
<1>4. phase \in {"running", "barrier"}
  BY <1>3 DEF CallOK
<1>5. PICK cleaning \in {"no", "ladder"} :
        LET t == AfterStop(a, cleaning)
            kept == Wanted(a) /\ Blocked(t, j, None)
            goes == Wanted(a) /\ ~kept
        IN /\ pending' = IF kept THEN pending ELSE pending \ {a}
           /\ held' = IF kept THEN [held EXCEPT ![j] = Append(@, a)] ELSE held
           /\ IF goes THEN Launch(a, t) ELSE NoLaunch(a, t)
  BY <1>1 DEF DischargeStart
<1>6. PICK t : t = AfterStop(a, cleaning)
  OBVIOUS
<1>7. StopOnly(t)
  BY <1>3, <1>6, AfterStopOnly DEF EngineInv
<1>8. \/ /\ NoLaunch(a, t)
         /\ pending' \subseteq pending \cup {a}
         /\ held' = [held EXCEPT ![j] = Append(@, a)]
      \/ /\ NoLaunch(a, t)
         /\ pending' \subseteq pending
         /\ held' = held
      \/ /\ Launch(a, t)
         /\ ~Blocked(t, j, None)
         /\ pending' = pending \ {a}
         /\ held' = held
  BY <1>5, <1>6
<1> QED
  BY <1>1, <1>2, <1>3, <1>4, <1>7, <1>8, StartTaken DEF Starts

\* A call with one call in its place, of the same attempt's plan.
LEMMA CallGoesOn ==
  ASSUME TypeOK, AgendaOK, NEW j \in Jobs, agenda[j] # <<>>,
         NEW d \in CallSet, Then(j, <<d>>), JobOf(d[2]) = j, CallOK(d)', d[1] \notin Starts,
         \A c \in CallSet : (JobOf(c[2]) # j \/ c \in Rest(j)) /\ CallOK(c) => CallOK(c)'
  PROVE  (agenda \in [Jobs -> Seq(Names \X Attempts)])' /\ AgendaOK'
<1>1. PICK more : more = <<d>>
  OBVIOUS
<1>2. more \in Seq(CallSet) /\ DOMAIN more = {1} /\ more[1] = d /\ Then(j, more)
  BY <1>1
<1>3. \A i \in DOMAIN more : /\ JobOf(more[i][2]) = j /\ CallOK(more[i])'
                             /\ i # 1 => more[i][1] \notin HeadOnly
  BY <1>2 DEF CallOK, Unlaunched, Started, HeldBack, JobOf
<1> QED
  BY <1>2, <1>3, CallStep

LEMMA DischargePlanInv ==
  ASSUME EngineInv, NEW j \in Jobs, DischargePlan(j)  PROVE EngineInv'
<1>1. PICK a : a = Of(j)
  OBVIOUS
<1>2. /\ Calling(j, "discharge_plan")
      /\ UNCHANGED <<row, pending, decided, phase, queue, deferred, held, catchUp>>
  BY DEF DischargePlan
<1>3. /\ a \in Attempts /\ JobOf(a) = j /\ agenda[j] # <<>>
      /\ CallOK(<<"discharge_plan", a>>)
  BY <1>1, <1>2, HeadFacts DEF EngineInv
<1>4. /\ phase \in {"running", "barrier"} /\ plan[a] = "rerun"
      /\ tier[a].cleaning # "ladder" /\ <<a, "plan">> \notin deferred
  BY <1>3 DEF CallOK
<1>5. TypeOK /\ AgendaOK /\ catchUp = {} /\ Up
  BY <1>4, PastTheRecovery DEF EngineInv
<1>6. PICK cleaning \in {"no", "ladder"} :
        LET t == AfterStop(a, cleaning)
            kept == Wanted(a) /\ Blocked(t, j, a)
        IN /\ IF kept
              THEN waiting' = waiting \cup {a} /\ Then(j, <<>>) /\ UNCHANGED plan
              ELSE /\ plan' = [plan EXCEPT ![a] = "done"]
                   /\ Then(j, <<<<"perform", a>>>>)
                   /\ UNCHANGED waiting
           /\ IF Wanted(a) /\ ~kept THEN Launch(Replacement(a), t) ELSE NoLaunch(a, t)
  BY <1>1 DEF DischargePlan
<1>7. PICK t : t = AfterStop(a, cleaning)
  OBVIOUS
<1>8. StopOnly(t)
  BY <1>3, <1>5, <1>7, AfterStopOnly
<1>9. \/ /\ NoLaunch(a, t) /\ Then(j, <<>>) /\ UNCHANGED plan
         /\ waiting' = waiting \cup {a}
      \/ /\ NoLaunch(a, t) /\ Then(j, <<<<"perform", a>>>>)
         /\ plan' = [plan EXCEPT ![a] = "done"] /\ UNCHANGED waiting
      \/ /\ ~Blocked(t, j, a)
         /\ Launch(Replacement(a), t) /\ Then(j, <<<<"perform", a>>>>)
         /\ plan' = [plan EXCEPT ![a] = "done"] /\ UNCHANGED waiting
  BY <1>6, <1>7
<1>10. /\ \A x \in Attempts : LadderEndDue(x) => LadderEndDue(x)'
       /\ \A x \in Attempts : JobOf(x) = j => ~LadderEndDue(x)
       /\ \A k \in Jobs : k # j => agenda'[k] = agenda[k]
  BY <1>2, <1>5, <1>9, LadderEndsStay, OtherAgendas
<1>11. /\ life[a] \in {"closing", "closed"}
       /\ \A x \in Attempts : plan[x] = "rerun" =>
            t[x] = tier[x] /\ life[x] \in {"closing", "closed"}
  BY <1>3, <1>4, <1>5, <1>8, RerunNotStopped
<1>12. a \notin queue
  BY <1>4 DEF EngineInv, WaitsOK
<1>13. \A c \in CallSet : (JobOf(c[2]) # j \/ c \in Rest(j)) /\ c[1] = "discharge_plan" => c[2] # a
  BY <1>3, <1>5, RestFacts DEF HeadOnly
<1>14. /\ <<"perform", a>> \in CallSet /\ "perform" \notin Starts
  BY <1>3 DEF CallSet, Names, Starts
<1>15. RecoveryOK'
  BY <1>2, <1>4, <1>5 DEF EngineInv, RecoveryOK, Recovering
<1>16. CASE NoLaunch(a, t) /\ plan' \in {plan, [plan EXCEPT ![a] = "done"]}
            /\ waiting' \in {waiting, waiting \cup {a}}
  <2>1. /\ tier' = t /\ UNCHANGED <<life, recorded>>
        /\ live' \in [Jobs -> Attempts \cup {None}]
        /\ \A k \in Jobs : live'[k] = live[k] \/ live'[k] = None
    BY <1>5, <1>16 DEF NoLaunch, TypeOK
  <2>2. TierOK' /\ OneOpenPerJob' /\ tier' \in [Attempts -> TierRecord]
    BY <1>2, <1>5, <1>8, <1>10, <2>1, OnlyStopped
  <2>3. /\ plan' \in [Attempts -> {"none", "input", "rerun", "done"}]
        /\ \A x \in Attempts : x # a => plan'[x] = plan[x]
        /\ plan'[a] \in {"rerun", "done"}
    BY <1>3, <1>4, <1>5, <1>16 DEF TypeOK
  <2>4. \A x : Unlaunched(x)' <=> Unlaunched(x)
    BY <1>2, <2>1 DEF Unlaunched, Started
  <2>5. StoreOK'
    BY <1>2, <1>4, <1>11, <2>1, <2>3, <2>4 DEF EngineInv, StoreOK, Started
  <2>6. WaitsOK'
    <3>1. \A k \in Jobs : \A i \in DOMAIN held[k] : Unlaunched(held[k][i])'
      BY <1>2, <2>1 DEF EngineInv, WaitsOK, Unlaunched, Started, JobOf
    <3>2. \A x \in Attempts : <<x, "plan">> \in deferred =>
            plan'[x] = "rerun" /\ tier'[x].cleaning # "ladder"
      BY <1>4, <1>11, <2>1, <2>3 DEF EngineInv, WaitsOK
    <3>3. \A x \in queue : plan'[x] = "input"
      BY <1>5, <1>12, <2>3 DEF EngineInv, WaitsOK, TypeOK
    <3> QED
      BY <1>2, <1>5, <2>4, <3>1, <3>2, <3>3 DEF EngineInv, WaitsOK
  <2>7. (agenda \in [Jobs -> Seq(Names \X Attempts)])' /\ AgendaOK'
    <3>1. ASSUME NEW c \in CallSet, CallOK(c), JobOf(c[2]) # j \/ c \in Rest(j)
          PROVE  CallOK(c)'
      <4>1. c[1] = "discharge_plan" =>
              c[2] # a /\ c[2] \in Attempts /\ tier'[c[2]] = tier[c[2]] /\ plan'[c[2]] = plan[c[2]]
        BY <1>11, <1>13, <2>1, <2>3, <3>1 DEF CallOK, CallSet
      <4> QED
        BY <1>2, <2>4, <3>1, <4>1 DEF CallOK, HeldBack, JobOf
    <3>2. CASE Then(j, <<>>)
      BY <1>3, <1>5, <3>1, <3>2, CallGone
    <3>3. CASE Then(j, <<<<"perform", a>>>>)
      <4>1. CallOK(<<"perform", a>>)'
        BY <1>2, <1>5 DEF CallOK, Starts
      <4>2. PICK d : d = <<"perform", a>>
        OBVIOUS
      <4>3. CallOK(d)' /\ d \in CallSet /\ JobOf(d[2]) = j /\ d[1] \notin Starts
        BY <1>3, <1>14, <4>1, <4>2 DEF CallOK, Starts
      <4>4. Then(j, <<d>>)
        BY <3>3, <4>2
      <4> QED
        BY <1>3, <1>5, <3>1, <4>3, <4>4, CallGoesOn
    <3> QED
      BY <1>9, <3>2, <3>3
  <2>8. TypeOK'
    BY <1>2, <1>3, <1>5, <1>16, <2>1, <2>2, <2>3, <2>7 DEF TypeOK
  <2> QED
    BY <1>15, <2>2, <2>5, <2>6, <2>7, <2>8 DEF EngineInv
<1>17. CASE /\ ~Blocked(t, j, a)
            /\ Launch(Replacement(a), t) /\ Then(j, <<<<"perform", a>>>>)
            /\ plan' = [plan EXCEPT ![a] = "done"] /\ UNCHANGED waiting
  <2>1. a[3] < MaxAttempts /\ life[Replacement(a)] = "never"
    BY <1>3, <1>4 DEF EngineInv, StoreOK
  <2>2. PICK b : b = Replacement(a)
    OBVIOUS
  <2>3. /\ b \in Attempts /\ b \notin Runs /\ JobOf(b) = j /\ b[2] = a[2] /\ b # a
        /\ life[b] = "never"
        /\ \A x \in Attempts : Replacement(x) = b => x = a
    BY <1>3, <2>1, <2>2, Replacements, AttemptParts
  <2>4. \A x \in Attempts : JobOf(x) = JobOf(b) => life[x] \notin {"open", "closing"}
    <3>1. ASSUME NEW x \in Attempts, JobOf(x) = j, x # a
          PROVE  life[x] \notin {"open", "closing"}
      BY <1>4, <1>8, <1>10, <1>17, <3>1, NotBlocked
    <3>2. life[a] # "closing"
      <4>1. tier[a].cleaning # "held"
        BY <1>3, <1>4, <1>11, <1>17 DEF Blocked
      <4>2. tier[a].cleaning = "no"
        BY <1>3, <1>4, <1>5, <4>1 DEF TypeOK, TierRecord
      <4> QED
        BY <1>3, <1>5, <1>10, <4>2 DEF EngineInv, TierOK
    <3> QED
      BY <1>11, <2>3, <3>1, <3>2
  <2>5. /\ life' \in [Attempts -> {"never", "open", "closing", "closed"}]
        /\ tier' \in [Attempts -> TierRecord]
        /\ live' \in [Jobs -> Attempts \cup {None}]
        /\ \A k \in Jobs : live'[k] # None => JobOf(live'[k]) = k
        /\ recorded' \in SUBSET Runs
        /\ OneOpenPerJob' /\ TierOK'
        /\ life'[b] = "open" /\ tier'[b].state = "live"
        /\ \A x \in Attempts : x # b => life'[x] = life[x] /\ tier'[x] = t[x]
    <3>1. Launch(b, t) /\ \A k \in Jobs : k # JobOf(b) => agenda'[k] = agenda[k]
      BY <1>10, <1>17, <2>2, <2>3
    <3> QED
      BY <1>2, <1>4, <1>8, <2>3, <2>4, <3>1, Launched
  <2>6. recorded' = recorded \cup {RunOf(b)}
    BY <1>17, <2>2 DEF Launch
  <2>7. /\ plan' \in [Attempts -> {"none", "input", "rerun", "done"}]
        /\ \A x \in Attempts : x # a => plan'[x] = plan[x]
        /\ plan'[a] = "done" /\ plan[b] = "none"
    BY <1>3, <1>5, <1>17, <2>3 DEF EngineInv, StoreOK, TypeOK
  <2>8. \A x : Unlaunched(x)' <=> Unlaunched(x)
    BY <1>2, <2>3, <2>5, RunsAreAttempts DEF Unlaunched, Started
  <2>9. StoreOK'
    <3>1. ASSUME NEW x \in Attempts
          PROVE  /\ life'[x] # "never" => Started(x)'
                 /\ life'[x] \in {"never", "open"} =>
                      /\ plan'[x] = "none"
                      /\ x[3] < MaxAttempts => life'[Replacement(x)] = "never"
                 /\ plan'[x] = "rerun" => x[3] < MaxAttempts /\ life'[Replacement(x)] = "never"
      <4>0. x[3] < MaxAttempts => Replacement(x) \in Attempts
        BY Replacements
      <4>1. CASE x = a
        BY <1>2, <1>3, <1>11, <2>3, <2>5, <2>7, <4>1 DEF EngineInv, StoreOK, Started
      <4>2. CASE x = b
        <5>1. Started(b)
          BY <1>3, <1>11, <2>3 DEF EngineInv, StoreOK, Started
        <5>2. b[3] < MaxAttempts => life[Replacement(b)] = "never" /\ Replacement(b) # b
          BY <2>3 DEF EngineInv, StoreOK
        <5> QED
          BY <1>2, <2>3, <2>5, <2>7, <4>0, <4>2, <5>1, <5>2 DEF Started
      <4>3. CASE x # a /\ x # b
        <5>1. x[3] < MaxAttempts => Replacement(x) # b
          BY <2>3, <4>3
        <5> QED
          BY <1>2, <2>5, <2>7, <4>0, <4>3, <5>1 DEF EngineInv, StoreOK, Started
      <4> QED
        BY <4>1, <4>2, <4>3
    <3>2. \A x \in pending' : Unlaunched(x)'
      BY <1>2, <2>8 DEF EngineInv, StoreOK
    <3>3. \A x \in decided' : life'[x] # "never" => x \in recorded'
      BY <1>2, <1>5, <2>3, <2>5, <2>6, RunsAreAttempts DEF EngineInv, StoreOK, TypeOK
    <3> QED
      BY <3>1, <3>2, <3>3 DEF StoreOK
  <2>10. WaitsOK'
    <3>1. \A k \in Jobs : \A i \in DOMAIN held'[k] : Unlaunched(held[k][i])'
      <4> SUFFICES ASSUME NEW k \in Jobs, NEW i \in DOMAIN held[k], NEW h, h = held[k][i]
                   PROVE  Unlaunched(held[k][i])'
        BY <1>2
      <4>1. Unlaunched(h)' /\ h \in Runs
        BY <2>8 DEF EngineInv, WaitsOK, Unlaunched
      <4> QED
        BY <1>2, <4>1 DEF Unlaunched, Started, JobOf
    <3>2. \A x \in Attempts : <<x, "plan">> \in deferred =>
            plan'[x] = "rerun" /\ tier'[x].cleaning # "ladder"
      <4> SUFFICES ASSUME NEW x \in Attempts, <<x, "plan">> \in deferred
                   PROVE  plan'[x] = "rerun" /\ tier'[x].cleaning # "ladder"
        OBVIOUS
      <4>1. plan[x] = "rerun" /\ tier[x].cleaning # "ladder"
        BY DEF EngineInv, WaitsOK
      <4>2. x # a /\ x # b
        BY <1>4, <2>7, <4>1
      <4>3. tier'[x] = tier[x] /\ plan'[x] = plan[x]
        BY <1>11, <2>5, <2>7, <4>1, <4>2
      <4> QED
        BY <4>1, <4>3
    <3>3. \A x \in queue : plan'[x] = "input"
      BY <1>5, <1>12, <2>7 DEF EngineInv, WaitsOK, TypeOK
    <3> QED
      BY <1>2, <1>5, <2>8, <3>1, <3>2, <3>3 DEF EngineInv, WaitsOK
  <2>11. (agenda \in [Jobs -> Seq(Names \X Attempts)])' /\ AgendaOK'
    <3>1. ASSUME NEW c \in CallSet, CallOK(c), JobOf(c[2]) # j \/ c \in Rest(j)
          PROVE  CallOK(c)'
      <4>1. c[1] = "discharge_plan" =>
              c[2] \in Attempts /\ tier'[c[2]] = tier[c[2]] /\ plan'[c[2]] = plan[c[2]]
        BY <1>11, <1>13, <2>3, <2>5, <2>7, <3>1 DEF CallOK, CallSet
      <4> QED
        BY <1>2, <2>8, <3>1, <4>1 DEF CallOK, HeldBack, JobOf
    <3>2. PICK d : d = <<"perform", a>>
      OBVIOUS
    <3>3. CallOK(d)' /\ d \in CallSet /\ JobOf(d[2]) = j /\ d[1] \notin Starts
      BY <1>2, <1>3, <1>5, <1>14, <3>2 DEF CallOK, Starts
    <3>4. Then(j, <<d>>)
      BY <1>17, <3>2
    <3> QED
      BY <1>3, <1>5, <3>1, <3>3, <3>4, CallGoesOn
  <2>12. TypeOK'
    BY <1>2, <1>5, <1>17, <2>5, <2>7, <2>11 DEF TypeOK
  <2> QED
    BY <1>15, <2>5, <2>9, <2>10, <2>11, <2>12 DEF EngineInv
<1> QED
  BY <1>9, <1>16, <1>17

LEMMA KeptFacts ==
  ASSUME NEW r \in TierRecord
  PROVE  /\ Kept(r) \in TierRecord
         /\ Kept(r) = r \/ (r.state = "ended" /\ r.cleaning = "no" /\ Kept(r).state = "unknown"
                             /\ Kept(r).cleaning = "no")
<1>1. Unknown \in TierRecord /\ Unknown.state = "unknown" /\ Unknown.cleaning = "no"
  BY DEF Unknown, TierRecord
<1> QED
  BY <1>1 DEF Kept

\* A call with one or two calls in its place that touch no plan and no start.
LEMMA CallsGoOn ==
  ASSUME TypeOK, AgendaOK, NEW j \in Jobs, agenda[j] # <<>>, NEW a \in Attempts, JobOf(a) = j,
         a \notin catchUp', NEW more, Then(j, more),
         more \in {<<<<"release", a>>>>, <<<<"perform", a>>>>, <<<<"perform", a>>, <<"release", a>>>>},
         \A c \in CallSet : (JobOf(c[2]) # j \/ c \in Rest(j)) /\ CallOK(c) => CallOK(c)'
  PROVE  (agenda \in [Jobs -> Seq(Names \X Attempts)])' /\ AgendaOK'
<1>1. /\ <<"release", a>> \in CallSet /\ <<"perform", a>> \in CallSet
      /\ "release" \notin Starts \cup HeadOnly /\ "perform" \notin Starts \cup HeadOnly
  BY DEF CallSet, Names, Starts, HeadOnly
<1>2. /\ more \in Seq(CallSet)
      /\ \A i \in DOMAIN more : more[i] \in {<<"release", a>>, <<"perform", a>>}
  <2>1. PICK x : x = <<"release", a>>
    OBVIOUS
  <2>2. PICK y : y = <<"perform", a>>
    OBVIOUS
  <2>3. x \in CallSet /\ y \in CallSet
    BY <1>1, <2>1, <2>2
  <2>4. more = <<x>> \/ more = <<y>> \/ more = <<y, x>>
    BY <2>1, <2>2
  <2>5. more \in Seq(CallSet) /\ \A i \in DOMAIN more : more[i] \in {x, y}
    <3>1. CASE more = <<x>>
      BY <2>3, <3>1
    <3>2. CASE more = <<y>>
      BY <2>3, <3>2
    <3>3. CASE more = <<y, x>>
      BY <2>3, <3>3
    <3> QED
      BY <2>4, <3>1, <3>2, <3>3
  <2> QED
    BY <2>1, <2>2, <2>5
<1>3. ASSUME NEW i \in DOMAIN more
      PROVE  /\ JobOf(more[i][2]) = j /\ CallOK(more[i])'
             /\ more[i][1] \notin Starts /\ more[i][1] \notin HeadOnly
  <2>1. PICK c : c = more[i]
    OBVIOUS
  <2>2. c \in {<<"release", a>>, <<"perform", a>>}
    BY <1>2, <2>1
  <2>3. c[1] \notin Starts /\ c[1] \notin HeadOnly /\ JobOf(c[2]) = j /\ c[2] = a
        /\ c[1] # "spawn" /\ c[1] # "discharge_start" /\ c[1] # "discharge_plan"
    BY <1>1, <2>2
  <2>4. CallOK(c)'
    BY <2>3 DEF CallOK, Starts
  <2>5. CallOK(more[i])'
    BY <2>1, <2>4 DEF CallOK, Unlaunched, Started, HeldBack, JobOf
  <2> QED
    BY <2>1, <2>3, <2>5
<1> QED
  BY <1>2, <1>3, CallStep

LEMMA PerformInv ==
  ASSUME EngineInv, NEW j \in Jobs, Perform(j)  PROVE EngineInv'
<1>1. PICK a : a = Of(j)
  OBVIOUS
<1>2. /\ Calling(j, "perform")
      /\ UNCHANGED <<row, life, plan, pending, decided, recorded>>
      /\ UNCHANGED <<phase, live, held, catchUp>>
  BY DEF Perform, store
<1>3. /\ a \in Attempts /\ JobOf(a) = j /\ agenda[j] # <<>> /\ ~Idle
      /\ CallOK(<<"perform", a>>)
  BY <1>1, <1>2, HeadFacts DEF EngineInv
<1>4. a \notin catchUp
  BY <1>3 DEF CallOK
<1>5. TypeOK /\ AgendaOK /\ Up
  BY <1>3 DEF EngineInv, RecoveryOK, Up
<1> DEFINE finished == plan[a] \notin {"input", "rerun"} \/ LeftToRestart(a)
           laddering == tier[a].cleaning = "ladder"
           dispatch == plan[a] = "rerun" /\ ~finished
<1>6. /\ queue' = IF plan[a] = "input" THEN queue \cup {a} ELSE queue
      /\ waiting' = IF dispatch /\ laddering THEN waiting \cup {a} ELSE waiting
      /\ deferred' = IF dispatch /\ ~laddering /\ Recovering
                     THEN deferred \cup {<<a, "plan">>}
                     ELSE deferred
      /\ tier' = IF finished /\ tier[a].state # "unknown"
                 THEN [tier EXCEPT ![a] = Kept([@ EXCEPT !.planDone = TRUE])]
                 ELSE tier
      /\ Then(j, CASE finished -> <<<<"release", a>>>>
                   [] dispatch /\ ~laddering /\ ~Recovering -> <<<<"discharge_plan", a>>>>
                   [] OTHER -> <<>>)
  BY <1>1 DEF Perform
<1>7. /\ \A x \in Attempts : LadderEndDue(x) => LadderEndDue(x)'
      /\ ~LadderEndDue(a)
  BY <1>2, <1>3, <1>5, <1>6, LadderEndsStay
<1>8. /\ tier' \in [Attempts -> TierRecord]
      /\ \A x \in Attempts : x # a => tier'[x] = tier[x]
      /\ tier'[a].cleaning = tier[a].cleaning
      /\ \/ tier'[a].state = tier[a].state
         \/ tier[a].state = "ended" /\ tier[a].cleaning = "no" /\ tier'[a].state = "unknown"
  <2>1. PICK r : r = [tier[a] EXCEPT !.planDone = TRUE]
    OBVIOUS
  <2>2. tier \in [Attempts -> TierRecord] /\ tier[a] \in TierRecord
    BY <1>3, <1>5 DEF TypeOK
  <2>3. r \in TierRecord /\ r.state = tier[a].state /\ r.cleaning = tier[a].cleaning
    BY <2>1, <2>2 DEF TierRecord
  <2>4. tier' = tier \/ tier' = [tier EXCEPT ![a] = Kept(r)]
    BY <1>6, <2>1
  <2> QED
    BY <1>3, <2>2, <2>3, <2>4, KeptFacts
<1>9. TierOK' /\ OneOpenPerJob'
  <2>1. TierOK'
    <3> SUFFICES ASSUME NEW x \in Attempts
                 PROVE  /\ life[x] = "open" <=> tier'[x].state \in {"live", "stopping"}
                        /\ life[x] = "closing" =>
                             /\ tier'[x].state = "ended"
                             /\ x \in catchUp \/ tier'[x].cleaning # "no" \/ LadderEndDue(x)'
      BY <1>2 DEF TierOK
    <3>1. /\ life[x] = "open" <=> tier[x].state \in {"live", "stopping"}
          /\ life[x] = "closing" =>
               /\ tier[x].state = "ended"
               /\ x \in catchUp \/ tier[x].cleaning # "no" \/ LadderEndDue(x)
      BY <1>5 DEF EngineInv, TierOK
    <3> QED
      BY <1>4, <1>7, <1>8, <3>1
  <2> QED
    BY <1>2, <2>1 DEF EngineInv, OneOpenPerJob
<1>10. StoreOK'
  BY <1>2 DEF EngineInv, StoreOK, Unlaunched, Started
<1>11. /\ \A d : d \in deferred' =>
            d \in deferred \/ (d = <<a, "plan">> /\ plan[a] = "rerun" /\ tier[a].cleaning # "ladder")
       /\ ~Recovering => deferred' = deferred
       /\ \A x : x \in queue' => x \in queue \/ (x = a /\ plan[a] = "input")
       /\ \A x : x \in waiting' => x \in waiting \/ x = a
  BY <1>6
<1>12. RecoveryOK'
  <2>1. \A x \in catchUp : x \in Attempts /\ x # a /\ tier'[x] = tier[x]
    BY <1>4, <1>5, <1>8 DEF TypeOK
  <2>2. queue' \cap catchUp = {} /\ waiting' \cap catchUp = {}
    BY <1>4, <1>11 DEF EngineInv, RecoveryOK
  <2>3. phase # "down"
    BY <1>5 DEF Up
  <2>4. ~Recovering => deferred' = {}
    BY <1>11 DEF EngineInv, RecoveryOK
  <2> QED
    BY <1>2, <2>1, <2>2, <2>3, <2>4 DEF EngineInv, RecoveryOK, Recovering
<1>13. WaitsOK'
  <2>1. \A k \in Jobs : \A i \in DOMAIN held[k] : Unlaunched(held[k][i])'
    BY <1>2 DEF EngineInv, WaitsOK, Unlaunched, Started, JobOf
  <2>2. \A x \in Attempts : <<x, "plan">> \in deferred' =>
          plan[x] = "rerun" /\ tier'[x].cleaning # "ladder" /\ x \notin catchUp
    <3> SUFFICES ASSUME NEW x \in Attempts, <<x, "plan">> \in deferred'
                 PROVE  plan[x] = "rerun" /\ tier'[x].cleaning # "ladder" /\ x \notin catchUp
      OBVIOUS
    <3>1. CASE <<x, "plan">> \in deferred
      <4>1. plan[x] = "rerun" /\ tier[x].cleaning # "ladder" /\ x \notin catchUp
        BY <3>1 DEF EngineInv, WaitsOK
      <4> QED
        BY <1>8, <4>1
    <3>2. CASE <<x, "plan">> \notin deferred
      <4>1. x = a /\ plan[a] = "rerun" /\ tier[a].cleaning # "ladder"
        BY <1>11, <3>2
      <4> QED
        BY <1>4, <1>8, <4>1
    <3> QED
      BY <3>1, <3>2
  <2>3. \A x : <<x, "start">> \in deferred' <=> <<x, "start">> \in deferred
    BY <1>6
  <2>4. \A x : Unlaunched(x)' <=> Unlaunched(x)
    BY <1>2 DEF Unlaunched, Started
  <2>5. \A x \in queue' : plan[x] = "input"
    BY <1>11 DEF EngineInv, WaitsOK
  <2> QED
    BY <1>2, <2>1, <2>2, <2>3, <2>4, <2>5 DEF EngineInv, WaitsOK
<1>14. (agenda \in [Jobs -> Seq(Names \X Attempts)])' /\ AgendaOK'
  <2>1. ASSUME NEW c \in CallSet, CallOK(c), JobOf(c[2]) # j \/ c \in Rest(j)
        PROVE  CallOK(c)'
    <3>1. c[1] = "discharge_plan" => c[2] # a /\ c[2] \in Attempts
      BY <1>3, <1>5, <2>1, RestFacts DEF HeadOnly, CallSet
    <3>2. c[1] = "discharge_plan" =>
            tier'[c[2]] = tier[c[2]] /\ <<c[2], "plan">> \notin deferred'
      BY <1>8, <1>11, <2>1, <3>1 DEF CallOK
    <3>3. c[1] \in Starts => <<c[2], "start">> \notin deferred'
      BY <1>11, <2>1 DEF CallOK
    <3>4. /\ Unlaunched(c[2])' <=> Unlaunched(c[2])
          /\ HeldBack(c[2])' <=> HeldBack(c[2])
      BY <1>2 DEF Unlaunched, Started, HeldBack, JobOf
    <3> QED
      BY <1>2, <2>1, <3>2, <3>3, <3>4 DEF CallOK
  <2>2. CASE finished
    <3>1. Then(j, <<<<"release", a>>>>)
      BY <1>6, <2>2
    <3> QED
      BY <1>2, <1>3, <1>4, <1>5, <2>1, <3>1, CallsGoOn
  <2>3. CASE ~finished /\ dispatch /\ ~laddering /\ ~Recovering
    <3>1. Then(j, <<<<"discharge_plan", a>>>>)
      BY <1>6, <2>3
    <3>2. PICK d : d = <<"discharge_plan", a>>
      OBVIOUS
    <3>3. d \in CallSet /\ JobOf(d[2]) = j /\ d[1] \notin Starts /\ Then(j, <<d>>)
      BY <1>3, <3>1, <3>2 DEF CallSet, Names, Starts
    <3>4. phase = "running" /\ deferred' = {}
      BY <1>5, <1>6, <2>3 DEF EngineInv, RecoveryOK, TypeOK, Recovering, Up, LeftToRestart
    <3>5. plan[a] = "rerun" /\ tier'[a].cleaning # "ladder"
      BY <1>8, <2>3
    <3>6. CallOK(d)'
      BY <1>2, <3>2, <3>4, <3>5 DEF CallOK, Starts
    <3> QED
      BY <1>3, <1>5, <2>1, <3>3, <3>6, CallGoesOn
  <2>4. CASE ~finished /\ ~(dispatch /\ ~laddering /\ ~Recovering)
    <3>1. Then(j, <<>>)
      BY <1>6, <2>4
    <3> QED
      BY <1>3, <1>5, <2>1, <3>1, CallGone
  <2> QED
    BY <2>2, <2>3, <2>4
<1>15. TypeOK'
  <2>1. queue' \in SUBSET Attempts /\ waiting' \in SUBSET Attempts
        /\ deferred' \in SUBSET (Attempts \X {"start", "plan"})
    BY <1>3, <1>5, <1>6 DEF TypeOK
  <2> QED
    BY <1>2, <1>5, <1>8, <1>14, <2>1 DEF TypeOK
<1> QED
  BY <1>9, <1>10, <1>12, <1>13, <1>14, <1>15 DEF EngineInv

LEMMA LadderEndedInv ==
  ASSUME EngineInv, NEW j \in Jobs, LadderEnded(j)  PROVE EngineInv'
<1>1. PICK a : a = Of(j)
  OBVIOUS
<1>2. /\ Calling(j, "ladder_ended")
      /\ UNCHANGED <<row, plan, pending, decided, recorded>>
      /\ UNCHANGED <<phase, live, queue, deferred, held, catchUp>>
  BY DEF LadderEnded
<1>3. /\ a \in Attempts /\ JobOf(a) = j /\ agenda[j] # <<>> /\ ~Idle
      /\ CallOK(<<"ladder_ended", a>>) /\ Head(agenda[j]) = <<"ladder_ended", a>>
  BY <1>1, <1>2, HeadFacts DEF EngineInv
<1>4. a \notin catchUp
  BY <1>3 DEF CallOK
<1>5. TypeOK /\ AgendaOK /\ Up
  BY <1>3 DEF EngineInv, RecoveryOK, Up
<1>6. /\ life' = [life EXCEPT ![a] = IF @ = "closing" THEN "closed" ELSE @]
      /\ waiting' = waiting \ {a}
      /\ tier' = [tier EXCEPT ![a] = Kept(tier[a])]
      /\ Then(j, IF a \in waiting
                 THEN <<<<"perform", a>>, <<"release", a>>>>
                 ELSE <<<<"release", a>>>>)
  BY <1>1 DEF LadderEnded
<1>7. \A x \in Attempts : x # a /\ LadderEndDue(x) => LadderEndDue(x)'
  <2>1. \A k \in Jobs : k # j => agenda'[k] = agenda[k]
    BY <1>5, <1>6, OtherAgendas
  <2>2. \A x \in Attempts : JobOf(x) = j /\ LadderEndDue(x) => x = a
    BY <1>3 DEF LadderEndDue
  <2> QED
    BY <2>1, <2>2, AttemptParts DEF LadderEndDue, JobOf
<1>8. /\ life' \in [Attempts -> {"never", "open", "closing", "closed"}]
      /\ \A x \in Attempts : x # a => life'[x] = life[x]
      /\ life'[a] = IF life[a] = "closing" THEN "closed" ELSE life[a]
  BY <1>3, <1>5, <1>6 DEF TypeOK
<1>9. /\ tier' \in [Attempts -> TierRecord]
      /\ \A x \in Attempts : x # a => tier'[x] = tier[x]
      /\ tier'[a].cleaning = tier[a].cleaning
      /\ \/ tier'[a].state = tier[a].state
         \/ tier[a].state = "ended" /\ tier'[a].state = "unknown"
  BY <1>3, <1>5, <1>6, KeptFacts DEF TypeOK
<1>10. TierOK'
  <2> SUFFICES ASSUME NEW x \in Attempts
               PROVE  /\ life'[x] = "open" <=> tier'[x].state \in {"live", "stopping"}
                      /\ life'[x] = "closing" =>
                           /\ tier'[x].state = "ended"
                           /\ x \in catchUp \/ tier'[x].cleaning # "no" \/ LadderEndDue(x)'
    BY <1>2 DEF TierOK
  <2>1. /\ life[x] = "open" <=> tier[x].state \in {"live", "stopping"}
        /\ life[x] = "closing" =>
             /\ tier[x].state = "ended"
             /\ x \in catchUp \/ tier[x].cleaning # "no" \/ LadderEndDue(x)
    BY <1>5 DEF EngineInv, TierOK
  <2>2. CASE x = a
    BY <1>8, <1>9, <2>1, <2>2
  <2>3. CASE x # a
    BY <1>7, <1>8, <1>9, <2>1, <2>3
  <2> QED
    BY <2>2, <2>3
<1>11. OneOpenPerJob'
  <2>1. \A x \in Attempts : life'[x] \in {"open", "closing"} => life[x] \in {"open", "closing"}
    BY <1>8
  <2> QED
    BY <2>1 DEF EngineInv, OneOpenPerJob, JobOf
<1>12. \A x \in Attempts : /\ life'[x] = "never" <=> life[x] = "never"
                           /\ life'[x] = "open" <=> life[x] = "open"
  BY <1>8
<1>13. \A x : Unlaunched(x)' <=> Unlaunched(x)
  BY <1>2, <1>12, RunsAreAttempts DEF Unlaunched, Started
<1>14. StoreOK'
  <2>1. \A x \in Attempts : x[3] < MaxAttempts => Replacement(x) \in Attempts
    BY Replacements
  <2>2. \A x \in decided' : x \in Attempts
    BY <1>2, <1>5, RunsAreAttempts DEF TypeOK
  <2> QED
    BY <1>2, <1>12, <1>13, <2>1, <2>2 DEF EngineInv, StoreOK, Started
<1>15. RecoveryOK'
  <2>1. \A x \in catchUp : x \in Attempts /\ x # a /\ tier'[x] = tier[x]
    BY <1>4, <1>5, <1>9 DEF TypeOK
  <2>2. phase # "down"
    BY <1>5 DEF Up
  <2> QED
    BY <1>2, <1>6, <2>1, <2>2 DEF EngineInv, RecoveryOK, Recovering
<1>16. WaitsOK'
  <2>1. \A k \in Jobs : \A i \in DOMAIN held[k] : Unlaunched(held[k][i])'
    BY <1>2, <1>12, RunsAreAttempts DEF EngineInv, WaitsOK, Unlaunched, Started, JobOf
  <2>2. \A x \in Attempts : <<x, "plan">> \in deferred =>
          plan[x] = "rerun" /\ tier'[x].cleaning # "ladder" /\ x \notin catchUp
    BY <1>9 DEF EngineInv, WaitsOK
  <2> QED
    BY <1>2, <1>13, <2>1, <2>2 DEF EngineInv, WaitsOK
<1>17. (agenda \in [Jobs -> Seq(Names \X Attempts)])' /\ AgendaOK'
  <2>1. ASSUME NEW c \in CallSet, CallOK(c), JobOf(c[2]) # j \/ c \in Rest(j)
        PROVE  CallOK(c)'
    <3>1. c[2] \in Attempts
      BY DEF CallSet
    <3>2. tier'[c[2]].cleaning = tier[c[2]].cleaning
      BY <1>9, <3>1
    <3>3. /\ Unlaunched(c[2])' <=> Unlaunched(c[2])
          /\ HeldBack(c[2])' <=> HeldBack(c[2])
      BY <1>2, <1>13 DEF HeldBack, JobOf
    <3> QED
      BY <1>2, <2>1, <3>2, <3>3 DEF CallOK
  <2>2. PICK more : more = IF a \in waiting
                           THEN <<<<"perform", a>>, <<"release", a>>>>
                           ELSE <<<<"release", a>>>>
    OBVIOUS
  <2>3. Then(j, more)
    BY <1>6, <2>2
  <2> QED
    BY <1>2, <1>3, <1>4, <1>5, <2>1, <2>2, <2>3, CallsGoOn
<1>18. TypeOK'
  <2>1. waiting' \in SUBSET Attempts
    BY <1>5, <1>6 DEF TypeOK
  <2> QED
    BY <1>2, <1>5, <1>8, <1>9, <1>17, <2>1 DEF TypeOK
<1> QED
  BY <1>10, <1>11, <1>14, <1>15, <1>16, <1>17, <1>18 DEF EngineInv

\* What a step that neither launches, ends nor stops anything keeps.
LEMMA StoreKept ==
  ASSUME EngineInv, UNCHANGED <<row, life, plan, pending, decided, recorded>>
  PROVE  /\ StoreOK' /\ OneOpenPerJob'
         /\ \A x : Unlaunched(x)' <=> Unlaunched(x)
  BY DEF EngineInv, StoreOK, OneOpenPerJob, Unlaunched, Started

LEMMA ReleaseInv ==
  ASSUME EngineInv, NEW j \in Jobs, Release(j)  PROVE EngineInv'
<1>1. /\ Calling(j, "release")
      /\ UNCHANGED <<row, life, plan, pending, decided, recorded>>
      /\ UNCHANGED <<phase, tier, live, queue, catchUp>>
  BY DEF Release, store
<1>2. TypeOK /\ AgendaOK /\ agenda[j] # <<>> /\ ~Idle
  BY <1>1, HeadFacts DEF EngineInv
<1>3. Up
  BY <1>2 DEF EngineInv, RecoveryOK, Up
<1>4. StoreOK' /\ OneOpenPerJob' /\ \A x : Unlaunched(x)' <=> Unlaunched(x)
  BY <1>1, StoreKept
<1>5. ASSUME NEW more, Then(j, more)  PROVE TierOK'
  <2>1. \A x \in Attempts : LadderEndDue(x) => LadderEndDue(x)'
    BY <1>1, <1>2, <1>5, LadderEndsStay
  <2> QED
    BY <1>1, <1>2, <2>1 DEF EngineInv, TierOK, Up
<1>6. ASSUME waiting' \subseteq waiting, UNCHANGED <<held, deferred>>
      PROVE  /\ RecoveryOK' /\ WaitsOK'
             /\ \A c \in CallSet : CallOK(c) => CallOK(c)'
  <2>1. RecoveryOK'
    BY <1>1, <1>3, <1>6 DEF EngineInv, RecoveryOK, Recovering, Up
  <2>2. \A k \in Jobs : \A i \in DOMAIN held[k] : Unlaunched(held[k][i])'
    BY <1>1, <1>6 DEF EngineInv, WaitsOK, Unlaunched, Started, JobOf
  <2>3. WaitsOK'
    BY <1>1, <1>4, <1>6, <2>2 DEF EngineInv, WaitsOK
  <2>4. \A c \in CallSet : CallOK(c) => CallOK(c)'
    BY <1>1, <1>4, <1>6 DEF CallOK, HeldBack
  <2> QED
    BY <2>1, <2>3, <2>4
<1>7. ASSUME NEW a \in Released(j), waiting' = waiting \ {a},
             Then(j, <<<<"perform", a>>, <<"release", a>>>>), UNCHANGED <<held, deferred>>
      PROVE  EngineInv'
  <2>1. a \in Attempts /\ JobOf(a) = j /\ a \in waiting /\ a \notin catchUp'
    BY <1>1, <1>2, <1>7 DEF Released, TypeOK, EngineInv, RecoveryOK
  <2>2. /\ RecoveryOK' /\ WaitsOK' /\ TierOK'
        /\ \A c \in CallSet : CallOK(c) => CallOK(c)'
    BY <1>5, <1>6, <1>7
  <2>3. PICK more : more = <<<<"perform", a>>, <<"release", a>>>>
    OBVIOUS
  <2>4. Then(j, more)
    BY <1>7, <2>3
  <2>5. (agenda \in [Jobs -> Seq(Names \X Attempts)])' /\ AgendaOK'
    BY <1>2, <2>1, <2>2, <2>3, <2>4, CallsGoOn
  <2>6. TypeOK'
    BY <1>1, <1>2, <1>7, <2>5 DEF TypeOK
  <2> QED
    BY <1>4, <2>2, <2>5, <2>6 DEF EngineInv
<1>8. ASSUME Then(j, <<>>), UNCHANGED <<waiting, held, deferred>>
      PROVE  EngineInv'
  <2>2. /\ RecoveryOK' /\ WaitsOK' /\ TierOK'
        /\ \A c \in CallSet : CallOK(c) => CallOK(c)'
    BY <1>5, <1>6, <1>8
  <2>5. (agenda \in [Jobs -> Seq(Names \X Attempts)])' /\ AgendaOK'
    BY <1>2, <1>8, <2>2, CallGone
  <2>6. TypeOK'
    BY <1>1, <1>2, <1>8, <2>5 DEF TypeOK
  <2> QED
    BY <1>4, <2>2, <2>5, <2>6 DEF EngineInv
<1>9. ASSUME phase # "draining", held' = [held EXCEPT ![j] = <<>>], waiting' = waiting,
             IF Recovering
             THEN /\ deferred' = deferred \cup {<<held[j][i], "start">> : i \in DOMAIN held[j]}
                  /\ Then(j, <<>>)
             ELSE /\ Then(j, [i \in DOMAIN held[j] |-> <<"discharge_start", held[j][i]>>])
                  /\ UNCHANGED deferred
      PROVE  EngineInv'
  <2>1. /\ held' \in [Jobs -> Seq(Runs)] /\ held'[j] = <<>>
        /\ \A k \in Jobs : k # j => held'[k] = held[k]
    BY <1>2, <1>9 DEF TypeOK
  <2>2. PICK h : h = held[j]
    OBVIOUS
  <2>3. /\ h \in Seq(Runs)
        /\ \A i \in DOMAIN h : /\ h[i] \in Runs /\ h[i] \in Attempts /\ JobOf(h[i]) = j
                               /\ Unlaunched(h[i]) /\ HeldBack(h[i])
                               /\ <<h[i], "start">> \notin deferred
        /\ \A i, k \in DOMAIN h : h[i] = h[k] => i = k
    <3>1. h \in Seq(Runs)
      BY <1>2, <2>2 DEF TypeOK
    <3>2. \A i \in DOMAIN h : h[i] \in Runs /\ h[i] \in Attempts
      BY <3>1, RunsAreAttempts
    <3>3. \A i \in DOMAIN h : /\ JobOf(h[i]) = j /\ Unlaunched(h[i])
                              /\ <<h[i], "start">> \notin deferred
                              /\ \A k \in DOMAIN h : h[i] = h[k] => i = k
      BY <2>2 DEF EngineInv, WaitsOK
    <3>4. \A i \in DOMAIN h : HeldBack(h[i])
      BY <2>2, <3>3 DEF HeldBack
    <3> QED
      BY <3>1, <3>2, <3>3, <3>4
  <2>4. \A x : HeldBack(x)' => HeldBack(x)
    <3> SUFFICES ASSUME NEW x, HeldBack(x)'  PROVE HeldBack(x)
      OBVIOUS
    <3>1. PICK i \in DOMAIN held'[JobOf(x)] : held'[JobOf(x)][i] = x
      BY DEF HeldBack, JobOf
    <3>2. JobOf(x) # j
      BY <2>1, <3>1
    <3>3. held'[JobOf(x)] = held[JobOf(x)]
      BY <1>9, <3>2, <1>2 DEF TypeOK
    <3> QED
      BY <3>1, <3>3 DEF HeldBack
  <2>5. \A d : d \in deferred' => d \in deferred \/ \E i \in DOMAIN h : d = <<h[i], "start">>
    BY <1>9, <2>2
  <2>6. ~Recovering => deferred' = deferred
    BY <1>9
  <2>7. RecoveryOK'
    BY <1>1, <1>3, <1>9, <2>1, <2>6 DEF EngineInv, RecoveryOK, Recovering, Up
  <2>8. TierOK'
    BY <1>5, <1>9
  <2>9. WaitsOK'
    <3>1. ASSUME NEW k \in Jobs, NEW i \in DOMAIN held'[k], NEW x, x = held'[k][i]
          PROVE  /\ JobOf(x) = k /\ Unlaunched(x) /\ Unlaunched(held[k][i])'
                 /\ <<x, "start">> \notin deferred'
                 /\ \A m \in DOMAIN held'[k] : x = held'[k][m] => i = m
      <4>1. k # j /\ held'[k] = held[k]
        BY <2>1, <3>1
      <4>2. /\ JobOf(x) = k /\ Unlaunched(x) /\ <<x, "start">> \notin deferred
            /\ \A m \in DOMAIN held'[k] : x = held'[k][m] => i = m
        BY <3>1, <4>1 DEF EngineInv, WaitsOK
      <4>3. <<x, "start">> \notin deferred'
        BY <2>3, <2>5, <4>1, <4>2
      <4>4. Unlaunched(held[k][i])'
        BY <1>4, <3>1, <4>2 DEF Unlaunched, Started, JobOf
      <4> QED
        BY <4>2, <4>3, <4>4
    <3>2. ASSUME NEW x \in Attempts, <<x, "start">> \in deferred'
          PROVE  Unlaunched(x)'
      <4>1. <<x, "start">> \in deferred \/ \E i \in DOMAIN h : x = h[i]
        BY <2>5, <3>2
      <4>2. Unlaunched(x)
        BY <2>3, <4>1 DEF EngineInv, WaitsOK
      <4> QED
        BY <1>4, <4>2
    <3>3. \A x \in Attempts : <<x, "plan">> \in deferred' =>
            plan[x] = "rerun" /\ tier[x].cleaning # "ladder" /\ x \notin catchUp
      <4>1. \A x : <<x, "plan">> \in deferred' => <<x, "plan">> \in deferred
        BY <2>5
      <4> QED
        BY <4>1 DEF EngineInv, WaitsOK
    <3> QED
      BY <1>1, <3>1, <3>2, <3>3 DEF EngineInv, WaitsOK, JobOf
  <2>10. ASSUME NEW c \in CallSet, CallOK(c)  PROVE CallOK(c)'
    <3>1. c[1] \in Starts => ~HeldBack(c[2])' /\ <<c[2], "start">> \notin deferred'
      BY <2>3, <2>4, <2>5, <2>10 DEF CallOK
    <3>2. c[1] = "discharge_plan" => <<c[2], "plan">> \notin deferred'
      BY <2>5, <2>10 DEF CallOK
    <3> QED
      BY <1>1, <1>4, <2>10, <3>1, <3>2 DEF CallOK
  <2>11. (agenda \in [Jobs -> Seq(Names \X Attempts)])' /\ AgendaOK'
    <3>1. CASE Recovering
      BY <1>2, <1>9, <2>10, <3>1, CallGone
    <3>2. CASE ~Recovering
      <4>1. PICK more : more = [i \in DOMAIN h |-> <<"discharge_start", h[i]>>]
        OBVIOUS
      <4>2. Then(j, more) /\ deferred' = deferred
        BY <1>9, <2>2, <3>2, <4>1
      <4>3. /\ DOMAIN more = DOMAIN h
            /\ \A i \in DOMAIN more : more[i] = <<"discharge_start", h[i]>>
        BY <4>1
      <4>4. more \in Seq(CallSet)
        <5>1. \A i \in DOMAIN h : <<"discharge_start", h[i]>> \in CallSet
          BY <2>3 DEF CallSet, Names
        <5>2. Len(h) \in Nat /\ DOMAIN h = 1..Len(h)
          BY <2>3
        <5>3. more \in [1..Len(h) -> CallSet]
          BY <4>1, <5>1, <5>2
        <5> QED
          BY <5>2, <5>3
      <4>5. phase = "running"
        BY <1>2, <1>3, <1>9, <3>2 DEF TypeOK, Recovering, Up
      <4>6. ASSUME NEW i \in DOMAIN more
            PROVE  /\ JobOf(more[i][2]) = j /\ CallOK(more[i])'
                   /\ more[i][1] \notin HeadOnly
        <5>1. PICK c : c = more[i]
          OBVIOUS
        <5>2. c[1] = "discharge_start" /\ c[2] = h[i] /\ JobOf(c[2]) = j /\ Unlaunched(c[2])
              /\ <<c[2], "start">> \notin deferred
          <6>1. c = <<"discharge_start", h[i]>> /\ i \in DOMAIN h
            BY <4>3, <4>6, <5>1
          <6>2. c[1] = "discharge_start" /\ c[2] = h[i]
            BY <6>1
          <6> QED
            BY <2>3, <6>1, <6>2
        <5>3. ~HeldBack(c[2])'
          BY <2>1, <5>2 DEF HeldBack, JobOf
        <5>4. CallOK(c)'
          BY <1>1, <1>4, <4>2, <4>5, <5>2, <5>3 DEF CallOK
        <5>5. CallOK(more[i])'
          BY <5>1, <5>4 DEF CallOK, Unlaunched, Started, HeldBack, JobOf
        <5> QED
          BY <5>1, <5>2, <5>5 DEF HeadOnly
      <4>7. \A i, k \in DOMAIN more : more[i][2] = more[k][2] => i = k
        BY <2>3, <4>3
      <4>8. \A i \in DOMAIN more, c \in Rest(j) :
              c[1] \in Starts => c[2] # more[i][2]
        <5> SUFFICES ASSUME NEW i \in DOMAIN more, NEW c \in Rest(j), c[1] \in Starts
                     PROVE  c[2] # more[i][2]
          OBVIOUS
        <5>1. ~HeldBack(c[2])
          BY <1>2, RestFacts DEF CallOK
        <5>2. more[i][2] = h[i] /\ i \in DOMAIN h
          BY <4>3
        <5>3. HeldBack(h[i])
          BY <2>3, <5>2
        <5> QED
          BY <5>1, <5>2, <5>3
      <4> QED
        BY <1>2, <2>10, <4>2, <4>4, <4>6, <4>7, <4>8, CallStep
    <3> QED
      BY <3>1, <3>2
  <2>12. TypeOK'
    <3>1. deferred' \in SUBSET (Attempts \X {"start", "plan"})
      BY <1>2, <2>3, <2>5 DEF TypeOK
    <3> QED
      BY <1>1, <1>2, <1>9, <2>1, <2>11, <3>1 DEF TypeOK
  <2> QED
    BY <1>4, <2>7, <2>8, <2>9, <2>11, <2>12 DEF EngineInv
<1> QED
  BY <1>7, <1>8, <1>9 DEF Release

-----------------------------------------------------------------------------
(* The handlers.                                                            *)

LEMMA Idly ==
  ASSUME TypeOK, Idle
  PROVE  /\ \A j \in Jobs : agenda[j] = <<>>
         /\ \A a \in Attempts : ~LadderEndDue(a)
         /\ \A j \in Jobs : DOMAIN agenda[j] = {}
<1>1. \A j \in Jobs : agenda[j] = <<>>
  BY DEF Idle
<1>2. DOMAIN <<>> = {}
  OBVIOUS
<1> QED
  BY <1>1, <1>2, AttemptParts DEF LadderEndDue

\* A handler that leaves no call.
LEMMA StillIdle ==
  ASSUME TypeOK, Idle, agenda' = agenda
  PROVE  (agenda \in [Jobs -> Seq(Names \X Attempts)])' /\ AgendaOK' /\ Idle'
<1>1. \A j \in Jobs : DOMAIN agenda'[j] = {}
  BY Idly
<1> QED
  BY <1>1 DEF TypeOK, AgendaOK, Idle

\* A handler that leaves calls of one job.
LEMMA HandlerCalls ==
  ASSUME TypeOK, Idle, NEW j \in Jobs, NEW more \in Seq(CallSet),
         agenda' = [agenda EXCEPT ![j] = more],
         \A i \in DOMAIN more : \A c : c = more[i] =>
           JobOf(c[2]) = j /\ CallOK(c)' /\ (i # 1 => c[1] \notin HeadOnly \cup Starts)
  PROVE  (agenda \in [Jobs -> Seq(Names \X Attempts)])' /\ AgendaOK'
<1>1. /\ agenda' \in [Jobs -> Seq(CallSet)] /\ agenda'[j] = more
      /\ \A k \in Jobs : k # j => DOMAIN agenda'[k] = {}
  BY Idly DEF TypeOK, CallSet
<1>2. AgendaOK'
  <2> SUFFICES ASSUME NEW k \in Jobs, NEW i \in DOMAIN agenda'[k], NEW c, c = agenda'[k][i]
               PROVE  /\ JobOf(c[2]) = k
                      /\ CallOK(c)'
                      /\ i # 1 => c[1] \notin HeadOnly
                      /\ \A m \in DOMAIN agenda'[k] :
                           c[1] \in Starts /\ agenda'[k][m][1] \in Starts
                             /\ c[2] = agenda'[k][m][2] => i = m
    BY AgendaByCalls
  <2>1. k = j /\ i \in DOMAIN more /\ c = more[i]
    BY <1>1
  <2>2. JobOf(c[2]) = j /\ CallOK(c)' /\ (i # 1 => c[1] \notin HeadOnly \cup Starts)
    BY <2>1
  <2>3. ASSUME NEW m \in DOMAIN more, m # 1  PROVE more[m][1] \notin Starts
    BY <2>3
  <2> QED
    BY <1>1, <2>1, <2>2, <2>3
<1> QED
  BY <1>1, <1>2 DEF CallSet

\* One call of an attempt, or two.
LEMMA HandlerCall ==
  ASSUME TypeOK, Idle, NEW d \in CallSet, CallOK(d)',
         agenda' = [agenda EXCEPT ![JobOf(d[2])] = <<d>>]
  PROVE  (agenda \in [Jobs -> Seq(Names \X Attempts)])' /\ AgendaOK'
<1>1. PICK more : more = <<d>>
  OBVIOUS
<1>2. more \in Seq(CallSet) /\ DOMAIN more = {1} /\ more[1] = d
  BY <1>1
<1>3. JobOf(d[2]) \in Jobs
  BY AttemptParts DEF CallSet
<1>4. agenda' = [agenda EXCEPT ![JobOf(d[2])] = more]
  BY <1>1
<1>5. \A i \in DOMAIN more : \A c : c = more[i] =>
           JobOf(c[2]) = JobOf(d[2]) /\ CallOK(c)' /\ (i # 1 => c[1] \notin HeadOnly \cup Starts)
  BY <1>2
<1> QED
  BY <1>2, <1>3, <1>4, <1>5, HandlerCalls, ZenonT(40)

\* What an attempt's tier entry may become in a handler that leaves the store.
LEMMA HandlerTier ==
  ASSUME EngineInv, Idle, Up, NEW a \in Attempts,
         UNCHANGED <<row, life, plan, pending, decided, recorded>>,
         UNCHANGED <<phase, queue, deferred, held, waiting>>,
         catchUp' \in {catchUp, catchUp \ {a}},
         live' \in {live, [live EXCEPT ![JobOf(a)] = IF @ = a THEN None ELSE @]},
         NEW r \in TierRecord, tier' = [tier EXCEPT ![a] = r],
         life[a] = "open" <=> r.state \in {"live", "stopping"},
         life[a] = "closing" => /\ r.state = "ended"
                                /\ a \in catchUp' \/ r.cleaning # "no" \/ agenda' # agenda,
         a \in catchUp' => r.exited /\ r.cleaning = "no",
         <<a, "plan">> \in deferred => r.cleaning # "ladder",
         \/ agenda' = agenda
         \/ /\ agenda' = [agenda EXCEPT ![JobOf(a)] = <<<<"ladder_ended", a>>>>]
            /\ a \notin catchUp'
  PROVE  EngineInv'
<1>1. TypeOK /\ catchUp' \subseteq catchUp
  BY DEF EngineInv
<1>2. /\ tier' \in [Attempts -> TierRecord] /\ tier'[a] = r
      /\ \A x \in Attempts : x # a => tier'[x] = tier[x]
  BY <1>1 DEF TypeOK
<1>3. StoreOK' /\ OneOpenPerJob' /\ \A x : Unlaunched(x)' <=> Unlaunched(x)
  BY StoreKept
<1>4. /\ live' \in [Jobs -> Attempts \cup {None}]
      /\ \A k \in Jobs : live'[k] = live[k] \/ live'[k] = None
  BY <1>1, ZenonT(40) DEF TypeOK
<1>5. (agenda \in [Jobs -> Seq(Names \X Attempts)])' /\ AgendaOK'
      /\ (agenda' # agenda => LadderEndDue(a)')
  <2>1. CASE agenda' = agenda
    BY <1>1, <2>1, StillIdle
  <2>2. CASE /\ agenda' = [agenda EXCEPT ![JobOf(a)] = <<<<"ladder_ended", a>>>>]
             /\ a \notin catchUp'
    <3>1. PICK d : d = <<"ladder_ended", a>>
      OBVIOUS
    <3>2. d \in CallSet /\ d[1] = "ladder_ended" /\ d[2] = a
      BY <3>1 DEF CallSet, Names
    <3>3. CallOK(d)'
      BY <2>2, <3>2 DEF CallOK, Starts
    <3>4. agenda' = [agenda EXCEPT ![JobOf(d[2])] = <<d>>]
      BY <2>2, <3>1, <3>2
    <3>5. (agenda \in [Jobs -> Seq(Names \X Attempts)])' /\ AgendaOK'
      BY <1>1, <3>2, <3>3, <3>4, HandlerCall
    <3>6. JobOf(a) \in Jobs
      BY AttemptParts
    <3>7. agenda'[JobOf(a)] = <<d>> /\ Head(<<d>>) = d /\ <<d>> # <<>>
      BY <1>1, <3>2, <3>4, <3>6 DEF TypeOK
    <3>8. LadderEndDue(a)'
      BY <3>1, <3>7 DEF LadderEndDue, JobOf
    <3> QED
      BY <3>5, <3>8
  <2> QED
    BY <2>1, <2>2
<1>6. TierOK'
  <2> SUFFICES ASSUME NEW x \in Attempts
               PROVE  /\ life[x] = "open" <=> tier'[x].state \in {"live", "stopping"}
                      /\ life[x] = "closing" =>
                           /\ tier'[x].state = "ended"
                           /\ x \in catchUp' \/ tier'[x].cleaning # "no" \/ LadderEndDue(x)'
    BY DEF TierOK
  <2>1. CASE x = a
    BY <1>2, <1>5, <2>1
  <2>2. CASE x # a
    <3>1. ~LadderEndDue(x)
      BY <1>1, Idly
    <3>2. /\ life[x] = "open" <=> tier[x].state \in {"live", "stopping"}
          /\ life[x] = "closing" =>
               /\ tier[x].state = "ended"
               /\ x \in catchUp \/ tier[x].cleaning # "no"
      BY <3>1 DEF EngineInv, TierOK
    <3> QED
      BY <1>2, <2>2, <3>2
  <2> QED
    BY <2>1, <2>2
<1>7. RecoveryOK'
  <2>1. \A x \in catchUp' : tier'[x].exited /\ tier'[x].cleaning = "no"
    BY <1>1, <1>2 DEF EngineInv, RecoveryOK, TypeOK
  <2>2. phase # "down"
    BY DEF Up
  <2> QED
    BY <1>1, <1>4, <2>1, <2>2 DEF EngineInv, RecoveryOK, Recovering
<1>8. WaitsOK'
  <2>1. \A k \in Jobs : \A i \in DOMAIN held[k] : Unlaunched(held[k][i])'
    BY ZenonT(40) DEF EngineInv, WaitsOK, Unlaunched, Started, JobOf
  <2>2. \A x \in Attempts : <<x, "plan">> \in deferred =>
          plan[x] = "rerun" /\ tier'[x].cleaning # "ladder" /\ x \notin catchUp'
    BY <1>1, <1>2 DEF EngineInv, WaitsOK
  <2> QED
    BY <1>3, <2>1, <2>2 DEF EngineInv, WaitsOK
<1>9. TypeOK'
  <2>1. catchUp' \in SUBSET Attempts /\ \A k \in Jobs : live'[k] # None => JobOf(live'[k]) = k
    BY <1>1, <1>4 DEF TypeOK
  <2> QED
    BY <1>1, <1>2, <1>4, <1>5, <2>1 DEF TypeOK
<1> QED
  BY <1>3, <1>5, <1>6, <1>7, <1>8, <1>9 DEF EngineInv

\* What the memory says of an attempt while no handler runs.
LEMMA AttemptNow ==
  ASSUME EngineInv, Idle, Up, NEW a \in Attempts
  PROVE  /\ TypeOK /\ tier[a] \in TierRecord /\ life[a] \in {"never", "open", "closing", "closed"}
         /\ life[a] = "open" <=> tier[a].state \in {"live", "stopping"}
         /\ life[a] = "closing" =>
              tier[a].state = "ended" /\ (a \in catchUp \/ tier[a].cleaning # "no")
         /\ a \in catchUp => tier[a].exited /\ tier[a].cleaning = "no"
         /\ <<a, "plan">> \in deferred =>
              life[a] # "open" /\ a \notin catchUp /\ tier[a].cleaning # "ladder"
<1>1. TypeOK /\ ~LadderEndDue(a)
  BY Idly DEF EngineInv
<1> QED
  BY <1>1 DEF EngineInv, TypeOK, TierOK, RecoveryOK, WaitsOK, StoreOK

LEMMA CleaningInv == ASSUME EngineInv, NEW a \in Attempts, Cleaning(a)  PROVE EngineInv'
<1>1. /\ Idle /\ Up /\ a \notin catchUp /\ tier[a].cleaning = "no"
      /\ UNCHANGED <<store, agenda, phase, live, queue, deferred, held, waiting, catchUp>>
  BY DEF Cleaning, Ready, Up
<1>2. /\ TypeOK /\ tier[a] \in TierRecord
      /\ life[a] = "open" <=> tier[a].state \in {"live", "stopping"}
      /\ <<a, "plan">> \in deferred => life[a] # "open"
  BY <1>1, AttemptNow
<1>3. \E r \in TierRecord : /\ tier' = [tier EXCEPT ![a] = r]
                            /\ r.state = "stopping" /\ tier[a].state \in {"live", "stopping"}
  <2>1. CASE tier[a].state = "live" /\ tier' = [tier EXCEPT ![a] = Stop(@, "ladder", FALSE)]
    <3>1. PICK r : r = Stop(tier[a], "ladder", FALSE)
      OBVIOUS
    <3>2. r \in TierRecord /\ r.state = "stopping"
      BY <1>2, <2>1, <3>1 DEF Stop, TierRecord
    <3> QED
      BY <2>1, <3>1, <3>2
  <2>2. ASSUME NEW cleaning \in {"ladder", "held"}, tier[a].state = "stopping",
               tier' = [tier EXCEPT ![a].cleaning = cleaning]
        PROVE  \E r \in TierRecord : /\ tier' = [tier EXCEPT ![a] = r]
                                     /\ r.state = "stopping" /\ tier[a].state = "stopping"
    <3>1. PICK r : r = [tier[a] EXCEPT !.cleaning = cleaning]
      OBVIOUS
    <3>2. r \in TierRecord /\ r.state = "stopping"
      BY <1>2, <2>2, <3>1 DEF TierRecord
    <3> QED
      BY <2>2, <3>1, <3>2
  <2> QED
    BY <2>1, <2>2 DEF Cleaning
<1>4. PICK r \in TierRecord : /\ tier' = [tier EXCEPT ![a] = r]
                              /\ r.state = "stopping" /\ tier[a].state \in {"live", "stopping"}
  BY <1>3
<1>5. life[a] = "open" /\ <<a, "plan">> \notin deferred
  BY <1>2, <1>4
<1> QED
  BY <1>1, <1>4, <1>5, HandlerTier DEF store

\* A ladder or a hold is over, or goes on as the other.
LEMMA HoldOver ==
  ASSUME EngineInv, Idle, Up, NEW a \in Attempts, NEW cleaning \in {"no", "held"},
         UNCHANGED <<row, life, plan, pending, decided, recorded>>,
         UNCHANGED <<phase, live, queue, deferred, held, waiting>>,
         catchUp' = catchUp \ {a},
         tier' = [tier EXCEPT ![a].cleaning = cleaning],
         IF cleaning = "held"
         THEN agenda' = agenda
         ELSE agenda' = [agenda EXCEPT ![JobOf(a)] = <<<<"ladder_ended", a>>>>]
  PROVE  EngineInv'
<1>1. /\ TypeOK /\ tier[a] \in TierRecord
      /\ life[a] = "open" <=> tier[a].state \in {"live", "stopping"}
      /\ life[a] = "closing" => tier[a].state = "ended"
  BY AttemptNow
<1>2. PICK r : r = [tier[a] EXCEPT !.cleaning = cleaning]
  OBVIOUS
<1>3. r \in TierRecord /\ r.state = tier[a].state /\ r.cleaning = cleaning
  BY <1>1, <1>2 DEF TierRecord
<1>4. tier' = [tier EXCEPT ![a] = r]
  BY <1>2
<1>5. cleaning # "held" => agenda' # agenda
  <2>1. agenda[JobOf(a)] = <<>> /\ agenda \in [Jobs -> Seq(Names \X Attempts)]
        /\ JobOf(a) \in Jobs
    BY <1>1, Idly, AttemptParts DEF TypeOK
  <2>2. cleaning # "held" => agenda'[JobOf(a)] = <<<<"ladder_ended", a>>>>
    BY <2>1
  <2>3. <<<<"ladder_ended", a>>>> # <<>>
    OBVIOUS
  <2> QED
    BY <2>1, <2>2, <2>3
<1> QED
  BY <1>1, <1>3, <1>4, <1>5, HandlerTier

LEMMA LadderEndsInv == ASSUME EngineInv, NEW a \in Attempts, LadderEnds(a)  PROVE EngineInv'
<1>1. /\ Idle /\ Up /\ tier[a].cleaning = "ladder"
      /\ UNCHANGED <<store, phase, live, queue, deferred, held, waiting, catchUp>>
  BY DEF LadderEnds, Ready, Up
<1>2. catchUp' = catchUp \ {a}
  BY <1>1, AttemptNow
<1>3. CASE tier' = [tier EXCEPT ![a].cleaning = "held"] /\ UNCHANGED agenda
  BY <1>1, <1>2, <1>3, HoldOver DEF store
<1>4. CASE /\ tier' = [tier EXCEPT ![a].cleaning = "no"]
           /\ agenda' = [agenda EXCEPT ![JobOf(a)] = <<<<"ladder_ended", a>>>>]
  BY <1>1, <1>2, <1>4, HoldOver DEF store
<1> QED
  BY <1>3, <1>4 DEF LadderEnds

LEMMA TaskDoneInv == ASSUME EngineInv, NEW a \in Attempts, TaskDone(a)  PROVE EngineInv'
<1>1. /\ Idle /\ Up /\ tier[a].state \in {"stopping", "ended"} /\ ~tier[a].exited
      /\ tier' = [tier EXCEPT ![a] = Kept([@ EXCEPT !.exited = TRUE])]
      /\ live' = [live EXCEPT ![JobOf(a)] = IF @ = a THEN None ELSE @]
      /\ UNCHANGED <<store, agenda, phase, queue, deferred, held, waiting, catchUp>>
  BY DEF TaskDone, Ready, Up
<1>2. /\ TypeOK /\ tier[a] \in TierRecord /\ a \notin catchUp
      /\ life[a] = "open" <=> tier[a].state \in {"live", "stopping"}
      /\ life[a] = "closing" => tier[a].state = "ended" /\ tier[a].cleaning # "no"
      /\ <<a, "plan">> \in deferred => tier[a].cleaning # "ladder"
  BY <1>1, AttemptNow
<1>3. PICK q : q = [tier[a] EXCEPT !.exited = TRUE]
  OBVIOUS
<1>4. PICK r : r = Kept(q)
  OBVIOUS
<1>5. q \in TierRecord /\ q.state = tier[a].state /\ q.cleaning = tier[a].cleaning
  BY <1>2, <1>3 DEF TierRecord
<1>6. /\ r \in TierRecord /\ r.cleaning = tier[a].cleaning
      /\ \/ r.state = tier[a].state
         \/ tier[a].state = "ended" /\ tier[a].cleaning = "no" /\ r.state = "unknown"
  BY <1>4, <1>5, KeptFacts
<1>7. tier' = [tier EXCEPT ![a] = r]
  BY <1>1, <1>3, <1>4
<1>8. /\ life[a] = "open" <=> r.state \in {"live", "stopping"}
      /\ life[a] = "closing" => r.state = "ended" /\ r.cleaning # "no"
  BY <1>2, <1>6
<1> QED
  BY <1>1, <1>2, <1>6, <1>7, <1>8, HandlerTier DEF store

\* The outcome of an attempt and its plan, with the calls they leave.
LEMMA CommitInv ==
  ASSUME EngineInv, Idle, Up, NEW a \in Attempts, life[a] = "open",
         NEW cleaning \in {"no", "ladder", "held"}, NEW killed \in BOOLEAN,
         NEW calls \in {<<>>, <<<<"release", a>>>>}, Commit(a, cleaning, killed, calls),
         catchUp' = catchUp \ {a},
         UNCHANGED <<row, pending, decided, recorded>>,
         UNCHANGED <<phase, live, queue, deferred, held, waiting>>
  PROVE  EngineInv'
<1>1. /\ TypeOK /\ tier[a] \in TierRecord /\ a[3] \in 1..MaxAttempts
      /\ plan[a] = "none" /\ Started(a)
      /\ a[3] < MaxAttempts => life[Replacement(a)] = "never"
      /\ \A x \in Attempts : ~LadderEndDue(x)
  <2>1. TypeOK /\ tier[a] \in TierRecord
    BY DEF EngineInv, TypeOK
  <2>2. /\ plan[a] = "none" /\ Started(a)
        /\ a[3] < MaxAttempts => life[Replacement(a)] = "never"
    BY DEF EngineInv, StoreOK
  <2> QED
    BY <2>1, <2>2, AttemptParts, Idly
<1>2. PICK own \in BOOLEAN :
        /\ \E p \in Plans(a, own, killed) : plan' = [plan EXCEPT ![a] = p]
        /\ life' = [life EXCEPT ![a] = IF cleaning = "no" THEN "closed" ELSE "closing"]
        /\ tier' = [tier EXCEPT ![a].state = "ended", ![a].cleaning = cleaning, ![a].killed = killed]
        /\ agenda' = [agenda EXCEPT ![JobOf(a)] = <<<<"perform", a>>>> \o calls]
  BY DEF Commit
<1>3. PICK p \in Plans(a, own, killed) : plan' = [plan EXCEPT ![a] = p]
  BY <1>2
<1>4. p \in {"none", "input", "rerun"} /\ (p = "rerun" => a[3] < MaxAttempts)
  BY <1>1, EngineAssumption DEF Plans, Limit
<1>5. /\ plan' \in [Attempts -> {"none", "input", "rerun", "done"}]
      /\ \A x \in Attempts : x # a => plan'[x] = plan[x]
      /\ plan'[a] = "rerun" => a[3] < MaxAttempts
  BY <1>1, <1>3, <1>4 DEF TypeOK
<1>6. /\ life' \in [Attempts -> {"never", "open", "closing", "closed"}]
      /\ \A x \in Attempts : x # a => life'[x] = life[x]
      /\ life'[a] \in {"closing", "closed"} /\ (life'[a] = "closing" => cleaning # "no")
  BY <1>1, <1>2 DEF TypeOK
<1>7. /\ tier' \in [Attempts -> TierRecord]
      /\ \A x \in Attempts : x # a => tier'[x] = tier[x]
      /\ tier'[a].state = "ended" /\ tier'[a].cleaning = cleaning
  <2>1. PICK r : r = [[[tier[a] EXCEPT !.state = "ended"] EXCEPT !.cleaning = cleaning]
                       EXCEPT !.killed = killed]
    OBVIOUS
  <2>2. r \in TierRecord /\ r.state = "ended" /\ r.cleaning = cleaning
    BY <1>1, <2>1 DEF TierRecord
  <2>3. tier' = [tier EXCEPT ![a] = r]
    BY <1>1, <1>2, <2>1 DEF TypeOK
  <2> QED
    BY <1>1, <2>2, <2>3 DEF TypeOK
<1>8. \A x : Unlaunched(x)' <=> Unlaunched(x)
  BY <1>6, RunsAreAttempts DEF Unlaunched, Started
<1>9. StoreOK'
  <2>1. \A x \in Attempts : x[3] < MaxAttempts => Replacement(x) \in Attempts /\ Replacement(x) # x
    BY Replacements, AttemptParts
  <2>2. ASSUME NEW x \in Attempts
        PROVE  /\ life'[x] # "never" => Started(x)'
               /\ life'[x] \in {"never", "open"} =>
                    /\ plan'[x] = "none"
                    /\ x[3] < MaxAttempts => life'[Replacement(x)] = "never"
               /\ plan'[x] = "rerun" => x[3] < MaxAttempts /\ life'[Replacement(x)] = "never"
    <3>1. CASE x = a
      BY <1>1, <1>5, <1>6, <2>1, <3>1 DEF Started
    <3>2. CASE x # a
      <4>1. /\ life[x] # "never" => Started(x)
            /\ life[x] \in {"never", "open"} =>
                 /\ plan[x] = "none"
                 /\ x[3] < MaxAttempts => life[Replacement(x)] = "never"
            /\ plan[x] = "rerun" => x[3] < MaxAttempts /\ life[Replacement(x)] = "never"
        BY DEF EngineInv, StoreOK
      <4>2. x[3] < MaxAttempts /\ life[Replacement(x)] = "never" =>
              Replacement(x) # a /\ life'[Replacement(x)] = "never"
        BY <1>6, <2>1
      <4> QED
        BY <1>5, <1>6, <3>2, <4>1, <4>2 DEF Started
    <3> QED
      BY <3>1, <3>2
  <2>3. \A x \in pending' : Unlaunched(x)'
    BY <1>8 DEF EngineInv, StoreOK
  <2>4. \A x \in decided' : life'[x] # "never" => x \in recorded'
    BY <1>1, <1>6, RunsAreAttempts DEF EngineInv, StoreOK, TypeOK
  <2> QED
    BY <2>2, <2>3, <2>4 DEF StoreOK
<1>10. TierOK'
  <2> SUFFICES ASSUME NEW x \in Attempts
               PROVE  /\ life'[x] = "open" <=> tier'[x].state \in {"live", "stopping"}
                      /\ life'[x] = "closing" =>
                           /\ tier'[x].state = "ended"
                           /\ x \in catchUp' \/ tier'[x].cleaning # "no" \/ LadderEndDue(x)'
    BY DEF TierOK
  <2>1. CASE x = a
    BY <1>6, <1>7, <2>1
  <2>2. CASE x # a
    BY <1>6, <1>7, <2>2, AttemptNow
  <2> QED
    BY <2>1, <2>2
<1>11. OneOpenPerJob'
  <2>1. \A x \in Attempts : life'[x] \in {"open", "closing"} => life[x] \in {"open", "closing"}
    BY <1>6
  <2> QED
    BY <2>1 DEF EngineInv, OneOpenPerJob, JobOf
<1>12. RecoveryOK'
  <2>1. \A x \in catchUp' : x \in Attempts /\ x # a /\ tier'[x] = tier[x]
    BY <1>1, <1>7 DEF TypeOK
  <2>2. phase # "down"
    BY DEF Up
  <2> QED
    BY <2>1, <2>2 DEF EngineInv, RecoveryOK, Recovering
<1>13. WaitsOK'
  <2>1. \A k \in Jobs : \A i \in DOMAIN held[k] : Unlaunched(held[k][i])'
    <3> SUFFICES ASSUME NEW k \in Jobs, NEW i \in DOMAIN held[k], NEW h, h = held[k][i]
                 PROVE  Unlaunched(held[k][i])'
      OBVIOUS
    <3>1. Unlaunched(h)'
      BY <1>8 DEF EngineInv, WaitsOK
    <3> QED
      BY <3>1 DEF Unlaunched, Started, JobOf
  <2>2. ASSUME NEW x \in Attempts, <<x, "plan">> \in deferred
        PROVE  plan'[x] = "rerun" /\ tier'[x].cleaning # "ladder" /\ x \notin catchUp'
    <3>1. plan[x] = "rerun" /\ tier[x].cleaning # "ladder" /\ x \notin catchUp
      BY <2>2 DEF EngineInv, WaitsOK
    <3> QED
      BY <1>1, <1>5, <1>7, <3>1
  <2>3. \A x \in queue : plan'[x] = "input"
    BY <1>1, <1>5 DEF EngineInv, WaitsOK, TypeOK
  <2> QED
    BY <1>8, <2>1, <2>2, <2>3 DEF EngineInv, WaitsOK
<1>14. (agenda \in [Jobs -> Seq(Names \X Attempts)])' /\ AgendaOK'
  <2>1. PICK x : x = <<"perform", a>>
    OBVIOUS
  <2>2. PICK y : y = <<"release", a>>
    OBVIOUS
  <2>3. /\ x \in CallSet /\ x[1] = "perform" /\ x[2] = a
        /\ y \in CallSet /\ y[1] = "release" /\ y[2] = a
    BY <2>1, <2>2 DEF CallSet, Names
  <2>4. CallOK(x)' /\ CallOK(y)'
    BY <2>3 DEF CallOK, Starts
  <2>5. PICK more : more = <<<<"perform", a>>>> \o calls
    OBVIOUS
  <2>6. PICK both : both = {x, y}
    OBVIOUS
  <2>7. more \in Seq(CallSet) /\ \A i \in DOMAIN more : more[i] \in {x, y}
    <3>1. PICK s : s = <<x>>
      OBVIOUS
    <3>2. s \in Seq(both) /\ s \in Seq(CallSet) /\ more = s \o calls
      BY <2>1, <2>3, <2>5, <2>6, <3>1
    <3>3. calls \in Seq(both) /\ calls \in Seq(CallSet)
      <4>1. CASE calls = <<>>
        BY <4>1
      <4>2. CASE calls = <<<<"release", a>>>>
        <5>1. calls = <<y>>
          BY <2>2, <4>2
        <5> QED
          BY <2>3, <2>6, <5>1
      <4> QED
        BY <4>1, <4>2
    <3>4. more \in Seq(both) /\ more \in Seq(CallSet)
      BY <3>2, <3>3
    <3> QED
      BY <2>6, <3>4
  <2>8. \A c \in {x, y} : JobOf(c[2]) = JobOf(a) /\ CallOK(c)' /\ c[1] \notin HeadOnly \cup Starts
    BY <2>3, <2>4 DEF HeadOnly, Starts
  <2>9. \A i \in DOMAIN more : \A c : c = more[i] =>
           JobOf(c[2]) = JobOf(a) /\ CallOK(c)' /\ (i # 1 => c[1] \notin HeadOnly \cup Starts)
    BY <2>7, <2>8
  <2>10. agenda' = [agenda EXCEPT ![JobOf(a)] = more] /\ JobOf(a) \in Jobs
    BY <1>2, <2>5, AttemptParts
  <2> QED
    BY <1>1, <2>7, <2>9, <2>10, HandlerCalls
<1>15. TypeOK'
  <2>1. catchUp' \in SUBSET Attempts
    BY <1>1 DEF TypeOK
  <2> QED
    BY <1>1, <1>5, <1>6, <1>7, <1>14, <2>1 DEF TypeOK
<1> QED
  BY <1>9, <1>10, <1>11, <1>12, <1>13, <1>14, <1>15 DEF EngineInv

LEMMA EndedInv == ASSUME EngineInv, NEW a \in Attempts, Ended(a)  PROVE EngineInv'
<1>1. /\ Idle /\ Up /\ a \notin catchUp /\ tier[a].state \in {"live", "stopping"}
      /\ UNCHANGED <<row, pending, decided, recorded>>
      /\ UNCHANGED <<phase, live, queue, deferred, held, waiting, catchUp>>
  BY DEF Ended, Ready, Up
<1>2. TypeOK /\ life[a] = "open" /\ tier[a] \in TierRecord /\ catchUp' = catchUp \ {a}
  BY <1>1, AttemptNow
<1>3. PICK cleaning \in {"no", "ladder", "held"} : Commit(a, cleaning, tier[a].killed, <<>>)
  BY <1>2 DEF Ended, TierRecord
<1>4. tier[a].killed \in BOOLEAN
  BY <1>2 DEF TierRecord
<1> QED
  BY <1>1, <1>2, <1>3, <1>4, CommitInv

LEMMA GroupGoneInv == ASSUME EngineInv, NEW a \in Attempts, GroupGone(a)  PROVE EngineInv'
<1>1. /\ Idle /\ Up /\ tier[a].cleaning = "held"
      /\ UNCHANGED <<row, pending, decided, recorded>>
      /\ UNCHANGED <<phase, live, queue, deferred, held, waiting, catchUp>>
  BY DEF GroupGone, Ready, Up
<1>2. /\ TypeOK /\ tier[a] \in TierRecord /\ catchUp' = catchUp \ {a}
      /\ life[a] = "open" <=> tier[a].state \in {"live", "stopping"}
  BY <1>1, AttemptNow
<1>3. CASE /\ tier' = [tier EXCEPT ![a].cleaning = "no"]
           /\ agenda' = [agenda EXCEPT ![JobOf(a)] = <<<<"ladder_ended", a>>>>]
           /\ UNCHANGED <<life, plan>>
  BY <1>1, <1>2, <1>3, HoldOver
<1>4. CASE tier[a].state = "stopping" /\ Commit(a, "no", tier[a].killed, <<<<"release", a>>>>)
  <2>1. tier[a].killed \in BOOLEAN /\ life[a] = "open"
    BY <1>2, <1>4 DEF TierRecord
  <2> QED
    BY <1>1, <1>2, <1>4, <2>1, CommitInv
<1> QED
  BY <1>3, <1>4 DEF GroupGone

LEMMA CatchUpInv == ASSUME EngineInv, NEW a \in Attempts, CatchUp(a)  PROVE EngineInv'
<1>1. /\ Idle /\ Up /\ a \in catchUp /\ catchUp' = catchUp \ {a}
      /\ UNCHANGED <<row, pending, decided, recorded>>
      /\ UNCHANGED <<phase, live, queue, deferred, held, waiting>>
  BY DEF CatchUp, Ready, Up
<1>2. PICK cleaning \in {"no", "ladder", "held"} :
       \/ life[a] = "open" /\ Commit(a, cleaning, a \in stopped, <<>>)
       \/ /\ life[a] = "closing"
          /\ tier' = [tier EXCEPT ![a].cleaning = cleaning]
          /\ agenda' = IF cleaning = "no"
                       THEN [agenda EXCEPT ![JobOf(a)] = <<<<"ladder_ended", a>>>>]
                       ELSE agenda
          /\ UNCHANGED <<life, plan>>
  BY DEF CatchUp
<1>3. CASE life[a] = "open" /\ Commit(a, cleaning, a \in stopped, <<>>)
  <2>1. PICK killed \in BOOLEAN : killed <=> a \in stopped
    OBVIOUS
  <2>2. \A x \in BOOLEAN, y \in BOOLEAN : (x <=> y) => x = y
    OBVIOUS
  <2>3. (a \in stopped) \in BOOLEAN
    OBVIOUS
  <2>4. killed = (a \in stopped)
    BY <2>1, <2>2, <2>3
  <2>5. Commit(a, cleaning, killed, <<>>)
    BY <1>3, <2>4
  <2> QED
    BY <1>1, <1>3, <2>5, CommitInv
<1>4. CASE /\ life[a] = "closing"
           /\ tier' = [tier EXCEPT ![a].cleaning = cleaning]
           /\ agenda' = IF cleaning = "no"
                        THEN [agenda EXCEPT ![JobOf(a)] = <<<<"ladder_ended", a>>>>]
                        ELSE agenda
           /\ UNCHANGED <<life, plan>>
  <2>1. /\ TypeOK /\ tier[a] \in TierRecord /\ tier[a].state = "ended"
        /\ <<a, "plan">> \notin deferred
    BY <1>1, <1>4, AttemptNow
  <2>2. CASE cleaning \in {"no", "held"}
    BY <1>1, <1>4, <2>2, HoldOver
  <2>3. CASE cleaning = "ladder"
    <3>1. PICK r : r = [tier[a] EXCEPT !.cleaning = cleaning]
      OBVIOUS
    <3>2. r \in TierRecord /\ r.state = "ended" /\ r.cleaning = "ladder"
      BY <2>1, <2>3, <3>1 DEF TierRecord
    <3>3. tier' = [tier EXCEPT ![a] = r] /\ agenda' = agenda
      BY <1>4, <2>3, <3>1
    <3>4. a \notin catchUp' /\ life[a] # "open"
      BY <1>1, <1>4
    <3> QED
      BY <1>1, <1>4, <2>1, <3>2, <3>3, <3>4, HandlerTier
  <2> QED
    BY <2>2, <2>3
<1> QED
  BY <1>2, <1>3, <1>4

-----------------------------------------------------------------------------
(* Inputs.                                                                  *)

StartsRun(c) == c \in {"start", "again", "start_end"}
NextRun(j) == <<j, row[j].run + 1, 1>>

LEMMA NextRunFresh ==
  ASSUME EngineInv, NEW j \in Jobs, row[j].run < MaxRuns, NEW s, s = NextRun(j)
  PROVE  /\ s \in Runs /\ s \in Attempts /\ JobOf(s) = j /\ s[2] = row[j].run + 1
         /\ life[s] = "never" /\ ~Started(s) /\ ~HeldBack(s)
         /\ <<s, "start">> \notin deferred /\ s \notin pending
<1>1. row[j].run \in 0..MaxRuns
  BY DEF EngineInv, TypeOK
<1>2. s \in Runs /\ JobOf(s) = j /\ s[2] = row[j].run + 1
  BY <1>1, EngineAssumption DEF NextRun, Runs, JobOf
<1>3. s \in Attempts /\ ~Started(s)
  BY <1>1, <1>2, RunsAreAttempts DEF Started
<1>4. life[s] = "never"
  BY <1>3 DEF EngineInv, StoreOK
<1>5. ~HeldBack(s) /\ <<s, "start">> \notin deferred /\ s \notin pending
  <2>1. s \notin pending /\ <<s, "start">> \notin deferred
    BY <1>3 DEF EngineInv, StoreOK, WaitsOK, Unlaunched
  <2>2. \A i \in DOMAIN held[j] : Unlaunched(held[j][i])
    BY DEF EngineInv, WaitsOK
  <2>3. ~HeldBack(s)
    BY <1>2, <1>3, <2>2 DEF HeldBack, Unlaunched
  <2> QED
    BY <2>1, <2>3
<1> QED
  BY <1>2, <1>3, <1>4, <1>5

\* The calls an input implies for a job: kills of its live attempt, and at most
\* one spawn, where its run number moves.
LEMMA PlannedCalls ==
  ASSUME EngineInv, NEW j \in Jobs, NEW c, NEW s, s = NextRun(j),
         StartsRun(c) => row[j].run < MaxRuns, NEW d, d = DispatchPlan(j, c)
  PROVE  /\ d \in Seq(CallSet)
         /\ \A i \in DOMAIN d : \/ d[i][1] = "kill" /\ JobOf(d[i][2]) = j
                                \/ StartsRun(c) /\ d[i] = <<"spawn", s>>
         /\ \A i, k \in DOMAIN d : d[i][1] = "spawn" /\ d[k][1] = "spawn" => i = k
<1>1. PICK y : y = <<"spawn", s>>
  OBVIOUS
<1>2. y[1] = "spawn" /\ (StartsRun(c) => y \in CallSet)
  BY <1>1, NextRunFresh DEF CallSet, Names
<1>3. PICK kill : kill = IF live[j] # None THEN <<<<"kill", live[j]>>>> ELSE <<>>
  OBVIOUS
<1>4. /\ kill \in Seq(CallSet) /\ Len(kill) \in {0, 1}
      /\ \A i \in DOMAIN kill : kill[i][1] = "kill" /\ JobOf(kill[i][2]) = j
  <2>1. CASE live[j] = None
    BY <1>3, <2>1
  <2>2. CASE live[j] # None
    <3>1. PICK x : x = <<"kill", live[j]>>
      OBVIOUS
    <3>2. x \in CallSet /\ x[1] = "kill" /\ JobOf(x[2]) = j
      BY <2>2, <3>1 DEF EngineInv, TypeOK, CallSet, Names
    <3>3. kill = <<x>>
      BY <1>3, <2>2, <3>1
    <3> QED
      BY <3>2, <3>3
  <2> QED
    BY <2>1, <2>2
<1>5. \/ d = <<y>> /\ StartsRun(c)
      \/ d = kill
      \/ d = kill \o <<y>> /\ StartsRun(c)
      \/ d = <<y>> \o kill /\ StartsRun(c)
      \/ d = <<>>
  BY <1>1, <1>3 DEF DispatchPlan, StartsRun, NextRun
<1>6. CASE d = <<y>> /\ StartsRun(c)
  BY <1>1, <1>2, <1>6
<1>7. CASE d = kill
  BY <1>4, <1>7
<1>8. CASE d = kill \o <<y>> /\ StartsRun(c)
  <2>1. PICK z : z = <<y>>
    OBVIOUS
  <2>2. z \in Seq(CallSet) /\ Len(z) = 1 /\ z[1] = y
    BY <1>2, <1>8, <2>1
  <2>3. /\ d \in Seq(CallSet) /\ Len(d) = Len(kill) + 1 /\ d[Len(kill) + 1] = y
        /\ \A i \in 1..Len(kill) : d[i] = kill[i] /\ i \in DOMAIN kill
        /\ DOMAIN d = 1..Len(kill) + 1 /\ Len(kill) \in Nat
    BY <1>4, <1>8, <2>1, <2>2
  <2>4. \A i \in DOMAIN d : i \in 1..Len(kill) \/ i = Len(kill) + 1
    BY <2>3
  <2> QED
    BY <1>1, <1>2, <1>4, <1>8, <2>3, <2>4
<1>9. CASE d = <<y>> \o kill /\ StartsRun(c)
  <2>1. PICK z : z = <<y>>
    OBVIOUS
  <2>2. z \in Seq(CallSet) /\ Len(z) = 1 /\ z[1] = y
    BY <1>2, <1>9, <2>1
  <2>3. /\ d \in Seq(CallSet) /\ d[1] = y
        /\ \A i \in DOMAIN d : i # 1 => i - 1 \in DOMAIN kill /\ d[i] = kill[i - 1]
    BY <1>4, <1>9, <2>1, <2>2
  <2>4. \A i \in DOMAIN d : i # 1 => d[i][1] = "kill" /\ JobOf(d[i][2]) = j
    BY <1>4, <2>3
  <2> QED
    BY <1>1, <1>2, <1>9, <2>3, <2>4
<1>10. CASE d = <<>>
  BY <1>10
<1> QED
  BY <1>5, <1>6, <1>7, <1>8, <1>9, <1>10

\* The plan an input of the queue ends is called after what the input implies.
LEMMA CallsAfter ==
  ASSUME NEW d \in Seq(CallSet), NEW r \in Seq(CallSet), Len(r) \in {0, 1}, NEW n, n = d \o r
  PROVE  /\ n \in Seq(CallSet)
         /\ \A i \in DOMAIN n : \/ i \in DOMAIN d /\ n[i] = d[i]
                                \/ i \notin DOMAIN d /\ 1 \in DOMAIN r /\ n[i] = r[1]
<1>1. /\ n \in Seq(CallSet) /\ Len(n) = Len(d) + Len(r) /\ Len(d) \in Nat /\ Len(r) \in Nat
      /\ DOMAIN n = 1..Len(n) /\ DOMAIN d = 1..Len(d) /\ DOMAIN r = 1..Len(r)
      /\ \A i \in 1..Len(d) : n[i] = d[i]
      /\ \A i \in Len(d) + 1..Len(n) : n[i] = r[i - Len(d)]
  OBVIOUS
<1>2. ASSUME NEW i \in DOMAIN n, i \notin DOMAIN d
      PROVE  1 \in DOMAIN r /\ n[i] = r[1]
  <2>1. i \in Len(d) + 1..Len(n)
    BY <1>1, <1>2
  <2>2. i - Len(d) = 1 /\ Len(r) = 1
    BY <1>1, <2>1
  <2> QED
    BY <1>1, <2>1, <2>2
<1> QED
  BY <1>1, <1>2

LEMMA ApplyInv ==
  ASSUME EngineInv, Ready, NEW c \in [Jobs -> Changes], \A j \in Jobs : Possible(j, c[j]),
         NEW after, Apply(c, after),
         \A j \in Jobs : \/ after[j] = <<>>
                         \/ \E x \in Attempts : /\ after[j] = <<<<"perform", x>>>>
                                                /\ JobOf(x) = j /\ x \notin catchUp,
         queue' \subseteq queue,
         plan' \in [Attempts -> {"none", "input", "rerun", "done"}],
         \A x \in Attempts :
           plan'[x] = plan[x] \/ (plan[x] = "input" /\ plan'[x] = "done" /\ x \notin queue'),
         UNCHANGED <<life, pending, recorded>>,
         UNCHANGED <<phase, tier, live, deferred, held, waiting, catchUp>>
  PROVE  EngineInv'
<1>1. /\ TypeOK /\ Idle /\ Up /\ \A x \in Attempts : ~LadderEndDue(x)
      /\ phase \in {"recovering", "running", "draining"}
  BY Idly DEF EngineInv, Ready, Up
<1>2. /\ row' = [j \in Jobs |-> Moved(row[j], c[j])]
      /\ decided' = decided \cup {NextRun(j) : j \in {k \in Jobs : c[k] \in {"start", "again"}}}
      /\ agenda' = [j \in Jobs |-> DispatchPlan(j, c[j]) \o after[j]]
  BY DEF Apply, ReplayedStarts, NextRun
<1>3. \A j \in Jobs : StartsRun(c[j]) => row[j].run < MaxRuns
  BY DEF Possible, StartsRun, Changes
<1>4. ASSUME NEW j \in Jobs
      PROVE  /\ row'[j] \in [run : 0..MaxRuns, live : BOOLEAN]
             /\ row'[j].run = IF StartsRun(c[j]) THEN row[j].run + 1 ELSE row[j].run
             /\ row[j].run \in 0..MaxRuns
  <2>1. row[j] \in [run : 0..MaxRuns, live : BOOLEAN]
    BY <1>1 DEF TypeOK
  <2>2. row'[j] = Moved(row[j], c[j])
    BY <1>2
  <2>3. Moved(row[j], c[j]).run = IF StartsRun(c[j]) THEN row[j].run + 1 ELSE row[j].run
    BY DEF Moved, StartsRun
  <2>4. Moved(row[j], c[j]).live \in BOOLEAN
    <3>1. row[j].live \in BOOLEAN
      BY <2>1
    <3>2. (c[j] \in {"start", "again", "overwrite"}) \in BOOLEAN
      OBVIOUS
    <3>3. Moved(row[j], c[j]).live \in {row[j].live, c[j] \in {"start", "again", "overwrite"}}
      BY Zenon DEF Moved
    <3> QED
      BY <3>1, <3>2, <3>3, Zenon
  <2> QED
    BY <1>3, <2>1, <2>2, <2>3, <2>4, EngineAssumption DEF Moved, StartsRun
<1>5. \A x \in Attempts : Started(x) => Started(x)'
  <2> SUFFICES ASSUME NEW x \in Attempts, Started(x)  PROVE Started(x)'
    OBVIOUS
  <2>1. JobOf(x) \in Jobs /\ x[2] \in 1..MaxRuns
    BY AttemptParts
  <2>2. x[2] <= row[JobOf(x)].run
    BY DEF Started
  <2>3. row[JobOf(x)].run <= row'[JobOf(x)].run /\ row'[JobOf(x)].run \in 0..MaxRuns
    BY <1>4, <2>1
  <2>4. x[2] <= row'[JobOf(x)].run
    BY <1>4, <2>1, <2>2, <2>3
  <2> QED
    BY <2>4 DEF Started, JobOf
<1>6. \A x : Unlaunched(x) => Unlaunched(x)'
  BY <1>5, RunsAreAttempts DEF Unlaunched
<1>7. StoreOK'
  <2>1. \A x \in Attempts :
               /\ life'[x] # "never" => Started(x)'
               /\ life'[x] \in {"never", "open"} =>
                    /\ plan'[x] = "none"
                    /\ x[3] < MaxAttempts => life'[Replacement(x)] = "never"
               /\ plan'[x] = "rerun" => x[3] < MaxAttempts /\ life'[Replacement(x)] = "never"
    BY <1>5 DEF EngineInv, StoreOK
  <2>2. \A x \in pending' : Unlaunched(x)'
    BY <1>6 DEF EngineInv, StoreOK
  <2>3. ASSUME NEW x \in decided', life'[x] # "never"
        PROVE  x \in recorded'
    <3>1. CASE x \in decided
      BY <2>3, <3>1 DEF EngineInv, StoreOK
    <3>2. CASE x \notin decided
      <4>1. PICK j \in Jobs : StartsRun(c[j]) /\ x = NextRun(j)
        BY <1>2, <3>2 DEF StartsRun
      <4> QED
        BY <1>3, <2>3, <4>1, NextRunFresh
    <3> QED
      BY <3>1, <3>2
  <2> QED
    BY <2>1, <2>2, <2>3 DEF StoreOK
<1>8. TierOK' /\ OneOpenPerJob'
  BY <1>1 DEF EngineInv, TierOK, OneOpenPerJob, Up
<1>9. RecoveryOK'
  BY <1>1 DEF EngineInv, RecoveryOK, Recovering
<1>10. WaitsOK'
  <2>1. \A k \in Jobs : \A i \in DOMAIN held[k] : Unlaunched(held[k][i])'
    <3> SUFFICES ASSUME NEW k \in Jobs, NEW i \in DOMAIN held[k], NEW h, h = held[k][i]
                 PROVE  Unlaunched(held[k][i])'
      OBVIOUS
    <3>1. Unlaunched(h)'
      BY <1>6 DEF EngineInv, WaitsOK
    <3> QED
      BY <3>1 DEF Unlaunched, Started, JobOf
  <2>2. \A x \in Attempts : <<x, "plan">> \in deferred =>
          plan'[x] = "rerun" /\ tier[x].cleaning # "ladder" /\ x \notin catchUp
    BY DEF EngineInv, WaitsOK
  <2>3. \A x \in queue' : plan'[x] = "input"
    BY <1>1 DEF EngineInv, WaitsOK, TypeOK
  <2>4. \A x \in Attempts : <<x, "start">> \in deferred => Unlaunched(x)'
    BY <1>6 DEF EngineInv, WaitsOK
  <2> QED
    BY <2>1, <2>2, <2>3, <2>4 DEF EngineInv, WaitsOK
<1>11. ASSUME NEW j \in Jobs, NEW n, n = agenda'[j]
       PROVE  /\ n \in Seq(CallSet)
              /\ \A i \in DOMAIN n : /\ JobOf(n[i][2]) = j /\ n[i][1] \notin HeadOnly
                                     /\ \A x : x = n[i] => CallOK(x)'
              /\ \A i, k \in DOMAIN n : n[i][1] \in Starts /\ n[k][1] \in Starts => i = k
  <2>1. PICK s : s = NextRun(j)
    OBVIOUS
  <2>2. PICK d : d = DispatchPlan(j, c[j])
    OBVIOUS
  <2>3. /\ d \in Seq(CallSet)
        /\ \A i \in DOMAIN d : \/ d[i][1] = "kill" /\ JobOf(d[i][2]) = j
                               \/ StartsRun(c[j]) /\ d[i] = <<"spawn", s>>
        /\ \A i, k \in DOMAIN d : d[i][1] = "spawn" /\ d[k][1] = "spawn" => i = k
    BY <1>3, <2>1, <2>2, PlannedCalls
  <2>4. PICK r : r = after[j]
    OBVIOUS
  <2>5. /\ r \in Seq(CallSet) /\ Len(r) \in {0, 1}
        /\ 1 \in DOMAIN r => r[1][1] = "perform" /\ JobOf(r[1][2]) = j /\ r[1][2] \notin catchUp
    <3>1. CASE r = <<>>
      BY <3>1
    <3>2. ASSUME NEW x \in Attempts, r = <<<<"perform", x>>>>, JobOf(x) = j, x \notin catchUp
          PROVE  /\ r \in Seq(CallSet) /\ Len(r) \in {0, 1}
                 /\ r[1][1] = "perform" /\ JobOf(r[1][2]) = j /\ r[1][2] \notin catchUp
      <4>1. PICK y : y = <<"perform", x>>
        OBVIOUS
      <4>2. y \in CallSet /\ y[1] = "perform" /\ y[2] = x /\ r = <<y>>
        BY <3>2, <4>1 DEF CallSet, Names
      <4> QED
        BY <3>2, <4>2
    <3> QED
      BY <2>4, <3>1, <3>2
  <2>6. n = d \o r
    BY <1>2, <1>11, <2>2, <2>4
  <2>7. /\ n \in Seq(CallSet)
        /\ \A i \in DOMAIN n : \/ i \in DOMAIN d /\ n[i] = d[i]
                               \/ i \notin DOMAIN d /\ 1 \in DOMAIN r /\ n[i] = r[1]
    BY <2>3, <2>5, <2>6, CallsAfter
  <2>8. ASSUME NEW i \in DOMAIN n, NEW x, x = n[i]
        PROVE  \/ x[1] = "kill" /\ JobOf(x[2]) = j
               \/ x[1] = "perform" /\ JobOf(x[2]) = j /\ x[2] \notin catchUp
               \/ StartsRun(c[j]) /\ x[1] = "spawn" /\ x[2] = s /\ i \in DOMAIN d /\ n[i] = d[i]
    BY <2>3, <2>5, <2>7, <2>8
  <2>9. StartsRun(c[j]) =>
          /\ JobOf(s) = j /\ s \in Runs /\ life[s] = "never" /\ Started(s)' /\ ~HeldBack(s)
          /\ <<s, "start">> \notin deferred /\ s \notin pending
    <3> SUFFICES ASSUME StartsRun(c[j])
                 PROVE  /\ JobOf(s) = j /\ s \in Runs /\ life[s] = "never" /\ Started(s)'
                        /\ ~HeldBack(s) /\ <<s, "start">> \notin deferred /\ s \notin pending
      OBVIOUS
    <3>1. /\ JobOf(s) = j /\ s \in Runs /\ life[s] = "never" /\ ~HeldBack(s)
          /\ <<s, "start">> \notin deferred /\ s \notin pending /\ s[2] = row[j].run + 1
      BY <1>3, <2>1, NextRunFresh
    <3>2. s[2] <= row'[j].run
      BY <1>4, <3>1
    <3>3. Started(s)'
      BY <3>1, <3>2 DEF Started, JobOf
    <3> QED
      BY <3>1, <3>3
  <2>10. ASSUME NEW i \in DOMAIN n, NEW x, x = n[i]
         PROVE  JobOf(x[2]) = j /\ x[1] \notin HeadOnly /\ CallOK(x)'
    <3>1. CASE x[1] = "kill" /\ JobOf(x[2]) = j
      BY <3>1 DEF CallOK, Starts, HeadOnly
    <3>2. CASE x[1] = "perform" /\ JobOf(x[2]) = j /\ x[2] \notin catchUp
      BY <3>2 DEF CallOK, Starts, HeadOnly
    <3>3. CASE StartsRun(c[j]) /\ x[1] = "spawn" /\ x[2] = s
      BY <2>9, <3>3 DEF CallOK, Starts, HeadOnly, Unlaunched, HeldBack, JobOf
    <3> QED
      BY <2>8, <2>10, <3>1, <3>2, <3>3
  <2>11. ASSUME NEW i \in DOMAIN n, NEW k \in DOMAIN n, n[i][1] \in Starts, n[k][1] \in Starts
         PROVE  i = k
    <3>1. /\ i \in DOMAIN d /\ n[i] = d[i] /\ d[i][1] = "spawn"
          /\ k \in DOMAIN d /\ n[k] = d[k] /\ d[k][1] = "spawn"
      BY <2>8, <2>11 DEF Starts
    <3> QED
      BY <2>3, <3>1
  <2> QED
    BY <2>7, <2>10, <2>11
<1>12. (agenda \in [Jobs -> Seq(Names \X Attempts)])' /\ AgendaOK'
  <2>1. agenda' \in [Jobs -> Seq(CallSet)]
    <3>1. \A j \in Jobs : agenda'[j] \in Seq(CallSet)
      BY <1>11
    <3> QED
      BY <1>2, <3>1
  <2>2. ASSUME NEW k \in Jobs, NEW i \in DOMAIN agenda'[k], NEW x, x = agenda'[k][i]
        PROVE  /\ JobOf(x[2]) = k
               /\ CallOK(x)'
               /\ i # 1 => x[1] \notin HeadOnly
               /\ \A m \in DOMAIN agenda'[k] :
                    x[1] \in Starts /\ agenda'[k][m][1] \in Starts
                      /\ x[2] = agenda'[k][m][2] => i = m
    <3>1. PICK n : n = agenda'[k]
      OBVIOUS
    <3>2. CallOK(x)' /\ JobOf(x[2]) = k /\ x[1] \notin HeadOnly
      BY <1>11, <2>2, <3>1
    <3>3. \A m \in DOMAIN n : n[i][1] \in Starts /\ n[m][1] \in Starts => i = m
      BY <1>11, <2>2, <3>1
    <3> QED
      BY <2>2, <3>1, <3>2, <3>3
  <2>3. AgendaOK'
    BY <2>2, AgendaByCalls
  <2> QED
    BY <2>1, <2>3 DEF CallSet
<1>13. TypeOK'
  <2>1. row' \in [Jobs -> [run : 0..MaxRuns, live : BOOLEAN]]
    BY <1>2, <1>4
  <2>2. decided' \in SUBSET Runs
    <3>1. ASSUME NEW j \in Jobs, c[j] \in {"start", "again"}  PROVE NextRun(j) \in Runs
      BY <1>3, <3>1, NextRunFresh DEF StartsRun
    <3> QED
      BY <1>1, <1>2, <3>1 DEF TypeOK
  <2>3. queue' \in SUBSET Attempts
    BY <1>1 DEF TypeOK
  <2> QED
    BY <1>1, <1>12, <2>1, <2>2, <2>3 DEF TypeOK
<1> QED
  BY <1>7, <1>8, <1>9, <1>10, <1>12, <1>13 DEF EngineInv

LEMMA InputInv == ASSUME EngineInv, Input  PROVE EngineInv'
<1>1. /\ Ready
      /\ UNCHANGED <<life, plan, pending, recorded>>
      /\ UNCHANGED <<phase, tier, live, queue, deferred, held, waiting, catchUp>>
  BY DEF Input, memory
<1>2. PICK c \in [Jobs -> Changes] : (\A j \in Jobs : Possible(j, c[j])) /\ Apply(c, NoCalls)
  BY DEF Input
<1>3. \A j \in Jobs : NoCalls[j] = <<>>
  BY DEF NoCalls
<1>4. plan' \in [Attempts -> {"none", "input", "rerun", "done"}]
  BY <1>1 DEF EngineInv, TypeOK
<1> QED
  BY <1>1, <1>2, <1>3, <1>4, ApplyInv

LEMMA PlanInputInv == ASSUME EngineInv, NEW a \in Attempts, PlanInput(a)  PROVE EngineInv'
<1>1. /\ Ready /\ a \in queue /\ queue' = queue \ {a} /\ plan' = [plan EXCEPT ![a] = "done"]
      /\ UNCHANGED <<life, pending, recorded>>
      /\ UNCHANGED <<phase, tier, live, deferred, held, waiting, catchUp>>
  BY DEF PlanInput
<1>2. PICK c \in [Jobs -> Changes] :
        /\ \A j \in Jobs : Possible(j, c[j])
        /\ Apply(c, [NoCalls EXCEPT ![JobOf(a)] = <<<<"perform", a>>>>])
  BY DEF PlanInput
<1>3. PICK after : after = [NoCalls EXCEPT ![JobOf(a)] = <<<<"perform", a>>>>]
  OBVIOUS
<1>4. a \notin catchUp /\ plan[a] = "input"
  BY <1>1 DEF EngineInv, RecoveryOK, WaitsOK
<1>5. \A j \in Jobs : \/ after[j] = <<>>
                      \/ \E x \in Attempts : /\ after[j] = <<<<"perform", x>>>>
                                             /\ JobOf(x) = j /\ x \notin catchUp
  BY <1>3, <1>4 DEF NoCalls
<1>6. /\ plan' \in [Attempts -> {"none", "input", "rerun", "done"}]
      /\ \A x \in Attempts :
           plan'[x] = plan[x] \/ (plan[x] = "input" /\ plan'[x] = "done" /\ x \notin queue')
  BY <1>1, <1>4 DEF EngineInv, TypeOK
<1>7. queue' \subseteq queue
  BY <1>1
<1> QED
  <2>1. Apply(c, after)
    BY <1>2, <1>3
  <2> QED
    BY <1>1, <1>2, <1>5, <1>6, <1>7, <2>1, ApplyInv

-----------------------------------------------------------------------------
(* Snapshots, drains, crashes and restarts.                                 *)

\* A step between two handlers that leaves the attempts and what waits as they
\* are, in a phase the recovery allows.
LEMMA PhaseStep ==
  ASSUME EngineInv, Idle, Up, phase' # "down",
         UNCHANGED <<row, life, plan, pending, agenda>>,
         UNCHANGED <<tier, live, queue, held, waiting, catchUp>>,
         decided' \in {decided, {}}, recorded' \in {recorded, {}},
         decided' = {} \/ recorded' = recorded,
         deferred' \in {deferred, deferred \cup (pending \X {"start"})},
         phase' \in {"running", "draining", "recovering", "owing", "barrier"},
         phase' \in {"recovering", "owing"} =>
           \A j \in Jobs : held[j] = <<>> /\ live[j] = None,
         catchUp # {} => phase' = "recovering",
         ~Recovering' => deferred' = {},
         deferred' # deferred => phase = "owing"
  PROVE  EngineInv'
<1>1. /\ TypeOK /\ AgendaOK' /\ Idle'
      /\ (agenda \in [Jobs -> Seq(Names \X Attempts)])'
  BY StillIdle DEF EngineInv
<1>2. \A x : Unlaunched(x)' <=> Unlaunched(x)
  BY DEF Unlaunched, Started
<1>3. StoreOK'
  BY <1>2 DEF EngineInv, StoreOK, Started
<1>4. TierOK' /\ OneOpenPerJob'
  BY DEF EngineInv, TierOK, OneOpenPerJob, LadderEndDue, Up
<1>5. RecoveryOK'
  BY DEF EngineInv, RecoveryOK
<1>6. WaitsOK'
  <2>1. \A k \in Jobs : \A i \in DOMAIN held[k] : Unlaunched(held[k][i])'
    BY DEF EngineInv, WaitsOK, Unlaunched, Started, JobOf
  <2>2. \A x \in Attempts : <<x, "start">> \in deferred' => Unlaunched(x)
    <3> SUFFICES ASSUME NEW x \in Attempts, <<x, "start">> \in deferred'  PROVE Unlaunched(x)
      OBVIOUS
    <3>1. <<x, "start">> \in deferred \/ x \in pending
      OBVIOUS
    <3> QED
      BY <3>1 DEF EngineInv, WaitsOK, StoreOK
  <2>3. \A x \in Attempts : <<x, "plan">> \in deferred' => <<x, "plan">> \in deferred
    OBVIOUS
  <2>4. \A k \in Jobs : \A i \in DOMAIN held[k] : <<held[k][i], "start">> \notin deferred'
    <3>1. CASE deferred' = deferred
      BY <3>1 DEF EngineInv, WaitsOK
    <3>2. CASE deferred' # deferred
      BY <3>2 DEF EngineInv, RecoveryOK
    <3> QED
      BY <3>1, <3>2
  <2> QED
    BY <1>2, <2>1, <2>2, <2>3, <2>4 DEF EngineInv, WaitsOK
<1>7. TypeOK'
  <2>1. deferred' \in SUBSET (Attempts \X {"start", "plan"})
    BY <1>1, RunsAreAttempts DEF TypeOK
  <2>2. decided' \in SUBSET Runs /\ recorded' \in SUBSET Runs
    BY <1>1 DEF TypeOK
  <2> QED
    BY <1>1, <2>1, <2>2 DEF TypeOK
<1> QED
  BY <1>1, <1>3, <1>4, <1>5, <1>6, <1>7 DEF EngineInv

LEMMA PhasesInv ==
  ASSUME EngineInv, Snapshot \/ OwedStep \/ OwedDone \/ LiftBarrier \/ ReplayDone
  PROVE  EngineInv'
<1>1. CASE Snapshot
  <2>1. /\ Idle /\ Up /\ phase = "running" /\ ~Recovering /\ decided' = {} /\ recorded' = {}
        /\ UNCHANGED <<row, life, plan, pending, agenda>>
        /\ UNCHANGED <<phase, tier, live, queue, deferred, held, waiting, catchUp>>
    BY <1>1 DEF Snapshot, AppliedBoundary, memory, Up
  <2>2. catchUp = {} /\ deferred = {}
    BY <2>1, PastTheRecovery
  <2> QED
    BY <2>1, <2>2, PhaseStep DEF Recovering
<1>2. CASE OwedStep
  <2>1. /\ Idle /\ Up /\ phase = "recovering" /\ phase' = "owing" /\ catchUp = {}
        /\ UNCHANGED <<row, life, plan, pending, decided, recorded, agenda>>
        /\ UNCHANGED <<tier, live, queue, deferred, held, waiting, catchUp>>
    BY <1>2 DEF OwedStep, Ready, store, Up
  <2>2. \A j \in Jobs : held[j] = <<>> /\ live[j] = None
    BY <2>1 DEF EngineInv, RecoveryOK
  <2> QED
    BY <2>1, <2>2, PhaseStep DEF Recovering
<1>3. CASE OwedDone
  <2>1. /\ Idle /\ Up /\ phase = "owing" /\ phase' = "recovering"
        /\ deferred' = deferred \cup (pending \X {"start"})
        /\ UNCHANGED <<row, life, plan, pending, decided, recorded, agenda>>
        /\ UNCHANGED <<tier, live, queue, held, waiting, catchUp>>
    BY <1>3 DEF OwedDone, store, Up
  <2>2. \A j \in Jobs : held[j] = <<>> /\ live[j] = None
    BY <2>1 DEF EngineInv, RecoveryOK
  <2> QED
    BY <2>1, <2>2, PhaseStep DEF Recovering
<1>4. CASE LiftBarrier
  <2>1. /\ Idle /\ Up /\ phase = "recovering" /\ phase' = "barrier" /\ catchUp = {}
        /\ UNCHANGED <<row, life, plan, pending, decided, recorded, agenda>>
        /\ UNCHANGED <<tier, live, queue, deferred, held, waiting, catchUp>>
    BY <1>4 DEF LiftBarrier, Ready, store, Up
  <2> QED
    BY <2>1, PhaseStep DEF Recovering
<1>5. CASE ReplayDone
  <2>1. /\ Idle /\ Up /\ phase = "barrier" /\ phase' = "running" /\ deferred = {}
        /\ UNCHANGED <<row, life, plan, pending, decided, recorded, agenda>>
        /\ UNCHANGED <<tier, live, queue, deferred, held, waiting, catchUp>>
    BY <1>5 DEF ReplayDone, store, Up
  <2>2. catchUp = {}
    BY <2>1, PastTheRecovery
  <2> QED
    BY <2>1, <2>2, PhaseStep DEF Recovering
<1> QED
  BY <1>1, <1>2, <1>3, <1>4, <1>5

LEMMA BeginDrainInv == ASSUME EngineInv, BeginDrain  PROVE EngineInv'
<1>1. /\ Idle /\ Up /\ phase = "running" /\ phase' = "draining"
      /\ UNCHANGED <<row, life, plan, pending, decided, recorded, agenda>>
      /\ UNCHANGED <<live, queue, deferred, held, waiting, catchUp>>
  BY DEF BeginDrain, Ready, Up
<1>2. PICK known \in SUBSET {a \in Attempts : tier[a].state = "live"} :
        tier' = [a \in Attempts |-> Stop(tier[a], IF a \in known THEN "ladder" ELSE "no", FALSE)]
  BY <1>1 DEF BeginDrain
<1>3. /\ TypeOK /\ catchUp = {} /\ deferred = {} /\ AgendaOK'
      /\ (agenda \in [Jobs -> Seq(Names \X Attempts)])'
  BY <1>1, PastTheRecovery, StillIdle DEF EngineInv
<1>4. StopOnly(tier')
  <2>1. ASSUME NEW a \in Attempts, NEW cleaning \in {"no", "ladder"}
        PROVE  /\ Stop(tier[a], cleaning, FALSE) \in TierRecord
               /\ \/ Stop(tier[a], cleaning, FALSE) = tier[a]
                  \/ tier[a].state = "live" /\ Stop(tier[a], cleaning, FALSE).state = "stopping"
    <3>1. tier[a] \in TierRecord
      BY <1>3 DEF TypeOK
    <3> QED
      BY <3>1 DEF Stop, TierRecord
  <2>2. \A a \in Attempts : (IF a \in known THEN "ladder" ELSE "no") \in {"no", "ladder"}
    OBVIOUS
  <2> QED
    BY <1>2, <2>1, <2>2 DEF StopOnly
<1>5. PICK t : StopOnly(t) /\ tier' = t
  BY <1>4
<1>6. TierOK' /\ OneOpenPerJob' /\ tier' \in [Attempts -> TierRecord]
  BY <1>1, <1>5, OnlyStopped DEF LadderEndDue
<1>7. \A x : Unlaunched(x)' <=> Unlaunched(x)
  BY <1>1 DEF Unlaunched, Started
<1>8. StoreOK'
  BY <1>1, <1>7 DEF EngineInv, StoreOK, Started
<1>9. RecoveryOK'
  BY <1>1, <1>3 DEF EngineInv, RecoveryOK, Recovering
<1>10. WaitsOK'
  <2>1. \A k \in Jobs : \A i \in DOMAIN held[k] : Unlaunched(held[k][i])'
    BY <1>1 DEF EngineInv, WaitsOK, Unlaunched, Started, JobOf
  <2> QED
    BY <1>1, <1>3, <1>7, <2>1 DEF EngineInv, WaitsOK
<1>11. TypeOK'
  BY <1>1, <1>3, <1>6 DEF TypeOK
<1> QED
  BY <1>3, <1>6, <1>8, <1>9, <1>10, <1>11 DEF EngineInv

LEMMA NothingKnown == Unknown \in TierRecord
  BY DEF Unknown, TierRecord

\* The engine is gone, with what its last snapshot let go or without.
LEMMA DownInv ==
  ASSUME EngineInv, Down, UNCHANGED <<row, life, plan, pending>>,
         decided' \in {decided, {}}, recorded' \in {recorded, {}},
         decided' = {} \/ recorded' = recorded
  PROVE  EngineInv'
<1>1. /\ phase' = "down" /\ tier' = [a \in Attempts |-> Unknown]
      /\ live' = [j \in Jobs |-> None]
      /\ queue' = {} /\ deferred' = {} /\ waiting' = {} /\ catchUp' = {}
      /\ held' = [j \in Jobs |-> <<>>] /\ agenda' = [j \in Jobs |-> <<>>]
  BY DEF Down
<1>2. \A j \in Jobs : /\ held'[j] = <<>> /\ live'[j] = None /\ agenda'[j] = <<>>
                      /\ DOMAIN held'[j] = {} /\ DOMAIN agenda'[j] = {}
  BY <1>1
<1>3. \A x : Unlaunched(x)' <=> Unlaunched(x)
  BY DEF Unlaunched, Started
<1>4. StoreOK' /\ OneOpenPerJob'
  BY <1>3 DEF EngineInv, StoreOK, OneOpenPerJob, Started
<1>5. TierOK'
  BY <1>1 DEF TierOK, Up
<1>6. RecoveryOK'
  BY <1>1, <1>2 DEF RecoveryOK, Recovering, Idle
<1>7. WaitsOK' /\ AgendaOK'
  BY <1>1, <1>2 DEF WaitsOK, AgendaOK
<1>8. TypeOK'
  <2>1. decided' \in SUBSET Runs /\ recorded' \in SUBSET Runs
    BY DEF EngineInv, TypeOK
  <2>2. <<>> \in Seq(Runs) /\ <<>> \in Seq(Names \X Attempts)
    OBVIOUS
  <2>3. /\ held' \in [Jobs -> Seq(Runs)] /\ agenda' \in [Jobs -> Seq(Names \X Attempts)]
        /\ tier' \in [Attempts -> TierRecord] /\ live' \in [Jobs -> Attempts \cup {None}]
    BY <1>1, <2>2, NothingKnown
  <2> QED
    BY <1>1, <1>2, <2>1, <2>3 DEF EngineInv, TypeOK
<1> QED
  BY <1>4, <1>5, <1>6, <1>7, <1>8 DEF EngineInv

LEMMA RestartInv == ASSUME EngineInv, Restart  PROVE EngineInv'
<1>1. /\ phase = "down" /\ phase' = "recovering"
      /\ catchUp' = {a \in Attempts : life[a] \in {"open", "closing"}}
      /\ tier' = [a \in Attempts |->
           CASE life[a] = "open" -> [Unknown EXCEPT !.state = "live", !.exited = TRUE]
             [] life[a] = "closing" ->
                  [Unknown EXCEPT !.state = "ended", !.exited = TRUE,
                                  !.planDone = plan[a] \notin {"input", "rerun"}]
             [] OTHER -> Unknown]
      /\ UNCHANGED <<row, life, plan, pending, decided, recorded>>
      /\ UNCHANGED <<agenda, live, queue, deferred, held, waiting>>
  BY DEF Restart, store
<1>2. /\ TypeOK /\ Idle /\ deferred = {} /\ queue = {} /\ waiting = {}
      /\ \A j \in Jobs : held[j] = <<>> /\ live[j] = None
  BY <1>1 DEF EngineInv, RecoveryOK, Recovering
<1>3. AgendaOK' /\ (agenda \in [Jobs -> Seq(Names \X Attempts)])'
  BY <1>1, <1>2, StillIdle
<1>4. ASSUME NEW a \in Attempts
      PROVE  /\ tier'[a] \in TierRecord
             /\ life[a] = "open" => tier'[a].state = "live"
             /\ life[a] = "closing" => tier'[a].state = "ended"
             /\ life[a] \notin {"open", "closing"} => tier'[a].state = "unknown"
             /\ life[a] \in {"open", "closing"} => tier'[a].exited /\ tier'[a].cleaning = "no"
  <2>1. PICK done \in BOOLEAN : done = (plan[a] \notin {"input", "rerun"})
    OBVIOUS
  <2>2. CASE life[a] = "open"
    <3>1. tier'[a] = [Unknown EXCEPT !.state = "live", !.exited = TRUE]
      BY <1>1, <2>2
    <3> QED
      BY <2>2, <3>1 DEF Unknown, TierRecord
  <2>3. CASE life[a] = "closing"
    <3>1. tier'[a] = [Unknown EXCEPT !.state = "ended", !.exited = TRUE, !.planDone = done]
      BY <1>1, <2>1, <2>3
    <3> QED
      BY <2>3, <3>1 DEF Unknown, TierRecord
  <2>4. CASE life[a] \notin {"open", "closing"}
    <3>1. tier'[a] = Unknown
      BY <1>1, <2>4
    <3> QED
      BY <2>4, <3>1 DEF Unknown, TierRecord
  <2> QED
    BY <2>2, <2>3, <2>4
<1>5. StoreOK' /\ OneOpenPerJob' /\ \A x : Unlaunched(x)' <=> Unlaunched(x)
  BY <1>1, StoreKept
<1>6. TierOK'
  BY <1>1, <1>4 DEF TierOK
<1>7. RecoveryOK'
  BY <1>1, <1>2, <1>4 DEF RecoveryOK, Recovering
<1>8. WaitsOK'
  <2>1. \A k \in Jobs : DOMAIN held'[k] = {}
    <3>1. DOMAIN <<>> = {}
      OBVIOUS
    <3> QED
      BY <1>1, <1>2, <3>1
  <2> QED
    BY <1>1, <1>2, <2>1 DEF WaitsOK
<1>9. TypeOK'
  <2>1. tier' \in [Attempts -> TierRecord]
    BY <1>1, <1>4
  <2> QED
    BY <1>1, <1>2, <1>3, <2>1 DEF TypeOK
<1> QED
  BY <1>3, <1>5, <1>6, <1>7, <1>8, <1>9 DEF EngineInv

LEMMA OwedPlanInv == ASSUME EngineInv, NEW a \in Attempts, OwedPlan(a)  PROVE EngineInv'
<1>1. /\ phase = "owing" /\ Idle /\ Up
      /\ agenda' = [agenda EXCEPT ![JobOf(a)] = <<<<"perform", a>>>>]
      /\ UNCHANGED <<row, life, plan, pending, decided, recorded>>
      /\ UNCHANGED <<phase, tier, live, queue, deferred, held, waiting, catchUp>>
  BY DEF OwedPlan, store, memory, Up
<1>2. TypeOK /\ catchUp = {} /\ \A x \in Attempts : ~LadderEndDue(x)
  BY <1>1, Idly DEF EngineInv, RecoveryOK
<1>3. PICK d : d = <<"perform", a>>
  OBVIOUS
<1>4. d \in CallSet /\ d[1] = "perform" /\ d[2] = a
  BY <1>3 DEF CallSet, Names
<1>5. CallOK(d)'
  BY <1>1, <1>2, <1>4 DEF CallOK, Starts
<1>6. agenda' = [agenda EXCEPT ![JobOf(d[2])] = <<d>>]
  BY <1>1, <1>3, <1>4
<1>7. (agenda \in [Jobs -> Seq(Names \X Attempts)])' /\ AgendaOK'
  BY <1>1, <1>2, <1>4, <1>5, <1>6, HandlerCall
<1>8. StoreOK' /\ OneOpenPerJob' /\ \A x : Unlaunched(x)' <=> Unlaunched(x)
  BY <1>1, StoreKept
<1>9. TierOK'
  BY <1>1, <1>2 DEF EngineInv, TierOK, Up
<1>10. RecoveryOK'
  BY <1>1 DEF EngineInv, RecoveryOK, Recovering
<1>11. WaitsOK'
  <2>1. \A k \in Jobs : \A i \in DOMAIN held[k] : Unlaunched(held[k][i])'
    BY <1>1 DEF EngineInv, WaitsOK, Unlaunched, Started, JobOf
  <2> QED
    BY <1>1, <1>8, <2>1 DEF EngineInv, WaitsOK
<1>12. TypeOK'
  BY <1>1, <1>2, <1>7 DEF TypeOK
<1> QED
  BY <1>7, <1>8, <1>9, <1>10, <1>11, <1>12 DEF EngineInv

LEMMA OwedStartInv == ASSUME EngineInv, NEW a \in Runs, OwedStart(a)  PROVE EngineInv'
<1>1. /\ phase = "owing" /\ Idle /\ a \in Uncovered /\ pending' = pending \cup {a}
      /\ UNCHANGED <<row, life, plan, decided, recorded, agenda>>
      /\ UNCHANGED <<phase, tier, live, queue, deferred, held, waiting, catchUp>>
  BY DEF OwedStart, memory
<1>2. /\ TypeOK /\ AgendaOK' /\ (agenda \in [Jobs -> Seq(Names \X Attempts)])'
  BY <1>1, StillIdle DEF EngineInv
<1>3. Unlaunched(a)
  <2>1. a \in decided /\ a \notin recorded /\ Wanted(a)
    BY <1>1 DEF Uncovered, Covered
  <2>2. a \in Attempts /\ JobOf(a) \in Jobs /\ a[2] \in 1..MaxRuns
    BY RunsAreAttempts, AttemptParts
  <2>3. life[a] = "never"
    BY <2>1 DEF EngineInv, StoreOK
  <2>4. Started(a)
    BY <1>2, <2>1, <2>2 DEF Wanted, Started, TypeOK
  <2> QED
    BY <2>3, <2>4 DEF Unlaunched
<1>4. \A x : Unlaunched(x)' <=> Unlaunched(x)
  BY <1>1 DEF Unlaunched, Started
<1>5. StoreOK'
  BY <1>1, <1>3, <1>4 DEF EngineInv, StoreOK, Started
<1>6. TierOK' /\ OneOpenPerJob'
  BY <1>1 DEF EngineInv, TierOK, OneOpenPerJob, LadderEndDue, Up
<1>7. RecoveryOK'
  BY <1>1 DEF EngineInv, RecoveryOK, Recovering
<1>8. WaitsOK'
  <2>1. \A k \in Jobs : \A i \in DOMAIN held[k] : Unlaunched(held[k][i])'
    BY <1>1 DEF EngineInv, WaitsOK, Unlaunched, Started, JobOf
  <2> QED
    BY <1>1, <1>4, <2>1 DEF EngineInv, WaitsOK
<1>9. TypeOK'
  BY <1>1, <1>2 DEF TypeOK
<1> QED
  BY <1>2, <1>5, <1>6, <1>7, <1>8, <1>9 DEF EngineInv

LEMMA DischargeInv == ASSUME EngineInv, NEW e \in deferred, Discharge(e)  PROVE EngineInv'
<1>1. /\ phase = "barrier" /\ Idle /\ Up /\ deferred' = deferred \ {e}
      /\ agenda' = [agenda EXCEPT ![JobOf(e[1])] =
           <<<<IF e[2] = "start" THEN "discharge_start" ELSE "discharge_plan", e[1]>>>>]
      /\ UNCHANGED <<row, life, plan, pending, decided, recorded>>
      /\ UNCHANGED <<phase, tier, live, queue, held, waiting, catchUp>>
  BY DEF Discharge, store, Up
<1>2. TypeOK /\ catchUp = {} /\ \A x \in Attempts : ~LadderEndDue(x)
  BY <1>1, Idly, PastTheRecovery DEF EngineInv
<1>3. /\ e[1] \in Attempts /\ e[2] \in {"start", "plan"} /\ e = <<e[1], e[2]>>
  BY <1>2 DEF TypeOK
<1>4. PICK d : d = <<IF e[2] = "start" THEN "discharge_start" ELSE "discharge_plan", e[1]>>
  OBVIOUS
<1>5. /\ d \in CallSet /\ d[2] = e[1]
      /\ d[1] = IF e[2] = "start" THEN "discharge_start" ELSE "discharge_plan"
  BY <1>3, <1>4 DEF CallSet, Names
<1>6. StoreOK' /\ OneOpenPerJob' /\ \A x : Unlaunched(x)' <=> Unlaunched(x)
  BY <1>1, StoreKept
<1>7. CallOK(d)'
  <2>1. CASE e[2] = "start"
    <3>1. <<d[2], "start">> \in deferred
      BY <1>3, <1>5, <2>1
    <3>2. Unlaunched(d[2])
      BY <1>3, <1>5, <3>1 DEF EngineInv, WaitsOK
    <3>3. ~HeldBack(d[2])
      <4>1. JobOf(d[2]) \in Jobs
        BY <1>3, <1>5, AttemptParts
      <4>2. \A i \in DOMAIN held[JobOf(d[2])] :
              <<held[JobOf(d[2])][i], "start">> \notin deferred
        BY <4>1 DEF EngineInv, WaitsOK
      <4> QED
        BY <3>1, <4>2 DEF HeldBack
    <3>4. <<d[2], "start">> \notin deferred'
      BY <1>1, <1>3, <1>5, <2>1
    <3>5. HeldBack(d[2])' <=> HeldBack(d[2])
      BY <1>1 DEF HeldBack, JobOf
    <3>6. d[1] = "discharge_start"
      BY <1>5, <2>1
    <3> QED
      BY <1>1, <1>6, <3>2, <3>3, <3>4, <3>5, <3>6 DEF CallOK
  <2>2. CASE e[2] = "plan"
    <3>1. <<d[2], "plan">> \in deferred /\ <<d[2], "plan">> \notin deferred'
      BY <1>1, <1>3, <1>5, <2>2
    <3>2. plan[d[2]] = "rerun" /\ tier[d[2]].cleaning # "ladder"
      BY <1>3, <1>5, <3>1 DEF EngineInv, WaitsOK
    <3>3. d[1] = "discharge_plan"
      BY <1>5, <2>2
    <3> QED
      BY <1>1, <3>1, <3>2, <3>3 DEF CallOK, Starts
  <2> QED
    BY <1>3, <2>1, <2>2
<1>8. agenda' = [agenda EXCEPT ![JobOf(d[2])] = <<d>>]
  BY <1>1, <1>4, <1>5
<1>9. (agenda \in [Jobs -> Seq(Names \X Attempts)])' /\ AgendaOK'
  BY <1>1, <1>2, <1>5, <1>7, <1>8, HandlerCall
<1>10. TierOK'
  BY <1>1, <1>2 DEF EngineInv, TierOK, Up
<1>11. RecoveryOK'
  BY <1>1, <1>2 DEF EngineInv, RecoveryOK, Recovering
<1>12. WaitsOK'
  <2>1. \A k \in Jobs : \A i \in DOMAIN held[k] : Unlaunched(held[k][i])'
    BY <1>1 DEF EngineInv, WaitsOK, Unlaunched, Started, JobOf
  <2> QED
    BY <1>1, <1>6, <2>1 DEF EngineInv, WaitsOK
<1>13. TypeOK'
  BY <1>1, <1>2, <1>9 DEF TypeOK
<1> QED
  BY <1>6, <1>9, <1>10, <1>11, <1>12, <1>13 DEF EngineInv

LEMMA StutterInv == ASSUME EngineInv, UNCHANGED vars  PROVE EngineInv'
<1>1. /\ UNCHANGED <<row, life, plan, pending, decided, recorded>>
      /\ UNCHANGED <<phase, tier, live, queue, deferred, held, waiting, catchUp, agenda>>
  BY DEF vars, store, memory
<1>2. StoreOK' /\ OneOpenPerJob' /\ \A x : Unlaunched(x)' <=> Unlaunched(x)
  BY <1>1, StoreKept
<1>3. TypeOK' /\ TierOK' /\ RecoveryOK'
  BY <1>1 DEF EngineInv, TypeOK, TierOK, RecoveryOK, LadderEndDue, Recovering, Up, Idle
<1>4. WaitsOK'
  <2>1. \A k \in Jobs : \A i \in DOMAIN held[k] : Unlaunched(held[k][i])'
    BY <1>1 DEF EngineInv, WaitsOK, Unlaunched, Started, JobOf
  <2> QED
    BY <1>1, <1>2, <2>1 DEF EngineInv, WaitsOK
<1>5. AgendaOK'
  <2> SUFFICES ASSUME NEW k \in Jobs, NEW i \in DOMAIN agenda'[k], NEW c, c = agenda'[k][i]
               PROVE  /\ JobOf(c[2]) = k
                      /\ CallOK(c)'
                      /\ i # 1 => c[1] \notin HeadOnly
                      /\ \A m \in DOMAIN agenda'[k] :
                           c[1] \in Starts /\ agenda'[k][m][1] \in Starts
                             /\ c[2] = agenda'[k][m][2] => i = m
    BY AgendaByCalls
  <2>1. i \in DOMAIN agenda[k] /\ c = agenda[k][i] /\ agenda'[k] = agenda[k]
    BY <1>1
  <2>2. CallOK(c) /\ JobOf(c[2]) = k
    BY <2>1 DEF EngineInv, AgendaOK
  <2>3. CallOK(c)'
    BY <1>1, <1>2, <2>2 DEF CallOK, HeldBack
  <2> QED
    BY <2>1, <2>2, <2>3 DEF EngineInv, AgendaOK
<1> QED
  BY <1>2, <1>3, <1>4, <1>5 DEF EngineInv

LEMMA InitInv == Init => EngineInv
<1> SUFFICES ASSUME Init  PROVE EngineInv
  OBVIOUS
<1>1. /\ row = [j \in Jobs |-> [run |-> 0, live |-> FALSE]]
      /\ life = [a \in Attempts |-> "never"] /\ plan = [a \in Attempts |-> "none"]
      /\ pending = {} /\ decided = {} /\ recorded = {} /\ phase = "running"
      /\ tier = [a \in Attempts |-> Unknown] /\ live = [j \in Jobs |-> None]
      /\ queue = {} /\ deferred = {} /\ waiting = {} /\ catchUp = {}
      /\ held = [j \in Jobs |-> <<>>] /\ agenda = [j \in Jobs |-> <<>>]
  BY DEF Init
<1>2. /\ <<>> \in Seq(Runs) /\ <<>> \in Seq(Names \X Attempts) /\ DOMAIN <<>> = {}
      /\ Unknown.state = "unknown"
  BY DEF Unknown
<1>3. \A j \in Jobs : DOMAIN held[j] = {} /\ DOMAIN agenda[j] = {} /\ live[j] = None
  BY <1>1, <1>2
<1>4. \A a \in Attempts : a[3] < MaxAttempts => Replacement(a) \in Attempts
  BY Replacements
<1>5. TypeOK
  <2>1. held \in [Jobs -> Seq(Runs)] /\ agenda \in [Jobs -> Seq(Names \X Attempts)]
    BY <1>1, <1>2
  <2>2. row \in [Jobs -> [run : 0..MaxRuns, live : BOOLEAN]]
    BY <1>1, EngineAssumption
  <2>3. tier \in [Attempts -> TierRecord]
    BY <1>1, NothingKnown
  <2> QED
    BY <1>1, <1>3, <2>1, <2>2, <2>3 DEF TypeOK
<1>6. StoreOK
  BY <1>1, <1>4 DEF StoreOK
<1>7. TierOK
  BY <1>1, <1>2 DEF TierOK
<1>8. RecoveryOK
  BY <1>1 DEF RecoveryOK, Recovering
<1>9. WaitsOK /\ AgendaOK /\ OneOpenPerJob
  BY <1>1, <1>3 DEF WaitsOK, AgendaOK, OneOpenPerJob
<1> QED
  BY <1>5, <1>6, <1>7, <1>8, <1>9 DEF EngineInv

-----------------------------------------------------------------------------
(* The invariant.                                                           *)

LEMMA CallInv == ASSUME EngineInv, NEW j \in Jobs, Call(j)  PROVE EngineInv'
  BY KillInv, SpawnInv, DischargeStartInv, DischargePlanInv, PerformInv, LadderEndedInv,
     ReleaseInv DEF Call

LEMMA HandlerInv == ASSUME EngineInv, NEW a \in Attempts, Handler(a)  PROVE EngineInv'
  BY PlanInputInv, EndedInv, CleaningInv, LadderEndsInv, GroupGoneInv, TaskDoneInv,
     CatchUpInv, OwedPlanInv DEF Handler

LEMMA LeaveInv == ASSUME EngineInv, Leave \/ Crash  PROVE EngineInv'
<1>1. CASE Leave
  BY <1>1, DownInv DEF Leave
<1>2. CASE Crash
  BY <1>2, DownInv DEF Crash, store
<1> QED
  BY <1>1, <1>2

LEMMA NextInv == EngineInv /\ [Next]_vars => EngineInv'
<1> SUFFICES ASSUME EngineInv, [Next]_vars  PROVE EngineInv'
  OBVIOUS
<1>1. CASE UNCHANGED vars
  BY <1>1, StutterInv
<1>2. CASE Next
  BY <1>2, CallInv, HandlerInv, OwedStartInv, DischargeInv, InputInv, PhasesInv,
     BeginDrainInv, LeaveInv, RestartInv DEF Next
<1> QED
  BY <1>1, <1>2

\* The state of the engine and of its store is as the strengthening says, however
\* handlers, drains, crashes and restarts come between each other.
THEOREM EngineInvariant == Spec => []EngineInv
<1>1. Init => EngineInv
  BY InitInv
<1>2. EngineInv /\ [Next]_vars => EngineInv'
  BY NextInv
<1> QED
  BY <1>1, <1>2, PTL DEF Spec

\* One attempt of a job at a time: no start and no replacement is dispatched while
\* another attempt of its job is open or closing in the store (blocked, _must_wait,
\* _release, perform_plan).
THEOREM OneOpenPerJobHolds == Spec => []OneOpenPerJob
<1>1. EngineInv => OneOpenPerJob
  BY DEF EngineInv
<1> QED
  BY <1>1, EngineInvariant, PTL

-----------------------------------------------------------------------------
(* Nothing is dispatched twice, nor by a draining engine.                   *)

Once ==
  \A a \in Attempts :
    /\ live'[JobOf(a)] = a /\ live[JobOf(a)] # a => life[a] = "never"
    /\ phase = "draining" /\ life[a] = "never" => life'[a] = "never"

LEMMA NotDispatched ==
  ASSUME \A j \in Jobs : live'[j] \in {live[j], None},
         \A a \in Attempts : life[a] = "never" => life'[a] = "never"
  PROVE  Once
<1>1. \A a \in Attempts : JobOf(a) \in Jobs /\ a # None
  BY AttemptParts
<1> QED
  BY <1>1 DEF Once

LEMMA Dispatched ==
  ASSUME TypeOK, NEW b \in Attempts, NEW t, Launch(b, t), life[b] = "never", phase # "draining"
  PROVE  Once
<1> SUFFICES ASSUME NEW a \in Attempts, live'[JobOf(a)] = a, live[JobOf(a)] # a
             PROVE  life[a] = "never"
  BY DEF Once
<1>1. live' = [live EXCEPT ![JobOf(b)] = b] /\ live \in [Jobs -> Attempts \cup {None}]
  BY DEF Launch, TypeOK
<1>2. JobOf(a) \in Jobs /\ JobOf(b) \in Jobs
  BY AttemptParts
<1>3. a = b
  BY <1>1, <1>2
<1> QED
  BY <1>3

LEMMA LeftAlone ==
  ASSUME TypeOK, NEW a, NEW t, NoLaunch(a, t)  PROVE Once
<1>1. \A j \in Jobs : live'[j] \in {live[j], None}
  BY DEF NoLaunch, TypeOK
<1> QED
  BY <1>1, NotDispatched DEF NoLaunch

\* The starts and the replacements that a call launches were never launched.
LEMMA CallOnce == ASSUME EngineInv, NEW j \in Jobs, Call(j)  PROVE Once
<1>1. TypeOK /\ AgendaOK
  BY DEF EngineInv
<1>2. CASE Kill(j)
  <2>1. \A k \in Jobs : live'[k] \in {live[k], None}
    BY <1>1, <1>2 DEF Kill, TypeOK
  <2> QED
    BY <1>2, <2>1, NotDispatched DEF Kill, store
<1>3. CASE Spawn(j)
  <2>1. PICK a : a = Of(j)
    OBVIOUS
  <2>2. a \in Attempts /\ life[a] = "never"
    BY <1>1, <1>3, <2>1, HeadFacts DEF Spawn, CallOK, Starts, Unlaunched
  <2>3. \/ \E t : Launch(a, t) /\ phase = "running"
        \/ \E t : NoLaunch(a, t)
        \/ UNCHANGED <<live, life>>
    BY <1>3, <2>1 DEF Spawn
  <2> QED
    BY <1>1, <2>2, <2>3, Dispatched, LeftAlone, NotDispatched
<1>4. CASE DischargeStart(j)
  <2>1. PICK a : a = Of(j)
    OBVIOUS
  <2>2. a \in Attempts /\ life[a] = "never" /\ phase \in {"running", "barrier"}
    BY <1>1, <1>4, <2>1, HeadFacts DEF DischargeStart, CallOK, Starts, Unlaunched
  <2>3. (\E t : Launch(a, t)) \/ (\E t : NoLaunch(a, t))
    BY <1>4, <2>1 DEF DischargeStart
  <2> QED
    BY <1>1, <2>2, <2>3, Dispatched, LeftAlone
<1>5. CASE DischargePlan(j)
  <2>1. PICK a : a = Of(j)
    OBVIOUS
  <2>2. a \in Attempts /\ plan[a] = "rerun" /\ phase \in {"running", "barrier"}
    BY <1>1, <1>5, <2>1, HeadFacts DEF DischargePlan, CallOK
  <2>3. Replacement(a) \in Attempts /\ life[Replacement(a)] = "never"
    BY <2>2, Replacements DEF EngineInv, StoreOK
  <2>4. (\E t : Launch(Replacement(a), t)) \/ (\E t : NoLaunch(a, t))
    BY <1>5, <2>1 DEF DischargePlan
  <2> QED
    BY <1>1, <2>2, <2>3, <2>4, Dispatched, LeftAlone
<1>6. CASE Perform(j)
  BY <1>6, NotDispatched DEF Perform, store
<1>7. CASE LadderEnded(j)
  <2>1. \A a \in Attempts : life[a] = "never" => life'[a] = "never"
    BY <1>1, <1>7 DEF LadderEnded, TypeOK
  <2> QED
    BY <1>7, <2>1, NotDispatched DEF LadderEnded
<1>8. CASE Release(j)
  BY <1>8, NotDispatched DEF Release, store
<1> QED
  BY <1>2, <1>3, <1>4, <1>5, <1>6, <1>7, <1>8 DEF Call

LEMMA CommitOnce ==
  ASSUME TypeOK, NEW a \in Attempts, life[a] # "never", NEW cleaning, NEW killed, NEW calls,
         Commit(a, cleaning, killed, calls), live' = live
  PROVE  Once
<1>1. \E end \in {"closed", "closing"} : life' = [life EXCEPT ![a] = end]
  BY DEF Commit
<1>2. \A x \in Attempts : life[x] = "never" => life'[x] = "never"
  BY <1>1 DEF TypeOK
<1> QED
  BY <1>2, NotDispatched

LEMMA HandlerOnce == ASSUME EngineInv, NEW a \in Attempts, Handler(a)  PROVE Once
<1>1. TypeOK
  BY DEF EngineInv
<1>2. CASE PlanInput(a)
  BY <1>2, NotDispatched DEF PlanInput
<1>3. CASE Ended(a)
  <2>1. Idle /\ Up /\ live' = live
    BY <1>3 DEF Ended, Ready, Up
  <2>2. life[a] = "open"
    BY <1>3, <2>1, AttemptNow DEF Ended
  <2>3. \E cleaning, killed : Commit(a, cleaning, killed, <<>>)
    BY <1>3 DEF Ended
  <2> QED
    BY <1>1, <2>1, <2>2, <2>3, CommitOnce
<1>4. CASE Cleaning(a)
  BY <1>4, NotDispatched DEF Cleaning, store
<1>5. CASE LadderEnds(a)
  BY <1>5, NotDispatched DEF LadderEnds, store
<1>6. CASE GroupGone(a)
  <2>1. Idle /\ Up /\ live' = live
    BY <1>6 DEF GroupGone, Ready, Up
  <2>2. CASE tier[a].state = "ended" /\ UNCHANGED <<life, plan>>
    BY <2>1, <2>2, NotDispatched
  <2>3. CASE tier[a].state = "stopping" /\ Commit(a, "no", tier[a].killed, <<<<"release", a>>>>)
    <3>1. life[a] = "open"
      BY <2>1, <2>3, AttemptNow
    <3> QED
      BY <1>1, <2>1, <2>3, <3>1, CommitOnce
  <2> QED
    BY <1>6, <2>2, <2>3 DEF GroupGone
<1>7. CASE TaskDone(a)
  <2>1. \A k \in Jobs : live'[k] \in {live[k], None}
    BY <1>1, <1>7 DEF TaskDone, TypeOK
  <2> QED
    BY <1>7, <2>1, NotDispatched DEF TaskDone, store
<1>8. CASE CatchUp(a)
  <2>1. /\ live' = live
        /\ \/ life[a] = "open" /\ \E cleaning : Commit(a, cleaning, a \in stopped, <<>>)
           \/ UNCHANGED life
    BY <1>8 DEF CatchUp
  <2> QED
    BY <1>1, <2>1, CommitOnce, NotDispatched
<1>9. CASE OwedPlan(a)
  BY <1>9, NotDispatched DEF OwedPlan, store, memory
<1> QED
  BY <1>2, <1>3, <1>4, <1>5, <1>6, <1>7, <1>8, <1>9 DEF Handler

LEMMA NextOnce == EngineInv /\ [Next]_vars => Once \/ UNCHANGED vars
<1> SUFFICES ASSUME EngineInv, Next  PROVE Once
  OBVIOUS
<1>1. ASSUME NEW j \in Jobs, Call(j)  PROVE Once
  BY <1>1, CallOnce
<1>2. ASSUME NEW a \in Attempts, Handler(a)  PROVE Once
  BY <1>2, HandlerOnce
<1>3. ASSUME NEW a \in Runs, OwedStart(a)  PROVE Once
  BY <1>3, NotDispatched DEF OwedStart, memory
<1>4. ASSUME NEW d \in deferred, Discharge(d)  PROVE Once
  BY <1>4, NotDispatched DEF Discharge, store
<1>5. CASE Input
  BY <1>5, NotDispatched DEF Input, memory
<1>6. CASE Snapshot
  BY <1>6, NotDispatched DEF Snapshot, memory
<1>7. CASE BeginDrain
  BY <1>7, NotDispatched DEF BeginDrain
<1>8. CASE Leave \/ Crash
  <2>1. \A j \in Jobs : live'[j] = None
    BY <1>8 DEF Leave, Crash, Down
  <2> QED
    BY <1>8, <2>1, NotDispatched DEF Leave, Crash, store
<1>9. CASE Restart
  BY <1>9, NotDispatched DEF Restart, store
<1>10. CASE OwedStep \/ OwedDone \/ LiftBarrier \/ ReplayDone
  BY <1>10, NotDispatched DEF OwedStep, OwedDone, LiftBarrier, ReplayDone, store
<1> QED
  BY <1>1, <1>2, <1>3, <1>4, <1>5, <1>6, <1>7, <1>8, <1>9, <1>10 DEF Next

\* A run has one first attempt and one replacement per plan: what becomes a job's
\* live attempt was never dispatched before, whatever a restart found, and a
\* draining engine dispatches nothing (spawn, _discharge, perform_plan, _owe).
THEOREM DispatchedOnceHolds == Spec => DispatchedOnce
<1>1. EngineInv /\ [Next]_vars =>
        [\A a \in Attempts :
           /\ live'[JobOf(a)] = a /\ live[JobOf(a)] # a => life[a] = "never"
           /\ phase = "draining" /\ life[a] = "never" => life'[a] = "never"]_vars
  BY NextOnce DEF Once
<1> QED
  BY <1>1, EngineInvariant, PTL DEF Spec, DispatchedOnce

-----------------------------------------------------------------------------
(* A run the oracle wants is never forgotten, where no operator overwrites  *)
(* a status.                                                                *)
(*                                                                          *)
(* The strengthening.  What may have stopped an attempt for good is told    *)
(* from what interrupted it, and an attempt a replacement followed is done  *)
(* with: so that an outcome of a run still wanted always gets a plan.       *)

\* An attempt that a later one of its run followed is over, and its plan is done.
Followed ==
  \A a, b \in Attempts :
    RunOf(a) = RunOf(b) /\ a[3] < b[3] /\ life[b] # "never"
      => life[a] \in {"closing", "closed"} /\ plan[a] = "done"

\* What the records and the memory speak of has been dispatched.
DispatchedOnly ==
  /\ \A a \in recorded : life[a] # "never"
  /\ \A a \in Attempts : a \in stopped \/ tier[a].state # "unknown" => life[a] # "never"
  /\ \A j \in Jobs : live[j] # None => life[live[j]] # "never"

\* The oracle stops no run it wants.
StoppedUnwanted ==
  \A a \in Attempts :
    life[a] = "open" /\ (tier[a].killed \/ a \in stopped) => ~Wanted(a)

\* A start that the oracle still wants was decided.
CallDue(c) ==
  /\ c[1] = "spawn" /\ Wanted(c[2]) => c[2] \in decided
  /\ c[1] = "kill" => ~Wanted(c[2])

CallsDue == \A j \in Jobs : \A i \in DOMAIN agenda[j] : CallDue(agenda[j][i])

FirstOf(j) == <<j, row[j].run, 1>>

InRun(a, j) == JobOf(a) = j /\ a[2] = row[j].run

Carried(j) ==
  \E a \in Attempts :
    InRun(a, j) /\ (life[a] = "open" \/ plan[a] \in {"input", "rerun"} \/ a \in pending)

SpawnDue(j) == \E i \in DOMAIN agenda[j] : agenda[j][i] = <<"spawn", FirstOf(j)>>

\* The restart's last step has not read the decisions yet.
StartsUnread == phase \in {"down", "owing"} \/ (phase = "recovering" /\ owed)

RunsKept ==
  \A j \in Jobs : row[j].live =>
    \/ Carried(j)
    \/ SpawnDue(j)
    \/ FirstOf(j) \in decided \ recorded /\ StartsUnread

RunsInv ==
  EngineInv /\ Followed /\ DispatchedOnly /\ StoppedUnwanted /\ CallsDue /\ RunsKept

-----------------------------------------------------------------------------
(* Runs and the calls that are due.                                         *)

LEMMA SameRun ==
  ASSUME NEW a \in Attempts, NEW b \in Attempts
  PROVE  /\ RunOf(a) = RunOf(b) <=> JobOf(a) = JobOf(b) /\ a[2] = b[2]
         /\ RunOf(a) = RunOf(b) /\ a[3] = b[3] => a = b
         /\ a[3] \in Nat /\ b[3] \in Nat
<1>1. /\ a = <<JobOf(a), a[2], a[3]>> /\ b = <<JobOf(b), b[2], b[3]>>
      /\ a[3] \in 1..MaxAttempts /\ b[3] \in 1..MaxAttempts
  BY AttemptParts
<1>2. RunOf(a) = RunOf(b) <=> JobOf(a) = JobOf(b) /\ a[2] = b[2]
  BY DEF RunOf, JobOf
<1>3. a[3] \in Nat /\ b[3] \in Nat
  BY <1>1, EngineAssumption
<1> QED
  BY <1>1, <1>2, <1>3

\* One attempt of a run is open, or has its plan still before it.
LEMMA OneCarrier ==
  ASSUME Followed, NEW a \in Attempts, NEW b \in Attempts, RunOf(a) = RunOf(b),
         life[a] = "open", life[b] # "never", plan[b] # "done"
  PROVE  a = b
<1>1. ~(a[3] < b[3]) /\ ~(b[3] < a[3])
  BY DEF Followed
<1> QED
  BY <1>1, SameRun

\* The first attempt of a run was dispatched when any of its attempts was.
LEMMA FirstDispatched ==
  ASSUME Followed, NEW a \in Attempts, life[a] # "never"
  PROVE  RunOf(a) \in Attempts /\ life[RunOf(a)] # "never"
<1>1. RunOf(a) \in Runs
  BY AttemptParts
<1>2. RunOf(a) \in Attempts /\ RunOf(a)[3] = 1 /\ RunOf(RunOf(a)) = RunOf(a)
  BY <1>1, RunsAreAttempts
<1>3. a[3] \in 1..MaxAttempts
  BY AttemptParts
<1>4. CASE a[3] = 1
  BY <1>2, <1>4, SameRun
<1>5. CASE a[3] # 1
  <2>1. RunOf(a)[3] < a[3]
    BY <1>2, <1>3, <1>5, EngineAssumption
  <2> QED
    BY <1>2, <2>1 DEF Followed
<1> QED
  BY <1>4, <1>5

\* A wanted run whose start is on an agenda was decided, and no record shows it dispatched.
LEMMA SpawnFresh ==
  ASSUME RunsInv, NEW j \in Jobs, row[j].live, SpawnDue(j)
  PROVE  FirstOf(j) \in decided \ recorded
<1>1. PICK i \in DOMAIN agenda[j] : agenda[j][i] = <<"spawn", FirstOf(j)>>
  BY DEF SpawnDue
<1>2. /\ CallDue(<<"spawn", FirstOf(j)>>) /\ CallOK(<<"spawn", FirstOf(j)>>)
  BY <1>1 DEF RunsInv, CallsDue, EngineInv, AgendaOK
<1>3. Wanted(FirstOf(j))
  BY DEF Wanted, JobOf, FirstOf
<1> QED
  BY <1>2, <1>3 DEF CallDue, CallOK, Starts, Unlaunched, RunsInv, DispatchedOnly

LEMMA TailStays ==
  ASSUME NEW s \in Seq(CallSet), s # <<>>, NEW more \in Seq(CallSet), NEW k \in DOMAIN s,
         k # 1
  PROVE  Len(more) + k - 1 \in DOMAIN (more \o Tail(s))
         /\ (more \o Tail(s))[Len(more) + k - 1] = s[k]
<1>1. /\ Len(s) \in Nat /\ Len(more) \in Nat /\ k \in 2..Len(s)
      /\ Tail(s) \in Seq(CallSet) /\ Len(Tail(s)) = Len(s) - 1
      /\ \A i \in 1..Len(s) - 1 : Tail(s)[i] = s[i + 1]
  OBVIOUS
<1>2. Tail(s)[k - 1] = s[k]
  BY <1>1
<1>3. PICK t \in Seq(CallSet) : t = Tail(s)
  BY <1>1
<1>4. /\ Len(more) + k - 1 \in DOMAIN (more \o t)
      /\ (more \o t)[Len(more) + k - 1] = t[k - 1]
  BY <1>1, <1>3
<1> QED
  BY <1>2, <1>3, <1>4

\* The calls of an agenda after a step, named before it.
LEMMA DueByCalls ==
  ASSUME \A k \in Jobs : \A i \in DOMAIN agenda'[k] : \A c : c = agenda'[k][i] => CallDue(c)'
  PROVE  CallsDue'
<1> SUFFICES ASSUME NEW k \in Jobs, NEW i \in DOMAIN agenda'[k]
             PROVE  CallDue(agenda[k][i])'
  BY DEF CallsDue
<1>1. PICK c : c = agenda'[k][i]
  OBVIOUS
<1>2. CallDue(c)'
  BY <1>1
<1> QED
  BY <1>1, <1>2 DEF CallDue, Wanted, JobOf

\* Calls that are neither a start nor a kill.
NoneDue(more) == \A i \in DOMAIN more : more[i][1] \notin {"spawn", "kill"}

LEMMA FewCalls ==
  ASSUME NEW a \in Attempts, NEW m \in Names \ {"spawn", "kill"},
         NEW n \in Names \ {"spawn", "kill"}
  PROVE  /\ <<>> \in Seq(CallSet) /\ NoneDue(<<>>)
         /\ <<<<m, a>>>> \in Seq(CallSet) /\ NoneDue(<<<<m, a>>>>)
         /\ <<<<m, a>>, <<n, a>>>> \in Seq(CallSet) /\ NoneDue(<<<<m, a>>, <<n, a>>>>)
<1>1. <<m, a>> \in CallSet /\ <<n, a>> \in CallSet
  BY DEF CallSet
<1>2. <<>> \in Seq(CallSet) /\ NoneDue(<<>>)
  BY DEF NoneDue
<1>3. <<<<m, a>>>> \in Seq(CallSet) /\ NoneDue(<<<<m, a>>>>)
  BY <1>1 DEF NoneDue
<1>4. <<<<m, a>>, <<n, a>>>> \in Seq(CallSet)
  BY <1>1
<1>5. NoneDue(<<<<m, a>>, <<n, a>>>>)
  BY DEF NoneDue
<1> QED
  BY <1>2, <1>3, <1>4, <1>5

\* A call that puts no start and no kill in its place leaves those due that were.
LEMMA CallsStayDue ==
  ASSUME TypeOK, CallsDue, NEW j \in Jobs, agenda[j] # <<>>, NEW more \in Seq(CallSet),
         Then(j, more), row' = row, decided \subseteq decided',
         NoneDue(more)
  PROVE  /\ CallsDue'
         /\ \A k \in Jobs : SpawnDue(k) => \/ SpawnDue(k)'
                                           \/ k = j /\ Head(agenda[j]) = <<"spawn", FirstOf(j)>>
<1>1. /\ agenda \in [Jobs -> Seq(CallSet)] /\ agenda' = [agenda EXCEPT ![j] = more \o Tail(@)]
  BY DEF TypeOK, CallSet, Then
<1>2. \A k \in Jobs : k # j => agenda'[k] = agenda[k]
  BY <1>1
<1>3. \A c : CallDue(c) => CallDue(c)'
  BY DEF CallDue, Wanted, JobOf
<1>4. agenda'[j] = more \o Tail(agenda[j]) /\ agenda[j] \in Seq(CallSet)
  BY <1>1
<1>5. Spliced(agenda'[j], more, agenda[j])
  BY <1>4, AfterHead
<1>6. ASSUME NEW k \in Jobs, NEW i \in DOMAIN agenda'[k], NEW c, c = agenda'[k][i]
      PROVE  CallDue(c)'
  <2>1. CASE k # j
    <3>1. i \in DOMAIN agenda[k] /\ c = agenda[k][i]
      BY <1>2, <1>6, <2>1
    <3>2. CallDue(agenda[k][i])
      BY <3>1 DEF CallsDue
    <3> QED
      BY <1>3, <3>1, <3>2
  <2>2. CASE k = j /\ i \in DOMAIN more /\ c = more[i]
    BY <2>2 DEF CallDue, NoneDue
  <2>3. CASE k = j /\ \E m \in 2..Len(agenda[j]) : c = agenda[j][m]
    <3>1. PICK m \in 2..Len(agenda[j]) : c = agenda[j][m]
      BY <2>3
    <3>2. m \in DOMAIN agenda[j]
      BY <1>4, <3>1
    <3>3. CallDue(agenda[j][m])
      BY <3>2 DEF CallsDue
    <3> QED
      BY <1>3, <3>1, <3>3
  <2>4. k = j => \/ i \in DOMAIN more /\ c = more[i]
                \/ \E m \in 2..Len(agenda[j]) : c = agenda[j][m]
    BY <1>5, <1>6 DEF Spliced
  <2> QED
    BY <2>1, <2>2, <2>3, <2>4
<1>7. CallsDue'
  BY <1>6, DueByCalls
<1>8. ASSUME NEW k \in Jobs, SpawnDue(k)
      PROVE  SpawnDue(k)' \/ (k = j /\ Head(agenda[j]) = <<"spawn", FirstOf(j)>>)
  <2>1. PICK i \in DOMAIN agenda[k] : agenda[k][i] = <<"spawn", FirstOf(k)>>
    BY <1>8 DEF SpawnDue
  <2>2. FirstOf(k)' = FirstOf(k)
    BY DEF FirstOf
  <2>3. CASE k # j
    BY <1>2, <2>1, <2>2, <2>3 DEF SpawnDue
  <2>4. CASE k = j /\ i = 1
    BY <1>4, <2>1, <2>4
  <2>5. CASE k = j /\ i # 1
    <3>1. PICK m : m = Len(more) + i - 1
      OBVIOUS
    <3>2. m \in DOMAIN agenda'[j] /\ agenda'[j][m] = agenda[j][i]
      <4>1. PICK s : s = agenda[j]
        OBVIOUS
      <4>2. s \in Seq(CallSet) /\ s # <<>> /\ agenda'[j] = more \o Tail(s)
        BY <1>4, <4>1
      <4>3. i \in DOMAIN s /\ i # 1
        BY <2>1, <2>5, <4>1
      <4>4. m \in DOMAIN (more \o Tail(s)) /\ (more \o Tail(s))[m] = s[i]
        BY <3>1, <4>2, <4>3, TailStays, Zenon
      <4> QED
        BY <4>1, <4>2, <4>4, Zenon
    <3>3. agenda'[k][m] = <<"spawn", FirstOf(k)>> /\ m \in DOMAIN agenda'[k]
      BY <2>1, <2>5, <3>2
    <3> QED
      BY <2>2, <3>3 DEF SpawnDue
  <2> QED
    BY <2>3, <2>4, <2>5
<1> QED
  BY <1>7, <1>8

\* A handler puts no start and no kill on an empty agenda.
LEMMA HandlerDue ==
  ASSUME TypeOK, Idle, NEW j \in Jobs, NEW more, agenda' = [agenda EXCEPT ![j] = more],
         NoneDue(more)
  PROVE  CallsDue' /\ \A k \in Jobs : ~SpawnDue(k)
<1>1. agenda'[j] = more /\ \A k \in Jobs : agenda[k] = <<>> /\ (k # j => agenda'[k] = <<>>)
  BY DEF TypeOK, Idle
<1>2. DOMAIN <<>> = {}
  OBVIOUS
<1>3. ASSUME NEW k \in Jobs, NEW i \in DOMAIN agenda'[k], NEW c, c = agenda'[k][i]
      PROVE  CallDue(c)'
  <2>1. k = j
    BY <1>1, <1>2, <1>3, Zenon
  <2>2. c[1] \notin {"spawn", "kill"}
    BY <1>1, <1>3, <2>1 DEF NoneDue
  <2> QED
    BY <2>2 DEF CallDue
<1>4. CallsDue'
  BY <1>3, DueByCalls
<1>5. \A k \in Jobs : ~SpawnDue(k)
  BY <1>1, <1>2, Zenon DEF SpawnDue
<1> QED
  BY <1>4, <1>5

\* Where nothing is on an agenda before or after.
LEMMA NothingDue ==
  ASSUME Idle, agenda' = agenda
  PROVE  CallsDue' /\ \A k \in Jobs : ~SpawnDue(k)
<1>1. DOMAIN <<>> = {} /\ \A k \in Jobs : agenda[k] = <<>>
  BY DEF Idle
<1> QED
  BY <1>1, Zenon DEF CallsDue, SpawnDue

-----------------------------------------------------------------------------
(* Steps that dispatch nothing and end nothing.                             *)

\* No attempt is opened or ended, what is known of one was dispatched, none the
\* oracle wants is stopped for good, and none becomes its job's live attempt.
LifeKept ==
  \A a \in Attempts : life'[a] = life[a] \/ (life[a] = "closing" /\ life'[a] = "closed")

TierTold ==
  \A a \in Attempts :
    /\ tier'[a].state # "unknown" => life[a] # "never"
    /\ life[a] = "open" /\ tier'[a].killed => tier[a].killed \/ ~Wanted(a)

LiveKept == \A j \in Jobs : live'[j] \in {live[j], None}

LEMMA StoreLooksTheSame ==
  ASSUME RunsInv, EngineInv',
         UNCHANGED <<row, plan, pending, decided, recorded>>,
         LifeKept,
         \A a \in Attempts : a \in stopped' =>
           a \in stopped \/ (tier[a].state # "unknown" /\ tier[a].killed),
         TierTold,
         LiveKept,
         CallsDue',
         \A j \in Jobs : row[j].live /\ SpawnDue(j) => SpawnDue(j)' \/ StartsUnread',
         StartsUnread =>
           StartsUnread' \/ \A j \in Jobs :
             row[j].live /\ FirstOf(j) \in decided \ recorded => Carried(j)
  PROVE  RunsInv'
<1>1. Followed'
  BY DEF RunsInv, Followed, LifeKept
<1>2. DispatchedOnly'
  <2>1. \A a \in Attempts : life[a] # "never" => life'[a] # "never"
    BY DEF LifeKept
  <2>2. \A a \in recorded' : a \in Attempts /\ life[a] # "never"
    BY RunsAreAttempts DEF RunsInv, DispatchedOnly, EngineInv, TypeOK
  <2>3. \A a \in Attempts : a \in stopped' \/ tier'[a].state # "unknown" => life[a] # "never"
    BY DEF RunsInv, DispatchedOnly, TierTold
  <2>4. \A j \in Jobs : live'[j] # None => live'[j] \in Attempts /\ life[live'[j]] # "never"
    BY DEF RunsInv, DispatchedOnly, EngineInv, TypeOK, LiveKept
  <2> QED
    BY <2>1, <2>2, <2>3, <2>4 DEF DispatchedOnly
<1>3. StoppedUnwanted'
  BY DEF RunsInv, StoppedUnwanted, Wanted, JobOf, LifeKept, TierTold
<1>4. ASSUME NEW j \in Jobs, row'[j].live
      PROVE  \/ Carried(j)' \/ SpawnDue(j)'
             \/ FirstOf(j)' \in decided' \ recorded' /\ StartsUnread'
  <2>1. row[j].live /\ FirstOf(j)' = FirstOf(j)
    BY <1>4 DEF FirstOf
  <2>2. Carried(j) => Carried(j)'
    <3>1. ASSUME NEW a \in Attempts, InRun(a, j),
                 life[a] = "open" \/ plan[a] \in {"input", "rerun"} \/ a \in pending
          PROVE  Carried(j)'
      BY <3>1 DEF Carried, InRun, JobOf, LifeKept
    <3> QED
      BY <3>1 DEF Carried
  <2>3. SpawnDue(j) => FirstOf(j) \in decided \ recorded
    BY <2>1, SpawnFresh
  <2> QED
    BY <2>1, <2>2, <2>3 DEF RunsInv, RunsKept
<1> QED
  BY <1>1, <1>2, <1>3, <1>4 DEF RunsInv, RunsKept

\* What a step may make of the memory of one attempt.
LEMMA TierMoved ==
  ASSUME RunsInv, NEW x \in Attempts, NEW r, tier' = [tier EXCEPT ![x] = r],
         r.state # "unknown" => life[x] # "never",
         life[x] = "open" /\ r.killed => tier[x].killed \/ ~Wanted(x)
  PROVE  TierTold
<1> SUFFICES ASSUME NEW a \in Attempts
             PROVE  /\ tier'[a].state # "unknown" => life[a] # "never"
                    /\ life[a] = "open" /\ tier'[a].killed => tier[a].killed \/ ~Wanted(a)
  BY DEF TierTold
<1>1. tier'[x] = r /\ (a # x => tier'[a] = tier[a])
  BY DEF RunsInv, EngineInv, TypeOK
<1>2. tier[a].state # "unknown" => life[a] # "never"
  BY DEF RunsInv, DispatchedOnly
<1> QED
  BY <1>1, <1>2

LEMMA TierSame ==
  ASSUME RunsInv, tier' = tier
  PROVE  TierTold
  BY DEF RunsInv, DispatchedOnly, TierTold

LEMMA CallRuns ==
  ASSUME RunsInv, EngineInv', NEW j \in Jobs, NEW name, Calling(j, name), name # "spawn",
         NEW more \in Seq(CallSet), Then(j, more),
         NoneDue(more),
         UNCHANGED <<row, plan, pending, decided, recorded, stopped, phase, owed>>,
         LifeKept,
         TierTold,
         LiveKept
  PROVE  RunsInv'
<1>1. TypeOK /\ AgendaOK /\ CallsDue
  BY DEF RunsInv, EngineInv
<1>2. agenda[j] # <<>> /\ Head(agenda[j]) = <<name, Of(j)>>
  BY <1>1, HeadFacts
<1>3. CallsDue' /\ \A k \in Jobs : SpawnDue(k) => SpawnDue(k)'
  BY <1>1, <1>2, CallsStayDue
<1>4. StartsUnread => StartsUnread'
  BY DEF StartsUnread
<1> QED
  BY <1>3, <1>4, StoreLooksTheSame

LEMMA KillRuns == ASSUME RunsInv, EngineInv', NEW j \in Jobs, Kill(j)  PROVE RunsInv'
<1>1. /\ Calling(j, "kill") /\ Then(j, <<>>)
      /\ UNCHANGED <<row, life, plan, pending, decided, recorded, stopped, phase, owed>>
  BY DEF Kill, store
<1>2. TypeOK /\ AgendaOK
  BY DEF RunsInv, EngineInv
<1>3. LiveKept
  BY <1>2 DEF Kill, TypeOK, LiveKept
<1>4. /\ Of(j) \in Attempts /\ JobOf(Of(j)) = j /\ ~Wanted(Of(j))
  <2>1. /\ <<"kill", Of(j)>> \in CallSet /\ Head(agenda[j]) = <<"kill", Of(j)>>
        /\ Of(j) \in Attempts /\ JobOf(Of(j)) = j /\ agenda[j] # <<>>
    BY <1>1, <1>2, HeadFacts
  <2>2. agenda[j] \in Seq(CallSet) /\ 1 \in DOMAIN agenda[j] /\ Head(agenda[j]) = agenda[j][1]
    BY <1>2, <2>1 DEF TypeOK, CallSet
  <2>3. CallDue(<<"kill", Of(j)>>)
    BY <2>1, <2>2 DEF RunsInv, CallsDue
  <2> QED
    BY <2>1, <2>3 DEF CallDue
<1>5. TierTold
  <2>1. CASE live[j] # None /\ RunOf(live[j]) = RunOf(Of(j))
    <3>1. PICK x : x = live[j]
      OBVIOUS
    <3>2. x \in Attempts /\ ~Wanted(x)
      BY <1>2, <1>4, <2>1, <3>1, SameRun DEF TypeOK, Wanted
    <3>3. PICK cleaning \in {"no", "ladder"} :
            tier' = [tier EXCEPT ![x] = Stop(tier[x], cleaning, TRUE)]
      BY <2>1, <3>1 DEF Kill
    <3>4. tier[x] \in TierRecord
      BY <1>2, <3>2 DEF TypeOK
    <3>5. Stop(tier[x], cleaning, TRUE).state # "unknown" => life[x] # "never"
      BY <3>2, <3>4 DEF Stop, TierRecord, RunsInv, DispatchedOnly
    <3> QED
      BY <3>2, <3>3, <3>5, TierMoved
  <2>2. CASE ~(live[j] # None /\ RunOf(live[j]) = RunOf(Of(j)))
    BY <2>2, TierSame DEF Kill
  <2> QED
    BY <2>1, <2>2
<1>6. <<>> \in Seq(CallSet) /\ NoneDue(<<>>) /\ LifeKept
  BY <1>1 DEF NoneDue, LifeKept
<1> QED
  BY <1>1, <1>3, <1>5, <1>6, CallRuns

LEMMA KeptKilled == ASSUME NEW r  PROVE Kept(r).killed => r.killed
<1>1. CASE r.state = "ended" /\ r.planDone /\ r.exited /\ r.cleaning = "no"
  BY <1>1, Zenon DEF Kept, Unknown
<1>2. CASE ~(r.state = "ended" /\ r.planDone /\ r.exited /\ r.cleaning = "no")
  BY <1>2, Zenon DEF Kept
<1> QED
  BY <1>1, <1>2

LEMMA PerformRuns == ASSUME RunsInv, EngineInv', NEW j \in Jobs, Perform(j)  PROVE RunsInv'
<1>1. PICK a : a = Of(j)
  OBVIOUS
<1>2. /\ Calling(j, "perform")
      /\ UNCHANGED <<row, life, plan, pending, decided, recorded, stopped, phase, live, owed>>
      /\ \/ tier' = tier
         \/ /\ tier[a].state # "unknown"
            /\ tier' = [tier EXCEPT ![a] = Kept([tier[a] EXCEPT !.planDone = TRUE])]
      /\ \E more \in {<<<<"release", a>>>>, <<<<"discharge_plan", a>>>>, <<>>} : Then(j, more)
  BY <1>1 DEF Perform, store
<1>3. TypeOK /\ AgendaOK
  BY DEF RunsInv, EngineInv
<1>4. a \in Attempts
  BY <1>1, <1>2, <1>3, HeadFacts
<1>5. PICK more \in {<<<<"release", a>>>>, <<<<"discharge_plan", a>>>>, <<>>} : Then(j, more)
  BY <1>2
<1>6. /\ more \in Seq(CallSet)
      /\ NoneDue(more)
  <2>1. "release" \in Names \ {"spawn", "kill"} /\ "discharge_plan" \in Names \ {"spawn", "kill"}
    BY DEF Names
  <2> QED
    BY <1>4, <1>5, <2>1, FewCalls
<1>7. TierTold
  <2>1. CASE tier' = tier
    BY <2>1, TierSame
  <2>2. CASE /\ tier[a].state # "unknown"
             /\ tier' = [tier EXCEPT ![a] = Kept([tier[a] EXCEPT !.planDone = TRUE])]
    <3>1. [tier[a] EXCEPT !.planDone = TRUE].killed = tier[a].killed
      <4>1. PICK r \in TierRecord : r = tier[a]
        BY <1>3, <1>4 DEF TypeOK
      <4> QED
        BY <4>1 DEF TierRecord
    <3>2. Kept([tier[a] EXCEPT !.planDone = TRUE]).killed => tier[a].killed
      <4>1. \A r : Kept(r).killed => r.killed
        BY KeptKilled
      <4>2. PICK r : r = [tier[a] EXCEPT !.planDone = TRUE]
        OBVIOUS
      <4> QED
        BY <3>1, <4>1, <4>2, Zenon
    <3>3. life[a] # "never"
      BY <1>4, <2>2 DEF RunsInv, DispatchedOnly
    <3> QED
      BY <1>4, <2>2, <3>2, <3>3, TierMoved
  <2> QED
    BY <1>2, <2>1, <2>2
<1>8. LifeKept /\ LiveKept
  BY <1>2 DEF LifeKept, LiveKept
<1> QED
  BY <1>2, <1>5, <1>6, <1>7, <1>8, CallRuns

LEMMA LadderEndedRuns ==
  ASSUME RunsInv, EngineInv', NEW j \in Jobs, LadderEnded(j)  PROVE RunsInv'
<1>1. PICK a : a = Of(j)
  OBVIOUS
<1>2. /\ Calling(j, "ladder_ended")
      /\ life' = [life EXCEPT ![a] = IF life[a] = "closing" THEN "closed" ELSE life[a]]
      /\ tier' = [tier EXCEPT ![a] = Kept(tier[a])]
      /\ UNCHANGED <<row, plan, pending, decided, recorded, stopped, phase, live, owed>>
      /\ \E more \in {<<<<"perform", a>>, <<"release", a>>>>, <<<<"release", a>>>>} : Then(j, more)
  BY <1>1 DEF LadderEnded
<1>3. TypeOK /\ AgendaOK
  BY DEF RunsInv, EngineInv
<1>4. a \in Attempts
  BY <1>1, <1>2, <1>3, HeadFacts
<1>5. PICK more \in {<<<<"perform", a>>, <<"release", a>>>>, <<<<"release", a>>>>} : Then(j, more)
  BY <1>2
<1>6. /\ more \in Seq(CallSet)
      /\ NoneDue(more)
  <2>1. "release" \in Names \ {"spawn", "kill"} /\ "perform" \in Names \ {"spawn", "kill"}
    BY DEF Names
  <2> QED
    BY <1>4, <1>5, <2>1, FewCalls
<1>7. TierTold
  <2>1. Kept(tier[a]).state # "unknown" => tier[a].state # "unknown"
    BY DEF Kept
  <2>2. Kept(tier[a]).killed => tier[a].killed
    BY DEF Kept, Unknown
  <2>3. tier[a].state # "unknown" => life[a] # "never"
    BY <1>4 DEF RunsInv, DispatchedOnly
  <2> QED
    BY <1>2, <1>4, <2>1, <2>2, <2>3, TierMoved
<1>8. LifeKept
  BY <1>2, <1>3 DEF TypeOK, LifeKept
<1>9. LiveKept
  BY <1>2 DEF LiveKept
<1> QED
  BY <1>2, <1>5, <1>6, <1>7, <1>8, <1>9, CallRuns

LEMMA ReleaseRuns == ASSUME RunsInv, EngineInv', NEW j \in Jobs, Release(j)  PROVE RunsInv'
<1>1. /\ Calling(j, "release")
      /\ UNCHANGED <<row, life, plan, pending, decided, recorded, stopped>>
      /\ UNCHANGED <<phase, tier, live, owed>>
  BY DEF Release, store
<1>2. TypeOK /\ AgendaOK
  BY DEF RunsInv, EngineInv
<1>3. ASSUME NEW more \in Seq(CallSet), Then(j, more),
             NoneDue(more)
      PROVE  RunsInv'
  <2>1. LifeKept /\ LiveKept /\ TierTold
    BY <1>1, TierSame DEF LifeKept, LiveKept
  <2> QED
    BY <1>1, <1>3, <2>1, CallRuns
<1>4. ASSUME NEW a \in Released(j), Then(j, <<<<"perform", a>>, <<"release", a>>>>)
      PROVE  RunsInv'
  <2>1. a \in Attempts
    BY <1>2 DEF Released, TypeOK
  <2>2. PICK more : more = <<<<"perform", a>>, <<"release", a>>>>
    OBVIOUS
  <2>3. /\ more \in Seq(CallSet)
        /\ NoneDue(more)
    BY <2>1, <2>2, FewCalls DEF Names
  <2> QED
    BY <1>3, <1>4, <2>2, <2>3
<1>5. CASE Then(j, <<>>)
  <2>1. <<>> \in Seq(CallSet) /\ NoneDue(<<>>)
    BY DEF NoneDue
  <2> QED
    BY <1>3, <1>5, <2>1
<1>6. CASE Then(j, [i \in DOMAIN held[j] |-> <<"discharge_start", held[j][i]>>])
  <2>1. PICK more : more = [i \in DOMAIN held[j] |-> <<"discharge_start", held[j][i]>>]
    OBVIOUS
  <2>2. PICK s \in Seq(Runs) : s = held[j]
    BY <1>2 DEF TypeOK
  <2>3. \A i \in DOMAIN s : <<"discharge_start", s[i]>> \in CallSet
    BY RunsAreAttempts DEF CallSet, Names
  <2>4. more \in Seq(CallSet) /\ DOMAIN more = DOMAIN s
    <3>1. DOMAIN s = 1..Len(s) /\ Len(s) \in Nat
      OBVIOUS
    <3> QED
      BY <2>1, <2>2, <2>3, <3>1
  <2>5. NoneDue(more)
    BY <2>1, <2>2, <2>4 DEF NoneDue
  <2> QED
    BY <1>3, <1>6, <2>1, <2>4, <2>5
<1> QED
  BY <1>4, <1>5, <1>6 DEF Release

\* A handler of one attempt that finds the agenda empty.
LEMMA HandlerRuns ==
  ASSUME RunsInv, EngineInv', Idle, LifeKept, TierTold, LiveKept, CallsDue',
         \A j \in Jobs : ~SpawnDue(j),
         UNCHANGED <<row, plan, pending, decided, recorded, stopped, phase, owed>>
  PROVE  RunsInv'
<1>1. StartsUnread => StartsUnread'
  BY DEF StartsUnread
<1> QED
  BY <1>1, StoreLooksTheSame

LEMMA CleaningRuns ==
  ASSUME RunsInv, EngineInv', NEW a \in Attempts, Cleaning(a)  PROVE RunsInv'
<1>1. /\ Idle /\ agenda' = agenda /\ live' = live /\ life' = life
      /\ UNCHANGED <<row, plan, pending, decided, recorded, stopped, phase, owed>>
  BY DEF Cleaning, Ready, store
<1>2. tier[a].state # "unknown" /\ life[a] # "never"
  BY DEF Cleaning, RunsInv, DispatchedOnly
<1>3. tier[a] \in TierRecord
  BY DEF RunsInv, EngineInv, TypeOK
<1>4. PICK r : tier' = [tier EXCEPT ![a] = r] /\ (r.killed => tier[a].killed)
  <2>1. CASE tier' = [tier EXCEPT ![a] = Stop(tier[a], "ladder", FALSE)]
    <3>1. Stop(tier[a], "ladder", FALSE).killed => tier[a].killed
      BY <1>3 DEF Stop, TierRecord
    <3> QED
      BY <2>1, <3>1
  <2>2. ASSUME NEW cleaning, tier' = [tier EXCEPT ![a].cleaning = cleaning]
        PROVE  \E r : tier' = [tier EXCEPT ![a] = r] /\ (r.killed => tier[a].killed)
    <3>1. [tier[a] EXCEPT !.cleaning = cleaning].killed = tier[a].killed
      BY <1>3 DEF TierRecord
    <3> QED
      BY <2>2, <3>1
  <2> QED
    BY <2>1, <2>2 DEF Cleaning
<1>5. TierTold
  BY <1>2, <1>4, TierMoved
<1>6. LifeKept /\ LiveKept
  BY <1>1 DEF LifeKept, LiveKept
<1> QED
  BY <1>1, <1>5, <1>6, NothingDue, HandlerRuns

LEMMA HoldOverRuns ==
  ASSUME RunsInv, EngineInv', Idle, NEW a \in Attempts, NEW cleaning,
         tier' = [tier EXCEPT ![a].cleaning = cleaning],
         \/ agenda' = agenda
         \/ agenda' = [agenda EXCEPT ![JobOf(a)] = <<<<"ladder_ended", a>>>>],
         UNCHANGED <<row, life, plan, pending, decided, recorded, stopped, phase, live, owed>>
  PROVE  RunsInv'
<1>1. /\ TypeOK /\ tier[a] \in TierRecord /\ JobOf(a) \in Jobs
      /\ tier[a].state # "unknown" => life[a] # "never"
  BY AttemptParts DEF RunsInv, EngineInv, TypeOK, DispatchedOnly
<1>2. /\ [tier[a] EXCEPT !.cleaning = cleaning].killed = tier[a].killed
      /\ [tier[a] EXCEPT !.cleaning = cleaning].state = tier[a].state
  BY <1>1 DEF TierRecord
<1>3. TierTold
  BY <1>1, <1>2, TierMoved
<1>4. CallsDue' /\ \A j \in Jobs : ~SpawnDue(j)
  <2>1. CASE agenda' = agenda
    BY <2>1, NothingDue
  <2>2. CASE agenda' = [agenda EXCEPT ![JobOf(a)] = <<<<"ladder_ended", a>>>>]
    <3>1. NoneDue(<<<<"ladder_ended", a>>>>)
      BY DEF NoneDue
    <3> QED
      BY <1>1, <2>2, <3>1, HandlerDue
  <2> QED
    BY <2>1, <2>2
<1>5. LifeKept /\ LiveKept
  BY DEF LifeKept, LiveKept
<1> QED
  BY <1>3, <1>4, <1>5, HandlerRuns

LEMMA LadderEndsRuns ==
  ASSUME RunsInv, EngineInv', NEW a \in Attempts, LadderEnds(a)  PROVE RunsInv'
  BY HoldOverRuns DEF LadderEnds, Ready, store

LEMMA TaskDoneRuns ==
  ASSUME RunsInv, EngineInv', NEW a \in Attempts, TaskDone(a)  PROVE RunsInv'
<1>1. /\ Idle /\ agenda' = agenda /\ life' = life
      /\ tier' = [tier EXCEPT ![a] = Kept([tier[a] EXCEPT !.exited = TRUE])]
      /\ UNCHANGED <<row, plan, pending, decided, recorded, stopped, phase, owed>>
  BY DEF TaskDone, Ready, store
<1>2. /\ tier[a] \in TierRecord /\ life[a] # "never"
  BY DEF TaskDone, RunsInv, EngineInv, TypeOK, DispatchedOnly
<1>3. Kept([tier[a] EXCEPT !.exited = TRUE]).killed => tier[a].killed
  <2>1. [tier[a] EXCEPT !.exited = TRUE].killed = tier[a].killed
    BY <1>2 DEF TierRecord
  <2> QED
    BY <2>1 DEF Kept, Unknown
<1>4. TierTold
  BY <1>1, <1>2, <1>3, TierMoved
<1>5. LifeKept /\ LiveKept
  BY <1>1 DEF LifeKept, LiveKept, TaskDone, RunsInv, EngineInv, TypeOK
<1> QED
  BY <1>1, <1>4, <1>5, NothingDue, HandlerRuns

LEMMA OwedPlanRuns ==
  ASSUME RunsInv, EngineInv', NEW a \in Attempts, OwedPlan(a)  PROVE RunsInv'
<1>1. /\ Idle /\ agenda' = [agenda EXCEPT ![JobOf(a)] = <<<<"perform", a>>>>]
      /\ UNCHANGED <<row, plan, pending, decided, recorded, stopped, phase, owed>>
      /\ UNCHANGED <<life, tier, live>>
  BY DEF OwedPlan, store, memory
<1>2. TypeOK /\ JobOf(a) \in Jobs /\ NoneDue(<<<<"perform", a>>>>)
  BY AttemptParts DEF RunsInv, EngineInv, NoneDue
<1>3. LifeKept /\ LiveKept /\ TierTold
  BY <1>1, TierSame DEF LifeKept, LiveKept
<1>4. CallsDue' /\ \A j \in Jobs : ~SpawnDue(j)
  BY <1>1, <1>2, HandlerDue
<1> QED
  BY <1>1, <1>3, <1>4, HandlerRuns

LEMMA DischargeRuns ==
  ASSUME RunsInv, EngineInv', NEW d \in deferred, Discharge(d)  PROVE RunsInv'
<1>1. PICK name \in {"discharge_start", "discharge_plan"} :
        agenda' = [agenda EXCEPT ![JobOf(d[1])] = <<<<name, d[1]>>>>]
  BY DEF Discharge
<1>2. /\ Idle
      /\ UNCHANGED <<row, plan, pending, decided, recorded, stopped, phase, owed>>
      /\ UNCHANGED <<life, tier, live>>
  BY DEF Discharge, store
<1>3. TypeOK /\ JobOf(d[1]) \in Jobs
  BY AttemptParts DEF RunsInv, EngineInv, TypeOK
<1>4. NoneDue(<<<<name, d[1]>>>>)
  BY DEF NoneDue
<1>5. LifeKept /\ LiveKept /\ TierTold
  BY <1>2, TierSame DEF LifeKept, LiveKept
<1>6. CallsDue' /\ \A j \in Jobs : ~SpawnDue(j)
  BY <1>1, <1>2, <1>3, <1>4, HandlerDue
<1> QED
  BY <1>2, <1>5, <1>6, HandlerRuns

-----------------------------------------------------------------------------
(* Drains, crashes, restarts and the recovery's steps.                      *)

LEMMA BeginDrainRuns == ASSUME RunsInv, EngineInv', BeginDrain  PROVE RunsInv'
<1>1. /\ Idle /\ agenda' = agenda /\ stopped' = StopsNamed /\ live' = live /\ life' = life
      /\ UNCHANGED <<row, plan, pending, decided, recorded, owed>>
      /\ phase = "running"
  BY DEF BeginDrain, Ready
<1>2. PICK known \in SUBSET {a \in Attempts : tier[a].state = "live"} :
        tier' = [a \in Attempts |-> Stop(tier[a], IF a \in known THEN "ladder" ELSE "no", FALSE)]
  BY DEF BeginDrain
<1>3. TierTold
  <2>1. ASSUME NEW a \in Attempts, NEW cleaning
        PROVE  /\ Stop(tier[a], cleaning, FALSE).state # "unknown" => tier[a].state # "unknown"
               /\ Stop(tier[a], cleaning, FALSE).killed => tier[a].killed
    <3>1. tier[a] \in TierRecord
      BY DEF RunsInv, EngineInv, TypeOK
    <3> QED
      BY <3>1 DEF Stop, TierRecord
  <2>2. \A a \in Attempts : tier[a].state # "unknown" => life[a] # "never"
    BY DEF RunsInv, DispatchedOnly
  <2> QED
    BY <1>2, <2>1, <2>2 DEF TierTold
<1>4. \A a \in Attempts : a \in stopped' =>
        a \in stopped \/ (tier[a].state # "unknown" /\ tier[a].killed)
  BY <1>1 DEF StopsNamed, Unsettled
<1>5. LifeKept /\ LiveKept /\ ~StartsUnread
  BY <1>1 DEF LifeKept, LiveKept, StartsUnread
<1> QED
  BY <1>1, <1>3, <1>4, <1>5, NothingDue, StoreLooksTheSame

LEMMA CrashRuns == ASSUME RunsInv, EngineInv', Crash  PROVE RunsInv'
<1>1. /\ UNCHANGED <<row, life, stopped, plan, pending, decided, recorded>>
      /\ phase' = "down" /\ tier' = [a \in Attempts |-> Unknown] /\ live' = [j \in Jobs |-> None]
      /\ agenda' = [j \in Jobs |-> <<>>]
  BY DEF Crash, Down, store
<1>2. CallsDue'
  <2>1. DOMAIN <<>> = {}
    OBVIOUS
  <2> QED
    BY <1>1, <2>1 DEF CallsDue
<1>3. TierTold
  BY <1>1 DEF TierTold, Unknown
<1>4. LifeKept /\ LiveKept /\ StartsUnread'
  BY <1>1 DEF LifeKept, LiveKept, StartsUnread
<1> QED
  BY <1>1, <1>2, <1>3, <1>4, StoreLooksTheSame

LEMMA RestartRuns == ASSUME RunsInv, EngineInv', Restart  PROVE RunsInv'
<1>1. /\ UNCHANGED <<row, life, stopped, plan, pending, decided, recorded, live, agenda>>
      /\ phase' = "recovering" /\ owed' = TRUE /\ Idle
  BY DEF Restart, store, RunsInv, EngineInv, RecoveryOK
<1>2. TierTold
  <2>1. ASSUME NEW a \in Attempts
        PROVE  ~tier'[a].killed /\ (tier'[a].state # "unknown" => life[a] # "never")
    BY DEF Restart, Unknown
  <2> QED
    BY <2>1 DEF TierTold
<1>3. LifeKept /\ LiveKept /\ StartsUnread'
  BY <1>1 DEF LifeKept, LiveKept, StartsUnread
<1> QED
  BY <1>1, <1>2, <1>3, NothingDue, StoreLooksTheSame

\* The recovery's last step has given each decided start that the oracle still wants
\* a pending record, where nothing of its run was dispatched.
LEMMA RecoveryRuns ==
  ASSUME RunsInv, EngineInv', OwedStep \/ OwedDone \/ LiftBarrier \/ ReplayDone
  PROVE  RunsInv'
<1>1. /\ Idle /\ UNCHANGED <<row, life, stopped, plan, pending, decided, recorded, live, agenda, tier>>
  BY DEF OwedStep, OwedDone, LiftBarrier, ReplayDone, Ready, store
<1>2. LifeKept /\ LiveKept /\ TierTold
  BY <1>1, TierSame DEF LifeKept, LiveKept
<1>3. CASE OwedDone
  <2>1. ASSUME NEW j \in Jobs, row[j].live, FirstOf(j) \in decided \ recorded
        PROVE  Carried(j)
    <3>1. /\ FirstOf(j) \in Runs /\ FirstOf(j) \in Attempts /\ Wanted(FirstOf(j))
          /\ InRun(FirstOf(j), j)
      BY <2>1, RunsAreAttempts
         DEF RunsInv, EngineInv, TypeOK, FirstOf, Wanted, JobOf, InRun
    <3>2. FirstOf(j) \in Covered
      BY <1>3, <2>1, <3>1 DEF OwedDone, Uncovered
    <3>3. CASE FirstOf(j) \in pending
      BY <3>1, <3>3 DEF Carried
    <3>4. CASE \E b \in Attempts :
                 RunOf(b) = FirstOf(j) /\ (life[b] \in {"open", "closing"} \/ plan[b] = "rerun")
      <4>1. PICK b \in Attempts :
              RunOf(b) = FirstOf(j) /\ (life[b] \in {"open", "closing"} \/ plan[b] = "rerun")
        BY <3>4
      <4>2. InRun(b, j)
        BY <4>1 DEF RunOf, FirstOf, InRun, JobOf
      <4>3. life[b] # "closing" \/ life[FirstOf(j)] # "never"
        BY <4>1, FirstDispatched DEF RunsInv
      <4>4. life[FirstOf(j)] = "never"
        BY <2>1, <3>1 DEF RunsInv, EngineInv, StoreOK
      <4> QED
        BY <4>1, <4>2, <4>3, <4>4 DEF Carried
    <3> QED
      BY <2>1, <3>2, <3>3, <3>4 DEF Covered
  <2> QED
    BY <1>1, <1>2, <2>1, NothingDue, StoreLooksTheSame
<1>4. CASE OwedStep \/ LiftBarrier \/ ReplayDone
  <2>1. StartsUnread => StartsUnread'
    BY <1>4 DEF OwedStep, LiftBarrier, ReplayDone, StartsUnread
  <2> QED
    BY <1>1, <1>2, <2>1, NothingDue, StoreLooksTheSame
<1> QED
  BY <1>3, <1>4

\* Where every agenda is empty and the engine is past its restart, what it decided
\* is carried, and the records of the tail may go.
LEMMA CarriedAtRest ==
  ASSUME RunsInv, Idle, phase \in {"running", "draining"}, NEW j \in Jobs, row[j].live
  PROVE  Carried(j)
<1>1. ~SpawnDue(j)
  <2>1. DOMAIN <<>> = {} /\ agenda[j] = <<>>
    BY DEF Idle
  <2> QED
    BY <2>1, Zenon DEF SpawnDue
<1> QED
  BY <1>1 DEF RunsInv, RunsKept, StartsUnread

LEMMA TailForgotten ==
  ASSUME RunsInv, EngineInv', Idle, phase \in {"running", "draining"},
         UNCHANGED <<row, life, plan, pending>>, recorded' = {},
         \A a \in Attempts : a \in stopped' =>
           a \in stopped \/ (tier[a].state # "unknown" /\ tier[a].killed),
         TierTold, LiveKept, \A j \in Jobs : agenda'[j] = <<>>
  PROVE  RunsInv'
<1>1. Followed'
  BY DEF RunsInv, Followed
<1>2. DispatchedOnly'
  <2>1. \A a \in Attempts : a \in stopped' \/ tier'[a].state # "unknown" => life[a] # "never"
    BY DEF RunsInv, DispatchedOnly, TierTold
  <2>2. \A j \in Jobs : live'[j] # None => life[live'[j]] # "never"
    BY DEF RunsInv, DispatchedOnly, LiveKept
  <2> QED
    BY <2>1, <2>2 DEF DispatchedOnly
<1>3. StoppedUnwanted'
  BY DEF RunsInv, StoppedUnwanted, Wanted, JobOf, TierTold
<1>4. CallsDue'
  <2>1. DOMAIN <<>> = {}
    OBVIOUS
  <2> QED
    BY <2>1, Zenon DEF CallsDue
<1>5. ASSUME NEW j \in Jobs, row[j].live  PROVE Carried(j)'
  BY <1>5, CarriedAtRest DEF Carried, InRun, JobOf
<1> QED
  BY <1>1, <1>2, <1>3, <1>4, <1>5 DEF RunsInv, RunsKept

LEMMA SnapshotRuns == ASSUME RunsInv, EngineInv', Snapshot  PROVE RunsInv'
<1>1. /\ Idle /\ phase = "running" /\ recorded' = {}
      /\ UNCHANGED <<row, life, plan, pending, stopped, tier, live, agenda>>
  BY DEF Snapshot, AppliedBoundary, memory
<1>2. TierTold /\ LiveKept
  BY <1>1, TierSame DEF LiveKept
<1> QED
  BY <1>1, <1>2, TailForgotten DEF Idle

LEMMA LeaveRuns == ASSUME RunsInv, EngineInv', Leave  PROVE RunsInv'
<1>1. /\ Idle /\ phase = "draining" /\ recorded' = {} /\ stopped' = StopsNamed
      /\ UNCHANGED <<row, life, plan, pending>>
      /\ tier' = [a \in Attempts |-> Unknown] /\ live' = [j \in Jobs |-> None]
      /\ agenda' = [j \in Jobs |-> <<>>]
  BY DEF Leave, Ready, Down
<1>2. TierTold /\ LiveKept
  BY <1>1 DEF TierTold, LiveKept, Unknown
<1>3. \A a \in Attempts : a \in stopped' =>
        a \in stopped \/ (tier[a].state # "unknown" /\ tier[a].killed)
  BY <1>1 DEF StopsNamed, Unsettled
<1> QED
  BY <1>1, <1>2, <1>3, TailForgotten

LEMMA OwedStartRuns ==
  ASSUME RunsInv, EngineInv', NEW a \in Runs, OwedStart(a)  PROVE RunsInv'
<1>1. /\ Idle /\ phase = "owing" /\ pending' = pending \cup {a}
      /\ UNCHANGED <<row, life, stopped, plan, decided, recorded, phase, tier, live, agenda, owed>>
  BY DEF OwedStart, memory
<1>2. Followed' /\ DispatchedOnly' /\ StoppedUnwanted'
  BY <1>1 DEF RunsInv, Followed, DispatchedOnly, StoppedUnwanted, Wanted, JobOf
<1>3. CallsDue' /\ \A j \in Jobs : ~SpawnDue(j)
  BY <1>1, NothingDue
<1>4. \A j \in Jobs : Carried(j) => Carried(j)'
  BY <1>1 DEF Carried, InRun, JobOf
<1>5. RunsKept'
  BY <1>1, <1>3, <1>4 DEF RunsInv, RunsKept, FirstOf, StartsUnread
<1> QED
  BY <1>2, <1>3, <1>5 DEF RunsInv

-----------------------------------------------------------------------------
(* Outcomes.                                                                *)

\* The outcome of a run the oracle wants, which the oracle did not stop, has a plan.
LEMMA CommitRuns ==
  ASSUME RunsInv, EngineInv', Idle, NEW a \in Attempts, life[a] = "open",
         NEW cleaning, NEW killed, killed => tier[a].killed \/ a \in stopped,
         NEW calls, calls \in {<<>>, <<<<"release", a>>>>}, Commit(a, cleaning, killed, calls),
         UNCHANGED <<row, stopped, pending, decided, recorded, phase, live, owed>>
  PROVE  RunsInv'
<1>1. TypeOK /\ JobOf(a) \in Jobs /\ tier[a] \in TierRecord
  BY AttemptParts DEF RunsInv, EngineInv, TypeOK
<1>2. PICK own \in BOOLEAN :
        /\ \E p \in Plans(a, own, killed) : plan' = [plan EXCEPT ![a] = p]
        /\ life' = [life EXCEPT ![a] = IF cleaning = "no" THEN "closed" ELSE "closing"]
        /\ tier' = [tier EXCEPT ![a].state = "ended", ![a].cleaning = cleaning, ![a].killed = killed]
        /\ agenda' = [agenda EXCEPT ![JobOf(a)] = <<<<"perform", a>>>> \o calls]
  BY DEF Commit
<1>3. PICK p \in Plans(a, own, killed) : plan' = [plan EXCEPT ![a] = p]
  BY <1>2
<1>4. /\ plan'[a] = p /\ life'[a] \in {"closing", "closed"}
      /\ \A x \in Attempts : x # a => plan'[x] = plan[x] /\ life'[x] = life[x] /\ tier'[x] = tier[x]
  BY <1>1, <1>2, <1>3 DEF TypeOK
<1>5. Wanted(a) => p \in {"input", "rerun"}
  BY <1>3 DEF Plans, RunsInv, StoppedUnwanted
<1>6. Followed'
  <2> SUFFICES ASSUME NEW x \in Attempts, NEW y \in Attempts, RunOf(x) = RunOf(y), x[3] < y[3],
                      life'[y] # "never"
               PROVE  life'[x] \in {"closing", "closed"} /\ plan'[x] = "done"
    BY DEF Followed, RunOf
  <2>1. life[y] # "never"
    BY <1>4
  <2>2. life[x] \in {"closing", "closed"} /\ plan[x] = "done"
    BY <2>1 DEF RunsInv, Followed
  <2> QED
    BY <1>4, <2>2
<1>7. DispatchedOnly'
  <2>1. \A x \in Attempts : life[x] # "never" => life'[x] # "never"
    BY <1>4
  <2>2. \A x \in recorded : x \in Attempts
    BY <1>1, RunsAreAttempts DEF TypeOK
  <2>3. \A x \in Attempts : x \in stopped \/ tier'[x].state # "unknown" => life[x] # "never"
    BY <1>4 DEF RunsInv, DispatchedOnly
  <2>4. \A j \in Jobs : live[j] # None => live[j] \in Attempts
    BY <1>1 DEF TypeOK
  <2> QED
    BY <2>1, <2>2, <2>3, <2>4 DEF RunsInv, DispatchedOnly
<1>8. StoppedUnwanted'
  <2> SUFFICES ASSUME NEW x \in Attempts, life'[x] = "open", tier'[x].killed \/ x \in stopped
               PROVE  ~Wanted(x)
    BY DEF StoppedUnwanted, Wanted, JobOf
  <2>1. x # a
    BY <1>4
  <2> QED
    BY <1>4, <2>1 DEF RunsInv, StoppedUnwanted
<1>9. CallsDue' /\ \A j \in Jobs : ~SpawnDue(j)
  <2>1. PICK more : more = <<<<"perform", a>>>> \o calls
    OBVIOUS
  <2>2. PICK d : d = <<<<"perform", a>>>>
    OBVIOUS
  <2>3. /\ d \in Seq(CallSet) /\ calls \in Seq(CallSet) /\ Len(calls) \in {0, 1}
        /\ NoneDue(d) /\ NoneDue(calls)
    <3>1. "perform" \in Names \ {"spawn", "kill"} /\ "release" \in Names \ {"spawn", "kill"}
      BY DEF Names
    <3>2. d \in Seq(CallSet) /\ calls \in Seq(CallSet) /\ NoneDue(d) /\ NoneDue(calls)
      BY <2>2, <3>1, FewCalls
    <3>3. Len(calls) \in {0, 1}
      OBVIOUS
    <3> QED
      BY <3>2, <3>3
  <2>4. NoneDue(more)
    BY <2>1, <2>2, <2>3, CallsAfter DEF NoneDue
  <2> QED
    BY <1>1, <1>2, <2>1, <2>4, HandlerDue
<1>10. ASSUME NEW j \in Jobs, row[j].live, Carried(j)  PROVE Carried(j)'
  <2>1. PICK x \in Attempts :
          InRun(x, j) /\ (life[x] = "open" \/ plan[x] \in {"input", "rerun"} \/ x \in pending)
    BY <1>10 DEF Carried
  <2>2. x = a => Wanted(a)
    BY <1>10, <2>1 DEF InRun, Wanted
  <2>3. life'[x] = "open" \/ plan'[x] \in {"input", "rerun"} \/ x \in pending
    BY <1>4, <1>5, <2>1, <2>2
  <2> QED
    BY <2>1, <2>3 DEF Carried, InRun, JobOf
<1>11. RunsKept'
  BY <1>9, <1>10 DEF RunsInv, RunsKept, FirstOf, StartsUnread
<1> QED
  BY <1>6, <1>7, <1>8, <1>9, <1>11 DEF RunsInv

LEMMA EndedRuns ==
  ASSUME RunsInv, EngineInv', NEW a \in Attempts, Ended(a)  PROVE RunsInv'
<1>1. /\ Idle /\ Up /\ tier[a].state \in {"live", "stopping"}
      /\ UNCHANGED <<row, stopped, pending, decided, recorded, phase, live, owed>>
  BY DEF Ended, Ready, Up
<1>2. life[a] = "open"
  BY <1>1, AttemptNow DEF RunsInv
<1>3. PICK cleaning : Commit(a, cleaning, tier[a].killed, <<>>)
  BY DEF Ended
<1> QED
  BY <1>1, <1>2, <1>3, CommitRuns

LEMMA GroupGoneRuns ==
  ASSUME RunsInv, EngineInv', NEW a \in Attempts, GroupGone(a)  PROVE RunsInv'
<1>1. /\ Idle /\ Up
      /\ UNCHANGED <<row, stopped, pending, decided, recorded, phase, live, owed>>
  BY DEF GroupGone, Ready, Up
<1>2. CASE /\ tier' = [tier EXCEPT ![a].cleaning = "no"]
           /\ agenda' = [agenda EXCEPT ![JobOf(a)] = <<<<"ladder_ended", a>>>>]
           /\ UNCHANGED <<life, plan>>
  BY <1>1, <1>2, HoldOverRuns
<1>3. CASE tier[a].state = "stopping" /\ Commit(a, "no", tier[a].killed, <<<<"release", a>>>>)
  <2>1. life[a] = "open"
    BY <1>1, <1>3, AttemptNow DEF RunsInv
  <2> QED
    BY <1>1, <1>3, <2>1, CommitRuns
<1> QED
  BY <1>2, <1>3 DEF GroupGone

LEMMA CatchUpRuns ==
  ASSUME RunsInv, EngineInv', NEW a \in Attempts, CatchUp(a)  PROVE RunsInv'
<1>1. /\ Idle
      /\ UNCHANGED <<row, stopped, pending, decided, recorded, phase, live, owed>>
  BY DEF CatchUp, Ready
<1>2. ASSUME NEW cleaning, life[a] = "open", Commit(a, cleaning, a \in stopped, <<>>)
      PROVE  RunsInv'
  BY <1>1, <1>2, CommitRuns
<1>3. ASSUME NEW cleaning, tier' = [tier EXCEPT ![a].cleaning = cleaning],
             \/ agenda' = agenda
             \/ agenda' = [agenda EXCEPT ![JobOf(a)] = <<<<"ladder_ended", a>>>>],
             UNCHANGED <<life, plan>>
      PROVE  RunsInv'
  BY <1>1, <1>3, HoldOverRuns
<1> QED
  BY <1>2, <1>3 DEF CatchUp

-----------------------------------------------------------------------------
(* Dispatches.                                                              *)

\* What an attempt tier says that a step is about to put in place.
Told(t) ==
  \A a \in Attempts :
    /\ t[a].state # "unknown" => life[a] # "never"
    /\ life[a] = "open" /\ t[a].killed => tier[a].killed \/ ~Wanted(a)

\* The attempt that a dispatch stops for good is of another run.
LEMMA AfterStopTold ==
  ASSUME RunsInv, Up, NEW a \in Attempts,
         (a \in Runs /\ life[a] = "never") \/ plan[a] = "rerun",
         NEW cleaning, NEW t, t = AfterStop(a, cleaning)
  PROVE  Told(t)
<1>1. TypeOK /\ tier \in [Attempts -> TierRecord]
  BY DEF RunsInv, EngineInv, TypeOK
<1>2. \A x \in Attempts : tier[x].state # "unknown" => life[x] # "never"
  BY DEF RunsInv, DispatchedOnly
<1>3. CASE MustStop(a)
  <2>1. PICK x : x = live[JobOf(a)]
    OBVIOUS
  <2>2. x \in Attempts /\ JobOf(x) = JobOf(a) /\ Wanted(a)
    BY <1>1, <1>3, <2>1, AttemptParts DEF MustStop, TypeOK
  <2>3. PICK r : r = Stop(tier[x], cleaning, TRUE)
    OBVIOUS
  <2>4. t = [tier EXCEPT ![x] = r]
    BY <1>3, <2>1, <2>3 DEF AfterStop
  <2>5. /\ r.state # "unknown" => tier[x].state # "unknown"
        /\ tier[x].state # "live" => r = tier[x]
    <3>1. tier[x] \in TierRecord
      BY <1>1, <2>2
    <3> QED
      BY <2>3, <3>1 DEF Stop, TierRecord
  <2>6. ASSUME tier[x].state = "live", Wanted(x)  PROVE FALSE
    <3>1. life[x] = "open"
      BY <2>2, <2>6 DEF RunsInv, EngineInv, TierOK
    <3>2. RunOf(x) = RunOf(a)
      BY <2>2, <2>6, SameRun DEF Wanted
    <3>3. CASE a \in Runs /\ life[a] = "never"
      <4>1. RunOf(x) = a
        BY <3>2, <3>3, RunsAreAttempts
      <4> QED
        BY <2>2, <3>1, <3>3, <4>1, FirstDispatched DEF RunsInv
    <3>4. CASE plan[a] = "rerun"
      <4>1. life[a] \notin {"never", "open"}
        BY <3>4 DEF RunsInv, EngineInv, StoreOK
      <4>2. x = a
        BY <2>2, <3>1, <3>2, <3>4, <4>1, OneCarrier DEF RunsInv
      <4> QED
        BY <3>1, <4>1, <4>2
    <3> QED
      BY <3>3, <3>4
  <2>7. /\ r.state # "unknown" => life[x] # "never"
        /\ r.killed => tier[x].killed \/ ~Wanted(x)
    BY <1>2, <2>2, <2>5, <2>6
  <2>8. t[x] = r /\ \A b \in Attempts : b # x => t[b] = tier[b]
    BY <1>1, <2>2, <2>4
  <2> QED
    BY <1>2, <2>7, <2>8 DEF Told
<1>4. CASE ~MustStop(a)
  BY <1>2, <1>4 DEF AfterStop, Told
<1> QED
  BY <1>3, <1>4

\* A dispatch that is kept back or given up leaves a run still wanted its start, or
\* its plan.
LEMMA NoLaunchRuns ==
  ASSUME RunsInv, EngineInv', NEW j \in Jobs, NEW a \in Attempts, JobOf(a) = j,
         UNCHANGED <<row, life, stopped, decided, recorded, phase, owed>>,
         TierTold, LiveKept, CallsDue',
         \A x \in Attempts : x # a \/ plan[x] = "done" => plan'[x] = plan[x],
         pending \subseteq pending' \cup {a},
         Wanted(a) => a \in pending' \/ plan'[a] \in {"input", "rerun"},
         \A k \in Jobs : SpawnDue(k) => SpawnDue(k)' \/ (k = j /\ a = FirstOf(j))
  PROVE  RunsInv'
<1>1. Followed'
  BY DEF RunsInv, Followed
<1>2. DispatchedOnly'
  BY DEF RunsInv, DispatchedOnly, TierTold, LiveKept
<1>3. StoppedUnwanted'
  BY DEF RunsInv, StoppedUnwanted, Wanted, JobOf, TierTold
<1>4. ASSUME NEW k \in Jobs, row[k].live
      PROVE  \/ Carried(k)' \/ SpawnDue(k)'
             \/ FirstOf(k)' \in decided' \ recorded' /\ StartsUnread'
  <2>1. FirstOf(k)' = FirstOf(k) /\ (StartsUnread => StartsUnread')
    BY DEF FirstOf, StartsUnread
  <2>2. ASSUME InRun(a, k)  PROVE Carried(k)'
    <3>1. Wanted(a)
      BY <1>4, <2>2 DEF InRun, Wanted
    <3> QED
      BY <2>2, <3>1 DEF Carried, InRun, JobOf
  <2>3. ASSUME Carried(k)  PROVE Carried(k)'
    <3>1. PICK x \in Attempts :
            InRun(x, k) /\ (life[x] = "open" \/ plan[x] \in {"input", "rerun"} \/ x \in pending)
      BY <2>3 DEF Carried
    <3>2. CASE x = a
      BY <2>2, <3>1, <3>2
    <3>3. CASE x # a
      BY <3>1, <3>3 DEF Carried, InRun, JobOf
    <3> QED
      BY <3>2, <3>3
  <2>4. k = j /\ a = FirstOf(j) => InRun(a, k)
    BY DEF FirstOf, InRun
  <2> QED
    BY <1>4, <2>1, <2>2, <2>3, <2>4 DEF RunsInv, RunsKept
<1> QED
  BY <1>1, <1>2, <1>3, <1>4 DEF RunsInv, RunsKept

\* What is launched carries its run.
LEMMA LaunchRuns ==
  ASSUME RunsInv, EngineInv', NEW j \in Jobs, NEW b \in Attempts, JobOf(b) = j,
         life[b] = "never", Wanted(b), NEW t, t \in [Attempts -> TierRecord], Told(t),
         Launch(b, t), UNCHANGED <<row, stopped, decided, phase, owed>>, CallsDue',
         \A k \in Jobs : k # j => (SpawnDue(k) => SpawnDue(k)'),
         \A x \in Attempts :
           /\ plan[x] = "done" => plan'[x] = "done"
           /\ JobOf(x) # j => plan'[x] = plan[x] /\ (x \in pending => x \in pending')
           /\ RunOf(x) = RunOf(b) /\ x[3] < b[3] =>
                life[x] \in {"closing", "closed"} /\ plan'[x] = "done"
  PROVE  RunsInv'
<1>1. /\ tier' = [t EXCEPT ![b] = [Unknown EXCEPT !.state = "live"]]
      /\ live' = [live EXCEPT ![j] = b]
      /\ life' = [life EXCEPT ![b] = "open"]
      /\ recorded' = recorded \cup {RunOf(b)}
  BY DEF Launch
<1>2. TypeOK
  BY DEF RunsInv, EngineInv
<1>3. /\ life'[b] = "open" /\ ~tier'[b].killed /\ live'[j] = b
      /\ \A x \in Attempts : x # b => life'[x] = life[x] /\ tier'[x] = t[x]
      /\ \A k \in Jobs : k # j => live'[k] = live[k]
  BY <1>1, <1>2 DEF TypeOK, Unknown
<1>4. Followed'
  <2> SUFFICES ASSUME NEW x \in Attempts, NEW y \in Attempts, RunOf(x) = RunOf(y), x[3] < y[3],
                      life'[y] # "never"
               PROVE  life'[x] \in {"closing", "closed"} /\ plan'[x] = "done"
    BY DEF Followed, RunOf
  <2>1. CASE y = b
    <3>1. x # b
      BY <2>1, SameRun
    <3> QED
      BY <1>3, <2>1, <3>1
  <2>2. CASE y # b
    <3>1. life[x] \in {"closing", "closed"} /\ plan[x] = "done"
      BY <1>3, <2>2 DEF RunsInv, Followed
    <3> QED
      BY <1>3, <3>1
  <2> QED
    BY <2>1, <2>2
<1>5. DispatchedOnly'
  <2>1. \A x \in Attempts : life[x] # "never" => life'[x] # "never"
    BY <1>3
  <2>2. RunOf(b) \in Attempts /\ life'[RunOf(b)] # "never"
    <3>1. RunOf(b) \in Attempts /\ RunOf(b)[3] = 1 /\ RunOf(RunOf(b)) = RunOf(b)
      BY AttemptParts, RunsAreAttempts
    <3>2. b[3] \in Nat /\ b[3] >= 1
      BY AttemptParts, EngineAssumption
    <3>3. CASE b[3] = 1
      BY <1>3, <3>1, <3>3, SameRun
    <3>4. CASE b[3] # 1
      <4>1. RunOf(b)[3] < b[3]
        BY <3>1, <3>2, <3>4
      <4> QED
        BY <2>1, <3>1, <4>1
    <3> QED
      BY <3>1, <3>3, <3>4
  <2>3. \A x \in recorded' : life'[x] # "never"
    <3>1. \A x \in recorded : x \in Attempts /\ life[x] # "never"
      BY <1>2, RunsAreAttempts DEF TypeOK, RunsInv, DispatchedOnly
    <3> QED
      BY <1>1, <2>1, <2>2, <3>1
  <2>4. \A x \in Attempts : x \in stopped' \/ tier'[x].state # "unknown" => life'[x] # "never"
    BY <1>3, <2>1 DEF RunsInv, DispatchedOnly, Told
  <2>5. \A k \in Jobs : live'[k] # None => life'[live'[k]] # "never"
    <3>1. \A k \in Jobs : live[k] # None => live[k] \in Attempts /\ life[live[k]] # "never"
      BY <1>2 DEF TypeOK, RunsInv, DispatchedOnly
    <3> QED
      BY <1>3, <2>1, <3>1
  <2> QED
    BY <2>3, <2>4, <2>5 DEF DispatchedOnly
<1>6. StoppedUnwanted'
  <2> SUFFICES ASSUME NEW x \in Attempts, life'[x] = "open", tier'[x].killed \/ x \in stopped
               PROVE  ~Wanted(x)
    BY DEF StoppedUnwanted, Wanted, JobOf
  <2>1. x # b
    BY <1>3 DEF RunsInv, DispatchedOnly
  <2> QED
    BY <1>3, <2>1 DEF RunsInv, StoppedUnwanted, Told
<1>7. ASSUME NEW k \in Jobs, row[k].live
      PROVE  \/ Carried(k)' \/ SpawnDue(k)'
             \/ FirstOf(k)' \in decided' \ recorded' /\ StartsUnread'
  <2>1. CASE k = j
    <3>1. InRun(b, k)
      BY <2>1 DEF Wanted, InRun
    <3> QED
      BY <1>3, <3>1 DEF Carried, InRun, JobOf
  <2>2. CASE k # j
    <3>1. FirstOf(k)' = FirstOf(k) /\ (StartsUnread => StartsUnread')
      BY DEF FirstOf, StartsUnread
    <3>2. FirstOf(k) # RunOf(b)
      BY <2>2 DEF FirstOf, RunOf, JobOf
    <3>3. ASSUME Carried(k)  PROVE Carried(k)'
      <4>1. PICK x \in Attempts :
              InRun(x, k) /\ (life[x] = "open" \/ plan[x] \in {"input", "rerun"} \/ x \in pending)
        BY <3>3 DEF Carried
      <4>2. JobOf(x) # j /\ x # b
        BY <2>2, <4>1 DEF InRun
      <4> QED
        BY <1>3, <4>1, <4>2 DEF Carried, InRun, JobOf
    <3> QED
      BY <1>1, <1>7, <2>2, <3>1, <3>2, <3>3 DEF RunsInv, RunsKept
  <2> QED
    BY <2>1, <2>2
<1> QED
  BY <1>4, <1>5, <1>6, <1>7 DEF RunsInv, RunsKept

\* Where the start of an agenda's next call stands after the call was made.
LEMMA MadeCall ==
  ASSUME RunsInv, NEW j \in Jobs, NEW name, Calling(j, name), name # "kill",
         NEW more \in Seq(CallSet), NoneDue(more), Then(j, more), row' = row, decided' = decided
  PROVE  /\ CallsDue'
         /\ \A k \in Jobs : SpawnDue(k) => SpawnDue(k)' \/ (k = j /\ Of(j) = FirstOf(j))
<1>1. TypeOK /\ AgendaOK /\ CallsDue
  BY DEF RunsInv, EngineInv
<1>2. agenda[j] # <<>> /\ Head(agenda[j]) = <<name, Of(j)>>
  BY <1>1, HeadFacts
<1>3. /\ CallsDue'
      /\ \A k \in Jobs : SpawnDue(k) => \/ SpawnDue(k)'
                                        \/ k = j /\ Head(agenda[j]) = <<"spawn", FirstOf(j)>>
  BY <1>1, <1>2, CallsStayDue
<1>4. Head(agenda[j]) = <<"spawn", FirstOf(j)>> => Of(j) = FirstOf(j)
  BY <1>2
<1> QED
  BY <1>3, <1>4

LEMMA NoCallMore == <<>> \in Seq(CallSet) /\ NoneDue(<<>>)
  BY DEF NoneDue

\* The start of a run the oracle wants goes, and carries the run.
LEMMA StartGoes ==
  ASSUME RunsInv, EngineInv', NEW j \in Jobs, NEW name \in Starts, Calling(j, name),
         NEW a, a = Of(j), NEW cleaning \in {"no", "ladder"}, NEW t, t = AfterStop(a, cleaning),
         Wanted(a), Launch(a, t), Then(j, <<>>), pending \ {a} \subseteq pending',
         UNCHANGED <<row, stopped, plan, decided, phase, owed>>
  PROVE  RunsInv'
<1>1. TypeOK /\ AgendaOK /\ name # "kill"
  BY DEF RunsInv, EngineInv, Starts
<1>2. a \in Attempts /\ JobOf(a) = j /\ CallOK(<<name, a>>) /\ ~Idle
  BY <1>1, HeadFacts
<1>3. a \in Runs /\ life[a] = "never" /\ a[3] = 1
  BY <1>2, RunsAreAttempts DEF CallOK, Unlaunched
<1>4. Up /\ t \in [Attempts -> TierRecord] /\ Told(t)
  <2>1. Up
    BY <1>2 DEF RunsInv, EngineInv, RecoveryOK, Up
  <2> QED
    BY <1>1, <1>2, <1>3, <2>1, AfterStopOnly, AfterStopTold DEF StopOnly
<1>5. CallsDue' /\ \A k \in Jobs : k # j => (SpawnDue(k) => SpawnDue(k)')
  BY <1>1, NoCallMore, MadeCall
<1>6. \A x \in Attempts :
        /\ plan[x] = "done" => plan'[x] = "done"
        /\ JobOf(x) # j => plan'[x] = plan[x] /\ (x \in pending => x \in pending')
        /\ RunOf(x) = RunOf(a) /\ x[3] < a[3] =>
             life[x] \in {"closing", "closed"} /\ plan'[x] = "done"
  <2>1. \A x \in Attempts : ~(x[3] < a[3])
    BY <1>3, AttemptParts, EngineAssumption
  <2> QED
    BY <1>2, <2>1
<1> QED
  BY <1>2, <1>3, <1>4, <1>5, <1>6, LaunchRuns

\* A start that does not go leaves a pending record, or was not wanted.
LEMMA StartStays ==
  ASSUME RunsInv, EngineInv', NEW j \in Jobs, NEW name \in Starts, Calling(j, name),
         NEW a, a = Of(j), NEW cleaning \in {"no", "ladder"},
         NoLaunch(a, AfterStop(a, cleaning)) \/ UNCHANGED <<tier, live, life, recorded>>,
         Then(j, <<>>), pending \subseteq pending' \cup {a}, Wanted(a) => a \in pending',
         UNCHANGED <<row, stopped, plan, decided, phase, owed>>
  PROVE  RunsInv'
<1>1. TypeOK /\ AgendaOK /\ name # "kill"
  BY DEF RunsInv, EngineInv, Starts
<1>2. a \in Attempts /\ JobOf(a) = j /\ CallOK(<<name, a>>) /\ ~Idle
  BY <1>1, HeadFacts
<1>3. a \in Runs /\ life[a] = "never"
  BY <1>2 DEF CallOK, Unlaunched
<1>4. PICK t : t = AfterStop(a, cleaning)
  OBVIOUS
<1>5. Up /\ Told(t)
  <2>1. Up
    BY <1>2 DEF RunsInv, EngineInv, RecoveryOK, Up
  <2> QED
    BY <1>2, <1>3, <1>4, <2>1, AfterStopTold
<1>6. TierTold /\ LiveKept /\ life' = life /\ recorded' = recorded
  <2>1. CASE NoLaunch(a, AfterStop(a, cleaning))
    BY <1>1, <1>4, <1>5, <2>1 DEF NoLaunch, Told, TierTold, LiveKept, TypeOK
  <2>2. CASE UNCHANGED <<tier, live, life, recorded>>
    BY <2>2, TierSame DEF LiveKept
  <2> QED
    BY <2>1, <2>2
<1>7. /\ CallsDue'
      /\ \A k \in Jobs : SpawnDue(k) => SpawnDue(k)' \/ (k = j /\ a = FirstOf(j))
  BY <1>1, NoCallMore, MadeCall
<1> QED
  BY <1>2, <1>6, <1>7, NoLaunchRuns

LEMMA SpawnRuns == ASSUME RunsInv, EngineInv', NEW j \in Jobs, Spawn(j)  PROVE RunsInv'
<1>1. PICK a : a = Of(j)
  OBVIOUS
<1>2. /\ Calling(j, "spawn") /\ Then(j, <<>>) /\ "spawn" \in Starts
      /\ UNCHANGED <<row, stopped, plan, decided, phase, owed>>
  BY DEF Spawn, Starts
<1>3. CASE phase # "running"
  <2>1. pending' = pending \cup {a} /\ UNCHANGED <<tier, live, life, recorded>>
    BY <1>1, <1>3 DEF Spawn
  <2> QED
    BY <1>1, <1>2, <2>1, StartStays
<1>4. CASE phase = "running"
  <2>1. PICK cleaning \in {"no", "ladder"} :
          LET t == AfterStop(a, cleaning)
              kept == Blocked(t, j, None)
              goes == ~kept /\ Wanted(a)
          IN /\ pending' = IF kept THEN pending \cup {a} ELSE pending
             /\ goes => Launch(a, t)
             /\ ~goes => NoLaunch(a, t)
    BY <1>1, <1>4 DEF Spawn
  <2>2. PICK t : t = AfterStop(a, cleaning)
    OBVIOUS
  <2>3. /\ pending' = IF Blocked(t, j, None) THEN pending \cup {a} ELSE pending
        /\ ~Blocked(t, j, None) /\ Wanted(a) => Launch(a, t)
        /\ ~(~Blocked(t, j, None) /\ Wanted(a)) => NoLaunch(a, t)
    BY <2>1, <2>2
  <2>4. CASE ~Blocked(t, j, None) /\ Wanted(a)
    <3>1. Launch(a, t) /\ pending \ {a} \subseteq pending'
      BY <2>3, <2>4
    <3> QED
      BY <1>1, <1>2, <2>2, <2>4, <3>1, StartGoes
  <2>5. CASE ~(~Blocked(t, j, None) /\ Wanted(a))
    <3>1. NoLaunch(a, AfterStop(a, cleaning))
      BY <2>2, <2>3, <2>5
    <3>2. pending \subseteq pending' \cup {a} /\ (Wanted(a) => a \in pending')
      BY <2>3, <2>5
    <3> QED
      BY <1>1, <1>2, <3>1, <3>2, StartStays
  <2> QED
    BY <2>4, <2>5
<1> QED
  BY <1>3, <1>4

LEMMA DischargeStartRuns ==
  ASSUME RunsInv, EngineInv', NEW j \in Jobs, DischargeStart(j)  PROVE RunsInv'
<1>1. PICK a : a = Of(j)
  OBVIOUS
<1>2. /\ Calling(j, "discharge_start") /\ Then(j, <<>>) /\ "discharge_start" \in Starts
      /\ UNCHANGED <<row, stopped, plan, decided, phase, owed>>
  BY DEF DischargeStart, Starts
<1>3. PICK cleaning \in {"no", "ladder"} :
        LET t == AfterStop(a, cleaning)
            kept == Wanted(a) /\ Blocked(t, j, None)
            goes == Wanted(a) /\ ~kept
        IN /\ pending' = IF kept THEN pending ELSE pending \ {a}
           /\ IF goes THEN Launch(a, t) ELSE NoLaunch(a, t)
  BY <1>1 DEF DischargeStart
<1>4. PICK t : t = AfterStop(a, cleaning)
  OBVIOUS
<1>5. /\ pending' = IF Wanted(a) /\ Blocked(t, j, None) THEN pending ELSE pending \ {a}
      /\ IF Wanted(a) /\ ~Blocked(t, j, None) THEN Launch(a, t) ELSE NoLaunch(a, t)
  BY <1>3, <1>4
<1>6. CASE Wanted(a) /\ ~Blocked(t, j, None)
  <2>1. Launch(a, t) /\ pending \ {a} \subseteq pending'
    BY <1>5, <1>6
  <2> QED
    BY <1>1, <1>2, <1>6, <1>4, <2>1, StartGoes
<1>7. CASE ~Wanted(a)
  <2>1. NoLaunch(a, AfterStop(a, cleaning)) /\ pending \subseteq pending' \cup {a}
    BY <1>5, <1>7, <1>4
  <2> QED
    BY <1>1, <1>2, <1>7, <2>1, StartStays
<1>8. CASE Wanted(a) /\ Blocked(t, j, None)
  <2>1. TypeOK /\ AgendaOK
    BY DEF RunsInv, EngineInv
  <2>2. a \in Attempts /\ CallOK(<<"discharge_start", a>>) /\ ~Idle
    BY <1>1, <1>2, <2>1, HeadFacts
  <2>3. a \in Runs /\ life[a] = "never"
    BY <2>2 DEF CallOK, Starts, Unlaunched
  <2>4. Up
    BY <2>2 DEF RunsInv, EngineInv, RecoveryOK, Up
  <2>5. Told(t)
    BY <1>4, <2>2, <2>3, <2>4, AfterStopTold
  <2>6. TierTold /\ LiveKept /\ LifeKept /\ UNCHANGED <<pending, recorded>>
    BY <1>5, <1>8, <2>1, <2>5 DEF NoLaunch, Told, TierTold, LiveKept, LifeKept, TypeOK
  <2> QED
    BY <1>2, <2>6, NoCallMore, CallRuns
<1> QED
  BY <1>6, <1>7, <1>8

\* A replacement goes with its plan's step done; kept back, its plan stays.
LEMMA DischargePlanRuns ==
  ASSUME RunsInv, EngineInv', NEW j \in Jobs, DischargePlan(j)  PROVE RunsInv'
<1>1. PICK a : a = Of(j)
  OBVIOUS
<1>2. /\ Calling(j, "discharge_plan")
      /\ UNCHANGED <<row, stopped, pending, decided, phase, owed>>
  BY DEF DischargePlan
<1>3. PICK cleaning \in {"no", "ladder"} :
       LET t == AfterStop(a, cleaning)
           kept == Wanted(a) /\ Blocked(t, j, a)
       IN /\ IF kept
             THEN waiting' = waiting \cup {a} /\ Then(j, <<>>) /\ UNCHANGED plan
             ELSE /\ plan' = [plan EXCEPT ![a] = "done"]
                  /\ Then(j, <<<<"perform", a>>>>)
                  /\ UNCHANGED waiting
          /\ IF Wanted(a) /\ ~kept THEN Launch(Replacement(a), t) ELSE NoLaunch(a, t)
  BY <1>1 DEF DischargePlan
<1>4. PICK t : t = AfterStop(a, cleaning)
  OBVIOUS
<1>5. /\ \/ /\ Wanted(a) /\ Blocked(t, j, a) /\ Then(j, <<>>) /\ plan' = plan
         \/ /\ ~(Wanted(a) /\ Blocked(t, j, a))
            /\ plan' = [plan EXCEPT ![a] = "done"] /\ Then(j, <<<<"perform", a>>>>)
      /\ IF Wanted(a) /\ ~Blocked(t, j, a) THEN Launch(Replacement(a), t) ELSE NoLaunch(a, t)
  BY <1>3, <1>4
<1>6. TypeOK /\ AgendaOK
  BY DEF RunsInv, EngineInv
<1>7. a \in Attempts /\ JobOf(a) = j /\ CallOK(<<"discharge_plan", a>>) /\ ~Idle
  BY <1>1, <1>2, <1>6, HeadFacts
<1>8. /\ plan[a] = "rerun" /\ a[3] < MaxAttempts /\ life[Replacement(a)] = "never"
      /\ life[a] \in {"closing", "closed"}
  <2>1. plan[a] = "rerun"
    BY <1>7 DEF CallOK
  <2>2. StoreOK /\ life[a] \in {"never", "open", "closing", "closed"}
    BY <1>6, <1>7 DEF RunsInv, EngineInv, TypeOK
  <2> QED
    BY <1>7, <2>1, <2>2 DEF StoreOK
<1>9. Up /\ t \in [Attempts -> TierRecord] /\ Told(t)
  <2>1. Up
    BY <1>7 DEF RunsInv, EngineInv, RecoveryOK, Up
  <2> QED
    BY <1>6, <1>7, <1>8, <1>4, <2>1, AfterStopOnly, AfterStopTold DEF StopOnly
<1>10. /\ CallsDue'
       /\ \A k \in Jobs : SpawnDue(k) => SpawnDue(k)' \/ (k = j /\ a = FirstOf(j))
  <2>1. PICK more \in {<<>>, <<<<"perform", a>>>>} : Then(j, more)
    BY <1>5
  <2>2. "perform" \in Names \ {"spawn", "kill"}
    BY DEF Names
  <2>3. more \in Seq(CallSet) /\ NoneDue(more)
    BY <1>7, <2>2, FewCalls
  <2> QED
    BY <1>1, <1>2, <2>1, <2>3, MadeCall
<1>11. /\ \A x \in Attempts : x # a \/ plan[x] = "done" => plan'[x] = plan[x]
       /\ ~(Wanted(a) /\ Blocked(t, j, a)) => plan'[a] = "done"
  BY <1>5, <1>6, <1>7, <1>8 DEF TypeOK
<1>12. CASE Wanted(a) /\ ~Blocked(t, j, a)
  <2>1. PICK b \in Attempts :
          /\ b = Replacement(a) /\ JobOf(b) = j /\ b[2] = a[2] /\ b[3] = a[3] + 1
          /\ RunOf(b) = RunOf(a)
    BY <1>7, <1>8, Replacements, SameRun
  <2>2. Wanted(b)
    BY <1>7, <1>12, <2>1 DEF Wanted
  <2>3. \A x \in Attempts :
          RunOf(x) = RunOf(b) /\ x[3] < b[3] =>
            life[x] \in {"closing", "closed"} /\ plan'[x] = "done"
    <3> SUFFICES ASSUME NEW x \in Attempts, RunOf(x) = RunOf(a), x[3] < a[3] + 1
                 PROVE  life[x] \in {"closing", "closed"} /\ plan'[x] = "done"
      BY <2>1
    <3>1. CASE x = a
      BY <1>8, <1>11, <1>12, <3>1
    <3>2. CASE x # a
      <4>1. x[3] < a[3]
        BY <1>7, <3>2, SameRun
      <4>2. life[x] \in {"closing", "closed"} /\ plan[x] = "done"
        BY <1>7, <1>8, <4>1 DEF RunsInv, Followed
      <4> QED
        BY <1>11, <4>2
    <3> QED
      BY <3>1, <3>2
  <2>4. \A x \in Attempts :
          /\ plan[x] = "done" => plan'[x] = "done"
          /\ JobOf(x) # j => plan'[x] = plan[x] /\ (x \in pending => x \in pending')
    BY <1>2, <1>7, <1>11
  <2>5. \A x \in Attempts :
           /\ plan[x] = "done" => plan'[x] = "done"
           /\ JobOf(x) # j => plan'[x] = plan[x] /\ (x \in pending => x \in pending')
           /\ RunOf(x) = RunOf(b) /\ x[3] < b[3] =>
                life[x] \in {"closing", "closed"} /\ plan'[x] = "done"
    BY <2>3, <2>4
  <2>6. Launch(b, t) /\ life[b] = "never"
    BY <1>5, <1>8, <1>12, <2>1
  <2>7. \A k \in Jobs : k # j => (SpawnDue(k) => SpawnDue(k)')
    BY <1>10
  <2> QED
    BY <1>2, <1>9, <1>10, <2>1, <2>2, <2>5, <2>6, <2>7, LaunchRuns
<1>13. CASE ~(Wanted(a) /\ ~Blocked(t, j, a))
  <2>1. TierTold /\ LiveKept /\ UNCHANGED <<life, recorded>>
    BY <1>5, <1>6, <1>9, <1>13 DEF NoLaunch, Told, TierTold, LiveKept, TypeOK
  <2>2. Wanted(a) => plan'[a] \in {"input", "rerun"}
    BY <1>5, <1>8, <1>13
  <2> QED
    BY <1>2, <1>7, <1>10, <1>11, <2>1, <2>2, NoLaunchRuns
<1> QED
  BY <1>12, <1>13

-----------------------------------------------------------------------------
(* Inputs.                                                                  *)

\* The calls an input implies for a job are a start of its next run, where its run
\* number moves, and a kill of its live attempt, where its run is over or replaced.
LEMMA PlannedDue ==
  ASSUME NEW j \in Jobs, NEW c, NEW s, s = NextRun(j), NEW d, d = DispatchPlan(j, c)
  PROVE  /\ \A i \in DOMAIN d :
              \/ StartsRun(c) /\ d[i] = <<"spawn", s>>
              \/ /\ live[j] # None /\ d[i] = <<"kill", live[j]>>
                 /\ c \in {"end", "again", "start_end"}
         /\ c \in {"start", "again"} => \E i \in DOMAIN d : d[i] = <<"spawn", s>>
<1>1. PICK x, y : x = <<"kill", live[j]>> /\ y = <<"spawn", s>>
  OBVIOUS
<1>2. DOMAIN <<>> = {} /\ <<>> \o <<y>> = <<y>> /\ <<y>> \o <<>> = <<y>>
  OBVIOUS
<1>3. /\ DOMAIN (<<x>> \o <<y>>) = {1, 2} /\ (<<x>> \o <<y>>)[1] = x /\ (<<x>> \o <<y>>)[2] = y
      /\ DOMAIN (<<y>> \o <<x>>) = {1, 2} /\ (<<y>> \o <<x>>)[1] = y /\ (<<y>> \o <<x>>)[2] = x
  OBVIOUS
<1>4. CASE live[j] = None
  <2>1. d \in {<<y>>, <<>>} /\ (d = <<y>> <=> StartsRun(c))
    BY <1>1, <1>2, <1>4 DEF DispatchPlan, StartsRun, NextRun
  <2> QED
    BY <1>1, <1>2, <2>1 DEF StartsRun
<1>5. CASE live[j] # None
  <2>1. \/ d = <<y>> /\ c = "start"
        \/ d = <<x>> /\ c = "end"
        \/ d = <<x>> \o <<y>> /\ c = "again"
        \/ d = <<y>> \o <<x>> /\ c = "start_end"
        \/ d = <<>> /\ c \notin {"start", "again"}
    BY <1>1, <1>5 DEF DispatchPlan, NextRun
  <2>2. CASE d = <<y>> /\ c = "start"
    BY <1>1, <2>2 DEF StartsRun
  <2>3. CASE d = <<x>> /\ c = "end"
    BY <1>1, <1>5, <2>3
  <2>4. CASE d = <<x>> \o <<y>> /\ c = "again"
    BY <1>1, <1>3, <1>5, <2>4 DEF StartsRun
  <2>5. CASE d = <<y>> \o <<x>> /\ c = "start_end"
    BY <1>1, <1>3, <1>5, <2>5 DEF StartsRun
  <2>6. CASE d = <<>> /\ c \notin {"start", "again"}
    BY <1>2, <2>6
  <2> QED
    BY <2>1, <2>2, <2>3, <2>4, <2>5, <2>6
<1> QED
  BY <1>4, <1>5

LEMMA ApplyRuns ==
  ASSUME RunsInv, EngineInv', ~Overwrites, Idle,
         NEW c \in [Jobs -> Changes], \A j \in Jobs : Possible(j, c[j]), NEW after, Apply(c, after),
         \A j \in Jobs : after[j] \in Seq(CallSet) /\ Len(after[j]) \in {0, 1} /\ NoneDue(after[j]),
         \A x \in Attempts :
           \/ plan'[x] = plan[x]
           \/ plan'[x] = "done" /\ (Wanted(x) => c[JobOf(x)] \in {"end", "again"}),
         UNCHANGED <<life, stopped, pending, recorded, phase, tier, live, owed>>
  PROVE  RunsInv'
<1>1. /\ row' = [j \in Jobs |-> Moved(row[j], c[j])]
      /\ decided' = decided \cup {NextRun(j) : j \in {k \in Jobs : c[k] \in {"start", "again"}}}
      /\ agenda' = [j \in Jobs |-> DispatchPlan(j, c[j]) \o after[j]]
  BY DEF Apply, ReplayedStarts, NextRun
<1>2. TypeOK
  BY DEF RunsInv, EngineInv
<1>3. ASSUME NEW j \in Jobs
      PROVE  /\ c[j] \in {"none", "start", "end", "again", "start_end", "inactive"}
             /\ StartsRun(c[j]) => row[j].run < MaxRuns
             /\ row[j].run \in Nat
             /\ row'[j].run = IF StartsRun(c[j]) THEN row[j].run + 1 ELSE row[j].run
             /\ row'[j].live => c[j] \in {"start", "again"} \/ (c[j] = "none" /\ row[j].live)
  <2>1. c[j] \in {"none", "start", "end", "again", "start_end", "inactive"}
    BY DEF Changes
  <2>2. StartsRun(c[j]) => row[j].run < MaxRuns
    BY DEF Possible, StartsRun
  <2>3. row[j].run \in Nat
    BY <1>2, EngineAssumption DEF TypeOK
  <2>4. row'[j] = Moved(row[j], c[j])
    BY <1>1
  <2>5. Moved(row[j], c[j]).run = IF StartsRun(c[j]) THEN row[j].run + 1 ELSE row[j].run
    BY DEF Moved, StartsRun
  <2>6. Moved(row[j], c[j]).live => c[j] \in {"start", "again"} \/ (c[j] = "none" /\ row[j].live)
    <3>1. CASE c[j] = "none"
      BY <3>1, Zenon DEF Moved
    <3>2. CASE c[j] # "none"
      <4>1. Moved(row[j], c[j]).live = (c[j] \in {"start", "again", "overwrite"})
        BY <3>2, Zenon DEF Moved
      <4> QED
        BY <2>1, <4>1
    <3> QED
      BY <3>1, <3>2
  <2> QED
    BY <2>1, <2>2, <2>3, <2>4, <2>5, <2>6
<1>4. ASSUME NEW j \in Jobs
      PROVE  /\ \A i \in DOMAIN agenda'[j] : \A y : y = agenda'[j][i] =>
                  \/ StartsRun(c[j]) /\ y = <<"spawn", NextRun(j)>>
                  \/ /\ live[j] # None /\ y = <<"kill", live[j]>>
                     /\ c[j] \in {"end", "again", "start_end"}
                  \/ y[1] \notin {"spawn", "kill"}
             /\ c[j] \in {"start", "again"} =>
                  \E i \in DOMAIN agenda'[j] : agenda'[j][i] = <<"spawn", NextRun(j)>>
  <2>1. PICK s, d, r, n : /\ s = NextRun(j) /\ d = DispatchPlan(j, c[j]) /\ r = after[j]
                          /\ n = d \o r
    OBVIOUS
  <2>2. d \in Seq(CallSet)
    BY <1>3, <2>1, PlannedCalls DEF RunsInv
  <2>3. r \in Seq(CallSet) /\ Len(r) \in {0, 1} /\ NoneDue(r)
    BY <2>1
  <2>4. agenda'[j] = n
    BY <1>1, <2>1
  <2>5. \A i \in DOMAIN n : \/ i \in DOMAIN d /\ n[i] = d[i]
                            \/ i \notin DOMAIN d /\ 1 \in DOMAIN r /\ n[i] = r[1]
    BY <2>1, <2>2, <2>3, CallsAfter
  <2>6. \A i \in DOMAIN d : i \in DOMAIN n /\ n[i] = d[i]
    <3>1. d \in Seq(CallSet) /\ r \in Seq(CallSet) /\ n = d \o r
      BY <2>1, <2>2, <2>3
    <3> QED
      BY <3>1
  <2>7. /\ \A i \in DOMAIN d :
              \/ StartsRun(c[j]) /\ d[i] = <<"spawn", s>>
              \/ /\ live[j] # None /\ d[i] = <<"kill", live[j]>>
                 /\ c[j] \in {"end", "again", "start_end"}
        /\ c[j] \in {"start", "again"} => \E i \in DOMAIN d : d[i] = <<"spawn", s>>
    BY <2>1, PlannedDue
  <2>8. \A i \in DOMAIN n :
          \/ StartsRun(c[j]) /\ n[i] = <<"spawn", s>>
          \/ /\ live[j] # None /\ n[i] = <<"kill", live[j]>>
             /\ c[j] \in {"end", "again", "start_end"}
          \/ n[i][1] \notin {"spawn", "kill"}
    BY <2>3, <2>5, <2>7 DEF NoneDue
  <2>9. c[j] \in {"start", "again"} => \E i \in DOMAIN n : n[i] = <<"spawn", s>>
    BY <2>6, <2>7
  <2> QED
    BY <2>1, <2>4, <2>8, <2>9
<1>5. ASSUME NEW j \in Jobs, live[j] # None, c[j] \in {"end", "again", "start_end"}
      PROVE  ~Wanted(live[j])'
  <2>1. PICK x \in Attempts : x = live[j] /\ JobOf(x) = j /\ Started(x)
    BY <1>2, <1>5 DEF TypeOK, RunsInv, DispatchedOnly, EngineInv, StoreOK
  <2>2. x[2] \in Nat /\ x[2] <= row[j].run
    BY <2>1, AttemptParts, EngineAssumption DEF Started
  <2>3. ~(row'[j].live /\ row'[j].run = x[2])
    BY <1>3, <1>5, <2>2 DEF StartsRun
  <2>4. live' = live
    OBVIOUS
  <2> QED
    BY <2>1, <2>3, <2>4 DEF Wanted, JobOf
<1>6. CallsDue'
  <2> SUFFICES ASSUME NEW j \in Jobs, NEW i \in DOMAIN agenda'[j], NEW y, y = agenda'[j][i]
               PROVE  CallDue(y)'
    BY DueByCalls
  <2>1. CASE StartsRun(c[j]) /\ y = <<"spawn", NextRun(j)>>
    <3>1. PICK s : s = NextRun(j)
      OBVIOUS
    <3>2. y[1] = "spawn" /\ y[2] = s /\ JobOf(s) = j
      BY <2>1, <3>1 DEF NextRun, JobOf
    <3>3. c[j] \in {"start", "again"} => s \in decided'
      BY <1>1, <3>1
    <3>4. row'[j].live => c[j] \in {"start", "again"}
      BY <1>3, <2>1 DEF StartsRun
    <3> QED
      BY <3>2, <3>3, <3>4 DEF CallDue, Wanted, JobOf
  <2>2. CASE live[j] # None /\ y = <<"kill", live[j]>> /\ c[j] \in {"end", "again", "start_end"}
    <3>1. y[1] = "kill" /\ y[2] = live[j] /\ live' = live
      BY <2>2
    <3>2. ~Wanted(live[j])'
      BY <1>5, <2>2
    <3> QED
      BY <3>1, <3>2 DEF CallDue, Wanted, JobOf
  <2>3. CASE y[1] \notin {"spawn", "kill"}
    BY <2>3 DEF CallDue
  <2> QED
    BY <1>4, <2>1, <2>2, <2>3
<1>7. Followed'
  BY DEF RunsInv, Followed
<1>8. DispatchedOnly'
  BY DEF RunsInv, DispatchedOnly
<1>9. StoppedUnwanted'
  <2> SUFFICES ASSUME NEW x \in Attempts, life[x] = "open", tier[x].killed \/ x \in stopped,
                      Wanted(x)'
               PROVE  FALSE
    BY DEF StoppedUnwanted
  <2>1. Started(x) /\ JobOf(x) \in Jobs /\ x[2] \in Nat /\ ~Wanted(x)
    BY AttemptParts, EngineAssumption DEF RunsInv, EngineInv, StoreOK, StoppedUnwanted
  <2>2. row'[JobOf(x)].live /\ row'[JobOf(x)].run = x[2]
    BY DEF Wanted, JobOf
  <2>3. c[JobOf(x)] = "none" /\ row[JobOf(x)].live /\ row[JobOf(x)].run = x[2]
    BY <1>3, <2>1, <2>2 DEF Started, StartsRun
  <2> QED
    BY <2>1, <2>3 DEF Wanted
<1>10. ASSUME NEW j \in Jobs, row'[j].live
       PROVE  \/ Carried(j)' \/ SpawnDue(j)'
              \/ FirstOf(j)' \in decided' \ recorded' /\ StartsUnread'
  <2>1. CASE c[j] \in {"start", "again"}
    <3>1. FirstOf(j)' = NextRun(j)
      BY <1>3, <2>1 DEF FirstOf, NextRun, StartsRun
    <3> QED
      BY <1>4, <2>1, <3>1 DEF SpawnDue
  <2>2. CASE c[j] = "none" /\ row[j].live
    <3>1. row'[j].run = row[j].run /\ FirstOf(j)' = FirstOf(j)
      BY <1>3, <2>2 DEF StartsRun, FirstOf
    <3>2. ASSUME Carried(j)  PROVE Carried(j)'
      <4>1. PICK x \in Attempts :
              InRun(x, j) /\ (life[x] = "open" \/ plan[x] \in {"input", "rerun"} \/ x \in pending)
        BY <3>2 DEF Carried
      <4>2. Wanted(x)
        BY <2>2, <4>1 DEF InRun, Wanted
      <4>3. plan'[x] = plan[x]
        BY <2>2, <4>1, <4>2 DEF InRun
      <4> QED
        BY <3>1, <4>1, <4>3 DEF Carried, InRun, JobOf
    <3>3. ~SpawnDue(j)
      <4>1. DOMAIN <<>> = {} /\ agenda[j] = <<>>
        BY DEF Idle
      <4> QED
        BY <4>1, Zenon DEF SpawnDue
    <3>4. FirstOf(j) \in decided \ recorded /\ StartsUnread =>
            FirstOf(j) \in decided' \ recorded' /\ StartsUnread'
      BY <1>1 DEF StartsUnread
    <3> QED
      BY <2>2, <3>1, <3>2, <3>3, <3>4 DEF RunsInv, RunsKept
  <2> QED
    BY <1>3, <1>10, <2>1, <2>2
<1> QED
  BY <1>6, <1>7, <1>8, <1>9, <1>10 DEF RunsInv, RunsKept

LEMMA InputRuns == ASSUME RunsInv, EngineInv', ~Overwrites, Input  PROVE RunsInv'
<1>1. PICK c \in [Jobs -> Changes] : (\A j \in Jobs : Possible(j, c[j])) /\ Apply(c, NoCalls)
  BY DEF Input
<1>2. Idle /\ UNCHANGED <<life, stopped, plan, pending, recorded, phase, tier, live, owed>>
  BY DEF Input, Ready, memory
<1>3. \A j \in Jobs :
        NoCalls[j] \in Seq(CallSet) /\ Len(NoCalls[j]) \in {0, 1} /\ NoneDue(NoCalls[j])
  BY NoCallMore DEF NoCalls
<1> QED
  BY <1>1, <1>2, <1>3, ApplyRuns

LEMMA PlanInputRuns ==
  ASSUME RunsInv, EngineInv', ~Overwrites, NEW a \in Attempts, PlanInput(a)  PROVE RunsInv'
<1>1. PICK c \in [Jobs -> Changes] :
        /\ \A j \in Jobs : Possible(j, c[j])
        /\ Wanted(a) => c[JobOf(a)] \in {"end", "again"}
        /\ Apply(c, [NoCalls EXCEPT ![JobOf(a)] = <<<<"perform", a>>>>])
  BY DEF PlanInput
<1>2. /\ Idle /\ plan' = [plan EXCEPT ![a] = "done"]
      /\ UNCHANGED <<life, stopped, pending, recorded, phase, tier, live, owed>>
  BY DEF PlanInput, Ready
<1>3. PICK after : after = [NoCalls EXCEPT ![JobOf(a)] = <<<<"perform", a>>>>]
  OBVIOUS
<1>4. /\ <<<<"perform", a>>>> \in Seq(CallSet) /\ Len(<<<<"perform", a>>>>) = 1
      /\ NoneDue(<<<<"perform", a>>>>)
  <2>1. "perform" \in Names \ {"spawn", "kill"}
    BY DEF Names
  <2> QED
    BY <2>1, FewCalls
<1>5. \A j \in Jobs : after[j] \in {<<>>, <<<<"perform", a>>>>}
  BY <1>3 DEF NoCalls
<1>6. ASSUME NEW j \in Jobs
      PROVE  after[j] \in Seq(CallSet) /\ Len(after[j]) \in {0, 1} /\ NoneDue(after[j])
  <2>1. CASE after[j] = <<>>
    BY <2>1, NoCallMore
  <2>2. CASE after[j] = <<<<"perform", a>>>>
    BY <1>4, <2>2
  <2> QED
    BY <1>5, <2>1, <2>2
<1>7. \A x \in Attempts :
        \/ plan'[x] = plan[x]
        \/ plan'[x] = "done" /\ (Wanted(x) => c[JobOf(x)] \in {"end", "again"})
  BY <1>1, <1>2 DEF RunsInv, EngineInv, TypeOK
<1>8. Apply(c, after)
  BY <1>1, <1>3
<1> QED
  BY <1>1, <1>2, <1>6, <1>7, <1>8, ApplyRuns

-----------------------------------------------------------------------------
(* The specification.                                                       *)

LEMMA InitRuns == Init => RunsInv
<1> SUFFICES ASSUME Init  PROVE RunsInv
  OBVIOUS
<1>1. DOMAIN <<>> = {}
  OBVIOUS
<1>2. \A j \in Jobs : ~row[j].live /\ agenda[j] = <<>> /\ live[j] = None
  BY DEF Init
<1>3. \A a \in Attempts : life[a] = "never" /\ tier[a].state = "unknown"
  BY DEF Init, Unknown
<1>4. recorded = {} /\ stopped = {}
  BY DEF Init
<1> QED
  BY <1>1, <1>2, <1>3, <1>4, InitInv
     DEF RunsInv, Followed, DispatchedOnly, StoppedUnwanted, CallsDue, RunsKept

LEMMA NextRuns == ~Overwrites /\ RunsInv /\ [Next]_vars => RunsInv'
<1> SUFFICES ASSUME ~Overwrites, RunsInv, [Next]_vars  PROVE RunsInv'
  OBVIOUS
<1>1. EngineInv'
  BY NextInv DEF RunsInv
<1>2. ASSUME NEW j \in Jobs, Call(j)  PROVE RunsInv'
  BY <1>1, <1>2, KillRuns, SpawnRuns, DischargeStartRuns, DischargePlanRuns, PerformRuns,
     LadderEndedRuns, ReleaseRuns DEF Call
<1>3. ASSUME NEW a \in Attempts, Handler(a)  PROVE RunsInv'
  BY <1>1, <1>3, PlanInputRuns, EndedRuns, CleaningRuns, LadderEndsRuns, GroupGoneRuns,
     TaskDoneRuns, CatchUpRuns, OwedPlanRuns DEF Handler
<1>4. CASE UNCHANGED vars
  <2>1. UNCHANGED <<row, life, stopped, plan, pending, decided, recorded, tier, live, agenda,
                    phase, owed>>
    BY <1>4 DEF vars, store, memory
  <2>2. Followed' /\ DispatchedOnly' /\ StoppedUnwanted'
    BY <2>1 DEF RunsInv, Followed, DispatchedOnly, StoppedUnwanted, Wanted, JobOf
  <2>3. CallsDue'
    BY <2>1 DEF RunsInv, CallsDue, CallDue, Wanted, JobOf
  <2>4. RunsKept'
    BY <2>1 DEF RunsInv, RunsKept, Carried, InRun, SpawnDue, FirstOf, StartsUnread, JobOf
  <2> QED
    BY <1>1, <2>2, <2>3, <2>4 DEF RunsInv
<1>5. CASE Next
  BY <1>1, <1>2, <1>3, <1>5, OwedStartRuns, DischargeRuns, InputRuns, SnapshotRuns,
     BeginDrainRuns, LeaveRuns, CrashRuns, RestartRuns, RecoveryRuns DEF Next
<1> QED
  BY <1>4, <1>5

LEMMA RunsKeptIsEnough == RunsInv => RunNeverLost
<1> SUFFICES ASSUME RunsInv, NEW j \in Jobs, row[j].live
             PROVE  LET run == {a \in Attempts : JobOf(a) = j /\ a[2] = row[j].run} IN
                    \/ \E a \in run : life[a] = "open" \/ plan[a] \in {"input", "rerun"} \/ a \in pending
                    \/ /\ \E a \in run : a \in decided \ recorded
                       /\ ~Ready \/ phase = "recovering"
  BY DEF RunNeverLost
<1>1. CASE Carried(j)
  BY <1>1 DEF Carried, InRun
<1>2. ASSUME FirstOf(j) \in decided \ recorded
      PROVE  FirstOf(j) \in {a \in Attempts : JobOf(a) = j /\ a[2] = row[j].run}
  BY <1>2, RunsAreAttempts DEF RunsInv, EngineInv, TypeOK, FirstOf, JobOf
<1>3. CASE SpawnDue(j)
  <2>1. ~Ready
    <3>1. agenda[j] # <<>>
      <4>1. DOMAIN <<>> = {}
        OBVIOUS
      <4> QED
        BY <1>3, <4>1, Zenon DEF SpawnDue
    <3> QED
      BY <3>1 DEF Ready, Idle
  <2> QED
    BY <1>2, <1>3, <2>1, SpawnFresh
<1>4. CASE FirstOf(j) \in decided \ recorded /\ StartsUnread
  BY <1>2, <1>4 DEF StartsUnread, Ready
<1> QED
  BY <1>1, <1>3, <1>4 DEF RunsInv, RunsKept

\* Where no operator overwrites an ended job's status, a run the oracle wants is never
\* forgotten: over a drain, a crash between any two records, and a restart, an attempt, a
\* plan or a pending record carries it, or its decision does until the restart has read it
\* (commit_outcome, _owe, _pending, _discharge_pending, at_applied_boundary).
THEOREM RunNeverLostHolds == ~Overwrites => (Spec => []RunNeverLost)
<1> SUFFICES ASSUME ~Overwrites  PROVE Spec => []RunNeverLost
  OBVIOUS
<1>1. Init => RunsInv
  BY InitRuns
<1>2. RunsInv /\ [Next]_vars => RunsInv'
  BY NextRuns
<1>3. RunsInv => RunNeverLost
  BY RunsKeptIsEnough
<1> QED
  BY <1>1, <1>2, <1>3, PTL DEF Spec

=============================================================================
