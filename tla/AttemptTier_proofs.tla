-------------------------- MODULE AttemptTier_proofs --------------------------
(***************************************************************************)
(* Proofs about the wrapper, and about one engine and its attempts, for    *)
(* every set of attempts, every combination of faults, either leak policy  *)
(* and any number of crashes.  Then: that a closed attempt is gone, that   *)
(* the engine keeps the contract of AttemptLife with every attempt it      *)
(* dispatches, and that a stop on record is never told as a natural end:   *)
(* for every fault but "turn" (any for the last).  With "turn" the run of  *)
(* AttemptTurn.cfg refutes the first.                                      *)
(***************************************************************************)
EXTENDS AttemptTier, TLAPS

-----------------------------------------------------------------------------
(* The wrapper alone.                                                      *)

USE DEF Processes, WrapperPoints, Records

LEMMA TypeInit == WrapperInit => WrapperTypeOK
  BY DEF WrapperInit, WrapperTypeOK

\* The steps of the wrapper and of its command, which the modules that compose
\* the wrapper with its engine take too.
LEMMA TypeWorld ==
  ASSUME WrapperTypeOK, NEW a \in Attempts, WrapperWorld(a)
  PROVE  WrapperTypeOK'
<1> USE DEF WrapperTypeOK
<1>1. CASE Launch(a)            BY <1>1 DEF Launch
<1>2. CASE RecordSpawn(a)       BY <1>2 DEF RecordSpawn
<1>3. CASE ObserveExit(a)       BY <1>3 DEF ObserveExit
<1>4. CASE ObserveParentLost(a) BY <1>4 DEF ObserveParentLost
<1>5. CASE KillAfterGrace(a)
  <2>1. PICK group \in SUBSET command[a] :
          killed' = [killed EXCEPT ![a] = @ \cup group]
    BY <1>5 DEF KillAfterGrace
  <2>2. UNCHANGED <<wrapper, verdict, command, lifeline, spawnFile, statusFile, endedFirst>>
    BY <1>5 DEF KillAfterGrace
  <2>3. killed' \in [Attempts -> SUBSET (Processes \cup {"wrapper"})]  BY <2>1
  <2>4. \A b \in Attempts : killed'[b] \subseteq command[b] \cup {"wrapper"}  BY <2>1, ZenonT(40)
  <2> QED  BY <2>2, <2>3, <2>4
<1>6. CASE AwaitExit(a)         BY <1>6 DEF AwaitExit
<1>7. CASE RecordStatus(a)      BY <1>7 DEF RecordStatus
<1>8. CASE Reap(a)              BY <1>8 DEF Reap
<1>9. CASE WrapperKilled(a)     BY <1>9 DEF WrapperKilled
<1>10. CASE \E p \in Processes : ProcessEnds(a, p)  BY <1>10 DEF ProcessEnds
<1>11. CASE Fork(a)             BY <1>11 DEF Fork
<1> QED  BY <1>1, <1>2, <1>3, <1>4, <1>5, <1>6, <1>7, <1>8, <1>9, <1>10, <1>11
         DEF WrapperWorld, WrapperMain

LEMMA TypeNext == WrapperTypeOK /\ [WrapperNext]_wrapperVars => WrapperTypeOK'
<1> SUFFICES ASSUME WrapperTypeOK, [WrapperNext]_wrapperVars  PROVE WrapperTypeOK'
  OBVIOUS
<1>1. CASE UNCHANGED wrapperVars  BY <1>1 DEF WrapperTypeOK, wrapperVars
<1>2. ASSUME NEW a \in Attempts, WrapperWorld(a)  PROVE WrapperTypeOK'
  BY <1>2, TypeWorld
<1>3. ASSUME NEW a \in Attempts, Create(a)  PROVE WrapperTypeOK'
  BY <1>3 DEF Create, WrapperTypeOK
<1>4. ASSUME NEW a \in Attempts, SendSpec(a)  PROVE WrapperTypeOK'
  BY <1>4 DEF SendSpec, WrapperTypeOK
<1>5. ASSUME NEW a \in Attempts, LetGo(a)  PROVE WrapperTypeOK'
  BY <1>5 DEF LetGo, WrapperTypeOK
<1> QED  BY <1>1, <1>2, <1>3, <1>4, <1>5 DEF WrapperNext

\* Every variable of every wrapper keeps its range, and only processes that are
\* there are waiting for their KILL.
THEOREM WrapperTypeCorrect == WrapperSpec => []WrapperTypeOK
<1>1. WrapperInit => WrapperTypeOK  BY TypeInit
<1>2. WrapperTypeOK /\ [WrapperNext]_wrapperVars => WrapperTypeOK'  BY TypeNext
<1> QED  BY <1>1, <1>2, PTL DEF WrapperSpec

-----------------------------------------------------------------------------
(* The inductive invariant behind the two safety properties.  A record and *)
(* the verdict it will hold are tied to where the wrapper is, a dead leader *)
(* stays dead once it was launched, and the verdict of a lost parent to a  *)
(* lifeline that never opens again.                                        *)

Verdicts(a) == verdict[a] # "none" <=> wrapper[a] \in {"killing", "recording"}

Unlaunched(a) == wrapper[a] \in {"absent", "reading", "ready"} => command[a] = {}

Recorded(a) ==
  /\ wrapper[a] \in {"recording", "reaping"} => "leader" \notin command[a]
  /\ statusFile[a] # "none" =>
       wrapper[a] \in {"reaping", "exited"} /\ "leader" \notin command[a]

EndedOnce(a) ==
  endedFirst[a] =>
    wrapper[a] \notin {"absent", "reading", "ready"} /\ "leader" \notin command[a]

LostOnce(a) ==
  verdict[a] = "parent_lost" \/ statusFile[a] = "parent_lost" =>
    ~lifeline[a] /\ ~endedFirst[a] /\ wrapper[a] # "absent"

AttemptInv(a) ==
  Verdicts(a) /\ Unlaunched(a) /\ Recorded(a) /\ EndedOnce(a) /\ LostOnce(a)

WrapperInv == WrapperTypeOK /\ \A a \in Attempts : AttemptInv(a)

LEMMA InvInit == WrapperInit => WrapperInv
  BY TypeInit DEF WrapperInit, WrapperInv, AttemptInv, Verdicts, Unlaunched, Recorded,
                  EndedOnce, LostOnce

\* A step of one wrapper's world leaves every other attempt as it was.
LEMMA InvWorld ==
  ASSUME WrapperInv, NEW a \in Attempts, WrapperWorld(a)
  PROVE  WrapperInv'
<1> USE DEF WrapperTypeOK
<1>0. WrapperTypeOK /\ AttemptInv(a)  BY DEF WrapperInv
<1>1. WrapperTypeOK'  BY <1>0, TypeWorld
<1> DEFINE Same(b) ==
      /\ wrapper'[b] = wrapper[b] /\ verdict'[b] = verdict[b]
      /\ command'[b] = command[b] /\ lifeline'[b] = lifeline[b]
      /\ statusFile'[b] = statusFile[b] /\ endedFirst'[b] = endedFirst[b]
<1>2. SUFFICES AttemptInv(a)' /\ \A b \in Attempts \ {a} : Same(b)
  BY <1>1 DEF WrapperInv, AttemptInv, Verdicts, Unlaunched, Recorded, EndedOnce, LostOnce
<1> USE <1>0 DEF AttemptInv, Verdicts, Unlaunched, Recorded, EndedOnce, LostOnce
<1>3. CASE Launch(a)            BY <1>3 DEF Launch
<1>4. CASE RecordSpawn(a)       BY <1>4 DEF RecordSpawn
<1>5. CASE ObserveExit(a)       BY <1>5 DEF ObserveExit
<1>6. CASE ObserveParentLost(a) BY <1>6 DEF ObserveParentLost, ParentLost
<1>7. CASE KillAfterGrace(a)    BY <1>7 DEF KillAfterGrace
<1>8. CASE AwaitExit(a)         BY <1>8 DEF AwaitExit, LeaderEnded
<1>9. CASE RecordStatus(a)      BY <1>9 DEF RecordStatus
<1>10. CASE Reap(a)             BY <1>10 DEF Reap
<1>11. CASE WrapperKilled(a)    BY <1>11 DEF WrapperKilled, WrapperAlive
<1>12. CASE \E p \in Processes : ProcessEnds(a, p)  BY <1>12 DEF ProcessEnds
<1>13. CASE Fork(a)             BY <1>13 DEF Fork
<1> QED  BY <1>3, <1>4, <1>5, <1>6, <1>7, <1>8, <1>9, <1>10, <1>11, <1>12, <1>13
         DEF WrapperWorld, WrapperMain

LEMMA InvNext == WrapperInv /\ [WrapperNext]_wrapperVars => WrapperInv'
<1> SUFFICES ASSUME WrapperInv, [WrapperNext]_wrapperVars  PROVE WrapperInv'
  OBVIOUS
<1> USE DEF WrapperInv, AttemptInv, Verdicts, Unlaunched, Recorded, EndedOnce, LostOnce
<1>1. WrapperTypeOK'  BY TypeNext
<1>2. CASE UNCHANGED wrapperVars  BY <1>1, <1>2 DEF wrapperVars
<1>3. ASSUME NEW a \in Attempts, WrapperWorld(a)  PROVE WrapperInv'
  BY <1>3, InvWorld
<1>4. ASSUME NEW a \in Attempts, Create(a)  PROVE WrapperInv'
  BY <1>1, <1>4 DEF Create, WrapperTypeOK
<1>5. ASSUME NEW a \in Attempts, SendSpec(a)  PROVE WrapperInv'
  BY <1>1, <1>5 DEF SendSpec, WrapperTypeOK
<1>6. ASSUME NEW a \in Attempts, LetGo(a)  PROVE WrapperInv'
  BY <1>1, <1>6 DEF LetGo, WrapperTypeOK
<1> QED  BY <1>2, <1>3, <1>4, <1>5, <1>6 DEF WrapperNext

LEMMA InvAlways == WrapperSpec => []WrapperInv
<1>1. WrapperInit => WrapperInv  BY InvInit
<1>2. WrapperInv /\ [WrapperNext]_wrapperVars => WrapperInv'  BY InvNext
<1> QED  BY <1>1, <1>2, PTL DEF WrapperSpec

\* Wherever status.json exists, the leader it speaks of is dead: main() writes
\* it only behind an observed exit.
THEOREM RecordsAreTrue == WrapperSpec => []RecordMeansLeaderDead
<1>1. WrapperInv => RecordMeansLeaderDead
  BY DEF WrapperInv, AttemptInv, Recorded, RecordMeansLeaderDead
<1> QED  BY <1>1, InvAlways, PTL

\* A command that ended before the lifeline closed is never reported as lost
\* with its parent: main() looks for the exit first on every wakeup.
THEOREM CompletionsStand == WrapperSpec => []CompletionBeatsParentDeath
<1>1. WrapperInv => CompletionBeatsParentDeath
  BY DEF WrapperInv, AttemptInv, LostOnce, CompletionBeatsParentDeath
<1> QED  BY <1>1, InvAlways, PTL

HIDE DEF Processes, WrapperPoints, Records

-----------------------------------------------------------------------------
(* One attempt's record.  The outcome is there exactly once the attempt is *)
(* ENDED, nothing is pending before the attempt exists or after it is      *)
(* forgotten, and a record timer is restarted at most once.                *)

RecordOK(r) ==
  /\ (r.state = "ENDED") <=> (r.outcome # "none")
  /\ r.planDone => r.state = "ENDED"
  /\ r.state \in {"NONE", "FORGOTTEN"} => ~LadderPending(r) /\ ~Held(r)
  /\ r.state \in {"NONE", "FORGOTTEN", "SPAWNING", "RUNNING"} => r.gen = 0
  /\ r.state = "RUNNING" => r.spawn
  /\ r.state = "STOPPING" /\ ~r.spawn => r.gen <= 1

\* What an event may make of a record: a live attempt moves on or ends, any
\* other stays where it is, with its ladder and its holds as they are.
Moves(r, s) ==
  /\ s \in TierRecord
  /\ RecordOK(s)
  /\ s.planDone <=> r.planDone
  /\ \/ r.state \in Live /\ s.state \in Live \cup {"ENDED"}
     \/ /\ s.state = r.state
        /\ s.outcome = r.outcome
        /\ LadderPending(s) <=> LadderPending(r)
        /\ Held(s) <=> Held(r)

LEMMA BlankOK == Blank \in TierRecord /\ RecordOK(Blank)
  BY DEF Blank, TierRecord, RecordOK, LadderPending, Held, Live, Outcomes, Causes

LEMMA MovesOn ==
  ASSUME NEW r, NEW s, NEW t, Moves(r, s), Moves(s, t)
  PROVE  Moves(r, t)
  BY DEF Moves, Live

LEMMA SpawnRecordedMoves ==
  ASSUME NEW r \in TierRecord, RecordOK(r)
  PROVE  Moves(r, SpawnRecorded(r))
<1> USE DEF TierRecord, RecordOK, Moves, Live, LadderPending, Held
<1>1. CASE r.spawn  BY <1>1 DEF SpawnRecorded
<1>2. CASE ~r.spawn /\ r.state = "SPAWNING"
  <2>1. SpawnRecorded(r) = [r EXCEPT !.spawn = TRUE, !.state = "RUNNING"]
    BY <1>2 DEF SpawnRecorded
  <2> QED  BY <1>2, <2>1
<1>3. CASE ~r.spawn /\ r.state = "STOPPING"
  <2>1. SpawnRecorded(r) = Restarted([r EXCEPT !.spawn = TRUE])
    BY <1>3 DEF SpawnRecorded
  <2>2. r.gen + 1 \in 0..2  BY <1>3
  <2> QED  BY <1>3, <2>1, <2>2 DEF Restarted
<1>4. CASE ~r.spawn /\ r.state \notin {"SPAWNING", "STOPPING"}
  <2>1. SpawnRecorded(r) = [r EXCEPT !.spawn = TRUE]
    BY <1>4 DEF SpawnRecorded
  <2> QED  BY <1>4, <2>1, ZenonT(40)
<1> QED  BY <1>1, <1>2, <1>3, <1>4

LEMMA EndMoves ==
  ASSUME NEW a \in Attempts, NEW r \in TierRecord, RecordOK(r), r.state \in Live,
         NEW outcome \in Outcomes, NEW fails \in BOOLEAN
  PROVE  Moves(r, End(a, r, outcome, fails)) /\ End(a, r, outcome, fails).state = "ENDED"
<1> DEFINE Ended(s) ==
      /\ s \in TierRecord /\ s.state = "ENDED" /\ s.outcome # "none"
      /\ s.planDone <=> r.planDone
<1>1. PICK e : e = [r EXCEPT !.state = "ENDED", !.outcome = outcome, !.timer = 0]  OBVIOUS
<1>2. Ended(e)
  <2>1. 0 \in 0..2  OBVIOUS
  <2>2. outcome # "none"  BY DEF Outcomes
  <2> QED  BY <1>1, <2>1, <2>2 DEF TierRecord
<1>3. Ended([e EXCEPT !.survived = TRUE, !.leakHold = TRUE])  BY <1>2 DEF TierRecord
<1>4. Ended([e EXCEPT !.ladder = IF @ = "none" THEN "laddering" ELSE "verdict"])
  BY <1>2 DEF TierRecord
<1>5. Ended(WhatIsLeft(a, e, fails))  BY <1>2, <1>3, <1>4 DEF WhatIsLeft
<1>6. End(a, r, outcome, fails) = WhatIsLeft(a, e, fails)  BY <1>1 DEF End
<1> QED  BY <1>5, <1>6 DEF Moves, RecordOK

LEMMA OutcomeIsOne ==
  ASSUME NEW record, NEW stopping  PROVE OutcomeOf(record, stopping) \in Outcomes
  BY DEF OutcomeOf, Outcomes

LEMMA StaysMoves == ASSUME NEW r \in TierRecord, RecordOK(r)  PROVE Moves(r, r)
  BY DEF Moves

LEMMA StatusRecordedMoves ==
  ASSUME NEW a \in Attempts, NEW r \in TierRecord, RecordOK(r), NEW fails \in BOOLEAN
  PROVE  Moves(r, StatusRecorded(a, r, fails))
  BY EndMoves, OutcomeIsOne, StaysMoves DEF StatusRecorded

LEMMA SpawnFailedMoves ==
  ASSUME NEW a \in Attempts, NEW r \in TierRecord, RecordOK(r), NEW fails \in BOOLEAN
  PROVE  Moves(r, SpawnFailed(a, r, fails))
<1>1. "spawn_failed" \in Outcomes  BY DEF Outcomes
<1> QED  BY <1>1, EndMoves, StaysMoves DEF SpawnFailed, Live

LEMMA EngineDiedMoves ==
  ASSUME NEW a \in Attempts, NEW r \in TierRecord, RecordOK(r), r.state \in Live,
         NEW fails \in BOOLEAN
  PROVE  Moves(r, EngineDied(a, r, fails))
<1>1. "unobservable" \in Outcomes  BY DEF Outcomes
<1> QED  BY <1>1, EndMoves DEF EngineDied

\* A stop's first row, from SPAWNING or RUNNING, raises the generation to 1.
LEMMA StoppedMoves ==
  ASSUME NEW r \in TierRecord, RecordOK(r), r.state \in {"SPAWNING", "RUNNING"},
         NEW cause \in Causes, NEW timer \in 0..2, NEW awaiting \in BOOLEAN,
         NEW ladder \in {r.ladder, "laddering"}, NEW s,
         s = [r EXCEPT !.state = "STOPPING", !.cause = cause, !.gen = @ + 1,
                       !.timer = timer, !.awaiting = awaiting, !.ladder = ladder]
  PROVE  Moves(r, s)
<1>1. r.gen + 1 \in 0..2 /\ r.gen + 1 <= 1  BY DEF RecordOK
<1>2. s \in TierRecord  BY <1>1 DEF TierRecord, Live
<1>3. s.state = "STOPPING" /\ s.outcome = r.outcome /\ s.gen <= 1 /\ (s.planDone <=> r.planDone)
  BY <1>1 DEF TierRecord
<1> QED  BY <1>2, <1>3 DEF Moves, RecordOK, Live

LEMMA StopRowMoves ==
  ASSUME NEW a \in Attempts, NEW r \in TierRecord, RecordOK(r), NEW cause \in Causes
  PROVE  Moves(r, StopRow(a, r, cause))
<1>1. CASE r.state = "SPAWNING"
  <2>1. r.gen + 1 \in 0..2  BY <1>1 DEF RecordOK
  <2>2. AbortWaits(a, r) \in BOOLEAN  BY DEF AbortWaits
  <2>3. StopRow(a, r, cause) =
          [r EXCEPT !.state = "STOPPING", !.cause = cause, !.gen = @ + 1,
                    !.timer = r.gen + 1, !.awaiting = AbortWaits(a, r), !.ladder = r.ladder]
    BY <1>1 DEF StopRow, TierRecord
  <2> QED  BY <1>1, <2>1, <2>2, <2>3, StoppedMoves
<1>2. CASE r.state = "RUNNING"
  <2>1. StopRow(a, r, cause) =
          [r EXCEPT !.state = "STOPPING", !.cause = cause, !.gen = @ + 1,
                    !.timer = r.timer, !.awaiting = r.awaiting, !.ladder = "laddering"]
    BY <1>2 DEF StopRow, Restarted, TierRecord
  <2>2. r.timer \in 0..2 /\ r.awaiting \in BOOLEAN  BY DEF TierRecord
  <2> QED  BY <1>2, <2>1, <2>2, StoppedMoves, ZenonT(40)
<1>3. CASE r.state \notin {"SPAWNING", "RUNNING"}  BY <1>3, StaysMoves DEF StopRow
<1> QED  BY <1>1, <1>2, <1>3

LEMMA RestoredStopMoves ==
  ASSUME NEW r \in TierRecord, RecordOK(r), NEW cause \in Causes
  PROVE  Moves(r, RestoredStop(r, cause))
<1>1. CASE r.state \in {"SPAWNING", "RUNNING"}
  <2>1. PICK s : s = [r EXCEPT !.state = "STOPPING", !.cause = cause, !.gen = @ + 1]  OBVIOUS
  <2>2. r.gen + 1 \in 0..2 /\ r.gen + 1 <= 1  BY <1>1 DEF RecordOK
  <2>3. s \in TierRecord  BY <2>1, <2>2 DEF TierRecord, Live
  <2>4. s.state = "STOPPING" /\ s.outcome = r.outcome /\ s.gen <= 1 /\ (s.planDone <=> r.planDone)
    BY <2>1, <2>2 DEF TierRecord
  <2>5. Moves(r, s)  BY <1>1, <2>3, <2>4 DEF Moves, RecordOK, Live
  <2> QED  BY <1>1, <2>1, <2>5 DEF RestoredStop
<1>2. CASE r.state \notin {"SPAWNING", "RUNNING"}  BY <1>2, StaysMoves DEF RestoredStop
<1> QED  BY <1>1, <1>2

LEMMA WrapperExitedMoves ==
  ASSUME NEW a \in Attempts, NEW r \in TierRecord, RecordOK(r), NEW fails \in BOOLEAN
  PROVE  Moves(r, WrapperExited(a, r, fails))
<1>1. CASE r.state \notin Live  BY <1>1, StaysMoves DEF WrapperExited
<1>2. CASE r.state \in Live /\ CommandAlive(a, r, fails) /\ r.state = "RUNNING"
  <2>1. WrapperExited(a, r, fails) =
          [r EXCEPT !.state = "STOPPING", !.cause = "wrapper_lost", !.gen = @ + 1,
                    !.timer = r.timer, !.awaiting = r.awaiting, !.ladder = "laddering"]
    BY <1>2 DEF WrapperExited, Restarted, TierRecord
  <2>2. r.timer \in 0..2 /\ r.awaiting \in BOOLEAN /\ "wrapper_lost" \in Causes
    BY DEF TierRecord, Causes
  <2> QED  BY <1>2, <2>1, <2>2, StoppedMoves, ZenonT(40)
<1>3. CASE r.state \in Live /\ CommandAlive(a, r, fails) /\ r.state # "RUNNING"
  BY <1>3, StaysMoves DEF WrapperExited
<1>4. CASE r.state \in Live /\ ~CommandAlive(a, r, fails)
  <2>1. "unobservable" \in Outcomes  BY DEF Outcomes
  <2> QED  BY <1>4, <2>1, EndMoves DEF WrapperExited
<1> QED  BY <1>1, <1>2, <1>3, <1>4

LEMMA RecordTimeoutMoves ==
  ASSUME NEW a \in Attempts, NEW r \in TierRecord, RecordOK(r),
         NEW generation \in 0..2, NEW fails \in BOOLEAN
  PROVE  Moves(r, RecordTimeout(a, r, generation, fails))
<1> DEFINE launched == spawnFile[a] /\ ~r.spawn
           seen == IF launched THEN SpawnRecorded(r) ELSE r
<1>1. Moves(r, seen)  BY SpawnRecordedMoves, StaysMoves
<1>2. seen \in TierRecord /\ RecordOK(seen)  BY <1>1 DEF Moves
<1>3. Moves(r, StatusRecorded(a, seen, fails))  BY <1>1, <1>2, StatusRecordedMoves, MovesOn
<1>4. ASSUME Current(r, generation)
      PROVE  /\ Moves(r, [r EXCEPT !.timer = generation])
             /\ Moves(r, [r EXCEPT !.survived = TRUE])
             /\ Moves(r, End(a, r, "unobservable", fails))
  <2>1. r.state = "STOPPING" /\ r.state \in Live  BY <1>4 DEF Current, Live
  <2>2. Moves(r, [r EXCEPT !.timer = generation])
    BY <2>1 DEF Moves, RecordOK, TierRecord
  <2>3. Moves(r, [r EXCEPT !.survived = TRUE])
    BY <2>1 DEF Moves, RecordOK, TierRecord
  <2>4. "unobservable" \in Outcomes  BY DEF Outcomes
  <2> QED  BY <2>1, <2>2, <2>3, <2>4, EndMoves
<1> HIDE DEF seen
<1>5. RecordTimeout(a, r, generation, fails) \in
        {r, StatusRecorded(a, seen, fails), seen, [r EXCEPT !.timer = generation],
         [r EXCEPT !.survived = TRUE], End(a, r, "unobservable", fails)}
  BY DEF RecordTimeout, seen
<1>6. CASE ~Current(r, generation)  BY <1>6, StaysMoves DEF RecordTimeout
<1>7. CASE Current(r, generation)
  <2>1. \/ Moves(r, RecordTimeout(a, r, generation, fails))
        \/ RecordTimeout(a, r, generation, fails) \in {r, seen}
    BY <1>3, <1>4, <1>5, <1>7
  <2> QED  BY <2>1, <1>1, StaysMoves
<1> QED  BY <1>6, <1>7

-----------------------------------------------------------------------------
(* The inductive invariant.  The engine's memory and the store agree on     *)
(* each attempt: a live one is open, one whose outcome is committed stays   *)
(* closing only for a ladder, a hold or the cleanup a restart owes it, and  *)
(* an input that is due is known to be due.  After a clean shutdown nothing *)
(* unsettled is left to change any of it.                                   *)

StoreOK(st) == (st.open \in {"closing", "closed"}) <=> (st.outcome # "none")

Linked(r, st, o, ad) ==
  /\ r.state \in Live => st.open = "open"
  /\ r.state = "ENDED" => st.open \in {"closing", "closed"}
  /\ r.state \in {"NONE", "FORGOTTEN"} => st.open \in {"never", "closed"}
  /\ st.open = "closing" => LadderPending(r) \/ Held(r) \/ o = "cleanup"
  /\ o = "observe" => r.state \in Live
  /\ o = "cleanup" => r.state = "ENDED"
  /\ o # "none" => r.timer = 0 /\ ~LadderPending(r) /\ ~Held(r) /\ ad = "none"

InputDue(r, st) == st.plan = "input" => r.state = "ENDED" /\ ~r.planDone

Undisturbed ==
  \A a \in Attempts : owed[a] = "none" /\ ~Unsettled(tier[a]) /\ store[a].plan # "input"

TierInv ==
  /\ TierTypeOK
  /\ \A a \in Attempts : RecordOK(tier[a]) /\ StoreOK(store[a])
  /\ EngineUp => \A a \in Attempts : Linked(tier[a], store[a], owed[a], adapter[a])
  /\ phase = "DOWN" => \A a \in Attempts : adapter[a] = "none"
  /\ phase \in {"RUNNING", "DRAINING"} =>
       \A a \in Attempts : owed[a] = "none" /\ InputDue(tier[a], store[a])
  /\ leaving = "clean_shutdown" => phase = "STOPPED" /\ Undisturbed

LEMMA TierInvInit == Init => TierInv
<1> SUFFICES ASSUME Init  PROVE TierInv
  OBVIOUS
<1>1. WrapperTypeOK  BY TypeInit DEF Init
<1>2. NeverDispatched \in StoreRecord /\ StoreOK(NeverDispatched)
  BY DEF NeverDispatched, StoreRecord, StoreOK, Outcomes, Causes
<1>3. crashes \in 0..MaxCrashes  BY TierAssumption DEF Init
<1>4. TierTypeOK  BY <1>1, <1>2, <1>3, BlankOK DEF Init, TierTypeOK
<1>5. \A a \in Attempts : Linked(tier[a], store[a], owed[a], adapter[a])
  BY DEF Init, Linked, Blank, NeverDispatched, Live
<1> QED  BY <1>2, <1>4, <1>5, BlankOK DEF Init, TierInv, EngineUp

\* A step that changes one attempt keeps the invariant when what it makes of
\* that attempt fits; a drain's end is read off the invariant.
LEMMA OneAttempt ==
  ASSUME TierInv, EngineUp, NEW a \in Attempts,
         NEW r \in TierRecord, RecordOK(r), tier' = [tier EXCEPT ![a] = r],
         NEW st \in StoreRecord, StoreOK(st), store' = [store EXCEPT ![a] = st],
         NEW o \in {"none", owed[a]}, owed' = [owed EXCEPT ![a] = o],
         NEW ad, adapter' = [adapter EXCEPT ![a] = ad],
         Linked(r, st, o, ad),
         phase \in {"RUNNING", "DRAINING"} => InputDue(r, st),
         leaving = "clean_shutdown" => ~Unsettled(r) /\ st.plan # "input",
         NEW called \in BOOLEAN, SettleCheck(called),
         WrapperTypeOK',
         ad \in {"none", "spawning", "unlaunched", "sending", "polling", "waiting", "done"},
         aborted' \in [Attempts -> BOOLEAN], UNCHANGED crashes
  PROVE  TierInv'
<1> USE DEF TierInv, EngineUp
<1>1. /\ tier \in [Attempts -> TierRecord] /\ store \in [Attempts -> StoreRecord]
      /\ owed \in [Attempts -> {"none", "observe", "cleanup"}]
      /\ adapter \in [Attempts ->
           {"none", "spawning", "unlaunched", "sending", "polling", "waiting", "done"}]
  BY DEF TierTypeOK
<1>2. /\ tier'[a] = r /\ store'[a] = st /\ owed'[a] = o /\ adapter'[a] = ad
      /\ \A b \in Attempts \ {a} :
           /\ tier'[b] = tier[b] /\ store'[b] = store[b]
           /\ owed'[b] = owed[b] /\ adapter'[b] = adapter[b]
  BY <1>1
<1>3. \/ UNCHANGED <<phase, leaving>>
      \/ /\ phase = "DRAINING" /\ \A b \in Attempts : ~Unsettled(tier'[b])
         /\ phase' = "STOPPED" /\ leaving' = "clean_shutdown"
  BY DEF SettleCheck, Settled
<1>4. TierTypeOK'
  <2>1. phase' \in {"STARTING", "RUNNING", "DRAINING", "STOPPED", "DOWN"}
    BY <1>3 DEF TierTypeOK
  <2>2. leaving' \in {"none", "clean_shutdown", "unclean_shutdown", "shutdown_during_startup"}
    BY <1>3 DEF TierTypeOK
  <2>3. /\ tier' \in [Attempts -> TierRecord] /\ store' \in [Attempts -> StoreRecord]
        /\ owed' \in [Attempts -> {"none", "observe", "cleanup"}]
        /\ adapter' \in [Attempts ->
             {"none", "spawning", "unlaunched", "sending", "polling", "waiting", "done"}]
    BY <1>1
  <2> QED  BY <2>1, <2>2, <2>3 DEF TierTypeOK
<1>5. \A b \in Attempts : RecordOK(tier'[b]) /\ StoreOK(store'[b])  BY <1>2
<1>6. \A b \in Attempts : Linked(tier'[b], store'[b], owed'[b], adapter'[b])  BY <1>2
<1>7. phase \in {"RUNNING", "DRAINING"} =>
        \A b \in Attempts : owed'[b] = "none" /\ InputDue(tier'[b], store'[b])
  BY <1>2
<1>8. leaving = "clean_shutdown" => Undisturbed'
  BY <1>2 DEF Undisturbed
<1>9. phase = "DRAINING" /\ (\A b \in Attempts : ~Unsettled(tier'[b])) => Undisturbed'
  BY <1>7 DEF Undisturbed, InputDue, Unsettled
<1> QED  BY <1>3, <1>4, <1>5, <1>6, <1>7, <1>8, <1>9

LEMMA KeptFits ==
  ASSUME NEW r \in TierRecord, RecordOK(r)
  PROVE  /\ Kept(r) \in TierRecord /\ RecordOK(Kept(r))
         /\ ~Unsettled(r) => ~Unsettled(Kept(r))
         /\ \/ Kept(r) = r
            \/ /\ Kept(r).state = "FORGOTTEN" /\ r.state = "ENDED" /\ r.planDone
               /\ ~LadderPending(r) /\ ~Held(r)
<1>1. CASE ~Over(r)  BY <1>1 DEF Kept
<1>2. CASE Over(r)
  <2>1. Kept(r) = [Blank EXCEPT !.state = "FORGOTTEN"]  BY <1>2 DEF Kept
  <2>2. Kept(r) \in TierRecord /\ Kept(r).state = "FORGOTTEN"
    BY <2>1, BlankOK DEF TierRecord
  <2>3. RecordOK(Kept(r)) /\ ~Unsettled(Kept(r))
    BY <2>1 DEF Blank, RecordOK, LadderPending, Held, Unsettled, Live
  <2> QED  BY <1>2, <2>2, <2>3 DEF Over, RecordOK
<1> QED  BY <1>1, <1>2

\* What commit_outcome and the settle check make of a handler that moved its
\* attempt from tier[a] to r.
LEMMA HandledStep ==
  ASSUME TierInv, EngineUp, NEW a \in Attempts, NEW r, Moves(tier[a], r),
         owed[a] \in {"none", "observe"}, owed' = [owed EXCEPT ![a] = "none"],
         NEW cause, NEW called \in BOOLEAN, Handled(a, r, cause, called),
         NEW ad, adapter' = [adapter EXCEPT ![a] = ad],
         WrapperTypeOK',
         ad \in {"none", "spawning", "unlaunched", "sending", "polling", "waiting", "done"},
         aborted' \in [Attempts -> BOOLEAN], UNCHANGED crashes
  PROVE  TierInv'
<1>1. /\ tier \in [Attempts -> TierRecord] /\ store \in [Attempts -> StoreRecord]
      /\ RecordOK(tier[a]) /\ StoreOK(store[a])
      /\ Linked(tier[a], store[a], owed[a], adapter[a])
      /\ phase \in {"RUNNING", "DRAINING"} => owed[a] = "none" /\ InputDue(tier[a], store[a])
      /\ leaving = "clean_shutdown" => ~Unsettled(tier[a]) /\ store[a].plan # "input"
  BY DEF TierInv, TierTypeOK, Undisturbed
<1>2. r \in TierRecord /\ RecordOK(r) /\ (r.planDone <=> tier[a].planDone)  BY DEF Moves
<1>3. CASE r.outcome = tier[a].outcome
  <2>1. /\ tier' = [tier EXCEPT ![a] = Kept(r)] /\ store' = [store EXCEPT ![a] = store[a]]
        /\ SettleCheck(called)
    BY <1>1, <1>3 DEF Handled
  <2>2. \/ tier[a].state \in Live /\ r.state \in Live
        \/ /\ r.state = tier[a].state /\ (LadderPending(r) <=> LadderPending(tier[a]))
           /\ (Held(r) <=> Held(tier[a]))
    BY <1>1, <1>2, <1>3 DEF Moves, RecordOK, Live
  <2>3. Linked(Kept(r), store[a], "none", ad)
    <3>1. Linked(r, store[a], "none", ad)  BY <1>1, <2>2 DEF Linked, Live
    <3> QED  BY <3>1, <1>2, KeptFits DEF Linked, Live
  <2>4. phase \in {"RUNNING", "DRAINING"} => InputDue(Kept(r), store[a])
    BY <1>1, <1>2, <2>2, KeptFits DEF InputDue, Live
  <2>5. leaving = "clean_shutdown" => ~Unsettled(Kept(r))
    BY <1>1, <1>2, <2>2, KeptFits DEF Unsettled, Live
  <2>6. /\ Kept(r) \in TierRecord /\ RecordOK(Kept(r)) /\ store[a] \in StoreRecord
        /\ "none" \in {"none", owed[a]}
        /\ leaving = "clean_shutdown" => store[a].plan # "input"
    BY <1>1, <1>2, KeptFits
  <2> HIDE DEF Kept
  <2> QED  BY <1>1, <2>1, <2>3, <2>4, <2>5, <2>6, OneAttempt
<1>4. CASE r.outcome # tier[a].outcome
  <2>1. tier[a].state \in Live /\ r.state = "ENDED" /\ r.outcome # "none"
    BY <1>1, <1>2, <1>4 DEF Moves, RecordOK, Live
  <2>2. PICK plan \in Plans(r.outcome, cause) :
          /\ store' = [store EXCEPT ![a].open = OpenAfter(r), ![a].outcome = r.outcome,
                                    ![a].plan = plan]
          /\ tier' = [tier EXCEPT ![a] = Kept([r EXCEPT !.planDone = (plan = "none")])]
          /\ SettleCheck(called \/ plan = "none")
    BY <1>4 DEF Handled
  <2>3. PICK st : st = [store[a] EXCEPT !.open = OpenAfter(r), !.outcome = r.outcome, !.plan = plan]
    OBVIOUS
  <2>4. PICK s : s = [r EXCEPT !.planDone = (plan = "none")]  OBVIOUS
  <2>5. plan \in {"none", "input", "rerun"}  BY DEF Plans
  <2>6. OpenAfter(r) \in {"closing", "closed"}  BY DEF OpenAfter
  <2>7. st \in StoreRecord /\ StoreOK(st) /\ st.open = OpenAfter(r) /\ st.plan = plan
    <3>1. r.outcome \in Outcomes \cup {"none"}  BY <1>2 DEF TierRecord
    <3>2. st \in StoreRecord  BY <1>1, <2>3, <2>5, <2>6, <3>1 DEF StoreRecord
    <3>3. st.open = OpenAfter(r) /\ st.plan = plan /\ st.outcome = r.outcome
      BY <1>1, <2>3 DEF StoreRecord
    <3> QED  BY <2>1, <2>6, <3>2, <3>3 DEF StoreOK
  <2>8. /\ s \in TierRecord /\ s.state = "ENDED" /\ s.outcome = r.outcome
        /\ (LadderPending(s) <=> LadderPending(r)) /\ (Held(s) <=> Held(r))
        /\ (s.planDone <=> plan = "none")
    BY <1>2, <2>1, <2>4 DEF TierRecord, LadderPending, Held
  <2>9. RecordOK(s)  BY <2>1, <2>8 DEF RecordOK
  <2>10. store' = [store EXCEPT ![a] = st] /\ tier' = [tier EXCEPT ![a] = Kept(s)]
    BY <1>1, <2>2, <2>3, <2>4
  <2>11. Linked(Kept(s), st, "none", ad)
    <3>1. Linked(s, st, "none", ad)
      BY <2>1, <2>6, <2>7, <2>8 DEF Linked, Live, OpenAfter
    <3> QED  BY <3>1, <2>8, <2>9, KeptFits DEF Linked, Live
  <2>12. InputDue(Kept(s), st)  BY <2>7, <2>8, <2>9, KeptFits DEF InputDue
  <2>13. leaving # "clean_shutdown"  BY <1>1, <2>1 DEF Unsettled
  <2>14. /\ Kept(s) \in TierRecord /\ RecordOK(Kept(s)) /\ "none" \in {"none", owed[a]}
         /\ (called \/ plan = "none") \in BOOLEAN
    BY <2>8, <2>9, KeptFits
  <2>15. SettleCheck(called \/ plan = "none")  BY <2>2
  <2> QED  BY <2>7, <2>10, <2>11, <2>12, <2>13, <2>14, <2>15, OneAttempt
<1> QED  BY <1>3, <1>4

-----------------------------------------------------------------------------
(* Every step keeps the invariant.                                         *)

AdapterPoints == {"none", "spawning", "unlaunched", "sending", "polling", "waiting", "done"}

LEMMA Parts ==
  ASSUME TierInv, EngineUp, NEW a \in Attempts
  PROVE  /\ tier \in [Attempts -> TierRecord] /\ store \in [Attempts -> StoreRecord]
         /\ owed \in [Attempts -> {"none", "observe", "cleanup"}]
         /\ adapter \in [Attempts -> AdapterPoints]
         /\ aborted \in [Attempts -> BOOLEAN]
         /\ RecordOK(tier[a]) /\ StoreOK(store[a]) /\ WrapperTypeOK
         /\ Linked(tier[a], store[a], owed[a], adapter[a])
         /\ phase \in {"RUNNING", "DRAINING"} => owed[a] = "none" /\ InputDue(tier[a], store[a])
         /\ leaving = "clean_shutdown" =>
              phase = "STOPPED" /\ ~Unsettled(tier[a]) /\ store[a].plan # "input"
  BY DEF TierInv, TierTypeOK, Undisturbed, AdapterPoints

\* A live, pending or held attempt excludes a clean shutdown.
LEMMA NotClean ==
  ASSUME TierInv, EngineUp, NEW a \in Attempts,
         tier[a].state \in Live \/ LadderPending(tier[a]) \/ Held(tier[a])
  PROVE  leaving # "clean_shutdown"
<1>1. tier[a].state \in Live \cup {"NONE", "ENDED", "FORGOTTEN"}
  BY Parts DEF TierRecord
<1> QED  BY <1>1, Parts DEF Unsettled, RecordOK

\* The adapter's task moves and nothing else of the engine does.
LEMMA AdapterStep ==
  ASSUME TierInv, EngineUp, NEW a \in Attempts, owed[a] = "none",
         NEW ad \in AdapterPoints, adapter' = [adapter EXCEPT ![a] = ad],
         UNCHANGED <<phase, leaving, tier, aborted, owed, store, crashes>>, WrapperTypeOK'
  PROVE  TierInv'
<1>1. /\ tier' = [tier EXCEPT ![a] = tier[a]] /\ store' = [store EXCEPT ![a] = store[a]]
      /\ owed' = [owed EXCEPT ![a] = "none"] /\ aborted' \in [Attempts -> BOOLEAN]
      /\ tier[a] \in TierRecord /\ store[a] \in StoreRecord /\ "none" \in {"none", owed[a]}
  BY Parts
<1>2. Linked(tier[a], store[a], "none", ad)  BY Parts DEF Linked
<1>3. SettleCheck(FALSE) /\ FALSE \in BOOLEAN  BY DEF SettleCheck
<1> QED  BY <1>1, <1>2, <1>3, Parts, OneAttempt DEF AdapterPoints

LEMMA AdapterCreateStep ==
  ASSUME TierInv, NEW a \in Attempts, AdapterCreate(a)  PROVE TierInv'
<1>1. EngineUp  BY DEF AdapterCreate, Turn
<1>2. WrapperTypeOK'  BY <1>1, Parts DEF AdapterCreate, WrapperTypeOK, WrapperPoints
<1>3. owed[a] = "none"  BY <1>1, Parts DEF AdapterCreate, Linked
<1>4. PICK ad : ad = IF aborted[a] THEN "unlaunched" ELSE "sending"  OBVIOUS
<1>5. ad \in AdapterPoints  BY <1>4 DEF AdapterPoints
<1> QED  BY <1>1, <1>2, <1>3, <1>4, <1>5, AdapterStep DEF AdapterCreate

LEMMA AdapterSendStep ==
  ASSUME TierInv, NEW a \in Attempts, AdapterSend(a)  PROVE TierInv'
<1>1. EngineUp  BY DEF AdapterSend, Turn
<1>2. WrapperTypeOK'
  BY <1>1, Parts DEF AdapterSend, WrapperTypeOK, WrapperPoints, TierRecord
<1>3. owed[a] = "none"  BY <1>1, Parts DEF AdapterSend, Linked
<1>4. "polling" \in AdapterPoints  BY DEF AdapterPoints
<1> QED  BY <1>1, <1>2, <1>3, <1>4, AdapterStep DEF AdapterSend

LEMMA AdapterEndsTyped ==
  ASSUME TierInv, EngineUp, NEW a \in Attempts, owed[a] = "none", AdapterEnds(a)
  PROVE  /\ WrapperTypeOK' /\ aborted' \in [Attempts -> BOOLEAN] /\ UNCHANGED crashes
         /\ adapter' = [adapter EXCEPT ![a] = "done"] /\ owed' = [owed EXCEPT ![a] = "none"]
<1>1. WrapperTypeOK'  BY Parts DEF AdapterEnds, WrapperTypeOK
<1> QED  BY <1>1, Parts DEF AdapterEnds

LEMMA AdapterFailsStep ==
  ASSUME TierInv, NEW a \in Attempts, AdapterFails(a)  PROVE TierInv'
<1>1. EngineUp  BY DEF AdapterFails, Turn
<1>2. owed[a] = "none"  BY <1>1, Parts DEF AdapterFails, Linked
<1>3. PICK fails \in ScanOutcomes :
        Handled(a, SpawnFailed(a, tier[a], fails), tier[a].cause, FALSE)
  BY DEF AdapterFails
<1>4. fails \in BOOLEAN  BY DEF ScanOutcomes
<1>5. Moves(tier[a], SpawnFailed(a, tier[a], fails))
  BY <1>1, <1>4, Parts, SpawnFailedMoves
<1>6. AdapterEnds(a)  BY DEF AdapterFails
<1> QED  BY <1>1, <1>2, <1>3, <1>5, <1>6, AdapterEndsTyped, HandledStep

LEMMA AdapterUnlaunchedStep ==
  ASSUME TierInv, NEW a \in Attempts, AdapterUnlaunched(a)  PROVE TierInv'
<1>1. EngineUp  BY DEF AdapterUnlaunched, Turn
<1>2. owed[a] = "none"  BY <1>1, Parts DEF AdapterUnlaunched, Linked
<1>3. PICK fails \in ScanOutcomes :
        Handled(a, WrapperExited(a, tier[a], fails), tier[a].cause, FALSE)
  BY DEF AdapterUnlaunched
<1>4. fails \in BOOLEAN  BY DEF ScanOutcomes
<1>5. Moves(tier[a], WrapperExited(a, tier[a], fails))
  BY <1>1, <1>4, Parts, WrapperExitedMoves
<1>6. AdapterEnds(a)  BY DEF AdapterUnlaunched
<1> QED  BY <1>1, <1>2, <1>3, <1>5, <1>6, AdapterEndsTyped, HandledStep

LEMMA PollExitStep ==
  ASSUME TierInv, NEW a \in Attempts, PollExit(a)  PROVE TierInv'
<1>1. EngineUp  BY DEF PollExit, Turn
<1>2. owed[a] = "none"  BY <1>1, Parts DEF PollExit, Linked
<1>3. PICK seen : seen = IF spawnFile[a] THEN SpawnRecorded(tier[a]) ELSE tier[a]  OBVIOUS
<1>4. PICK fails \in ScanOutcomes :
        Handled(a, IF statusFile[a] # "none"
                   THEN StatusRecorded(a, seen, fails)
                   ELSE WrapperExited(a, seen, fails), seen.cause, FALSE)
  BY <1>3 DEF PollExit
<1>5. fails \in BOOLEAN  BY DEF ScanOutcomes
<1>6. Moves(tier[a], seen)  BY <1>1, <1>3, Parts, SpawnRecordedMoves, StaysMoves
<1>7. seen \in TierRecord /\ RecordOK(seen)  BY <1>6 DEF Moves
<1>8. PICK r : r = IF statusFile[a] # "none" THEN StatusRecorded(a, seen, fails)
                                             ELSE WrapperExited(a, seen, fails)
  OBVIOUS
<1>9. Moves(tier[a], r)
  BY <1>5, <1>6, <1>7, <1>8, StatusRecordedMoves, WrapperExitedMoves, MovesOn
<1>10. AdapterEnds(a) /\ Handled(a, r, seen.cause, FALSE)  BY <1>4, <1>8 DEF PollExit
<1> QED  BY <1>1, <1>2, <1>9, <1>10, AdapterEndsTyped, HandledStep

LEMMA PollSpawnStep ==
  ASSUME TierInv, NEW a \in Attempts, PollSpawn(a)  PROVE TierInv'
<1>1. EngineUp  BY DEF PollSpawn, Turn
<1>2. owed[a] = "none"  BY <1>1, Parts DEF PollSpawn, Linked
<1>3. Moves(tier[a], SpawnRecorded(tier[a]))  BY <1>1, Parts, SpawnRecordedMoves
<1>4. WrapperTypeOK' /\ aborted' \in [Attempts -> BOOLEAN] /\ owed' = [owed EXCEPT ![a] = "none"]
  BY <1>1, <1>2, Parts DEF PollSpawn, wrapperVars, WrapperTypeOK
<1> QED  BY <1>1, <1>2, <1>3, <1>4, HandledStep DEF PollSpawn

\* A step that leaves the store, and the attempt's place in it, alone.
LEMMA TierStep ==
  ASSUME TierInv, EngineUp, NEW a \in Attempts, owed[a] = "none",
         NEW r \in TierRecord, RecordOK(r), r.planDone <=> tier[a].planDone,
         \/ r.state = tier[a].state
         \/ r.state \in Live /\ tier[a].state \in Live,
         r.state \notin Live /\ (LadderPending(tier[a]) \/ Held(tier[a]))
           => LadderPending(r) \/ Held(r),
         leaving = "clean_shutdown" => ~Unsettled(r),
         NEW k \in {r, Kept(r)}, tier' = [tier EXCEPT ![a] = k],
         NEW ad \in AdapterPoints, adapter' = [adapter EXCEPT ![a] = ad],
         NEW called \in BOOLEAN, SettleCheck(called), UNCHANGED <<owed, store, crashes>>,
         WrapperTypeOK', aborted' \in [Attempts -> BOOLEAN]
  PROVE  TierInv'
<1>1. /\ store' = [store EXCEPT ![a] = store[a]] /\ owed' = [owed EXCEPT ![a] = "none"]
      /\ store[a] \in StoreRecord /\ StoreOK(store[a]) /\ "none" \in {"none", owed[a]}
      /\ leaving = "clean_shutdown" => store[a].plan # "input"
  BY Parts
<1>2. Linked(r, store[a], "none", ad)  BY Parts DEF Linked, Live
<1>3. phase \in {"RUNNING", "DRAINING"} => InputDue(r, store[a])  BY Parts DEF InputDue, Live
<1>4. k \in TierRecord /\ RecordOK(k) /\ (leaving = "clean_shutdown" => ~Unsettled(k))
  BY KeptFits
<1>5. Linked(k, store[a], "none", ad)  BY <1>2, KeptFits DEF Linked, Live
<1>6. phase \in {"RUNNING", "DRAINING"} => InputDue(k, store[a])
  BY <1>3, KeptFits DEF InputDue
<1> QED  BY <1>1, <1>4, <1>5, <1>6, OneAttempt DEF AdapterPoints

\* _ladder_ended: nothing is closing any more.
LEMMA ClosedStep ==
  ASSUME TierInv, EngineUp, NEW a \in Attempts, owed[a] \in {"none", "cleanup"},
         NEW r \in TierRecord, RecordOK(r), r.planDone <=> tier[a].planDone,
         r.state = tier[a].state, leaving # "clean_shutdown",
         Closed(a, r), owed' = [owed EXCEPT ![a] = "none"],
         UNCHANGED <<wrapperVars, adapter, aborted, crashes>>
  PROVE  TierInv'
<1>1. PICK st : st = [store[a] EXCEPT !.open = IF @ = "closing" THEN "closed" ELSE @]  OBVIOUS
<1>2. /\ st \in StoreRecord /\ StoreOK(st) /\ st.plan = store[a].plan
      /\ st.open = IF store[a].open = "closing" THEN "closed" ELSE store[a].open
  <2>1. store[a] \in StoreRecord /\ StoreOK(store[a])  BY Parts
  <2>2. st \in StoreRecord /\ st.plan = store[a].plan /\ st.outcome = store[a].outcome
        /\ st.open = IF store[a].open = "closing" THEN "closed" ELSE store[a].open
    BY <1>1, <2>1 DEF StoreRecord
  <2> QED  BY <2>1, <2>2 DEF StoreOK
<1>3. /\ store' = [store EXCEPT ![a] = st] /\ tier' = [tier EXCEPT ![a] = Kept(r)]
      /\ SettleCheck(TRUE) /\ TRUE \in BOOLEAN
  BY <1>1, Parts DEF Closed
<1>4. Linked(r, st, "none", adapter[a])  BY <1>2, Parts DEF Linked, Live
<1>5. phase \in {"RUNNING", "DRAINING"} => InputDue(r, st)  BY <1>2, Parts DEF InputDue
<1>6. Kept(r) \in TierRecord /\ RecordOK(Kept(r))  BY KeptFits
<1>7. Linked(Kept(r), st, "none", adapter[a])  BY <1>4, KeptFits DEF Linked, Live
<1>8. phase \in {"RUNNING", "DRAINING"} => InputDue(Kept(r), st)  BY <1>5, KeptFits DEF InputDue
<1>9. /\ WrapperTypeOK' /\ aborted' \in [Attempts -> BOOLEAN] /\ UNCHANGED crashes
      /\ adapter' = [adapter EXCEPT ![a] = adapter[a]] /\ adapter[a] \in AdapterPoints
      /\ "none" \in {"none", owed[a]}
  BY Parts DEF wrapperVars, WrapperTypeOK
<1> QED  BY <1>2, <1>3, <1>6, <1>7, <1>8, <1>9, OneAttempt DEF AdapterPoints

LEMMA TaskReapedStep ==
  ASSUME TierInv, NEW a \in Attempts, TaskReaped(a)  PROVE TierInv'
<1>1. EngineUp  BY DEF TaskReaped, Turn
<1>2. owed[a] = "none"  BY <1>1, Parts DEF TaskReaped, Linked
<1>3. PICK r : r = [tier[a] EXCEPT !.exited = TRUE]  OBVIOUS
<1>4. /\ r \in TierRecord /\ r.state = tier[a].state /\ (r.planDone <=> tier[a].planDone)
      /\ r.outcome = tier[a].outcome /\ r.gen = tier[a].gen /\ (r.spawn <=> tier[a].spawn)
      /\ (LadderPending(r) <=> LadderPending(tier[a])) /\ (Held(r) <=> Held(tier[a]))
  <2>1. tier[a] \in TierRecord  BY <1>1, Parts
  <2>2. r \in TierRecord  BY <1>3, <2>1 DEF TierRecord
  <2>3. /\ r.state = tier[a].state /\ r.planDone = tier[a].planDone
        /\ r.outcome = tier[a].outcome /\ r.gen = tier[a].gen /\ r.spawn = tier[a].spawn
        /\ r.ladder = tier[a].ladder /\ r.survived = tier[a].survived
        /\ r.failed = tier[a].failed
    BY <1>3, <2>1 DEF TierRecord
  <2> QED  BY <2>2, <2>3 DEF LadderPending, Held
<1>5. RecordOK(r)  BY <1>1, <1>4, Parts DEF RecordOK
<1>6. leaving = "clean_shutdown" => ~Unsettled(r)  BY <1>1, <1>4, Parts DEF Unsettled
<1>7. /\ tier' = [tier EXCEPT ![a] = Kept(r)] /\ Kept(r) \in {r, Kept(r)}
      /\ SettleCheck(FALSE) /\ FALSE \in BOOLEAN /\ "none" \in AdapterPoints
  BY <1>3 DEF TaskReaped, SettleCheck, AdapterPoints
<1>8. WrapperTypeOK' /\ aborted' \in [Attempts -> BOOLEAN]
  BY <1>1, Parts DEF TaskReaped, wrapperVars, WrapperTypeOK
<1> QED  BY <1>1, <1>2, <1>4, <1>5, <1>6, <1>7, <1>8, TierStep DEF TaskReaped

LEMMA KillWrappersTyped ==
  ASSUME WrapperTypeOK, aborted \in [Attempts -> BOOLEAN],
         NEW S, NEW selected \in BOOLEAN, KillWrappers(S, selected)
  PROVE  WrapperTypeOK' /\ aborted' \in [Attempts -> BOOLEAN]
<1>1. aborted' \in [Attempts -> BOOLEAN]  BY DEF KillWrappers
<1>2. wrapper' \in [Attempts -> WrapperPoints] /\ lifeline' \in [Attempts -> BOOLEAN]
  BY DEF KillWrappers, WrapperTypeOK, WrapperPoints
<1> QED  BY <1>1, <1>2 DEF KillWrappers, WrapperTypeOK

LEMMA OracleKillStep ==
  ASSUME TierInv, NEW a \in Attempts, NEW selected \in BOOLEAN, OracleKill(a, selected)
  PROVE  TierInv'
<1>1. EngineUp  BY DEF OracleKill, Turn
<1>2. owed[a] = "none" /\ tier[a].state \in Live
  BY <1>1, Parts DEF OracleKill, Linked, Live
<1>3. PICK s : s = [tier[a] EXCEPT !.selected = selected]  OBVIOUS
<1>4. Moves(tier[a], s)
  BY <1>1, <1>3, Parts DEF TierRecord, RecordOK, Moves, LadderPending, Held
<1>5. PICK r : r = StopRow(a, s, "oracle_kill")  OBVIOUS
<1>6. Moves(tier[a], r) /\ r.state \in Live
  <2>1. s \in TierRecord /\ RecordOK(s) /\ "oracle_kill" \in Causes  BY <1>4 DEF Moves, Causes
  <2>2. Moves(s, r)  BY <1>5, <2>1, StopRowMoves
  <2>3. s.state \in {"SPAWNING", "RUNNING"}
    BY <1>1, <1>3, Parts DEF OracleKill, TierRecord
  <2>4. r.state = "STOPPING"
    BY <1>5, <2>1, <2>3 DEF StopRow, Restarted, TierRecord
  <2> QED  BY <1>4, <2>2, <2>4, MovesOn DEF Live
<1>7. /\ r \in TierRecord /\ RecordOK(r) /\ (r.planDone <=> tier[a].planDone)
      /\ tier' = [tier EXCEPT ![a] = r] /\ r \in {r, Kept(r)}
      /\ SettleCheck(FALSE) /\ FALSE \in BOOLEAN
  BY <1>3, <1>5, <1>6 DEF OracleKill, SettleCheck, Moves
<1>8. leaving # "clean_shutdown"  BY <1>1, <1>2, NotClean
<1>9. WrapperTypeOK' /\ aborted' \in [Attempts -> BOOLEAN]
  <2>1. PICK S : KillWrappers(S, selected)  BY DEF OracleKill
  <2> QED  BY <1>1, <2>1, Parts, KillWrappersTyped
<1>10. UNCHANGED <<owed, store, crashes>> /\ adapter' = [adapter EXCEPT ![a] = adapter[a]]
       /\ adapter[a] \in AdapterPoints
  BY <1>1, Parts DEF OracleKill
<1> QED  BY <1>1, <1>2, <1>6, <1>7, <1>8, <1>9, <1>10, TierStep

LEMMA TimerFiresStep ==
  ASSUME TierInv, NEW a \in Attempts, TimerFires(a)  PROVE TierInv'
<1>1. EngineUp  BY DEF TimerFires
<1>2. owed[a] = "none"  BY <1>1, Parts DEF TimerFires, Linked
<1>3. PICK s : s = [tier[a] EXCEPT !.timer = 0]  OBVIOUS
<1>4. Moves(tier[a], s)
  <2>1. 0 \in 0..2 /\ tier[a] \in TierRecord /\ RecordOK(tier[a])  BY <1>1, Parts
  <2>2. s \in TierRecord  BY <1>3, <2>1 DEF TierRecord
  <2>3. /\ s.state = tier[a].state /\ s.planDone = tier[a].planDone
        /\ s.outcome = tier[a].outcome /\ s.gen = tier[a].gen /\ s.spawn = tier[a].spawn
        /\ s.ladder = tier[a].ladder /\ s.survived = tier[a].survived
        /\ s.failed = tier[a].failed
    BY <1>3, <2>1 DEF TierRecord
  <2> QED  BY <2>1, <2>2, <2>3 DEF RecordOK, Moves, LadderPending, Held
<1>5. PICK fails \in ScanOutcomes :
        Handled(a, RecordTimeout(a, s, tier[a].timer, fails), tier[a].cause, FALSE)
  BY <1>3 DEF TimerFires
<1>6. PICK r : r = RecordTimeout(a, s, tier[a].timer, fails)  OBVIOUS
<1>7. Moves(tier[a], r)
  <2>1. s \in TierRecord /\ RecordOK(s)  BY <1>4 DEF Moves
  <2>2. tier[a].timer \in 0..2  BY <1>1, Parts DEF TierRecord
  <2>3. fails \in BOOLEAN  BY DEF ScanOutcomes
  <2>4. Moves(s, r)  BY <1>6, <2>1, <2>2, <2>3, RecordTimeoutMoves
  <2> QED  BY <1>4, <2>4, MovesOn
<1>8. /\ Handled(a, r, tier[a].cause, FALSE) /\ WrapperTypeOK'
      /\ aborted' \in [Attempts -> BOOLEAN] /\ owed' = [owed EXCEPT ![a] = "none"]
      /\ adapter' = [adapter EXCEPT ![a] = adapter[a]] /\ adapter[a] \in AdapterPoints
      /\ UNCHANGED crashes
  BY <1>1, <1>2, <1>5, <1>6, Parts DEF TimerFires, wrapperVars, WrapperTypeOK
<1> QED  BY <1>1, <1>2, <1>7, <1>8, HandledStep DEF AdapterPoints

LEMMA LadderRunsStep ==
  ASSUME TierInv, NEW a \in Attempts, LadderRuns(a)  PROVE TierInv'
<1>1. EngineUp /\ tier[a].ladder = "laddering"  BY DEF LadderRuns
<1>2. LadderPending(tier[a])  BY <1>1 DEF LadderPending
<1>3. owed[a] = "none" /\ leaving # "clean_shutdown"
  BY <1>1, <1>2, Parts, NotClean DEF Linked
<1>4. PICK ladder \in {"raised", "verdict", "finishing"},
           timer \in {tier[a].timer, tier[a].gen} :
        tier' = [tier EXCEPT ![a] =
                   [tier[a] EXCEPT !.selected = FALSE, !.ladder = ladder, !.timer = timer]]
  <2>1. PICK fails \in ScanOutcomes :
          tier' = [tier EXCEPT
            ![a].selected = FALSE,
            ![a].ladder = IF fails THEN "raised"
                          ELSE IF tier[a].state = "ENDED" THEN "verdict" ELSE "finishing",
            ![a].timer = IF fails \/ tier[a].state = "ENDED" THEN @ ELSE tier[a].gen]
    BY DEF LadderRuns
  <2>2. PICK ladder : ladder = IF fails THEN "raised"
                        ELSE IF tier[a].state = "ENDED" THEN "verdict" ELSE "finishing"
    OBVIOUS
  <2>3. PICK timer : timer = IF fails \/ tier[a].state = "ENDED" THEN tier[a].timer
                             ELSE tier[a].gen
    OBVIOUS
  <2>4. tier \in [Attempts -> TierRecord]  BY <1>1, Parts
  <2>5. tier' = [tier EXCEPT ![a] =
                   [tier[a] EXCEPT !.selected = FALSE, !.ladder = ladder, !.timer = timer]]
    BY <2>1, <2>2, <2>3, <2>4 DEF TierRecord
  <2> QED  BY <2>2, <2>3, <2>5
<1> DEFINE r == [tier[a] EXCEPT !.selected = FALSE, !.ladder = ladder, !.timer = timer]
<1>5. r \in TierRecord /\ RecordOK(r) /\ r.state = tier[a].state
      /\ (r.planDone <=> tier[a].planDone) /\ LadderPending(r)
  <2>1. tier[a] \in TierRecord /\ RecordOK(tier[a])  BY <1>1, Parts
  <2>2. timer \in 0..2  BY <1>4, <2>1 DEF TierRecord
  <2>3. r \in TierRecord  BY <1>4, <2>1, <2>2 DEF TierRecord
  <2>4. /\ r.state = tier[a].state /\ r.planDone = tier[a].planDone
        /\ r.outcome = tier[a].outcome /\ r.gen = tier[a].gen /\ r.spawn = tier[a].spawn
        /\ r.ladder = ladder
    BY <1>4, <2>1 DEF TierRecord
  <2>5. LadderPending(r)  BY <1>4, <2>4 DEF LadderPending
  <2> HIDE DEF r
  <2> QED  BY <1>2, <2>1, <2>3, <2>4, <2>5 DEF RecordOK
<1>6. WrapperTypeOK'
  <2>1. /\ WrapperTypeOK /\ LeftOf(a, tier[a]) \subseteq command[a] \cup {"wrapper"}
    BY <1>1, Parts DEF LeftOf
  <2>2. killed' \in {killed, [killed EXCEPT ![a] = @ \cup LeftOf(a, tier[a])]}  BY DEF LadderRuns
  <2>3. killed' \in [Attempts -> SUBSET (Processes \cup {"wrapper"})]
    BY <2>1, <2>2 DEF WrapperTypeOK
  <2>4. \A b \in Attempts : killed'[b] \subseteq command[b] \cup {"wrapper"}
    BY <2>1, <2>2 DEF WrapperTypeOK
  <2> QED  BY <2>1, <2>3, <2>4 DEF LadderRuns, WrapperTypeOK
<1>7. /\ r \in {r, Kept(r)} /\ SettleCheck(FALSE) /\ FALSE \in BOOLEAN
      /\ adapter' = [adapter EXCEPT ![a] = adapter[a]] /\ adapter[a] \in AdapterPoints
      /\ aborted' \in [Attempts -> BOOLEAN] /\ UNCHANGED <<owed, store, crashes>>
  BY <1>1, Parts DEF LadderRuns, SettleCheck
<1>8. tier' = [tier EXCEPT ![a] = r]  BY <1>4
<1> HIDE DEF r
<1> QED  BY <1>1, <1>3, <1>5, <1>6, <1>7, <1>8, TierStep

LEMMA VerdictEndsStep ==
  ASSUME TierInv, NEW a \in Attempts, VerdictEnds(a)  PROVE TierInv'
<1>1. EngineUp /\ tier[a].ladder = "verdict"  BY DEF VerdictEnds
<1>2. LadderPending(tier[a])  BY <1>1 DEF LadderPending
<1>3. owed[a] = "none" /\ leaving # "clean_shutdown"
  BY <1>1, <1>2, Parts, NotClean DEF Linked
<1>4. tier \in [Attempts -> TierRecord] /\ tier[a] \in TierRecord /\ RecordOK(tier[a])
  BY <1>1, Parts
<1>5. PICK survived \in BOOLEAN :
        /\ tier' = [tier EXCEPT ![a] = [tier[a] EXCEPT !.ladder = "finishing",
                                                      !.survived = survived]]
  <2>1. PICK fails \in ScanOutcomes :
          tier' = [tier EXCEPT ![a].ladder = "finishing",
                               ![a].survived = @ \/ Look(a, tier[a], fails) # "none"]
    BY DEF VerdictEnds
  <2>2. PICK survived \in BOOLEAN : survived = (tier[a].survived \/ Look(a, tier[a], fails) # "none")
    OBVIOUS
  <2>3. tier' = [tier EXCEPT ![a] = [tier[a] EXCEPT !.ladder = "finishing",
                                                    !.survived = survived]]
    BY <1>4, <2>1, <2>2 DEF TierRecord
  <2> QED  BY <2>2, <2>3
<1>r. PICK r : r = [tier[a] EXCEPT !.ladder = "finishing", !.survived = survived]  OBVIOUS
<1>t. tier' = [tier EXCEPT ![a] = r]  BY <1>5, <1>r
<1>6. r \in TierRecord /\ RecordOK(r) /\ r.state = tier[a].state
      /\ (r.planDone <=> tier[a].planDone) /\ LadderPending(r)
  <2>1. r \in TierRecord  BY <1>4, <1>5, <1>r DEF TierRecord
  <2>2. /\ r.state = tier[a].state /\ r.planDone = tier[a].planDone
        /\ r.outcome = tier[a].outcome /\ r.gen = tier[a].gen /\ r.spawn = tier[a].spawn
        /\ r.ladder = "finishing"
    BY <1>4, <1>5, <1>r DEF TierRecord
  <2>3. LadderPending(r)  BY <2>2 DEF LadderPending
  <2> QED  BY <1>2, <1>4, <2>1, <2>2, <2>3 DEF RecordOK
<1>7. /\ r \in {r, Kept(r)} /\ SettleCheck(FALSE) /\ FALSE \in BOOLEAN
      /\ adapter' = [adapter EXCEPT ![a] = adapter[a]] /\ adapter[a] \in AdapterPoints
      /\ aborted' \in [Attempts -> BOOLEAN] /\ UNCHANGED <<owed, store, crashes>>
      /\ WrapperTypeOK'
  BY <1>1, Parts DEF VerdictEnds, SettleCheck, wrapperVars, WrapperTypeOK
<1> QED  BY <1>1, <1>3, <1>t, <1>6, <1>7, TierStep

LEMMA LadderDoneStep ==
  ASSUME TierInv, NEW a \in Attempts, LadderDone(a)  PROVE TierInv'
<1>1. EngineUp /\ LadderPending(tier[a])  BY DEF LadderDone, LadderPending
<1>2. owed[a] = "none" /\ leaving # "clean_shutdown"
  BY <1>1, Parts, NotClean DEF Linked
<1>3. PICK failed : failed = (tier[a].failed \/ tier[a].ladder = "raised")  OBVIOUS
<1>4. PICK r : r = [tier[a] EXCEPT !.ladder = "done", !.failed = failed]  OBVIOUS
<1>5. r \in TierRecord /\ RecordOK(r) /\ r.state = tier[a].state
      /\ (r.planDone <=> tier[a].planDone)
  <2>1. tier[a] \in TierRecord /\ RecordOK(tier[a]) /\ failed \in BOOLEAN  BY <1>1, <1>3, Parts
  <2>2. r \in TierRecord  BY <1>4, <2>1 DEF TierRecord
  <2>3. /\ r.state = tier[a].state /\ r.planDone = tier[a].planDone
        /\ r.outcome = tier[a].outcome /\ r.gen = tier[a].gen /\ r.spawn = tier[a].spawn
    BY <1>4, <2>1 DEF TierRecord
  <2> QED  BY <1>1, <2>1, <2>2, <2>3 DEF RecordOK
<1>6. /\ UNCHANGED <<wrapperVars, adapter, aborted, owed, crashes>>
      /\ IF Held(r)
         THEN tier' = [tier EXCEPT ![a] = r] /\ SettleCheck(TRUE) /\ UNCHANGED store
         ELSE Closed(a, r)
  BY <1>3, <1>4 DEF LadderDone
<1>7. /\ adapter' = [adapter EXCEPT ![a] = adapter[a]] /\ adapter[a] \in AdapterPoints
      /\ aborted' \in [Attempts -> BOOLEAN] /\ WrapperTypeOK'
      /\ owed' = [owed EXCEPT ![a] = "none"]
  BY <1>1, <1>2, <1>6, Parts DEF wrapperVars, WrapperTypeOK
<1>8. CASE Held(r)
  <2>1. r \in {r, Kept(r)} /\ SettleCheck(TRUE) /\ TRUE \in BOOLEAN  BY <1>6, <1>8
  <2> QED  BY <1>1, <1>2, <1>5, <1>6, <1>7, <1>8, <2>1, TierStep
<1>9. CASE ~Held(r)  BY <1>1, <1>2, <1>5, <1>6, <1>7, <1>9, ClosedStep
<1> QED  BY <1>8, <1>9

LEMMA HeldReleasedStep ==
  ASSUME TierInv, NEW a \in Attempts, HeldReleased(a)  PROVE TierInv'
<1>1. EngineUp /\ Held(tier[a])  BY DEF HeldReleased
<1>2. owed[a] = "none" /\ leaving # "clean_shutdown"
  BY <1>1, Parts, NotClean DEF Linked
<1>3. PICK r : r = [tier[a] EXCEPT !.survived = FALSE, !.failed = FALSE, !.leakHold = FALSE]
  OBVIOUS
<1>4. r \in TierRecord /\ RecordOK(r) /\ r.state = tier[a].state
      /\ (r.planDone <=> tier[a].planDone) /\ r.gen \in 0..2
  <2>1. tier[a] \in TierRecord /\ RecordOK(tier[a])  BY <1>1, Parts
  <2>2. r \in TierRecord  BY <1>3, <2>1 DEF TierRecord
  <2>3. /\ r.state = tier[a].state /\ r.planDone = tier[a].planDone
        /\ r.outcome = tier[a].outcome /\ r.gen = tier[a].gen /\ r.spawn = tier[a].spawn
    BY <1>3, <2>1 DEF TierRecord
  <2> QED  BY <1>1, <2>1, <2>2, <2>3 DEF RecordOK, TierRecord
<1>5. /\ UNCHANGED <<wrapperVars, adapter, aborted, owed, crashes>>
      /\ IF r.state = "STOPPING"
         THEN \E fails \in ScanOutcomes :
                Handled(a, RecordTimeout(a, r, r.gen, fails), r.cause, TRUE)
         ELSE Closed(a, r)
  BY <1>3 DEF HeldReleased
<1>6. /\ adapter' = [adapter EXCEPT ![a] = adapter[a]] /\ adapter[a] \in AdapterPoints
      /\ aborted' \in [Attempts -> BOOLEAN] /\ WrapperTypeOK'
      /\ owed' = [owed EXCEPT ![a] = "none"]
  BY <1>1, <1>2, <1>5, Parts DEF wrapperVars, WrapperTypeOK
<1>7. CASE r.state = "STOPPING"
  <2>1. PICK fails \in ScanOutcomes : Handled(a, RecordTimeout(a, r, r.gen, fails), r.cause, TRUE)
    BY <1>5, <1>7
  <2>2. fails \in BOOLEAN  BY DEF ScanOutcomes
  <2>3. PICK t : t = RecordTimeout(a, r, r.gen, fails)  OBVIOUS
  <2>4. Moves(r, t)  BY <1>4, <2>2, <2>3, RecordTimeoutMoves
  <2>5. Moves(tier[a], r)  BY <1>4, <1>7 DEF Moves, Live
  <2>6. Moves(tier[a], t) /\ Handled(a, t, r.cause, TRUE) /\ TRUE \in BOOLEAN
    BY <2>1, <2>3, <2>4, <2>5, MovesOn
  <2> QED  BY <1>1, <1>2, <1>5, <1>6, <2>6, HandledStep DEF AdapterPoints
<1>8. CASE r.state # "STOPPING"  BY <1>1, <1>2, <1>4, <1>5, <1>6, <1>8, ClosedStep
<1> QED  BY <1>7, <1>8

LEMMA HeldKilledStep ==
  ASSUME TierInv, NEW a \in Attempts, HeldKilled(a)  PROVE TierInv'
<1>1. EngineUp /\ UNCHANGED engineVars  BY DEF HeldKilled
<1>2. WrapperTypeOK'
  <2>1. /\ WrapperTypeOK /\ LeftOf(a, tier[a]) \subseteq command[a] \cup {"wrapper"}
    BY <1>1, Parts DEF LeftOf
  <2>2. killed' = [killed EXCEPT ![a] = @ \cup LeftOf(a, tier[a])]  BY DEF HeldKilled
  <2>3. killed' \in [Attempts -> SUBSET (Processes \cup {"wrapper"})]
    BY <2>1, <2>2 DEF WrapperTypeOK
  <2>4. \A b \in Attempts : killed'[b] \subseteq command[b] \cup {"wrapper"}
    BY <2>1, <2>2 DEF WrapperTypeOK
  <2> QED  BY <2>1, <2>3, <2>4 DEF HeldKilled, WrapperTypeOK
<1> QED  BY <1>1, <1>2 DEF TierInv, TierTypeOK, Undisturbed, engineVars, EngineUp

LEMMA WorldStep ==
  ASSUME TierInv, NEW a \in Attempts, World(a)  PROVE TierInv'
<1>1. WrapperTypeOK'  BY TypeWorld DEF World, TierInv, TierTypeOK
<1> QED  BY <1>1 DEF World, TierInv, TierTypeOK, Undisturbed, engineVars, EngineUp

LEMMA DispatchStep ==
  ASSUME TierInv, NEW a \in Attempts, Dispatch(a)  PROVE TierInv'
<1>1. EngineUp /\ phase = "RUNNING" /\ store[a].open = "never"  BY DEF Dispatch, EngineUp
<1>2. owed[a] = "none" /\ leaving # "clean_shutdown"  BY <1>1, Parts
<1>3. PICK r : r = [tier[a] EXCEPT !.state = "SPAWNING"]  OBVIOUS
<1>4. PICK st : st = [store[a] EXCEPT !.open = "open"]  OBVIOUS
<1>5. tier[a].state \in {"NONE", "FORGOTTEN"}
  <2>1. tier[a].state \in Live \cup {"NONE", "ENDED", "FORGOTTEN"}
    BY <1>1, Parts DEF TierRecord
  <2> QED  BY <1>1, <2>1, Parts DEF Linked
<1>6. r \in TierRecord /\ RecordOK(r) /\ r.state = "SPAWNING"
  <2>1. tier[a] \in TierRecord /\ RecordOK(tier[a])  BY <1>1, Parts
  <2>2. r \in TierRecord  BY <1>3, <2>1 DEF TierRecord, Live
  <2>3. /\ r.state = "SPAWNING" /\ r.planDone = tier[a].planDone
        /\ r.outcome = tier[a].outcome /\ r.gen = tier[a].gen /\ r.spawn = tier[a].spawn
    BY <1>3, <2>1 DEF TierRecord
  <2> QED  BY <1>5, <2>1, <2>2, <2>3 DEF RecordOK
<1>7. st \in StoreRecord /\ StoreOK(st) /\ st.open = "open" /\ st.plan = store[a].plan
  <2>1. store[a] \in StoreRecord /\ StoreOK(store[a])  BY <1>1, Parts
  <2>2. /\ st \in StoreRecord /\ st.open = "open" /\ st.plan = store[a].plan
        /\ st.outcome = store[a].outcome
    BY <1>4, <2>1 DEF StoreRecord
  <2> QED  BY <1>1, <2>1, <2>2 DEF StoreOK
<1>8. Linked(r, st, "none", "spawning")  BY <1>6, <1>7 DEF Linked, Live
<1>9. InputDue(r, st)  BY <1>1, <1>5, <1>7, Parts DEF InputDue
<1>10. /\ tier' = [tier EXCEPT ![a] = r] /\ store' = [store EXCEPT ![a] = st]
  BY <1>1, <1>3, <1>4, Parts DEF Dispatch
<1>11. /\ adapter' = [adapter EXCEPT ![a] = "spawning"] /\ aborted' \in [Attempts -> BOOLEAN]
       /\ owed' = [owed EXCEPT ![a] = "none"] /\ "none" \in {"none", owed[a]}
       /\ WrapperTypeOK' /\ SettleCheck(FALSE) /\ FALSE \in BOOLEAN /\ UNCHANGED crashes
  BY <1>1, <1>2, Parts DEF Dispatch, wrapperVars, WrapperTypeOK, SettleCheck
<1> QED  BY <1>1, <1>2, <1>6, <1>7, <1>8, <1>9, <1>10, <1>11, OneAttempt

LEMMA PlanFinishesStep ==
  ASSUME TierInv, NEW a \in Attempts, PlanFinishes(a)  PROVE TierInv'
<1>1. /\ EngineUp /\ tier[a].state \in {"NONE", "ENDED"} /\ ~tier[a].planDone
      /\ owed[a] = "none" /\ store[a].plan \in {"input", "rerun"}
  BY DEF PlanFinishes
<1>2. PICK r : r = [tier[a] EXCEPT !.planDone = TRUE]  OBVIOUS
<1>3. PICK plan : /\ plan \in {"done", "replaced", "rerun"}
                  /\ store' = [store EXCEPT ![a].plan = plan]
  <2>1. PICK drained \in BOOLEAN :
          /\ drained => store[a].plan = "rerun"
          /\ store' = [store EXCEPT ![a].plan =
               CASE drained -> @ [] @ = "input" -> "done" [] OTHER -> "replaced"]
    BY DEF PlanFinishes
  <2>2. PICK plan : plan = CASE drained -> store[a].plan
                             [] store[a].plan = "input" -> "done"
                             [] OTHER -> "replaced"
    OBVIOUS
  <2>3. plan \in {"done", "replaced", "rerun"}  BY <2>1, <2>2
  <2>4. store' = [store EXCEPT ![a].plan = plan]  BY <1>1, <2>1, <2>2, Parts DEF StoreRecord
  <2> QED  BY <2>3, <2>4
<1>4. PICK st : st = [store[a] EXCEPT !.plan = plan]  OBVIOUS
<1>5. st \in StoreRecord /\ StoreOK(st) /\ st.plan # "input" /\ st.open = store[a].open
  <2>1. store[a] \in StoreRecord /\ StoreOK(store[a])  BY <1>1, Parts
  <2>2. /\ st \in StoreRecord /\ st.open = store[a].open /\ st.plan = plan
        /\ st.outcome = store[a].outcome
    BY <1>3, <1>4, <2>1 DEF StoreRecord
  <2> QED  BY <1>3, <2>1, <2>2 DEF StoreOK
<1>6. PICK k : /\ tier' = [tier EXCEPT ![a] = k]
               /\ k = IF tier[a].state = "NONE" THEN tier[a] ELSE Kept(r)
  <2>1. tier' = IF tier[a].state = "NONE" THEN tier ELSE [tier EXCEPT ![a] = Kept(r)]
    BY <1>2 DEF PlanFinishes
  <2>2. PICK k : k = IF tier[a].state = "NONE" THEN tier[a] ELSE Kept(r)  OBVIOUS
  <2>3. tier' = [tier EXCEPT ![a] = k]  BY <1>1, <2>1, <2>2, Parts
  <2> QED  BY <2>2, <2>3
<1>7. tier[a].state = "ENDED" =>
        /\ r \in TierRecord /\ RecordOK(r) /\ r.state = "ENDED"
        /\ (LadderPending(r) <=> LadderPending(tier[a])) /\ (Held(r) <=> Held(tier[a]))
  <2>1. tier[a] \in TierRecord /\ RecordOK(tier[a])  BY <1>1, Parts
  <2>2. r \in TierRecord  BY <1>2, <2>1 DEF TierRecord
  <2>3. /\ r.state = tier[a].state /\ r.outcome = tier[a].outcome /\ r.ladder = tier[a].ladder
        /\ r.survived = tier[a].survived /\ r.failed = tier[a].failed
    BY <1>2, <2>1 DEF TierRecord
  <2> QED  BY <2>1, <2>2, <2>3 DEF RecordOK, LadderPending, Held
<1>8. k \in TierRecord /\ RecordOK(k)  BY <1>1, <1>6, <1>7, Parts, KeptFits
<1>9. Linked(k, st, "none", adapter[a])
  <2>1. CASE tier[a].state = "NONE"  BY <1>1, <1>5, <1>6, <2>1, Parts DEF Linked
  <2>2. CASE tier[a].state = "ENDED"
    <3>1. Linked(r, st, "none", adapter[a])  BY <1>1, <1>5, <1>7, <2>2, Parts DEF Linked, Live
    <3> QED  BY <1>6, <1>7, <2>2, <3>1, KeptFits DEF Linked, Live
  <2> QED  BY <1>1, <2>1, <2>2
<1>10. leaving = "clean_shutdown" => ~Unsettled(k)
  BY <1>1, <1>6, Parts DEF Unsettled
<1>11. /\ adapter' = [adapter EXCEPT ![a] = adapter[a]] /\ adapter[a] \in AdapterPoints
       /\ aborted' \in [Attempts -> BOOLEAN] /\ WrapperTypeOK' /\ UNCHANGED crashes
       /\ owed' = [owed EXCEPT ![a] = "none"] /\ "none" \in {"none", owed[a]}
       /\ (tier[a].state # "NONE") \in BOOLEAN /\ SettleCheck(tier[a].state # "NONE")
  BY <1>1, Parts DEF PlanFinishes, wrapperVars, WrapperTypeOK
<1>12. InputDue(k, st)  BY <1>5 DEF InputDue
<1>13. store' = [store EXCEPT ![a] = st]  BY <1>1, <1>3, <1>4, Parts DEF StoreRecord
<1> QED  BY <1>1, <1>5, <1>6, <1>8, <1>9, <1>10, <1>11, <1>12, <1>13, OneAttempt
         DEF AdapterPoints

LEMMA RestartObserveStep ==
  ASSUME TierInv, NEW a \in Attempts, RestartObserve(a)  PROVE TierInv'
<1>1. /\ EngineUp /\ owed[a] = "observe" /\ owed' = [owed EXCEPT ![a] = "none"]
      /\ UNCHANGED <<wrapperVars, adapter, aborted, crashes>>
  BY DEF RestartObserve, EngineUp
<1>2. tier[a] \in TierRecord /\ RecordOK(tier[a]) /\ tier[a].state \in Live
      /\ store[a].stop \in Causes
  BY <1>1, Parts DEF Linked, StoreRecord
<1>3. PICK seen : seen = IF spawnFile[a] THEN SpawnRecorded(tier[a]) ELSE tier[a]  OBVIOUS
<1>4. PICK r : r = IF store[a].stop = "none" THEN seen ELSE RestoredStop(seen, store[a].stop)
  OBVIOUS
<1>5. PICK fails \in ScanOutcomes :
        \/ Handled(a, IF statusFile[a] # "none"
                      THEN StatusRecorded(a, r, fails)
                      ELSE EngineDied(a, r, fails), r.cause, FALSE)
        \/ Handled(a, EngineDied(a, seen, fails), "quarantined", FALSE)
  BY <1>3, <1>4 DEF RestartObserve
<1>6. fails \in BOOLEAN  BY DEF ScanOutcomes
<1>7. Moves(tier[a], seen) /\ seen.state \in Live
  <2>1. SpawnRecorded(tier[a]).state \in Live
    BY <1>2 DEF SpawnRecorded, Restarted, TierRecord, Live
  <2> QED  BY <1>2, <1>3, <2>1, SpawnRecordedMoves, StaysMoves
<1>8. Moves(tier[a], r) /\ r.state \in Live
  <2>1. seen \in TierRecord /\ RecordOK(seen)  BY <1>7 DEF Moves
  <2>2. Moves(seen, r)  BY <1>2, <1>4, <2>1, RestoredStopMoves, StaysMoves
  <2>3. r.state \in Live
    BY <1>4, <1>7, <2>1 DEF RestoredStop, TierRecord, Live
  <2> QED  BY <1>7, <2>2, <2>3, MovesOn
<1>9. /\ Moves(tier[a], StatusRecorded(a, r, fails))
      /\ Moves(tier[a], EngineDied(a, r, fails))
      /\ Moves(tier[a], EngineDied(a, seen, fails))
  <2>1. seen \in TierRecord /\ RecordOK(seen) /\ r \in TierRecord /\ RecordOK(r)
    BY <1>7, <1>8 DEF Moves
  <2>2. Moves(r, StatusRecorded(a, r, fails))  BY <1>6, <2>1, StatusRecordedMoves
  <2>3. Moves(r, EngineDied(a, r, fails)) /\ Moves(seen, EngineDied(a, seen, fails))
    BY <1>6, <1>7, <1>8, <2>1, EngineDiedMoves
  <2> QED  BY <1>7, <1>8, <2>2, <2>3, MovesOn
<1>10. /\ adapter' = [adapter EXCEPT ![a] = adapter[a]] /\ adapter[a] \in AdapterPoints
       /\ aborted' \in [Attempts -> BOOLEAN] /\ WrapperTypeOK' /\ FALSE \in BOOLEAN
  BY <1>1, Parts DEF wrapperVars, WrapperTypeOK
<1>11. CASE Handled(a, EngineDied(a, seen, fails), "quarantined", FALSE)
  BY <1>1, <1>9, <1>10, <1>11, HandledStep DEF AdapterPoints
<1>12. CASE Handled(a, IF statusFile[a] # "none"
                       THEN StatusRecorded(a, r, fails)
                       ELSE EngineDied(a, r, fails), r.cause, FALSE)
  <2>1. PICK t : t = IF statusFile[a] # "none" THEN StatusRecorded(a, r, fails)
                                               ELSE EngineDied(a, r, fails)
    OBVIOUS
  <2>2. Moves(tier[a], t)  BY <1>9, <2>1
  <2>3. Handled(a, t, r.cause, FALSE)  BY <1>12, <2>1
  <2> QED  BY <1>1, <1>10, <2>2, <2>3, HandledStep DEF AdapterPoints
<1> QED  BY <1>5, <1>11, <1>12

LEMMA RestartCleanupStep ==
  ASSUME TierInv, NEW a \in Attempts, RestartCleanup(a)  PROVE TierInv'
<1>1. /\ EngineUp /\ owed[a] = "cleanup" /\ owed' = [owed EXCEPT ![a] = "none"]
      /\ UNCHANGED <<wrapperVars, adapter, aborted, crashes>> /\ phase = "STARTING"
  BY DEF RestartCleanup, EngineUp
<1>2. /\ tier[a] \in TierRecord /\ RecordOK(tier[a]) /\ tier[a].state = "ENDED"
      /\ spawnFile[a] \in BOOLEAN /\ leaving # "clean_shutdown"
  BY <1>1, Parts DEF Linked, WrapperTypeOK
<1>3. PICK s : s = [tier[a] EXCEPT !.spawn = spawnFile[a]]  OBVIOUS
<1> DEFINE Ended(x) ==
      /\ x \in TierRecord /\ x.state = "ENDED" /\ x.outcome # "none"
      /\ x.planDone <=> tier[a].planDone
<1>4. Ended(s)
  <2>1. s \in TierRecord  BY <1>2, <1>3 DEF TierRecord
  <2>2. s.state = "ENDED" /\ s.outcome = tier[a].outcome /\ s.planDone = tier[a].planDone
    BY <1>2, <1>3 DEF TierRecord
  <2> QED  BY <1>2, <2>1, <2>2 DEF RecordOK
<1>5. PICK fails, r :
        /\ fails \in ScanOutcomes
        /\ r = WhatIsLeft(a, s, fails)
        /\ IF LadderPending(r) \/ Held(r)
           THEN tier' = [tier EXCEPT ![a] = r] /\ UNCHANGED <<store, phase, leaving>>
           ELSE Closed(a, r)
  BY <1>3 DEF RestartCleanup
<1>6. Ended(r)
  <2>1. Ended([s EXCEPT !.survived = TRUE, !.leakHold = TRUE])  BY <1>4 DEF TierRecord
  <2>2. Ended([s EXCEPT !.ladder = IF @ = "none" THEN "laddering" ELSE "verdict"])
    BY <1>4 DEF TierRecord
  <2> QED  BY <1>4, <1>5, <2>1, <2>2 DEF WhatIsLeft
<1>7. r \in TierRecord /\ RecordOK(r) /\ r.state = "ENDED" /\ (r.planDone <=> tier[a].planDone)
  BY <1>6 DEF RecordOK
<1>8. CASE LadderPending(r) \/ Held(r)
  <2>1. /\ tier' = [tier EXCEPT ![a] = r] /\ store' = [store EXCEPT ![a] = store[a]]
        /\ SettleCheck(FALSE) /\ FALSE \in BOOLEAN
    BY <1>1, <1>5, <1>8, Parts DEF SettleCheck
  <2>2. Linked(r, store[a], "none", adapter[a])
    BY <1>1, <1>2, <1>7, <1>8, Parts DEF Linked, Live
  <2>3. /\ adapter' = [adapter EXCEPT ![a] = adapter[a]] /\ adapter[a] \in AdapterPoints
        /\ aborted' \in [Attempts -> BOOLEAN] /\ WrapperTypeOK' /\ UNCHANGED crashes
        /\ "none" \in {"none", owed[a]} /\ store[a] \in StoreRecord /\ StoreOK(store[a])
    BY <1>1, Parts DEF wrapperVars, WrapperTypeOK
  <2> QED  BY <1>1, <1>2, <1>7, <2>1, <2>2, <2>3, OneAttempt DEF AdapterPoints
<1>9. CASE ~(LadderPending(r) \/ Held(r))
  BY <1>1, <1>2, <1>5, <1>7, <1>9, ClosedStep
<1> QED  BY <1>8, <1>9

LEMMA ReplayDoneStep == ASSUME TierInv, ReplayDone  PROVE TierInv'
  BY DEF ReplayDone, TierInv, TierTypeOK, wrapperVars, WrapperTypeOK, EngineUp, InputDue

LEMMA StopDuringStartupStep == ASSUME TierInv, StopDuringStartup  PROVE TierInv'
  BY DEF StopDuringStartup, TierInv, TierTypeOK, wrapperVars, WrapperTypeOK, EngineUp

LEMMA AbortDeadlineStep == ASSUME TierInv, AbortDeadline  PROVE TierInv'
  BY DEF AbortDeadline, TierInv, TierTypeOK, wrapperVars, WrapperTypeOK, EngineUp

LEMMA BeginDrainStep == ASSUME TierInv, BeginDrain  PROVE TierInv'
<1>1. EngineUp /\ phase = "RUNNING" /\ UNCHANGED <<adapter, owed, crashes>>
  BY DEF BeginDrain, EngineUp
<1>2. /\ tier \in [Attempts -> TierRecord] /\ store \in [Attempts -> StoreRecord]
      /\ aborted \in [Attempts -> BOOLEAN] /\ WrapperTypeOK
  BY DEF TierInv, TierTypeOK
<1>3. /\ store' = [a \in Attempts |-> [store[a] EXCEPT !.stop = RecordStop(a)]]
      /\ tier' = [a \in Attempts |-> StopRow(a, tier[a], "engine_stop")]
  BY DEF BeginDrain
<1>4. ASSUME NEW a \in Attempts
      PROVE  /\ store'[a] \in StoreRecord /\ StoreOK(store'[a])
             /\ tier'[a] \in TierRecord /\ RecordOK(tier'[a])
             /\ Linked(tier'[a], store'[a], owed'[a], adapter'[a])
             /\ owed'[a] = "none" /\ InputDue(tier'[a], store'[a])
  <2>1. PICK r, st : r = tier'[a] /\ st = store'[a]  OBVIOUS
  <2>2. /\ r = StopRow(a, tier[a], "engine_stop")
        /\ st = [store[a] EXCEPT !.stop = RecordStop(a)]
    BY <1>3, <2>1
  <2>3. RecordStop(a) \in Causes
    BY <1>1, Parts DEF RecordStop, TierRecord, StoreRecord, Causes
  <2>4. /\ st \in StoreRecord /\ st.open = store[a].open /\ st.outcome = store[a].outcome
        /\ st.plan = store[a].plan
    BY <1>2, <2>2, <2>3 DEF StoreRecord
  <2>5. StoreOK(st)  BY <1>1, <2>4, Parts DEF StoreOK
  <2>6. Moves(tier[a], r)
    <3>1. "engine_stop" \in Causes  BY DEF Causes
    <3> QED  BY <1>1, <2>2, <3>1, Parts, StopRowMoves
  <2>7. r = tier[a] \/ (tier[a].state \in Live /\ r.state \in Live)
    BY <1>1, <2>2, Parts DEF StopRow, Restarted, TierRecord, Live
  <2>8. owed[a] = "none" /\ InputDue(tier[a], store[a]) /\ Linked(tier[a], store[a], owed[a], adapter[a])
    BY <1>1, Parts
  <2>9. Linked(r, st, owed[a], adapter[a]) /\ InputDue(r, st)
    BY <2>4, <2>7, <2>8 DEF Linked, InputDue, Live
  <2> QED  BY <1>1, <2>1, <2>4, <2>5, <2>6, <2>8, <2>9 DEF Moves
<1>5. WrapperTypeOK' /\ aborted' \in [Attempts -> BOOLEAN]
  <2>1. PICK S : KillWrappers(S, FALSE)  BY DEF BeginDrain
  <2> QED  BY <1>2, <2>1, KillWrappersTyped
<1>6. \/ phase' = "STOPPED" /\ leaving' = "clean_shutdown" /\ \A b \in Attempts : ~Unsettled(tier'[b])
      \/ phase' = "DRAINING" /\ UNCHANGED leaving
  BY DEF BeginDrain, Settled
<1>7. TierTypeOK'
  <2>1. tier' \in [Attempts -> TierRecord] /\ store' \in [Attempts -> StoreRecord]  BY <1>3, <1>4
  <2> QED  BY <1>1, <1>5, <1>6, <2>1 DEF TierInv, TierTypeOK
<1>8. (\A b \in Attempts : ~Unsettled(tier'[b])) => Undisturbed'
  BY <1>4 DEF Undisturbed, InputDue, Unsettled
<1> QED  BY <1>1, <1>4, <1>6, <1>7, <1>8 DEF TierInv, EngineUp

\* Without an engine only its store is left, and a restart reads it.
LEMMA EngineGoneStep ==
  ASSUME TierInv, EngineUp, EngineGone, store' \in [Attempts -> StoreRecord],
         \A a \in Attempts : StoreOK(store'[a]), crashes' \in 0..MaxCrashes
  PROVE  TierInv'
<1>1. WrapperTypeOK'
  BY DEF EngineGone, TierInv, TierTypeOK, WrapperTypeOK, WrapperPoints
<1>2. TierTypeOK'  BY <1>1, BlankOK DEF EngineGone, TierInv, TierTypeOK
<1> QED  BY <1>2, BlankOK DEF EngineGone, TierInv, EngineUp

LEMMA LeaveStep == ASSUME TierInv, Leave  PROVE TierInv'
<1>1. EngineUp /\ EngineGone /\ crashes' \in 0..MaxCrashes
  BY DEF Leave, EngineUp, TierInv, TierTypeOK
<1>2. ASSUME NEW a \in Attempts  PROVE store'[a] \in StoreRecord /\ StoreOK(store'[a])
  <2>1. store[a] \in StoreRecord /\ StoreOK(store[a]) /\ tier[a].cause \in Causes
    BY <1>1, Parts DEF TierRecord
  <2>2. PICK st : st = [store[a] EXCEPT !.stop = tier[a].cause]  OBVIOUS
  <2>3. st \in StoreRecord /\ st.open = store[a].open /\ st.outcome = store[a].outcome
    BY <2>1, <2>2 DEF StoreRecord
  <2>4. store'[a] \in {store[a], st}  BY <2>2 DEF Leave
  <2> QED  BY <2>1, <2>3, <2>4 DEF StoreOK
<1>3. store' \in [Attempts -> StoreRecord]  BY <1>2 DEF Leave
<1> QED  BY <1>1, <1>2, <1>3, EngineGoneStep

LEMMA CrashStep == ASSUME TierInv, Crash  PROVE TierInv'
<1>1. crashes' \in 0..MaxCrashes  BY TierAssumption DEF Crash, TierInv, TierTypeOK
<1> QED  BY <1>1, EngineGoneStep DEF Crash, TierInv, TierTypeOK

LEMMA RestartStep == ASSUME TierInv, Restart  PROVE TierInv'
<1>1. /\ phase = "DOWN" /\ phase' = "STARTING" /\ leaving # "clean_shutdown"
      /\ UNCHANGED <<wrapperVars, leaving, adapter, aborted, store, crashes>>
      /\ tier' = [a \in Attempts |-> Adopted(a)]
  BY DEF Restart, TierInv
<1>2. \A a \in Attempts : adapter[a] = "none"  BY <1>1 DEF TierInv
<1>3. ASSUME NEW a \in Attempts
      PROVE  /\ tier'[a] \in TierRecord /\ RecordOK(tier'[a])
             /\ owed'[a] \in {"none", "observe", "cleanup"}
             /\ Linked(tier'[a], store[a], owed'[a], "none")
  <2>1. store[a] \in StoreRecord /\ StoreOK(store[a])  BY DEF TierInv, TierTypeOK
  <2>2. owed'[a] = CASE store[a].open = "open" -> "observe"
                     [] store[a].open = "closing" -> "cleanup"
                     [] OTHER -> "none"
    BY DEF Restart
  <2>3. PICK r : r = Adopted(a) /\ r = tier'[a]  BY <1>1
  <2>4. CASE store[a].open = "open"
    <3>1. r = [Blank EXCEPT !.state = "SPAWNING", !.exited = TRUE]  BY <2>3, <2>4 DEF Adopted
    <3>2. r \in TierRecord  BY <3>1, BlankOK DEF TierRecord, Live
    <3>3. RecordOK(r) /\ r.state = "SPAWNING" /\ r.timer = 0 /\ ~LadderPending(r) /\ ~Held(r)
      BY <3>1 DEF Blank, RecordOK, LadderPending, Held
    <3> QED  BY <2>2, <2>3, <2>4, <3>2, <3>3 DEF Linked, Live
  <2>5. CASE store[a].open = "closing"
    <3>1. r = [Blank EXCEPT !.state = "ENDED", !.exited = TRUE, !.outcome = store[a].outcome,
                            !.cause = store[a].stop,
                            !.planDone = store[a].plan \notin {"input", "rerun"}]
      BY <2>3, <2>5 DEF Adopted
    <3>2. PICK planDone \in BOOLEAN : planDone = (store[a].plan \notin {"input", "rerun"})  OBVIOUS
    <3>3. r = [Blank EXCEPT !.state = "ENDED", !.exited = TRUE, !.outcome = store[a].outcome,
                            !.cause = store[a].stop, !.planDone = planDone]
      BY <3>1, <3>2
    <3>4. store[a].outcome \in Outcomes \cup {"none"} /\ store[a].stop \in Causes
          /\ store[a].outcome # "none"
      BY <2>1, <2>5 DEF StoreRecord, StoreOK
    <3>5. r \in TierRecord  BY <3>3, <3>4, BlankOK DEF TierRecord
    <3>6. /\ r.state = "ENDED" /\ r.timer = 0 /\ r.outcome = store[a].outcome
          /\ ~LadderPending(r) /\ ~Held(r)
      BY <3>3 DEF Blank, LadderPending, Held
    <3> QED  BY <2>2, <2>3, <2>5, <3>4, <3>5, <3>6 DEF Linked, RecordOK, Live
  <2>6. CASE store[a].open \notin {"open", "closing"}
    <3>1. r = Blank  BY <2>3, <2>6 DEF Adopted
    <3>2. store[a].open \in {"never", "closed"}  BY <2>1, <2>6 DEF StoreRecord
    <3>3. r.state = "NONE" /\ r.timer = 0 /\ ~LadderPending(r) /\ ~Held(r)
      BY <3>1 DEF Blank, LadderPending, Held
    <3> QED  BY <2>2, <2>3, <2>6, <3>1, <3>2, <3>3, BlankOK DEF Linked, Live
  <2> QED  BY <2>4, <2>5, <2>6
<1>4. tier' \in [Attempts -> TierRecord] /\ owed' \in [Attempts -> {"none", "observe", "cleanup"}]
  BY <1>1, <1>3 DEF Restart
<1>5. WrapperTypeOK'  BY <1>1 DEF TierInv, TierTypeOK, wrapperVars, WrapperTypeOK
<1>6. TierTypeOK'  BY <1>1, <1>4, <1>5 DEF TierInv, TierTypeOK
<1>7. \A a \in Attempts :
        /\ RecordOK(tier'[a]) /\ StoreOK(store'[a])
        /\ Linked(tier'[a], store'[a], owed'[a], adapter'[a])
  BY <1>1, <1>2, <1>3 DEF TierInv
<1> QED  BY <1>1, <1>6, <1>7 DEF TierInv, EngineUp

LEMMA TierInvNext == TierInv /\ [Next]_vars => TierInv'
<1> SUFFICES ASSUME TierInv, [Next]_vars  PROVE TierInv'
  OBVIOUS
<1>1. CASE UNCHANGED vars
  BY <1>1 DEF vars, engineVars, wrapperVars, TierInv, TierTypeOK, WrapperTypeOK, Undisturbed,
              EngineUp
<1>2. ASSUME NEW a \in Attempts, Handler(a)  PROVE TierInv'
  BY <1>2, AdapterCreateStep, AdapterFailsStep, AdapterUnlaunchedStep, AdapterSendStep,
     PollSpawnStep, PollExitStep, TaskReapedStep, TimerFiresStep, LadderRunsStep,
     VerdictEndsStep, LadderDoneStep, HeldReleasedStep, HeldKilledStep, PlanFinishesStep,
     RestartObserveStep, RestartCleanupStep
     DEF Handler
<1>3. ASSUME NEW a \in Attempts, NEW selected \in BOOLEAN, OracleKill(a, selected)
      PROVE  TierInv'
  BY <1>3, OracleKillStep
<1>4. ASSUME NEW a \in Attempts, World(a) \/ Dispatch(a)  PROVE TierInv'
  BY <1>4, WorldStep, DispatchStep
<1>5. CASE ReplayDone \/ BeginDrain \/ StopDuringStartup \/ AbortDeadline \/ Leave \/ Crash \/ Restart
  BY <1>5, ReplayDoneStep, BeginDrainStep, StopDuringStartupStep, AbortDeadlineStep,
     LeaveStep, CrashStep, RestartStep
<1> QED  BY <1>1, <1>2, <1>3, <1>4, <1>5 DEF Next

LEMMA TierInvAlways == Spec => []TierInv
<1>1. Init => TierInv  BY TierInvInit
<1>2. TierInv /\ [Next]_vars => TierInv'  BY TierInvNext
<1> QED  BY <1>1, <1>2, PTL DEF Spec

-----------------------------------------------------------------------------
(* What the invariant is for.                                              *)

\* Every fact the engine keeps of an attempt stays in its range; a record timer
\* has at most two generations, because attempt.09 restarts it only at the
\* first sight of spawn.json.
THEOREM TierTypeCorrect == Spec => []TierTypeOK
<1>1. TierInv => TierTypeOK  BY DEF TierInv
<1> QED  BY <1>1, TierInvAlways, PTL

\* A clean shutdown leaves the next start nothing to adopt, however many
\* attempts the drain had to wait for and however they ended.
THEOREM CleanShutdownIsClean == Spec => []CleanShutdownLeavesNothingOpen
<1>1. TierInv => CleanShutdownLeavesNothingOpen
  <2> SUFFICES ASSUME TierInv, leaving = "clean_shutdown", NEW a \in Attempts
               PROVE  store[a].open \in {"never", "closed"} /\ store[a].plan # "input"
    BY DEF CleanShutdownLeavesNothingOpen
  <2>1. /\ EngineUp /\ owed[a] = "none" /\ ~Unsettled(tier[a]) /\ store[a].plan # "input"
    BY DEF TierInv, Undisturbed, EngineUp
  <2>2. /\ tier[a].state \in Live \cup {"NONE", "ENDED", "FORGOTTEN"}
        /\ Linked(tier[a], store[a], owed[a], adapter[a])
    BY <2>1, Parts DEF TierRecord
  <2> QED  BY <2>1, <2>2 DEF Unsettled, Linked
<1> QED  BY <1>1, TierInvAlways, PTL

-----------------------------------------------------------------------------
(* A closed attempt is gone.                                               *)

Exempt(outcome) == LeakPolicy = "leak" /\ outcome = "natural"
Leaks(r) == r.state = "ENDED" /\ Exempt(r.outcome) /\ ~LadderPending(r)

\* Nothing of the attempt's command is left and nothing can start it any more.
Empty(a) == command[a] = {} /\ wrapper[a] \notin {"reading", "ready"}
Gone(a) == Empty(a) /\ (adapter[a] = "spawning" => aborted[a])

-----------------------------------------------------------------------------
(* The strengthening.  A reading that finds nothing is final because the    *)
(* spawn.json the tier has seen was written by a wrapper past its launch,   *)
(* because a wrapper that spawn.json does not name yet counts as something  *)
(* left, and because an attempt that is over lets its adapter create no     *)
(* wrapper that runs.  A ladder that is finishing has had its verdict.      *)

Facts(a) ==
  /\ spawnFile[a] => wrapper[a] \notin {"absent", "reading", "ready"}
  /\ tier[a].spawn => spawnFile[a]
  /\ store[a].open = "never" => wrapper[a] = "absent" /\ adapter[a] = "none"
  /\ adapter[a] = "spawning" => wrapper[a] = "absent"
  /\ adapter[a] = "spawning" => tier[a].state = "SPAWNING" \/ aborted[a]
  /\ tier[a].state = "ENDED" /\ tier[a].ladder = "finishing" =>
       tier[a].survived \/ LeftOf(a, tier[a]) = {}
  /\ tier[a].leakHold => Leaks(tier[a])
  /\ tier[a].state = "ENDED" => tier[a].outcome = store[a].outcome
  /\ store[a].open = "closed" => Gone(a) \/ Exempt(store[a].outcome)

GoneInv == TierInv /\ \A a \in Attempts : Facts(a)

\* What an event may do to what is known of an attempt's processes.
Track(a, r, s) ==
  /\ r.spawn => s.spawn
  /\ s.spawn => r.spawn \/ spawnFile[a]
  /\ s.leakHold => r.leakHold \/ Leaks(s)
  /\ r.survived => s.survived
  /\ s.ladder = "finishing" => r.ladder = "finishing"
  /\ r.state # "ENDED" /\ s.state = "ENDED" =>
       LadderPending(s) \/ Held(s) \/ LeftOf(a, s) = {} \/ Exempt(s.outcome)

LEMMA LeftShrinks ==
  ASSUME NEW a, NEW r, NEW s, r.spawn => s.spawn, LeftOf(a, r) = {}
  PROVE  LeftOf(a, s) = {}
  BY DEF LeftOf

LEMMA TrackStays == ASSUME NEW a, NEW r  PROVE Track(a, r, r)
  BY DEF Track

LEMMA SpawnRecordedTracks ==
  ASSUME NEW a \in Attempts, NEW r \in TierRecord, spawnFile[a]
  PROVE  /\ Track(a, r, SpawnRecorded(r))
         /\ SpawnRecorded(r).state = "ENDED" <=> r.state = "ENDED"
<1>1. CASE r.spawn  BY <1>1, TrackStays DEF SpawnRecorded
<1>2. CASE ~r.spawn
  <2>1. PICK s : s = SpawnRecorded(r)  OBVIOUS
  <2>2. /\ s.spawn /\ s.leakHold = r.leakHold /\ s.survived = r.survived
        /\ s.outcome = r.outcome /\ s.ladder \in {r.ladder, "laddering"}
        /\ s.state = "ENDED" <=> r.state = "ENDED"
    BY <1>2, <2>1 DEF SpawnRecorded, Restarted, TierRecord, Live
  <2> QED  BY <2>1, <2>2 DEF Track
<1> QED  BY <1>1, <1>2

LEMMA EndTracks ==
  ASSUME NEW a \in Attempts, NEW r \in TierRecord, r.state # "ENDED",
         NEW outcome \in Outcomes, NEW fails \in BOOLEAN
  PROVE  Track(a, r, End(a, r, outcome, fails))
<1>1. PICK e : e = [r EXCEPT !.state = "ENDED", !.outcome = outcome, !.timer = 0]  OBVIOUS
<1>2. PICK s : s = WhatIsLeft(a, e, fails)  OBVIOUS
<1>7. s = End(a, r, outcome, fails)  BY <1>1, <1>2 DEF End
<1> SUFFICES Track(a, r, s)  BY <1>7
<1>3. /\ e.spawn = r.spawn /\ e.leakHold = r.leakHold /\ e.survived = r.survived
      /\ e.failed = r.failed /\ e.ladder = r.ladder /\ e.outcome = outcome /\ e.state = "ENDED"
  BY <1>1 DEF TierRecord
<1>4. CASE LadderPending(e) \/ e.failed \/ Look(a, e, fails) = "none"
  <2>1. s = e  BY <1>2, <1>4 DEF WhatIsLeft
  <2>2. Look(a, e, fails) = "none" => LeftOf(a, e) = {}  BY DEF Look
  <2>3. LadderPending(s) \/ Held(s) \/ LeftOf(a, s) = {}
    BY <1>4, <2>1, <2>2 DEF Held
  <2>4. s.ladder = "finishing" => r.ladder = "finishing"  BY <1>3, <2>1
  <2> QED  BY <1>3, <2>1, <2>3, <2>4 DEF Track
<1>5. CASE ~(LadderPending(e) \/ e.failed \/ Look(a, e, fails) = "none")
           /\ e.outcome = "natural" /\ LeakPolicy = "leak"
  <2>1. s = IF Look(a, e, fails) = "unknown"
            THEN [e EXCEPT !.survived = TRUE, !.leakHold = TRUE]
            ELSE e
    BY <1>2, <1>5 DEF WhatIsLeft
  <2>2. e \in TierRecord
    <3>1. 0 \in 0..2  OBVIOUS
    <3> QED  BY <1>1, <3>1 DEF TierRecord
  <2>3. /\ s.spawn = r.spawn /\ s.ladder = r.ladder /\ s.outcome = outcome
        /\ s.state = "ENDED" /\ (r.survived => s.survived)
    BY <1>3, <2>1, <2>2 DEF TierRecord
  <2>4. Exempt(s.outcome) /\ ~LadderPending(s)
    BY <1>3, <1>5, <2>3 DEF Exempt, LadderPending
  <2> QED  BY <2>3, <2>4 DEF Track, Leaks
<1>6. CASE /\ ~(LadderPending(e) \/ e.failed \/ Look(a, e, fails) = "none")
           /\ ~(e.outcome = "natural" /\ LeakPolicy = "leak")
  <2>1. s = [e EXCEPT !.ladder = IF @ = "none" THEN "laddering" ELSE "verdict"]
    BY <1>2, <1>6 DEF WhatIsLeft
  <2>2. e \in TierRecord
    <3>1. 0 \in 0..2  OBVIOUS
    <3> QED  BY <1>1, <3>1 DEF TierRecord
  <2>3. /\ s.spawn = r.spawn /\ s.survived = r.survived /\ s.outcome = outcome
        /\ s.leakHold = r.leakHold /\ s.state = "ENDED" /\ s.ladder \in {"laddering", "verdict"}
    BY <1>3, <2>1, <2>2 DEF TierRecord
  <2> QED  BY <2>3 DEF Track, LadderPending
<1> QED  BY <1>4, <1>5, <1>6

LEMMA StatusRecordedTracks ==
  ASSUME NEW a \in Attempts, NEW r \in TierRecord, NEW fails \in BOOLEAN
  PROVE  Track(a, r, StatusRecorded(a, r, fails))
  BY EndTracks, TrackStays, OutcomeIsOne DEF StatusRecorded, Live

LEMMA SpawnFailedTracks ==
  ASSUME NEW a \in Attempts, NEW r \in TierRecord, NEW fails \in BOOLEAN
  PROVE  Track(a, r, SpawnFailed(a, r, fails))
<1>1. "spawn_failed" \in Outcomes  BY DEF Outcomes
<1> QED  BY <1>1, EndTracks, TrackStays DEF SpawnFailed

LEMMA EngineDiedTracks ==
  ASSUME NEW a \in Attempts, NEW r \in TierRecord, r.state # "ENDED", NEW fails \in BOOLEAN
  PROVE  Track(a, r, EngineDied(a, r, fails))
<1>1. "unobservable" \in Outcomes  BY DEF Outcomes
<1> QED  BY <1>1, EndTracks DEF EngineDied

LEMMA WrapperExitedTracks ==
  ASSUME NEW a \in Attempts, NEW r \in TierRecord, NEW fails \in BOOLEAN
  PROVE  Track(a, r, WrapperExited(a, r, fails))
<1>1. CASE r.state \notin Live  BY <1>1, TrackStays DEF WrapperExited
<1>2. CASE r.state \in Live /\ CommandAlive(a, r, fails) /\ r.state = "RUNNING"
  <2>1. PICK s : s = WrapperExited(a, r, fails)  OBVIOUS
  <2>2. /\ s.spawn = r.spawn /\ s.leakHold = r.leakHold /\ s.survived = r.survived
        /\ s.ladder = "laddering" /\ s.state = "STOPPING"
    BY <1>2, <2>1 DEF WrapperExited, Restarted, TierRecord
  <2> QED  BY <2>1, <2>2 DEF Track
<1>3. CASE r.state \in Live /\ CommandAlive(a, r, fails) /\ r.state # "RUNNING"
  BY <1>3, TrackStays DEF WrapperExited
<1>4. CASE r.state \in Live /\ ~CommandAlive(a, r, fails)
  <2>1. "unobservable" \in Outcomes  BY DEF Outcomes
  <2> QED  BY <1>4, <2>1, EndTracks DEF WrapperExited, Live
<1> QED  BY <1>1, <1>2, <1>3, <1>4

LEMMA RecordTimeoutTracks ==
  ASSUME NEW a \in Attempts, NEW r \in TierRecord, NEW generation, NEW fails \in BOOLEAN,
         RecordOK(r)
  PROVE  /\ Track(a, r, RecordTimeout(a, r, generation, fails))
         /\ r.state # "STOPPING" => RecordTimeout(a, r, generation, fails) = r
<1>1. CASE ~Current(r, generation)  BY <1>1, TrackStays DEF RecordTimeout
<1>2. CASE Current(r, generation)
  <2>1. r.state = "STOPPING"  BY <1>2 DEF Current
  <2>2. PICK launched \in BOOLEAN : launched = (spawnFile[a] /\ ~r.spawn)  OBVIOUS
  <2>3. CASE launched
    <3>1. PICK seen : seen = SpawnRecorded(r)  OBVIOUS
    <3>2. Track(a, r, seen) /\ seen.state # "ENDED" /\ seen \in TierRecord
      BY <2>1, <2>2, <2>3, <3>1, SpawnRecordedTracks, SpawnRecordedMoves DEF Moves
    <3>3. RecordTimeout(a, r, generation, fails) \in {seen, StatusRecorded(a, seen, fails)}
      BY <1>2, <2>2, <2>3, <3>1 DEF RecordTimeout
    <3>4. Track(a, seen, StatusRecorded(a, seen, fails))  BY <3>2, StatusRecordedTracks
    <3>5. Track(a, r, StatusRecorded(a, seen, fails))
      BY <2>1, <3>2, <3>4 DEF Track, Leaks
    <3> QED  BY <2>1, <3>2, <3>3, <3>5
  <2>4. CASE ~launched
    <3>1. RecordTimeout(a, r, generation, fails) \in
            {StatusRecorded(a, r, fails), [r EXCEPT !.timer = generation],
             [r EXCEPT !.survived = TRUE], End(a, r, "unobservable", fails)}
      BY <1>2, <2>2, <2>4 DEF RecordTimeout
    <3>2. Track(a, r, [r EXCEPT !.timer = generation])  BY DEF Track, TierRecord
    <3>3. Track(a, r, [r EXCEPT !.survived = TRUE])  BY <2>1 DEF Track, TierRecord
    <3>4. "unobservable" \in Outcomes  BY DEF Outcomes
    <3>5. Track(a, r, End(a, r, "unobservable", fails))  BY <2>1, <3>4, EndTracks
    <3>6. Track(a, r, StatusRecorded(a, r, fails))  BY StatusRecordedTracks
    <3> QED  BY <2>1, <3>1, <3>2, <3>3, <3>5, <3>6
  <2> QED  BY <2>3, <2>4
<1> QED  BY <1>1, <1>2

-----------------------------------------------------------------------------
(* What a step does to the facts of the attempt it is about, and to others.  *)

Only(a) ==
  \A b \in Attempts \ {a} :
    /\ spawnFile'[b] = spawnFile[b] /\ wrapper'[b] = wrapper[b] /\ command'[b] = command[b]
    /\ tier'[b] = tier[b] /\ store'[b] = store[b] /\ adapter'[b] = adapter[b]
    /\ aborted[b] => aborted'[b]

LEMMA OthersStay ==
  ASSUME GoneInv, NEW a \in Attempts, Only(a), Facts(a)'
  PROVE  \A b \in Attempts : Facts(b)'
<1> SUFFICES ASSUME NEW b \in Attempts \ {a}  PROVE Facts(b)'
  OBVIOUS
<1>1. Facts(b)  BY DEF GoneInv
<1>2. /\ spawnFile'[b] = spawnFile[b] /\ wrapper'[b] = wrapper[b] /\ command'[b] = command[b]
      /\ tier'[b] = tier[b] /\ store'[b] = store[b] /\ adapter'[b] = adapter[b]
      /\ aborted[b] => aborted'[b]
  BY DEF Only
<1> QED  BY <1>1, <1>2 DEF Facts, Gone, Empty, LeftOf, WrapperAlive

\* A reading that finds nothing is final.
LEMMA NothingLeft ==
  ASSUME NEW a \in Attempts, Facts(a), NEW r, r.spawn => spawnFile[a], LeftOf(a, r) = {}
  PROVE  Empty(a)
  BY DEF Facts, LeftOf, WrapperAlive, Empty

\* The engine's part of a step: the world is as it was, and the record k and
\* the store's entry st are what the step makes of the attempt.
EngineFacts(a, k, st, ad) ==
  /\ k.spawn => spawnFile[a]
  /\ st.open = "never" => store[a].open = "never"
  /\ k.state = "ENDED" /\ k.ladder = "finishing" => k.survived \/ LeftOf(a, k) = {}
  /\ k.leakHold => Leaks(k)
  /\ k.state = "ENDED" => k.outcome = st.outcome
  /\ st.open = "closed" =>
       (Empty(a) /\ (ad = "spawning" => aborted[a])) \/ Exempt(st.outcome)

LEMMA EngineStepFacts ==
  ASSUME GoneInv, TierInv, NEW a \in Attempts, NEW k, NEW st, NEW ad,
         UNCHANGED <<wrapper, command, spawnFile>>, aborted' = aborted,
         tier' = [tier EXCEPT ![a] = k], store' = [store EXCEPT ![a] = st],
         adapter' = [adapter EXCEPT ![a] = ad],
         ad # "none" => adapter[a] # "none",
         ad = "spawning" => adapter[a] = "spawning" /\ (k.state = "SPAWNING" \/ aborted[a]),
         EngineFacts(a, k, st, ad)
  PROVE  \A b \in Attempts : Facts(b)'
<1>1. /\ DOMAIN tier = Attempts /\ DOMAIN store = Attempts /\ DOMAIN adapter = Attempts
  BY DEF TierInv, TierTypeOK
<1>2. tier'[a] = k /\ store'[a] = st /\ adapter'[a] = ad  BY <1>1
<1>3. Only(a)  BY <1>1 DEF Only
<1>4. Facts(a)  BY DEF GoneInv
<1>5. Facts(a)'
  BY <1>2, <1>4 DEF Facts, EngineFacts, Gone, Empty, LeftOf, WrapperAlive
<1> QED  BY <1>3, <1>5, OthersStay

\* What is known of the record a handler leaves.
Known(a, r) ==
  /\ r.spawn => spawnFile[a]
  /\ r.state = "ENDED" /\ r.ladder = "finishing" => r.survived \/ LeftOf(a, r) = {}
  /\ r.leakHold => Leaks(r)
  /\ tier[a].state # "ENDED" /\ r.state = "ENDED" =>
       LadderPending(r) \/ Held(r) \/ LeftOf(a, r) = {} \/ Exempt(r.outcome)

LEMMA KeptFacts ==
  ASSUME NEW r \in TierRecord, RecordOK(r), NEW a \in Attempts, Known(a, r),
         NEW k, k = Kept(r)
  PROVE  /\ k.spawn => spawnFile[a]
         /\ k.state = "ENDED" /\ k.ladder = "finishing" => k.survived \/ LeftOf(a, k) = {}
         /\ k.leakHold => Leaks(k)
         /\ k.state = "ENDED" => k = r
         /\ k.state = r.state \/ (k.state = "FORGOTTEN" /\ r.state = "ENDED")
<1>1. CASE k = r  BY <1>1 DEF Known
<1>2. CASE k # r
  <2>1. k = [Blank EXCEPT !.state = "FORGOTTEN"]  BY <1>2 DEF Kept
  <2>2. ~k.spawn /\ k.state = "FORGOTTEN" /\ ~k.leakHold  BY <2>1 DEF Blank
  <2>3. r.state = "ENDED"  BY <1>2, KeptFits
  <2> QED  BY <2>2, <2>3
<1> QED  BY <1>1, <1>2

LEMMA HandledFacts ==
  ASSUME GoneInv, EngineUp, NEW a \in Attempts, NEW r, Moves(tier[a], r), Known(a, r),
         NEW cause, NEW called, Handled(a, r, cause, called),
         NEW ad, adapter' = [adapter EXCEPT ![a] = ad],
         ad # "none" => adapter[a] # "none",
         ad = "spawning" => adapter[a] = "spawning" /\ (r.state = "SPAWNING" \/ aborted[a]),
         UNCHANGED <<wrapper, command, spawnFile>>, aborted' = aborted
  PROVE  \A b \in Attempts : Facts(b)'
<1>1. /\ TierInv /\ Facts(a) /\ r \in TierRecord /\ RecordOK(r)
      /\ store \in [Attempts -> StoreRecord] /\ tier[a] \in TierRecord
      /\ RecordOK(tier[a]) /\ Linked(tier[a], store[a], owed[a], adapter[a])
  BY Parts DEF GoneInv, Moves
<1>2. CASE r.outcome = tier[a].outcome
  <2>1. tier' = [tier EXCEPT ![a] = Kept(r)] /\ store' = [store EXCEPT ![a] = store[a]]
    BY <1>1, <1>2 DEF Handled
  <2>2. PICK k : k = Kept(r)  OBVIOUS
  <2>3. EngineFacts(a, k, store[a], ad)
    <3>1. k.state = "ENDED" => k = r /\ tier[a].state = "ENDED"
      BY <1>1, <1>2, <2>2, KeptFacts DEF Moves, RecordOK
    <3>2. k.state = "ENDED" => k.outcome = store[a].outcome
      BY <1>1, <1>2, <3>1 DEF Facts
    <3> QED  BY <1>1, <2>2, <3>2, KeptFacts DEF EngineFacts, Facts, Gone
  <2>4. ad = "spawning" => adapter[a] = "spawning" /\ (k.state = "SPAWNING" \/ aborted[a])
    BY <1>1, <2>2, KeptFacts
  <2> QED  BY <1>1, <2>1, <2>2, <2>3, <2>4, EngineStepFacts
<1>3. CASE r.outcome # tier[a].outcome
  <2>1. PICK plan \in Plans(r.outcome, cause) :
          /\ store' = [store EXCEPT ![a].open = OpenAfter(r),
                                    ![a].outcome = r.outcome,
                                    ![a].plan = plan]
          /\ tier' = [tier EXCEPT ![a] = Kept([r EXCEPT !.planDone = (plan = "none")])]
    BY <1>3 DEF Handled
  <2>2. /\ tier[a].state # "ENDED" /\ r.state = "ENDED" /\ store[a].open = "open"
    BY <1>1, <1>3 DEF Moves, RecordOK, Linked, Live
  <2>3. PICK st : st = [store[a] EXCEPT !.open = OpenAfter(r), !.outcome = r.outcome,
                                        !.plan = plan]
    OBVIOUS
  <2>4. st.open = OpenAfter(r) /\ st.outcome = r.outcome  BY <1>1, <2>3 DEF StoreRecord
  <2>5. store' = [store EXCEPT ![a] = st]  BY <1>1, <2>1, <2>3 DEF StoreRecord
  <2>6. PICK planDone \in BOOLEAN : planDone = (plan = "none")  OBVIOUS
  <2>7. PICK s : s = [r EXCEPT !.planDone = planDone]  OBVIOUS
  <2>8. PICK k : k = Kept(s)  OBVIOUS
  <2>9. tier' = [tier EXCEPT ![a] = k]  BY <2>1, <2>6, <2>7, <2>8
  <2>10. /\ s \in TierRecord /\ s.state = r.state /\ s.outcome = r.outcome
         /\ s.spawn = r.spawn /\ s.ladder = r.ladder /\ s.survived = r.survived
         /\ s.failed = r.failed /\ s.leakHold = r.leakHold /\ s.gen = r.gen
    BY <1>1, <2>7 DEF TierRecord
  <2>11. RecordOK(s) /\ Known(a, s)
    BY <1>1, <2>2, <2>10 DEF RecordOK, Known, Leaks, LadderPending, Held, LeftOf
  <2>12. st.open = "closed" => Empty(a) \/ Exempt(st.outcome)
    <3>1. st.open = "closed" => LeftOf(a, r) = {} \/ Exempt(r.outcome)
      BY <2>2, <2>4 DEF OpenAfter, Known
    <3>2. LeftOf(a, r) = {} => Empty(a)
      BY <1>1, <2>2, NothingLeft DEF Known
    <3> QED  BY <2>4, <3>1, <3>2
  <2>13. EngineFacts(a, k, st, ad)
    <3>1. st.open # "never"  BY <2>4 DEF OpenAfter
    <3>2. k.state = "ENDED" => k.outcome = st.outcome
      BY <2>4, <2>8, <2>10, <2>11, KeptFacts
    <3> QED  BY <2>2, <2>8, <2>10, <2>11, <2>12, <3>1, <3>2, KeptFacts DEF EngineFacts
  <2>14. ad = "spawning" => adapter[a] = "spawning" /\ (k.state = "SPAWNING" \/ aborted[a])
    BY <2>2
  <2> QED  BY <1>1, <2>5, <2>9, <2>13, <2>14, EngineStepFacts
<1> QED  BY <1>2, <1>3

LEMMA TrackKnown ==
  ASSUME NEW a \in Attempts, Facts(a), NEW r, Moves(tier[a], r), Track(a, tier[a], r),
         tier[a].ladder # "finishing"
  PROVE  Known(a, r)
  BY DEF Facts, Track, Known, Moves, Leaks, Live

-----------------------------------------------------------------------------
(* The handlers that post to the chart.                                      *)

LEMMA AdapterFailsFacts ==
  ASSUME GoneInv, "turn" \notin Faults, NEW a \in Attempts, AdapterFails(a)
  PROVE  \A b \in Attempts : Facts(b)'
<1>1. EngineUp /\ tier[a].ladder # "finishing" /\ AdapterEnds(a) /\ adapter[a] # "none"
  BY DEF AdapterFails, Turn
<1>2. tier[a] \in TierRecord /\ RecordOK(tier[a]) /\ Facts(a)
  BY <1>1, Parts DEF GoneInv
<1>3. PICK fails, r :
        /\ fails \in ScanOutcomes
        /\ r = SpawnFailed(a, tier[a], fails) /\ Handled(a, r, tier[a].cause, FALSE)
  BY DEF AdapterFails
<1>4. fails \in BOOLEAN  BY <1>3 DEF ScanOutcomes
<1>6. Moves(tier[a], r) /\ Track(a, tier[a], r)
  BY <1>2, <1>3, <1>4, SpawnFailedMoves, SpawnFailedTracks
<1>7. Known(a, r)  BY <1>1, <1>2, <1>6, TrackKnown
<1>8. UNCHANGED <<wrapper, command, spawnFile>> /\ aborted' = aborted
      /\ adapter' = [adapter EXCEPT ![a] = "done"]
  BY <1>1 DEF AdapterEnds
<1> QED  BY <1>1, <1>3, <1>6, <1>7, <1>8, HandledFacts, ZenonT(40)

LEMMA AdapterUnlaunchedFacts ==
  ASSUME GoneInv, "turn" \notin Faults, NEW a \in Attempts, AdapterUnlaunched(a)
  PROVE  \A b \in Attempts : Facts(b)'
<1>1. EngineUp /\ tier[a].ladder # "finishing" /\ AdapterEnds(a) /\ adapter[a] # "none"
  BY DEF AdapterUnlaunched, Turn
<1>2. tier[a] \in TierRecord /\ RecordOK(tier[a]) /\ Facts(a)
  BY <1>1, Parts DEF GoneInv
<1>3. PICK fails, r :
        /\ fails \in ScanOutcomes
        /\ r = WrapperExited(a, tier[a], fails) /\ Handled(a, r, tier[a].cause, FALSE)
  BY DEF AdapterUnlaunched
<1>4. fails \in BOOLEAN  BY <1>3 DEF ScanOutcomes
<1>6. Moves(tier[a], r) /\ Track(a, tier[a], r)
  BY <1>2, <1>3, <1>4, WrapperExitedMoves, WrapperExitedTracks
<1>7. Known(a, r)  BY <1>1, <1>2, <1>6, TrackKnown
<1>8. UNCHANGED <<wrapper, command, spawnFile>> /\ aborted' = aborted
      /\ adapter' = [adapter EXCEPT ![a] = "done"]
  BY <1>1 DEF AdapterEnds
<1> QED  BY <1>1, <1>3, <1>6, <1>7, <1>8, HandledFacts, ZenonT(40)

\* Events on one record add up when the first does not end it.
LEMMA TracksOn ==
  ASSUME NEW a, NEW r, NEW s, NEW t, Track(a, r, s), Track(a, s, t),
         (s.state = "ENDED") <=> (r.state = "ENDED"),
         s.leakHold => r.leakHold
  PROVE  Track(a, r, t)
  BY DEF Track

\* The first sight of spawn.json, where there is one.
LEMMA SeenTracks ==
  ASSUME NEW a \in Attempts, NEW r \in TierRecord, NEW seen, RecordOK(r),
         seen = IF spawnFile[a] THEN SpawnRecorded(r) ELSE r
  PROVE  /\ Moves(r, seen) /\ Track(a, r, seen) /\ seen \in TierRecord /\ RecordOK(seen)
         /\ (seen.state = "ENDED") <=> (r.state = "ENDED")
         /\ seen.leakHold => r.leakHold
<1>1. Moves(r, seen)  BY SpawnRecordedMoves, StaysMoves
<1>2. Track(a, r, seen) /\ ((seen.state = "ENDED") <=> (r.state = "ENDED"))
  BY SpawnRecordedTracks, TrackStays
<1>3. seen.leakHold => r.leakHold
  BY DEF SpawnRecorded, Restarted, TierRecord, Live
<1> QED  BY <1>1, <1>2, <1>3 DEF Moves

LEMMA PollExitFacts ==
  ASSUME GoneInv, "turn" \notin Faults, NEW a \in Attempts, PollExit(a)
  PROVE  \A b \in Attempts : Facts(b)'
<1>1. EngineUp /\ tier[a].ladder # "finishing" /\ AdapterEnds(a) /\ adapter[a] # "none"
  BY DEF PollExit, Turn
<1>2. tier[a] \in TierRecord /\ RecordOK(tier[a]) /\ Facts(a)
  BY <1>1, Parts DEF GoneInv
<1>3. PICK seen : seen = IF spawnFile[a] THEN SpawnRecorded(tier[a]) ELSE tier[a]  OBVIOUS
<1>4. PICK fails, r :
        /\ fails \in ScanOutcomes
        /\ r = IF statusFile[a] # "none" THEN StatusRecorded(a, seen, fails)
                                         ELSE WrapperExited(a, seen, fails)
        /\ Handled(a, r, seen.cause, FALSE)
  BY <1>3 DEF PollExit
<1>5. fails \in BOOLEAN  BY <1>4 DEF ScanOutcomes
<1>6. /\ Moves(tier[a], seen) /\ Track(a, tier[a], seen) /\ seen \in TierRecord /\ RecordOK(seen)
      /\ (seen.state = "ENDED") <=> (tier[a].state = "ENDED")
      /\ seen.leakHold => tier[a].leakHold
  BY <1>2, <1>3, SeenTracks
<1>7. Moves(seen, r) /\ Track(a, seen, r)
  BY <1>4, <1>5, <1>6, StatusRecordedMoves, StatusRecordedTracks, WrapperExitedMoves,
     WrapperExitedTracks
<1>8. Moves(tier[a], r) /\ Track(a, tier[a], r)  BY <1>6, <1>7, MovesOn, TracksOn
<1>9. Known(a, r)  BY <1>1, <1>2, <1>8, TrackKnown
<1>10. UNCHANGED <<wrapper, command, spawnFile>> /\ aborted' = aborted
       /\ adapter' = [adapter EXCEPT ![a] = "done"]
  BY <1>1 DEF AdapterEnds
<1> QED  BY <1>1, <1>4, <1>8, <1>9, <1>10, HandledFacts

LEMMA PollSpawnFacts ==
  ASSUME GoneInv, "turn" \notin Faults, NEW a \in Attempts, PollSpawn(a)
  PROVE  \A b \in Attempts : Facts(b)'
<1>1. EngineUp /\ tier[a].ladder # "finishing" /\ adapter[a] # "none" /\ spawnFile[a]
  BY DEF PollSpawn, Turn
<1>2. tier[a] \in TierRecord /\ RecordOK(tier[a]) /\ Facts(a)
  BY <1>1, Parts DEF GoneInv
<1>3. PICK r : r = SpawnRecorded(tier[a])  OBVIOUS
<1>4. Moves(tier[a], r) /\ Track(a, tier[a], r)
  BY <1>1, <1>2, <1>3, SpawnRecordedMoves, SpawnRecordedTracks
<1>5. Known(a, r)  BY <1>1, <1>2, <1>4, TrackKnown
<1>6. /\ UNCHANGED <<wrapper, command, spawnFile>> /\ aborted' = aborted
      /\ adapter' = [adapter EXCEPT ![a] = "waiting"]
      /\ Handled(a, r, tier[a].cause, FALSE)
  BY <1>3 DEF PollSpawn, wrapperVars
<1> QED  BY <1>1, <1>4, <1>5, <1>6, HandledFacts, ZenonT(40)

LEMMA TimerFiresFacts ==
  ASSUME GoneInv, NEW a \in Attempts, TimerFires(a)
  PROVE  \A b \in Attempts : Facts(b)'
<1>1. EngineUp /\ tier[a].ladder # "finishing"  BY DEF TimerFires
<1>2. tier[a] \in TierRecord /\ RecordOK(tier[a]) /\ Facts(a)
  BY <1>1, Parts DEF GoneInv
<1>3. PICK s : s = [tier[a] EXCEPT !.timer = 0]  OBVIOUS
<1>4. /\ s \in TierRecord /\ s.state = tier[a].state /\ s.outcome = tier[a].outcome
      /\ s.planDone = tier[a].planDone /\ s.spawn = tier[a].spawn
      /\ s.ladder = tier[a].ladder /\ s.survived = tier[a].survived /\ s.gen = tier[a].gen
      /\ s.failed = tier[a].failed /\ s.leakHold = tier[a].leakHold
  <2>1. 0 \in 0..2  OBVIOUS
  <2> QED  BY <1>2, <1>3, <2>1 DEF TierRecord
<1>5. RecordOK(s) /\ Moves(tier[a], s) /\ Track(a, tier[a], s)
  BY <1>2, <1>4 DEF RecordOK, Moves, Track, LadderPending, Held, LeftOf, Live, TierRecord
<1>6. PICK fails, r :
        /\ fails \in ScanOutcomes
        /\ r = RecordTimeout(a, s, tier[a].timer, fails)
        /\ Handled(a, r, tier[a].cause, FALSE)
  BY <1>3 DEF TimerFires
<1>7. fails \in BOOLEAN /\ tier[a].timer \in 0..2  BY <1>2, <1>6 DEF ScanOutcomes, TierRecord
<1>8. /\ Moves(s, r) /\ Track(a, s, r) /\ (s.state # "STOPPING" => r = s)
  BY <1>4, <1>5, <1>6, <1>7, RecordTimeoutMoves, RecordTimeoutTracks
<1>9. Moves(tier[a], r) /\ Track(a, tier[a], r)
  BY <1>4, <1>5, <1>8, MovesOn, TracksOn
<1>10. Known(a, r)  BY <1>1, <1>2, <1>9, TrackKnown
<1>11. adapter[a] = "spawning" => r.state = "SPAWNING" \/ aborted[a]
  BY <1>2, <1>4, <1>8 DEF Facts
<1>12. /\ UNCHANGED <<wrapper, command, spawnFile>> /\ aborted' = aborted
       /\ adapter' = [adapter EXCEPT ![a] = adapter[a]]
  BY <1>1, Parts DEF TimerFires, wrapperVars, GoneInv
<1> QED  BY <1>1, <1>6, <1>9, <1>10, <1>11, <1>12, HandledFacts

LEMMA RestartObserveFacts ==
  ASSUME GoneInv, NEW a \in Attempts, RestartObserve(a)
  PROVE  \A b \in Attempts : Facts(b)'
<1>1. EngineUp /\ owed[a] = "observe" /\ UNCHANGED <<wrapperVars, adapter, aborted, crashes>>
  BY DEF RestartObserve, EngineUp
<1>2. /\ tier[a] \in TierRecord /\ RecordOK(tier[a]) /\ Facts(a) /\ adapter[a] = "none"
      /\ tier[a].state \in Live /\ tier[a].ladder # "finishing"
  BY <1>1, Parts DEF GoneInv, Linked, LadderPending
<1>3. PICK seen : seen = IF spawnFile[a] THEN SpawnRecorded(tier[a]) ELSE tier[a]  OBVIOUS
<1>4. PICK r : r = IF store[a].stop = "none" THEN seen ELSE RestoredStop(seen, store[a].stop)
  OBVIOUS
<1>5. /\ Moves(tier[a], seen) /\ Track(a, tier[a], seen) /\ seen \in TierRecord /\ RecordOK(seen)
      /\ (seen.state = "ENDED") <=> (tier[a].state = "ENDED")
      /\ seen.leakHold => tier[a].leakHold
  BY <1>2, <1>3, SeenTracks
<1>6. /\ Moves(seen, r) /\ Track(a, seen, r) /\ r \in TierRecord /\ RecordOK(r)
      /\ r.state # "ENDED" /\ seen.state # "ENDED" /\ (r.leakHold => seen.leakHold)
  <2>1. store[a].stop \in Causes  BY <1>1, Parts DEF GoneInv, StoreRecord
  <2>2. Moves(seen, r)  BY <1>4, <1>5, <2>1, RestoredStopMoves, StaysMoves
  <2>3. seen.state # "ENDED"  BY <1>2, <1>5 DEF Live
  <2>4. CASE r = seen  BY <1>5, <2>2, <2>3, <2>4, TrackStays
  <2>5. CASE r = [seen EXCEPT !.state = "STOPPING", !.cause = store[a].stop, !.gen = @ + 1]
    <3>1. /\ r.state = "STOPPING" /\ r.spawn = seen.spawn /\ r.leakHold = seen.leakHold
          /\ r.survived = seen.survived /\ r.ladder = seen.ladder
      BY <1>5, <2>5 DEF TierRecord
    <3> QED  BY <2>2, <2>3, <3>1 DEF Track, Moves
  <2> QED  BY <1>4, <2>4, <2>5 DEF RestoredStop
<1>7. PICK fails, cause, t :
        /\ fails \in ScanOutcomes
        /\ Handled(a, t, cause, FALSE)
        /\ \/ t = StatusRecorded(a, r, fails)
           \/ t = EngineDied(a, r, fails)
           \/ t = EngineDied(a, seen, fails)
  BY <1>3, <1>4 DEF RestartObserve
<1>8. fails \in BOOLEAN  BY <1>7 DEF ScanOutcomes
<1>9. Track(a, tier[a], r) /\ Moves(tier[a], r)  BY <1>5, <1>6, MovesOn, TracksOn
<1>10. r.state \in Live /\ seen.state \in Live
  BY <1>2, <1>5, <1>6 DEF Moves, Live
<1>11. Moves(tier[a], t) /\ Track(a, tier[a], t)
  <2>1. CASE t = StatusRecorded(a, r, fails)
    <3>1. Moves(r, t) /\ Track(a, r, t)
      BY <1>6, <1>8, <2>1, StatusRecordedMoves, StatusRecordedTracks
    <3> QED  BY <1>2, <1>5, <1>6, <1>9, <3>1, MovesOn, TracksOn
  <2>2. CASE t = EngineDied(a, r, fails)
    <3>1. Moves(r, t) /\ Track(a, r, t)
      BY <1>6, <1>8, <1>10, <2>2, EngineDiedMoves, EngineDiedTracks
    <3> QED  BY <1>2, <1>5, <1>6, <1>9, <3>1, MovesOn, TracksOn
  <2>3. CASE t = EngineDied(a, seen, fails)
    <3>1. Moves(seen, t) /\ Track(a, seen, t)
      BY <1>5, <1>6, <1>8, <1>10, <2>3, EngineDiedMoves, EngineDiedTracks
    <3> QED  BY <1>5, <3>1, MovesOn, TracksOn
  <2> QED  BY <1>7, <2>1, <2>2, <2>3
<1>12. Known(a, t)  BY <1>2, <1>11, TrackKnown
<1>13. /\ UNCHANGED <<wrapper, command, spawnFile>> /\ aborted' = aborted
       /\ adapter' = [adapter EXCEPT ![a] = "none"]
  BY <1>1, <1>2, Parts DEF wrapperVars, GoneInv
<1> QED  BY <1>1, <1>7, <1>11, <1>12, <1>13, HandledFacts, ZenonT(40)

-----------------------------------------------------------------------------
(* The ends of ladders and holds.                                            *)

\* An attempt that is closed after its record has nothing left, or leaked.
LEMMA ClosedFacts ==
  ASSUME GoneInv, EngineUp, NEW a \in Attempts, NEW r \in TierRecord, RecordOK(r),
         r.state = tier[a].state, r.outcome = tier[a].outcome, Known(a, r),
         r.state = "ENDED" => LeftOf(a, r) = {} \/ Exempt(r.outcome),
         Closed(a, r), UNCHANGED <<wrapperVars, adapter, aborted>>
  PROVE  \A b \in Attempts : Facts(b)'
<1>1. /\ TierInv /\ Facts(a) /\ store \in [Attempts -> StoreRecord]
      /\ tier[a].state \in Live \cup {"NONE", "ENDED", "FORGOTTEN"}
      /\ Linked(tier[a], store[a], owed[a], adapter[a])
  BY Parts DEF GoneInv, TierRecord
<1>2. PICK st : st = [store[a] EXCEPT !.open = IF @ = "closing" THEN "closed" ELSE @]  OBVIOUS
<1>3. /\ st.open = IF store[a].open = "closing" THEN "closed" ELSE store[a].open
      /\ st.outcome = store[a].outcome
  BY <1>1, <1>2 DEF StoreRecord
<1>4. PICK k : k = Kept(r)  OBVIOUS
<1>5. tier' = [tier EXCEPT ![a] = k] /\ store' = [store EXCEPT ![a] = st]
  BY <1>1, <1>2, <1>4 DEF Closed
<1>6. /\ UNCHANGED <<wrapper, command, spawnFile>> /\ aborted' = aborted
      /\ adapter' = [adapter EXCEPT ![a] = adapter[a]]
  BY <1>1 DEF wrapperVars, TierInv, TierTypeOK
<1>7. k.state = "SPAWNING" \/ adapter[a] # "spawning" \/ aborted[a]
  BY <1>1, <1>4, KeptFacts DEF Facts
<1>8. st.open = "closed" =>
        (Empty(a) /\ (adapter[a] = "spawning" => aborted[a])) \/ Exempt(st.outcome)
  <2>1. CASE store[a].open = "closed"  BY <1>1, <1>3, <2>1 DEF Facts, Gone
  <2>2. CASE store[a].open = "closing"
    <3>1. tier[a].state = "ENDED"  BY <1>1, <2>2 DEF Linked
    <3>2. LeftOf(a, r) = {} => Empty(a)  BY <1>1, NothingLeft DEF Known
    <3>3. r.outcome = store[a].outcome /\ (adapter[a] = "spawning" => aborted[a])
      BY <1>1, <3>1 DEF Facts
    <3> QED  BY <1>3, <3>1, <3>2, <3>3
  <2> QED  BY <1>3, <2>1, <2>2
<1>9. EngineFacts(a, k, st, adapter[a])
  <2>1. k.state = "ENDED" => k.outcome = st.outcome
    BY <1>1, <1>3, <1>4, KeptFacts DEF Facts
  <2> QED  BY <1>3, <1>4, <1>8, <2>1, KeptFacts DEF EngineFacts
<1> QED  BY <1>1, <1>5, <1>6, <1>7, <1>9, EngineStepFacts

\* A step of the tier alone, which leaves the attempt's place as it was.
LEMMA TierOnlyFacts ==
  ASSUME GoneInv, EngineUp, NEW a \in Attempts, NEW r,
         r.state = tier[a].state, r.outcome = tier[a].outcome, Known(a, r),
         tier' = [tier EXCEPT ![a] = r], store' = store,
         UNCHANGED <<wrapper, command, spawnFile, adapter, aborted>>
  PROVE  \A b \in Attempts : Facts(b)'
<1>1. TierInv /\ Facts(a)  BY DEF GoneInv
<1>2. PICK st, ad : st = store[a] /\ ad = adapter[a]  OBVIOUS
<1>3. /\ store' = [store EXCEPT ![a] = st] /\ aborted' = aborted
      /\ adapter' = [adapter EXCEPT ![a] = ad]
      /\ UNCHANGED <<wrapper, command, spawnFile>>
  BY <1>1, <1>2 DEF TierInv, TierTypeOK
<1>4. EngineFacts(a, r, st, ad)
  BY <1>1, <1>2 DEF EngineFacts, Known, Facts, Gone
<1>5. /\ ad # "none" => adapter[a] # "none"
      /\ ad = "spawning" => adapter[a] = "spawning" /\ (r.state = "SPAWNING" \/ aborted[a])
  BY <1>1, <1>2 DEF Facts
<1> QED  BY <1>1, <1>3, <1>4, <1>5, EngineStepFacts

LEMMA LadderRunsFacts ==
  ASSUME GoneInv, NEW a \in Attempts, LadderRuns(a)
  PROVE  \A b \in Attempts : Facts(b)'
<1>1. EngineUp /\ tier[a].ladder = "laddering" /\ Facts(a)  BY DEF LadderRuns, GoneInv
<1>2. tier \in [Attempts -> TierRecord] /\ tier[a] \in TierRecord  BY <1>1, Parts DEF GoneInv
<1>3. PICK ladder, timer :
        /\ ladder = "finishing" => tier[a].state # "ENDED"
        /\ tier' = [tier EXCEPT ![a] =
             [tier[a] EXCEPT !.selected = FALSE, !.ladder = ladder, !.timer = timer]]
  <2>1. PICK fails \in ScanOutcomes :
          tier' = [tier EXCEPT
            ![a].selected = FALSE,
            ![a].ladder = IF fails THEN "raised"
                          ELSE IF tier[a].state = "ENDED" THEN "verdict" ELSE "finishing",
            ![a].timer = IF fails \/ tier[a].state = "ENDED" THEN @ ELSE tier[a].gen]
    BY DEF LadderRuns
  <2>2. PICK ladder :
          ladder = IF fails THEN "raised"
                   ELSE IF tier[a].state = "ENDED" THEN "verdict" ELSE "finishing"
    OBVIOUS
  <2>5. PICK timer \in {tier[a].timer, tier[a].gen} :
          timer = IF fails \/ tier[a].state = "ENDED" THEN tier[a].timer ELSE tier[a].gen
    OBVIOUS
  <2>3. tier' = [tier EXCEPT ![a] =
          [tier[a] EXCEPT !.selected = FALSE, !.ladder = ladder, !.timer = timer]]
    BY <1>2, <2>1, <2>2, <2>5 DEF TierRecord
  <2>4. ladder = "finishing" => tier[a].state # "ENDED"  BY <2>2
  <2> QED  BY <2>3, <2>4
<1>4. PICK r : r = [tier[a] EXCEPT !.selected = FALSE, !.ladder = ladder, !.timer = timer]
  OBVIOUS
<1>5. /\ r.state = tier[a].state /\ r.outcome = tier[a].outcome /\ r.spawn = tier[a].spawn
      /\ r.leakHold = tier[a].leakHold /\ r.ladder = ladder
  BY <1>2, <1>4 DEF TierRecord
<1>6. Known(a, r)  BY <1>1, <1>3, <1>5 DEF Known, Facts, Leaks, LadderPending
<1>7. UNCHANGED <<wrapper, command, spawnFile, adapter, aborted, store>>  BY DEF LadderRuns
<1> QED  BY <1>1, <1>3, <1>4, <1>5, <1>6, <1>7, TierOnlyFacts

\* The verdict is what makes a finished ladder's silence mean that nothing is left.
LEMMA VerdictEndsFacts ==
  ASSUME GoneInv, NEW a \in Attempts, VerdictEnds(a)
  PROVE  \A b \in Attempts : Facts(b)'
<1>1. EngineUp /\ Facts(a) /\ tier[a].ladder = "verdict"  BY DEF VerdictEnds, GoneInv
<1>2. tier \in [Attempts -> TierRecord] /\ tier[a] \in TierRecord  BY <1>1, Parts DEF GoneInv
<1>3. PICK survived \in BOOLEAN :
        /\ tier' = [tier EXCEPT ![a] = [tier[a] EXCEPT !.ladder = "finishing",
                                                      !.survived = survived]]
        /\ survived \/ LeftOf(a, tier[a]) = {}
  <2>1. PICK fails \in ScanOutcomes :
          tier' = [tier EXCEPT ![a].ladder = "finishing",
                               ![a].survived = @ \/ Look(a, tier[a], fails) # "none"]
    BY DEF VerdictEnds
  <2>2. PICK survived \in BOOLEAN : survived = (tier[a].survived \/ Look(a, tier[a], fails) # "none")
    OBVIOUS
  <2>3. tier' = [tier EXCEPT ![a] = [tier[a] EXCEPT !.ladder = "finishing",
                                                    !.survived = survived]]
    BY <1>2, <2>1, <2>2 DEF TierRecord
  <2>4. survived \/ LeftOf(a, tier[a]) = {}  BY <2>2 DEF Look
  <2> QED  BY <2>2, <2>3, <2>4
<1>r. PICK r : r = [tier[a] EXCEPT !.ladder = "finishing", !.survived = survived]  OBVIOUS
<1>t. tier' = [tier EXCEPT ![a] = r]  BY <1>3, <1>r
<1>4. /\ r.state = tier[a].state /\ r.outcome = tier[a].outcome /\ r.spawn = tier[a].spawn
      /\ r.leakHold = tier[a].leakHold /\ r.survived = survived
  BY <1>2, <1>3, <1>r DEF TierRecord
<1>5. Known(a, r)  BY <1>1, <1>3, <1>4 DEF Known, Facts, Leaks, LadderPending, LeftOf
<1>6. UNCHANGED <<wrapper, command, spawnFile, adapter, aborted, store>>
  BY DEF VerdictEnds, wrapperVars
<1> QED  BY <1>1, <1>t, <1>4, <1>5, <1>6, TierOnlyFacts

LEMMA LadderDoneFacts ==
  ASSUME GoneInv, NEW a \in Attempts, LadderDone(a)
  PROVE  \A b \in Attempts : Facts(b)'
<1>1. EngineUp /\ Facts(a) /\ tier[a].ladder \in {"finishing", "raised"}
  BY DEF LadderDone, GoneInv
<1>2. tier[a] \in TierRecord /\ RecordOK(tier[a])  BY <1>1, Parts DEF GoneInv
<1>3. PICK failed \in BOOLEAN : failed = (tier[a].failed \/ tier[a].ladder = "raised")
  BY <1>2 DEF TierRecord
<1>4. PICK r : r = [tier[a] EXCEPT !.ladder = "done", !.failed = failed]  OBVIOUS
<1>5. /\ r \in TierRecord /\ r.state = tier[a].state /\ r.outcome = tier[a].outcome
      /\ r.spawn = tier[a].spawn /\ r.leakHold = tier[a].leakHold /\ r.ladder = "done"
      /\ r.survived = tier[a].survived /\ r.planDone = tier[a].planDone
      /\ r.gen = tier[a].gen /\ r.failed = failed
  <2>1. r \in TierRecord  BY <1>2, <1>4 DEF TierRecord
  <2> QED  BY <1>2, <1>4, <2>1 DEF TierRecord
<1>6. Known(a, r) /\ RecordOK(r)
  <2>1. Known(a, r)  BY <1>1, <1>5 DEF Known, Facts, Leaks, LadderPending
  <2>2. LadderPending(tier[a])  BY <1>1 DEF LadderPending
  <2> QED  BY <1>2, <1>5, <2>1, <2>2 DEF RecordOK
<1>7. /\ UNCHANGED <<wrapperVars, adapter, aborted>>
      /\ IF Held(r) THEN tier' = [tier EXCEPT ![a] = r] /\ UNCHANGED store ELSE Closed(a, r)
  BY <1>3, <1>4 DEF LadderDone
<1>8. CASE Held(r)
  BY <1>1, <1>5, <1>6, <1>7, <1>8, TierOnlyFacts DEF wrapperVars
<1>9. CASE ~Held(r)
  <2>1. r.state = "ENDED" => LeftOf(a, r) = {}
    BY <1>1, <1>3, <1>5, <1>9 DEF Held, Facts, LeftOf
  <2> QED  BY <1>1, <1>5, <1>6, <1>7, <1>9, <2>1, ClosedFacts
<1> QED  BY <1>8, <1>9

LEMMA HeldReleasedFacts ==
  ASSUME GoneInv, NEW a \in Attempts, HeldReleased(a)
  PROVE  \A b \in Attempts : Facts(b)'
<1>1. /\ EngineUp /\ Facts(a) /\ (tier[a].leakHold \/ LeftOf(a, tier[a]) = {})
  BY DEF HeldReleased, GoneInv
<1>2. tier[a] \in TierRecord /\ RecordOK(tier[a])  BY <1>1, Parts DEF GoneInv
<1>3. PICK s : s = [tier[a] EXCEPT !.survived = FALSE, !.failed = FALSE, !.leakHold = FALSE]
  OBVIOUS
<1>4. /\ s \in TierRecord /\ s.state = tier[a].state /\ s.outcome = tier[a].outcome
      /\ s.planDone = tier[a].planDone /\ s.spawn = tier[a].spawn
      /\ s.ladder = tier[a].ladder /\ ~s.survived /\ s.gen = tier[a].gen /\ ~s.leakHold
      /\ ~s.failed
  BY <1>2, <1>3 DEF TierRecord
<1>5. RecordOK(s) /\ s.gen \in 0..2
  BY <1>2, <1>4 DEF RecordOK, LadderPending, Held, TierRecord
<1>6. /\ UNCHANGED <<wrapperVars, adapter, aborted>>
      /\ IF s.state = "STOPPING"
         THEN \E fails \in ScanOutcomes :
                Handled(a, RecordTimeout(a, s, s.gen, fails), s.cause, TRUE)
         ELSE Closed(a, s)
  BY <1>3 DEF HeldReleased
<1>7. CASE s.state = "STOPPING"
  <2>1. LeftOf(a, s) = {}  BY <1>1, <1>4, <1>7 DEF Facts, Leaks, LeftOf
  <2>2. PICK fails, r :
          /\ fails \in ScanOutcomes
          /\ r = RecordTimeout(a, s, s.gen, fails) /\ Handled(a, r, s.cause, TRUE)
    BY <1>6, <1>7
  <2>3. fails \in BOOLEAN  BY <2>2 DEF ScanOutcomes
  <2>4. Moves(s, r) /\ Track(a, s, r)
    BY <1>4, <1>5, <2>2, <2>3, RecordTimeoutMoves, RecordTimeoutTracks
  <2>5. Moves(tier[a], r)
    <3>1. Moves(tier[a], s)  BY <1>4, <1>5, <1>7 DEF Moves, Live
    <3> QED  BY <2>4, <3>1, MovesOn
  <2>6. LeftOf(a, r) = {}  BY <2>1, <2>4, LeftShrinks DEF Track
  <2>7. Known(a, r)  BY <1>1, <1>4, <2>4, <2>6 DEF Known, Track, Facts
  <2>8. PICK ad : /\ ad = adapter[a] /\ adapter' = [adapter EXCEPT ![a] = ad]
                  /\ UNCHANGED <<wrapper, command, spawnFile>> /\ aborted' = aborted
    BY <1>1, <1>6, Parts DEF wrapperVars, GoneInv
  <2>9. /\ ad # "none" => adapter[a] # "none"
        /\ ad = "spawning" => adapter[a] = "spawning" /\ (r.state = "SPAWNING" \/ aborted[a])
    BY <1>1, <1>4, <1>7, <2>8 DEF Facts
  <2> QED  BY <1>1, <2>2, <2>5, <2>7, <2>8, <2>9, HandledFacts
<1>8. CASE s.state # "STOPPING"
  <2>1. s.state = "ENDED" => LeftOf(a, s) = {} \/ Exempt(s.outcome)
    BY <1>1, <1>4 DEF Facts, Leaks, LeftOf
  <2>2. Known(a, s)
    <3>1. s.state = "ENDED" /\ s.ladder = "finishing" => LeftOf(a, s) = {}
      BY <1>1, <1>2, <1>4 DEF Facts, Leaks, LadderPending, LeftOf
    <3> QED  BY <1>1, <1>4, <2>1, <3>1 DEF Known, Facts
  <2> QED  BY <1>1, <1>4, <1>5, <1>6, <1>8, <2>1, <2>2, ClosedFacts
<1> QED  BY <1>7, <1>8

LEMMA TaskReapedFacts ==
  ASSUME GoneInv, NEW a \in Attempts, TaskReaped(a)
  PROVE  \A b \in Attempts : Facts(b)'
<1>1. EngineUp /\ Facts(a) /\ adapter[a] = "done"  BY DEF TaskReaped, Turn, GoneInv
<1>2. tier[a] \in TierRecord /\ RecordOK(tier[a]) /\ TierInv  BY <1>1, Parts DEF GoneInv
<1>3. PICK r : r = [tier[a] EXCEPT !.exited = TRUE]  OBVIOUS
<1>4. /\ r \in TierRecord /\ r.state = tier[a].state /\ r.outcome = tier[a].outcome
      /\ r.spawn = tier[a].spawn /\ r.leakHold = tier[a].leakHold /\ r.ladder = tier[a].ladder
      /\ r.survived = tier[a].survived /\ r.planDone = tier[a].planDone
      /\ r.gen = tier[a].gen /\ r.failed = tier[a].failed
  BY <1>2, <1>3 DEF TierRecord
<1>5. Known(a, r) /\ RecordOK(r)
  BY <1>1, <1>2, <1>4 DEF Known, Facts, Leaks, LadderPending, Held, LeftOf, RecordOK
<1>6. PICK k : k = Kept(r)  OBVIOUS
<1>7. PICK st : st = store[a]  OBVIOUS
<1>8. /\ tier' = [tier EXCEPT ![a] = k] /\ store' = [store EXCEPT ![a] = st]
      /\ adapter' = [adapter EXCEPT ![a] = "none"] /\ aborted' = aborted
      /\ UNCHANGED <<wrapper, command, spawnFile>>
  BY <1>2, <1>3, <1>6, <1>7 DEF TaskReaped, wrapperVars, TierInv, TierTypeOK
<1>9. EngineFacts(a, k, st, "none")
  <2>1. k.state = "ENDED" => k.outcome = st.outcome
    BY <1>1, <1>4, <1>5, <1>6, <1>7, KeptFacts DEF Facts
  <2> QED  BY <1>1, <1>4, <1>5, <1>6, <1>7, <2>1, KeptFacts DEF EngineFacts, Facts, Gone
<1> QED  BY <1>1, <1>2, <1>8, <1>9, EngineStepFacts

LEMMA PlanFinishesFacts ==
  ASSUME GoneInv, NEW a \in Attempts, PlanFinishes(a)
  PROVE  \A b \in Attempts : Facts(b)'
<1>1. EngineUp /\ Facts(a) /\ tier[a].state \in {"NONE", "ENDED"}
  BY DEF PlanFinishes, GoneInv
<1>2. tier[a] \in TierRecord /\ RecordOK(tier[a]) /\ TierInv /\ store[a] \in StoreRecord
  BY <1>1, Parts DEF GoneInv
<1>3. PICK r : r = [tier[a] EXCEPT !.planDone = TRUE]  OBVIOUS
<1>4. /\ r \in TierRecord /\ r.state = tier[a].state /\ r.outcome = tier[a].outcome
      /\ r.spawn = tier[a].spawn /\ r.leakHold = tier[a].leakHold /\ r.ladder = tier[a].ladder
      /\ r.survived = tier[a].survived /\ r.gen = tier[a].gen /\ r.failed = tier[a].failed
  BY <1>2, <1>3 DEF TierRecord
<1>5. Known(a, r)
  BY <1>1, <1>4 DEF Known, Facts, Leaks, LadderPending, Held, LeftOf
<1>6. PICK k : /\ tier' = [tier EXCEPT ![a] = k]
               /\ k = IF tier[a].state = "NONE" THEN tier[a] ELSE Kept(r)
  <2>1. tier' = IF tier[a].state = "NONE" THEN tier ELSE [tier EXCEPT ![a] = Kept(r)]
    BY <1>3 DEF PlanFinishes
  <2>2. PICK k : k = IF tier[a].state = "NONE" THEN tier[a] ELSE Kept(r)  OBVIOUS
  <2>3. tier' = [tier EXCEPT ![a] = k]  BY <1>2, <2>1, <2>2 DEF TierInv, TierTypeOK
  <2> QED  BY <2>2, <2>3
<1>7. PICK st : /\ store' = [store EXCEPT ![a] = st]
                /\ st.open = store[a].open /\ st.outcome = store[a].outcome
  <2>1. PICK plan : store' = [store EXCEPT ![a].plan = plan]
    BY <1>2 DEF PlanFinishes, TierInv, TierTypeOK
  <2>2. PICK st : st = [store[a] EXCEPT !.plan = plan]  OBVIOUS
  <2>3. st.open = store[a].open /\ st.outcome = store[a].outcome
    BY <1>2, <2>2 DEF StoreRecord
  <2>4. store' = [store EXCEPT ![a] = st]
    BY <1>2, <2>1, <2>2 DEF TierInv, TierTypeOK, StoreRecord
  <2> QED  BY <2>3, <2>4
<1>8. CASE tier[a].state = "NONE"
  <2>1. k = tier[a]  BY <1>6, <1>8
  <2>2. PICK ad : ad = adapter[a]  OBVIOUS
  <2>3. EngineFacts(a, k, st, ad)
    BY <1>1, <1>7, <1>8, <2>1, <2>2 DEF EngineFacts, Facts, Gone
  <2>4. /\ adapter' = [adapter EXCEPT ![a] = ad] /\ aborted' = aborted
        /\ UNCHANGED <<wrapper, command, spawnFile>>
        /\ ad # "none" => adapter[a] # "none"
        /\ ad = "spawning" => adapter[a] = "spawning" /\ (k.state = "SPAWNING" \/ aborted[a])
    BY <1>1, <1>2, <2>1, <2>2 DEF PlanFinishes, wrapperVars, TierInv, TierTypeOK, Facts
  <2> QED  BY <1>1, <1>2, <1>6, <1>7, <2>3, <2>4, EngineStepFacts
<1>9. CASE tier[a].state = "ENDED"
  <2>1. k = Kept(r)  BY <1>6, <1>9
  <2>2. PICK ad : ad = adapter[a]  OBVIOUS
  <2>3. RecordOK(r)
    <3>1. r.planDone  BY <1>2, <1>3 DEF TierRecord
    <3> QED  BY <1>2, <1>4, <1>9, <3>1 DEF RecordOK
  <2>4. k.state = "ENDED" => k.outcome = st.outcome
    BY <1>1, <1>4, <1>5, <1>7, <2>1, <2>3, KeptFacts DEF Facts
  <2>5. EngineFacts(a, k, st, ad)
    BY <1>1, <1>4, <1>5, <1>7, <2>1, <2>2, <2>3, <2>4, KeptFacts DEF EngineFacts, Facts, Gone
  <2>6. /\ adapter' = [adapter EXCEPT ![a] = ad] /\ aborted' = aborted
        /\ UNCHANGED <<wrapper, command, spawnFile>>
        /\ ad # "none" => adapter[a] # "none"
        /\ ad = "spawning" => adapter[a] = "spawning" /\ (k.state = "SPAWNING" \/ aborted[a])
    BY <1>1, <1>2, <1>9, <2>2 DEF PlanFinishes, wrapperVars, TierInv, TierTypeOK, Facts
  <2> QED  BY <1>1, <1>2, <1>6, <1>7, <2>5, <2>6, EngineStepFacts
<1> QED  BY <1>1, <1>8, <1>9

LEMMA RestartCleanupFacts ==
  ASSUME GoneInv, NEW a \in Attempts, RestartCleanup(a)
  PROVE  \A b \in Attempts : Facts(b)'
<1>1. /\ EngineUp /\ owed[a] = "cleanup" /\ Facts(a)
      /\ UNCHANGED <<wrapperVars, adapter, aborted, crashes>>
  BY DEF RestartCleanup, EngineUp, GoneInv
<1>2. /\ tier[a] \in TierRecord /\ RecordOK(tier[a]) /\ tier[a].state = "ENDED"
      /\ spawnFile[a] \in BOOLEAN /\ ~LadderPending(tier[a]) /\ ~Held(tier[a])
  BY <1>1, Parts DEF Linked, WrapperTypeOK, GoneInv
<1>3. PICK s : s = [tier[a] EXCEPT !.spawn = spawnFile[a]]  OBVIOUS
<1>4. /\ s \in TierRecord /\ s.state = "ENDED" /\ s.outcome = tier[a].outcome
      /\ s.ladder = tier[a].ladder /\ s.survived = tier[a].survived
      /\ s.spawn = spawnFile[a] /\ s.leakHold = tier[a].leakHold
      /\ s.failed = tier[a].failed /\ s.planDone = tier[a].planDone /\ s.gen = tier[a].gen
  <2>1. s \in TierRecord  BY <1>2, <1>3 DEF TierRecord
  <2> QED  BY <1>2, <1>3, <2>1 DEF TierRecord
<1>5. PICK fails, r :
        /\ fails \in ScanOutcomes
        /\ r = WhatIsLeft(a, s, fails)
        /\ IF LadderPending(r) \/ Held(r)
           THEN tier' = [tier EXCEPT ![a] = r] /\ UNCHANGED <<store, phase, leaving>>
           ELSE Closed(a, r)
  BY <1>3 DEF RestartCleanup
<1>6. /\ r \in TierRecord /\ r.state = "ENDED" /\ r.outcome = s.outcome /\ r.spawn = s.spawn
      /\ r.planDone = s.planDone /\ r.gen = s.gen /\ r.ladder # "finishing"
      /\ r.leakHold => Leaks(r)
      /\ LadderPending(r) \/ Held(r) \/ LeftOf(a, r) = {} \/ Exempt(r.outcome)
  <2>1. ~LadderPending(s) /\ ~Held(s)  BY <1>2, <1>4 DEF LadderPending, Held
  <2>2. CASE Look(a, s, fails) = "none"
    <3>1. r = s  BY <1>5, <2>2 DEF WhatIsLeft
    <3>2. LeftOf(a, s) = {}  BY <2>2 DEF Look
    <3> QED  BY <1>1, <1>4, <2>1, <3>1, <3>2 DEF Facts, Leaks, LadderPending
  <2>3. CASE Look(a, s, fails) # "none" /\ s.outcome = "natural" /\ LeakPolicy = "leak"
    <3>1. PICK t : t = [s EXCEPT !.survived = TRUE, !.leakHold = TRUE]  OBVIOUS
    <3>2. r = t \/ r = s  BY <1>5, <2>1, <2>3, <3>1 DEF WhatIsLeft, Held
    <3>3. /\ t \in TierRecord /\ t.state = s.state /\ t.outcome = s.outcome /\ t.spawn = s.spawn
          /\ t.planDone = s.planDone /\ t.gen = s.gen /\ t.ladder = s.ladder
      BY <1>4, <3>1 DEF TierRecord
    <3> QED  BY <1>4, <2>1, <2>3, <3>2, <3>3 DEF Exempt, Leaks, LadderPending
  <2>4. CASE Look(a, s, fails) # "none" /\ ~(s.outcome = "natural" /\ LeakPolicy = "leak")
    <3>1. r = [s EXCEPT !.ladder = IF @ = "none" THEN "laddering" ELSE "verdict"]
      BY <1>5, <2>1, <2>4 DEF WhatIsLeft, Held
    <3>2. /\ r \in TierRecord /\ r.state = s.state /\ r.outcome = s.outcome /\ r.spawn = s.spawn
          /\ r.planDone = s.planDone /\ r.gen = s.gen /\ r.ladder \in {"laddering", "verdict"}
          /\ r.leakHold = s.leakHold
      BY <1>4, <3>1 DEF TierRecord
    <3>3. ~s.leakHold  BY <1>1, <1>4, <2>4 DEF Facts, Leaks, Exempt
    <3> QED  BY <1>4, <3>2, <3>3 DEF LadderPending
  <2> QED  BY <2>2, <2>3, <2>4
<1>7. Known(a, r) /\ RecordOK(r)
  BY <1>1, <1>2, <1>4, <1>6 DEF Known, Facts, RecordOK
<1>8. UNCHANGED <<wrapper, command, spawnFile, adapter, aborted>>  BY <1>1 DEF wrapperVars
<1>9. CASE LadderPending(r) \/ Held(r)
  BY <1>1, <1>2, <1>4, <1>5, <1>6, <1>7, <1>8, <1>9, TierOnlyFacts
<1>10. CASE ~(LadderPending(r) \/ Held(r))
  BY <1>1, <1>2, <1>4, <1>5, <1>6, <1>7, <1>10, ClosedFacts
<1> QED  BY <1>9, <1>10

-----------------------------------------------------------------------------
(* Stops: every attempt they find still SPAWNING is aborted at once.         *)

LEMMA StoppedFacts ==
  ASSUME GoneInv, NEW b \in Attempts, NEW s \in TierRecord, NEW r, NEW cause,
         s.state = tier[b].state, s.outcome = tier[b].outcome, s.spawn = tier[b].spawn,
         s.ladder = tier[b].ladder, s.survived = tier[b].survived, s.leakHold = tier[b].leakHold,
         r = StopRow(b, s, cause) \/ r = s, tier'[b] = r,
         r = s => r.state # "SPAWNING",
         store'[b].open = store[b].open, store'[b].outcome = store[b].outcome,
         adapter'[b] = adapter[b], command'[b] = command[b], spawnFile'[b] = spawnFile[b],
         wrapper'[b] = wrapper[b] \/ (wrapper'[b] = "exited" /\ adapter[b] = "sending"),
         aborted[b] => aborted'[b], tier[b].state = "SPAWNING" => aborted'[b]
  PROVE  Facts(b)'
<1>1. Facts(b)  BY DEF GoneInv
<1>2. /\ r.spawn = s.spawn /\ r.leakHold = s.leakHold /\ r.outcome = s.outcome
      /\ r.survived = s.survived
      /\ \/ r.state = s.state /\ r.ladder = s.ladder
         \/ r.state = "STOPPING" /\ s.state \in {"SPAWNING", "RUNNING"}
  BY ZenonT(40) DEF StopRow, Restarted, TierRecord
<1>3. r.spawn => spawnFile'[b]  BY <1>1, <1>2 DEF Facts
<1>4. LeftOf(b, tier[b]) = {} => LeftOf(b, r)' = {}
  BY <1>2 DEF LeftOf, WrapperAlive
<1>5. /\ spawnFile'[b] => wrapper'[b] \notin {"absent", "reading", "ready"}
      /\ store'[b].open = "never" => wrapper'[b] = "absent" /\ adapter'[b] = "none"
      /\ adapter'[b] = "spawning" => wrapper'[b] = "absent"
      /\ adapter'[b] = "spawning" => r.state = "SPAWNING" \/ aborted'[b]
  BY <1>1, <1>2 DEF Facts
<1>6. r.state = "ENDED" /\ r.ladder = "finishing" => r.survived \/ LeftOf(b, r)' = {}
  BY <1>1, <1>2, <1>4 DEF Facts
<1>7. r.leakHold => Leaks(r)
  BY <1>1, <1>2 DEF Facts, Leaks, LadderPending
<1>8. r.state = "ENDED" => r.outcome = store'[b].outcome
  BY <1>1, <1>2 DEF Facts
<1>9. store'[b].open = "closed" => Gone(b)' \/ Exempt(store'[b].outcome)
  BY <1>1 DEF Facts, Gone, Empty
<1> QED  BY <1>3, <1>5, <1>6, <1>7, <1>8, <1>9 DEF Facts, LeftOf, WrapperAlive

LEMMA OracleKillFacts ==
  ASSUME GoneInv, NEW a \in Attempts, NEW selected \in BOOLEAN, OracleKill(a, selected)
  PROVE  \A b \in Attempts : Facts(b)'
<1>1. EngineUp  BY DEF OracleKill, Turn
<1>2. /\ TierInv /\ tier[a] \in TierRecord /\ tier \in [Attempts -> TierRecord]
      /\ aborted \in [Attempts -> BOOLEAN]
  BY <1>1, Parts DEF GoneInv
<1>3. PICK s : s = [tier[a] EXCEPT !.selected = selected]  OBVIOUS
<1>4. /\ s \in TierRecord /\ s.state = tier[a].state /\ s.outcome = tier[a].outcome
      /\ s.spawn = tier[a].spawn /\ s.ladder = tier[a].ladder
      /\ s.survived = tier[a].survived /\ s.leakHold = tier[a].leakHold
  BY <1>2, <1>3 DEF TierRecord
<1>5. PICK r : r = StopRow(a, s, "oracle_kill")  OBVIOUS
<1>6. tier' = [tier EXCEPT ![a] = r]  BY <1>2, <1>3, <1>5 DEF OracleKill
<1>7. /\ UNCHANGED <<adapter, store, command, spawnFile>>
      /\ aborted' = [b \in Attempts |-> aborted[b] \/ b \in {c \in {a} : tier[c].state = "SPAWNING"}]
      /\ wrapper' = [b \in Attempts |->
           IF b \in {c \in {a} : tier[c].state = "SPAWNING"} /\ adapter[b] = "sending"
           THEN "exited" ELSE wrapper[b]]
  BY DEF OracleKill, KillWrappers
<1>8. tier'[a] = r /\ (tier[a].state = "SPAWNING" => aborted'[a])
  BY <1>2, <1>6, <1>7
<1>9. r = s => r.state # "SPAWNING"
  BY <1>4, <1>5 DEF StopRow, TierRecord
<1>10. Facts(a)'
  BY <1>4, <1>5, <1>7, <1>8, <1>9, StoppedFacts
<1>11. Only(a)  BY <1>2, <1>6, <1>7 DEF Only
<1> QED  BY <1>10, <1>11, OthersStay

LEMMA BeginDrainFacts ==
  ASSUME GoneInv, BeginDrain
  PROVE  \A b \in Attempts : Facts(b)'
<1>1. EngineUp /\ UNCHANGED <<adapter, command, spawnFile>>
  BY DEF BeginDrain, EngineUp, KillWrappers
<1>2. /\ tier \in [Attempts -> TierRecord] /\ store \in [Attempts -> StoreRecord]
  BY DEF GoneInv, TierInv, TierTypeOK
<1>3. /\ aborted' = [b \in Attempts |-> aborted[b] \/ b \in {c \in Attempts : tier[c].state = "SPAWNING"}]
      /\ wrapper' = [b \in Attempts |->
           IF b \in {c \in Attempts : tier[c].state = "SPAWNING"} /\ adapter[b] = "sending"
           THEN "exited" ELSE wrapper[b]]
      /\ store' = [a \in Attempts |-> [store[a] EXCEPT !.stop = RecordStop(a)]]
      /\ tier' = [a \in Attempts |-> StopRow(a, tier[a], "engine_stop")]
  BY DEF BeginDrain, KillWrappers
<1> SUFFICES ASSUME NEW b \in Attempts  PROVE Facts(b)'
  OBVIOUS
<1>4. PICK s, r : s = tier[b] /\ r = tier'[b]  OBVIOUS
<1>5. s \in TierRecord /\ r = StopRow(b, s, "engine_stop")  BY <1>2, <1>3, <1>4
<1>6. r = s => r.state # "SPAWNING"  BY <1>5 DEF StopRow, TierRecord
<1>7. store'[b].open = store[b].open /\ store'[b].outcome = store[b].outcome
  BY <1>2, <1>3 DEF StoreRecord
<1>8. /\ adapter'[b] = adapter[b] /\ command'[b] = command[b] /\ spawnFile'[b] = spawnFile[b]
      /\ wrapper'[b] = wrapper[b] \/ (wrapper'[b] = "exited" /\ adapter[b] = "sending")
      /\ aborted[b] => aborted'[b]
      /\ tier[b].state = "SPAWNING" => aborted'[b]
  BY <1>1, <1>3
<1> QED  BY <1>4, <1>5, <1>6, <1>7, <1>8, StoppedFacts

-----------------------------------------------------------------------------
(* Dispatch, the adapter's first steps and the world.                        *)

LEMMA DispatchFacts ==
  ASSUME GoneInv, NEW a \in Attempts, Dispatch(a)
  PROVE  \A b \in Attempts : Facts(b)'
<1>1. EngineUp /\ Facts(a) /\ store[a].open = "never"  BY DEF Dispatch, EngineUp, GoneInv
<1>2. /\ TierInv /\ tier[a] \in TierRecord /\ store[a] \in StoreRecord
      /\ tier[a].state \in {"NONE", "FORGOTTEN"}
  <2>1. tier[a].state \in Live \cup {"NONE", "ENDED", "FORGOTTEN"}
    BY <1>1, Parts DEF GoneInv, TierRecord
  <2> QED  BY <1>1, <2>1, Parts DEF GoneInv, Linked
<1>3. /\ tier' = [tier EXCEPT ![a] = [tier[a] EXCEPT !.state = "SPAWNING"]]
      /\ store' = [store EXCEPT ![a] = [store[a] EXCEPT !.open = "open"]]
      /\ adapter' = [adapter EXCEPT ![a] = "spawning"] /\ aborted' = aborted
      /\ UNCHANGED <<wrapper, command, spawnFile>>
  BY <1>2 DEF Dispatch, wrapperVars, TierInv, TierTypeOK
<1>4. PICK r, st : /\ r = [tier[a] EXCEPT !.state = "SPAWNING"]
                   /\ st = [store[a] EXCEPT !.open = "open"]
  OBVIOUS
<1>5. /\ tier'[a] = r /\ store'[a] = st /\ adapter'[a] = "spawning"
  BY <1>2, <1>3, <1>4 DEF TierInv, TierTypeOK
<1>6. /\ r.state = "SPAWNING" /\ r.spawn = tier[a].spawn /\ r.leakHold = tier[a].leakHold
      /\ st.open = "open"
  BY <1>2, <1>4 DEF TierRecord, StoreRecord
<1>7. Only(a)  BY <1>2, <1>3 DEF Only, TierInv, TierTypeOK
<1>8. Facts(a)'
  BY <1>1, <1>2, <1>3, <1>5, <1>6 DEF Facts, Leaks
<1> QED  BY <1>7, <1>8, OthersStay

LEMMA AdapterCreateFacts ==
  ASSUME GoneInv, "turn" \notin Faults, NEW a \in Attempts, AdapterCreate(a)
  PROVE  \A b \in Attempts : Facts(b)'
<1>1. /\ EngineUp /\ Facts(a) /\ TierInv /\ adapter[a] = "spawning"
      /\ tier[a].ladder # "finishing"
  BY DEF AdapterCreate, Turn, GoneInv
<1>2. /\ wrapper' = [wrapper EXCEPT ![a] = IF aborted[a] THEN "exited" ELSE "reading"]
      /\ adapter' = [adapter EXCEPT ![a] = IF aborted[a] THEN "unlaunched" ELSE "sending"]
      /\ UNCHANGED <<command, spawnFile, tier, store, aborted>>
  BY DEF AdapterCreate
<1>3. /\ wrapper'[a] = IF aborted[a] THEN "exited" ELSE "reading"
      /\ adapter'[a] \notin {"spawning", "none"}
  BY <1>1, <1>2 DEF TierInv, TierTypeOK, WrapperTypeOK
<1>4. Only(a)  BY <1>2 DEF Only
<1>5. ~spawnFile[a] /\ store[a].open # "never"  BY <1>1 DEF Facts
<1>6. store[a].open = "closed" => Gone(a)' \/ Exempt(store[a].outcome)
  BY <1>1, <1>2, <1>3 DEF Facts, Gone, Empty
<1>7. Facts(a)'
  BY <1>1, <1>2, <1>3, <1>5, <1>6 DEF Facts
<1> QED  BY <1>4, <1>7, OthersStay

LEMMA AdapterSendFacts ==
  ASSUME GoneInv, NEW a \in Attempts, AdapterSend(a)
  PROVE  \A b \in Attempts : Facts(b)'
<1>1. Facts(a) /\ TierInv /\ adapter[a] = "sending"  BY DEF AdapterSend, GoneInv
<1>2. /\ wrapper' = [wrapper EXCEPT ![a] = IF @ = "reading" THEN "ready" ELSE @]
      /\ adapter' = [adapter EXCEPT ![a] = "polling"]
      /\ UNCHANGED <<command, spawnFile, tier, store, aborted>>
  BY DEF AdapterSend
<1>3. /\ wrapper'[a] = IF wrapper[a] = "reading" THEN "ready" ELSE wrapper[a]
      /\ adapter'[a] = "polling"
  BY <1>1, <1>2 DEF TierInv, TierTypeOK, WrapperTypeOK
<1>4. Only(a)  BY <1>2 DEF Only
<1>5. Facts(a)'
  BY <1>1, <1>2, <1>3 DEF Facts, Gone, Empty, LeftOf, WrapperAlive
<1> QED  BY <1>4, <1>5, OthersStay

LEMMA HeldKilledFacts ==
  ASSUME GoneInv, NEW a \in Attempts, HeldKilled(a)
  PROVE  \A b \in Attempts : Facts(b)'
<1>1. UNCHANGED <<wrapper, command, spawnFile, tier, store, adapter, aborted>>
  BY DEF HeldKilled, engineVars
<1>2. Only(a)  BY <1>1 DEF Only
<1>3. Facts(a)'  BY <1>1 DEF GoneInv, Facts, Gone, Empty, LeftOf, WrapperAlive
<1> QED  BY <1>2, <1>3, OthersStay

\* What is gone stays gone: only a wrapper with its spec starts a command, only
\* its leader starts a descendant, and spawn.json is written after the launch.
LEMMA WorldFacts ==
  ASSUME GoneInv, NEW a \in Attempts, World(a)
  PROVE  \A b \in Attempts : Facts(b)'
<1>1. /\ UNCHANGED <<tier, store, adapter, aborted>> /\ WrapperWorld(a) /\ Facts(a) /\ WrapperTypeOK
  BY DEF World, engineVars, GoneInv, TierInv, TierTypeOK
<1>2. Only(a)
  BY <1>1 DEF Only, WrapperWorld, WrapperMain, Launch, RecordSpawn, ObserveExit,
     ObserveParentLost, KillAfterGrace, AwaitExit, RecordStatus, Reap, WrapperKilled,
     ProcessEnds, Fork, WrapperTypeOK
<1>3. /\ spawnFile[a] => spawnFile'[a]
      /\ spawnFile'[a] => wrapper'[a] \notin {"absent", "reading", "ready"}
      /\ wrapper[a] = "absent" => wrapper'[a] = "absent"
      /\ ~WrapperAlive(a) => ~WrapperAlive(a)'
      /\ wrapper'[a] \in {"reading", "ready"} => wrapper[a] \in {"reading", "ready"}
      /\ command[a] = {} /\ wrapper[a] # "ready" => command'[a] = {}
  BY <1>1 DEF WrapperWorld, WrapperMain, Launch, RecordSpawn, ObserveExit,
     ObserveParentLost, KillAfterGrace, AwaitExit, RecordStatus, Reap, WrapperKilled,
     ProcessEnds, Fork, WrapperTypeOK, WrapperAlive, Facts
<1>4. LeftOf(a, tier[a]) = {} => LeftOf(a, tier[a])' = {}
  BY <1>1, <1>3 DEF Facts, LeftOf, WrapperAlive
<1>5. Empty(a) => Empty(a)'  BY <1>3 DEF Empty
<1>6. Facts(a)'
  BY <1>1, <1>3, <1>4, <1>5 DEF Facts, Gone
<1> QED  BY <1>2, <1>6, OthersStay

-----------------------------------------------------------------------------
(* The engine's own life.                                                    *)

LEMMA EngineGoneFacts ==
  ASSUME GoneInv, EngineGone,
         \A b \in Attempts :
           store'[b].open = store[b].open /\ store'[b].outcome = store[b].outcome
  PROVE  \A b \in Attempts : Facts(b)'
<1> SUFFICES ASSUME NEW b \in Attempts  PROVE Facts(b)'
  OBVIOUS
<1>1. Facts(b)  BY DEF GoneInv
<1>2. /\ tier'[b] = Blank /\ adapter'[b] = "none" /\ spawnFile'[b] = spawnFile[b]
      /\ command'[b] = command[b]
      /\ wrapper'[b] = IF wrapper[b] = "reading" THEN "exited" ELSE wrapper[b]
  BY DEF EngineGone
<1>3. ~Blank.spawn /\ Blank.state = "NONE" /\ ~Blank.leakHold  BY DEF Blank
<1>4. Gone(b) => Gone(b)'  BY <1>2 DEF Gone, Empty
<1> QED  BY <1>1, <1>2, <1>3, <1>4 DEF Facts

LEMMA LeaveFacts == ASSUME GoneInv, Leave  PROVE \A b \in Attempts : Facts(b)'
<1>1. EngineGone  BY DEF Leave
<1>2. ASSUME NEW b \in Attempts
      PROVE  store'[b].open = store[b].open /\ store'[b].outcome = store[b].outcome
  <2>1. store[b] \in StoreRecord  BY DEF GoneInv, TierInv, TierTypeOK
  <2>2. store'[b] \in {store[b], [store[b] EXCEPT !.stop = tier[b].cause]}  BY DEF Leave
  <2> QED  BY <2>1, <2>2 DEF StoreRecord
<1> QED  BY <1>1, <1>2, EngineGoneFacts

LEMMA CrashFacts == ASSUME GoneInv, Crash  PROVE \A b \in Attempts : Facts(b)'
  BY EngineGoneFacts DEF Crash

LEMMA RestartFacts == ASSUME GoneInv, Restart  PROVE \A b \in Attempts : Facts(b)'
<1> SUFFICES ASSUME NEW b \in Attempts  PROVE Facts(b)'
  OBVIOUS
<1>1. Facts(b) /\ phase = "DOWN"  BY DEF GoneInv, Restart
<1>2. adapter[b] = "none"  BY <1>1 DEF GoneInv, TierInv
<1>3. /\ UNCHANGED <<wrapper, command, spawnFile, adapter, aborted, store>>
      /\ tier'[b] = Adopted(b)
  BY DEF Restart, wrapperVars
<1>4. PICK r : r = Adopted(b)  OBVIOUS
<1>5. /\ ~r.spawn /\ r.ladder = "none" /\ ~r.leakHold
      /\ r.state = "ENDED" => r.outcome = store[b].outcome
  BY <1>4 DEF Adopted, Blank
<1>6. Gone(b) => Gone(b)'  BY <1>2, <1>3 DEF Gone, Empty
<1> QED  BY <1>1, <1>2, <1>3, <1>4, <1>5, <1>6 DEF Facts

LEMMA PhaseFacts ==
  ASSUME GoneInv, UNCHANGED <<wrapper, command, spawnFile, tier, store, adapter, aborted>>
  PROVE  \A b \in Attempts : Facts(b)'
  BY DEF GoneInv, Facts, Gone, Empty, LeftOf, WrapperAlive

LEMMA GoneInvNext == "turn" \notin Faults /\ GoneInv /\ [Next]_vars => GoneInv'
<1> SUFFICES ASSUME "turn" \notin Faults, GoneInv, [Next]_vars
             PROVE  \A b \in Attempts : Facts(b)'
  BY TierInvNext DEF GoneInv
<1>1. CASE UNCHANGED vars
  BY <1>1, PhaseFacts DEF vars, engineVars, wrapperVars
<1>2. ASSUME NEW a \in Attempts, Handler(a)  PROVE \A b \in Attempts : Facts(b)'
  BY <1>2, AdapterCreateFacts, AdapterFailsFacts, AdapterUnlaunchedFacts, AdapterSendFacts,
     PollSpawnFacts, PollExitFacts, TaskReapedFacts, TimerFiresFacts, LadderRunsFacts,
     VerdictEndsFacts, LadderDoneFacts, HeldReleasedFacts, HeldKilledFacts,
     PlanFinishesFacts, RestartObserveFacts, RestartCleanupFacts
     DEF Handler
<1>3. ASSUME NEW a \in Attempts, NEW selected \in BOOLEAN, OracleKill(a, selected)
      PROVE  \A b \in Attempts : Facts(b)'
  BY <1>3, OracleKillFacts
<1>4. ASSUME NEW a \in Attempts, World(a) \/ Dispatch(a)
      PROVE  \A b \in Attempts : Facts(b)'
  BY <1>4, WorldFacts, DispatchFacts
<1>5. CASE ReplayDone \/ StopDuringStartup \/ AbortDeadline
  BY <1>5, PhaseFacts DEF ReplayDone, StopDuringStartup, AbortDeadline, wrapperVars
<1>6. CASE BeginDrain \/ Leave \/ Crash \/ Restart
  BY <1>6, BeginDrainFacts, LeaveFacts, CrashFacts, RestartFacts
<1> QED  BY <1>1, <1>2, <1>3, <1>4, <1>5, <1>6 DEF Next

LEMMA GoneInvInit == Init => GoneInv
<1> SUFFICES ASSUME Init, NEW b \in Attempts  PROVE Facts(b)
  BY TierInvInit DEF GoneInv
<1>1. tier[b] = Blank /\ store[b] = NeverDispatched /\ adapter[b] = "none"
      /\ wrapper[b] = "absent" /\ ~spawnFile[b]
  BY DEF Init, WrapperInit
<1> QED  BY <1>1 DEF Blank, NeverDispatched, Facts

-----------------------------------------------------------------------------

\* When the tier closes an attempt, and with it lets its job run again, no
\* process of the attempt is left and its wrapper can start none: for every
\* number of attempts, engine crash and fault of the wrapper, the command, the
\* scan or the spool, as long as no handler runs between the end of a ladder
\* and its done callback (_ladder, _ladder_done).
THEOREM ClosedIsGone == "turn" \notin Faults => (Spec => []ClosedMeansGone)
<1> SUFFICES ASSUME "turn" \notin Faults  PROVE Spec => []ClosedMeansGone
  OBVIOUS
<1>1. Init => GoneInv  BY GoneInvInit
<1>2. GoneInv /\ [Next]_vars => GoneInv'  BY GoneInvNext
<1>3. GoneInv => ClosedMeansGone
  BY DEF GoneInv, Facts, Gone, Empty, Exempt, ClosedMeansGone
<1> QED  BY <1>1, <1>2, <1>3, PTL DEF Spec

-----------------------------------------------------------------------------
(* How an event ends an attempt: once, from a live state; naturally only on *)
(* a record of the wrapper, and never one a stop has reached.               *)

Ends(a, r, s) ==
  /\ \/ s.outcome = r.outcome
     \/ /\ r.state \in Live
        /\ s.outcome = "natural" => statusFile[a] # "none" /\ r.state # "STOPPING"
  /\ s.state \in Live =>
       r.state \in Live /\ (r.state = "STOPPING" => s.state = "STOPPING")

LEMMA EndsOn ==
  ASSUME NEW a, NEW r, NEW s, NEW t, Ends(a, r, s), Ends(a, s, t),
         r.state = "STOPPING" => s.state \in {"STOPPING", "ENDED"}
  PROVE  Ends(a, r, t)
  BY DEF Ends, Live

LEMMA StaysEnds == ASSUME NEW a, NEW r  PROVE Ends(a, r, r)
  BY DEF Ends

LEMMA SpawnRecordedEnds ==
  ASSUME NEW a \in Attempts, NEW r \in TierRecord
  PROVE  /\ Ends(a, r, SpawnRecorded(r))
         /\ r.state = "STOPPING" => SpawnRecorded(r).state = "STOPPING"
<1>1. CASE r.spawn
  BY <1>1, StaysEnds DEF SpawnRecorded
<1>2. CASE ~r.spawn /\ r.state = "SPAWNING"
  <2>1. SpawnRecorded(r) = [r EXCEPT !.spawn = TRUE, !.state = "RUNNING"]
    BY <1>2 DEF SpawnRecorded
  <2> QED
    BY <1>2, <2>1 DEF Ends, TierRecord, Live
<1>3. CASE ~r.spawn /\ r.state = "STOPPING"
  <2>1. SpawnRecorded(r) = Restarted([r EXCEPT !.spawn = TRUE])
    BY <1>3 DEF SpawnRecorded
  <2> QED
    BY <1>3, <2>1 DEF Ends, TierRecord, Live, Restarted
<1>4. CASE ~r.spawn /\ r.state \notin {"SPAWNING", "STOPPING"}
  <2>1. SpawnRecorded(r) = [r EXCEPT !.spawn = TRUE]
    BY <1>4 DEF SpawnRecorded
  <2> QED
    BY <1>4, <2>1 DEF Ends, TierRecord, Live
<1> QED
  BY <1>1, <1>2, <1>3, <1>4

LEMMA EndSays ==
  ASSUME NEW a \in Attempts, NEW r \in TierRecord, NEW outcome \in Outcomes, NEW fails
  PROVE  End(a, r, outcome, fails).state = "ENDED" /\ End(a, r, outcome, fails).outcome = outcome
<1>1. PICK e : e = [r EXCEPT !.state = "ENDED", !.outcome = outcome, !.timer = 0]
  OBVIOUS
<1>2. e \in TierRecord /\ e.state = "ENDED" /\ e.outcome = outcome
  <2>1. 0 \in 0..2
    OBVIOUS
  <2> QED
    BY <1>1, <2>1 DEF TierRecord
<1>3. PICK s : s = WhatIsLeft(a, e, fails)
  OBVIOUS
<1>4. s.state = "ENDED" /\ s.outcome = outcome
  BY <1>2, <1>3 DEF WhatIsLeft, TierRecord
<1>5. End(a, r, outcome, fails) = s
  BY <1>1, <1>3 DEF End
<1> QED
  BY <1>4, <1>5

LEMMA EndEnds ==
  ASSUME NEW a \in Attempts, NEW r \in TierRecord, r.state \in Live, NEW outcome \in Outcomes,
         NEW fails, outcome = "natural" => statusFile[a] # "none" /\ r.state # "STOPPING"
  PROVE  Ends(a, r, End(a, r, outcome, fails))
  BY EndSays DEF Ends, Live

LEMMA StatusRecordedEnds ==
  ASSUME NEW a \in Attempts, NEW r \in TierRecord, NEW fails, statusFile[a] # "none"
  PROVE  Ends(a, r, StatusRecorded(a, r, fails))
<1>1. CASE r.state \in Live
  <2>1. PICK outcome : outcome = OutcomeOf(statusFile[a], r.state = "STOPPING")
    OBVIOUS
  <2>2. outcome \in Outcomes
    BY <2>1, OutcomeIsOne
  <2>3. outcome = "natural" => r.state # "STOPPING"
    BY <2>1 DEF OutcomeOf
  <2>4. StatusRecorded(a, r, fails) = End(a, r, outcome, fails)
    BY <1>1, <2>1 DEF StatusRecorded
  <2> QED
    BY <1>1, <2>2, <2>3, <2>4, EndEnds
<1>2. CASE r.state \notin Live
  BY <1>2, StaysEnds DEF StatusRecorded
<1> QED
  BY <1>1, <1>2

LEMMA UnobservedEnds ==
  ASSUME NEW a \in Attempts, NEW r \in TierRecord, r.state \in Live, NEW fails,
         NEW outcome \in {"spawn_failed", "unobservable"}
  PROVE  Ends(a, r, End(a, r, outcome, fails))
<1>1. outcome \in Outcomes /\ outcome # "natural"
  BY DEF Outcomes
<1> QED
  BY <1>1, EndEnds

LEMMA SpawnFailedEnds ==
  ASSUME NEW a \in Attempts, NEW r \in TierRecord, NEW fails
  PROVE  Ends(a, r, SpawnFailed(a, r, fails))
  BY UnobservedEnds, StaysEnds DEF SpawnFailed, Live

LEMMA EngineDiedEnds ==
  ASSUME NEW a \in Attempts, NEW r \in TierRecord, r.state \in Live, NEW fails
  PROVE  Ends(a, r, EngineDied(a, r, fails))
  BY UnobservedEnds DEF EngineDied

LEMMA WrapperExitedEnds ==
  ASSUME NEW a \in Attempts, NEW r \in TierRecord, NEW fails
  PROVE  Ends(a, r, WrapperExited(a, r, fails))
<1>1. CASE r.state \notin Live
  BY <1>1, StaysEnds DEF WrapperExited
<1>2. CASE r.state \in Live /\ CommandAlive(a, r, fails)
  <2>1. CASE r.state = "RUNNING"
    <3>1. PICK s : s = [r EXCEPT !.state = "STOPPING", !.cause = "wrapper_lost"]
      OBVIOUS
    <3>2. s.state = "STOPPING" /\ s.outcome = r.outcome /\ DOMAIN s = DOMAIN r
      BY <3>1 DEF TierRecord
    <3>3. Restarted(s).state = "STOPPING" /\ Restarted(s).outcome = r.outcome
      BY <3>1, <3>2 DEF Restarted, TierRecord
    <3>4. WrapperExited(a, r, fails) = Restarted(s)
      BY <1>2, <2>1, <3>1 DEF WrapperExited
    <3> QED
      BY <2>1, <3>3, <3>4 DEF Ends, Live
  <2>2. CASE r.state # "RUNNING"
    BY <1>2, <2>2, StaysEnds DEF WrapperExited
  <2> QED
    BY <2>1, <2>2
<1>3. CASE r.state \in Live /\ ~CommandAlive(a, r, fails)
  <2>1. WrapperExited(a, r, fails) = End(a, r, "unobservable", fails)
    BY <1>3 DEF WrapperExited
  <2> QED
    BY <1>3, <2>1, UnobservedEnds
<1> QED
  BY <1>1, <1>2, <1>3

LEMMA RestoredStopEnds ==
  ASSUME NEW a, NEW r \in TierRecord, NEW cause, r.state \in Live
  PROVE  /\ Ends(a, r, RestoredStop(r, cause))
         /\ RestoredStop(r, cause).state = "STOPPING"
<1>1. CASE r.state \in {"SPAWNING", "RUNNING"}
  <2>1. RestoredStop(r, cause) = [r EXCEPT !.state = "STOPPING", !.cause = cause, !.gen = @ + 1]
    BY <1>1 DEF RestoredStop
  <2> QED
    BY <1>1, <2>1 DEF Ends, TierRecord, Live
<1>2. CASE r.state = "STOPPING"
  BY <1>2, StaysEnds DEF RestoredStop
<1> QED
  BY <1>1, <1>2 DEF Live

LEMMA RecordTimeoutEnds ==
  ASSUME NEW a \in Attempts, NEW r \in TierRecord, RecordOK(r), NEW generation, NEW fails
  PROVE  Ends(a, r, RecordTimeout(a, r, generation, fails))
<1>1. PICK launched \in BOOLEAN : launched = (spawnFile[a] /\ ~r.spawn)
  OBVIOUS
<1>2. PICK seen : seen = IF launched THEN SpawnRecorded(r) ELSE r
  OBVIOUS
<1>3. /\ seen \in TierRecord /\ Ends(a, r, seen)
      /\ r.state = "STOPPING" => seen.state = "STOPPING"
  BY <1>2, SpawnRecordedMoves, SpawnRecordedEnds, StaysEnds DEF Moves
<1>4. CASE ~Current(r, generation)
  <2>1. RecordTimeout(a, r, generation, fails) = r
    BY <1>4 DEF RecordTimeout
  <2> QED
    BY <2>1, StaysEnds
<1>5. CASE Current(r, generation) /\ statusFile[a] # "none"
  <2>1. RecordTimeout(a, r, generation, fails) = StatusRecorded(a, seen, fails)
    BY <1>1, <1>2, <1>5 DEF RecordTimeout
  <2> QED
    BY <1>3, <1>5, <2>1, StatusRecordedEnds, EndsOn
<1>6. CASE Current(r, generation) /\ statusFile[a] = "none" /\ launched
  <2>1. RecordTimeout(a, r, generation, fails) = seen
    BY <1>1, <1>2, <1>6 DEF RecordTimeout
  <2> QED
    BY <1>3, <2>1
<1>7. CASE Current(r, generation) /\ statusFile[a] = "none" /\ ~launched
  <2>1. RecordTimeout(a, r, generation, fails) \in
          {[r EXCEPT !.timer = generation], [r EXCEPT !.survived = TRUE],
           End(a, r, "unobservable", fails)}
    BY <1>1, <1>7 DEF RecordTimeout
  <2>2. r.state \in Live
    BY <1>7 DEF Current, Live
  <2>3. Ends(a, r, [r EXCEPT !.timer = generation]) /\ Ends(a, r, [r EXCEPT !.survived = TRUE])
    BY <2>2 DEF Ends, TierRecord
  <2>4. Ends(a, r, End(a, r, "unobservable", fails))
    BY <2>2, UnobservedEnds
  <2> QED
    BY <2>1, <2>3, <2>4
<1> QED
  BY <1>4, <1>5, <1>6, <1>7

-----------------------------------------------------------------------------
(* The stops on record, and what the records of one attempt say together.   *)

StopStands(a) ==
  /\ store[a].open = "never" => store[a].stop = "none"
  /\ store[a].outcome = "none" => store[a].plan = "none"
  /\ EngineUp /\ store[a].stop # "none" /\ tier[a].state \in Live =>
       tier[a].state = "STOPPING" \/ owed[a] = "observe"

StopInv == TierInv /\ \A a \in Attempts : StopStands(a)

\* What one step may make of the store's entry of an attempt.
Untouched(st, a) == st = store[a]

Opened(st, a) ==
  /\ store[a].open = "never" /\ st.open = "open"
  /\ st.outcome = store[a].outcome /\ st.plan = store[a].plan

Decided(st, a) ==
  /\ store[a].open = "open" /\ st.open \in {"closing", "closed"}
  /\ st.outcome \in Outcomes /\ st.plan \in {"none", "input", "rerun"}
  /\ st.outcome \in {"natural", "spawn_failed"} => st.plan = "input"
  /\ st.outcome = "natural" => statusFile[a] # "none" /\ store[a].stop = "none"

Shut(st, a) ==
  /\ store[a].open = "closing" /\ st.open = "closed"
  /\ st.outcome = store[a].outcome /\ st.plan = store[a].plan

Paid(st, a) ==
  /\ st.open = store[a].open /\ st.outcome = store[a].outcome
  /\ \/ store[a].plan = "input" /\ st.plan = "done"
     \/ store[a].plan = "rerun" /\ store[a].open = "closed" /\ st.plan = "replaced"

StoreStep(a) ==
  \E st \in StoreRecord :
    /\ store' = [store EXCEPT ![a] = st]
    /\ st.stop = store[a].stop
    /\ Untouched(st, a) \/ Opened(st, a) \/ Decided(st, a) \/ Shut(st, a) \/ Paid(st, a)

\* The step leaves the other attempts' records alone, and this one's stop stands.
StopKept(a) ==
  /\ \A b \in Attempts \ {a} : tier'[b] = tier[b] /\ owed'[b] = owed[b]
  /\ store[a].stop # "none" /\ tier'[a].state \in Live =>
       tier'[a].state = "STOPPING" \/ owed'[a] = "observe"

OwedKept(a) ==
  /\ owed[a] \in {"none", "cleanup"} \/ owed' = owed
  /\ owed' = owed \/ owed' = [owed EXCEPT ![a] = "none"]

LEMMA StoreSame ==
  ASSUME TierInv, NEW a \in Attempts, UNCHANGED store
  PROVE  StoreStep(a)
<1>1. store \in [Attempts -> StoreRecord]
  BY DEF TierInv, TierTypeOK
<1>2. store[a] \in StoreRecord /\ store' = [store EXCEPT ![a] = store[a]]
  BY <1>1
<1> QED
  BY <1>2 DEF StoreStep, Untouched

LEMMA KeptState == ASSUME NEW r  PROVE Kept(r).state \in {r.state, "FORGOTTEN"}
<1>1. CASE Over(r)
  BY <1>1 DEF Kept, Blank
<1>2. CASE ~Over(r)
  BY <1>2 DEF Kept
<1> QED
  BY <1>1, <1>2

\* The step left the attempt's state as it was, or took it out of the live ones.
LEMMA TierKeepsStop ==
  ASSUME StopInv, EngineUp, NEW a \in Attempts, NEW k, tier' = [tier EXCEPT ![a] = k],
         OwedKept(a), k.state = tier[a].state \/ k.state \notin {"SPAWNING", "RUNNING"}
  PROVE  StopKept(a)
<1>1. /\ tier \in [Attempts -> TierRecord] /\ owed \in [Attempts -> {"none", "observe", "cleanup"}]
      /\ StopStands(a)
  BY Parts DEF StopInv
<1>2. tier'[a] = k /\ \A b \in Attempts \ {a} : tier'[b] = tier[b] /\ owed'[b] = owed[b]
  BY <1>1 DEF OwedKept
<1>3. CASE k.state \notin {"SPAWNING", "RUNNING"}
  BY <1>2, <1>3 DEF StopKept, Live
<1>4. CASE k.state = tier[a].state
  <2>1. owed[a] = "observe" => owed'[a] = "observe"
    BY DEF OwedKept
  <2> QED
    BY <1>1, <1>2, <1>4, <2>1 DEF StopKept, StopStands
<1> QED
  BY <1>3, <1>4

\* commit_outcome: one outcome from a live state, and the plan it may have.
LEMMA HandledLife ==
  ASSUME StopInv, EngineUp, NEW a \in Attempts, NEW r, Moves(tier[a], r), Ends(a, tier[a], r),
         NEW cause, NEW called, Handled(a, r, cause, called),
         \/ owed[a] = "none" /\ owed' = owed
         \/ /\ owed' = [owed EXCEPT ![a] = "none"]
            /\ store[a].stop # "none" =>
                 r.outcome # "natural" /\ r.state \notin {"SPAWNING", "RUNNING"}
  PROVE  StoreStep(a) /\ StopKept(a)
<1>1. /\ TierInv /\ StopStands(a) /\ r \in TierRecord /\ RecordOK(r)
      /\ tier \in [Attempts -> TierRecord] /\ store \in [Attempts -> StoreRecord]
      /\ owed \in [Attempts -> {"none", "observe", "cleanup"}]
      /\ RecordOK(tier[a]) /\ Linked(tier[a], store[a], owed[a], adapter[a])
  BY Parts DEF StopInv, Moves
<1>2. PICK k : tier' = [tier EXCEPT ![a] = k] /\ k.state \in {r.state, "FORGOTTEN"}
  <2>1. CASE r.outcome = tier[a].outcome
    BY <2>1, KeptState DEF Handled
  <2>2. CASE r.outcome # tier[a].outcome
    <3>1. PICK plan : tier' = [tier EXCEPT ![a] = Kept([r EXCEPT !.planDone = (plan = "none")])]
      BY <2>2 DEF Handled
    <3>2. PICK s : s = [r EXCEPT !.planDone = (plan = "none")]
      OBVIOUS
    <3>3. s.state = r.state
      BY <1>1, <3>2 DEF TierRecord
    <3> QED
      BY <3>1, <3>2, <3>3, KeptState
  <2> QED
    BY <2>1, <2>2
<1>3. StopKept(a)
  <2>1. tier'[a] = k /\ \A b \in Attempts \ {a} : tier'[b] = tier[b] /\ owed'[b] = owed[b]
    BY <1>1, <1>2
  <2>2. ASSUME store[a].stop # "none", k.state \in Live
        PROVE  k.state = "STOPPING"
    <3>1. k.state = r.state /\ tier[a].state \in Live
      BY <1>2, <2>2 DEF Live, Ends
    <3>2. CASE owed[a] = "none"
      BY <1>1, <2>2, <3>1, <3>2 DEF Ends, StopStands
    <3>3. CASE r.state \notin {"SPAWNING", "RUNNING"}
      BY <2>2, <3>1, <3>3 DEF Live
    <3> QED
      BY <2>2, <3>2, <3>3
  <2> QED
    BY <2>1, <2>2 DEF StopKept
<1>4. StoreStep(a)
  <2>1. CASE r.outcome = tier[a].outcome
    BY <1>1, <2>1, StoreSame DEF Handled
  <2>2. CASE r.outcome # tier[a].outcome
    <3>1. PICK plan \in Plans(r.outcome, cause) :
            store' = [store EXCEPT ![a].open = OpenAfter(r), ![a].outcome = r.outcome,
                                   ![a].plan = plan]
      BY <2>2 DEF Handled
    <3>2. PICK st : st = [store[a] EXCEPT !.open = OpenAfter(r), !.outcome = r.outcome,
                                          !.plan = plan]
      OBVIOUS
    <3>3. tier[a].state \in Live /\ store[a].open = "open" /\ r.outcome \in Outcomes
      BY <1>1, <2>2 DEF Ends, Linked, RecordOK, Live, TierRecord
    <3>4. plan \in {"none", "input", "rerun"} /\ OpenAfter(r) \in {"closing", "closed"}
      BY DEF Plans, OpenAfter
    <3>5. /\ st \in StoreRecord /\ store' = [store EXCEPT ![a] = st]
          /\ st.open \in {"closing", "closed"} /\ st.outcome = r.outcome /\ st.plan = plan
          /\ st.stop = store[a].stop
      BY <1>1, <3>1, <3>2, <3>3, <3>4 DEF StoreRecord
    <3>6. r.outcome \in {"natural", "spawn_failed"} => plan = "input"
      BY <3>1 DEF Plans
    <3>7. r.outcome = "natural" => statusFile[a] # "none" /\ store[a].stop = "none"
      BY <1>1, <2>2, <3>3 DEF Ends, StopStands
    <3> QED
      BY <3>3, <3>4, <3>5, <3>6, <3>7 DEF StoreStep, Decided
  <2> QED
    BY <2>1, <2>2
<1> QED
  BY <1>3, <1>4

-----------------------------------------------------------------------------
(* Each action keeps to it.                                                 *)

LEMMA AdapterFailsLife ==
  ASSUME StopInv, NEW a \in Attempts, AdapterFails(a)  PROVE StoreStep(a) /\ StopKept(a)
<1>1. EngineUp /\ TierInv
  BY DEF AdapterFails, Turn, StopInv
<1>2. owed[a] = "none"
  BY <1>1, Parts DEF AdapterFails, Linked
<1>3. PICK fails \in ScanOutcomes :
        Handled(a, SpawnFailed(a, tier[a], fails), tier[a].cause, FALSE)
  BY DEF AdapterFails
<1>4. fails \in BOOLEAN /\ tier[a] \in TierRecord /\ RecordOK(tier[a])
  BY <1>1, Parts DEF ScanOutcomes
<1>5. PICK r : r = SpawnFailed(a, tier[a], fails)
  OBVIOUS
<1>6. Moves(tier[a], r) /\ Ends(a, tier[a], r)
  BY <1>4, <1>5, SpawnFailedMoves, SpawnFailedEnds
<1>7. Handled(a, r, tier[a].cause, FALSE) /\ owed' = owed
  BY <1>3, <1>5 DEF AdapterFails, AdapterEnds
<1> QED
  BY <1>1, <1>2, <1>6, <1>7, HandledLife

LEMMA AdapterUnlaunchedLife ==
  ASSUME StopInv, NEW a \in Attempts, AdapterUnlaunched(a)
  PROVE  StoreStep(a) /\ StopKept(a)
<1>1. EngineUp /\ TierInv
  BY DEF AdapterUnlaunched, Turn, StopInv
<1>2. owed[a] = "none"
  BY <1>1, Parts DEF AdapterUnlaunched, Linked
<1>3. PICK fails \in ScanOutcomes :
        Handled(a, WrapperExited(a, tier[a], fails), tier[a].cause, FALSE)
  BY DEF AdapterUnlaunched
<1>4. fails \in BOOLEAN /\ tier[a] \in TierRecord /\ RecordOK(tier[a])
  BY <1>1, Parts DEF ScanOutcomes
<1>5. PICK r : r = WrapperExited(a, tier[a], fails)
  OBVIOUS
<1>6. Moves(tier[a], r) /\ Ends(a, tier[a], r)
  BY <1>4, <1>5, WrapperExitedMoves, WrapperExitedEnds
<1>7. Handled(a, r, tier[a].cause, FALSE) /\ owed' = owed
  BY <1>3, <1>5 DEF AdapterUnlaunched, AdapterEnds
<1> QED
  BY <1>1, <1>2, <1>6, <1>7, HandledLife

LEMMA PollSpawnLife ==
  ASSUME StopInv, NEW a \in Attempts, PollSpawn(a)  PROVE StoreStep(a) /\ StopKept(a)
<1>1. EngineUp /\ TierInv
  BY DEF PollSpawn, Turn, StopInv
<1>2. owed[a] = "none" /\ tier[a] \in TierRecord /\ RecordOK(tier[a])
  BY <1>1, Parts DEF PollSpawn, Linked
<1>3. Moves(tier[a], SpawnRecorded(tier[a])) /\ Ends(a, tier[a], SpawnRecorded(tier[a]))
  BY <1>2, SpawnRecordedMoves, SpawnRecordedEnds
<1> QED
  BY <1>1, <1>2, <1>3, HandledLife DEF PollSpawn

\* The record as the spool shows it, before what the handler is about.
LEMMA SeenLife ==
  ASSUME NEW a \in Attempts, NEW r \in TierRecord, RecordOK(r), NEW seen,
         seen = IF spawnFile[a] THEN SpawnRecorded(r) ELSE r
  PROVE  /\ Moves(r, seen) /\ Ends(a, r, seen) /\ seen \in TierRecord /\ RecordOK(seen)
         /\ r.state = "STOPPING" => seen.state \in {"STOPPING", "ENDED"}
  BY SpawnRecordedMoves, SpawnRecordedEnds, StaysMoves, StaysEnds DEF Moves

LEMMA PollExitLife ==
  ASSUME StopInv, NEW a \in Attempts, PollExit(a)  PROVE StoreStep(a) /\ StopKept(a)
<1>1. EngineUp /\ TierInv
  BY DEF PollExit, Turn, StopInv
<1>2. owed[a] = "none" /\ tier[a] \in TierRecord /\ RecordOK(tier[a])
  BY <1>1, Parts DEF PollExit, Linked
<1>3. PICK seen : seen = IF spawnFile[a] THEN SpawnRecorded(tier[a]) ELSE tier[a]
  OBVIOUS
<1>4. PICK fails \in ScanOutcomes :
        Handled(a, IF statusFile[a] # "none"
                   THEN StatusRecorded(a, seen, fails)
                   ELSE WrapperExited(a, seen, fails), seen.cause, FALSE)
  BY <1>3 DEF PollExit
<1>5. fails \in BOOLEAN
  BY DEF ScanOutcomes
<1>6. PICK r : r = IF statusFile[a] # "none" THEN StatusRecorded(a, seen, fails)
                                             ELSE WrapperExited(a, seen, fails)
  OBVIOUS
<1>7. /\ Moves(tier[a], seen) /\ Ends(a, tier[a], seen)
      /\ seen \in TierRecord /\ RecordOK(seen)
      /\ tier[a].state = "STOPPING" => seen.state \in {"STOPPING", "ENDED"}
  BY <1>2, <1>3, SeenLife
<1>8. Moves(seen, r) /\ Ends(a, seen, r)
  BY <1>5, <1>6, <1>7, StatusRecordedMoves, WrapperExitedMoves, StatusRecordedEnds,
     WrapperExitedEnds
<1>9. Moves(tier[a], r) /\ Ends(a, tier[a], r)
  BY <1>7, <1>8, MovesOn, EndsOn
<1>10. Handled(a, r, seen.cause, FALSE) /\ owed' = owed
  BY <1>4, <1>6 DEF PollExit, AdapterEnds
<1> QED
  BY <1>1, <1>2, <1>9, <1>10, HandledLife

LEMMA TimerFiresLife ==
  ASSUME StopInv, NEW a \in Attempts, TimerFires(a)  PROVE StoreStep(a) /\ StopKept(a)
<1>1. EngineUp /\ TierInv
  BY DEF TimerFires, StopInv
<1>2. owed[a] = "none" /\ tier[a] \in TierRecord /\ RecordOK(tier[a])
  BY <1>1, Parts DEF TimerFires, Linked
<1>3. PICK s : s = [tier[a] EXCEPT !.timer = 0]
  OBVIOUS
<1>4. s \in TierRecord
  <2>1. 0 \in 0..2
    OBVIOUS
  <2> QED
    BY <1>2, <1>3, <2>1 DEF TierRecord
<1>5. /\ s.state = tier[a].state /\ s.planDone = tier[a].planDone
      /\ s.outcome = tier[a].outcome /\ s.gen = tier[a].gen /\ s.spawn = tier[a].spawn
      /\ s.ladder = tier[a].ladder /\ s.survived = tier[a].survived
      /\ s.failed = tier[a].failed
  BY <1>2, <1>3 DEF TierRecord
<1>6. RecordOK(s) /\ Moves(tier[a], s) /\ Ends(a, tier[a], s)
  BY <1>2, <1>4, <1>5 DEF RecordOK, Moves, Ends, LadderPending, Held
<1>7. PICK fails \in ScanOutcomes :
        Handled(a, RecordTimeout(a, s, tier[a].timer, fails), tier[a].cause, FALSE)
  BY <1>3 DEF TimerFires
<1>8. PICK r : r = RecordTimeout(a, s, tier[a].timer, fails)
  OBVIOUS
<1>9. Moves(s, r) /\ Ends(a, s, r)
  <2>1. tier[a].timer \in 0..2 /\ fails \in BOOLEAN
    BY <1>2 DEF TierRecord, ScanOutcomes
  <2> QED
    BY <1>4, <1>6, <1>8, <2>1, RecordTimeoutMoves, RecordTimeoutEnds
<1>10. Moves(tier[a], r) /\ Ends(a, tier[a], r)
  BY <1>5, <1>6, <1>9, MovesOn, EndsOn
<1>11. Handled(a, r, tier[a].cause, FALSE) /\ owed' = owed
  BY <1>7, <1>8 DEF TimerFires
<1> QED
  BY <1>1, <1>2, <1>10, <1>11, HandledLife

LEMMA RestartObserveLife ==
  ASSUME StopInv, NEW a \in Attempts, RestartObserve(a)  PROVE StoreStep(a) /\ StopKept(a)
<1>1. EngineUp /\ TierInv /\ owed' = [owed EXCEPT ![a] = "none"]
  BY DEF RestartObserve, StopInv, EngineUp
<1>2. tier[a] \in TierRecord /\ RecordOK(tier[a]) /\ tier[a].state \in Live
  BY <1>1, Parts DEF RestartObserve, Linked
<1>3. PICK seen : seen = IF spawnFile[a] THEN SpawnRecorded(tier[a]) ELSE tier[a]
  OBVIOUS
<1>4. /\ Moves(tier[a], seen) /\ Ends(a, tier[a], seen)
      /\ seen \in TierRecord /\ RecordOK(seen)
      /\ tier[a].state = "STOPPING" => seen.state \in {"STOPPING", "ENDED"}
  BY <1>2, <1>3, SeenLife
<1>5. seen.state \in Live
  <2>1. SpawnRecorded(tier[a]).state \in Live
    BY <1>2 DEF SpawnRecorded, Restarted, TierRecord, Live
  <2> QED
    BY <1>2, <1>3, <2>1
<1>6. PICK r : r = IF store[a].stop = "none" THEN seen ELSE RestoredStop(seen, store[a].stop)
  OBVIOUS
<1>7. /\ Moves(seen, r) /\ Ends(a, seen, r) /\ r \in TierRecord /\ RecordOK(r)
      /\ r.state \in Live
      /\ seen.state = "STOPPING" => r.state \in {"STOPPING", "ENDED"}
      /\ store[a].stop # "none" => r.state = "STOPPING"
  <2>1. store[a].stop \in Causes
    BY <1>1, Parts DEF StoreRecord
  <2>2. CASE store[a].stop = "none"
    BY <1>4, <1>5, <1>6, <2>2, StaysMoves, StaysEnds
  <2>3. CASE store[a].stop # "none"
    <3>1. r = RestoredStop(seen, store[a].stop)
      BY <1>6, <2>3
    <3>2. Moves(seen, r) /\ Ends(a, seen, r) /\ r.state = "STOPPING"
      BY <1>4, <1>5, <2>1, <3>1, RestoredStopMoves, RestoredStopEnds
    <3> QED
      BY <3>2 DEF Moves, Live
  <2> QED
    BY <2>2, <2>3
<1>8. PICK fails \in ScanOutcomes :
        \/ Handled(a, IF statusFile[a] # "none"
                      THEN StatusRecorded(a, r, fails)
                      ELSE EngineDied(a, r, fails), r.cause, FALSE)
        \/ Handled(a, EngineDied(a, seen, fails), "quarantined", FALSE)
  BY <1>3, <1>6 DEF RestartObserve
<1>9. fails \in BOOLEAN
  BY DEF ScanOutcomes
<1>10. CASE Handled(a, EngineDied(a, seen, fails), "quarantined", FALSE)
  <2>1. PICK t : t = EngineDied(a, seen, fails)
    OBVIOUS
  <2>2. Moves(seen, t) /\ Ends(a, seen, t)
    BY <1>4, <1>5, <1>9, <2>1, EngineDiedMoves, EngineDiedEnds
  <2>3. Moves(tier[a], t) /\ Ends(a, tier[a], t)
    BY <1>4, <2>2, MovesOn, EndsOn
  <2>4. t.outcome = "unobservable" /\ t.state = "ENDED"
    <3>1. "unobservable" \in Outcomes
      BY DEF Outcomes
    <3> QED
      BY <1>4, <2>1, <3>1, EndSays DEF EngineDied
  <2>5. Handled(a, t, "quarantined", FALSE)
    BY <1>10, <2>1
  <2> QED
    BY <1>1, <2>3, <2>4, <2>5, HandledLife
<1>11. CASE Handled(a, IF statusFile[a] # "none"
                       THEN StatusRecorded(a, r, fails)
                       ELSE EngineDied(a, r, fails), r.cause, FALSE)
  <2>1. PICK t : t = IF statusFile[a] # "none" THEN StatusRecorded(a, r, fails)
                                               ELSE EngineDied(a, r, fails)
    OBVIOUS
  <2>2. Moves(r, t) /\ Ends(a, r, t)
    BY <1>7, <1>9, <2>1, StatusRecordedMoves, StatusRecordedEnds, EngineDiedMoves,
       EngineDiedEnds
  <2>3. Moves(tier[a], t) /\ Ends(a, tier[a], t)
    <3>1. tier[a].state = "STOPPING" => r.state \in {"STOPPING", "ENDED"}
      BY <1>2, <1>4, <1>5, <1>7 DEF Live
    <3>2. Moves(tier[a], r) /\ Ends(a, tier[a], r)
      BY <1>4, <1>7, MovesOn, EndsOn
    <3> QED
      BY <2>2, <3>1, <3>2, MovesOn, EndsOn
  <2>4. store[a].stop # "none" => t.outcome # "natural" /\ t.state \notin {"SPAWNING", "RUNNING"}
    <3>1. ASSUME r.state = "STOPPING"
          PROVE  t.outcome # "natural" /\ t.state \notin {"SPAWNING", "RUNNING"}
      <4>1. r.outcome = "none"
        BY <1>7, <3>1 DEF RecordOK
      <4> QED
        BY <2>2, <3>1, <4>1 DEF Ends, Live
    <3> QED
      BY <1>7, <3>1
  <2>5. Handled(a, t, r.cause, FALSE)
    BY <1>11, <2>1
  <2> QED
    BY <1>1, <2>3, <2>4, <2>5, HandledLife
<1> QED
  BY <1>8, <1>10, <1>11

\* _ladder_ended with no hold.
LEMMA ClosedLife ==
  ASSUME StopInv, EngineUp, NEW a \in Attempts, NEW r, Closed(a, r), OwedKept(a),
         r.state = tier[a].state
  PROVE  StoreStep(a) /\ StopKept(a)
<1>1. TierInv /\ store \in [Attempts -> StoreRecord] /\ store[a] \in StoreRecord
  BY Parts DEF StopInv
<1>2. PICK k : tier' = [tier EXCEPT ![a] = k] /\ k.state \in {r.state, "FORGOTTEN"}
  BY KeptState DEF Closed
<1>3. StopKept(a)
  BY <1>2, TierKeepsStop
<1>4. store' = [store EXCEPT ![a].open = IF @ = "closing" THEN "closed" ELSE @]
  BY DEF Closed
<1>5. CASE store[a].open = "closing"
  <2>1. PICK st : st = [store[a] EXCEPT !.open = "closed"]
    OBVIOUS
  <2>2. /\ st \in StoreRecord /\ st.open = "closed" /\ st.outcome = store[a].outcome
        /\ st.plan = store[a].plan /\ st.stop = store[a].stop
    BY <1>1, <2>1 DEF StoreRecord
  <2>3. store' = [store EXCEPT ![a] = st]
    BY <1>1, <1>4, <1>5, <2>1 DEF StoreRecord
  <2> QED
    BY <1>3, <1>5, <2>2, <2>3 DEF StoreStep, Shut
<1>6. CASE store[a].open # "closing"
  <2>1. store' = store
    BY <1>1, <1>4, <1>6 DEF StoreRecord
  <2> QED
    BY <1>1, <1>3, <2>1, StoreSame
<1> QED
  BY <1>5, <1>6

\* A step that leaves the store and the records of the tier alone.
LEMMA QuietLife ==
  ASSUME StopInv, EngineUp, NEW a \in Attempts, UNCHANGED <<tier, store, owed>>
  PROVE  StoreStep(a) /\ StopKept(a)
<1>1. TierInv /\ tier' = [tier EXCEPT ![a] = tier[a]]
  BY Parts DEF StopInv
<1> QED
  BY <1>1, StoreSame, TierKeepsStop, Parts DEF OwedKept

LEMMA TaskReapedLife ==
  ASSUME StopInv, NEW a \in Attempts, TaskReaped(a)  PROVE StoreStep(a) /\ StopKept(a)
<1>1. EngineUp /\ TierInv /\ UNCHANGED <<store, owed>>
  BY DEF TaskReaped, Turn, StopInv
<1>2. tier[a] \in TierRecord /\ tier' = [tier EXCEPT ![a] = Kept([tier[a] EXCEPT !.exited = TRUE])]
  BY <1>1, Parts DEF TaskReaped
<1>3. PICK r : r = [tier[a] EXCEPT !.exited = TRUE]
  OBVIOUS
<1>4. r.state = tier[a].state
  BY <1>2, <1>3 DEF TierRecord
<1>5. Kept(r).state \in {tier[a].state, "FORGOTTEN"}
  BY <1>4, KeptState
<1> QED
  BY <1>1, <1>2, <1>3, <1>5, StoreSame, TierKeepsStop DEF OwedKept

LEMMA LadderRunsLife ==
  ASSUME StopInv, NEW a \in Attempts, LadderRuns(a)  PROVE StoreStep(a) /\ StopKept(a)
<1>1. EngineUp /\ TierInv /\ UNCHANGED <<store, owed>>
  BY DEF LadderRuns, StopInv
<1>2. tier[a] \in TierRecord /\ tier \in [Attempts -> TierRecord]
  BY <1>1, Parts
<1>3. PICK ladder, timer :
        tier' = [tier EXCEPT ![a].selected = FALSE, ![a].ladder = ladder, ![a].timer = timer]
  <2>1. PICK fails \in ScanOutcomes :
          tier' = [tier EXCEPT
            ![a].selected = FALSE,
            ![a].ladder = IF fails THEN "raised"
                          ELSE IF tier[a].state = "ENDED" THEN "verdict" ELSE "finishing",
            ![a].timer = IF fails \/ tier[a].state = "ENDED" THEN @ ELSE tier[a].gen]
    BY DEF LadderRuns
  <2>2. PICK ladder, timer :
          /\ ladder = IF fails THEN "raised"
                      ELSE IF tier[a].state = "ENDED" THEN "verdict" ELSE "finishing"
          /\ timer = IF fails \/ tier[a].state = "ENDED" THEN tier[a].timer ELSE tier[a].gen
    OBVIOUS
  <2>3. tier' = [tier EXCEPT ![a].selected = FALSE, ![a].ladder = ladder, ![a].timer = timer]
    BY <1>2, <2>1, <2>2 DEF TierRecord
  <2> QED
    BY <2>3
<1>4. PICK r : r = [tier[a] EXCEPT !.selected = FALSE, !.ladder = ladder, !.timer = timer]
  OBVIOUS
<1>5. r.state = tier[a].state /\ tier' = [tier EXCEPT ![a] = r]
  BY <1>2, <1>3, <1>4 DEF TierRecord
<1> QED
  BY <1>1, <1>5, StoreSame, TierKeepsStop DEF OwedKept

LEMMA VerdictEndsLife ==
  ASSUME StopInv, NEW a \in Attempts, VerdictEnds(a)  PROVE StoreStep(a) /\ StopKept(a)
<1>1. EngineUp /\ TierInv /\ UNCHANGED <<store, owed>>
  BY DEF VerdictEnds, StopInv
<1>2. tier[a] \in TierRecord /\ tier \in [Attempts -> TierRecord]
  BY <1>1, Parts
<1>3. PICK survived :
        tier' = [tier EXCEPT ![a].ladder = "finishing", ![a].survived = survived]
  <2>1. PICK fails \in ScanOutcomes :
          tier' = [tier EXCEPT ![a].ladder = "finishing",
                               ![a].survived = @ \/ Look(a, tier[a], fails) # "none"]
    BY DEF VerdictEnds
  <2>2. PICK survived : survived = (tier[a].survived \/ Look(a, tier[a], fails) # "none")
    OBVIOUS
  <2>3. tier' = [tier EXCEPT ![a].ladder = "finishing", ![a].survived = survived]
    BY <1>2, <2>1, <2>2 DEF TierRecord
  <2> QED
    BY <2>3
<1>4. PICK r : r = [tier[a] EXCEPT !.ladder = "finishing", !.survived = survived]
  OBVIOUS
<1>5. r.state = tier[a].state /\ tier' = [tier EXCEPT ![a] = r]
  BY <1>2, <1>3, <1>4 DEF TierRecord
<1> QED
  BY <1>1, <1>5, StoreSame, TierKeepsStop DEF OwedKept

LEMMA LadderDoneLife ==
  ASSUME StopInv, NEW a \in Attempts, LadderDone(a)  PROVE StoreStep(a) /\ StopKept(a)
<1>1. EngineUp /\ TierInv /\ UNCHANGED owed
  BY DEF LadderDone, StopInv
<1>2. tier[a] \in TierRecord
  BY <1>1, Parts
<1>3. PICK r : r = [tier[a] EXCEPT !.ladder = "done", !.failed = @ \/ tier[a].ladder = "raised"]
  OBVIOUS
<1>4. r.state = tier[a].state
  BY <1>2, <1>3 DEF TierRecord
<1>5. CASE Held(r)
  <2>1. tier' = [tier EXCEPT ![a] = r] /\ UNCHANGED store
    BY <1>3, <1>5 DEF LadderDone
  <2> QED
    BY <1>1, <1>4, <2>1, StoreSame, TierKeepsStop DEF OwedKept
<1>6. CASE ~Held(r)
  <2>1. Closed(a, r)
    BY <1>3, <1>6 DEF LadderDone
  <2> QED
    BY <1>1, <1>4, <2>1, ClosedLife DEF OwedKept
<1> QED
  BY <1>5, <1>6

LEMMA HeldReleasedLife ==
  ASSUME StopInv, NEW a \in Attempts, HeldReleased(a)  PROVE StoreStep(a) /\ StopKept(a)
<1>1. EngineUp /\ TierInv /\ Held(tier[a]) /\ UNCHANGED owed
  BY DEF HeldReleased, StopInv
<1>2. owed[a] = "none" /\ tier[a] \in TierRecord /\ RecordOK(tier[a])
  BY <1>1, Parts DEF Linked
<1>3. PICK r : r = [tier[a] EXCEPT !.survived = FALSE, !.failed = FALSE, !.leakHold = FALSE]
  OBVIOUS
<1>4. r \in TierRecord /\ RecordOK(r) /\ r.state = tier[a].state /\ r.outcome = tier[a].outcome
      /\ (r.planDone <=> tier[a].planDone) /\ r.gen \in 0..2
  <2>1. r \in TierRecord
    BY <1>2, <1>3 DEF TierRecord
  <2>2. /\ r.state = tier[a].state /\ r.planDone = tier[a].planDone
        /\ r.outcome = tier[a].outcome /\ r.gen = tier[a].gen /\ r.spawn = tier[a].spawn
    BY <1>2, <1>3 DEF TierRecord
  <2> QED
    BY <1>1, <1>2, <2>1, <2>2 DEF RecordOK, TierRecord
<1>5. IF r.state = "STOPPING"
      THEN \E fails \in ScanOutcomes :
             Handled(a, RecordTimeout(a, r, r.gen, fails), r.cause, TRUE)
      ELSE Closed(a, r)
  BY <1>3 DEF HeldReleased
<1>6. CASE r.state = "STOPPING"
  <2>1. PICK fails \in ScanOutcomes : Handled(a, RecordTimeout(a, r, r.gen, fails), r.cause, TRUE)
    BY <1>5, <1>6
  <2>2. fails \in BOOLEAN
    BY DEF ScanOutcomes
  <2>3. PICK t : t = RecordTimeout(a, r, r.gen, fails)
    OBVIOUS
  <2>4. Moves(r, t) /\ Ends(a, r, t)
    BY <1>4, <2>2, <2>3, RecordTimeoutMoves, RecordTimeoutEnds
  <2>5. Moves(tier[a], r) /\ Ends(a, tier[a], r)
    BY <1>4, <1>6 DEF Moves, Ends, Live
  <2>6. Moves(tier[a], t) /\ Ends(a, tier[a], t) /\ Handled(a, t, r.cause, TRUE)
    BY <1>4, <2>1, <2>3, <2>4, <2>5, MovesOn, EndsOn
  <2> QED
    BY <1>1, <1>2, <2>6, HandledLife
<1>7. CASE r.state # "STOPPING"
  BY <1>1, <1>4, <1>5, <1>7, ClosedLife DEF OwedKept
<1> QED
  BY <1>6, <1>7

LEMMA PlanFinishesLife ==
  ASSUME StopInv, NEW a \in Attempts, PlanFinishes(a)  PROVE StoreStep(a) /\ StopKept(a)
<1>1. /\ EngineUp /\ TierInv /\ StopStands(a) /\ tier[a].state \in {"NONE", "ENDED"}
      /\ ~tier[a].planDone
      /\ owed[a] = "none" /\ store[a].plan \in {"input", "rerun"} /\ UNCHANGED owed
  BY DEF PlanFinishes, StopInv
<1>2. /\ tier[a] \in TierRecord /\ tier \in [Attempts -> TierRecord]
      /\ store[a] \in StoreRecord /\ store \in [Attempts -> StoreRecord]
      /\ StoreOK(store[a]) /\ Linked(tier[a], store[a], owed[a], adapter[a])
  BY <1>1, Parts
<1>3. PICK r : r = [tier[a] EXCEPT !.planDone = TRUE]
  OBVIOUS
<1>4. r.state = tier[a].state /\ (LadderPending(r) <=> LadderPending(tier[a]))
      /\ (Held(r) <=> Held(tier[a]))
  BY <1>2, <1>3 DEF TierRecord, LadderPending, Held
<1>5. PICK k : /\ tier' = [tier EXCEPT ![a] = k]
               /\ k.state \in {tier[a].state, "FORGOTTEN"}
  <2>1. CASE tier[a].state = "NONE"
    <3>1. tier' = tier
      BY <2>1 DEF PlanFinishes
    <3>2. tier' = [tier EXCEPT ![a] = tier[a]]
      BY <1>2, <3>1
    <3> QED
      BY <3>2
  <2>2. CASE tier[a].state # "NONE"
    <3>1. tier' = [tier EXCEPT ![a] = Kept(r)]
      BY <1>3, <2>2 DEF PlanFinishes
    <3> QED
      BY <1>4, <3>1, KeptState
  <2> QED
    BY <2>1, <2>2
<1>6. StopKept(a)
  BY <1>1, <1>5, TierKeepsStop DEF OwedKept
<1>7. PICK drained \in BOOLEAN :
        /\ drained => store[a].plan = "rerun"
        /\ store[a].plan = "rerun" /\ ~drained => ~LadderPending(r) /\ ~Held(r)
        /\ store' = [store EXCEPT ![a].plan =
             CASE drained -> @ [] @ = "input" -> "done" [] OTHER -> "replaced"]
  <2>1. PICK drained \in BOOLEAN :
          drained = (store[a].plan = "rerun" /\ phase \in {"DRAINING", "STOPPED"})
    OBVIOUS
  <2> QED
    BY <1>3, <2>1 DEF PlanFinishes
<1>8. CASE drained
  <2>1. store' = store
    BY <1>2, <1>7, <1>8 DEF StoreRecord
  <2> QED
    BY <1>1, <1>6, <2>1, StoreSame
<1>9. CASE ~drained
  <2>1. PICK plan : plan = IF store[a].plan = "input" THEN "done" ELSE "replaced"
    OBVIOUS
  <2>2. PICK st : st = [store[a] EXCEPT !.plan = plan]
    OBVIOUS
  <2>3. /\ st \in StoreRecord /\ st.open = store[a].open /\ st.outcome = store[a].outcome
        /\ st.plan = plan /\ st.stop = store[a].stop
    BY <1>2, <2>1, <2>2 DEF StoreRecord
  <2>4. store' = [store EXCEPT ![a] = st]
    BY <1>2, <1>7, <1>9, <2>1, <2>2 DEF StoreRecord
  <2>5. store[a].plan = "rerun" => store[a].open = "closed"
    <3>1. store[a].open \in {"closing", "closed"}
      BY <1>1, <1>2 DEF StopStands, StoreOK
    <3> QED
      BY <1>1, <1>2, <1>4, <1>7, <1>9, <3>1 DEF Linked
  <2> QED
    BY <1>1, <1>6, <2>1, <2>3, <2>4, <2>5 DEF StoreStep, Paid
<1> QED
  BY <1>8, <1>9

LEMMA RestartCleanupLife ==
  ASSUME StopInv, NEW a \in Attempts, RestartCleanup(a)  PROVE StoreStep(a) /\ StopKept(a)
<1>1. EngineUp /\ TierInv /\ owed[a] = "cleanup" /\ owed' = [owed EXCEPT ![a] = "none"]
  BY DEF RestartCleanup, StopInv, EngineUp
<1>2. tier[a] \in TierRecord
  BY <1>1, Parts
<1>3. PICK s : s = [tier[a] EXCEPT !.spawn = spawnFile[a]]
  OBVIOUS
<1>4. PICK fails, r :
        /\ r = WhatIsLeft(a, s, fails)
        /\ IF LadderPending(r) \/ Held(r)
           THEN tier' = [tier EXCEPT ![a] = r] /\ UNCHANGED <<store, phase, leaving>>
           ELSE Closed(a, r)
  BY <1>3 DEF RestartCleanup
<1>5. r.state = tier[a].state
  <2>1. s.state = tier[a].state /\ DOMAIN s = DOMAIN tier[a]
    BY <1>2, <1>3 DEF TierRecord
  <2>2. /\ [s EXCEPT !.survived = TRUE, !.leakHold = TRUE].state = s.state
        /\ [s EXCEPT !.ladder = IF @ = "none" THEN "laddering" ELSE "verdict"].state = s.state
    BY <1>2, <1>3 DEF TierRecord
  <2> QED
    BY <1>4, <2>1, <2>2 DEF WhatIsLeft
<1>6. OwedKept(a)
  BY <1>1 DEF OwedKept
<1>7. CASE LadderPending(r) \/ Held(r)
  <2>1. tier' = [tier EXCEPT ![a] = r] /\ UNCHANGED store
    BY <1>4, <1>7
  <2> QED
    BY <1>1, <1>5, <1>6, <2>1, StoreSame, TierKeepsStop
<1>8. CASE ~(LadderPending(r) \/ Held(r))
  BY <1>1, <1>4, <1>5, <1>6, <1>8, ClosedLife
<1> QED
  BY <1>7, <1>8

LEMMA StopRowState ==
  ASSUME NEW a, NEW r \in TierRecord, NEW cause
  PROVE  StopRow(a, r, cause).state \notin {"SPAWNING", "RUNNING"}
<1>1. CASE r.state = "SPAWNING"
  <2>1. PICK gen, timer, awaiting :
          StopRow(a, r, cause) = [r EXCEPT !.state = "STOPPING", !.cause = cause, !.gen = gen,
                                           !.timer = timer, !.awaiting = awaiting]
    BY <1>1 DEF StopRow, TierRecord
  <2> QED
    BY <2>1 DEF TierRecord
<1>2. CASE r.state = "RUNNING"
  <2>1. PICK s : s = [r EXCEPT !.state = "STOPPING", !.cause = cause]
    OBVIOUS
  <2>2. StopRow(a, r, cause) = Restarted(s) /\ s.state = "STOPPING" /\ DOMAIN s = DOMAIN r
    BY <1>2, <2>1 DEF StopRow, TierRecord
  <2> QED
    BY <2>1, <2>2 DEF Restarted, TierRecord
<1>3. CASE r.state \notin {"SPAWNING", "RUNNING"}
  BY <1>3 DEF StopRow
<1> QED
  BY <1>1, <1>2, <1>3

LEMMA OracleKillLife ==
  ASSUME StopInv, NEW a \in Attempts, NEW selected \in BOOLEAN, OracleKill(a, selected)
  PROVE  StoreStep(a) /\ StopKept(a)
<1>1. EngineUp /\ TierInv /\ UNCHANGED <<store, owed>>
  BY DEF OracleKill, Turn, StopInv
<1>2. tier[a] \in TierRecord /\ tier \in [Attempts -> TierRecord]
  BY <1>1, Parts
<1>3. PICK r : r = [tier[a] EXCEPT !.selected = selected]
  OBVIOUS
<1>4. r \in TierRecord
  BY <1>2, <1>3 DEF TierRecord
<1>5. PICK k : k = StopRow(a, r, "oracle_kill")
  OBVIOUS
<1>6. tier' = [tier EXCEPT ![a] = k]
  BY <1>2, <1>3, <1>5 DEF OracleKill
<1>7. k.state \notin {"SPAWNING", "RUNNING"}
  BY <1>4, <1>5, StopRowState
<1> QED
  BY <1>1, <1>6, <1>7, StoreSame, TierKeepsStop DEF OwedKept

LEMMA DispatchLife ==
  ASSUME StopInv, NEW a \in Attempts, Dispatch(a)  PROVE StoreStep(a) /\ StopKept(a)
<1>1. EngineUp /\ TierInv /\ StopStands(a) /\ UNCHANGED owed /\ store[a].open = "never"
  BY DEF Dispatch, StopInv, EngineUp
<1>2. /\ store[a] \in StoreRecord /\ store \in [Attempts -> StoreRecord]
      /\ tier \in [Attempts -> TierRecord]
  BY <1>1, Parts
<1>3. PICK st : st = [store[a] EXCEPT !.open = "open"]
  OBVIOUS
<1>4. /\ st \in StoreRecord /\ st.open = "open" /\ st.outcome = store[a].outcome
      /\ st.plan = store[a].plan /\ st.stop = store[a].stop
  BY <1>2, <1>3 DEF StoreRecord
<1>5. store' = [store EXCEPT ![a] = st]
  BY <1>2, <1>3 DEF Dispatch, StoreRecord
<1>6. \A b \in Attempts \ {a} : tier'[b] = tier[b]
  BY <1>2 DEF Dispatch
<1> QED
  BY <1>1, <1>4, <1>5, <1>6 DEF StoreStep, Opened, StopKept, StopStands

LEMMA HandlerLife ==
  ASSUME StopInv, NEW a \in Attempts, Handler(a)
  PROVE  StoreStep(a) /\ StopKept(a) /\ EngineUp /\ UNCHANGED command
<1>1. EngineUp
  BY DEF Handler, AdapterCreate, AdapterFails, AdapterUnlaunched, AdapterSend, PollSpawn,
     PollExit, TaskReaped, TimerFires, LadderRuns, VerdictEnds, LadderDone, HeldReleased,
     HeldKilled, PlanFinishes, RestartObserve, RestartCleanup, Turn, EngineUp
<1>2. UNCHANGED command
  BY DEF Handler, AdapterCreate, AdapterFails, AdapterUnlaunched, AdapterSend, PollSpawn,
     PollExit, TaskReaped, TimerFires, LadderRuns, VerdictEnds, LadderDone, HeldReleased,
     HeldKilled, PlanFinishes, RestartObserve, RestartCleanup, AdapterEnds, wrapperVars
<1>3. AdapterCreate(a) \/ AdapterSend(a) \/ HeldKilled(a) => UNCHANGED <<tier, store, owed>>
  BY DEF AdapterCreate, AdapterSend, HeldKilled, engineVars
<1>4. StoreStep(a) /\ StopKept(a)
  BY <1>1, <1>3, QuietLife, AdapterFailsLife, AdapterUnlaunchedLife, PollSpawnLife,
     PollExitLife, TaskReapedLife, TimerFiresLife, LadderRunsLife, VerdictEndsLife,
     LadderDoneLife, HeldReleasedLife, PlanFinishesLife, RestartObserveLife,
     RestartCleanupLife
     DEF Handler
<1> QED
  BY <1>1, <1>2, <1>4

-----------------------------------------------------------------------------
(* The engine's own steps: a stop may be noted, nothing else is recorded.   *)

StopsNoted ==
  \A b \in Attempts :
    /\ store'[b].open = store[b].open /\ store'[b].outcome = store[b].outcome
    /\ store'[b].plan = store[b].plan
    /\ store[b].open = "never" => store'[b].stop = store[b].stop

EngineStep == BeginDrain \/ Leave \/ Crash \/ Restart

LEMMA EngineStepNotes ==
  ASSUME StopInv, EngineStep  PROVE StopsNoted /\ UNCHANGED command
<1>1. store \in [Attempts -> StoreRecord]
  BY DEF StopInv, TierInv, TierTypeOK
<1>2. UNCHANGED command
  BY DEF EngineStep, BeginDrain, Leave, Crash, Restart, KillWrappers, EngineGone, wrapperVars
<1>3. CASE BeginDrain
  <2> SUFFICES ASSUME NEW b \in Attempts
               PROVE  /\ store'[b].open = store[b].open /\ store'[b].outcome = store[b].outcome
                      /\ store'[b].plan = store[b].plan
                      /\ store[b].open = "never" => store'[b].stop = store[b].stop
    BY <1>2 DEF StopsNoted
  <2>1. store'[b] = [store[b] EXCEPT !.stop = RecordStop(b)]
    BY <1>3 DEF BeginDrain
  <2>2. store[b].open = "never" => RecordStop(b) = store[b].stop
    BY DEF RecordStop
  <2> QED
    BY <1>1, <2>1, <2>2 DEF StoreRecord
<1>4. CASE Leave
  <2> SUFFICES ASSUME NEW b \in Attempts
               PROVE  /\ store'[b].open = store[b].open /\ store'[b].outcome = store[b].outcome
                      /\ store'[b].plan = store[b].plan
                      /\ store[b].open = "never" => store'[b].stop = store[b].stop
    BY <1>2 DEF StopsNoted
  <2>1. \/ store'[b] = store[b]
        \/ store[b].open # "never" /\ store'[b] = [store[b] EXCEPT !.stop = tier[b].cause]
    BY <1>4 DEF Leave
  <2> QED
    BY <1>1, <2>1 DEF StoreRecord
<1>5. CASE Crash \/ Restart
  BY <1>2, <1>5 DEF Crash, Restart, StopsNoted
<1> QED
  BY <1>2, <1>3, <1>4, <1>5 DEF EngineStep

LEMMA EngineStepStops ==
  ASSUME StopInv, EngineStep, NEW b \in Attempts, EngineUp', tier'[b].state \in Live
  PROVE  tier'[b].state = "STOPPING" \/ owed'[b] = "observe"
<1>1. ~Leave /\ ~Crash
  BY DEF Leave, Crash, EngineGone, EngineUp
<1>2. CASE BeginDrain
  <2>1. EngineUp /\ tier[b] \in TierRecord
    BY <1>2 DEF BeginDrain, EngineUp, StopInv, TierInv, TierTypeOK
  <2>2. tier'[b] = StopRow(b, tier[b], "engine_stop")
    BY <1>2 DEF BeginDrain
  <2>3. tier'[b].state \notin {"SPAWNING", "RUNNING"}
    BY <2>1, <2>2, StopRowState
  <2> QED
    BY <2>3 DEF Live
<1>3. CASE Restart
  <2>1. tier'[b] = Adopted(b)
    BY <1>3 DEF Restart
  <2>2. store[b].open = "open"
    BY <2>1 DEF Adopted, Blank, Live
  <2>3. owed'[b] = "observe"
    BY <1>3, <2>2 DEF Restart
  <2> QED
    BY <2>3
<1> QED
  BY <1>1, <1>2, <1>3 DEF EngineStep

Quiet ==
  /\ UNCHANGED <<tier, store, owed>>
  /\ EngineUp' => EngineUp

LEMMA StepKinds ==
  ASSUME StopInv, [Next]_vars
  PROVE  \/ \E a \in Attempts : StoreStep(a) /\ StopKept(a) /\ EngineUp /\ UNCHANGED command
         \/ EngineStep
         \/ Quiet /\ (UNCHANGED command \/ \E a \in Attempts : World(a))
<1>1. ASSUME NEW a \in Attempts, Handler(a)
      PROVE  StoreStep(a) /\ StopKept(a) /\ EngineUp /\ UNCHANGED command
  BY <1>1, HandlerLife
<1>2. ASSUME NEW a \in Attempts, Dispatch(a)
      PROVE  StoreStep(a) /\ StopKept(a) /\ EngineUp /\ UNCHANGED command
  BY <1>2, DispatchLife DEF Dispatch, EngineUp, wrapperVars
<1>3. ASSUME NEW a \in Attempts, NEW selected \in BOOLEAN, OracleKill(a, selected)
      PROVE  StoreStep(a) /\ StopKept(a) /\ EngineUp /\ UNCHANGED command
  BY <1>3, OracleKillLife DEF OracleKill, Turn, KillWrappers
<1>4. ASSUME NEW a \in Attempts, World(a)  PROVE Quiet
  BY <1>4 DEF World, engineVars, Quiet, EngineUp
<1>5. CASE ReplayDone \/ StopDuringStartup \/ AbortDeadline
  BY <1>5 DEF ReplayDone, StopDuringStartup, AbortDeadline, Quiet, EngineUp, wrapperVars
<1>6. CASE UNCHANGED vars
  BY <1>6 DEF vars, engineVars, wrapperVars, Quiet, EngineUp
<1> QED
  BY <1>1, <1>2, <1>3, <1>4, <1>5, <1>6 DEF Next, EngineStep

LEMMA StepKeepsStops ==
  ASSUME StopInv, NEW a \in Attempts, StoreStep(a), StopKept(a), EngineUp, NEW b \in Attempts
  PROVE  StopStands(b)'
<1>1. store \in [Attempts -> StoreRecord] /\ StopStands(a) /\ StopStands(b)
  BY DEF StopInv, TierInv, TierTypeOK
<1>2. PICK st \in StoreRecord :
        /\ store' = [store EXCEPT ![a] = st]
        /\ st.stop = store[a].stop
        /\ Untouched(st, a) \/ Opened(st, a) \/ Decided(st, a) \/ Shut(st, a) \/ Paid(st, a)
  BY DEF StoreStep
<1>3. CASE b = a
  <2>1. store'[a] = st
    BY <1>1, <1>2
  <2>2. st.open = "never" => st.stop = "none"
    BY <1>1, <1>2 DEF Untouched, Opened, Decided, Shut, Paid, StopStands
  <2>3. st.outcome = "none" => st.plan = "none"
    BY <1>1, <1>2 DEF Untouched, Opened, Decided, Shut, Paid, StopStands, Outcomes
  <2> QED
    BY <1>2, <1>3, <2>1, <2>2, <2>3 DEF StopStands, StopKept
<1>4. CASE b # a
  <2>1. store'[b] = store[b] /\ tier'[b] = tier[b] /\ owed'[b] = owed[b]
    BY <1>1, <1>2, <1>4 DEF StopKept
  <2> QED
    BY <1>1, <2>1 DEF StopStands
<1> QED
  BY <1>3, <1>4

LEMMA StopInvNext == StopInv /\ [Next]_vars => StopInv'
<1> SUFFICES ASSUME StopInv, [Next]_vars  PROVE StopInv'
  OBVIOUS
<1>1. TierInv'
  BY TierInvNext DEF StopInv
<1> SUFFICES ASSUME NEW b \in Attempts  PROVE StopStands(b)'
  BY <1>1 DEF StopInv
<1>2. StopStands(b)
  BY DEF StopInv
<1>3. ASSUME NEW a \in Attempts, StoreStep(a), StopKept(a), EngineUp  PROVE StopStands(b)'
  BY <1>3, StepKeepsStops
<1>4. CASE EngineStep
  <2>1. EngineUp' /\ tier'[b].state \in Live => tier'[b].state = "STOPPING" \/ owed'[b] = "observe"
    BY <1>4, EngineStepStops
  <2>2. StopsNoted
    BY <1>4, EngineStepNotes
  <2> QED
    BY <1>2, <2>1, <2>2 DEF StopStands, StopsNoted
<1>5. CASE Quiet
  BY <1>2, <1>5 DEF Quiet, StopStands
<1> QED
  BY <1>3, <1>4, <1>5, StepKinds

LEMMA StopInvInit == Init => StopInv
<1> SUFFICES ASSUME Init  PROVE StopInv
  OBVIOUS
<1>1. TierInv
  BY TierInvInit
<1>2. \A a \in Attempts :
        /\ store[a].open = "never" /\ store[a].outcome = "none"
        /\ store[a].stop = "none" /\ store[a].plan = "none"
  BY DEF Init, NeverDispatched
<1> QED
  BY <1>1, <1>2 DEF StopInv, StopStands

LEMMA StopInvAlways == Spec => []StopInv
<1>1. Init => StopInv
  BY StopInvInit
<1>2. StopInv /\ [Next]_vars => StopInv'
  BY StopInvNext
<1> QED
  BY <1>1, <1>2, PTL DEF Spec

\* A run the draining record names as stopped is never told to the oracle as a natural
\* completion, whichever engine reads its record, in whatever order its record, the drain
\* and the engine's deaths come (_note_stops, restored_stop, outcome_of).
THEOREM DrainedIsNeverNatural == Spec => DrainedNeverNatural
<1>1. StopInv /\ [Next]_vars =>
        [\A a \in Attempts :
           store[a].outcome = "none" /\ store'[a].outcome = "natural"
             => store[a].stop = "none"]_vars
  <2> SUFFICES ASSUME StopInv, [Next]_vars, NEW b \in Attempts,
                      store[b].outcome = "none", store'[b].outcome = "natural"
               PROVE  store[b].stop = "none"
    OBVIOUS
  <2>1. store \in [Attempts -> StoreRecord]
    BY DEF StopInv, TierInv, TierTypeOK
  <2>2. ~EngineStep /\ ~Quiet
    BY EngineStepNotes DEF StopsNoted, Quiet
  <2>3. PICK a \in Attempts : StoreStep(a)
    BY <2>2, StepKinds
  <2>4. PICK st \in StoreRecord :
          /\ store' = [store EXCEPT ![a] = st]
          /\ Untouched(st, a) \/ Opened(st, a) \/ Decided(st, a) \/ Shut(st, a) \/ Paid(st, a)
    BY <2>3 DEF StoreStep
  <2>5. b = a /\ store'[a] = st
    BY <2>1, <2>4
  <2> QED
    BY <2>4, <2>5 DEF Untouched, Opened, Decided, Shut, Paid
<1> QED
  BY <1>1, StopInvAlways, PTL DEF Spec, DrainedNeverNatural

-----------------------------------------------------------------------------
(* The contract of AttemptLife.  A natural outcome was read from a record,  *)
(* and the wrapper that wrote one starts no command any more.               *)

ReadFromRecord(a) ==
  /\ statusFile[a] # "none" => wrapper[a] \in {"reaping", "exited"}
  /\ store[a].outcome = "natural" => statusFile[a] # "none"

LifeInv == GoneInv /\ StopInv /\ \A a \in Attempts : ReadFromRecord(a)

\* A wrapper that has written its record only comes to its end.
WrittenStays(a) ==
  /\ statusFile[a] # "none" => statusFile'[a] # "none"
  /\ statusFile'[a] # "none" => wrapper'[a] \in {"reaping", "exited"}

LEMMA WorldWrites ==
  ASSUME TierInv, NEW a \in Attempts, World(a), NEW b \in Attempts, ReadFromRecord(b)
  PROVE  WrittenStays(b)
<1>1. /\ wrapper \in [Attempts -> WrapperPoints] /\ statusFile \in [Attempts -> Records \cup {"none"}]
      /\ verdict \in [Attempts -> Records \cup {"none"}]
  BY DEF TierInv, TierTypeOK, WrapperTypeOK
<1>2. CASE b # a
  <2>1. statusFile'[b] = statusFile[b] /\ wrapper'[b] = wrapper[b]
    BY <1>1, <1>2 DEF World, WrapperWorld, WrapperMain, Launch, RecordSpawn, ObserveExit,
       ObserveParentLost, KillAfterGrace, AwaitExit, RecordStatus, Reap, WrapperKilled,
       ProcessEnds, Fork
  <2> QED
    BY <2>1 DEF ReadFromRecord, WrittenStays
<1>3. CASE b = a /\ RecordStatus(a)
  <2>1. wrapper'[a] \in {"reaping", "exited"} /\ statusFile[a] = "none"
    BY <1>1, <1>3 DEF RecordStatus, ReadFromRecord
  <2> QED
    BY <1>3, <2>1 DEF WrittenStays
<1>4. CASE b = a /\ (Reap(a) \/ WrapperKilled(a))
  <2>1. wrapper'[a] = "exited" /\ statusFile' = statusFile
    BY <1>1, <1>4 DEF Reap, WrapperKilled
  <2> QED
    BY <1>4, <2>1 DEF WrittenStays
<1>5. CASE /\ b = a
           /\ Launch(a) \/ RecordSpawn(a) \/ ObserveExit(a) \/ ObserveParentLost(a)
                \/ KillAfterGrace(a) \/ AwaitExit(a)
  <2>1. wrapper[a] \notin {"reaping", "exited"} /\ statusFile' = statusFile
    BY <1>5 DEF Launch, RecordSpawn, ObserveExit, ObserveParentLost, KillAfterGrace, AwaitExit
  <2> QED
    BY <1>5, <2>1 DEF WrittenStays, ReadFromRecord
<1>6. CASE b = a /\ (Fork(a) \/ \E p \in Processes : ProcessEnds(a, p))
  <2>1. UNCHANGED <<wrapper, statusFile>>
    BY <1>6 DEF Fork, ProcessEnds
  <2> QED
    BY <1>6, <2>1 DEF WrittenStays, ReadFromRecord
<1> QED
  BY <1>2, <1>3, <1>4, <1>5, <1>6 DEF World, WrapperWorld, WrapperMain

LEMMA EngineWrites ==
  ASSUME GoneInv, [Next]_vars, \A a \in Attempts : ~World(a), NEW b \in Attempts, ReadFromRecord(b)
  PROVE  WrittenStays(b)
<1>1. /\ wrapper \in [Attempts -> WrapperPoints] /\ Facts(b) /\ DOMAIN wrapper = Attempts
  BY DEF GoneInv, TierInv, TierTypeOK, WrapperTypeOK
<1>2. statusFile' = statusFile
  <2>1. ASSUME NEW a \in Attempts, Handler(a)  PROVE statusFile' = statusFile
    <3>1. CASE AdapterCreate(a) \/ AdapterFails(a) \/ AdapterUnlaunched(a) \/ AdapterSend(a)
      BY <3>1 DEF AdapterCreate, AdapterFails, AdapterUnlaunched, AdapterSend, AdapterEnds
    <3>2. CASE PollSpawn(a) \/ PollExit(a) \/ TaskReaped(a)
      BY <3>2 DEF PollSpawn, PollExit, TaskReaped, AdapterEnds, wrapperVars
    <3>3. CASE TimerFires(a) \/ LadderRuns(a) \/ VerdictEnds(a) \/ LadderDone(a)
      BY <3>3 DEF TimerFires, LadderRuns, VerdictEnds, LadderDone, wrapperVars
    <3>4. CASE HeldReleased(a) \/ HeldKilled(a) \/ PlanFinishes(a)
      BY <3>4 DEF HeldReleased, HeldKilled, PlanFinishes, wrapperVars
    <3>5. CASE RestartObserve(a) \/ RestartCleanup(a)
      BY <3>5 DEF RestartObserve, RestartCleanup, wrapperVars
    <3> QED
      BY <2>1, <3>1, <3>2, <3>3, <3>4, <3>5 DEF Handler
  <2>2. CASE \E a \in Attempts : Dispatch(a) \/ \E selected \in BOOLEAN : OracleKill(a, selected)
    BY <2>2 DEF Dispatch, OracleKill, KillWrappers, wrapperVars
  <2>3. CASE ReplayDone \/ BeginDrain \/ StopDuringStartup \/ AbortDeadline
    BY <2>3 DEF ReplayDone, BeginDrain, StopDuringStartup, AbortDeadline, KillWrappers, wrapperVars
  <2>4. CASE Leave \/ Crash \/ Restart \/ UNCHANGED vars
    BY <2>4 DEF Leave, Crash, Restart, EngineGone, wrapperVars, vars
  <2> QED
    BY <2>1, <2>2, <2>3, <2>4 DEF Next
<1>3. wrapper[b] \in {"reaping", "exited"} => wrapper'[b] \in {"reaping", "exited"}
  <2>1. CASE BeginDrain \/ \E a \in Attempts, selected \in BOOLEAN : OracleKill(a, selected)
    BY <2>1 DEF BeginDrain, OracleKill, KillWrappers
  <2>2. CASE Leave \/ Crash
    BY <2>2 DEF Leave, Crash, EngineGone
  <2>3. CASE \E a \in Attempts : AdapterSend(a)
    BY <1>1, <2>3 DEF AdapterSend
  <2>4. CASE \E a \in Attempts : AdapterCreate(a)
    BY <1>1, <2>4 DEF AdapterCreate, Facts
  <2>5. CASE UNCHANGED wrapper
    BY <2>5
  <2>6. ASSUME NEW a \in Attempts, Handler(a), ~AdapterSend(a), ~AdapterCreate(a)
        PROVE  UNCHANGED wrapper
    BY <2>6 DEF Handler, AdapterFails, AdapterUnlaunched, PollSpawn, PollExit, TaskReaped,
       TimerFires, LadderRuns, VerdictEnds, LadderDone, HeldReleased, HeldKilled,
       PlanFinishes, RestartObserve, RestartCleanup, AdapterEnds, wrapperVars
  <2>7. CASE \/ ReplayDone \/ StopDuringStartup \/ AbortDeadline \/ Restart
             \/ (\E a \in Attempts : Dispatch(a)) \/ UNCHANGED vars
    BY <2>7 DEF ReplayDone, StopDuringStartup, AbortDeadline, Restart, Dispatch, vars, wrapperVars
  <2> QED
    BY <2>1, <2>2, <2>3, <2>4, <2>5, <2>6, <2>7 DEF Next
<1> QED
  BY <1>2, <1>3 DEF WrittenStays, ReadFromRecord

LEMMA LifeInvNext == "turn" \notin Faults /\ LifeInv /\ [Next]_vars => LifeInv'
<1> SUFFICES ASSUME "turn" \notin Faults, LifeInv, [Next]_vars  PROVE LifeInv'
  OBVIOUS
<1>1. GoneInv' /\ StopInv'
  BY GoneInvNext, StopInvNext DEF LifeInv
<1> SUFFICES ASSUME NEW b \in Attempts  PROVE ReadFromRecord(b)'
  BY <1>1 DEF LifeInv
<1>2. WrittenStays(b)
  <2>1. CASE \A a \in Attempts : ~World(a)
    BY <2>1, EngineWrites DEF LifeInv
  <2>2. CASE \E a \in Attempts : World(a)
    BY <2>2, WorldWrites DEF LifeInv, StopInv
  <2> QED
    BY <2>1, <2>2
<1>3. store'[b].outcome = "natural" => store[b].outcome = "natural" \/ statusFile[b] # "none"
  <2>1. CASE EngineStep
    BY <2>1, EngineStepNotes DEF StopsNoted, LifeInv
  <2>2. CASE Quiet
    BY <2>2 DEF Quiet
  <2>3. ASSUME NEW a \in Attempts, StoreStep(a)
        PROVE  store'[b].outcome = "natural" => store[b].outcome = "natural" \/ statusFile[b] # "none"
    <3>1. store \in [Attempts -> StoreRecord]
      BY DEF LifeInv, StopInv, TierInv, TierTypeOK
    <3>2. PICK st \in StoreRecord :
            /\ store' = [store EXCEPT ![a] = st]
            /\ Untouched(st, a) \/ Opened(st, a) \/ Decided(st, a) \/ Shut(st, a) \/ Paid(st, a)
      BY <2>3 DEF StoreStep
    <3> QED
      BY <3>1, <3>2 DEF Untouched, Opened, Decided, Shut, Paid
  <2> QED
    BY <2>1, <2>2, <2>3, StepKinds DEF LifeInv
<1> QED
  BY <1>2, <1>3 DEF WrittenStays, ReadFromRecord, LifeInv

LEMMA LifeInvInit == Init => LifeInv
<1> SUFFICES ASSUME Init  PROVE LifeInv
  OBVIOUS
<1>1. \A a \in Attempts : statusFile[a] = "none" /\ store[a].outcome = "none"
  BY DEF Init, WrapperInit, NeverDispatched
<1> QED
  BY <1>1, GoneInvInit, StopInvInit DEF LifeInv, ReadFromRecord

\* The command of an attempt starts only while the attempt is open.
LEMMA StartsOpen ==
  ASSUME LifeInv, NEW a \in Attempts, World(a), command[a] = {}, command'[a] # {}
  PROVE  store[a].open \in {"open", "closing"}
<1>1. /\ command \in [Attempts -> SUBSET Processes] /\ store[a] \in StoreRecord
      /\ Facts(a) /\ ReadFromRecord(a)
  BY DEF LifeInv, GoneInv, TierInv, TierTypeOK, WrapperTypeOK
<1>2. wrapper[a] = "ready"
  <2>1. Launch(a)
    <3>1. ~Fork(a) /\ \A p \in Processes : ~ProcessEnds(a, p)
      BY <1>1 DEF Fork, ProcessEnds
    <3>2. RecordSpawn(a) \/ ObserveExit(a) \/ ObserveParentLost(a) \/ KillAfterGrace(a)
            \/ AwaitExit(a) \/ RecordStatus(a) \/ Reap(a) \/ WrapperKilled(a)
          => command' = command
      BY DEF RecordSpawn, ObserveExit, ObserveParentLost, KillAfterGrace, AwaitExit,
         RecordStatus, Reap, WrapperKilled
    <3> QED
      BY <3>1, <3>2 DEF World, WrapperWorld, WrapperMain
  <2> QED
    BY <2>1 DEF Launch
<1>3. store[a].open # "never"
  BY <1>1, <1>2 DEF Facts
<1>4. store[a].open # "closed"
  BY <1>1, <1>2 DEF Facts, Gone, Empty, Exempt, ReadFromRecord
<1> QED
  BY <1>1, <1>3, <1>4 DEF StoreRecord

LEMMA WorldRefines ==
  ASSUME LifeInv, NEW a \in Attempts, World(a)
  PROVE  Life!Next \/ UNCHANGED Life!lifeVars
<1>1. UNCHANGED store /\ command \in [Attempts -> SUBSET Processes]
  BY DEF World, engineVars, LifeInv, GoneInv, TierInv, TierTypeOK, WrapperTypeOK
<1>2. \A b \in Attempts \ {a} : command'[b] = command[b]
  BY <1>1 DEF World, WrapperWorld, WrapperMain, Launch, RecordSpawn, ObserveExit,
     ObserveParentLost, KillAfterGrace, AwaitExit, RecordStatus, Reap, WrapperKilled,
     ProcessEnds, Fork
<1>3. /\ [b \in Attempts |-> store[b].open]' = [b \in Attempts |-> store[b].open]
      /\ [b \in Attempts |-> store[b].outcome]' = [b \in Attempts |-> store[b].outcome]
      /\ [b \in Attempts |-> store[b].plan]' = [b \in Attempts |-> store[b].plan]
  BY <1>1
<1>4. CASE (command'[a] # {}) = (command[a] # {})
  <2>1. [b \in Attempts |-> command[b] # {}]' = [b \in Attempts |-> command[b] # {}]
    BY <1>2, <1>4
  <2> QED
    BY <1>3, <2>1 DEF Life!lifeVars
<1>5. CASE command[a] # {} /\ command'[a] = {}
  <2>1. [b \in Attempts |-> command[b] # {}]' =
          [[b \in Attempts |-> command[b] # {}] EXCEPT ![a] = FALSE]
    BY <1>2, <1>5
  <2>2. Life!Stop(a)
    BY <1>3, <2>1 DEF Life!Stop
  <2> QED
    BY <2>2 DEF Life!Next
<1>6. CASE command[a] = {} /\ command'[a] # {}
  <2>1. [b \in Attempts |-> command[b] # {}]' =
          [[b \in Attempts |-> command[b] # {}] EXCEPT ![a] = TRUE]
    BY <1>2, <1>6
  <2>2. [b \in Attempts |-> store[b].open][a] \in {"open", "closing"}
    BY <1>6, StartsOpen
  <2>3. Life!Run(a)
    BY <1>3, <2>1, <2>2 DEF Life!Run
  <2> QED
    BY <2>3 DEF Life!Next
<1> QED
  BY <1>4, <1>5, <1>6

LEMMA StoreRefines ==
  ASSUME LifeInv, LifeInv', NEW a \in Attempts, StoreStep(a), UNCHANGED command
  PROVE  Life!Next \/ UNCHANGED Life!lifeVars
<1>1. store \in [Attempts -> StoreRecord]
  BY DEF LifeInv, StopInv, TierInv, TierTypeOK
<1>2. PICK st \in StoreRecord :
        /\ store' = [store EXCEPT ![a] = st]
        /\ Untouched(st, a) \/ Opened(st, a) \/ Decided(st, a) \/ Shut(st, a) \/ Paid(st, a)
  BY DEF StoreStep
<1>3. store'[a] = st /\ \A b \in Attempts \ {a} : store'[b] = store[b]
  BY <1>1, <1>2
<1>4. [b \in Attempts |-> command[b] # {}]' = [b \in Attempts |-> command[b] # {}]
  OBVIOUS
<1>5. /\ [b \in Attempts |-> store[b].open]' =
           [[b \in Attempts |-> store[b].open] EXCEPT ![a] = st.open]
      /\ [b \in Attempts |-> store[b].outcome]' =
           [[b \in Attempts |-> store[b].outcome] EXCEPT ![a] = st.outcome]
      /\ [b \in Attempts |-> store[b].plan]' =
           [[b \in Attempts |-> store[b].plan] EXCEPT ![a] = st.plan]
  BY <1>3
<1>6. /\ [b \in Attempts |-> store[b].open][a] = store[a].open
      /\ [b \in Attempts |-> store[b].plan][a] = store[a].plan
      /\ [b \in Attempts |-> store[b].outcome]'[a] = st.outcome
      /\ [b \in Attempts |-> command[b] # {}][a] = (command[a] # {})
  BY <1>3
<1>7. /\ st.open = store[a].open => [b \in Attempts |-> store[b].open]' = [b \in Attempts |-> store[b].open]
      /\ st.outcome = store[a].outcome =>
           [b \in Attempts |-> store[b].outcome]' = [b \in Attempts |-> store[b].outcome]
      /\ st.plan = store[a].plan => [b \in Attempts |-> store[b].plan]' = [b \in Attempts |-> store[b].plan]
  BY <1>3
\* What a closed attempt leaves running is a leak the engine leaves alone.
<1>8. st.open = "closed" => Life!Gone(a)
  <2>1. Facts(a)'
    BY DEF LifeInv, GoneInv
  <2>2. st.open = "closed" => command[a] = {} \/ (LeakPolicy = "leak" /\ st.outcome = "natural")
    BY <1>3, <2>1 DEF Facts, Gone, Empty, Exempt
  <2> QED
    BY <1>6, <2>2 DEF Life!Gone
<1>9. CASE Untouched(st, a)
  BY <1>4, <1>7, <1>9 DEF Untouched, Life!lifeVars
<1>10. CASE Opened(st, a)
  <2>1. Life!Open(a)
    BY <1>4, <1>5, <1>6, <1>7, <1>10 DEF Opened, Life!Open
  <2> QED
    BY <2>1 DEF Life!Next
<1>11. CASE Decided(st, a)
  <2>1. st.outcome \in Life!Outcomes
    BY <1>11 DEF Decided, Outcomes, Life!Outcomes
  <2>2. Life!Decide(a)
    BY <1>4, <1>5, <1>6, <1>8, <1>11, <2>1 DEF Decided, Life!Decide
  <2> QED
    BY <2>2 DEF Life!Next
<1>12. CASE Shut(st, a)
  <2>1. Life!Close(a)
    BY <1>4, <1>5, <1>6, <1>7, <1>8, <1>12 DEF Shut, Life!Close
  <2> QED
    BY <2>1 DEF Life!Next
<1>13. CASE Paid(st, a)
  <2>1. Life!Pay(a)
    BY <1>4, <1>5, <1>6, <1>7, <1>13 DEF Paid, Life!Pay
  <2> QED
    BY <2>1 DEF Life!Next
<1> QED
  BY <1>2, <1>9, <1>10, <1>11, <1>12, <1>13

LEMMA NextRefines ==
  ASSUME LifeInv, LifeInv', [Next]_vars
  PROVE  Life!Next \/ UNCHANGED Life!lifeVars
<1>1. CASE EngineStep
  <2>1. StopsNoted /\ UNCHANGED command
    BY <1>1, EngineStepNotes DEF LifeInv
  <2>2. /\ [b \in Attempts |-> store[b].open]' = [b \in Attempts |-> store[b].open]
        /\ [b \in Attempts |-> store[b].outcome]' = [b \in Attempts |-> store[b].outcome]
        /\ [b \in Attempts |-> store[b].plan]' = [b \in Attempts |-> store[b].plan]
        /\ [b \in Attempts |-> command[b] # {}]' = [b \in Attempts |-> command[b] # {}]
    BY <2>1 DEF StopsNoted
  <2> QED
    BY <2>2 DEF Life!lifeVars
<1>2. CASE Quiet /\ UNCHANGED command
  BY <1>2 DEF Quiet, Life!lifeVars
<1>3. ASSUME NEW a \in Attempts, World(a)  PROVE Life!Next \/ UNCHANGED Life!lifeVars
  BY <1>3, WorldRefines
<1>4. ASSUME NEW a \in Attempts, StoreStep(a), UNCHANGED command
      PROVE  Life!Next \/ UNCHANGED Life!lifeVars
  BY <1>4, StoreRefines
<1> QED
  BY <1>1, <1>2, <1>3, <1>4, StepKinds DEF LifeInv

\* The engine keeps AttemptLife's contract with every attempt it dispatches: one outcome,
\* decided once and never in pieces; its debt paid at most once, a replacement never before
\* the close; and no close while anything of the command runs or can start, whoever stops
\* it and however often the engine dies (commit_outcome, _ladder_ended, _discharge_pending).
THEOREM TierKeepsTheContract == "turn" \notin Faults => (Spec => ImplementsAttemptLife)
<1> SUFFICES ASSUME "turn" \notin Faults  PROVE Spec => ImplementsAttemptLife
  OBVIOUS
<1>1. Init => LifeInv
  BY LifeInvInit
<1>2. LifeInv /\ [Next]_vars => LifeInv'
  BY LifeInvNext
<1>3. Init => Life!Init
  <2> SUFFICES ASSUME Init  PROVE Life!Init
    OBVIOUS
  <2>1. \A a \in Attempts :
          /\ store[a].open = "never" /\ store[a].outcome = "none" /\ store[a].plan = "none"
          /\ command[a] = {}
    BY DEF Init, WrapperInit, NeverDispatched
  <2>2. \A a \in Attempts : (command[a] # {}) = FALSE
    BY <2>1
  <2>3. [a \in Attempts |-> command[a] # {}] = [a \in Attempts |-> FALSE]
    BY <2>2
  <2> QED
    BY <2>1, <2>3 DEF Life!Init
<1>4. LifeInv /\ LifeInv' /\ [Next]_vars => [Life!Next]_(Life!lifeVars)
  BY NextRefines
<1> QED
  BY <1>1, <1>2, <1>3, <1>4, PTL DEF Spec, ImplementsAttemptLife, Life!Spec

=============================================================================
