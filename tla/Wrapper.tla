------------------------------ MODULE Wrapper ------------------------------
(***************************************************************************)
(* The wrapper process of one attempt (src/dsl41/runner_wrapper.py) and    *)
(* the processes it starts.  The wrapper reads one spec from its stdin,    *)
(* starts the command in a process group of its own, records the launch in *)
(* spawn.json, waits for the command's exit or for the end of file on the  *)
(* lifeline that means its engine is gone, and records the end in          *)
(* status.json.  The two files are all the engine ever learns.             *)
(*                                                                         *)
(* Wrappers share nothing, so every variable is a function on Attempts.    *)
(***************************************************************************)

CONSTANTS
  Attempts,   \* the attempts' run ids
  Faults      \* what may go wrong in this instance, out of AllFaults

AllFaults == {
  "popen",        \* the command cannot be started
  "spawn_json",   \* spawn.json cannot be written
  "status_json",  \* status.json cannot be written
  "wrapper_kill", \* something else kills the wrapper
  "fork",         \* the command leaves a descendant behind
  "create",       \* the engine cannot create the wrapper or hand it its spec
  "scan",         \* a reading of the attempt's processes fails
  "turn",         \* a handler already due runs before a finished ladder's callback
  "spool"}        \* a restart cannot trust the attempt's spool records

ASSUME FaultsAssumption == Faults \subseteq AllFaults

VARIABLES
  wrapper,     \* where the wrapper is in main()
  verdict,     \* the outcome it is about to write to status.json
  command,     \* the live processes of the command: its leader, a descendant
  killed,      \* the processes that were sent SIGKILL and have not ended yet
  lifeline,    \* whether the engine still holds the lifeline's write end
  spawnFile,   \* whether spawn.json exists
  statusFile,  \* the outcome status.json holds, "none" while it is absent
  endedFirst   \* observer: the leader ended while the lifeline was still open

wrapperVars ==
  <<wrapper, verdict, command, killed, lifeline, spawnFile, statusFile, endedFirst>>

Processes == {"leader", "member"}

WrapperPoints == {
  "absent",    \* not created yet
  "reading",   \* waits for its spec on stdin
  "ready",     \* has its spec, has not started the command
  "launched",  \* the command runs, spawn.json is not written
  "watching",  \* waits for the command's exit or the lifeline's end
  "killing",   \* sent the command TERM, will send KILL after the grace
  "recording", \* the leader is dead, status.json is about to be written
  "reaping",   \* status.json is written, the child is not reaped
  "exited"}

Records == {"exited", "parent_lost", "record_failed", "spawn_failed"}

WrapperTypeOK ==
  /\ wrapper \in [Attempts -> WrapperPoints]
  /\ verdict \in [Attempts -> Records \cup {"none"}]
  /\ command \in [Attempts -> SUBSET Processes]
  /\ killed \in [Attempts -> SUBSET (Processes \cup {"wrapper"})]
  /\ \A a \in Attempts : killed[a] \subseteq command[a] \cup {"wrapper"}
  /\ lifeline \in [Attempts -> BOOLEAN]
  /\ spawnFile \in [Attempts -> BOOLEAN]
  /\ statusFile \in [Attempts -> Records \cup {"none"}]
  /\ endedFirst \in [Attempts -> BOOLEAN]

WrapperInit ==
  /\ wrapper = [a \in Attempts |-> "absent"]
  /\ verdict = [a \in Attempts |-> "none"]
  /\ command = [a \in Attempts |-> {}]
  /\ killed = [a \in Attempts |-> {}]
  /\ lifeline = [a \in Attempts |-> FALSE]
  /\ spawnFile = [a \in Attempts |-> FALSE]
  /\ statusFile = [a \in Attempts |-> "none"]
  /\ endedFirst = [a \in Attempts |-> FALSE]

WrapperAlive(a) == wrapper[a] \notin {"absent", "exited"}

-----------------------------------------------------------------------------
(* main(), one action per effect another process can see.                  *)

\* The command is started in its own group, or Popen raises and the record to
\* write says so.
Launch(a) ==
  /\ wrapper[a] = "ready"
  /\ \/ /\ wrapper' = [wrapper EXCEPT ![a] = "launched"]
        /\ command' = [command EXCEPT ![a] = @ \cup {"leader"}]
        /\ UNCHANGED verdict
     \/ /\ "popen" \in Faults
        /\ wrapper' = [wrapper EXCEPT ![a] = "recording"]
        /\ verdict' = [verdict EXCEPT ![a] = "spawn_failed"]
        /\ UNCHANGED command
  /\ UNCHANGED <<killed, lifeline, spawnFile, statusFile, endedFirst>>

\* Without a spawn record nothing can be observed: what was started is killed.
RecordSpawn(a) ==
  /\ wrapper[a] = "launched"
  /\ \/ /\ wrapper' = [wrapper EXCEPT ![a] = "watching"]
        /\ spawnFile' = [spawnFile EXCEPT ![a] = TRUE]
        /\ UNCHANGED verdict
     \/ /\ "spawn_json" \in Faults
        /\ wrapper' = [wrapper EXCEPT ![a] = "killing"]
        /\ verdict' = [verdict EXCEPT ![a] = "record_failed"]
        /\ UNCHANGED spawnFile
  /\ UNCHANGED <<command, killed, lifeline, statusFile, endedFirst>>

\* An exit is looked for before the lifeline on every wakeup.
ObserveExit(a) ==
  /\ wrapper[a] = "watching"
  /\ "leader" \notin command[a]
  /\ wrapper' = [wrapper EXCEPT ![a] = "recording"]
  /\ verdict' = [verdict EXCEPT ![a] = "exited"]
  /\ UNCHANGED <<command, killed, lifeline, spawnFile, statusFile, endedFirst>>

BadParentLost(a) == ~lifeline[a]

\* The lifeline's end of file counts only while the exit is not there to be
\* observed: completion beats parent death.
ParentLost(a) == ~lifeline[a] /\ "leader" \in command[a]

ObserveParentLost(a) ==
  /\ wrapper[a] = "watching"
  /\ ParentLost(a)
  /\ wrapper' = [wrapper EXCEPT ![a] = "killing"]
  /\ verdict' = [verdict EXCEPT ![a] = "parent_lost"]
  /\ UNCHANGED <<command, killed, lifeline, spawnFile, statusFile, endedFirst>>

\* _await_exit_after_kill: the grace is over and the leader still lives, so its
\* whole group is sent KILL, which misses a descendant that left the group.
KillAfterGrace(a) ==
  /\ wrapper[a] = "killing"
  /\ "leader" \in command[a]
  /\ \E group \in SUBSET command[a] :
       "leader" \in group /\ killed' = [killed EXCEPT ![a] = @ \cup group]
  /\ UNCHANGED <<wrapper, verdict, command, lifeline, spawnFile, statusFile, endedFirst>>

BadLeaderEnded(a) == TRUE

LeaderEnded(a) == "leader" \notin command[a]

\* The wait after the signals ends with the leader's exit and nothing else.
AwaitExit(a) ==
  /\ wrapper[a] = "killing"
  /\ LeaderEnded(a)
  /\ wrapper' = [wrapper EXCEPT ![a] = "recording"]
  /\ UNCHANGED <<verdict, command, killed, lifeline, spawnFile, statusFile, endedFirst>>

\* The record first, the reap after, where a child is left to reap; a failed
\* write leaves no record at all.
RecordStatus(a) ==
  /\ wrapper[a] = "recording"
  /\ \/ /\ statusFile' = [statusFile EXCEPT ![a] = verdict[a]]
        /\ wrapper' = [wrapper EXCEPT
             ![a] = IF verdict[a] \in {"exited", "parent_lost"} THEN "reaping" ELSE "exited"]
     \/ /\ "status_json" \in Faults
        /\ wrapper' = [wrapper EXCEPT ![a] = "exited"]
        /\ UNCHANGED statusFile
  /\ verdict' = [verdict EXCEPT ![a] = "none"]
  /\ UNCHANGED <<command, killed, lifeline, spawnFile, endedFirst>>

Reap(a) ==
  /\ wrapper[a] = "reaping"
  /\ wrapper' = [wrapper EXCEPT ![a] = "exited"]
  /\ killed' = [killed EXCEPT ![a] = @ \ {"wrapper"}]
  /\ UNCHANGED <<verdict, command, lifeline, spawnFile, statusFile, endedFirst>>

\* The wrapper ignores every signal it can: only KILL ends it.
WrapperKilled(a) ==
  /\ WrapperAlive(a)
  /\ "wrapper" \in killed[a] \/ "wrapper_kill" \in Faults
  /\ wrapper' = [wrapper EXCEPT ![a] = "exited"]
  /\ verdict' = [verdict EXCEPT ![a] = "none"]
  /\ killed' = [killed EXCEPT ![a] = @ \ {"wrapper"}]
  /\ UNCHANGED <<command, lifeline, spawnFile, statusFile, endedFirst>>

-----------------------------------------------------------------------------
(* The command's processes, which this repository does not contain.        *)

\* A process ends: by itself, on a signal it does not ignore, or because KILL
\* reached it.
ProcessEnds(a, p) ==
  /\ p \in command[a]
  /\ command' = [command EXCEPT ![a] = @ \ {p}]
  /\ killed' = [killed EXCEPT ![a] = @ \ {p}]
  /\ endedFirst' = [endedFirst EXCEPT ![a] = @ \/ (p = "leader" /\ lifeline[a])]
  /\ UNCHANGED <<wrapper, verdict, lifeline, spawnFile, statusFile>>

KilledProcessEnds(a, p) == p \in killed[a] /\ ProcessEnds(a, p)

\* The leader starts a descendant, which may outlive it.
Fork(a) ==
  /\ "fork" \in Faults
  /\ "leader" \in command[a]
  /\ "member" \notin command[a]
  /\ command' = [command EXCEPT ![a] = @ \cup {"member"}]
  /\ UNCHANGED <<wrapper, verdict, killed, lifeline, spawnFile, statusFile, endedFirst>>

\* What the wrapper does of its own accord.
WrapperMain(a) ==
  \/ Launch(a)
  \/ RecordSpawn(a)
  \/ ObserveExit(a)
  \/ ObserveParentLost(a)
  \/ KillAfterGrace(a)
  \/ AwaitExit(a)
  \/ RecordStatus(a)
  \/ Reap(a)

WrapperWorld(a) ==
  \/ WrapperMain(a)
  \/ WrapperKilled(a)
  \/ \E p \in Processes : ProcessEnds(a, p)
  \/ Fork(a)

-----------------------------------------------------------------------------
(* The engine's side of one wrapper, for the wrapper on its own: it creates *)
(* the process, hands it the spec, closes the lifeline, or dies.            *)

Create(a) ==
  /\ wrapper[a] = "absent"
  /\ wrapper' = [wrapper EXCEPT ![a] = "reading"]
  /\ lifeline' = [lifeline EXCEPT ![a] = TRUE]
  /\ UNCHANGED <<verdict, command, killed, spawnFile, statusFile, endedFirst>>

SendSpec(a) ==
  /\ wrapper[a] = "reading"
  /\ lifeline[a]
  /\ wrapper' = [wrapper EXCEPT ![a] = "ready"]
  /\ UNCHANGED <<verdict, command, killed, lifeline, spawnFile, statusFile, endedFirst>>

\* The engine lets go of the wrapper: the lifeline is closed, and a spec that
\* was not sent whole never arrives.
LetGo(a) ==
  /\ lifeline[a]
  /\ lifeline' = [lifeline EXCEPT ![a] = FALSE]
  /\ wrapper' = [wrapper EXCEPT ![a] = IF @ = "reading" THEN "exited" ELSE @]
  /\ UNCHANGED <<verdict, command, killed, spawnFile, statusFile, endedFirst>>

WrapperNext ==
  \E a \in Attempts : WrapperWorld(a) \/ Create(a) \/ SendSpec(a) \/ LetGo(a)

\* The kernel schedules the wrapper and ends what was killed; the command
\* itself owes nothing.
WrapperFairness ==
  \A a \in Attempts :
    /\ WF_wrapperVars(WrapperMain(a))
    /\ \A p \in Processes : WF_wrapperVars(KilledProcessEnds(a, p))

WrapperSpec == WrapperInit /\ [][WrapperNext]_wrapperVars /\ WrapperFairness

-----------------------------------------------------------------------------
(* Properties.                                                             *)

\* A record in the spool is the word that the command is over: wherever
\* status.json exists, whatever wrote it and on whichever path, the leader it
\* speaks of is dead (main writes it after waitid has seen the exit, or after
\* _await_exit_after_kill returned).
RecordMeansLeaderDead ==
  \A a \in Attempts : statusFile[a] # "none" => "leader" \notin command[a]

\* Completion beats parent death: a command that ended while its engine was
\* still there is never reported as lost with its parent, even when the
\* lifeline closes before the wrapper looks.
CompletionBeatsParentDeath ==
  \A a \in Attempts :
    endedFirst[a] => verdict[a] # "parent_lost" /\ statusFile[a] # "parent_lost"

=============================================================================
