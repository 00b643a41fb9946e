---------------------------- MODULE AttemptLife ----------------------------
(***************************************************************************)
(* What the engine promises of every attempt it dispatches, whoever stops  *)
(* it and however often the engine dies: one outcome, decided once; what   *)
(* the outcome owes carried out at most once; and no closing of the        *)
(* attempt, and no replacement of it, while anything of its command runs.  *)
(* docs/runner-design.md states it; AttemptTier implements it.             *)
(***************************************************************************)
CONSTANTS
  Attempts,
  MayLeak    \* whether what a natural end left running is left alone

VARIABLES
  life,      \* the attempt in the open table: never, open, closing or closed
  outcome,   \* how it ended, "none" before
  owes,      \* what its outcome owes: an input, a rerun, or that it was done
  running    \* whether a process of its command lives

lifeVars == <<life, outcome, owes, running>>

Outcomes == {"natural", "stopped", "lifeline", "spawn_failed", "unobservable"}

Init ==
  /\ life = [a \in Attempts |-> "never"]
  /\ outcome = [a \in Attempts |-> "none"]
  /\ owes = [a \in Attempts |-> "none"]
  /\ running = [a \in Attempts |-> FALSE]

\* Nothing of the command runs, or what runs is a leak the engine leaves alone.
Gone(a) == ~running[a] \/ (MayLeak /\ outcome'[a] = "natural")

Open(a) ==
  /\ life[a] = "never"
  /\ life' = [life EXCEPT ![a] = "open"]
  /\ UNCHANGED <<outcome, owes, running>>

\* A command may start late, even after its end was decided, but not once the
\* attempt is closed.
Run(a) ==
  /\ life[a] \in {"open", "closing"}
  /\ running' = [running EXCEPT ![a] = TRUE]
  /\ UNCHANGED <<life, outcome, owes>>

Stop(a) ==
  /\ running' = [running EXCEPT ![a] = FALSE]
  /\ UNCHANGED <<life, outcome, owes>>

\* The one outcome, and what it owes with it: a completion for an end of its
\* own, never a second run.
Decide(a) ==
  /\ life[a] = "open"
  /\ \E kind \in Outcomes, debt \in {"none", "input", "rerun"} :
       /\ kind \in {"natural", "spawn_failed"} => debt = "input"
       /\ outcome' = [outcome EXCEPT ![a] = kind]
       /\ owes' = [owes EXCEPT ![a] = debt]
  /\ \/ life' = [life EXCEPT ![a] = "closing"]
     \/ Gone(a) /\ life' = [life EXCEPT ![a] = "closed"]
  /\ UNCHANGED running

Close(a) ==
  /\ life[a] = "closing"
  /\ UNCHANGED <<outcome, owes, running>>
  /\ Gone(a)
  /\ life' = [life EXCEPT ![a] = "closed"]

\* A replacement waits for the attempt's close; a feed does not.
Pay(a) ==
  /\ \/ owes[a] = "input" /\ owes' = [owes EXCEPT ![a] = "done"]
     \/ owes[a] = "rerun" /\ life[a] = "closed" /\ owes' = [owes EXCEPT ![a] = "replaced"]
  /\ UNCHANGED <<life, outcome, running>>

Next ==
  \E a \in Attempts : Open(a) \/ Run(a) \/ Stop(a) \/ Decide(a) \/ Close(a) \/ Pay(a)

Spec == Init /\ [][Next]_lifeVars

=============================================================================
