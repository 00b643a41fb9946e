------------------------------ MODULE MCJobBox ------------------------------
(***************************************************************************)
(* Small catalogs for JobBox, each a case the cascade must get right.      *)
(***************************************************************************)
EXTENDS JobBox, TLC

CONSTANTS jo, jb, jx, jy, none

MCJobs == {jo, jb, jx, jy}

A(j, is) == [job |-> j, is |-> is]
When(atoms) == {atoms}
Per(vo, vb, vx, vy) == (jo :> vo @@ jb :> vb @@ jx :> vx @@ jy :> vy)

\* A box jb of jx and jy, and jo beside it, woken by the box and by jx.
Plain == [
  order |-> <<jb, jx, jy, jo>>,
  boxes |-> {jb},
  parent |-> Per(none, none, jb, jb),
  cond |-> Per({{A(jb, "d")}, {A(jx, "f")}}, NoCondition, NoCondition, When({A(jx, "d")})),
  success |-> Per(NotDeclared, NotDeclared, NotDeclared, NotDeclared),
  failure |-> Per(NotDeclared, NotDeclared, NotDeclared, NotDeclared),
  boxTerminators |-> {}, jobTerminators |-> {}, autoHold |-> {},
  dated |-> {}, windowed |-> {},
  offIceNextRun |-> TRUE, allOutCompletes |-> TRUE,
  idleIgnoresIced |-> TRUE, terminatedCounts |-> TRUE,
  operations |-> {"start", "end", "ice", "force"},
  subjects |-> {jb, jx, jy}]

\* jo contains jb and jy, and jb contains jx.
Nested == [Plain EXCEPT
  !.order = <<jo, jb, jx, jy>>,
  !.boxes = {jo, jb},
  !.parent = Per(none, jo, jb, jo),
  !.cond = Per(NoCondition, NoCondition, NoCondition, When({A(jx, "d")})),
  !.success = Per(NotDeclared, When({A(jx, "s"), A(jy, "s")}), NotDeclared, NotDeclared),
  !.subjects = MCJobs]

\* jx's success ends jo, although jb still runs, and would start jy.
Override == [Nested EXCEPT
  !.success = Per(When({A(jx, "s")}), NotDeclared, NotDeclared, NotDeclared),
  !.jobTerminators = {jb, jx, jy},
  !.operations = {"start", "end", "kill", "force"}]

\* A failed jx ends jb, whose end takes its terminators' members, jo's with it.
Terminators == [Nested EXCEPT
  !.failure = Per(When({A(jy, "f")}), NotDeclared, NotDeclared, NotDeclared),
  !.boxTerminators = {jb, jx},
  !.jobTerminators = {jb, jx, jy},
  !.terminatedCounts = FALSE,
  !.operations = {"start", "end", "kill", "inject"},
  !.subjects = {jo, jb, jx, jy}]

\* A box that its own end starts again, with the members its end takes.
Again == [Plain EXCEPT
  !.cond = Per(When({A(jy, "f")}), When({A(jb, "n")}), NoCondition, NoCondition),
  !.boxTerminators = {jy}, !.jobTerminators = {jx},
  !.terminatedCounts = FALSE,
  !.operations = {"start", "end", "kill", "ice"},
  !.subjects = {jb, jx, jy}]

\* A box that its own end starts again and that may end at its start, beside two
\* jobs that start each other and may not execute.
Loop == [Plain EXCEPT
  !.cond = Per(When({A(jy, "d")}), When({A(jb, "n")}), NoCondition, {{A(jx, "d")}, {A(jo, "d")}}),
  !.parent = Per(none, none, jb, none),
  !.operations = {"start", "end", "noexec"},
  !.subjects = MCJobs]

\* Windows on a member of each box of a nested start.
Windows == [Nested EXCEPT
  !.cond = Per(NoCondition, NoCondition, When({A(jy, "f")}), When({A(jx, "d")})),
  !.success = Per(NotDeclared, NotDeclared, NotDeclared, NotDeclared),
  !.windowed = {jx, jy},
  !.operations = {"start", "end", "window", "ice"}]

\* A tick for jx, and a member held at the box's start.
Dated == [Plain EXCEPT
  !.dated = {jx},
  !.autoHold = {jy},
  !.operations = {"start", "end", "hold", "interrupt"},
  !.subjects = {jb, jx, jy}]

\* An operator who sets statuses by hand.
ByHand == [Plain EXCEPT
  !.cond = Per(When({A(jx, "n")}), NoCondition, NoCondition, When({A(jx, "d")})),
  !.operations = {"start", "end", "inject", "inactive"},
  !.subjects = {jb, jx}]

\* The other settings of the switches: a member taken off ice may start again, and
\* a member's own start may end the box, which ends that member before it runs.
Old == [Plain EXCEPT
  !.cond = Per(NoCondition, NoCondition, NoCondition, {{A(jx, "f")}, {A(jo, "n")}}),
  !.failure = Per(NotDeclared, When({A(jy, "s")}), NotDeclared, NotDeclared),
  !.jobTerminators = {jx},
  !.autoHold = {jx},
  !.offIceNextRun = FALSE, !.allOutCompletes = FALSE,
  !.idleIgnoresIced = FALSE,
  !.operations = {"start", "end", "ice", "hold", "noexec"}]

MCCatalogs == {Plain, Nested, Override, Terminators, Again, Loop, Windows, Dated, ByHand, Old}
=============================================================================
