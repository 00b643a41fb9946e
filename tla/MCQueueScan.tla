----------------------------- MODULE MCQueueScan -----------------------------
(***************************************************************************)
(* Small catalogs for QueueScan: three jobs on one machine and one         *)
(* resource, and each catalog a case the scan must get right.              *)
(***************************************************************************)
EXTENDS QueueScan

CONSTANTS j1, j2, j3, r, m

MCJobs == {j1, j2, j3}

Per(a, b, c) == (j1 :> a @@ j2 :> b @@ j3 :> c)
Units(load, n) == (m :> load @@ r :> n)

Plain == [
  prio |-> Per(Unset, Unset, Unset),
  demand |-> Per(Units(0, 1), Units(0, 1), Units(0, 1)),
  size |-> Units(2, 1),
  onMachine |-> MCJobs,
  free |-> Per("completion", "completion", "completion"),
  depletable |-> {},
  members |-> {}, terminators |-> {},
  recheck |-> FALSE,
  refs |-> Per(<<>>, <<>>, <<>>),
  boxRefs |-> <<>>, boxAgain |-> FALSE]

\* Kept and spent units, and a chain of starts.
Held == [Plain EXCEPT
  !.free = Per("success", "never", "completion"),
  !.size = Units(2, 2),
  !.refs = Per(<<j3>>, <<j1>>, <<>>)]
Spends == [Held EXCEPT !.depletable = {r}, !.size = Units(2, 3)]

\* Priorities: a load waiter, a resource waiter, and one that names both.
Loads == [Plain EXCEPT
  !.prio = Per(1, 2, Unset),
  !.demand = Per(Units(2, 0), Units(1, 0), Units(1, 0)),
  !.refs = Per(<<>>, <<>>, <<j2>>)]
Mixed == [Plain EXCEPT
  !.prio = Per(1, 2, 0),
  !.demand = Per(Units(1, 1), Units(0, 1), Units(2, 0)),
  !.size = Units(2, 1),
  !.recheck = TRUE]
KeptUnits == [Mixed EXCEPT !.free = Per("never", "success", "completion")]

\* A resource waiter that a start's load sends back to its load check, and one
\* it blocks that is not on the machine.
LoadBack == [Plain EXCEPT
  !.prio = Per(1, 2, Unset),
  !.demand = Per(Units(1, 2), Units(0, 1), Units(2, 1)),
  !.size = Units(2, 2),
  !.onMachine = {j1, j3},
  !.free = Per("completion", "completion", "never")]

\* A box with two members.
Boxed == [Mixed EXCEPT
  !.demand = Per(Units(1, 1), Units(1, 1), Units(1, 0)),
  !.members = {j1, j2}, !.terminators = {j2},
  !.boxRefs = <<j3>>, !.boxAgain = TRUE,
  !.recheck = TRUE]

\* A queued member whose box stops, and an outsider its wait for load blocks.
Stopped == [Plain EXCEPT
  !.prio = Per(1, Unset, 2),
  !.demand = Per(Units(2, 0), Units(1, 0), Units(1, 0)),
  !.members = {j1},
  !.recheck = TRUE]

MCCatalogs == {Plain, Held, Spends, Loads, Mixed, KeptUnits, LoadBack, Boxed, Stopped}
=============================================================================
