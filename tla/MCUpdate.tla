------------------------------- MODULE MCUpdate -------------------------------
(***************************************************************************)
(* What an update may change, over two jobs: two changed jobs, whose marks *)
(* it gives and takes; a changed job beside another that loses its mark; a *)
(* removed job beside a changed file watch; the member of a box that       *)
(* restarts.                                                               *)
(***************************************************************************)
EXTENDS Update

CONSTANTS j1, j2

MCJobs == {j1, j2}

Plain == [touched |-> {}, removed |-> {}, boxed |-> {}, watches |-> {},
          oldMarks |-> {}, newMarks |-> {}, runs |-> (j1 :> 1 @@ j2 :> 1)]

MCEstates ==
  {[Plain EXCEPT !.touched = {j1, j2}, !.newMarks = {j1}, !.oldMarks = {j2}],
   [Plain EXCEPT !.touched = {j1}, !.oldMarks = {j2}],
   [Plain EXCEPT !.touched = {j1, j2}, !.removed = {j1}, !.watches = {j2}, !.runs[j1] = 2],
   [Plain EXCEPT !.boxed = {j1}, !.runs = (j1 :> 2 @@ j2 :> 0)]}
=============================================================================
