---------------------------- MODULE MCLoopClock ----------------------------
(***************************************************************************)
(* A small instance of LoopClock: two jobs whose ticks meet at one         *)
(* instant, one of them changed by the update, and a run whose end starts  *)
(* another.                                                                *)
(***************************************************************************)
EXTENDS LoopClock, TLC

CONSTANTS a, b, r1, r2

MCJobs == {a, b}
MCRuns == {r1, r2}
MCOldTicks == (a :> {1} @@ b :> {1})
MCNewTicks == (a :> {1, 2} @@ b :> {1})
MCCommanded == {r1}
MCDelay == (r1 :> 1 @@ r2 :> 1)
MCFollows == (r1 :> {r2} @@ r2 :> {})
=============================================================================
