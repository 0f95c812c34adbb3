--------------------------- MODULE MCScheduleWheel ---------------------------
(***************************************************************************)
(* Instances of ScheduleWheel for TLC: a fixed-rate and a fixed-delay      *)
(* schedule of one executor, of size one, and a one-shot outside it.       *)
(***************************************************************************)
EXTENDS ScheduleWheel, TLC

CONSTANTS rate, spaced, once, r1, r2

MCSchedule == {rate, spaced, once}
MCAll == {MCSchedule, {rate, once}}
MCPool == {{rate, spaced}}
MCHorizon(w) == IF w = {rate, once} THEN 4 ELSE 1
MCRunner == {r1, r2}
MCSymmetry == Permutations(MCRunner)
MCPooled == {rate, spaced}
MCDelay == [s \in Schedule |-> IF s = once THEN 1 ELSE 0]
MCPeriod == [s \in Schedule |-> CASE s = once -> 0 [] s = spaced -> 1 [] s = rate -> 2]
MCFixedRate == [s \in Schedule |-> s = rate]
=============================================================================
