--------------------------- MODULE MCAthBackfills ---------------------------
EXTENDS AthBackfills

\* Three tokens of the newer day, two of them created in one second.
ThreeTokens == <<"a", "b", "c">>
ThreeTimes == [t \in {"a", "b", "c"} |-> IF t = "c" THEN 5 ELSE 4]

\* What two processes run, the late tokens, the counter and the bounds.
Of(k1, k2, l, b, c, f) ==
  [work |-> [p \in {"p1", "p2"} |-> IF p = "p1" THEN k1 ELSE k2],
   late |-> l, budget |-> b, clock |-> c, faults |-> f]

\* Two backfills; a backfill beside the daemon's pass; two kinds of passes
\* with a counter of two requests; the runner index beside the daemon's pass,
\* which is complete only while the index lists at most one token.
FourScenarios ==
  { Of({"days"}, {"days"}, {"b"}, {}, 0, 1),
    Of({"days"}, {"observe"}, {"c"}, {}, 1, 1),
    Of({"days"}, {"runner"}, {"b", "c"}, {2}, 0, 1),
    Of({"runner"}, {"observe"}, {"a", "b", "c"}, {}, 1, 0) }

\* Invocations with the same allocation, and one with a larger one.
TwoPlans == {[limit |-> 3, prior |-> 1], [limit |-> 4, prior |-> 1]}
=============================================================================
