--------------------------- MODULE MCHealthCache ---------------------------
EXTENDS HealthCache

\* The most telling evaluation: it keeps everything it is given, so two different
\* inputs never give the same state.  What holds for it holds for every function of
\* the same inputs.
EvaluateByInputs(sums, reps) ==
  IF DOMAIN sums = {} /\ DOMAIN reps = {} THEN NotEnabled ELSE <<sums, reps>>
=============================================================================
