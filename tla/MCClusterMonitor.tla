-------------------------- MODULE MCClusterMonitor --------------------------
EXTENDS ClusterMonitor, TLC

CONSTANTS s1, s2, c1, c2, i1

EvaluateByInputs(sums, reps) ==
  IF DOMAIN sums = {} /\ DOMAIN reps = {} THEN NotEnabled ELSE <<sums, reps>>

Failed == {[status |-> "Failed", failureMessage |-> TRUE]}
Provisioned == {[status |-> "Provisioned", failureMessage |-> FALSE]}
Newer == {[managing |-> TRUE, newer |-> TRUE]}

MCFeatureSets == {Failed, Provisioned}
MCChartSets == {{}, Newer}

Version(verified, enabled, features, charts) ==
  [verified |-> verified, enabled |-> enabled, input |-> i1, features |-> features,
   dependencies |-> FALSE, charts |-> charts]

\* Failing and monitored; deployed, not monitored, with a newer chart; not labelled.
MCContents ==
  {Version(TRUE, TRUE, Failed, {}), Version(TRUE, FALSE, Provisioned, Newer),
   Version(FALSE, TRUE, Failed, {})}

MCHome == [s \in Summaries |-> {c1}]
=============================================================================
