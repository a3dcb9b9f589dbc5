--------------------------- MODULE MCClusterList ---------------------------
EXTENDS ClusterList

CONSTANTS s1, s2, c1, i1

EvaluateByInputs(sums, reps) ==
  IF DOMAIN sums = {} /\ DOMAIN reps = {} THEN NotEnabled ELSE <<sums, reps>>

Failed == {[status |-> "Failed", failureMessage |-> TRUE]}
Deploying == {[status |-> "Provisioning", failureMessage |-> FALSE]}
Newer == {[managing |-> TRUE, newer |-> TRUE]}

MCFeatureSets == {Failed, Deploying}
MCChartSets == {{}, Newer}

Version(enabled, features, charts) ==
  [verified |-> TRUE, enabled |-> enabled, input |-> i1, features |-> features,
   dependencies |-> FALSE, charts |-> charts]

\* Failing, or being deployed with a newer chart out.
MCContents == {Version(TRUE, Failed, {}), Version(FALSE, Deploying, Newer)}

MCHome == [s \in Summaries |-> {c1}]
=============================================================================
