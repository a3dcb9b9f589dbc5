-------------------------- MODULE MCClusterStatus --------------------------
EXTENDS ClusterStatus, TLC

CONSTANTS s1, s2, s3, c1, c2

F(status, message) == [status |-> status, failureMessage |-> message]

\* No feature, one of each kind that the code tells apart, and two mixed sets.
MCFeatureSets ==
  {{}, {F("Provisioned", FALSE)}, {F("Provisioning", FALSE)}, {F("Provisioning", TRUE)},
   {F("Failed", TRUE)}, {F("FailedNonRetriable", TRUE)}, {F("Removing", FALSE)},
   {F("Provisioned", FALSE), F("Provisioning", FALSE)},
   {F("Provisioning", FALSE), F("Failed", TRUE)}}

\* A newer chart that this manager does not manage beside one without, and one it does.
MCChartSets ==
  {{[managing |-> FALSE, newer |-> TRUE], [managing |-> TRUE, newer |-> FALSE]},
   {[managing |-> TRUE, newer |-> TRUE], [managing |-> TRUE, newer |-> FALSE]}}

\* Two summaries share a cluster, the third is alone on the other.
MCHomeFixed == s1 :> {c1} @@ s2 :> {c1} @@ s3 :> {c2}
=============================================================================
