--------------------------- MODULE ClusterStatus ---------------------------
(***************************************************************************)
(* The part of internal/server/manager.go under clusterStatusesMux: the    *)
(* report kept for every ClusterSummary and the three per-cluster sets     *)
(* behind the badges of the cluster list (issues, provisioning, outdated   *)
(* Helm charts).  Each method body is one critical section, so one action. *)
(* The callers come in any order; ClusterMonitor closes the module.        *)
(***************************************************************************)
EXTENDS Naturals, FiniteSets

CONSTANTS
  Summaries,     \* references of ClusterSummaries
  Clusters,      \* cluster keys
  Home,          \* [Summaries -> the clusters a summary of that name may be for]
  FeatureSets,   \* the sets of features a ClusterSummary may report
  ChartSets,     \* the sets of Helm charts a ClusterSummary may report
  None           \* "no entry"

Feature == [status : {"Provisioning", "Provisioned", "Failed", "FailedNonRetriable", "Removing"},
            failureMessage : BOOLEAN]

\* newer: LatestVersion or LatestPatchVersion is set.
HelmChart == [managing : BOOLEAN, newer : BOOLEAN]

\* ClusterProfileStatus, without the names it only carries.  The code keeps no charts: they
\* are history, the charts the report came with, which only the properties read.
Report == [cluster : Clusters, features : SUBSET Feature, dependencies : BOOLEAN,
           charts : SUBSET HelmChart]

ASSUME StatusConstants ==
  /\ Home \in [Summaries -> SUBSET Clusters]
  /\ FeatureSets \subseteq SUBSET Feature
  /\ ChartSets \subseteq SUBSET HelmChart
  /\ None \notin Report

VARIABLES
  clusterSummaryReport,            \* [Summaries -> Report or None]
  clusterWithIssues,               \* [Clusters -> set of Summaries]; {} is no entry
  clusterProvisioning,             \* [Clusters -> set of Summaries]
  clusterWithOutdatedHelmCharts    \* [Clusters -> set of Summaries]

vars == <<clusterSummaryReport, clusterWithIssues, clusterProvisioning,
          clusterWithOutdatedHelmCharts>>

ClusterSets == [Clusters -> SUBSET Summaries]

TypeOK ==
  /\ clusterSummaryReport \in [Summaries -> Report \cup {None}]
  /\ clusterWithIssues \in ClusterSets
  /\ clusterProvisioning \in ClusterSets
  /\ clusterWithOutdatedHelmCharts \in ClusterSets

Init ==
  /\ clusterSummaryReport = [s \in Summaries |-> None]
  /\ clusterWithIssues = [c \in Clusters |-> {}]
  /\ clusterProvisioning = [c \in Clusters |-> {}]
  /\ clusterWithOutdatedHelmCharts = [c \in Clusters |-> {}]

-----------------------------------------------------------------------------
(* What one ClusterSummary says                                            *)

clusterSummaryHasIssues(features) ==
  \E f \in features :
    \/ f.status \in {"Failed", "FailedNonRetriable"}
    \/ f.status = "Provisioning" /\ f.failureMessage

allFeaturesProvisioned(features) ==
  features # {} /\ \A f \in features : f.status = "Provisioned"

clusterSummaryIsProvisioning(features, dependencies) ==
  /\ ~allFeaturesProvisioned(features)
  /\ \/ dependencies
     \/ \E f \in features : f.status = "Provisioning" /\ ~f.failureMessage

clusterSummaryHasOutdatedHelmCharts(charts) ==
  \E h \in charts : h.managing /\ h.newer

-----------------------------------------------------------------------------
(* What the cluster list asks                                              *)

ClusterHasIssues(c) == clusterWithIssues[c] # {}

\* Faulty: no precedence.
ClusterIsProvisioningRegardless(c) == clusterProvisioning[c] # {}

\* Issues take precedence over provisioning.
ClusterIsProvisioning(c) == clusterWithIssues[c] = {} /\ clusterProvisioning[c] # {}

ClusterHasOutdatedHelmCharts(c) == clusterWithOutdatedHelmCharts[c] # {}

\* The summaries whose rows the page of a cluster shows.
GetClusterProfileStatusesByCluster(c) ==
  {s \in Summaries : clusterSummaryReport[s] # None /\ clusterSummaryReport[s].cluster = c}

-----------------------------------------------------------------------------
(* The updates                                                             *)

\* Faulty: the reference is never erased.
UpdateWithoutErase(sets, c, ref, holds) ==
  [sets EXCEPT ![c] = IF holds THEN @ \cup {ref} ELSE @]

\* Faulty: the cluster key is inserted, not the reference of the summary.
UpdateInsertsCluster(sets, c, ref, holds) ==
  [sets EXCEPT ![c] = IF holds THEN @ \cup {c} ELSE @ \ {ref}]

\* Insert or erase ref in the set of one cluster.
Update(sets, c, ref, holds) ==
  [sets EXCEPT ![c] = IF holds THEN @ \cup {ref} ELSE @ \ {ref}]

\* The critical section of AddClusterProfileStatus.
SetReport(s, c, features, dependencies, charts) ==
  /\ clusterSummaryReport' =
       [clusterSummaryReport EXCEPT
          ![s] = [cluster |-> c, features |-> features, dependencies |-> dependencies,
                  charts |-> charts]]
  /\ clusterWithIssues' =
       Update(clusterWithIssues, c, s, clusterSummaryHasIssues(features))
  /\ clusterProvisioning' =
       Update(clusterProvisioning, c, s, clusterSummaryIsProvisioning(features, dependencies))
  /\ clusterWithOutdatedHelmCharts' =
       Update(clusterWithOutdatedHelmCharts, c, s, clusterSummaryHasOutdatedHelmCharts(charts))

\* The critical section of RemoveClusterProfileStatus.
DropReport(s) ==
  IF clusterSummaryReport[s] = None
  THEN UNCHANGED vars
  ELSE LET c == clusterSummaryReport[s].cluster IN
       /\ clusterSummaryReport' = [clusterSummaryReport EXCEPT ![s] = None]
       /\ clusterWithIssues' = Update(clusterWithIssues, c, s, FALSE)
       /\ clusterProvisioning' = Update(clusterProvisioning, c, s, FALSE)
       /\ clusterWithOutdatedHelmCharts' =
            Update(clusterWithOutdatedHelmCharts, c, s, FALSE)

Next ==
  \/ \E s \in Summaries, F \in FeatureSets, d \in BOOLEAN, H \in ChartSets :
       \E c \in Home[s] : SetReport(s, c, F, d, H)
  \/ \E s \in Summaries : DropReport(s)

Spec == Init /\ [][Next]_vars

-----------------------------------------------------------------------------
(* Properties                                                              *)

\* The badge of a cluster and the rows of its page, read at one instant, tell the
\* same story: issues exactly when some row has one, provisioning exactly when none
\* has an issue and some row is being deployed.  (The badges come from the
\* incremental sets, the rows from the reports.)
BadgesMatchRows ==
  \A c \in Clusters :
    LET rows == {clusterSummaryReport[s] : s \in GetClusterProfileStatusesByCluster(c)}
        issues == \E r \in rows : clusterSummaryHasIssues(r.features)
        deploying == \E r \in rows : clusterSummaryIsProvisioning(r.features, r.dependencies)
    IN /\ ClusterHasIssues(c) <=> issues
       /\ ClusterIsProvisioning(c) <=> deploying /\ ~issues

\* Each set is exact for the last report of every summary: no summary is missing from it,
\* and nothing that was deleted, repaired or updated keeps a badge on.
SetsExact ==
  \A c \in Clusters :
    /\ clusterWithIssues[c] =
         {s \in GetClusterProfileStatusesByCluster(c) :
            clusterSummaryHasIssues(clusterSummaryReport[s].features)}
    /\ clusterProvisioning[c] =
         {s \in GetClusterProfileStatusesByCluster(c) :
            clusterSummaryIsProvisioning(clusterSummaryReport[s].features,
                                         clusterSummaryReport[s].dependencies)}
    /\ clusterWithOutdatedHelmCharts[c] =
         {s \in GetClusterProfileStatusesByCluster(c) :
            clusterSummaryHasOutdatedHelmCharts(clusterSummaryReport[s].charts)}

\* Every summary of a name is for one cluster, now and always.
OneCluster == \A s \in Summaries : \A c, d \in Home[s] : c = d

=============================================================================
