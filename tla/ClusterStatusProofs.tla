------------------------ MODULE ClusterStatusProofs ------------------------
(***************************************************************************)
(* TLAPS proofs about ClusterStatus, for any number of summaries, clusters *)
(* and kinds of report.                                                    *)
(***************************************************************************)
EXTENDS ClusterStatus, TLAPS

\* TypeOK is inductive.
THEOREM Typing == Spec => []TypeOK
<1> USE StatusConstants DEF TypeOK, ClusterSets
<1>1. Init => TypeOK
  BY DEF Init
<1>2. TypeOK /\ [Next]_vars => TypeOK'
  <2> SUFFICES ASSUME TypeOK, [Next]_vars PROVE TypeOK'
    OBVIOUS
  <2>1. ASSUME NEW s \in Summaries, NEW F \in FeatureSets, NEW d \in BOOLEAN,
               NEW H \in ChartSets, NEW c \in Home[s], SetReport(s, c, F, d, H)
        PROVE  TypeOK'
    <3>1. c \in Clusters /\ F \in SUBSET Feature /\ H \in SUBSET HelmChart
      OBVIOUS
    <3>2. [cluster |-> c, features |-> F, dependencies |-> d, charts |-> H] \in Report
      BY <3>1 DEF Report
    <3>. QED
      BY <2>1, <3>1, <3>2 DEF SetReport, Update
  <2>2. ASSUME NEW s \in Summaries, DropReport(s)
        PROVE  TypeOK'
    BY <2>2 DEF DropReport, Update, vars
  <2>3. CASE UNCHANGED vars
    BY <2>3 DEF vars
  <2>. QED
    BY <2>1, <2>2, <2>3 DEF Next
<1>. QED
  BY <1>1, <1>2, PTL DEF Spec

\* As long as no ClusterSummary changes cluster, the three sets are exact: every update
\* inserts in or erases from the set of the one cluster that can hold the reference.
THEOREM Exactness ==
  ASSUME OneCluster
  PROVE  Spec => []SetsExact
<1> DEFINE AtHome == \A s \in Summaries :
                       clusterSummaryReport[s] # None => clusterSummaryReport[s].cluster \in Home[s]
           IInv == SetsExact /\ AtHome
<1>1. Init => IInv
  BY DEF Init, SetsExact, GetClusterProfileStatusesByCluster
<1>2. TypeOK /\ IInv /\ [Next]_vars => IInv'
  <2> SUFFICES ASSUME TypeOK, IInv, [Next]_vars PROVE IInv'
    OBVIOUS
  <2>1. ASSUME NEW s \in Summaries, NEW F \in FeatureSets, NEW d \in BOOLEAN,
               NEW H \in ChartSets, NEW c \in Home[s], SetReport(s, c, F, d, H)
        PROVE  IInv'
    <3> DEFINE e == [cluster |-> c, features |-> F, dependencies |-> d, charts |-> H]
    <3>1. c \in Clusters /\ e # None
      BY StatusConstants DEF Report
    <3>2. \A x \in Summaries : clusterSummaryReport'[x] = IF x = s THEN e ELSE clusterSummaryReport[x]
      BY <2>1 DEF SetReport, TypeOK
    <3>3. AtHome'
      BY <3>2
    <3>4. \A k \in Clusters :
            GetClusterProfileStatusesByCluster(k)' =
              IF k = c THEN GetClusterProfileStatusesByCluster(k) \cup {s}
              ELSE GetClusterProfileStatusesByCluster(k)
      BY <3>1, <3>2 DEF GetClusterProfileStatusesByCluster, OneCluster
    <3>5. \A k \in Clusters : k # c => s \notin GetClusterProfileStatusesByCluster(k)
      BY DEF GetClusterProfileStatusesByCluster, OneCluster
    <3>6. SetsExact'
      <4> SUFFICES ASSUME NEW k \in Clusters
                   PROVE  /\ clusterWithIssues'[k] =
                               {x \in GetClusterProfileStatusesByCluster(k)' :
                                  clusterSummaryHasIssues(clusterSummaryReport'[x].features)}
                          /\ clusterProvisioning'[k] =
                               {x \in GetClusterProfileStatusesByCluster(k)' :
                                  clusterSummaryIsProvisioning(
                                    clusterSummaryReport'[x].features,
                                    clusterSummaryReport'[x].dependencies)}
                          /\ clusterWithOutdatedHelmCharts'[k] =
                               {x \in GetClusterProfileStatusesByCluster(k)' :
                                  clusterSummaryHasOutdatedHelmCharts(
                                    clusterSummaryReport'[x].charts)}
        BY DEF SetsExact, clusterSummaryHasIssues, clusterSummaryIsProvisioning,
               allFeaturesProvisioned, clusterSummaryHasOutdatedHelmCharts
      <4>1. GetClusterProfileStatusesByCluster(k) \subseteq Summaries
        BY DEF GetClusterProfileStatusesByCluster
      <4>. QED
        BY <2>1, <3>2, <3>4, <3>5, <4>1 DEF SetReport, Update, SetsExact, TypeOK, ClusterSets
    <3>. QED
      BY <3>3, <3>6
  <2>2. ASSUME NEW s \in Summaries, DropReport(s)
        PROVE  IInv'
    <3>1. CASE clusterSummaryReport[s] = None
      BY <2>2, <3>1 DEF DropReport, vars, SetsExact, GetClusterProfileStatusesByCluster
    <3>2. CASE clusterSummaryReport[s] # None
      <4> DEFINE c == clusterSummaryReport[s].cluster
      <4>0. c \in Clusters
        BY <3>2 DEF TypeOK, Report
      <4>1. \A x \in Summaries : clusterSummaryReport'[x] = IF x = s THEN None ELSE clusterSummaryReport[x]
        BY <2>2, <3>2 DEF DropReport, TypeOK
      <4>2. \A k \in Clusters :
              GetClusterProfileStatusesByCluster(k)' = GetClusterProfileStatusesByCluster(k) \ {s}
        BY <4>1 DEF GetClusterProfileStatusesByCluster
      <4>3. \A k \in Clusters : k # c => s \notin GetClusterProfileStatusesByCluster(k)
        BY DEF GetClusterProfileStatusesByCluster
      <4>4. SetsExact'
        <5> SUFFICES ASSUME NEW k \in Clusters
                     PROVE  /\ clusterWithIssues'[k] =
                                 {x \in GetClusterProfileStatusesByCluster(k)' :
                                    clusterSummaryHasIssues(clusterSummaryReport'[x].features)}
                            /\ clusterProvisioning'[k] =
                                 {x \in GetClusterProfileStatusesByCluster(k)' :
                                    clusterSummaryIsProvisioning(
                                      clusterSummaryReport'[x].features,
                                      clusterSummaryReport'[x].dependencies)}
                            /\ clusterWithOutdatedHelmCharts'[k] =
                                 {x \in GetClusterProfileStatusesByCluster(k)' :
                                    clusterSummaryHasOutdatedHelmCharts(
                                      clusterSummaryReport'[x].charts)}
          BY DEF SetsExact, clusterSummaryHasIssues, clusterSummaryIsProvisioning,
                 allFeaturesProvisioned, clusterSummaryHasOutdatedHelmCharts
        <5>1. GetClusterProfileStatusesByCluster(k) \subseteq Summaries
          BY DEF GetClusterProfileStatusesByCluster
        <5>. QED
          BY <2>2, <3>2, <4>0, <4>1, <4>2, <4>3, <5>1
             DEF DropReport, Update, SetsExact, TypeOK, ClusterSets
      <4>. QED
        BY <4>1, <4>4
    <3>. QED
      BY <3>1, <3>2
  <2>3. CASE UNCHANGED vars
    BY <2>3 DEF vars, SetsExact, GetClusterProfileStatusesByCluster
  <2>. QED
    BY <2>1, <2>2, <2>3 DEF Next
<1>. QED
  BY <1>1, <1>2, Typing, PTL DEF Spec

\* Hence the badges and the rows of a cluster always agree.
THEOREM Badges ==
  ASSUME OneCluster
  PROVE  Spec => []BadgesMatchRows
<1>1. SetsExact => BadgesMatchRows
  BY DEF SetsExact, BadgesMatchRows, ClusterHasIssues, ClusterIsProvisioning
<1>. QED
  BY <1>1, Exactness, PTL

=============================================================================
