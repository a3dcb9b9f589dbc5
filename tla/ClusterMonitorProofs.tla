------------------------ MODULE ClusterMonitorProofs ------------------------
(***************************************************************************)
(* TLAPS proofs about ClusterMonitor and ClusterList, for any number of    *)
(* objects, clusters and edits.  The controllers call the two parts only   *)
(* as the parts expect it, so what is proved of each part alone, under any *)
(* calls, holds of it here; what the caches say of the stores is proved    *)
(* about the composition.                                                  *)
(***************************************************************************)
EXTENDS ClusterList, TLAPS

HealthFacts == INSTANCE HealthCacheProofs
StatusFacts == INSTANCE ClusterStatusProofs

-----------------------------------------------------------------------------
(* Stores, queue and workers                                               *)

\* The objects have their types, and a summary is for a cluster of its name.
StoreInv ==
  /\ storeSummaries \in [Summaries -> SummaryObject \cup {None}]
  /\ storeChecks \in [Checks -> Summaries \cup {NotGenerated, None}]
  /\ storeReports \in [Reports -> Health!HealthReport \cup {None}]
  /\ \A s \in Summaries : storeSummaries[s] # None => storeSummaries[s].cluster \in Home[s]

\* A worker has an object of the kind of its key.
WorkInv ==
  /\ queue \subseteq Keys /\ edits \in 0..MaxEdits
  /\ work \in [Keys -> Work \cup {None}]
  /\ \A s \in Summaries : work[s] # None =>
       /\ work[s].object \in SummaryObject \cup {None}
       /\ work[s].object # None => work[s].object.cluster \in Home[s]
  /\ \A n \in Checks : work[n] # None => work[n].object \in Summaries \cup {NotGenerated, None}
  /\ \A r \in Reports : work[r] # None => work[r].object \in Health!HealthReport \cup {None}

\* What an object in a store may become.
Edits ==
  \/ \E s \in Summaries, c \in Clusters, content \in SummaryContents :
       c \in Home[s] /\ EditSummary(s, [cluster |-> c, content |-> content])
  \/ \E s \in Summaries : EditSummary(s, None)
  \/ \E n \in Checks, new \in Summaries \cup {NotGenerated, None} : EditCheck(n, new)
  \/ \E r \in Reports, c \in Clusters, i \in ReportInputs :
       c \in ReportClusters /\ EditReport(r, [cluster |-> c, input |-> i])
  \/ \E r \in Reports : EditReport(r, None)

\* Reconcilers, told apart by their last step.
Reconcile(k) ==
  \/ k \in Summaries /\ ReconcileSummary(k)
  \/ k \in Checks /\ ReconcileCheck(k)
  \/ k \in Reports /\ ReconcileReport(k)

LEMMA MonitorSteps ==
  ASSUME [Next]_vars
  PROVE  \/ Edits \/ (\E n \in Checks : Resync(n)) \/ (\E k \in Keys : Get(k))
         \/ (\E k \in Keys : Reconcile(k)) \/ UNCHANGED vars
BY DEF Next, Edits, Reconcile, Keys

\* A worker goes on with the object it has, or is done.
LEMMA ReconcileStep ==
  ASSUME WorkInv, NEW k \in Keys, Reconcile(k)
  PROVE  /\ UNCHANGED <<store, queue, edits>>
         /\ work[k] # None
         /\ \/ work' = [work EXCEPT ![k] = None]
            \/ k \in Summaries /\ \E step \in Steps : work' = [work EXCEPT ![k].step = step]
<1>1. CASE k \in Summaries /\ ReconcileSummary(k)
  BY <1>1 DEF ReconcileSummary, IgnoreSummary, RecordHealth, NothingToForget,
       LookBeforeForgetting, ForgetHealth, ReportStatus, Done, GoTo, At, Steps
<1>2. CASE k \in Checks /\ ReconcileCheck(k)
  BY <1>2 DEF ReconcileCheck, Done, At
<1>3. CASE k \in Reports /\ ReconcileReport(k)
  BY <1>3 DEF ReconcileReport, Done, At
<1>. QED
  BY <1>1, <1>2, <1>3 DEF Reconcile

\* What the worker of one key does, nobody else's worker notices.
LEMMA WorkerStep ==
  ASSUME WorkInv, NEW k \in Keys, Reconcile(k), NEW j \in Keys
  PROVE  /\ j # k => work'[j] = work[j]
         /\ work'[k] \in Work \cup {None}
         /\ work'[k] # None => k \in Summaries /\ work'[k].object = work[k].object
<1>1. work[k] \in Work
  BY ReconcileStep DEF WorkInv
<1>2. CASE work' = [work EXCEPT ![k] = None]
  BY <1>2 DEF WorkInv
<1>3. ASSUME k \in Summaries, NEW step \in Steps, work' = [work EXCEPT ![k].step = step]
      PROVE  /\ j # k => work'[j] = work[j]
             /\ work'[k] \in Work
             /\ work'[k].object = work[k].object
  <2>1. work'[k] = [work[k] EXCEPT !.step = step] /\ (j # k => work'[j] = work[j])
    BY <1>3 DEF WorkInv
  <2>. QED
    BY <1>1, <2>1 DEF Work
<1>. QED
  BY <1>2, <1>3, ReconcileStep

\* A worker takes the object of its key as it is.
LEMMA GetStep ==
  ASSUME StoreInv, WorkInv, NEW k \in Keys, Get(k)
  PROVE  /\ UNCHANGED <<store, edits>> /\ queue' = queue \ {k}
         /\ work' \in [Keys -> Work \cup {None}]
         /\ work'[k] # None /\ work'[k].step = "start" /\ work'[k].object = Stored(k)
         /\ \A j \in Keys : j # k => work'[j] = work[j]
         /\ k \in Summaries => Stored(k) = storeSummaries[k]
         /\ k \in Checks => Stored(k) = storeChecks[k]
         /\ k \in Reports => Stored(k) = storeReports[k]
<1>1. [step |-> "start", object |-> Stored(k)] \in Work
  BY MonitorConstants DEF Stored, StoreInv, Keys, Work, Steps
<1>2. \A j \in Keys :
        work'[j] = IF j = k THEN [step |-> "start", object |-> Stored(k)] ELSE work[j]
  BY DEF Get, WorkInv
<1>3. work' \in [Keys -> Work \cup {None}]
  BY <1>1 DEF Get, WorkInv
<1>4. /\ k \in Summaries => Stored(k) = storeSummaries[k]
      /\ k \in Checks => Stored(k) = storeChecks[k]
      /\ k \in Reports => Stored(k) = storeReports[k]
  BY MonitorConstants DEF Stored
<1>5. UNCHANGED <<store, edits>> /\ queue' = queue \ {k}
  BY DEF Get
<1>6. [step |-> "start", object |-> Stored(k)] # None
  BY <1>1, NoneIsNothing
<1>. QED
  BY <1>2, <1>3, <1>4, <1>5, <1>6

\* The stores hold what may be written there, the workers what was read from there.
LEMMA Handing == Spec => [](StoreInv /\ WorkInv)
<1>1. Init => StoreInv /\ WorkInv
  BY MonitorConstants DEF Init, StoreInv, WorkInv, Keys
<1>2. StoreInv /\ WorkInv /\ [Next]_vars => StoreInv' /\ WorkInv'
  <2>. SUFFICES ASSUME StoreInv, WorkInv, [Next]_vars PROVE StoreInv' /\ WorkInv'
    OBVIOUS
  <2>1. CASE Edits
    <3>1. edits' \in 0..MaxEdits /\ UNCHANGED work
      <4>1. Edit
        BY <2>1 DEF Edits, EditSummary, EditCheck, EditReport
      <4>. QED
        BY <4>1, MonitorConstants DEF Edit, WorkInv
    <3>2. queue' \subseteq Keys
      BY <2>1 DEF Edits, EditSummary, EditCheck, EditReport, Enqueue, WorkInv, Keys
    <3>3. WorkInv'
      BY <3>1, <3>2 DEF WorkInv
    <3>4. ASSUME NEW s \in Summaries, NEW c \in Clusters, NEW content \in SummaryContents,
                 c \in Home[s], EditSummary(s, [cluster |-> c, content |-> content])
          PROVE  StoreInv'
      BY <3>4 DEF EditSummary, StoreInv, SummaryObject
    <3>5. ASSUME NEW s \in Summaries, EditSummary(s, None)
          PROVE  StoreInv'
      BY <3>5 DEF EditSummary, StoreInv
    <3>6. ASSUME NEW n \in Checks, NEW new \in Summaries \cup {NotGenerated, None},
                 EditCheck(n, new)
          PROVE  StoreInv'
      BY <3>6 DEF EditCheck, StoreInv
    <3>7. ASSUME NEW r \in Reports, NEW c \in Clusters, NEW i \in ReportInputs,
                 c \in ReportClusters, EditReport(r, [cluster |-> c, input |-> i])
          PROVE  StoreInv'
      BY <3>7, MonitorConstants DEF EditReport, StoreInv, Health!HealthReport
    <3>8. ASSUME NEW r \in Reports, EditReport(r, None)
          PROVE  StoreInv'
      BY <3>8 DEF EditReport, StoreInv
    <3>. QED
      BY <2>1, <3>3, <3>4, <3>5, <3>6, <3>7, <3>8 DEF Edits
  <2>2. CASE \E n \in Checks : Resync(n)
    BY <2>2 DEF Resync, store, StoreInv, WorkInv, Keys
  <2>3. ASSUME NEW k \in Keys, Get(k)
        PROVE  StoreInv' /\ WorkInv'
    <3>1. WorkInv'
      BY <2>3, GetStep DEF WorkInv, StoreInv, Keys
    <3>. QED
      BY <2>3, <3>1, GetStep DEF store, StoreInv
  <2>4. ASSUME NEW k \in Keys, Reconcile(k)
        PROVE  StoreInv' /\ WorkInv'
    <3>1. UNCHANGED <<store, queue, edits>> /\ work[k] # None
      BY <2>4, ReconcileStep
    <3>2. \A j \in Keys : /\ j # k => work'[j] = work[j]
                          /\ work'[k] \in Work \cup {None}
                          /\ work'[k] # None => work'[k].object = work[k].object
      BY <2>4, WorkerStep
    <3>3. work' \in [Keys -> Work \cup {None}]
      <4>1. DOMAIN work' = Keys /\ work' = [j \in Keys |-> work'[j]]
        BY <2>4, ReconcileStep DEF WorkInv
      <4>. QED
        BY <3>2, <4>1 DEF WorkInv
    <3>4. WorkInv'
      BY <3>1, <3>2, <3>3 DEF WorkInv, Keys
    <3>. QED
      BY <3>1, <3>4 DEF store, StoreInv
  <2>5. CASE UNCHANGED vars
    BY <2>5 DEF vars, store, StoreInv, WorkInv
  <2>. QED
    BY <2>1, <2>2, <2>3, <2>4, <2>5, MonitorSteps
<1>. QED
  BY <1>1, <1>2, PTL DEF Spec

-----------------------------------------------------------------------------
(* What the controllers call                                               *)

\* A reconcile calls one method of the health cache, or none, with what the method expects.
LEMMA HealthCall ==
  ASSUME WorkInv, NEW k \in Keys, Reconcile(k)
  PROVE  [Health!Next]_Health!vars
<1>. USE DEF healthVars
<1>1. healthVars' = healthVars => Health!vars' = Health!vars
  BY DEF Health!vars, Health!summaryMaps, Health!checkMaps, Health!reportMaps
<1>2. CASE k \in Summaries /\ ReconcileSummary(k)
  <2>1. work[k].object \in SummaryObject \cup {None}
    BY <1>2, ReconcileStep DEF WorkInv
  <2>2. CASE RecordHealth(k)
    <3>1. /\ work[k].object.cluster \in Clusters
          /\ work[k].object.content.input \in SummaryInputs
      BY <2>1, <2>2, MonitorConstants DEF RecordHealth, Monitored, SummaryObject, Content
    <3>. QED
      BY <1>2, <2>2, <3>1 DEF RecordHealth, Health!Next
  <2>3. CASE LookBeforeForgetting(k) \/ ForgetHealth(k)
    BY <1>2, <2>3, MonitorConstants DEF LookBeforeForgetting, ForgetHealth, Health!Next
  <2>4. CASE IgnoreSummary(k) \/ NothingToForget(k) \/ ReportStatus(k)
    BY <1>1, <2>4 DEF IgnoreSummary, NothingToForget, ReportStatus
  <2>. QED
    BY <1>2, <2>2, <2>3, <2>4 DEF ReconcileSummary
<1>3. CASE k \in Checks /\ ReconcileCheck(k)
  BY <1>1, <1>3 DEF ReconcileCheck, Health!Next
<1>4. CASE k \in Reports /\ ReconcileReport(k)
  <2>1. work[k].object # None =>
          work[k].object.cluster \in Clusters /\ work[k].object.input \in ReportInputs
    BY <1>4, ReconcileStep DEF WorkInv, Health!HealthReport
  <2>. QED
    BY <1>1, <1>4, <2>1 DEF ReconcileReport, Health!Next
<1>. QED
  BY <1>2, <1>3, <1>4 DEF Reconcile

\* The same for the badges.
LEMMA StatusCall ==
  ASSUME WorkInv, NEW k \in Keys, Reconcile(k)
  PROVE  [Status!Next]_Status!vars
<1>1. statusVars' = statusVars => Status!vars' = Status!vars
  BY DEF Status!vars, statusVars
<1>2. CASE k \in Summaries /\ ReconcileSummary(k)
  <2>1. work[k].object \in SummaryObject \cup {None}
        /\ (work[k].object # None => work[k].object.cluster \in Home[k])
    BY <1>2, ReconcileStep DEF WorkInv
  <2>2. CASE ReportStatus(k)
    <3>1. work[k].object # None =>
            /\ work[k].object.content.features \in FeatureSets
            /\ work[k].object.content.dependencies \in BOOLEAN
            /\ work[k].object.content.charts \in ChartSets
      BY <2>1, MonitorConstants DEF SummaryObject, Content
    <3>. QED
      BY <1>2, <2>1, <2>2, <3>1 DEF ReportStatus, Status!Next
  <2>3. CASE ~ReportStatus(k)
    BY <1>1, <1>2, <2>3 DEF ReconcileSummary, IgnoreSummary, RecordHealth, NothingToForget,
         LookBeforeForgetting, ForgetHealth
  <2>. QED
    BY <2>2, <2>3
<1>3. CASE k \in Checks /\ ReconcileCheck(k)
  BY <1>1, <1>3 DEF ReconcileCheck
<1>4. CASE k \in Reports /\ ReconcileReport(k)
  BY <1>1, <1>4 DEF ReconcileReport
<1>. QED
  BY <1>2, <1>3, <1>4 DEF Reconcile

\* Nobody but a reconciler touches the caches.
LEMMA CachesStay ==
  ASSUME Edits \/ (\E n \in Checks : Resync(n)) \/ (\E k \in Keys : Get(k)) \/ UNCHANGED vars
  PROVE  UNCHANGED healthVars /\ UNCHANGED statusVars
BY DEF Edits, EditSummary, EditCheck, EditReport, Edit, Resync, Get, vars

\* The controllers implement the open health cache: whatever they do, however their workers
\* interleave, the cache sees calls of its methods as HealthCache allows them.
THEOREM CallsHealthCache == Spec => Health!Spec
<1>1. Init => Health!Init
  BY DEF Init
<1>2. StoreInv /\ WorkInv /\ [Next]_vars => [Health!Next]_Health!vars
  <2>1. UNCHANGED healthVars => UNCHANGED Health!vars
    BY DEF healthVars, Health!vars, Health!summaryMaps, Health!checkMaps, Health!reportMaps
  <2>. QED
    BY <2>1, MonitorSteps, CachesStay, HealthCall
<1>. QED
  BY <1>1, <1>2, Handing, PTL DEF Spec, Health!Spec

\* They implement the open badges of the clusters, too.
THEOREM CallsClusterStatus == Spec => Status!Spec
<1>1. Init => Status!Init
  BY DEF Init
<1>2. StoreInv /\ WorkInv /\ [Next]_vars => [Status!Next]_Status!vars
  <2>1. UNCHANGED statusVars => UNCHANGED Status!vars
    BY DEF statusVars, Status!vars
  <2>. QED
    BY <2>1, MonitorSteps, CachesStay, StatusCall
<1>. QED
  BY <1>1, <1>2, Handing, PTL DEF Spec, Status!Spec

-----------------------------------------------------------------------------
(* What is known of the parts                                              *)

\* HealthFacts is about the same cache.
LEMMA SameHealthCache ==
  /\ Health!Init <=> HealthFacts!Init
  /\ [Health!Next]_Health!vars <=> [HealthFacts!Next]_HealthFacts!vars
  /\ HealthFacts!TypeOK <=> Health!TypeOK
  /\ HealthFacts!ChecksInverse <=> Health!ChecksInverse
  /\ HealthFacts!StatusFresh <=> Health!StatusFresh
<1>. USE DEF Health!vars, HealthFacts!vars, Health!summaryMaps, HealthFacts!summaryMaps,
             Health!checkMaps, HealthFacts!checkMaps, Health!reportMaps, HealthFacts!reportMaps,
             Health!StatusEntry, HealthFacts!StatusEntry,
             Health!GetClusterHealth, HealthFacts!GetClusterHealth,
             Health!SummaryInputsOf, HealthFacts!SummaryInputsOf,
             Health!ReportInputsOf, HealthFacts!ReportInputsOf
<1>1. Health!Init <=> HealthFacts!Init
  BY DEF Health!Init, HealthFacts!Init
<1>2. Health!Next <=> HealthFacts!Next
  BY DEF Health!Next, HealthFacts!Next, Health!Recompute, HealthFacts!Recompute,
         Health!Reindex, HealthFacts!Reindex, Health!Insert, HealthFacts!Insert,
         Health!Erase, HealthFacts!Erase, Health!ClusterOf, HealthFacts!ClusterOf,
         Health!SetSummary, HealthFacts!SetSummary,
         Health!RemoveSummaryLook, HealthFacts!RemoveSummaryLook,
         Health!RemoveSummary, HealthFacts!RemoveSummary,
         Health!OwnerLosing, HealthFacts!OwnerLosing,
         Health!NameDropped, HealthFacts!NameDropped,
         Health!SetGeneratedCheck, HealthFacts!SetGeneratedCheck,
         Health!RemoveGeneratedCheck, HealthFacts!RemoveGeneratedCheck,
         Health!SetReport, HealthFacts!SetReport, Health!RemoveReport, HealthFacts!RemoveReport
<1>3. HealthFacts!TypeOK <=> Health!TypeOK
  BY DEF Health!TypeOK, HealthFacts!TypeOK, Health!HealthSummary, HealthFacts!HealthSummary,
         Health!HealthReport, HealthFacts!HealthReport
<1>4. /\ HealthFacts!ChecksInverse <=> Health!ChecksInverse
      /\ HealthFacts!StatusFresh <=> Health!StatusFresh
  BY DEF Health!ChecksInverse, HealthFacts!ChecksInverse,
         Health!StatusFresh, HealthFacts!StatusFresh
<1>. QED
  BY <1>1, <1>2, <1>3, <1>4

\* So the cache that the controllers feed has its types, its maps of checks are inverse of
\* each other, and its states are those that its maps give.
LEMMA CacheCoherent ==
  Spec => [](Health!TypeOK /\ Health!ChecksInverse /\ Health!StatusFresh)
<1>1. /\ None \notin HealthFacts!HealthSummary /\ None \notin HealthFacts!HealthReport
      /\ None \notin Summaries /\ None \notin Checks
  BY NoneIsNothing DEF Health!HealthSummary, HealthFacts!HealthSummary,
     Health!HealthReport, HealthFacts!HealthReport
<1>2. Evaluate(HealthFacts!NoInputs, HealthFacts!NoInputs) = NotEnabled
  BY PartsConstants DEF Health!NoInputs, HealthFacts!NoInputs
<1>3. HealthFacts!Spec =>
        /\ []HealthFacts!TypeOK /\ []HealthFacts!ChecksInverse /\ []HealthFacts!StatusFresh
  <2>1. HealthFacts!Spec => []HealthFacts!TypeOK
    BY <1>1, <1>2, HealthFacts!Typing
  <2>2. HealthFacts!Spec => []HealthFacts!ChecksInverse
    BY <1>1, <1>2, HealthFacts!ChecksAreInverse
  <2>3. HealthFacts!Spec => []HealthFacts!StatusFresh
    BY <1>1, <1>2, HealthFacts!StatusIsFresh
  <2>. QED
    BY <2>1, <2>2, <2>3
<1>4. Health!Spec => HealthFacts!Spec
  BY SameHealthCache, PTL DEF Health!Spec, HealthFacts!Spec
<1>. QED
  BY <1>3, <1>4, SameHealthCache, CallsHealthCache, PTL

\* So the controllers, for all their stale copies and interleavings, drive an implementation
\* of the cache that recomputes everything from what it was told last (health.go).
THEOREM ControllersImplementView == Spec => HealthFacts!ImplementsView
<1>1. /\ None \notin HealthFacts!HealthSummary /\ None \notin HealthFacts!HealthReport
      /\ None \notin Summaries /\ None \notin Checks
  BY NoneIsNothing DEF Health!HealthSummary, HealthFacts!HealthSummary,
     Health!HealthReport, HealthFacts!HealthReport
<1>2. Evaluate(HealthFacts!NoInputs, HealthFacts!NoInputs) = NotEnabled
  BY PartsConstants DEF Health!NoInputs, HealthFacts!NoInputs
<1>3. HealthFacts!Spec => HealthFacts!ImplementsView
  BY <1>1, <1>2, HealthFacts!Refinement
<1>4. Health!Spec => HealthFacts!Spec
  BY SameHealthCache, PTL DEF Health!Spec, HealthFacts!Spec
<1>. QED
  BY <1>3, <1>4, CallsHealthCache, PTL

\* StatusFacts is about the same badges.
LEMMA SameClusterStatus ==
  /\ Status!Init <=> StatusFacts!Init
  /\ [Status!Next]_Status!vars <=> [StatusFacts!Next]_StatusFacts!vars
  /\ StatusFacts!TypeOK <=> Status!TypeOK
  /\ StatusFacts!SetsExact <=> Status!SetsExact
  /\ StatusFacts!BadgesMatchRows <=> Status!BadgesMatchRows
<1>. USE DEF Status!clusterSummaryHasIssues, StatusFacts!clusterSummaryHasIssues,
             Status!allFeaturesProvisioned, StatusFacts!allFeaturesProvisioned,
             Status!clusterSummaryIsProvisioning, StatusFacts!clusterSummaryIsProvisioning,
             Status!clusterSummaryHasOutdatedHelmCharts,
             StatusFacts!clusterSummaryHasOutdatedHelmCharts,
             Status!vars, StatusFacts!vars
<1>1. Status!Init <=> StatusFacts!Init
  BY DEF Status!Init, StatusFacts!Init
<1>2. Status!Next <=> StatusFacts!Next
  BY DEF Status!Next, StatusFacts!Next, Status!Update, StatusFacts!Update,
         Status!SetReport, StatusFacts!SetReport, Status!DropReport, StatusFacts!DropReport
<1>3. StatusFacts!TypeOK <=> Status!TypeOK
  BY DEF Status!TypeOK, StatusFacts!TypeOK, Status!Report, StatusFacts!Report,
         Status!Feature, StatusFacts!Feature, Status!HelmChart, StatusFacts!HelmChart,
         Status!ClusterSets, StatusFacts!ClusterSets
<1>4. /\ StatusFacts!SetsExact <=> Status!SetsExact
      /\ StatusFacts!BadgesMatchRows <=> Status!BadgesMatchRows
  BY DEF Status!SetsExact, StatusFacts!SetsExact,
         Status!BadgesMatchRows, StatusFacts!BadgesMatchRows,
         Status!ClusterHasIssues, StatusFacts!ClusterHasIssues,
         Status!ClusterIsProvisioning, StatusFacts!ClusterIsProvisioning,
         Status!GetClusterProfileStatusesByCluster,
         StatusFacts!GetClusterProfileStatusesByCluster
<1>. QED
  BY <1>1, <1>2, <1>3, <1>4

\* So the badges have their types, and agree with the reports if a summary is for one cluster.
LEMMA StatusCoherent ==
  /\ Spec => []Status!TypeOK
  /\ Status!OneCluster => (Spec => [](Status!SetsExact /\ Status!BadgesMatchRows))
<1>1. /\ Home \in [Summaries -> SUBSET Clusters]
      /\ FeatureSets \subseteq SUBSET StatusFacts!Feature
      /\ ChartSets \subseteq SUBSET StatusFacts!HelmChart
      /\ None \notin StatusFacts!Report
  BY NoneIsNothing, PartsConstants DEF Status!Feature, StatusFacts!Feature, Status!HelmChart,
     StatusFacts!HelmChart, Status!Report, StatusFacts!Report
<1>2. StatusFacts!Spec => []StatusFacts!TypeOK
  BY <1>1, StatusFacts!Typing
<1>3. Status!OneCluster => StatusFacts!OneCluster
  BY DEF Status!OneCluster, StatusFacts!OneCluster
<1>4. Status!OneCluster => (StatusFacts!Spec => []StatusFacts!SetsExact)
  BY <1>1, <1>3, StatusFacts!Exactness
<1>5. Status!OneCluster => (StatusFacts!Spec => []StatusFacts!BadgesMatchRows)
  BY <1>1, <1>3, StatusFacts!Badges
<1>6. Status!Spec => StatusFacts!Spec
  BY SameClusterStatus, PTL DEF Status!Spec, StatusFacts!Spec
<1>. QED
  BY <1>2, <1>4, <1>5, <1>6, SameClusterStatus, CallsClusterStatus, PTL

\* Stores, workers and caches keep their types.
THEOREM Typing == Spec => []TypeOK
<1>1. StoreInv /\ WorkInv /\ Health!TypeOK /\ Status!TypeOK => TypeOK
  BY DEF StoreInv, WorkInv, TypeOK
<1>. QED
  BY <1>1, Handing, CacheCoherent, StatusCoherent, PTL

-----------------------------------------------------------------------------
(* Agreement of the caches with the stores                                 *)

\* What the caches say of a summary once o, which is not ignored, was applied.
Told(s, o) ==
  /\ summaries[s] = HealthOf(o)
  /\ clusterSummaryReport[s] = ReportOf(o)
  /\ \A c \in Clusters :
       s \in clusterWithOutdatedHelmCharts[c] <=>
         /\ o # None /\ o.cluster = c
         /\ Status!clusterSummaryHasOutdatedHelmCharts(o.content.charts)

\* An object that the caches do not have as it is waits in the queue, or is with a worker
\* as it is: a change that comes while a worker has an older copy is queued.
SummaryCurrent(s) ==
  \/ s \in queue
  \/ work[s] # None /\ work[s].object = storeSummaries[s]
  \/ work[s] = None /\ (Ignored(storeSummaries[s]) \/ Told(s, storeSummaries[s]))

ReportCurrent(r) ==
  \/ r \in queue
  \/ work[r] # None /\ work[r].object = storeReports[r]
  \/ work[r] = None /\ reports[r] = storeReports[r]

\* Of a check, only what it was generated for counts.
CheckCurrent(n) ==
  \/ n \in queue
  \/ work[n] # None /\ (work[n].object \in Summaries => work[n].object = storeChecks[n])
  \/ work[n] = None /\ (generatedChecks[n] # None => generatedChecks[n] = storeChecks[n])

\* Between its two locks a worker knows the summary it is about to forget; between health
\* and status it has told the health cache.
Halfway(s) ==
  work[s] # None =>
    /\ work[s].step \in {"lock", "status"} => ~Ignored(work[s].object)
    /\ work[s].step = "lock" => ~Monitored(work[s].object) /\ known[s] = s
    /\ work[s].step = "status" => summaries[s] = HealthOf(work[s].object)

AtHome ==
  \A s \in Summaries :
    clusterSummaryReport[s] # None => clusterSummaryReport[s].cluster \in Home[s]

AgreementInv ==
  /\ AtHome
  /\ \A s \in Summaries : Halfway(s) /\ SummaryCurrent(s)
  /\ \A r \in Reports : ReportCurrent(r)

Typed == StoreInv /\ WorkInv /\ Health!TypeOK /\ Status!TypeOK

\* A change of a summary is always queued: the label that the predicate does not look at
\* stays as it was.
LEMMA SummaryEditQueued ==
  ASSUME StoreInv, NEW s \in Summaries, NEW new \in SummaryObject \cup {None},
         EditSummary(s, new)
  PROVE  s \in queue'
<1>. DEFINE old == storeSummaries[s]
<1>1. CASE old = None \/ new = None
  BY <1>1 DEF EditSummary, Enqueue, ClusterSummaryPredicate
<1>2. CASE old # None /\ new # None
  <2>1. old \in SummaryObject /\ new \in SummaryObject
    BY <1>2 DEF StoreInv
  <2>2. /\ old.content \in Content /\ new.content \in Content
        /\ old = [cluster |-> old.cluster, content |-> old.content]
        /\ new = [cluster |-> new.cluster, content |-> new.content]
    BY <2>1, MonitorConstants DEF SummaryObject
  <2>3. /\ old # new
        /\ new.content.verified = old.content.verified
    BY <1>2 DEF EditSummary
  <2>4. SUFFICES ASSUME [old EXCEPT !.content.verified = TRUE]
                          = [new EXCEPT !.content.verified = TRUE]
                 PROVE  FALSE
    BY DEF EditSummary, Enqueue, ClusterSummaryPredicate
  <2>5. /\ old.cluster = new.cluster
        /\ [old.content EXCEPT !.verified = TRUE] = [new.content EXCEPT !.verified = TRUE]
    BY <2>1, <2>4 DEF SummaryObject
  <2>6. \A f \in {"enabled", "input", "features", "dependencies", "charts"} :
          old.content[f] = new.content[f]
    <3>1. \A f \in {"enabled", "input", "features", "dependencies", "charts"} :
            /\ [old.content EXCEPT !.verified = TRUE][f] = old.content[f]
            /\ [new.content EXCEPT !.verified = TRUE][f] = new.content[f]
      BY <2>2 DEF Content
    <3>. QED
      BY <2>5, <3>1
  <2>7. old.content = new.content
    <3>1. DOMAIN old.content
            = {"verified", "enabled", "input", "features", "dependencies", "charts"}
          /\ DOMAIN new.content = DOMAIN old.content
          /\ old.content = [f \in DOMAIN old.content |-> old.content[f]]
          /\ new.content = [f \in DOMAIN new.content |-> new.content[f]]
      BY <2>2 DEF Content
    <3>. QED
      BY <2>3, <2>6, <3>1
  <2>. QED
    BY <2>2, <2>3, <2>5, <2>7
<1>. QED
  BY <1>1, <1>2

\* An edit leaves each other object, each worker and the caches as they are, and is queued.
LEMMA EditAgrees ==
  ASSUME StoreInv, AgreementInv, Edits
  PROVE  AgreementInv'
<1>1. UNCHANGED healthVars /\ UNCHANGED statusVars /\ UNCHANGED work
  BY CachesStay DEF Edits, EditSummary, EditCheck, EditReport, Edit
<1>2. queue \subseteq queue'
  BY DEF Edits, EditSummary, EditCheck, EditReport, Enqueue
<1>3. \A s \in Summaries : storeSummaries'[s] = storeSummaries[s] \/ s \in queue'
  <2>1. ASSUME NEW s \in Summaries, NEW new \in SummaryObject \cup {None}, EditSummary(s, new)
        PROVE  \A t \in Summaries : storeSummaries'[t] = storeSummaries[t] \/ t \in queue'
    BY <2>1, SummaryEditQueued DEF EditSummary, StoreInv
  <2>2. \A c \in Clusters, content \in SummaryContents :
          [cluster |-> c, content |-> content] \in SummaryObject
    BY DEF SummaryObject
  <2>. QED
    BY <2>1, <2>2 DEF Edits, EditCheck, EditReport
<1>4. \A r \in Reports : storeReports'[r] = storeReports[r] \/ r \in queue'
  BY DEF Edits, EditSummary, EditCheck, EditReport, Enqueue, StoreInv
<1>5. \A s \in Summaries : \A o : Told(s, o)' <=> Told(s, o)
  BY <1>1 DEF Told, healthVars, statusVars
<1>6. ASSUME NEW s \in Summaries PROVE Halfway(s)' /\ SummaryCurrent(s)'
  BY <1>1, <1>2, <1>3, <1>5 DEF AgreementInv, Halfway, SummaryCurrent, healthVars
<1>7. ASSUME NEW r \in Reports PROVE ReportCurrent(r)'
  BY <1>1, <1>2, <1>4 DEF AgreementInv, ReportCurrent, healthVars
<1>8. AtHome'
  BY <1>1 DEF AgreementInv, AtHome, statusVars
<1>. QED
  BY <1>6, <1>7, <1>8 DEF AgreementInv

\* A worker gets the object as it is.
LEMMA GetAgrees ==
  ASSUME StoreInv, WorkInv, AgreementInv, NEW k \in Keys, Get(k)
  PROVE  AgreementInv'
<1>1. UNCHANGED healthVars /\ UNCHANGED statusVars
  BY DEF Get
<1>2. UNCHANGED <<storeSummaries, storeReports>>
  BY GetStep DEF store
<1>3. \A j \in Keys : j # k => work'[j] = work[j] /\ (j \in queue' <=> j \in queue)
  BY GetStep
<1>4. \A s \in Summaries : \A o : Told(s, o)' <=> Told(s, o)
  BY <1>1 DEF Told, healthVars, statusVars
<1>5. ASSUME NEW s \in Summaries PROVE Halfway(s)' /\ SummaryCurrent(s)'
  <2>1. CASE s = k
    BY <1>2, <2>1, GetStep DEF Halfway, SummaryCurrent
  <2>2. CASE s # k
    BY <1>1, <1>2, <1>3, <1>4, <2>2 DEF AgreementInv, Halfway, SummaryCurrent, healthVars, Keys
  <2>. QED
    BY <2>1, <2>2
<1>6. ASSUME NEW r \in Reports PROVE ReportCurrent(r)'
  <2>1. CASE r = k
    BY <1>2, <2>1, GetStep DEF ReportCurrent
  <2>2. CASE r # k
    BY <1>1, <1>2, <1>3, <2>2 DEF AgreementInv, ReportCurrent, healthVars, Keys
  <2>. QED
    BY <2>1, <2>2
<1>7. AtHome'
  BY <1>1 DEF AgreementInv, AtHome, statusVars
<1>. QED
  BY <1>5, <1>6, <1>7 DEF AgreementInv

\* The worker of a check, and that of a report, leave the summaries alone; that of a report
\* tells the cache what it read.
LEMMA OthersAgree ==
  ASSUME Typed, AgreementInv, NEW k \in Checks \cup Reports, Reconcile(k)
  PROVE  AgreementInv'
<1>0. k \in Keys /\ k \notin Summaries /\ (k \in Checks <=> k \notin Reports)
  BY MonitorConstants DEF Keys
<1>1. UNCHANGED <<store, queue>> /\ work[k] # None /\ work'[k] = None
  BY <1>0, ReconcileStep, WorkerStep DEF Typed
<1>2. \A j \in Keys : j # k => work'[j] = work[j]
  BY <1>0, WorkerStep DEF Typed
<1>3. UNCHANGED <<summaries, known>> /\ UNCHANGED statusVars
  BY <1>0 DEF Reconcile, ReconcileCheck, ReconcileReport, healthVars, Health!summaryMaps,
     Health!SetGeneratedCheck, Health!RemoveGeneratedCheck, Health!SetReport, Health!RemoveReport
<1>4. \A s \in Summaries : \A o : Told(s, o)' <=> Told(s, o)
  BY <1>3 DEF Told, statusVars
<1>5. ASSUME NEW s \in Summaries PROVE Halfway(s)' /\ SummaryCurrent(s)'
  <2>1. s \in Keys /\ s # k
    BY <1>0 DEF Keys
  <2>. QED
    BY <1>1, <1>2, <1>3, <1>4, <2>1 DEF AgreementInv, Halfway, SummaryCurrent, store
<1>6. ASSUME NEW r \in Reports PROVE ReportCurrent(r)'
  <2>0. r \in Keys
    BY DEF Keys
  <2>1. CASE r # k
    <3>1. reports'[r] = reports[r]
      BY <1>0, <2>1 DEF Reconcile, ReconcileCheck, ReconcileReport, healthVars,
         Health!reportMaps, Health!SetGeneratedCheck, Health!RemoveGeneratedCheck,
         Health!SetReport, Health!RemoveReport, Typed, Health!TypeOK
    <3>. QED
      BY <1>1, <1>2, <2>0, <2>1, <3>1 DEF AgreementInv, ReportCurrent, store
  <2>2. CASE r = k
    <3>1. ReconcileReport(k)
      BY <1>0, <2>2 DEF Reconcile
    <3>2. work[k].object \in Health!HealthReport \cup {None}
      BY <1>1, <2>2 DEF Typed, WorkInv
    <3>3. reports'[k] = work[k].object
      <4>1. CASE work[k].object = None
        BY <2>2, <3>1, <4>1 DEF ReconcileReport, Health!RemoveReport, healthVars, Typed,
           Health!TypeOK
      <4>2. CASE work[k].object # None
        <5>1. work[k].object
                = [cluster |-> work[k].object.cluster, input |-> work[k].object.input]
          BY <3>2, <4>2 DEF Health!HealthReport
        <5>2. reports'[k]
                = [cluster |-> work[k].object.cluster, input |-> work[k].object.input]
          BY <2>2, <3>1, <4>2 DEF ReconcileReport, Health!SetReport, Typed, Health!TypeOK
        <5>. QED
          BY <5>1, <5>2
      <4>. QED
        BY <4>1, <4>2
    <3>. QED
      BY <1>1, <2>2, <3>3 DEF AgreementInv, ReportCurrent, store
  <2>. QED
    BY <2>1, <2>2
<1>7. AtHome'
  BY <1>3 DEF AgreementInv, AtHome, statusVars
<1>. QED
  BY <1>5, <1>6, <1>7 DEF AgreementInv

\* The worker of a summary leaves the other summaries alone.
LEMMA OneSummary ==
  ASSUME Typed, AgreementInv, NEW k \in Summaries, ReconcileSummary(k),
         NEW s \in Summaries, s # k
  PROVE  /\ summaries'[s] = summaries[s] /\ known'[s] = known[s]
         /\ clusterSummaryReport'[s] = clusterSummaryReport[s]
         /\ \A c \in Clusters : s \in clusterWithOutdatedHelmCharts'[c]
                                  <=> s \in clusterWithOutdatedHelmCharts[c]
<1>. USE DEF Typed, Health!TypeOK, Status!TypeOK, Status!ClusterSets, healthVars, statusVars
<1>1. CASE IgnoreSummary(k) \/ NothingToForget(k)
  BY <1>1 DEF IgnoreSummary, NothingToForget
<1>2. CASE RecordHealth(k)
  BY <1>2 DEF RecordHealth, Health!SetSummary
<1>3. CASE LookBeforeForgetting(k)
  BY <1>3, MonitorConstants
     DEF LookBeforeForgetting, Health!RemoveSummaryLook, Health!summaryMaps
<1>4. CASE ForgetHealth(k)
  <2>1. known[k] = k
    BY <1>4 DEF ForgetHealth, At, AgreementInv, Halfway
  <2>. QED
    BY <1>4, <2>1, MonitorConstants DEF ForgetHealth, Health!RemoveSummary, Health!summaryMaps
<1>5. CASE ReportStatus(k)
  <2>1. UNCHANGED <<summaries, known>>
    BY <1>5 DEF ReportStatus
  <2>2. clusterSummaryReport'[s] = clusterSummaryReport[s]
    BY <1>5 DEF ReportStatus, Status!SetReport, Status!DropReport, Status!vars
  <2>3. ASSUME NEW c \in Clusters
        PROVE  s \in clusterWithOutdatedHelmCharts'[c] <=> s \in clusterWithOutdatedHelmCharts[c]
    BY <1>5 DEF ReportStatus, Status!SetReport, Status!DropReport, Status!Update, Status!vars
  <2>. QED
    BY <2>1, <2>2, <2>3
<1>. QED
  BY <1>1, <1>2, <1>3, <1>4, <1>5 DEF ReconcileSummary

\* Once the status of a summary is reported, the caches say what the worker's object says.
LEMMA ReportTells ==
  ASSUME Typed, AgreementInv, Status!OneCluster, Status!SetsExact,
         NEW k \in Summaries, ReportStatus(k), NEW o, o = work[k].object
  PROVE  Told(k, o)'
<1>1. /\ work[k] # None /\ o \in SummaryObject \cup {None}
      /\ o # None => o.cluster \in Home[k]
  BY DEF ReportStatus, At, Typed, WorkInv
<1>2. summaries'[k] = HealthOf(o)
  BY DEF ReportStatus, At, AgreementInv, Halfway, healthVars
<1>3. \A c \in Clusters :
        k \in clusterWithOutdatedHelmCharts[c] =>
          clusterSummaryReport[k] # None /\ clusterSummaryReport[k].cluster = c
  BY DEF Status!SetsExact, Status!GetClusterProfileStatusesByCluster
<1>4. clusterSummaryReport[k] # None =>
        clusterSummaryReport[k].cluster \in Home[k]
        /\ clusterSummaryReport[k].cluster \in Clusters
  BY PartsConstants DEF AgreementInv, AtHome
<1>5. CASE o = None
  <2>1. Status!DropReport(k)
    BY <1>5 DEF ReportStatus
  <2>2. clusterSummaryReport'[k] = None
    BY <2>1 DEF Status!DropReport, Status!vars, Typed, Status!TypeOK
  <2>3. \A c \in Clusters : k \notin clusterWithOutdatedHelmCharts'[c]
    BY <1>3, <1>4, <2>1
       DEF Status!DropReport, Status!Update, Status!vars, Typed, Status!TypeOK, Status!ClusterSets
  <2>. QED
    BY <1>2, <1>5, <2>2, <2>3 DEF Told, ReportOf
<1>6. CASE o # None
  <2>1. Status!SetReport(k, o.cluster, o.content.features, o.content.dependencies,
                         o.content.charts)
    BY <1>6 DEF ReportStatus
  <2>2. clusterSummaryReport'[k] = ReportOf(o)
    BY <1>6, <2>1 DEF Status!SetReport, ReportOf, Typed, Status!TypeOK
  <2>3. o.cluster \in Clusters
    BY <1>1, <1>6 DEF SummaryObject
  <2>4. \A c \in Clusters : c # o.cluster => k \notin clusterWithOutdatedHelmCharts[c]
    BY <1>1, <1>3, <1>4, <1>6 DEF Status!OneCluster
  <2>5. ASSUME NEW c \in Clusters
        PROVE  k \in clusterWithOutdatedHelmCharts'[c] <=>
                 o.cluster = c /\ Status!clusterSummaryHasOutdatedHelmCharts(o.content.charts)
    BY <2>1, <2>3, <2>4
       DEF Status!SetReport, Status!Update, Typed, Status!TypeOK, Status!ClusterSets
  <2>. QED
    BY <1>2, <1>6, <2>2, <2>5 DEF Told
<1>. QED
  BY <1>5, <1>6

\* What a worker goes on with, it has told the health cache.
LEMMA GoesOn ==
  ASSUME Typed, AgreementInv, NEW k \in Summaries, ReconcileSummary(k)
  PROVE  Halfway(k)'
<1>. DEFINE o == work[k].object
<1>0. k \in Keys /\ work[k] \in Work
  BY NoneIsNothing, ReconcileStep DEF Keys, Reconcile, Typed, WorkInv
<1>1. ASSUME NEW step, GoTo(k, step)
      PROVE  work'[k].step = step /\ work'[k].object = o
  BY <1>0, <1>1 DEF GoTo, Work, Typed, WorkInv
<1>2. CASE IgnoreSummary(k) \/ ReportStatus(k)
  <2>1. work'[k] = None
    BY <1>0, <1>2 DEF IgnoreSummary, ReportStatus, Done, Typed, WorkInv
  <2>. QED
    BY <2>1 DEF Halfway
<1>3. CASE RecordHealth(k)
  <2>1. work'[k].step = "status" /\ work'[k].object = o
    BY <1>1, <1>3 DEF RecordHealth
  <2>2. summaries'[k] = HealthOf(o)
    BY <1>3 DEF RecordHealth, Health!SetSummary, HealthOf, Typed, Health!TypeOK
  <2>3. ~Ignored(o)
    BY <1>3 DEF RecordHealth
  <2>. QED
    BY <2>1, <2>2, <2>3 DEF Halfway
<1>4. CASE NothingToForget(k)
  <2>1. work'[k].step = "status" /\ work'[k].object = o
    BY <1>1, <1>4 DEF NothingToForget
  <2>2. summaries'[k] = HealthOf(o) /\ ~Ignored(o)
    BY <1>4 DEF NothingToForget, HealthOf, healthVars
  <2>. QED
    BY <2>1, <2>2 DEF Halfway
<1>5. CASE LookBeforeForgetting(k)
  <2>1. work'[k].step = "lock" /\ work'[k].object = o
    BY <1>1, <1>5 DEF LookBeforeForgetting
  <2>2. known'[k] = k
    BY <1>5, MonitorConstants DEF LookBeforeForgetting, Health!RemoveSummaryLook, Typed,
       Health!TypeOK
  <2>3. ~Ignored(o) /\ ~Monitored(o)
    BY <1>5 DEF LookBeforeForgetting
  <2>. QED
    BY <2>1, <2>2, <2>3 DEF Halfway
<1>6. CASE ForgetHealth(k)
  <2>1. work'[k].step = "status" /\ work'[k].object = o
    BY <1>1, <1>6 DEF ForgetHealth
  <2>2. ~Ignored(o) /\ ~Monitored(o) /\ known[k] = k
    BY <1>6 DEF ForgetHealth, At, AgreementInv, Halfway
  <2>3. summaries'[k] = None
    BY <1>6, <2>2 DEF ForgetHealth, Health!RemoveSummary, Health!summaryMaps, Typed,
       Health!TypeOK
  <2>. QED
    BY <2>1, <2>2, <2>3 DEF Halfway, HealthOf
<1>. QED
  BY <1>2, <1>3, <1>4, <1>5, <1>6 DEF ReconcileSummary

LEMMA SummaryAgrees ==
  ASSUME Typed, AgreementInv, Status!OneCluster, Status!SetsExact,
         NEW k \in Summaries, ReconcileSummary(k)
  PROVE  AgreementInv'
<1>0. k \in Keys /\ Reconcile(k) /\ k \notin Reports
  BY MonitorConstants DEF Keys, Reconcile
<1>1. UNCHANGED <<store, queue>> /\ work[k] # None
  BY <1>0, ReconcileStep DEF Typed
<1>2. /\ \A j \in Keys : j # k => work'[j] = work[j]
      /\ work'[k] # None => work'[k].object = work[k].object
  BY <1>0, WorkerStep DEF Typed
<1>3. ASSUME NEW s \in Summaries, s # k PROVE Halfway(s)' /\ SummaryCurrent(s)'
  <2>1. summaries'[s] = summaries[s] /\ known'[s] = known[s]
    BY <1>3, OneSummary
  <2>2. \A o : Told(s, o)' <=> Told(s, o)
    BY <1>3, OneSummary DEF Told
  <2>3. work'[s] = work[s]
    BY <1>2, <1>3 DEF Keys
  <2>. QED
    BY <1>1, <2>1, <2>2, <2>3 DEF AgreementInv, Halfway, SummaryCurrent, store
<1>4. SummaryCurrent(k)'
  <2>1. CASE k \in queue
    BY <1>1, <2>1 DEF SummaryCurrent
  <2>2. CASE k \notin queue
    <3>1. work[k].object = storeSummaries[k] /\ UNCHANGED storeSummaries
      BY <1>1, <2>2 DEF AgreementInv, SummaryCurrent, store
    <3>2. CASE IgnoreSummary(k)
      <4>1. work'[k] = None /\ Ignored(storeSummaries[k])
        BY <1>0, <3>1, <3>2 DEF IgnoreSummary, Done, Typed, WorkInv
      <4>. QED
        BY <3>1, <4>1 DEF SummaryCurrent
    <3>3. CASE ReportStatus(k)
      <4>1. work'[k] = None
        BY <1>0, <3>3 DEF ReportStatus, Done, Typed, WorkInv
      <4>2. Told(k, storeSummaries[k])'
        <5>1. \A o : o = work[k].object => Told(k, o)'
          BY <3>3, ReportTells
        <5>. QED
          BY <3>1, <5>1
      <4>. QED
        BY <4>1, <4>2 DEF SummaryCurrent
    <3>4. CASE ~IgnoreSummary(k) /\ ~ReportStatus(k)
      <4>1. work'[k] # None
        <5>1. \E step \in Steps : work' = [work EXCEPT ![k].step = step]
          BY <3>4 DEF ReconcileSummary, RecordHealth, NothingToForget, LookBeforeForgetting,
             ForgetHealth, GoTo, Steps
        <5>2. work[k] \in Work
          BY <1>0, <1>1 DEF Typed, WorkInv
        <5>3. work'[k] \in Work
          BY <1>0, <5>1, <5>2 DEF Work, Typed, WorkInv
        <5>. QED
          BY <5>3, NoneIsNothing
      <4>. QED
        BY <1>2, <3>1, <4>1 DEF SummaryCurrent
    <3>. QED
      BY <3>2, <3>3, <3>4
  <2>. QED
    BY <2>1, <2>2
<1>5. Halfway(k)'
  BY GoesOn
<1>6. ASSUME NEW r \in Reports PROVE ReportCurrent(r)'
  <2>1. work'[r] = work[r]
    BY <1>0, <1>2 DEF Keys
  <2>2. UNCHANGED reports
    BY DEF ReconcileSummary, IgnoreSummary, RecordHealth, NothingToForget,
       LookBeforeForgetting, ForgetHealth, ReportStatus, healthVars, Health!reportMaps,
       Health!SetSummary, Health!RemoveSummaryLook, Health!RemoveSummary
  <2>. QED
    BY <1>1, <2>1, <2>2 DEF AgreementInv, ReportCurrent, store
<1>7. AtHome'
  <2>1. \A s \in Summaries : s # k => clusterSummaryReport'[s] = clusterSummaryReport[s]
    BY OneSummary
  <2>2. CASE ReportStatus(k)
    <3>1. clusterSummaryReport'[k] = ReportOf(work[k].object)
      BY <2>2, ReportTells DEF Told
    <3>2. work[k].object # None => work[k].object.cluster \in Home[k]
      BY <1>1 DEF Typed, WorkInv
    <3>. QED
      BY <2>1, <3>1, <3>2 DEF AgreementInv, AtHome, ReportOf
  <2>3. CASE ~ReportStatus(k)
    <3>1. UNCHANGED clusterSummaryReport
      BY <2>3 DEF ReconcileSummary, IgnoreSummary, RecordHealth, NothingToForget,
         LookBeforeForgetting, ForgetHealth, statusVars
    <3>. QED
      BY <3>1 DEF AgreementInv, AtHome
  <2>. QED
    BY <2>2, <2>3
<1>. QED
  BY <1>3, <1>4, <1>5, <1>6, <1>7 DEF AgreementInv

LEMMA Agreement ==
  ASSUME Status!OneCluster
  PROVE  Spec => []AgreementInv
<1>1. Init => AgreementInv
  <2>. SUFFICES ASSUME Init PROVE AgreementInv
    OBVIOUS
  <2>1. /\ \A s \in Summaries : /\ storeSummaries[s] = None /\ summaries[s] = None
                                /\ clusterSummaryReport[s] = None
        /\ \A r \in Reports : storeReports[r] = None /\ reports[r] = None
        /\ \A k \in Keys : work[k] = None
        /\ \A c \in Clusters : clusterWithOutdatedHelmCharts[c] = {}
    BY DEF Init, Health!Init, Status!Init
  <2>2. \A s \in Summaries : Halfway(s) /\ SummaryCurrent(s)
    BY <2>1 DEF Halfway, SummaryCurrent, Told, HealthOf, ReportOf, Monitored, Keys
  <2>. QED
    BY <2>1, <2>2 DEF AgreementInv, AtHome, ReportCurrent, Keys
<1>2. Typed /\ Status!SetsExact /\ AgreementInv /\ [Next]_vars => AgreementInv'
  <2>. SUFFICES ASSUME Typed, Status!SetsExact, AgreementInv, [Next]_vars PROVE AgreementInv'
    OBVIOUS
  <2>1. CASE Edits
    BY <2>1, EditAgrees DEF Typed
  <2>2. CASE (\E n \in Checks : Resync(n)) \/ UNCHANGED vars
    <3>1. UNCHANGED <<healthVars, statusVars, store, work>> /\ queue \subseteq queue'
      BY <2>2 DEF Resync, vars
    <3>2. \A s \in Summaries : \A o : Told(s, o)' <=> Told(s, o)
      BY <3>1 DEF Told, healthVars, statusVars
    <3>. QED
      BY <3>1, <3>2 DEF AgreementInv, AtHome, Halfway, SummaryCurrent, ReportCurrent,
         healthVars, statusVars, store
  <2>3. CASE \E k \in Keys : Get(k)
    BY <2>3, GetAgrees DEF Typed
  <2>4. CASE \E k \in Keys : Reconcile(k)
    BY <2>4, OthersAgree, SummaryAgrees DEF Reconcile, Keys
  <2>. QED
    BY <2>1, <2>2, <2>3, <2>4, MonitorSteps
<1>. QED
  BY <1>1, <1>2, Handing, CacheCoherent, StatusCoherent, PTL DEF Spec, Typed

\* When no key waits and no worker runs, the caches say what the stores say, provided a
\* summary is for one cluster.
THEOREM QuietCachesAgree ==
  ASSUME Status!OneCluster
  PROVE  Spec => []QuietAgrees
<1>1. StoreInv /\ AgreementInv /\ Health!TypeOK /\ Status!SetsExact => QuietAgrees
  <2>. SUFFICES ASSUME StoreInv, AgreementInv, Health!TypeOK, Quiet, Status!SetsExact
                PROVE  Agree
    BY DEF QuietAgrees
  <2>1. \A s \in Summaries : Ignored(storeSummaries[s]) \/ Told(s, storeSummaries[s])
    BY DEF Quiet, AgreementInv, SummaryCurrent, Keys
  <2>2. SummariesAgree
    BY <2>1 DEF SummariesAgree, Told
  <2>3. ReportsAgree
    <3>1. \A r \in Reports : reports[r] = storeReports[r]
      BY DEF Quiet, AgreementInv, ReportCurrent, Keys
    <3>. QED
      BY <3>1 DEF ReportsAgree, StoreInv, Health!TypeOK
  <2>4. OutdatedAgree
    <3>. SUFFICES ASSUME NEW c \in Clusters, \A s \in Summaries : ~Ignored(storeSummaries[s])
                  PROVE  clusterWithOutdatedHelmCharts[c] # {} <=>
                           \E s \in Summaries :
                             /\ storeSummaries[s] # None /\ storeSummaries[s].cluster = c
                             /\ Status!clusterSummaryHasOutdatedHelmCharts(
                                  storeSummaries[s].content.charts)
      BY DEF OutdatedAgree, Status!ClusterHasOutdatedHelmCharts
    <3>1. clusterWithOutdatedHelmCharts[c] \subseteq Summaries
      BY DEF Status!SetsExact, Status!GetClusterProfileStatusesByCluster
    <3>. QED
      BY <2>1, <3>1 DEF Told
  <2>. QED
    BY <2>2, <2>3, <2>4 DEF Agree
<1>. QED
  BY <1>1, Handing, CacheCoherent, StatusCoherent, Agreement, PTL

-----------------------------------------------------------------------------
(* Attribution of the checks                                               *)

AttributionInv == \A n \in Checks : CheckCurrent(n)

LEMMA EditAttributes ==
  ASSUME Typed, AttributionInv, Edits
  PROVE  AttributionInv'
<1>1. UNCHANGED <<work, generatedChecks>> /\ queue \subseteq queue'
  BY CachesStay
     DEF Edits, EditSummary, EditCheck, EditReport, Edit, Enqueue, healthVars, Health!checkMaps
<1>2. \A n \in Checks : \/ storeChecks'[n] = storeChecks[n] \/ n \in queue'
                        \/ storeChecks[n] \notin Summaries
  <2>1. ASSUME NEW m \in Checks, NEW new, EditCheck(m, new), NEW n \in Checks,
               storeChecks[n] \in Summaries, storeChecks'[n] # storeChecks[n]
        PROVE  n \in queue'
    <3>1. n = m
      BY <2>1 DEF EditCheck, Typed, StoreInv
    <3>2. storeChecks[n] \notin {None, NotGenerated}
      BY <2>1, MonitorConstants, NoneIsNothing
    <3>. QED
      BY <2>1, <3>1, <3>2 DEF EditCheck, Enqueue, GeneratedHealthCheckPredicate
  <2>. QED
    BY <2>1 DEF Edits, EditSummary, EditReport
<1>3. ASSUME NEW n \in Checks PROVE CheckCurrent(n)'
  <2>1. generatedChecks[n] \in Summaries \cup {None}
    BY DEF Typed, Health!TypeOK
  <2>. QED
    BY <1>1, <1>2, <2>1 DEF AttributionInv, CheckCurrent
<1>. QED
  BY <1>3 DEF AttributionInv

LEMMA GetAttributes ==
  ASSUME Typed, AttributionInv, NEW k \in Keys, Get(k)
  PROVE  AttributionInv'
<1>1. UNCHANGED <<generatedChecks, storeChecks>>
  BY DEF Get, healthVars, store
<1>2. ASSUME NEW n \in Checks PROVE CheckCurrent(n)'
  <2>1. CASE n = k
    BY <1>1, <2>1, GetStep DEF CheckCurrent, Typed
  <2>2. CASE n # k
    <3>1. work'[n] = work[n] /\ (n \in queue' <=> n \in queue)
      BY <2>2, GetStep DEF Typed, Keys
    <3>. QED
      BY <1>1, <3>1 DEF AttributionInv, CheckCurrent
  <2>. QED
    BY <2>1, <2>2
<1>. QED
  BY <1>2 DEF AttributionInv

\* What a check was generated for is recorded for that check alone; other checks may lose it.
LEMMA ReconcileAttributes ==
  ASSUME Typed, AttributionInv, NEW k \in Keys, Reconcile(k)
  PROVE  AttributionInv'
<1>1. UNCHANGED <<queue, storeChecks>>
  BY ReconcileStep DEF Typed, store
<1>2. ASSUME NEW n \in Checks PROVE CheckCurrent(n)'
  <2>0. n \in Keys
    BY DEF Keys
  <2>1. CASE n # k
    <3>1. work'[n] = work[n]
      BY <2>0, <2>1, WorkerStep DEF Typed
    <3>2. generatedChecks'[n] \in {generatedChecks[n], None}
      <4>1. CASE k \in Summaries /\ ReconcileSummary(k)
        BY <4>1 DEF ReconcileSummary, IgnoreSummary, RecordHealth, NothingToForget,
           LookBeforeForgetting, ForgetHealth, ReportStatus, healthVars, Health!checkMaps,
           Health!SetSummary, Health!RemoveSummaryLook, Health!RemoveSummary
      <4>2. CASE k \in Checks /\ ReconcileCheck(k)
        BY <2>1, <4>2 DEF ReconcileCheck, healthVars, Health!SetGeneratedCheck,
           Health!RemoveGeneratedCheck, Typed, Health!TypeOK
      <4>3. CASE k \in Reports /\ ReconcileReport(k)
        BY <4>3 DEF ReconcileReport, healthVars, Health!checkMaps, Health!SetReport,
           Health!RemoveReport
      <4>. QED
        BY <4>1, <4>2, <4>3 DEF Reconcile
    <3>. QED
      BY <1>1, <3>1, <3>2 DEF AttributionInv, CheckCurrent
  <2>2. CASE n = k
    <3>1. ReconcileCheck(n)
      BY <2>2, MonitorConstants DEF Reconcile
    <3>2. work[n] # None /\ work'[n] = None
      BY <2>2, MonitorConstants, ReconcileStep, WorkerStep DEF Typed
    <3>3. IF work[n].object \in Summaries THEN generatedChecks'[n] = work[n].object
          ELSE generatedChecks'[n] = None
      <4>1. CASE work[n].object \in Summaries
        BY <3>1, <4>1 DEF ReconcileCheck, Health!SetGeneratedCheck
      <4>2. CASE work[n].object \notin Summaries
        BY <3>1, <4>2 DEF ReconcileCheck, healthVars, Health!RemoveGeneratedCheck, Typed,
           Health!TypeOK
      <4>. QED
        BY <4>1, <4>2
    <3>. QED
      BY <1>1, <3>2, <3>3 DEF AttributionInv, CheckCurrent
  <2>. QED
    BY <2>1, <2>2
<1>. QED
  BY <1>2 DEF AttributionInv

\* When everything is processed, a check that the cache attributes to a summary exists and
\* was generated for it.
THEOREM NoPhantoms == Spec => []NoPhantomChecks
<1>1. Init => AttributionInv
  <2>. SUFFICES ASSUME Init PROVE AttributionInv
    OBVIOUS
  <2>1. \A n \in Checks : work[n] = None /\ generatedChecks[n] = None
    BY DEF Init, Health!Init, Keys
  <2>. QED
    BY <2>1 DEF AttributionInv, CheckCurrent
<1>2. Typed /\ AttributionInv /\ [Next]_vars => AttributionInv'
  <2>. SUFFICES ASSUME Typed, AttributionInv, [Next]_vars PROVE AttributionInv'
    OBVIOUS
  <2>1. CASE (\E n \in Checks : Resync(n)) \/ UNCHANGED vars
    <3>1. UNCHANGED <<work, generatedChecks, storeChecks>> /\ queue \subseteq queue'
      BY <2>1 DEF Resync, vars, healthVars, store
    <3>. QED
      BY <3>1 DEF AttributionInv, CheckCurrent
  <2>. QED
    BY <2>1, EditAttributes, GetAttributes, ReconcileAttributes, MonitorSteps
<1>3. AttributionInv /\ Health!TypeOK /\ Health!ChecksInverse => NoPhantomChecks
  <2>. SUFFICES ASSUME AttributionInv, Health!ChecksInverse, Quiet,
                       NEW s \in Summaries, NEW n \in Checks, generatedCheckBySummary[s] = n
                PROVE  storeChecks[n] = s
    BY DEF NoPhantomChecks
  <2>1. generatedChecks[n] = s
    BY DEF Health!ChecksInverse
  <2>2. s # None
    BY NoneIsNothing
  <2>. QED
    BY <2>1, <2>2 DEF Quiet, AttributionInv, CheckCurrent, Keys
<1>. QED
  BY <1>1, <1>2, <1>3, Handing, CacheCoherent, StatusCoherent, PTL DEF Spec, Typed

-----------------------------------------------------------------------------
(* Rows of the cluster list                                                *)

\* Building a row changes nothing that the controllers know of.
THEOREM ListsOnlyRead == ListSpec => Spec
<1>1. ListInit => Init
  BY DEF ListInit
<1>2. [ListNext]_listVars => [Next]_vars
  BY DEF ListNext, listVars, Monitor, ClusterHasIssues, ClusterIsProvisioning,
     ClusterHasOutdatedHelmCharts, ClusterHealthStatus, Answer, Send
<1>. QED
  BY <1>1, <1>2, PTL DEF ListSpec, Spec

RowInv ==
  /\ row.cluster \in Clusters \cup {None} /\ row.disturbed \in BOOLEAN
  /\ row.next \in Questions \cup {"sent"}
  /\ row = [field \in DOMAIN row |-> row[field]]
  /\ DOMAIN row = {"cluster", "next", "disturbed"} \cup Answered(row.next)
  /\ row.next = "issues" => row = NoRow
  /\ row.next # "issues" => row.cluster \in Clusters

\* As long as nothing changed, an answer is what the question would be answered now.
AnswersInv ==
  ~row.disturbed =>
    /\ "issues" \in Answered(row.next) => (row.issues <=> Status!ClusterHasIssues(row.cluster))
    /\ "provisioning" \in Answered(row.next) =>
         (row.provisioning <=> Status!ClusterIsProvisioning(row.cluster))
    /\ "health" \in Answered(row.next) => row.health = clusterStatus[row.cluster]

LEMMA RowKept == ListSpec => []RowInv
<1>1. ListInit => RowInv
  BY DEF ListInit, NoRow, RowInv, Questions, Answered
<1>2. RowInv /\ [ListNext]_listVars => RowInv'
  <2>. SUFFICES ASSUME RowInv, [ListNext]_listVars PROVE RowInv'
    OBVIOUS
  <2>1. CASE UNCHANGED row
    BY <2>1 DEF RowInv
  <2>2. ASSUME NEW c \in Clusters, ClusterHasIssues(c)
        PROVE  RowInv'
    BY <2>2 DEF ClusterHasIssues, RowInv, Questions, Answered
  <2>3. ASSUME NEW question \in Questions, NEW next \in Questions \cup {"sent"}, NEW answer,
               Answer(question, answer, next), row # NoRow, next # "issues",
               Answered(next) = Answered(question) \cup {question}
        PROVE  RowInv'
    <3>1. row'.cluster = row.cluster /\ row'.disturbed = row.disturbed /\ row'.next = next
      BY <2>3 DEF Answer, RowInv, Questions, Answered
    <3>2. DOMAIN row' = DOMAIN row \cup {question}
      BY <2>3 DEF Answer
    <3>3. row' = [field \in DOMAIN row' |-> row'[field]]
      BY <2>3 DEF Answer
    <3>. QED
      BY <2>3, <3>1, <3>2, <3>3 DEF Answer, RowInv
  <2>4. CASE ClusterIsProvisioning \/ ClusterHasOutdatedHelmCharts \/ ClusterHealthStatus
    BY <2>3, <2>4 DEF ClusterIsProvisioning, ClusterHasOutdatedHelmCharts, ClusterHealthStatus,
       Questions, Answered
  <2>5. CASE Send
    BY <2>5 DEF Send, NoRow, RowInv, Questions, Answered
  <2>6. CASE row # NoRow /\ row' = [row EXCEPT !.disturbed = TRUE]
    BY <2>6 DEF RowInv, Questions, Answered
  <2>. QED
    BY <2>1, <2>2, <2>4, <2>5, <2>6 DEF ListNext, Monitor, listVars
<1>. QED
  BY <1>1, <1>2, PTL DEF ListSpec

\* A row has the answers of the questions already asked, and of no other.
THEOREM RowTyping == ListSpec => []RowTypeOK
<1>1. TypeOK /\ RowInv => RowTypeOK
  BY DEF RowInv, RowTypeOK
<1>. QED
  BY <1>1, ListsOnlyRead, Typing, RowKept, PTL

LEMMA AnswersKept == ListSpec => []AnswersInv
<1>1. ListInit => AnswersInv
  BY DEF ListInit, NoRow, AnswersInv, Answered
<1>2. RowInv /\ AnswersInv /\ [ListNext]_listVars => AnswersInv'
  <2>. SUFFICES ASSUME RowInv, AnswersInv, [ListNext]_listVars PROVE AnswersInv'
    OBVIOUS
  <2>0. ASSUME UNCHANGED <<statusVars, clusterStatus>>
        PROVE  /\ \A c : Status!ClusterHasIssues(c)' <=> Status!ClusterHasIssues(c)
               /\ \A c : Status!ClusterIsProvisioning(c)' <=> Status!ClusterIsProvisioning(c)
               /\ UNCHANGED clusterStatus
    BY <2>0 DEF Status!ClusterHasIssues, Status!ClusterIsProvisioning, statusVars
  <2>1. CASE UNCHANGED row /\ UNCHANGED <<statusVars, clusterStatus>>
    BY <2>0, <2>1 DEF AnswersInv
  <2>2. CASE row' = NoRow
    BY <2>2 DEF NoRow, AnswersInv, Answered
  <2>3. CASE row' = [row EXCEPT !.disturbed = TRUE]
    BY <2>3 DEF RowInv, AnswersInv
  <2>4. ASSUME NEW c \in Clusters, ClusterHasIssues(c)
        PROVE  AnswersInv'
    <3>1. UNCHANGED <<statusVars, clusterStatus>>
      BY <2>4 DEF ClusterHasIssues, vars, healthVars
    <3>2. /\ row'.cluster = c /\ row'.next = "provisioning"
          /\ row'.issues = Status!ClusterHasIssues(c)
      BY <2>4 DEF ClusterHasIssues
    <3>. QED
      BY <2>0, <3>1, <3>2 DEF AnswersInv, Answered
  <2>5. ASSUME NEW question, NEW answer, NEW next, Answer(question, answer, next),
               question \in {"provisioning", "outdated", "health"}
        PROVE  /\ row.next = question /\ UNCHANGED <<statusVars, clusterStatus>>
               /\ row'.cluster = row.cluster /\ row'.disturbed = row.disturbed
               /\ row'.next = next /\ row'[question] = answer
               /\ "issues" \in Answered(row.next) => row'.issues = row.issues
               /\ question # "provisioning" /\ "provisioning" \in Answered(row.next)
                    => row'.provisioning = row.provisioning
    <3>1. row.next = question /\ UNCHANGED <<statusVars, clusterStatus>>
      BY <2>5 DEF Answer, vars, healthVars
    <3>2. \A field \in DOMAIN row \cup {question} :
            row'[field] = IF field = question THEN answer
                          ELSE IF field = "next" THEN next ELSE row[field]
      BY <2>5 DEF Answer
    <3>3. {"cluster", "disturbed", "next"} \cup Answered(row.next) \subseteq DOMAIN row
      BY DEF RowInv
    <3>. QED
      BY <2>5, <3>1, <3>2, <3>3
  <2>6. CASE ClusterIsProvisioning
    <3>1. row.next = "provisioning" /\ row'.next = "outdated"
          /\ row'.provisioning = Status!ClusterIsProvisioning(row.cluster)
      BY <2>5, <2>6 DEF ClusterIsProvisioning
    <3>2. /\ UNCHANGED <<statusVars, clusterStatus>>
          /\ row'.cluster = row.cluster /\ row'.disturbed = row.disturbed
          /\ row'.issues = row.issues
      BY <2>5, <2>6, <3>1 DEF ClusterIsProvisioning, Answered
    <3>. QED
      BY <2>0, <3>1, <3>2 DEF AnswersInv, Answered
  <2>7. CASE ClusterHasOutdatedHelmCharts
    <3>1. row.next = "outdated" /\ row'.next = "health"
      BY <2>5, <2>7 DEF ClusterHasOutdatedHelmCharts
    <3>2. /\ UNCHANGED <<statusVars, clusterStatus>>
          /\ row'.cluster = row.cluster /\ row'.disturbed = row.disturbed
          /\ row'.issues = row.issues /\ row'.provisioning = row.provisioning
      BY <2>5, <2>7, <3>1 DEF ClusterHasOutdatedHelmCharts, Answered
    <3>. QED
      BY <2>0, <3>1, <3>2 DEF AnswersInv, Answered
  <2>8. CASE ClusterHealthStatus
    <3>1. row.next = "health" /\ row'.next = "sent"
          /\ row'.health = clusterStatus[row.cluster]
      BY <2>5, <2>8 DEF ClusterHealthStatus
    <3>2. /\ UNCHANGED <<statusVars, clusterStatus>>
          /\ row'.cluster = row.cluster /\ row'.disturbed = row.disturbed
          /\ row'.issues = row.issues /\ row'.provisioning = row.provisioning
      BY <2>5, <2>8, <3>1 DEF ClusterHealthStatus, Answered
    <3>. QED
      BY <2>0, <3>1, <3>2 DEF AnswersInv, Answered, Questions
  <2>9. CASE Monitor
    <3>1. CASE row = NoRow
      BY <2>2, <2>9, <3>1 DEF Monitor
    <3>2. CASE row # NoRow
      BY <2>1, <2>3, <2>9, <3>2 DEF Monitor
    <3>. QED
      BY <3>1, <3>2
  <2>10. CASE Send \/ UNCHANGED listVars
    BY <2>1, <2>2, <2>10 DEF Send, listVars, vars, healthVars
  <2>. QED
    BY <2>4, <2>6, <2>7, <2>8, <2>9, <2>10 DEF ListNext
<1>. QED
  BY <1>1, <1>2, RowKept, PTL DEF ListSpec

\* A row built while nothing changed agrees with the reports of its cluster and with the health
\* computed from scratch, provided a summary is for one cluster: each of the four questions has
\* a lock of its own, and between them only a change of what they read does harm.
THEOREM RowsHold ==
  ASSUME Status!OneCluster
  PROVE  ListSpec => []UndisturbedRow
<1>1. RowInv /\ AnswersInv /\ Status!BadgesMatchRows /\ Health!StatusFresh => UndisturbedRow
  <2>. SUFFICES ASSUME RowInv, AnswersInv, Status!BadgesMatchRows, Health!StatusFresh,
                       row.next = "sent", ~row.disturbed
                PROVE  UndisturbedRow
    BY DEF UndisturbedRow
  <2>1. row.cluster \in Clusters
    BY DEF RowInv
  <2>2. /\ row.issues <=> Status!ClusterHasIssues(row.cluster)
        /\ row.provisioning <=> Status!ClusterIsProvisioning(row.cluster)
        /\ row.health = clusterStatus[row.cluster]
    BY DEF AnswersInv, Answered, Questions
  <2>3. row.health = Health!StatusEntry(row.cluster)
    BY <2>1, <2>2 DEF Health!StatusFresh
  <2>. QED
    BY <2>1, <2>2, <2>3 DEF UndisturbedRow, Status!BadgesMatchRows
<1>. QED
  BY <1>1, RowKept, AnswersKept, ListsOnlyRead, CacheCoherent, StatusCoherent, PTL

=============================================================================
