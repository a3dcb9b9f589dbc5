--------------------------- MODULE ClusterMonitor ---------------------------
(***************************************************************************)
(* The controllers for ClusterSummaries, HealthChecks and                  *)
(* HealthCheckReports (internal/controller) feeding HealthCache and        *)
(* ClusterStatus.  Objects change in the informers' stores; a predicate    *)
(* decides whether a change is queued; a worker takes a key off the queue, *)
(* reads the object from the store, and only later applies what it read.   *)
(* A queue never hands one key to two workers, and keys of different       *)
(* objects are worked on at the same time.                                 *)
(***************************************************************************)
EXTENDS Naturals, FiniteSets

CONSTANTS
  Summaries, Checks, Reports, Clusters, SummaryInputs, ReportInputs,
  Callers,           \* the goroutine inside removeSummary is the worker of the summary
  None, NotEnabled, Evaluate(_, _), Home, FeatureSets, ChartSets,
  SummaryContents,   \* what a ClusterSummary may contain, besides its cluster
  ReportClusters,    \* clusters a HealthCheckReport may be for
  NotGenerated,      \* a HealthCheck without the generated label
  MaxEdits           \* bound on the number of object changes

Content ==
  [verified : BOOLEAN,           \* labels and owner reference verifyLabelConfiguration wants
   enabled : BOOLEAN,            \* health monitoring
   input : SummaryInputs,
   features : FeatureSets, dependencies : BOOLEAN, charts : ChartSets]

Keys == Summaries \cup Checks \cup Reports

ASSUME MonitorConstants ==
  /\ Summaries \cap Checks = {} /\ Summaries \cap Reports = {} /\ Checks \cap Reports = {}
  /\ SummaryContents \subseteq Content
  /\ ReportClusters \subseteq Clusters
  /\ NotGenerated \notin Summaries \cup {None}
  /\ Callers = Summaries
  /\ MaxEdits \in Nat

VARIABLES
  summaries, summariesByCluster, generatedChecks, generatedCheckBySummary,
  reports, reportsByCluster, clusterStatus, known,
  clusterSummaryReport, clusterWithIssues, clusterProvisioning,
  clusterWithOutdatedHelmCharts,
  storeSummaries,   \* [Summaries -> [cluster, content] or None]
  storeChecks,      \* [Checks -> owner, NotGenerated or None]
  storeReports,     \* [Reports -> [cluster, input] or None]
  queue,            \* keys waiting for a worker
  work,             \* [Keys -> what the worker of the key has to do, or None]
  edits

Health == INSTANCE HealthCache
Status == INSTANCE ClusterStatus

healthVars == <<summaries, summariesByCluster, generatedChecks, generatedCheckBySummary,
                reports, reportsByCluster, clusterStatus, known>>
statusVars == <<clusterSummaryReport, clusterWithIssues, clusterProvisioning,
                clusterWithOutdatedHelmCharts>>
store == <<storeSummaries, storeChecks, storeReports>>
vars == <<healthVars, statusVars, store, queue, work, edits>>

SummaryObject == [cluster : Clusters, content : SummaryContents]

Steps == {"start", "lock", "status"}
Work == [step : Steps,
         object : SummaryObject \cup Health!HealthReport \cup Summaries \cup {NotGenerated, None}]

ASSUME NoneIsNothing ==
  /\ None \notin Summaries \cup Checks
  /\ None \notin SummaryObject \cup Health!HealthSummary \cup Health!HealthReport
  /\ None \notin Work \cup Status!Report

\* What the parts assume.
ASSUME PartsConstants ==
  /\ Evaluate(Health!NoInputs, Health!NoInputs) = NotEnabled
  /\ Home \in [Summaries -> SUBSET Clusters]
  /\ FeatureSets \subseteq SUBSET Status!Feature
  /\ ChartSets \subseteq SUBSET Status!HelmChart

TypeOK ==
  /\ Health!TypeOK
  /\ Status!TypeOK
  /\ storeSummaries \in [Summaries -> SummaryObject \cup {None}]
  /\ storeChecks \in [Checks -> Summaries \cup {NotGenerated, None}]
  /\ storeReports \in [Reports -> Health!HealthReport \cup {None}]
  /\ queue \subseteq Keys
  /\ work \in [Keys -> Work \cup {None}]
  /\ edits \in 0..MaxEdits

Init ==
  /\ Health!Init
  /\ Status!Init
  /\ storeSummaries = [s \in Summaries |-> None]
  /\ storeChecks = [n \in Checks |-> None]
  /\ storeReports = [r \in Reports |-> None]
  /\ queue = {}
  /\ work = [k \in Keys |-> None]
  /\ edits = 0

-----------------------------------------------------------------------------
(* Changes of objects, and the predicates that let them through            *)

Edit ==
  /\ edits < MaxEdits
  /\ edits' = edits + 1
  /\ UNCHANGED <<healthVars, statusVars, work>>

\* Creation and deletion always pass; an update passes when the spec, the features,
\* the dependencies or the charts change: all of the object but its metadata.
ClusterSummaryPredicate(old, new) ==
  \/ old = None
  \/ new = None
  \/ [old EXCEPT !.content.verified = TRUE] # [new EXCEPT !.content.verified = TRUE]

\* Faulty: only the new object is looked at.
GeneratedNow(old, new) == new \notin {None, NotGenerated}

\* Faulty: an update that changes nothing, as the resync sends, is dropped.
GeneratedAndChanged(old, new) == old # new /\ {old, new} \ {None, NotGenerated} # {}

GeneratedHealthCheckPredicate(old, new) == {old, new} \ {None, NotGenerated} # {}

\* Faulty: an event that comes while a worker has the key is dropped.
EnqueueUnlessBusy(k, passes) ==
  queue' = IF passes /\ work[k] = None THEN queue \cup {k} ELSE queue

Enqueue(k, passes) == queue' = IF passes THEN queue \cup {k} ELSE queue

\* Labels and owner references are set at creation and stay.
EditSummary(s, new) ==
  /\ new # storeSummaries[s]
  /\ new # None /\ storeSummaries[s] # None =>
       new.content.verified = storeSummaries[s].content.verified
  /\ Edit
  /\ Enqueue(s, ClusterSummaryPredicate(storeSummaries[s], new))
  /\ storeSummaries' = [storeSummaries EXCEPT ![s] = new]
  /\ UNCHANGED <<storeChecks, storeReports>>

\* At any time a ClusterSummary has at most one HealthCheck generated for it.
EditCheck(n, new) ==
  /\ new # storeChecks[n]
  /\ new \in Summaries => \A m \in Checks : storeChecks[m] # new
  /\ Edit
  /\ Enqueue(n, GeneratedHealthCheckPredicate(storeChecks[n], new))
  /\ storeChecks' = [storeChecks EXCEPT ![n] = new]
  /\ UNCHANGED <<storeSummaries, storeReports>>

\* GenerationChangedPredicate: all of a report is its spec.
EditReport(r, new) ==
  /\ new # storeReports[r]
  /\ Edit
  /\ Enqueue(r, TRUE)
  /\ storeReports' = [storeReports EXCEPT ![r] = new]
  /\ UNCHANGED <<storeSummaries, storeChecks>>

\* The periodic resync sends an update from each object to itself.  Only the predicate
\* of the generated HealthChecks lets it through.
Resync(n) ==
  /\ GeneratedHealthCheckPredicate(storeChecks[n], storeChecks[n])
  /\ queue' = queue \cup {n}
  /\ UNCHANGED <<healthVars, statusVars, store, work, edits>>

-----------------------------------------------------------------------------
(* Workers                                                                 *)

Stored(k) ==
  IF k \in Summaries THEN storeSummaries[k]
  ELSE IF k \in Checks THEN storeChecks[k]
  ELSE storeReports[k]

\* Faulty: the worker keeps the key in place of the object.
GetKey(k) ==
  /\ k \in queue
  /\ work[k] = None
  /\ queue' = queue \ {k}
  /\ work' = [work EXCEPT ![k] = [step |-> "start", object |-> k]]
  /\ UNCHANGED <<healthVars, statusVars, store, edits>>

\* A worker takes the key and gets the object.
Get(k) ==
  /\ k \in queue
  /\ work[k] = None
  /\ queue' = queue \ {k}
  /\ work' = [work EXCEPT ![k] = [step |-> "start", object |-> Stored(k)]]
  /\ UNCHANGED <<healthVars, statusVars, store, edits>>

At(k, step) == work[k] # None /\ work[k].step = step

GoTo(k, step) ==
  /\ work' = [work EXCEPT ![k].step = step]
  /\ UNCHANGED <<store, queue, edits>>

Done(k) ==
  /\ work' = [work EXCEPT ![k] = None]
  /\ UNCHANGED <<store, queue, edits>>

Monitored(object) == object # None /\ object.content.enabled
Ignored(object) == object # None /\ ~object.content.verified

\* AddClusterProfileStatus returns at once: the summary is not verified.
IgnoreSummary(s) ==
  /\ At(s, "start")
  /\ Ignored(work[s].object)
  /\ Done(s)
  /\ UNCHANGED <<healthVars, statusVars>>

\* addHealthSummary, health monitoring enabled.
RecordHealth(s) ==
  LET object == work[s].object IN
  /\ At(s, "start")
  /\ ~Ignored(object) /\ Monitored(object)
  /\ Health!SetSummary(s, object.cluster, object.content.input)
  /\ GoTo(s, "status")
  /\ UNCHANGED statusVars

\* removeSummary, for a summary that is gone or not monitored: unknown to the cache...
NothingToForget(s) ==
  /\ At(s, "start")
  /\ ~Ignored(work[s].object) /\ ~Monitored(work[s].object)
  /\ summaries[s] = None
  /\ GoTo(s, "status")
  /\ UNCHANGED <<healthVars, statusVars>>

\* ...or known: look, then lock and remove.
LookBeforeForgetting(s) ==
  /\ At(s, "start")
  /\ ~Ignored(work[s].object) /\ ~Monitored(work[s].object)
  /\ Health!RemoveSummaryLook(s, s)
  /\ GoTo(s, "lock")
  /\ UNCHANGED statusVars

ForgetHealth(s) ==
  /\ At(s, "lock")
  /\ Health!RemoveSummary(s)
  /\ GoTo(s, "status")
  /\ UNCHANGED statusVars

\* The second half of AddClusterProfileStatus and of RemoveClusterProfileStatus.
ReportStatus(s) ==
  LET object == work[s].object IN
  /\ At(s, "status")
  /\ IF object = None
     THEN Status!DropReport(s)
     ELSE Status!SetReport(s, object.cluster, object.content.features,
                           object.content.dependencies, object.content.charts)
  /\ Done(s)
  /\ UNCHANGED healthVars

\* A HealthCheck generated for a summary is recorded, any other forgotten.
ReconcileCheck(n) ==
  LET object == work[n].object IN
  /\ At(n, "start")
  /\ IF object \in Summaries THEN Health!SetGeneratedCheck(n, object)
     ELSE IF generatedChecks[n] # None THEN Health!RemoveGeneratedCheck(n)
     ELSE UNCHANGED healthVars
  /\ Done(n)
  /\ UNCHANGED statusVars

ReconcileReport(r) ==
  LET object == work[r].object IN
  /\ At(r, "start")
  /\ IF object # None THEN Health!SetReport(r, object.cluster, object.input)
     ELSE IF reports[r] # None THEN Health!RemoveReport(r)
     ELSE UNCHANGED healthVars
  /\ Done(r)
  /\ UNCHANGED statusVars

ReconcileSummary(s) ==
  \/ IgnoreSummary(s)
  \/ RecordHealth(s)
  \/ NothingToForget(s)
  \/ LookBeforeForgetting(s)
  \/ ForgetHealth(s)
  \/ ReportStatus(s)

-----------------------------------------------------------------------------

Next ==
  \/ \E s \in Summaries, c \in Clusters, content \in SummaryContents :
       c \in Home[s] /\ EditSummary(s, [cluster |-> c, content |-> content])
  \/ \E s \in Summaries : EditSummary(s, None)
  \/ \E n \in Checks, new \in Summaries \cup {NotGenerated, None} : EditCheck(n, new)
  \/ \E r \in Reports, c \in Clusters, i \in ReportInputs :
       c \in ReportClusters /\ EditReport(r, [cluster |-> c, input |-> i])
  \/ \E r \in Reports : EditReport(r, None)
  \/ \E n \in Checks : Resync(n)
  \/ \E k \in Keys : Get(k)
  \/ \E s \in Summaries : ReconcileSummary(s)
  \/ \E n \in Checks : ReconcileCheck(n)
  \/ \E r \in Reports : ReconcileReport(r)

Spec == Init /\ [][Next]_vars

\* Workers never stop while there is work, and the resync comes again and again.
Fairness ==
  /\ \A k \in Keys : WF_vars(Get(k))
  /\ \A s \in Summaries : WF_vars(ReconcileSummary(s))
  /\ \A n \in Checks : WF_vars(ReconcileCheck(n)) /\ WF_vars(Resync(n))
  /\ \A r \in Reports : WF_vars(ReconcileReport(r))

FairSpec == Spec /\ Fairness

-----------------------------------------------------------------------------
(* Properties                                                              *)

Quiet == queue = {} /\ \A k \in Keys : work[k] = None

\* What the caches should hold for an object as it is in the store.
HealthOf(object) ==
  IF Monitored(object) THEN [cluster |-> object.cluster, input |-> object.content.input] ELSE None
ReportOf(object) ==
  IF object = None THEN None
  ELSE [cluster |-> object.cluster, features |-> object.content.features,
        dependencies |-> object.content.dependencies, charts |-> object.content.charts]

SummariesAgree ==
  \A s \in Summaries : ~Ignored(storeSummaries[s]) =>
    /\ summaries[s] = HealthOf(storeSummaries[s])
    /\ clusterSummaryReport[s] = ReportOf(storeSummaries[s])
ReportsAgree == reports = storeReports

\* The outdated badge, the only one whose cause the code's reports do not keep.
OutdatedAgree ==
  \A c \in Clusters : (\A s \in Summaries : ~Ignored(storeSummaries[s])) =>
    (Status!ClusterHasOutdatedHelmCharts(c) <=>
       \E s \in Summaries :
         /\ storeSummaries[s] # None /\ storeSummaries[s].cluster = c
         /\ Status!clusterSummaryHasOutdatedHelmCharts(storeSummaries[s].content.charts))

Agree == SummariesAgree /\ ReportsAgree /\ OutdatedAgree

\* When no key waits and no worker runs, the caches say what the stores say, although
\* each worker applied a copy that may have been out of date: an object that changed in
\* between was queued again.
QuietAgrees == Quiet => Agree

\* When everything is processed, a check the cache attributes to a summary exists and
\* was generated for it.
NoPhantomChecks ==
  Quiet => \A s \in Summaries, n \in Checks :
             generatedCheckBySummary[s] = n => storeChecks[n] = s

\* A summary holds its check in the cache.
Attributed ==
  \A n \in Checks : storeChecks[n] \in Summaries => generatedCheckBySummary[storeChecks[n]] = n

\* Once objects stop changing, the caches end up agreeing with the stores for good, the
\* attribution of the checks included: a check lost to the order of events comes back
\* with the next resync.
Converges == <>[](Agree /\ Attributed)

=============================================================================
