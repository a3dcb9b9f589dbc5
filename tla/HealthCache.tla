---------------------------- MODULE HealthCache ----------------------------
(***************************************************************************)
(* healthCache of internal/server/health.go: the maps behind the question  *)
(* "how healthy is this cluster", kept up to date one event at a time.     *)
(*                                                                         *)
(* This module is the cache alone, open to callers that invoke its methods *)
(* in any order and with any arguments.  Each method body runs under mux   *)
(* and is one action, except removeSummary, which looks under the read     *)
(* lock first and takes the write lock later: two actions per caller.      *)
(* ClusterMonitor closes the module with the reconcilers that really call *)
(* it.                                                                     *)
(***************************************************************************)

CONSTANTS
  Summaries,        \* references of ClusterSummaries
  Checks,           \* names of HealthChecks
  Reports,          \* references of HealthCheckReports
  Clusters,         \* cluster keys "<type>/<namespace>/<name>"
  SummaryInputs,    \* what the join reads of a ClusterSummary
  ReportInputs,     \* what the join reads of a HealthCheckReport
  Callers,          \* goroutines that may be inside removeSummary
  None,             \* "no entry"
  NotEnabled,       \* the state of a cluster nothing monitors
  Evaluate(_, _)    \* healthmonitoring.Evaluate(...).State, from another module

HealthSummary == [cluster : Clusters, input : SummaryInputs]
HealthReport == [cluster : Clusters, input : ReportInputs]

ASSUME NoneIsNoEntry ==
  /\ None \notin HealthSummary
  /\ None \notin HealthReport
  /\ None \notin Summaries
  /\ None \notin Checks

\* What the join says of a cluster nothing is filed under.
NoInputs == [x \in {} |-> None]

ASSUME NothingMonitored == Evaluate(NoInputs, NoInputs) = NotEnabled

VARIABLES
  summaries,                \* [Summaries -> entry or None]
  summariesByCluster,       \* [Clusters -> set of Summaries]; {} is no entry
  generatedChecks,          \* [Checks -> owning summary or None]
  generatedCheckBySummary,  \* [Summaries -> check or None]
  reports,                  \* [Reports -> entry or None]
  reportsByCluster,         \* [Clusters -> set of Reports]
  clusterStatus,            \* [Clusters -> state or None]
  known                     \* [Callers -> summary the caller found known, or None]

summaryMaps == <<summaries, summariesByCluster>>
checkMaps == <<generatedChecks, generatedCheckBySummary>>
reportMaps == <<reports, reportsByCluster>>
vars == <<summaryMaps, checkMaps, reportMaps, clusterStatus, known>>

TypeOK ==
  /\ summaries \in [Summaries -> HealthSummary \cup {None}]
  /\ summariesByCluster \in [Clusters -> SUBSET Summaries]
  /\ generatedChecks \in [Checks -> Summaries \cup {None}]
  /\ generatedCheckBySummary \in [Summaries -> Checks \cup {None}]
  /\ reports \in [Reports -> HealthReport \cup {None}]
  /\ reportsByCluster \in [Clusters -> SUBSET Reports]
  /\ clusterStatus = [c \in Clusters |-> clusterStatus[c]]
  /\ known \in [Callers -> Summaries \cup {None}]

Init ==
  /\ summaries = [s \in Summaries |-> None]
  /\ summariesByCluster = [c \in Clusters |-> {}]
  /\ generatedChecks = [n \in Checks |-> None]
  /\ generatedCheckBySummary = [s \in Summaries |-> None]
  /\ reports = [r \in Reports |-> None]
  /\ reportsByCluster = [c \in Clusters |-> {}]
  /\ clusterStatus = [c \in Clusters |-> None]
  /\ known = [w \in Callers |-> None]

-----------------------------------------------------------------------------
(* clusterSets                                                             *)

Insert(index, c, ref) == [index EXCEPT ![c] = @ \cup {ref}]

Erase(index, c, ref) == [index EXCEPT ![c] = @ \ {ref}]

\* Faulty: an object that moved stays in the set of its previous cluster.
ReindexWithoutErase(index, ref, previous, c) == Insert(index, c, ref)

\* Insert under the new cluster, then erase from the previous one if it changed.
Reindex(index, ref, previous, c) ==
  IF previous # None /\ previous.cluster # c
  THEN Erase(Insert(index, c, ref), previous.cluster, ref)
  ELSE Insert(index, c, ref)

\* The cluster an entry is for, as a set: empty for no entry.
ClusterOf(entry) == IF entry = None THEN {} ELSE {entry.cluster}

-----------------------------------------------------------------------------
(* The join and its cached result                                          *)

\* Inputs keep the reference they come from: equal inputs do not merge.
SummaryInputsOf(c) ==
  [s \in summariesByCluster[c] |->
     [input |-> summaries[s].input, check |-> generatedCheckBySummary[s]]]

ReportInputsOf(c) == [r \in reportsByCluster[c] |-> reports[r].input]

\* evaluate: what /clusterHealth answers.
GetClusterHealth(c) == Evaluate(SummaryInputsOf(c), ReportInputsOf(c))

\* The entry recompute stores; for NotEnabled it deletes the entry.
StatusEntry(c) == IF GetClusterHealth(c) = NotEnabled THEN None ELSE GetClusterHealth(c)

\* recompute of the clusters in touched.  The code calls it before and after its
\* other assignments, under one lock; a call only reads what is filed under its
\* own cluster, so each gives what the maps give at unlock.
Recompute(touched) ==
  clusterStatus' = [c \in Clusters |->
                      IF c \in touched THEN StatusEntry(c)' ELSE clusterStatus[c]]

-----------------------------------------------------------------------------
(* ClusterSummaries                                                        *)

\* Faulty: the cluster the summary came from is not recomputed.
SetSummaryNewClusterOnly(s, c, input) ==
  /\ summaries' = [summaries EXCEPT ![s] = [cluster |-> c, input |-> input]]
  /\ summariesByCluster' = Reindex(summariesByCluster, s, summaries[s], c)
  /\ UNCHANGED <<checkMaps, reportMaps, known>>
  /\ Recompute({c})

SetSummary(s, c, input) ==
  /\ summaries' = [summaries EXCEPT ![s] = [cluster |-> c, input |-> input]]
  /\ summariesByCluster' = Reindex(summariesByCluster, s, summaries[s], c)
  /\ UNCHANGED <<checkMaps, reportMaps, known>>
  /\ Recompute({c} \cup ClusterOf(summaries[s]))

\* Faulty: the caller keeps the entry it found, not the reference.
RemoveSummaryLookKeepsEntry(w, s) ==
  /\ known[w] = None
  /\ summaries[s] # None
  /\ known' = [known EXCEPT ![w] = summaries[s]]
  /\ UNCHANGED <<summaryMaps, checkMaps, reportMaps, clusterStatus>>

\* Under the read lock.  A caller that finds the summary unknown returns: no step.
RemoveSummaryLook(w, s) ==
  /\ known[w] = None
  /\ summaries[s] # None
  /\ known' = [known EXCEPT ![w] = s]
  /\ UNCHANGED <<summaryMaps, checkMaps, reportMaps, clusterStatus>>

\* Under the write lock: the summary may be gone, or moved, since the look.
RemoveSummary(w) ==
  /\ known[w] # None
  /\ known' = [known EXCEPT ![w] = None]
  /\ LET s == known[w] IN
       IF summaries[s] = None
       THEN UNCHANGED <<summaryMaps, checkMaps, reportMaps, clusterStatus>>
       ELSE /\ summaries' = [summaries EXCEPT ![s] = None]
            /\ summariesByCluster' = Erase(summariesByCluster, summaries[s].cluster, s)
            /\ UNCHANGED <<checkMaps, reportMaps>>
            /\ Recompute({summaries[s].cluster})

-----------------------------------------------------------------------------
(* HealthChecks                                                            *)

\* Faulty: the previous owner keeps a name that was handed over.
NoOwnerLosing(name, owner) == {}

\* The owner the name had before, if that owner still maps back to the name.
OwnerLosing(name, owner) ==
  LET previous == generatedChecks[name] IN
  IF previous # None /\ previous # owner /\ generatedCheckBySummary[previous] = name
  THEN {previous} ELSE {}

\* Faulty: the name an owner had before still maps to it.
NoNameDropped(name, owner) == {}

\* The other name the owner had before.
NameDropped(name, owner) == {generatedCheckBySummary[owner]} \ {None, name}

SetGeneratedCheck(name, owner) ==
  /\ generatedChecks' =
       [n \in Checks |-> IF n = name THEN owner
                         ELSE IF n \in NameDropped(name, owner) THEN None
                         ELSE generatedChecks[n]]
  /\ generatedCheckBySummary' =
       [s \in Summaries |-> IF s = owner THEN name
                            ELSE IF s \in OwnerLosing(name, owner) THEN None
                            ELSE generatedCheckBySummary[s]]
  /\ UNCHANGED <<summaryMaps, reportMaps, known>>
  /\ Recompute(UNION {ClusterOf(summaries[s]) : s \in {owner} \cup OwnerLosing(name, owner)})

RemoveGeneratedCheck(name) ==
  LET owner == generatedChecks[name] IN
  /\ owner # None
  /\ generatedChecks' = [generatedChecks EXCEPT ![name] = None]
  /\ generatedCheckBySummary' =
       IF generatedCheckBySummary[owner] = name
       THEN [generatedCheckBySummary EXCEPT ![owner] = None]
       ELSE generatedCheckBySummary
  /\ UNCHANGED <<summaryMaps, reportMaps, known>>
  /\ Recompute(ClusterOf(summaries[owner]))

-----------------------------------------------------------------------------
(* HealthCheckReports                                                      *)

SetReport(r, c, input) ==
  /\ reports' = [reports EXCEPT ![r] = [cluster |-> c, input |-> input]]
  /\ reportsByCluster' = Reindex(reportsByCluster, r, reports[r], c)
  /\ UNCHANGED <<summaryMaps, checkMaps, known>>
  /\ Recompute({c} \cup ClusterOf(reports[r]))

RemoveReport(r) ==
  /\ reports[r] # None
  /\ reports' = [reports EXCEPT ![r] = None]
  /\ reportsByCluster' = Erase(reportsByCluster, reports[r].cluster, r)
  /\ UNCHANGED <<summaryMaps, checkMaps, known>>
  /\ Recompute({reports[r].cluster})

-----------------------------------------------------------------------------

Next ==
  \/ \E s \in Summaries, c \in Clusters, i \in SummaryInputs : SetSummary(s, c, i)
  \/ \E w \in Callers, s \in Summaries : RemoveSummaryLook(w, s)
  \/ \E w \in Callers : RemoveSummary(w)
  \/ \E n \in Checks, s \in Summaries : SetGeneratedCheck(n, s)
  \/ \E n \in Checks : RemoveGeneratedCheck(n)
  \/ \E r \in Reports, c \in Clusters, i \in ReportInputs : SetReport(r, c, i)
  \/ \E r \in Reports : RemoveReport(r)

Spec == Init /\ [][Next]_vars

-----------------------------------------------------------------------------
(* Properties                                                              *)

\* Each index holds exactly the objects filed under the cluster they name now: an
\* object that moved or was deleted is in no other cluster's set (setSummary,
\* setReport and the removals keep map and index together).
IndexExact ==
  \A c \in Clusters :
    /\ summariesByCluster[c] = {s \in Summaries : c \in ClusterOf(summaries[s])}
    /\ reportsByCluster[c] = {r \in Reports : c \in ClusterOf(reports[r])}

\* The two HealthCheck maps are inverse of each other, whatever the order in which
\* checks are generated, handed over and deleted.
ChecksInverse ==
  \A n \in Checks, s \in Summaries :
    generatedChecks[n] = s <=> generatedCheckBySummary[s] = n

\* The cached state of every cluster is the one the join gives on the maps as they
\* are: recomputing only the clusters an event touches never leaves one behind, so
\* the cluster list (state) and the health page (evaluate) agree.
StatusFresh == \A c \in Clusters : clusterStatus[c] = StatusEntry(c)

\* Event by event, with two indexes, two maps and a partial recomputation, the cache
\* behaves as one that recomputes every cluster from all it was told, and in which a
\* HealthCheck and a ClusterSummary belong to at most one another.
View == INSTANCE HealthView
  WITH monitored <- summaries,
       attributed <- {p \in Checks \X Summaries : generatedChecks[p[1]] = p[2]},
       reported <- reports,
       status <- clusterStatus

ImplementsView == View!Spec

=============================================================================
