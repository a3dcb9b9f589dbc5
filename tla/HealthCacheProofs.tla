------------------------- MODULE HealthCacheProofs -------------------------
(***************************************************************************)
(* TLAPS proofs about HealthCache: for any number of objects, clusters and *)
(* callers, and whatever function of its inputs the evaluation is, the     *)
(* cache is coherent after every event.                                    *)
(***************************************************************************)
EXTENDS HealthCache, TLAPS

\* TypeOK is inductive.
THEOREM Typing == Spec => []TypeOK
<1>1. Init => TypeOK
  BY DEF Init, TypeOK
<1>2. TypeOK /\ [Next]_vars => TypeOK'
  <2> SUFFICES ASSUME TypeOK, [Next]_vars PROVE TypeOK'
    OBVIOUS
  <2> USE NoneIsNoEntry DEF TypeOK, HealthSummary, HealthReport, checkMaps, summaryMaps,
                            reportMaps, Recompute
  <2>1. ASSUME NEW s \in Summaries, NEW c \in Clusters, NEW i \in SummaryInputs,
               SetSummary(s, c, i)
        PROVE  TypeOK'
    BY <2>1 DEF SetSummary, Reindex, Insert, Erase
  <2>2. ASSUME NEW w \in Callers, NEW s \in Summaries, RemoveSummaryLook(w, s)
        PROVE  TypeOK'
    BY <2>2 DEF RemoveSummaryLook
  <2>3. ASSUME NEW w \in Callers, RemoveSummary(w)
        PROVE  TypeOK'
    BY <2>3 DEF RemoveSummary, Erase
  <2>4. ASSUME NEW n \in Checks, NEW s \in Summaries, SetGeneratedCheck(n, s)
        PROVE  TypeOK'
    BY <2>4 DEF SetGeneratedCheck
  <2>5. ASSUME NEW n \in Checks, RemoveGeneratedCheck(n)
        PROVE  TypeOK'
    BY <2>5 DEF RemoveGeneratedCheck
  <2>6. ASSUME NEW r \in Reports, NEW c \in Clusters, NEW i \in ReportInputs,
               SetReport(r, c, i)
        PROVE  TypeOK'
    BY <2>6 DEF SetReport, Reindex, Insert, Erase
  <2>7. ASSUME NEW r \in Reports, RemoveReport(r)
        PROVE  TypeOK'
    BY <2>7 DEF RemoveReport, Erase
  <2>8. CASE UNCHANGED vars
    BY <2>8 DEF vars
  <2>. QED
    BY <2>1, <2>2, <2>3, <2>4, <2>5, <2>6, <2>7, <2>8 DEF Next
<1>. QED
  BY <1>1, <1>2, PTL DEF Spec

-----------------------------------------------------------------------------
(* Indexes                                                                 *)

\* IndexExact is inductive with the types: only the four actions that file or
\* unfile an object touch an index, and each touches map and index alike.
THEOREM IndexesExact == Spec => []IndexExact
<1>1. Init => IndexExact
  BY DEF Init, IndexExact, ClusterOf
<1>2. TypeOK /\ IndexExact /\ [Next]_vars => IndexExact'
  <2> SUFFICES ASSUME TypeOK, IndexExact, [Next]_vars PROVE IndexExact'
    OBVIOUS
  <2>0. /\ \A c \in Clusters, i \in SummaryInputs : [cluster |-> c, input |-> i] # None
        /\ \A c \in Clusters, i \in ReportInputs : [cluster |-> c, input |-> i] # None
        /\ \A s \in Summaries : summaries[s] # None => summaries[s].cluster \in Clusters
        /\ \A r \in Reports : reports[r] # None => reports[r].cluster \in Clusters
    BY NoneIsNoEntry DEF TypeOK, HealthSummary, HealthReport
  <2>1. ASSUME NEW s \in Summaries, NEW c \in Clusters, NEW i \in SummaryInputs,
               SetSummary(s, c, i)
        PROVE  IndexExact'
    <3> DEFINE e == [cluster |-> c, input |-> i]
    <3>1. \A k \in Clusters :
            summariesByCluster'[k]
              = {x \in Summaries : k \in ClusterOf(IF x = s THEN e ELSE summaries[x])}
      BY <2>0, <2>1 DEF SetSummary, Reindex, Insert, Erase, ClusterOf, TypeOK, IndexExact
    <3>2. \A x \in Summaries : summaries'[x] = IF x = s THEN e ELSE summaries[x]
      BY <2>1 DEF SetSummary, TypeOK
    <3>. QED
      BY <2>1, <3>1, <3>2 DEF SetSummary, IndexExact, ClusterOf, reportMaps
  <2>2. ASSUME NEW w \in Callers, NEW s \in Summaries, RemoveSummaryLook(w, s)
        PROVE  IndexExact'
    BY <2>2 DEF RemoveSummaryLook, IndexExact, summaryMaps, reportMaps, ClusterOf
  <2>3. ASSUME NEW w \in Callers, RemoveSummary(w)
        PROVE  IndexExact'
    BY <2>3 DEF RemoveSummary, Erase, IndexExact, TypeOK, summaryMaps, reportMaps, ClusterOf
  <2>4. ASSUME NEW n \in Checks, NEW s \in Summaries, SetGeneratedCheck(n, s)
        PROVE  IndexExact'
    BY <2>4 DEF SetGeneratedCheck, IndexExact, summaryMaps, reportMaps, ClusterOf
  <2>5. ASSUME NEW n \in Checks, RemoveGeneratedCheck(n)
        PROVE  IndexExact'
    BY <2>5 DEF RemoveGeneratedCheck, IndexExact, summaryMaps, reportMaps, ClusterOf
  <2>6. ASSUME NEW r \in Reports, NEW c \in Clusters, NEW i \in ReportInputs,
               SetReport(r, c, i)
        PROVE  IndexExact'
    <3> DEFINE e == [cluster |-> c, input |-> i]
    <3>1. \A k \in Clusters :
            reportsByCluster'[k]
              = {x \in Reports : k \in ClusterOf(IF x = r THEN e ELSE reports[x])}
      BY <2>0, <2>6 DEF SetReport, Reindex, Insert, Erase, ClusterOf, TypeOK, IndexExact
    <3>2. \A x \in Reports : reports'[x] = IF x = r THEN e ELSE reports[x]
      BY <2>6 DEF SetReport, TypeOK
    <3>. QED
      BY <2>6, <3>1, <3>2 DEF SetReport, IndexExact, ClusterOf, summaryMaps
  <2>7. ASSUME NEW r \in Reports, RemoveReport(r)
        PROVE  IndexExact'
    BY <2>7 DEF RemoveReport, Erase, IndexExact, TypeOK, summaryMaps, ClusterOf
  <2>8. CASE UNCHANGED vars
    BY <2>8 DEF vars, IndexExact, summaryMaps, reportMaps, ClusterOf
  <2>. QED
    BY <2>1, <2>2, <2>3, <2>4, <2>5, <2>6, <2>7, <2>8 DEF Next
<1>. QED
  BY <1>1, <1>2, Typing, PTL DEF Spec

-----------------------------------------------------------------------------
(* HealthChecks                                                            *)

\* ChecksInverse is inductive with the types: taking over a name, or a summary, cuts
\* the pair that held it on both sides.
THEOREM ChecksAreInverse == Spec => []ChecksInverse
<1>1. Init => ChecksInverse
  <2> SUFFICES ASSUME Init, NEW n \in Checks, NEW s \in Summaries
               PROVE  generatedChecks[n] # s /\ generatedCheckBySummary[s] # n
    BY DEF ChecksInverse
  <2>1. generatedChecks[n] = None /\ generatedCheckBySummary[s] = None
    BY DEF Init
  <2>. QED
    BY <2>1, NoneIsNoEntry
<1>2. TypeOK /\ ChecksInverse /\ [Next]_vars => ChecksInverse'
  <2> SUFFICES ASSUME TypeOK, ChecksInverse, [Next]_vars PROVE ChecksInverse'
    OBVIOUS
  <2>1. ASSUME NEW n \in Checks, NEW s \in Summaries, SetGeneratedCheck(n, s)
        PROVE  ChecksInverse'
    BY <2>1, NoneIsNoEntry
       DEF SetGeneratedCheck, OwnerLosing, NameDropped, ChecksInverse, TypeOK
  <2>2. ASSUME NEW n \in Checks, RemoveGeneratedCheck(n)
        PROVE  ChecksInverse'
    BY <2>2, NoneIsNoEntry DEF RemoveGeneratedCheck, ChecksInverse, TypeOK
  <2>3. CASE UNCHANGED checkMaps
    BY <2>3 DEF checkMaps, ChecksInverse
  <2>. QED
    BY <2>1, <2>2, <2>3
       DEF Next, vars, SetSummary, RemoveSummaryLook, RemoveSummary, SetReport, RemoveReport
<1>. QED
  BY <1>1, <1>2, Typing, PTL DEF Spec

-----------------------------------------------------------------------------
(* The cached status                                                       *)

\* What the join is given for a cluster depends on what is filed under it alone.
LEMMA SameInputs ==
  ASSUME TypeOK, NEW c \in Clusters,
         summariesByCluster[c]' = summariesByCluster[c],
         \A s \in summariesByCluster[c] :
           /\ summaries[s]' = summaries[s]
           /\ generatedCheckBySummary[s]' = generatedCheckBySummary[s],
         reportsByCluster[c]' = reportsByCluster[c],
         \A r \in reportsByCluster[c] : reports[r]' = reports[r]
  PROVE  StatusEntry(c)' = StatusEntry(c)
<1>1. SummaryInputsOf(c)' = SummaryInputsOf(c)
  BY DEF SummaryInputsOf
<1>2. ReportInputsOf(c)' = ReportInputsOf(c)
  BY DEF ReportInputsOf
<1>. QED
  BY <1>1, <1>2 DEF StatusEntry, GetClusterHealth

\* StatusFresh is inductive with the types and the exact indexes.  Each action
\* recomputes every cluster whose inputs it changes; for the others the inputs, so
\* the join, are the same before and after.  Exact indexes are needed: a summary
\* still filed under a cluster it left would change inputs nobody recomputes.
THEOREM StatusIsFresh == Spec => []StatusFresh
<1>1. Init => StatusFresh
  <2> SUFFICES ASSUME Init, NEW c \in Clusters PROVE clusterStatus[c] = StatusEntry(c)
    BY DEF StatusFresh
  <2>1. SummaryInputsOf(c) = NoInputs /\ ReportInputsOf(c) = NoInputs
    BY DEF Init, SummaryInputsOf, ReportInputsOf, NoInputs
  <2>. QED
    BY <2>1, NothingMonitored DEF Init, StatusEntry, GetClusterHealth
<1>2. TypeOK /\ IndexExact /\ StatusFresh /\ [Next]_vars => StatusFresh'
  <2> SUFFICES ASSUME TypeOK, IndexExact, StatusFresh, [Next]_vars PROVE StatusFresh'
    OBVIOUS
  <2>1. ASSUME NEW s \in Summaries, NEW c \in Clusters, NEW i \in SummaryInputs,
               SetSummary(s, c, i)
        PROVE  StatusFresh'
    <3>1. \A k \in Clusters \ ({c} \cup ClusterOf(summaries[s])) :
            StatusEntry(k)' = StatusEntry(k)
      BY <2>1, SameInputs
         DEF SetSummary, Reindex, Insert, Erase, ClusterOf, TypeOK, IndexExact, checkMaps, reportMaps
    <3>. QED
      BY <2>1, <3>1 DEF SetSummary, Recompute, StatusFresh
  <2>2. ASSUME NEW w \in Callers, RemoveSummary(w)
        PROVE  StatusFresh'
    <3> DEFINE s == known[w]
    <3>1. CASE summaries[s] = None
      BY <2>2, <3>1, SameInputs DEF RemoveSummary, StatusFresh, summaryMaps, checkMaps, reportMaps
    <3>2. CASE summaries[s] # None
      <4>1. \A k \in Clusters \ {summaries[s].cluster} : StatusEntry(k)' = StatusEntry(k)
        BY <2>2, <3>2, SameInputs
           DEF RemoveSummary, Erase, ClusterOf, TypeOK, IndexExact, checkMaps, reportMaps
      <4>. QED
        BY <2>2, <3>2, <4>1 DEF RemoveSummary, Recompute, StatusFresh
    <3>. QED
      BY <3>1, <3>2
  <2>3. ASSUME NEW n \in Checks, NEW s \in Summaries, SetGeneratedCheck(n, s)
        PROVE  StatusFresh'
    <3> DEFINE T == UNION {ClusterOf(summaries[x]) : x \in {s} \cup OwnerLosing(n, s)}
    <3>1. \A k \in Clusters \ T : StatusEntry(k)' = StatusEntry(k)
      BY <2>3, SameInputs
         DEF SetGeneratedCheck, OwnerLosing, ClusterOf, TypeOK, IndexExact, summaryMaps, reportMaps
    <3>. QED
      BY <2>3, <3>1 DEF SetGeneratedCheck, Recompute, StatusFresh
  <2>4. ASSUME NEW n \in Checks, RemoveGeneratedCheck(n)
        PROVE  StatusFresh'
    <3>1. \A k \in Clusters \ ClusterOf(summaries[generatedChecks[n]]) :
            StatusEntry(k)' = StatusEntry(k)
      BY <2>4, SameInputs
         DEF RemoveGeneratedCheck, ClusterOf, TypeOK, IndexExact, summaryMaps, reportMaps
    <3>. QED
      BY <2>4, <3>1 DEF RemoveGeneratedCheck, Recompute, StatusFresh
  <2>5. ASSUME NEW r \in Reports, NEW c \in Clusters, NEW i \in ReportInputs,
               SetReport(r, c, i)
        PROVE  StatusFresh'
    <3>1. \A k \in Clusters \ ({c} \cup ClusterOf(reports[r])) :
            StatusEntry(k)' = StatusEntry(k)
      BY <2>5, SameInputs
         DEF SetReport, Reindex, Insert, Erase, ClusterOf, TypeOK, IndexExact, checkMaps, summaryMaps
    <3>. QED
      BY <2>5, <3>1 DEF SetReport, Recompute, StatusFresh
  <2>6. ASSUME NEW r \in Reports, RemoveReport(r)
        PROVE  StatusFresh'
    <3>1. \A k \in Clusters \ {reports[r].cluster} : StatusEntry(k)' = StatusEntry(k)
      BY <2>6, SameInputs
         DEF RemoveReport, Erase, ClusterOf, TypeOK, IndexExact, checkMaps, summaryMaps
    <3>. QED
      BY <2>6, <3>1 DEF RemoveReport, Recompute, StatusFresh
  <2>7. CASE UNCHANGED <<summaryMaps, checkMaps, reportMaps, clusterStatus>>
    BY <2>7, SameInputs DEF StatusFresh, summaryMaps, checkMaps, reportMaps
  <2>. QED
    BY <2>1, <2>2, <2>3, <2>4, <2>5, <2>6, <2>7 DEF Next, vars, RemoveSummaryLook
<1>. QED
  BY <1>1, <1>2, Typing, IndexesExact, PTL DEF Spec

-----------------------------------------------------------------------------
(* Implementation of HealthView                                            *)

Coherent == TypeOK /\ IndexExact /\ ChecksInverse /\ StatusFresh

\* In a coherent cache the incrementally kept status is the one HealthView computes
\* from scratch.
LEMMA StatusFromScratch == Coherent => clusterStatus = View!StatusOfAll
<1> SUFFICES ASSUME Coherent PROVE clusterStatus = View!StatusOfAll
  OBVIOUS
<1> USE DEF Coherent
<1>1. \A s \in Summaries : View!CheckOf(s) = generatedCheckBySummary[s]
  <2> TAKE s \in Summaries
  <2>1. \A n \in Checks :
          <<n, s>> \in {p \in Checks \X Summaries : generatedChecks[p[1]] = p[2]}
            <=> generatedCheckBySummary[s] = n
    BY DEF ChecksInverse
  <2>. QED
    BY <2>1 DEF View!CheckOf, TypeOK
<1>2. \A c \in Clusters :
        [s \in {x \in Summaries : View!On(c, summaries[x])} |->
           [input |-> summaries[s].input, check |-> View!CheckOf(s)]] = SummaryInputsOf(c)
  <2> TAKE c \in Clusters
  <2>1. {x \in Summaries : View!On(c, summaries[x])} = summariesByCluster[c]
    BY DEF IndexExact, View!On, ClusterOf
  <2>. QED
    BY <1>1, <2>1 DEF SummaryInputsOf, TypeOK
<1>3. \A c \in Clusters :
        [r \in {x \in Reports : View!On(c, reports[x])} |-> reports[r].input]
          = ReportInputsOf(c)
  <2> TAKE c \in Clusters
  <2>1. {x \in Reports : View!On(c, reports[x])} = reportsByCluster[c]
    BY DEF IndexExact, View!On, ClusterOf
  <2>. QED
    BY <2>1 DEF ReportInputsOf
<1>4. \A c \in Clusters : View!Health(c) = GetClusterHealth(c)
  BY <1>2, <1>3 DEF View!Health, GetClusterHealth
<1>. QED
  BY <1>4 DEF View!StatusOfAll, StatusFresh, StatusEntry, TypeOK

\* HealthCache implements HealthView: one event of the cache is one event of the view,
\* and looking before a removal is a step the view does not see.
THEOREM Refinement == Spec => ImplementsView
<1>1. Init => View!Init
  BY NoneIsNoEntry DEF Init, View!Init
<1>2. Coherent /\ Coherent' /\ [Next]_vars => [View!Next]_View!vars
  <2> SUFFICES ASSUME Coherent, Coherent', [Next]_vars PROVE [View!Next]_View!vars
    OBVIOUS
  <2> DEFINE pairs == {p \in Checks \X Summaries : generatedChecks[p[1]] = p[2]}
  <2>0. clusterStatus' = View!StatusOfAll'
    <3>1. Coherent' => (clusterStatus = View!StatusOfAll)'
      BY StatusFromScratch, PTL
    <3>. QED
      BY <3>1
  <2>1. ASSUME NEW s \in Summaries, NEW c \in Clusters, NEW i \in SummaryInputs,
               SetSummary(s, c, i)
        PROVE  View!Next
    <3>1. View!HearSummary(s, [cluster |-> c, input |-> i])
      BY <2>1 DEF SetSummary, View!HearSummary, checkMaps, reportMaps
    <3>. QED
      BY <2>0, <3>1 DEF View!Next
  <2>2. ASSUME NEW w \in Callers, RemoveSummary(w), summaries[known[w]] # None
        PROVE  View!Next
    <3>1. known[w] \in Summaries /\ View!HearSummary(known[w], None)
      BY <2>2 DEF RemoveSummary, View!HearSummary, checkMaps, reportMaps, Coherent, TypeOK
    <3>. QED
      BY <2>0, <3>1 DEF View!Next
  <2>3. ASSUME NEW n \in Checks, NEW s \in Summaries, SetGeneratedCheck(n, s)
        PROVE  View!Next
    <3>1. pairs' = {p \in pairs : p[1] # n /\ p[2] # s} \cup {<<n, s>>}
      <4>1. \A m \in Checks, x \in Summaries :
              generatedChecks'[m] = x
                <=> (generatedChecks[m] = x /\ m # n /\ x # s) \/ (m = n /\ x = s)
        BY <2>3, NoneIsNoEntry
           DEF SetGeneratedCheck, NameDropped, OwnerLosing, Coherent, TypeOK, ChecksInverse
      <4>. QED
        BY <4>1
    <3>2. View!Attribute(n, s)
      BY <2>3, <3>1 DEF SetGeneratedCheck, View!Attribute, summaryMaps, reportMaps
    <3>. QED
      BY <2>0, <3>2 DEF View!Next
  <2>4. ASSUME NEW n \in Checks, RemoveGeneratedCheck(n)
        PROVE  View!Next
    <3>1. pairs' = {p \in pairs : p[1] # n}
      <4>1. \A m \in Checks, x \in Summaries :
              generatedChecks'[m] = x <=> generatedChecks[m] = x /\ m # n
        BY <2>4, NoneIsNoEntry DEF RemoveGeneratedCheck, Coherent, TypeOK
      <4>. QED
        BY <4>1
    <3>2. View!Unattribute(n)
      BY <2>4, <3>1 DEF RemoveGeneratedCheck, View!Unattribute, summaryMaps, reportMaps
    <3>. QED
      BY <2>0, <3>2 DEF View!Next
  <2>5. ASSUME NEW r \in Reports, NEW c \in Clusters, NEW i \in ReportInputs,
               SetReport(r, c, i)
        PROVE  View!Next
    <3>1. View!HearReport(r, [cluster |-> c, input |-> i])
      BY <2>5 DEF SetReport, View!HearReport, checkMaps, summaryMaps
    <3>. QED
      BY <2>0, <3>1 DEF View!Next
  <2>6. ASSUME NEW r \in Reports, RemoveReport(r)
        PROVE  View!Next
    <3>1. View!HearReport(r, None)
      BY <2>6 DEF RemoveReport, View!HearReport, checkMaps, summaryMaps
    <3>. QED
      BY <2>0, <3>1 DEF View!Next
  <2>7. CASE UNCHANGED <<summaryMaps, checkMaps, reportMaps, clusterStatus>>
    BY <2>7 DEF View!vars, summaryMaps, checkMaps, reportMaps
  <2>. QED
    BY <2>1, <2>2, <2>3, <2>4, <2>5, <2>6, <2>7
       DEF Next, vars, RemoveSummaryLook, RemoveSummary
<1>3. Spec => []Coherent
  BY Typing, IndexesExact, ChecksAreInverse, StatusIsFresh, PTL DEF Coherent
<1>. QED
  BY <1>1, <1>2, <1>3, PTL DEF Spec, ImplementsView, View!Spec

=============================================================================
