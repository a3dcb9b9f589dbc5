----------------------------- MODULE ClusterList -----------------------------
(***************************************************************************)
(* A request for the cluster list, served while ClusterMonitor runs.       *)
(* getManagedClusterData asks four questions about each cluster, and each  *)
(* takes and releases its own lock: the caches may change in between.      *)
(* One row, for one cluster, is modelled; rows do not depend on each other.*)
(***************************************************************************)
EXTENDS ClusterMonitor

VARIABLE row   \* the row being built; disturbed is a history variable: the
               \* caches changed since the first question

listVars == <<vars, row>>

Questions == {"issues", "provisioning", "outdated", "health"}

NoRow == [cluster |-> None, next |-> "issues", disturbed |-> FALSE]

\* The questions answered when it is the turn of next.
Answered(next) ==
  CASE next = "issues" -> {}
    [] next = "provisioning" -> {"issues"}
    [] next = "outdated" -> {"issues", "provisioning"}
    [] next = "health" -> {"issues", "provisioning", "outdated"}
    [] next = "sent" -> Questions

\* A row has the answers of the questions already asked, and of no other.
RowTypeOK ==
  /\ TypeOK
  /\ row.cluster \in Clusters \cup {None}
  /\ row.disturbed \in BOOLEAN
  /\ DOMAIN row = {"cluster", "next", "disturbed"} \cup Answered(row.next)

ListInit == Init /\ row = NoRow

\* The handler, for one cluster.
ClusterHasIssues(c) ==
  /\ row = NoRow
  /\ row' = [cluster |-> c, next |-> "provisioning", disturbed |-> FALSE,
             issues |-> Status!ClusterHasIssues(c)]
  /\ UNCHANGED vars

\* Faulty: the answer is lost.
AnswerNothing(question, answer, next) ==
  /\ row.next = question
  /\ row' = [row EXCEPT !.next = next]
  /\ UNCHANGED vars

\* Answer one more question, and go on to the next.
Answer(question, answer, next) ==
  /\ row.next = question
  /\ row' = [field \in DOMAIN row \cup {question} |->
               IF field = question THEN answer ELSE IF field = "next" THEN next ELSE row[field]]
  /\ UNCHANGED vars

\* Faulty: the set is asked, without the precedence of the issues.
ProvisioningRegardless ==
  row # NoRow /\ Answer("provisioning", clusterProvisioning[row.cluster] # {}, "outdated")

ClusterIsProvisioning ==
  row # NoRow /\ Answer("provisioning", Status!ClusterIsProvisioning(row.cluster), "outdated")

ClusterHasOutdatedHelmCharts ==
  row # NoRow /\ Answer("outdated", Status!ClusterHasOutdatedHelmCharts(row.cluster), "health")

\* ClusterHealthStatus: the cached state, empty without an entry.
ClusterHealthStatus ==
  row # NoRow /\ Answer("health", clusterStatus[row.cluster], "sent")

Send ==
  /\ row.next = "sent"
  /\ row' = NoRow
  /\ UNCHANGED vars

\* The rest of the system, while the row is being built or not.
Monitor ==
  /\ Next
  /\ row' = IF row # NoRow /\ <<statusVars, clusterStatus>>' # <<statusVars, clusterStatus>>
            THEN [row EXCEPT !.disturbed = TRUE] ELSE row

ListNext ==
  \/ Monitor
  \/ \E c \in Clusters : ClusterHasIssues(c)
  \/ ClusterIsProvisioning
  \/ ClusterHasOutdatedHelmCharts
  \/ ClusterHealthStatus
  \/ Send

ListSpec == ListInit /\ [][ListNext]_listVars

-----------------------------------------------------------------------------
(* Properties                                                              *)

\* A row built while nothing changed agrees with the reports of the cluster and with
\* its health computed from scratch, and never has both badges.
UndisturbedRow ==
  row.next = "sent" /\ ~row.disturbed =>
    LET reported == {clusterSummaryReport[s] :
                       s \in Status!GetClusterProfileStatusesByCluster(row.cluster)}
        issues == \E r \in reported : Status!clusterSummaryHasIssues(r.features)
        deploying == \E r \in reported :
                       Status!clusterSummaryIsProvisioning(r.features, r.dependencies)
    IN /\ row.issues <=> issues
       /\ row.provisioning <=> deploying /\ ~issues
       /\ row.health = Health!StatusEntry(row.cluster)

=============================================================================
