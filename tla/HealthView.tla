----------------------------- MODULE HealthView -----------------------------
(***************************************************************************)
(* What healthCache promises, without saying how: it remembers the last    *)
(* thing heard of every ClusterSummary and HealthCheckReport, a one-to-one *)
(* attribution of HealthChecks to ClusterSummaries, and after every event  *)
(* the status of EVERY cluster is the join of what is remembered.          *)
(* HealthCache implements it with two indexes, two maps for the            *)
(* attribution, and a recomputation of only the clusters an event touches. *)
(***************************************************************************)

CONSTANTS Summaries, Checks, Reports, Clusters, SummaryInputs, ReportInputs,
          None, NotEnabled, Evaluate(_, _)

VARIABLES monitored,    \* [Summaries -> [cluster, input] or None]
          attributed,   \* set of <<check, summary>>, one-to-one
          reported,     \* [Reports -> [cluster, input] or None]
          status        \* [Clusters -> state or None]

vars == <<monitored, attributed, reported, status>>

On(c, entry) == entry # None /\ entry.cluster = c

CheckOf(s) ==
  IF \E n \in Checks : <<n, s>> \in attributed
  THEN CHOOSE n \in Checks : <<n, s>> \in attributed
  ELSE None

Health(c) ==
  Evaluate([s \in {x \in Summaries : On(c, monitored[x])} |->
              [input |-> monitored[s].input, check |-> CheckOf(s)]],
           [r \in {x \in Reports : On(c, reported[x])} |-> reported[r].input])

\* The status of every cluster, from scratch.
StatusOfAll == [c \in Clusters |-> IF Health(c) = NotEnabled THEN None ELSE Health(c)]

Init ==
  /\ monitored = [s \in Summaries |-> None]
  /\ attributed = {}
  /\ reported = [r \in Reports |-> None]
  /\ status = [c \in Clusters |-> None]

HearSummary(s, entry) ==
  /\ monitored' = [monitored EXCEPT ![s] = entry]
  /\ UNCHANGED <<attributed, reported>>

HearReport(r, entry) ==
  /\ reported' = [reported EXCEPT ![r] = entry]
  /\ UNCHANGED <<monitored, attributed>>

\* A summary has one check and a check one summary: the newest pair wins.
Attribute(n, s) ==
  /\ attributed' = {p \in attributed : p[1] # n /\ p[2] # s} \cup {<<n, s>>}
  /\ UNCHANGED <<monitored, reported>>

Unattribute(n) ==
  /\ attributed' = {p \in attributed : p[1] # n}
  /\ UNCHANGED <<monitored, reported>>

Next ==
  /\ \/ \E s \in Summaries, c \in Clusters, i \in SummaryInputs :
          HearSummary(s, [cluster |-> c, input |-> i])
     \/ \E s \in Summaries : HearSummary(s, None)
     \/ \E r \in Reports, c \in Clusters, i \in ReportInputs :
          HearReport(r, [cluster |-> c, input |-> i])
     \/ \E r \in Reports : HearReport(r, None)
     \/ \E n \in Checks, s \in Summaries : Attribute(n, s)
     \/ \E n \in Checks : Unattribute(n)
  /\ status' = StatusOfAll'

Spec == Init /\ [][Next]_vars

=============================================================================
