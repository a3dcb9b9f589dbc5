------------------------------ MODULE MCRequests ------------------------------
EXTENDS Requests

MCKindOf ==
  [s1 |-> "Sveltos", s2 |-> "Sveltos", c1 |-> "Capi", cp1 |-> "ClusterProfile",
   p1 |-> "Profile", cs1 |-> "ClusterSummary", e1 |-> "EventTrigger", e2 |-> "EventTrigger",
   cl1 |-> "Classifier", m1 |-> "MCC", ch1 |-> "Chart", ch2 |-> "Chart", re1 |-> "Resource",
   re2 |-> "Resource", re3 |-> "Resource", st1 |-> "Status", st2 |-> "Status",
   un1 |-> "Unhealthy", ma1 |-> "Matching", ma2 |-> "Matching"]
MCObjects == DOMAIN MCKindOf

\* The second of two comes first; two of the resources tie.
MCRank == [o \in MCObjects |->
  CASE o \in {"s2", "e2", "m1", "ch2", "st2", "ma2", "re3"} -> 1
    [] OTHER -> 2]

\* Who may do everything, list without getting, and get some by name and list nothing.
MCUsers ==
  {[list |-> ReviewedKinds, get |-> ReviewedKinds, named |-> {}],
   [list |-> ListKinds, get |-> {"ClusterProfile"}, named |-> {}],
   [list |-> {}, get |-> {}, named |-> {"s2", "c1", "cp1", "e1", "cl1"}]}

MCFilters == {MCObjects, MCObjects \ {"s1", "cp1", "e1", "cl1", "ch1", "re1", "st1"}}

\* Everything, or one of some kinds and none of the others.
MCStarts == {MCObjects, {"s1", "p1", "e2", "m1", "re1", "re3", "ch2", "st2"}}

\* Two changes during a request; one where there are pages, or several kinds; none for
\* the ten kinds of the statistics, which are listed like the others.
MCMaxChanges ==
  [p \in Paths |-> CASE p = "stats" -> 0
                     [] p \in {"sveltosclusters", "helmcharts", "resources", "getClusterStatus",
                               "clusterHealth", "events", "event", "eventResources",
                               "classifiers"} -> 1
                     [] OTHER -> 2]

\* Pages one by one, windows within and past the end, numbers that are refused, a sum that
\* does not fit in an int.
MCBounds == {<<1, 0>>, <<1, 1>>, <<-1, 0>>, <<MaxInt, 1>>}
MCTargets == {"s1", "c1", "cp1", "p1", "e1", "cl1", "m1"}

===============================================================================
