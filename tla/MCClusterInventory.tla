------------------------- MODULE MCClusterInventory -------------------------
EXTENDS ClusterInventory

CONSTANT v

\* A cluster that comes up, one field at a time from the one before, and goes away: its
\* infrastructure, then its control plane, a new version, a label, a failure, a pause.
Born == [paused |-> FALSE, version |-> NoValue, labels |-> NoValue, ready |-> FALSE,
         message |-> NoValue, other |-> FALSE, deleting |-> FALSE]
Up == [Born EXCEPT !.ready = TRUE]

MCObjects ==
  {Born, Up, [Born EXCEPT !.other = TRUE], [Up EXCEPT !.version = v],
   [Up EXCEPT !.labels = v], [Up EXCEPT !.message = v], [Up EXCEPT !.paused = TRUE],
   [Up EXCEPT !.deleting = TRUE]}
=============================================================================
