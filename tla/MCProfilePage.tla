---------------------------- MODULE MCProfilePage ----------------------------
EXTENDS ProfilePage

CONSTANTS s1, s2, k1

Percent(n) == [percent |-> TRUE, value |-> n]

\* No rollout; one that is under way; one that is about to end, when a cluster no longer
\* matches.
MCProfiles ==
  {[matching |-> <<s1, k1, s2>>, updated |-> {}, updating |-> {}, maxUpdate |-> Percent(30)],
   [matching |-> <<s1, k1, s2>>, updated |-> {s1}, updating |-> {k1}, maxUpdate |-> Percent(30)],
   [matching |-> <<k1, s1>>, updated |-> {k1}, updating |-> {s1}, maxUpdate |-> None]}
=============================================================================
