--------------------------- MODULE MCProfileWrites ---------------------------
EXTENDS ProfileWrites, TLC

CONSTANTS a, b, m, n

\* The ConfigMap name does not depend on the kind: a ClusterProfile and a Profile of the
\* dashboard's namespace share m.
MCContentOf == a :> m @@ b :> m

\* The ConfigMap n, which a user made, with the dashboard's own; pasted YAML refers to m alone.
MCRefSets == {{m, n}}

\* No request is named anywhere: all of them are alike.
MCSymmetry == Permutations(Requests)
=============================================================================
