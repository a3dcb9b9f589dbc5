--------------------------- MODULE MCProfileGraph ---------------------------
EXTENDS ProfileGraph

CONSTANTS a, b

\* No dependency, either name, or both; a profile may name itself.
MCSelections == SUBSET {a, b}

\* Whoever depends on anything depends on b alone.
MCOneDependency == {{b}}
=============================================================================
