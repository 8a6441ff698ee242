--------------------------- MODULE MCPrometheusWal ---------------------------
EXTENDS PrometheusWal, TLC

\* Appenders and label sets are interchangeable.
MCSymmetry == Permutations(Appenders) \cup Permutations(Labels)
=============================================================================
