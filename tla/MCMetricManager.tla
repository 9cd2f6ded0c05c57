-------------------------- MODULE MCMetricManager --------------------------
EXTENDS MetricManager

CONSTANTS r1, r2, r3

\* Three plugin instances committing and snapshotting concurrently.
MCRefs == {r1, r2, r3}
=============================================================================
