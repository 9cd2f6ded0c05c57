--------------------- MODULE MCExactlyOnceQueueManager ---------------------
EXTENDS ExactlyOnceQueueManager

CONSTANTS k1, c1, c2, h1, h2

MCKeys == {k1}
MCCkpts == {c1, c2}
MCHashKeys == {h1, h2}

\* Restarts: every checkpoint on one hash key; the duplicate delivery needs
\* only one checkpoint.
MCOneHashKey == {h1}
MCOneCkpt == {c1}
=============================================================================
