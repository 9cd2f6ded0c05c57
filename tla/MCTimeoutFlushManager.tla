----------------------- MODULE MCTimeoutFlushManager -----------------------
EXTENDS TimeoutFlushManager, TLC

CONSTANTS cfgA, cfgB, b0, b1

MCConfigs == {cfgA, cfgB}
MCBatchKeys == {b0, b1}
\* As in TimeoutFlushManagerUnittest: an immediate batch and a timed one.
MCTimeoutOf == (b0 :> 0) @@ (b1 :> 3)
=============================================================================
