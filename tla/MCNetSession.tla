---------------------------- MODULE MCNetSession ----------------------------
EXTENDS NetSession
MCLimit == [t \in Timers |-> IF t = "T2" THEN 1 ELSE IF t = "T1" THEN 2 ELSE 3]
=============================================================================
