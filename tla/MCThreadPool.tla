---------------------------- MODULE MCThreadPool ----------------------------
EXTENDS ThreadPool, TLC

CONSTANTS t1, t2, t3, w1, w2, w3, w4

MCPriority == (t1 :> LOW) @@ [t \in Tasks \ {t1} |-> HIGH]

=============================================================================
