----------------------------- MODULE MCShutdown -----------------------------
\* The audit log is fed by proxied requests and by tunnels, the update log by the
\* admin listener and the synchroniser.
EXTENDS Shutdown

MCCapacity == [q \in Queues |-> 1]
MCBatchLimit == [q \in Queues |-> IF q = "audit" THEN 2 ELSE 1]
MCSources ==
  [q \in Queues |-> IF q = "audit" THEN {"plain", "tunnel"} ELSE {"admin", "manager"}]
MCMaxSent == [q \in Queues |-> IF q = "audit" THEN 2 ELSE 1]
=============================================================================
