--------------------------- MODULE MCQuotaLedger ----------------------------
(* Two processes: a worker with two goroutines, and an enrich command.       *)
EXTENDS QuotaLedger

CONSTANTS c1, c2, c3, worker, enrich

MCCaller == {c1, c2, c3}
MCProcess == {worker, enrich}
MCProcessOf == [c \in MCCaller |-> IF c = c3 THEN enrich ELSE worker]
\* c1 searches, the others resolve.
MCCost == [c \in MCCaller |-> IF c = c1 THEN 2 ELSE 1]
=============================================================================
