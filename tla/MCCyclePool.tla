---------------------------- MODULE MCCyclePool -----------------------------
(* Two workers for three enabled sources and a disabled one.                 *)
EXTENDS CyclePool, TLC

CONSTANTS w1, w2

MCWorker == {w1, w2}
MCSource == {"roster", "search", "off", "list"}
MCConfig == <<"roster", "off", "search", "list">>
MCEnabled == MCSource \ {"off"}
MCLeads == [s \in MCSource |-> CASE s = "roster" -> 2 [] s = "search" -> 1 [] OTHER -> 0]
=============================================================================
