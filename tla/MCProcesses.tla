---------------------------- MODULE MCProcesses -----------------------------
(* Instances of Processes for TLC.                                           *)
EXTENDS Processes, TLC

CONSTANTS p1, p2, p3

MCProc == {p1, p2, p3}
MCCommand == (p1 :> "worker") @@ (p2 :> "once") @@ (p3 :> "enrich")
=============================================================================
