------------------------------ MODULE MCIngest ------------------------------
(* Two workers of one process, and two pages to report of which one is under *)
(* /c/, for TLC; what else Ingest promises is checked with MCEnrich.         *)
EXTENDS Ingest, TLC

CONSTANTS ch1, ch2, p1, p2, w1, w2

MCChannel == {ch1, ch2}
MCPage == {p1, p2}
MCWorker == {w1, w2}
MCProcess == {MCWorker}
SecondIsLegacy == {p2}
PagesOnly == {PageAccount(p1), PageAccount(p2)}
MCSource == {"roster"}
MCCandidateId == 1..5
WorkerSymmetry == Permutations(MCWorker)
=============================================================================
