------------------------------ MODULE MCEnrich ------------------------------
(* A worker of the cycle and the enrich command for TLC: a roster reports a  *)
(* page, and a profile links to the page and to a channel that the page may  *)
(* be of.  Another channel is canonical, and in the inbox with its ID beside *)
(* the link of the page.                                                     *)
EXTENDS Enrich

CONSTANTS roster, ch1, ch2, p1, w1, enricher, b1

MCChannel == {ch1, ch2}
MCPage == {p1}
MCWorker == {w1, enricher}
MCProcess == {{w1}, {enricher}}
NoLegacy == {}
OnlyPage == {PageAccount(p1)}
PageAndChannel == {PageAccount(p1), ChannelAccount(ch1)}
MCProfile == {b1}
MCSource == {b1, roster}
MCBio == [b \in MCProfile |-> PageAndChannel]
MCCanonical == {ChannelAccount(ch2)}
MCQueued == {[PageAccount(p1) EXCEPT !.pid = ch2]}
MCCandidateId == 1..5
=============================================================================
