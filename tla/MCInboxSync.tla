---------------------------- MODULE MCInboxSync -----------------------------
(* Instances of InboxSync for TLC.                                           *)
EXTENDS InboxSync

CONSTANTS ch1, ch2, p1, worker, enrich

MCChannel == {ch1, ch2}
MCPage == {p1}
MCOwner == [p \in MCPage |-> ch1]
OneWriter == {worker}
ThreeIds == 1..3
TwoIds == 1..2

PageSeen == [acct |-> PageAccount(p1), input |-> PageUrl(p1)]
PageResolved == [acct |-> ChannelAccount(ch1), input |-> PageUrl(p1)]
ChannelSeen(ch) == [acct |-> ChannelAccount(ch), input |-> ChannelUrl(ch)]
Upgrading == {PageSeen, PageResolved, ChannelSeen(ch2)}
OnePage == {PageSeen, PageResolved}

\* What the theorems about InboxSync assume of its constants holds of the instances.
ASSUME InstanceOfTheorems == SingleWriter /\ ObservationsResolved
=============================================================================
