--------------------------- MODULE MCInboxCleanup ---------------------------
(* Instances of InboxCleanup for TLC.                                        *)
EXTENDS InboxCleanup

CONSTANTS ch1, p1, p2

MCChannel == {ch1}
MCPage == {p1, p2}
MCOwner == [p \in MCPage |-> ch1]
ThreeIds == 1..3

\* Three ways to list ch1; a page is an account of its own until its ID is filled in.
MCListed == {PageAccount(p1), PageAccount(p2), ChannelAccount(ch1)}

Decided(status, action, target, name, reviewer) ==
    [status |-> status, action |-> action, target |-> target, name |-> name,
     type |-> IF action = "" THEN "" ELSE "persona", reviewer |-> reviewer]
New == Decided("pending", "", "", "", "")

\* Verified completely, verified without its target, and declined after all.
MCDecision == {New,
               Decided("verified", "create_persona", "", "kae", "ann"),
               Decided("verified", "link_persona", "", "", "bob"),
               Decided("declined", "link_persona", "persona", "mai", "cho")}
Pages == Permutations(MCPage)

\* The instances meet what the theorems about verdicts assume of the rows.
ASSUME InstanceOfTheorems == VerdictsOutrankRows
=============================================================================
