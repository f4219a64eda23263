---------------------------- MODULE ReviewQueue -----------------------------
(***************************************************************************)
(* What FINDER_INBOX promises its curators (README, docs/HANDOFF.md): a    *)
(* queue of review decisions keyed by candidate_id.  Entries are added as  *)
(* pending and never leave, an entry is about one channel for ever, and    *)
(* only a curator's step changes a verdict.                                *)
(***************************************************************************)
CONSTANTS CandidateId, Channel, Verdict

VARIABLE queue \* candidate_id -> [channel, verdict]

Entry == [channel : Channel, verdict : Verdict]

Init == queue = [id \in {} |-> {}]

\* One request may publish several candidates at once.
Publish ==
    \E new \in SUBSET CandidateId :
        /\ new # {} /\ new \cap DOMAIN queue = {}
        /\ DOMAIN queue' = DOMAIN queue \cup new
        /\ \A id \in DOMAIN queue : queue'[id] = queue[id]
        /\ \A id \in new : queue'[id] \in Entry /\ queue'[id].verdict = "pending"

Review(id) ==
    \E v \in Verdict : queue' = [queue EXCEPT ![id].verdict = v]

Next == Publish \/ \E id \in DOMAIN queue : Review(id)

Spec == Init /\ [][Next]_queue
=============================================================================
