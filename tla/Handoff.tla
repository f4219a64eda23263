------------------------------ MODULE Handoff ------------------------------
(***************************************************************************)
(* The export of verified decisions (Proposals of                          *)
(* internal/sheets/proposals.go): all of them, or none when one cannot     *)
(* stand.  Pure operators over the rows of FINDER_INBOX; review is         *)
(* [status, action, target, name, type, reviewer], the columns L to Q.     *)
(*                                                                         *)
(* Curators enter reviewed_at with reviewer, so that one column stands for *)
(* both; notes are free text.  A row has the source URL it was listed      *)
(* with.                                                                   *)
(***************************************************************************)
EXTENDS SyncPlan

\* A link names a persona of PERSONAS, the other actions name none; a new one has a name.
TargetFits(d, personas) ==
    \/ d.action = "create_persona" /\ d.target = "" /\ d.name # ""
    \/ d.action = "link_persona" /\ d.target \in personas
    \/ d.action = "account_only" /\ d.target = ""

\* What is no persona's account is only recorded as an account.
TypeFits(d) ==
    \/ d.type \in {"persona", "secondary", "archive"}
    \/ d.type \in {"organization", "group", "unknown"} /\ d.action = "account_only"

\* The account is known by its ID, and the ID is the one in the URL if there is one.
Identified(a) ==
    LET norm == Normalized(a.url)
    IN  /\ norm.platform = "youtube" /\ a.platform = norm.platform
        /\ a.pid # NoPid
        /\ norm.pid \in {NoPid, a.pid}

Verified(r) == r.review.status = "verified"

ToExport(rows) == {i \in DOMAIN rows : Verified(rows[i]) /\ rows[i].review.action # "ignore"}

\* One row that cannot stand refuses the whole export.
Refuses(rows, personas) ==
    \E i \in ToExport(rows) :
       \/ rows[i].id = NoId
       \/ \E j \in ToExport(rows) : j # i /\ rows[j].id = rows[i].id
       \/ rows[i].review.reviewer = ""
       \/ ~Identified(rows[i].acct)
       \/ ~TargetFits(rows[i].review, personas)
       \/ ~TypeFits(rows[i].review)

\* The curator's columns that a proposal carries.
ExportedColumn == {"action", "target", "name", "type", "reviewer"}

Proposed(r) == [id |-> r.id, account |-> r.acct, action |-> r.review.action,
                target |-> r.review.target, name |-> r.review.name, type |-> r.review.type,
                reviewer |-> r.review.reviewer]

\* Proposals, empty for an error.
Proposals(rows, personas) ==
    IF Refuses(rows, personas) THEN {} ELSE {Proposed(rows[i]) : i \in ToExport(rows)}
=============================================================================
