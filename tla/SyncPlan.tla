------------------------------ MODULE SyncPlan ------------------------------
(***************************************************************************)
(* PlanSync (internal/sheets/sync.go): from the rows of FINDER_INBOX, the  *)
(* local candidates and the canonical matches, the row-addressed writes of *)
(* one synchronisation.  Pure operators over rows; no state.               *)
(*                                                                         *)
(* Row i of the model is sheet row i + 1 (the header is row 1).  The       *)
(* curator's columns L:S are one value, review; the machine's columns A:K  *)
(* are id, acct and first; sync is column T.                               *)
(***************************************************************************)
EXTENDS Accounts, Sequences

CONSTANTS CandidateId, \* 16 random bytes, as naturals: only their order matters
          NoId         \* the empty candidate_id

ASSUME CandidateIdAssumption ==
    CandidateId \subseteq Nat /\ IsFiniteSet(CandidateId) /\ NoId \notin CandidateId

\* review_status; verified stands for every status a curator decides on.
Verdict == {"pending", "verified"}
SyncState == {"pending_review", "unresolved_platform_id", "known_account_needs_review",
              "known_linked"}
MatchState == {"NEW", "KNOWN_ACCOUNT", "KNOWN_LINKED"}

FilledRow(Times) == [id : CandidateId, acct : Account, first : Times,
                     review : Verdict, sync : SyncState]
\* A row nothing was written to, below which a later row was.
Blank == [id |-> NoId, review |-> ""]
Row(Times) == FilledRow(Times) \cup {Blank}

Filled(rows) == {i \in DOMAIN rows : rows[i].id # NoId}

\* The account a row stands for: an ID missing from column C is read off the URL.
RowAccount(r) ==
    [r.acct EXCEPT !.pid = IF @ = NoPid THEN Normalized(r.acct.url).pid ELSE @]

Least(S) == CHOOSE i \in S : \A j \in S : i <= j
Greatest(S) == CHOOSE i \in S : \A j \in S : j <= i

\* Two rows with one candidate_id stop the synchronisation before any write.
DuplicateId(rows) == \E i, j \in Filled(rows) : i # j /\ rows[i].id = rows[j].id

RowsOfId(rows, c) == {i \in Filled(rows) : rows[i].id = c}
RowsOfKey(rows, k) == {i \in Filled(rows) : Key(RowAccount(rows[i])) = k}
Reviewed(rows, S) == {i \in S : rows[i].review # "pending"}

\* The row an account key stands for: the first one, unless it is pending and a
\* later one has been reviewed.
KeyRow(rows, k) ==
    LET same  == RowsOfKey(rows, k)
        first == Least(same)
    IN  IF rows[first].review = "pending" /\ Reviewed(rows, same) # {}
        THEN Least(Reviewed(rows, same))
        ELSE first

\* Mutant of FoundRow: the candidate_id is not looked at.
FoundByKey(rows, c, a) ==
    IF RowsOfKey(rows, Key(a)) # {} THEN KeyRow(rows, Key(a)) ELSE 0

\* The row of candidate c, by candidate_id and then by account key; 0 for none.
FoundRow(rows, c, a) ==
    IF RowsOfId(rows, c) # {} THEN Least(RowsOfId(rows, c))
    ELSE IF RowsOfKey(rows, Key(a)) # {} THEN KeyRow(rows, Key(a))
    ELSE 0

\* Column T.  match is the canonical state of the account.
StateOf(a, match) ==
    CASE match = "KNOWN_LINKED" -> "known_linked"
      [] match = "KNOWN_ACCOUNT" -> "known_account_needs_review"
      [] match = "NEW" /\ (a.pid = NoPid \/ a.platform = "youtube_video")
           -> "unresolved_platform_id"
      [] OTHER -> "pending_review"

\* Mutant of Earlier: the candidate's own first_seen is always written.
Own(s, t) == s

Earlier(s, t) == IF s < t THEN s ELSE t

Refused(rows, cands) ==
    \/ DuplicateId(rows)
    \/ \E c, d \in DOMAIN cands : c # d /\ Key(cands[c].acct) = Key(cands[d].acct)

\* A linked account that is not in the inbox is left out.
Incoming(rows, cands, match) ==
    {c \in DOMAIN cands : ~ /\ match[cands[c].acct] = "KNOWN_LINKED"
                            /\ FoundRow(rows, c, cands[c].acct) = 0}

Unlisted(rows, cands, match) ==
    {c \in Incoming(rows, cands, match) : FoundRow(rows, c, cands[c].acct) = 0}

\* Mutant of AppendRow: the first new row is the last old one, or the header.
AppendRowEarly(rows, cands, match, c) ==
    Len(rows) + Cardinality({d \in Unlisted(rows, cands, match) : d < c})

\* New candidates take the rows below the last one, in the order of their IDs.
AppendRow(rows, cands, match, c) ==
    Len(rows) + Cardinality({d \in Unlisted(rows, cands, match) : d <= c})

\* Mutant of Entry: a refresh writes the candidate's own ID into the row.
EntryOwnId(rows, cands, match, c) ==
    LET a == cands[c].acct
        f == FoundRow(rows, c, a)
    IN  [kind  |-> IF f # 0 THEN "refresh" ELSE "append",
         row   |-> IF f # 0 THEN f ELSE AppendRow(rows, cands, match, c),
         id    |-> c, acct |-> a, sync |-> StateOf(a, match[a]), first |-> cands[c].first]

\* What is written for one candidate: a refresh of A:K and T of its row, which
\* keeps the row's ID and the earlier first_seen, or a whole new row A:T.
Entry(rows, cands, match, c) ==
    LET a == cands[c].acct
        f == FoundRow(rows, c, a)
        s == StateOf(a, match[a])
    IN  IF f # 0
        THEN [kind |-> "refresh", row |-> f, id |-> rows[f].id, acct |-> a, sync |-> s,
              first |-> Earlier(cands[c].first, rows[f].first)]
        ELSE [kind |-> "append", row |-> AppendRow(rows, cands, match, c), id |-> c,
              acct |-> a, sync |-> s, first |-> cands[c].first]

PlanSync(rows, cands, match) ==
    [c \in Incoming(rows, cands, match) |-> Entry(rows, cands, match, c)]

\* Mutant of Written: a known row is written from A to T like a new one.
WrittenWhole(old, e) ==
    [id |-> e.id, acct |-> e.acct, first |-> e.first, sync |-> e.sync, review |-> "pending"]

\* What the sheet holds after one request: the entries of batch applied in the
\* order of their IDs; an untouched row between old and new ones stays blank.
Written(old, e) ==
    [id |-> e.id, acct |-> e.acct, first |-> e.first, sync |-> e.sync,
     review |-> IF e.kind = "append" THEN "pending" ELSE old.review]

Writes(batch, i) == {c \in DOMAIN batch : batch[c].row = i}

RowCount(rows, batch) ==
    Greatest({Len(rows)} \cup {batch[c].row : c \in DOMAIN batch})

ApplyBatch(rows, batch) ==
    [i \in 1..RowCount(rows, batch) |->
        LET old == IF i <= Len(rows) THEN rows[i] ELSE Blank
        IN  IF Writes(batch, i) = {} THEN old
            ELSE Written(old, batch[Greatest(Writes(batch, i))])]
=============================================================================
