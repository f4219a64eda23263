---------------------------- MODULE InboxCleanup ----------------------------
(***************************************************************************)
(* The script that removes duplicate rows from FINDER_INBOX                *)
(* (scripts/cleanup_inbox_duplicates.go over internal/sheets/cleanup.go):  *)
(* it reads the inbox once, then writes one merged row for every account   *)
(* key that has several, deletes the other rows of the key by number, and  *)
(* reads the inbox again to verify.  Each of the two writes is one request *)
(* of netx.Client, which repeats a request it has no answer to.            *)
(*                                                                         *)
(* A row is [id, acct, first, review]; review keeps apart the curator's    *)
(* columns that rank and merge differently.  The worker does not run       *)
(* beside the script (one writer), so rows are only appended before it.    *)
(***************************************************************************)
EXTENDS Handoff, SequencesExt

CONSTANTS
    Listed,      \* accounts the worker appends
    Owner,       \* the channel a page points at
    Decision,    \* what curators enter, whole or in part: a string for each column
    NotReviewed, \* the decision columns of a row just appended
    Personas,    \* persona IDs of the canonical table
    Attempts,    \* tries of one request (3 in the code)
    LostAnswers, \* the requests whose answer can be lost
    \* bounds of the model
    MaxRows,     \* rows of the inbox
    MaxFirst,    \* instants for first_seen
    MaxFaults    \* requests and answers lost, runs broken off

\* The columns L to R, "" for an empty one; reviewer stands for reviewed_at as well.
ReviewColumn == ExportedColumn \cup {"status"}

ASSUME CleanupAssumption ==
    /\ Listed \subseteq Account
    /\ Owner \in [Page -> Channel]
    /\ Decision \subseteq [ReviewColumn -> STRING]
    /\ NotReviewed \in Decision /\ Personas \subseteq STRING
    /\ LostAnswers \subseteq {"update", "delete"}
    /\ Attempts \in Nat \ {0}
    /\ {MaxRows, MaxFirst, MaxFaults} \subseteq Nat

VARIABLES inbox,  \* the rows of FINDER_INBOX
          script, \* what the script is doing
          faults

vars == <<inbox, script, faults>>

Off == [pc |-> "off"]

\* A merged decision has each of its columns from a decision somebody entered.
EnteredReview == {d \in [ReviewColumn -> STRING] :
                     \A c \in ReviewColumn : \E e \in Decision : d[c] = e[c]}
InboxRow == [id : CandidateId, acct : Account, first : 0..MaxFirst, review : EnteredReview]

\* The script is off, or it has the merged rows to write and the rows to delete.
TypeOK ==
    /\ inbox \in Seq(InboxRow) /\ Len(inbox) <= MaxRows
    /\ faults \in 0..MaxFaults
    /\ \/ script = Off
       \/ /\ script = [pc |-> script.pc, updates |-> script.updates,
                       losers |-> script.losers, tries |-> script.tries]
          /\ script.pc \in {"update", "delete", "verify"}
          /\ script.updates = [i \in DOMAIN script.updates |-> script.updates[i]]
          /\ \A i \in DOMAIN script.updates : script.updates[i] \in InboxRow
          /\ DOMAIN script.updates \cup script.losers \subseteq 1..MaxRows
          /\ DOMAIN script.updates \cap script.losers = {}
          /\ script.tries \in 0..(Attempts - 1)

Init == inbox = << >> /\ script = Off /\ faults = 0

------------------------------------------------------------------------------
(* Which row of a key stays, and what it takes from the others.              *)

Points(holds, n) == IF holds THEN n ELSE 0

\* Mutant of ScoreRow: a verified row ranks like every other reviewed one.
ScoreAlike(r, i) ==
    Points(r.review.status # "pending", 5000) + Points(r.review.reviewer # "", 1000)
      + Points(r.review.target # "", 100) + Points(r.review.action # "", 10) + (100000 - i)

\* ScoreRow.
ScoreRow(r, i) ==
    Points(r.review.status = "verified", 10000)
      + Points(r.review.status \notin {"verified", "pending", ""}, 5000)
      + Points(r.review.reviewer # "", 1000) + Points(r.review.target # "", 100)
      + Points(r.review.action # "", 10) + (100000 - i)

\* The best of some rows: of the highest score, and of those the first.
Best(rows, S) ==
    Least({i \in S : \A j \in S : ScoreRow(rows[j], j) <= ScoreRow(rows[i], i)})

DuplicateKeys(rows) ==
    {k \in {Key(RowAccount(rows[i])) : i \in Filled(rows)} : Cardinality(RowsOfKey(rows, k)) > 1}

Survivor(rows, k) == Best(rows, RowsOfKey(rows, k))

\* Mutant of Losers: only the row next to the survivor is taken out.
SecondOnly(rows, k) == {Best(rows, RowsOfKey(rows, k) \ {Survivor(rows, k)})}

Losers(rows, k) == RowsOfKey(rows, k) \ {Survivor(rows, k)}

\* Mutant of Earliest: the survivor's first_seen stays.
SurvivorsFirst(rows, k) == rows[Survivor(rows, k)].first

Earliest(rows, k) == Least({rows[i].first : i \in RowsOfKey(rows, k)})

\* The losers fill the survivor's empty columns, the better of them first: a column
\* is that of the best row of the key that has it.
FilledPid(rows, k) ==
    LET having == {i \in RowsOfKey(rows, k) : rows[i].acct.pid # NoPid}
    IN  IF having = {} THEN NoPid ELSE rows[Best(rows, having)].acct.pid

\* Mutant of FilledColumn: the reviewer is that of the last row which has one.
LatestReviewer(rows, k, c) ==
    LET having == {i \in RowsOfKey(rows, k) : rows[i].review[c] # ""}
    IN  IF having = {} THEN ""
        ELSE rows[IF c = "reviewer" THEN Max(having) ELSE Best(rows, having)].review[c]

FilledColumn(rows, k, c) ==
    LET having == {i \in RowsOfKey(rows, k) : rows[i].review[c] # ""}
    IN  IF having = {} THEN "" ELSE rows[Best(rows, having)].review[c]

\* The survivor with the losers merged into it; it keeps its candidate_id.
Merged(rows, k) ==
    LET s == rows[Survivor(rows, k)]
    IN  [id     |-> s.id,
         acct   |-> [s.acct EXCEPT !.pid = FilledPid(rows, k)],
         first  |-> Earliest(rows, k),
         review |-> [c \in ReviewColumn |-> FilledColumn(rows, k, c)]]

\* FindDuplicateInboxGroups, as the rows to write and the rows to delete.
Updates(rows) ==
    [i \in {Survivor(rows, k) : k \in DuplicateKeys(rows)} |->
        Merged(rows, Key(RowAccount(rows[i])))]
AllLosers(rows) == UNION {Losers(rows, k) : k \in DuplicateKeys(rows)}

------------------------------------------------------------------------------
(* What the two requests do to the sheet.                                    *)

\* UpdateInboxRows: the merged rows, from column A to T, at their row numbers.
Rewritten(rows, updates) ==
    [i \in DOMAIN rows |-> IF i \in DOMAIN updates THEN updates[i] ELSE rows[i]]

\* One deleteDimension after the other, from the last row to the first: what is left
\* when the rows below row n are done.
DeleteInboxRows(rows, S) ==
    LET left[n \in 0..Len(rows)] ==
          IF n = Len(rows) THEN rows
          ELSE IF n + 1 \in S THEN RemoveAt(left[n + 1], n + 1)
          ELSE left[n + 1]
    IN  left[0]

------------------------------------------------------------------------------
(* The worker, before the script, and the curators.                          *)

UnusedIds == {c \in CandidateId : \A i \in DOMAIN inbox : inbox[i].id # c}

\* PlanSync appends an account whose key is not listed; no two rows share an ID.
ListAccount(a, first) ==
    /\ script = Off
    /\ Len(inbox) < MaxRows /\ UnusedIds # {}
    /\ RowsOfKey(inbox, Key(a)) = {}
    /\ inbox' = Append(inbox, [id |-> Least(UnusedIds), acct |-> a, first |-> first,
                               review |-> NotReviewed])
    /\ UNCHANGED <<script, faults>>

\* Two rows of one account get one key when its platform_id is filled in.  Nobody fills
\* one in while the script runs: nothing in the sheet prevents it, and a duplicate that
\* comes about so late is left for the next run.
FillId(i) ==
    /\ script = Off
    /\ inbox[i].acct.pid = NoPid
    /\ inbox[i].acct.url.kind = "page"
    /\ inbox' = [inbox EXCEPT ![i].acct.pid = Owner[inbox[i].acct.url.of]]
    /\ UNCHANGED <<script, faults>>

\* Curators leave the rows the script has read as duplicates alone while it writes.
Involved(i) == /\ script.pc \in {"update", "delete"}
               /\ i \in DOMAIN script.updates \cup script.losers

Review(i, d) ==
    /\ ~Involved(i)
    /\ inbox[i].review # d
    /\ inbox' = [inbox EXCEPT ![i].review = d]
    /\ UNCHANGED <<script, faults>>

------------------------------------------------------------------------------
(* One run of the script with -apply; without duplicates, or without -apply, *)
(* it writes nothing.                                                        *)

Begin ==
    /\ script = Off
    /\ DuplicateKeys(inbox) # {}
    /\ script' = [pc |-> "update", updates |-> Updates(inbox), losers |-> AllLosers(inbox),
                  tries |-> 0]
    /\ UNCHANGED <<inbox, faults>>

Requesting == script.pc \in {"update", "delete"}
Applied == IF script.pc = "update" THEN Rewritten(inbox, script.updates)
           ELSE DeleteInboxRows(inbox, script.losers)

\* A request is done and answered.
Answered ==
    /\ Requesting
    /\ inbox' = Applied
    /\ script' = [script EXCEPT !.pc = IF @ = "update" THEN "delete" ELSE "verify",
                                !.tries = 0]
    /\ UNCHANGED faults

Fault == faults < MaxFaults /\ faults' = faults + 1

\* Mutant of TriedAgain: the tries are not counted out.
TriedForEver(t) == [t EXCEPT !.tries = @ + 1]

\* netx.Client.Bytes repeats the request, or the script exits.
TriedAgain(t) == IF t.tries + 1 < Attempts THEN [t EXCEPT !.tries = @ + 1] ELSE Off

\* A request is done and its answer lost.
AnswerLost ==
    /\ Requesting /\ script.pc \in LostAnswers
    /\ Fault
    /\ inbox' = Applied
    /\ script' = TriedAgain(script)

\* A request does not arrive, or the server cannot take it now.
NotReceived ==
    /\ Requesting
    /\ Fault
    /\ script' = TriedAgain(script)
    /\ UNCHANGED inbox

\* The script is stopped, or a request is refused for good.
Exit ==
    /\ script # Off
    /\ Fault
    /\ script' = Off
    /\ UNCHANGED inbox

\* The inbox is read again; whatever is found, the script ends.
Verify ==
    /\ script.pc = "verify"
    /\ script' = Off
    /\ UNCHANGED <<inbox, faults>>

Next ==
    \/ \E a \in Listed, first \in 0..MaxFirst : ListAccount(a, first)
    \/ \E i \in Filled(inbox) : FillId(i) \/ \E d \in Decision : Review(i, d)
    \/ Begin \/ Answered \/ AnswerLost \/ NotReceived \/ Exit \/ Verify

Spec == Init /\ [][Next]_vars

------------------------------------------------------------------------------
(* Properties.  Steps of the script are those that change its state.         *)

KeyOf(r) == Key(RowAccount(r))

\* cleanup.go merges the "earliest first_seen" into the survivor before the losers
\* go: at no step of a run, of one broken off, or of the run after it, is an
\* account left without a row that has its first_seen or an earlier one.
FirstSeenKept ==
    [][script' # script =>
         \A i \in Filled(inbox) :
            \E j \in RowsOfKey(inbox', KeyOf(inbox[i])) : inbox'[j].first <= inbox[i].first]_vars

\* Row s has everything that a curator entered in row r.
Extends(s, r) == \A c \in ReviewColumn : r.review[c] \in {"", s.review[c]}

\* A verified row outranks every other (ScoreRow), and a merge only fills empty columns:
\* an account that has a verified row keeps one in which a whole verified row of it can
\* still be read, column by column as a curator left it.
VerifiedReviewKept ==
    [][script' # script =>
         \A i \in Filled(inbox) : Verified(inbox[i]) =>
            LET k == KeyOf(inbox[i])
            IN  \E j \in RowsOfKey(inbox', k), was \in RowsOfKey(inbox, k) :
                    /\ Verified(inbox'[j]) /\ Verified(inbox[was])
                    /\ Extends(inbox'[j], inbox[was])]_vars

\* The script "preserves" decisions by filling the empty columns of one row from others
\* (cleanup.go:128), declined ones included, and the result can be exported.  It never
\* exports a decision that was not verified, or mixes two that contradict each other:
\* every proposal has all that one verified row of the account had before the step, and
\* in the columns that were empty there nothing but what a row of the account had.
ProposalsOfVerified ==
    [][script' # script =>
         \A p \in Proposals(inbox', Personas) :
            LET rows == RowsOfKey(inbox, Key(p.account))
            IN  \E i \in rows :
                   /\ Verified(inbox[i])
                   /\ \A c \in ExportedColumn :
                         /\ inbox[i].review[c] \in {"", p[c]}
                         /\ \E j \in rows : inbox[j].review[c] = p[c]]_vars

\* "SUCCESS: Exactly 0 duplicate account keys remain": when both requests were
\* answered, the inbox that is read back has no duplicates, so a run never ends in
\* the script's "Still found duplicate groups".
CleanedInOnePass == script.pc = "verify" => DuplicateKeys(inbox) = {}

\* A step of the script never takes the last row of an account out of the inbox.
AccountsKept ==
    [][script' # script =>
         \A i \in Filled(inbox) : RowsOfKey(inbox', KeyOf(inbox[i])) # {}]_vars

------------------------------------------------------------------------------
(* What the theorems about these properties assume of an instance.           *)

\* The answer to the deletion is not lost, so the deletion is never done twice.
DeletesAnswered == "delete" \notin LostAnswers

\* ScoreRow takes one point off for every row above: a verified row has at least 3890
\* points more than any other row, so it outranks it up to as many rows above it.
VerdictsOutrankRows == MaxRows <= 3890
=============================================================================
