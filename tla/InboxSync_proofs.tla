-------------------------- MODULE InboxSync_proofs --------------------------
(***************************************************************************)
(* FINDER_INBOX under one writer whose requests are lost, repeated and     *)
(* late, for any candidates, pages, batches, grids and number of faults.   *)
(*                                                                         *)
(* The argument: from the moment a writer has read the rows nothing but    *)
(* curators comes between, so every entry it holds or has on the wire      *)
(* still fits the rows: a refresh names a filled row and its ID, a new row *)
(* is the candidate's alone (Settled), and applying an entry once more     *)
(* keeps that.  On it rest the properties of the review columns; of whose  *)
(* row it is (IdentityInv), hence that the inbox is a ReviewQueue; of keys *)
(* (KeyInv); and of first_seen (FirstInv).                                 *)
(***************************************************************************)
EXTENDS InboxSync, FiniteSetTheorems, SequenceTheorems, WellFoundedInduction, TLAPS

------------------------------------------------------------------------------
(***************************************************************************)
(* Operators of the plan.                                                  *)
(***************************************************************************)

\* A finite set of numbers has a greatest and a least member: a smallest
\* non-empty subset without one could spare any of its members.
LEMMA GreatestIsMember ==
    ASSUME NEW S \in SUBSET Int, IsFiniteSet(S), S # {}
    PROVE  Greatest(S) \in S /\ \A j \in S : j <= Greatest(S)
<1> DEFINE Topless == {T \in SUBSET S : T # {} /\ \A x \in T : \E y \in T : y > x}
<1>1. Topless = {}
  <2> SUFFICES ASSUME Topless # {} PROVE FALSE
    OBVIOUS
  <2>1. Topless \subseteq FiniteSubsetsOf(S)
    BY FS_FiniteSubsetsOfFinite
  <2>2. PICK T \in Topless : \A U \in Topless : <<U, T>> \notin StrictSubsetOrdering(S)
    BY <2>1, FS_StrictSubsetOrderingWellFounded, WFMin
  <2>3. PICK x \in T, y \in T : y > x
    OBVIOUS
  <2>4. <<T \ {x}, T>> \in StrictSubsetOrdering(S)
    BY DEF StrictSubsetOrdering
  <2>5. T \ {x} \notin Topless /\ y \in T \ {x} /\ T \ {x} \in SUBSET S
    BY <2>2, <2>3, <2>4
  <2>6. PICK z \in T \ {x} : \A u \in T \ {x} : ~(u > z)
    BY <2>5
  <2>7. \A u \in T : ~(u > z)
    BY <2>3, <2>5, <2>6
  <2> QED BY <2>6, <2>7
<1>2. \E i \in S : \A j \in S : j <= i
  BY <1>1
<1> QED BY <1>2 DEF Greatest

LEMMA LeastIsMember ==
    ASSUME NEW S \in SUBSET Int, IsFiniteSet(S), S # {}
    PROVE  Least(S) \in S /\ \A j \in S : Least(S) <= j
<1> DEFINE Bottomless == {T \in SUBSET S : T # {} /\ \A x \in T : \E y \in T : y < x}
<1>1. Bottomless = {}
  <2> SUFFICES ASSUME Bottomless # {} PROVE FALSE
    OBVIOUS
  <2>1. Bottomless \subseteq FiniteSubsetsOf(S)
    BY FS_FiniteSubsetsOfFinite
  <2>2. PICK T \in Bottomless : \A U \in Bottomless : <<U, T>> \notin StrictSubsetOrdering(S)
    BY <2>1, FS_StrictSubsetOrderingWellFounded, WFMin
  <2>3. PICK x \in T, y \in T : y < x
    OBVIOUS
  <2>4. <<T \ {x}, T>> \in StrictSubsetOrdering(S)
    BY DEF StrictSubsetOrdering
  <2>5. T \ {x} \notin Bottomless /\ y \in T \ {x} /\ T \ {x} \in SUBSET S
    BY <2>2, <2>3, <2>4
  <2>6. PICK z \in T \ {x} : \A u \in T \ {x} : ~(u < z)
    BY <2>5
  <2>7. \A u \in T : ~(u < z)
    BY <2>3, <2>5, <2>6
  <2> QED BY <2>6, <2>7
<1>2. \E i \in S : \A j \in S : i <= j
  BY <1>1
<1> QED BY <1>2 DEF Least

\* ensureRows never asks for fewer rows than are needed.
LEMMA RoundUpIsEnough == ASSUME NEW n \in Nat PROVE RoundUp(n) \in Nat /\ RoundUp(n) >= n
<1>1. GridStep \in Nat /\ GridStep > 0
  BY InboxAssumption
<1> DEFINE q == (n + GridStep - 1) \div GridStep
<1>2. q \in Nat /\ GridStep * q > n - 1
  BY <1>1
<1> QED BY <1>1, <1>2 DEF RoundUp

\* A filled row has all its columns; a row that is not filled is blank.
LEMMA RowColumns ==
    ASSUME NEW rows \in Seq(Row(Time)), NEW i \in DOMAIN rows
    PROVE  /\ i \in Filled(rows) => rows[i] \in FilledRow(Time)
           /\ i \notin Filled(rows) => rows[i] = Blank
<1>1. rows[i] \in Row(Time)
  OBVIOUS
<1>2. Blank.id = NoId
  BY DEF Blank
<1>3. rows[i] \in FilledRow(Time) => rows[i].id # NoId
  BY CandidateIdAssumption DEF FilledRow
<1>4. rows[i] \in FilledRow(Time) \/ rows[i] = Blank
  BY <1>1 DEF Row
<1> QED BY <1>2, <1>3, <1>4 DEF Filled

LEMMA FilledRows ==
    ASSUME NEW rows \in Seq(Row(Time)), NEW S \in SUBSET Filled(rows)
    PROVE  IsFiniteSet(S) /\ S \in SUBSET Int /\ S \subseteq DOMAIN rows /\ 0 \notin S
<1>1. S \subseteq 1..Len(rows) /\ Len(rows) \in Int
  BY DEF Filled
<1>2. IsFiniteSet(1..Len(rows))
  BY <1>1, FS_Interval
<1>3. IsFiniteSet(S)
  BY <1>1, <1>2, FS_Subset
<1>4. S \subseteq DOMAIN rows
  BY DEF Filled
<1> QED BY <1>1, <1>3, <1>4

\* FoundRow finds a row by candidate_id, else by account key, else none.
LEMMA FoundRowCases ==
    ASSUME NEW rows \in Seq(Row(Time)), NEW c, NEW a
    PROVE  \/ FoundRow(rows, c, a) \in RowsOfId(rows, c)
           \/ RowsOfId(rows, c) = {} /\ FoundRow(rows, c, a) \in RowsOfKey(rows, Key(a))
           \/ /\ RowsOfId(rows, c) = {} /\ RowsOfKey(rows, Key(a)) = {}
              /\ FoundRow(rows, c, a) = 0
<1> DEFINE ids  == RowsOfId(rows, c)
           same == RowsOfKey(rows, Key(a))
           revd == Reviewed(rows, same)
<1>1. ids \in SUBSET Filled(rows) /\ same \in SUBSET Filled(rows) /\ revd \in SUBSET Filled(rows)
      /\ revd \subseteq same
  BY DEF RowsOfId, RowsOfKey, Reviewed
<1> HIDE DEF ids, same, revd
<1>2. ids # {} => Least(ids) \in ids
  BY <1>1, FilledRows, LeastIsMember
<1>3. same # {} => Least(same) \in same
  BY <1>1, FilledRows, LeastIsMember
<1>4. revd # {} => Least(revd) \in revd
  BY <1>1, FilledRows, LeastIsMember
<1>5. same # {} => KeyRow(rows, Key(a)) \in same
  BY <1>1, <1>3, <1>4 DEF KeyRow, same, revd
<1> QED BY <1>2, <1>5 DEF FoundRow, ids, same

\* New candidates get rows below the last one, each a row of its own.
LEMMA AppendRowsApart ==
    ASSUME NEW rows \in Seq(Row(Time)), NEW cands, NEW match, DOMAIN cands \subseteq CandidateId,
           NEW c \in Unlisted(rows, cands, match)
    PROVE  /\ AppendRow(rows, cands, match, c) \in Nat
           /\ AppendRow(rows, cands, match, c) > Len(rows)
           /\ \A d \in Unlisted(rows, cands, match) :
                c < d => AppendRow(rows, cands, match, c) < AppendRow(rows, cands, match, d)
<1> DEFINE New == Unlisted(rows, cands, match)
           UpTo(d) == {e \in New : e <= d}
<1>1. New \subseteq CandidateId /\ CandidateId \subseteq Nat /\ IsFiniteSet(CandidateId)
      /\ c \in New /\ New \subseteq Nat
  BY CandidateIdAssumption DEF Unlisted, Incoming
<1>2. IsFiniteSet(New)
  BY <1>1, FS_Subset
<1> HIDE DEF New
<1>3. ASSUME NEW d \in New
      PROVE  IsFiniteSet(UpTo(d)) /\ Cardinality(UpTo(d)) \in Nat
  <2>1. UpTo(d) \in SUBSET New
    OBVIOUS
  <2> QED BY <2>1, <1>2, FS_Subset, FS_CardinalityType
<1>4. c \in New /\ c \in UpTo(c)
  BY <1>1
<1>5. Cardinality(UpTo(c)) > 0
  <2>1. UpTo(c) # {}
    BY <1>4
  <2>2. Cardinality(UpTo(c)) # 0
    BY <1>3, <1>4, <2>1, FS_EmptySet
  <2> QED BY <2>2, <1>3, <1>4
<1>6. ASSUME NEW d \in New, c < d PROVE Cardinality(UpTo(c)) < Cardinality(UpTo(d))
  <2>0. c \in Nat /\ d \in Nat /\ \A e \in New : e \in Nat
    BY <1>1
  <2>1. UpTo(c) \in SUBSET UpTo(d)
    <3>1. \A e \in New : e <= c => e <= d
      BY <2>0, <1>6
    <3> QED BY <3>1
  <2>2. d \in UpTo(d) /\ d \notin UpTo(c)
    BY <2>0, <1>6
  <2>3. Cardinality(UpTo(c)) <= Cardinality(UpTo(d)) /\ Cardinality(UpTo(d)) # Cardinality(UpTo(c))
    BY <1>3, <2>1, <2>2, FS_Subset
  <2>4. Cardinality(UpTo(c)) \in Nat /\ Cardinality(UpTo(d)) \in Nat
    BY <1>3, <1>4
  <2> HIDE DEF UpTo
  <2> QED BY <2>3, <2>4
<1>7. Len(rows) \in Nat
  OBVIOUS
<1>8. \A d \in New : AppendRow(rows, cands, match, d) = Len(rows) + Cardinality(UpTo(d))
  BY DEF AppendRow, New
<1>9. Cardinality(UpTo(c)) \in Nat /\ \A d \in New : Cardinality(UpTo(d)) \in Nat
  BY <1>3, <1>4
<1>10. \A d \in New : c < d => Len(rows) + Cardinality(UpTo(c)) < Len(rows) + Cardinality(UpTo(d))
  BY <1>6, <1>7, <1>9
<1> HIDE DEF UpTo
<1>11. AppendRow(rows, cands, match, c) \in Nat /\ AppendRow(rows, cands, match, c) > Len(rows)
  BY <1>4, <1>5, <1>7, <1>8, <1>9
<1>12. \A d \in New : c < d =>
         AppendRow(rows, cands, match, c) < AppendRow(rows, cands, match, d)
  BY <1>4, <1>8, <1>10
<1> QED BY <1>11, <1>12 DEF New

LEMMA StateOfType ==
    ASSUME NEW a, NEW m PROVE StateOf(a, m) \in SyncState
BY DEF StateOf, SyncState

\* What PlanSync makes of one candidate.
LEMMA EntryCases ==
    ASSUME NEW rows \in Seq(Row(Time)), NEW cands, Table(cands, Candidate),
           NEW match, NEW c \in Incoming(rows, cands, match),
           NEW e, e = Entry(rows, cands, match, c)
    PROVE  /\ e \in EntryType
           /\ e.acct = cands[c].acct
           /\ \/ /\ e.kind = "refresh"
                 /\ e.row \in Filled(rows) /\ e.id = rows[e.row].id
                 /\ \/ e.row \in RowsOfId(rows, c)
                    \/ RowsOfId(rows, c) = {} /\ e.row \in RowsOfKey(rows, Key(e.acct))
              \/ /\ e.kind = "append"
                 /\ c \in Unlisted(rows, cands, match)
                 /\ e.id = c /\ e.row = AppendRow(rows, cands, match, c)
                 /\ RowsOfId(rows, c) = {} /\ RowsOfKey(rows, Key(e.acct)) = {}
<1> DEFINE a == cands[c].acct
           f == FoundRow(rows, c, a)
           s == StateOf(a, match[a])
<1>1. c \in CandidateId /\ cands[c] \in Candidate /\ a \in Account /\ cands[c].first \in Time
  BY DEF Incoming, Table, Candidate
<1>2. s \in SyncState
  BY StateOfType
<1>3. \/ f \in RowsOfId(rows, c)
      \/ RowsOfId(rows, c) = {} /\ f \in RowsOfKey(rows, Key(a))
      \/ RowsOfId(rows, c) = {} /\ RowsOfKey(rows, Key(a)) = {} /\ f = 0
  BY FoundRowCases
<1>4. /\ RowsOfId(rows, c) \in SUBSET Filled(rows)
      /\ RowsOfKey(rows, Key(a)) \in SUBSET Filled(rows)
  BY DEF RowsOfId, RowsOfKey
<1>5. CASE f # 0
  <2>1. f \in Filled(rows) /\ f \in Nat \ {0}
    BY <1>3, <1>4, <1>5 DEF Filled
  <2>2. rows[f].id \in CandidateId /\ rows[f].first \in Time
    BY <2>1, RowColumns DEF Filled, FilledRow
  <2>3. e = [kind |-> "refresh", row |-> f, id |-> rows[f].id, acct |-> a, sync |-> s,
             first |-> Earlier(cands[c].first, rows[f].first)]
    BY <1>5 DEF Entry
  <2>4. Earlier(cands[c].first, rows[f].first) \in Time
    BY <1>1, <2>2 DEF Earlier
  <2> HIDE DEF a, f, s
  <2>5. e \in EntryType
    BY <1>1, <1>2, <2>1, <2>2, <2>3, <2>4 DEF EntryType
  <2>6. e.row = f /\ e.kind = "refresh" /\ e.id = rows[f].id /\ e.acct = a
    BY <2>3
  <2> QED BY <1>3, <1>5, <2>1, <2>5, <2>6 DEF a
<1>6. CASE f = 0
  <2>1. RowsOfId(rows, c) = {} /\ RowsOfKey(rows, Key(a)) = {}
    BY <1>3, <1>4, <1>6, FilledRows
  <2>2. c \in Unlisted(rows, cands, match)
    BY <1>6 DEF Unlisted
  <2>3. AppendRow(rows, cands, match, c) \in Nat \ {0}
    <3>1. DOMAIN cands \subseteq CandidateId
      BY DEF Table
    <3>2. AppendRow(rows, cands, match, c) \in Nat /\ AppendRow(rows, cands, match, c) > Len(rows)
      BY <2>2, <3>1, AppendRowsApart
    <3>3. Len(rows) \in Nat
      OBVIOUS
    <3> QED BY <3>2, <3>3
  <2>4. e = [kind |-> "append", row |-> AppendRow(rows, cands, match, c), id |-> c,
             acct |-> a, sync |-> s, first |-> cands[c].first]
    BY <1>6 DEF Entry
  <2> HIDE DEF a, f, s
  <2>5. e \in EntryType
    BY <1>1, <1>2, <2>3, <2>4 DEF EntryType
  <2>6. /\ e.row = AppendRow(rows, cands, match, c) /\ e.kind = "append"
        /\ e.id = c /\ e.acct = a
    BY <2>4
  <2> QED BY <2>1, <2>2, <2>5, <2>6 DEF a
<1> QED BY <1>5, <1>6

\* The number of rows after a request: as many as before, and all the rows it names.
LEMMA RowCountBounds ==
    ASSUME NEW rows \in Seq(Row(Time)), NEW batch, Plan(batch)
    PROVE  /\ RowCount(rows, batch) \in Nat
           /\ Len(rows) <= RowCount(rows, batch)
           /\ \A c \in DOMAIN batch : batch[c].row <= RowCount(rows, batch)
<1> DEFINE T == {batch[c].row : c \in DOMAIN batch}
           f == [c \in DOMAIN batch |-> batch[c].row]
<1>1. IsFiniteSet(DOMAIN batch)
  BY CandidateIdAssumption, FS_Subset DEF Plan, Table
<1>2. f \in Surjection(DOMAIN batch, T)
  BY DEF Surjection
<1>3. IsFiniteSet(T)
  BY <1>1, <1>2, FS_Surjection
<1>4. T \in SUBSET Nat /\ Len(rows) \in Nat
  BY DEF Plan, Table, EntryType
<1>5. IsFiniteSet({Len(rows)} \cup T)
  BY <1>3, FS_Singleton, FS_Union
<1>6. {Len(rows)} \cup T \in SUBSET Int /\ {Len(rows)} \cup T # {}
  BY <1>4
<1>7. RowCount(rows, batch) = Greatest({Len(rows)} \cup T)
  BY DEF RowCount
<1>8. /\ Greatest({Len(rows)} \cup T) \in {Len(rows)} \cup T
      /\ \A j \in {Len(rows)} \cup T : j <= Greatest({Len(rows)} \cup T)
  BY <1>5, <1>6, GreatestIsMember
<1> QED BY <1>4, <1>7, <1>8

\* What the sheet holds after a request, row by row.
LEMMA AppliedRows ==
    ASSUME NEW rows \in Seq(Row(Time)), NEW batch, Plan(batch)
    PROVE  LET new == ApplyBatch(rows, batch)
               old(i) == IF i \in DOMAIN rows THEN rows[i] ELSE Blank
           IN  /\ DOMAIN new = 1..RowCount(rows, batch) /\ DOMAIN rows \subseteq DOMAIN new
               /\ new = [i \in DOMAIN new |-> new[i]]
               /\ \A i \in DOMAIN new :
                    \/ new[i] = old(i)
                    \/ \E c \in DOMAIN batch :
                         batch[c].row = i /\ new[i] = Written(old(i), batch[c])
<1> DEFINE new == ApplyBatch(rows, batch)
           old(i) == IF i \in DOMAIN rows THEN rows[i] ELSE Blank
<1>1. RowCount(rows, batch) \in Nat /\ Len(rows) <= RowCount(rows, batch) /\ Len(rows) \in Nat
      /\ DOMAIN rows = 1..Len(rows)
  BY RowCountBounds
<1>2. DOMAIN new = 1..RowCount(rows, batch)
  BY DEF ApplyBatch
<1>3. ASSUME NEW i \in DOMAIN new
      PROVE  \/ new[i] = old(i)
             \/ \E c \in DOMAIN batch : batch[c].row = i /\ new[i] = Written(old(i), batch[c])
  <2>1. i \in Nat \ {0} /\ (i <= Len(rows) <=> i \in DOMAIN rows)
    BY <1>1, <1>2, <1>3
  <2>2. new[i] = IF Writes(batch, i) = {} THEN old(i)
                 ELSE Written(old(i), batch[Greatest(Writes(batch, i))])
    <3> DEFINE here == IF i <= Len(rows) THEN rows[i] ELSE Blank
    <3>1. i \in 1..RowCount(rows, batch)
      BY <1>2
    <3>2. new[i] = IF Writes(batch, i) = {} THEN here
                   ELSE Written(here, batch[Greatest(Writes(batch, i))])
      BY <3>1 DEF ApplyBatch
    <3>3. here = old(i)
      BY <2>1
    <3> HIDE DEF here, new, old
    <3> QED BY <3>2, <3>3
  <2>3. CASE Writes(batch, i) = {}
    BY <2>2, <2>3
  <2>4. CASE Writes(batch, i) # {}
    <3>1. Writes(batch, i) \in SUBSET CandidateId
      BY DEF Writes, Plan, Table
    <3>2. IsFiniteSet(Writes(batch, i)) /\ CandidateId \in SUBSET Int
      BY <3>1, CandidateIdAssumption, FS_Subset
    <3>3. Greatest(Writes(batch, i)) \in Writes(batch, i)
      BY <2>4, <3>1, <3>2, GreatestIsMember
    <3> QED BY <2>2, <2>4, <3>3 DEF Writes
  <2> QED BY <2>3, <2>4
<1>4. new = [i \in DOMAIN new |-> new[i]]
  BY DEF ApplyBatch
<1> HIDE DEF new
<1>5. DOMAIN rows \subseteq DOMAIN new
  BY <1>1, <1>2
<1> QED BY <1>2, <1>3, <1>4, <1>5 DEF new

------------------------------------------------------------------------------
(***************************************************************************)
(* The invariant.  With one writer nothing but curators comes between the  *)
(* reading of the inbox and the requests, so a plan still fits the rows    *)
(* when it is delivered, first or second time.                             *)
(***************************************************************************)

\* The plans a writer holds and the requests on the wire.
HasPlan(w) == writer[w].pc \in {"grid", "grow", "send", "wait"}
Plans == {m.batch : m \in wire} \cup {writer[w].plan : w \in {v \in Writer : HasPlan(v)}}

\* What entry e for candidate c assumes of the rows: a refresh names a row and its
\* ID; a new row is the only one that has, or will have, the ID of the candidate.
Sits(rows, c, e) ==
    /\ e.kind = "refresh" => e.row \in Filled(rows) /\ e.id = rows[e.row].id
    /\ e.kind = "append" => e.id = c /\ \A i \in Filled(rows) : i = e.row <=> rows[i].id = c

\* Two entries: one for each candidate, and nobody else writes to a new row.
Apart(c, e, d, g) ==
    /\ c = d => e = g
    /\ e.kind = "append" /\ e.row = g.row => c = d

Settled(rows, fs) ==
    \A f, g \in fs : \A c \in DOMAIN f, d \in DOMAIN g :
        Sits(rows, c, f[c]) /\ Apart(c, f[c], d, g[d])

\* Before it sends anything a writer is alone with the inbox it has read.
Alone == \A w \in Writer : writer[w].pc \in {"read", "grid", "grow"} => wire = {}

Appends(f, c) == f[c].kind = "append"

\* The new rows of a plan that has not been sent are below the last one.
Unsent ==
    \A w \in Writer : writer[w].pc \in {"grid", "grow"} =>
        \A c \in DOMAIN writer[w].plan :
            Appends(writer[w].plan, c) => writer[w].plan[c].row \notin Filled(inbox)

\* The rows a plan needs, counted, about to be made, and there.
Room ==
    /\ \A w \in Writer : writer[w].pc = "grid" =>
          /\ writer[w].needed > Len(inbox)
          /\ \A c \in DOMAIN writer[w].plan : writer[w].plan[c].row < writer[w].needed
    /\ \A w \in Writer : writer[w].pc = "grow" =>
          /\ writer[w].target > Len(inbox)
          /\ \A c \in DOMAIN writer[w].plan : writer[w].plan[c].row < writer[w].target
    /\ \A w \in Writer : writer[w].pc \in {"send", "wait"} =>
          \A c \in DOMAIN writer[w].plan : writer[w].plan[c].row < grid
    /\ \A m \in wire : \A c \in DOMAIN m.batch : m.batch[c].row < grid

\* A curator who waits has not touched a row that may be written once more.
Untouched ==
    CuratorWaits =>
        \A f \in Plans : \A c \in DOMAIN f :
            Appends(f, c) /\ f[c].row \in Filled(inbox) => inbox[f[c].row].review = "pending"

InboxInv ==
    /\ TypeOK /\ Settled(inbox, Plans) /\ Alone /\ Unsent /\ Room /\ Untouched
    /\ InboxAccepted

\* A request that fits the rows keeps every filled row and its ID, and fills no
\* other row than the new one of a candidate.
LEMMA RequestApplied ==
    ASSUME NEW rows \in Seq(Row(Time)), NEW batch, Plan(batch), Settled(rows, {batch}),
           NEW new, new = ApplyBatch(rows, batch)
    PROVE  /\ new \in Seq(Row(Time))
           /\ Filled(rows) \subseteq Filled(new)
           /\ \A i \in Filled(rows) : new[i].id = rows[i].id
           /\ \A i \in Filled(rows) :
                \/ new[i] = rows[i]
                \/ \E c \in DOMAIN batch :
                     batch[c].row = i /\ new[i] = Written(rows[i], batch[c])
           /\ \A i \in Filled(new) \ Filled(rows) : \E c \in DOMAIN batch :
                /\ Appends(batch, c) /\ batch[c].row = i
                /\ new[i] = Written(Blank, batch[c]) /\ new[i].id = c
<1> DEFINE old(i) == IF i \in DOMAIN rows THEN rows[i] ELSE Blank
<1>1. /\ DOMAIN new = 1..RowCount(rows, batch) /\ DOMAIN rows \subseteq DOMAIN new
      /\ new = [i \in DOMAIN new |-> new[i]]
      /\ \A i \in DOMAIN new :
            \/ new[i] = old(i)
            \/ \E c \in DOMAIN batch : batch[c].row = i /\ new[i] = Written(old(i), batch[c])
  BY AppliedRows
<1>2. RowCount(rows, batch) \in Nat
  BY RowCountBounds
<1>3. \A i \in Filled(rows) : i \in DOMAIN rows /\ old(i) = rows[i] /\ rows[i] \in FilledRow(Time)
  BY RowColumns DEF Filled
<1>4. \A i : i \notin Filled(rows) => old(i) = Blank
  BY RowColumns
<1> HIDE DEF old
<1>5. \A c \in DOMAIN batch : batch[c] \in EntryType /\ Sits(rows, c, batch[c])
  BY DEF Settled, Plan, Table
<1>6. ASSUME NEW c \in DOMAIN batch, NEW i \in Filled(rows), batch[c].row = i
      PROVE  /\ Written(rows[i], batch[c]) \in FilledRow(Time)
             /\ Written(rows[i], batch[c]).id = rows[i].id
  <2>1. batch[c].id = rows[i].id
    BY <1>5, <1>6 DEF Sits, EntryType
  <2>2. rows[i].review \in Verdict /\ "pending" \in Verdict
    BY <1>3 DEF FilledRow, Verdict
  <2> QED BY <1>5, <2>1, <2>2 DEF Written, EntryType, FilledRow
<1>7. ASSUME NEW c \in DOMAIN batch, batch[c].row \notin Filled(rows)
      PROVE  /\ Appends(batch, c)
             /\ Written(Blank, batch[c]) \in FilledRow(Time)
             /\ Written(Blank, batch[c]).id = c
  <2>1. batch[c].kind = "append" /\ batch[c].id = c
    BY <1>5, <1>7 DEF Sits, EntryType
  <2>2. "pending" \in Verdict
    BY DEF Verdict
  <2> QED BY <1>5, <2>1, <2>2 DEF Appends, Written, EntryType, FilledRow
<1>8. \A i \in Filled(rows) :
         \/ new[i] = rows[i]
         \/ \E c \in DOMAIN batch : batch[c].row = i /\ new[i] = Written(rows[i], batch[c])
  BY <1>1, <1>3
<1>9. \A i \in Filled(rows) : /\ i \in DOMAIN new /\ new[i] \in FilledRow(Time)
                              /\ new[i].id = rows[i].id
  BY <1>1, <1>3, <1>6, <1>8
<1>10. \A i \in DOMAIN new \ Filled(rows) :
         \/ new[i] = Blank
         \/ \E c \in DOMAIN batch : /\ batch[c].row = i /\ Appends(batch, c)
                                    /\ new[i] = Written(Blank, batch[c])
                                    /\ new[i] \in FilledRow(Time) /\ new[i].id = c
  BY <1>1, <1>4, <1>7
<1>11. \A i \in DOMAIN new : new[i] \in Row(Time)
  BY <1>9, <1>10 DEF Row
<1>12. new \in Seq(Row(Time))
  BY <1>1, <1>2, <1>11
<1>13. Blank.id = NoId
  BY DEF Blank
<1> QED BY <1>8, <1>9, <1>10, <1>12, <1>13 DEF Filled

------------------------------------------------------------------------------
(***************************************************************************)
(* Types.                                                                  *)
(***************************************************************************)

LEMMA Tasks ==
    ASSUME TypeOK, NEW w \in Writer
    PROVE  /\ TaskOK(writer[w]) /\ writer = [v \in Writer |-> writer[v]]
           /\ writer[w].pc = "read" => Table(writer[w].cands, Candidate)
           /\ HasPlan(w) => Plan(writer[w].plan)
           /\ writer[w].pc = "grid" => writer[w].needed \in Nat
           /\ writer[w].pc = "grow" => writer[w].target \in Nat
           /\ writer[w].pc \in {"send", "wait"} =>
                /\ writer[w].left \subseteq DOMAIN writer[w].plan /\ writer[w].tries \in Tries
                /\ writer[w] = [pc |-> writer[w].pc, plan |-> writer[w].plan,
                                left |-> writer[w].left, tries |-> writer[w].tries]
BY DEF TypeOK, TaskOK, HasPlan, Idle

\* One writer moves to task t.
LEMMA TaskStep ==
    ASSUME TypeOK, NEW w \in Writer, NEW t, TaskOK(t), writer' = [writer EXCEPT ![w] = t]
    PROVE  /\ writer'[w] = t /\ \A v \in Writer \ {w} : writer'[v] = writer[v]
           /\ writer' = [v \in Writer |-> writer'[v]]
           /\ \A v \in Writer : TaskOK(writer'[v])
<1>1. writer = [v \in Writer |-> writer[v]] /\ \A v \in Writer : TaskOK(writer[v])
  BY DEF TypeOK
<1> QED BY <1>1

LEMMA IdleTask == TaskOK(Idle)
BY DEF TaskOK

LEMMA SendingTask ==
    ASSUME NEW plan, Plan(plan), NEW left \in SUBSET DOMAIN plan, NEW tries \in Tries
    PROVE  TaskOK(Sending(plan, left, tries))
<1> DEFINE t == Sending(plan, left, tries)
<1>1. /\ t.pc = "send" /\ t.plan = plan /\ t.left = left /\ t.tries = tries
      /\ t = [pc |-> t.pc, plan |-> t.plan, left |-> t.left, tries |-> t.tries]
  BY DEF Sending
<1> HIDE DEF t
<1> QED BY <1>1 DEF TaskOK, t

LEMMA ReadyTask == ASSUME NEW plan, Plan(plan) PROVE TaskOK(Ready(plan))
<1>1. 0 \in Tries
  BY InboxAssumption DEF Tries
<1> QED BY <1>1, SendingTask DEF Ready

\* PlanSync makes a plan.
LEMMA PlanSyncType ==
    ASSUME NEW rows \in Seq(Row(Time)), NEW cands, Table(cands, Candidate), NEW match
    PROVE  Plan(PlanSync(rows, cands, match))
<1> DEFINE plan == PlanSync(rows, cands, match)
<1>1. plan = [c \in Incoming(rows, cands, match) |-> Entry(rows, cands, match, c)]
  BY DEF PlanSync
<1>2. Incoming(rows, cands, match) \subseteq CandidateId
  BY DEF Incoming, Table
<1>3. \A c \in Incoming(rows, cands, match) : Entry(rows, cands, match, c) \in EntryType
  BY EntryCases
<1> HIDE DEF plan
<1> QED BY <1>1, <1>2, <1>3 DEF Plan, Table, plan

\* A request carries a part of its writer's plan.
Sub(f, g) == DOMAIN f \subseteq DOMAIN g /\ \A c \in DOMAIN f : f[c] = g[c]

LEMMA RequestFacts ==
    ASSUME TypeOK, NEW w \in Writer, writer[w].pc \in {"send", "wait"}
    PROVE  /\ Sub(NextBatch(writer[w]), writer[w].plan)
           /\ RequestOK(RequestOf(w)) /\ RequestOf(w).batch = NextBatch(writer[w])
<1> DEFINE t == writer[w]
           b == NextBatch(t)
<1>1. Plan(t.plan) /\ t.left \subseteq DOMAIN t.plan /\ t.tries \in Tries
  BY Tasks DEF HasPlan
<1>2. DOMAIN b \subseteq t.left /\ b = [c \in DOMAIN b |-> t.plan[c]]
  BY DEF NextBatch
<1> HIDE DEF b
<1>3. b = [c \in DOMAIN b |-> b[c]] /\ \A c \in DOMAIN b : b[c] = t.plan[c]
  BY <1>2
<1>4. Plan(b) /\ Sub(b, t.plan)
  BY <1>1, <1>2, <1>3 DEF Plan, Table, Sub
<1>5. RequestOf(w) = [from |-> w, batch |-> b, try |-> t.tries]
  BY DEF RequestOf, b
<1> QED BY <1>1, <1>4, <1>5 DEF RequestOK, b

LEMMA ObserveType == ASSUME TypeOK, NEW o \in Observation, Observe(o) PROVE TypeOK'
<1>1. PICK fresh \in CandidateId \ UsedIds : db' = Upsert(db, o.acct, o.input, fresh, clock)
  BY DEF Observe
<1> DEFINE id == UpsertedId(db, o.acct, o.input, fresh)
           old == Matching(db, o.acct, o.input)
           row == [acct |-> o.acct, input |-> o.input,
                   first |-> IF old # {} THEN db[id].first ELSE clock]
<1>2. o.acct \in Account /\ o.input \in Url
  BY InboxAssumption
<1>3. old \subseteq DOMAIN db /\ Table(db, Candidate) /\ clock \in Time
  BY DEF Matching, SameKey, Unresolved, TypeOK
<1>4. old # {} => id \in old
  BY DEF UpsertedId
<1>5. id \in CandidateId
  BY <1>3, <1>4 DEF UpsertedId, Table
<1>6. row \in Candidate
  BY <1>2, <1>3, <1>4 DEF Candidate, Table
<1>7. db' = [i \in DOMAIN db \cup {id} |-> IF i = id THEN row ELSE db[i]]
  BY <1>1 DEF Upsert
<1> HIDE DEF id, old, row
<1>8. Table(db', Candidate)
  BY <1>3, <1>5, <1>6, <1>7 DEF Table
<1> QED BY <1>8 DEF Observe, TypeOK

\* The steps that leave the inbox, the requests and the writers alone.
LEMMA LocalType == ASSUME TypeOK, Tick \/ (\E ch \in Channel : Promote(ch)) PROVE TypeOK'
<1>1. CASE Tick
  BY <1>1, InboxAssumption DEF Tick, TypeOK, Time
<1>2. ASSUME NEW ch \in Channel, Promote(ch) PROVE TypeOK'
  <2>1. canon' \in [Channel -> MatchState]
    BY <1>2 DEF Promote, TypeOK, MatchState
  <2> QED BY <1>2, <2>1 DEF Promote, TypeOK
<1> QED BY <1>1, <1>2

LEMMA LossType == ASSUME TypeOK, LoseDatabase PROVE TypeOK'
<1>1. losses' \in 0..MaxLosses
  BY InboxAssumption DEF LoseDatabase, TypeOK
<1>2. writer' = [w \in Writer |-> Idle] /\ wire' = {} /\ db' = [c \in {} |-> {}]
  BY DEF LoseDatabase
<1>3. Table(db', Candidate)
  BY <1>2 DEF Table
<1>4. writer' = [w \in Writer |-> writer'[w]] /\ \A w \in Writer : TaskOK(writer'[w])
  BY <1>2, IdleTask
<1> QED BY <1>1, <1>2, <1>3, <1>4 DEF LoseDatabase, TypeOK

\* A curator's step changes one column of one row.
LEMMA CuratorStep ==
    ASSUME TypeOK, NEW i \in DOMAIN inbox, FillId(i) \/ \E v \in Verdict : Review(i, v)
    PROVE  /\ inbox' \in Seq(Row(Time)) /\ Len(inbox') = Len(inbox) /\ Filled(inbox') = Filled(inbox)
           /\ i \in Filled(inbox)
           /\ \A j \in DOMAIN inbox : /\ inbox'[j].id = inbox[j].id
                                      /\ j # i => inbox'[j] = inbox[j]
<1>0. inbox \in Seq(Row(Time))
  BY DEF TypeOK
<1>1. i \in Filled(inbox) /\ inbox[i] \in FilledRow(Time)
  BY <1>0, RowColumns DEF FillId, Review, Filled
<1>2. PICK r \in FilledRow(Time) : inbox' = [inbox EXCEPT ![i] = r] /\ r.id = inbox[i].id
  <2>1. CASE FillId(i)
    <3> DEFINE r == [inbox[i] EXCEPT !.acct.pid = Owner[inbox[i].acct.url.of]]
    <3>1. inbox[i].acct \in Account /\ inbox[i].acct.url \in Url /\ inbox[i].acct.url.kind = "page"
      BY <1>1, <2>1 DEF FillId, FilledRow, Account
    <3>2. Owner[inbox[i].acct.url.of] \in Channel
      BY <3>1, InboxAssumption DEF Url
    <3>3. [inbox[i].acct EXCEPT !.pid = Owner[inbox[i].acct.url.of]] \in Account
      BY <3>1, <3>2 DEF Account
    <3>4. r \in FilledRow(Time) /\ r.id = inbox[i].id
      BY <1>1, <3>3 DEF FilledRow
    <3>5. inbox' = [inbox EXCEPT ![i] = r]
      BY <2>1 DEF FillId
    <3> QED BY <3>4, <3>5
  <2>2. ASSUME NEW v \in Verdict, Review(i, v)
        PROVE  \E r \in FilledRow(Time) : inbox' = [inbox EXCEPT ![i] = r] /\ r.id = inbox[i].id
    <3> DEFINE r == [inbox[i] EXCEPT !.review = v]
    <3>1. r \in FilledRow(Time) /\ r.id = inbox[i].id
      BY <1>1 DEF FilledRow
    <3>2. inbox' = [inbox EXCEPT ![i] = r]
      BY <2>2 DEF Review
    <3> QED BY <3>1, <3>2
  <2> QED BY <2>1, <2>2
<1>3. r \in Row(Time)
  BY DEF Row
<1>4. inbox' \in Seq(Row(Time)) /\ Len(inbox') = Len(inbox)
  BY <1>0, <1>2, <1>3
<1>5. \A j \in DOMAIN inbox : inbox'[j].id = inbox[j].id /\ (j # i => inbox'[j] = inbox[j])
  BY <1>0, <1>2
<1>6. DOMAIN inbox' = DOMAIN inbox
  BY <1>0, <1>2
<1> QED BY <1>1, <1>4, <1>5, <1>6 DEF Filled

LEMMA CuratorType ==
    ASSUME TypeOK, NEW i \in DOMAIN inbox, FillId(i) \/ \E v \in Verdict : Review(i, v)
    PROVE  TypeOK'
BY CuratorStep DEF TypeOK, FillId, Review

LEMMA WriterType ==
    ASSUME TypeOK, NEW w \in Writer, WriterStep(w) \/ Abandon(w)
    PROVE  TypeOK'
<1>0. inbox \in Seq(Row(Time)) /\ Table(db, Candidate) /\ grid \in Nat /\ TaskOK(writer[w])
      /\ faults \in 0..MaxFaults
  BY DEF TypeOK
<1> DEFINE Moved == \E t : TaskOK(t) /\ writer' = [writer EXCEPT ![w] = t]
<1>1. Moved => writer' = [v \in Writer |-> writer'[v]] /\ \A v \in Writer : TaskOK(writer'[v])
  BY TaskStep
<1>2. CASE Begin(w)
  <2> DEFINE t == [pc |-> "read", cands |-> db]
  <2>1. TaskOK(t)
    BY <1>0 DEF TaskOK
  <2>2. Moved
    BY <2>1, <1>2 DEF Begin
  <2> QED BY <2>2, <1>1, <1>2 DEF Begin, TypeOK
<1>3. CASE ReadTables(w)
  <2> DEFINE plan == PlanSync(inbox, writer[w].cands, Match)
             t == [pc |-> "grid", plan |-> plan, needed |-> 1 + RowCount(inbox, plan)]
  <2>1. Plan(plan)
    BY <1>0, <1>3, Tasks, PlanSyncType DEF ReadTables
  <2>2. 1 + RowCount(inbox, plan) \in Nat
    BY <2>1, <1>0, RowCountBounds
  <2>3. TaskOK(t)
    <3> HIDE DEF plan
    <3> QED BY <2>1, <2>2 DEF TaskOK
  <2>4. writer' = [writer EXCEPT ![w] = Idle] \/ writer' = [writer EXCEPT ![w] = t]
    BY <1>3 DEF ReadTables
  <2>5. Moved
    BY <2>3, <2>4, IdleTask
  <2> QED BY <2>5, <1>1, <1>3 DEF ReadTables, TypeOK
<1>4. CASE CheckGrid(w)
  <2> DEFINE t == [pc |-> "grow", plan |-> writer[w].plan, target |-> RoundUp(writer[w].needed)]
  <2>1. Plan(writer[w].plan) /\ RoundUp(writer[w].needed) \in Nat
    BY <1>4, Tasks, RoundUpIsEnough DEF CheckGrid, HasPlan
  <2>2. TaskOK(t)
    BY <2>1 DEF TaskOK
  <2>3. \/ writer' = [writer EXCEPT ![w] = Idle] \/ writer' = [writer EXCEPT ![w] = t]
        \/ writer' = [writer EXCEPT ![w] = Ready(writer[w].plan)]
    BY <1>4 DEF CheckGrid
  <2>4. Moved
    BY <2>1, <2>2, <2>3, IdleTask, ReadyTask
  <2> QED BY <2>4, <1>1, <1>4 DEF CheckGrid, TypeOK
<1>5. CASE GrowGrid(w)
  <2> DEFINE n == Earlier(Len(inbox), writer[w].target - 1)
  <2>1. Plan(writer[w].plan) /\ writer[w].target \in Nat
    BY <1>5, Tasks DEF GrowGrid, HasPlan
  <2>2. Moved
    BY <1>5, <2>1, ReadyTask DEF GrowGrid
  <2>3. n \in Int /\ n <= Len(inbox)
    BY <1>0, <2>1 DEF Earlier
  <2>4. \A i \in 1..n : inbox[i] \in Row(Time)
    BY <1>0, <2>3
  <2>5. SubSeq(inbox, 1, n) \in Seq(Row(Time))
    <3> HIDE DEF n
    <3> QED BY <2>3, <2>4, SubSeqProperties
  <2> QED BY <2>1, <2>2, <2>5, <1>1, <1>5 DEF GrowGrid, TypeOK
<1>6. CASE Send(w)
  <2> DEFINE t == [writer[w] EXCEPT !.pc = "wait"]
  <2>1. /\ Plan(writer[w].plan) /\ RequestOK(RequestOf(w))
        /\ writer[w].left \subseteq DOMAIN writer[w].plan /\ writer[w].tries \in Tries
        /\ writer[w] = [pc |-> writer[w].pc, plan |-> writer[w].plan,
                        left |-> writer[w].left, tries |-> writer[w].tries]
    BY <1>6, Tasks, RequestFacts DEF Send, HasPlan
  <2>2. t = [pc |-> "wait", plan |-> writer[w].plan,
             left |-> writer[w].left, tries |-> writer[w].tries]
    BY <2>1
  <2>3. TaskOK(t)
    <3> HIDE DEF t
    <3> QED BY <2>1, <2>2 DEF TaskOK
  <2>4. Moved
    BY <1>6, <2>3 DEF Send
  <2> QED BY <2>1, <2>4, <1>1, <1>6 DEF Send, TypeOK
<1>7. CASE TimeOut(w)
  <2> DEFINE t == Sending(writer[w].plan, writer[w].left, writer[w].tries + 1)
  <2>1. /\ Plan(writer[w].plan) /\ writer[w].left \subseteq DOMAIN writer[w].plan
        /\ writer[w].tries \in Tries
    BY <1>7, Tasks DEF TimeOut, HasPlan
  <2>2. MoreTries(writer[w]) => writer[w].tries + 1 \in Tries
    BY <2>1, InboxAssumption DEF MoreTries, Tries
  <2>3. MoreTries(writer[w]) => TaskOK(t)
    BY <2>1, <2>2, SendingTask
  <2>4. \/ writer' = [writer EXCEPT ![w] = Idle]
        \/ MoreTries(writer[w]) /\ writer' = [writer EXCEPT ![w] = t]
    BY <1>7 DEF TimeOut
  <2>5. Moved
    BY <2>3, <2>4, IdleTask
  <2>6. faults' \in 0..MaxFaults
    BY <1>0, <1>7, InboxAssumption DEF TimeOut
  <2> QED BY <2>5, <2>6, <1>1, <1>7 DEF TimeOut, TypeOK
<1>8. CASE Abandon(w)
  <2>1. Moved
    BY <1>8, IdleTask DEF Abandon
  <2>2. faults' \in 0..MaxFaults
    BY <1>0, <1>8, InboxAssumption DEF Abandon
  <2> QED BY <2>1, <2>2, <1>1, <1>8 DEF Abandon, TypeOK
<1> QED BY <1>2, <1>3, <1>4, <1>5, <1>6, <1>7, <1>8 DEF WriterStep

\* A request that is applied, lost or heard of; the rows are RequestApplied's.
LEMMA WireType ==
    ASSUME TypeOK, NEW m \in wire, Deliver(m) \/ DeliverUnheard(m) \/ Lose(m),
           Received(m) \in Seq(Row(Time))
    PROVE  TypeOK'
<1>1. RequestOK(m) /\ m.from \in Writer /\ faults \in 0..MaxFaults
  BY DEF TypeOK, RequestOK
<1>2. CASE Deliver(m)
  <2> DEFINE w == m.from
             left == writer[w].left \ DOMAIN m.batch
             t == Sending(writer[w].plan, left, 0)
  <2>1. Plan(writer[w].plan) /\ writer[w].left \subseteq DOMAIN writer[w].plan
    BY <1>1, <1>2, Tasks DEF Deliver, Waiting, HasPlan
  <2>3. left \subseteq DOMAIN writer[w].plan /\ 0 \in Tries
    BY <2>1, InboxAssumption DEF Tries
  <2>4. TaskOK(t)
    BY <2>1, <2>3, SendingTask
  <2>5. writer' = [writer EXCEPT ![w] = Idle] \/ writer' = [writer EXCEPT ![w] = t]
    BY <1>2 DEF Deliver
  <2>6. writer' = [v \in Writer |-> writer'[v]] /\ \A v \in Writer : TaskOK(writer'[v])
    <3> HIDE DEF t, w
    <3>1. w \in Writer
      BY <1>1 DEF w
    <3> QED BY <2>4, <2>5, <3>1, TaskStep, IdleTask
  <2> QED BY <2>6, <1>2 DEF Deliver, TypeOK
<1>3. CASE DeliverUnheard(m) \/ Lose(m)
  <2>1. faults' \in 0..MaxFaults
    BY <1>1, <1>3, InboxAssumption DEF DeliverUnheard, Lose
  <2> QED BY <1>3, <2>1 DEF DeliverUnheard, Lose, TypeOK
<1> QED BY <1>2, <1>3

------------------------------------------------------------------------------
(***************************************************************************)
(* How the plans, the requests and the rows change.                        *)
(***************************************************************************)

NewPlan(w) == PlanSync(inbox, writer[w].cands, Match)

LEMMA PlansTyped == ASSUME TypeOK, NEW f \in Plans PROVE Plan(f)
BY Tasks DEF Plans, TypeOK, RequestOK

\* A step makes no plan but that of ReadTables.
LEMMA PlansStep ==
    ASSUME TypeOK, Next
    PROVE  \A f \in Plans' :
              \/ \E g \in Plans : Sub(f, g)
              \/ \E w \in Writer : ReadTables(w) /\ f = NewPlan(w)
<1>0. \A f : Sub(f, f)
  BY DEF Sub
<1>1. CASE wire' \subseteq wire /\ writer' = writer
  BY <1>0, <1>1 DEF Plans, HasPlan
<1>2. CASE LoseDatabase
  BY <1>2 DEF LoseDatabase, Plans, HasPlan, Idle
<1>3. ASSUME NEW w \in Writer, writer' = [writer EXCEPT ![w] = Idle], wire' \subseteq wire
      PROVE  \A f \in Plans' : \E g \in Plans : Sub(f, g)
  <2>1. writer'[w] = Idle /\ \A v \in Writer \ {w} : writer'[v] = writer[v]
    BY <1>3, TaskStep, IdleTask
  <2> QED BY <1>0, <1>3, <2>1 DEF Plans, HasPlan, Idle
<1>4. ASSUME NEW w \in Writer, NEW t, TaskOK(t), writer' = [writer EXCEPT ![w] = t],
             HasPlan(w), t.plan = writer[w].plan, wire' \subseteq wire
      PROVE  \A f \in Plans' : \E g \in Plans : Sub(f, g)
  <2>1. writer'[w] = t /\ \A v \in Writer \ {w} : writer'[v] = writer[v]
    BY <1>4, TaskStep
  <2> QED BY <1>0, <1>4, <2>1 DEF Plans, HasPlan
<1>5. ASSUME NEW w \in Writer, Begin(w)
      PROVE  \A f \in Plans' : \E g \in Plans : Sub(f, g)
  <2> DEFINE t == [pc |-> "read", cands |-> db]
  <2>1. TaskOK(t) /\ writer' = [writer EXCEPT ![w] = t]
    BY <1>5 DEF Begin, TaskOK, TypeOK
  <2>2. writer'[w] = t /\ \A v \in Writer \ {w} : writer'[v] = writer[v]
    BY <2>1, TaskStep
  <2> QED BY <1>0, <1>5, <2>2 DEF Plans, HasPlan, Begin
<1>6. ASSUME NEW w \in Writer, ReadTables(w)
      PROVE  \A f \in Plans' : (\E g \in Plans : Sub(f, g)) \/ f = NewPlan(w)
  <2>1. \A v \in Writer \ {w} : writer'[v] = writer[v]
    BY <1>6 DEF ReadTables, TypeOK
  <2>2. writer'[w] = Idle \/ writer'[w].plan = NewPlan(w)
    BY <1>6 DEF ReadTables, NewPlan, TypeOK
  <2>3. wire' = wire /\ ~(Idle.pc \in {"grid", "grow", "send", "wait"})
    BY <1>6 DEF ReadTables, Idle
  <2> QED BY <1>0, <2>1, <2>2, <2>3 DEF Plans, HasPlan
<1>7. ASSUME NEW w \in Writer, CheckGrid(w) \/ GrowGrid(w)
      PROVE  \A f \in Plans' : \E g \in Plans : Sub(f, g)
  <2> DEFINE grow == [pc |-> "grow", plan |-> writer[w].plan,
                      target |-> RoundUp(writer[w].needed)]
             ready == Ready(writer[w].plan)
  <2>1. HasPlan(w) /\ wire' = wire
    BY <1>7 DEF CheckGrid, GrowGrid, HasPlan
  <2>2. Plan(writer[w].plan)
    BY <2>1, Tasks
  <2>3. TaskOK(ready) /\ ready.plan = writer[w].plan
    BY <2>2, ReadyTask DEF Ready, Sending
  <2>4. writer[w].pc = "grid" => TaskOK(grow) /\ grow.plan = writer[w].plan
    BY <2>2, Tasks, RoundUpIsEnough DEF TaskOK
  <2>5. \/ writer' = [writer EXCEPT ![w] = Idle]
        \/ writer' = [writer EXCEPT ![w] = ready]
        \/ writer[w].pc = "grid" /\ writer' = [writer EXCEPT ![w] = grow]
    BY <1>7 DEF CheckGrid, GrowGrid
  <2> HIDE DEF grow, ready
  <2> QED BY <1>3, <1>4, <2>1, <2>3, <2>4, <2>5
<1>8. ASSUME NEW w \in Writer, Send(w)
      PROVE  \A f \in Plans' : \E g \in Plans : Sub(f, g)
  <2>1. HasPlan(w) /\ writer[w].plan \in Plans
    BY <1>8 DEF Send, HasPlan, Plans
  <2>2. Sub(RequestOf(w).batch, writer[w].plan)
    BY <1>8, RequestFacts DEF Send
  <2>3. /\ \A v \in Writer : writer'[v].plan = writer[v].plan /\ (HasPlan(v)' => HasPlan(v))
        /\ wire' = wire \cup {RequestOf(w)}
    BY <1>8, <2>1 DEF Send, HasPlan, TypeOK
  <2> HIDE DEF Send
  <2> QED BY <1>0, <2>1, <2>2, <2>3 DEF Plans
<1>9. ASSUME NEW w \in Writer, TimeOut(w) \/ Abandon(w)
      PROVE  \A f \in Plans' : \E g \in Plans : Sub(f, g)
  <2> DEFINE t == Sending(writer[w].plan, writer[w].left, writer[w].tries + 1)
  <2>1. t.plan = writer[w].plan /\ wire' = wire
    BY <1>9 DEF Sending, TimeOut, Abandon
  <2>2. CASE writer' = [writer EXCEPT ![w] = Idle]
    BY <1>3, <2>1, <2>2
  <2>3. CASE TimeOut(w) /\ MoreTries(writer[w])
    <3>1. HasPlan(w) /\ writer' = [writer EXCEPT ![w] = t]
      BY <2>3 DEF TimeOut, HasPlan
    <3>2. Plan(writer[w].plan) /\ writer[w].left \subseteq DOMAIN writer[w].plan
          /\ writer[w].tries \in Tries
      BY <2>3, Tasks DEF TimeOut, HasPlan
    <3>3. writer[w].tries + 1 \in Tries
      BY <2>3, <3>2, InboxAssumption DEF MoreTries, Tries
    <3>4. TaskOK(t)
      BY <3>2, <3>3, SendingTask
    <3> HIDE DEF t
    <3> QED BY <1>4, <2>1, <3>1, <3>4
  <2> QED BY <1>9, <2>2, <2>3 DEF TimeOut, Abandon
<1>10. ASSUME NEW m \in wire, Deliver(m)
       PROVE  \A f \in Plans' : \E g \in Plans : Sub(f, g)
  <2> DEFINE w == m.from
             t == Sending(writer[w].plan, writer[w].left \ DOMAIN m.batch, 0)
  <2>1. w \in Writer /\ HasPlan(w) /\ t.plan = writer[w].plan /\ wire' \subseteq wire
    BY <1>10 DEF Deliver, Waiting, HasPlan, TypeOK, RequestOK, Sending
  <2>2. Plan(writer[w].plan) /\ writer[w].left \subseteq DOMAIN writer[w].plan
    BY <1>10, <2>1, Tasks DEF Deliver, Waiting
  <2>3. TaskOK(t)
    <3>1. 0 \in Tries
      BY InboxAssumption DEF Tries
    <3> QED BY <2>2, <3>1, SendingTask
  <2>4. writer' = [writer EXCEPT ![w] = Idle] \/ writer' = [writer EXCEPT ![w] = t]
    BY <1>10 DEF Deliver
  <2> HIDE DEF t, w
  <2> QED BY <1>3, <1>4, <2>1, <2>3, <2>4
<1> QED BY <1>1, <1>2, <1>5, <1>6, <1>7, <1>8, <1>9, <1>10
        DEF Next, WriterStep, Observe, Tick, FillId, Review, Promote, DeliverUnheard, Lose

\* A part of a plan that fits the rows fits them.
LEMMA SettledParts ==
    ASSUME NEW rows, NEW fs, NEW hs, Settled(rows, fs),
           \A h \in hs : \E f \in fs : Sub(h, f)
    PROVE  Settled(rows, hs)
BY DEF Settled, Sub

\* A plan fits the rows it was made from, and its new rows are not filled.
LEMMA PlanSettled ==
    ASSUME NEW rows \in Seq(Row(Time)), NEW cands, Table(cands, Candidate), NEW match,
           NEW plan, plan = PlanSync(rows, cands, match)
    PROVE  /\ Settled(rows, {plan})
           /\ \A c \in DOMAIN plan : Appends(plan, c) => plan[c].row \notin Filled(rows)
<1> DEFINE New == Unlisted(rows, cands, match)
           At(c) == AppendRow(rows, cands, match, c)
<1>1. /\ DOMAIN plan = Incoming(rows, cands, match)
      /\ \A c \in DOMAIN plan : plan[c] = Entry(rows, cands, match, c)
  BY DEF PlanSync
<1>2. DOMAIN cands \subseteq CandidateId /\ Incoming(rows, cands, match) \subseteq CandidateId
  BY DEF Incoming, Table
<1>3. \A c \in DOMAIN plan :
         \/ /\ plan[c].kind = "refresh" /\ plan[c].row \in Filled(rows)
            /\ plan[c].id = rows[plan[c].row].id
         \/ /\ plan[c].kind = "append" /\ plan[c].id = c /\ c \in New /\ plan[c].row = At(c)
            /\ RowsOfId(rows, c) = {}
  BY <1>1, EntryCases
<1>4. \A c \in New : /\ At(c) \in Nat /\ At(c) > Len(rows) /\ c \in Nat
                     /\ \A d \in New : c < d => At(c) < At(d)
  BY <1>2, AppendRowsApart, CandidateIdAssumption DEF Unlisted
<1>5. \A i \in Filled(rows) : i \in Nat /\ i <= Len(rows)
  BY DEF Filled
<1> HIDE DEF New, At
<1>6. Len(rows) \in Nat
  OBVIOUS
<1>7. \A c \in New : At(c) \notin Filled(rows)
  BY <1>4, <1>5, <1>6
<1>8. \A c, d \in New : At(c) = At(d) => c = d
  BY <1>4
<1>9. \A c \in DOMAIN plan : Sits(rows, c, plan[c])
  BY <1>3, <1>7 DEF Sits, RowsOfId
<1>10. \A c, d \in DOMAIN plan : Apart(c, plan[c], d, plan[d])
  BY <1>3, <1>7, <1>8 DEF Apart
<1> QED BY <1>3, <1>7, <1>9, <1>10 DEF Settled, Appends

\* Plans still fit after one of their requests was applied, however often.
LEMMA SettledApplied ==
    ASSUME NEW rows \in Seq(Row(Time)), NEW fs, Settled(rows, fs),
           NEW batch \in fs, Plan(batch), NEW new, new = ApplyBatch(rows, batch)
    PROVE  Settled(new, fs)
<1>1. Settled(rows, {batch})
  BY DEF Settled
<1>2. /\ Filled(rows) \subseteq Filled(new)
      /\ \A i \in Filled(rows) : new[i].id = rows[i].id
      /\ \A i \in Filled(new) \ Filled(rows) : \E d \in DOMAIN batch :
            Appends(batch, d) /\ batch[d].row = i /\ new[i].id = d
  BY <1>1, RequestApplied
<1>3. ASSUME NEW f \in fs, NEW c \in DOMAIN f PROVE Sits(new, c, f[c])
  <2>1. Sits(rows, c, f[c]) /\ \A d \in DOMAIN batch : Apart(d, batch[d], c, f[c])
    BY DEF Settled
  <2>2. f[c].kind = "refresh" => f[c].row \in Filled(new) /\ f[c].id = new[f[c].row].id
    BY <1>2, <2>1 DEF Sits
  <2>3. ASSUME f[c].kind = "append", NEW i \in Filled(new) PROVE i = f[c].row <=> new[i].id = c
    <3>1. CASE i \in Filled(rows)
      BY <1>2, <2>1, <2>3, <3>1 DEF Sits
    <3>2. CASE i \notin Filled(rows)
      <4>1. PICK d \in DOMAIN batch : Appends(batch, d) /\ batch[d].row = i /\ new[i].id = d
        BY <1>2, <3>2
      <4>2. Apart(d, batch[d], c, f[c])
        BY <2>1
      <4> QED BY <4>1, <4>2 DEF Apart, Appends
    <3> QED BY <3>1, <3>2
  <2> QED BY <2>1, <2>2, <2>3 DEF Sits
<1> QED BY <1>3 DEF Settled

\* No request makes a second row of one candidate_id.
LEMMA AcceptedApplied ==
    ASSUME NEW rows \in Seq(Row(Time)), ~DuplicateId(rows),
           NEW batch, Plan(batch), Settled(rows, {batch}), NEW new, new = ApplyBatch(rows, batch)
    PROVE  ~DuplicateId(new)
<1>1. /\ \A i \in Filled(rows) : new[i].id = rows[i].id
      /\ \A i \in Filled(new) \ Filled(rows) : \E d \in DOMAIN batch :
            Appends(batch, d) /\ batch[d].row = i /\ new[i].id = d
  BY RequestApplied
<1>2. \A d \in DOMAIN batch : Appends(batch, d) =>
         \A i \in Filled(rows) : i = batch[d].row <=> rows[i].id = d
  BY DEF Settled, Sits, Appends
<1> SUFFICES ASSUME NEW i \in Filled(new), NEW j \in Filled(new), new[i].id = new[j].id
             PROVE  i = j
  BY DEF DuplicateId
<1>3. CASE i \in Filled(rows) /\ j \in Filled(rows)
  BY <1>1, <1>3 DEF DuplicateId
<1>4. CASE i \in Filled(rows) /\ j \notin Filled(rows)
  BY <1>1, <1>2, <1>4
<1>5. CASE i \notin Filled(rows) /\ j \in Filled(rows)
  BY <1>1, <1>2, <1>5
<1>6. CASE i \notin Filled(rows) /\ j \notin Filled(rows)
  BY <1>1, <1>6
<1> QED BY <1>3, <1>4, <1>5, <1>6

\* Where each step takes its writer.
LEMMA Moves ==
    ASSUME TypeOK, NEW w \in Writer
    PROVE  /\ Begin(w) => writer'[w].pc = "read" /\ writer'[w].cands = db
           /\ ReadTables(w) =>
                \/ writer'[w].pc = "idle"
                \/ /\ writer'[w].pc = "grid" /\ writer'[w].plan = NewPlan(w)
                   /\ writer'[w].needed = 1 + RowCount(inbox, NewPlan(w))
           /\ CheckGrid(w) =>
                \/ writer'[w].pc = "idle"
                \/ /\ writer'[w].pc = "send" /\ writer'[w].plan = writer[w].plan
                   /\ grid >= writer[w].needed
                \/ /\ writer'[w].pc = "grow" /\ writer'[w].plan = writer[w].plan
                   /\ writer'[w].target = RoundUp(writer[w].needed)
           /\ GrowGrid(w) => writer'[w].pc = "send" /\ writer'[w].plan = writer[w].plan
           /\ Send(w) => writer'[w].pc = "wait" /\ writer'[w].plan = writer[w].plan
<1>0. writer = [v \in Writer |-> writer[v]]
  BY DEF TypeOK
<1>1. Begin(w) => writer'[w].pc = "read" /\ writer'[w].cands = db
  BY <1>0 DEF Begin
<1>2. ReadTables(w) =>
        \/ writer'[w].pc = "idle"
        \/ /\ writer'[w].pc = "grid" /\ writer'[w].plan = NewPlan(w)
           /\ writer'[w].needed = 1 + RowCount(inbox, NewPlan(w))
  BY <1>0 DEF ReadTables, NewPlan, Idle
<1>3. CheckGrid(w) =>
        \/ writer'[w].pc = "idle"
        \/ /\ writer'[w].pc = "send" /\ writer'[w].plan = writer[w].plan
           /\ grid >= writer[w].needed
        \/ /\ writer'[w].pc = "grow" /\ writer'[w].plan = writer[w].plan
           /\ writer'[w].target = RoundUp(writer[w].needed)
  BY <1>0 DEF CheckGrid, Ready, Sending, Idle
<1>4. GrowGrid(w) => writer'[w].pc = "send" /\ writer'[w].plan = writer[w].plan
  BY <1>0 DEF GrowGrid, Ready, Sending
<1>5. Send(w) => writer'[w].pc = "wait" /\ writer'[w].plan = writer[w].plan
  <2>1. writer[w].pc = "send" => writer[w] = [pc |-> writer[w].pc, plan |-> writer[w].plan,
                                  left |-> writer[w].left, tries |-> writer[w].tries]
    BY Tasks
  <2>2. Send(w) => writer[w].pc = "send" /\ writer'[w] = [writer[w] EXCEPT !.pc = "wait"]
    BY <1>0 DEF Send
  <2> QED BY <2>1, <2>2
<1> QED BY <1>1, <1>2, <1>3, <1>4, <1>5

\* A writer that hears of its request, or does not, sends the same plan on or stops.
LEMMA MovesOn ==
    ASSUME TypeOK, NEW w \in Writer,
           \/ TimeOut(w) \/ Abandon(w)
           \/ \E m \in wire : Deliver(m) /\ m.from = w
    PROVE  \/ writer'[w].pc = "idle"
           \/ /\ writer'[w].pc = "send" /\ writer'[w].plan = writer[w].plan
              /\ writer[w].pc = "wait"
<1>0. writer = [v \in Writer |-> writer[v]]
  BY DEF TypeOK
<1>1. CASE TimeOut(w)
  BY <1>0, <1>1 DEF TimeOut, Sending, Idle
<1>2. CASE Abandon(w)
  BY <1>0, <1>2 DEF Abandon, Idle
<1>3. CASE \E m \in wire : Deliver(m) /\ m.from = w
  BY <1>0, <1>3 DEF Deliver, Waiting, Sending, Idle
<1> QED BY <1>1, <1>2, <1>3

\* Who changes the rows: a curator, or a request that arrives.
LEMMA RowsStep ==
    ASSUME InboxInv, Next
    PROVE  \/ inbox' = inbox
           \/ \E i \in DOMAIN inbox : FillId(i) \/ \E v \in Verdict : Review(i, v)
           \/ \E m \in wire : /\ Deliver(m) \/ DeliverUnheard(m)
                              /\ inbox' = ApplyBatch(inbox, m.batch)
<1>1. ASSUME NEW w \in Writer, GrowGrid(w) PROVE inbox' = inbox
  <2>1. inbox \in Seq(Row(Time)) /\ Len(inbox) \in Nat
    BY DEF InboxInv, TypeOK
  <2>2. writer[w].target \in Nat /\ writer[w].target > Len(inbox)
    BY <1>1, Tasks DEF GrowGrid, InboxInv, Room
  <2>3. Earlier(Len(inbox), writer[w].target - 1) = Len(inbox)
    BY <2>1, <2>2 DEF Earlier
  <2> QED BY <1>1, <2>1, <2>3, SubSeqFull DEF GrowGrid
<1> QED BY <1>1 DEF Next, WriterStep, Observe, Tick, LoseDatabase, Promote, Begin, ReadTables,
                    CheckGrid, Send, TimeOut, Abandon, Deliver, DeliverUnheard, Lose, Received

LEMMA InboxTypeStep == ASSUME InboxInv, Next PROVE TypeOK'
<1>0. TypeOK
  BY DEF InboxInv
<1>1. ASSUME NEW m \in wire PROVE Received(m) \in Seq(Row(Time))
  <2>1. m.batch \in Plans /\ Plan(m.batch) /\ inbox \in Seq(Row(Time))
    BY <1>0 DEF Plans, TypeOK, RequestOK
  <2>2. Settled(inbox, {m.batch})
    BY <2>1 DEF InboxInv, Settled
  <2> QED BY <2>1, <2>2, RequestApplied DEF Received
<1> QED BY <1>0, <1>1, ObserveType, LocalType, LossType, CuratorType, WriterType, WireType DEF Next

\* While its plan is new a writer has no request on the wire.
LEMMA PlanAlone ==
    ASSUME SingleWriter, InboxInv, NEW w \in Writer, ReadTables(w)
    PROVE  Plans = {}
<1>1. wire = {} /\ \A v \in Writer : v = w
  BY DEF SingleWriter, InboxInv, Alone, ReadTables
<1> QED BY <1>1 DEF Plans, HasPlan, ReadTables

LEMMA SettledStep == ASSUME SingleWriter, InboxInv, Next PROVE Settled(inbox', Plans')
<1>0. TypeOK /\ inbox \in Seq(Row(Time)) /\ Settled(inbox, Plans)
  BY DEF InboxInv, TypeOK
<1>1. Settled(inbox', Plans)
  <2>1. ASSUME NEW i \in DOMAIN inbox, FillId(i) \/ \E v \in Verdict : Review(i, v)
        PROVE  Settled(inbox', Plans)
    <3>1. /\ Filled(inbox') = Filled(inbox) /\ \A j \in Filled(inbox) : inbox'[j].id = inbox[j].id
      BY <1>0, <2>1, CuratorStep DEF Filled
    <3> QED BY <1>0, <3>1 DEF Settled, Sits
  <2>2. ASSUME NEW m \in wire, inbox' = ApplyBatch(inbox, m.batch)
        PROVE  Settled(inbox', Plans)
    <3>1. m.batch \in Plans /\ Plan(m.batch)
      BY <1>0 DEF Plans, TypeOK, RequestOK
    <3> QED BY <1>0, <2>2, <3>1, SettledApplied
  <2> QED BY <1>0, <2>1, <2>2, RowsStep
<1>2. CASE \A f \in Plans' : \E g \in Plans : Sub(f, g)
  BY <1>1, <1>2, SettledParts
<1>3. ASSUME NEW w \in Writer, ReadTables(w) PROVE Settled(inbox', Plans')
  <2>1. \A f \in Plans' : f = NewPlan(w)
    <3>1. Plans = {}
      BY <1>3, PlanAlone
    <3>2. \A v \in Writer : v = w
      BY DEF SingleWriter
    <3> QED BY <1>0, <3>1, <3>2, PlansStep
  <2>2. Table(writer[w].cands, Candidate) /\ inbox' = inbox
    BY <1>0, <1>3, Tasks DEF ReadTables
  <2>3. Settled(inbox, {NewPlan(w)})
    BY <1>0, <2>2, PlanSettled DEF NewPlan
  <2> QED BY <2>1, <2>2, <2>3 DEF Settled
<1> QED BY <1>0, <1>2, <1>3, PlansStep

\* A step of a writer, an answer to one, a loss of all, or no change of any writer.
LEMMA StepCases ==
    ASSUME Next
    PROVE  \/ writer' = writer /\ grid' = grid /\ wire' \subseteq wire
           \/ LoseDatabase
           \/ \E w \in Writer : WriterStep(w) \/ Abandon(w)
           \/ \E m \in wire : Deliver(m)
BY DEF Next, Observe, Tick, FillId, Review, Promote, DeliverUnheard, Lose

LEMMA AnswersOwn == ASSUME SingleWriter, TypeOK, NEW w \in Writer PROVE \A m \in wire : m.from = w
BY DEF SingleWriter, TypeOK, RequestOK

LEMMA AloneStep == ASSUME SingleWriter, InboxInv, Next PROVE Alone'
<1>0. TypeOK /\ Alone /\ Idle.pc \notin {"read", "grid", "grow"}
  BY DEF InboxInv, Idle
<1>1. CASE writer' = writer /\ wire' \subseteq wire
  BY <1>0, <1>1 DEF Alone
<1>2. CASE LoseDatabase
  BY <1>0, <1>2 DEF LoseDatabase, Alone
<1>3. ASSUME NEW w \in Writer, WriterStep(w) \/ Abandon(w) PROVE Alone'
  <2>0. \A v \in Writer : v = w
    BY DEF SingleWriter
  <2>1. CASE Begin(w)
    <3>1. wire = {}
      BY <1>0, <2>1, AnswersOwn DEF Begin, OwnRequests
    <3> QED BY <2>1, <3>1 DEF Begin, Alone
  <2>2. CASE ReadTables(w) \/ CheckGrid(w)
    <3>1. wire' = {}
      BY <1>0, <2>2 DEF ReadTables, CheckGrid, Alone
    <3> QED BY <3>1 DEF Alone
  <2>3. CASE GrowGrid(w) \/ Send(w) \/ TimeOut(w) \/ Abandon(w)
    <3>1. writer'[w].pc \notin {"read", "grid", "grow"}
      BY <1>0, <2>3, Moves, MovesOn
    <3> QED BY <2>0, <3>1 DEF Alone
  <2> QED BY <1>3, <2>1, <2>2, <2>3 DEF WriterStep
<1>4. ASSUME NEW m \in wire, Deliver(m) PROVE Alone'
  <2>1. PICK w \in Writer : m.from = w
    BY <1>0 DEF TypeOK, RequestOK
  <2>2. writer'[w].pc \notin {"read", "grid", "grow"}
    BY <1>0, <1>4, <2>1, MovesOn
  <2> QED BY <2>1, <2>2 DEF SingleWriter, Alone
<1> QED BY <1>1, <1>2, <1>3, <1>4, StepCases

\* While a plan is not sent, only a curator changes the rows, and fills none.
LEMMA UnsentStep == ASSUME SingleWriter, InboxInv, Next PROVE Unsent'
<1>0. TypeOK /\ Alone /\ Unsent /\ Idle.pc \notin {"grid", "grow"} /\ inbox \in Seq(Row(Time))
  BY DEF InboxInv, Idle, TypeOK
<1>1. CASE writer' = writer /\ wire' \subseteq wire
  <2> SUFFICES ASSUME NEW w \in Writer, writer[w].pc \in {"grid", "grow"}
               PROVE  Filled(inbox') = Filled(inbox)
    BY <1>0, <1>1 DEF Unsent, Appends
  <2>1. wire = {}
    BY <1>0 DEF Alone
  <2> QED BY <1>0, <2>1, RowsStep, CuratorStep
<1>2. CASE LoseDatabase
  BY <1>0, <1>2 DEF LoseDatabase, Unsent
<1>3. ASSUME NEW w \in Writer, WriterStep(w) \/ Abandon(w) PROVE Unsent'
  <2>0. \A v \in Writer : v = w
    BY DEF SingleWriter
  <2>1. CASE ReadTables(w)
    <3>1. Table(writer[w].cands, Candidate) /\ inbox' = inbox
      BY <1>0, <2>1, Tasks DEF ReadTables
    <3>2. \A c \in DOMAIN NewPlan(w) :
             Appends(NewPlan(w), c) => NewPlan(w)[c].row \notin Filled(inbox)
      BY <1>0, <3>1, PlanSettled DEF NewPlan
    <3>3. writer'[w].pc = "idle" \/ writer'[w].plan = NewPlan(w)
      BY <1>0, <2>1, Moves
    <3> QED BY <1>0, <2>0, <3>1, <3>2, <3>3 DEF Unsent, Appends
  <2>2. CASE CheckGrid(w)
    <3>1. writer[w].pc = "grid" /\ inbox' = inbox
      BY <2>2 DEF CheckGrid
    <3>2. writer'[w].pc \notin {"grid", "grow"} \/ writer'[w].plan = writer[w].plan
      BY <1>0, <2>2, Moves
    <3> QED BY <1>0, <2>0, <3>1, <3>2 DEF Unsent, Appends
  <2>3. CASE Begin(w) \/ GrowGrid(w) \/ Send(w) \/ TimeOut(w) \/ Abandon(w)
    <3>1. writer'[w].pc \notin {"grid", "grow"}
      BY <1>0, <2>3, Moves, MovesOn
    <3> QED BY <2>0, <3>1 DEF Unsent
  <2> QED BY <1>3, <2>1, <2>2, <2>3 DEF WriterStep
<1>4. ASSUME NEW m \in wire, Deliver(m) PROVE Unsent'
  <2>1. PICK w \in Writer : m.from = w
    BY <1>0 DEF TypeOK, RequestOK
  <2>2. writer'[w].pc \notin {"grid", "grow"}
    BY <1>0, <1>4, <2>1, MovesOn
  <2> QED BY <2>1, <2>2 DEF SingleWriter, Unsent
<1> QED BY <1>1, <1>2, <1>3, <1>4, StepCases

\* Fewer requests, rows and rows in the grid the same, and no writer moved.
LEMMA RoomStep == ASSUME SingleWriter, InboxInv, Next PROVE Room'
<1>0. TypeOK /\ Alone /\ Room /\ inbox \in Seq(Row(Time)) /\ grid \in Nat
      /\ Idle.pc \notin {"grid", "grow", "send", "wait"}
  BY DEF InboxInv, Idle, TypeOK
<1>1. ASSUME writer' = writer, grid' = grid, wire' \subseteq wire PROVE Room'
  <2>1. (\E w \in Writer : writer[w].pc \in {"grid", "grow"}) => Len(inbox') = Len(inbox)
    <3>1. (\E w \in Writer : writer[w].pc \in {"grid", "grow"}) => wire = {}
      BY <1>0 DEF Alone
    <3> QED BY <1>0, <3>1, RowsStep, CuratorStep
  <2> QED BY <1>0, <1>1, <2>1 DEF Room
<1>2. CASE LoseDatabase
  BY <1>0, <1>2 DEF LoseDatabase, Room
<1>3. ASSUME NEW w \in Writer, WriterStep(w) \/ Abandon(w) PROVE Room'
  <2>0. \A v \in Writer : v = w
    BY DEF SingleWriter
  <2>1. CASE ReadTables(w)
    <3>1. /\ Table(writer[w].cands, Candidate) /\ inbox' = inbox /\ wire' = wire /\ grid' = grid
      BY <1>0, <2>1, Tasks DEF ReadTables
    <3>2. Plan(NewPlan(w))
      BY <1>0, <3>1, PlanSyncType DEF NewPlan
    <3>3. /\ RowCount(inbox, NewPlan(w)) \in Nat /\ Len(inbox) <= RowCount(inbox, NewPlan(w))
          /\ \A c \in DOMAIN NewPlan(w) : NewPlan(w)[c].row <= RowCount(inbox, NewPlan(w))
      BY <1>0, <3>2, RowCountBounds
    <3>4. \A c \in DOMAIN NewPlan(w) : NewPlan(w)[c].row \in Nat
      BY <3>2 DEF Plan, Table, EntryType
    <3>5. \/ writer'[w].pc = "idle"
          \/ /\ writer'[w].pc = "grid" /\ writer'[w].plan = NewPlan(w)
             /\ writer'[w].needed = 1 + RowCount(inbox, NewPlan(w))
      BY <1>0, <2>1, Moves
    <3>6. Len(inbox) \in Nat
      BY <1>0
    <3> HIDE DEF NewPlan
    <3> QED BY <1>0, <2>0, <3>1, <3>3, <3>4, <3>5, <3>6 DEF Room
  <2>2. CASE CheckGrid(w)
    <3>1. /\ writer[w].pc = "grid" /\ inbox' = inbox /\ wire' = wire /\ grid' = grid
      BY <2>2 DEF CheckGrid
    <3>2. writer[w].needed \in Nat /\ Plan(writer[w].plan) /\ Len(inbox) \in Nat
      <4>1. HasPlan(w) /\ Len(inbox) \in Nat
        BY <1>0, <3>1 DEF HasPlan
      <4> QED BY <1>0, <3>1, <4>1, Tasks
    <3>3. RoundUp(writer[w].needed) \in Nat /\ RoundUp(writer[w].needed) >= writer[w].needed
      BY <3>2, RoundUpIsEnough
    <3>4. \A c \in DOMAIN writer[w].plan : writer[w].plan[c].row \in Nat
      BY <3>2 DEF Plan, Table, EntryType
    <3>5. /\ writer[w].needed > Len(inbox)
          /\ \A c \in DOMAIN writer[w].plan : writer[w].plan[c].row < writer[w].needed
      BY <1>0, <3>1 DEF Room
    <3>6. \/ writer'[w].pc = "idle"
          \/ /\ writer'[w].pc = "send" /\ writer'[w].plan = writer[w].plan
             /\ grid >= writer[w].needed
          \/ /\ writer'[w].pc = "grow" /\ writer'[w].plan = writer[w].plan
             /\ writer'[w].target = RoundUp(writer[w].needed)
      BY <1>0, <2>2, Moves
    <3>7. \A m \in wire : \A c \in DOMAIN m.batch : m.batch[c].row < grid
      BY <1>0 DEF Room
    <3> QED BY <1>0, <2>0, <3>1, <3>2, <3>3, <3>4, <3>5, <3>6, <3>7 DEF Room
  <2>3. CASE GrowGrid(w)
    <3>1. writer[w].pc = "grow" /\ wire' = wire /\ grid' = writer[w].target /\ wire = {}
      BY <1>0, <2>3 DEF GrowGrid, Alone
    <3>2. writer'[w].pc = "send" /\ writer'[w].plan = writer[w].plan
      BY <1>0, <2>3, Moves
    <3> QED BY <1>0, <2>0, <3>1, <3>2 DEF Room
  <2>4. CASE Send(w)
    <3>1. /\ writer[w].pc = "send" /\ wire' = wire \cup {RequestOf(w)} /\ grid' = grid
      BY <2>4 DEF Send
    <3>2. writer'[w].pc = "wait" /\ writer'[w].plan = writer[w].plan
      BY <1>0, <2>4, Moves
    <3>3. Sub(RequestOf(w).batch, writer[w].plan)
      BY <1>0, <3>1, RequestFacts
    <3>4. \A c \in DOMAIN writer[w].plan : writer[w].plan[c].row < grid
      BY <1>0, <3>1 DEF Room
    <3>5. \A c \in DOMAIN RequestOf(w).batch : RequestOf(w).batch[c].row < grid
      BY <3>3, <3>4 DEF Sub
    <3> QED BY <1>0, <2>0, <3>1, <3>2, <3>4, <3>5 DEF Room
  <2>5. CASE Begin(w)
    <3>1. writer'[w].pc = "read" /\ wire' = wire /\ grid' = grid
      BY <1>0, <2>5, Moves DEF Begin
    <3> QED BY <1>0, <2>0, <3>1 DEF Room
  <2>6. CASE TimeOut(w) \/ Abandon(w)
    <3>1. /\ wire' = wire /\ grid' = grid
      BY <2>6 DEF TimeOut, Abandon
    <3>2. \/ writer'[w].pc = "idle"
          \/ /\ writer'[w].pc = "send" /\ writer'[w].plan = writer[w].plan
             /\ writer[w].pc = "wait"
      BY <1>0, <2>6, MovesOn
    <3> QED BY <1>0, <2>0, <3>1, <3>2 DEF Room
  <2> QED BY <1>3, <2>1, <2>2, <2>3, <2>4, <2>5, <2>6 DEF WriterStep
<1>4. ASSUME NEW m \in wire, Deliver(m) PROVE Room'
  <2>1. PICK w \in Writer : m.from = w
    BY <1>0 DEF TypeOK, RequestOK
  <2>2. wire' \subseteq wire /\ grid' = grid /\ \A v \in Writer : v = w
    BY <1>4 DEF Deliver, SingleWriter
  <2>3. \/ writer'[w].pc = "idle"
        \/ /\ writer'[w].pc = "send" /\ writer'[w].plan = writer[w].plan
           /\ writer[w].pc = "wait"
    BY <1>0, <1>4, <2>1, MovesOn
  <2> QED BY <1>0, <2>2, <2>3 DEF Room
<1> QED BY <1>1, <1>2, <1>3, <1>4, StepCases

\* The curator who waits stays clear of every row a plan may still append.
LEMMA UntouchedStep == ASSUME SingleWriter, InboxInv, Next PROVE Untouched'
<1>0. /\ TypeOK /\ inbox \in Seq(Row(Time)) /\ Settled(inbox, Plans) /\ Unsent
  BY DEF InboxInv, TypeOK
<1> SUFFICES ASSUME CuratorWaits PROVE Untouched'
  BY DEF Untouched
<1> DEFINE Pending(rows, f) ==
             \A c \in DOMAIN f : Appends(f, c) /\ f[c].row \in Filled(rows)
                                 => rows[f[c].row].review = "pending"
<1>1. \A f \in Plans : Pending(inbox, f)
  BY DEF InboxInv, Untouched
<1>2. ASSUME NEW i \in DOMAIN inbox, FillId(i), NEW f \in Plans PROVE Pending(inbox', f)
  <2>1. \A j \in DOMAIN inbox : inbox'[j].review = inbox[j].review
    <3>1. inbox' = [inbox EXCEPT ![i].acct.pid = Owner[inbox[i].acct.url.of]]
      BY <1>2 DEF FillId
    <3>2. inbox'[i].review = inbox[i].review
      <4>1. inbox'[i] = [inbox[i] EXCEPT !.acct.pid = Owner[inbox[i].acct.url.of]]
        BY <1>0, <3>1
      <4>2. inbox[i] \in FilledRow(Time)
        BY <1>0, <1>2, CuratorStep, RowColumns
      <4> QED BY <4>1, <4>2 DEF FilledRow
    <3> QED BY <1>0, <1>2, <3>2, CuratorStep
  <2>2. Filled(inbox') = Filled(inbox) /\ Filled(inbox) \subseteq DOMAIN inbox
    BY <1>0, <1>2, CuratorStep DEF Filled
  <2> QED BY <1>1, <2>1, <2>2 DEF Appends
<1>3. ASSUME NEW i \in DOMAIN inbox, NEW v \in Verdict, Review(i, v), NEW f \in Plans
      PROVE  Pending(inbox', f)
  <2>1. /\ Filled(inbox') = Filled(inbox) /\ Filled(inbox) \subseteq DOMAIN inbox
        /\ \A j \in DOMAIN inbox : j # i => inbox'[j] = inbox[j]
        /\ i \in Filled(inbox)
    BY <1>0, <1>3, CuratorStep DEF Filled
  <2>2. \A c \in DOMAIN f : Appends(f, c) => f[c].row # i
    <3> SUFFICES ASSUME NEW c \in DOMAIN f, Appends(f, c), f[c].row = i PROVE FALSE
      OBVIOUS
    <3>1. ~BeingAppended(i)
      BY <1>3 DEF Review
    <3>2. Appending(f, i)
      BY DEF Appending, Appends
    <3>3. PICK w \in Writer : writer[w].plan = f /\ writer[w].pc \in {"grid", "grow"}
      BY <3>1, <3>2 DEF BeingAppended, Plans, HasPlan
    <3> QED BY <1>0, <2>1, <3>3 DEF Unsent
  <2> QED BY <1>1, <2>1, <2>2
<1>4. ASSUME NEW m \in wire, inbox' = ApplyBatch(inbox, m.batch), NEW f \in Plans
      PROVE  Pending(inbox', f)
  <2>1. m.batch \in Plans /\ Plan(m.batch)
    BY <1>0 DEF Plans, TypeOK, RequestOK
  <2>2. Settled(inbox, {m.batch})
    BY <1>0, <2>1 DEF Settled
  <2>3. /\ \A i \in Filled(inbox) :
             \/ inbox'[i] = inbox[i]
             \/ \E d \in DOMAIN m.batch :
                  m.batch[d].row = i /\ inbox'[i] = Written(inbox[i], m.batch[d])
        /\ \A i \in Filled(inbox') \ Filled(inbox) : \E d \in DOMAIN m.batch :
             /\ Appends(m.batch, d) /\ inbox'[i] = Written(Blank, m.batch[d])
    BY <1>0, <1>4, <2>1, <2>2, RequestApplied
  <2> SUFFICES ASSUME NEW c \in DOMAIN f, Appends(f, c), f[c].row \in Filled(inbox')
               PROVE  inbox'[f[c].row].review = "pending"
    OBVIOUS
  <2>4. \A d \in DOMAIN m.batch : m.batch[d].row = f[c].row => Appends(m.batch, d)
    <3>1. \A d \in DOMAIN m.batch : Apart(c, f[c], d, m.batch[d])
      BY <1>0, <2>1 DEF Settled
    <3> QED BY <3>1 DEF Apart, Appends
  <2>5. \A old : \A d \in DOMAIN m.batch :
           Appends(m.batch, d) => Written(old, m.batch[d]).review = "pending"
    BY DEF Written, Appends
  <2> QED BY <1>1, <2>3, <2>4, <2>5
<1>5. \A f \in Plans : Pending(inbox', f)
  BY <1>1, <1>2, <1>3, <1>4, RowsStep
<1>6. ASSUME NEW w \in Writer, ReadTables(w) PROVE Pending(inbox', NewPlan(w))
  <2>1. Table(writer[w].cands, Candidate) /\ inbox' = inbox
    BY <1>0, <1>6, Tasks DEF ReadTables
  <2> QED BY <1>0, <2>1, PlanSettled DEF NewPlan
<1>7. \A f, g : Sub(f, g) /\ Pending(inbox', g) => Pending(inbox', f)
  BY DEF Sub, Appends
<1> HIDE DEF Pending
<1>8. \A f \in Plans' : Pending(inbox', f)
  BY <1>0, <1>5, <1>6, <1>7, PlansStep
<1> QED BY <1>8 DEF Untouched, Pending, Appends

LEMMA AcceptedStep == ASSUME SingleWriter, InboxInv, Next PROVE InboxAccepted'
<1>0. /\ TypeOK /\ inbox \in Seq(Row(Time)) /\ Settled(inbox, Plans) /\ InboxAccepted
  BY DEF InboxInv, TypeOK
<1>1. ASSUME NEW i \in DOMAIN inbox, FillId(i) \/ \E v \in Verdict : Review(i, v)
      PROVE  InboxAccepted'
  <2>1. /\ Filled(inbox') = Filled(inbox) /\ \A j \in Filled(inbox) : inbox'[j].id = inbox[j].id
    BY <1>0, <1>1, CuratorStep DEF Filled
  <2> QED BY <1>0, <2>1 DEF InboxAccepted, DuplicateId
<1>2. ASSUME NEW m \in wire, inbox' = ApplyBatch(inbox, m.batch) PROVE InboxAccepted'
  <2>1. m.batch \in Plans /\ Plan(m.batch)
    BY <1>0 DEF Plans, TypeOK, RequestOK
  <2>2. Settled(inbox, {m.batch})
    BY <1>0, <2>1 DEF Settled
  <2> QED BY <1>0, <1>2, <2>1, <2>2, AcceptedApplied DEF InboxAccepted
<1>3. CASE inbox' = inbox
  BY <1>0, <1>3 DEF InboxAccepted
<1> QED BY <1>1, <1>2, <1>3, RowsStep

LEMMA InboxInit == ASSUME Init PROVE InboxInv
<1>1. /\ db = [c \in {} |-> {}] /\ inbox = << >> /\ wire = {} /\ writer = [w \in Writer |-> Idle]
      /\ Plans = {} /\ Filled(inbox) = {}
  BY DEF Init, Plans, HasPlan, Idle, Filled
<1>2. TypeOK
  <2>1. Table(db, Candidate)
    BY <1>1 DEF Table
  <2>2. writer = [w \in Writer |-> writer[w]] /\ \A w \in Writer : TaskOK(writer[w])
    BY <1>1, IdleTask
  <2>3. inbox \in Seq(Row(Time))
    BY <1>1
  <2>4. canon \in [Channel -> MatchState]
    BY DEF Init, MatchState
  <2> QED BY <1>1, <2>1, <2>2, <2>3, <2>4, InboxAssumption DEF Init, TypeOK, Time
<1>3. Settled(inbox, Plans) /\ Untouched
  BY <1>1 DEF Settled, Untouched
<1>4. Alone /\ Unsent /\ Room
  BY <1>1 DEF Alone, Unsent, Room, Idle
<1>5. InboxAccepted
  BY <1>1 DEF InboxAccepted, DuplicateId
<1> QED BY <1>2, <1>3, <1>4, <1>5 DEF InboxInv

LEMMA InboxStep == ASSUME SingleWriter, InboxInv, [Next]_vars PROVE InboxInv'
<1>1. CASE Next
  BY <1>1, InboxTypeStep, SettledStep, AloneStep, UnsentStep, RoomStep, UntouchedStep, AcceptedStep
     DEF InboxInv
<1>2. CASE UNCHANGED vars
  <2>1. Plans' = Plans
    BY <1>2 DEF vars, Plans, HasPlan
  <2>2. TypeOK'
    BY <1>2 DEF InboxInv, TypeOK, vars
  <2>3. Settled(inbox', Plans')
    BY <1>2, <2>1 DEF InboxInv, vars
  <2>4. Alone' /\ Unsent' /\ Room'
    BY <1>2 DEF InboxInv, vars, Alone, Unsent, Room
  <2>5. Untouched'
    BY <1>2, <2>1 DEF InboxInv, vars, Untouched
  <2>6. InboxAccepted'
    BY <1>2 DEF InboxInv, vars, InboxAccepted
  <2> QED BY <2>2, <2>3, <2>4, <2>5, <2>6 DEF InboxInv
<1> QED BY <1>1, <1>2

------------------------------------------------------------------------------
(***************************************************************************)
(* What one writer keeps, whatever is lost, repeated or late.              *)
(***************************************************************************)

\* What the writer has planned fits the inbox at every moment until it is applied for
\* the last time.
THEOREM InboxInvariant == ASSUME SingleWriter PROVE Spec => []InboxInv
<1>1. Init => InboxInv
  BY InboxInit
<1>2. InboxInv /\ [Next]_vars => InboxInv'
  BY InboxStep
<1> QED BY <1>1, <1>2, PTL DEF Spec

\* Every value of the state has its type.
THEOREM InboxTypes == ASSUME SingleWriter PROVE Spec => []TypeOK
<1>1. InboxInv => TypeOK
  BY DEF InboxInv
<1> QED BY <1>1, InboxInvariant, PTL

\* PlanSync never finds one candidate_id on two rows, so Sync never refuses the
\* workbook for ever.
THEOREM InboxAlwaysAccepted == ASSUME SingleWriter PROVE Spec => []InboxAccepted
<1>1. InboxInv => InboxAccepted
  BY DEF InboxInv
<1> QED BY <1>1, InboxInvariant, PTL

\* ensureRows has made every row a request names, whenever the request arrives.
THEOREM WritesAlwaysFit == ASSUME SingleWriter PROVE Spec => []WritesFitGrid
<1>1. ASSUME InboxInv PROVE WritesFitGrid
  <2> SUFFICES ASSUME NEW m \in wire, NEW c \in DOMAIN m.batch PROVE m.batch[c].row + 1 <= grid
    BY DEF WritesFitGrid
  <2>1. m.batch[c].row < grid
    BY <1>1 DEF InboxInv, Room
  <2>2. grid \in Nat /\ Plan(m.batch)
    BY <1>1 DEF InboxInv, TypeOK, RequestOK
  <2>3. m.batch[c].row \in Nat
    BY <2>2 DEF Plan, Table, EntryType
  <2> QED BY <2>1, <2>2, <2>3
<1> QED BY <1>1, InboxInvariant, PTL

LEMMA ReviewKept ==
    ASSUME InboxInv, CuratorWaits, Next, wire' # wire, NEW i \in Filled(inbox)
    PROVE  i \in DOMAIN inbox' /\ inbox'[i].review = inbox[i].review
<1>0. inbox \in Seq(Row(Time)) /\ Settled(inbox, Plans) /\ Untouched /\ TypeOK
  BY DEF InboxInv, TypeOK
<1>1. CASE inbox' = inbox
  BY <1>1 DEF Filled
<1>2. ASSUME NEW m \in wire, inbox' = ApplyBatch(inbox, m.batch)
      PROVE  i \in DOMAIN inbox' /\ inbox'[i].review = inbox[i].review
  <2>1. m.batch \in Plans /\ Plan(m.batch)
    BY <1>0 DEF Plans, TypeOK, RequestOK
  <2>2. Settled(inbox, {m.batch})
    BY <1>0, <2>1 DEF Settled
  <2>3. /\ i \in Filled(inbox')
        /\ \/ inbox'[i] = inbox[i]
           \/ \E c \in DOMAIN m.batch :
                m.batch[c].row = i /\ inbox'[i] = Written(inbox[i], m.batch[c])
    BY <1>0, <1>2, <2>1, <2>2, RequestApplied
  <2>4. \A c \in DOMAIN m.batch :
           m.batch[c].row = i /\ Appends(m.batch, c) => inbox[i].review = "pending"
    BY <1>0, <2>1 DEF Untouched
  <2>5. \A c \in DOMAIN m.batch :
           m.batch[c].row = i => Written(inbox[i], m.batch[c]).review = inbox[i].review
    BY <2>4 DEF Written, Appends
  <2> QED BY <2>3, <2>5 DEF Filled
<1>3. ASSUME NEW j \in DOMAIN inbox, FillId(j) \/ \E v \in Verdict : Review(j, v) PROVE FALSE
  BY <1>3 DEF FillId, Review
<1> QED BY <1>1, <1>2, <1>3, RowsStep

\* README: "Existing curator fields in FINDER_INBOX are preserved during machine
\* sync": no request, first copy or repeated, changes L:S of a row that is there,
\* if curators leave a row alone while it is being appended.
THEOREM ReviewsKept == ASSUME SingleWriter, CuratorWaits PROVE Spec => ReviewColumnsKept
<1>1. InboxInv /\ [Next]_vars =>
        [\A i \in Filled(inbox) :
           wire' # wire => i \in DOMAIN inbox' /\ inbox'[i].review = inbox[i].review]_vars
  BY ReviewKept DEF vars
<1> QED BY <1>1, InboxInvariant, PTL DEF Spec, ReviewColumnsKept

------------------------------------------------------------------------------
(***************************************************************************)
(* Whose row it is.  A curator who fills in a page's channel, a candidate  *)
(* that is upgraded and a key that finds a row all stay with one channel,  *)
(* if what Upsert is given is the account of its input (see                *)
(* ObservationsResolved).                                                  *)
(***************************************************************************)

Plain(a) == a.url \in Url /\ a = Normalized(a.url)
FilledIn(a) == \E p \in Page : a = [PageAccount(p) EXCEPT !.pid = Owner[p]]
Sound(a) == Plain(a) \/ FilledIn(a)
SameChannel(a, b) == ChannelOf(a) = ChannelOf(b)

\* The accounts there are: a page, a channel, a video, or a page a curator filled in.
LEMMA PlainCases ==
    ASSUME NEW a, Plain(a)
    PROVE  \/ \E p \in Page : a = PageAccount(p)
           \/ \E ch \in Channel : a = ChannelAccount(ch) \/ a = VideoAccount(ch)
<1>1. a.url \in Url /\ a = Normalized(a.url)
  BY DEF Plain
<1>2. CASE a.url.kind = "page"
  BY <1>1, <1>2 DEF Url, Normalized
<1>3. CASE a.url.kind = "channel"
  BY <1>1, <1>3 DEF Url, Normalized
<1>4. CASE a.url.kind = "watch"
  BY <1>1, <1>4 DEF Url, Normalized
<1> QED BY <1>1, <1>2, <1>3, <1>4 DEF Url

LEMMA SoundCases ==
    ASSUME NEW a, Sound(a)
    PROVE  \/ \E p \in Page : a = PageAccount(p)
           \/ \E p \in Page : a = [PageAccount(p) EXCEPT !.pid = Owner[p]]
           \/ \E ch \in Channel : a = ChannelAccount(ch) \/ a = VideoAccount(ch)
BY PlainCases DEF Sound, FilledIn

\* What each of them is: its fields, its key and its channel.
LEMMA PageFacts ==
    ASSUME NEW p \in Page
    PROVE  /\ Key(PageAccount(p)) = UrlKey("youtube", PageUrl(p))
           /\ ChannelOf(PageAccount(p)) = Owner[p]
           /\ PageAccount(p).url = PageUrl(p) /\ PageAccount(p).pid = NoPid
           /\ Plain(PageAccount(p))
BY DEF PageAccount, PageUrl, Key, Normalized, ChannelOf, Plain, Url

LEMMA ChannelFacts ==
    ASSUME NEW ch \in Channel
    PROVE  /\ Key(ChannelAccount(ch)) = IdKey("youtube", ch)
           /\ ChannelOf(ChannelAccount(ch)) = ch
           /\ ChannelAccount(ch).url = ChannelUrl(ch) /\ ChannelAccount(ch).pid = ch
           /\ Plain(ChannelAccount(ch))
BY NoPidAssumption DEF ChannelAccount, ChannelUrl, Key, Normalized, ChannelOf, Plain, Url

LEMMA VideoFacts ==
    ASSUME NEW ch \in Channel
    PROVE  /\ Key(VideoAccount(ch)) = IdKey("youtube_video", ch)
           /\ ChannelOf(VideoAccount(ch)) = ch
           /\ VideoAccount(ch).url = WatchUrl(ch) /\ VideoAccount(ch).pid = ch
           /\ Plain(VideoAccount(ch))
BY NoPidAssumption DEF VideoAccount, WatchUrl, Key, Normalized, ChannelOf, Plain, Url

LEMMA FilledInFacts ==
    ASSUME NEW p \in Page, NEW a, a = [PageAccount(p) EXCEPT !.pid = Owner[p]]
    PROVE  /\ Key(a) = IdKey("youtube", Owner[p])
           /\ ChannelOf(a) = Owner[p]
           /\ a.url = PageUrl(p) /\ a.pid = Owner[p] /\ Owner[p] \in Channel
<1>1. Owner[p] \in Channel
  BY InboxAssumption
<1>2. a = [platform |-> "youtube", pid |-> Owner[p], url |-> PageUrl(p)]
  BY DEF PageAccount
<1> QED BY <1>1, <1>2, NoPidAssumption DEF PageUrl, Key, Normalized, ChannelOf, Plain, Url

\* Accounts of one key are of one channel.
LEMMA KeyTellsChannel ==
    ASSUME NEW a, NEW b, Sound(a), Sound(b), Key(a) = Key(b)
    PROVE  SameChannel(a, b)
<1>1. \A p, q \in Page : UrlKey("youtube", PageUrl(p)) = UrlKey("youtube", PageUrl(q)) => p = q
  BY DEF UrlKey, PageUrl
<1>2. \A k, l : \A ch, dh \in Channel : IdKey(k, ch) = IdKey(l, dh) => ch = dh
  BY DEF IdKey
<1>3. \A k, l : \A ch \in Channel, p \in Page : IdKey(k, ch) # UrlKey(l, PageUrl(p))
  BY DEF IdKey, UrlKey
<1>4. \/ \E p \in Page : Key(a) = UrlKey("youtube", PageUrl(p)) /\ ChannelOf(a) = Owner[p]
      \/ \E k : \E ch \in Channel : Key(a) = IdKey(k, ch) /\ ChannelOf(a) = ch
  BY SoundCases, PageFacts, ChannelFacts, VideoFacts, FilledInFacts
<1>5. \/ \E p \in Page : Key(b) = UrlKey("youtube", PageUrl(p)) /\ ChannelOf(b) = Owner[p]
      \/ \E k : \E ch \in Channel : Key(b) = IdKey(k, ch) /\ ChannelOf(b) = ch
  BY SoundCases, PageFacts, ChannelFacts, VideoFacts, FilledInFacts
<1> QED BY <1>1, <1>2, <1>3, <1>4, <1>5 DEF SameChannel

\* Column C or the URL: the account of a row is the row's account.
LEMMA RowAccountIsAcct == ASSUME NEW r, Sound(r.acct) PROVE RowAccount(r) = r.acct
<1>1. r.acct.pid = NoPid => Normalized(r.acct.url).pid = NoPid
  <2>1. \A p \in Page : Normalized(PageUrl(p)).pid = NoPid
    BY DEF Normalized, PageUrl, PageAccount
  <2>2. \A ch \in Channel : ch # NoPid
    BY NoPidAssumption
  <2> QED BY <2>1, <2>2, SoundCases, PageFacts, ChannelFacts, VideoFacts, FilledInFacts
<1>2. r.acct = [platform |-> r.acct.platform, pid |-> r.acct.pid, url |-> r.acct.url]
  <2>1. ASSUME NEW p \in Page, r.acct = [PageAccount(p) EXCEPT !.pid = Owner[p]]
        PROVE  r.acct = [platform |-> r.acct.platform, pid |-> r.acct.pid, url |-> r.acct.url]
    BY <2>1 DEF PageAccount
  <2>2. ASSUME NEW p \in Page, r.acct = PageAccount(p)
        PROVE  r.acct = [platform |-> r.acct.platform, pid |-> r.acct.pid, url |-> r.acct.url]
    BY <2>2 DEF PageAccount
  <2>3. ASSUME NEW ch \in Channel, r.acct = ChannelAccount(ch) \/ r.acct = VideoAccount(ch)
        PROVE  r.acct = [platform |-> r.acct.platform, pid |-> r.acct.pid, url |-> r.acct.url]
    BY <2>3 DEF ChannelAccount, VideoAccount
  <2> QED BY <2>1, <2>2, <2>3, SoundCases
<1>3. RowAccount(r) = [r.acct EXCEPT !.pid = IF r.acct.pid = NoPid THEN Normalized(r.acct.url).pid
                                             ELSE r.acct.pid]
  BY DEF RowAccount
<1>4. (IF r.acct.pid = NoPid THEN Normalized(r.acct.url).pid ELSE r.acct.pid) = r.acct.pid
  BY <1>1
<1> QED BY <1>2, <1>3, <1>4

LEMMA NormalizedPlain ==
    ASSUME NEW u \in Url
    PROVE  /\ Plain(Normalized(u)) /\ Normalized(u).url = u
           /\ ChannelOf(Normalized(u)) \in Channel
<1>1. CASE u.kind = "page"
  <2>1. PICK p \in Page : u = PageUrl(p) /\ Normalized(u) = PageAccount(p)
    BY <1>1 DEF Url, PageUrl, Normalized
  <2> QED BY <2>1, PageFacts, InboxAssumption
<1>2. CASE u.kind = "channel"
  <2>1. PICK ch \in Channel : u = ChannelUrl(ch) /\ Normalized(u) = ChannelAccount(ch)
    BY <1>2 DEF Url, ChannelUrl, Normalized
  <2> QED BY <2>1, ChannelFacts
<1>3. CASE u.kind = "watch"
  <2>1. PICK ch \in Channel : u = WatchUrl(ch) /\ Normalized(u) = VideoAccount(ch)
    BY <1>3 DEF Url, WatchUrl, Normalized
  <2> QED BY <2>1, VideoFacts
<1> QED BY <1>1, <1>2, <1>3 DEF Url

IdentityInv ==
    /\ \A c \in DOMAIN db : Plain(db[c].acct)
    /\ \A i \in Filled(inbox) :
         /\ Sound(inbox[i].acct)
         /\ inbox[i].id \in DOMAIN db => SameChannel(inbox[i].acct, db[inbox[i].id].acct)
    /\ \A w \in Writer : writer[w].pc = "read" =>
         \A c \in DOMAIN writer[w].cands :
            /\ c \in DOMAIN db /\ Plain(writer[w].cands[c].acct)
            /\ SameChannel(writer[w].cands[c].acct, db[c].acct)
    /\ \A f \in Plans : \A c \in DOMAIN f :
         /\ c \in DOMAIN db /\ Plain(f[c].acct) /\ SameChannel(f[c].acct, db[c].acct)
         /\ f[c].row \in Filled(inbox) => SameChannel(f[c].acct, inbox[f[c].row].acct)

LEMMA ObservedAccount ==
    ASSUME ObservationsResolved, NEW o \in Observation
    PROVE  /\ Plain(o.acct) /\ o.input \in Url
           /\ SameChannel(o.acct, Normalized(o.input))
<1>1. o.input \in Url /\ OfObservation(o.acct, o.input)
  BY InboxAssumption DEF ObservationsResolved
<1>2. Plain(Normalized(o.input)) /\ ChannelOf(Normalized(o.input)) \in Channel
  BY <1>1, NormalizedPlain
<1> QED BY <1>1, <1>2, ChannelFacts DEF OfObservation, SameChannel

\* Upsert keeps every candidate's channel, and a new ID is one nobody has seen.
LEMMA ObserveKeeps ==
    ASSUME ObservationsResolved, TypeOK, IdentityInv, NEW o \in Observation, Observe(o)
    PROVE  /\ \A c \in DOMAIN db : c \in DOMAIN db' /\ SameChannel(db'[c].acct, db[c].acct)
           /\ \A c \in DOMAIN db' : Plain(db'[c].acct)
           /\ \A c \in DOMAIN db' \ DOMAIN db : c \notin UsedIds
<1>1. PICK fresh \in CandidateId \ UsedIds : db' = Upsert(db, o.acct, o.input, fresh, clock)
  BY DEF Observe
<1> DEFINE id == UpsertedId(db, o.acct, o.input, fresh)
           old == Matching(db, o.acct, o.input)
           row == [acct |-> o.acct, input |-> o.input,
                   first |-> IF old # {} THEN db[id].first ELSE clock]
<1>2. Plain(o.acct) /\ o.input \in Url /\ SameChannel(o.acct, Normalized(o.input))
  BY ObservedAccount
<1>3. \A c \in DOMAIN db : Plain(db[c].acct)
  BY DEF IdentityInv
<1>4. \A c \in old : c \in DOMAIN db /\ SameChannel(o.acct, db[c].acct)
  <2>1. \A c \in SameKey(db, o.acct) : c \in DOMAIN db /\ SameChannel(o.acct, db[c].acct)
    BY <1>2, <1>3, KeyTellsChannel DEF SameKey, Sound
  <2>2. \A c \in Unresolved(db, o.acct, o.input) :
           c \in DOMAIN db /\ db[c].acct = Normalized(o.input)
    BY <1>3 DEF Unresolved, Plain
  <2> QED BY <1>2, <2>1, <2>2 DEF Matching
<1>5. (id \in old) \/ (id = fresh /\ old = {})
  BY DEF UpsertedId
<1>6. db' = [i \in DOMAIN db \cup {id} |-> IF i = id THEN row ELSE db[i]]
  BY <1>1 DEF Upsert
<1>7. row.acct = o.acct /\ DOMAIN db \subseteq UsedIds /\ fresh \notin UsedIds
  BY DEF UsedIds
<1> HIDE DEF id, old, row
<1>8. /\ DOMAIN db' = DOMAIN db \cup {id} /\ db'[id].acct = o.acct
      /\ \A c \in DOMAIN db : c # id => db'[c] = db[c]
  BY <1>6, <1>7
<1>9. \A c \in DOMAIN db : SameChannel(db'[c].acct, db[c].acct)
  <2>1. id \in DOMAIN db => SameChannel(o.acct, db[id].acct)
    BY <1>4, <1>5, <1>7
  <2> QED BY <1>8, <2>1 DEF SameChannel
<1> QED BY <1>2, <1>3, <1>4, <1>5, <1>7, <1>8, <1>9

LEMMA CandidatesStep ==
    ASSUME ObservationsResolved, TypeOK, IdentityInv, Next
    PROVE  \/ LoseDatabase
           \/ /\ \A c \in DOMAIN db : c \in DOMAIN db' /\ SameChannel(db'[c].acct, db[c].acct)
              /\ \A c \in DOMAIN db' : Plain(db'[c].acct)
              /\ \A c \in DOMAIN db' \ DOMAIN db : c \notin UsedIds
<1>1. CASE db' = db
  BY <1>1 DEF IdentityInv, SameChannel
<1>2. db' = db \/ LoseDatabase \/ \E o \in Observation : Observe(o)
  BY DEF Next, WriterStep, Tick, FillId, Review, Promote, Begin, ReadTables, CheckGrid, GrowGrid,
         Send, TimeOut, Abandon, Deliver, DeliverUnheard, Lose
<1> QED BY <1>1, <1>2, ObserveKeeps

\* A filled row keeps its ID and its channel; a row that is filled is the new row of
\* a candidate of some plan.
LEMMA RowsKept ==
    ASSUME InboxInv, IdentityInv, Next
    PROVE  /\ \A i \in Filled(inbox) :
                /\ i \in Filled(inbox') /\ inbox'[i].id = inbox[i].id
                /\ Sound(inbox'[i].acct) /\ SameChannel(inbox'[i].acct, inbox[i].acct)
           /\ \A i \in Filled(inbox') \ Filled(inbox) : \E f \in Plans : \E c \in DOMAIN f :
                /\ Appends(f, c) /\ f[c].row = i
                /\ inbox'[i].id = c /\ inbox'[i].acct = f[c].acct
                /\ inbox'[i].review = "pending"
<1>0. /\ inbox \in Seq(Row(Time)) /\ Settled(inbox, Plans) /\ TypeOK
      /\ \A i \in Filled(inbox) : Sound(inbox[i].acct)
  BY DEF InboxInv, TypeOK, IdentityInv
<1> DEFINE Kept == /\ \A i \in Filled(inbox) :
                        /\ i \in Filled(inbox') /\ inbox'[i].id = inbox[i].id
                        /\ Sound(inbox'[i].acct) /\ SameChannel(inbox'[i].acct, inbox[i].acct)
           Added == \A i \in Filled(inbox') \ Filled(inbox) : \E f \in Plans : \E c \in DOMAIN f :
                        /\ Appends(f, c) /\ f[c].row = i
                        /\ inbox'[i].id = c /\ inbox'[i].acct = f[c].acct
                        /\ inbox'[i].review = "pending"
<1>1. CASE inbox' = inbox
  BY <1>0, <1>1 DEF SameChannel
<1>2. ASSUME NEW i \in DOMAIN inbox, FillId(i) PROVE Kept /\ Added
  <2>1. /\ Filled(inbox') = Filled(inbox) /\ i \in Filled(inbox)
        /\ Filled(inbox) \subseteq DOMAIN inbox
        /\ \A j \in DOMAIN inbox : /\ inbox'[j].id = inbox[j].id
                                   /\ j # i => inbox'[j] = inbox[j]
    BY <1>0, <1>2, CuratorStep DEF Filled
  <2>2. inbox[i] \in FilledRow(Time) /\ inbox[i].acct.pid = NoPid
    BY <1>0, <1>2, <2>1, RowColumns DEF FillId
  <2>3. inbox'[i].acct = [inbox[i].acct EXCEPT !.pid = Owner[inbox[i].acct.url.of]]
    <3>1. inbox'[i] = [inbox[i] EXCEPT !.acct.pid = Owner[inbox[i].acct.url.of]]
      BY <1>0, <1>2 DEF FillId
    <3> QED BY <2>2, <3>1 DEF FilledRow
  <2>4. PICK p \in Page : inbox[i].acct = PageAccount(p)
    BY <1>0, <2>1, <2>2, NoPidAssumption, SoundCases, ChannelFacts, VideoFacts, FilledInFacts
  <2>5. inbox'[i].acct = [PageAccount(p) EXCEPT !.pid = Owner[p]]
    <3>1. inbox[i].acct.url.of = p
      BY <2>4 DEF PageAccount, PageUrl
    <3> QED BY <2>3, <2>4, <3>1
  <2>6. Sound(inbox'[i].acct) /\ SameChannel(inbox'[i].acct, inbox[i].acct)
    BY <2>4, <2>5, PageFacts, FilledInFacts DEF Sound, FilledIn, SameChannel
  <2> QED BY <1>0, <2>1, <2>6 DEF SameChannel
<1>3. ASSUME NEW i \in DOMAIN inbox, NEW v \in Verdict, Review(i, v) PROVE Kept /\ Added
  <2>1. /\ Filled(inbox') = Filled(inbox) /\ i \in Filled(inbox)
        /\ Filled(inbox) \subseteq DOMAIN inbox
        /\ \A j \in DOMAIN inbox : /\ inbox'[j].id = inbox[j].id
                                   /\ j # i => inbox'[j] = inbox[j]
    BY <1>0, <1>3, CuratorStep DEF Filled
  <2>2. inbox'[i].acct = inbox[i].acct
    <3>1. inbox[i] \in FilledRow(Time)
      BY <1>0, <2>1, RowColumns
    <3>2. inbox'[i] = [inbox[i] EXCEPT !.review = v]
      BY <1>0, <1>3 DEF Review
    <3> QED BY <3>1, <3>2 DEF FilledRow
  <2> QED BY <1>0, <2>1, <2>2 DEF SameChannel
<1>4. ASSUME NEW m \in wire, inbox' = ApplyBatch(inbox, m.batch) PROVE Kept /\ Added
  <2>1. m.batch \in Plans /\ Plan(m.batch)
    BY <1>0 DEF Plans, TypeOK, RequestOK
  <2>2. Settled(inbox, {m.batch})
    BY <1>0, <2>1 DEF Settled
  <2>3. /\ Filled(inbox) \subseteq Filled(inbox')
        /\ \A i \in Filled(inbox) : inbox'[i].id = inbox[i].id
        /\ \A i \in Filled(inbox) :
             \/ inbox'[i] = inbox[i]
             \/ \E c \in DOMAIN m.batch :
                  m.batch[c].row = i /\ inbox'[i] = Written(inbox[i], m.batch[c])
        /\ \A i \in Filled(inbox') \ Filled(inbox) : \E c \in DOMAIN m.batch :
             /\ Appends(m.batch, c) /\ m.batch[c].row = i
             /\ inbox'[i] = Written(Blank, m.batch[c]) /\ inbox'[i].id = c
    BY <1>0, <1>4, <2>1, <2>2, RequestApplied
  <2>4. \A old : \A c \in DOMAIN m.batch :
           /\ Written(old, m.batch[c]).acct = m.batch[c].acct
           /\ Appends(m.batch, c) => Written(old, m.batch[c]).review = "pending"
    BY DEF Written, Appends
  <2>5. \A c \in DOMAIN m.batch :
           /\ Sound(m.batch[c].acct)
           /\ m.batch[c].row \in Filled(inbox) =>
                SameChannel(m.batch[c].acct, inbox[m.batch[c].row].acct)
    BY <2>1 DEF IdentityInv, Sound
  <2>6. Kept
    <3> SUFFICES ASSUME NEW i \in Filled(inbox)
                 PROVE  Sound(inbox'[i].acct) /\ SameChannel(inbox'[i].acct, inbox[i].acct)
      BY <2>3
    <3>1. CASE inbox'[i] = inbox[i]
      BY <1>0, <3>1 DEF SameChannel
    <3>2. ASSUME NEW c \in DOMAIN m.batch, m.batch[c].row = i,
                 inbox'[i] = Written(inbox[i], m.batch[c])
          PROVE  Sound(inbox'[i].acct) /\ SameChannel(inbox'[i].acct, inbox[i].acct)
      <4>1. inbox'[i].acct = m.batch[c].acct
        BY <2>4, <3>2
      <4> QED BY <2>5, <3>2, <4>1
    <3> QED BY <2>3, <3>1, <3>2
  <2>7. Added
    BY <2>1, <2>3, <2>4
  <2> QED BY <2>6, <2>7
<1> QED BY <1>1, <1>2, <1>3, <1>4, RowsStep

\* Who holds candidates: a writer that has just begun, or one that has them still.
LEMMA ReadersStep ==
    ASSUME SingleWriter, TypeOK, Next, NEW w \in Writer, writer'[w].pc = "read"
    PROVE  \/ writer'[w].cands = db /\ db' = db /\ inbox' = inbox
           \/ writer[w].pc = "read" /\ writer'[w].cands = writer[w].cands
<1>0. Idle.pc # "read" /\ \A v \in Writer : v = w
  BY DEF Idle, SingleWriter
<1>1. CASE LoseDatabase
  BY <1>0, <1>1 DEF LoseDatabase
<1>2. CASE WriterStep(w) \/ Abandon(w)
  <2>1. CASE Begin(w)
    BY <2>1, Moves DEF Begin
  <2>2. CASE ~Begin(w)
    BY <1>2, <2>2, Moves, MovesOn DEF WriterStep
  <2> QED BY <2>1, <2>2
<1>3. ASSUME NEW m \in wire, Deliver(m) PROVE FALSE
  <2>1. m.from = w
    BY AnswersOwn
  <2> QED BY <1>3, <2>1, MovesOn
<1>4. CASE writer' = writer
  BY <1>4
<1> QED BY <1>0, <1>1, <1>2, <1>3, <1>4, StepCases

\* The plan of a reading of the inbox refreshes a row of the candidate's channel.
LEMMA NewPlanIdentity ==
    ASSUME InboxInv, IdentityInv, NEW w \in Writer, ReadTables(w), NEW c \in DOMAIN NewPlan(w)
    PROVE  /\ c \in DOMAIN db /\ Plain(NewPlan(w)[c].acct)
           /\ SameChannel(NewPlan(w)[c].acct, db[c].acct)
           /\ NewPlan(w)[c].row \in Filled(inbox) =>
                SameChannel(NewPlan(w)[c].acct, inbox[NewPlan(w)[c].row].acct)
<1> DEFINE cands == writer[w].cands
           e == NewPlan(w)[c]
<1>1. /\ inbox \in Seq(Row(Time)) /\ TypeOK /\ writer[w].pc = "read"
      /\ \A i \in Filled(inbox) : Sound(inbox[i].acct)
  BY DEF InboxInv, TypeOK, IdentityInv, ReadTables
<1>2. Table(cands, Candidate)
  BY <1>1, Tasks
<1>3. /\ c \in Incoming(inbox, cands, Match) /\ e = Entry(inbox, cands, Match, c)
  BY DEF NewPlan, PlanSync
<1>4. c \in DOMAIN cands
  BY <1>3 DEF Incoming
<1>5. c \in DOMAIN db /\ Plain(cands[c].acct) /\ SameChannel(cands[c].acct, db[c].acct)
  BY <1>1, <1>4 DEF IdentityInv
<1>6. /\ e.acct = cands[c].acct
      /\ e.kind = "append" \/ e.row \in RowsOfId(inbox, c) \/ e.row \in RowsOfKey(inbox, Key(e.acct))
  BY <1>1, <1>2, <1>3, EntryCases
<1>7. Appends(NewPlan(w), c) => e.row \notin Filled(inbox)
  BY <1>1, <1>2, PlanSettled DEF NewPlan
<1> HIDE DEF cands, e
<1>8. ASSUME e.row \in RowsOfId(inbox, c) PROVE SameChannel(e.acct, inbox[e.row].acct)
  <2>1. e.row \in Filled(inbox) /\ inbox[e.row].id = c
    BY <1>8 DEF RowsOfId
  <2> QED BY <1>5, <1>6, <2>1 DEF IdentityInv, SameChannel
<1>9. ASSUME e.row \in RowsOfKey(inbox, Key(e.acct)) PROVE SameChannel(e.acct, inbox[e.row].acct)
  <2>1. e.row \in Filled(inbox) /\ Key(RowAccount(inbox[e.row])) = Key(e.acct)
    BY <1>9 DEF RowsOfKey
  <2>2. Sound(inbox[e.row].acct) /\ Sound(e.acct)
    BY <1>1, <1>5, <1>6, <2>1 DEF Sound
  <2> QED BY <2>1, <2>2, RowAccountIsAcct, KeyTellsChannel
<1>10. e.row \in Filled(inbox) => SameChannel(e.acct, inbox[e.row].acct)
  BY <1>6, <1>7, <1>8, <1>9 DEF Appends, e
<1> QED BY <1>5, <1>6, <1>10 DEF e

LEMMA IdentityInit == ASSUME Init PROVE IdentityInv
<1>1. /\ db = [c \in {} |-> {}] /\ Plans = {} /\ Filled(inbox) = {}
      /\ \A w \in Writer : writer[w].pc # "read"
  BY DEF Init, Plans, HasPlan, Idle, Filled
<1> QED BY <1>1 DEF IdentityInv

LEMMA IdentityStep ==
    ASSUME SingleWriter, ObservationsResolved, InboxInv, IdentityInv, Next
    PROVE  IdentityInv'
<1>0. TypeOK /\ Settled(inbox, Plans)
  BY DEF InboxInv
<1>1. CASE LoseDatabase
  <2>1. /\ DOMAIN db' = {} /\ inbox' = inbox /\ Plans' = {}
        /\ \A w \in Writer : writer'[w].pc # "read"
    BY <1>1 DEF LoseDatabase, Plans, HasPlan, Idle
  <2>2. \A i \in Filled(inbox) : Sound(inbox[i].acct)
    BY DEF IdentityInv
  <2> QED BY <2>1, <2>2 DEF IdentityInv
<1>2. ASSUME ~LoseDatabase PROVE IdentityInv'
  <2>1. /\ \A c \in DOMAIN db : c \in DOMAIN db' /\ SameChannel(db'[c].acct, db[c].acct)
        /\ \A c \in DOMAIN db' : Plain(db'[c].acct)
        /\ \A c \in DOMAIN db' \ DOMAIN db : c \notin UsedIds
    BY <1>0, <1>2, CandidatesStep
  <2>2. /\ \A i \in Filled(inbox) :
             /\ i \in Filled(inbox') /\ inbox'[i].id = inbox[i].id
             /\ Sound(inbox'[i].acct) /\ SameChannel(inbox'[i].acct, inbox[i].acct)
        /\ \A i \in Filled(inbox') \ Filled(inbox) : \E f \in Plans : \E c \in DOMAIN f :
             /\ Appends(f, c) /\ f[c].row = i
             /\ inbox'[i].id = c /\ inbox'[i].acct = f[c].acct
    BY RowsKept
  <2>3. \A f \in Plans : \A c \in DOMAIN f :
           /\ c \in DOMAIN db /\ Plain(f[c].acct) /\ SameChannel(f[c].acct, db[c].acct)
           /\ f[c].row \in Filled(inbox) => SameChannel(f[c].acct, inbox[f[c].row].acct)
    BY DEF IdentityInv
  <2>4. ASSUME NEW i \in Filled(inbox')
        PROVE  /\ Sound(inbox'[i].acct)
               /\ inbox'[i].id \in DOMAIN db' => SameChannel(inbox'[i].acct, db'[inbox'[i].id].acct)
    <3>1. CASE i \in Filled(inbox)
      <4>1. inbox[i].id \in UsedIds
        BY <3>1 DEF UsedIds, Filled
      <4>2. inbox[i].id \in DOMAIN db => SameChannel(inbox[i].acct, db[inbox[i].id].acct)
        BY <3>1 DEF IdentityInv
      <4> QED BY <2>1, <2>2, <3>1, <4>1, <4>2 DEF SameChannel
    <3>2. CASE i \notin Filled(inbox)
      BY <2>1, <2>2, <2>3, <3>2 DEF SameChannel, Sound
    <3> QED BY <3>1, <3>2
  <2>5. ASSUME NEW w \in Writer, writer'[w].pc = "read", NEW c \in DOMAIN writer'[w].cands
        PROVE  /\ c \in DOMAIN db' /\ Plain(writer'[w].cands[c].acct)
               /\ SameChannel(writer'[w].cands[c].acct, db'[c].acct)
    <3>1. CASE writer'[w].cands = db /\ db' = db /\ inbox' = inbox
      BY <2>1, <2>5, <3>1 DEF SameChannel
    <3>2. CASE writer[w].pc = "read" /\ writer'[w].cands = writer[w].cands
      <4>1. /\ c \in DOMAIN db /\ Plain(writer[w].cands[c].acct)
            /\ SameChannel(writer[w].cands[c].acct, db[c].acct)
        BY <2>5, <3>2 DEF IdentityInv
      <4> QED BY <2>1, <3>2, <4>1 DEF SameChannel
    <3> QED BY <1>0, <2>5, <3>1, <3>2, ReadersStep
  <2>6. ASSUME NEW f \in Plans, NEW c \in DOMAIN f
        PROVE  /\ c \in DOMAIN db' /\ Plain(f[c].acct) /\ SameChannel(f[c].acct, db'[c].acct)
               /\ f[c].row \in Filled(inbox') => SameChannel(f[c].acct, inbox'[f[c].row].acct)
    <3>1. c \in DOMAIN db' /\ Plain(f[c].acct) /\ SameChannel(f[c].acct, db'[c].acct)
      BY <2>1, <2>3 DEF SameChannel
    <3>2. CASE f[c].row \in Filled(inbox)
      BY <2>2, <2>3, <3>1, <3>2 DEF SameChannel
    <3>3. CASE f[c].row \in Filled(inbox') \ Filled(inbox)
      <4>1. PICK g \in Plans : \E d \in DOMAIN g :
               Appends(g, d) /\ g[d].row = f[c].row /\ inbox'[f[c].row].acct = g[d].acct
        BY <2>2, <3>3
      <4>2. \A d \in DOMAIN g : Apart(d, g[d], c, f[c])
        BY <1>0 DEF Settled
      <4>3. inbox'[f[c].row].acct = f[c].acct
        BY <4>1, <4>2 DEF Apart, Appends
      <4> QED BY <3>1, <4>3 DEF SameChannel
    <3> QED BY <3>1, <3>2, <3>3
  <2>7. ASSUME NEW w \in Writer, ReadTables(w), NEW c \in DOMAIN NewPlan(w)
        PROVE  /\ c \in DOMAIN db' /\ Plain(NewPlan(w)[c].acct)
               /\ SameChannel(NewPlan(w)[c].acct, db'[c].acct)
               /\ NewPlan(w)[c].row \in Filled(inbox') =>
                    SameChannel(NewPlan(w)[c].acct, inbox'[NewPlan(w)[c].row].acct)
    BY <2>7, NewPlanIdentity DEF ReadTables
  <2>8. ASSUME NEW f \in Plans', NEW c \in DOMAIN f
        PROVE  /\ c \in DOMAIN db' /\ Plain(f[c].acct) /\ SameChannel(f[c].acct, db'[c].acct)
               /\ f[c].row \in Filled(inbox') => SameChannel(f[c].acct, inbox'[f[c].row].acct)
    <3>1. CASE \E g \in Plans : Sub(f, g)
      BY <2>6, <3>1 DEF Sub
    <3>2. CASE \E w \in Writer : ReadTables(w) /\ f = NewPlan(w)
      BY <2>7, <3>2
    <3> QED BY <1>0, <3>1, <3>2, PlansStep
  <2> QED BY <2>1, <2>4, <2>5, <2>8 DEF IdentityInv
<1> QED BY <1>1, <1>2

LEMMA IdentityInvariant ==
    ASSUME SingleWriter, ObservationsResolved PROVE Spec => []IdentityInv
<1>1. Init => IdentityInv
  BY IdentityInit
<1>2. InboxInv /\ IdentityInv /\ [Next]_vars => IdentityInv'
  <2>1. ASSUME IdentityInv, UNCHANGED vars PROVE IdentityInv'
    <3>1. Plans' = Plans
      BY <2>1 DEF vars, Plans, HasPlan
    <3> QED BY <2>1, <3>1 DEF vars, IdentityInv
  <2> QED BY <2>1, IdentityStep
<1> QED BY <1>1, <1>2, InboxInvariant, PTL DEF Spec

\* A row keeps its candidate_id, the key of the hand-off, and its channel through
\* every write, repeated request and restart, also when Upsert has upgraded the
\* candidate or a curator has filled in column C.
THEOREM RowsKeepIdentity ==
    ASSUME SingleWriter, ObservationsResolved PROVE Spec => RowIdentityFixed
<1>1. InboxInv /\ IdentityInv /\ [Next]_vars =>
        [\A i \in Filled(inbox) :
           /\ i \in DOMAIN inbox'
           /\ inbox'[i].id = inbox[i].id
           /\ ChannelOf(inbox'[i].acct) = ChannelOf(inbox[i].acct)]_vars
  BY RowsKept DEF SameChannel, Filled
<1> QED BY <1>1, InboxInvariant, IdentityInvariant, PTL DEF Spec, RowIdentityFixed

------------------------------------------------------------------------------
(***************************************************************************)
(* The inbox implements the queue of review decisions.                     *)
(***************************************************************************)

\* The queue that rows show.
Decision(row) == [channel |-> ChannelOf(row.acct), verdict |-> row.review]
Shown(rows) ==
    [id \in {rows[i].id : i \in Filled(rows)} |->
       Decision(rows[CHOOSE i \in Filled(rows) : rows[i].id = id])]

LEMMA ShownRow ==
    ASSUME NEW rows, ~DuplicateId(rows)
    PROVE  /\ DOMAIN Shown(rows) = {rows[i].id : i \in Filled(rows)}
           /\ \A i \in Filled(rows) : Shown(rows)[rows[i].id] = Decision(rows[i])
<1>1. ASSUME NEW i \in Filled(rows)
      PROVE  (CHOOSE j \in Filled(rows) : rows[j].id = rows[i].id) = i
  <2> DEFINE j == CHOOSE j \in Filled(rows) : rows[j].id = rows[i].id
  <2>1. j \in Filled(rows) /\ rows[j].id = rows[i].id
    OBVIOUS
  <2> HIDE DEF j
  <2>2. j = i
    BY <2>1 DEF DuplicateId
  <2> QED BY <2>2 DEF j
<1>2. ASSUME NEW i \in Filled(rows) PROVE Shown(rows)[rows[i].id] = Decision(rows[i])
  <2>1. rows[i].id \in {rows[j].id : j \in Filled(rows)}
    OBVIOUS
  <2>2. Shown(rows)[rows[i].id]
          = Decision(rows[CHOOSE j \in Filled(rows) : rows[j].id = rows[i].id])
    BY <2>1 DEF Shown
  <2> QED BY <1>1, <2>2
<1> QED BY <1>2 DEF Shown

\* Rows with the same IDs and decisions show the same queue, row by row.
LEMMA ShownFunction ==
    ASSUME NEW rows, NEW f, f = [id \in DOMAIN f |-> f[id]], ~DuplicateId(rows),
           DOMAIN f = {rows[i].id : i \in Filled(rows)},
           \A i \in Filled(rows) : f[rows[i].id] = Decision(rows[i])
    PROVE  Shown(rows) = f
<1>1. Shown(rows) = [id \in DOMAIN f |-> Shown(rows)[id]]
  <2>1. Shown(rows) = [id \in DOMAIN Shown(rows) |-> Shown(rows)[id]]
    BY DEF Shown
  <2> QED BY <2>1, ShownRow
<1>2. ASSUME NEW id \in DOMAIN f PROVE Shown(rows)[id] = f[id]
  <2>1. PICK i \in Filled(rows) : id = rows[i].id
    OBVIOUS
  <2>2. Shown(rows)[rows[i].id] = Decision(rows[i])
    BY ShownRow
  <2> QED BY <2>1, <2>2
<1> QED BY <1>1, <1>2

LEMMA SoundChannel == ASSUME NEW a, Sound(a) PROVE ChannelOf(a) \in Channel
BY SoundCases, PageFacts, ChannelFacts, VideoFacts, FilledInFacts, InboxAssumption

\* A request publishes the candidates whose rows it fills, as pending.
LEMMA RequestPublishes ==
    ASSUME SingleWriter, CuratorWaits, InboxInv, IdentityInv, Next,
           NEW m \in wire, wire' # wire, inbox' = ApplyBatch(inbox, m.batch)
    PROVE  \/ Shown(inbox') = Shown(inbox)
           \/ \E new \in SUBSET CandidateId :
                /\ new # {} /\ new \cap DOMAIN Shown(inbox) = {}
                /\ DOMAIN Shown(inbox') = DOMAIN Shown(inbox) \cup new
                /\ \A id \in DOMAIN Shown(inbox) : Shown(inbox')[id] = Shown(inbox)[id]
                /\ \A id \in new : /\ Shown(inbox')[id] \in [channel : Channel, verdict : Verdict]
                                   /\ Shown(inbox')[id].verdict = "pending"
<1> DEFINE fresh == Filled(inbox') \ Filled(inbox)
           new == {inbox'[i].id : i \in fresh}
<1>1. /\ inbox' \in Seq(Row(Time)) /\ ~DuplicateId(inbox) /\ ~DuplicateId(inbox')
  BY InboxTypeStep, AcceptedStep DEF InboxInv, InboxAccepted, TypeOK
<1>2. /\ \A i \in Filled(inbox) :
           /\ i \in Filled(inbox') /\ inbox'[i].id = inbox[i].id
           /\ ChannelOf(inbox'[i].acct) = ChannelOf(inbox[i].acct)
      /\ \A i \in fresh : \E f \in Plans : \E c \in DOMAIN f :
           inbox'[i].acct = f[c].acct /\ inbox'[i].review = "pending"
  BY RowsKept DEF SameChannel
<1>3. \A i \in Filled(inbox) : inbox'[i].review = inbox[i].review
  BY ReviewKept
<1>4. \A i \in Filled(inbox) : Decision(inbox'[i]) = Decision(inbox[i])
  BY <1>2, <1>3 DEF Decision
<1>5. /\ DOMAIN Shown(inbox) = {inbox[i].id : i \in Filled(inbox)}
      /\ \A i \in Filled(inbox) : Shown(inbox)[inbox[i].id] = Decision(inbox[i])
      /\ DOMAIN Shown(inbox') = {inbox'[i].id : i \in Filled(inbox')}
      /\ \A i \in Filled(inbox') : Shown(inbox')[inbox'[i].id] = Decision(inbox'[i])
  <2> DEFINE Shows(rows) ==
               /\ DOMAIN Shown(rows) = {rows[i].id : i \in Filled(rows)}
               /\ \A i \in Filled(rows) : Shown(rows)[rows[i].id] = Decision(rows[i])
  <2>1. \A rows : ~DuplicateId(rows) => Shows(rows)
    BY ShownRow
  <2>2. Shows(inbox) /\ Shows(inbox')
    <3> HIDE DEF Shows
    <3> QED BY <1>1, <2>1
  <2> QED BY <2>2
<1>6. DOMAIN Shown(inbox') = DOMAIN Shown(inbox) \cup new
  BY <1>2, <1>5
<1>7. \A id \in DOMAIN Shown(inbox) : Shown(inbox')[id] = Shown(inbox)[id]
  BY <1>2, <1>4, <1>5
<1>8. CASE fresh = {}
  <2>1. Filled(inbox') = Filled(inbox)
    BY <1>2, <1>8
  <2>2. Shown(inbox) = [id \in DOMAIN Shown(inbox) |-> Shown(inbox)[id]]
    BY DEF Shown
  <2>3. DOMAIN Shown(inbox) = {inbox'[i].id : i \in Filled(inbox')}
    BY <1>2, <1>5, <2>1
  <2>4. \A i \in Filled(inbox') : Shown(inbox)[inbox'[i].id] = Decision(inbox'[i])
    BY <1>2, <1>4, <1>5, <2>1
  <2> QED BY <1>1, <2>2, <2>3, <2>4, ShownFunction
<1>9. CASE fresh # {}
  <2>1. new # {} /\ new \in SUBSET CandidateId
    <3>1. \A i \in fresh : inbox'[i].id \in CandidateId
      BY <1>1, RowColumns DEF Filled, FilledRow
    <3> QED BY <1>9, <3>1
  <2>2. new \cap DOMAIN Shown(inbox) = {}
    <3>1. \A i \in fresh, j \in Filled(inbox) : inbox'[i].id # inbox'[j].id
      BY <1>1, <1>2 DEF DuplicateId
    <3> QED BY <1>2, <1>5, <3>1
  <2>3. ASSUME NEW i \in fresh
        PROVE  /\ Decision(inbox'[i]) \in [channel : Channel, verdict : Verdict]
               /\ Decision(inbox'[i]).verdict = "pending"
    <3>1. Sound(inbox'[i].acct) /\ inbox'[i].review = "pending"
      BY <1>2 DEF IdentityInv, Sound
    <3>2. "pending" \in Verdict /\ ChannelOf(inbox'[i].acct) \in Channel
      BY <3>1, SoundChannel DEF Verdict
    <3> QED BY <3>1, <3>2 DEF Decision
  <2>4. \A i \in fresh : Shown(inbox')[inbox'[i].id] = Decision(inbox'[i])
    BY <1>5
  <2>5. \A id \in new : /\ Shown(inbox')[id] \in [channel : Channel, verdict : Verdict]
                        /\ Shown(inbox')[id].verdict = "pending"
    BY <2>3, <2>4
  <2> HIDE DEF new
  <2> QED BY <1>6, <1>7, <2>1, <2>2, <2>5
<1> QED BY <1>8, <1>9

\* A curator's step leaves the queue as it is or changes one verdict.
LEMMA CuratorReviews ==
    ASSUME SingleWriter, InboxInv, IdentityInv, Next, NEW i \in DOMAIN inbox,
           FillId(i) \/ \E v \in Verdict : Review(i, v)
    PROVE  \/ Shown(inbox') = Shown(inbox)
           \/ \E id \in DOMAIN Shown(inbox) : \E v \in Verdict :
                Shown(inbox') = [Shown(inbox) EXCEPT ![id].verdict = v]
<1>0. /\ inbox \in Seq(Row(Time)) /\ TypeOK /\ ~DuplicateId(inbox) /\ ~DuplicateId(inbox')
  BY AcceptedStep DEF InboxInv, InboxAccepted, TypeOK
<1>1. /\ Filled(inbox') = Filled(inbox) /\ i \in Filled(inbox)
      /\ Filled(inbox) \subseteq DOMAIN inbox
      /\ \A j \in DOMAIN inbox : /\ inbox'[j].id = inbox[j].id
                                 /\ j # i => inbox'[j] = inbox[j]
  BY <1>0, CuratorStep DEF Filled
<1>2. /\ DOMAIN Shown(inbox) = {inbox[j].id : j \in Filled(inbox)}
      /\ \A j \in Filled(inbox) : Shown(inbox)[inbox[j].id] = Decision(inbox[j])
      /\ Shown(inbox) = [id \in DOMAIN Shown(inbox) |-> Shown(inbox)[id]]
  BY <1>0, ShownRow DEF Shown
<1>3. {inbox'[j].id : j \in Filled(inbox')} = {inbox[j].id : j \in Filled(inbox)}
  BY <1>1
<1>4. inbox[i] \in FilledRow(Time)
  BY <1>0, <1>1, RowColumns
<1>5. \A j \in Filled(inbox) : ChannelOf(inbox'[j].acct) = ChannelOf(inbox[j].acct)
  BY RowsKept DEF SameChannel
<1>6. CASE FillId(i)
  <2>1. inbox'[i] = [inbox[i] EXCEPT !.acct.pid = Owner[inbox[i].acct.url.of]]
    BY <1>0, <1>6 DEF FillId
  <2>2. inbox'[i].review = inbox[i].review
    BY <1>4, <2>1 DEF FilledRow
  <2>3. \A j \in Filled(inbox) : Decision(inbox'[j]) = Decision(inbox[j])
    BY <1>1, <1>5, <2>2 DEF Decision
  <2>4. \A j \in Filled(inbox') : Shown(inbox)[inbox'[j].id] = Decision(inbox'[j])
    BY <1>1, <1>2, <2>3
  <2> QED BY <1>0, <1>2, <1>3, <2>4, ShownFunction
<1>7. ASSUME NEW v \in Verdict, Review(i, v)
      PROVE  Shown(inbox') = [Shown(inbox) EXCEPT ![inbox[i].id].verdict = v]
  <2> DEFINE f == [Shown(inbox) EXCEPT ![inbox[i].id].verdict = v]
  <2>1. inbox'[i] = [inbox[i] EXCEPT !.review = v]
    BY <1>0, <1>7 DEF Review
  <2>2. inbox'[i].review = v
    BY <1>4, <2>1 DEF FilledRow
  <2>3. DOMAIN f = DOMAIN Shown(inbox) /\ f = [id \in DOMAIN f |-> f[id]]
    BY <1>2
  <2>4. f[inbox[i].id] = [Decision(inbox[i]) EXCEPT !.verdict = v]
    BY <1>1, <1>2
  <2>5. [Decision(inbox[i]) EXCEPT !.verdict = v] = Decision(inbox'[i])
    BY <1>1, <1>5, <2>2 DEF Decision
  <2>6. \A j \in Filled(inbox) \ {i} : f[inbox[j].id] = Decision(inbox'[j])
    <3>1. \A j \in Filled(inbox) \ {i} : inbox[j].id # inbox[i].id
      BY <1>0, <1>1 DEF DuplicateId
    <3> QED BY <1>1, <1>2, <3>1
  <2>7. \A j \in Filled(inbox') : f[inbox'[j].id] = Decision(inbox'[j])
    BY <1>1, <2>4, <2>5, <2>6
  <2> HIDE DEF f
  <2>8. DOMAIN f = {inbox'[j].id : j \in Filled(inbox')}
    BY <1>2, <1>3, <2>3
  <2>9. Shown(inbox') = f
    BY <1>0, <2>3, <2>7, <2>8, ShownFunction
  <2> QED BY <2>9 DEF f
<1> QED BY <1>1, <1>2, <1>6, <1>7

\* Entries are added as pending and never leave, an entry is about one channel for
\* ever, and only a curator's step changes a verdict, whatever is lost or repeated.
THEOREM InboxImplementsReviewQueue ==
    ASSUME SingleWriter, CuratorWaits, ObservationsResolved
    PROVE  Spec => ImplementsReviewQueue
<1>1. Init => Queue!Init
  BY DEF Init, Queue!Init, Filled
<1>2. InboxInv /\ IdentityInv /\ [Next]_vars => [Queue!Next]_(Shown(inbox))
  <2> SUFFICES ASSUME InboxInv, IdentityInv, Next, Shown(inbox') # Shown(inbox)
               PROVE  Queue!Next
    BY DEF vars
  <2>1. ASSUME NEW m \in wire, Deliver(m) \/ DeliverUnheard(m), inbox' = ApplyBatch(inbox, m.batch)
        PROVE  Queue!Publish
    <3>1. wire' # wire
      BY <2>1 DEF Deliver, DeliverUnheard
    <3> QED BY <2>1, <3>1, RequestPublishes DEF Queue!Publish, Queue!Entry, Shown, Decision
  <2>2. ASSUME NEW i \in DOMAIN inbox, FillId(i) \/ \E v \in Verdict : Review(i, v)
        PROVE  Queue!Next
    BY <2>2, CuratorReviews DEF Queue!Next, Queue!Review, Shown, Decision
  <2> QED BY <2>1, <2>2, RowsStep DEF Queue!Next
<1> QED BY <1>1, <1>2, InboxInvariant, IdentityInvariant, PTL
        DEF Spec, ImplementsReviewQueue, Queue!Spec, Shown, Decision

------------------------------------------------------------------------------
(***************************************************************************)
(* One row for each account.  While the local database is kept and nobody  *)
(* fills in column C, a row shows what its candidate was or is, and no two *)
(* candidates ever plan with one account.                                  *)
(***************************************************************************)

\* b is what a is, or the channel that the page a was resolved to.
Past(a, b) == a = b \/ \E p \in Page : a = PageAccount(p) /\ b = ChannelAccount(Owner[p])
UniqueAccounts(t) == \A c, d \in DOMAIN t : t[c].acct = t[d].acct => c = d

KeyInv ==
    /\ losses = 0
    /\ UniqueAccounts(db)
    /\ \A i \in Filled(inbox) :
         inbox[i].id \in DOMAIN db /\ Past(inbox[i].acct, db[inbox[i].id].acct)
    /\ \A i, j \in Filled(inbox) : inbox[i].acct = inbox[j].acct => i = j
    /\ \A w \in Writer : writer[w].pc = "read" =>
         /\ UniqueAccounts(writer[w].cands)
         /\ \A c \in DOMAIN writer[w].cands :
              c \in DOMAIN db /\ Past(writer[w].cands[c].acct, db[c].acct)
         /\ \A i \in Filled(inbox) :
              /\ inbox[i].id \in DOMAIN writer[w].cands
              /\ Past(inbox[i].acct, writer[w].cands[inbox[i].id].acct)
    /\ \A f \in Plans : \A c \in DOMAIN f :
         /\ f[c].id \in DOMAIN db /\ Past(f[c].acct, db[f[c].id].acct)
         /\ \A i \in Filled(inbox) : inbox[i].acct = f[c].acct => i = f[c].row
    /\ \A f, g \in Plans : \A c \in DOMAIN f, d \in DOMAIN g :
         f[c].acct = g[d].acct => c = d

LEMMA PagesAreNoChannels ==
    ASSUME NEW p \in Page, NEW ch PROVE PageAccount(p) # ChannelAccount(ch)
BY DEF PageAccount, ChannelAccount, PageUrl, ChannelUrl

LEMMA PastTransitive == ASSUME NEW a, NEW b, NEW c, Past(a, b), Past(b, c) PROVE Past(a, c)
BY PagesAreNoChannels DEF Past

\* Of the accounts Normalize makes, no two have one key.
LEMMA KeyTellsAccount ==
    ASSUME NEW a, NEW b, Plain(a), Plain(b), Key(a) = Key(b)
    PROVE  a = b
<1>1. \A p, q \in Page : UrlKey("youtube", PageUrl(p)) = UrlKey("youtube", PageUrl(q)) => p = q
  BY DEF UrlKey, PageUrl
<1>2. \A k, l : \A ch, dh \in Channel : IdKey(k, ch) = IdKey(l, dh) => k = l /\ ch = dh
  BY DEF IdKey
<1>3. \A k, l : \A ch \in Channel, p \in Page : IdKey(k, ch) # UrlKey(l, PageUrl(p))
  BY DEF IdKey, UrlKey
<1>4. \/ \E p \in Page : Key(a) = UrlKey("youtube", PageUrl(p)) /\ a = PageAccount(p)
      \/ \E ch \in Channel : Key(a) = IdKey("youtube", ch) /\ a = ChannelAccount(ch)
      \/ \E ch \in Channel : Key(a) = IdKey("youtube_video", ch) /\ a = VideoAccount(ch)
  BY PlainCases, PageFacts, ChannelFacts, VideoFacts
<1>5. \/ \E p \in Page : Key(b) = UrlKey("youtube", PageUrl(p)) /\ b = PageAccount(p)
      \/ \E ch \in Channel : Key(b) = IdKey("youtube", ch) /\ b = ChannelAccount(ch)
      \/ \E ch \in Channel : Key(b) = IdKey("youtube_video", ch) /\ b = VideoAccount(ch)
  BY PlainCases, PageFacts, ChannelFacts, VideoFacts
<1> QED BY <1>1, <1>2, <1>3, <1>4, <1>5

\* Upsert keeps the accounts apart, and changes one only from a page to its channel.
LEMMA ObserveUpgrades ==
    ASSUME ObservationsResolved, TypeOK, IdentityInv, UniqueAccounts(db),
           NEW o \in Observation, Observe(o)
    PROVE  /\ \A c \in DOMAIN db : /\ c \in DOMAIN db' /\ Past(db[c].acct, db'[c].acct)
                                  /\ db'[c].first = db[c].first
           /\ \A c \in DOMAIN db' \ DOMAIN db : db'[c].first = clock
           /\ UniqueAccounts(db')
<1>1. PICK fresh \in CandidateId \ UsedIds : db' = Upsert(db, o.acct, o.input, fresh, clock)
  BY DEF Observe
<1> DEFINE id == UpsertedId(db, o.acct, o.input, fresh)
           old == Matching(db, o.acct, o.input)
           row == [acct |-> o.acct, input |-> o.input,
                   first |-> IF old # {} THEN db[id].first ELSE clock]
<1>2. Plain(o.acct) /\ o.input \in Url /\ OfObservation(o.acct, o.input)
  BY ObservedAccount DEF ObservationsResolved
<1>3. \A c \in DOMAIN db : Plain(db[c].acct)
  BY DEF IdentityInv
<1>4. \A c \in SameKey(db, o.acct) : c \in DOMAIN db /\ db[c].acct = o.acct
  BY <1>2, <1>3, KeyTellsAccount DEF SameKey
<1>5. ASSUME o.acct.pid # NoPid, NEW c \in Unresolved(db, o.acct, o.input)
      PROVE  c \in DOMAIN db /\ Past(db[c].acct, o.acct)
  <2>1. c \in DOMAIN db /\ db[c].acct = Normalized(o.input) /\ db[c].acct.pid = NoPid
    BY <1>3, <1>5 DEF Unresolved, Plain
  <2>2. PICK p \in Page : db[c].acct = PageAccount(p)
    BY <1>3, <2>1, NoPidAssumption, PlainCases, ChannelFacts, VideoFacts
  <2>3. o.acct = ChannelAccount(Owner[p])
    BY <1>2, <1>5, <2>1, <2>2, PageFacts DEF OfObservation
  <2> QED BY <2>1, <2>2, <2>3 DEF Past
<1>6. \A c \in old : c \in DOMAIN db /\ Past(db[c].acct, o.acct)
  BY <1>4, <1>5 DEF Matching, Past
<1>7. /\ id \in old \/ (id = fresh /\ old = {})
      /\ \A c \in DOMAIN db : db[c].acct = o.acct => c \in SameKey(db, o.acct)
      /\ SameKey(db, o.acct) # {} => id \in SameKey(db, o.acct)
  BY DEF UpsertedId, Matching, SameKey
<1>8. db' = [i \in DOMAIN db \cup {id} |-> IF i = id THEN row ELSE db[i]]
  BY <1>1 DEF Upsert
<1>9. /\ row.acct = o.acct /\ DOMAIN db \subseteq UsedIds /\ fresh \notin UsedIds
      /\ old # {} => row.first = db[id].first
      /\ old = {} => row.first = clock
  BY DEF UsedIds
<1> HIDE DEF id, old, row
<1>10. /\ DOMAIN db' = DOMAIN db \cup {id} /\ db'[id].acct = o.acct /\ db'[id].first = row.first
       /\ \A c \in DOMAIN db : c # id => db'[c] = db[c]
  BY <1>8, <1>9
<1>11. ASSUME NEW c \in DOMAIN db
       PROVE  /\ c \in DOMAIN db' /\ Past(db[c].acct, db'[c].acct)
              /\ db'[c].first = db[c].first
  <2>1. CASE c = id
    <3>1. id \in old
      BY <1>7, <1>9, <2>1
    <3> QED BY <1>6, <1>9, <1>10, <2>1, <3>1
  <2>2. CASE c # id
    BY <1>10, <2>2 DEF Past
  <2> QED BY <2>1, <2>2
<1>12. \A c \in DOMAIN db : db[c].acct = o.acct => c = id
  BY <1>4, <1>7 DEF UniqueAccounts
<1>13. UniqueAccounts(db')
  BY <1>10, <1>12 DEF UniqueAccounts
<1>14. \A c \in DOMAIN db' \ DOMAIN db : db'[c].first = clock
  BY <1>6, <1>7, <1>9, <1>10
<1> QED BY <1>11, <1>13, <1>14

\* A row is as it was, or as the entry of some plan for that row says.
LEMMA RowsFromPlans ==
    ASSUME ~CuratorFillsId, InboxInv, Next, NEW i \in Filled(inbox')
    PROVE  \/ /\ i \in Filled(inbox) /\ inbox'[i].id = inbox[i].id
              /\ inbox'[i].acct = inbox[i].acct /\ inbox'[i].first = inbox[i].first
           \/ \E f \in Plans : \E c \in DOMAIN f :
                /\ f[c].row = i /\ inbox'[i].id = f[c].id
                /\ inbox'[i].acct = f[c].acct /\ inbox'[i].first = f[c].first
<1>0. inbox \in Seq(Row(Time)) /\ Settled(inbox, Plans) /\ TypeOK
  BY DEF InboxInv, TypeOK
<1> DEFINE Same == /\ i \in Filled(inbox) /\ inbox'[i].id = inbox[i].id
                   /\ inbox'[i].acct = inbox[i].acct /\ inbox'[i].first = inbox[i].first
           Planned == \E f \in Plans : \E c \in DOMAIN f :
                        /\ f[c].row = i /\ inbox'[i].id = f[c].id
                        /\ inbox'[i].acct = f[c].acct /\ inbox'[i].first = f[c].first
<1>1. CASE inbox' = inbox
  BY <1>1
<1>2. ASSUME NEW j \in DOMAIN inbox, FillId(j) PROVE FALSE
  BY <1>2 DEF FillId
<1>3. ASSUME NEW j \in DOMAIN inbox, NEW v \in Verdict, Review(j, v) PROVE Same
  <2>1. /\ Filled(inbox') = Filled(inbox) /\ j \in Filled(inbox)
        /\ Filled(inbox) \subseteq DOMAIN inbox
        /\ \A k \in DOMAIN inbox : /\ inbox'[k].id = inbox[k].id
                                   /\ k # j => inbox'[k] = inbox[k]
    BY <1>0, <1>3, CuratorStep DEF Filled
  <2>2. inbox'[j].acct = inbox[j].acct /\ inbox'[j].first = inbox[j].first
    <3>1. inbox[j] \in FilledRow(Time)
      BY <1>0, <2>1, RowColumns
    <3>2. inbox'[j] = [inbox[j] EXCEPT !.review = v]
      BY <1>0, <1>3 DEF Review
    <3> QED BY <3>1, <3>2 DEF FilledRow
  <2> QED BY <2>1, <2>2
<1>4. ASSUME NEW m \in wire, inbox' = ApplyBatch(inbox, m.batch) PROVE Same \/ Planned
  <2>1. m.batch \in Plans /\ Plan(m.batch)
    BY <1>0 DEF Plans, TypeOK, RequestOK
  <2>2. Settled(inbox, {m.batch})
    BY <1>0, <2>1 DEF Settled
  <2>3. /\ \A k \in Filled(inbox) : inbox'[k].id = inbox[k].id
        /\ \A k \in Filled(inbox) :
             \/ inbox'[k] = inbox[k]
             \/ \E c \in DOMAIN m.batch :
                  m.batch[c].row = k /\ inbox'[k] = Written(inbox[k], m.batch[c])
        /\ \A k \in Filled(inbox') \ Filled(inbox) : \E c \in DOMAIN m.batch :
             /\ m.batch[c].row = k /\ inbox'[k] = Written(Blank, m.batch[c])
    BY <1>0, <1>4, <2>1, <2>2, RequestApplied
  <2>4. \A r : \A c \in DOMAIN m.batch :
           /\ Written(r, m.batch[c]).acct = m.batch[c].acct
           /\ Written(r, m.batch[c]).id = m.batch[c].id
           /\ Written(r, m.batch[c]).first = m.batch[c].first
    BY DEF Written
  <2>5. CASE i \in Filled(inbox) /\ inbox'[i] = inbox[i]
    BY <2>5
  <2>6. ASSUME NEW r, NEW c \in DOMAIN m.batch, m.batch[c].row = i,
               inbox'[i] = Written(r, m.batch[c])
        PROVE  Planned
    BY <2>1, <2>4, <2>6
  <2> QED BY <2>3, <2>5, <2>6
<1> QED BY <1>1, <1>2, <1>3, <1>4, RowsStep

\* A new plan writes each account once, to the row that shows it if there is one.
LEMMA NewPlanKeys ==
    ASSUME InboxInv, IdentityInv, KeyInv, NEW w \in Writer, ReadTables(w)
    PROVE  /\ \A c \in DOMAIN NewPlan(w) :
                /\ NewPlan(w)[c].id \in DOMAIN db
                /\ Past(NewPlan(w)[c].acct, db[NewPlan(w)[c].id].acct)
                /\ \A i \in Filled(inbox) :
                     inbox[i].acct = NewPlan(w)[c].acct => i = NewPlan(w)[c].row
           /\ \A c, d \in DOMAIN NewPlan(w) : NewPlan(w)[c].acct = NewPlan(w)[d].acct => c = d
<1> DEFINE cands == writer[w].cands
           plan == NewPlan(w)
<1>1. /\ inbox \in Seq(Row(Time)) /\ TypeOK /\ writer[w].pc = "read" /\ ~DuplicateId(inbox)
  BY DEF InboxInv, TypeOK, InboxAccepted, ReadTables
<1>2. Table(cands, Candidate)
  BY <1>1, Tasks
<1>3. /\ UniqueAccounts(cands)
      /\ \A c \in DOMAIN cands : /\ c \in DOMAIN db /\ Past(cands[c].acct, db[c].acct)
                                 /\ Plain(cands[c].acct)
      /\ \A i \in Filled(inbox) : /\ inbox[i].id \in DOMAIN cands
                                  /\ Past(inbox[i].acct, cands[inbox[i].id].acct)
  BY <1>1 DEF KeyInv, IdentityInv
<1>4. /\ \A i, j \in Filled(inbox) : inbox[i].acct = inbox[j].acct => i = j
      /\ \A i \in Filled(inbox) : /\ inbox[i].id \in DOMAIN db
                                  /\ Past(inbox[i].acct, db[inbox[i].id].acct)
  BY DEF KeyInv
<1>5. \A i \in Filled(inbox) : Plain(inbox[i].acct)
  BY <1>3, PageFacts DEF Past
<1>6. \A i \in Filled(inbox) : RowAccount(inbox[i]) = inbox[i].acct
  BY <1>5, RowAccountIsAcct DEF Sound
<1>7. /\ DOMAIN plan = Incoming(inbox, cands, Match)
      /\ \A c \in DOMAIN plan : plan[c] = Entry(inbox, cands, Match, c)
  BY DEF NewPlan, PlanSync
<1>8. DOMAIN plan \subseteq DOMAIN cands
  BY <1>7 DEF Incoming
<1>9. \A c \in DOMAIN plan :
         /\ plan[c].acct = cands[c].acct
         /\ \/ /\ plan[c].row \in RowsOfId(inbox, c) /\ plan[c].id = inbox[plan[c].row].id
            \/ /\ plan[c].row \in RowsOfKey(inbox, Key(plan[c].acct))
               /\ plan[c].id = inbox[plan[c].row].id
            \/ plan[c].id = c /\ RowsOfKey(inbox, Key(plan[c].acct)) = {}
  <2> SUFFICES ASSUME NEW c \in DOMAIN plan
               PROVE  /\ plan[c].acct = cands[c].acct
                      /\ \/ /\ plan[c].row \in RowsOfId(inbox, c)
                            /\ plan[c].id = inbox[plan[c].row].id
                         \/ /\ plan[c].row \in RowsOfKey(inbox, Key(plan[c].acct))
                            /\ plan[c].id = inbox[plan[c].row].id
                         \/ plan[c].id = c /\ RowsOfKey(inbox, Key(plan[c].acct)) = {}
    OBVIOUS
  <2> HIDE DEF cands, plan
  <2>1. c \in Incoming(inbox, cands, Match) /\ plan[c] = Entry(inbox, cands, Match, c)
    BY <1>7
  <2> DEFINE e == plan[c]
  <2>2. /\ e.acct = cands[c].acct
        /\ \/ /\ e.row \in Filled(inbox) /\ e.id = inbox[e.row].id
              /\ \/ e.row \in RowsOfId(inbox, c)
                 \/ e.row \in RowsOfKey(inbox, Key(e.acct))
           \/ e.id = c /\ RowsOfKey(inbox, Key(e.acct)) = {}
    <3> HIDE DEF e
    <3>1. e = Entry(inbox, cands, Match, c)
      BY <2>1 DEF e
    <3>2. inbox \in Seq(Row(Time)) /\ c \in Incoming(inbox, cands, Match)
      BY <1>1, <2>1
    <3>3. /\ e \in EntryType
          /\ e.acct = cands[c].acct
          /\ \/ /\ e.kind = "refresh"
                /\ e.row \in Filled(inbox) /\ e.id = inbox[e.row].id
                /\ \/ e.row \in RowsOfId(inbox, c)
                   \/ /\ RowsOfId(inbox, c) = {}
                      /\ e.row \in RowsOfKey(inbox, Key(e.acct))
             \/ /\ e.kind = "append"
                /\ c \in Unlisted(inbox, cands, Match)
                /\ e.id = c /\ e.row = AppendRow(inbox, cands, Match, c)
                /\ RowsOfId(inbox, c) = {} /\ RowsOfKey(inbox, Key(e.acct)) = {}
      BY <1>2, <3>1, <3>2, EntryCases
    <3> QED BY <3>3
  <2> QED BY <2>2
<1> HIDE DEF cands, plan
<1>10. ASSUME NEW c \in DOMAIN plan
       PROVE  /\ plan[c].id \in DOMAIN db /\ Past(plan[c].acct, db[plan[c].id].acct)
              /\ \A i \in Filled(inbox) : inbox[i].acct = plan[c].acct => i = plan[c].row
  <2>0. c \in DOMAIN cands /\ plan[c].acct = cands[c].acct /\ Plain(plan[c].acct)
    BY <1>3, <1>8, <1>9
  <2>1. CASE plan[c].row \in RowsOfId(inbox, c) /\ plan[c].id = inbox[plan[c].row].id
    <3>1. plan[c].row \in Filled(inbox) /\ inbox[plan[c].row].id = c /\ plan[c].id = c
      BY <2>1 DEF RowsOfId
    <3>2. Past(inbox[plan[c].row].acct, plan[c].acct)
      BY <1>3, <2>0, <3>1
    <3>3. ASSUME NEW i \in Filled(inbox), inbox[i].acct = plan[c].acct PROVE i = plan[c].row
      <4>1. CASE inbox[plan[c].row].acct = plan[c].acct
        BY <1>4, <3>1, <3>3, <4>1
      <4>2. CASE \E p \in Page : plan[c].acct = ChannelAccount(Owner[p])
        <5>1. inbox[i].id \in DOMAIN cands /\ Past(inbox[i].acct, cands[inbox[i].id].acct)
          BY <1>3
        <5>2. cands[inbox[i].id].acct = plan[c].acct
          BY <3>3, <4>2, <5>1, PagesAreNoChannels DEF Past
        <5>3. inbox[i].id = c
          BY <1>3, <2>0, <5>1, <5>2 DEF UniqueAccounts
        <5> QED BY <1>1, <3>1, <5>3 DEF DuplicateId
      <4> QED BY <3>2, <4>1, <4>2 DEF Past
    <3> QED BY <1>3, <2>0, <3>1, <3>3
  <2>2. CASE /\ plan[c].row \in RowsOfKey(inbox, Key(plan[c].acct))
             /\ plan[c].id = inbox[plan[c].row].id
    <3>1. plan[c].row \in Filled(inbox) /\ Key(inbox[plan[c].row].acct) = Key(plan[c].acct)
      BY <1>6, <2>2 DEF RowsOfKey
    <3>2. inbox[plan[c].row].acct = plan[c].acct
      BY <1>5, <2>0, <3>1, KeyTellsAccount
    <3> QED BY <1>4, <2>2, <3>1, <3>2
  <2>3. CASE plan[c].id = c /\ RowsOfKey(inbox, Key(plan[c].acct)) = {}
    <3>1. \A i \in Filled(inbox) : inbox[i].acct # plan[c].acct
      BY <1>6, <2>3 DEF RowsOfKey
    <3> QED BY <1>3, <2>0, <2>3, <3>1
  <2> QED BY <1>9, <2>1, <2>2, <2>3
<1>11. \A c, d \in DOMAIN plan : plan[c].acct = plan[d].acct => c = d
  BY <1>3, <1>8, <1>9 DEF UniqueAccounts
<1> QED BY <1>10, <1>11 DEF plan

LEMMA KeyInit == ASSUME Init PROVE KeyInv
<1>1. /\ db = [c \in {} |-> {}] /\ Plans = {} /\ Filled(inbox) = {} /\ losses = 0
      /\ \A w \in Writer : writer[w].pc # "read"
  BY DEF Init, Plans, HasPlan, Idle, Filled
<1> QED BY <1>1 DEF KeyInv, UniqueAccounts

\* Unless they are lost, candidates change from pages to channels only.
LEMMA CandidatesUpgrade ==
    ASSUME ObservationsResolved, TypeOK, IdentityInv, UniqueAccounts(db), Next, ~LoseDatabase
    PROVE  /\ losses' = losses /\ UniqueAccounts(db')
           /\ \A c \in DOMAIN db : /\ c \in DOMAIN db' /\ Past(db[c].acct, db'[c].acct)
                                   /\ db'[c].first = db[c].first
           /\ \A c \in DOMAIN db' \ DOMAIN db : db'[c].first = clock
<1>1. losses' = losses /\ (db' = db \/ \E o \in Observation : Observe(o))
  BY DEF Next, WriterStep, Observe, Tick, FillId, Review, Promote, Begin, ReadTables,
         CheckGrid, GrowGrid, Send, TimeOut, Abandon, Deliver, DeliverUnheard, Lose
<1>2. CASE db' = db
  BY <1>1, <1>2 DEF Past
<1> QED BY <1>1, <1>2, ObserveUpgrades

LEMMA KeyStep ==
    ASSUME SingleWriter, ~CuratorFillsId, ObservationsResolved,
           InboxInv, IdentityInv, KeyInv, Next, ~LoseDatabase
    PROVE  KeyInv'
<1>0. TypeOK /\ Settled(inbox, Plans) /\ Alone /\ inbox \in Seq(Row(Time))
  BY DEF InboxInv, KeyInv, TypeOK
<1>1. /\ losses' = 0 /\ UniqueAccounts(db')
      /\ \A c \in DOMAIN db : c \in DOMAIN db' /\ Past(db[c].acct, db'[c].acct)
  BY <1>0, CandidatesUpgrade DEF KeyInv
<1>2. \A i \in Filled(inbox') :
        \/ i \in Filled(inbox) /\ inbox'[i].id = inbox[i].id /\ inbox'[i].acct = inbox[i].acct
        \/ \E f \in Plans : \E c \in DOMAIN f :
             f[c].row = i /\ inbox'[i].id = f[c].id /\ inbox'[i].acct = f[c].acct
  BY RowsFromPlans
<1>3. \A f \in Plans : \A c \in DOMAIN f :
        /\ f[c].id \in DOMAIN db /\ Past(f[c].acct, db[f[c].id].acct)
        /\ \A i \in Filled(inbox) : inbox[i].acct = f[c].acct => i = f[c].row
  BY DEF KeyInv
<1>4. \A f, g \in Plans : \A c \in DOMAIN f, d \in DOMAIN g :
        f[c].acct = g[d].acct => c = d /\ f[c] = g[d]
  BY <1>0 DEF KeyInv, Settled, Apart
<1>5. \A i \in Filled(inbox) :
        inbox[i].id \in DOMAIN db /\ Past(inbox[i].acct, db[inbox[i].id].acct)
  BY DEF KeyInv
<1>6. ASSUME NEW i \in Filled(inbox')
      PROVE  inbox'[i].id \in DOMAIN db' /\ Past(inbox'[i].acct, db'[inbox'[i].id].acct)
  <2>1. inbox'[i].id \in DOMAIN db /\ Past(inbox'[i].acct, db[inbox'[i].id].acct)
    BY <1>2, <1>3, <1>5
  <2> QED BY <1>1, <2>1, PastTransitive
<1>7. ASSUME NEW f \in Plans, NEW c \in DOMAIN f, NEW i \in Filled(inbox'),
             inbox'[i].acct = f[c].acct
      PROVE  i = f[c].row
  BY <1>2, <1>3, <1>4, <1>7
<1>8. ASSUME NEW i \in Filled(inbox'), NEW j \in Filled(inbox'), inbox'[i].acct = inbox'[j].acct
      PROVE  i = j
  <2>1. CASE \E f \in Plans : \E c \in DOMAIN f : inbox'[i].acct = f[c].acct
    <3>1. PICK f \in Plans : \E c \in DOMAIN f : inbox'[i].acct = f[c].acct
      BY <2>1
    <3>2. PICK c \in DOMAIN f : inbox'[i].acct = f[c].acct
      BY <3>1
    <3>3. inbox'[j].acct = f[c].acct
      BY <1>8, <3>2
    <3>4. i = f[c].row
      BY <1>7, <3>2, <3>3
    <3>5. j = f[c].row
      BY <1>7, <3>2, <3>3
    <3> QED BY <3>4, <3>5
  <2>2. CASE \E f \in Plans : \E c \in DOMAIN f : inbox'[j].acct = f[c].acct
    <3>1. PICK f \in Plans : \E c \in DOMAIN f : inbox'[j].acct = f[c].acct
      BY <2>2
    <3>2. PICK c \in DOMAIN f : inbox'[j].acct = f[c].acct
      BY <3>1
    <3>3. inbox'[i].acct = f[c].acct
      BY <1>8, <3>2
    <3>4. i = f[c].row
      BY <1>7, <3>2, <3>3
    <3>5. j = f[c].row
      BY <1>7, <3>2, <3>3
    <3> QED BY <3>4, <3>5
  <2>3. CASE /\ i \in Filled(inbox) /\ inbox'[i].acct = inbox[i].acct
             /\ j \in Filled(inbox) /\ inbox'[j].acct = inbox[j].acct
    BY <1>8, <2>3 DEF KeyInv
  <2> QED BY <1>2, <2>1, <2>2, <2>3
<1>9. ASSUME NEW w \in Writer, writer'[w].pc = "read"
      PROVE  /\ UniqueAccounts(writer'[w].cands)
             /\ \A c \in DOMAIN writer'[w].cands :
                  c \in DOMAIN db' /\ Past(writer'[w].cands[c].acct, db'[c].acct)
             /\ \A i \in Filled(inbox') :
                  /\ inbox'[i].id \in DOMAIN writer'[w].cands
                  /\ Past(inbox'[i].acct, writer'[w].cands[inbox'[i].id].acct)
  <2>1. CASE writer'[w].cands = db /\ db' = db /\ inbox' = inbox
    BY <1>1, <1>5, <2>1 DEF Past
  <2>2. CASE writer[w].pc = "read" /\ writer'[w].cands = writer[w].cands
    <3>1. /\ UniqueAccounts(writer[w].cands)
          /\ \A c \in DOMAIN writer[w].cands :
               c \in DOMAIN db /\ Past(writer[w].cands[c].acct, db[c].acct)
          /\ \A i \in Filled(inbox) :
               /\ inbox[i].id \in DOMAIN writer[w].cands
               /\ Past(inbox[i].acct, writer[w].cands[inbox[i].id].acct)
      BY <2>2 DEF KeyInv
    <3>2. Plans = {}
      <4>1. wire = {} /\ \A v \in Writer : v = w
        BY <1>0, <2>2 DEF Alone, SingleWriter
      <4> QED BY <2>2, <4>1 DEF Plans, HasPlan
    <3>3. \A i \in Filled(inbox') :
            i \in Filled(inbox) /\ inbox'[i].id = inbox[i].id /\ inbox'[i].acct = inbox[i].acct
      BY <1>2, <3>2
    <3>4. \A c \in DOMAIN writer[w].cands :
            c \in DOMAIN db' /\ Past(writer[w].cands[c].acct, db'[c].acct)
      BY <1>1, <3>1, PastTransitive
    <3> QED BY <2>2, <3>1, <3>3, <3>4
  <2> QED BY <1>0, <1>9, <2>1, <2>2, ReadersStep
<1> DEFINE PlanKeys(fs) ==
             /\ \A f \in fs : \A c \in DOMAIN f :
                  /\ f[c].id \in DOMAIN db' /\ Past(f[c].acct, db'[f[c].id].acct)
                  /\ \A i \in Filled(inbox') : inbox'[i].acct = f[c].acct => i = f[c].row
             /\ \A f, g \in fs : \A c \in DOMAIN f, d \in DOMAIN g :
                  f[c].acct = g[d].acct => c = d
<1>10. PlanKeys(Plans)
  <2>1. \A f \in Plans : \A c \in DOMAIN f :
          f[c].id \in DOMAIN db' /\ Past(f[c].acct, db'[f[c].id].acct)
    BY <1>1, <1>3, PastTransitive
  <2> QED BY <1>4, <1>7, <2>1
<1>11. ASSUME \A f \in Plans' : \E g \in Plans : Sub(f, g) PROVE PlanKeys(Plans')
  BY <1>10, <1>11 DEF Sub
<1>12. ASSUME NEW w \in Writer, ReadTables(w) PROVE PlanKeys(Plans')
  <2>1. \A f \in Plans' : f = NewPlan(w)
    <3>1. Plans = {}
      BY <1>12, PlanAlone
    <3>2. \A v \in Writer : v = w
      BY DEF SingleWriter
    <3> QED BY <1>0, <3>1, <3>2, PlansStep
  <2>2. inbox' = inbox /\ db' = db
    BY <1>12 DEF ReadTables
  <2>3. /\ \A c \in DOMAIN NewPlan(w) :
             /\ NewPlan(w)[c].id \in DOMAIN db
             /\ Past(NewPlan(w)[c].acct, db[NewPlan(w)[c].id].acct)
             /\ \A i \in Filled(inbox) :
                  inbox[i].acct = NewPlan(w)[c].acct => i = NewPlan(w)[c].row
        /\ \A c, d \in DOMAIN NewPlan(w) : NewPlan(w)[c].acct = NewPlan(w)[d].acct => c = d
    BY <1>12, NewPlanKeys
  <2> QED BY <2>1, <2>2, <2>3
<1>13. PlanKeys(Plans')
  <2> HIDE DEF PlanKeys
  <2> QED BY <1>0, <1>11, <1>12, PlansStep
<1> QED BY <1>1, <1>6, <1>8, <1>9, <1>13 DEF KeyInv

\* losses counts up, and only a loss of the database counts.
LEMMA LossesCount ==
    ASSUME TypeOK, Next, losses' = 0
    PROVE  losses = 0 /\ ~LoseDatabase
<1>1. losses \in Nat
  BY InboxAssumption DEF TypeOK
<1>2. CASE LoseDatabase
  BY <1>1, <1>2 DEF LoseDatabase
<1>3. CASE ~LoseDatabase
  BY <1>3 DEF Next, WriterStep, Observe, Tick, FillId, Review, Promote, Begin, ReadTables,
              CheckGrid, GrowGrid, Send, TimeOut, Abandon, Deliver, DeliverUnheard, Lose
<1> QED BY <1>2, <1>3

LEMMA KeyInvariant ==
    ASSUME SingleWriter, ~CuratorFillsId, ObservationsResolved
    PROVE  Spec => [](losses = 0 => KeyInv)
<1>1. Init => KeyInv
  BY KeyInit
<1>2. InboxInv /\ IdentityInv /\ (losses = 0 => KeyInv) /\ [Next]_vars => (losses = 0 => KeyInv)'
  <2>1. ASSUME losses' = 0, losses = 0 => KeyInv, UNCHANGED vars PROVE KeyInv'
    <3>1. Plans' = Plans /\ losses = 0
      BY <2>1 DEF vars, Plans, HasPlan
    <3> QED BY <2>1, <3>1 DEF vars, KeyInv
  <2>2. ASSUME InboxInv, IdentityInv, losses' = 0, losses = 0 => KeyInv, Next PROVE KeyInv'
    <3>1. losses = 0 /\ ~LoseDatabase
      BY <2>2, LossesCount DEF InboxInv
    <3> QED BY <2>2, <3>1, KeyStep
  <2> QED BY <2>1, <2>2
<1> QED BY <1>1, <1>2, InboxInvariant, IdentityInvariant, PTL DEF Spec

\* "Known identities are updated/deduplicated rather than appended again": while the
\* database is not lost and column C is the machine's, two rows never stand for one
\* account key.
THEOREM OneRowForEachKey ==
    ASSUME SingleWriter, ~CuratorFillsId, ObservationsResolved
    PROVE  Spec => []OneRowPerKey
<1>1. ASSUME IdentityInv, losses = 0 => KeyInv PROVE OneRowPerKey
  <2> SUFFICES ASSUME losses = 0, KeyInv
               PROVE  \A i, j \in Filled(inbox) :
                        Key(RowAccount(inbox[i])) = Key(RowAccount(inbox[j])) => i = j
    BY <1>1 DEF OneRowPerKey
  <2>1. \A i \in Filled(inbox) : Plain(inbox[i].acct)
    BY <1>1, PageFacts DEF KeyInv, IdentityInv, Past
  <2>2. \A i \in Filled(inbox) : RowAccount(inbox[i]) = inbox[i].acct
    BY <2>1, RowAccountIsAcct DEF Sound
  <2>3. \A i, j \in Filled(inbox) : inbox[i].acct = inbox[j].acct => i = j
    BY DEF KeyInv
  <2> QED BY <2>1, <2>2, <2>3, KeyTellsAccount
<1> QED BY <1>1, IdentityInvariant, KeyInvariant, PTL

------------------------------------------------------------------------------
(***************************************************************************)
(* first_seen.  Two entries for one row carry one instant, whichever of    *)
(* them is written last, if column C is the machine's: the candidate that  *)
(* finds the row by its account is not older than the row.                 *)
(***************************************************************************)

\* What is shown of candidate id is not newer than it, nor than one of that account.
Since(cands, a, t, id) ==
    id \in DOMAIN cands =>
        /\ Past(a, cands[id].acct) /\ t <= cands[id].first
        /\ \A d \in DOMAIN cands : cands[d].acct = a => t <= cands[d].first

FirstInv ==
    /\ UniqueAccounts(db)
    /\ \A c \in DOMAIN db : db[c].first <= clock
    /\ \A i \in Filled(inbox) :
         Plain(inbox[i].acct) /\ Since(db, inbox[i].acct, inbox[i].first, inbox[i].id)
    /\ \A w \in Writer : writer[w].pc = "read" =>
         /\ UniqueAccounts(writer[w].cands)
         /\ \A c \in DOMAIN writer[w].cands :
              /\ c \in DOMAIN db /\ db[c].first = writer[w].cands[c].first
              /\ Since(db, writer[w].cands[c].acct, writer[w].cands[c].first, c)
         /\ \A i \in Filled(inbox) : inbox[i].id \in DOMAIN writer[w].cands =>
              /\ Past(inbox[i].acct, writer[w].cands[inbox[i].id].acct)
              /\ \A d \in DOMAIN writer[w].cands :
                   writer[w].cands[d].acct = inbox[i].acct
                   => inbox[i].first <= writer[w].cands[d].first
    /\ \A f \in Plans : \A c \in DOMAIN f :
         /\ Since(db, f[c].acct, f[c].first, f[c].id)
         /\ f[c].row \in Filled(inbox) => f[c].first <= inbox[f[c].row].first
    /\ \A f, g \in Plans : \A c \in DOMAIN f, d \in DOMAIN g :
         f[c].row = g[d].row => f[c].first = g[d].first

\* Candidates that come later are newer, and an upgraded one is nobody else's account.
LEMMA SinceStep ==
    ASSUME ObservationsResolved, TypeOK, IdentityInv, FirstInv, Next, ~LoseDatabase,
           NEW a, NEW t \in Time, NEW id, id \in DOMAIN db' => id \in DOMAIN db,
           Since(db, a, t, id)
    PROVE  Since(db', a, t, id)
<1> SUFFICES ASSUME id \in DOMAIN db
             PROVE  /\ Past(a, db'[id].acct) /\ t <= db'[id].first
                    /\ \A d \in DOMAIN db' : db'[d].acct = a => t <= db'[d].first
  BY DEF Since
<1>1. /\ UniqueAccounts(db')
      /\ \A c \in DOMAIN db : /\ c \in DOMAIN db' /\ Past(db[c].acct, db'[c].acct)
                              /\ db'[c].first = db[c].first
      /\ \A c \in DOMAIN db' \ DOMAIN db : db'[c].first = clock
  BY CandidatesUpgrade DEF FirstInv
<1>2. /\ Past(a, db[id].acct) /\ t <= db[id].first
      /\ \A d \in DOMAIN db : db[d].acct = a => t <= db[d].first
  BY DEF Since
<1>3. Past(a, db'[id].acct) /\ t <= db'[id].first /\ id \in DOMAIN db'
  BY <1>1, <1>2, PastTransitive
<1>4. ASSUME NEW d \in DOMAIN db', db'[d].acct = a PROVE t <= db'[d].first
  <2>1. CASE d \notin DOMAIN db
    <3>1. db[id].first <= clock /\ db[id].first \in Time /\ clock \in Time
      BY DEF FirstInv, TypeOK, Table, Candidate
    <3>2. db'[d].first = clock
      BY <1>1, <2>1
    <3> QED BY <1>2, <3>1, <3>2 DEF Time
  <2>2. CASE d \in DOMAIN db /\ db[d].acct = a
    BY <1>1, <1>2, <2>2
  <2>3. CASE d \in DOMAIN db /\ db[d].acct # a
    <3>1. PICK p \in Page : a = ChannelAccount(Owner[p])
      BY <1>1, <1>4, <2>3 DEF Past
    <3>2. db'[id].acct = a
      BY <1>3, <3>1, PagesAreNoChannels DEF Past
    <3>3. d = id
      BY <1>1, <1>3, <1>4, <3>2 DEF UniqueAccounts
    <3> QED BY <1>3, <3>3
  <2> QED BY <2>1, <2>2, <2>3
<1> QED BY <1>3, <1>4

\* The entries a reading of the inbox makes.
LEMMA NewPlanFirst ==
    ASSUME ObservationsResolved, InboxInv, IdentityInv, FirstInv, NEW w \in Writer, ReadTables(w)
    PROVE  /\ \A c \in DOMAIN NewPlan(w) :
                /\ Since(db, NewPlan(w)[c].acct, NewPlan(w)[c].first, NewPlan(w)[c].id)
                /\ NewPlan(w)[c].row \in Filled(inbox) =>
                     NewPlan(w)[c].first <= inbox[NewPlan(w)[c].row].first
           /\ \A c, d \in DOMAIN NewPlan(w) :
                NewPlan(w)[c].row = NewPlan(w)[d].row => NewPlan(w)[c].first = NewPlan(w)[d].first
<1> DEFINE cands == writer[w].cands
           plan == NewPlan(w)
<1>1. /\ inbox \in Seq(Row(Time)) /\ TypeOK /\ writer[w].pc = "read"
  BY DEF InboxInv, TypeOK, ReadTables
<1>2. Table(cands, Candidate)
  BY <1>1, Tasks
<1>3. /\ UniqueAccounts(cands)
      /\ \A c \in DOMAIN cands :
           /\ c \in DOMAIN db /\ db[c].first = cands[c].first /\ Plain(cands[c].acct)
           /\ Since(db, cands[c].acct, cands[c].first, c)
      /\ \A i \in Filled(inbox) : inbox[i].id \in DOMAIN cands =>
           /\ Past(inbox[i].acct, cands[inbox[i].id].acct)
           /\ \A d \in DOMAIN cands :
                cands[d].acct = inbox[i].acct => inbox[i].first <= cands[d].first
  BY <1>1 DEF FirstInv, IdentityInv
<1>4. \A i \in Filled(inbox) :
         Plain(inbox[i].acct) /\ Since(db, inbox[i].acct, inbox[i].first, inbox[i].id)
  BY DEF FirstInv
<1>5. \A i \in Filled(inbox) : RowAccount(inbox[i]) = inbox[i].acct
  BY <1>4, RowAccountIsAcct DEF Sound
<1>6. /\ DOMAIN plan = Incoming(inbox, cands, Match)
      /\ \A c \in DOMAIN plan : plan[c] = Entry(inbox, cands, Match, c)
  BY DEF NewPlan, PlanSync
<1>7. /\ DOMAIN plan \subseteq DOMAIN cands
      /\ \A c \in DOMAIN cands : cands[c].first \in Nat
      /\ \A i \in Filled(inbox) : inbox[i].first \in Nat
  BY <1>1, <1>2, <1>6, RowColumns DEF Incoming, Table, Candidate, Filled, FilledRow, Time
<1>8. Settled(inbox, {plan})
  BY <1>1, <1>2, PlanSettled DEF NewPlan
<1> HIDE DEF cands, plan
<1>9. ASSUME NEW c \in DOMAIN plan
      PROVE  /\ plan[c].acct = cands[c].acct
             /\ \/ /\ plan[c].kind = "refresh"
                   /\ plan[c].row \in Filled(inbox) /\ plan[c].id = inbox[plan[c].row].id
                   /\ plan[c].first = Earlier(cands[c].first, inbox[plan[c].row].first)
                   /\ \/ inbox[plan[c].row].id = c
                      \/ inbox[plan[c].row].acct = plan[c].acct
                \/ /\ plan[c].kind = "append" /\ plan[c].id = c
                   /\ plan[c].first = cands[c].first
  <2> DEFINE e == plan[c]
  <2>1. c \in Incoming(inbox, cands, Match) /\ e = Entry(inbox, cands, Match, c)
    BY <1>6
  <2>2. c \in DOMAIN cands /\ Plain(cands[c].acct)
    BY <1>3, <1>7
  <2> HIDE DEF e
  <2>3. /\ e.acct = cands[c].acct
        /\ \/ /\ e.kind = "refresh"
              /\ e.row \in Filled(inbox) /\ e.id = inbox[e.row].id
              /\ \/ e.row \in RowsOfId(inbox, c)
                 \/ RowsOfId(inbox, c) = {} /\ e.row \in RowsOfKey(inbox, Key(e.acct))
           \/ e.kind = "append" /\ e.id = c
    BY <1>1, <1>2, <2>1, EntryCases
  <2>4. \/ /\ e.kind = "refresh"
           /\ e.first = Earlier(cands[c].first, inbox[e.row].first)
        \/ e.kind = "append" /\ e.first = cands[c].first
    BY <2>1 DEF Entry
  <2>5. e.row \in RowsOfId(inbox, c) => inbox[e.row].id = c
    BY DEF RowsOfId
  <2>6. e.row \in RowsOfKey(inbox, Key(e.acct)) => inbox[e.row].acct = e.acct
    BY <1>4, <1>5, <2>2, <2>3, KeyTellsAccount DEF RowsOfKey
  <2>7. /\ e.acct = cands[c].acct
        /\ \/ /\ e.kind = "refresh"
              /\ e.row \in Filled(inbox) /\ e.id = inbox[e.row].id
              /\ e.first = Earlier(cands[c].first, inbox[e.row].first)
              /\ inbox[e.row].id = c \/ inbox[e.row].acct = e.acct
           \/ e.kind = "append" /\ e.id = c /\ e.first = cands[c].first
    BY <2>3, <2>4, <2>5, <2>6
  <2> QED BY <2>7 DEF e
<1>10. ASSUME NEW c \in DOMAIN plan, plan[c].kind = "refresh"
       PROVE  /\ plan[c].first <= inbox[plan[c].row].first
              /\ plan[c].first <= cands[c].first
              /\ inbox[plan[c].row].first <= cands[c].first
                 => plan[c].first = inbox[plan[c].row].first
  <2>1. /\ plan[c].first = Earlier(cands[c].first, inbox[plan[c].row].first)
        /\ cands[c].first \in Nat /\ inbox[plan[c].row].first \in Nat
    BY <1>7, <1>9, <1>10
  <2> QED BY <2>1 DEF Earlier
<1>11. ASSUME NEW c \in DOMAIN plan PROVE Since(db, plan[c].acct, plan[c].first, plan[c].id)
  <2>0. c \in DOMAIN cands /\ c \in DOMAIN db /\ plan[c].acct = cands[c].acct
    BY <1>3, <1>7, <1>9
  <2>1. CASE plan[c].kind = "append"
    BY <1>3, <1>9, <2>0, <2>1
  <2>2. CASE plan[c].kind = "refresh"
    <3> DEFINE i == plan[c].row
    <3>1. /\ i \in Filled(inbox) /\ plan[c].id = inbox[i].id
          /\ plan[c].first <= inbox[i].first /\ plan[c].first <= cands[c].first
          /\ inbox[i].id = c \/ inbox[i].acct = plan[c].acct
      BY <1>9, <1>10, <2>2
    <3>2. Since(db, inbox[i].acct, inbox[i].first, inbox[i].id) /\ inbox[i].first \in Nat
      BY <1>4, <1>7, <3>1
    <3>3. plan[c].first \in Nat
      BY <1>7, <1>9, <2>0, <2>2, <3>1 DEF Earlier
    <3>4. \A d \in DOMAIN db : db[d].first \in Nat
      BY <1>1 DEF TypeOK, Table, Candidate, Time
    <3> HIDE DEF i
    <3>5. CASE inbox[i].acct = plan[c].acct
      <4> SUFFICES ASSUME inbox[i].id \in DOMAIN db
                   PROVE  /\ Past(plan[c].acct, db[inbox[i].id].acct)
                          /\ plan[c].first <= db[inbox[i].id].first
                          /\ \A d \in DOMAIN db : db[d].acct = plan[c].acct
                                                  => plan[c].first <= db[d].first
        BY <3>1 DEF Since
      <4>1. /\ Past(inbox[i].acct, db[inbox[i].id].acct)
            /\ inbox[i].first <= db[inbox[i].id].first
            /\ \A d \in DOMAIN db : db[d].acct = inbox[i].acct => inbox[i].first <= db[d].first
        BY <3>2 DEF Since
      <4> QED BY <3>1, <3>2, <3>3, <3>4, <3>5, <4>1
    <3>6. CASE inbox[i].id = c
      <4>1. Since(db, cands[c].acct, cands[c].first, c) /\ cands[c].first \in Nat
        BY <1>3, <1>7, <2>0
      <4>2. /\ Past(plan[c].acct, db[c].acct) /\ cands[c].first <= db[c].first
            /\ \A d \in DOMAIN db : db[d].acct = plan[c].acct => cands[c].first <= db[d].first
        BY <2>0, <4>1 DEF Since
      <4>3. /\ plan[c].first <= db[c].first
            /\ \A d \in DOMAIN db : db[d].acct = plan[c].acct => plan[c].first <= db[d].first
        BY <2>0, <3>1, <3>3, <3>4, <4>1, <4>2
      <4> QED BY <3>1, <3>6, <4>2, <4>3 DEF Since
    <3> QED BY <3>1, <3>5, <3>6
  <2> QED BY <1>9, <2>1, <2>2
<1>12. ASSUME NEW c \in DOMAIN plan, plan[c].row \in Filled(inbox)
       PROVE  plan[c].first <= inbox[plan[c].row].first
  <2>1. plan[c].kind # "append"
    BY <1>1, <1>2, <1>12, PlanSettled DEF NewPlan, plan, cands, Appends
  <2> QED BY <1>9, <1>10, <2>1
<1>13. ASSUME NEW c \in DOMAIN plan, NEW d \in DOMAIN plan, plan[c].row = plan[d].row
       PROVE  plan[c].first = plan[d].first
  <2>0. Apart(c, plan[c], d, plan[d]) /\ Apart(d, plan[d], c, plan[c])
    BY <1>8 DEF Settled
  <2>1. CASE plan[c].kind = "append" \/ plan[d].kind = "append"
    BY <1>13, <2>0, <2>1 DEF Apart
  <2>2. CASE plan[c].kind = "refresh" /\ plan[d].kind = "refresh"
    <3> DEFINE i == plan[c].row
    <3>1. /\ i \in Filled(inbox) /\ inbox[i].first \in Nat
          /\ c \in DOMAIN cands /\ d \in DOMAIN cands
          /\ plan[c].acct = cands[c].acct /\ plan[d].acct = cands[d].acct
          /\ inbox[i].id = c \/ inbox[i].acct = plan[c].acct
          /\ inbox[i].id = d \/ inbox[i].acct = plan[d].acct
      BY <1>7, <1>9, <1>13, <2>2
    <3>2. /\ inbox[i].first <= cands[c].first => plan[c].first = inbox[i].first
          /\ inbox[i].first <= cands[d].first => plan[d].first = inbox[i].first
      BY <1>10, <1>13, <2>2
    <3> HIDE DEF i
    <3>3. ASSUME NEW x \in DOMAIN cands, inbox[i].id = x PROVE inbox[i].first <= cands[x].first
      <4>1. Since(db, inbox[i].acct, inbox[i].first, x) /\ x \in DOMAIN db
            /\ db[x].first = cands[x].first
        BY <1>3, <1>4, <3>1, <3>3
      <4> QED BY <4>1 DEF Since
    <3>4. ASSUME NEW x \in DOMAIN cands, NEW y \in DOMAIN cands, inbox[i].id = x,
                 inbox[i].acct = cands[y].acct
          PROVE  inbox[i].first <= cands[y].first
      BY <1>3, <3>1, <3>4
    <3>5. CASE c = d
      BY <3>5
    <3>6. CASE inbox[i].id = c /\ inbox[i].acct = plan[d].acct
      BY <3>1, <3>2, <3>3, <3>4, <3>6
    <3>7. CASE inbox[i].id = d /\ inbox[i].acct = plan[c].acct
      BY <3>1, <3>2, <3>3, <3>4, <3>7
    <3>8. CASE inbox[i].acct = plan[c].acct /\ inbox[i].acct = plan[d].acct
      <4>1. c = d
        BY <1>3, <3>1, <3>8 DEF UniqueAccounts
      <4> QED BY <4>1
    <3> QED BY <3>1, <3>5, <3>6, <3>7, <3>8
  <2> QED BY <1>9, <2>1, <2>2
<1> QED BY <1>11, <1>12, <1>13 DEF plan

LEMMA FirstInit == ASSUME Init PROVE FirstInv
<1>1. /\ db = [c \in {} |-> {}] /\ Plans = {} /\ Filled(inbox) = {}
      /\ \A w \in Writer : writer[w].pc # "read"
  BY DEF Init, Plans, HasPlan, Idle, Filled
<1> QED BY <1>1 DEF FirstInv, UniqueAccounts

LEMMA FirstStep ==
    ASSUME SingleWriter, ~CuratorFillsId, ObservationsResolved,
           InboxInv, IdentityInv, FirstInv, Next
    PROVE  FirstInv'
<1>0. TypeOK /\ Settled(inbox, Plans) /\ Alone /\ inbox \in Seq(Row(Time))
  BY DEF InboxInv, TypeOK
<1>1. CASE LoseDatabase
  <2>1. /\ DOMAIN db' = {} /\ inbox' = inbox /\ Plans' = {}
        /\ \A w \in Writer : writer'[w].pc # "read"
    BY <1>1 DEF LoseDatabase, Plans, HasPlan, Idle
  <2>2. \A i \in Filled(inbox) : Plain(inbox[i].acct)
    BY DEF FirstInv
  <2> QED BY <2>1, <2>2 DEF FirstInv, UniqueAccounts, Since
<1>2. ASSUME ~LoseDatabase PROVE FirstInv'
  <2>1. /\ UniqueAccounts(db')
        /\ \A c \in DOMAIN db : c \in DOMAIN db' /\ db'[c].first = db[c].first
        /\ \A c \in DOMAIN db' \ DOMAIN db : db'[c].first = clock /\ c \notin UsedIds
    BY <1>0, <1>2, CandidatesUpgrade, CandidatesStep DEF FirstInv
  <2>2. \A c \in DOMAIN db' : db'[c].first <= clock'
    <3>1. clock' = clock \/ clock' = clock + 1
      BY <1>2 DEF Next, WriterStep, Observe, Tick, FillId, Review, Promote, Begin, ReadTables,
                  CheckGrid, GrowGrid, Send, TimeOut, Abandon, Deliver, DeliverUnheard, Lose
    <3>2. clock \in Nat /\ \A c \in DOMAIN db : db[c].first \in Nat /\ db[c].first <= clock
      BY <1>0 DEF FirstInv, TypeOK, Table, Candidate, Time
    <3> QED BY <2>1, <3>1, <3>2
  <2>3. ASSUME NEW a, NEW t \in Time, NEW id \in UsedIds, Since(db, a, t, id)
        PROVE  Since(db', a, t, id)
    BY <1>0, <1>2, <2>1, <2>3, SinceStep
  <2>4. ASSUME NEW f \in Plans, NEW c \in DOMAIN f
        PROVE  /\ f[c].id \in UsedIds /\ f[c].first \in Time /\ Plain(f[c].acct)
               /\ Since(db, f[c].acct, f[c].first, f[c].id)
    <3>1. f[c] \in EntryType /\ Sits(inbox, c, f[c]) /\ c \in DOMAIN db
      BY <1>0, PlansTyped DEF Settled, Plan, Table, IdentityInv
    <3>2. f[c].id \in UsedIds
      BY <3>1 DEF Sits, EntryType, UsedIds, Filled
    <3>3. f[c].first \in Time
      BY <3>1 DEF EntryType
    <3> QED BY <3>2, <3>3 DEF FirstInv, IdentityInv
  <2>5. ASSUME NEW i \in Filled(inbox)
        PROVE  /\ inbox[i].id \in UsedIds /\ inbox[i].first \in Time /\ Plain(inbox[i].acct)
               /\ Since(db, inbox[i].acct, inbox[i].first, inbox[i].id)
    <3>1. inbox[i].id \in UsedIds /\ inbox[i].first \in Time
      BY <1>0, RowColumns DEF UsedIds, Filled, FilledRow
    <3> QED BY <3>1 DEF FirstInv
  <2>6. \A i \in Filled(inbox') :
           \/ /\ i \in Filled(inbox) /\ inbox'[i].id = inbox[i].id
              /\ inbox'[i].acct = inbox[i].acct /\ inbox'[i].first = inbox[i].first
           \/ \E f \in Plans : \E c \in DOMAIN f :
                /\ f[c].row = i /\ inbox'[i].id = f[c].id
                /\ inbox'[i].acct = f[c].acct /\ inbox'[i].first = f[c].first
    BY RowsFromPlans
  <2>7. ASSUME NEW i \in Filled(inbox')
        PROVE  Plain(inbox'[i].acct) /\ Since(db', inbox'[i].acct, inbox'[i].first, inbox'[i].id)
    <3>1. /\ inbox'[i].id \in UsedIds /\ inbox'[i].first \in Time /\ Plain(inbox'[i].acct)
          /\ Since(db, inbox'[i].acct, inbox'[i].first, inbox'[i].id)
      BY <2>4, <2>5, <2>6
    <3> QED BY <2>3, <3>1
  <2>8. ASSUME NEW w \in Writer, writer'[w].pc = "read"
        PROVE  /\ UniqueAccounts(writer'[w].cands)
               /\ \A c \in DOMAIN writer'[w].cands :
                    /\ c \in DOMAIN db' /\ db'[c].first = writer'[w].cands[c].first
                    /\ Since(db', writer'[w].cands[c].acct, writer'[w].cands[c].first, c)
               /\ \A i \in Filled(inbox') : inbox'[i].id \in DOMAIN writer'[w].cands =>
                    /\ Past(inbox'[i].acct, writer'[w].cands[inbox'[i].id].acct)
                    /\ \A d \in DOMAIN writer'[w].cands :
                         writer'[w].cands[d].acct = inbox'[i].acct
                         => inbox'[i].first <= writer'[w].cands[d].first
    <3>1. CASE writer'[w].cands = db /\ db' = db /\ inbox' = inbox
      <4>1. \A c \in DOMAIN db : db[c].first \in Time /\ db[c].first <= db[c].first
        BY <1>0 DEF TypeOK, Table, Candidate, Time
      <4>2. \A c \in DOMAIN db : Since(db, db[c].acct, db[c].first, c)
        BY <2>1, <3>1, <4>1 DEF Since, Past, UniqueAccounts
      <4>3. \A c \in DOMAIN db : Since(db', db[c].acct, db[c].first, c)
        BY <2>3, <4>1, <4>2, <3>1 DEF UsedIds
      <4>4. \A i \in Filled(inbox) : inbox[i].id \in DOMAIN db =>
               /\ Past(inbox[i].acct, db[inbox[i].id].acct)
               /\ \A d \in DOMAIN db : db[d].acct = inbox[i].acct => inbox[i].first <= db[d].first
        BY <2>5 DEF Since
      <4> QED BY <2>1, <3>1, <4>3, <4>4
    <3>2. CASE writer[w].pc = "read" /\ writer'[w].cands = writer[w].cands
      <4>1. /\ UniqueAccounts(writer[w].cands)
            /\ \A c \in DOMAIN writer[w].cands :
                 /\ c \in DOMAIN db /\ db[c].first = writer[w].cands[c].first
                 /\ Since(db, writer[w].cands[c].acct, writer[w].cands[c].first, c)
            /\ \A i \in Filled(inbox) : inbox[i].id \in DOMAIN writer[w].cands =>
                 /\ Past(inbox[i].acct, writer[w].cands[inbox[i].id].acct)
                 /\ \A d \in DOMAIN writer[w].cands :
                      writer[w].cands[d].acct = inbox[i].acct
                      => inbox[i].first <= writer[w].cands[d].first
        BY <3>2 DEF FirstInv
      <4>2. Plans = {}
        <5>1. wire = {} /\ \A v \in Writer : v = w
          BY <1>0, <3>2 DEF Alone, SingleWriter
        <5> QED BY <3>2, <5>1 DEF Plans, HasPlan
      <4>3. \A i \in Filled(inbox') :
               /\ i \in Filled(inbox) /\ inbox'[i].id = inbox[i].id
               /\ inbox'[i].acct = inbox[i].acct /\ inbox'[i].first = inbox[i].first
        BY <2>6, <4>2
      <4>4. \A c \in DOMAIN writer[w].cands :
               writer[w].cands[c].first \in Time /\ c \in UsedIds
        <5>1. Table(writer[w].cands, Candidate)
          BY <1>0, <3>2, Tasks
        <5> QED BY <4>1, <5>1 DEF Table, Candidate, UsedIds
      <4>5. \A c \in DOMAIN writer[w].cands :
               Since(db', writer[w].cands[c].acct, writer[w].cands[c].first, c)
        BY <2>3, <3>2, <4>1, <4>4
      <4> QED BY <2>1, <3>2, <4>1, <4>3, <4>5
    <3> QED BY <1>0, <2>8, <3>1, <3>2, ReadersStep
  <2> DEFINE PlanFirst(fs) ==
               /\ \A f \in fs : \A c \in DOMAIN f :
                    /\ Since(db', f[c].acct, f[c].first, f[c].id)
                    /\ f[c].row \in Filled(inbox') => f[c].first <= inbox'[f[c].row].first
               /\ \A f, g \in fs : \A c \in DOMAIN f, d \in DOMAIN g :
                    f[c].row = g[d].row => f[c].first = g[d].first
  <2>9. PlanFirst(Plans)
    <3>1. \A f \in Plans : \A c \in DOMAIN f : Since(db', f[c].acct, f[c].first, f[c].id)
      BY <2>3, <2>4
    <3>2. \A f, g \in Plans : \A c \in DOMAIN f, d \in DOMAIN g :
             f[c].row = g[d].row => f[c].first = g[d].first
      BY DEF FirstInv
    <3>3. ASSUME NEW f \in Plans, NEW c \in DOMAIN f, f[c].row \in Filled(inbox')
          PROVE  f[c].first <= inbox'[f[c].row].first
      <4>1. CASE f[c].row \in Filled(inbox) /\ inbox'[f[c].row].first = inbox[f[c].row].first
        BY <4>1 DEF FirstInv
      <4>2. CASE inbox'[f[c].row].first = f[c].first
        BY <2>4, <4>2 DEF Time
      <4> QED BY <2>6, <3>2, <3>3, <4>1, <4>2
    <3> QED BY <3>1, <3>2, <3>3
  <2>10. ASSUME \A f \in Plans' : \E g \in Plans : Sub(f, g) PROVE PlanFirst(Plans')
    BY <2>9, <2>10 DEF Sub
  <2>11. ASSUME NEW w \in Writer, ReadTables(w) PROVE PlanFirst(Plans')
    <3>1. \A f \in Plans' : f = NewPlan(w)
      <4>1. Plans = {}
        BY <2>11, PlanAlone
      <4>2. \A v \in Writer : v = w
        BY DEF SingleWriter
      <4> QED BY <1>0, <4>1, <4>2, PlansStep
    <3>2. inbox' = inbox /\ db' = db
      BY <2>11 DEF ReadTables
    <3>3. /\ \A c \in DOMAIN NewPlan(w) :
               /\ Since(db, NewPlan(w)[c].acct, NewPlan(w)[c].first, NewPlan(w)[c].id)
               /\ NewPlan(w)[c].row \in Filled(inbox) =>
                    NewPlan(w)[c].first <= inbox[NewPlan(w)[c].row].first
          /\ \A c, d \in DOMAIN NewPlan(w) :
               NewPlan(w)[c].row = NewPlan(w)[d].row
               => NewPlan(w)[c].first = NewPlan(w)[d].first
      BY <2>11, NewPlanFirst
    <3>4. \A a, t, id : Since(db, a, t, id) => Since(db', a, t, id)
      BY <3>2 DEF Since
    <3> QED BY <3>1, <3>2, <3>3, <3>4
  <2>12. PlanFirst(Plans')
    <3> HIDE DEF PlanFirst
    <3> QED BY <1>0, <2>10, <2>11, PlansStep
  <2> QED BY <2>1, <2>2, <2>7, <2>8, <2>12 DEF FirstInv
<1> QED BY <1>1, <1>2

LEMMA FirstInvariant ==
    ASSUME SingleWriter, ~CuratorFillsId, ObservationsResolved PROVE Spec => []FirstInv
<1>1. Init => FirstInv
  BY FirstInit
<1>2. InboxInv /\ IdentityInv /\ FirstInv /\ [Next]_vars => FirstInv'
  <2>1. ASSUME FirstInv, UNCHANGED vars PROVE FirstInv'
    <3>1. Plans' = Plans
      BY <2>1 DEF vars, Plans, HasPlan
    <3> QED BY <2>1, <3>1 DEF vars, FirstInv, Since
  <2> QED BY <2>1, FirstStep
<1> QED BY <1>1, <1>2, InboxInvariant, IdentityInvariant, PTL DEF Spec

\* No write, and no loss of the local database, makes a row's first_seen later, if
\* column C is the machine's.
THEOREM FirstSeenStays ==
    ASSUME SingleWriter, ~CuratorFillsId, ObservationsResolved
    PROVE  Spec => FirstSeenEarliest
<1>1. ASSUME InboxInv, FirstInv, Next, NEW i \in Filled(inbox), i \in DOMAIN inbox'
      PROVE  inbox'[i].first <= inbox[i].first
  <2>0. inbox \in Seq(Row(Time)) /\ inbox[i].first \in Nat
    BY <1>1, RowColumns DEF InboxInv, TypeOK, Filled, FilledRow, Time
  <2>1. CASE i \in Filled(inbox')
    <3>1. \/ inbox'[i].first = inbox[i].first
          \/ \E f \in Plans : \E c \in DOMAIN f : f[c].row = i /\ inbox'[i].first = f[c].first
      BY <1>1, <2>1, RowsFromPlans
    <3> QED BY <1>1, <2>0, <3>1 DEF FirstInv
  <2>2. i \in Filled(inbox')
    <3>1. CASE inbox' = inbox
      BY <1>1, <3>1
    <3>2. ASSUME NEW j \in DOMAIN inbox, FillId(j) \/ \E v \in Verdict : Review(j, v)
          PROVE  i \in Filled(inbox')
      BY <1>1, <3>2, CuratorStep DEF InboxInv
    <3>3. ASSUME NEW m \in wire, inbox' = ApplyBatch(inbox, m.batch) PROVE i \in Filled(inbox')
      <4>1. m.batch \in Plans /\ Plan(m.batch) /\ Settled(inbox, Plans)
        BY <1>1 DEF InboxInv, Plans, TypeOK, RequestOK
      <4>2. Settled(inbox, {m.batch})
        BY <4>1 DEF Settled
      <4> QED BY <1>1, <2>0, <3>3, <4>1, <4>2, RequestApplied
    <3> QED BY <1>1, <3>1, <3>2, <3>3, RowsStep
  <2> QED BY <2>1, <2>2
<1>2. ASSUME InboxInv, UNCHANGED vars, NEW i \in Filled(inbox)
      PROVE  inbox'[i].first <= inbox[i].first
  <2>1. inbox[i].first \in Nat
    BY <1>2, RowColumns DEF InboxInv, TypeOK, Filled, FilledRow, Time
  <2> QED BY <1>2, <2>1 DEF vars
<1>3. InboxInv /\ FirstInv /\ [Next]_vars =>
        [\A i \in Filled(inbox) : i \in DOMAIN inbox' => inbox'[i].first <= inbox[i].first]_vars
  BY <1>1, <1>2
<1> QED BY <1>3, InboxInvariant, FirstInvariant, PTL DEF Spec, FirstSeenEarliest
=============================================================================
