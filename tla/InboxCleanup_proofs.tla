------------------------ MODULE InboxCleanup_proofs ------------------------
(***************************************************************************)
(* A run of the cleanup script, for any accounts, decisions, number of     *)
(* tries and of faults.                                                    *)
(*                                                                         *)
(* The argument: while the script writes, nothing but its own requests     *)
(* touches the rows it has planned for, so what it read is still true of   *)
(* them.  CleanInv says that a row that stays is written as a row of its   *)
(* own account and that no two rows that stay are of one account; the      *)
(* inbox read back then has no duplicates.  FirstCovered and               *)
(* VerdictsCovered say of every row that goes that the row of its account  *)
(* that stays has its first_seen, and its verdict if it has one.  They     *)
(* need that the deletion is not done twice: the second time the numbers   *)
(* are those of other rows.                                                *)
(***************************************************************************)
EXTENDS InboxCleanup, FiniteSetTheorems, SequenceTheorems, WellFoundedInduction, TLAPS

------------------------------------------------------------------------------
(***************************************************************************)
(* Least, best, and what is left of a sequence.                            *)
(***************************************************************************)

\* Numbers have a least member, < being well-founded on them.
LEMMA LeastIsMember ==
    ASSUME NEW S \in SUBSET Nat, S # {}
    PROVE  Least(S) \in S /\ \A j \in S : Least(S) <= j
<1> DEFINE below == OpToRel(<, Nat)
<1>1. IsWellFoundedOn(below, Nat)
  BY NatLessThanWellFounded
<1>2. \A x, y \in Nat : <<y, x>> \in below <=> y < x
  BY DEF OpToRel
<1> HIDE DEF below
<1>3. PICK x \in S : \A y \in S : <<y, x>> \notin below
  BY <1>1, WFMin
<1>4. ASSUME NEW y \in S PROVE x <= y
  <2>1. ~(y < x)
    BY <1>2, <1>3
  <2>2. x \in Int /\ y \in Int
    OBVIOUS
  <2> QED BY <2>1, <2>2
<1> QED BY <1>4 DEF Least

\* Every score is a number, below one that no row can reach.
LEMMA ScoreBounds ==
    \E top \in Nat : \A r : \A i \in Nat : ScoreRow(r, i) \in Int /\ ScoreRow(r, i) <= top
<1>2. ASSUME NEW r, NEW i \in Nat
      PROVE  ScoreRow(r, i) \in Int /\ ScoreRow(r, i) <= 10000 + 5000 + 1000 + 100 + 10 + 100000
  <2> DEFINE v == Points(r.review.status = "verified", 10000)
             d == Points(r.review.status \notin {"verified", "pending", ""}, 5000)
             w == Points(r.review.reviewer # "", 1000)
             t == Points(r.review.target # "", 100)
             n == Points(r.review.action # "", 10)
  <2>1. /\ v \in Int /\ v <= 10000 /\ d \in Int /\ d <= 5000 /\ w \in Int /\ w <= 1000
        /\ t \in Int /\ t <= 100 /\ n \in Int /\ n <= 10
    <3>1. v \in Int /\ v <= 10000
      BY SMT DEF Points
    <3>2. d \in Int /\ d <= 5000
      BY SMT DEF Points
    <3>3. w \in Int /\ w <= 1000
      BY SMT DEF Points
    <3>4. t \in Int /\ t <= 100
      BY SMT DEF Points
    <3>5. n \in Int /\ n <= 10
      BY SMT DEF Points
    <3> HIDE DEF v, d, w, t, n
    <3> QED BY <3>1, <3>2, <3>3, <3>4, <3>5
  <2>2. ScoreRow(r, i) = v + d + w + t + n + (100000 - i)
    BY SMT DEF ScoreRow
  <2> HIDE DEF v, d, w, t, n
  <2> QED BY <2>1, <2>2, SMT
<1>3. 10000 + 5000 + 1000 + 100 + 10 + 100000 \in Nat
  BY SMT
<1> QED BY <1>2, <1>3, SMT

\* The best of some rows is one of them, and none has a higher score.
LEMMA BestIsMember ==
    ASSUME NEW rows, NEW S \in SUBSET Nat, S # {}
    PROVE  /\ Best(rows, S) \in S
           /\ \A j \in S : ScoreRow(rows[j], j) <= ScoreRow(rows[Best(rows, S)], Best(rows, S))
<1> DEFINE score(i) == ScoreRow(rows[i], i)
           best == {i \in S : \A j \in S : score(j) <= score(i)}
<1>1. PICK top \in Nat : \A i \in S : score(i) \in Int /\ score(i) <= top
  BY ScoreBounds
<1>2. Best(rows, S) = Least(best)
  BY DEF Best
<1> HIDE DEF score
<1>3. PICK i \in S : \A j \in S : top - score(i) <= top - score(j)
  <2> DEFINE short == {top - score(i) : i \in S}
  <2>1. short \in SUBSET Nat /\ short # {}
    <3>1. ASSUME NEW j \in S PROVE top - score(j) \in Nat
      BY <1>1
    <3> QED BY <3>1
  <2>2. Least(short) \in short /\ \A n \in short : Least(short) <= n
    <3> HIDE DEF short
    <3> QED BY <2>1, LeastIsMember
  <2> QED BY <2>2
<1>4. i \in best
  BY <1>1, <1>3
<1>5. Least(best) \in best
  <2> HIDE DEF best
  <2>1. best \in SUBSET Nat
    BY DEF best
  <2> QED BY <1>4, <2>1, LeastIsMember
<1>6. best \subseteq S /\ \A b \in best : \A j \in S : score(j) <= score(b)
  OBVIOUS
<1> HIDE DEF best
<1>7. Best(rows, S) \in S /\ \A j \in S : score(j) <= score(Best(rows, S))
  BY <1>2, <1>5, <1>6
<1> QED BY <1>7 DEF score

\* RemoveAt keeps the rows before the one removed, and the others move up by one.
LEMMA Removed ==
    ASSUME NEW S, NEW rows \in Seq(S), NEW i \in 1..Len(rows)
    PROVE  /\ RemoveAt(rows, i) \in Seq(S) /\ Len(RemoveAt(rows, i)) = Len(rows) - 1
           /\ \A j \in 1..(Len(rows) - 1) :
                RemoveAt(rows, i)[j] = rows[IF j < i THEN j ELSE j + 1]
<1> DEFINE a == SubSeq(rows, 1, i - 1)
           b == SubSeq(rows, i + 1, Len(rows))
<1>0. Len(rows) \in Nat /\ i \in Nat /\ i >= 1 /\ i <= Len(rows)
  OBVIOUS
<1>1. a \in Seq(S) /\ Len(a) = i - 1 /\ \A j \in 1..(i - 1) : a[j] = rows[j]
  BY <1>0
<1>2. b \in Seq(S) /\ Len(b) = Len(rows) - i /\ \A j \in 1..(Len(rows) - i) : b[j] = rows[i + j]
  BY <1>0
<1> HIDE DEF a, b
<1>3. /\ a \o b \in Seq(S) /\ Len(a \o b) = Len(a) + Len(b)
      /\ \A j \in 1..(Len(a) + Len(b)) : (a \o b)[j] = IF j <= Len(a) THEN a[j] ELSE b[j - Len(a)]
  BY <1>1, <1>2, ConcatProperties
<1>4. RemoveAt(rows, i) = a \o b
  BY DEF RemoveAt, a, b
<1>5. ASSUME NEW j \in 1..(Len(rows) - 1)
      PROVE  (a \o b)[j] = rows[IF j < i THEN j ELSE j + 1]
  <2>1. CASE j < i
    <3>1. j \in 1..(Len(a) + Len(b)) /\ j <= Len(a) /\ j \in 1..(i - 1)
      BY <1>0, <1>1, <1>2, <2>1
    <3> QED BY <1>1, <1>3, <2>1, <3>1
  <2>2. CASE ~(j < i)
    <3>1. /\ j - (i - 1) \in 1..(Len(rows) - i) /\ i + (j - (i - 1)) = j + 1
          /\ j \in 1..(Len(a) + Len(b)) /\ ~(j <= Len(a)) /\ j - Len(a) = j - (i - 1)
      BY <1>0, <1>1, <1>2, <2>2
    <3>2. b[j - (i - 1)] = rows[i + (j - (i - 1))]
      BY <1>2, <3>1
    <3>3. (a \o b)[j] = b[j - (i - 1)]
      BY <1>3, <3>1
    <3> QED BY <2>2, <3>1, <3>2, <3>3
  <2> QED BY <2>1, <2>2
<1>6. Len(a \o b) = Len(rows) - 1 /\ a \o b \in Seq(S)
  BY <1>0, <1>1, <1>2, <1>3
<1> QED BY <1>4, <1>5, <1>6

------------------------------------------------------------------------------
(***************************************************************************)
(* Deleting rows from the last to the first leaves the other rows, each    *)
(* once and unchanged.                                                     *)
(***************************************************************************)

\* out has the rows kept of rows, each once; row j of out was row at[j].
Renumbers(at, out, rows, kept) ==
    /\ at \in [1..Len(out) -> kept]
    /\ \A j \in 1..Len(out) : out[j] = rows[at[j]]
    /\ \A i, j \in 1..Len(out) : at[i] = at[j] => i = j
    /\ \A i \in kept : \E j \in 1..Len(out) : at[j] = i

\* Row n of out is the next that goes; the rows above it keep their numbers.
StillRenumbers(out, rows, kept, n) ==
    \E at : Renumbers(at, out, rows, kept) /\ \A j \in 1..n : at[j] = j

\* One more row removed, above all that were: the rows left still come from rows kept.
LEMMA OneDeleted ==
    ASSUME NEW T, NEW rows, NEW out \in Seq(T), NEW kept, NEW n \in 1..Len(out),
           StillRenumbers(out, rows, kept, n)
    PROVE  StillRenumbers(RemoveAt(out, n), rows, kept \ {n}, n - 1)
<1> PICK at : Renumbers(at, out, rows, kept) /\ \A j \in 1..n : at[j] = j
  BY DEF StillRenumbers
<1> DEFINE short == RemoveAt(out, n)
           from(j) == IF j < n THEN j ELSE j + 1
           to == [j \in 1..Len(short) |-> at[from(j)]]
<1>0. Len(out) \in Nat /\ n \in Nat /\ n >= 1 /\ n <= Len(out)
  OBVIOUS
<1>1. /\ short \in Seq(T) /\ Len(short) = Len(out) - 1
      /\ \A j \in 1..(Len(out) - 1) : short[j] = out[from(j)]
  BY Removed
<1> HIDE DEF short
<1>2. ASSUME NEW j \in 1..Len(short)
      PROVE  from(j) \in 1..Len(out) /\ from(j) # n
  BY <1>0, <1>1
<1>3. ASSUME NEW i \in 1..Len(short), NEW j \in 1..Len(short), from(i) = from(j) PROVE i = j
  BY <1>0, <1>1, <1>3
<1>4. ASSUME NEW i \in 1..Len(out), i # n PROVE \E j \in 1..Len(short) : from(j) = i
  <2>1. CASE i < n
    BY <1>0, <1>1, <2>1
  <2>2. CASE i > n
    <3>1. i - 1 \in 1..Len(short) /\ from(i - 1) = i
      BY <1>0, <1>1, <2>2
    <3> QED BY <3>1
  <2> QED BY <1>0, <1>4, <2>1, <2>2
<1>5. \A j \in 1..(n - 1) : from(j) = j /\ j \in 1..Len(short)
  BY <1>0, <1>1
<1> HIDE DEF from
<1>6. to \in [1..Len(short) -> kept \ {n}]
  <2>1. ASSUME NEW j \in 1..Len(short) PROVE at[from(j)] \in kept \ {n}
    <3>1. at[n] = n /\ n \in 1..Len(out)
      BY <1>0
    <3> QED BY <1>2, <3>1 DEF Renumbers
  <2> QED BY <2>1
<1>7. ASSUME NEW j \in 1..Len(short) PROVE short[j] = rows[to[j]]
  <2>1. short[j] = out[from(j)]
    BY <1>0, <1>1
  <2> QED BY <1>2, <2>1 DEF Renumbers
<1>8. ASSUME NEW i \in 1..Len(short), NEW j \in 1..Len(short), to[i] = to[j] PROVE i = j
  <2>1. from(i) = from(j)
    BY <1>2, <1>8 DEF Renumbers
  <2> QED BY <1>3, <2>1
<1>9. ASSUME NEW i \in kept \ {n} PROVE \E j \in 1..Len(short) : to[j] = i
  <2>1. PICK m \in 1..Len(out) : at[m] = i
    BY DEF Renumbers
  <2>2. PICK j \in 1..Len(short) : from(j) = m
    BY <1>4, <2>1
  <2> QED BY <2>1, <2>2
<1>10. \A j \in 1..(n - 1) : to[j] = j
  BY <1>0, <1>5
<1> HIDE DEF to
<1>11. Renumbers(to, short, rows, kept \ {n})
  BY <1>6, <1>7, <1>8, <1>9 DEF Renumbers
<1> QED BY <1>10, <1>11 DEF short, StillRenumbers

\* A property of the last of the numbers 0..n that passes to the one before holds of 0.
LEMMA DownTo ==
    ASSUME NEW n \in Nat, NEW Good, n \in Good,
           \A m \in 0..n : m # n /\ m + 1 \in Good => m \in Good
    PROVE  0..n \subseteq Good
<1> SUFFICES ASSUME NEW b \in (0..n) \ Good PROVE FALSE
  OBVIOUS
<1> DEFINE gap == {n - m : m \in (0..n) \ Good}
<1>1. gap \in SUBSET Nat /\ gap # {}
  OBVIOUS
<1>2. Least(gap) \in gap /\ \A j \in gap : Least(gap) <= j
  <2> HIDE DEF gap
  <2> QED BY <1>1, LeastIsMember
<1>3. PICK m \in (0..n) \ Good : n - m = Least(gap)
  BY <1>2
<1>4. m \in 0..n /\ m # n /\ m + 1 \in 0..n
  BY <1>3
<1>5. m + 1 \notin Good
  BY <1>3, <1>4
<1>6. n - (m + 1) \in gap
  BY <1>4, <1>5
<1>7. n - m <= n - (m + 1)
  BY <1>2, <1>3, <1>6
<1> QED BY <1>4, <1>7

\* The recursive function of DeleteInboxRows is the one its equation describes.
LEMMA DeletedRows ==
    ASSUME NEW T, NEW rows \in Seq(T), NEW S
    PROVE  \E left :
              /\ DeleteInboxRows(rows, S) = left[0]
              /\ left[Len(rows)] = rows
              /\ \A n \in 0..Len(rows) : n # Len(rows) =>
                    left[n] = IF n + 1 \in S THEN RemoveAt(left[n + 1], n + 1) ELSE left[n + 1]
<1> DEFINE L == Len(rows)
           step(f, n) == IF n = L THEN rows
                         ELSE IF n + 1 \in S THEN RemoveAt(f[n + 1], n + 1) ELSE f[n + 1]
           Good == {m \in 0..L : \E f : /\ f = [n \in m..L |-> f[n]]
                                        /\ \A n \in m..L : f[n] = step(f, n)}
           fixed == CHOOSE f : f = [n \in 0..L |-> step(f, n)]
<1>1. L \in Nat
  OBVIOUS
<1> HIDE DEF L
<1>2. L \in Good
  <2> DEFINE f == [n \in L..L |-> rows]
  <2>1. \A n \in L..L : n = L
    BY <1>1
  <2>2. f = [n \in L..L |-> f[n]] /\ \A n \in L..L : f[n] = step(f, n)
    BY <2>1
  <2> HIDE DEF f
  <2> QED BY <1>1, <2>2
<1>3. ASSUME NEW m \in 0..L, m # L, m + 1 \in Good PROVE m \in Good
  <2>1. PICK g : /\ g = [n \in (m + 1)..L |-> g[n]]
                 /\ \A n \in (m + 1)..L : g[n] = step(g, n)
    BY <1>3
  <2> DEFINE f == [n \in m..L |-> IF n = m THEN step(g, m) ELSE g[n]]
  <2>2. \A n \in (m + 1)..L : n \in m..L /\ n # m
    BY <1>1
  <2>3. \A n \in (m + 1)..L : f[n] = g[n]
    BY <2>2
  <2>4. ASSUME NEW n \in m..L PROVE f[n] = step(f, n)
    <3>1. CASE n = L
      <4>1. L \in (m + 1)..L
        BY <1>1, <1>3
      <4>2. g[L] = rows
        BY <2>1, <4>1
      <4> QED BY <2>3, <3>1, <4>1, <4>2
    <3>2. CASE n # L
      <4>1. n + 1 \in (m + 1)..L
        BY <1>1, <1>3, <3>2
      <4>2. f[n + 1] = g[n + 1]
        BY <2>3, <4>1
      <4>3. step(f, n) = step(g, n)
        BY <4>2
      <4>4. CASE n = m
        BY <4>3, <4>4
      <4>5. CASE n # m
        <5>1. n \in (m + 1)..L
          BY <1>1, <4>5
        <5> QED BY <2>1, <2>3, <4>3, <5>1
      <4> QED BY <4>4, <4>5
    <3> QED BY <3>1, <3>2
  <2>5. f = [n \in m..L |-> f[n]]
    OBVIOUS
  <2> HIDE DEF f, step
  <2> QED BY <2>4, <2>5
<1>4. 0 \in Good
  <2> HIDE DEF Good
  <2>1. 0..L \subseteq Good
    BY <1>1, <1>2, <1>3, DownTo
  <2> QED BY <1>1, <2>1
<1>5. PICK f : f = [n \in 0..L |-> f[n]] /\ \A n \in 0..L : f[n] = step(f, n)
  BY <1>4
<1>6. f = [n \in 0..L |-> step(f, n)]
  BY <1>5
<1>7. fixed = [n \in 0..L |-> step(fixed, n)]
  BY <1>6
<1>8. DeleteInboxRows(rows, S) = fixed[0]
  BY DEF DeleteInboxRows, L
<1> HIDE DEF fixed
<1>9. \A n \in 0..L : fixed[n] = step(fixed, n)
  <2> HIDE DEF step
  <2> QED BY <1>7
<1>10. fixed[L] = rows /\ \A n \in 0..L : n # L =>
          fixed[n] = IF n + 1 \in S THEN RemoveAt(fixed[n + 1], n + 1) ELSE fixed[n + 1]
  BY <1>1, <1>9
<1> QED BY <1>8, <1>10 DEF L

\* The same for rows of the inbox: no other row is left, and none is lost.
LEMMA OthersLeft ==
    ASSUME NEW T, NEW rows \in Seq(T), NEW S
    PROVE  /\ DeleteInboxRows(rows, S) \in Seq(T)
           /\ Len(DeleteInboxRows(rows, S)) <= Len(rows)
           /\ \E at : Renumbers(at, DeleteInboxRows(rows, S), rows, DOMAIN rows \ S)
<1> DEFINE L == Len(rows)
           kept(n) == {i \in 1..L : i <= n \/ i \notin S}
<1>1. PICK left : /\ DeleteInboxRows(rows, S) = left[0]
                  /\ left[L] = rows
                  /\ \A n \in 0..L : n # L =>
                        left[n] = IF n + 1 \in S THEN RemoveAt(left[n + 1], n + 1)
                                  ELSE left[n + 1]
  BY DeletedRows
<1>2. L \in Nat /\ DOMAIN rows = 1..L
  OBVIOUS
<1> DEFINE Good == {n \in 0..L :
                      /\ left[n] \in Seq(T) /\ n <= Len(left[n]) /\ Len(left[n]) <= L
                      /\ StillRenumbers(left[n], rows, kept(n), n)}
<1>3. L \in Good
  <2> DEFINE at == [j \in 1..L |-> j]
  <2>1. kept(L) = 1..L
    BY <1>2
  <2>2. Renumbers(at, rows, rows, 1..L)
    BY <1>2 DEF Renumbers
  <2>3. \A j \in 1..L : at[j] = j
    OBVIOUS
  <2>4. StillRenumbers(left[L], rows, kept(L), L)
    <3>1. Renumbers(at, left[L], rows, kept(L))
      BY <1>1, <2>1, <2>2
    <3> HIDE DEF at
    <3> QED BY <2>3, <3>1 DEF StillRenumbers
  <2>5. L \in 0..L /\ left[L] \in Seq(T) /\ L <= Len(left[L]) /\ Len(left[L]) <= L
    <3>1. Len(left[L]) = L
      BY <1>1
    <3>2. left[L] \in Seq(T)
      BY <1>1
    <3> HIDE DEF L
    <3> QED BY <1>2, <3>1, <3>2
  <2> HIDE DEF at, kept, L
  <2> QED BY <2>4, <2>5
<1> HIDE DEF L
<1>4. ASSUME NEW m \in 0..L, m # L, m + 1 \in Good PROVE m \in Good
  <2>0. m \in Nat /\ m + 1 \in 1..L
    BY <1>2, <1>4
  <2> DEFINE l == left[m + 1]
  <2>1. /\ l \in Seq(T) /\ m + 1 <= Len(l) /\ Len(l) <= L /\ Len(l) \in Nat
    BY <1>4
  <2>2. StillRenumbers(l, rows, kept(m + 1), m + 1)
    BY <1>4
  <2>3. left[m] = IF m + 1 \in S THEN RemoveAt(l, m + 1) ELSE l
    BY <1>1, <1>4
  <2> HIDE DEF l
  <2>4. CASE m + 1 \in S
    <3>1. left[m] = RemoveAt(l, m + 1)
      BY <2>3, <2>4
    <3>2. m + 1 \in 1..Len(l)
      BY <2>0, <2>1
    <3>3. left[m] \in Seq(T) /\ Len(left[m]) = Len(l) - 1
      BY <2>1, <3>1, <3>2, Removed
    <3>4. kept(m) = kept(m + 1) \ {m + 1}
      BY <2>0, <2>4
    <3> HIDE DEF kept
    <3>5. StillRenumbers(RemoveAt(l, m + 1), rows, kept(m + 1) \ {m + 1}, (m + 1) - 1)
      BY <2>1, <2>2, <3>2, OneDeleted
    <3>6. StillRenumbers(left[m], rows, kept(m), m)
      BY <2>0, <3>1, <3>4, <3>5
    <3>8. m <= Len(left[m]) /\ Len(left[m]) <= L
      BY <1>2, <2>0, <2>1, <3>3
    <3> QED BY <3>3, <3>6, <3>8
  <2>5. CASE m + 1 \notin S
    <3>1. left[m] = l
      BY <2>3, <2>5
    <3>2. kept(m) = kept(m + 1)
      BY <2>0, <2>5
    <3> HIDE DEF kept
    <3>3. PICK at : Renumbers(at, l, rows, kept(m + 1)) /\ \A j \in 1..(m + 1) : at[j] = j
      BY <2>2 DEF StillRenumbers
    <3>4. StillRenumbers(left[m], rows, kept(m), m)
      <4>1. \A j \in 1..m : at[j] = j
        BY <2>0, <3>3
      <4> QED BY <3>1, <3>2, <3>3, <4>1 DEF StillRenumbers
    <3>5. left[m] \in Seq(T) /\ m <= Len(left[m]) /\ Len(left[m]) <= L
      BY <1>2, <2>0, <2>1, <3>1
    <3> QED BY <3>4, <3>5
  <2> QED BY <2>4, <2>5
<1>5. 0 \in Good
  <2> HIDE DEF Good
  <2>1. 0..L \subseteq Good
    BY <1>2, <1>3, <1>4, DownTo
  <2> QED BY <1>2, <2>1
<1>6. kept(0) = DOMAIN rows \ S
  BY <1>2
<1> HIDE DEF kept
<1>7. left[0] \in Seq(T) /\ Len(left[0]) <= L /\ \E at : Renumbers(at, left[0], rows, kept(0))
  BY <1>5 DEF StillRenumbers
<1> QED BY <1>1, <1>6, <1>7 DEF L

------------------------------------------------------------------------------
(***************************************************************************)
(* The plan: the row of each key that stays, what is merged into it, and   *)
(* the rows that go.                                                       *)
(***************************************************************************)

\* The columns of a row.
LEMMA Columns ==
    ASSUME NEW r \in InboxRow
    PROVE  /\ r.id # NoId /\ r.id \in CandidateId /\ r.acct \in Account
           /\ r.acct.pid \in Channel \cup {NoPid}
           /\ r.first \in 0..MaxFirst /\ r.first \in Nat
           /\ \A c \in ReviewColumn :
                 r.review[c] \in STRING /\ \E e \in Decision : r.review[c] = e[c]
<1>1. /\ r.id \in CandidateId /\ r.acct \in Account /\ r.first \in 0..MaxFirst
      /\ r.review \in EnteredReview
  BY DEF InboxRow
<1>2. r.acct.pid \in Channel \cup {NoPid}
  BY <1>1 DEF Account
<1>3. \A c \in ReviewColumn :
         r.review[c] \in STRING /\ \E e \in Decision : r.review[c] = e[c]
  BY <1>1 DEF EnteredReview
<1>4. r.id # NoId
  BY <1>1, CandidateIdAssumption
<1>5. r.first \in Nat
  BY <1>1
<1> QED BY <1>1, <1>2, <1>3, <1>4, <1>5

\* No row of the inbox is empty, so the rows of a key are the rows with that key.
LEMMA RowsOfOneKey ==
    ASSUME NEW rows \in Seq(InboxRow)
    PROVE  /\ Filled(rows) = DOMAIN rows /\ DOMAIN rows = 1..Len(rows) /\ Len(rows) \in Nat
           /\ \A i \in DOMAIN rows : rows[i] \in InboxRow
           /\ \A k : /\ RowsOfKey(rows, k) = {i \in DOMAIN rows : KeyOf(rows[i]) = k}
                    /\ RowsOfKey(rows, k) \in SUBSET Nat /\ IsFiniteSet(RowsOfKey(rows, k))
<1>1. DOMAIN rows = 1..Len(rows) /\ Len(rows) \in Nat
  OBVIOUS
<1>2. ASSUME NEW i \in DOMAIN rows PROVE rows[i] \in InboxRow /\ rows[i].id # NoId
  <2>1. rows[i] \in InboxRow
    OBVIOUS
  <2> QED BY <2>1, Columns
<1>3. Filled(rows) = DOMAIN rows
  BY <1>2 DEF Filled
<1>4. ASSUME NEW k
      PROVE  RowsOfKey(rows, k) = {i \in DOMAIN rows : KeyOf(rows[i]) = k}
  BY <1>3 DEF RowsOfKey, KeyOf
<1>5. ASSUME NEW k
      PROVE  RowsOfKey(rows, k) \in SUBSET Nat /\ IsFiniteSet(RowsOfKey(rows, k))
  <2>1. RowsOfKey(rows, k) \subseteq 1..Len(rows)
    BY <1>1, <1>4
  <2>2. IsFiniteSet(1..Len(rows))
    BY <1>1, FS_Interval
  <2>3. 1..Len(rows) \subseteq Nat
    BY <1>1
  <2> QED BY <2>1, <2>2, <2>3, FS_Subset
<1> QED BY <1>1, <1>2, <1>3, <1>4, <1>5

\* A key of two rows is a duplicate key; a duplicate key has a row.
LEMMA Duplicates ==
    ASSUME NEW rows \in Seq(InboxRow)
    PROVE  /\ \A i, j \in DOMAIN rows :
                 KeyOf(rows[i]) = KeyOf(rows[j]) /\ i # j => KeyOf(rows[i]) \in DuplicateKeys(rows)
           /\ \A k \in DuplicateKeys(rows) : RowsOfKey(rows, k) # {}
           /\ (\A i, j \in DOMAIN rows : KeyOf(rows[i]) = KeyOf(rows[j]) => i = j)
                 => DuplicateKeys(rows) = {}
<1>1. ASSUME NEW i \in DOMAIN rows, NEW j \in DOMAIN rows, KeyOf(rows[i]) = KeyOf(rows[j]), i # j
      PROVE  KeyOf(rows[i]) \in DuplicateKeys(rows)
  <2> DEFINE k == KeyOf(rows[i])
  <2>1. {i, j} \subseteq RowsOfKey(rows, k) /\ IsFiniteSet(RowsOfKey(rows, k))
    BY <1>1, RowsOfOneKey
  <2>2. Cardinality({i, j}) = 2
    <3>1. IsFiniteSet({i}) /\ Cardinality({i}) = 1
      BY FS_Singleton
    <3>2. Cardinality({i} \cup {j}) = IF j \in {i} THEN Cardinality({i}) ELSE Cardinality({i}) + 1
      BY <3>1, FS_AddElement
    <3>3. Cardinality({i} \cup {j}) = 1 + 1
      BY <1>1, <3>1, <3>2
    <3>4. {i} \cup {j} = {i, j}
      OBVIOUS
    <3>5. Cardinality({i, j}) = 1 + 1
      BY <3>3, <3>4
    <3> QED BY <3>5
  <2>3. /\ Cardinality({i, j}) <= Cardinality(RowsOfKey(rows, k))
        /\ Cardinality(RowsOfKey(rows, k)) \in Nat
    BY <2>1, FS_Subset, FS_CardinalityType
  <2>4. Cardinality(RowsOfKey(rows, k)) > 1
    BY <2>2, <2>3
  <2>5. i \in Filled(rows)
    BY RowsOfOneKey
  <2> QED BY <2>4, <2>5 DEF DuplicateKeys, KeyOf
<1>2. ASSUME NEW k \in DuplicateKeys(rows) PROVE RowsOfKey(rows, k) # {}
  <2>1. PICK i \in Filled(rows) : k = Key(RowAccount(rows[i]))
    BY DEF DuplicateKeys
  <2> QED BY <2>1 DEF RowsOfKey
<1>3. ASSUME \A i, j \in DOMAIN rows : KeyOf(rows[i]) = KeyOf(rows[j]) => i = j,
             NEW k \in DuplicateKeys(rows)
      PROVE  FALSE
  <2>1. Cardinality(RowsOfKey(rows, k)) > 1
    BY DEF DuplicateKeys
  <2>2. PICK i : i \in RowsOfKey(rows, k)
    BY <1>2
  <2>3. RowsOfKey(rows, k) = {i}
    BY <1>3, <2>2, RowsOfOneKey
  <2>4. Cardinality({i}) = 1
    BY FS_Singleton
  <2> QED BY <2>1, <2>3, <2>4
<1> QED BY <1>1, <1>2, <1>3

\* The ID an account is known by: its own, or the one in its URL.
KnownId(a) == IF a.pid = NoPid THEN Normalized(a.url).pid ELSE a.pid

\* The key of a row is that of the ID its account is known by, else that of its URL.
LEMMA KeyByKnownId ==
    ASSUME NEW r, r.acct \in Account
    PROVE  KeyOf(r) = IF KnownId(r.acct) # NoPid THEN IdKey(r.acct.platform, KnownId(r.acct))
                      ELSE UrlKey(Normalized(r.acct.url).platform, Normalized(r.acct.url).url)
<1> DEFINE a == r.acct
           b == [a EXCEPT !.pid = IF @ = NoPid THEN Normalized(a.url).pid ELSE @]
<1>1. a = [platform |-> a.platform, pid |-> a.pid, url |-> a.url]
  BY DEF Account
<1>2. b.platform = a.platform /\ b.url = a.url /\ b.pid = KnownId(a)
  BY <1>1 DEF KnownId
<1>3. KeyOf(r) = Key(b)
  BY DEF KeyOf, RowAccount
<1> HIDE DEF b
<1>4. KnownId(a) = NoPid => Normalized(a.url).pid = NoPid
  BY DEF KnownId
<1> QED BY <1>2, <1>3, <1>4 DEF Key

\* The row that stays is a row of the key.
LEMMA SurvivorIsBest ==
    ASSUME NEW rows \in Seq(InboxRow), NEW k, RowsOfKey(rows, k) # {}
    PROVE  /\ Survivor(rows, k) \in RowsOfKey(rows, k)
           /\ Survivor(rows, k) \in DOMAIN rows /\ KeyOf(rows[Survivor(rows, k)]) = k
<1>1. Survivor(rows, k) \in RowsOfKey(rows, k)
  BY RowsOfOneKey, BestIsMember DEF Survivor
<1> QED BY <1>1, RowsOfOneKey

\* What the survivor lacks it gets from a row of its key, so its key stays.
LEMMA MergedRow ==
    ASSUME NEW rows \in Seq(InboxRow), NEW k, RowsOfKey(rows, k) # {}
    PROVE  /\ Merged(rows, k) \in InboxRow
           /\ KeyOf(Merged(rows, k)) = k
           /\ \A i \in RowsOfKey(rows, k) : Merged(rows, k).first <= rows[i].first
           /\ \A c \in ReviewColumn : Merged(rows, k).review[c] = FilledColumn(rows, k, c)
<1> DEFINE s == rows[Survivor(rows, k)]
           pid == FilledPid(rows, k)
           acct == [s.acct EXCEPT !.pid = pid]
           first == Earliest(rows, k)
           review == [c \in ReviewColumn |-> FilledColumn(rows, k, c)]
<1>1. s \in InboxRow /\ KeyOf(s) = k
  BY SurvivorIsBest
<1>2. Merged(rows, k) = [id |-> s.id, acct |-> acct, first |-> first, review |-> review]
  BY DEF Merged
<1>3. /\ pid \in Channel \cup {NoPid}
      /\ s.acct.pid # NoPid => pid # NoPid
      /\ pid # NoPid => \E i \in RowsOfKey(rows, k) : rows[i].acct.pid = pid
  <2> DEFINE having == {i \in RowsOfKey(rows, k) : rows[i].acct.pid # NoPid}
  <2>1. having # {} => Best(rows, having) \in having
    <3>1. having \in SUBSET Nat
      BY RowsOfOneKey
    <3> HIDE DEF having
    <3> QED BY <3>1, BestIsMember
  <2>2. pid = IF having = {} THEN NoPid ELSE rows[Best(rows, having)].acct.pid
    BY DEF FilledPid
  <2>3. s.acct.pid # NoPid => having # {}
    BY SurvivorIsBest
  <2>4. ASSUME NEW i \in RowsOfKey(rows, k) PROVE rows[i].acct.pid \in Channel \cup {NoPid}
    <3>1. rows[i] \in InboxRow
      BY RowsOfOneKey
    <3> QED BY <3>1, Columns
  <2>5. \A i \in having : i \in RowsOfKey(rows, k) /\ rows[i].acct.pid # NoPid
    OBVIOUS
  <2> HIDE DEF having, pid
  <2> QED BY <2>1, <2>2, <2>3, <2>4, <2>5
<1>4. /\ first \in 0..MaxFirst
      /\ \A i \in RowsOfKey(rows, k) : first <= rows[i].first
  <2> DEFINE times == {rows[i].first : i \in RowsOfKey(rows, k)}
  <2>1. ASSUME NEW i \in RowsOfKey(rows, k) PROVE rows[i].first \in 0..MaxFirst
    <3>1. rows[i] \in InboxRow
      BY RowsOfOneKey
    <3> QED BY <3>1, Columns
  <2>2. times \in SUBSET Nat /\ times \subseteq 0..MaxFirst /\ times # {}
    BY <2>1
  <2>3. Least(times) \in times /\ \A t \in times : Least(times) <= t
    <3> HIDE DEF times
    <3> QED BY <2>2, LeastIsMember
  <2> QED BY <2>2, <2>3 DEF Earliest
<1>5. review \in EnteredReview
  <2>1. ASSUME NEW c \in ReviewColumn
        PROVE  FilledColumn(rows, k, c) \in STRING /\ \E e \in Decision : FilledColumn(rows, k, c) = e[c]
    <3> DEFINE having == {i \in RowsOfKey(rows, k) : rows[i].review[c] # ""}
    <3>1. ASSUME NEW i \in RowsOfKey(rows, k)
          PROVE  rows[i].review[c] \in STRING /\ \E e \in Decision : rows[i].review[c] = e[c]
      <4>1. rows[i] \in InboxRow
        BY RowsOfOneKey
      <4> QED BY <4>1, Columns
    <3>2. \E i \in RowsOfKey(rows, k) : FilledColumn(rows, k, c) = rows[i].review[c]
      <4>1. CASE having = {}
        BY <4>1 DEF FilledColumn
      <4>2. CASE having # {}
        <5>1. Best(rows, having) \in having
          <6>1. having \in SUBSET Nat
            BY RowsOfOneKey
          <6> HIDE DEF having
          <6> QED BY <4>2, <6>1, BestIsMember
        <5>2. Best(rows, having) \in RowsOfKey(rows, k)
          BY <5>1
        <5>3. FilledColumn(rows, k, c) = rows[Best(rows, having)].review[c]
          BY <4>2 DEF FilledColumn
        <5> QED BY <5>2, <5>3
      <4> QED BY <4>1, <4>2
    <3> QED BY <3>1, <3>2
  <2> QED BY <2>1 DEF EnteredReview
<1>6. acct = [platform |-> s.acct.platform, pid |-> pid, url |-> s.acct.url] /\ acct \in Account
  <2>1. s.acct \in Account
    BY <1>1, Columns
  <2> HIDE DEF s, pid
  <2> QED BY <1>3, <2>1 DEF Account
<1>7. Merged(rows, k) \in InboxRow
  <2>1. s.id \in CandidateId
    BY <1>1, Columns
  <2> HIDE DEF s, acct, first, review
  <2> QED BY <1>2, <1>4, <1>5, <1>6, <2>1 DEF InboxRow
<1>8. KeyOf(Merged(rows, k)) = k
  <2> DEFINE m == Merged(rows, k)
  <2>1. m.acct = acct
    <3> HIDE DEF s, acct, first, review
    <3> QED BY <1>2
  <2>2. s.acct \in Account /\ KeyOf(s) = k
    BY <1>1, Columns
  <2> HIDE DEF m, s, acct, pid
  <2>3. m.acct.platform = s.acct.platform /\ m.acct.url = s.acct.url /\ m.acct.pid = pid
    BY <1>6, <2>1
  <2>4. KeyOf(m) = IF KnownId(m.acct) # NoPid THEN IdKey(m.acct.platform, KnownId(m.acct))
                   ELSE UrlKey(Normalized(m.acct.url).platform, Normalized(m.acct.url).url)
    BY <1>6, <2>1, KeyByKnownId
  <2>5. k = IF KnownId(s.acct) # NoPid THEN IdKey(s.acct.platform, KnownId(s.acct))
            ELSE UrlKey(Normalized(s.acct.url).platform, Normalized(s.acct.url).url)
    BY <2>2, KeyByKnownId
  <2>6. CASE pid = NoPid
    <3>1. KnownId(m.acct) = KnownId(s.acct)
      BY <1>3, <2>3, <2>6 DEF KnownId
    <3> QED BY <2>3, <2>4, <2>5, <3>1 DEF m
  <2>7. CASE pid # NoPid
    <3>1. PICK i \in RowsOfKey(rows, k) : rows[i].acct.pid = pid
      BY <1>3, <2>7
    <3>2. rows[i] \in InboxRow /\ KeyOf(rows[i]) = k
      BY RowsOfOneKey
    <3>3. rows[i].acct \in Account
      BY <3>2, Columns
    <3>4. KnownId(rows[i].acct) = pid
      BY <2>7, <3>1 DEF KnownId
    <3>5. k = IdKey(rows[i].acct.platform, pid)
      BY <2>7, <3>2, <3>3, <3>4, KeyByKnownId
    <3>6. k = IdKey(s.acct.platform, pid)
      <4>1. KnownId(s.acct) # NoPid
        BY <2>5, <3>5 DEF IdKey, UrlKey
      <4>2. k = IdKey(s.acct.platform, KnownId(s.acct))
        BY <2>5, <4>1
      <4> QED BY <3>5, <4>2 DEF IdKey
    <3>7. KnownId(m.acct) = pid
      BY <2>3, <2>7 DEF KnownId
    <3> QED BY <2>3, <2>4, <2>7, <3>6, <3>7 DEF m
  <2> QED BY <2>6, <2>7
<1>9. \A c \in ReviewColumn : Merged(rows, k).review[c] = FilledColumn(rows, k, c)
  <2>1. Merged(rows, k).review = review
    <3> HIDE DEF s, acct, first, review
    <3> QED BY <1>2
  <2> QED BY <2>1
<1>10. Merged(rows, k).first = first
  <2> HIDE DEF s, acct, first, review
  <2> QED BY <1>2
<1> QED BY <1>4, <1>7, <1>8, <1>9, <1>10

\* What the script has read when it begins to write.
LEMMA Planned ==
    ASSUME NEW rows \in Seq(InboxRow)
    PROVE  /\ Updates(rows) = [i \in DOMAIN Updates(rows) |-> Updates(rows)[i]]
           /\ DOMAIN Updates(rows) \cup AllLosers(rows) \subseteq DOMAIN rows
           /\ DOMAIN Updates(rows) \cap AllLosers(rows) = {}
           /\ \A i \in DOMAIN Updates(rows) :
                 /\ Updates(rows)[i] \in InboxRow
                 /\ KeyOf(Updates(rows)[i]) = KeyOf(rows[i])
                 /\ Updates(rows)[i] = Merged(rows, KeyOf(rows[i]))
                 /\ i = Survivor(rows, KeyOf(rows[i])) /\ KeyOf(rows[i]) \in DuplicateKeys(rows)
           /\ \A i, j \in DOMAIN rows \ AllLosers(rows) : KeyOf(rows[i]) = KeyOf(rows[j]) => i = j
           /\ \A l \in AllLosers(rows) :
                 /\ l \in RowsOfKey(rows, KeyOf(rows[l]))
                 /\ Survivor(rows, KeyOf(rows[l])) \in DOMAIN Updates(rows)
                 /\ KeyOf(rows[Survivor(rows, KeyOf(rows[l]))]) = KeyOf(rows[l])
<1> DEFINE U == Updates(rows)
           X == AllLosers(rows)
           D == DuplicateKeys(rows)
           stays(k) == Survivor(rows, k)
<1>1. DOMAIN U = {stays(k) : k \in D}
  BY DEF Updates
<1>2. \A i \in DOMAIN U : U[i] = Merged(rows, Key(RowAccount(rows[i])))
  BY DEF Updates
<1>3. U = [i \in DOMAIN U |-> U[i]]
  BY DEF Updates
<1>4. ASSUME NEW k \in D
      PROVE  stays(k) \in DOMAIN rows /\ KeyOf(rows[stays(k)]) = k /\ RowsOfKey(rows, k) # {}
  BY Duplicates, SurvivorIsBest
<1>5. ASSUME NEW i \in DOMAIN U
      PROVE  /\ i \in DOMAIN rows /\ KeyOf(rows[i]) \in D /\ i = stays(KeyOf(rows[i]))
             /\ U[i] = Merged(rows, KeyOf(rows[i]))
             /\ U[i] \in InboxRow /\ KeyOf(U[i]) = KeyOf(rows[i])
  <2>1. PICK k \in D : i = stays(k)
    BY <1>1
  <2>2. i \in DOMAIN rows /\ KeyOf(rows[i]) = k /\ RowsOfKey(rows, k) # {}
    BY <1>4, <2>1
  <2>3. U[i] = Merged(rows, k)
    BY <1>2, <2>2 DEF KeyOf
  <2>4. Merged(rows, k) \in InboxRow /\ KeyOf(Merged(rows, k)) = k
    BY <2>2, MergedRow
  <2> HIDE DEF U
  <2> QED BY <2>1, <2>2, <2>3, <2>4
<1>6. ASSUME NEW l \in X
      PROVE  /\ l \in DOMAIN rows /\ KeyOf(rows[l]) \in D /\ l # stays(KeyOf(rows[l]))
             /\ l \in RowsOfKey(rows, KeyOf(rows[l]))
  <2>1. PICK k \in D : l \in Losers(rows, k)
    BY DEF AllLosers
  <2>2. l \in RowsOfKey(rows, k) /\ l # stays(k)
    BY <2>1 DEF Losers
  <2>3. l \in DOMAIN rows /\ KeyOf(rows[l]) = k
    BY <2>2, RowsOfOneKey
  <2> QED BY <2>2, <2>3
<1>7. ASSUME NEW i \in DOMAIN rows, KeyOf(rows[i]) \in D, i # stays(KeyOf(rows[i]))
      PROVE  i \in X
  <2>1. i \in RowsOfKey(rows, KeyOf(rows[i]))
    BY RowsOfOneKey
  <2> QED BY <1>7, <2>1 DEF AllLosers, Losers
<1> HIDE DEF U, X, D, stays
<1>8. DOMAIN U \cap X = {}
  <2> SUFFICES ASSUME NEW i \in DOMAIN U, i \in X PROVE FALSE
    OBVIOUS
  <2> QED BY <1>5, <1>6
<1>9. ASSUME NEW i \in DOMAIN rows \ X, NEW j \in DOMAIN rows \ X,
             KeyOf(rows[i]) = KeyOf(rows[j]), i # j
      PROVE  FALSE
  <2>1. KeyOf(rows[i]) \in D
    BY <1>9, Duplicates DEF D
  <2>2. i = stays(KeyOf(rows[i])) /\ j = stays(KeyOf(rows[i]))
    BY <1>7, <1>9, <2>1
  <2> QED BY <1>9, <2>2
<1>10. ASSUME NEW l \in X
       PROVE  stays(KeyOf(rows[l])) \in DOMAIN U /\ KeyOf(rows[stays(KeyOf(rows[l]))]) = KeyOf(rows[l])
  BY <1>1, <1>4, <1>6
<1>11. DOMAIN U \cup X \subseteq DOMAIN rows
  BY <1>5, <1>6
<1>12. \A i, j \in DOMAIN rows \ X : KeyOf(rows[i]) = KeyOf(rows[j]) => i = j
  BY <1>9
<1> QED BY <1>3, <1>5, <1>6, <1>8, <1>10, <1>11, <1>12 DEF U, X, D, stays

------------------------------------------------------------------------------
(***************************************************************************)
(* The inductive invariants.                                               *)
(***************************************************************************)

Writing == script.pc \in {"update", "delete"}

\* A row that stays is written as a row of the same account.
UpdatesKeepKeys ==
    script.pc = "update" =>
       \A u \in DOMAIN script.updates :
          u \in DOMAIN inbox /\ KeyOf(script.updates[u]) = KeyOf(inbox[u])

\* Of the rows that do not go no two are of one account.
KeptApart ==
    Writing => \A i, j \in DOMAIN inbox \ script.losers : KeyOf(inbox[i]) = KeyOf(inbox[j]) => i = j

AllApart ==
    script.pc = "verify" => \A i, j \in DOMAIN inbox : KeyOf(inbox[i]) = KeyOf(inbox[j]) => i = j

CleanInv == TypeOK /\ UpdatesKeepKeys /\ KeptApart /\ AllApart

\* The first_seen row u has, or gets when the merged rows are written.
MergedFirst(u) == IF script.pc = "update" THEN script.updates[u].first ELSE inbox[u].first

\* Every row that goes has a row of its account that stays, first seen no later.
FirstCovered ==
    Writing =>
       /\ DOMAIN script.updates \cup script.losers \subseteq DOMAIN inbox
       /\ \A u \in DOMAIN script.updates : MergedFirst(u) <= inbox[u].first
       /\ \A l \in script.losers : \E u \in DOMAIN script.updates :
             KeyOf(inbox[u]) = KeyOf(inbox[l]) /\ MergedFirst(u) <= inbox[l].first

\* m is verified exactly if r is, and has everything that was entered in r.
Confirms(r, m) == (Verified(r) <=> Verified(m)) /\ Extends(m, r)

\* Every column of m is that of one of the rows S with m's key.
Gathered(rows, S, m) ==
    \A c \in ReviewColumn :
       \E i \in S : KeyOf(rows[i]) = KeyOf(m) /\ rows[i].review[c] = m.review[c]

VerdictsCovered ==
    /\ script.pc = "update" =>
          \A u \in DOMAIN script.updates :
             /\ Confirms(inbox[u], script.updates[u])
             /\ Gathered(inbox, DOMAIN script.updates \cup script.losers, script.updates[u])
    /\ Writing =>
          \A l \in script.losers : Verified(inbox[l]) =>
             \E u \in DOMAIN script.updates :
                KeyOf(inbox[u]) = KeyOf(inbox[l]) /\ Verified(inbox[u])

------------------------------------------------------------------------------
(***************************************************************************)
(* What a run of the script is made of, and what its requests do.          *)
(***************************************************************************)

Run(s) ==
    /\ s = [pc |-> s.pc, updates |-> s.updates, losers |-> s.losers, tries |-> s.tries]
    /\ s.pc \in {"update", "delete", "verify"}
    /\ s.updates = [i \in DOMAIN s.updates |-> s.updates[i]]
    /\ \A i \in DOMAIN s.updates : s.updates[i] \in InboxRow
    /\ DOMAIN s.updates \cup s.losers \subseteq 1..MaxRows
    /\ DOMAIN s.updates \cap s.losers = {}
    /\ s.tries \in 0..(Attempts - 1)

\* TypeOK, with a run under its name.
LEMMA TypeParts ==
    TypeOK <=> /\ inbox \in Seq(InboxRow) /\ Len(inbox) <= MaxRows
               /\ faults \in 0..MaxFaults
               /\ script = Off \/ Run(script)
BY Zenon DEF TypeOK, Run

\* A request is answered: the run goes on with the same plan.
LEMMA RunGoesOn ==
    ASSUME NEW s, Run(s), NEW q \in {"delete", "verify"}
    PROVE  /\ Run([s EXCEPT !.pc = q, !.tries = 0])
           /\ [s EXCEPT !.pc = q, !.tries = 0].pc = q
           /\ [s EXCEPT !.pc = q, !.tries = 0].updates = s.updates
           /\ [s EXCEPT !.pc = q, !.tries = 0].losers = s.losers
<1> DEFINE t == [s EXCEPT !.pc = q, !.tries = 0]
<1>1. t = [pc |-> q, updates |-> s.updates, losers |-> s.losers, tries |-> 0]
  <2> DEFINE o == [s EXCEPT !.pc = q]
  <2>1. t = [o EXCEPT !.tries = 0]
    OBVIOUS
  <2>2. o = [pc |-> q, updates |-> s.updates, losers |-> s.losers, tries |-> s.tries]
    BY DEF Run
  <2> HIDE DEF o, t
  <2> QED BY <2>1, <2>2
<1>2. 0 \in 0..(Attempts - 1)
  BY CleanupAssumption
<1> HIDE DEF t
<1>3. t.pc = q /\ t.updates = s.updates /\ t.losers = s.losers /\ t.tries = 0
  BY <1>1
<1>4. t = [pc |-> t.pc, updates |-> t.updates, losers |-> t.losers, tries |-> t.tries]
  BY <1>1
<1>5. Run(t)
  BY <1>2, <1>3, <1>4 DEF Run
<1> QED BY <1>3, <1>5 DEF t

\* A request is tried again with the same plan, or the script exits.
LEMMA RunTriesAgain ==
    ASSUME NEW s, Run(s)
    PROVE  \/ TriedAgain(s) = Off
           \/ /\ Run(TriedAgain(s))
              /\ TriedAgain(s).pc = s.pc /\ TriedAgain(s).updates = s.updates
              /\ TriedAgain(s).losers = s.losers
<1> DEFINE t == [s EXCEPT !.tries = @ + 1]
<1>1. CASE s.tries + 1 < Attempts
  <2>1. t = [pc |-> s.pc, updates |-> s.updates, losers |-> s.losers, tries |-> s.tries + 1]
    BY DEF Run
  <2>2. s.tries + 1 \in 0..(Attempts - 1)
    BY <1>1, CleanupAssumption DEF Run
  <2> HIDE DEF t
  <2>3. t.pc = s.pc /\ t.updates = s.updates /\ t.losers = s.losers /\ t.tries = s.tries + 1
    BY <2>1
  <2>4. t = [pc |-> t.pc, updates |-> t.updates, losers |-> t.losers, tries |-> t.tries]
    BY <2>1
  <2>5. Run(t)
    BY <2>2, <2>3, <2>4 DEF Run
  <2>6. TriedAgain(s) = t
    BY <1>1 DEF TriedAgain, t
  <2> QED BY <2>3, <2>5, <2>6
<1>2. CASE ~(s.tries + 1 < Attempts)
  BY <1>2 DEF TriedAgain
<1> QED BY <1>1, <1>2

\* Rows in the place of rows.
LEMMA Rows ==
    ASSUME NEW rows \in Seq(InboxRow), NEW updates,
           \A u \in DOMAIN updates : updates[u] \in InboxRow
    PROVE  /\ Rewritten(rows, updates) \in Seq(InboxRow)
           /\ Len(Rewritten(rows, updates)) = Len(rows)
           /\ DOMAIN Rewritten(rows, updates) = DOMAIN rows
           /\ \A i \in DOMAIN rows :
                 Rewritten(rows, updates)[i] = IF i \in DOMAIN updates THEN updates[i] ELSE rows[i]
<1> DEFINE new == [i \in DOMAIN rows |-> IF i \in DOMAIN updates THEN updates[i] ELSE rows[i]]
<1>1. DOMAIN rows = 1..Len(rows) /\ Len(rows) \in Nat /\ \A i \in DOMAIN rows : rows[i] \in InboxRow
  OBVIOUS
<1>2. new = [i \in 1..Len(rows) |-> new[i]] /\ \A i \in 1..Len(rows) : new[i] \in InboxRow
  BY <1>1
<1>3. \A i \in DOMAIN rows : new[i] = IF i \in DOMAIN updates THEN updates[i] ELSE rows[i]
  OBVIOUS
<1>4. Rewritten(rows, updates) = new
  BY DEF Rewritten
<1> HIDE DEF new
<1>5. new \in Seq(InboxRow) /\ Len(new) = Len(rows) /\ DOMAIN new = DOMAIN rows
  <2>1. new \in [1..Len(rows) -> InboxRow]
    BY <1>2
  <2>2. new \in Seq(InboxRow)
    BY <1>1, <2>1, IsASeq
  <2> QED BY <1>1, <2>1, <2>2, LenProperties
<1> QED BY <1>3, <1>4, <1>5

\* The key is that of the account alone.
LEMMA SameAccountSameKey ==
    ASSUME NEW r, NEW q, r.acct = q.acct PROVE KeyOf(r) = KeyOf(q)
BY DEF KeyOf, RowAccount

\* The merged rows are written: no row changes its account.
LEMMA AfterUpdate ==
    ASSUME TypeOK, UpdatesKeepKeys, script.pc = "update"
    PROVE  /\ Applied \in Seq(InboxRow) /\ Len(Applied) = Len(inbox)
           /\ DOMAIN Applied = DOMAIN inbox
           /\ \A i \in DOMAIN inbox :
                 /\ KeyOf(Applied[i]) = KeyOf(inbox[i])
                 /\ Applied[i] = IF i \in DOMAIN script.updates THEN script.updates[i] ELSE inbox[i]
<1>1. Applied = Rewritten(inbox, script.updates)
  BY DEF Applied
<1>2. Run(script) /\ inbox \in Seq(InboxRow)
  BY TypeParts DEF Off
<1>3. \A u \in DOMAIN script.updates : script.updates[u] \in InboxRow
  BY <1>2 DEF Run
<1>4. /\ Applied \in Seq(InboxRow) /\ Len(Applied) = Len(inbox) /\ DOMAIN Applied = DOMAIN inbox
      /\ \A i \in DOMAIN inbox :
            Applied[i] = IF i \in DOMAIN script.updates THEN script.updates[i] ELSE inbox[i]
  BY <1>1, <1>2, <1>3, Rows
<1>5. ASSUME NEW i \in DOMAIN inbox PROVE KeyOf(Applied[i]) = KeyOf(inbox[i])
  BY <1>4 DEF UpdatesKeepKeys
<1> QED BY <1>4, <1>5

\* The rows are deleted: every row that is left was one that did not have to go.
LEMMA AfterDelete ==
    ASSUME TypeOK, script.pc = "delete"
    PROVE  /\ Applied \in Seq(InboxRow) /\ Len(Applied) <= Len(inbox)
           /\ \E at : Renumbers(at, Applied, inbox, DOMAIN inbox \ script.losers)
<1>1. Applied = DeleteInboxRows(inbox, script.losers)
  BY DEF Applied
<1>2. inbox \in Seq(InboxRow)
  BY TypeParts
<1> QED BY <1>1, <1>2, OthersLeft

\* When the losers are gone no two rows are of one account.
LEMMA DeletedAllApart ==
    ASSUME TypeOK, KeptApart, script.pc = "delete"
    PROVE  \A i, j \in DOMAIN Applied : KeyOf(Applied[i]) = KeyOf(Applied[j]) => i = j
<1>1. PICK at : Renumbers(at, Applied, inbox, DOMAIN inbox \ script.losers)
  BY AfterDelete
<1>2. DOMAIN Applied = 1..Len(Applied)
  BY AfterDelete
<1>3. ASSUME NEW i \in 1..Len(Applied), NEW j \in 1..Len(Applied), KeyOf(Applied[i]) = KeyOf(Applied[j])
      PROVE  i = j
  <2>1. /\ at[i] \in DOMAIN inbox \ script.losers /\ at[j] \in DOMAIN inbox \ script.losers
        /\ Applied[i] = inbox[at[i]] /\ Applied[j] = inbox[at[j]]
    BY <1>1 DEF Renumbers
  <2>2. at[i] = at[j]
    BY <1>3, <2>1 DEF KeptApart, Writing
  <2> QED BY <1>1, <2>2 DEF Renumbers
<1> QED BY <1>2, <1>3

------------------------------------------------------------------------------
(***************************************************************************)
(* Every step keeps CleanInv.                                              *)
(***************************************************************************)

\* What a curator enters is an entered review.
LEMMA Entered == ASSUME NEW d \in Decision PROVE d \in EnteredReview
BY CleanupAssumption DEF EnteredReview

\* The steps beside the script: the worker's, and the curators'.
LEMMA ListStep ==
    ASSUME TypeOK, NEW a \in Listed, NEW first \in 0..MaxFirst, ListAccount(a, first)
    PROVE  /\ inbox' \in Seq(InboxRow) /\ Len(inbox') <= MaxRows /\ script = Off /\ script' = Off
           /\ DOMAIN inbox' = 1..(Len(inbox) + 1)
           /\ \A j \in 1..Len(inbox) : inbox'[j] = inbox[j]
           /\ inbox'[Len(inbox) + 1].review = NotReviewed
<1> DEFINE r == [id |-> Least(UnusedIds), acct |-> a, first |-> first, review |-> NotReviewed]
<1>1. inbox \in Seq(InboxRow) /\ inbox' = Append(inbox, r) /\ Len(inbox) < MaxRows
  BY TypeParts DEF ListAccount
<1>2. Least(UnusedIds) \in CandidateId
  <2>1. UnusedIds \in SUBSET Nat /\ UnusedIds \subseteq CandidateId /\ UnusedIds # {}
    BY CandidateIdAssumption DEF ListAccount, UnusedIds
  <2> QED BY <2>1, LeastIsMember
<1>3. a \in Account /\ NotReviewed \in EnteredReview
  BY CleanupAssumption, Entered
<1>4. r \in InboxRow
  BY <1>2, <1>3 DEF InboxRow
<1>8. r.review = NotReviewed
  OBVIOUS
<1> HIDE DEF r
<1>5. /\ inbox' \in Seq(InboxRow) /\ Len(inbox') = Len(inbox) + 1
      /\ \A j \in 1..Len(inbox) : inbox'[j] = inbox[j]
      /\ inbox'[Len(inbox) + 1] = r
  BY <1>1, <1>4, AppendProperties
<1>9. DOMAIN inbox' = 1..(Len(inbox) + 1)
  BY <1>5
<1>6. MaxRows \in Nat /\ Len(inbox) \in Nat
  BY <1>1, CleanupAssumption
<1>7. script = Off /\ script' = Off
  BY DEF ListAccount
<1> QED BY <1>1, <1>5, <1>6, <1>7, <1>8, <1>9

\* A platform_id is filled in: the review columns stay.
LEMMA FillStep ==
    ASSUME TypeOK, NEW i \in Filled(inbox), FillId(i)
    PROVE  /\ inbox' \in Seq(InboxRow) /\ Len(inbox') <= MaxRows /\ script = Off /\ script' = Off
           /\ DOMAIN inbox' = DOMAIN inbox
           /\ \A j \in DOMAIN inbox : inbox'[j].review = inbox[j].review
<1> DEFINE r == inbox[i]
           o == Owner[r.acct.url.of]
           q == [r EXCEPT !.acct.pid = o]
<1>1. inbox \in Seq(InboxRow) /\ Len(inbox) <= MaxRows /\ i \in 1..Len(inbox) /\ r \in InboxRow
  BY TypeParts, RowsOfOneKey
<1>2. inbox' = [inbox EXCEPT ![i] = q] /\ script = Off /\ script' = Off /\ r.acct.url.kind = "page"
  BY DEF FillId
<1>3. o \in Channel
  <2>1. r.acct.url.of \in Page
    BY <1>1, <1>2 DEF InboxRow, Account, Url
  <2> QED BY <2>1, CleanupAssumption
<1>4. q \in InboxRow /\ q.review = r.review
  <2>1. r = [id |-> r.id, acct |-> r.acct, first |-> r.first, review |-> r.review]
    BY <1>1 DEF InboxRow
  <2>2. [r.acct EXCEPT !.pid = o] \in Account
    BY <1>1, <1>3 DEF InboxRow, Account
  <2> HIDE DEF r, o
  <2>3. q = [id |-> r.id, acct |-> [r.acct EXCEPT !.pid = o], first |-> r.first, review |-> r.review]
    BY <2>1
  <2>4. r.id \in CandidateId /\ r.first \in 0..MaxFirst /\ r.review \in EnteredReview
    BY <1>1 DEF InboxRow
  <2> HIDE DEF q
  <2> QED BY <2>2, <2>3, <2>4 DEF InboxRow
<1> HIDE DEF q
<1>5. /\ inbox' \in Seq(InboxRow) /\ Len(inbox') = Len(inbox)
      /\ \A j \in 1..Len(inbox) : inbox'[j] = IF j = i THEN q ELSE inbox[j]
  BY <1>1, <1>2, <1>4, ExceptSeq
<1>6. DOMAIN inbox = 1..Len(inbox) /\ DOMAIN inbox' = 1..Len(inbox')
  BY <1>1, <1>5
<1>7. \A j \in DOMAIN inbox : inbox'[j].review = inbox[j].review
  BY <1>4, <1>5, <1>6
<1> QED BY <1>1, <1>2, <1>5, <1>6, <1>7

\* A curator enters a decision: the accounts stay.
LEMMA ReviewStep ==
    ASSUME TypeOK, NEW i \in Filled(inbox), NEW d \in Decision, Review(i, d)
    PROVE  /\ inbox' \in Seq(InboxRow) /\ Len(inbox') <= MaxRows /\ script' = script
           /\ DOMAIN inbox' = DOMAIN inbox
           /\ \A j \in DOMAIN inbox :
                 /\ KeyOf(inbox'[j]) = KeyOf(inbox[j]) /\ inbox'[j].first = inbox[j].first
                 /\ inbox'[j].review = IF j = i THEN d ELSE inbox[j].review
                 /\ j # i => inbox'[j] = inbox[j]
<1> DEFINE r == inbox[i]
           q == [r EXCEPT !.review = d]
<1>1. inbox \in Seq(InboxRow) /\ Len(inbox) <= MaxRows /\ i \in 1..Len(inbox) /\ r \in InboxRow
  BY TypeParts, RowsOfOneKey
<1>2. inbox' = [inbox EXCEPT ![i] = q] /\ script' = script
  BY DEF Review
<1>3. d \in EnteredReview
  BY Entered
<1>4. q \in InboxRow /\ q.review = d /\ q.first = r.first /\ q.acct = r.acct
  <2>1. r = [id |-> r.id, acct |-> r.acct, first |-> r.first, review |-> r.review]
    BY <1>1 DEF InboxRow
  <2>4. r.id \in CandidateId /\ r.first \in 0..MaxFirst /\ r.acct \in Account
    BY <1>1 DEF InboxRow
  <2> HIDE DEF r
  <2>3. q = [id |-> r.id, acct |-> r.acct, first |-> r.first, review |-> d]
    BY <2>1
  <2> HIDE DEF q
  <2> QED BY <1>3, <2>3, <2>4 DEF InboxRow
<1> HIDE DEF q
<1>5. /\ inbox' \in Seq(InboxRow) /\ Len(inbox') = Len(inbox)
      /\ \A j \in 1..Len(inbox) : inbox'[j] = IF j = i THEN q ELSE inbox[j]
  BY <1>1, <1>2, <1>4, ExceptSeq
<1>6. DOMAIN inbox = 1..Len(inbox) /\ DOMAIN inbox' = 1..Len(inbox')
  BY <1>1, <1>5
<1>7. KeyOf(q) = KeyOf(r)
  BY <1>4, SameAccountSameKey
<1>8. \A j \in DOMAIN inbox :
         /\ KeyOf(inbox'[j]) = KeyOf(inbox[j]) /\ inbox'[j].first = inbox[j].first
         /\ inbox'[j].review = IF j = i THEN d ELSE inbox[j].review
         /\ j # i => inbox'[j] = inbox[j]
  BY <1>4, <1>5, <1>6, <1>7
<1> QED BY <1>1, <1>2, <1>5, <1>6, <1>8

\* The script reads the inbox.
LEMMA BeginStep ==
    ASSUME TypeOK, Begin
    PROVE  /\ Run(script') /\ script'.pc = "update"
           /\ script'.updates = Updates(inbox) /\ script'.losers = AllLosers(inbox)
           /\ inbox \in Seq(InboxRow) /\ inbox' = inbox /\ faults' = faults
<1> DEFINE u == Updates(inbox)
           l == AllLosers(inbox)
<1>1. inbox \in Seq(InboxRow) /\ Len(inbox) <= MaxRows
  BY TypeParts
<1>2. /\ script' = [pc |-> "update", updates |-> u, losers |-> l, tries |-> 0]
      /\ inbox' = inbox /\ faults' = faults
  BY DEF Begin
<1>3. /\ u = [i \in DOMAIN u |-> u[i]] /\ DOMAIN u \cup l \subseteq DOMAIN inbox
      /\ DOMAIN u \cap l = {} /\ \A i \in DOMAIN u : u[i] \in InboxRow
  BY <1>1, Planned
<1>4. DOMAIN inbox \subseteq 1..MaxRows
  <2>1. DOMAIN inbox = 1..Len(inbox) /\ Len(inbox) \in Nat /\ MaxRows \in Nat
    BY <1>1, CleanupAssumption
  <2> QED BY <1>1, <2>1
<1>5. 0 \in 0..(Attempts - 1)
  BY CleanupAssumption
<1> HIDE DEF u, l
<1>6. script'.pc = "update" /\ script'.updates = u /\ script'.losers = l /\ script'.tries = 0
  BY <1>2
<1>7. script' = [pc |-> script'.pc, updates |-> script'.updates, losers |-> script'.losers,
                 tries |-> script'.tries]
  BY <1>2
<1>8. Run(script')
  BY <1>3, <1>4, <1>5, <1>6, <1>7 DEF Run
<1> QED BY <1>1, <1>2, <1>6, <1>8 DEF u, l

\* The steps of a run: one of its requests is done or not, and it goes on or ends.
RunStep == Answered \/ AnswerLost \/ NotReceived \/ Exit \/ Verify

\* Faults are counted up to their bound.
LEMMA FaultBounded ==
    ASSUME TypeOK, Fault \/ UNCHANGED faults PROVE faults' \in 0..MaxFaults
<1>1. faults \in 0..MaxFaults /\ MaxFaults \in Nat
  BY TypeParts, CleanupAssumption
<1> QED BY <1>1 DEF Fault

\* What a step of a run does to the script and to the inbox.
LEMMA RunSteps ==
    ASSUME TypeOK, RunStep
    PROVE  /\ faults' \in 0..MaxFaults
           /\ \/ script' = Off
              \/ /\ Run(script) /\ Run(script')
                 /\ script'.updates = script.updates /\ script'.losers = script.losers
                 /\ \/ script'.pc = script.pc /\ script'.pc \in {"update", "delete"}
                    \/ script.pc = "update" /\ script'.pc = "delete" /\ inbox' = Applied
                    \/ script.pc = "delete" /\ script'.pc = "verify" /\ inbox' = Applied
           /\ \/ inbox' = inbox
              \/ /\ inbox' = Applied /\ script.pc \in {"update", "delete"}
                 /\ script.pc = script'.pc => script.pc \in LostAnswers
                 /\ Run(script)
<1>1. script = Off \/ Run(script)
  BY TypeParts
<1>2. CASE Answered
  <2>1. Run(script)
    BY <1>1, <1>2 DEF Answered, Requesting, Off
  <2> DEFINE q == IF script.pc = "update" THEN "delete" ELSE "verify"
  <2>2. script' = [script EXCEPT !.pc = q, !.tries = 0]
    BY <1>2 DEF Answered
  <2>3. q \in {"delete", "verify"}
    OBVIOUS
  <2>4. inbox' = Applied /\ script.pc \in {"update", "delete"}
    BY <1>2 DEF Answered, Requesting
  <2>5. (script.pc = "update" /\ q = "delete") \/ (script.pc = "delete" /\ q = "verify")
    BY <2>4
  <2> HIDE DEF q
  <2>6. /\ Run(script') /\ script'.pc = q
        /\ script'.updates = script.updates /\ script'.losers = script.losers
    <3> DEFINE t == [script EXCEPT !.pc = q, !.tries = 0]
    <3>1. Run(t) /\ t.pc = q /\ t.updates = script.updates /\ t.losers = script.losers
      BY <2>1, <2>3, RunGoesOn
    <3> HIDE DEF t
    <3>2. script' = t
      BY <2>2 DEF t
    <3> QED BY <3>1, <3>2
  <2>7. faults' \in 0..MaxFaults
    BY <1>2, FaultBounded DEF Answered
  <2> QED BY <2>1, <2>4, <2>5, <2>6, <2>7
<1>3. CASE AnswerLost
  <2>1. Run(script)
    BY <1>1, <1>3 DEF AnswerLost, Requesting, Off
  <2>2. /\ script' = TriedAgain(script) /\ inbox' = Applied
        /\ script.pc \in {"update", "delete"} /\ script.pc \in LostAnswers
    BY <1>3 DEF AnswerLost, Requesting
  <2>3. faults' \in 0..MaxFaults
    BY <1>3, FaultBounded DEF AnswerLost
  <2>4. script' = Off \/ /\ Run(script') /\ script'.pc = script.pc
                         /\ script'.updates = script.updates /\ script'.losers = script.losers
    BY <2>1, <2>2, RunTriesAgain
  <2> QED BY <2>1, <2>2, <2>3, <2>4
<1>4. CASE NotReceived
  <2>1. Run(script)
    BY <1>1, <1>4 DEF NotReceived, Requesting, Off
  <2>2. script' = TriedAgain(script) /\ inbox' = inbox /\ script.pc \in {"update", "delete"}
    BY <1>4 DEF NotReceived, Requesting
  <2>3. faults' \in 0..MaxFaults
    BY <1>4, FaultBounded DEF NotReceived
  <2>4. script' = Off \/ /\ Run(script') /\ script'.pc = script.pc
                         /\ script'.updates = script.updates /\ script'.losers = script.losers
    BY <2>1, <2>2, RunTriesAgain
  <2> QED BY <2>1, <2>2, <2>3, <2>4
<1>5. CASE Exit
  <2>1. script' = Off /\ inbox' = inbox
    BY <1>5 DEF Exit
  <2>2. faults' \in 0..MaxFaults
    BY <1>5, FaultBounded DEF Exit
  <2> QED BY <2>1, <2>2
<1>6. CASE Verify
  <2>1. script' = Off /\ inbox' = inbox
    BY <1>6 DEF Verify
  <2>2. faults' \in 0..MaxFaults
    BY <1>6, FaultBounded DEF Verify
  <2> QED BY <2>1, <2>2
<1> QED BY <1>2, <1>3, <1>4, <1>5, <1>6 DEF RunStep

\* An inbox of rows and no run is well-typed.
LEMMA Typed ==
    ASSUME inbox' \in Seq(InboxRow), Len(inbox') <= MaxRows, faults' \in 0..MaxFaults,
           script' = Off \/ Run(script')
    PROVE  TypeOK'
BY Zenon DEF TypeOK, Run

\* The script is off, or a curator changed a review: no row changed its account.
LEMMA SameKeys ==
    ASSUME CleanInv, TypeOK', script' = script, DOMAIN inbox' = DOMAIN inbox,
           \A i \in DOMAIN inbox : KeyOf(inbox'[i]) = KeyOf(inbox[i])
    PROVE  CleanInv'
<1>1. UpdatesKeepKeys'
  BY DEF CleanInv, UpdatesKeepKeys
<1>2. KeptApart'
  BY DEF CleanInv, KeptApart, Writing
<1>3. AllApart'
  BY DEF CleanInv, AllApart
<1> QED BY <1>1, <1>2, <1>3 DEF CleanInv

\* Without a run there is nothing to keep but the types.
LEMMA NotRunning ==
    ASSUME TypeOK', script' = Off PROVE CleanInv'
BY DEF CleanInv, UpdatesKeepKeys, KeptApart, AllApart, Writing, Off

\* Every step keeps the plan true of the rows.
LEMMA CleanStep == CleanInv /\ [Next]_vars => CleanInv'
<1> SUFFICES ASSUME CleanInv, [Next]_vars PROVE CleanInv'
  OBVIOUS
<1>0. /\ TypeOK /\ inbox \in Seq(InboxRow) /\ Len(inbox) <= MaxRows
      /\ faults \in 0..MaxFaults /\ (script = Off \/ Run(script))
  BY TypeParts DEF CleanInv
<1>1. ASSUME NEW a \in Listed, NEW first \in 0..MaxFirst, ListAccount(a, first) PROVE CleanInv'
  <2>1. inbox' \in Seq(InboxRow) /\ Len(inbox') <= MaxRows /\ script' = Off
    BY <1>0, <1>1, ListStep
  <2>2. faults' = faults
    BY <1>1 DEF ListAccount
  <2> QED BY <1>0, <2>1, <2>2, Typed, NotRunning
<1>2. ASSUME NEW i \in Filled(inbox), FillId(i) PROVE CleanInv'
  <2>1. inbox' \in Seq(InboxRow) /\ Len(inbox') <= MaxRows /\ script' = Off
    BY <1>0, <1>2, FillStep
  <2>2. faults' = faults
    BY <1>2 DEF FillId
  <2> QED BY <1>0, <2>1, <2>2, Typed, NotRunning
<1>3. ASSUME NEW i \in Filled(inbox), NEW d \in Decision, Review(i, d) PROVE CleanInv'
  <2>1. /\ inbox' \in Seq(InboxRow) /\ Len(inbox') <= MaxRows /\ script' = script
        /\ DOMAIN inbox' = DOMAIN inbox
        /\ \A j \in DOMAIN inbox : KeyOf(inbox'[j]) = KeyOf(inbox[j])
    BY <1>0, <1>3, ReviewStep
  <2>2. faults' = faults
    BY <1>3 DEF Review
  <2>3. script' = Off \/ Run(script')
    BY <1>0, <2>1
  <2>4. TypeOK'
    BY <1>0, <2>1, <2>2, <2>3, Typed
  <2> QED BY <2>1, <2>4, SameKeys
<1>4. CASE Begin
  <2>1. /\ Run(script') /\ script'.pc = "update"
        /\ script'.updates = Updates(inbox) /\ script'.losers = AllLosers(inbox)
        /\ inbox' = inbox /\ faults' = faults
    BY <1>0, <1>4, BeginStep
  <2>2. TypeOK'
    BY <1>0, <2>1, Typed
  <2>3. \A i, j \in DOMAIN inbox \ AllLosers(inbox) : KeyOf(inbox[i]) = KeyOf(inbox[j]) => i = j
    BY <1>0, Planned
  <2>4. ASSUME NEW u \in DOMAIN Updates(inbox)
        PROVE  u \in DOMAIN inbox /\ KeyOf(Updates(inbox)[u]) = KeyOf(inbox[u])
    BY <1>0, Planned
  <2>5. UpdatesKeepKeys'
    BY <2>1, <2>4 DEF UpdatesKeepKeys
  <2>6. KeptApart'
    BY <2>1, <2>3 DEF KeptApart
  <2>7. AllApart'
    BY <2>1 DEF AllApart
  <2> QED BY <2>2, <2>5, <2>6, <2>7 DEF CleanInv
<1>5. CASE RunStep
  <2>1. faults' \in 0..MaxFaults
    BY <1>0, <1>5, RunSteps
  <2>2. script' = Off \/ Run(script')
    BY <1>0, <1>5, RunSteps
  <2>3. inbox' = inbox \/ /\ inbox' = Applied /\ script.pc \in {"update", "delete"}
    BY <1>0, <1>5, RunSteps
  <2>4. inbox' \in Seq(InboxRow) /\ Len(inbox') <= MaxRows
    <3>1. CASE inbox' = inbox
      BY <1>0, <3>1
    <3>2. CASE inbox' = Applied /\ script.pc = "update"
      <4>1. Applied \in Seq(InboxRow) /\ Len(Applied) = Len(inbox)
        BY <1>0, <3>2, AfterUpdate DEF CleanInv
      <4> QED BY <1>0, <3>2, <4>1
    <3>3. CASE inbox' = Applied /\ script.pc = "delete"
      <4>1. Applied \in Seq(InboxRow) /\ Len(Applied) <= Len(inbox)
        BY <1>0, <3>3, AfterDelete
      <4>2. Len(inbox) \in Nat /\ Len(Applied) \in Nat /\ MaxRows \in Nat
        BY <1>0, <4>1, CleanupAssumption
      <4> QED BY <1>0, <3>3, <4>1, <4>2
    <3> QED BY <2>3, <3>1, <3>2, <3>3
  <2>5. TypeOK'
    BY <2>1, <2>2, <2>4, Typed
  <2>6. CASE script' = Off
    BY <2>5, <2>6, NotRunning
  <2>7. CASE script' # Off
    <3>1. /\ Run(script)
          /\ script'.updates = script.updates /\ script'.losers = script.losers
          /\ \/ script'.pc = script.pc /\ script'.pc \in {"update", "delete"}
             \/ script.pc = "update" /\ script'.pc = "delete" /\ inbox' = Applied
             \/ script.pc = "delete" /\ script'.pc = "verify" /\ inbox' = Applied
      BY <1>0, <1>5, <2>7, RunSteps
    <3>2. CASE script.pc = "update"
      <4>1. /\ DOMAIN Applied = DOMAIN inbox
            /\ \A i \in DOMAIN inbox :
                  /\ KeyOf(Applied[i]) = KeyOf(inbox[i])
                  /\ Applied[i] = IF i \in DOMAIN script.updates THEN script.updates[i] ELSE inbox[i]
        BY <1>0, <3>2, AfterUpdate DEF CleanInv
      <4>2. /\ DOMAIN inbox' = DOMAIN inbox
            /\ \A i \in DOMAIN inbox : KeyOf(inbox'[i]) = KeyOf(inbox[i])
        BY <2>3, <4>1
      <4>3. UpdatesKeepKeys'
        BY <3>1, <3>2, <4>2 DEF CleanInv, UpdatesKeepKeys
      <4>4. KeptApart'
        BY <3>1, <3>2, <4>2 DEF CleanInv, KeptApart, Writing
      <4>5. AllApart'
        BY <3>1, <3>2 DEF AllApart
      <4> QED BY <2>5, <4>3, <4>4, <4>5 DEF CleanInv
    <3>3. CASE script.pc = "delete"
      <4>1. \A i, j \in DOMAIN Applied : KeyOf(Applied[i]) = KeyOf(Applied[j]) => i = j
        BY <1>0, <3>3, DeletedAllApart DEF CleanInv
      <4>2. UpdatesKeepKeys'
        BY <3>1, <3>3 DEF UpdatesKeepKeys
      <4>3. KeptApart'
        <5>1. CASE inbox' = inbox
          BY <3>1, <3>3, <5>1 DEF CleanInv, KeptApart, Writing
        <5>2. CASE inbox' = Applied
          BY <3>1, <4>1, <5>2 DEF KeptApart
        <5> QED BY <2>3, <5>1, <5>2
      <4>4. AllApart'
        <5>1. script'.pc = "verify" => inbox' = Applied
          BY <3>1, <3>3
        <5> QED BY <4>1, <5>1 DEF AllApart
      <4> QED BY <2>5, <4>2, <4>3, <4>4 DEF CleanInv
    <3> QED BY <3>1, <3>2, <3>3
  <2> QED BY <2>6, <2>7
<1>6. CASE UNCHANGED vars
  <2>1. inbox' = inbox /\ script' = script /\ faults' = faults
    BY <1>6 DEF vars
  <2>2. TypeOK'
    BY <1>0, <2>1, Typed
  <2> QED BY <2>1, <2>2, SameKeys
<1> QED BY <1>1, <1>2, <1>3, <1>4, <1>5, <1>6 DEF Next, RunStep

\* An empty inbox without a run.
LEMMA CleanInit == Init => CleanInv
<1> SUFFICES ASSUME Init PROVE CleanInv
  OBVIOUS
<1>1. inbox = << >> /\ script = Off /\ faults = 0
  BY DEF Init
<1>2. << >> \in Seq(InboxRow) /\ Len(<< >>) = 0 /\ 0 <= MaxRows /\ 0 \in 0..MaxFaults
  BY CleanupAssumption
<1>3. TypeOK
  BY <1>1, <1>2, TypeParts
<1> QED BY <1>1, <1>3 DEF CleanInv, UpdatesKeepKeys, KeptApart, AllApart, Writing, Off

\* Whatever requests and answers are lost, the plan a run works from stays true of the
\* rows it names: each stays a row of its account, and one row of each account stays.
THEOREM CleanInvariant == Spec => []CleanInv
<1>1. Init => CleanInv
  BY CleanInit
<1>2. CleanInv /\ [Next]_vars => CleanInv'
  BY CleanStep
<1> QED BY <1>1, <1>2, PTL DEF Spec

\* The inbox holds whole rows, entered column by column by curators; a run has disjoint
\* sets of rows to write and rows to delete, inside the sheet.
THEOREM CleanupTypes == Spec => []TypeOK
<1>1. CleanInv => TypeOK
  BY DEF CleanInv
<1> QED BY <1>1, CleanInvariant, PTL

\* When both requests of the script were answered, the inbox read back has no duplicates
\* ("Exactly 0 duplicate account keys remain"), whatever was lost or repeated before.
THEOREM OnePassIsEnough == Spec => []CleanedInOnePass
<1>1. CleanInv => CleanedInOnePass
  <2> SUFFICES ASSUME CleanInv, script.pc = "verify" PROVE DuplicateKeys(inbox) = {}
    BY DEF CleanedInOnePass
  <2>1. inbox \in Seq(InboxRow)
    BY TypeParts DEF CleanInv
  <2>2. \A i, j \in DOMAIN inbox : KeyOf(inbox[i]) = KeyOf(inbox[j]) => i = j
    BY DEF CleanInv, AllApart
  <2> QED BY <2>1, <2>2, Duplicates
<1> QED BY <1>1, CleanInvariant, PTL

------------------------------------------------------------------------------
(***************************************************************************)
(* first_seen, and the accounts themselves.                                *)
(***************************************************************************)

\* The merged row is first seen no later than any row of its account.
LEMMA PlannedFirst ==
    ASSUME NEW rows \in Seq(InboxRow)
    PROVE  /\ \A u \in DOMAIN Updates(rows) : Updates(rows)[u].first <= rows[u].first
           /\ \A l \in AllLosers(rows) : \E u \in DOMAIN Updates(rows) :
                 KeyOf(rows[u]) = KeyOf(rows[l]) /\ Updates(rows)[u].first <= rows[l].first
<1>1. ASSUME NEW u \in DOMAIN Updates(rows), NEW i \in DOMAIN rows, KeyOf(rows[i]) = KeyOf(rows[u])
      PROVE  Updates(rows)[u].first <= rows[i].first
  <2> DEFINE k == KeyOf(rows[u])
  <2>1. Updates(rows)[u] = Merged(rows, k)
    BY Planned
  <2>2. i \in RowsOfKey(rows, k)
    BY <1>1, RowsOfOneKey
  <2>3. Merged(rows, k).first <= rows[i].first
    BY <2>2, MergedRow
  <2> QED BY <2>1, <2>3
<1>2. \A u \in DOMAIN Updates(rows) : Updates(rows)[u].first <= rows[u].first
  BY <1>1, Planned
<1>3. ASSUME NEW l \in AllLosers(rows)
      PROVE  \E u \in DOMAIN Updates(rows) :
                KeyOf(rows[u]) = KeyOf(rows[l]) /\ Updates(rows)[u].first <= rows[l].first
  <2> DEFINE u == Survivor(rows, KeyOf(rows[l]))
  <2>1. u \in DOMAIN Updates(rows) /\ KeyOf(rows[u]) = KeyOf(rows[l])
    BY Planned
  <2>2. l \in DOMAIN rows
    BY Planned
  <2> HIDE DEF u
  <2> QED BY <1>1, <2>1, <2>2
<1> QED BY <1>2, <1>3

\* Every step keeps the losers covered.
LEMMA FirstStep ==
    ASSUME DeletesAnswered, CleanInv, FirstCovered, [Next]_vars
    PROVE  FirstCovered'
<1>0. /\ TypeOK /\ inbox \in Seq(InboxRow) /\ (script = Off \/ Run(script))
  BY TypeParts DEF CleanInv
<1>1. ASSUME script' = Off PROVE FirstCovered'
  BY <1>1 DEF FirstCovered, Writing, Off
<1>2. ASSUME NEW i \in Filled(inbox), NEW d \in Decision, Review(i, d) PROVE FirstCovered'
  <2>1. /\ script' = script /\ DOMAIN inbox' = DOMAIN inbox
        /\ \A j \in DOMAIN inbox : KeyOf(inbox'[j]) = KeyOf(inbox[j]) /\ inbox'[j].first = inbox[j].first
    BY <1>0, <1>2, ReviewStep
  <2> SUFFICES ASSUME Writing'
               PROVE  /\ DOMAIN script.updates \cup script.losers \subseteq DOMAIN inbox'
                      /\ \A u \in DOMAIN script.updates : MergedFirst(u)' <= inbox'[u].first
                      /\ \A l \in script.losers : \E u \in DOMAIN script.updates :
                            KeyOf(inbox'[u]) = KeyOf(inbox'[l]) /\ MergedFirst(u)' <= inbox'[l].first
    BY <2>1 DEF FirstCovered
  <2>2. /\ DOMAIN script.updates \cup script.losers \subseteq DOMAIN inbox
        /\ \A u \in DOMAIN script.updates : MergedFirst(u) <= inbox[u].first
        /\ \A l \in script.losers : \E u \in DOMAIN script.updates :
              KeyOf(inbox[u]) = KeyOf(inbox[l]) /\ MergedFirst(u) <= inbox[l].first
    BY <2>1 DEF FirstCovered, Writing
  <2>3. \A u \in DOMAIN script.updates : MergedFirst(u)' = MergedFirst(u)
    BY <2>1, <2>2 DEF MergedFirst
  <2> QED BY <2>1, <2>2, <2>3
<1>3. CASE Begin
  <2>1. /\ script'.updates = Updates(inbox) /\ script'.losers = AllLosers(inbox)
        /\ script'.pc = "update" /\ inbox' = inbox
    BY <1>0, <1>3, BeginStep
  <2>2. DOMAIN Updates(inbox) \cup AllLosers(inbox) \subseteq DOMAIN inbox
    BY <1>0, Planned
  <2>3. /\ \A u \in DOMAIN Updates(inbox) : Updates(inbox)[u].first <= inbox[u].first
        /\ \A l \in AllLosers(inbox) : \E u \in DOMAIN Updates(inbox) :
              KeyOf(inbox[u]) = KeyOf(inbox[l]) /\ Updates(inbox)[u].first <= inbox[l].first
    BY <1>0, PlannedFirst
  <2> QED BY <2>1, <2>2, <2>3 DEF FirstCovered, MergedFirst
<1>4. CASE RunStep
  <2> SUFFICES ASSUME script' # Off, Writing'
               PROVE  /\ DOMAIN script'.updates \cup script'.losers \subseteq DOMAIN inbox'
                      /\ \A u \in DOMAIN script'.updates : MergedFirst(u)' <= inbox'[u].first
                      /\ \A l \in script'.losers : \E u \in DOMAIN script'.updates :
                            KeyOf(inbox'[u]) = KeyOf(inbox'[l]) /\ MergedFirst(u)' <= inbox'[l].first
    BY <1>1 DEF FirstCovered
  <2>1. /\ Run(script)
        /\ script'.updates = script.updates /\ script'.losers = script.losers
        /\ \/ script'.pc = script.pc /\ script'.pc \in {"update", "delete"}
           \/ script.pc = "update" /\ script'.pc = "delete" /\ inbox' = Applied
           \/ script.pc = "delete" /\ script'.pc = "verify" /\ inbox' = Applied
    BY <1>0, <1>4, RunSteps
  <2>2. \/ inbox' = inbox
        \/ /\ inbox' = Applied
           /\ script.pc = script'.pc => script.pc \in LostAnswers
    BY <1>0, <1>4, RunSteps
  <2>3. /\ DOMAIN script.updates \cup script.losers \subseteq DOMAIN inbox
        /\ \A u \in DOMAIN script.updates : MergedFirst(u) <= inbox[u].first
        /\ \A l \in script.losers : \E u \in DOMAIN script.updates :
              KeyOf(inbox[u]) = KeyOf(inbox[l]) /\ MergedFirst(u) <= inbox[l].first
    BY <2>1 DEF FirstCovered, Writing
  <2>4. CASE script.pc = "update"
    <3>1. /\ DOMAIN Applied = DOMAIN inbox
          /\ \A i \in DOMAIN inbox :
                /\ KeyOf(Applied[i]) = KeyOf(inbox[i])
                /\ Applied[i] = IF i \in DOMAIN script.updates THEN script.updates[i] ELSE inbox[i]
      BY <1>0, <2>4, AfterUpdate DEF CleanInv
    <3>2. /\ DOMAIN inbox' = DOMAIN inbox
          /\ \A i \in DOMAIN inbox : KeyOf(inbox'[i]) = KeyOf(inbox[i])
          /\ \A l \in script.losers : inbox'[l] = inbox[l]
          /\ \A u \in DOMAIN script.updates : inbox'[u] \in {inbox[u], script.updates[u]}
      <4>1. CASE inbox' = inbox
        BY <4>1
      <4>2. CASE inbox' = Applied
        <5>1. \A l \in script.losers : l \in DOMAIN inbox /\ l \notin DOMAIN script.updates
          BY <2>1, <2>3 DEF Run
        <5>2. \A l \in script.losers : inbox'[l] = inbox[l]
          BY <3>1, <4>2, <5>1
        <5>3. \A u \in DOMAIN script.updates : inbox'[u] = script.updates[u]
          BY <2>3, <3>1, <4>2
        <5>4. DOMAIN inbox' = DOMAIN inbox
          BY <3>1, <4>2
        <5>5. \A i \in DOMAIN inbox : KeyOf(inbox'[i]) = KeyOf(inbox[i])
          BY <3>1, <4>2
        <5> QED BY <5>2, <5>3, <5>4, <5>5
      <4> QED BY <2>2, <4>1, <4>2
    <3>3. ASSUME NEW u \in DOMAIN script.updates
          PROVE  MergedFirst(u)' = MergedFirst(u)
      <4>1. MergedFirst(u) = script.updates[u].first
        BY <2>4 DEF MergedFirst
      <4>2. CASE script'.pc = "update"
        BY <2>1, <4>1, <4>2 DEF MergedFirst
      <4>3. CASE script'.pc = "delete"
        <5>1. inbox'[u] = script.updates[u]
          BY <2>1, <2>3, <2>4, <3>1, <4>3
        <5> QED BY <2>1, <4>1, <4>3, <5>1 DEF MergedFirst
      <4> QED BY <2>1, <2>4, <4>2, <4>3
    <3>4. ASSUME NEW u \in DOMAIN script.updates PROVE MergedFirst(u)' <= inbox'[u].first
      <4>1. MergedFirst(u) = script.updates[u].first /\ MergedFirst(u) <= inbox[u].first
        BY <2>3, <2>4 DEF MergedFirst
      <4>2. script.updates[u].first \in Nat
        <5>1. script.updates[u] \in InboxRow
          BY <2>1 DEF Run
        <5> QED BY <5>1, Columns
      <4> QED BY <3>2, <3>3, <4>1, <4>2
    <3> QED BY <2>1, <2>3, <3>2, <3>3, <3>4
  <2>5. CASE script.pc = "delete"
    <3>1. script'.pc = "delete"
      BY <2>1, <2>5 DEF Writing
    <3>2. inbox' = inbox
      BY <2>2, <2>5, <3>1 DEF DeletesAnswered
    <3>3. \A u \in DOMAIN script.updates : MergedFirst(u)' = MergedFirst(u)
      BY <2>5, <3>1, <3>2 DEF MergedFirst
    <3> QED BY <2>1, <2>3, <3>2, <3>3
  <2> QED BY <2>1, <2>4, <2>5 DEF Writing
<1>5. CASE UNCHANGED vars
  <2>1. inbox' = inbox /\ script' = script
    BY <1>5 DEF vars
  <2> QED BY <2>1 DEF FirstCovered, Writing, MergedFirst
<1>6. ASSUME NEW a \in Listed, NEW first \in 0..MaxFirst, ListAccount(a, first) PROVE FirstCovered'
  BY <1>0, <1>1, <1>6, ListStep
<1>7. ASSUME NEW i \in Filled(inbox), FillId(i) PROVE FirstCovered'
  BY <1>0, <1>1, <1>7, FillStep
<1> QED BY <1>2, <1>3, <1>4, <1>5, <1>6, <1>7 DEF Next, RunStep

\* A step of the script: the row of an account that is as early as row i was.
LEMMA FirstKept ==
    ASSUME CleanInv, CleanInv', FirstCovered, [Next]_vars, script' # script,
           NEW i \in Filled(inbox)
    PROVE  \E j \in RowsOfKey(inbox', KeyOf(inbox[i])) : inbox'[j].first <= inbox[i].first
<1>0. /\ TypeOK /\ inbox \in Seq(InboxRow) /\ inbox' \in Seq(InboxRow)
  BY DEF CleanInv, TypeOK
<1>1. SUFFICES \E j \in DOMAIN inbox' :
                 KeyOf(inbox'[j]) = KeyOf(inbox[i]) /\ inbox'[j].first <= inbox[i].first
  <2>1. \A k : RowsOfKey(inbox', k) = {j \in DOMAIN inbox' : KeyOf(inbox'[j]) = k}
    BY <1>0, RowsOfOneKey
  <2> QED BY <2>1
<1>2. i \in DOMAIN inbox /\ inbox[i] \in InboxRow
  BY <1>0, RowsOfOneKey
<1>3. inbox[i].first <= inbox[i].first
  BY <1>2, Columns
<1>4. Begin \/ RunStep
  BY DEF Next, RunStep, ListAccount, FillId, Review, vars
<1>5. CASE inbox' = inbox
  BY <1>2, <1>3, <1>5
<1>6. CASE inbox' = Applied /\ script.pc = "update"
  <2>1. /\ DOMAIN inbox' = DOMAIN inbox /\ KeyOf(inbox'[i]) = KeyOf(inbox[i])
        /\ inbox'[i] = IF i \in DOMAIN script.updates THEN script.updates[i] ELSE inbox[i]
    BY <1>0, <1>2, <1>6, AfterUpdate DEF CleanInv
  <2>2. i \in DOMAIN script.updates => script.updates[i].first <= inbox[i].first
    BY <1>6 DEF FirstCovered, Writing, MergedFirst
  <2> QED BY <1>2, <1>3, <2>1, <2>2
<1>7. CASE inbox' = Applied /\ script.pc = "delete"
  <2>1. PICK at : Renumbers(at, inbox', inbox, DOMAIN inbox \ script.losers)
    BY <1>0, <1>7, AfterDelete
  <2>2. \A m \in DOMAIN inbox \ script.losers : \E j \in DOMAIN inbox' : inbox'[j] = inbox[m]
    <3>1. DOMAIN inbox' = 1..Len(inbox')
      BY <1>0
    <3> QED BY <2>1, <3>1 DEF Renumbers
  <2>3. CASE i \notin script.losers
    BY <1>2, <1>3, <2>2, <2>3
  <2>4. CASE i \in script.losers
    <3>1. PICK u \in DOMAIN script.updates :
             KeyOf(inbox[u]) = KeyOf(inbox[i]) /\ inbox[u].first <= inbox[i].first
      BY <1>7, <2>4 DEF FirstCovered, Writing, MergedFirst
    <3>2. u \in DOMAIN inbox \ script.losers
      <4>1. u \in DOMAIN inbox
        BY <1>7 DEF FirstCovered, Writing
      <4>2. Run(script)
        BY <1>0, <1>7, TypeParts DEF Off
      <4> QED BY <4>1, <4>2 DEF Run
    <3> QED BY <2>2, <3>1, <3>2
  <2> QED BY <2>3, <2>4
<1>8. \/ inbox' = inbox
      \/ inbox' = Applied /\ script.pc \in {"update", "delete"}
  <2>1. CASE Begin
    BY <2>1 DEF Begin
  <2>2. CASE RunStep
    BY <1>0, <2>2, RunSteps
  <2> QED BY <1>4, <2>1, <2>2
<1> QED BY <1>5, <1>6, <1>7, <1>8

\* If the deletion is not repeated after a lost answer, the earliest first_seen of an
\* account is in the inbox after every step of the script (cleanup.go merges it into the
\* row that stays before the others are deleted).
THEOREM FirstSeenSurvives == DeletesAnswered /\ Spec => FirstSeenKept
<1> SUFFICES ASSUME DeletesAnswered PROVE Spec => FirstSeenKept
  OBVIOUS
<1>1. Init => FirstCovered
  BY DEF Init, FirstCovered, Writing, Off
<1>2. CleanInv /\ FirstCovered /\ [Next]_vars => FirstCovered'
  BY FirstStep
<1>3. CleanInv /\ CleanInv' /\ FirstCovered /\ [Next]_vars =>
        [script' # script =>
           \A i \in Filled(inbox) :
              \E j \in RowsOfKey(inbox', KeyOf(inbox[i])) : inbox'[j].first <= inbox[i].first]_vars
  BY FirstKept
<1> QED BY <1>1, <1>2, <1>3, CleanInvariant, PTL DEF Spec, FirstSeenKept

\* Under the same assumption no account loses its last row; without it one does, as a run
\* of the checks shows.
THEOREM NoAccountLost == DeletesAnswered /\ Spec => AccountsKept
<1>1. [script' # script =>
           \A i \in Filled(inbox) :
              \E j \in RowsOfKey(inbox', KeyOf(inbox[i])) : inbox'[j].first <= inbox[i].first]_vars
      => [script' # script =>
            \A i \in Filled(inbox) : RowsOfKey(inbox', KeyOf(inbox[i])) # {}]_vars
  BY Zenon
<1>2. FirstSeenKept => AccountsKept
  BY <1>1, PTL DEF FirstSeenKept, AccountsKept
<1> QED BY <1>2, FirstSeenSurvives

------------------------------------------------------------------------------
(***************************************************************************)
(* Verdicts: a verified row is the one that stays.                         *)
(***************************************************************************)

\* The weights of ScoreRow, each for what it is given for.
ForVerdict(r, n)  == Points(r.review.status = "verified", n)
ForDecline(r, n)  == Points(r.review.status \notin {"verified", "pending", ""}, n)
ForReviewer(r, n) == Points(r.review.reviewer # "", n)
ForTarget(r, n)   == Points(r.review.target # "", n)
ForAction(r, n)   == Points(r.review.action # "", n)

\* The score of a row is the sum of the weights.
LEMMA ScoreSum ==
    ASSUME NEW r, NEW i
    PROVE  ScoreRow(r, i) = ForVerdict(r, 10000) + ForDecline(r, 5000) + ForReviewer(r, 1000)
                              + ForTarget(r, 100) + ForAction(r, 10) + (100000 - i)
BY SMT DEF ScoreRow, ForVerdict, ForDecline, ForReviewer, ForTarget, ForAction

\* What a verified row gets.
LEMMA VerifiedPoints ==
    ASSUME NEW r, NEW n, Verified(r) PROVE ForVerdict(r, n) = n /\ ForDecline(r, n) = 0
BY Zenon DEF Verified, ForVerdict, ForDecline, Points

\* What a row that is not verified does not get.
LEMMA NotVerifiedPoints == ASSUME NEW r, NEW n, ~Verified(r) PROVE ForVerdict(r, n) = 0
BY Zenon DEF Verified, ForVerdict, Points

\* A weight is given or not.
LEMMA AnyPoints ==
    ASSUME NEW r, NEW n
    PROVE  /\ ForDecline(r, n) \in {0, n} /\ ForReviewer(r, n) \in {0, n}
           /\ ForTarget(r, n) \in {0, n} /\ ForAction(r, n) \in {0, n}
BY Zenon DEF ForDecline, ForReviewer, ForTarget, ForAction, Points

\* A verified row outranks the other rows of its account.
LEMMA VerifiedOutranks ==
    ASSUME NEW r, NEW q, NEW i \in Nat, NEW j \in Nat, i - j < 3890, Verified(r), ~Verified(q)
    PROVE  ~(ScoreRow(r, i) <= ScoreRow(q, j))
<1>1. ScoreRow(r, i) >= 10000 + (100000 - i) /\ ScoreRow(r, i) \in Int
  <2>1. ForReviewer(r, 1000) \in {0, 1000}
    BY AnyPoints, SMT
  <2>2. ForTarget(r, 100) \in {0, 100}
    BY AnyPoints, SMT
  <2>3. ForAction(r, 10) \in {0, 10}
    BY AnyPoints, SMT
  <2>4. ScoreRow(r, i) = 10000 + 0 + ForReviewer(r, 1000) + ForTarget(r, 100)
                           + ForAction(r, 10) + (100000 - i)
    BY VerifiedPoints, ScoreSum, SMT
  <2> QED BY <2>1, <2>2, <2>3, <2>4, SMT
<1>2. ScoreRow(q, j) <= 6110 + (100000 - j) /\ ScoreRow(q, j) \in Int
  <2>1. ForDecline(q, 5000) \in {0, 5000}
    BY AnyPoints, SMT
  <2>2. ForReviewer(q, 1000) \in {0, 1000}
    BY AnyPoints, SMT
  <2>3. ForTarget(q, 100) \in {0, 100}
    BY AnyPoints, SMT
  <2>4. ForAction(q, 10) \in {0, 10}
    BY AnyPoints, SMT
  <2>5. ScoreRow(q, j) = 0 + ForDecline(q, 5000) + ForReviewer(q, 1000) + ForTarget(q, 100)
                           + ForAction(q, 10) + (100000 - j)
    BY NotVerifiedPoints, ScoreSum, SMT
  <2> QED BY <2>1, <2>2, <2>3, <2>4, <2>5, SMT
<1> QED BY <1>1, <1>2, SMT

\* The best of some rows is the best of fewer of them that it is one of.
LEMMA BestOfPart ==
    ASSUME NEW rows, NEW S \in SUBSET Nat, NEW P \in SUBSET S, Best(rows, S) \in P
    PROVE  Best(rows, P) = Best(rows, S)
<1> DEFINE score(i) == ScoreRow(rows[i], i)
           tops(T) == {i \in T : \A j \in T : score(j) <= score(i)}
           b == Best(rows, S)
           c == Best(rows, P)
<1>1. \A i \in Nat : score(i) \in Int
  BY ScoreBounds
<1>2. b = Least(tops(S)) /\ c = Least(tops(P))
  BY DEF Best
<1>3. b \in S /\ \A j \in S : score(j) <= score(b)
  BY BestIsMember
<1>4. c \in P /\ \A j \in P : score(j) <= score(c)
  <2>1. P \in SUBSET Nat /\ P # {}
    OBVIOUS
  <2> QED BY <2>1, BestIsMember
<1> HIDE DEF score, b, c
<1>5. b \in tops(S) /\ c \in tops(P)
  BY <1>3, <1>4
<1>6. b \in tops(P)
  BY <1>3 DEF b
<1>7. score(c) = score(b)
  <2>1. score(c) <= score(b) /\ score(b) <= score(c)
    BY <1>3, <1>4, <1>6
  <2>2. score(c) \in Int /\ score(b) \in Int
    BY <1>1, <1>3, <1>4
  <2> QED BY <2>1, <2>2
<1>8. c \in tops(S)
  BY <1>3, <1>4, <1>7
<1>9. tops(S) \in SUBSET Nat /\ tops(P) \in SUBSET Nat
  OBVIOUS
<1> HIDE DEF tops
<1>10. b <= c
  BY <1>2, <1>8, <1>9, LeastIsMember
<1>11. c <= b
  BY <1>2, <1>6, <1>9, LeastIsMember
<1>12. b \in Nat /\ c \in Nat
  BY <1>3, <1>4
<1>13. b = c
  BY <1>10, <1>11, <1>12
<1> QED BY <1>13 DEF b, c

\* A merged column is that of a row of the key, and the survivor's if it has one.
LEMMA ColumnOfARow ==
    ASSUME NEW rows \in Seq(InboxRow), NEW k, RowsOfKey(rows, k) # {}, NEW c \in ReviewColumn
    PROVE  /\ \E i \in RowsOfKey(rows, k) : FilledColumn(rows, k, c) = rows[i].review[c]
           /\ rows[Survivor(rows, k)].review[c] # "" =>
                FilledColumn(rows, k, c) = rows[Survivor(rows, k)].review[c]
<1> DEFINE all == RowsOfKey(rows, k)
           having == {i \in all : rows[i].review[c] # ""}
<1>1. all \in SUBSET Nat /\ having \in SUBSET all
  BY RowsOfOneKey
<1>2. Survivor(rows, k) \in all /\ Survivor(rows, k) = Best(rows, all)
  BY SurvivorIsBest DEF Survivor
<1>3. FilledColumn(rows, k, c) = IF having = {} THEN "" ELSE rows[Best(rows, having)].review[c]
  BY Zenon DEF FilledColumn
<1>4. \A i \in all : i \in having <=> rows[i].review[c] # ""
  BY Zenon
<1> HIDE DEF all, having
<1>5. having # {} => Best(rows, having) \in having
  <2>1. having \in SUBSET Nat
    BY <1>1
  <2> QED BY <2>1, BestIsMember
<1>6. \E i \in all : FilledColumn(rows, k, c) = rows[i].review[c]
  <2>1. CASE having = {}
    <3>1. rows[Survivor(rows, k)].review[c] = ""
      BY Zenon, <1>2, <1>4, <2>1
    <3> QED BY Zenon, <1>2, <1>3, <2>1, <3>1
  <2>2. CASE having # {}
    <3>1. Best(rows, having) \in all
      BY <1>1, <1>5, <2>2
    <3> QED BY Zenon, <1>3, <2>2, <3>1
  <2> QED BY <2>1, <2>2
<1>7. Survivor(rows, k) \in having => Best(rows, having) = Survivor(rows, k) /\ having # {}
  BY <1>1, <1>2, BestOfPart
<1>8. rows[Survivor(rows, k)].review[c] # "" =>
        FilledColumn(rows, k, c) = rows[Survivor(rows, k)].review[c]
  BY Zenon, <1>2, <1>3, <1>4, <1>7
<1> QED BY <1>6, <1>8 DEF all

\* So few rows that the points for their numbers do not weigh more than a verdict.
FewRows(rows) == Len(rows) <= 3890

\* If an account has a verified row, a verified row is the one that stays.
LEMMA VerifiedSurvives ==
    ASSUME NEW rows \in Seq(InboxRow), NEW k, FewRows(rows),
           NEW i \in RowsOfKey(rows, k), Verified(rows[i])
    PROVE  Verified(rows[Survivor(rows, k)])
<1> DEFINE s == Survivor(rows, k)
<1>1. s \in RowsOfKey(rows, k) /\ ScoreRow(rows[i], i) <= ScoreRow(rows[s], s)
  <2>1. RowsOfKey(rows, k) \in SUBSET Nat /\ RowsOfKey(rows, k) # {}
    BY RowsOfOneKey
  <2>2. \A j \in RowsOfKey(rows, k) : ScoreRow(rows[j], j) <= ScoreRow(rows[s], s)
    BY <2>1, BestIsMember DEF Survivor
  <2>3. s \in RowsOfKey(rows, k)
    BY <2>1, SurvivorIsBest
  <2> QED BY <2>2, <2>3
<1> HIDE DEF s
<1>2. i \in Nat /\ s \in Nat /\ i - s < 3890
  <2>1. i \in 1..Len(rows) /\ s \in 1..Len(rows) /\ Len(rows) \in Nat
    BY <1>1, RowsOfOneKey
  <2> QED BY <2>1, SMT DEF FewRows
<1>3. ~Verified(rows[s]) => ~(ScoreRow(rows[i], i) <= ScoreRow(rows[s], s))
  BY <1>2, VerifiedOutranks
<1> QED BY <1>1, <1>3 DEF s

\* The merged row is verified if the survivor is, and has what was entered in it.
LEMMA MergedVerdict ==
    ASSUME NEW rows \in Seq(InboxRow), NEW k, RowsOfKey(rows, k) # {}, FewRows(rows)
    PROVE  /\ Confirms(rows[Survivor(rows, k)], Merged(rows, k))
           /\ \A c \in ReviewColumn :
                 \E i \in RowsOfKey(rows, k) : Merged(rows, k).review[c] = rows[i].review[c]
<1> DEFINE s == rows[Survivor(rows, k)]
           m == Merged(rows, k)
<1>1. ASSUME NEW c \in ReviewColumn
      PROVE  /\ s.review[c] # "" => m.review[c] = s.review[c]
             /\ \E i \in RowsOfKey(rows, k) : m.review[c] = rows[i].review[c]
  <2>1. m.review[c] = FilledColumn(rows, k, c)
    BY MergedRow
  <2>2. s.review[c] # "" => FilledColumn(rows, k, c) = s.review[c]
    BY Zenon, ColumnOfARow
  <2>3. \E i \in RowsOfKey(rows, k) : FilledColumn(rows, k, c) = rows[i].review[c]
    BY Zenon, ColumnOfARow
  <2> HIDE DEF s, m
  <2> QED BY Zenon, <2>1, <2>2, <2>3
<1>2. ASSUME NEW i \in RowsOfKey(rows, k), Verified(rows[i]) PROVE Verified(s)
  BY <1>2, VerifiedSurvives
<1> HIDE DEF s, m
<1>3. /\ s.review.status # "" => m.review.status = s.review.status
      /\ \E i \in RowsOfKey(rows, k) : m.review.status = rows[i].review.status
  <2>1. "status" \in ReviewColumn
    BY DEF ReviewColumn
  <2> QED BY Zenon, <1>1, <2>1
<1>4. Verified(s) => Verified(m)
  <2>1. "verified" # ""
    BY Zenon
  <2> QED BY Zenon, <1>3, <2>1 DEF Verified
<1>5. Verified(m) => Verified(s)
  BY Zenon, <1>2, <1>3 DEF Verified
<1>6. Extends(m, s)
  BY Zenon, <1>1 DEF Extends
<1>7. Confirms(s, m)
  BY <1>4, <1>5, <1>6 DEF Confirms
<1> QED BY Zenon, <1>1, <1>7 DEF s, m

\* The plan: every merged row confirms the row it replaces and is gathered from the rows
\* that are merged, and a verified row goes only if the one that stays is verified.
LEMMA PlannedVerdicts ==
    ASSUME NEW rows \in Seq(InboxRow), FewRows(rows)
    PROVE  /\ \A u \in DOMAIN Updates(rows) :
                 /\ Confirms(rows[u], Updates(rows)[u])
                 /\ Gathered(rows, DOMAIN Updates(rows) \cup AllLosers(rows), Updates(rows)[u])
           /\ \A l \in AllLosers(rows) : Verified(rows[l]) =>
                 \E u \in DOMAIN Updates(rows) : KeyOf(rows[u]) = KeyOf(rows[l]) /\ Verified(rows[u])
<1>1. ASSUME NEW u \in DOMAIN Updates(rows)
      PROVE  /\ Confirms(rows[u], Updates(rows)[u])
             /\ Gathered(rows, DOMAIN Updates(rows) \cup AllLosers(rows), Updates(rows)[u])
  <2> DEFINE k == KeyOf(rows[u])
             m == Merged(rows, k)
             S == DOMAIN Updates(rows) \cup AllLosers(rows)
  <2>1. /\ Updates(rows)[u] = m /\ u = Survivor(rows, k)
        /\ u \in DOMAIN rows /\ u \notin AllLosers(rows) /\ KeyOf(m) = k
    BY Planned
  <2>2. RowsOfKey(rows, k) # {}
    BY <2>1, RowsOfOneKey
  <2>3. ASSUME NEW i \in RowsOfKey(rows, k) PROVE i \in S /\ KeyOf(rows[i]) = KeyOf(m)
    <3>1. i \in DOMAIN rows /\ KeyOf(rows[i]) = k
      BY RowsOfOneKey
    <3>2. i \notin AllLosers(rows) => i = u
      BY <2>1, <3>1, Planned
    <3> QED BY <2>1, <3>1, <3>2
  <2> HIDE DEF k, S
  <2>4. /\ Confirms(rows[Survivor(rows, k)], m)
        /\ \A c \in ReviewColumn :
              \E i \in RowsOfKey(rows, k) : m.review[c] = rows[i].review[c]
    BY <2>2, MergedVerdict
  <2> HIDE DEF m
  <2>5. Gathered(rows, S, m)
    BY <2>3, <2>4 DEF Gathered
  <2> QED BY <2>1, <2>4, <2>5 DEF S
<1>2. ASSUME NEW l \in AllLosers(rows), Verified(rows[l])
      PROVE  \E u \in DOMAIN Updates(rows) : KeyOf(rows[u]) = KeyOf(rows[l]) /\ Verified(rows[u])
  <2> DEFINE k == KeyOf(rows[l])
             u == Survivor(rows, k)
  <2>1. l \in RowsOfKey(rows, k) /\ u \in DOMAIN Updates(rows) /\ KeyOf(rows[u]) = k
    BY Planned
  <2>2. Verified(rows[u])
    BY <1>2, <2>1, VerifiedSurvives
  <2> QED BY <2>1, <2>2
<1> QED BY <1>1, <1>2

\* What the steps keep of the verdicts, under the two assumptions.
Verdicts == DeletesAnswered /\ VerdictsOutrankRows

\* A row that does not change confirms itself.
LEMMA ConfirmsItself == ASSUME NEW r PROVE Confirms(r, r)
BY Zenon DEF Confirms, Extends

\* Every step keeps the verdicts covered.
LEMMA VerdictStep ==
    ASSUME Verdicts, CleanInv, FirstCovered, VerdictsCovered, [Next]_vars
    PROVE  VerdictsCovered'
<1>0. TypeOK /\ inbox \in Seq(InboxRow) /\ (script = Off \/ Run(script))
  BY TypeParts DEF CleanInv
<1>1. ASSUME script' = Off PROVE VerdictsCovered'
  BY <1>1 DEF VerdictsCovered, Writing, Off
<1>2. ASSUME NEW a \in Listed, NEW first \in 0..MaxFirst, ListAccount(a, first)
      PROVE  VerdictsCovered'
  BY <1>0, <1>1, <1>2, ListStep
<1>3. ASSUME NEW i \in Filled(inbox), FillId(i) PROVE VerdictsCovered'
  BY <1>0, <1>1, <1>3, FillStep
<1>4. ASSUME NEW i \in Filled(inbox), NEW d \in Decision, Review(i, d) PROVE VerdictsCovered'
  <2>1. /\ script' = script /\ DOMAIN inbox' = DOMAIN inbox
        /\ \A j \in DOMAIN inbox :
              KeyOf(inbox'[j]) = KeyOf(inbox[j]) /\ (j # i => inbox'[j] = inbox[j])
    BY <1>0, <1>4, ReviewStep
  <2>2. Writing => /\ i \notin DOMAIN script.updates \cup script.losers
                   /\ DOMAIN script.updates \cup script.losers \subseteq DOMAIN inbox
    BY <1>4 DEF Review, Involved, Writing, FirstCovered
  <2>3. Writing => \A j \in DOMAIN script.updates \cup script.losers :
                      inbox'[j] = inbox[j] /\ KeyOf(inbox'[j]) = KeyOf(inbox[j])
    BY <2>1, <2>2
  <2>4. ASSUME script.pc = "update", NEW u \in DOMAIN script.updates
        PROVE  /\ Confirms(inbox'[u], script.updates[u])
               /\ Gathered(inbox', DOMAIN script.updates \cup script.losers, script.updates[u])
    <3>1. /\ Confirms(inbox[u], script.updates[u])
          /\ Gathered(inbox, DOMAIN script.updates \cup script.losers, script.updates[u])
      BY <2>4 DEF VerdictsCovered
    <3>2. \A j \in DOMAIN script.updates \cup script.losers : inbox'[j] = inbox[j]
      BY <2>3, <2>4 DEF Writing
    <3>3. Gathered(inbox', DOMAIN script.updates \cup script.losers, script.updates[u])
      BY <3>1, <3>2 DEF Gathered
    <3> QED BY <3>1, <3>2, <3>3
  <2>5. ASSUME Writing, NEW l \in script.losers, Verified(inbox'[l])
        PROVE  \E u \in DOMAIN script.updates :
                  KeyOf(inbox'[u]) = KeyOf(inbox'[l]) /\ Verified(inbox'[u])
    <3>1. Verified(inbox[l])
      BY <2>3, <2>5
    <3>2. PICK u \in DOMAIN script.updates : KeyOf(inbox[u]) = KeyOf(inbox[l]) /\ Verified(inbox[u])
      BY <2>5, <3>1 DEF VerdictsCovered
    <3> QED BY <2>3, <2>5, <3>2
  <2> QED BY <2>1, <2>4, <2>5 DEF VerdictsCovered, Writing
<1>5. CASE Begin
  <2>1. /\ script'.updates = Updates(inbox) /\ script'.losers = AllLosers(inbox)
        /\ inbox' = inbox
    BY <1>0, <1>5, BeginStep
  <2>2. FewRows(inbox)
    <3>1. Len(inbox) <= MaxRows /\ MaxRows <= 3890 /\ MaxRows \in Nat /\ Len(inbox) \in Nat
      BY <1>0, CleanupAssumption, TypeParts DEF Verdicts, VerdictsOutrankRows
    <3> QED BY <3>1, SMT DEF FewRows
  <2>3. /\ \A u \in DOMAIN Updates(inbox) :
              /\ Confirms(inbox[u], Updates(inbox)[u])
              /\ Gathered(inbox, DOMAIN Updates(inbox) \cup AllLosers(inbox), Updates(inbox)[u])
        /\ \A l \in AllLosers(inbox) : Verified(inbox[l]) =>
              \E u \in DOMAIN Updates(inbox) :
                 KeyOf(inbox[u]) = KeyOf(inbox[l]) /\ Verified(inbox[u])
    BY <1>0, <2>2, PlannedVerdicts
  <2> QED BY <2>1, <2>3 DEF VerdictsCovered
<1>6. CASE RunStep
  <2>0. \/ inbox' = inbox
        \/ /\ inbox' = Applied /\ script.pc \in {"update", "delete"}
           /\ script.pc = script'.pc => script.pc \in LostAnswers
           /\ Run(script)
    BY <1>0, <1>6, RunSteps
  <2>1. ASSUME script.pc = "update", Run(script)
        PROVE  /\ DOMAIN inbox' = DOMAIN inbox
               /\ \A i \in DOMAIN inbox : KeyOf(inbox'[i]) = KeyOf(inbox[i])
               /\ \A i \in DOMAIN inbox : i \notin DOMAIN script.updates => inbox'[i] = inbox[i]
               /\ \/ inbox' = inbox
                  \/ \A u \in DOMAIN script.updates : inbox'[u] = script.updates[u]
               /\ DOMAIN script.updates \subseteq DOMAIN inbox
    <3>1. /\ DOMAIN Applied = DOMAIN inbox
          /\ \A i \in DOMAIN inbox :
                /\ KeyOf(Applied[i]) = KeyOf(inbox[i])
                /\ Applied[i] = IF i \in DOMAIN script.updates THEN script.updates[i] ELSE inbox[i]
      BY <1>0, <2>1, AfterUpdate DEF CleanInv
    <3>2. DOMAIN script.updates \subseteq DOMAIN inbox
      BY <2>1 DEF FirstCovered, Writing
    <3>3. CASE inbox' = inbox
      BY <3>2, <3>3
    <3>4. CASE inbox' = Applied
      BY <3>1, <3>2, <3>4
    <3> QED BY <2>0, <3>3, <3>4
  <2>3. CASE script' = Off
    BY <1>1, <2>3
  <2>4. CASE script' # Off
    <3>1. /\ Run(script)
          /\ script'.updates = script.updates /\ script'.losers = script.losers
          /\ \/ script'.pc = script.pc /\ script'.pc \in {"update", "delete"}
             \/ script.pc = "update" /\ script'.pc = "delete" /\ inbox' = Applied
             \/ script.pc = "delete" /\ script'.pc = "verify" /\ inbox' = Applied
      BY <1>0, <1>6, <2>4, RunSteps
    <3>2. CASE script.pc = "update"
      <4>1. \A u \in DOMAIN script.updates :
               /\ Confirms(inbox[u], script.updates[u])
               /\ Gathered(inbox, DOMAIN script.updates \cup script.losers, script.updates[u])
        BY <3>2 DEF VerdictsCovered
      <4>2. ASSUME NEW u \in DOMAIN script.updates
            PROVE  /\ Confirms(inbox'[u], script.updates[u])
                   /\ Gathered(inbox', DOMAIN script.updates \cup script.losers, script.updates[u])
        <5>1. CASE inbox' = inbox
          BY <4>1, <5>1
        <5>2. CASE inbox'[u] = script.updates[u]
          <6>1. Confirms(inbox'[u], script.updates[u])
            BY <5>2, ConfirmsItself
          <6>2. Gathered(inbox', DOMAIN script.updates \cup script.losers, script.updates[u])
            BY <5>2 DEF Gathered
          <6> QED BY <6>1, <6>2
        <5> QED BY <2>1, <3>1, <3>2, <5>1, <5>2
      <4>3. ASSUME NEW u \in DOMAIN script.updates, Verified(inbox[u]) PROVE Verified(inbox'[u])
        <5>1. inbox'[u] \in {inbox[u], script.updates[u]}
          BY <2>1, <3>1, <3>2
        <5>2. Verified(script.updates[u])
          BY <4>1, <4>3 DEF Confirms
        <5> QED BY <4>3, <5>1, <5>2
      <4>4. ASSUME NEW l \in script.losers, Verified(inbox'[l])
            PROVE  \E u \in DOMAIN script.updates :
                      KeyOf(inbox'[u]) = KeyOf(inbox'[l]) /\ Verified(inbox'[u])
        <5>1. l \in DOMAIN inbox /\ l \notin DOMAIN script.updates
          BY <3>1, <3>2 DEF Run, FirstCovered, Writing
        <5>2. inbox'[l] = inbox[l]
          BY <2>1, <3>1, <3>2, <5>1
        <5>3. PICK u \in DOMAIN script.updates : KeyOf(inbox[u]) = KeyOf(inbox[l]) /\ Verified(inbox[u])
          BY <3>2, <4>4, <5>2 DEF VerdictsCovered, Writing
        <5>4. u \in DOMAIN inbox /\ KeyOf(inbox'[u]) = KeyOf(inbox[u])
          BY <2>1, <3>1, <3>2
        <5> QED BY <4>3, <5>2, <5>3, <5>4
      <4> QED BY <3>1, <4>2, <4>4 DEF VerdictsCovered
    <3>3. CASE script.pc = "delete"
      <4>1. CASE script'.pc = "verify"
        BY <4>1 DEF VerdictsCovered, Writing
      <4>2. CASE script'.pc = "delete"
        <5>1. inbox' = inbox
          BY <2>0, <3>3, <4>2 DEF Verdicts, DeletesAnswered
        <5>2. \A l \in script.losers : Verified(inbox[l]) =>
                 \E u \in DOMAIN script.updates :
                    KeyOf(inbox[u]) = KeyOf(inbox[l]) /\ Verified(inbox[u])
          BY <3>3 DEF VerdictsCovered, Writing
        <5> QED BY <3>1, <4>2, <5>1, <5>2 DEF VerdictsCovered
      <4> QED BY <3>1, <3>3, <4>1, <4>2
    <3> QED BY <3>1, <3>2, <3>3
  <2> QED BY <2>3, <2>4
<1>7. CASE UNCHANGED vars
  <2>1. inbox' = inbox /\ script' = script
    BY <1>7 DEF vars
  <2> QED BY <2>1 DEF VerdictsCovered, Writing
<1> QED BY <1>2, <1>3, <1>4, <1>5, <1>6, <1>7 DEF Next, RunStep

\* A row that is there is gathered from the rows that are.
LEMMA GatheredItself ==
    ASSUME NEW rows, NEW S, NEW i \in S PROVE Gathered(rows, S, rows[i])
BY DEF Gathered

\* What a step of the script does to a row: it comes from one of the same account and
\* verdict and is gathered from rows of the account, and a verified one goes only if a
\* verified one of the account stays.
LEMMA VerdictMoves ==
    ASSUME Verdicts, CleanInv, FirstCovered, VerdictsCovered, Begin \/ RunStep
    PROVE  /\ \A j \in DOMAIN inbox' : \E i \in DOMAIN inbox :
                 KeyOf(inbox[i]) = KeyOf(inbox'[j]) /\ Confirms(inbox[i], inbox'[j])
           /\ \A j \in DOMAIN inbox' : Gathered(inbox, DOMAIN inbox, inbox'[j])
           /\ \A i \in DOMAIN inbox : Verified(inbox[i]) =>
                 \E j \in DOMAIN inbox', was \in DOMAIN inbox :
                    /\ KeyOf(inbox'[j]) = KeyOf(inbox[i]) /\ KeyOf(inbox[was]) = KeyOf(inbox[i])
                    /\ Verified(inbox[was]) /\ Confirms(inbox[was], inbox'[j])
<1>0. TypeOK /\ inbox \in Seq(InboxRow)
  BY TypeParts DEF CleanInv
<1>1. CASE inbox' = inbox
  <2>1. \A i \in DOMAIN inbox : Confirms(inbox[i], inbox'[i])
    BY <1>1, ConfirmsItself
  <2>2. \A i \in DOMAIN inbox : Gathered(inbox, DOMAIN inbox, inbox'[i])
    BY <1>1, GatheredItself
  <2> QED BY <1>1, <2>1, <2>2
<1>2. CASE inbox' = Applied /\ script.pc = "update"
  <2>1. /\ DOMAIN inbox' = DOMAIN inbox
        /\ \A i \in DOMAIN inbox :
              /\ KeyOf(inbox'[i]) = KeyOf(inbox[i])
              /\ inbox'[i] = IF i \in DOMAIN script.updates THEN script.updates[i] ELSE inbox[i]
    BY <1>0, <1>2, AfterUpdate DEF CleanInv
  <2>2. \A u \in DOMAIN script.updates : Confirms(inbox[u], script.updates[u])
    BY <1>2 DEF VerdictsCovered
  <2>3. \A i \in DOMAIN inbox : Confirms(inbox[i], inbox'[i])
    BY <2>1, <2>2, ConfirmsItself
  <2>4. ASSUME NEW i \in DOMAIN inbox' PROVE Gathered(inbox, DOMAIN inbox, inbox'[i])
    <3>1. CASE i \in DOMAIN script.updates
      <4>1. Gathered(inbox, DOMAIN script.updates \cup script.losers, inbox'[i])
        BY <1>2, <2>1, <3>1 DEF VerdictsCovered
      <4>2. DOMAIN script.updates \cup script.losers \subseteq DOMAIN inbox
        BY <1>2 DEF FirstCovered, Writing
      <4> QED BY <4>1, <4>2 DEF Gathered
    <3>2. CASE i \notin DOMAIN script.updates
      BY <2>1, <3>2, GatheredItself
    <3> QED BY <3>1, <3>2
  <2> QED BY <2>1, <2>3, <2>4
<1>3. CASE inbox' = Applied /\ script.pc = "delete"
  <2>1. PICK at : Renumbers(at, inbox', inbox, DOMAIN inbox \ script.losers)
    BY <1>0, <1>3, AfterDelete
  <2>2. DOMAIN inbox' = 1..Len(inbox')
    BY <1>0, <1>3, AfterDelete
  <2>3. \A j \in DOMAIN inbox' : at[j] \in DOMAIN inbox /\ inbox'[j] = inbox[at[j]]
    BY <2>1, <2>2 DEF Renumbers
  <2>4. \A m \in DOMAIN inbox \ script.losers : \E j \in DOMAIN inbox' : inbox'[j] = inbox[m]
    BY <2>1, <2>2 DEF Renumbers
  <2>5. ASSUME NEW i \in DOMAIN inbox, Verified(inbox[i])
        PROVE  \E was \in DOMAIN inbox \ script.losers :
                  KeyOf(inbox[was]) = KeyOf(inbox[i]) /\ Verified(inbox[was])
    <3>1. CASE i \notin script.losers
      BY <2>5, <3>1
    <3>2. CASE i \in script.losers
      <4>1. PICK u \in DOMAIN script.updates :
               KeyOf(inbox[u]) = KeyOf(inbox[i]) /\ Verified(inbox[u])
        BY <1>3, <2>5, <3>2 DEF VerdictsCovered, Writing
      <4>2. u \in DOMAIN inbox
        BY <1>3 DEF FirstCovered, Writing
      <4>3. Run(script)
        BY <1>0, <1>3, TypeParts DEF Off
      <4>4. u \notin script.losers
        BY <4>3 DEF Run
      <4> QED BY <4>1, <4>2, <4>4
    <3> QED BY <3>1, <3>2
  <2>6. ASSUME NEW i \in DOMAIN inbox, Verified(inbox[i])
        PROVE  \E j \in DOMAIN inbox', was \in DOMAIN inbox :
                  /\ KeyOf(inbox'[j]) = KeyOf(inbox[i]) /\ KeyOf(inbox[was]) = KeyOf(inbox[i])
                  /\ Verified(inbox[was]) /\ Confirms(inbox[was], inbox'[j])
    <3>1. PICK was \in DOMAIN inbox \ script.losers :
             KeyOf(inbox[was]) = KeyOf(inbox[i]) /\ Verified(inbox[was])
      BY <2>5, <2>6
    <3>2. PICK j \in DOMAIN inbox' : inbox'[j] = inbox[was]
      BY <2>4
    <3>3. Confirms(inbox[was], inbox'[j])
      BY <3>2, ConfirmsItself
    <3> QED BY <3>1, <3>2, <3>3
  <2>7. ASSUME NEW j \in DOMAIN inbox'
        PROVE  /\ KeyOf(inbox[at[j]]) = KeyOf(inbox'[j]) /\ Confirms(inbox[at[j]], inbox'[j])
               /\ Gathered(inbox, DOMAIN inbox, inbox'[j])
    BY <2>3, ConfirmsItself, GatheredItself
  <2> QED BY <2>3, <2>6, <2>7
<1>4. inbox' = inbox \/ (inbox' = Applied /\ script.pc \in {"update", "delete"})
  <2>1. CASE Begin
    BY <2>1 DEF Begin
  <2>2. CASE RunStep
    BY <1>0, <2>2, RunSteps
  <2> QED BY <2>1, <2>2
<1> QED BY <1>1, <1>2, <1>3, <1>4

\* The steps of the script are those that change its state.
LEMMA ScriptStep == ASSUME [Next]_vars, script' # script PROVE Begin \/ RunStep
BY DEF Next, RunStep, ListAccount, FillId, Review, vars

\* A step of the script: the verified row the account of a verified row i keeps.
LEMMA VerifiedKept ==
    ASSUME Verdicts, CleanInv, CleanInv', FirstCovered, VerdictsCovered,
           [Next]_vars, script' # script, NEW i \in Filled(inbox), Verified(inbox[i])
    PROVE  \E j \in RowsOfKey(inbox', KeyOf(inbox[i])), was \in RowsOfKey(inbox, KeyOf(inbox[i])) :
              /\ Verified(inbox'[j]) /\ Verified(inbox[was])
              /\ Extends(inbox'[j], inbox[was])
<1>0. inbox \in Seq(InboxRow) /\ inbox' \in Seq(InboxRow)
  BY DEF CleanInv, TypeOK
<1>1. i \in DOMAIN inbox
  BY <1>0, RowsOfOneKey
<1>2. PICK j \in DOMAIN inbox', was \in DOMAIN inbox :
         /\ KeyOf(inbox'[j]) = KeyOf(inbox[i]) /\ KeyOf(inbox[was]) = KeyOf(inbox[i])
         /\ Verified(inbox[was]) /\ Confirms(inbox[was], inbox'[j])
  BY <1>1, ScriptStep, VerdictMoves
<1>3. Verified(inbox'[j]) /\ Extends(inbox'[j], inbox[was])
  BY Zenon, <1>2 DEF Confirms
<1>4. j \in RowsOfKey(inbox', KeyOf(inbox[i])) /\ was \in RowsOfKey(inbox, KeyOf(inbox[i]))
  BY <1>0, <1>2, RowsOfOneKey
<1> QED BY <1>2, <1>3, <1>4

\* If the deletion is not repeated and there are at most 3890 rows, an account with a
\* verified row keeps one through the cleanup, with all that a curator entered in a row that
\* was verified.
THEOREM VerdictsKept ==
    DeletesAnswered /\ VerdictsOutrankRows /\ Spec => VerifiedReviewKept
<1> SUFFICES ASSUME Verdicts PROVE Spec => VerifiedReviewKept
  BY DEF Verdicts
<1>1. Init => FirstCovered /\ VerdictsCovered
  BY DEF Init, FirstCovered, VerdictsCovered, Writing, Off
<1>2. CleanInv /\ FirstCovered /\ [Next]_vars => FirstCovered'
  BY FirstStep DEF Verdicts
<1>3. CleanInv /\ FirstCovered /\ VerdictsCovered /\ [Next]_vars => VerdictsCovered'
  BY VerdictStep
<1>4. CleanInv /\ CleanInv' /\ FirstCovered /\ VerdictsCovered /\ [Next]_vars =>
        [script' # script =>
           \A i \in Filled(inbox) : Verified(inbox[i]) =>
              LET k == KeyOf(inbox[i])
              IN  \E j \in RowsOfKey(inbox', k), was \in RowsOfKey(inbox, k) :
                     /\ Verified(inbox'[j]) /\ Verified(inbox[was])
                     /\ Extends(inbox'[j], inbox[was])]_vars
  BY VerifiedKept
<1> QED BY <1>1, <1>2, <1>3, <1>4, CleanInvariant, PTL DEF Spec, VerifiedReviewKept

\* An exported row is known by its platform_id, so its key is that of its account.
LEMMA ExportedKey ==
    ASSUME NEW m \in InboxRow, Identified(m.acct) PROVE KeyOf(m) = Key(m.acct)
<1>1. m.acct \in Account /\ m.acct.pid # NoPid
  BY Columns DEF Identified
<1>2. KeyOf(m) = IdKey(m.acct.platform, m.acct.pid)
  BY <1>1, KeyByKnownId DEF KnownId
<1>3. Key(m.acct) = IdKey(m.acct.platform, m.acct.pid)
  BY <1>1 DEF Key
<1> QED BY <1>2, <1>3

\* What a proposal carries is what its row has.
LEMMA ProposedColumns ==
    ASSUME NEW m PROVE \A c \in ExportedColumn : Proposed(m)[c] = m.review[c]
BY DEF Proposed, ExportedColumn

\* A step of the script: the verified row that a proposal extends.
LEMMA ProposalKept ==
    ASSUME Verdicts, CleanInv, CleanInv', FirstCovered, VerdictsCovered,
           [Next]_vars, script' # script, NEW p \in Proposals(inbox', Personas)
    PROVE  LET rows == RowsOfKey(inbox, Key(p.account))
           IN  \E i \in rows :
                  /\ Verified(inbox[i])
                  /\ \A c \in ExportedColumn :
                        /\ inbox[i].review[c] \in {"", p[c]}
                        /\ \E j \in rows : inbox[j].review[c] = p[c]
<1>0. inbox \in Seq(InboxRow) /\ inbox' \in Seq(InboxRow)
  BY DEF CleanInv, TypeOK
<1>1. ~Refuses(inbox', Personas)
  BY DEF Proposals
<1>2. PICK n \in ToExport(inbox') : p = Proposed(inbox'[n])
  BY <1>1 DEF Proposals
<1> DEFINE m == inbox'[n]
<1>3. n \in DOMAIN inbox' /\ Verified(m) /\ Identified(m.acct)
  BY Zenon, <1>1 DEF Refuses, ToExport
<1>4. PICK i \in DOMAIN inbox : KeyOf(inbox[i]) = KeyOf(m) /\ Confirms(inbox[i], m)
  BY <1>3, ScriptStep, VerdictMoves
<1>5. Gathered(inbox, DOMAIN inbox, m)
  BY <1>3, ScriptStep, VerdictMoves
<1>6. m \in InboxRow
  BY <1>0, <1>3, RowsOfOneKey
<1>7. p.account = m.acct /\ \A c \in ExportedColumn : p[c] = m.review[c]
  BY <1>2, ProposedColumns DEF Proposed
<1> HIDE DEF m
<1>8. Key(p.account) = KeyOf(m)
  BY <1>3, <1>6, <1>7, ExportedKey
<1> DEFINE rows == RowsOfKey(inbox, Key(p.account))
<1>9. \A j \in DOMAIN inbox : KeyOf(inbox[j]) = KeyOf(m) => j \in rows
  BY <1>0, <1>8, RowsOfOneKey
<1> HIDE DEF rows
<1>10. Verified(inbox[i]) /\ i \in rows
  BY <1>3, <1>4, <1>9 DEF Confirms
<1>11. ASSUME NEW c \in ExportedColumn
       PROVE  inbox[i].review[c] \in {"", p[c]} /\ \E j \in rows : inbox[j].review[c] = p[c]
  <2>1. c \in ReviewColumn
    BY DEF ReviewColumn
  <2>2. inbox[i].review[c] \in {"", p[c]}
    BY Zenon, <1>4, <1>7, <2>1 DEF Confirms, Extends
  <2>3. PICK j \in DOMAIN inbox : KeyOf(inbox[j]) = KeyOf(m) /\ inbox[j].review[c] = m.review[c]
    BY <1>5, <2>1 DEF Gathered
  <2>4. \E r \in rows : inbox[r].review[c] = p[c]
    BY <1>7, <1>9, <2>3
  <2> QED BY Zenon, <2>2, <2>4
<1> QED BY Zenon, <1>10, <1>11 DEF rows

\* Under the same assumptions every proposal that the cleanup leads to has all that one
\* verified row of the account had, and in its other columns what a row of the account had.
THEOREM ProposalsVerified ==
    DeletesAnswered /\ VerdictsOutrankRows /\ Spec => ProposalsOfVerified
<1> SUFFICES ASSUME Verdicts PROVE Spec => ProposalsOfVerified
  BY DEF Verdicts
<1>1. Init => FirstCovered /\ VerdictsCovered
  BY DEF Init, FirstCovered, VerdictsCovered, Writing, Off
<1>2. CleanInv /\ FirstCovered /\ [Next]_vars => FirstCovered'
  BY FirstStep DEF Verdicts
<1>3. CleanInv /\ FirstCovered /\ VerdictsCovered /\ [Next]_vars => VerdictsCovered'
  BY VerdictStep
<1>4. CleanInv /\ CleanInv' /\ FirstCovered /\ VerdictsCovered /\ [Next]_vars =>
        [script' # script =>
           \A p \in Proposals(inbox', Personas) :
              LET rows == RowsOfKey(inbox, Key(p.account))
              IN  \E i \in rows :
                     /\ Verified(inbox[i])
                     /\ \A c \in ExportedColumn :
                           /\ inbox[i].review[c] \in {"", p[c]}
                           /\ \E j \in rows : inbox[j].review[c] = p[c]]_vars
  BY ProposalKept
<1> QED BY <1>1, <1>2, <1>3, <1>4, CleanInvariant, PTL DEF Spec, ProposalsOfVerified
=============================================================================
