------------------------- MODULE QuotaLedger_proofs -------------------------
(***************************************************************************)
(* The daily budget holds for any number of callers, processes and days.   *)
(*                                                                         *)
(* The argument: whoever is between BEGIN IMMEDIATE and COMMIT owns the    *)
(* database (Exclusion), so the amount it read is still the amount in the  *)
(* table when it commits, and that amount leaves room for its cost         *)
(* (FreshRead).  What was sent on a day and what callers at Send have      *)
(* charged for it stays within the ledger (ChargedInv); what a day takes   *)
(* beyond that are calls that were under way at midnight, each once        *)
(* (ReceivedInv).  Sums over callers are cardinalities of sets of units.   *)
(***************************************************************************)
EXTENDS QuotaLedger, FiniteSetTheorems, TLAPS

InTransaction(c) == call[c].pc \in {"read", "commit"}

Exclusion == \A c \in Caller : InTransaction(c) <=> lock = c

FreshRead ==
    \A c \in Caller : At(c, "commit") =>
        /\ call[c].read = spent[call[c].day]
        /\ Fits(c, call[c].read)

LedgerInv == TypeOK /\ Exclusion /\ FreshRead /\ WithinBudget

\* A call moves to another place of the code, and its other fields keep their types.
LEMMA GotoType ==
    ASSUME TypeOK, NEW c \in Caller,
           NEW pc \in {"idle", "try", "begin", "read", "commit", "send", "answer", "backoff"},
           Goto(c, pc)
    PROVE  call' \in [Caller -> Call]
<1>1. [call[c] EXCEPT !.pc = pc] \in Call
  BY DEF TypeOK, Call
<1> QED BY <1>1 DEF TypeOK, Goto

LEMMA ReturnType == ASSUME TypeOK, NEW c \in Caller, Return(c) PROVE call' \in [Caller -> Call]
<1>1. Idle \in Call
  BY LedgerAssumption DEF Idle, Call, Day
<1> QED BY <1>1 DEF TypeOK, Return

\* Every step keeps the table of callers a table of calls.
LEMMA TypeStep == ASSUME TypeOK, Next PROVE TypeOK'
<1> USE LedgerAssumption
<1>1. ASSUME NEW c \in Caller, Request(c) \/ Progress(c) PROVE TypeOK'
  <2>0. call[c] \in Call /\ call[c].day \in Day /\ call[c].try \in 0..(Attempts - 1)
    BY DEF TypeOK, Call
  <2>1. CASE Request(c) \/ BackoffEnds(c) \/ BeginTx(c)
    <3>1. call' \in [Caller -> Call]
      BY <2>1, GotoType DEF Request, BackoffEnds, BeginTx
    <3> QED BY <2>1, <3>1 DEF Request, BackoffEnds, BeginTx, TypeOK
  <2>2. CASE Cancelled(c) \/ Busy(c) \/ Rollback(c) \/ Answered(c)
    <3>1. call' \in [Caller -> Call]
      BY <2>2, ReturnType DEF Cancelled, Busy, Rollback, Answered
    <3> QED BY <2>2, <3>1 DEF Cancelled, Busy, Rollback, Answered, TypeOK
  <2>3. CASE StampDay(c)
    <3>1. [call[c] EXCEPT !.pc = "begin", !.day = today] \in Call
      BY <2>0 DEF TypeOK, Call
    <3> QED BY <2>3, <3>1 DEF StampDay, TypeOK
  <2>4. CASE ReadSpent(c)
    <3>1. [call[c] EXCEPT !.pc = "commit", !.read = spent[call[c].day]] \in Call
      BY <2>0 DEF TypeOK, Call
    <3> QED BY <2>4, <3>1 DEF ReadSpent, TypeOK
  <2>5. CASE Commit(c)
    <3>1. call' \in [Caller -> Call]
      BY <2>5, GotoType DEF Commit
    <3>2. call[c].read + Cost[c] \in Nat
      BY <2>0 DEF Call
    <3>3. spent' \in [Day -> Nat]
      BY <2>5, <2>0, <3>2 DEF Commit, TypeOK
    <3> QED BY <2>5, <3>1, <3>3 DEF Commit, TypeOK
  <2>6. CASE Send(c)
    <3>1. call' \in [Caller -> Call]
      BY <2>6, GotoType DEF Send
    <3>2. sent' \in [Day -> Nat] /\ used' \in [Day -> Nat]
      BY <2>6, <2>0 DEF Send, TypeOK
    <3> QED BY <2>6, <3>1, <3>2 DEF Send, TypeOK
  <2>7. CASE Retry(c)
    <3>1. call[c].try + 1 \in 0..(Attempts - 1)
      BY <2>7, <2>0 DEF Retry, AttemptsLeft
    <3>2. [call[c] EXCEPT !.pc = "backoff", !.try = @ + 1] \in Call
      BY <2>0, <3>1 DEF Call
    <3> QED BY <2>7, <3>2 DEF Retry, TypeOK
  <2> QED BY <1>1, <2>1, <2>2, <2>3, <2>4, <2>5, <2>6, <2>7 DEF Progress
<1>2. ASSUME NEW p \in Process, Crash(p) PROVE TypeOK'
  <2>1. Idle \in Call
    BY DEF Idle, Call, Day
  <2> QED BY <1>2, <2>1 DEF Crash, TypeOK
<1>3. CASE Midnight
  BY <1>3 DEF Midnight, TypeOK, Day
<1> QED BY <1>1, <1>2, <1>3 DEF Next

\* What a step of one caller leaves of the others, and of the ledger.
LEMMA LedgerStep == ASSUME LedgerInv, Next PROVE LedgerInv'
<1> USE LedgerAssumption DEF LedgerInv
<1>1. TypeOK'
  BY TypeStep
<1>2. Exclusion'
  <2> SUFFICES ASSUME NEW d \in Caller PROVE (InTransaction(d) <=> lock = d)'
    BY DEF Exclusion
  <2> USE DEF TypeOK, Exclusion, InTransaction, Call
  <2>1. ASSUME NEW c \in Caller, Request(c) \/ Cancelled(c) \/ StampDay(c) \/ Busy(c)
        PROVE (InTransaction(d) <=> lock = d)'
    BY <2>1 DEF Request, Cancelled, StampDay, Busy, At, Goto, Return, Idle
  <2>2. ASSUME NEW c \in Caller, BeginTx(c) PROVE (InTransaction(d) <=> lock = d)'
    BY <2>2 DEF BeginTx, At, Goto
  <2>3. ASSUME NEW c \in Caller, ReadSpent(c) PROVE (InTransaction(d) <=> lock = d)'
    BY <2>3 DEF ReadSpent, At
  <2>4. ASSUME NEW c \in Caller, Rollback(c) \/ Commit(c)
        PROVE (InTransaction(d) <=> lock = d)'
    BY <2>4 DEF Rollback, Commit, At, Goto, Return, Idle
  <2>5. ASSUME NEW c \in Caller, Send(c) \/ Answered(c) \/ Retry(c) \/ BackoffEnds(c)
        PROVE (InTransaction(d) <=> lock = d)'
    <3>1. CASE Send(c)
      <4>1. /\ call[c].pc = "send" /\ call' = [call EXCEPT ![c].pc = "answer"] /\ lock' = lock
        BY <3>1 DEF Send, At, Goto
      <4> QED BY <4>1
    <3> QED BY <2>5, <3>1 DEF Answered, Retry, BackoffEnds, At, Goto, Return, Idle
  <2>6. ASSUME NEW p \in Process, Crash(p) PROVE (InTransaction(d) <=> lock = d)'
    BY <2>6 DEF Crash, Idle
  <2>7. CASE Midnight
    BY <2>7 DEF Midnight
  <2> QED BY <2>1, <2>2, <2>3, <2>4, <2>5, <2>6, <2>7 DEF Next, Progress
<1>3. FreshRead'
  <2> SUFFICES ASSUME NEW d \in Caller, At(d, "commit")'
               PROVE (call[d].read = spent[call[d].day] /\ Fits(d, call[d].read))'
    BY DEF FreshRead
  <2> USE DEF TypeOK, FreshRead, Fits, At, Call
  <2>1. ASSUME NEW c \in Caller, ReadSpent(c)
        PROVE (call[d].read = spent[call[d].day] /\ Fits(d, call[d].read))'
    BY <2>1 DEF ReadSpent
  <2>2. ASSUME NEW c \in Caller, Commit(c)
        PROVE (call[d].read = spent[call[d].day] /\ Fits(d, call[d].read))'
    BY <2>2 DEF Commit, Goto, Exclusion, InTransaction
  <2>3. ASSUME NEW c \in Caller,
               Request(c) \/ Cancelled(c) \/ StampDay(c) \/ BeginTx(c) \/ Busy(c) \/ Rollback(c)
        PROVE (call[d].read = spent[call[d].day] /\ Fits(d, call[d].read))'
    BY <2>3 DEF Request, Cancelled, StampDay, BeginTx, Busy, Rollback, Goto, Return, Idle
  <2>4. ASSUME NEW c \in Caller, Send(c) \/ Answered(c) \/ Retry(c) \/ BackoffEnds(c)
        PROVE (call[d].read = spent[call[d].day] /\ Fits(d, call[d].read))'
    <3>1. CASE Send(c)
      <4>1. /\ call[c].pc = "send" /\ call' = [call EXCEPT ![c].pc = "answer"] /\ spent' = spent
        BY <3>1 DEF Send, Goto
      <4> QED BY <4>1
    <3> QED BY <2>4, <3>1 DEF Answered, Retry, BackoffEnds, Goto, Return, Idle
  <2>5. ASSUME NEW p \in Process, Crash(p)
        PROVE (call[d].read = spent[call[d].day] /\ Fits(d, call[d].read))'
    BY <2>5 DEF Crash, Idle
  <2>6. CASE Midnight
    BY <2>6 DEF Midnight
  <2> QED BY <2>1, <2>2, <2>3, <2>4, <2>5, <2>6 DEF Next, Progress
<1>4. WithinBudget'
  <2>1. ASSUME NEW c \in Caller, Commit(c) PROVE WithinBudget'
    BY <2>1 DEF Commit, WithinBudget, FreshRead, Fits, At, TypeOK, Call
  <2>2. CASE UNCHANGED spent
    BY <2>2 DEF WithinBudget
  <2>3. (\E c \in Caller : Commit(c)) \/ UNCHANGED spent
    BY DEF Next, Progress, Request, Cancelled, StampDay, BeginTx, Busy, ReadSpent,
           Rollback, Send, Answered, Retry, BackoffEnds, Crash, Midnight
  <2> QED BY <2>1, <2>2, <2>3
<1> QED BY <1>1, <1>2, <1>3, <1>4

LEMMA LedgerInit == ASSUME Init PROVE LedgerInv
<1> USE LedgerAssumption DEF Init
<1>1. TypeOK
  BY DEF TypeOK, Call, Idle, Day
<1>2. Exclusion /\ FreshRead
  BY DEF Exclusion, FreshRead, InTransaction, At, Idle
<1>3. WithinBudget
  BY DEF WithinBudget
<1> QED BY <1>1, <1>2, <1>3 DEF LedgerInv

LEMMA LedgerStutter == ASSUME LedgerInv, UNCHANGED vars PROVE LedgerInv'
BY DEF LedgerInv, TypeOK, Exclusion, InTransaction, FreshRead, At, Fits, WithinBudget, vars

THEOREM LedgerInvariant == Spec => []LedgerInv
<1>1. LedgerInv /\ [Next]_vars => LedgerInv'
  BY LedgerStep, LedgerStutter
<1> QED BY LedgerInit, <1>1, PTL DEF Spec

\* Every call, charge and counter has its type in every reachable state.
THEOREM TypeCorrect == Spec => []TypeOK
<1>1. LedgerInv => TypeOK
  BY DEF LedgerInv
<1> QED BY LedgerInvariant, <1>1, PTL

\* Store.Spend never lets the ledger of a day pass the daily budget, for any number
\* of goroutines and processes and wherever they die.
THEOREM BudgetHolds == Spec => []WithinBudget
<1>1. LedgerInv => WithinBudget
  BY DEF LedgerInv
<1> QED BY LedgerInvariant, <1>1, PTL

\* No charge is lost: a day's ledger changes by exactly one caller's cost at a time.
THEOREM NoChargeLost == Spec => ChargesKept
<1> DEFINE Charged == \A d \in Day : spent'[d] # spent[d] =>
                         \E c \in Caller : spent'[d] = spent[d] + Cost[c]
<1>1. LedgerInv /\ [Next]_vars => [Charged]_vars
  <2> SUFFICES ASSUME LedgerInv, Next PROVE Charged
    OBVIOUS
  <2>1. ASSUME NEW c \in Caller, Commit(c) PROVE Charged
    BY <2>1 DEF Commit, LedgerInv, TypeOK, FreshRead, At, Call
  <2>2. (\E c \in Caller : Commit(c)) \/ UNCHANGED spent
    BY DEF Next, Progress, Request, Cancelled, StampDay, BeginTx, Busy, ReadSpent,
           Rollback, Send, Answered, Retry, BackoffEnds, Crash, Midnight
  <2> QED BY <2>1, <2>2
<1> QED BY LedgerInvariant, <1>1, PTL DEF Spec, ChargesKept

------------------------------------------------------------------------------
(***************************************************************************)
(* What is sent against what is charged.  The sums over callers are        *)
(* counted as sets of units: Units(S) has Cost[c] members for each c in S. *)
(***************************************************************************)

LEMMA UnitsOfOne ==
    ASSUME NEW c \in Caller
    PROVE  IsFiniteSet({c} \X (1..Cost[c])) /\ Cardinality({c} \X (1..Cost[c])) = Cost[c]
<1>1. Cost[c] \in Nat \ {0}
  BY LedgerAssumption
<1>2. IsFiniteSet(1..Cost[c]) /\ Cardinality(1..Cost[c]) = Cost[c]
  BY <1>1, FS_Interval
<1>3. IsFiniteSet({c}) /\ Cardinality({c}) = 1
  BY FS_Singleton
<1>4. /\ IsFiniteSet({c} \X (1..Cost[c]))
      /\ Cardinality({c} \X (1..Cost[c])) = Cardinality({c}) * Cardinality(1..Cost[c])
  BY <1>2, <1>3, FS_Product, Zenon
<1>5. Cardinality({c} \X (1..Cost[c])) = 1 * Cost[c]
  BY <1>2, <1>3, <1>4, Zenon
<1>6. 1 * Cost[c] = Cost[c]
  BY <1>1
<1> QED BY <1>4, <1>5, <1>6, Zenon

LEMMA UnitsFinite ==
    ASSUME NEW S \in SUBSET Caller
    PROVE  IsFiniteSet(Units(S)) /\ Cardinality(Units(S)) \in Nat
<1> DEFINE T == {{c} \X (1..Cost[c]) : c \in S}
           f == [c \in S |-> {c} \X (1..Cost[c])]
<1>1. IsFiniteSet(S)
  BY LedgerAssumption, FS_Subset
<1>2. f \in Surjection(S, T)
  BY DEF Surjection
<1>3. IsFiniteSet(T)
  BY <1>1, <1>2, FS_Surjection
<1>4. \A t \in T : IsFiniteSet(t)
  BY UnitsOfOne
<1>5. IsFiniteSet(UNION T)
  BY <1>3, <1>4, FS_UNION
<1> QED BY <1>5, FS_CardinalityType DEF Units

LEMMA UnitsMonotone ==
    ASSUME NEW T \in SUBSET Caller, NEW S \in SUBSET T
    PROVE  Cardinality(Units(S)) <= Cardinality(Units(T))
<1>1. Units(S) \subseteq Units(T)
  BY DEF Units
<1> QED BY <1>1, UnitsFinite, FS_Subset

\* One caller more adds its cost, one caller less takes it away.
LEMMA UnitsOfOneMore ==
    ASSUME NEW S \in SUBSET Caller, NEW c \in Caller \ S
    PROVE  Cardinality(Units(S \cup {c})) = Cardinality(Units(S)) + Cost[c]
<1> DEFINE U == {c} \X (1..Cost[c])
<1>1. Units(S \cup {c}) = Units(S) \cup U
  BY DEF Units
<1>2. Units(S) \cap U = {}
  BY DEF Units
<1>3. IsFiniteSet(Units(S)) /\ Cardinality(Units(S)) \in Nat
  BY UnitsFinite
<1>4. IsFiniteSet(U) /\ Cardinality(U) = Cost[c]
  BY UnitsOfOne
<1>5. Cardinality({}) = 0 /\ Cost[c] \in Nat
  BY FS_EmptySet, LedgerAssumption
<1> HIDE DEF U
<1>6. Cardinality(Units(S) \cup U)
        = Cardinality(Units(S)) + Cardinality(U) - Cardinality(Units(S) \cap U)
  BY <1>3, <1>4, FS_Union
<1>7. Cardinality(Units(S \cup {c})) = Cardinality(Units(S)) + Cost[c] - 0
  BY <1>1, <1>2, <1>4, <1>5, <1>6, Zenon
<1> QED BY <1>3, <1>5, <1>7

\* Those who are charged to day d and have not sent yet.
Sending(d) == {c \in Caller : At(c, "send") /\ call[c].day = d}

\* The charges of a day cover what was sent and what is about to be.
ChargedInv == \A d \in Day : sent[d] + Cardinality(Units(Sending(d))) <= spent[d]

LEMMA ChargedStep == ASSUME LedgerInv, ChargedInv, Next PROVE ChargedInv'
<1> SUFFICES ASSUME NEW d \in Day
             PROVE  sent'[d] + Cardinality(Units(Sending(d)')) <= spent'[d]
  BY DEF ChargedInv
<1>0. /\ Sending(d) \in SUBSET Caller /\ Sending(d)' \in SUBSET Caller
      /\ sent \in [Day -> Nat] /\ spent \in [Day -> Nat] /\ call \in [Caller -> Call]
  BY DEF Sending, LedgerInv, TypeOK
<1>1. /\ Cardinality(Units(Sending(d))) \in Nat /\ Cardinality(Units(Sending(d)')) \in Nat
      /\ sent[d] \in Nat /\ spent[d] \in Nat
      /\ sent[d] + Cardinality(Units(Sending(d))) <= spent[d]
  BY <1>0, UnitsFinite DEF ChargedInv
<1>2. ASSUME NEW c \in Caller, Commit(c)
      PROVE  sent'[d] + Cardinality(Units(Sending(d)')) <= spent'[d]
  <2>0. Cost[c] \in Nat
    BY LedgerAssumption
  <2>1. sent' = sent /\ spent' = [spent EXCEPT ![call[c].day] = @ + Cost[c]]
    BY <1>2, <1>0 DEF Commit, LedgerInv, FreshRead
  <2>2. CASE call[c].day = d
    <3>1. Sending(d)' = Sending(d) \cup {c} /\ c \in Caller \ Sending(d)
      BY <2>2, <1>2, <1>0 DEF Commit, Goto, At, Sending, Call
    <3>2. Cardinality(Units(Sending(d)')) = Cardinality(Units(Sending(d))) + Cost[c]
      BY <3>1, <1>0, UnitsOfOneMore
    <3>3. spent'[d] = spent[d] + Cost[c]
      BY <2>1, <2>2, <1>0
    <3> QED BY <3>2, <3>3, <2>0, <2>1, <1>1
  <2>3. CASE call[c].day # d
    <3>1. Sending(d)' = Sending(d)
      BY <2>3, <1>2, <1>0 DEF Commit, Goto, At, Sending, Call
    <3>2. spent'[d] = spent[d]
      BY <2>1, <2>3, <1>0
    <3> QED BY <3>1, <3>2, <2>1, <1>1
  <2> QED BY <2>2, <2>3
<1>3. ASSUME NEW c \in Caller, Send(c)
      PROVE  sent'[d] + Cardinality(Units(Sending(d)')) <= spent'[d]
  <2>0. Cost[c] \in Nat
    BY LedgerAssumption
  <2>1. spent' = spent /\ sent' = [sent EXCEPT ![call[c].day] = @ + Cost[c]]
    BY <1>3 DEF Send
  <2>2. CASE call[c].day = d
    <3>1. /\ Sending(d) = Sending(d)' \cup {c}
          /\ c \in Caller \ Sending(d)'
      BY <2>2, <1>3, <1>0 DEF Send, Goto, At, Sending, Call
    <3>2. Cardinality(Units(Sending(d))) = Cardinality(Units(Sending(d)')) + Cost[c]
      BY <3>1, <1>0, UnitsOfOneMore
    <3>3. sent'[d] = sent[d] + Cost[c]
      BY <2>1, <2>2, <1>0
    <3> QED BY <3>2, <3>3, <2>0, <2>1, <1>1
  <2>3. CASE call[c].day # d
    <3>1. Sending(d)' = Sending(d)
      BY <2>3, <1>3, <1>0 DEF Send, Goto, At, Sending, Call
    <3>2. sent'[d] = sent[d]
      BY <2>1, <2>3, <1>0
    <3> QED BY <3>1, <3>2, <2>1, <1>1
  <2> QED BY <2>2, <2>3
<1>4. ASSUME sent' = sent, spent' = spent, Sending(d)' \subseteq Sending(d)
      PROVE  sent'[d] + Cardinality(Units(Sending(d)')) <= spent'[d]
  <2>1. Cardinality(Units(Sending(d)')) <= Cardinality(Units(Sending(d)))
    BY <1>0, <1>4, UnitsMonotone
  <2> QED BY <2>1, <1>1, <1>4
<1>5. ASSUME NEW c \in Caller,
             \/ Request(c) \/ Cancelled(c) \/ StampDay(c) \/ BeginTx(c) \/ Busy(c)
             \/ ReadSpent(c) \/ Rollback(c) \/ Answered(c) \/ Retry(c) \/ BackoffEnds(c)
      PROVE  sent' = sent /\ spent' = spent /\ Sending(d)' \subseteq Sending(d)
  BY <1>5, <1>0 DEF Request, Cancelled, StampDay, BeginTx, Busy, ReadSpent, Rollback, Answered,
                    Retry, BackoffEnds, Goto, Return, Idle, At, Sending, Call
<1>6. ASSUME NEW p \in Process, Crash(p)
      PROVE  sent' = sent /\ spent' = spent /\ Sending(d)' \subseteq Sending(d)
  BY <1>6, <1>0 DEF Crash, Idle, At, Sending
<1>7. CASE Midnight
  BY <1>7, <1>1 DEF Midnight, Sending, At
<1> QED BY <1>2, <1>3, <1>4, <1>5, <1>6, <1>7 DEF Next, Progress

THEOREM ChargedInvariant == Spec => [](LedgerInv /\ ChargedInv)
<1>1. ASSUME Init PROVE ChargedInv
  <2>1. \A d \in Day : Sending(d) = {}
    BY <1>1 DEF Init, Idle, Sending, At
  <2>2. Units({}) = {} /\ Cardinality({}) = 0
    BY FS_EmptySet DEF Units
  <2> QED BY <1>1, <2>1, <2>2 DEF Init, ChargedInv
<1>2. LedgerInv /\ ChargedInv /\ [Next]_vars => (LedgerInv /\ ChargedInv)'
  <2>1. ASSUME ChargedInv, UNCHANGED vars PROVE ChargedInv'
    BY <2>1 DEF vars, ChargedInv, Sending, At
  <2> QED BY <2>1, LedgerStep, LedgerStutter, ChargedStep
<1> QED BY <1>1, <1>2, LedgerInit, PTL DEF Spec

\* No attempt leaves uncharged, first or repeated, with any number of callers that
\* die anywhere: the day's ledger covers what was sent under it.
THEOREM SentCharged == Spec => []SentIsCharged
<1>1. LedgerInv /\ ChargedInv => SentIsCharged
  <2> SUFFICES ASSUME LedgerInv, ChargedInv, NEW d \in Day PROVE sent[d] <= spent[d]
    BY DEF SentIsCharged
  <2>1. Sending(d) \in SUBSET Caller /\ sent[d] \in Nat /\ spent[d] \in Nat
    BY DEF Sending, LedgerInv, TypeOK
  <2>2. Cardinality(Units(Sending(d))) \in Nat
    BY <2>1, UnitsFinite
  <2> QED BY <2>1, <2>2 DEF ChargedInv
<1> QED BY ChargedInvariant, <1>1, PTL

------------------------------------------------------------------------------
(***************************************************************************)
(* What YouTube receives against what was charged: a request stamped       *)
(* before midnight and sent after it is the only one counted elsewhere,    *)
(* and a caller has one such request at most.                              *)
(***************************************************************************)

UnderWay(c) == call[c].pc \in {"begin", "read", "commit", "send"}
Stale == {c \in Caller : UnderWay(c) /\ call[c].day < today}

TotalCost == Cardinality(Units(Caller))

\* Whoever is still to send what was charged to an earlier day has sent nothing late today.
ReceivedInv ==
    /\ \A c \in Caller : UnderWay(c) => call[c].day <= today
    /\ late \cap Stale = {}
    /\ used[today] <= sent[today] + Cardinality(Units(late))
    /\ \A d \in Day : d < today => used[d] <= sent[d] + TotalCost
    /\ \A d \in Day : d > today => used[d] = 0

LEMMA LateUnits ==
    ASSUME TypeOK
    PROVE  /\ late \in SUBSET Caller /\ Cardinality(Units(late)) \in Nat
           /\ TotalCost \in Nat /\ Cardinality(Units(late)) <= TotalCost
<1>1. late \in SUBSET Caller
  BY DEF TypeOK
<1> QED BY <1>1, UnitsFinite, UnitsMonotone DEF TotalCost

\* A step that sends nothing and makes nobody stale keeps the account.
LEMMA ReceivedQuiet ==
    ASSUME ReceivedInv, call' \in [Caller -> Call],
           today' = today, sent' = sent, used' = used, late' = late,
           \A c \in Caller : UnderWay(c)' => /\ call'[c].day <= today
                                             /\ call'[c].day < today => c \in Stale
    PROVE  ReceivedInv'
<1>1. Stale' \in SUBSET Stale
  BY DEF Stale, UnderWay
<1>2. late' \cap Stale' = {}
  BY <1>1 DEF ReceivedInv
<1>3. TotalCost' = TotalCost /\ Units(late)' = Units(late)
  BY DEF TotalCost, Units
<1> QED BY <1>2, <1>3 DEF ReceivedInv

LEMMA ReceivedSend == ASSUME LedgerInv, ReceivedInv, NEW c \in Caller, Send(c) PROVE ReceivedInv'
<1>0. /\ Cost[c] \in Nat /\ today \in Day /\ call \in [Caller -> Call] /\ call[c].day \in Day
      /\ sent \in [Day -> Nat] /\ used \in [Day -> Nat] /\ Day \subseteq Nat
  <2>1. /\ today \in Day /\ call \in [Caller -> Call]
        /\ sent \in [Day -> Nat] /\ used \in [Day -> Nat]
    BY DEF LedgerInv, TypeOK
  <2>2. call[c].day \in Day
    BY <2>1 DEF Call
  <2>3. Cost[c] \in Nat /\ Day \subseteq Nat
    BY LedgerAssumption DEF Day
  <2> QED BY <2>1, <2>2, <2>3
<1>1. /\ sent' = [sent EXCEPT ![call[c].day] = @ + Cost[c]]
      /\ used' = [used EXCEPT ![today] = @ + Cost[c]]
      /\ late' = IF call[c].day = today THEN late ELSE late \cup {c}
      /\ today' = today /\ call' = [call EXCEPT ![c].pc = "answer"] /\ call[c].pc = "send"
  BY DEF Send, Goto, At
<1>2. \A e \in Caller : UnderWay(e)' => UnderWay(e) /\ call'[e].day = call[e].day /\ e # c
  BY <1>0, <1>1 DEF UnderWay, Call
<1>3. /\ TotalCost' = TotalCost /\ Units(late)' = Units(late')
      /\ Stale' \in SUBSET Stale /\ c \notin Stale'
      /\ call[c].day <= today
  BY <1>0, <1>1, <1>2 DEF TotalCost, Units, Stale, UnderWay, ReceivedInv
<1>4. late \in SUBSET Caller /\ Cardinality(Units(late)) \in Nat
  BY LateUnits DEF LedgerInv
<1>5. used'[today] <= sent'[today] + Cardinality(Units(late')) /\ late' \cap Stale' = {}
  <2>1. /\ used'[today] = used[today] + Cost[c]
        /\ used[today] <= sent[today] + Cardinality(Units(late))
        /\ late \cap Stale' = {}
    BY <1>0, <1>1, <1>3 DEF ReceivedInv
  <2>2. CASE call[c].day = today
    <3>1. sent'[today] = sent[today] + Cost[c] /\ late' = late
      BY <2>2, <1>0, <1>1
    <3> QED BY <3>1, <2>1, <1>0, <1>4
  <2>3. CASE call[c].day # today
    <3>1. sent'[today] = sent[today] /\ late' = late \cup {c}
      BY <2>3, <1>0, <1>1
    <3>2. c \in Stale
      BY <2>3, <1>0, <1>1, <1>3 DEF Stale, UnderWay
    <3>3. c \in Caller \ late
      BY <3>2 DEF ReceivedInv
    <3>4. Cardinality(Units(late \cup {c})) = Cardinality(Units(late)) + Cost[c]
      BY <3>3, <1>4, UnitsOfOneMore
    <3>5. used'[today] <= sent'[today] + Cardinality(Units(late'))
      BY <3>1, <3>4, <2>1, <1>0, <1>4
    <3> QED BY <3>1, <3>5, <2>1, <1>3
  <2> QED BY <2>2, <2>3
<1>6. \A d \in Day : d < today => used'[d] <= sent'[d] + TotalCost
  BY <1>0, <1>1, LateUnits DEF ReceivedInv, LedgerInv
<1> QED BY <1>0, <1>1, <1>2, <1>3, <1>5, <1>6 DEF ReceivedInv

LEMMA ReceivedMidnight == ASSUME LedgerInv, ReceivedInv, Midnight PROVE ReceivedInv'
<1>0. /\ today' = today + 1 /\ today \in Nat /\ today + 1 \in Day /\ Day \subseteq Nat
      /\ call' = call /\ sent' = sent /\ used' = used /\ late' = {}
      /\ sent \in [Day -> Nat] /\ used \in [Day -> Nat] /\ call \in [Caller -> Call]
  BY LedgerAssumption DEF Midnight, LedgerInv, TypeOK, Day
<1>1. TotalCost' = TotalCost /\ Units(late)' = Units(late')
  BY DEF TotalCost, Units
<1>2. late' \cap Stale' = {} /\ Cardinality(Units(late')) \in Nat
  <2>1. late' \in SUBSET Caller
    BY <1>0
  <2> QED BY <2>1, <1>0, UnitsFinite
<1>3. used[today + 1] = 0 /\ sent[today + 1] \in Nat
  BY <1>0 DEF ReceivedInv
<1>4. (used[today] <= sent[today] + Cardinality(Units(late)))'
  <2>1. used[today + 1] <= sent[today + 1] + Cardinality(Units(late'))
    BY <1>2, <1>3
  <2> QED BY <2>1, <1>0, <1>1
<1>5. \A d \in Day : d < today + 1 => used[d] <= sent[d] + TotalCost
  <2>1. used[today] <= sent[today] + TotalCost
    BY <1>0, LateUnits DEF ReceivedInv, LedgerInv, TypeOK
  <2> QED BY <2>1, <1>0 DEF ReceivedInv
<1>6. \A c \in Caller : UnderWay(c)' => call'[c].day <= today'
  <2> SUFFICES ASSUME NEW c \in Caller, UnderWay(c) PROVE call[c].day <= today + 1
    BY <1>0 DEF UnderWay
  <2>1. call[c].day <= today /\ call[c].day \in Day
    BY <1>0 DEF ReceivedInv, Call
  <2>2. call[c].day \in Nat
    BY <2>1, <1>0
  <2> QED BY <2>1, <2>2, <1>0
<1> QED BY <1>0, <1>1, <1>2, <1>4, <1>5, <1>6 DEF ReceivedInv

LEMMA ReceivedStep == ASSUME LedgerInv, ReceivedInv, Next PROVE ReceivedInv'
<1>0. /\ TypeOK /\ call \in [Caller -> Call] /\ call' \in [Caller -> Call]
      /\ today \in Nat
  <2>1. TypeOK /\ TypeOK'
    BY TypeStep DEF LedgerInv
  <2>2. today \in Day
    BY <2>1 DEF TypeOK
  <2>3. today \in Nat
    BY <2>2, LedgerAssumption DEF Day
  <2> QED BY <2>1, <2>3 DEF TypeOK
<1>1. ASSUME NEW c \in Caller,
             \/ Request(c) \/ Cancelled(c) \/ StampDay(c) \/ BeginTx(c) \/ Busy(c) \/ ReadSpent(c)
             \/ Rollback(c) \/ Commit(c) \/ Answered(c) \/ Retry(c) \/ BackoffEnds(c)
      PROVE  ReceivedInv'
  <2>1. today' = today /\ sent' = sent /\ used' = used /\ late' = late
    BY <1>1 DEF Request, Cancelled, StampDay, BeginTx, Busy, ReadSpent, Rollback, Commit,
                Answered, Retry, BackoffEnds
  <2>2. \A e \in Caller : UnderWay(e)' => \/ UnderWay(e) /\ call'[e].day = call[e].day
                                          \/ call'[e].day = today
    BY <1>0, <1>1 DEF Request, Cancelled, StampDay, BeginTx, Busy, ReadSpent, Rollback, Commit,
                      Answered, Retry, BackoffEnds, Goto, Return, Idle, At, UnderWay, Call
  <2>3. \A e \in Caller : UnderWay(e)' => /\ call'[e].day <= today
                                          /\ call'[e].day < today => e \in Stale
    BY <2>2, <1>0 DEF ReceivedInv, Stale
  <2> QED BY <2>1, <2>3, <1>0, ReceivedQuiet
<1>2. ASSUME NEW p \in Process, Crash(p) PROVE ReceivedInv'
  <2>1. \A e \in Caller : UnderWay(e)' => UnderWay(e) /\ call'[e].day = call[e].day
    BY <1>2, <1>0 DEF Crash, Idle, UnderWay
  <2>2. \A e \in Caller : UnderWay(e)' => /\ call'[e].day <= today
                                          /\ call'[e].day < today => e \in Stale
    BY <2>1 DEF ReceivedInv, Stale
  <2> QED BY <1>0, <1>2, <2>2, ReceivedQuiet DEF Crash
<1> QED BY <1>1, <1>2, ReceivedSend, ReceivedMidnight DEF Next, Progress

THEOREM ReceivedInvariant == Spec => [](LedgerInv /\ ReceivedInv)
<1>1. ASSUME Init PROVE ReceivedInv
  <2>1. /\ today = 0 /\ used = [d \in Day |-> 0] /\ sent = [d \in Day |-> 0] /\ late = {}
        /\ \A c \in Caller : ~UnderWay(c)
    BY <1>1 DEF Init, Idle, UnderWay
  <2>2. 0 \in Day /\ Day \subseteq Nat
    BY LedgerAssumption DEF Day
  <2>3. {} \in SUBSET Caller
    OBVIOUS
  <2>4. Cardinality(Units(late)) \in Nat
    BY <2>1, <2>3, UnitsFinite
  <2> QED BY <2>1, <2>2, <2>4 DEF ReceivedInv
<1>2. LedgerInv /\ ReceivedInv /\ [Next]_vars => (LedgerInv /\ ReceivedInv)'
  <2>1. ASSUME ReceivedInv, UNCHANGED vars PROVE ReceivedInv'
    BY <2>1 DEF vars, ReceivedInv, UnderWay, Stale, TotalCost, Units
  <2> QED BY <2>1, LedgerStep, LedgerStutter, ReceivedStep
<1> QED BY <1>1, <1>2, LedgerInit, PTL DEF Spec

\* What YouTube counts on a day beyond what was charged to it is at most one request of
\* each caller that midnight caught between charge and request.
THEOREM OvershootIsBounded == Spec => []OvershootBounded
<1>1. ReceivedInv => OvershootBounded
  BY DEF ReceivedInv, OvershootBounded
<1> QED BY ReceivedInvariant, <1>1, PTL

\* Over any number of midnights, what YouTube counts on one day passes the budget by at
\* most one request of each caller.
THEOREM DaysOvershoot == Spec => [](\A d \in Day : used[d] <= Budget + TotalCost)
<1>1. LedgerInv /\ ChargedInv /\ ReceivedInv => \A d \in Day : used[d] <= Budget + TotalCost
  <2> SUFFICES ASSUME LedgerInv, ChargedInv, ReceivedInv, NEW d \in Day
               PROVE  used[d] <= Budget + TotalCost
    OBVIOUS
  <2>1. /\ d \in Nat /\ today \in Nat /\ Budget \in Nat
        /\ used[d] \in Nat /\ sent[d] \in Nat /\ spent[d] \in Nat
    BY LedgerAssumption DEF LedgerInv, TypeOK, Day
  <2>2. Sending(d) \in SUBSET Caller
    BY DEF Sending
  <2>3. sent[d] <= Budget
    BY <2>1, <2>2, UnitsFinite DEF ChargedInv, LedgerInv, WithinBudget
  <2>4. TotalCost \in Nat /\ Cardinality(Units(late)) \in Nat
        /\ Cardinality(Units(late)) <= TotalCost
    BY LateUnits DEF LedgerInv
  <2>5. used[d] <= sent[d] + TotalCost
    <3>1. CASE d < today
      BY <3>1 DEF ReceivedInv
    <3>2. CASE d = today
      BY <3>2, <2>1, <2>4 DEF ReceivedInv
    <3>3. CASE d > today
      BY <3>3, <2>1, <2>4 DEF ReceivedInv
    <3> QED BY <2>1, <3>1, <3>2, <3>3
  <2> QED BY <2>1, <2>3, <2>4, <2>5
<1> QED BY ChargedInvariant, ReceivedInvariant, <1>1, PTL
=============================================================================
