---------------------------- MODULE QuotaLedger -----------------------------
(***************************************************************************)
(* The daily YouTube budget: Engine.youtube hands netx.Client.Bytes a      *)
(* before() hook that charges the ledger (Store.Spend) ahead of every      *)
(* attempt of every request.  Callers are goroutines of several processes  *)
(* (the worker, an unlocked enrich) sharing one SQLite file; the           *)
(* transaction is broken into its steps, processes die between any two of  *)
(* them, and midnight passes in Los Angeles.                               *)
(***************************************************************************)
EXTENDS Naturals, FiniteSets

CONSTANTS Caller,    \* goroutines that call the API
          Process,
          ProcessOf, \* the process a caller belongs to
          Cost,      \* units one request of a caller costs (1, or 100 for a search)
          Budget,    \* youtube_daily_budget
          Attempts,  \* tries of one request (3 in the code)
          Nobody,    \* the database is not locked
          LastDay,   \* bound: the last day modelled
          MaxCrashes \* bound: processes that die

ASSUME LedgerAssumption ==
    /\ IsFiniteSet(Caller) /\ ProcessOf \in [Caller -> Process]
    /\ Cost \in [Caller -> Nat \ {0}]
    /\ Budget \in Nat \ {0} /\ Attempts \in Nat \ {0}
    /\ Nobody \notin Caller
    /\ LastDay \in Nat /\ MaxCrashes \in Nat

VARIABLES spent,   \* the quotas table: day -> units
          lock,    \* who is inside BEGIN IMMEDIATE ... COMMIT
          call,    \* where each caller is
          today,   \* the day in Los Angeles
          sent,    \* units sent, by the day they were charged to
          used,    \* units sent, by the day YouTube received them
          late,    \* who has sent today what was charged to an earlier day
          crashes

vars == <<spent, lock, call, today, sent, used, late, crashes>>

Day == 0..LastDay
Idle == [pc |-> "idle", day |-> 0, read |-> 0, try |-> 0]
Call == [pc : {"idle", "try", "begin", "read", "commit", "send", "answer", "backoff"},
         day : Day, read : Nat, try : 0..(Attempts - 1)]

TypeOK ==
    /\ spent \in [Day -> Nat] /\ sent \in [Day -> Nat] /\ used \in [Day -> Nat]
    /\ lock \in Caller \cup {Nobody}
    /\ call \in [Caller -> Call]
    /\ today \in Day /\ late \subseteq Caller
    /\ crashes \in 0..MaxCrashes

Init ==
    /\ spent = [d \in Day |-> 0] /\ sent = [d \in Day |-> 0] /\ used = [d \in Day |-> 0]
    /\ lock = Nobody
    /\ call = [c \in Caller |-> Idle]
    /\ today = 0 /\ late = {}
    /\ crashes = 0

------------------------------------------------------------------------------
At(c, pc) == call[c].pc = pc
Goto(c, pc) == call' = [call EXCEPT ![c].pc = pc]
Return(c) == call' = [call EXCEPT ![c] = Idle]

Request(c) ==
    /\ At(c, "idle")
    /\ Goto(c, "try")
    /\ UNCHANGED <<spent, lock, today, sent, used, late, crashes>>

\* ctx.Err() before an attempt, or ctx.Done() while backing off.
Cancelled(c) ==
    /\ At(c, "try") \/ At(c, "backoff")
    /\ Return(c)
    /\ UNCHANGED <<spent, lock, today, sent, used, late, crashes>>

\* before() works the day out, and only then asks for the database.
StampDay(c) ==
    /\ At(c, "try")
    /\ call' = [call EXCEPT ![c].pc = "begin", ![c].day = today]
    /\ UNCHANGED <<spent, lock, today, sent, used, late, crashes>>

\* Mutant of BeginTx: a deferred BEGIN, which locks nothing before the first write.
BeginDeferred(c) ==
    /\ At(c, "begin")
    /\ lock' = c
    /\ Goto(c, "read")
    /\ UNCHANGED <<spent, today, sent, used, late, crashes>>

\* The Go mutex inside a process, SQLite's write lock between processes.
BeginTx(c) ==
    /\ At(c, "begin")
    /\ lock = Nobody
    /\ lock' = c
    /\ Goto(c, "read")
    /\ UNCHANGED <<spent, today, sent, used, late, crashes>>

\* busy_timeout passes while another process writes: the charge fails and the
\* request is not sent.  Inside a process the Go mutex just waits.
Busy(c) ==
    /\ At(c, "begin")
    /\ lock # Nobody /\ ProcessOf[lock] # ProcessOf[c]
    /\ Return(c)
    /\ UNCHANGED <<spent, lock, today, sent, used, late, crashes>>

\* Mutant of Fits: the units of this request are not counted.
FitsBefore(c, n) == n <= Budget

Fits(c, n) == n + Cost[c] <= Budget

ReadSpent(c) ==
    /\ At(c, "read")
    /\ Fits(c, spent[call[c].day])
    /\ call' = [call EXCEPT ![c].pc = "commit", ![c].read = spent[call[c].day]]
    /\ UNCHANGED <<spent, lock, today, sent, used, late, crashes>>

\* Mutant of Rollback: the transaction stays open.
ForgetRollback(c) ==
    /\ At(c, "read") \/ At(c, "commit")
    /\ Return(c)
    /\ UNCHANGED <<spent, lock, today, sent, used, late, crashes>>

\* Over budget, or a failed statement: ROLLBACK, and no request.
Rollback(c) ==
    /\ At(c, "read") \/ At(c, "commit")
    /\ lock' = Nobody
    /\ Return(c)
    /\ UNCHANGED <<spent, today, sent, used, late, crashes>>

Commit(c) ==
    /\ At(c, "commit")
    /\ spent' = [spent EXCEPT ![call[c].day] = call[c].read + Cost[c]]
    /\ lock' = Nobody
    /\ Goto(c, "send")
    /\ UNCHANGED <<today, sent, used, late, crashes>>

Send(c) ==
    /\ At(c, "send")
    /\ sent' = [sent EXCEPT ![call[c].day] = @ + Cost[c]]
    /\ used' = [used EXCEPT ![today] = @ + Cost[c]]
    /\ late' = IF call[c].day = today THEN late ELSE late \cup {c}
    /\ Goto(c, "answer")
    /\ UNCHANGED <<spent, lock, today, crashes>>

\* A final answer: success, a permanent refusal, or a back-off beyond 60 s.
Answered(c) ==
    /\ At(c, "answer")
    /\ Return(c)
    /\ UNCHANGED <<spent, lock, today, sent, used, late, crashes>>

\* Mutant of AttemptsLeft: one attempt too many.
OneMoreAttempt(c) == call[c].try < Attempts

AttemptsLeft(c) == call[c].try + 1 < Attempts

\* 429, 5xx or a network error, with attempts left.
Retry(c) ==
    /\ At(c, "answer")
    /\ AttemptsLeft(c)
    /\ call' = [call EXCEPT ![c].pc = "backoff", ![c].try = @ + 1]
    /\ UNCHANGED <<spent, lock, today, sent, used, late, crashes>>

\* Mutant of BackoffEnds: only the first attempt of a request is charged.
BackoffEndsCharged(c) ==
    /\ At(c, "backoff")
    /\ Goto(c, "send")
    /\ UNCHANGED <<spent, lock, today, sent, used, late, crashes>>

\* Mutant of BackoffEnds: the day is worked out once, for all tries of a request.
BackoffEndsStamped(c) ==
    /\ At(c, "backoff")
    /\ Goto(c, "begin")
    /\ UNCHANGED <<spent, lock, today, sent, used, late, crashes>>

BackoffEnds(c) ==
    /\ At(c, "backoff")
    /\ Goto(c, "try")
    /\ UNCHANGED <<spent, lock, today, sent, used, late, crashes>>

\* A process dies; SQLite rolls its open transaction back.
Crash(p) ==
    /\ crashes < MaxCrashes
    /\ crashes' = crashes + 1
    /\ call' = [c \in Caller |-> IF ProcessOf[c] = p THEN Idle ELSE call[c]]
    /\ lock' = IF lock # Nobody /\ ProcessOf[lock] = p THEN Nobody ELSE lock
    /\ UNCHANGED <<spent, today, sent, used, late>>

Midnight ==
    /\ today < LastDay
    /\ today' = today + 1
    /\ late' = {}
    /\ UNCHANGED <<spent, lock, call, sent, used, crashes>>

Progress(c) ==
    \/ Cancelled(c) \/ StampDay(c) \/ BeginTx(c) \/ Busy(c) \/ ReadSpent(c)
    \/ Rollback(c) \/ Commit(c) \/ Send(c) \/ Answered(c) \/ Retry(c) \/ BackoffEnds(c)

Next ==
    \/ \E c \in Caller : Request(c) \/ Progress(c)
    \/ \E p \in Process : Crash(p)
    \/ Midnight

Spec == Init /\ [][Next]_vars

\* A goroutine that is inside a request goes on: every wait in it is bounded.
\* A Go mutex does not starve a waiter, and busy_timeout ends the wait for SQLite.
FairSpec ==
    /\ Spec
    /\ \A c \in Caller : WF_vars(Progress(c)) /\ SF_vars(BeginTx(c) \/ Busy(c))

------------------------------------------------------------------------------
(* Properties *)

\* The ledger of a day never passes the budget, however the transactions of
\* goroutines and processes interleave and wherever one of them dies.
WithinBudget == \A d \in Day : spent[d] <= Budget

\* No attempt, first or repeated, leaves without having been charged: a crash
\* between charge and request wastes budget and never gains any.
SentIsCharged == \A d \in Day : sent[d] <= spent[d]

\* A charge is never lost: the ledger of a day only grows, by what was asked.
ChargesKept ==
    [][\A d \in Day : spent'[d] # spent[d] =>
         \E c \in Caller : spent'[d] = spent[d] + Cost[c]]_vars

\* The units of one request of every caller in S, one by one, to be counted.
Units(S) == UNION {{c} \X (1..Cost[c]) : c \in S}

\* The day is worked out before the charge, and the request sent later still.  What
\* YouTube counts on a day beyond what was charged to it is at most one request of each
\* caller that midnight caught in between: none is a second time late on one day.
OvershootBounded == used[today] <= sent[today] + Cardinality(Units(late))

\* Every request comes back to its caller.
CallsEnd == \A c \in Caller : ~At(c, "idle") ~> At(c, "idle")
=============================================================================
