----------------------------- MODULE CyclePool ------------------------------
(***************************************************************************)
(* One cycle, App.Once (internal/app/app.go): a producer hands the enabled *)
(* sources to a pool of workers over an unbuffered channel, every worker   *)
(* discovers a source, stores its leads and hands a result back over a     *)
(* second unbuffered channel, a closer waits for the workers and closes    *)
(* it, and the collector then synchronises the sheet and decides what the  *)
(* cycle returns.  The context may end at any moment: cycle_timeout,       *)
(* SIGTERM, or the health server failing.                                  *)
(***************************************************************************)
EXTENDS Naturals, Sequences, FiniteSets

CONSTANTS Worker,
          Source,
          Config,    \* the configured sources, in order
          Enabled,   \* those that are enabled
          Leads,     \* how many leads Discover gives for a source when nothing fails
          SheetSync  \* config sheet_sync

ASSUME PoolAssumption ==
    /\ Worker # {} /\ IsFiniteSet(Worker)
    /\ Config \in Seq(Source)
    /\ \A i, j \in DOMAIN Config : Config[i] = Config[j] => i = j \* Config.Validate
    /\ Enabled \subseteq Source
    /\ Leads \in [Source -> Nat]
    /\ SheetSync \in BOOLEAN

VARIABLES next,      \* the producer's place in Config; 0 once it has returned
          worker,    \* what each worker does
          closed,    \* the results channel is closed
          reported,  \* report.Sources: the results, as the collector received them
          collector, \* where Once itself is
          ctxDone,
          err        \* what Once returns

vars == <<next, worker, closed, reported, collector, ctxDone, err>>

Receiving == [pc |-> "receive"]
Gone == [pc |-> "gone"]
Task == [pc : {"discover", "leads", "status", "report"}, src : Source,
         left : Nat, stored : Nat, failed : BOOLEAN, unresolved : BOOLEAN]
Result == [src : Source, stored : Nat, failed : BOOLEAN]

TypeOK ==
    /\ next \in 0..(Len(Config) + 1)
    /\ worker \in [Worker -> {Receiving, Gone} \cup Task]
    /\ closed \in BOOLEAN
    /\ reported \in Seq(Result)
    /\ collector \in {"collect", "candidates", "sheet", "check", "returned"}
    /\ ctxDone \in BOOLEAN
    /\ err \in {"none", "storage", "sheet", "context", "sources"}

Results == {reported[i] : i \in DOMAIN reported}

Init ==
    /\ next = 1
    /\ worker = [w \in Worker |-> Receiving]
    /\ closed = FALSE
    /\ reported = << >>
    /\ collector = "collect"
    /\ ctxDone = FALSE
    /\ err = "none"

------------------------------------------------------------------------------
(* The producer.  The jobs channel is closed exactly when it has returned.   *)

JobsClosed == next = 0
Offering == next \in 1..Len(Config) /\ Config[next] \in Enabled

SkipDisabled ==
    /\ next \in 1..Len(Config) /\ Config[next] \notin Enabled
    /\ next' = next + 1
    /\ UNCHANGED <<worker, closed, reported, collector, ctxDone, err>>

\* Mutant of Dispatch: every worker goes through the whole list.
DispatchKept(w) ==
    /\ Offering
    /\ worker[w] = Receiving
    /\ worker' = [worker EXCEPT ![w] =
          [pc |-> "discover", src |-> Config[next], left |-> 0, stored |-> 0,
           failed |-> FALSE, unresolved |-> FALSE]]
    /\ UNCHANGED <<next, closed, reported, collector, ctxDone, err>>

\* jobs <- s meets a worker's receive.
Dispatch(w) ==
    /\ Offering
    /\ worker[w] = Receiving
    /\ worker' = [worker EXCEPT ![w] =
          [pc |-> "discover", src |-> Config[next], left |-> 0, stored |-> 0,
           failed |-> FALSE, unresolved |-> FALSE]]
    /\ next' = next + 1
    /\ UNCHANGED <<closed, reported, collector, ctxDone, err>>

\* Mutants of ProducerReturns: the jobs channel is closed only when the context ends;
\* the first failure stops the others.
CloseOnCancel ==
    /\ ctxDone /\ (next = Len(Config) + 1 \/ Offering)
    /\ next' = 0
    /\ UNCHANGED <<worker, closed, reported, collector, ctxDone, err>>
ProducerGivesUp ==
    /\ next = Len(Config) + 1 \/ (Offering /\ (ctxDone \/ \E r \in Results : r.failed))
    /\ next' = 0
    /\ UNCHANGED <<worker, closed, reported, collector, ctxDone, err>>

\* The list is exhausted, or ctx.Done() wins the select.
ProducerReturns ==
    /\ next = Len(Config) + 1 \/ (Offering /\ ctxDone)
    /\ next' = 0
    /\ UNCHANGED <<worker, closed, reported, collector, ctxDone, err>>

------------------------------------------------------------------------------
(* The workers.                                                              *)

\* Discover returns some or all leads of the source; an error may come with the
\* leads of the pages read before it.
Discover(w) ==
    /\ worker[w].pc = "discover"
    /\ \E n \in 0..Leads[worker[w].src], failed \in BOOLEAN :
         /\ n # Leads[worker[w].src] => failed
         /\ worker' = [worker EXCEPT ![w].pc = "leads", ![w].left = n, ![w].failed = failed]
    /\ UNCHANGED <<next, closed, reported, collector, ctxDone, err>>

\* Mutant of LeadsLeft: one lead past the end.
LeadsOrOne(w) == worker[w].left >= 0

LeadsLeft(w) == worker[w].left > 0

\* One lead is stored, resolved or not.
StoreLead(w) ==
    /\ worker[w].pc = "leads" /\ LeadsLeft(w)
    /\ ~ctxDone
    /\ \E unresolved \in BOOLEAN :
         worker' = [worker EXCEPT ![w].left = @ - 1, ![w].stored = @ + 1,
                                  ![w].unresolved = @ \/ unresolved]
    /\ UNCHANGED <<next, closed, reported, collector, ctxDone, err>>

\* ctx.Err() before a lead, or Upsert failing: the rest is dropped.
BreakOff(w) ==
    /\ worker[w].pc = "leads" /\ LeadsLeft(w)
    /\ worker' = [worker EXCEPT ![w].pc = "status", ![w].failed = TRUE]
    /\ UNCHANGED <<next, closed, reported, collector, ctxDone, err>>

LeadsDone(w) ==
    /\ worker[w].pc = "leads" /\ ~LeadsLeft(w)
    /\ worker' = [worker EXCEPT ![w].pc = "status", ![w].failed = @ \/ worker[w].unresolved]
    /\ UNCHANGED <<next, closed, reported, collector, ctxDone, err>>

\* RunStatus is persisted, or the failure to do so is the source's error.
RecordStatus(w) ==
    /\ worker[w].pc = "status"
    /\ \E lost \in BOOLEAN :
         worker' = [worker EXCEPT ![w].pc = "report", ![w].failed = @ \/ lost]
    /\ UNCHANGED <<next, closed, reported, collector, ctxDone, err>>

\* results <- r meets the collector's range.
Report(w) ==
    /\ worker[w].pc = "report"
    /\ collector = "collect" /\ ~closed
    /\ LET t == worker[w] IN
       reported' = Append(reported, [src |-> t.src, stored |-> t.stored, failed |-> t.failed])
    /\ worker' = [worker EXCEPT ![w] = Receiving]
    /\ UNCHANGED <<next, closed, collector, ctxDone, err>>

WorkerReturns(w) ==
    /\ worker[w] = Receiving
    /\ JobsClosed
    /\ worker' = [worker EXCEPT ![w] = Gone]
    /\ UNCHANGED <<next, closed, reported, collector, ctxDone, err>>

\* Mutant of AllDone: the first worker that returns counts for all.
AnyDone == \E w \in Worker : worker[w] = Gone

\* workers.Wait() returns.
AllDone == \A w \in Worker : worker[w] = Gone

CloseResults ==
    /\ ~closed
    /\ AllDone
    /\ closed' = TRUE
    /\ UNCHANGED <<next, worker, reported, collector, ctxDone, err>>

------------------------------------------------------------------------------
(* The collector, once the results channel is closed.                        *)

Collected ==
    /\ collector = "collect" /\ closed
    /\ collector' = "candidates"
    /\ UNCHANGED <<next, worker, closed, reported, ctxDone, err>>

ReadCandidates ==
    /\ collector = "candidates"
    /\ \/ collector' = (IF SheetSync THEN "sheet" ELSE "check") /\ err' = err
       \/ collector' = "returned" /\ err' = "storage"
    /\ UNCHANGED <<next, worker, closed, reported, ctxDone>>

\* Sheets.Sync; without credentials ErrNotConfigured.
SyncSheet ==
    /\ collector = "sheet"
    /\ \/ collector' = "check" /\ err' = err
       \/ collector' = "returned" /\ err' = "sheet"
    /\ UNCHANGED <<next, worker, closed, reported, ctxDone>>

FailedSources == {r \in Results : r.failed}

\* Mutant of Outcome: the context is not looked at again.
OutcomeOfSources == IF FailedSources # {} THEN "sources" ELSE "none"

Outcome == IF ctxDone THEN "context" ELSE IF FailedSources # {} THEN "sources" ELSE "none"

CheckResult ==
    /\ collector = "check"
    /\ err' = Outcome
    /\ collector' = "returned"
    /\ UNCHANGED <<next, worker, closed, reported, ctxDone>>

ContextEnds ==
    /\ ~ctxDone /\ collector # "returned"
    /\ ctxDone' = TRUE
    /\ UNCHANGED <<next, worker, closed, reported, collector, err>>

\* The caller has what Once returned.
Returned ==
    /\ collector = "returned"
    /\ UNCHANGED vars

ProducerStep == SkipDisabled \/ ProducerReturns
WorkerStep(w) ==
    \/ Dispatch(w) \/ Discover(w) \/ StoreLead(w) \/ BreakOff(w) \/ LeadsDone(w)
    \/ RecordStatus(w) \/ Report(w) \/ WorkerReturns(w)
CollectorStep == CloseResults \/ Collected \/ ReadCandidates \/ SyncSheet \/ CheckResult

Next ==
    \/ ProducerStep
    \/ \E w \in Worker : WorkerStep(w)
    \/ CollectorStep
    \/ ContextEnds
    \/ Returned

Spec == Init /\ [][Next]_vars

\* Goroutines that can go on do; requests, transactions and locks are bounded.
FairSpec ==
    /\ Spec
    /\ WF_vars(ProducerStep) /\ WF_vars(CollectorStep)
    /\ \A w \in Worker : WF_vars(WorkerStep(w))

------------------------------------------------------------------------------
(* Properties *)

ReportedSources == {r.src : r \in Results}

\* A cycle that returns no error has processed every enabled source to the last
\* lead, and none of its results was lost between the goroutines.
NoErrorMeansComplete ==
    collector = "returned" /\ err = "none" =>
        \A s \in {Config[i] : i \in DOMAIN Config} \cap Enabled :
            [src |-> s, stored |-> Leads[s], failed |-> FALSE] \in Results

\* DESIGN: "Source failures ... are isolated".  Unless the context ended, every
\* enabled source was tried, whatever the others did.
FailuresIsolated ==
    collector = "returned" /\ ~ctxDone =>
        \A s \in {Config[i] : i \in DOMAIN Config} \cap Enabled : s \in ReportedSources

\* Each source is handed to one worker: no source has two results.
OneResultPerSource ==
    \A i, j \in DOMAIN reported : reported[i].src = reported[j].src => i = j

\* When Once goes on to the sheet, no goroutine of the cycle is left that could
\* still write to the database: the caller may close it, and what is sent to the
\* sheet is everything the cycle stored.
NoGoroutineLeft ==
    collector # "collect" => JobsClosed /\ \A w \in Worker : worker[w] = Gone

\* However sources, stores and the context fail, the cycle comes to an end.
CycleEnds == <>(collector = "returned")
=============================================================================
