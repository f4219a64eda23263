-------------------------- MODULE CyclePool_proofs ---------------------------
(***************************************************************************)
(* What App.Once promises holds for any number of workers and any list of  *)
(* sources.                                                                *)
(*                                                                         *)
(* The argument: a source is in one place at a time - not yet offered, in  *)
(* one worker's hands, or among the results (OnePlace) - and unless the    *)
(* context ended none has fallen out of all three (NoneDropped).  A task   *)
(* that has not failed accounts for every lead it was given (Accounted).   *)
(* The results channel closes only after the last worker (Closing).        *)
(***************************************************************************)
EXTENDS CyclePool, TLAPS

Holding(w) == worker[w].pc \in {"discover", "leads", "status", "report"}

\* A task's leads are stored or still to be stored.
Sound(t) ==
    /\ t.pc = "discover" => t.stored = 0
    /\ t.pc = "leads" /\ ~t.failed => t.stored + t.left = Leads[t.src]
    /\ t.pc \in {"status", "report"} /\ ~t.failed => t.stored = Leads[t.src]

Accounted ==
    /\ \A w \in Worker : Holding(w) => Sound(worker[w])
    /\ \A r \in Results : ~r.failed => r.stored = Leads[r.src]

Closing ==
    /\ \A w \in Worker : worker[w] = Gone => JobsClosed
    /\ closed => AllDone
    /\ collector # "collect" => closed

OnePlace ==
    /\ \A v, w \in Worker : Holding(v) /\ Holding(w) /\ worker[v].src = worker[w].src => v = w
    /\ \A w \in Worker, r \in Results : Holding(w) => worker[w].src # r.src
    /\ \A i \in DOMAIN Config : next # 0 /\ i >= next =>
         /\ \A w \in Worker : Holding(w) => worker[w].src # Config[i]
         /\ \A r \in Results : r.src # Config[i]
    /\ OneResultPerSource

Placed(s) == \/ \E w \in Worker : Holding(w) /\ worker[w].src = s
             \/ \E r \in Results : r.src = s

NoneDropped ==
    ~ctxDone => \A i \in DOMAIN Config :
        (next = 0 \/ i < next) /\ Config[i] \in Enabled => Placed(Config[i])

Verdict ==
    /\ collector # "returned" => err = "none"
    /\ collector = "returned" /\ err = "none" => ~ctxDone /\ FailedSources = {}

PoolInv == TypeOK /\ Accounted /\ Closing /\ OnePlace /\ NoneDropped /\ Verdict

------------------------------------------------------------------------------
(* A worker's steps                                                          *)

LEMMA IdleStates ==
    /\ Receiving # Gone /\ Receiving.pc = "receive" /\ Gone.pc = "gone"
    /\ \A t \in Task : t # Receiving /\ t # Gone
<1>1. Receiving.pc = "receive" /\ Gone.pc = "gone"
  BY DEF Receiving, Gone
<1> QED BY <1>1 DEF Task

LEMMA HoldingTask ==
    ASSUME TypeOK, NEW w \in Worker, Holding(w) PROVE worker[w] \in Task
BY DEF TypeOK, Holding, Receiving, Gone

\* A step inside a task: the source stays, and the leads stay accounted for.
Inside(w) == Discover(w) \/ StoreLead(w) \/ BreakOff(w) \/ LeadsDone(w) \/ RecordStatus(w)

LEMMA InsideTask ==
    ASSUME TypeOK, Accounted, NEW w \in Worker, Inside(w)
    PROVE  /\ Holding(w)
           /\ \E t \in Task : /\ worker' = [worker EXCEPT ![w] = t]
                              /\ t.src = worker[w].src
                              /\ Sound(t)
           /\ UNCHANGED <<next, closed, reported, collector, ctxDone, err>>
<1>1. Holding(w) /\ UNCHANGED <<next, closed, reported, collector, ctxDone, err>>
  BY DEF Inside, Discover, StoreLead, BreakOff, LeadsDone, RecordStatus, Holding
<1>2. worker[w] \in Task /\ Sound(worker[w])
  BY <1>1, HoldingTask DEF Accounted
<1>3. CASE Discover(w)
  <2>1. PICK n \in 0..Leads[worker[w].src], failed \in BOOLEAN :
          /\ n # Leads[worker[w].src] => failed
          /\ worker' = [worker EXCEPT ![w].pc = "leads", ![w].left = n, ![w].failed = failed]
    BY <1>3 DEF Discover
  <2> DEFINE t == [worker[w] EXCEPT !.pc = "leads", !.left = n, !.failed = failed]
  <2>2. n \in Nat /\ Leads[worker[w].src] \in Nat
    BY <1>2, PoolAssumption DEF Task
  <2>3. t \in Task /\ t.src = worker[w].src /\ t.pc = "leads"
    BY <1>2, <2>2 DEF Task
  <2>4. t.stored = 0 /\ t.left = n /\ t.failed = failed
    BY <1>2, <1>3 DEF Task, Sound, Discover
  <2>5. Sound(t)
    BY <2>1, <2>2, <2>3, <2>4 DEF Sound
  <2> QED BY <1>1, <2>1, <2>3, <2>5
<1>4. CASE StoreLead(w)
  <2>1. PICK unresolved \in BOOLEAN :
          worker' = [worker EXCEPT ![w].left = @ - 1, ![w].stored = @ + 1,
                                   ![w].unresolved = @ \/ unresolved]
    BY <1>4 DEF StoreLead
  <2> DEFINE t == [worker[w] EXCEPT !.left = @ - 1, !.stored = @ + 1,
                                    !.unresolved = @ \/ unresolved]
  <2>2. worker[w].left \in Nat /\ worker[w].left > 0 /\ worker[w].stored \in Nat
    BY <1>2, <1>4 DEF StoreLead, LeadsLeft, Task
  <2>3. worker[w].left - 1 \in Nat /\ worker[w].stored + 1 \in Nat
    BY <2>2
  <2>4. (worker[w].unresolved \/ unresolved) \in BOOLEAN
    BY <1>2 DEF Task
  <2>5. t \in Task
    BY <1>2, <2>3, <2>4 DEF Task
  <2>6. /\ t \in Task /\ t.src = worker[w].src /\ t.pc = "leads"
        /\ t.left = worker[w].left - 1 /\ t.stored = worker[w].stored + 1
        /\ t.failed = worker[w].failed
    BY <1>2, <1>4, <2>5 DEF Task, StoreLead
  <2>7. Sound(t)
    BY <1>2, <1>4, <2>2, <2>6 DEF Sound, StoreLead
  <2> QED BY <1>1, <2>1, <2>6, <2>7
<1>5. CASE BreakOff(w)
  <2> DEFINE t == [worker[w] EXCEPT !.pc = "status", !.failed = TRUE]
  <2>1. t \in Task /\ t.src = worker[w].src /\ t.pc = "status" /\ t.failed
    BY <1>2 DEF Task
  <2>2. Sound(t)
    BY <2>1 DEF Sound
  <2> QED BY <1>1, <1>5, <2>1, <2>2 DEF BreakOff
<1>6. CASE LeadsDone(w)
  <2> DEFINE t == [worker[w] EXCEPT !.pc = "status", !.failed = @ \/ worker[w].unresolved]
  <2>1. /\ t \in Task /\ t.src = worker[w].src /\ t.pc = "status"
        /\ t.stored = worker[w].stored /\ (~t.failed => ~worker[w].failed)
    BY <1>2 DEF Task
  <2>2. worker[w].pc = "leads" /\ worker[w].left = 0 /\ worker[w].stored \in Nat
    BY <1>2, <1>6 DEF LeadsDone, LeadsLeft, Task
  <2>3. Sound(t)
    BY <1>2, <2>1, <2>2 DEF Sound
  <2> QED BY <1>1, <1>6, <2>1, <2>3 DEF LeadsDone
<1>7. CASE RecordStatus(w)
  <2>1. PICK lost \in BOOLEAN :
          worker' = [worker EXCEPT ![w].pc = "report", ![w].failed = @ \/ lost]
    BY <1>7 DEF RecordStatus
  <2> DEFINE t == [worker[w] EXCEPT !.pc = "report", !.failed = @ \/ lost]
  <2>2. /\ t \in Task /\ t.src = worker[w].src /\ t.pc = "report"
        /\ t.stored = worker[w].stored /\ (~t.failed => ~worker[w].failed)
    BY <1>2 DEF Task
  <2>3. Sound(t)
    BY <1>2, <1>7, <2>2 DEF Sound, RecordStatus
  <2> QED BY <1>1, <2>1, <2>2, <2>3
<1> QED BY <1>3, <1>4, <1>5, <1>6, <1>7 DEF Inside

\* The other steps of a worker, by what they do to the pool.
LEMMA DispatchTask ==
    ASSUME TypeOK, NEW w \in Worker, Dispatch(w)
    PROVE  /\ next \in DOMAIN Config /\ Config[next] \in Enabled
           /\ next \in Nat \ {0} /\ next' = next + 1 /\ next' \in 0..(Len(Config) + 1)
           /\ worker[w] = Receiving
           /\ \E t \in Task : /\ worker' = [worker EXCEPT ![w] = t]
                              /\ t.src = Config[next]
                              /\ Sound(t)
           /\ UNCHANGED <<closed, reported, collector, ctxDone, err>>
<1> DEFINE t == [pc |-> "discover", src |-> Config[next], left |-> 0, stored |-> 0,
                 failed |-> FALSE, unresolved |-> FALSE]
<1>1. next \in 1..Len(Config) /\ Len(Config) \in Nat
  BY PoolAssumption DEF Dispatch, Offering
<1>2. Config[next] \in Source /\ next \in DOMAIN Config
  BY <1>1, PoolAssumption
<1>3. t \in Task /\ Sound(t)
  BY <1>2 DEF Task, Sound
<1>4. next \in Nat \ {0} /\ next' = next + 1 /\ next' \in 0..(Len(Config) + 1)
  BY <1>1 DEF Dispatch
<1> QED BY <1>2, <1>3, <1>4 DEF Dispatch, Offering

LEMMA ReportTask ==
    ASSUME TypeOK, Accounted, NEW w \in Worker, Report(w)
    PROVE  /\ Holding(w)
           /\ worker' = [worker EXCEPT ![w] = Receiving]
           /\ \E r \in Result : /\ reported' = Append(reported, r)
                                /\ r.src = worker[w].src
                                /\ ~r.failed => r.stored = Leads[r.src]
           /\ collector = "collect" /\ ~closed
           /\ UNCHANGED <<next, closed, collector, ctxDone, err>>
<1> DEFINE r == [src |-> worker[w].src, stored |-> worker[w].stored, failed |-> worker[w].failed]
<1>1. Holding(w) /\ worker[w].pc = "report"
  BY DEF Report, Holding
<1>2. worker[w] \in Task /\ Sound(worker[w])
  BY <1>1, HoldingTask DEF Accounted
<1>3. r \in Result /\ r.src = worker[w].src
  BY <1>2 DEF Task, Result
<1>4. ~r.failed => r.stored = Leads[r.src]
  BY <1>1, <1>2 DEF Sound
<1>5. reported' = Append(reported, r)
  BY DEF Report
<1> QED BY <1>1, <1>3, <1>4, <1>5 DEF Report

------------------------------------------------------------------------------
(* The invariant                                                             *)

LEMMA PoolInit == ASSUME Init PROVE PoolInv
<1>1. Len(Config) \in Nat /\ DOMAIN Config = 1..Len(Config)
  BY PoolAssumption
<1>2. TypeOK
  <2>1. next \in 0..(Len(Config) + 1)
    BY <1>1 DEF Init
  <2>2. worker \in [Worker -> {Receiving, Gone} \cup Task]
    BY DEF Init
  <2>3. reported \in Seq(Result)
    BY DEF Init
  <2> QED BY <2>1, <2>2, <2>3 DEF Init, TypeOK
<1>3. \A w \in Worker : ~Holding(w)
  BY DEF Init, Holding, Receiving
<1>4. Accounted /\ Closing
  <2>1. \A w \in Worker : worker[w] # Gone
    BY IdleStates DEF Init
  <2> QED BY <1>3, <2>1 DEF Init, Accounted, Closing, Results
<1>5. OnePlace
  BY <1>3 DEF Init, OnePlace, OneResultPerSource, Results
<1>6. NoneDropped /\ Verdict
  BY <1>1 DEF Init, NoneDropped, Verdict
<1> QED BY <1>2, <1>4, <1>5, <1>6 DEF PoolInv

LEMMA PoolStutter == ASSUME PoolInv, UNCHANGED vars PROVE PoolInv'
BY DEF PoolInv, vars, TypeOK, Accounted, Holding, Sound, Closing, JobsClosed, AllDone, OnePlace,
       OneResultPerSource, NoneDropped, Placed, Verdict, FailedSources, Results

\* Inside a task nothing moves between the offered, the held and the reported.
LEMMA InsideStep == ASSUME PoolInv, NEW w \in Worker, Inside(w) PROVE PoolInv'
<1> USE DEF PoolInv
<1>1. PICK t \in Task : /\ worker' = [worker EXCEPT ![w] = t]
                        /\ t.src = worker[w].src
                        /\ Sound(t)
  BY InsideTask
<1>2. Holding(w) /\ UNCHANGED <<next, closed, reported, collector, ctxDone, err>>
  BY InsideTask
<1>3. worker'[w] = t /\ \A v \in Worker : v # w => worker'[v] = worker[v]
  BY <1>1 DEF TypeOK
<1>4. t.pc \in {"discover", "leads", "status", "report"}
  BY DEF Task
<1>5. \A v \in Worker : (Holding(v))' = Holding(v) /\ (Holding(v) => worker'[v].src = worker[v].src)
  BY <1>1, <1>2, <1>3, <1>4 DEF Holding
<1>6. TypeOK'
  BY <1>1, <1>2 DEF TypeOK
<1>7. Accounted'
  BY <1>1, <1>2, <1>3 DEF Accounted, Holding, Sound, Results
<1>8. Closing'
  <2>1. worker[w] # Gone
    BY <1>2, HoldingTask, IdleStates
  <2>2. ~closed
    BY <2>1 DEF Closing, AllDone
  <2> QED BY <1>2, <1>3, <2>2, IdleStates DEF Closing, JobsClosed
<1>9. OnePlace'
  BY <1>2, <1>5 DEF OnePlace, OneResultPerSource, Results
<1>10. NoneDropped' /\ Verdict'
  BY <1>2, <1>5 DEF NoneDropped, Placed, Verdict, FailedSources, Results
<1> QED BY <1>6, <1>7, <1>8, <1>9, <1>10

\* A source goes from the list into one worker's hands.
LEMMA DispatchStep == ASSUME PoolInv, NEW w \in Worker, Dispatch(w) PROVE PoolInv'
<1> USE DEF PoolInv
<1>1. PICK t \in Task : /\ worker' = [worker EXCEPT ![w] = t]
                        /\ t.src = Config[next]
                        /\ Sound(t)
  BY DispatchTask
<1>2. /\ next \in DOMAIN Config /\ next \in Nat \ {0}
      /\ next' = next + 1 /\ next' \in 0..(Len(Config) + 1)
      /\ worker[w] = Receiving
      /\ UNCHANGED <<closed, reported, collector, ctxDone, err>>
  BY DispatchTask
<1>3. worker'[w] = t /\ \A v \in Worker : v # w => worker'[v] = worker[v]
  BY <1>1 DEF TypeOK
<1>4. t.pc \in {"discover", "leads", "status", "report"}
  BY DEF Task
<1>5. (Holding(w))' /\ ~Holding(w)
  BY <1>2, <1>3, <1>4, IdleStates DEF Holding
<1>6. \A v \in Worker : v # w => (Holding(v))' = Holding(v)
  BY <1>3 DEF Holding
<1>7. TypeOK'
  BY <1>1, <1>2 DEF TypeOK
<1>8. Accounted'
  BY <1>1, <1>2, <1>3, <1>6 DEF Accounted, Sound, Results
<1>9. Closing'
  BY <1>2, <1>3, IdleStates DEF Closing, JobsClosed, AllDone
<1>10. DOMAIN Config \subseteq Nat
  BY PoolAssumption
<1>11. OnePlace'
  <2>1. \A v \in Worker : Holding(v) => worker[v].src # Config[next]
    BY <1>2 DEF OnePlace
  <2>2. \A r \in Results : r.src # Config[next]
    BY <1>2 DEF OnePlace
  <2>3. \A u, v \in Worker : (Holding(u) /\ Holding(v) /\ worker[u].src = worker[v].src)' => u = v
    BY <1>1, <1>3, <1>6, <2>1 DEF OnePlace
  <2>4. \A v \in Worker, r \in Results' : (Holding(v))' => worker'[v].src # r.src
    BY <1>1, <1>2, <1>3, <1>6, <2>2 DEF OnePlace, Results
  <2>5. ASSUME NEW i \in DOMAIN Config, i >= next'
        PROVE  /\ \A v \in Worker : (Holding(v))' => worker'[v].src # Config[i]
               /\ \A r \in Results' : r.src # Config[i]
    <3>1. i >= next /\ i # next
      BY <1>2, <1>10, <2>5
    <3>2. Config[i] # Config[next]
      BY <1>2, <3>1, PoolAssumption
    <3> QED BY <1>1, <1>2, <1>3, <1>6, <3>1, <3>2 DEF OnePlace, Results
  <2> QED BY <1>2, <2>3, <2>4, <2>5 DEF OnePlace, OneResultPerSource
<1>12. NoneDropped'
  <2> SUFFICES ASSUME ~ctxDone, NEW i \in DOMAIN Config, i < next', Config[i] \in Enabled
               PROVE  Placed(Config[i])'
    BY <1>2 DEF NoneDropped
  <2>1. CASE i = next
    BY <1>1, <1>3, <1>5, <2>1 DEF Placed
  <2>2. CASE i # next
    <3>1. i < next
      BY <1>2, <1>10, <2>2
    <3> QED BY <1>2, <1>3, <1>5, <1>6, <3>1 DEF NoneDropped, Placed, Results
  <2> QED BY <2>1, <2>2
<1>13. Verdict'
  BY <1>2 DEF Verdict, FailedSources, Results
<1> QED BY <1>7, <1>8, <1>9, <1>11, <1>12, <1>13

\* One more result: the others keep their places.
LEMMA OneMore ==
    ASSUME NEW r \in Result, reported \in Seq(Result), reported' = Append(reported, r)
    PROVE  /\ reported' \in Seq(Result) /\ Results' = Results \cup {r}
           /\ DOMAIN reported' = DOMAIN reported \cup {Len(reported) + 1}
           /\ \A i \in DOMAIN reported : reported'[i] = reported[i]
           /\ reported'[Len(reported) + 1] = r
<1>1. /\ reported' \in Seq(Result)
      /\ DOMAIN reported' = DOMAIN reported \cup {Len(reported) + 1}
      /\ \A i \in DOMAIN reported : reported'[i] = reported[i]
      /\ reported'[Len(reported) + 1] = r
  OBVIOUS
<1>2. Results' = Results \cup {r}
  BY <1>1 DEF Results
<1> QED BY <1>1, <1>2

\* A source goes from a worker's hands to the results.
LEMMA ReportStep == ASSUME PoolInv, NEW w \in Worker, Report(w) PROVE PoolInv'
<1> USE DEF PoolInv
<1>1. PICK r \in Result : /\ reported' = Append(reported, r)
                          /\ r.src = worker[w].src
                          /\ ~r.failed => r.stored = Leads[r.src]
  BY ReportTask
<1>0. reported' \in Seq(Result) /\ Results' = Results \cup {r}
  BY <1>1, OneMore DEF TypeOK
<1>2. /\ Holding(w) /\ worker' = [worker EXCEPT ![w] = Receiving]
      /\ collector = "collect" /\ ~closed
      /\ UNCHANGED <<next, closed, collector, ctxDone, err>>
  BY ReportTask
<1>3. worker'[w] = Receiving /\ \A v \in Worker : v # w => worker'[v] = worker[v]
  BY <1>2 DEF TypeOK
<1>4. ~(Holding(w))' /\ \A v \in Worker : v # w => (Holding(v))' = Holding(v)
  BY <1>3, IdleStates DEF Holding
<1>5. TypeOK'
  BY <1>0, <1>2 DEF TypeOK
<1>6. Accounted'
  BY <1>0, <1>1, <1>3, <1>4 DEF Accounted, Sound
<1>7. Closing'
  BY <1>2, <1>3, IdleStates DEF Closing, JobsClosed
<1>8. OnePlace'
  <2>1. \A q \in Results : q.src # r.src
    BY <1>1, <1>2 DEF OnePlace
  <2>2. \A v \in Worker : v # w /\ Holding(v) => worker[v].src # r.src
    BY <1>1, <1>2 DEF OnePlace
  <2>3. OneResultPerSource'
    <3>1. \A i \in DOMAIN reported : reported[i].src # r.src
      BY <2>1 DEF Results
    <3>2. \A i, j \in DOMAIN reported : reported[i].src = reported[j].src => i = j
      BY DEF OnePlace, OneResultPerSource
    <3> QED BY <1>1, <3>1, <3>2, OneMore DEF OneResultPerSource, TypeOK
  <2>4. ASSUME NEW i \in DOMAIN Config, next # 0, i >= next PROVE r.src # Config[i]
    BY <1>1, <1>2, <2>4 DEF OnePlace
  <2> QED BY <1>0, <1>2, <1>3, <1>4, <2>2, <2>3, <2>4 DEF OnePlace
<1>9. NoneDropped'
  BY <1>0, <1>1, <1>2, <1>3, <1>4 DEF NoneDropped, Placed
<1>10. Verdict'
  BY <1>2 DEF Verdict
<1> QED BY <1>5, <1>6, <1>7, <1>8, <1>9, <1>10

\* A worker leaves when the jobs channel is closed.
LEMMA WorkerReturnsStep == ASSUME PoolInv, NEW w \in Worker, WorkerReturns(w) PROVE PoolInv'
<1> USE DEF PoolInv
<1>1. /\ worker[w] = Receiving /\ JobsClosed
      /\ worker' = [worker EXCEPT ![w] = Gone]
      /\ UNCHANGED <<next, closed, reported, collector, ctxDone, err>>
  BY DEF WorkerReturns
<1>2. worker'[w] = Gone /\ \A v \in Worker : v # w => worker'[v] = worker[v]
  BY <1>1 DEF TypeOK
<1>3. \A v \in Worker : (Holding(v))' = Holding(v) /\ (Holding(v) => worker'[v] = worker[v])
  BY <1>1, <1>2, IdleStates DEF Holding
<1>4. TypeOK'
  BY <1>1 DEF TypeOK
<1>5. Accounted'
  BY <1>1, <1>3 DEF Accounted, Sound, Results
<1>6. Closing'
  BY <1>1, <1>2 DEF Closing, JobsClosed, AllDone
<1>7. OnePlace' /\ NoneDropped' /\ Verdict'
  BY <1>1, <1>3 DEF OnePlace, OneResultPerSource, NoneDropped, Placed, Verdict, FailedSources, Results
<1> QED BY <1>4, <1>5, <1>6, <1>7

\* The producer moves on or leaves.
LEMMA ProducerInvStep == ASSUME PoolInv, ProducerStep PROVE PoolInv'
<1> USE DEF PoolInv
<1>1. UNCHANGED <<worker, closed, reported, collector, ctxDone, err>>
  BY DEF ProducerStep, SkipDisabled, ProducerReturns
<1>2. Len(Config) \in Nat /\ DOMAIN Config = 1..Len(Config) /\ next \in 0..(Len(Config) + 1)
  BY PoolAssumption DEF TypeOK
<1>3. next # 0
  BY <1>2 DEF ProducerStep, SkipDisabled, ProducerReturns, Offering
<1>4. next' \in 0..(Len(Config) + 1)
  BY <1>2 DEF ProducerStep, SkipDisabled, ProducerReturns
<1>5. TypeOK' /\ Accounted' /\ Verdict'
  BY <1>1, <1>4 DEF TypeOK, Accounted, Holding, Sound, Verdict, FailedSources, Results
<1>6. Closing'
  BY <1>1, <1>3 DEF Closing, JobsClosed, AllDone
<1>7. OnePlace'
  <2>1. next' = 0 \/ next' = next + 1
    BY DEF ProducerStep, SkipDisabled, ProducerReturns
  <2>2. \A i \in DOMAIN Config : next' # 0 /\ i >= next' => i >= next
    BY <1>2, <2>1
  <2> QED BY <1>1, <1>3, <2>2 DEF OnePlace, OneResultPerSource, Holding, Results
<1>8. NoneDropped'
  <2> SUFFICES ASSUME ~ctxDone, NEW i \in DOMAIN Config, next' = 0 \/ i < next',
                      Config[i] \in Enabled
               PROVE  Placed(Config[i])
    BY <1>1 DEF NoneDropped, Placed, Holding, Results
  <2>1. i < next
    BY <1>2 DEF ProducerStep, SkipDisabled, ProducerReturns, Offering
  <2> QED BY <2>1 DEF NoneDropped
<1> QED BY <1>5, <1>6, <1>7, <1>8

\* The collector, the closer and the context leave the sources where they are.
LEMMA CollectorInvStep ==
    ASSUME PoolInv, CollectorStep \/ ContextEnds PROVE PoolInv'
<1> USE DEF PoolInv
<1>1. UNCHANGED <<next, worker, reported>>
  BY DEF CollectorStep, CloseResults, Collected, ReadCandidates, SyncSheet, CheckResult, ContextEnds
<1>2. TypeOK'
  <2>1. collector' \in {"collect", "candidates", "sheet", "check", "returned"}
        /\ err' \in {"none", "storage", "sheet", "context", "sources"}
        /\ closed' \in BOOLEAN /\ ctxDone' \in BOOLEAN
    BY DEF TypeOK, CollectorStep, CloseResults, Collected, ReadCandidates, SyncSheet, CheckResult,
           Outcome, ContextEnds
  <2> QED BY <1>1, <2>1 DEF TypeOK
<1>3. Accounted' /\ OnePlace'
  BY <1>1 DEF Accounted, Holding, Sound, OnePlace, OneResultPerSource, Results
<1>4. Closing'
  BY <1>1 DEF Closing, JobsClosed, AllDone, CollectorStep, CloseResults, Collected, ReadCandidates,
              SyncSheet, CheckResult, ContextEnds
<1>5. NoneDropped'
  <2>1. ctxDone' = ctxDone \/ ctxDone'
    BY DEF CollectorStep, CloseResults, Collected, ReadCandidates, SyncSheet, CheckResult, ContextEnds
  <2> QED BY <1>1, <2>1 DEF NoneDropped, Placed, Holding, Results
<1>6. Verdict'
  <2>1. FailedSources' = FailedSources
    BY <1>1 DEF FailedSources, Results
  <2> QED BY <2>1 DEF Verdict, Outcome, CollectorStep, CloseResults, Collected, ReadCandidates,
                      SyncSheet, CheckResult, ContextEnds
<1> QED BY <1>2, <1>3, <1>4, <1>5, <1>6

THEOREM PoolInvariant == Spec => []PoolInv
<1>1. ASSUME PoolInv, [Next]_vars PROVE PoolInv'
  <2>1. ASSUME NEW w \in Worker, WorkerStep(w) PROVE PoolInv'
    BY <1>1, <2>1, InsideStep, DispatchStep, ReportStep, WorkerReturnsStep DEF WorkerStep, Inside
  <2>2. CASE ProducerStep
    BY <1>1, <2>2, ProducerInvStep
  <2>3. CASE CollectorStep \/ ContextEnds
    BY <1>1, <2>3, CollectorInvStep
  <2>4. CASE Returned \/ UNCHANGED vars
    BY <1>1, <2>4, PoolStutter DEF Returned
  <2> QED BY <1>1, <2>1, <2>2, <2>3, <2>4 DEF Next
<1> QED BY PoolInit, <1>1, PTL DEF Spec

------------------------------------------------------------------------------
(* The theorems                                                              *)

\* The workers, the results and the collector have their types in every state.
THEOREM TypeCorrect == Spec => []TypeOK
<1>1. PoolInv => TypeOK
  BY DEF PoolInv
<1> QED BY PoolInvariant, <1>1, PTL

\* When Once reads the candidates, no goroutine of the cycle is left to write.
THEOREM GoroutinesGone == Spec => []NoGoroutineLeft
<1>1. PoolInv => NoGoroutineLeft
  BY PoolAssumption DEF PoolInv, Closing, AllDone, NoGoroutineLeft
<1> QED BY PoolInvariant, <1>1, PTL

\* No source is handed to two workers, whatever the pool and the list.
THEOREM ResultsUnique == Spec => []OneResultPerSource
<1>1. PoolInv => OneResultPerSource
  BY DEF PoolInv, OnePlace
<1> QED BY PoolInvariant, <1>1, PTL

\* A source is skipped only when the context ends: a failing one stops no other.
THEOREM SourcesIsolated == Spec => []FailuresIsolated
<1>1. ASSUME PoolInv PROVE FailuresIsolated
  <2> SUFFICES ASSUME collector = "returned", ~ctxDone, NEW i \in DOMAIN Config,
                      Config[i] \in Enabled
               PROVE  Config[i] \in ReportedSources
    BY DEF FailuresIsolated
  <2>1. next = 0 /\ \A w \in Worker : ~Holding(w)
    BY <1>1, PoolAssumption, IdleStates DEF PoolInv, Closing, AllDone, JobsClosed, Holding
  <2> QED BY <1>1, <2>1 DEF PoolInv, NoneDropped, Placed, ReportedSources
<1> QED BY PoolInvariant, <1>1, PTL

\* A cycle without an error has stored every lead of every enabled source.
THEOREM NoErrorComplete == Spec => []NoErrorMeansComplete
<1>1. ASSUME PoolInv PROVE NoErrorMeansComplete
  <2> SUFFICES ASSUME collector = "returned", err = "none", NEW i \in DOMAIN Config,
                      Config[i] \in Enabled
               PROVE  [src |-> Config[i], stored |-> Leads[Config[i]], failed |-> FALSE] \in Results
    BY DEF NoErrorMeansComplete
  <2>1. next = 0 /\ \A w \in Worker : ~Holding(w)
    BY <1>1, PoolAssumption, IdleStates DEF PoolInv, Closing, AllDone, JobsClosed, Holding
  <2>2. ~ctxDone /\ FailedSources = {}
    BY <1>1 DEF PoolInv, Verdict
  <2>3. PICK r \in Results : r.src = Config[i]
    BY <1>1, <2>1, <2>2 DEF PoolInv, NoneDropped, Placed
  <2>4. ~r.failed /\ r.stored = Leads[Config[i]] /\ r \in Result
    BY <1>1, <2>2, <2>3 DEF PoolInv, FailedSources, Accounted, TypeOK, Results
  <2>5. r = [src |-> Config[i], stored |-> Leads[Config[i]], failed |-> FALSE]
    BY <2>3, <2>4 DEF Result
  <2> QED BY <2>5
<1> QED BY PoolInvariant, <1>1, PTL
=============================================================================
