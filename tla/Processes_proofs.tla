-------------------------- MODULE Processes_proofs ---------------------------
(***************************************************************************)
(* One owner of the database and no stale lock, for any number of          *)
(* processes, signals and deaths, and no worker that hides the failure of  *)
(* its health server.                                                      *)
(*                                                                         *)
(* The argument: a process of an exclusive command that is past            *)
(* AcquireLock holds the lock and gives it up on every way out (Locked),   *)
(* the database is open only in between (Opened), and a context ends only  *)
(* by a signal or after the server's error is in the channel (Ended).      *)
(***************************************************************************)
EXTENDS Processes, TLAPS

Place == {"off", "lock", "open", "discover", "sheet", "emit", "wait", "close", "unlock"}

Types ==
    /\ pc \in [Proc -> Place]
    /\ flock \in Proc \cup {Nobody}
    /\ signalled \subseteq Proc /\ cancelled \subseteq Proc /\ serverErr \subseteq Proc
    /\ server \in [Proc -> {"down", "up", "failing"}]
    /\ exit \in [Proc -> {"none", "nil", "refused", "error", "server", "killed"}]
    /\ crashes \in 0..MaxCrashes

Opened == \A p \in opened : p \in Proc /\ pc[p] \in {"discover", "sheet", "emit", "wait", "close"}

Locked == \A p \in Proc : flock = p <=> Exclusive(p) /\ pc[p] \notin {"off", "lock"}

Ended ==
    \A p \in Proc :
        /\ server[p] # "down" =>
             Command[p] = "worker" /\ pc[p] \in {"discover", "sheet", "emit", "wait"}
        /\ server[p] = "failing" => p \in serverErr
        /\ p \in cancelled => p \in signalled \/ p \in serverErr
        /\ pc[p] \in {"lock", "unlock"} => Exclusive(p)

Reported == \A p \in Proc : exit[p] = "nil" /\ Command[p] = "worker" => p \in signalled

\* The inductive invariant.
ProcInv == Types /\ Opened /\ Locked /\ Ended /\ Reported

LEMMA ProcInit == ASSUME Init PROVE ProcInv
BY ProcessAssumption
DEF Init, ProcInv, Types, Place, Opened, Locked, Ended, Reported

LEMMA StartStep == ASSUME ProcInv, NEW p \in Proc, Start(p) PROVE ProcInv'
<1> USE ProcessAssumption DEF ProcInv, Types, Place
<1>1. Types'
  BY DEF Start, Goto, Ends
<1>2. Opened'
  BY DEF Start, Goto, Opened
<1>3. Locked'
  BY DEF Start, Goto, Locked, Exclusive
<1>4. Ended'
  BY DEF Start, Goto, Ended, Exclusive
<1>5. Reported'
  BY DEF Start, Ends, Reported
<1> QED BY <1>1, <1>2, <1>3, <1>4, <1>5

LEMMA LockStep ==
    ASSUME ProcInv, NEW p \in Proc, AcquireLock(p) \/ LockRefused(p) \/ ReleaseLock(p)
    PROVE  ProcInv'
<1> USE ProcessAssumption DEF ProcInv, Types, Place
<1> USE DEF AcquireLock, LockRefused, ReleaseLock
<1>1. Types'
  BY DEF Goto, Ends
<1>2. Opened'
  BY DEF Goto, Opened
<1>3. Locked'
  <2>1. CASE AcquireLock(p)
    BY <2>1 DEF Goto, Locked, Ended, Exclusive
  <2>2. CASE LockRefused(p)
    <3>1. pc[p] = "lock" /\ pc'[p] = "off" /\ \A q \in Proc : q # p => pc'[q] = pc[q]
      BY <2>2 DEF Goto
    <3>2. flock' = flock /\ flock # p
      BY <2>2, <3>1 DEF Locked
    <3> QED BY <3>1, <3>2 DEF Locked, Exclusive
  <2>3. CASE ReleaseLock(p)
    <3>1. flock = p
      BY <2>3 DEF Locked, Ended
    <3>2. \A q \in Proc : q # p => ~(Exclusive(q) /\ pc[q] \notin {"off", "lock"})
      BY <3>1 DEF Locked
    <3>3. pc'[p] = "off" /\ \A q \in Proc : q # p => pc'[q] = pc[q]
      BY <2>3 DEF Goto
    <3> QED BY <2>3, <3>2, <3>3 DEF Locked, Exclusive
  <2> QED BY <2>1, <2>2, <2>3
<1>4. Ended'
  BY DEF Goto, Ended, Exclusive
<1>5. Reported'
  BY DEF Ends, Reported
<1> QED BY <1>1, <1>2, <1>3, <1>4, <1>5

LEMMA OpenStep ==
    ASSUME ProcInv, NEW p \in Proc, OpenStore(p) \/ OpenFails(p) \/ CloseStore(p)
    PROVE  ProcInv'
<1> USE ProcessAssumption DEF ProcInv, Types, Place
<1> USE DEF OpenStore, OpenFails, CloseStore
<1>1. Types'
  BY DEF Goto, Ends, Unlocked
<1>2. Opened'
  BY DEF Goto, Opened
<1>3. Locked'
  BY DEF Goto, Locked, Exclusive, Unlocked
<1>4. Ended'
  BY DEF Goto, Ended, Exclusive
<1>5. Reported'
  BY DEF Ends, Reported
<1> QED BY <1>1, <1>2, <1>3, <1>4, <1>5

LEMMA CycleStep ==
    ASSUME ProcInv, NEW p \in Proc,
           \/ Discovered(p) \/ OnceReturns(p, "ok") \/ OnceReturns(p, "error")
           \/ EnrichReturns(p) \/ TimerFires(p)
    PROVE  ProcInv'
<1> USE ProcessAssumption DEF ProcInv, Types, Place
<1> USE DEF Discovered, OnceReturns, EnrichReturns, TimerFires
<1>1. Types'
  BY DEF Goto, Ends
<1>2. Opened'
  BY DEF Goto, Opened
<1>3. Locked'
  BY DEF Goto, Locked, Exclusive
<1>4. Ended'
  <2>1. UNCHANGED <<server, serverErr, cancelled, signalled>>
    OBVIOUS
  <2>2. /\ pc' = [pc EXCEPT ![p] = pc'[p]]
        /\ pc'[p] \in {"sheet", "emit", "discover", "close"}
        /\ server[p] # "down" => pc'[p] # "close"
    BY DEF Goto, Ended
  <2> QED BY <2>1, <2>2 DEF Ended, Exclusive
<1>5. Reported'
  BY DEF Ends, Reported
<1> QED BY <1>1, <1>2, <1>3, <1>4, <1>5

\* Run leaves only when its context has ended, and then says why.
LEMMA RunStep ==
    ASSUME ProcInv, NEW p \in Proc, Emit(p) \/ WaitCancelled(p) PROVE ProcInv'
<1> USE ProcessAssumption DEF ProcInv, Types, Place
<1> USE DEF Emit, WaitCancelled, RunReturns
<1>1. Types'
  BY DEF Goto, Ends
<1>2. Opened'
  BY DEF Goto, Opened
<1>3. Locked'
  BY DEF Goto, Locked, Exclusive
<1>4. Ended'
  BY DEF Goto, Ended, Exclusive
<1>5. Reported'
  BY DEF Ends, Ended, Reported
<1> QED BY <1>1, <1>2, <1>3, <1>4, <1>5

LEMMA ServerStep ==
    ASSUME ProcInv, NEW p \in Proc, ServerFails(p) \/ ServerCancels(p) \/ Signal(p) \/ Die(p)
    PROVE  ProcInv'
<1> USE ProcessAssumption DEF ProcInv, Types, Place
<1> USE DEF ServerFails, ServerCancels, Signal, Die
<1>1. Types'
  BY DEF Goto, Ends
<1>2. Opened'
  BY DEF Goto, Opened
<1>3. Locked'
  BY DEF Goto, Locked, Exclusive
<1>4. Ended'
  BY DEF Goto, Ended, Exclusive
<1>5. Reported'
  BY DEF Ends, Reported
<1> QED BY <1>1, <1>2, <1>3, <1>4, <1>5

THEOREM ProcInvariant == Spec => []ProcInv
<1>1. ASSUME ProcInv, [Next]_vars PROVE ProcInv'
  <2>1. ASSUME NEW p \in Proc, Start(p) PROVE ProcInv'
    BY <1>1, <2>1, StartStep
  <2>2. ASSUME NEW p \in Proc, Step(p) \/ WaitCancelled(p) PROVE ProcInv'
    BY <1>1, <2>2, LockStep, OpenStep, CycleStep, RunStep DEF Step
  <2>3. ASSUME NEW p \in Proc, ServerFails(p) \/ ServerCancels(p) \/ Signal(p) \/ Die(p)
        PROVE  ProcInv'
    BY <1>1, <2>3, ServerStep
  <2>4. CASE UNCHANGED vars
    BY <1>1, <2>4 DEF vars, ProcInv, Types, Opened, Locked, Ended, Reported
  <2> QED BY <1>1, <2>1, <2>2, <2>3, <2>4 DEF Next
<1> QED BY ProcInit, <1>1, PTL DEF Spec

------------------------------------------------------------------------------
(* The theorems                                                              *)

\* Places, locks, contexts and exits have their types in every state, and only a
\* running process has the database open.
THEOREM TypeCorrect == Spec => []TypeOK
<1>1. ProcInv => TypeOK
  BY DEF ProcInv, Types, Place, Opened, Running, TypeOK
<1> QED BY ProcInvariant, <1>1, PTL

\* Two exclusive commands never have the database open at once.
THEOREM OwnerUnique == Spec => []OneOwner
<1>1. ProcInv => OneOwner
  BY DEF ProcInv, Opened, Locked, OneOwner
<1> QED BY ProcInvariant, <1>1, PTL

\* The lock is never left behind by a process that is gone.
THEOREM LockReleased == Spec => []NoStaleLock
<1>1. ProcInv => NoStaleLock
  BY DEF ProcInv, Types, Locked, Running, NoStaleLock
<1> QED BY ProcInvariant, <1>1, PTL

\* A worker that was not told to stop never ends without an error.
THEOREM FailureReported == Spec => []ServerFailureReported
<1>1. ProcInv => ServerFailureReported
  BY DEF ProcInv, Reported, ServerFailureReported
<1> QED BY ProcInvariant, <1>1, PTL
=============================================================================
