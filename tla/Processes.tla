----------------------------- MODULE Processes ------------------------------
(***************************************************************************)
(* The processes that share one database and one workbook: the worker      *)
(* (App.Run with its health server), one-shot commands that take the       *)
(* process lock (once, import), and enrich, which does not.  A cycle is    *)
(* one discovery step and one synchronisation step here; CyclePool and     *)
(* InboxSync open them.  Processes get signals, die, and are started again *)
(* by the supervisor.                                                      *)
(***************************************************************************)
EXTENDS Naturals, FiniteSets

CONSTANTS Proc,
          Command,   \* what a process runs: "worker", "once" or "enrich"
          Nobody,    \* the lock file is not locked
          MaxCrashes \* bound: processes that die

ASSUME ProcessAssumption ==
    /\ Command \in [Proc -> {"worker", "once", "enrich"}]
    /\ Nobody \notin Proc
    /\ MaxCrashes \in Nat

VARIABLES pc,        \* where each process is; "off" when there is none
          flock,     \* the process holding the lock on the database's lock file
          opened,    \* processes with the database open
          signalled, \* processes that got SIGTERM or an interrupt
          cancelled, \* processes whose context has ended
          server,    \* the health server's goroutine
          serverErr, \* its error waits in the buffered channel
          exit,      \* how the process ended
          crashes

vars == <<pc, flock, opened, signalled, cancelled, server, serverErr, exit, crashes>>

Exclusive(p) == Command[p] # "enrich"
Running == {p \in Proc : pc[p] # "off"}

TypeOK ==
    /\ pc \in [Proc -> {"off", "lock", "open", "discover", "sheet", "emit", "wait",
                        "close", "unlock"}]
    /\ flock \in Proc \cup {Nobody}
    /\ opened \subseteq Running /\ signalled \subseteq Proc
    /\ cancelled \subseteq Proc /\ serverErr \subseteq Proc
    /\ server \in [Proc -> {"down", "up", "failing"}]
    /\ exit \in [Proc -> {"none", "nil", "refused", "error", "server", "killed"}]
    /\ crashes \in 0..MaxCrashes

Init ==
    /\ pc = [p \in Proc |-> "off"]
    /\ flock = Nobody
    /\ opened = {} /\ signalled = {} /\ cancelled = {} /\ serverErr = {}
    /\ server = [p \in Proc |-> "down"]
    /\ exit = [p \in Proc |-> "none"]
    /\ crashes = 0

------------------------------------------------------------------------------
Goto(p, place) == pc' = [pc EXCEPT ![p] = place]
Ends(p, how) == exit' = [exit EXCEPT ![p] = how]

\* app.New for the exclusive commands, app.NewUnlocked for enrich.
Start(p) ==
    /\ pc[p] = "off"
    /\ Goto(p, IF Exclusive(p) THEN "lock" ELSE "open")
    /\ signalled' = signalled \ {p} /\ cancelled' = cancelled \ {p}
    /\ serverErr' = serverErr \ {p}
    /\ Ends(p, "none")
    /\ UNCHANGED <<flock, opened, server, crashes>>

\* Mutant of AcquireLock: the lock is not looked at.
TakeLock(p) ==
    /\ pc[p] = "lock"
    /\ flock' = p
    /\ Goto(p, "open")
    /\ UNCHANGED <<opened, signalled, cancelled, server, serverErr, exit, crashes>>

\* AcquireLock: flock without blocking.
AcquireLock(p) ==
    /\ pc[p] = "lock"
    /\ flock = Nobody
    /\ flock' = p
    /\ Goto(p, "open")
    /\ UNCHANGED <<opened, signalled, cancelled, server, serverErr, exit, crashes>>

LockRefused(p) ==
    /\ pc[p] = "lock"
    /\ flock # Nobody
    /\ Goto(p, "off")
    /\ Ends(p, "refused")
    /\ UNCHANGED <<flock, opened, signalled, cancelled, server, serverErr, crashes>>

\* store.Open, then the credentials; Run starts the health server.
OpenStore(p) ==
    /\ pc[p] = "open"
    /\ opened' = opened \cup {p}
    /\ Goto(p, "discover")
    /\ server' = [server EXCEPT ![p] = IF Command[p] = "worker" THEN "up" ELSE "down"]
    /\ UNCHANGED <<flock, signalled, cancelled, serverErr, exit, crashes>>

\* Mutant of Unlocked: a failed start forgets the lock it took.
StillLocked(p) == flock

Unlocked(p) == IF flock = p THEN Nobody ELSE flock

OpenFails(p) ==
    /\ pc[p] = "open"
    /\ flock' = Unlocked(p)
    /\ Goto(p, "off")
    /\ Ends(p, "error")
    /\ UNCHANGED <<opened, signalled, cancelled, server, serverErr, crashes>>

\* Discovery (or the enrich batch) is over; Candidates was read.
Discovered(p) ==
    /\ pc[p] = "discover"
    /\ Goto(p, "sheet")
    /\ UNCHANGED <<flock, opened, signalled, cancelled, server, serverErr, exit, crashes>>

\* Once returns and its deferred function publishes the report.
OnceReturns(p, result) ==
    /\ pc[p] \in {"discover", "sheet"}
    /\ Command[p] # "enrich"
    /\ Goto(p, IF Command[p] = "worker" THEN "emit" ELSE "close")
    /\ exit' = IF Command[p] = "worker" THEN exit
               ELSE [exit EXCEPT ![p] = IF result = "ok" THEN "nil" ELSE "error"]
    /\ UNCHANGED <<flock, opened, signalled, cancelled, server, serverErr, crashes>>

\* The batch or the output may fail; a sheet error is reported on stderr only.
EnrichReturns(p) ==
    /\ pc[p] \in {"discover", "sheet"}
    /\ Command[p] = "enrich"
    /\ Goto(p, "close")
    /\ \E how \in {"nil", "error"} : Ends(p, how)
    /\ UNCHANGED <<flock, opened, signalled, cancelled, server, serverErr, crashes>>

\* Run returns the server's error when it is in the channel, nil otherwise;
\* the deferred Shutdown stops the server.
RunReturns(p) ==
    /\ Goto(p, "close")
    /\ Ends(p, IF p \in serverErr THEN "server" ELSE "nil")
    /\ server' = [server EXCEPT ![p] = "down"]

\* Mutant of Emit: the context is not looked at after a cycle.
EmitAndWait(p) ==
    /\ pc[p] = "emit"
    /\ Goto(p, "wait")
    /\ UNCHANGED <<flock, opened, signalled, cancelled, server, serverErr, exit, crashes>>

Emit(p) ==
    /\ pc[p] = "emit"
    /\ IF p \in cancelled THEN RunReturns(p)
       ELSE Goto(p, "wait") /\ UNCHANGED <<exit, server>>
    /\ UNCHANGED <<flock, opened, signalled, cancelled, serverErr, crashes>>

TimerFires(p) ==
    /\ pc[p] = "wait"
    /\ Goto(p, "discover")
    /\ UNCHANGED <<flock, opened, signalled, cancelled, server, serverErr, exit, crashes>>

WaitCancelled(p) ==
    /\ pc[p] = "wait"
    /\ p \in cancelled
    /\ RunReturns(p)
    /\ UNCHANGED <<flock, opened, signalled, cancelled, serverErr, crashes>>

\* Mutant of CloseStore: the store is left open.
CloseForgotten(p) ==
    /\ pc[p] = "close"
    /\ Goto(p, IF Exclusive(p) THEN "unlock" ELSE "off")
    /\ UNCHANGED <<flock, opened, signalled, cancelled, server, serverErr, exit, crashes>>

\* App.Close: the store first, then the lock.
CloseStore(p) ==
    /\ pc[p] = "close"
    /\ opened' = opened \ {p}
    /\ Goto(p, IF Exclusive(p) THEN "unlock" ELSE "off")
    /\ UNCHANGED <<flock, signalled, cancelled, server, serverErr, exit, crashes>>

ReleaseLock(p) ==
    /\ pc[p] = "unlock"
    /\ flock' = Nobody
    /\ Goto(p, "off")
    /\ UNCHANGED <<opened, signalled, cancelled, server, serverErr, exit, crashes>>

\* Mutant of ServerFails: cancel() comes before the error is in the channel.
CancelBeforeError(p) ==
    /\ server[p] = "up"
    /\ cancelled' = cancelled \cup {p}
    /\ server' = [server EXCEPT ![p] = "failing"]
    /\ UNCHANGED <<pc, flock, opened, signalled, serverErr, exit, crashes>>

\* ListenAndServe fails: its error goes into the channel, then the context ends.
ServerFails(p) ==
    /\ server[p] = "up"
    /\ serverErr' = serverErr \cup {p}
    /\ server' = [server EXCEPT ![p] = "failing"]
    /\ UNCHANGED <<pc, flock, opened, signalled, cancelled, exit, crashes>>

ServerCancels(p) ==
    /\ server[p] = "failing"
    /\ cancelled' = cancelled \cup {p}
    /\ server' = [server EXCEPT ![p] = "down"]
    /\ UNCHANGED <<pc, flock, opened, signalled, serverErr, exit, crashes>>

Signal(p) ==
    /\ p \in Running \ signalled
    /\ signalled' = signalled \cup {p}
    /\ cancelled' = cancelled \cup {p}
    /\ UNCHANGED <<pc, flock, opened, server, serverErr, exit, crashes>>

\* The process dies; the kernel closes its files and drops its flock.
Die(p) ==
    /\ p \in Running
    /\ crashes < MaxCrashes
    /\ crashes' = crashes + 1
    /\ Goto(p, "off")
    /\ opened' = opened \ {p}
    /\ flock' = IF flock = p THEN Nobody ELSE flock
    /\ server' = [server EXCEPT ![p] = "down"]
    /\ Ends(p, "killed")
    /\ UNCHANGED <<signalled, cancelled, serverErr>>

Step(p) ==
    \/ AcquireLock(p) \/ LockRefused(p) \/ OpenStore(p) \/ OpenFails(p) \/ Discovered(p)
    \/ OnceReturns(p, "ok") \/ OnceReturns(p, "error") \/ EnrichReturns(p)
    \/ Emit(p) \/ TimerFires(p) \/ CloseStore(p) \/ ReleaseLock(p)

Next == \E p \in Proc :
    \/ Start(p) \/ Step(p) \/ WaitCancelled(p)
    \/ ServerFails(p) \/ ServerCancels(p) \/ Signal(p) \/ Die(p)

Spec == Init /\ [][Next]_vars

\* Each process goes on.  Run's select takes whichever channel is ready: a timer
\* that keeps winning against an ended context still comes back to it.
FairSpec ==
    /\ Spec
    /\ \A p \in Proc : WF_vars(Step(p) \/ WaitCancelled(p)) /\ SF_vars(Emit(p))

------------------------------------------------------------------------------
(* Properties *)

\* OPERATIONS: "The process lock prevents two workers using one database", from
\* the opening of the database to its closing.
OneOwner ==
    \A p, q \in opened : Exclusive(p) /\ Exclusive(q) => p = q

\* The lock belongs to a running process: no failed start, crash or normal end
\* leaves it taken and the database unusable.
NoStaleLock == flock # Nobody => flock \in Running /\ pc[flock] # "lock"

\* A worker that nobody stopped does not exit as if all were well: when its
\* health server fails, Run returns that error.
ServerFailureReported ==
    \A p \in Proc : exit[p] = "nil" /\ Command[p] = "worker" => p \in signalled

\* A process that was told to stop stops.
SignalStops ==
    \A p \in Proc : (p \in signalled /\ p \in Running) ~> (p \notin Running)

=============================================================================
