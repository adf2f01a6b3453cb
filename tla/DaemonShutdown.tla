--------------------------- MODULE DaemonShutdown ---------------------------
(***************************************************************************)
(* The life of the daemon around its supervisor: main of cmd/gonnxd with   *)
(* Manager.UnloadAll, composed with WorkerManager.                         *)
(*                                                                         *)
(* On a signal the main goroutine unloads every worker of a snapshot of    *)
(* the map, one after the other, and only then closes the listener and     *)
(* waits for the requests in progress; a context of 15 s covers both.  So  *)
(* requests are served until the last worker of the snapshot is gone.  The *)
(* daemon may also be killed at any step.  Its workers are not: without a  *)
(* control group to end them (install.sh's user-only mode) they run on     *)
(* while the next daemon starts with an empty map and the same socket      *)
(* directory.                                                              *)
(***************************************************************************)
EXTENDS WorkerManager

CONSTANTS
  Main,    \* the main goroutine, one of Threads
  MaxBoot  \* bound on restarts

ASSUME MainAssumption == Main \in Threads
ASSUME BootAssumption == MaxBoot \in Nat

VARIABLES
  main,     \* where main() is
  names,    \* what UnloadAll has left of its snapshot
  expired,  \* TRUE iff the context of the shutdown has ended
  left,     \* what each process was doing when its daemon ended; "none" before
  boot,     \* restarts so far
  due       \* history: the workers that were listed at the snapshot

daemonVars == <<main, names, expired, left, boot, due>>
allVars    == <<vars, daemonVars>>

Requests == Threads \ {Main}
Stopping == {"snapshot", "unloading", "draining"}

DaemonTypeOK ==
  /\ TypeOK
  /\ main \in {"serving"} \cup Stopping \cup {"down"}
  /\ names \subseteq Names
  /\ expired \in BOOLEAN
  /\ left \in [Procs -> ProcStates]
  /\ boot \in 0..MaxBoot
  /\ due \subseteq Procs

DaemonInit ==
  /\ Init
  /\ main = "serving"
  /\ names = {}
  /\ expired = FALSE
  /\ left = [p \in Procs |-> "none"]
  /\ boot = 0
  /\ due = {}

-----------------------------------------------------------------------------
(* Requests: served until the listener is closed, run until main returns   *)

Arrives(t) ==
  /\ main \in {"serving", "snapshot", "unloading"}
  /\ \E o \in Ops, n \in Names : Call(t, o, n)
  /\ UNCHANGED daemonVars

Entered(t)   == main # "down" /\ Enter(t) /\ UNCHANGED daemonVars
Advanced(t)  == main # "down" /\ Advance(t) /\ UNCHANGED daemonVars
TimedOut(t)  == main # "down" /\ LoadGivesUp(t) /\ UNCHANGED daemonVars
Abandoned(t) == main # "down" /\ Cancelled(t) /\ UNCHANGED daemonVars
Stuck(t)     == main # "down" /\ ChecksHang(t) /\ UNCHANGED daemonVars

-----------------------------------------------------------------------------
(* main *)

Signal ==
  /\ main = "serving"
  /\ main' = "snapshot"
  /\ UNCHANGED <<vars, names, expired, left, boot, due>>

\* UnloadAll copies the names under the read lock.
TakeSnapshot ==
  /\ main = "snapshot"
  /\ mu = None
  /\ main' = "unloading"
  /\ names' = {n \in Names : workers[n] # None}
  /\ due' = {workers[n] : n \in names'}
  /\ UNCHANGED <<vars, expired, left, boot>>

\* Its loop, in the order of the map: any.
UnloadNext(n) ==
  /\ main = "unloading"
  /\ n \in names
  /\ names' = names \ {n}
  /\ Call(Main, "unload", n)
  /\ UNCHANGED <<main, expired, left, boot, due>>

Expire ==
  /\ main \in Stopping
  /\ ~expired
  /\ expired' = TRUE
  /\ UNCHANGED <<vars, main, names, left, boot, due>>

\* Mutant: UnloadAll ignores the context.
DeadlineHits_Never == FALSE

\* A pending /shutdown ends with the context.
DeadlineHits == expired /\ Abandoned(Main)

\* Mutant: the unloads are started and not waited for.
CloseListener_NoWait ==
  /\ main = "unloading"
  /\ names = {}
  /\ main' = "draining"
  /\ UNCHANGED <<vars, names, expired, left, boot, due>>

\* UnloadAll has returned; srv.Shutdown closes the listener.
CloseListener ==
  /\ main = "unloading"
  /\ names = {}
  /\ call[Main].at = "idle"
  /\ main' = "draining"
  /\ UNCHANGED <<vars, names, expired, left, boot, due>>

-----------------------------------------------------------------------------
(* The end of the daemon, and the next one *)

\* Goroutines, locks and the map are gone, the processes are not.
Ends ==
  /\ main' = "down"
  /\ left' = [p \in Procs |-> IF left[p] = "none" THEN proc[p] ELSE left[p]]
  /\ mu' = None
  /\ workers' = [n \in Names |-> None]
  /\ wstate' = [p \in Procs |-> "none"]
  /\ waitCh' = [p \in Procs |-> FALSE]
  /\ call' = [t \in Threads |-> Idle]
  /\ names' = {}
  /\ expired' = FALSE
  /\ due' = {}
  /\ UNCHANGED <<wname, proc, sock, boot>>

\* srv.Shutdown returns when the handlers have, or with the context; so
\* does main.
MainReturns ==
  /\ main = "draining"
  /\ expired \/ \A t \in Requests : call[t].at = "idle"
  /\ Ends

\* os.Exit after a server error, or a signal that is not caught.
Killed == main # "down" /\ Ends

\* A new daemon starts with an empty map, whatever still runs.
Restart ==
  /\ main = "down"
  /\ boot < MaxBoot
  /\ boot' = boot + 1
  /\ main' = "serving"
  /\ UNCHANGED <<vars, names, expired, left, due>>

-----------------------------------------------------------------------------
(* Worker processes run whether a daemon does or not; a daemon reaps those *)
(* it has started.                                                         *)

Runs(p)   == (Bind(p) \/ Hang(p) \/ Crash(p)) /\ UNCHANGED daemonVars
Exits(p)  == Exit(p) /\ UNCHANGED daemonVars
Reaped(p) == left[p] = "none" /\ Reap(p) /\ UNCHANGED daemonVars

MainLocks == TakeSnapshot \/ Entered(Main)

MainRuns ==
  \/ \E n \in Names : UnloadNext(n)
  \/ Advanced(Main) \/ DeadlineHits \/ CloseListener \/ MainReturns

DaemonNext ==
  \/ \E t \in Requests : Arrives(t) \/ Entered(t) \/ Advanced(t) \/ Abandoned(t) \/ Stuck(t)
  \/ Signal \/ MainLocks \/ MainRuns
  \/ Expire \/ Killed \/ Restart
  \/ \E p \in Procs : Runs(p) \/ Exits(p) \/ Reaped(p)

DaemonSpec == DaemonInit /\ [][DaemonNext]_allVars

(***************************************************************************)
(* The fairness of WorkerManager, for the main goroutine too; and time     *)
(* passes, so the context ends.  Strong fairness of a thread's entry and   *)
(* of its startup timer is stated once: it can wait for one of them only.  *)
(* Nobody need ever send a signal or start another daemon.                 *)
(***************************************************************************)
DaemonFairness ==
  /\ WF_allVars(MainRuns) /\ SF_allVars(MainLocks) /\ WF_allVars(Expire)
  /\ \A t \in Requests : /\ WF_allVars(Advanced(t))
                         /\ SF_allVars(Entered(t) \/ TimedOut(t))
  /\ \A p \in Procs : WF_allVars(Exits(p) \/ Reaped(p))

FairDaemon == DaemonSpec /\ DaemonFairness

-----------------------------------------------------------------------------
(* Properties *)

\* "UnloadAll gracefully stops all workers" (manager.go:236), of those that
\* it saw: when it returns none of them runs, however the requests that are
\* still served load and unload meanwhile; but for one whose own Unload, by a
\* request, main did not wait out, and a degraded one replaced by a Load.
\* Workers of later Loads are not covered: they outlive the daemon.
SnapshotStopped ==
  main = "draining" => \A p \in due :
    Dead(p) \/ wstate[p] = "degraded" \/ \E t \in Requests : Unloads(t, p)

\* A process for n was booting when its daemon ended: it may bind late.
LateBinder(n) == \E p \in Procs : left[p] = "booting" /\ wname[p] = n

\* The sockets of a previous run are of no harm ("Remove stale socket from a
\* previous run", manager.go:112): a health check is answered by the worker
\* being loaded, although workers of earlier daemons still serve.  Only where
\* one was still booting when its daemon ended may another answer: that one,
\* or a worker which that one made ready before it had bound itself.
OnlyLateBindersIntrude ==
  \A t \in Threads : (At(t, "load", "sent") /\ call[t].conn # call[t].w) =>
    LateBinder(call[t].name)

\* The end of a daemon makes every model absent, and nothing else it does, nor
\* workers that outlive it, changes what ModelLifecycle says of a model:
\* UnloadAll (manager.go:236) removes between the loads of others, never in one.
DaemonLifecycle ==
  /\ Lifecycle!Init
  /\ [][Lifecycle!Next \/ (main' = "down" /\ status' = [n \in Names |-> "absent"])]_status

-----------------------------------------------------------------------------
(* The inductive invariant behind them *)

\* The processes an earlier daemon left have no record, and boot now only if
\* they did then; all others have one.
Strangers ==
  \A p \in Procs :
    /\ left[p] # "none" => /\ proc[p] # "none" /\ wstate[p] = "none"
                           /\ proc[p] = "booting" => left[p] = "booting"
    /\ left[p] = "none" /\ wstate[p] = "none" => proc[p] = "none"

\* The main goroutine calls Unload only, in its loop only.
MainFormed ==
  /\ call[Main].op \in {"none", "unload"}
  /\ main # "unloading" => call[Main].op = "none"
  /\ main = "draining" => names = {}

\* Somebody unloads p or main is about to.
Awaited(p) ==
  \/ \E t \in Threads : Taken(t) /\ call[t].w = p
  \/ \E n \in Names : /\ workers[n] = p
                      /\ n \in names \/ (At(Main, "unload", "lock") /\ call[Main].name = n)

\* A worker of the snapshot is past its Load; it is dead, or is awaited.
SnapshotCovered ==
  main \in {"unloading", "draining"} => \A p \in due :
    /\ wstate[p] \notin {"none", "starting"}
    /\ Dead(p) \/ wstate[p] = "degraded" \/ Awaited(p)

DaemonInv ==
  /\ DaemonTypeOK /\ Bookkeeping /\ Strangers /\ MainFormed /\ SnapshotCovered
  /\ \A n \in Names : LateBinder(n) \/ Undisturbed(n)

-----------------------------------------------------------------------------
(* Liveness *)

\* Main is blocked by what no timeout of the daemon ends: a Load that has the
\* lock and a dependency or health check that hangs, or a failed worker's
\* exit status.
SomeLoadHangs == \E t \in Requests : LoadHangs(t)
StatusIsGone  == At(Main, "unload", "killed") /\ ~waitCh[call[Main].w]
                 /\ wstate[call[Main].w] = "failed"

\* After a signal the daemon ends, also with workers that hang, a stream of
\* new requests and Loads in progress, unless it is blocked in that way.
ShutdownEnds ==
  (main = "snapshot") ~> (main = "down" \/ SomeLoadHangs \/ StatusIsGone)
=============================================================================
