--------------------------- MODULE WorkerManager ---------------------------
(***************************************************************************)
(* The supervisor of model workers: internal/runtime (manager.go,          *)
(* worker.go) with the worker processes it starts.                         *)
(*                                                                         *)
(* A worker w is one exec.Cmd, one Worker struct and one wait goroutine;   *)
(* the three live and die together, so one identity, a member of Procs,    *)
(* stands for all of them.  The HTTP client of a Worker dials a socket     *)
(* PATH, which depends on the bundle name alone, so who answers is decided *)
(* at dial time by whichever process is bound to that path then.           *)
(*                                                                         *)
(* Threads are the goroutines of HTTP requests calling the Manager: any    *)
(* number of them run Load, Unload, Predict, Describe or Workers at once.  *)
(* A critical section that never blocks (Unload 152-159, the RLock         *)
(* look-ups) is one step guarded by the lock being free; Load's, which     *)
(* blocks in sysdeps.Check and in waitHealthy, holds mu over many steps.   *)
(***************************************************************************)
EXTENDS Naturals, FiniteSets

CONSTANTS
  Names,        \* bundle names, the keys of Manager.workers
  Procs,        \* worker processes that may be started (a bound on Load)
  Threads,      \* goroutines calling the manager
  Ops,          \* the manager methods those goroutines call
  None,         \* "no worker", "no thread", "no bundle name"
  MayHang,      \* TRUE iff a bundle's code and check commands may never return
  MayMissDeps   \* TRUE iff sysdeps.Check may report missing dependencies

AllOps == {"load", "unload", "predict", "describe", "list"}

ASSUME NoneAssumption == None \notin Names \cup Procs \cup Threads
ASSUME OpsAssumption  == Ops \subseteq AllOps
ASSUME FlagAssumption == MayHang \in BOOLEAN /\ MayMissDeps \in BOOLEAN

VARIABLES
  mu,       \* the thread holding Manager.mu for writing, or None
  workers,  \* Manager.workers: bundle name -> worker or None
  wname,    \* Worker.BundleName (and so SocketPath); None before Load made it
  wstate,   \* Worker.state; "none" before Load made it
  proc,     \* what the operating system says of the worker's process
  waitCh,   \* TRUE iff the worker's exit status sits unread in Worker.waitCh
  sock,     \* who bound the file at socketPath(name); None: no such file
  call      \* what each thread is doing

vars == <<mu, workers, wname, wstate, proc, waitCh, sock, call>>

WorkerStates == {"none", "starting", "ready", "degraded", "stopped", "failed"}

(***************************************************************************)
(* A process boots (imports the handler, loads the model), binds its       *)
(* socket and serves; it may hang; after /shutdown it is stopping; once    *)
(* dead it is a zombie until the goroutine in cmd.Wait() has reaped it.    *)
(***************************************************************************)
Live       == {"booting", "serving", "hung", "stopping"}
Accepting  == {"serving", "hung"}
ProcStates == {"none", "zombie", "reaped"} \cup Live

(***************************************************************************)
(* Where a thread is: "lock" about to take mu; "deps" in sysdeps.Check and *)
(* "stuck" there for ever; "poll" at the select of waitHealthy; "gate"     *)
(* before Predict reads w.state; "dial"/"sent" inside client.Do;           *)
(* "wait"/"killed" at the two receives of Unload; "cleanup" before Unload  *)
(* removes the socket file.                                                *)
(***************************************************************************)
Places == {"idle", "lock", "deps", "stuck", "poll", "gate", "dial", "sent",
           "wait", "killed", "cleanup"}

Calls == [op : AllOps \cup {"none"}, at : Places, name : Names \cup {None},
          w : Procs \cup {None}, conn : Procs \cup {None}, missing : BOOLEAN]

Idle == [op |-> "none", at |-> "idle", name |-> None, w |-> None,
         conn |-> None, missing |-> FALSE]

TypeOK ==
  /\ mu \in Threads \cup {None}
  /\ workers \in [Names -> Procs \cup {None}]
  /\ wname \in [Procs -> Names \cup {None}]
  /\ wstate \in [Procs -> WorkerStates]
  /\ proc \in [Procs -> ProcStates]
  /\ waitCh \in [Procs -> BOOLEAN]
  /\ sock \in [Names -> Procs \cup {None}]
  /\ call \in [Threads -> Calls]

Init ==
  /\ mu = None
  /\ workers = [n \in Names |-> None]
  /\ wname = [p \in Procs |-> None]
  /\ wstate = [p \in Procs |-> "none"]
  /\ proc = [p \in Procs |-> "none"]
  /\ waitCh = [p \in Procs |-> FALSE]
  /\ sock = [n \in Names |-> None]
  /\ call = [t \in Threads |-> Idle]

-----------------------------------------------------------------------------
(* Helpers *)

At(t, o, place) == call[t].op = o /\ call[t].at = place
Goto(t, place)  == call' = [call EXCEPT ![t].at = place]
Return(t)       == call' = [call EXCEPT ![t] = Idle]
Dialled(t)      == sock[call[t].name]
Listening(n)    == sock[n] # None /\ proc[sock[n]] \in Accepting
Kill(p) == proc' = [proc EXCEPT ![p] = IF @ \in Live THEN "zombie" ELSE @]

-----------------------------------------------------------------------------
(* Clients of the manager *)

\* A request handler calls a method of the manager for bundle n.
Call(t, o, n) ==
  /\ call[t].at = "idle"
  /\ call' = [call EXCEPT ![t] = [Idle EXCEPT !.op = o, !.at = "lock", !.name = n]]
  /\ UNCHANGED <<mu, workers, wname, wstate, proc, waitCh, sock>>

-----------------------------------------------------------------------------
(* client.Do: one request on a fresh connection to the worker's socket.    *)
(* The worker speaks HTTP/1.0 and closes after each reply, so no           *)
(* connection is ever reused.                                              *)

\* The dial reaches whichever process is bound to the path now.
Connect(t) ==
  /\ call[t].at = "dial"
  /\ Listening(call[t].name)
  /\ call' = [call EXCEPT ![t].at = "sent", ![t].conn = Dialled(t)]
  /\ UNCHANGED <<mu, workers, wname, wstate, proc, waitCh, sock>>

\* client.Do returned an error, which every caller takes its own way.
AfterError(t) ==
  /\ \/ call[t].op = "load" /\ Goto(t, "poll")
     \/ call[t].op = "unload" /\ Goto(t, "wait")
     \/ call[t].op \notin {"load", "unload"} /\ Return(t)
  /\ UNCHANGED <<mu, workers, wname, wstate, proc, waitCh, sock>>

\* No file, no listener, or the peer died.
DoFails(t) ==
  /\ \/ call[t].at = "dial" /\ ~Listening(call[t].name)
     \/ call[t].at = "sent" /\ proc[call[t].conn] \notin Accepting
  /\ AfterError(t)

\* The request's context ends: its client went away or a deadline passed.
\* Only a pending Do and the select of waitHealthy (LoadGivesUp) look at it.
Cancelled(t) ==
  /\ call[t].at \in {"dial", "sent"}
  /\ AfterError(t)

-----------------------------------------------------------------------------
(* Manager.Load *)

\* Mutant: Load never finds its bundle loaded.
IsReady_Never(n) == FALSE

IsReady(n) == workers[n] # None /\ wstate[workers[n]] = "ready"

LoadNoop(t) ==
  /\ At(t, "load", "lock")
  /\ mu = None
  /\ IsReady(call[t].name)
  /\ Return(t)
  /\ UNCHANGED <<mu, workers, wname, wstate, proc, waitCh, sock>>

\* From here on mu is held; the bundle's check commands run under it.
LoadLock(t) ==
  /\ At(t, "load", "lock")
  /\ mu = None
  /\ ~IsReady(call[t].name)
  /\ mu' = t
  /\ Goto(t, "deps")
  /\ UNCHANGED <<workers, wname, wstate, proc, waitCh, sock>>

\* A check command never ends; nothing bounds it, not even the context.
ChecksHang(t) ==
  /\ MayHang
  /\ At(t, "load", "deps")
  /\ Goto(t, "stuck")
  /\ UNCHANGED <<mu, workers, wname, wstate, proc, waitCh, sock>>

\* ensureSocketDir failed, or cmd.Start did after the old file was removed.
LoadRefused(t) ==
  /\ At(t, "load", "deps")
  /\ \/ sock' = sock
     \/ sock' = [sock EXCEPT ![call[t].name] = None]
  /\ mu' = None
  /\ Return(t)
  /\ UNCHANGED <<workers, wname, wstate, proc, waitCh>>

\* Mutant: the stale socket is not removed.
LoadStart_KeepsSocket(t, p, missing) ==
  /\ At(t, "load", "deps")
  /\ proc[p] = "none"
  /\ missing => MayMissDeps
  /\ workers' = [workers EXCEPT ![call[t].name] = p]
  /\ wname' = [wname EXCEPT ![p] = call[t].name]
  /\ wstate' = [wstate EXCEPT ![p] = "starting"]
  /\ proc' = [proc EXCEPT ![p] = "booting"]
  /\ call' = [call EXCEPT ![t].at = "poll", ![t].w = p, ![t].missing = missing]
  /\ UNCHANGED <<mu, waitCh, sock>>

\* The checks have returned: remove the old socket, start p and list it.
LoadStart(t, p, missing) ==
  /\ At(t, "load", "deps")
  /\ proc[p] = "none"
  /\ missing => MayMissDeps
  /\ workers' = [workers EXCEPT ![call[t].name] = p]
  /\ wname' = [wname EXCEPT ![p] = call[t].name]
  /\ wstate' = [wstate EXCEPT ![p] = "starting"]
  /\ proc' = [proc EXCEPT ![p] = "booting"]
  /\ sock' = [sock EXCEPT ![call[t].name] = None]
  /\ call' = [call EXCEPT ![t].at = "poll", ![t].w = p, ![t].missing = missing]
  /\ UNCHANGED <<mu, waitCh>>

\* waitHealthy: the ticker fires and checkHealth sends GET /health.
HealthTick(t) ==
  /\ At(t, "load", "poll")
  /\ Goto(t, "dial")
  /\ UNCHANGED <<mu, workers, wname, wstate, proc, waitCh, sock>>

\* Mutant: the state of the process is recorded as that of the worker.
LoadHealthy_ProcState(t) ==
  /\ At(t, "load", "sent")
  /\ proc[call[t].conn] = "serving"
  /\ wstate' = [wstate EXCEPT ![call[t].w] = proc[call[t].conn]]
  /\ mu' = None
  /\ Return(t)
  /\ UNCHANGED <<workers, wname, proc, waitCh, sock>>

\* waitHealthy returns nil: the worker answered 200.
LoadHealthy(t) ==
  /\ At(t, "load", "sent")
  /\ proc[call[t].conn] = "serving"
  /\ wstate' = [wstate EXCEPT ![call[t].w] =
                  IF call[t].missing THEN "degraded" ELSE "ready"]
  /\ mu' = None
  /\ Return(t)
  /\ UNCHANGED <<workers, wname, proc, waitCh, sock>>

\* Mutants: the state, or the process, is left alone; the timer is not read.
LoadGivesUp_KeepsState(t) ==
  /\ At(t, "load", "poll")
  /\ Kill(call[t].w)
  /\ mu' = None
  /\ Return(t)
  /\ UNCHANGED <<workers, wname, wstate, waitCh, sock>>

LoadGivesUp_KeepsProcess(t) ==
  /\ At(t, "load", "poll")
  /\ wstate' = [wstate EXCEPT ![call[t].w] = "failed"]
  /\ mu' = None
  /\ Return(t)
  /\ UNCHANGED <<workers, wname, proc, waitCh, sock>>

LoadGivesUp_Never(t) == FALSE

\* waitHealthy returns an error: the startup timer fired (time is not
\* modelled, it may always have) or the context ended.  Load kills the process.
LoadGivesUp(t) ==
  /\ At(t, "load", "poll")
  /\ wstate' = [wstate EXCEPT ![call[t].w] = "failed"]
  /\ Kill(call[t].w)
  /\ mu' = None
  /\ Return(t)
  /\ UNCHANGED <<workers, wname, waitCh, sock>>

\* Mutant: an early return without the unlock.
LoadExited_KeepsLock(t) ==
  /\ At(t, "load", "poll")
  /\ waitCh[call[t].w]
  /\ waitCh' = [waitCh EXCEPT ![call[t].w] = FALSE]
  /\ wstate' = [wstate EXCEPT ![call[t].w] = "failed"]
  /\ Return(t)
  /\ UNCHANGED <<mu, workers, wname, proc, sock>>

\* waitHealthy takes the exit status out of waitCh and returns an error.
LoadExited(t) ==
  /\ At(t, "load", "poll")
  /\ waitCh[call[t].w]
  /\ waitCh' = [waitCh EXCEPT ![call[t].w] = FALSE]
  /\ wstate' = [wstate EXCEPT ![call[t].w] = "failed"]
  /\ Kill(call[t].w)
  /\ mu' = None
  /\ Return(t)
  /\ UNCHANGED <<workers, wname, sock>>

-----------------------------------------------------------------------------
(* Manager.Unload *)

UnloadAbsent(t) ==
  /\ At(t, "unload", "lock")
  /\ mu = None
  /\ workers[call[t].name] = None
  /\ Return(t)
  /\ UNCHANGED <<mu, workers, wname, wstate, proc, waitCh, sock>>

\* Mutants: the entry is not deleted; the lock is not taken.
UnloadTake_KeepsEntry(t) ==
  /\ At(t, "unload", "lock")
  /\ mu = None
  /\ workers[call[t].name] # None
  /\ call' = [call EXCEPT ![t].at = "dial", ![t].w = workers[call[t].name]]
  /\ UNCHANGED <<mu, workers, wname, wstate, proc, waitCh, sock>>

UnloadTake_Unlocked(t) ==
  /\ At(t, "unload", "lock")
  /\ workers[call[t].name] # None
  /\ workers' = [workers EXCEPT ![call[t].name] = None]
  /\ call' = [call EXCEPT ![t].at = "dial", ![t].w = workers[call[t].name]]
  /\ UNCHANGED <<mu, wname, wstate, proc, waitCh, sock>>

\* The worker leaves the map under the lock; all the rest runs without it.
UnloadTake(t) ==
  /\ At(t, "unload", "lock")
  /\ mu = None
  /\ workers[call[t].name] # None
  /\ workers' = [workers EXCEPT ![call[t].name] = None]
  /\ call' = [call EXCEPT ![t].at = "dial", ![t].w = workers[call[t].name]]
  /\ UNCHANGED <<mu, wname, wstate, proc, waitCh, sock>>

\* POST /shutdown is answered: the process that got it leaves its serve loop.
ShutdownAnswered(t) ==
  /\ At(t, "unload", "sent")
  /\ proc[call[t].conn] = "serving"
  /\ proc' = [proc EXCEPT ![call[t].conn] = "stopping"]
  /\ Goto(t, "wait")
  /\ UNCHANGED <<mu, workers, wname, wstate, waitCh, sock>>

\* <-w.waitCh, in the select or after the kill.
UnloadReaped(t) ==
  /\ At(t, "unload", "wait") \/ At(t, "unload", "killed")
  /\ waitCh[call[t].w]
  /\ waitCh' = [waitCh EXCEPT ![call[t].w] = FALSE]
  /\ Goto(t, "cleanup")
  /\ UNCHANGED <<mu, workers, wname, wstate, proc, sock>>

\* Mutant: no timer beside the receive.
UnloadKill_Never(t) == FALSE

\* time.After(5 s) fires first.
UnloadKill(t) ==
  /\ At(t, "unload", "wait")
  /\ Kill(call[t].w)
  /\ Goto(t, "killed")
  /\ UNCHANGED <<mu, workers, wname, wstate, waitCh, sock>>

\* os.Remove(w.SocketPath), whoever is bound there by now.
UnloadCleanup(t) ==
  /\ At(t, "unload", "cleanup")
  /\ sock' = [sock EXCEPT ![call[t].name] = None]
  /\ wstate' = [wstate EXCEPT ![call[t].w] = "stopped"]
  /\ Return(t)
  /\ UNCHANGED <<mu, workers, wname, proc, waitCh>>

-----------------------------------------------------------------------------
(* Manager.Predict, Describe and Workers *)

NotLoaded(t) ==
  /\ At(t, "predict", "lock") \/ At(t, "describe", "lock")
  /\ mu = None
  /\ workers[call[t].name] = None
  /\ Return(t)
  /\ UNCHANGED <<mu, workers, wname, wstate, proc, waitCh, sock>>

LookUp(t) ==
  /\ At(t, "predict", "lock") \/ At(t, "describe", "lock")
  /\ mu = None
  /\ workers[call[t].name] # None
  /\ call' = [call EXCEPT ![t].w = workers[call[t].name],
                          ![t].at = IF call[t].op = "predict" THEN "gate" ELSE "dial"]
  /\ UNCHANGED <<mu, workers, wname, wstate, proc, waitCh, sock>>

\* Mutant: it waits for a worker that is not ready.
PredictGate_Waits(t) ==
  /\ At(t, "predict", "gate")
  /\ wstate[call[t].w] = "ready"
  /\ Goto(t, "dial")
  /\ UNCHANGED <<mu, workers, wname, wstate, proc, waitCh, sock>>

\* The switch on w.state, read after the lock was released.
PredictGate(t) ==
  /\ At(t, "predict", "gate")
  /\ \/ wstate[call[t].w] = "ready" /\ Goto(t, "dial")
     \/ wstate[call[t].w] # "ready" /\ Return(t)
  /\ UNCHANGED <<mu, workers, wname, wstate, proc, waitCh, sock>>

\* The worker answers /predict or /describe; the answer is passed on.
Answered(t) ==
  /\ At(t, "predict", "sent") \/ At(t, "describe", "sent")
  /\ proc[call[t].conn] = "serving"
  /\ Return(t)
  /\ UNCHANGED <<mu, workers, wname, wstate, proc, waitCh, sock>>

\* Workers copies name -> state under the read lock.
Snapshot(t) ==
  /\ At(t, "list", "lock")
  /\ mu = None
  /\ Return(t)
  /\ UNCHANGED <<mu, workers, wname, wstate, proc, waitCh, sock>>

-----------------------------------------------------------------------------
(* Worker processes and their wait goroutines *)

\* Mutant: the socket path does not depend on the bundle name.
Bind_OnePath(p) ==
  /\ proc[p] = "booting"
  /\ proc' = [proc EXCEPT ![p] = "serving"]
  /\ sock' = [n \in Names |-> p]
  /\ UNCHANGED <<mu, workers, wname, wstate, waitCh, call>>

\* serve() replaces whatever file is at GONNX_SOCKET and listens there.
Bind(p) ==
  /\ proc[p] = "booting"
  /\ proc' = [proc EXCEPT ![p] = "serving"]
  /\ sock' = [sock EXCEPT ![wname[p]] = p]
  /\ UNCHANGED <<mu, workers, wname, wstate, waitCh, call>>

\* Handler code never returns: the single-threaded server answers no more.
Hang(p) ==
  /\ MayHang
  /\ proc[p] = "serving"
  /\ proc' = [proc EXCEPT ![p] = "hung"]
  /\ UNCHANGED <<mu, workers, wname, wstate, waitCh, sock, call>>

\* The process dies at any time: exception at startup, OOM, a signal.
Crash(p) ==
  /\ proc[p] \in Live \ {"stopping"}
  /\ proc' = [proc EXCEPT ![p] = "zombie"]
  /\ UNCHANGED <<mu, workers, wname, wstate, waitCh, sock, call>>

\* The serve loop has ended; the socket file stays behind.
Exit(p) ==
  /\ proc[p] = "stopping"
  /\ proc' = [proc EXCEPT ![p] = "zombie"]
  /\ UNCHANGED <<mu, workers, wname, wstate, waitCh, sock, call>>

\* Mutant: the goroutine waits for the process but sends nothing.
Reap_Silent(p) ==
  /\ proc[p] = "zombie"
  /\ proc' = [proc EXCEPT ![p] = "reaped"]
  /\ UNCHANGED <<mu, workers, wname, wstate, waitCh, sock, call>>

\* waitCh <- cmd.Wait()
Reap(p) ==
  /\ proc[p] = "zombie"
  /\ proc' = [proc EXCEPT ![p] = "reaped"]
  /\ waitCh' = [waitCh EXCEPT ![p] = TRUE]
  /\ UNCHANGED <<mu, workers, wname, wstate, sock, call>>

-----------------------------------------------------------------------------

\* A thread's first step under mu.
Enter(t) ==
  \/ LoadNoop(t) \/ LoadLock(t)
  \/ UnloadAbsent(t) \/ UnloadTake(t)
  \/ NotLoaded(t) \/ LookUp(t) \/ Snapshot(t)

\* Every later step of a thread.
Advance(t) ==
  \/ LoadRefused(t)
  \/ \E p \in Procs, missing \in BOOLEAN : LoadStart(t, p, missing)
  \/ Connect(t) \/ DoFails(t)
  \/ HealthTick(t) \/ LoadHealthy(t) \/ LoadGivesUp(t) \/ LoadExited(t)
  \/ ShutdownAnswered(t) \/ UnloadReaped(t) \/ UnloadKill(t) \/ UnloadCleanup(t)
  \/ PredictGate(t) \/ Answered(t)

ThreadStep(t) ==
  \/ \E o \in Ops, n \in Names : Call(t, o, n)
  \/ Enter(t) \/ Advance(t) \/ Cancelled(t) \/ ChecksHang(t)

ProcStep(p) == Bind(p) \/ Hang(p) \/ Crash(p) \/ Exit(p) \/ Reap(p)

Next ==
  \/ \E t \in Threads : ThreadStep(t)
  \/ \E p \in Procs : ProcStep(p)

Spec == Init /\ [][Next]_vars

(***************************************************************************)
(* Goroutines run (weak fairness of Advance); sync.RWMutex starves nobody  *)
(* (strong fairness of Enter); a fired startup timer stays in its channel  *)
(* and Go's select picks among ready cases at random (strong fairness of   *)
(* LoadGivesUp, stated with Enter's: a thread waits for one of them only); *)
(* the kernel lets a stopping process end and be reaped.                   *)
(* Nothing makes a client call or give up, a worker finish booting, or     *)
(* what hangs recover.                                                     *)
(***************************************************************************)
Fairness ==
  /\ \A t \in Threads : WF_vars(Advance(t)) /\ SF_vars(Enter(t) \/ LoadGivesUp(t))
  /\ \A p \in Procs : WF_vars(Exit(p) \/ Reap(p))

FairSpec == Spec /\ Fairness

-----------------------------------------------------------------------------
(* Safety *)

\* The worker a thread is loading, is unloading.
Loads(t, p)   == call[t].op = "load" /\ call[t].w = p
Unloads(t, p) == call[t].op = "unload" /\ call[t].w = p
Listed(p)     == \E n \in Names : workers[n] = p

\* Whoever gets the lock finds every listed worker ready, degraded or failed:
\* the half-started and the stopped ones are never seen by Workers, Load,
\* Unload, Predict or Describe, although all but Load touch state unlocked.
ListedStates ==
  mu = None => \A n \in Names :
    workers[n] # None => wstate[workers[n]] \in {"ready", "degraded", "failed"}

\* The /health answer that makes a worker ready comes from that very process,
\* although the dial goes to a path that earlier processes used too.
HealthFromOwnWorker ==
  \A t \in Threads : At(t, "load", "sent") => call[t].conn = call[t].w

\* Whoever a call is connected to runs the model the caller named.
PeerRunsNamedModel ==
  \A t \in Threads : call[t].at = "sent" => wname[call[t].conn] = call[t].name

\* waitCh carries one value, so it must have one receiver: no worker is being
\* unloaded twice, nor unloaded while Load waits for it, nor still listed.
SoleReceiver ==
  \A t \in Threads, p \in Procs : Unloads(t, p) =>
    /\ ~Listed(p)
    /\ \A u \in Threads \ {t} : ~Unloads(u, p) /\ ~Loads(u, p)

\* The exit status of a worker that came up is still in its channel when
\* Unload comes for it: only Unload itself ever takes it.
ExitStatusKept ==
  \A p \in Procs :
    (wstate[p] \in {"ready", "degraded"} /\ proc[p] = "reaped") =>
      waitCh[p] \/ \E t \in Threads : Unloads(t, p) /\ call[t].at = "cleanup"

\* A running process is listed or is being unloaded; the one way out is a
\* degraded worker that a second Load replaced.
OnlyDegradedEscape ==
  \A p \in Procs : proc[p] \in Live =>
    Listed(p) \/ (\E t \in Threads : Unloads(t, p)) \/ wstate[p] = "degraded"

\* A worker recorded as failed or stopped has no running process.
DeadStatesAreDead ==
  \A p \in Procs : wstate[p] \in {"failed", "stopped"} => proc[p] \in {"zombie", "reaped"}

-----------------------------------------------------------------------------
(* The inductive invariant behind the safety properties.                   *)

Loading(t) == call[t].op = "load" /\ call[t].at \in {"poll", "dial", "sent"}
Holding(t) == call[t].op = "load" /\ call[t].at \in {"deps", "stuck", "poll", "dial", "sent"}
Taken(t)   == call[t].op = "unload" /\ call[t].at \notin {"idle", "lock"}
Dead(p)    == proc[p] \in {"zombie", "reaped"}

PlacesOf(o) ==
  CASE o = "none"     -> {"idle"}
    [] o = "load"     -> {"lock", "deps", "stuck", "poll", "dial", "sent"}
    [] o = "unload"   -> {"lock", "dial", "sent", "wait", "killed", "cleanup"}
    [] o = "predict"  -> {"lock", "gate", "dial", "sent"}
    [] o = "describe" -> {"lock", "dial", "sent"}
    [] o = "list"     -> {"lock"}

\* Each call is at a place its method has, and knows its name, worker, peer.
CallsFormed ==
  \A t \in Threads :
    /\ call[t].at \in PlacesOf(call[t].op)
    /\ call[t].at # "idle" => call[t].name \in Names
    /\ call[t].at \in {"idle", "lock", "deps", "stuck"} => call[t].w = None
    /\ call[t].at \notin {"idle", "lock", "deps", "stuck"} =>
         call[t].w \in Procs /\ wname[call[t].w] = call[t].name
    /\ call[t].at = "sent" =>
         call[t].conn \in Procs /\ wname[call[t].conn] = call[t].name

\* The write lock is held over a step by the one thread inside sysdeps.Check
\* or waitHealthy: no worker of the name is ready in the former, and exactly
\* its own worker is starting in the latter.
LoadExclusive ==
  /\ \A t \in Threads : mu = t <=> Holding(t)
  /\ \A t \in Threads : At(t, "load", "deps") => ~IsReady(call[t].name)
  /\ \A t \in Threads : Loading(t) =>
       wstate[call[t].w] = "starting" /\ workers[call[t].name] = call[t].w
  /\ \A p \in Procs : wstate[p] = "starting" => \E t \in Threads : Loading(t) /\ call[t].w = p

\* Listed workers carry the name they are listed under and are not stopped.
MapFormed ==
  \A n \in Names : workers[n] # None =>
    /\ wname[workers[n]] = n
    /\ wstate[workers[n]] \in {"starting", "ready", "degraded", "failed"}

\* A worker taken by Unload is out of the map and taken once; after the kill
\* its process is dead, after the receive it is reaped.
TakenOnce ==
  \A t \in Threads : Taken(t) =>
    /\ ~Listed(call[t].w)
    /\ wstate[call[t].w] \in {"ready", "degraded", "failed"}
    /\ call[t].at = "killed" => Dead(call[t].w)
    /\ call[t].at = "cleanup" => proc[call[t].w] = "reaped"
    /\ \A u \in Threads : Taken(u) /\ call[u].w = call[t].w => u = t

\* Worker record, process and exit status agree.
ProcessesFormed ==
  \A p \in Procs :
    /\ wname[p] = None <=> proc[p] = "none"
    /\ proc[p] = "none" => wstate[p] = "none"
    /\ wstate[p] \in {"failed", "stopped"} => Dead(p)
    /\ waitCh[p] => proc[p] = "reaped"

\* Only LoadExited, which makes the worker failed, and Unload drain waitCh.
StatusUndrained ==
  \A p \in Procs :
    (wstate[p] \in {"starting", "ready", "degraded"} /\ proc[p] = "reaped") =>
      waitCh[p] \/ \E t \in Threads : Taken(t) /\ call[t].w = p /\ call[t].at = "cleanup"

\* Live processes that have a record are supervised, but for replaced
\* degraded ones.
Supervised ==
  \A p \in Procs : (proc[p] \in Live /\ wstate[p] # "none") =>
    \/ Listed(p)
    \/ \E t \in Threads : Taken(t) /\ call[t].w = p
    \/ wstate[p] = "degraded"

\* A socket file belongs to a worker of that name.
SocketsNamed == \A n \in Names : sock[n] # None => wname[sock[n]] = n

\* All that does not depend on who else has processes and sockets of these
\* names: a daemon keeps it also beside the workers of an earlier one.
Bookkeeping ==
  /\ TypeOK /\ CallsFormed /\ LoadExclusive /\ MapFormed /\ TakenOnce
  /\ ProcessesFormed /\ StatusUndrained /\ Supervised /\ SocketsNamed

\* Only the worker that is being loaded under n can still bind there; so a
\* socket file, or a peer, that Load finds is its own.
Undisturbed(n) ==
  /\ \A p \in Procs : (wname[p] = n /\ proc[p] = "booting") => wstate[p] = "starting"
  /\ \A t \in Threads : (Loading(t) /\ call[t].name = n) =>
       /\ sock[n] \in {None, call[t].w}
       /\ call[t].at = "sent" => call[t].conn = call[t].w

\* Every process has a record.
AllRecorded == \A p \in Procs : wstate[p] = "none" => proc[p] = "none"

IndInv == Bookkeeping /\ AllRecorded /\ \A n \in Names : Undisturbed(n)

-----------------------------------------------------------------------------
(* What the documentation says and the code does not keep.                 *)

\* No model has two running processes, apart from those on their way out
\* ("Each loaded model gets exactly one worker process", runtime.go).
OneProcessPerModel ==
  \A p, q \in Procs :
    (/\ {proc[p], proc[q]} \subseteq Live
     /\ wname[p] = wname[q]
     /\ \A t \in Threads : ~Unloads(t, p) /\ ~Unloads(t, q)) => p = q

\* A ready worker that serves can be reached at its SocketPath.
ReadyReachable ==
  \A n \in Names :
    (IsReady(n) /\ proc[workers[n]] \in Accepting) => sock[n] = workers[n]

-----------------------------------------------------------------------------
(* Liveness *)

\* No timeout of the daemon's ends these waits: for the answer of a worker
\* that hangs, and for a check command of the bundle.
PeerHangs(t) == call[t].at = "sent" /\ proc[call[t].conn] = "hung"
LoadHangs(t) == call[t].op = "load" /\ (call[t].at = "stuck" \/ PeerHangs(t))

\* A Load that has the lock returns: when the worker answers, exits or is
\* given up.  If it never does, its own check command or the very worker it
\* asks hangs for ever; what others do cannot hold it.  That worker is less
\* than manager.go:81 promises ("blocks until the worker is healthy or the
\* startup timeout expires"): waitHealthy does not look at its timer while a
\* health request is pending (line 271).
LoadReturns ==
  \A t \in Threads : <>[]Holding(t) => <>[]LoadHangs(t)

\* Whoever waits for mu gets it, although Load holds it while it polls and
\* other calls keep coming; if not, one Load that hangs has it for ever.
LockObtained ==
  \A t \in Threads :
    <>[](call[t].at = "lock") => \E u \in Threads : <>[]LoadHangs(u)

\* Once /shutdown is answered or failed, unloading a worker that had come up
\* ends, by the worker's exit or by the kill, also when the worker hangs.
UnloadReturns ==
  \A t \in Threads :
    (call[t].op = "unload" /\ call[t].at \in {"wait", "killed"}
       /\ wstate[call[t].w] \in {"ready", "degraded"}) ~> (call[t].at = "idle")

\* A predict call is answered or fails.  If it never does, the worker it has
\* asked hangs, or a Load that hangs has the lock.  The former is less than
\* "DefaultPredictTimeout is applied when the bundle policy is 0" promises
\* (manager.go:28): nothing reads it.
PredictReturns ==
  \A t \in Threads : <>[](call[t].op = "predict") =>
    <>[]PeerHangs(t) \/ \E u \in Threads : <>[]LoadHangs(u)

\* Unload "waits for it to exit" (manager.go:150): an Unload whose worker is
\* dead returns, also when that worker never became healthy.
UnloadOfFailedReturns ==
  \A t \in Threads :
    (call[t].op = "unload" /\ call[t].at \in {"wait", "killed"}
       /\ wstate[call[t].w] = "failed") ~> (call[t].at = "idle")

-----------------------------------------------------------------------------
(* The abstract life cycle of each model, as seen through the worker map. *)

status ==
  [n \in Names |->
     IF workers[n] = None THEN "absent"
     ELSE IF wstate[workers[n]] = "starting" THEN "loading"
     ELSE wstate[workers[n]]]

Lifecycle == INSTANCE ModelLifecycle WITH Names <- Names, status <- status

\* The manager implements ModelLifecycle.
ImplementsLifecycle == Lifecycle!Spec
=============================================================================
