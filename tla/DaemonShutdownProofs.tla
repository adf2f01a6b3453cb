------------------------ MODULE DaemonShutdownProofs ------------------------
(***************************************************************************)
(* That DaemonInv is an invariant of DaemonShutdown for any names,         *)
(* processes, threads and number of restarts, and what follows from it.    *)
(*                                                                         *)
(* The manager's own part, Bookkeeping, is kept by its steps as            *)
(* WorkerManagerProofs has shown; new is what they do to the processes of  *)
(* earlier daemons and to the workers main is waiting for, and what the    *)
(* end of a daemon leaves.                                                 *)
(***************************************************************************)
EXTENDS DaemonShutdown, WorkerManagerProofs

-----------------------------------------------------------------------------
(* What a step of the manager does to a process and to a call              *)

\* A process starts, or goes on in its direction, and so does its record.
Moves(p) ==
  \/ proc[p] = "none" /\ proc'[p] = "booting" /\ wstate'[p] = "starting"
  \/ /\ wname'[p] = wname[p]
     /\ proc'[p] = proc[p] \/ (proc[p] # "none" /\ proc'[p] \notin {"none", "booting"})
     /\ Dead(p) => Dead(p)'
     /\ \/ wstate'[p] = wstate[p]
        \/ wstate[p] = "starting" /\ wstate'[p] # "none"
        \/ wstate[p] \notin {"none", "starting"} /\ wstate'[p] = "stopped" /\ Dead(p)

\* Records, processes and names all stay.
LEMMA AllStay ==
  ASSUME UNCHANGED <<wname, wstate, proc>>, NEW p \in Procs
  PROVE  Moves(p)
BY DEF Moves, Dead

\* The end of a load changes the record of its worker, which was starting.
LEMMA LoadEndMoves ==
  ASSUME Bookkeeping, NEW t \in Threads, NEW p \in Procs,
         LoadHealthy(t) \/ LoadGivesUp(t) \/ LoadExited(t)
  PROVE  Moves(p)
<1>1. /\ call[t].w \in Procs /\ wstate[call[t].w] = "starting"
      /\ wstate \in [Procs -> WorkerStates] /\ proc \in [Procs -> ProcStates]
  BY DEF Bookkeeping, TypeOK, CallsFormed, LoadExclusive, LoadHealthy, LoadGivesUp, LoadExited,
     At, Loading
<1>2. UNCHANGED wname /\ \E s \in {"ready", "degraded", "failed"} :
        wstate' = [wstate EXCEPT ![call[t].w] = s]
  BY DEF LoadHealthy, LoadGivesUp, LoadExited
<1>3. UNCHANGED proc \/ Kill(call[t].w)
  BY DEF LoadHealthy, LoadGivesUp, LoadExited
<1> QED
  BY <1>1, <1>2, <1>3 DEF Moves, Kill, Dead, Live

\* An unload stops or kills a process, and ends with the record of a dead one.
LEMMA UnloadMoves ==
  ASSUME Bookkeeping, NEW t \in Threads, NEW p \in Procs,
         ShutdownAnswered(t) \/ UnloadKill(t) \/ UnloadCleanup(t)
  PROVE  Moves(p)
<1>1. wstate \in [Procs -> WorkerStates] /\ proc \in [Procs -> ProcStates]
  BY DEF Bookkeeping, TypeOK
<1>2. CASE ShutdownAnswered(t)
  BY <1>1, <1>2 DEF ShutdownAnswered, Moves, Dead
<1>3. CASE UnloadKill(t)
  BY <1>1, <1>3 DEF UnloadKill, Kill, Moves, Dead, Live
<1>4. CASE UnloadCleanup(t)
  <2>1. Taken(t) /\ call[t].at = "cleanup"
    BY <1>4 DEF UnloadCleanup, At, Taken
  <2>2. proc[call[t].w] = "reaped" /\ wstate[call[t].w] \in {"ready", "degraded", "failed"}
    BY <2>1 DEF Bookkeeping, TakenOnce
  <2> QED
    BY <1>1, <1>4, <2>2 DEF UnloadCleanup, Moves, Dead
<1> QED
  BY <1>2, <1>3, <1>4

\* Every step of a thread.
LEMMA ThreadMoves ==
  ASSUME Bookkeeping, NEW t \in Threads, NEW p \in Procs, ThreadStep(t)
  PROVE  Moves(p)
<1>1. CASE UNCHANGED <<wname, wstate, proc>>
  BY <1>1, AllStay
<1>2. CASE \E q \in Procs, missing \in BOOLEAN : LoadStart(t, q, missing)
  BY <1>2 DEF LoadStart, Moves, Dead, Bookkeeping, TypeOK
<1>3. CASE LoadHealthy(t) \/ LoadGivesUp(t) \/ LoadExited(t)
  BY <1>3, LoadEndMoves
<1>4. CASE ShutdownAnswered(t) \/ UnloadKill(t) \/ UnloadCleanup(t)
  BY <1>4, UnloadMoves
<1>5. ASSUME Enter(t) PROVE UNCHANGED <<wname, wstate, proc>>
  BY <1>5 DEF Enter, LoadNoop, LoadLock, UnloadAbsent, UnloadTake, NotLoaded, LookUp, Snapshot
<1>6. ASSUME AfterError(t) \/ ChecksHang(t) \/ \E o \in Ops, n \in Names : Call(t, o, n)
      PROVE  UNCHANGED <<wname, wstate, proc>>
  BY <1>6 DEF AfterError, ChecksHang, Call
<1>7. ASSUME \/ LoadRefused(t) \/ Connect(t) \/ HealthTick(t) \/ UnloadReaped(t)
             \/ PredictGate(t) \/ Answered(t)
      PROVE  UNCHANGED <<wname, wstate, proc>>
  BY <1>7 DEF LoadRefused, Connect, HealthTick, UnloadReaped, PredictGate, Answered
<1> QED
  BY <1>1, <1>2, <1>3, <1>4, <1>5, <1>6, <1>7 DEF ThreadStep, Advance, DoFails, Cancelled

\* Every step of a process.
LEMMA ProcMoves ==
  ASSUME Bookkeeping, NEW q \in Procs, NEW p \in Procs, ProcStep(q)
  PROVE  Moves(p)
<1>1. proc \in [Procs -> ProcStates]
  BY DEF Bookkeeping, TypeOK
<1>2. UNCHANGED <<wname, wstate>>
  BY DEF ProcStep, Bind, Hang, Crash, Exit, Reap
<1>3. \E s \in {"serving", "hung", "zombie", "reaped"} :
        /\ proc[q] # "none" /\ (Dead(q) => s = "reaped")
        /\ proc' = [proc EXCEPT ![q] = s]
  BY DEF ProcStep, Bind, Hang, Crash, Exit, Reap, Dead, Live
<1> QED
  BY <1>1, <1>2, <1>3 DEF Moves, Dead

\* A step of one thread is not a step of another.
LEMMA OneCall ==
  ASSUME Bookkeeping, NEW t \in Threads, NEW u \in Threads \ {t},
         ThreadStep(t) \/ \E n \in Names : Call(t, "unload", n)
  PROVE  call'[u] = call[u]
<1>1. call \in [Threads -> Calls]
  BY DEF Bookkeeping, TypeOK
<1>2. ASSUME \E o \in AllOps, n \in Names : Call(t, o, n) PROVE call'[u] = call[u]
  BY <1>1, <1>2 DEF Call
<1>3. ASSUME Enter(t) PROVE call'[u] = call[u]
  BY <1>1, <1>3 DEF Enter, LoadNoop, LoadLock, UnloadAbsent, UnloadTake, NotLoaded, LookUp, Snapshot,
     Return, Goto
<1>4. ASSUME AfterError(t) \/ ChecksHang(t) PROVE call'[u] = call[u]
  BY <1>1, <1>4 DEF AfterError, ChecksHang, Return, Goto
<1>5. ASSUME \/ LoadRefused(t) \/ Connect(t) \/ HealthTick(t) \/ LoadHealthy(t)
             \/ LoadGivesUp(t) \/ LoadExited(t)
             \/ \E p \in Procs, missing \in BOOLEAN : LoadStart(t, p, missing)
      PROVE  call'[u] = call[u]
  BY <1>1, <1>5 DEF LoadRefused, Connect, HealthTick, LoadHealthy, LoadGivesUp, LoadExited,
     LoadStart, Return, Goto
<1>6. ASSUME \/ ShutdownAnswered(t) \/ UnloadReaped(t) \/ UnloadKill(t) \/ UnloadCleanup(t)
             \/ PredictGate(t) \/ Answered(t)
      PROVE  call'[u] = call[u]
  BY <1>1, <1>6 DEF ShutdownAnswered, UnloadReaped, UnloadKill, UnloadCleanup, PredictGate,
     Answered, Return, Goto
<1> QED
  BY <1>2, <1>3, <1>4, <1>5, <1>6, OpsAssumption
  DEF ThreadStep, Advance, DoFails, Cancelled, AllOps

\* A call that has taken a worker keeps it until that one is dead.
LEMMA TakenGoesOn ==
  ASSUME Bookkeeping, NEW t \in Threads, Taken(t), ThreadStep(t)
  PROVE  (Taken(t)' /\ call'[t].w = call[t].w) \/ Dead(call[t].w)
<1>1. call[t] \in Calls /\ call \in [Threads -> Calls]
  BY DEF Bookkeeping, TypeOK
<1>2. call[t].op = "unload" /\ call[t].at \in {"dial", "sent", "wait", "killed", "cleanup"}
  BY DEF Bookkeeping, CallsFormed, Taken, PlacesOf
<1>3. CASE UnloadCleanup(t)
  BY <1>3 DEF UnloadCleanup, At, Bookkeeping, TakenOnce, Dead
<1>4. CASE Connect(t)
  BY <1>1, <1>2, <1>4 DEF Connect, Taken
<1>5. CASE AfterError(t) /\ call[t].at \in {"dial", "sent"}
  BY <1>1, <1>2, <1>5 DEF AfterError, Goto, Taken, Calls
<1>6. CASE ShutdownAnswered(t) \/ UnloadReaped(t) \/ UnloadKill(t)
  BY <1>1, <1>2, <1>6 DEF ShutdownAnswered, UnloadReaped, UnloadKill, Goto, Taken, Calls
<1>7. ~Enter(t) /\ ~ChecksHang(t) /\ \A o \in Ops, n \in Names : ~Call(t, o, n)
  BY <1>2 DEF Enter, LoadNoop, LoadLock, UnloadAbsent, UnloadTake, NotLoaded, LookUp, Snapshot,
     ChecksHang, Call, At
<1>8. /\ ~LoadRefused(t) /\ ~HealthTick(t) /\ ~LoadHealthy(t) /\ ~LoadGivesUp(t)
      /\ ~LoadExited(t) /\ ~PredictGate(t) /\ ~Answered(t)
      /\ \A p \in Procs, missing \in BOOLEAN : ~LoadStart(t, p, missing)
  BY <1>2 DEF LoadRefused, HealthTick, LoadHealthy, LoadGivesUp, LoadExited, PredictGate, Answered,
     LoadStart, At
<1> QED
  BY <1>3, <1>4, <1>5, <1>6, <1>7, <1>8 DEF ThreadStep, Advance, DoFails, Cancelled

\* A listed worker that has come up stays in the map, is taken by an Unload,
\* or is replaced by a Load, which it may be if it is failed or degraded.
LEMMA ListedGoesOn ==
  ASSUME Bookkeeping, NEW t \in Threads, ThreadStep(t),
         NEW p \in Procs, NEW n \in Names, workers[n] = p, wstate[p] # "starting"
  PROVE  \/ workers'[n] = p
         \/ Taken(t)' /\ call'[t].w = p
         \/ Dead(p) \/ wstate[p] = "degraded"
<1>1. call \in [Threads -> Calls] /\ workers \in [Names -> Procs \cup {None}] /\ p # None
  BY NoneAssumption DEF Bookkeeping, TypeOK
<1>2. CASE UNCHANGED workers
  BY <1>2
<1>3. CASE UnloadTake(t)
  BY <1>1, <1>3 DEF UnloadTake, At, Taken, Calls
<1>4. CASE \E q \in Procs, missing \in BOOLEAN : LoadStart(t, q, missing)
  <2>1. At(t, "load", "deps") /\ \E q \in Procs : workers' = [workers EXCEPT ![call[t].name] = q]
    BY <1>4 DEF LoadStart
  <2>2. CASE call[t].name = n
    <3>1. ~IsReady(n) /\ wstate[p] \in {"starting", "ready", "degraded", "failed"}
      BY <1>1, <2>1, <2>2 DEF Bookkeeping, LoadExclusive, MapFormed
    <3> QED
      BY <1>1, <3>1 DEF IsReady, Bookkeeping, ProcessesFormed
  <2>3. CASE call[t].name # n
    BY <1>1, <2>1, <2>3
  <2> QED
    BY <2>2, <2>3
<1>5. ASSUME Enter(t), ~UnloadTake(t) PROVE UNCHANGED workers
  BY <1>5 DEF Enter, LoadNoop, LoadLock, UnloadAbsent, NotLoaded, LookUp, Snapshot
<1>6. ASSUME AfterError(t) \/ ChecksHang(t) \/ \E o \in Ops, m \in Names : Call(t, o, m)
      PROVE  UNCHANGED workers
  BY <1>6 DEF AfterError, ChecksHang, Call
<1>7. ASSUME \/ LoadRefused(t) \/ Connect(t) \/ HealthTick(t) \/ LoadHealthy(t)
             \/ LoadGivesUp(t) \/ LoadExited(t)
      PROVE  UNCHANGED workers
  BY <1>7 DEF LoadRefused, Connect, HealthTick, LoadHealthy, LoadGivesUp, LoadExited
<1>8. ASSUME \/ ShutdownAnswered(t) \/ UnloadReaped(t) \/ UnloadKill(t) \/ UnloadCleanup(t)
             \/ PredictGate(t) \/ Answered(t)
      PROVE  UNCHANGED workers
  BY <1>8 DEF ShutdownAnswered, UnloadReaped, UnloadKill, UnloadCleanup, PredictGate, Answered
<1> QED
  BY <1>2, <1>3, <1>4, <1>5, <1>6, <1>7, <1>8 DEF ThreadStep, Advance, DoFails, Cancelled

\* A call goes on with its method or ends; an idle thread takes no step.
LEMMA CallGoesOn ==
  ASSUME Bookkeeping, NEW t \in Threads, Enter(t) \/ Advance(t) \/ Cancelled(t)
  PROVE  call[t].op # "none" /\ call'[t].op \in {call[t].op, "none"}
<1>1. call \in [Threads -> Calls] /\ call[t] \in Calls
  BY DEF Bookkeeping, TypeOK
<1>2. call[t].op = "none" => call[t].at = "idle"
  BY DEF Bookkeeping, CallsFormed, PlacesOf
<1>3. CASE Enter(t)
  BY <1>1, <1>3 DEF Enter, LoadNoop, LoadLock, UnloadAbsent, UnloadTake, NotLoaded, LookUp, Snapshot,
     Return, Goto, At, Idle, Calls
<1>4. CASE AfterError(t) /\ call[t].at \in {"dial", "sent"}
  BY <1>1, <1>2, <1>4 DEF AfterError, Return, Goto, Idle, Calls
<1>5. CASE LoadRefused(t) \/ HealthTick(t) \/ LoadHealthy(t) \/ LoadGivesUp(t) \/ LoadExited(t)
  BY <1>1, <1>2, <1>5 DEF LoadRefused, HealthTick, LoadHealthy, LoadGivesUp, LoadExited,
     Return, Goto, At, Idle, Calls
<1>6. CASE \/ ShutdownAnswered(t) \/ UnloadReaped(t) \/ UnloadKill(t) \/ UnloadCleanup(t)
           \/ PredictGate(t) \/ Answered(t)
  BY <1>1, <1>2, <1>6 DEF ShutdownAnswered, UnloadReaped, UnloadKill, UnloadCleanup, PredictGate,
     Answered, Return, Goto, At, Idle, Calls
<1>7. CASE Connect(t)
  BY <1>1, <1>2, <1>7 DEF Connect, Calls
<1>8. CASE \E p \in Procs, missing \in BOOLEAN : LoadStart(t, p, missing)
  BY <1>1, <1>2, <1>8 DEF LoadStart, At, Calls
<1> QED
  BY <1>3, <1>4, <1>5, <1>6, <1>7, <1>8 DEF Advance, DoFails, Cancelled

-----------------------------------------------------------------------------
(* The invariant, step by step *)

\* Nothing that starts or goes on makes a stranger of an own process, or the
\* other way round, and who may bind late still may.
LEMMA StrangersStay ==
  ASSUME Bookkeeping, Strangers, \A p \in Procs : Moves(p), left' = left
  PROVE  Strangers' /\ \A n \in Names : LateBinder(n) => LateBinder(n)'
<1>1. Strangers'
  BY DEF Strangers, Moves, Bookkeeping, ProcessesFormed
<1>2. ASSUME NEW p \in Procs, left[p] # "none" PROVE wname'[p] = wname[p]
  BY <1>2 DEF Strangers, Moves
<1> QED
  BY <1>1, <1>2 DEF LateBinder

\* A worker of the snapshot dies, is degraded or remains awaited.
LEMMA CoverGoesOn ==
  ASSUME Bookkeeping, NEW t \in Threads, ThreadStep(t),
         t = Main => Enter(t) \/ Advance(t) \/ Cancelled(t),
         names' = names, NEW p \in Procs,
         wstate[p] \notin {"none", "starting"}, Dead(p) \/ wstate[p] = "degraded" \/ Awaited(p)
  PROVE  /\ wstate'[p] \notin {"none", "starting"}
         /\ Dead(p)' \/ wstate'[p] = "degraded" \/ Awaited(p)'
<1>1. Moves(p)
  BY ThreadMoves
<1>2. wstate'[p] \notin {"none", "starting"} /\ (Dead(p) => Dead(p)')
  BY <1>1 DEF Moves, Bookkeeping, ProcessesFormed
<1>3. wstate[p] = "degraded" => wstate'[p] = "degraded" \/ Dead(p)
  BY <1>1 DEF Moves, Bookkeeping, ProcessesFormed
<1>4. ASSUME NEW u \in Threads, Taken(u), call[u].w = p PROVE Dead(p) \/ Awaited(p)'
  <2>1. CASE u = t
    BY <1>4, <2>1, TakenGoesOn DEF Awaited
  <2>2. CASE u # t
    BY <1>4, <2>2, OneCall DEF Awaited, Taken
  <2> QED
    BY <2>1, <2>2
<1>5. ASSUME NEW n \in Names, workers[n] = p,
             n \in names \/ (At(Main, "unload", "lock") /\ call[Main].name = n)
      PROVE  Dead(p) \/ wstate[p] = "degraded" \/ Awaited(p)'
  <2>1. CASE workers'[n] # p
    BY <1>5, <2>1, ListedGoesOn DEF Awaited
  <2>2. CASE workers'[n] = p /\ n \in names
    BY <2>2 DEF Awaited
  <2>3. CASE workers'[n] = p /\ At(Main, "unload", "lock") /\ call[Main].name = n
    <3>1. CASE t = Main
      <4>1. workers[n] # None
        BY <1>5, NoneAssumption
      <4>2. Enter(t)
        BY <2>3, <3>1 DEF Advance, Cancelled, DoFails, AfterError, LoadRefused, LoadStart, Connect,
           HealthTick, LoadHealthy, LoadGivesUp, LoadExited, ShutdownAnswered, UnloadReaped,
           UnloadKill, UnloadCleanup, PredictGate, Answered, At
      <4>3. UnloadTake(t)
        BY <2>3, <3>1, <4>1, <4>2 DEF Enter, LoadNoop, LoadLock, UnloadAbsent, NotLoaded, LookUp,
           Snapshot, At
      <4> QED
        BY <1>5, <2>3, <3>1, <4>1, <4>3 DEF UnloadTake, Bookkeeping, TypeOK
    <3>2. CASE t # Main
      <4>1. call'[Main] = call[Main]
        BY <3>2, OneCall, MainAssumption
      <4> QED
        BY <2>3, <4>1 DEF Awaited, At
    <3> QED
      BY <3>1, <3>2
  <2> QED
    BY <1>5, <2>1, <2>2, <2>3
<1> QED
  BY <1>2, <1>3, <1>4, <1>5 DEF Awaited

\* A step of a request, or of main inside Unload.
LEMMA ThreadStepSafe ==
  ASSUME DaemonInv, NEW t \in Threads, ThreadStep(t), UNCHANGED daemonVars,
         t = Main => Enter(t) \/ Advance(t) \/ Cancelled(t)
  PROVE  DaemonInv'
<1>1. Bookkeeping' /\ KeepsOwn
  BY ThreadStepKeeps DEF DaemonInv
<1>2. Strangers' /\ \A n \in Names : LateBinder(n) => LateBinder(n)'
  BY ThreadMoves, StrangersStay DEF DaemonInv, daemonVars
<1>3. \A n \in Names : (LateBinder(n) \/ Undisturbed(n))'
  BY <1>1, <1>2 DEF DaemonInv, KeepsOwn
<1>4. DaemonTypeOK'
  BY <1>1 DEF DaemonInv, DaemonTypeOK, Bookkeeping, daemonVars
<1>5. MainFormed'
  <2>1. CASE t = Main
    BY <2>1, CallGoesOn DEF DaemonInv, MainFormed, daemonVars
  <2>2. CASE t # Main
    BY <2>2, OneCall, MainAssumption DEF DaemonInv, MainFormed, daemonVars
  <2> QED
    BY <2>1, <2>2
<1>6. SnapshotCovered'
  BY CoverGoesOn DEF DaemonInv, DaemonTypeOK, SnapshotCovered, daemonVars
<1> QED
  BY <1>1, <1>2, <1>3, <1>4, <1>5, <1>6 DEF DaemonInv

\* A step of a process.
LEMMA ProcStepSafe ==
  ASSUME DaemonInv, NEW q \in Procs, ProcStep(q), UNCHANGED daemonVars
  PROVE  DaemonInv'
<1>1. Bookkeeping' /\ KeepsOwn
  BY ProcStepKeeps DEF DaemonInv
<1>2. Strangers' /\ \A n \in Names : LateBinder(n) => LateBinder(n)'
  BY ProcMoves, StrangersStay DEF DaemonInv, daemonVars
<1>3. \A n \in Names : (LateBinder(n) \/ Undisturbed(n))'
  BY <1>1, <1>2 DEF DaemonInv, KeepsOwn
<1>4. DaemonTypeOK'
  BY <1>1 DEF DaemonInv, DaemonTypeOK, Bookkeeping, daemonVars
<1>5. UNCHANGED <<call, workers, wstate>>
  BY DEF ProcStep, Bind, Hang, Crash, Exit, Reap
<1>6. \A p \in Procs : Dead(p) => Dead(p)'
  BY ProcMoves DEF DaemonInv, Moves, Dead
<1>7. MainFormed'
  BY <1>5 DEF DaemonInv, MainFormed, daemonVars
<1>8. SnapshotCovered'
  BY <1>5, <1>6 DEF DaemonInv, DaemonTypeOK, SnapshotCovered, Awaited, Taken, At, daemonVars
<1> QED
  BY <1>1, <1>2, <1>3, <1>4, <1>7, <1>8 DEF DaemonInv

\* Steps that only move main on.
LEMMA MainMovesSafe ==
  ASSUME DaemonInv, Signal \/ Expire \/ CloseListener \/ Restart
  PROVE  DaemonInv'
<1>1. UNCHANGED <<vars, names, left, due>>
  BY DEF Signal, Expire, CloseListener, Restart
<1>2. Bookkeeping' /\ KeepsOwn
  BY <1>1, StutterStep DEF DaemonInv
<1>3. UNCHANGED <<call, workers, wname, wstate, proc>>
  BY <1>1 DEF vars
<1>4. Strangers' /\ \A n \in Names : LateBinder(n) => LateBinder(n)'
  BY <1>1, <1>3 DEF DaemonInv, Strangers, LateBinder
<1>5. \A n \in Names : (LateBinder(n) \/ Undisturbed(n))'
  BY <1>2, <1>4 DEF DaemonInv, KeepsOwn
<1>6. DaemonTypeOK'
  <2>1. TypeOK' /\ UNCHANGED <<names, left, due>>
    BY <1>1, <1>2 DEF Bookkeeping
  <2>2. expired' \in BOOLEAN
    BY Zenon DEF DaemonInv, DaemonTypeOK, Signal, Expire, CloseListener, Restart
  <2>3. main' \in {"serving"} \cup Stopping \cup {"down"}
    BY DEF DaemonInv, DaemonTypeOK, Stopping, Signal, Expire, CloseListener, Restart
  <2>4. boot' \in 0..MaxBoot
    BY BootAssumption DEF DaemonInv, DaemonTypeOK, Signal, Expire, CloseListener, Restart
  <2> QED
    BY <2>1, <2>2, <2>3, <2>4 DEF DaemonInv, DaemonTypeOK
<1>7. MainFormed'
  <2>1. call[Main].at = "idle" => call[Main].op = "none"
    BY MainAssumption DEF DaemonInv, Bookkeeping, CallsFormed, MainFormed, PlacesOf
  <2> QED
    BY <1>1, <1>3, <2>1 DEF DaemonInv, MainFormed, Signal, Expire, CloseListener, Restart
<1>8. SnapshotCovered'
  <2>1. main' \in {"unloading", "draining"} => main \in {"unloading", "draining"}
    BY DEF Signal, Expire, CloseListener, Restart
  <2> QED
    BY <1>1, <1>3, <2>1 DEF DaemonInv, SnapshotCovered, Awaited, Taken, Dead, At
<1> QED
  BY <1>2, <1>4, <1>5, <1>6, <1>7, <1>8 DEF DaemonInv

\* With the lock free all that is listed is past its Load.
LEMMA TakeSnapshotSafe ==
  ASSUME DaemonInv, TakeSnapshot
  PROVE  DaemonInv'
<1>1. UNCHANGED <<mu, call, workers, wname, wstate, proc, left>>
  BY DEF TakeSnapshot, vars
<1>2. Bookkeeping' /\ KeepsOwn
  BY StutterStep DEF DaemonInv, TakeSnapshot
<1>3. Strangers' /\ \A n \in Names : LateBinder(n) => LateBinder(n)'
  BY <1>1 DEF DaemonInv, Strangers, LateBinder
<1>4. \A n \in Names : (LateBinder(n) \/ Undisturbed(n))'
  BY <1>2, <1>3 DEF DaemonInv, KeepsOwn
<1>5. \A n \in names' : n \in Names /\ workers[n] # None /\ workers[n] \in Procs
  BY DEF TakeSnapshot, DaemonInv, Bookkeeping, TypeOK
<1>6. DaemonTypeOK'
  BY <1>2, <1>5 DEF DaemonInv, DaemonTypeOK, Bookkeeping, TakeSnapshot, Stopping
<1>7. MainFormed'
  BY <1>1 DEF DaemonInv, MainFormed, TakeSnapshot
<1>8. SnapshotCovered'
  <2> SUFFICES ASSUME NEW p \in due'
               PROVE  wstate'[p] \notin {"none", "starting"} /\ Awaited(p)'
    BY DEF SnapshotCovered
  <2>1. PICK n \in names' : workers[n] = p
    BY DEF TakeSnapshot
  <2>2. wstate[p] \in {"ready", "degraded", "failed"}
    BY <1>5, <2>1, SettledWhenFree DEF DaemonInv, ListedStates, TakeSnapshot
  <2> QED
    BY <1>1, <1>5, <2>1, <2>2 DEF Awaited
<1> QED
  BY <1>2, <1>3, <1>4, <1>6, <1>7, <1>8 DEF DaemonInv

\* A name leaves the snapshot when main calls Unload for it.
LEMMA UnloadNextSafe ==
  ASSUME DaemonInv, NEW n \in Names, UnloadNext(n)
  PROVE  DaemonInv'
<1>1. /\ Call(Main, "unload", n) /\ main' = main /\ main = "unloading"
      /\ names' = names \ {n} /\ UNCHANGED <<expired, left, boot, due>>
  BY DEF UnloadNext
<1>2. UNCHANGED <<workers, wname, wstate, proc>>
  BY <1>1 DEF Call
<1>3. call'[Main].op = "unload" /\ call'[Main].at = "lock" /\ call'[Main].name = n
  BY <1>1, MainAssumption DEF Call, Idle, DaemonInv, Bookkeeping, TypeOK
<1>4. Bookkeeping' /\ KeepsOwn
  BY <1>1, CallStep, MainAssumption DEF DaemonInv, AllOps
<1>5. Strangers' /\ \A m \in Names : LateBinder(m) => LateBinder(m)'
  BY <1>1, <1>2 DEF DaemonInv, Strangers, LateBinder
<1>6. \A m \in Names : (LateBinder(m) \/ Undisturbed(m))'
  BY <1>4, <1>5 DEF DaemonInv, KeepsOwn
<1>7. DaemonTypeOK'
  BY <1>1, <1>4 DEF DaemonInv, DaemonTypeOK, Bookkeeping
<1>8. MainFormed'
  BY <1>1, <1>3 DEF MainFormed
<1>9. SnapshotCovered'
  <2>1. ASSUME NEW p \in Procs, Awaited(p) PROVE Awaited(p)'
    <3>1. ASSUME NEW u \in Threads, Taken(u) PROVE Taken(u)' /\ call'[u] = call[u]
      <4>1. u # Main
        BY <1>1, <3>1 DEF Call, Taken
      <4>2. call'[u] = call[u]
        BY <1>1, <4>1, OneCall, MainAssumption DEF DaemonInv
      <4> QED
        BY <3>1, <4>2 DEF Taken
    <3>2. ~At(Main, "unload", "lock")
      BY <1>1 DEF Call, At
    <3> QED
      BY <1>1, <1>2, <1>3, <2>1, <3>1, <3>2 DEF Awaited, At
  <2> QED
    BY <1>1, <1>2, <2>1 DEF DaemonInv, DaemonTypeOK, SnapshotCovered, Dead
<1> QED
  BY <1>4, <1>5, <1>6, <1>7, <1>8, <1>9 DEF DaemonInv

\* The end of a daemon leaves processes and socket files, no records; the
\* processes still booting are the late binders of the next.
LEMMA EndsSafe ==
  ASSUME DaemonInv, Ends
  PROVE  DaemonInv'
<1>1. /\ TypeOK /\ left \in [Procs -> ProcStates] /\ boot \in 0..MaxBoot
      /\ wname' = wname /\ proc' = proc /\ sock' = sock
      /\ mu' = None /\ main' = "down"
      /\ \A p \in Procs : wstate'[p] = "none" /\ waitCh'[p] = FALSE
      /\ \A p \in Procs : left'[p] = IF left[p] = "none" THEN proc[p] ELSE left[p]
      /\ \A n \in Names : workers'[n] = None
      /\ \A t \in Threads : call'[t] = Idle
  BY DEF DaemonInv, DaemonTypeOK, Ends
<1>2. TypeOK'
  BY <1>1 DEF Ends, TypeOK, Calls, Idle, Places, WorkerStates
<1>3. CallsFormed' /\ LoadExclusive' /\ MapFormed' /\ TakenOnce'
  BY <1>1, NoneAssumption DEF CallsFormed, LoadExclusive, MapFormed, TakenOnce, PlacesOf, Holding,
     Loading, Taken, At, IsReady, Idle
<1>4. ProcessesFormed' /\ StatusUndrained' /\ Supervised' /\ SocketsNamed'
  BY <1>1 DEF DaemonInv, Bookkeeping, ProcessesFormed, StatusUndrained, Supervised, SocketsNamed
<1>5. DaemonTypeOK'
  BY <1>1, <1>2 DEF DaemonTypeOK, Ends, TypeOK
<1>6. Strangers'
  BY <1>1 DEF DaemonInv, Strangers
<1>7. MainFormed' /\ SnapshotCovered'
  BY <1>1, MainAssumption DEF MainFormed, SnapshotCovered, Idle
<1>8. \A n \in Names : (LateBinder(n) \/ Undisturbed(n))'
  BY <1>1 DEF LateBinder, Undisturbed, Loading, Idle, DaemonInv, Strangers
<1> QED
  BY <1>2, <1>3, <1>4, <1>5, <1>6, <1>7, <1>8 DEF DaemonInv, Bookkeeping

LEMMA DaemonStarts == DaemonInit => DaemonInv
<1> SUFFICES ASSUME DaemonInit PROVE DaemonInv
  OBVIOUS
<1>1. Init
  BY DEF DaemonInit
<1>2. IndInv
  BY <1>1, InitInv
<1>3. DaemonTypeOK
  <2>1. TypeOK /\ main \in {"serving"} /\ names \subseteq Names /\ due \subseteq Procs
    BY <1>2 DEF DaemonInit, IndInv, Bookkeeping
  <2>2. expired \in BOOLEAN
    BY Zenon DEF DaemonInit
  <2>3. left \in [Procs -> ProcStates] /\ boot \in 0..MaxBoot
    BY BootAssumption DEF DaemonInit, ProcStates
  <2> QED
    BY <2>1, <2>2, <2>3 DEF DaemonTypeOK
<1>4. Strangers
  BY <1>1 DEF DaemonInit, Init, Strangers
<1>5. MainFormed /\ SnapshotCovered
  BY <1>1, MainAssumption DEF DaemonInit, Init, Idle, MainFormed, SnapshotCovered
<1> QED
  BY <1>2, <1>3, <1>4, <1>5 DEF DaemonInv, IndInv

\* Nothing happens.
LEMMA DaemonStutters ==
  ASSUME DaemonInv, UNCHANGED allVars
  PROVE  DaemonInv'
<1>1. UNCHANGED vars /\ UNCHANGED <<main, names, expired, left, boot, due>>
  BY DEF allVars, daemonVars
<1>2. UNCHANGED <<call, workers, wname, wstate, proc>>
  BY <1>1 DEF vars
<1>3. Bookkeeping' /\ KeepsOwn
  BY <1>1, StutterStep DEF DaemonInv
<1>4. Strangers' /\ MainFormed' /\ \A n \in Names : LateBinder(n) => LateBinder(n)'
  BY <1>1, <1>2 DEF DaemonInv, Strangers, MainFormed, LateBinder
<1>5. DaemonTypeOK'
  BY <1>1, <1>3 DEF DaemonInv, DaemonTypeOK, Bookkeeping
<1>6. SnapshotCovered'
  BY <1>1, <1>2 DEF DaemonInv, SnapshotCovered, Awaited, Taken, Dead, At
<1> QED
  BY <1>3, <1>4, <1>5, <1>6 DEF DaemonInv, KeepsOwn

\* DaemonInv is inductive.
LEMMA DaemonStep == DaemonInv /\ [DaemonNext]_allVars => DaemonInv'
<1> SUFFICES ASSUME DaemonInv, [DaemonNext]_allVars PROVE DaemonInv'
  OBVIOUS
<1>1. CASE UNCHANGED allVars
  BY <1>1, DaemonStutters
<1>2. ASSUME NEW t \in Requests,
             Arrives(t) \/ Entered(t) \/ Advanced(t) \/ Abandoned(t) \/ Stuck(t)
      PROVE  DaemonInv'
  BY <1>2, ThreadStepSafe DEF Arrives, Entered, Advanced, Abandoned, Stuck, ThreadStep, Requests
<1>3. CASE Entered(Main) \/ Advanced(Main) \/ DeadlineHits
  BY <1>3, ThreadStepSafe, MainAssumption
  DEF Entered, Advanced, DeadlineHits, Abandoned, ThreadStep
<1>4. CASE TakeSnapshot
  BY <1>4, TakeSnapshotSafe
<1>5. CASE \E n \in Names : UnloadNext(n)
  BY <1>5, UnloadNextSafe
<1>6. CASE Signal \/ Expire \/ CloseListener \/ Restart
  BY <1>6, MainMovesSafe
<1>7. CASE MainReturns \/ Killed
  BY <1>7, EndsSafe DEF MainReturns, Killed
<1>8. ASSUME NEW p \in Procs, Runs(p) \/ Exits(p) \/ Reaped(p) PROVE DaemonInv'
  BY <1>8, ProcStepSafe DEF Runs, Exits, Reaped, ProcStep
<1> QED
  BY <1>1, <1>2, <1>3, <1>4, <1>5, <1>6, <1>7, <1>8 DEF DaemonNext, MainLocks, MainRuns

\* DaemonInv holds in every reachable state, however often the daemon is
\* stopped, killed and started again.
THEOREM DaemonSupervision == DaemonSpec => []DaemonInv
BY DaemonStarts, DaemonStep, PTL DEF DaemonSpec

-----------------------------------------------------------------------------
(* What follows *)

\* While it drains main is in no Unload and has no name left; so whoever has
\* taken a worker of the snapshot then is a request.
LEMMA WhoUnloads ==
  ASSUME DaemonInv, main = "draining", NEW p \in Procs, Awaited(p)
  PROVE  \E t \in Requests : Unloads(t, p)
<1>1. names = {} /\ call[Main].op = "none"
  BY DEF DaemonInv, MainFormed
<1>2. PICK t \in Threads : Taken(t) /\ call[t].w = p
  BY <1>1 DEF Awaited, At
<1>3. t \in Requests
  BY <1>1, <1>2 DEF Taken, Requests
<1> QED
  BY <1>2, <1>3 DEF Taken, Unloads

\* UnloadAll (manager.go) returns with every worker that it saw listed dead,
\* degraded, or in the Unload of a request.
THEOREM ShutdownIsThorough == DaemonSpec => []SnapshotStopped
<1>1. DaemonInv => SnapshotStopped
  BY WhoUnloads DEF DaemonInv, DaemonTypeOK, SnapshotCovered, SnapshotStopped
<1> QED
  BY <1>1, DaemonSupervision, PTL

\* The removal of the stale socket in Load keeps the health check to the new
\* worker, but for a process that was booting when its daemon ended.
THEOREM HealthIsOwnAcrossRestarts == DaemonSpec => []OnlyLateBindersIntrude
<1>1. ASSUME DaemonInv, NEW t \in Threads, At(t, "load", "sent"), call[t].conn # call[t].w
      PROVE  LateBinder(call[t].name)
  <2>1. Loading(t)
    BY <1>1 DEF At, Loading
  <2>2. call[t].name \in Names
    BY <1>1 DEF At, DaemonInv, Bookkeeping, CallsFormed
  <2> QED
    BY <1>1, <2>1, <2>2 DEF At, DaemonInv, Undisturbed
<1>2. DaemonInv => OnlyLateBindersIntrude
  BY <1>1 DEF OnlyLateBindersIntrude
<1> QED
  BY <1>2, DaemonSupervision, PTL

\* No running process that this daemon has started is lost, save a replaced
\* degraded one.
OwnProcessesKept ==
  \A p \in Procs : (left[p] = "none" /\ proc[p] \in Live) =>
    Listed(p) \/ (\E t \in Threads : Unloads(t, p)) \/ wstate[p] = "degraded"

\* What the manager promises of its own workers (Load, Unload, Predict) it
\* promises beside those of an earlier daemon, too: who it lists is settled, a
\* request reaches a process of the model that it named, an exit status has
\* one receiver and waits for it, a worker recorded as failed or stopped is
\* dead, and no process is lost.
THEOREM PromisesSurviveRestarts ==
  DaemonSpec => [](/\ ListedStates /\ PeerRunsNamedModel /\ SoleReceiver
                   /\ ExitStatusKept /\ DeadStatesAreDead /\ OwnProcessesKept)
<1>1. DaemonInv => ListedStates
  BY SettledWhenFree DEF DaemonInv
<1>2. DaemonInv => PeerRunsNamedModel
  BY DEF DaemonInv, Bookkeeping, CallsFormed, PeerRunsNamedModel
<1>3. DaemonInv => SoleReceiver
  BY ReceivesAlone DEF DaemonInv
<1>4. DaemonInv => ExitStatusKept
  BY DEF DaemonInv, Bookkeeping, StatusUndrained, ExitStatusKept, Taken, Unloads
<1>5. DaemonInv => DeadStatesAreDead
  BY DEF DaemonInv, Bookkeeping, ProcessesFormed, DeadStatesAreDead, Dead
<1>6. DaemonInv => OwnProcessesKept
  BY DEF DaemonInv, Bookkeeping, Supervised, Strangers, OwnProcessesKept, Taken, Unloads, Live
<1> QED
  BY <1>1, <1>2, <1>3, <1>4, <1>5, <1>6, DaemonSupervision, PTL

\* A step of the daemon changes the abstract state as ModelLifecycle has it, or
\* ends the daemon and empties the map.
LEMMA DaemonSimulates ==
  ASSUME DaemonInv, [DaemonNext]_allVars
  PROVE  [Lifecycle!Next \/ (main' = "down" /\ status' = [n \in Names |-> "absent"])]_status
<1>1. CASE UNCHANGED vars
  BY <1>1, StatusKept DEF vars
<1>2. ASSUME NEW t \in Threads, ThreadStep(t) PROVE [Lifecycle!Next]_status
  BY <1>2, ThreadSimulates DEF DaemonInv
<1>3. ASSUME NEW t \in Requests,
             Arrives(t) \/ Entered(t) \/ Advanced(t) \/ Abandoned(t) \/ Stuck(t)
      PROVE  [Lifecycle!Next]_status
  BY <1>2, <1>3 DEF Arrives, Entered, Advanced, Abandoned, Stuck, ThreadStep, Requests
<1>4. CASE Entered(Main) \/ Advanced(Main) \/ DeadlineHits
  BY <1>2, <1>4, MainAssumption DEF Entered, Advanced, DeadlineHits, Abandoned, ThreadStep
<1>5. ASSUME NEW n \in Names, UnloadNext(n) PROVE UNCHANGED status
  BY <1>5, StatusKept DEF UnloadNext, Call
<1>6. CASE TakeSnapshot \/ Signal \/ Expire \/ CloseListener \/ Restart
  BY <1>1, <1>6 DEF TakeSnapshot, Signal, Expire, CloseListener, Restart
<1>7. CASE MainReturns \/ Killed
  BY <1>7 DEF MainReturns, Killed, Ends, status
<1>8. ASSUME NEW p \in Procs, Runs(p) \/ Exits(p) \/ Reaped(p) PROVE UNCHANGED status
  BY <1>8, ProcSimulates DEF Runs, Exits, Reaped, ProcStep
<1> QED
  BY <1>1, <1>3, <1>4, <1>5, <1>6, <1>7, <1>8 DEF DaemonNext, MainLocks, MainRuns, allVars

\* The shutdown, the death and the restart of the daemon keep to the life cycle
\* of its models.
THEOREM LifecycleAcrossRestarts == DaemonSpec => DaemonLifecycle
<1>1. DaemonInit => Lifecycle!Init
  BY DEF DaemonInit, Init, Lifecycle!Init, status
<1>2. DaemonInv /\ [DaemonNext]_allVars =>
        [Lifecycle!Next \/ (main' = "down" /\ status' = [n \in Names |-> "absent"])]_status
  BY DaemonSimulates
<1> QED
  BY <1>1, <1>2, DaemonSupervision, PTL DEF DaemonSpec, DaemonLifecycle

\* Every variable keeps its type.
THEOREM DaemonTypeCorrect == DaemonSpec => []DaemonTypeOK
<1>1. DaemonInv => DaemonTypeOK
  BY DEF DaemonInv
<1> QED
  BY <1>1, DaemonSupervision, PTL
=============================================================================
