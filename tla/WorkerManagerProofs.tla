------------------------ MODULE WorkerManagerProofs ------------------------
(***************************************************************************)
(* That IndInv is an invariant of WorkerManager for any names, processes   *)
(* and threads, what follows from it, and that the manager implements      *)
(* ModelLifecycle.                                                         *)
(*                                                                         *)
(* IndInv is Bookkeeping, a conjunction of nine parts, and what holds only *)
(* where no earlier daemon has left processes.  First come two lemmas on   *)
(* steps that only move a call, then one lemma per remaining action with   *)
(* one step per part.  Of the rest they say that it is kept (KeepsOwn),    *)
(* so that DaemonShutdownProofs can use them where it holds in part only.  *)
(***************************************************************************)
EXTENDS WorkerManager, TLAPS

\* A step leaves every name's processes and sockets as undisturbed as they
\* were, and none without a record.
KeepsOwn ==
  /\ \A n \in Names : Undisturbed(n) => Undisturbed(n)'
  /\ AllRecorded => AllRecorded'

\* A call that neither loads nor has taken a worker may end at any place and
\* change nothing: no part of the invariant speaks of it.
LEMMA ReturnQuietly ==
  ASSUME NEW t \in Threads, Bookkeeping,
         ~Holding(t),
         ~Taken(t),
         Return(t),
         UNCHANGED <<mu, workers, wname, wstate, proc, waitCh, sock>>
  PROVE  Bookkeeping' /\ KeepsOwn
<1>1. TypeOK'
  BY DEF Bookkeeping, Return, TypeOK, Calls, Idle, Places
<1>2. CallsFormed'
  BY DEF Bookkeeping, Return, TypeOK, CallsFormed, AllOps, Calls, Idle, PlacesOf
<1>3. LoadExclusive'
  BY DEF Bookkeeping, Loading, Return, LoadExclusive, Idle, Holding, IsReady, At
<1>4. MapFormed'
  BY DEF Bookkeeping, MapFormed
<1>5. TakenOnce'
  BY DEF Bookkeeping, Taken, Return, TakenOnce, Dead, Idle, Listed
<1>6. ProcessesFormed'
  BY DEF Bookkeeping, ProcessesFormed, Dead
<1>7. StatusUndrained'
  BY DEF Bookkeeping, Taken, Return, StatusUndrained
<1>8. Supervised'
  BY DEF Bookkeeping, Taken, Return, Supervised, Listed
<1>9. SocketsNamed'
  BY DEF Bookkeeping, SocketsNamed
<1>10. KeepsOwn
  BY DEF Bookkeeping, Holding, Loading, Return, Undisturbed, Idle, AllRecorded,
     KeepsOwn
<1> QED
  BY <1>1, <1>2, <1>3, <1>4, <1>5, <1>6, <1>7, <1>8, <1>9, <1>10
  DEF Bookkeeping

\* The places that promise nothing of their own.
Plain(o) == PlacesOf(o) \ {"idle", "lock", "deps", "stuck", "sent", "killed", "cleanup"}

\* Nor does it matter at which of these a call is.
LEMMA MoveWithin ==
  ASSUME NEW t \in Threads, NEW place \in Places, Bookkeeping,
         call[t].at \in Plain(call[t].op) \cup {"sent"},
         place \in Plain(call[t].op),
         Goto(t, place),
         UNCHANGED <<mu, workers, wname, wstate, proc, waitCh, sock>>
  PROVE  Bookkeeping' /\ KeepsOwn
<1>1. TypeOK'
  BY DEF Bookkeeping, Plain, PlacesOf, Goto, TypeOK, Calls
<1>2. CallsFormed'
  BY DEF Bookkeeping, Plain, Goto, TypeOK, CallsFormed, AllOps, Calls
<1>3. LoadExclusive'
  BY DEF Bookkeeping, Plain, PlacesOf, Goto, CallsFormed, LoadExclusive, Loading, Holding,
     IsReady, At
<1>4. MapFormed'
  BY DEF Bookkeeping, Plain, MapFormed
<1>5. TakenOnce'
  BY DEF Bookkeeping, Plain, Goto, TakenOnce, Dead, Listed, Taken
<1>6. ProcessesFormed'
  BY DEF Bookkeeping, Plain, ProcessesFormed, Dead
<1>7. StatusUndrained'
  BY DEF Bookkeeping, Plain, Goto, StatusUndrained, Taken
<1>8. Supervised'
  BY DEF Bookkeeping, Plain, Goto, Supervised, Listed, Taken
<1>9. SocketsNamed'
  BY DEF Bookkeeping, SocketsNamed
<1>10. KeepsOwn
  BY DEF Bookkeeping, Plain, PlacesOf, Goto, CallsFormed, Undisturbed, Loading,
     AllRecorded, KeepsOwn
<1> QED
  BY <1>1, <1>2, <1>3, <1>4, <1>5, <1>6, <1>7, <1>8, <1>9, <1>10
  DEF Bookkeeping

\* A new call is at the lock and holds nothing.
LEMMA CallStep ==
  ASSUME NEW t \in Threads, NEW o \in AllOps, NEW n \in Names, Bookkeeping,
         Call(t, o, n)
  PROVE  Bookkeeping' /\ KeepsOwn
<1>1. TypeOK'
  BY NoneAssumption DEF Bookkeeping, Call, TypeOK, Calls, Idle,
     Places
<1>2. CallsFormed'
  BY NoneAssumption DEF Bookkeeping, Call, TypeOK, CallsFormed,
     AllOps, Calls, Idle, PlacesOf
<1>3. LoadExclusive'
  BY DEF Bookkeeping, Call, LoadExclusive, Loading, Holding, IsReady, At
<1>4. MapFormed'
  BY DEF Bookkeeping, Call, MapFormed
<1>5. TakenOnce'
  BY DEF Bookkeeping, Call, TakenOnce, Dead, Listed, Taken
<1>6. ProcessesFormed'
  BY DEF Bookkeeping, Call, ProcessesFormed, Dead
<1>7. StatusUndrained'
  BY DEF Bookkeeping, Call, StatusUndrained, Taken
<1>8. Supervised'
  BY DEF Bookkeeping, Call, Supervised, Listed, Taken
<1>9. SocketsNamed'
  BY DEF Bookkeeping, Call, SocketsNamed
<1>10. KeepsOwn
  BY DEF Bookkeeping, Call, Undisturbed, Loading, AllRecorded, KeepsOwn
<1> QED
  BY <1>1, <1>2, <1>3, <1>4, <1>5, <1>6, <1>7, <1>8, <1>9, <1>10
  DEF Bookkeeping

\* The dial finds a worker of the caller's name (SocketsNamed), and Load finds
\* its own.
LEMMA ConnectStep ==
  ASSUME NEW t \in Threads, Bookkeeping,
         Connect(t)
  PROVE  Bookkeeping' /\ KeepsOwn
<1>1. TypeOK'
  <2>1. Dialled(t) \in Procs /\ call[t] \in Calls
    BY DEF Bookkeeping, TypeOK, CallsFormed, Connect, Listening, Dialled, PlacesOf
  <2>2. [call[t] EXCEPT !.at = "sent", !.conn = Dialled(t)] \in Calls
    BY <2>1 DEF Calls, Places
  <2>3. call' = [call EXCEPT ![t] = [call[t] EXCEPT !.at = "sent", !.conn = Dialled(t)]]
    BY DEF Connect
  <2> QED
    BY <2>2, <2>3 DEF Bookkeeping, TypeOK, Connect
<1>2. CallsFormed'
  BY DEF Bookkeeping, Connect, TypeOK, CallsFormed, SocketsNamed, AllOps, Calls,
     Dialled, Listening, PlacesOf
<1>3. LoadExclusive'
  BY DEF Bookkeeping, Connect, TypeOK, LoadExclusive, Loading, Holding, IsReady, At
<1>4. MapFormed'
  BY DEF Bookkeeping, Connect, MapFormed
<1>5. TakenOnce'
  BY DEF Bookkeeping, Connect, TypeOK, TakenOnce, Dead, Listed, Taken
<1>6. ProcessesFormed'
  BY DEF Bookkeeping, Connect, ProcessesFormed, Dead
<1>7. StatusUndrained'
  BY DEF Bookkeeping, Connect, TypeOK, StatusUndrained, Listening, Taken
<1>8. Supervised'
  BY NoneAssumption, OpsAssumption DEF Bookkeeping, Connect, TypeOK, Supervised,
     Accepting, Listed, Places, Taken, WorkerStates
<1>9. SocketsNamed'
  BY DEF Bookkeeping, Connect, TypeOK, SocketsNamed, Dialled, Listening
<1>10. KeepsOwn
  BY DEF Bookkeeping, Connect, TypeOK, Undisturbed, Dialled, Listening, Loading,
     AllRecorded, KeepsOwn
<1> QED
  BY <1>1, <1>2, <1>3, <1>4, <1>5, <1>6, <1>7, <1>8, <1>9, <1>10
  DEF Bookkeeping

\* Whoever takes a free lock finds nobody loading.
LEMMA LoadLockStep ==
  ASSUME NEW t \in Threads, Bookkeeping,
         LoadLock(t)
  PROVE  Bookkeeping' /\ KeepsOwn
<1>1. TypeOK'
  BY DEF Bookkeeping, LoadLock, TypeOK, Goto, Calls, Places
<1>2. CallsFormed'
  <2>1. call' = [call EXCEPT ![t].at = "deps"] /\ call[t] \in Calls /\ wname' = wname
    BY DEF Bookkeeping, LoadLock, TypeOK, Goto
  <2>2. call'[t] = [call[t] EXCEPT !.at = "deps"] /\ \A u \in Threads \ {t} : call'[u] = call[u]
    BY <2>1 DEF Bookkeeping, TypeOK
  <2>3. "deps" \in PlacesOf("load") /\ call[t].op = "load" /\ call[t].at = "lock"
    BY DEF LoadLock, At, PlacesOf
  <2> QED
    BY <2>1, <2>2, <2>3 DEF Bookkeeping, CallsFormed, Calls
<1>3. LoadExclusive'
  BY NoneAssumption DEF Bookkeeping, LoadLock, TypeOK, LoadExclusive, Goto, At,
     Calls, Holding, Loading, IsReady
<1>4. MapFormed'
  BY DEF Bookkeeping, LoadLock, MapFormed
<1>5. TakenOnce'
  BY DEF Bookkeeping, LoadLock, TypeOK, TakenOnce, Goto, At, Calls, Dead, Listed, Taken
<1>6. ProcessesFormed'
  BY DEF Bookkeeping, LoadLock, ProcessesFormed, Dead
<1>7. StatusUndrained'
  BY DEF Bookkeeping, LoadLock, TypeOK, StatusUndrained, Goto, At, Calls, Taken
<1>8. Supervised'
  BY DEF Bookkeeping, LoadLock, TypeOK, Supervised, Goto, At, Calls, Listed, Taken
<1>9. SocketsNamed'
  BY DEF Bookkeeping, LoadLock, TypeOK, SocketsNamed
<1>10. KeepsOwn
  BY DEF Bookkeeping, LoadLock, TypeOK, Undisturbed, Goto, At, Calls, Loading,
     AllRecorded, KeepsOwn
<1> QED
  BY <1>1, <1>2, <1>3, <1>4, <1>5, <1>6, <1>7, <1>8, <1>9, <1>10
  DEF Bookkeeping

\* A thread that is stuck holds the lock for good.
LEMMA ChecksHangStep ==
  ASSUME NEW t \in Threads, Bookkeeping,
         ChecksHang(t)
  PROVE  Bookkeeping' /\ KeepsOwn
<1>1. TypeOK'
  BY DEF Bookkeeping, ChecksHang, TypeOK, Goto, Calls, Places
<1>2. CallsFormed'
  <2>1. call' = [call EXCEPT ![t].at = "stuck"] /\ call[t] \in Calls /\ wname' = wname
    BY DEF Bookkeeping, ChecksHang, TypeOK, Goto
  <2>2. call'[t] = [call[t] EXCEPT !.at = "stuck"] /\ \A u \in Threads \ {t} : call'[u] = call[u]
    BY <2>1 DEF Bookkeeping, TypeOK
  <2>3. "stuck" \in PlacesOf("load") /\ call[t].op = "load" /\ call[t].at = "deps"
    BY DEF ChecksHang, At, PlacesOf
  <2> QED
    BY <2>1, <2>2, <2>3 DEF Bookkeeping, CallsFormed, Calls
<1>3. LoadExclusive'
  BY NoneAssumption DEF Bookkeeping, ChecksHang, TypeOK, LoadExclusive, Goto, At,
     Calls, Holding, Loading, IsReady
<1>4. MapFormed'
  BY DEF Bookkeeping, ChecksHang, MapFormed
<1>5. TakenOnce'
  BY DEF Bookkeeping, ChecksHang, TypeOK, TakenOnce, Goto, At, Calls, Dead, Listed, Taken
<1>6. ProcessesFormed'
  BY DEF Bookkeeping, ChecksHang, ProcessesFormed, Dead
<1>7. StatusUndrained'
  BY DEF Bookkeeping, ChecksHang, TypeOK, StatusUndrained, Goto, At, Calls, Taken
<1>8. Supervised'
  BY DEF Bookkeeping, ChecksHang, TypeOK, Supervised, Goto, At, Calls, Listed, Taken
<1>9. SocketsNamed'
  BY DEF Bookkeeping, ChecksHang, TypeOK, SocketsNamed
<1>10. KeepsOwn
  BY DEF Bookkeeping, ChecksHang, TypeOK, Undisturbed, Goto, At, Calls, Loading,
     AllRecorded, KeepsOwn
<1> QED
  BY <1>1, <1>2, <1>3, <1>4, <1>5, <1>6, <1>7, <1>8, <1>9, <1>10
  DEF Bookkeeping

\* Only a socket file may be gone, and the lock is free again.
LEMMA LoadRefusedStep ==
  ASSUME NEW t \in Threads, Bookkeeping,
         LoadRefused(t)
  PROVE  Bookkeeping' /\ KeepsOwn
<1>1. TypeOK'
  BY DEF Bookkeeping, LoadRefused, TypeOK, Calls, Idle, Places, Return
<1>2. CallsFormed'
  BY DEF Bookkeeping, LoadRefused, TypeOK, CallsFormed, AllOps, Calls, Idle,
     PlacesOf, Return
<1>3. LoadExclusive'
  BY NoneAssumption DEF Bookkeeping, LoadRefused, TypeOK, LoadExclusive, At, Idle,
     Loading, Return, Holding, IsReady
<1>4. MapFormed'
  BY DEF Bookkeeping, LoadRefused, MapFormed
<1>5. TakenOnce'
  BY DEF Bookkeeping, LoadRefused, TakenOnce, Dead, Idle, Listed, Return, Taken
<1>6. ProcessesFormed'
  BY DEF Bookkeeping, LoadRefused, ProcessesFormed, Dead
<1>7. StatusUndrained'
  BY DEF Bookkeeping, LoadRefused, StatusUndrained, At, Return, Taken
<1>8. Supervised'
  BY DEF Bookkeeping, LoadRefused, Supervised, At, Listed, Return, Taken
<1>9. SocketsNamed'
  BY DEF Bookkeeping, LoadRefused, TypeOK, SocketsNamed
<1>10. KeepsOwn
  BY DEF Bookkeeping, LoadRefused, TypeOK, CallsFormed, Undisturbed, At, Idle,
     Loading, Return, AllRecorded, KeepsOwn
<1> QED
  BY <1>1, <1>2, <1>3, <1>4, <1>5, <1>6, <1>7, <1>8, <1>9, <1>10
  DEF Bookkeeping

\* The lock is this thread's, so nothing is starting; the old entry, if any, is degraded
\* or failed; the new worker is fresh and its socket file does not exist yet.
LEMMA LoadStartStep ==
  ASSUME NEW t \in Threads, NEW p \in Procs, NEW missing \in BOOLEAN, Bookkeeping,
         LoadStart(t, p, missing)
  PROVE  Bookkeeping' /\ KeepsOwn
<1>1. TypeOK'
  BY NoneAssumption DEF Bookkeeping, LoadStart, TypeOK, CallsFormed, At, Calls
<1>2. CallsFormed'
  BY NoneAssumption DEF Bookkeeping, LoadStart, TypeOK, CallsFormed, At, Calls
<1>3. LoadExclusive'
  BY NoneAssumption DEF Bookkeeping, LoadStart, TypeOK, CallsFormed, LoadExclusive,
     AllOps, At, Calls, IsReady, Live, Loading, Places, PlacesOf, ProcStates,
     WorkerStates, Holding
<1>4. MapFormed'
  BY DEF Bookkeeping, LoadStart, TypeOK, CallsFormed, MapFormed, Calls
<1>5. TakenOnce'
  BY NoneAssumption DEF Bookkeeping, LoadStart, TypeOK, CallsFormed, TakenOnce,
     AllOps, At, Calls, Dead, IsReady, Listed, Live, Places, PlacesOf,
     ProcStates, Taken, WorkerStates
<1>6. ProcessesFormed'
  BY NoneAssumption DEF Bookkeeping, LoadStart, TypeOK, CallsFormed,
     ProcessesFormed, AllOps, At, Calls, Dead, IsReady, Live, Places,
     PlacesOf, ProcStates, WorkerStates
<1>7. StatusUndrained'
  BY NoneAssumption, OpsAssumption DEF Bookkeeping, LoadStart, TypeOK,
     StatusUndrained, AllOps, At, Calls, IsReady, Live, Places, ProcStates,
     Taken, WorkerStates
<1>8. Supervised'
  BY NoneAssumption DEF Bookkeeping, LoadStart, TypeOK, CallsFormed, Supervised,
     At, Calls, Listed, Live, Places
<1>9. SocketsNamed'
  BY NoneAssumption DEF Bookkeeping, LoadStart, TypeOK, ProcessesFormed, SocketsNamed
<1>10. KeepsOwn
  <2>1. ASSUME NEW n \in Names, Undisturbed(n) PROVE Undisturbed(n)'
    <3>1. \A u \in Threads \ {t} : ~Loading(u) /\ call'[u] = call[u]
      BY NoneAssumption DEF Bookkeeping, LoadStart, TypeOK, LoadExclusive, Loading, Holding, At
    <3>2. call'[t].name = call[t].name /\ call'[t].at = "poll" /\ sock'[call[t].name] = None
      BY DEF Bookkeeping, LoadStart, TypeOK, CallsFormed, At, Calls
    <3>3. /\ wname'[p] = call[t].name /\ wstate'[p] = "starting"
          /\ \A q \in Procs \ {p} : wname'[q] = wname[q] /\ proc'[q] = proc[q] /\ wstate'[q] = wstate[q]
      BY DEF Bookkeeping, LoadStart, TypeOK
    <3> QED
      BY <2>1, <3>1, <3>2, <3>3 DEF Undisturbed, Loading
  <2>2. AllRecorded => AllRecorded'
    BY DEF Bookkeeping, LoadStart, TypeOK, AllRecorded
  <2> QED
    BY <2>1, <2>2 DEF KeepsOwn
<1> QED
  BY <1>1, <1>2, <1>3, <1>4, <1>5, <1>6, <1>7, <1>8, <1>9, <1>10
  DEF Bookkeeping

\* The worker that answered is Load's own and serving, so it is past booting.
LEMMA LoadHealthyStep ==
  ASSUME NEW t \in Threads, Bookkeeping,
         LoadHealthy(t)
  PROVE  Bookkeeping' /\ KeepsOwn
<1>1. TypeOK'
  BY DEF Bookkeeping, LoadHealthy, TypeOK, Calls, Idle, Places, Return,
     WorkerStates
<1>2. CallsFormed'
  BY DEF Bookkeeping, LoadHealthy, TypeOK, CallsFormed, AllOps, Calls, Idle,
     PlacesOf, Return
<1>3. LoadExclusive'
  BY NoneAssumption DEF Bookkeeping, LoadHealthy, TypeOK, LoadExclusive, At, Idle,
     Loading, Return, Holding, IsReady
<1>4. MapFormed'
  BY DEF Bookkeeping, LoadHealthy, MapFormed
<1>5. TakenOnce'
  BY DEF Bookkeeping, LoadHealthy, TakenOnce, Dead, Idle, Listed, Return, Taken
<1>6. ProcessesFormed'
  BY DEF Bookkeeping, LoadHealthy, TypeOK, ProcessesFormed, LoadExclusive, At, Dead, Loading
<1>7. StatusUndrained'
  BY DEF Bookkeeping, LoadHealthy, LoadExclusive, StatusUndrained, At, Loading,
     Return, Taken, Holding, IsReady
<1>8. Supervised'
  BY DEF Bookkeeping, LoadHealthy, LoadExclusive, Supervised, At, Listed, Loading,
     Return, Taken, Holding, IsReady
<1>9. SocketsNamed'
  BY DEF Bookkeeping, LoadHealthy, SocketsNamed
<1>10. KeepsOwn
  <2>1. ASSUME NEW n \in Names, Undisturbed(n) PROVE Undisturbed(n)'
    BY <2>1, NoneAssumption DEF Bookkeeping, LoadHealthy, TypeOK, CallsFormed, LoadExclusive,
       Undisturbed, At, Idle, Loading, Holding, Return
  <2>2. AllRecorded => AllRecorded'
    BY DEF Bookkeeping, LoadHealthy, TypeOK, AllRecorded
  <2> QED
    BY <2>1, <2>2 DEF KeepsOwn
<1> QED
  BY <1>1, <1>2, <1>3, <1>4, <1>5, <1>6, <1>7, <1>8, <1>9, <1>10
  DEF Bookkeeping

\* The kill makes the failed worker dead.
LEMMA LoadGivesUpStep ==
  ASSUME NEW t \in Threads, Bookkeeping,
         LoadGivesUp(t)
  PROVE  Bookkeeping' /\ KeepsOwn
<1>1. TypeOK'
  BY DEF Bookkeeping, LoadGivesUp, TypeOK, Calls, Idle, Kill, Places, ProcStates,
     Return, WorkerStates
<1>2. CallsFormed'
  BY DEF Bookkeeping, LoadGivesUp, TypeOK, CallsFormed, AllOps, Calls, Idle,
     PlacesOf, Return
<1>3. LoadExclusive'
  BY NoneAssumption DEF Bookkeeping, LoadGivesUp, TypeOK, LoadExclusive, At, Idle,
     Loading, Return, Holding, IsReady
<1>4. MapFormed'
  BY DEF Bookkeeping, LoadGivesUp, MapFormed
<1>5. TakenOnce'
  BY DEF Bookkeeping, LoadGivesUp, TakenOnce, Dead, Idle, Kill, Listed, Live,
     Return, Taken
<1>6. ProcessesFormed'
  BY NoneAssumption DEF Bookkeeping, LoadGivesUp, TypeOK, CallsFormed,
     ProcessesFormed, Dead, Kill, Live, ProcStates
<1>7. StatusUndrained'
  BY DEF Bookkeeping, LoadGivesUp, TypeOK, StatusUndrained, AllOps, At, Calls,
     Idle, Kill, Live, Places, ProcStates, Return, Taken, WorkerStates
<1>8. Supervised'
  BY DEF Bookkeeping, LoadGivesUp, TypeOK, Supervised, Kill, Listed, Live, Return,
     Taken
<1>9. SocketsNamed'
  BY DEF Bookkeeping, LoadGivesUp, SocketsNamed
<1>10. KeepsOwn
  <2>1. ASSUME NEW n \in Names, Undisturbed(n) PROVE Undisturbed(n)'
    BY <2>1, NoneAssumption DEF Bookkeeping, LoadGivesUp, TypeOK, CallsFormed, LoadExclusive,
       Undisturbed, At, Idle, Loading, Holding, Return, Kill, Live
  <2>2. AllRecorded => AllRecorded'
    BY DEF Bookkeeping, LoadGivesUp, TypeOK, AllRecorded, Kill, Live
  <2> QED
    BY <2>1, <2>2 DEF KeepsOwn
<1> QED
  BY <1>1, <1>2, <1>3, <1>4, <1>5, <1>6, <1>7, <1>8, <1>9, <1>10
  DEF Bookkeeping

\* The exit status is taken from a worker that becomes failed, not from one
\* that StatusUndrained speaks of.
LEMMA LoadExitedStep ==
  ASSUME NEW t \in Threads, Bookkeeping,
         LoadExited(t)
  PROVE  Bookkeeping' /\ KeepsOwn
<1>1. TypeOK'
  BY DEF Bookkeeping, LoadExited, TypeOK, Calls, Idle, Kill, Places, ProcStates,
     Return, WorkerStates
<1>2. CallsFormed'
  BY DEF Bookkeeping, LoadExited, TypeOK, CallsFormed, AllOps, Calls, Idle,
     PlacesOf, Return
<1>3. LoadExclusive'
  BY NoneAssumption DEF Bookkeeping, LoadExited, TypeOK, LoadExclusive, At, Idle,
     Loading, Return, Holding, IsReady
<1>4. MapFormed'
  BY DEF Bookkeeping, LoadExited, MapFormed
<1>5. TakenOnce'
  BY DEF Bookkeeping, LoadExited, TakenOnce, Dead, Idle, Kill, Listed, Live,
     Return, Taken
<1>6. ProcessesFormed'
  BY DEF Bookkeeping, LoadExited, TypeOK, ProcessesFormed, AllOps, At, Calls, Dead,
     Idle, Kill, Live, Places, ProcStates, Return, WorkerStates
<1>7. StatusUndrained'
  BY DEF Bookkeeping, LoadExited, TypeOK, StatusUndrained, Kill, Return, Taken
<1>8. Supervised'
  BY DEF Bookkeeping, LoadExited, TypeOK, Supervised, Kill, Listed, Live, Return,
     Taken
<1>9. SocketsNamed'
  BY DEF Bookkeeping, LoadExited, SocketsNamed
<1>10. KeepsOwn
  <2>1. ASSUME NEW n \in Names, Undisturbed(n) PROVE Undisturbed(n)'
    BY <2>1, NoneAssumption DEF Bookkeeping, LoadExited, TypeOK, CallsFormed, LoadExclusive,
       Undisturbed, At, Idle, Loading, Holding, Return, Kill, Live, ProcessesFormed
  <2>2. AllRecorded => AllRecorded'
    BY DEF Bookkeeping, LoadExited, TypeOK, AllRecorded, Kill, Live
  <2> QED
    BY <2>1, <2>2 DEF KeepsOwn
<1> QED
  BY <1>1, <1>2, <1>3, <1>4, <1>5, <1>6, <1>7, <1>8, <1>9, <1>10
  DEF Bookkeeping

\* A listed worker is nobody's (TakenOnce), and with the lock free it is not
\* starting.
LEMMA UnloadTakeStep ==
  ASSUME NEW t \in Threads, Bookkeeping,
         UnloadTake(t)
  PROVE  Bookkeeping' /\ KeepsOwn
<1>1. TypeOK'
  BY DEF Bookkeeping, UnloadTake, TypeOK, CallsFormed, At, Calls
<1>2. CallsFormed'
  BY DEF Bookkeeping, UnloadTake, TypeOK, CallsFormed, AllOps, At, Calls, Live,
     Places, PlacesOf, ProcStates, WorkerStates
<1>3. LoadExclusive'
  BY NoneAssumption DEF Bookkeeping, UnloadTake, TypeOK, LoadExclusive, At,
     Loading, Holding, IsReady
<1>4. MapFormed'
  BY DEF Bookkeeping, UnloadTake, MapFormed
<1>5. TakenOnce'
  BY DEF Bookkeeping, UnloadTake, TypeOK, CallsFormed, TakenOnce, AllOps, At, Calls
<1>6. ProcessesFormed'
  BY DEF Bookkeeping, UnloadTake, ProcessesFormed, Dead
<1>7. StatusUndrained'
  BY DEF Bookkeeping, UnloadTake, TypeOK, StatusUndrained, At, Taken
<1>8. Supervised'
  BY DEF Bookkeeping, UnloadTake, TypeOK, Supervised, AllOps, At, Listed, Places,
     ProcStates, Taken
<1>9. SocketsNamed'
  BY DEF Bookkeeping, UnloadTake, TypeOK, SocketsNamed
<1>10. KeepsOwn
  BY DEF Bookkeeping, UnloadTake, TypeOK, Undisturbed, At, Loading, AllRecorded,
     KeepsOwn
<1> QED
  BY <1>1, <1>2, <1>3, <1>4, <1>5, <1>6, <1>7, <1>8, <1>9, <1>10
  DEF Bookkeeping

\* Whichever process got /shutdown is still live.
LEMMA ShutdownAnsweredStep ==
  ASSUME NEW t \in Threads, Bookkeeping,
         ShutdownAnswered(t)
  PROVE  Bookkeeping' /\ KeepsOwn
<1>1. TypeOK'
  BY DEF Bookkeeping, ShutdownAnswered, TypeOK, CallsFormed, AllOps, At, Calls,
     Goto, Live, Places, ProcStates
<1>2. CallsFormed'
  BY DEF Bookkeeping, ShutdownAnswered, TypeOK, CallsFormed, AllOps, At, Calls,
     Goto, PlacesOf
<1>3. LoadExclusive'
  BY DEF Bookkeeping, ShutdownAnswered, LoadExclusive, At, Goto, Loading, Holding,
     IsReady
<1>4. MapFormed'
  BY DEF Bookkeeping, ShutdownAnswered, MapFormed
<1>5. TakenOnce'
  BY DEF Bookkeeping, ShutdownAnswered, TakenOnce, At, Dead, Goto, Listed, Taken
<1>6. ProcessesFormed'
  BY DEF Bookkeeping, ShutdownAnswered, ProcessesFormed, Dead
<1>7. StatusUndrained'
  BY DEF Bookkeeping, ShutdownAnswered, StatusUndrained, At, Goto, Taken
<1>8. Supervised'
  BY DEF Bookkeeping, ShutdownAnswered, TypeOK, Supervised, AllOps, At, Calls,
     Goto, Listed, Live, Places, ProcStates, Taken, WorkerStates
<1>9. SocketsNamed'
  BY DEF Bookkeeping, ShutdownAnswered, SocketsNamed
<1>10. KeepsOwn
  BY DEF Bookkeeping, ShutdownAnswered, Undisturbed, Goto, Loading, AllRecorded,
     KeepsOwn
<1> QED
  BY <1>1, <1>2, <1>3, <1>4, <1>5, <1>6, <1>7, <1>8, <1>9, <1>10
  DEF Bookkeeping

\* The thread that drains the channel is then itself at cleanup.
LEMMA UnloadReapedStep ==
  ASSUME NEW t \in Threads, Bookkeeping,
         UnloadReaped(t)
  PROVE  Bookkeeping' /\ KeepsOwn
<1>1. TypeOK'
  BY DEF Bookkeeping, UnloadReaped, TypeOK, CallsFormed, AllOps, At, Calls, Goto,
     Places
<1>2. CallsFormed'
  BY DEF Bookkeeping, UnloadReaped, TypeOK, CallsFormed, AllOps, At, Calls, Goto,
     PlacesOf
<1>3. LoadExclusive'
  BY DEF Bookkeeping, UnloadReaped, LoadExclusive, At, Goto, Loading, Holding,
     IsReady
<1>4. MapFormed'
  BY DEF Bookkeeping, UnloadReaped, MapFormed
<1>5. TakenOnce'
  BY DEF Bookkeeping, UnloadReaped, CallsFormed, TakenOnce, ProcessesFormed, At,
     Dead, Goto, Listed, Taken
<1>6. ProcessesFormed'
  BY DEF Bookkeeping, UnloadReaped, ProcessesFormed, Dead
<1>7. StatusUndrained'
  BY DEF Bookkeeping, UnloadReaped, TypeOK, StatusUndrained, At, Goto, Taken
<1>8. Supervised'
  BY DEF Bookkeeping, UnloadReaped, Supervised, Goto, Listed, Taken
<1>9. SocketsNamed'
  BY DEF Bookkeeping, UnloadReaped, SocketsNamed
<1>10. KeepsOwn
  BY DEF Bookkeeping, UnloadReaped, Undisturbed, Goto, Loading, AllRecorded,
     KeepsOwn
<1> QED
  BY <1>1, <1>2, <1>3, <1>4, <1>5, <1>6, <1>7, <1>8, <1>9, <1>10
  DEF Bookkeeping

\* After the kill the taken worker is dead.
LEMMA UnloadKillStep ==
  ASSUME NEW t \in Threads, Bookkeeping,
         UnloadKill(t)
  PROVE  Bookkeeping' /\ KeepsOwn
<1>1. TypeOK'
  BY DEF Bookkeeping, UnloadKill, TypeOK, CallsFormed, At, Calls, Goto, Kill, Live,
     Places, ProcStates
<1>2. CallsFormed'
  BY DEF Bookkeeping, UnloadKill, TypeOK, CallsFormed, AllOps, At, Calls, Goto,
     PlacesOf
<1>3. LoadExclusive'
  BY DEF Bookkeeping, UnloadKill, LoadExclusive, At, Goto, Loading, Holding,
     IsReady
<1>4. MapFormed'
  BY DEF Bookkeeping, UnloadKill, MapFormed
<1>5. TakenOnce'
  BY DEF Bookkeeping, UnloadKill, TypeOK, CallsFormed, TakenOnce, ProcessesFormed,
     At, Dead, Goto, Kill, Listed, ProcStates, Taken
<1>6. ProcessesFormed'
  BY DEF Bookkeeping, UnloadKill, ProcessesFormed, Dead, Kill, Live
<1>7. StatusUndrained'
  BY DEF Bookkeeping, UnloadKill, StatusUndrained, At, Goto, Kill, Taken
<1>8. Supervised'
  BY DEF Bookkeeping, UnloadKill, Supervised, Goto, Kill, Listed, Taken
<1>9. SocketsNamed'
  BY DEF Bookkeeping, UnloadKill, SocketsNamed
<1>10. KeepsOwn
  <2>1. ASSUME NEW n \in Names, Undisturbed(n) PROVE Undisturbed(n)'
    BY <2>1, NoneAssumption DEF Bookkeeping, UnloadKill, TypeOK, CallsFormed, LoadExclusive,
       Undisturbed, At, Idle, Loading, Holding, Return, Goto, Kill, Live
  <2>2. AllRecorded => AllRecorded'
    BY DEF Bookkeeping, UnloadKill, TypeOK, AllRecorded, Kill, Live
  <2> QED
    BY <2>1, <2>2 DEF KeepsOwn
<1> QED
  BY <1>1, <1>2, <1>3, <1>4, <1>5, <1>6, <1>7, <1>8, <1>9, <1>10
  DEF Bookkeeping

\* The stopped worker was reaped, and nobody else holds it.
LEMMA UnloadCleanupStep ==
  ASSUME NEW t \in Threads, Bookkeeping,
         UnloadCleanup(t)
  PROVE  Bookkeeping' /\ KeepsOwn
<1>1. TypeOK'
  BY DEF Bookkeeping, UnloadCleanup, TypeOK, Calls, Idle, Places, Return,
     WorkerStates
<1>2. CallsFormed'
  BY DEF Bookkeeping, UnloadCleanup, TypeOK, CallsFormed, AllOps, Calls, Idle,
     PlacesOf, Return
<1>3. LoadExclusive'
  BY DEF Bookkeeping, UnloadCleanup, LoadExclusive, TakenOnce, At, Idle, Loading,
     Return, Taken, Holding, IsReady
<1>4. MapFormed'
  BY DEF Bookkeeping, UnloadCleanup, MapFormed, TakenOnce, At, Listed, Taken
<1>5. TakenOnce'
  BY DEF Bookkeeping, UnloadCleanup, TypeOK, TakenOnce, At, Dead, Idle, Listed,
     Return, Taken
<1>6. ProcessesFormed'
  BY DEF Bookkeeping, UnloadCleanup, TakenOnce, ProcessesFormed, At, Dead, Taken
<1>7. StatusUndrained'
  BY DEF Bookkeeping, UnloadCleanup, TypeOK, StatusUndrained, Return, Taken
<1>8. Supervised'
  BY DEF Bookkeeping, UnloadCleanup, TakenOnce, Supervised, At, Listed, Live,
     Return, Taken
<1>9. SocketsNamed'
  BY DEF Bookkeeping, UnloadCleanup, SocketsNamed
<1>10. KeepsOwn
  <2>1. ASSUME NEW n \in Names, Undisturbed(n) PROVE Undisturbed(n)'
    BY <2>1, NoneAssumption DEF Bookkeeping, UnloadCleanup, TypeOK, CallsFormed, LoadExclusive,
       Undisturbed, At, Idle, Loading, Holding, Return, TakenOnce, Taken
  <2>2. AllRecorded => AllRecorded'
    BY DEF Bookkeeping, UnloadCleanup, TypeOK, AllRecorded
  <2> QED
    BY <2>1, <2>2 DEF KeepsOwn
<1> QED
  BY <1>1, <1>2, <1>3, <1>4, <1>5, <1>6, <1>7, <1>8, <1>9, <1>10
  DEF Bookkeeping

\* A listed worker carries the name it was looked up by (MapFormed).
LEMMA LookUpStep ==
  ASSUME NEW t \in Threads, Bookkeeping,
         LookUp(t)
  PROVE  Bookkeeping' /\ KeepsOwn
<1>1. TypeOK'
  BY DEF Bookkeeping, LookUp, TypeOK, At, Calls
<1>2. CallsFormed'
  BY NoneAssumption, OpsAssumption DEF Bookkeeping, LookUp, TypeOK, CallsFormed,
     AllOps, At, Calls, Live, Places, ProcStates, WorkerStates
<1>3. LoadExclusive'
  BY NoneAssumption, OpsAssumption DEF Bookkeeping, LookUp, TypeOK, LoadExclusive,
     AllOps, At, Calls, Live, Places, ProcStates, WorkerStates, Holding,
     Loading, IsReady
<1>4. MapFormed'
  BY DEF Bookkeeping, LookUp, MapFormed
<1>5. TakenOnce'
  BY NoneAssumption, OpsAssumption DEF Bookkeeping, LookUp, TypeOK, TakenOnce,
     AllOps, At, Calls, Dead, Listed, Live, Places, ProcStates, Taken,
     WorkerStates
<1>6. ProcessesFormed'
  BY DEF Bookkeeping, LookUp, TypeOK, ProcessesFormed, AllOps, At, Calls, Dead,
     Live, Places, ProcStates, WorkerStates
<1>7. StatusUndrained'
  BY DEF Bookkeeping, LookUp, TypeOK, StatusUndrained, AllOps, At, Calls, Live,
     Places, ProcStates, Taken, WorkerStates
<1>8. Supervised'
  BY DEF Bookkeeping, LookUp, TypeOK, Supervised, AllOps, At, Calls, Listed, Live,
     Places, ProcStates, Taken, WorkerStates
<1>9. SocketsNamed'
  BY DEF Bookkeeping, LookUp, TypeOK, SocketsNamed
<1>10. KeepsOwn
  BY DEF Bookkeeping, LookUp, TypeOK, Undisturbed, AllOps, At, Calls, Live,
     Loading, Places, ProcStates, WorkerStates, AllRecorded, KeepsOwn
<1> QED
  BY <1>1, <1>2, <1>3, <1>4, <1>5, <1>6, <1>7, <1>8, <1>9, <1>10
  DEF Bookkeeping

\* A booting worker is the one being loaded, so it may take the path.
LEMMA BindStep ==
  ASSUME NEW p \in Procs, Bookkeeping,
         Bind(p)
  PROVE  Bookkeeping' /\ KeepsOwn
<1>1. TypeOK'
  BY DEF Bookkeeping, Bind, TypeOK, Live, ProcStates
<1>2. CallsFormed'
  BY DEF Bookkeeping, Bind, CallsFormed
<1>3. LoadExclusive'
  BY DEF Bookkeeping, Bind, LoadExclusive, Loading, Holding, IsReady, At
<1>4. MapFormed'
  BY DEF Bookkeeping, Bind, MapFormed
<1>5. TakenOnce'
  BY DEF Bookkeeping, Bind, TakenOnce, Dead, Listed, Taken
<1>6. ProcessesFormed'
  BY DEF Bookkeeping, Bind, ProcessesFormed, Dead
<1>7. StatusUndrained'
  BY DEF Bookkeeping, Bind, StatusUndrained, Taken
<1>8. Supervised'
  BY DEF Bookkeeping, Bind, TypeOK, Supervised, AllOps, Calls, Listed, Live,
     Places, ProcStates, Taken, WorkerStates
<1>9. SocketsNamed'
  BY DEF Bookkeeping, Bind, ProcessesFormed, SocketsNamed
<1>10. KeepsOwn
  BY DEF Bookkeeping, Bind, LoadExclusive, ProcessesFormed, Undisturbed,
     Loading, Holding, IsReady, At, AllRecorded, KeepsOwn
<1> QED
  BY <1>1, <1>2, <1>3, <1>4, <1>5, <1>6, <1>7, <1>8, <1>9, <1>10
  DEF Bookkeeping

\* A process that stops answering stays live.
LEMMA HangStep ==
  ASSUME NEW p \in Procs, Bookkeeping,
         Hang(p)
  PROVE  Bookkeeping' /\ KeepsOwn
<1>1. TypeOK'
  BY DEF Bookkeeping, Hang, TypeOK, Live, ProcStates
<1>2. CallsFormed'
  BY DEF Bookkeeping, Hang, CallsFormed
<1>3. LoadExclusive'
  BY DEF Bookkeeping, Hang, LoadExclusive, Loading, Holding, IsReady, At
<1>4. MapFormed'
  BY DEF Bookkeeping, Hang, MapFormed
<1>5. TakenOnce'
  BY DEF Bookkeeping, Hang, TakenOnce, Dead, Listed, Taken
<1>6. ProcessesFormed'
  BY DEF Bookkeeping, Hang, ProcessesFormed, Dead
<1>7. StatusUndrained'
  BY DEF Bookkeeping, Hang, StatusUndrained, Taken
<1>8. Supervised'
  BY DEF Bookkeeping, Hang, TypeOK, Supervised, AllOps, Calls, Listed, Live,
     Places, ProcStates, Taken, WorkerStates
<1>9. SocketsNamed'
  BY DEF Bookkeeping, Hang, SocketsNamed
<1>10. KeepsOwn
  BY DEF Bookkeeping, Hang, Undisturbed, Loading, AllRecorded, KeepsOwn
<1> QED
  BY <1>1, <1>2, <1>3, <1>4, <1>5, <1>6, <1>7, <1>8, <1>9, <1>10
  DEF Bookkeeping

\* A process that dies leaves its records alone.
LEMMA CrashStep ==
  ASSUME NEW p \in Procs, Bookkeeping,
         Crash(p)
  PROVE  Bookkeeping' /\ KeepsOwn
<1>1. TypeOK'
  BY DEF Bookkeeping, Crash, TypeOK, ProcStates
<1>2. CallsFormed'
  BY DEF Bookkeeping, Crash, CallsFormed
<1>3. LoadExclusive'
  BY DEF Bookkeeping, Crash, LoadExclusive, Loading, Holding, IsReady, At
<1>4. MapFormed'
  BY DEF Bookkeeping, Crash, MapFormed
<1>5. TakenOnce'
  BY DEF Bookkeeping, Crash, TakenOnce, Dead, Listed, Live, Taken
<1>6. ProcessesFormed'
  BY DEF Bookkeeping, Crash, ProcessesFormed, Dead, Live
<1>7. StatusUndrained'
  BY DEF Bookkeeping, Crash, StatusUndrained, Taken
<1>8. Supervised'
  BY DEF Bookkeeping, Crash, Supervised, Listed, Taken
<1>9. SocketsNamed'
  BY DEF Bookkeeping, Crash, SocketsNamed
<1>10. KeepsOwn
  <2>1. ASSUME NEW n \in Names, Undisturbed(n) PROVE Undisturbed(n)'
    BY <2>1 DEF Bookkeeping, Crash, TypeOK, Undisturbed, Loading
  <2>2. AllRecorded => AllRecorded'
    BY DEF Bookkeeping, Crash, TypeOK, AllRecorded, Live
  <2> QED
    BY <2>1, <2>2 DEF KeepsOwn
<1> QED
  BY <1>1, <1>2, <1>3, <1>4, <1>5, <1>6, <1>7, <1>8, <1>9, <1>10
  DEF Bookkeeping

\* So does one that ends after /shutdown.
LEMMA ExitStep ==
  ASSUME NEW p \in Procs, Bookkeeping,
         Exit(p)
  PROVE  Bookkeeping' /\ KeepsOwn
<1>1. TypeOK'
  BY DEF Bookkeeping, Exit, TypeOK, ProcStates
<1>2. CallsFormed'
  BY DEF Bookkeeping, Exit, CallsFormed
<1>3. LoadExclusive'
  BY DEF Bookkeeping, Exit, LoadExclusive, Loading, Holding, IsReady, At
<1>4. MapFormed'
  BY DEF Bookkeeping, Exit, MapFormed
<1>5. TakenOnce'
  BY DEF Bookkeeping, Exit, TakenOnce, Dead, Listed, Taken
<1>6. ProcessesFormed'
  BY DEF Bookkeeping, Exit, ProcessesFormed, Dead
<1>7. StatusUndrained'
  BY DEF Bookkeeping, Exit, StatusUndrained, Taken
<1>8. Supervised'
  BY DEF Bookkeeping, Exit, TypeOK, Supervised, AllOps, Calls, Listed, Live,
     Places, ProcStates, Taken, WorkerStates
<1>9. SocketsNamed'
  BY DEF Bookkeeping, Exit, SocketsNamed
<1>10. KeepsOwn
  BY DEF Bookkeeping, Exit, Undisturbed, Loading, AllRecorded, KeepsOwn
<1> QED
  BY <1>1, <1>2, <1>3, <1>4, <1>5, <1>6, <1>7, <1>8, <1>9, <1>10
  DEF Bookkeeping

\* The exit status enters the channel when the process is reaped.
LEMMA ReapStep ==
  ASSUME NEW p \in Procs, Bookkeeping,
         Reap(p)
  PROVE  Bookkeeping' /\ KeepsOwn
<1>1. TypeOK'
  BY DEF Bookkeeping, Reap, TypeOK, ProcStates
<1>2. CallsFormed'
  BY DEF Bookkeeping, Reap, CallsFormed
<1>3. LoadExclusive'
  BY DEF Bookkeeping, Reap, LoadExclusive, Loading, Holding, IsReady, At
<1>4. MapFormed'
  BY DEF Bookkeeping, Reap, MapFormed
<1>5. TakenOnce'
  BY DEF Bookkeeping, Reap, TakenOnce, Dead, Listed, Taken
<1>6. ProcessesFormed'
  BY DEF Bookkeeping, Reap, TypeOK, ProcessesFormed, Dead
<1>7. StatusUndrained'
  BY DEF Bookkeeping, Reap, TypeOK, StatusUndrained, Taken
<1>8. Supervised'
  BY DEF Bookkeeping, Reap, Supervised, Listed, Live, Taken
<1>9. SocketsNamed'
  BY DEF Bookkeeping, Reap, SocketsNamed
<1>10. KeepsOwn
  BY DEF Bookkeeping, Reap, Undisturbed, Loading, AllRecorded, KeepsOwn
<1> QED
  BY <1>1, <1>2, <1>3, <1>4, <1>5, <1>6, <1>7, <1>8, <1>9, <1>10
  DEF Bookkeeping

-----------------------------------------------------------------------------
(* The invariant *)

\* Nothing is loaded, listed or running at first.
LEMMA InitInv == Init => IndInv
<1> SUFFICES ASSUME Init PROVE IndInv
  OBVIOUS
<1>1. TypeOK
  BY DEF Init, TypeOK, Idle, Calls, Places, AllOps, WorkerStates, ProcStates
<1>2. CallsFormed /\ LoadExclusive /\ TakenOnce
  BY NoneAssumption DEF Init, Idle, CallsFormed, LoadExclusive, TakenOnce,
     Loading, Taken, PlacesOf, Holding, IsReady, At
<1>3. MapFormed /\ ProcessesFormed /\ StatusUndrained /\ Supervised /\ SocketsNamed
  BY DEF Init, Idle, MapFormed, ProcessesFormed, StatusUndrained, Supervised,
         SocketsNamed, Dead, Live
<1>4. AllRecorded /\ \A n \in Names : Undisturbed(n)
  BY DEF Init, Idle, AllRecorded, Undisturbed, Loading
<1> QED
  BY <1>1, <1>2, <1>3, <1>4 DEF IndInv, Bookkeeping

\* A call that fails: Load and Unload go on, the others return.
LEMMA AfterErrorStep ==
  ASSUME NEW t \in Threads, Bookkeeping, call[t].at \in {"dial", "sent"}, AfterError(t)
  PROVE  Bookkeeping' /\ KeepsOwn
<1>1. CASE call[t].op = "load" /\ Goto(t, "poll")
  <2>1. /\ "poll" \in Plain(call[t].op)
        /\ call[t].at \in Plain(call[t].op) \cup {"sent"}
        /\ "poll" \in Places
    BY <1>1 DEF Plain, PlacesOf, Places
  <2> QED
    BY <1>1, <2>1, MoveWithin DEF AfterError
<1>2. CASE call[t].op = "unload" /\ Goto(t, "wait")
  <2>1. /\ "wait" \in Plain(call[t].op)
        /\ call[t].at \in Plain(call[t].op) \cup {"sent"}
        /\ "wait" \in Places
    BY <1>2 DEF Plain, PlacesOf, Places
  <2> QED
    BY <1>2, <2>1, MoveWithin DEF AfterError
<1>3. CASE call[t].op \notin {"load", "unload"} /\ Return(t)
  <2>1. ~Holding(t) /\ ~Taken(t)
    BY <1>3 DEF Holding, Taken
  <2> QED
    BY <1>3, <2>1, ReturnQuietly DEF AfterError
<1> QED
  BY <1>1, <1>2, <1>3 DEF AfterError

\* Every first step under the lock.
LEMMA EnterStep ==
  ASSUME NEW t \in Threads, Bookkeeping, Enter(t)
  PROVE  Bookkeeping' /\ KeepsOwn
<1>1. ASSUME call[t].at = "lock" PROVE ~Holding(t) /\ ~Taken(t)
  BY <1>1 DEF Holding, Taken
<1>2. CASE LoadNoop(t)
  BY <1>1, <1>2, ReturnQuietly DEF LoadNoop, At
<1>3. CASE LoadLock(t)
  BY <1>3, LoadLockStep
<1>4. CASE UnloadAbsent(t)
  BY <1>1, <1>4, ReturnQuietly DEF UnloadAbsent, At
<1>5. CASE UnloadTake(t)
  BY <1>5, UnloadTakeStep
<1>6. CASE NotLoaded(t)
  BY <1>1, <1>6, ReturnQuietly DEF NotLoaded, At
<1>7. CASE LookUp(t)
  BY <1>7, LookUpStep
<1>8. CASE Snapshot(t)
  BY <1>1, <1>8, ReturnQuietly DEF Snapshot, At
<1> QED
  BY <1>2, <1>3, <1>4, <1>5, <1>6, <1>7, <1>8 DEF Enter

\* Every later step of a call.
LEMMA AdvanceStep ==
  ASSUME NEW t \in Threads, Bookkeeping, Advance(t)
  PROVE  Bookkeeping' /\ KeepsOwn
<1>1. CASE Connect(t)
  BY <1>1, ConnectStep
<1>2. CASE DoFails(t)
  BY <1>2, AfterErrorStep DEF DoFails
<1>3. CASE HealthTick(t)
  <2>1. /\ "dial" \in Plain(call[t].op)
        /\ call[t].at \in Plain(call[t].op) \cup {"sent"}
        /\ "dial" \in Places
    BY <1>3 DEF HealthTick, At, Plain, PlacesOf, Places
  <2> QED
    BY <1>3, <2>1, MoveWithin DEF HealthTick
<1>4. CASE LoadHealthy(t)
  BY <1>4, LoadHealthyStep
<1>5. CASE LoadGivesUp(t)
  BY <1>5, LoadGivesUpStep
<1>6. CASE LoadExited(t)
  BY <1>6, LoadExitedStep
<1>7. CASE ShutdownAnswered(t)
  BY <1>7, ShutdownAnsweredStep
<1>8. CASE UnloadReaped(t)
  BY <1>8, UnloadReapedStep
<1>9. CASE UnloadKill(t)
  BY <1>9, UnloadKillStep
<1>10. CASE UnloadCleanup(t)
  BY <1>10, UnloadCleanupStep
<1>11. CASE PredictGate(t)
  <2>1. CASE wstate[call[t].w] = "ready" /\ Goto(t, "dial")
    <3>1. /\ "dial" \in Plain(call[t].op)
          /\ call[t].at \in Plain(call[t].op) \cup {"sent"}
          /\ "dial" \in Places
      BY <1>11 DEF PredictGate, At, Plain, PlacesOf, Places
    <3> QED
      BY <1>11, <2>1, <3>1, MoveWithin DEF PredictGate
  <2>2. CASE wstate[call[t].w] # "ready" /\ Return(t)
    <3>1. ~Holding(t) /\ ~Taken(t)
      BY <1>11 DEF PredictGate, At, Holding, Taken
    <3> QED
      BY <1>11, <2>2, <3>1, ReturnQuietly DEF PredictGate
  <2> QED
    BY <1>11, <2>1, <2>2 DEF PredictGate
<1>12. CASE Answered(t)
  <2>1. ~Holding(t) /\ ~Taken(t)
    BY <1>12 DEF Answered, At, Holding, Taken
  <2> QED
    BY <1>12, <2>1, ReturnQuietly DEF Answered
<1>13. CASE LoadRefused(t)
  BY <1>13, LoadRefusedStep
<1>14. CASE \E p \in Procs, missing \in BOOLEAN : LoadStart(t, p, missing)
  BY <1>14, LoadStartStep
<1> QED
  BY <1>1, <1>2, <1>3, <1>4, <1>5, <1>6, <1>7, <1>8, <1>9, <1>10, <1>11, <1>12,
     <1>13, <1>14
  DEF Advance

\* Every step of a thread,
LEMMA ThreadStepKeeps ==
  ASSUME Bookkeeping, NEW t \in Threads, ThreadStep(t)
  PROVE  Bookkeeping' /\ KeepsOwn
<1>1. CASE \E o \in Ops, n \in Names : Call(t, o, n)
  BY <1>1, CallStep, OpsAssumption
<1>2. CASE Enter(t)
  BY <1>2, EnterStep
<1>3. CASE Advance(t)
  BY <1>3, AdvanceStep
<1>4. CASE Cancelled(t)
  BY <1>4, AfterErrorStep DEF Cancelled
<1>5. CASE ChecksHang(t)
  BY <1>5, ChecksHangStep
<1> QED
  BY <1>1, <1>2, <1>3, <1>4, <1>5 DEF ThreadStep

\* and of a process.
LEMMA ProcStepKeeps ==
  ASSUME Bookkeeping, NEW p \in Procs, ProcStep(p)
  PROVE  Bookkeeping' /\ KeepsOwn
BY BindStep, HangStep, CrashStep, ExitStep, ReapStep DEF ProcStep

\* A step that changes nothing.
LEMMA StutterStep ==
  ASSUME Bookkeeping, UNCHANGED vars
  PROVE  Bookkeeping' /\ KeepsOwn
BY DEF vars, Bookkeeping, TypeOK, CallsFormed, LoadExclusive, MapFormed, TakenOnce,
       ProcessesFormed, StatusUndrained, Supervised, SocketsNamed, Loading, Holding,
       Taken, Dead, Listed, At, IsReady, KeepsOwn, Undisturbed, AllRecorded

\* IndInv is inductive.
LEMMA NextInv == IndInv /\ [Next]_vars => IndInv'
<1> SUFFICES ASSUME IndInv, [Next]_vars PROVE IndInv'
  OBVIOUS
<1>1. Bookkeeping' /\ KeepsOwn
  BY StutterStep, ThreadStepKeeps, ProcStepKeeps DEF Next, IndInv
<1>2. AllRecorded' /\ \A n \in Names : Undisturbed(n)'
  BY <1>1 DEF KeepsOwn, IndInv
<1> QED
  BY <1>1, <1>2 DEF IndInv

\* IndInv holds in every reachable state of the manager.
THEOREM Supervision == Spec => []IndInv
BY InitInv, NextInv, PTL DEF Spec

-----------------------------------------------------------------------------
(* What follows *)

\* Every variable keeps its type.
THEOREM TypeCorrect == Spec => []TypeOK
<1>1. IndInv => TypeOK
  BY DEF IndInv, Bookkeeping
<1> QED
  BY <1>1, Supervision, PTL

\* With the lock free nobody loads, so nothing that is listed is starting.
LEMMA SettledWhenFree ==
  ASSUME Bookkeeping
  PROVE  ListedStates
<1> SUFFICES ASSUME mu = None, NEW n \in Names, workers[n] # None
             PROVE  wstate[workers[n]] \in {"ready", "degraded", "failed"}
  BY DEF ListedStates
<1>1. workers[n] \in Procs
  BY DEF Bookkeeping, TypeOK
<1>2. wstate[workers[n]] # "starting"
  BY <1>1, NoneAssumption DEF Bookkeeping, LoadExclusive, Holding, Loading, IsReady, At
<1> QED
  BY <1>2 DEF Bookkeeping, MapFormed

\* Whoever takes the lock finds no half-started and no stopped worker listed.
THEOREM OnlySettledWorkersSeen == Spec => []ListedStates
<1>1. IndInv => ListedStates
  BY SettledWhenFree DEF IndInv
<1> QED
  BY <1>1, Supervision, PTL

\* A worker is made ready by its own answer to /health.
THEOREM HealthIsOwn == Spec => []HealthFromOwnWorker
<1>1. IndInv => HealthFromOwnWorker
  BY DEF IndInv, Bookkeeping, CallsFormed, Undisturbed, HealthFromOwnWorker, At, Loading
<1> QED
  BY <1>1, Supervision, PTL

\* No request reaches a process that runs another model.
THEOREM RequestsReachNamedModel == Spec => []PeerRunsNamedModel
<1>1. IndInv => PeerRunsNamedModel
  BY DEF IndInv, Bookkeeping, CallsFormed, PeerRunsNamedModel
<1> QED
  BY <1>1, Supervision, PTL

\* A worker is taken out of the map once, and not while it is loaded.
LEMMA ReceivesAlone ==
  ASSUME Bookkeeping
  PROVE  SoleReceiver
<1> SUFFICES ASSUME NEW t \in Threads, NEW p \in Procs, Unloads(t, p)
             PROVE  /\ ~Listed(p)
                    /\ \A u \in Threads \ {t} : ~Unloads(u, p) /\ ~Loads(u, p)
  BY DEF SoleReceiver
<1>1. Taken(t) /\ call[t].w = p
  BY NoneAssumption DEF Bookkeeping, CallsFormed, Unloads, Taken
<1>2. ASSUME NEW u \in Threads, Unloads(u, p) PROVE u = t
  BY <1>1, <1>2, NoneAssumption DEF Bookkeeping, CallsFormed, TakenOnce, Unloads, Taken
<1>3. ASSUME NEW u \in Threads, Loads(u, p) PROVE FALSE
  <2>1. Loading(u)
    BY <1>3, NoneAssumption DEF Bookkeeping, CallsFormed, Loads, Loading, PlacesOf
  <2> QED
    BY <1>1, <1>3, <2>1 DEF Bookkeeping, LoadExclusive, TakenOnce, Loads, Holding, Loading,
       IsReady, At
<1> QED
  BY <1>1, <1>2, <1>3 DEF Bookkeeping, TakenOnce

\* Each waitCh has one receiver at a time.
THEOREM OneReceiver == Spec => []SoleReceiver
<1>1. IndInv => SoleReceiver
  BY ReceivesAlone DEF IndInv
<1> QED
  BY <1>1, Supervision, PTL

\* The exit status of a worker that came up waits for Unload.
THEOREM StatusWaitsForUnload == Spec => []ExitStatusKept
<1>1. IndInv => ExitStatusKept
  BY DEF IndInv, Bookkeeping, StatusUndrained, ExitStatusKept, Unloads, Taken
<1> QED
  BY <1>1, Supervision, PTL

\* No running process is lost, save a replaced degraded one.
THEOREM ProcessesSupervised == Spec => []OnlyDegradedEscape
<1>1. IndInv => OnlyDegradedEscape
  BY DEF IndInv, Bookkeeping, AllRecorded, Supervised, OnlyDegradedEscape, Unloads, Taken, Live
<1> QED
  BY <1>1, Supervision, PTL

\* Failed and stopped workers have no running process.
THEOREM DeadAreDead == Spec => []DeadStatesAreDead
<1>1. IndInv => DeadStatesAreDead
  BY DEF IndInv, Bookkeeping, ProcessesFormed, DeadStatesAreDead, Dead
<1> QED
  BY <1>1, Supervision, PTL

-----------------------------------------------------------------------------
(* Without missing dependencies each model has one process.                *)

\* No worker is degraded, nor will the Load that is on its way make one so.
NothingMissing ==
  /\ \A t \in Threads : call[t].missing = FALSE
  /\ \A p \in Procs : wstate[p] # "degraded"

\* A call starts and ends with nothing missing, and so do its other steps.
LEMMA NothingMissingStays ==
  ASSUME MayMissDeps = FALSE, Bookkeeping, NothingMissing, [Next]_vars
  PROVE  NothingMissing'
<1>1. /\ call \in [Threads -> Calls] /\ wstate \in [Procs -> WorkerStates]
      /\ \A t \in Threads : call[t].at \notin {"idle", "lock", "deps", "stuck"} => call[t].w \in Procs
  BY DEF Bookkeeping, TypeOK, CallsFormed
<1>2. ASSUME NEW t \in Threads, NEW c,
             c.missing = FALSE, call' = [call EXCEPT ![t] = c],
             \/ UNCHANGED wstate
             \/ \E p \in Procs, s \in WorkerStates \ {"degraded"} : wstate' = [wstate EXCEPT ![p] = s]
      PROVE  NothingMissing'
  BY <1>1, <1>2 DEF NothingMissing
<1>3. ASSUME NEW t \in Threads PROVE Idle.missing = FALSE /\ call[t].missing = FALSE
  BY DEF Idle, NothingMissing
<1>4. CASE UNCHANGED <<call, wstate>>
  BY <1>4 DEF NothingMissing
<1>5. ASSUME NEW t \in Threads, NEW place \in Places, Goto(t, place), UNCHANGED wstate
      PROVE  NothingMissing'
  BY <1>1, <1>5 DEF Goto, NothingMissing, Calls
<1>6. ASSUME NEW t \in Threads, Return(t), UNCHANGED wstate PROVE NothingMissing'
  BY <1>2, <1>3, <1>6 DEF Return
<1>7. ASSUME NEW t \in Threads, \E o \in Ops, n \in Names : Call(t, o, n) PROVE NothingMissing'
  BY <1>1, <1>7 DEF Call, Idle, NothingMissing
<1>8. ASSUME NEW t \in Threads, Enter(t) PROVE NothingMissing'
  <2>1. CASE LoadNoop(t) \/ UnloadAbsent(t) \/ NotLoaded(t) \/ Snapshot(t)
    BY <1>6, <2>1 DEF LoadNoop, UnloadAbsent, NotLoaded, Snapshot
  <2>2. CASE LoadLock(t)
    BY <1>5, <2>2 DEF LoadLock, Places
  <2>3. CASE UnloadTake(t) \/ LookUp(t)
    BY <1>1, <2>3 DEF UnloadTake, LookUp, NothingMissing, Calls
  <2> QED
    BY <1>8, <2>1, <2>2, <2>3 DEF Enter
<1>9. ASSUME NEW t \in Threads, AfterError(t) \/ ChecksHang(t) PROVE NothingMissing'
  BY <1>5, <1>6, <1>9 DEF AfterError, ChecksHang, Places
<1>10. ASSUME NEW t \in Threads, Advance(t) PROVE NothingMissing'
  <2>1. CASE LoadRefused(t) \/ Answered(t)
    BY <1>6, <2>1 DEF LoadRefused, Answered
  <2>2. CASE HealthTick(t) \/ ShutdownAnswered(t) \/ UnloadReaped(t) \/ UnloadKill(t)
    BY <1>5, <2>2 DEF HealthTick, ShutdownAnswered, UnloadReaped, UnloadKill, Places
  <2>3. CASE PredictGate(t)
    BY <1>5, <1>6, <2>3 DEF PredictGate, Places
  <2>4. CASE Connect(t)
    BY <1>1, <2>4 DEF Connect, NothingMissing, Calls
  <2>5. CASE \E p \in Procs, missing \in BOOLEAN : LoadStart(t, p, missing)
    BY <1>1, <2>5 DEF LoadStart, NothingMissing, Calls
  <2>6. CASE LoadHealthy(t) \/ LoadGivesUp(t) \/ LoadExited(t) \/ UnloadCleanup(t)
    <3>1. call[t].w \in Procs /\ Return(t)
      BY <1>1, <2>6 DEF LoadHealthy, LoadGivesUp, LoadExited, UnloadCleanup, At
    <3>2. \E s \in {"ready", "failed", "stopped"} : wstate' = [wstate EXCEPT ![call[t].w] = s]
      BY <1>3, <2>6 DEF LoadHealthy, LoadGivesUp, LoadExited, UnloadCleanup
    <3> QED
      BY <1>2, <1>3, <3>1, <3>2 DEF Return, WorkerStates
  <2>7. CASE DoFails(t)
    BY <1>9, <2>7 DEF DoFails
  <2> QED
    BY <1>10, <2>1, <2>2, <2>3, <2>4, <2>5, <2>6, <2>7 DEF Advance
<1>11. ASSUME NEW p \in Procs, ProcStep(p) PROVE NothingMissing'
  BY <1>4, <1>11 DEF ProcStep, Bind, Hang, Crash, Exit, Reap
<1> QED
  BY <1>4, <1>7, <1>8, <1>9, <1>10, <1>11 DEF Next, ThreadStep, Cancelled, vars

\* "Each loaded model gets exactly one worker process" (runtime.go), if no
\* dependency is missing: two processes of one model are one, or one is on its
\* way out.  Degraded workers are the only way to a second (degraded_reload).
THEOREM OneProcessUnlessDegraded ==
  ASSUME MayMissDeps = FALSE PROVE Spec => []OneProcessPerModel
<1>1. Init => NothingMissing
  BY DEF Init, Idle, NothingMissing
<1>2. IndInv /\ NothingMissing /\ [Next]_vars => NothingMissing'
  BY NothingMissingStays DEF IndInv
<1>3. IndInv /\ NothingMissing => OneProcessPerModel
  <2> SUFFICES ASSUME IndInv, NothingMissing, NEW p \in Procs, NEW q \in Procs,
                      {proc[p], proc[q]} \subseteq Live, wname[p] = wname[q],
                      \A t \in Threads : ~Unloads(t, p) /\ ~Unloads(t, q)
               PROVE  p = q
    BY DEF OneProcessPerModel
  <2>1. ASSUME NEW r \in {p, q} PROVE \E n \in Names : workers[n] = r /\ wname[r] = n
    <3>1. Listed(r)
      BY DEF IndInv, Bookkeeping, Supervised, AllRecorded, NothingMissing, Taken, Unloads, Live
    <3> QED
      BY <3>1, NoneAssumption DEF Listed, IndInv, Bookkeeping, MapFormed
  <2> QED
    BY <2>1
<1> QED
  BY <1>1, <1>2, <1>3, Supervision, PTL DEF Spec

-----------------------------------------------------------------------------
(* Where no Load crosses an Unload, a ready worker can be reached.          *)

\* No Load of a model gets the lock while an Unload of it is under way.
NoCrossing ==
  [][\A t, u \in Threads : LoadLock(t) => ~(Taken(u) /\ call[u].name = call[t].name)]_vars

\* While a model is being unloaded it is not listed, nor being loaded.
UnloadsAlone ==
  \A t \in Threads : Taken(t) =>
    /\ workers[call[t].name] = None
    /\ \A u \in Threads : Holding(u) => call[u].name # call[t].name

\* A worker that accepts has its socket file, from its start to its Unload.
Reachable ==
  \A n \in Names :
    (/\ workers[n] # None
     /\ wstate[workers[n]] \in {"starting", "ready"}
     /\ proc[workers[n]] \in Accepting) => sock[n] = workers[n]

\* Only UnloadTake and LoadLock bring a call to where UnloadsAlone speaks of
\* it, only LoadStart lists a worker.
LEMMA UnloadsStayAlone ==
  ASSUME Bookkeeping, UnloadsAlone, [Next]_vars,
         \A t, u \in Threads : LoadLock(t) => ~(Taken(u) /\ call[u].name = call[t].name)
  PROVE  UnloadsAlone'
<1>1. call \in [Threads -> Calls] /\ workers \in [Names -> Procs \cup {None}]
  BY DEF Bookkeeping, TypeOK
<1>2. ASSUME NEW t \in Threads, NEW c, call' = [call EXCEPT ![t] = c], UNCHANGED workers,
             c.op = "unload" /\ c.at \notin {"idle", "lock"} =>
               Taken(t) /\ c.name = call[t].name,
             c.op = "load" /\ c.at \in {"deps", "stuck", "poll", "dial", "sent"} =>
               Holding(t) /\ c.name = call[t].name
      PROVE  UnloadsAlone'
  BY <1>1, <1>2 DEF UnloadsAlone, Taken, Holding
<1>3. ASSUME NEW t \in Threads, NEW place \in Places, Goto(t, place), UNCHANGED workers,
             Holding(t) \/ Taken(t) \/ call[t].op \notin {"load", "unload"}
      PROVE  UnloadsAlone'
  <2> DEFINE c == [call[t] EXCEPT !.at = place]
  <2>1. c.op = call[t].op /\ c.name = call[t].name /\ c.at = place /\ call' = [call EXCEPT ![t] = c]
    BY <1>1, <1>3 DEF Goto, Calls
  <2> HIDE DEF c
  <2> QED
    BY <1>2, <1>3, <2>1 DEF Taken, Holding
<1>4. ASSUME NEW t \in Threads, Return(t), UNCHANGED workers PROVE UnloadsAlone'
  <2>1. Idle.op = "none"
    BY DEF Idle
  <2> QED
    BY <1>2, <1>4, <2>1 DEF Return
<1>5. CASE UNCHANGED <<call, workers>>
  BY <1>5 DEF UnloadsAlone, Taken, Holding
<1>6. ASSUME NEW t \in Threads, \E o \in Ops, n \in Names : Call(t, o, n) PROVE UnloadsAlone'
  <2>1. PICK o \in Ops, n \in Names : Call(t, o, n)
    BY <1>6
  <2>2. [Idle EXCEPT !.op = o, !.at = "lock", !.name = n].at = "lock"
    BY DEF Idle
  <2> QED
    BY <1>2, <2>1, <2>2 DEF Call
<1>7. ASSUME NEW t \in Threads, AfterError(t), call[t].at \in {"dial", "sent"} PROVE UnloadsAlone'
  <2>1. Holding(t) \/ Taken(t) \/ call[t].op \notin {"load", "unload"}
    BY <1>7 DEF Holding, Taken
  <2> QED
    BY <1>3, <1>4, <1>7, <2>1 DEF AfterError, Places
<1>8. ASSUME NEW t \in Threads, LookUp(t) \/ Connect(t) PROVE UnloadsAlone'
  BY <1>1, <1>8 DEF LookUp, Connect, At, UnloadsAlone, Taken, Holding, Calls
<1>9. ASSUME NEW t \in Threads, LoadLock(t) PROVE UnloadsAlone'
  <2>1. /\ \A u \in Threads : ~(Taken(u) /\ call[u].name = call[t].name)
        /\ call' = [call EXCEPT ![t].at = "deps"] /\ call[t].op = "load" /\ UNCHANGED workers
    BY <1>9 DEF LoadLock, Goto, At
  <2> QED
    BY <1>1, <2>1 DEF UnloadsAlone, Taken, Holding, Calls
<1>10. ASSUME NEW t \in Threads, UnloadTake(t) PROVE UnloadsAlone'
  <2>1. \A u \in Threads : ~Holding(u)
    BY <1>10, NoneAssumption DEF UnloadTake, Bookkeeping, LoadExclusive
  <2>2. call[t].name \in Names
    BY <1>10 DEF UnloadTake, At, Bookkeeping, CallsFormed
  <2> QED
    BY <1>1, <1>10, <2>1, <2>2 DEF UnloadTake, At, UnloadsAlone, Taken, Holding, Calls
<1>11. ASSUME NEW t \in Threads, NEW p \in Procs, NEW missing \in BOOLEAN, LoadStart(t, p, missing)
       PROVE  UnloadsAlone'
  <2>1. Holding(t) /\ call[t].name \in Names
    BY <1>11 DEF LoadStart, At, Holding, Bookkeeping, CallsFormed
  <2> QED
    BY <1>1, <1>11, <2>1 DEF LoadStart, At, UnloadsAlone, Taken, Holding, Calls
<1>12. ASSUME NEW t \in Threads, Enter(t) PROVE UnloadsAlone'
  BY <1>4, <1>8, <1>9, <1>10, <1>12 DEF Enter, LoadNoop, UnloadAbsent, NotLoaded, Snapshot
<1>13. ASSUME NEW t \in Threads, Advance(t) PROVE UnloadsAlone'
  <2>1. CASE \/ LoadRefused(t) \/ LoadHealthy(t) \/ LoadGivesUp(t) \/ LoadExited(t)
             \/ UnloadCleanup(t) \/ Answered(t)
    BY <1>4, <2>1 DEF LoadRefused, LoadHealthy, LoadGivesUp, LoadExited, UnloadCleanup, Answered
  <2>2. CASE HealthTick(t) \/ ShutdownAnswered(t) \/ UnloadReaped(t) \/ UnloadKill(t)
    BY <1>3, <2>2
    DEF HealthTick, ShutdownAnswered, UnloadReaped, UnloadKill, At, Holding, Taken, Places
  <2>3. CASE PredictGate(t)
    BY <1>3, <1>4, <2>3 DEF PredictGate, At, Places
  <2> QED
    BY <1>7, <1>8, <1>11, <1>13, <2>1, <2>2, <2>3 DEF Advance, DoFails
<1>14. ASSUME NEW t \in Threads, ChecksHang(t) PROVE UnloadsAlone'
  BY <1>3, <1>14 DEF ChecksHang, At, Holding, Places
<1> QED
  BY <1>5, <1>6, <1>7, <1>12, <1>13, <1>14
  DEF Next, ThreadStep, Cancelled, ProcStep, Bind, Hang, Crash, Exit, Reap, vars

\* A socket file is removed by the Load of its name, which finds no worker that
\* is starting or ready, and at the end of an Unload, which finds none at all.
LEMMA ReachableStays ==
  ASSUME IndInv, UnloadsAlone, Reachable, [Next]_vars
  PROVE  Reachable'
<1>1. /\ workers \in [Names -> Procs \cup {None}] /\ wstate \in [Procs -> WorkerStates]
      /\ proc \in [Procs -> ProcStates] /\ sock \in [Names -> Procs \cup {None}]
      /\ \A n \in Names : workers[n] # None => workers[n] \in Procs /\ wname[workers[n]] = n
  BY DEF IndInv, Bookkeeping, TypeOK, MapFormed
<1>2. CASE UNCHANGED <<workers, wstate, proc, sock>>
  BY <1>2 DEF Reachable
<1>3. CASE \E t \in Threads : UnloadTake(t)
  BY <1>1, <1>3 DEF UnloadTake, Reachable
<1>4. ASSUME NEW t \in Threads, NEW p \in Procs, NEW missing \in BOOLEAN, LoadStart(t, p, missing)
      PROVE  Reachable'
  <2>1. call[t].name \in Names /\ wname[p] = None
    BY <1>4 DEF LoadStart, At, IndInv, Bookkeeping, CallsFormed, ProcessesFormed
  <2>2. \A n \in Names : workers[n] # p
    BY <1>1, <2>1, NoneAssumption
  <2> QED
    BY <1>1, <1>4, <2>1, <2>2, NoneAssumption DEF LoadStart, Reachable, Accepting
<1>5. ASSUME NEW t \in Threads, LoadRefused(t) PROVE Reachable'
  <2>1. /\ ~IsReady(call[t].name) /\ \A p \in Procs : wstate[p] # "starting"
        /\ call[t].name \in Names
    BY <1>5 DEF LoadRefused, At, IndInv, Bookkeeping, LoadExclusive, CallsFormed, Loading, Holding
  <2> QED
    BY <1>1, <1>5, <2>1 DEF LoadRefused, Reachable, IsReady
<1>6. ASSUME NEW t \in Threads, LoadHealthy(t) \/ LoadGivesUp(t) \/ LoadExited(t) PROVE Reachable'
  <2>1. wstate[call[t].w] = "starting" /\ UNCHANGED <<workers, sock>>
    BY <1>6 DEF LoadHealthy, LoadGivesUp, LoadExited, At, Loading, IndInv, Bookkeeping,
       LoadExclusive
  <2>2. \E s \in WorkerStates : wstate' = [wstate EXCEPT ![call[t].w] = s]
    BY <1>6 DEF LoadHealthy, LoadGivesUp, LoadExited, WorkerStates
  <2>3. \A p \in Procs : proc'[p] \in Accepting => proc[p] \in Accepting
    BY <1>1, <1>6 DEF LoadHealthy, LoadGivesUp, LoadExited, Kill, Accepting
  <2> QED
    BY <1>1, <2>1, <2>2, <2>3 DEF Reachable
<1>7. ASSUME NEW t \in Threads, ShutdownAnswered(t) \/ UnloadKill(t) PROVE Reachable'
  <2>1. /\ UNCHANGED <<workers, wstate, sock>>
        /\ \A p \in Procs : proc'[p] \in Accepting => proc[p] \in Accepting
    BY <1>1, <1>7 DEF ShutdownAnswered, UnloadKill, Kill, Accepting
  <2> QED
    BY <1>1, <2>1 DEF Reachable
<1>8. ASSUME NEW t \in Threads, UnloadCleanup(t) PROVE Reachable'
  <2>1. Taken(t) /\ call[t].name \in Names /\ workers[call[t].name] = None
    BY <1>8 DEF UnloadCleanup, At, Taken, IndInv, Bookkeeping, CallsFormed, UnloadsAlone
  <2> QED
    BY <1>1, <1>8, <2>1 DEF UnloadCleanup, Reachable
<1>9. ASSUME NEW p \in Procs, Bind(p) PROVE Reachable'
  <2>1. wname[p] \in Names
    BY <1>9 DEF Bind, IndInv, Bookkeeping, TypeOK, ProcessesFormed
  <2>2. wstate[p] = "starting"
    BY <1>9, <2>1 DEF Bind, IndInv, Undisturbed
  <2>3. PICK t \in Threads : Loading(t) /\ call[t].w = p
    BY <2>2 DEF IndInv, Bookkeeping, LoadExclusive
  <2>4. workers[wname[p]] = p
    BY <2>3 DEF IndInv, Bookkeeping, LoadExclusive, CallsFormed, Loading
  <2> QED
    BY <1>1, <1>9, <2>1, <2>4 DEF Bind, Reachable
<1>10. ASSUME NEW p \in Procs, Hang(p) \/ Crash(p) \/ Exit(p) \/ Reap(p) PROVE Reachable'
  <2>1. /\ UNCHANGED <<workers, wstate, sock>>
        /\ \A q \in Procs : proc'[q] \in Accepting => proc[q] \in Accepting
    BY <1>1, <1>10 DEF Hang, Crash, Exit, Reap, Accepting
  <2> QED
    BY <1>1, <2>1 DEF Reachable
<1>11. ASSUME NEW t \in Threads, Enter(t), ~UnloadTake(t)
       PROVE  UNCHANGED <<workers, wstate, proc, sock>>
  BY <1>11 DEF Enter, LoadNoop, LoadLock, UnloadAbsent, NotLoaded, LookUp, Snapshot
<1>12. ASSUME NEW t \in Threads,
              \/ AfterError(t) \/ ChecksHang(t) \/ Connect(t) \/ HealthTick(t) \/ UnloadReaped(t)
              \/ PredictGate(t) \/ Answered(t) \/ \E o \in Ops, n \in Names : Call(t, o, n)
       PROVE  UNCHANGED <<workers, wstate, proc, sock>>
  BY <1>12 DEF AfterError, ChecksHang, Connect, HealthTick, UnloadReaped, PredictGate, Answered, Call
<1> QED
  BY <1>2, <1>3, <1>4, <1>5, <1>6, <1>7, <1>8, <1>9, <1>10, <1>11, <1>12
  DEF Next, ThreadStep, Advance, DoFails, Cancelled, ProcStep, vars

\* A ready worker that serves is reached at its SocketPath (worker.go:56), if no
\* Load of a model begins while an Unload of it is under way: lost_socket shows
\* what happens else.
THEOREM ReachableUnlessCrossed == Spec /\ NoCrossing => []ReadyReachable
<1>1. Init => UnloadsAlone /\ Reachable
  BY DEF Init, Idle, UnloadsAlone, Reachable, Taken
<1>2. ASSUME IndInv, UnloadsAlone, Reachable, [Next]_vars,
             [\A t, u \in Threads : LoadLock(t) => ~(Taken(u) /\ call[u].name = call[t].name)]_vars
      PROVE  (UnloadsAlone /\ Reachable)'
  <2>1. CASE UNCHANGED vars
    BY <2>1, <1>2 DEF vars, UnloadsAlone, Reachable, Taken, Holding
  <2>2. CASE \A t, u \in Threads : LoadLock(t) => ~(Taken(u) /\ call[u].name = call[t].name)
    BY <1>2, <2>2, UnloadsStayAlone, ReachableStays DEF IndInv
  <2> QED
    BY <1>2, <2>1, <2>2
<1>3. Reachable => ReadyReachable
  BY DEF Reachable, ReadyReachable, IsReady
<1> QED
  BY <1>1, <1>2, <1>3, Supervision, PTL DEF Spec, NoCrossing

-----------------------------------------------------------------------------
(* The manager implements ModelLifecycle.                                  *)

\* A model is loading only while a thread is inside waitHealthy.
LEMMA QuietWhenNobodyLoads ==
  ASSUME Bookkeeping, \A u \in Threads : ~Loading(u)
  PROVE  Lifecycle!Quiet
<1> SUFFICES ASSUME NEW n \in Names, status[n] = "loading" PROVE FALSE
  BY DEF Lifecycle!Quiet
<1>1. workers[n] \in Procs /\ wstate[workers[n]] = "starting"
  BY DEF status, Bookkeeping, MapFormed, TypeOK
<1> QED
  BY <1>1 DEF Bookkeeping, LoadExclusive

\* A change of one entry of the abstract state.
LEMMA StatusOf ==
  ASSUME NEW n \in Names, NEW s, status'[n] = s,
         \A m \in Names \ {n} : status'[m] = status[m]
  PROVE  status' = [status EXCEPT ![n] = s]
<1>1. status = [m \in Names |-> status[m]] /\ status' = [m \in Names |-> status'[m]]
  BY DEF status
<1>2. ASSUME NEW f, f = [m \in Names |-> f[m]],
             NEW g, g = [m \in Names |-> g[m]],
             g[n] = s, \A m \in Names \ {n} : g[m] = f[m]
      PROVE  g = [f EXCEPT ![n] = s]
  BY <1>2
<1> QED
  BY <1>1, <1>2

\* Steps that leave the map and the worker states alone are stutters.
LEMMA StatusKept ==
  ASSUME UNCHANGED <<workers, wstate>>
  PROVE  UNCHANGED status
BY DEF status

\* The end of a load, good or bad, is one of the outcomes.
LEMMA EndsLoad ==
  ASSUME Bookkeeping, NEW t \in Threads, Loading(t), NEW s \in Lifecycle!Outcomes,
         wstate' = [wstate EXCEPT ![call[t].w] = s], UNCHANGED workers
  PROVE  Lifecycle!Next
<1> DEFINE n == call[t].name
           w == call[t].w
<1>1. n \in Names /\ w \in Procs /\ wname[w] = n /\ workers[n] = w /\ wstate[w] = "starting"
  BY DEF Bookkeeping, CallsFormed, LoadExclusive, Loading, Holding, IsReady, At
<1>2. w # None
  BY <1>1, NoneAssumption
<1>3. status[n] = "loading"
  BY <1>1, <1>2 DEF status
<1>4. status'[n] = s
  BY <1>1, <1>2 DEF status, Bookkeeping, TypeOK, Lifecycle!Outcomes
<1>5. ASSUME NEW m \in Names \ {n} PROVE status'[m] = status[m]
  <2>1. workers[m] # w
    BY <1>1, <1>2 DEF Bookkeeping, MapFormed
  <2>2. workers'[m] = workers[m] /\ wstate'[workers[m]] = wstate[workers[m]]
    BY <1>1, <2>1 DEF Bookkeeping, TypeOK
  <2> QED
    BY <2>2 DEF status
<1>6. Lifecycle!EndLoad(n, s)
  BY <1>1, <1>3, <1>4, <1>5, StatusOf DEF Lifecycle!EndLoad
<1> QED
  BY <1>1, <1>6 DEF Lifecycle!Next

\* The start of a load.
LEMMA BeginsLoad ==
  ASSUME Bookkeeping, NEW t \in Threads, NEW p \in Procs, NEW missing \in BOOLEAN,
         LoadStart(t, p, missing)
  PROVE  Lifecycle!Next
<1> DEFINE n == call[t].name
<1>1. n \in Names /\ p # None
  BY NoneAssumption DEF LoadStart, At, Bookkeeping, CallsFormed
<1>2. wstate[p] = "none"
  BY DEF LoadStart, Bookkeeping, ProcessesFormed
<1>3. Lifecycle!Quiet
  <2>1. ASSUME NEW u \in Threads, Loading(u) PROVE FALSE
    BY <2>1 DEF LoadStart, At, Bookkeeping, LoadExclusive, Holding, Loading
  <2> QED
    BY <2>1, QuietWhenNobodyLoads
<1>4. status[n] # "ready"
  <2>1. ~IsReady(n)
    BY DEF LoadStart, Bookkeeping, LoadExclusive
  <2> QED
    BY <1>1, <2>1 DEF IsReady, status
<1>5. status'[n] = "loading"
  BY <1>1 DEF LoadStart, status, Bookkeeping, TypeOK
<1>6. ASSUME NEW m \in Names \ {n} PROVE status'[m] = status[m]
  <2>1. workers[m] # p
    BY <1>1, <1>2 DEF Bookkeeping, MapFormed
  <2>2. workers'[m] = workers[m] /\ wstate'[workers[m]] = wstate[workers[m]]
    BY <1>1, <2>1 DEF LoadStart, Bookkeeping, TypeOK
  <2> QED
    BY <2>2 DEF status
<1>7. Lifecycle!BeginLoad(n)
  BY <1>1, <1>3, <1>4, <1>5, <1>6, StatusOf DEF Lifecycle!BeginLoad
<1> QED
  BY <1>1, <1>7 DEF Lifecycle!Next

\* A worker taken out of the map.
LEMMA Removes ==
  ASSUME Bookkeeping, NEW t \in Threads, UnloadTake(t)
  PROVE  Lifecycle!Next
<1> DEFINE n == call[t].name
<1>1. n \in Names /\ mu = None /\ workers[n] # None
  BY DEF UnloadTake, At, Bookkeeping, CallsFormed
<1>2. Lifecycle!Quiet
  <2>1. ASSUME NEW u \in Threads, Loading(u) PROVE FALSE
    BY <1>1, <2>1, NoneAssumption DEF Bookkeeping, LoadExclusive, Holding, Loading
  <2> QED
    BY <2>1, QuietWhenNobodyLoads
<1>3. status[n] # "absent"
  BY <1>1 DEF status, Bookkeeping, MapFormed
<1>4. status'[n] = "absent"
  BY <1>1 DEF UnloadTake, status, Bookkeeping, TypeOK
<1>5. ASSUME NEW m \in Names \ {n} PROVE status'[m] = status[m]
  <2>1. workers'[m] = workers[m] /\ wstate' = wstate
    BY <1>1 DEF UnloadTake, Bookkeeping, TypeOK
  <2> QED
    BY <2>1 DEF status
<1>6. Lifecycle!Remove(n)
  BY <1>1, <1>2, <1>3, <1>4, <1>5, StatusOf DEF Lifecycle!Remove
<1> QED
  BY <1>1, <1>6 DEF Lifecycle!Next

\* The last step of Unload changes a worker that is in the map no more.
LEMMA CleanupStutters ==
  ASSUME Bookkeeping, NEW t \in Threads, UnloadCleanup(t)
  PROVE  UNCHANGED status
<1>1. Taken(t)
  BY DEF UnloadCleanup, At, Taken
<1>2. ASSUME NEW m \in Names PROVE status'[m] = status[m]
  <2>1. workers[m] # call[t].w
    BY <1>1 DEF Bookkeeping, TakenOnce, Listed
  <2>2. workers' = workers /\ wstate'[workers[m]] = wstate[workers[m]]
    BY <2>1 DEF UnloadCleanup, Bookkeeping, TypeOK
  <2> QED
    BY <2>2 DEF status
<1> QED
  BY <1>2 DEF status

\* Every step of a thread is a step of the life cycle or a stutter,
LEMMA ThreadSimulates ==
  ASSUME Bookkeeping, NEW t \in Threads, ThreadStep(t)
  PROVE  [Lifecycle!Next]_status
<1>1. CASE \E o \in Ops, n \in Names : Call(t, o, n)
  BY <1>1, StatusKept DEF Call
<1>2. CASE Enter(t)
  <2>1. CASE UnloadTake(t)
    BY <2>1, Removes
  <2> QED
    BY <1>2, <2>1, StatusKept
    DEF Enter, LoadNoop, LoadLock, UnloadAbsent, NotLoaded, LookUp, Snapshot
<1>3. CASE Advance(t)
  <2>1. CASE LoadHealthy(t)
    BY <2>1, EndsLoad DEF LoadHealthy, At, Loading, Lifecycle!Outcomes
  <2>2. CASE LoadGivesUp(t)
    BY <2>2, EndsLoad DEF LoadGivesUp, At, Loading, Lifecycle!Outcomes
  <2>3. CASE LoadExited(t)
    BY <2>3, EndsLoad DEF LoadExited, At, Loading, Lifecycle!Outcomes
  <2>4. CASE UnloadCleanup(t)
    BY <2>4, CleanupStutters
  <2>5. CASE DoFails(t)
    BY <2>5, StatusKept DEF DoFails, AfterError
  <2>6. CASE \E p \in Procs, missing \in BOOLEAN : LoadStart(t, p, missing)
    BY <2>6, BeginsLoad
  <2> QED
    BY <1>3, <2>1, <2>2, <2>3, <2>4, <2>5, <2>6, StatusKept
    DEF Advance, LoadRefused, Connect, HealthTick, ShutdownAnswered, UnloadReaped, UnloadKill,
        PredictGate, Answered
<1>4. CASE Cancelled(t)
  BY <1>4, StatusKept DEF Cancelled, AfterError
<1>5. CASE ChecksHang(t)
  BY <1>5, StatusKept DEF ChecksHang
<1> QED
  BY <1>1, <1>2, <1>3, <1>4, <1>5 DEF ThreadStep

\* of a process a stutter.
LEMMA ProcSimulates ==
  ASSUME NEW p \in Procs, ProcStep(p)
  PROVE  UNCHANGED status
BY StatusKept DEF ProcStep, Bind, Hang, Crash, Exit, Reap

LEMMA StepSimulates ==
  ASSUME Bookkeeping, [Next]_vars
  PROVE  [Lifecycle!Next]_status
BY ThreadSimulates, ProcSimulates, StatusKept DEF Next, vars

\* Seen through the worker map, the supervisor with its threads, processes,
\* sockets and channels is the life cycle of ModelLifecycle.
THEOREM Refinement == Spec => ImplementsLifecycle
<1>1. Init => Lifecycle!Init
  BY DEF Init, Lifecycle!Init, status
<1>2. IndInv /\ [Next]_vars => [Lifecycle!Next]_status
  BY StepSimulates DEF IndInv
<1> QED
  BY <1>1, <1>2, Supervision, PTL
  DEF Spec, ImplementsLifecycle, Lifecycle!Spec
=============================================================================
