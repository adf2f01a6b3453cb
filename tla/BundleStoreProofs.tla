------------------------- MODULE BundleStoreProofs -------------------------
(***************************************************************************)
(* Proofs about BundleStore, for any number of names, of sources, of       *)
(* handlers, of commits and of mishaps.  IndInv is inductive, and for      *)
(* orderly clients the safety properties follow from it, and that          *)
(* BundleStore implements ModelStore.                                      *)
(*                                                                         *)
(* Formed needs no discipline and is proved action by action.  Safe is     *)
(* proved from four facts about any step of a handler: how rows, workers   *)
(* and the handler itself move (RowsMove, WorkersMove, HandlerMoves) and   *)
(* that no directory in use loses anything (UsedStays).  Clean is proved   *)
(* from who owns a directory: of orderly installs and deletes, one at a    *)
(* time (OwnersApart).                                                     *)
(***************************************************************************)
EXTENDS BundleStore, TLAPS

-----------------------------------------------------------------------------
(* Formed: the steps that change nothing but a handler *)

\* A handler moves to a request that is formed.
LEMMA MoveFormed ==
  ASSUME Formed, NEW t \in Threads, NEW r \in Requests, RequestFormed(r),
         req' = [req EXCEPT ![t] = r]
  PROVE  req' \in [Threads -> Requests] /\ RequestsFormed'
BY DEF Formed, TypeOK, RequestsFormed

\* An answer leaves it idle, which is one.
LEMMA ReplyFormed ==
  ASSUME Formed, NEW t \in Threads, Reply(t)
  PROVE  req' \in [Threads -> Requests] /\ RequestsFormed'
<1>1. Idle \in Requests /\ RequestFormed(Idle)
  BY DEF Idle, Requests, Places, RequestFormed, Ops
<1> QED
  BY <1>1, MoveFormed DEF Reply

\* So it is with a step to the next place.
LEMMA GotoFormed ==
  ASSUME Formed, NEW t \in Threads, NEW p \in Places, Goto(t, p),
         RequestFormed([req[t] EXCEPT !.at = p])
  PROVE  req' \in [Threads -> Requests] /\ RequestsFormed'
<1> DEFINE r == [req[t] EXCEPT !.at = p]
<1>1. r \in Requests
  BY DEF Formed, TypeOK, Requests
<1>2. req' = [req EXCEPT ![t] = r]
  BY DEF Goto, Formed, TypeOK
<1> HIDE DEF r
<1>3. RequestFormed(r)
  BY DEF r
<1> QED
  BY <1>1, <1>2, <1>3, MoveFormed

\* Nothing else is touched.
LEMMA QuietFormed ==
  ASSUME Formed, NEW t \in Threads, UNCHANGED <<head, registry, disk, running, mishaps>>,
         req' \in [Threads -> Requests], RequestsFormed'
  PROVE  Formed'
BY DEF Formed, TypeOK, Owned, disk, HasCode

\* A new request starts at the first place of its operation.
LEMMA RequestKeepsFormed ==
  ASSUME Formed, NEW t \in Threads, NEW o \in Ops, NEW n \in Names, NEW s \in Sources \cup {None},
         Request(t, o, n, s)
  PROVE  Formed'
<1> DEFINE p == FirstPlace(o)
           r == [Idle EXCEPT !.op = o, !.at = p, !.name = n, !.src = s]
<1>0. /\ o = "install" => p = "resolve"
      /\ o \in {"delete", "unload"} => p = "unload"
      /\ o \in {"update", "pull", "load", "predict"} => p = "get"
  BY DEF FirstPlace
<1>4. req' = [req EXCEPT ![t] = r]
  BY DEF Request
<1> HIDE DEF p
<1>p. p \in {"resolve", "unload", "get"}
  BY <1>0 DEF Ops
<1>1. /\ r \in Requests
      /\ r.op = o /\ r.at = p /\ r.name = n /\ r.src = s /\ r.rev = 0 /\ r.added = FALSE
  BY <1>p DEF Idle, Requests, Places
<1> HIDE DEF r
<1>2. IF o = "install" THEN <<n, s>> \in Wants /\ s # None ELSE s = None
  BY NullAssumption, WantsAssumption DEF Request
<1>3. RequestFormed(r)
  BY <1>0, <1>p, <1>1, <1>2, NullAssumption DEF RequestFormed, Ops
<1>5. req' \in [Threads -> Requests] /\ RequestsFormed'
  BY <1>1, <1>3, <1>4 DEF Formed, TypeOK, RequestsFormed
<1> QED
  BY <1>5, QuietFormed DEF Request

\* Steps that only look: at the branch, at directories, at rows.
LEMMA QuietStepsKeepFormed ==
  ASSUME Formed, NEW t \in Threads,
         \/ Fails(t) \/ DigestFails(t) \/ Resolve(t) \/ Stat(t) \/ Checkout(t) \/ Check(t)
         \/ Get(t) \/ Reinstall(t) \/ Plan(t) \/ Validate(t) \/ Ask(t)
  PROVE  Formed'
<1>0. req[t] \in Requests /\ RequestFormed(req[t])
  BY DEF Formed, TypeOK, RequestsFormed
<1>1. CASE Fails(t) \/ DigestFails(t) \/ Ask(t)
  BY <1>1, ReplyFormed, QuietFormed DEF Fails, DigestFails, Ask
<1>2. CASE Resolve(t)
  <2> DEFINE r == [req[t] EXCEPT !.at = "stat", !.rev = head]
  <2>1. r \in Requests
    BY <1>0 DEF Requests, Places, Formed, TypeOK
  <2>2. RequestFormed(r)
    BY <1>0, <1>2 DEF Requests, RequestFormed, Resolve, Formed, TypeOK, Revs, At
  <2>3. req' = [req EXCEPT ![t] = r]
    BY <1>2 DEF Resolve
  <2> HIDE DEF r
  <2>4. req' \in [Threads -> Requests] /\ RequestsFormed'
    BY <2>1, <2>2, <2>3 DEF Formed, TypeOK, RequestsFormed
  <2> QED
    BY <1>2, <2>4, QuietFormed DEF Resolve
<1>3. CASE Stat(t) \/ Checkout(t) \/ Check(t) \/ Validate(t) \/ Plan(t)
  <2>1. Reply(t) \/ \E x \in Places : Goto(t, x) /\ RequestFormed([req[t] EXCEPT !.at = x])
    BY <1>0, <1>3 DEF Stat, Checkout, Check, Validate, Plan, Requests, RequestFormed, Places, At
  <2>2. req' \in [Threads -> Requests] /\ RequestsFormed'
    BY <2>1, ReplyFormed, GotoFormed
  <2> QED
    BY <1>3, <2>2, QuietFormed DEF Stat, Checkout, Check, Validate, Plan
<1>4. CASE Get(t) \/ Reinstall(t)
  <2> DEFINE e == registry[req[t].name]
             p == IF req[t].op = "delete" THEN "row" ELSE "plan"
             q == [req[t] EXCEPT !.src = e.src, !.rev = e.rev, !.at = p]
             i == [req[t] EXCEPT !.op = "install", !.at = "resolve", !.src = e.src]
  <2>0. /\ At(t, "get") /\ req[t].name \in Names
        /\ e # None => e \in Entries /\ <<req[t].name, e.src>> \in Wants
    BY <1>0, <1>4 DEF Get, Reinstall, At, Formed, TypeOK, Owned, Requests, RequestFormed
  <2>1. Get(t) /\ e # None => req' = [req EXCEPT ![t] = q]
    BY DEF Get, Formed, TypeOK
  <2>2. Reinstall(t) /\ e # None => req' = [req EXCEPT ![t] = i]
    BY DEF Reinstall, Formed, TypeOK
  <2>3. e = None => Reply(t) \/ (Goto(t, "row") /\ req[t].op = "delete")
    <3>1. CASE Get(t)
      BY <3>1 DEF Get
    <3>2. CASE Reinstall(t)
      BY <3>2 DEF Reinstall
    <3> QED
      BY <1>4, <3>1, <3>2
  <2>p. /\ req[t].op = "delete" => p = "row"
        /\ req[t].op # "delete" => p = "plan"
    OBVIOUS
  <2> HIDE DEF e, p
  <2>4. Get(t) /\ e # None => q \in Requests /\ RequestFormed(q)
    <3> SUFFICES ASSUME Get(t), e # None PROVE q \in Requests /\ RequestFormed(q)
      OBVIOUS
    <3>1. e.src \in Sources /\ e.src # None /\ e.rev \in Revs /\ e.rev # 0
      BY <2>0, NullAssumption DEF Entries, Revs
    <3>2. /\ q \in Requests
          /\ q.op = req[t].op /\ q.at = p /\ q.name = req[t].name
          /\ q.src = e.src /\ q.rev = e.rev /\ q.added = req[t].added
      BY <1>0, <2>p, <3>1 DEF Requests, Places
    <3>4. req[t].op \in {"delete", "pull", "load", "predict"} /\ ~req[t].added
      BY <1>0, <2>0 DEF Get, RequestFormed, Requests, At, Ops
    <3> QED
      BY <1>0, <2>0, <2>p, <3>1, <3>2, <3>4 DEF RequestFormed, At
  <2>5. Reinstall(t) /\ e # None => i \in Requests /\ RequestFormed(i)
    <3> SUFFICES ASSUME Reinstall(t), e # None PROVE i \in Requests /\ RequestFormed(i)
      OBVIOUS
    <3>1. e.src \in Sources /\ e.src # None
      BY <2>0, NullAssumption DEF Entries
    <3>2. /\ i \in Requests
          /\ i.op = "install" /\ i.at = "resolve" /\ i.name = req[t].name
          /\ i.src = e.src /\ i.rev = req[t].rev /\ i.added = req[t].added
      BY <1>0, <3>1 DEF Requests, Places, Ops
    <3> QED
      BY <1>0, <2>0, <3>1, <3>2 DEF RequestFormed, At
  <2> HIDE DEF q, i
  <2>6. req' \in [Threads -> Requests] /\ RequestsFormed'
    <3>1. req[t].op = "delete" => RequestFormed([req[t] EXCEPT !.at = "row"])
      BY <1>0, <2>0 DEF RequestFormed, Requests, At
    <3>2. "row" \in Places
      BY DEF Places
    <3> QED
      BY <1>4, <2>1, <2>2, <2>3, <2>4, <2>5, <3>1, <3>2, MoveFormed, ReplyFormed, GotoFormed
  <2> QED
    BY <1>4, <2>6, QuietFormed DEF Get, Reinstall
<1> QED
  BY <1>1, <1>2, <1>3, <1>4

-----------------------------------------------------------------------------
(* Formed: the steps that change directories, rows and workers *)

\* The directory of a call that knows its source and commit.
LEMMA DirOfCall ==
  ASSUME Formed, NEW t \in Threads, req[t].src # None, req[t].rev # 0
  PROVE  /\ DirOf(t) \in Dirs /\ req[t].name \in Names
         /\ req[t].src \in Sources /\ req[t].rev \in Revs
         /\ <<req[t].name, req[t].src>> \in Wants /\ Entry(t) \in Entries
<1>1. req[t] \in Requests /\ RequestFormed(req[t])
  BY DEF Formed, TypeOK, RequestsFormed
<1>2. req[t].src \in Sources /\ req[t].rev \in Revs /\ <<req[t].name, req[t].src>> \in Wants
  BY <1>1 DEF Requests, RequestFormed
<1> QED
  BY <1>2, WantsAssumption DEF DirOf, BundleDir, Dirs, Entry, Entries

\* The calls that have come that far.
LEMMA PlacedCall ==
  ASSUME Formed, NEW t \in Threads,
         \/ Filling(t) \/ Holding(t) \/ At(t, "stat") \/ At(t, "tidy") \/ At(t, "check")
         \/ At(t, "remove")
  PROVE  req[t].src # None /\ req[t].rev # 0
<1>1. req[t] \in Requests /\ RequestFormed(req[t])
  BY DEF Formed, TypeOK, RequestsFormed
<1> QED
  BY <1>1 DEF RequestFormed, Filling, Holding, Reading, At

\* What is left of a directory is what was there, or has no manifest.
LEMMA RemovedDir ==
  ASSUME Formed, NEW d \in Dirs, RemoveAll(d)
  PROVE  /\ dirs' \in [Dirs -> DirStates] /\ mishaps' \in 0..MaxMishaps
         /\ \A e \in Dirs : e # d => dirs'[e] = dirs[e]
         /\ HasCode(d)' => HasCode(d) /\ dirs'[d].from = dirs[d].from
         /\ mishaps' = 0 => mishaps = 0 /\ dirs'[d] = Absent
<1>1. dirs \in [Dirs -> DirStates] /\ mishaps \in Nat /\ mishaps \in 0..MaxMishaps
  BY RevAssumption DEF Formed, TypeOK
<1>2. CASE dirs' = [dirs EXCEPT ![d] = Absent] /\ UNCHANGED mishaps
  <2>1. Absent \in DirStates /\ Absent.code = "absent"
    BY DEF Absent, DirStates
  <2> QED
    BY <1>1, <1>2, <2>1 DEF HasCode
<1>3. CASE Mishap /\ \E r \in Remains(d) : dirs' = [dirs EXCEPT ![d] = r]
  <2>1. PICK r \in Remains(d) : dirs' = [dirs EXCEPT ![d] = r]
    BY <1>3
  <2>2. r \in DirStates /\ (r.code \in {"part", "full"} => HasCode(d) /\ r.from = dirs[d].from)
    BY <1>1, <2>1 DEF Remains, DirStates, HasCode
  <2>3. mishaps' # 0 /\ mishaps' \in 0..MaxMishaps
    BY <1>1, <1>3, RevAssumption DEF Mishap
  <2> QED
    BY <1>1, <2>1, <2>2, <2>3 DEF HasCode
<1> QED
  BY <1>2, <1>3 DEF RemoveAll

\* The steps of an install on its directory and worktree.
LEMMA FillingStepsKeepFormed ==
  ASSUME Formed, NEW t \in Threads,
         AddWorktree(t) \/ Copy(t) \/ CopyRest(t) \/ Tidy(t) \/ Undo(t)
  PROVE  Formed'
<1> DEFINE d == DirOf(t)
<1>0. req[t] \in Requests /\ RequestFormed(req[t])
  BY DEF Formed, TypeOK, RequestsFormed
<1>d. /\ d \in Dirs /\ req[t].src \in Sources /\ req[t].src # None /\ SegOf[req[t].src] = d[1]
      /\ dirs[d] \in DirStates
  <2>1. Filling(t) \/ At(t, "tidy")
    BY DEF AddWorktree, Copy, CopyRest, Tidy, Undo, Filling, At
  <2> QED
    BY <2>1, DirOfCall, PlacedCall DEF DirOf, BundleDir, Formed, TypeOK
<1>1. CASE AddWorktree(t)
  <2>1. req' \in [Threads -> Requests] /\ RequestsFormed'
    <3>1. CASE Goto(t, "undo")
      BY <1>0, <1>1, <3>1, GotoFormed DEF AddWorktree, At, RequestFormed, Requests, Places
    <3>2. CASE req' = [req EXCEPT ![t].at = "checkout", ![t].added = TRUE]
      <4> DEFINE r == [req[t] EXCEPT !.at = "checkout", !.added = TRUE]
      <4>1. r \in Requests /\ RequestFormed(r)
        BY <1>0, <1>1 DEF AddWorktree, At, RequestFormed, Requests, Places
      <4>2. req' = [req EXCEPT ![t] = r]
        BY <3>2
      <4> QED
        BY <4>1, <4>2, MoveFormed
    <3> QED
      BY <1>1, <3>1, <3>2 DEF AddWorktree
  <2>2. dirs' \in [Dirs -> DirStates] /\ worktree' \in [Dirs -> {"none", "live", "stale"}]
    BY <1>1, <1>d DEF AddWorktree, SetWorktree, Formed, TypeOK, DirStates
  <2>3. \A e \in Dirs : HasCode(e)' => HasCode(e) /\ dirs'[e].from = dirs[e].from
    BY <1>1, <1>d DEF AddWorktree, Formed, TypeOK, DirStates, HasCode
  <2> QED
    BY <1>1, <2>1, <2>2, <2>3 DEF AddWorktree, Formed, TypeOK, Owned
<1>2. CASE Copy(t) \/ CopyRest(t)
  <2>1. PICK c \in {"part", "full"}, x \in {"copyRest", "tidy"} :
           CopyTo(t, c, x) /\ At(t, IF c = "part" THEN "copy" ELSE "copyRest")
    BY <1>2 DEF Copy, CopyRest
  <2>2. req' \in [Threads -> Requests] /\ RequestsFormed'
    <3>1. \A y \in {"copyRest", "tidy", "undo"} :
            y \in Places /\ RequestFormed([req[t] EXCEPT !.at = y])
      BY <1>0, <2>1 DEF At, RequestFormed, Requests, Places
    <3> QED
      BY <2>1, <3>1, GotoFormed DEF CopyTo
  <2>3. dirs' \in [Dirs -> DirStates]
    BY <1>d, <2>1 DEF CopyTo, Formed, TypeOK, DirStates
  <2>4. \A e \in Dirs : HasCode(e)' => dirs'[e].from # None /\ SegOf[dirs'[e].from] = e[1]
    BY <1>d, <2>1 DEF CopyTo, Formed, TypeOK, DirStates, HasCode, Owned
  <2> QED
    BY <2>1, <2>2, <2>3, <2>4 DEF CopyTo, Formed, TypeOK, Owned
<1>3. CASE Tidy(t)
  <2>1. req' \in [Threads -> Requests] /\ RequestsFormed'
    BY <1>0, <1>3, GotoFormed DEF Tidy, At, RequestFormed, Requests, Places
  <2>2. worktree' \in [Dirs -> {"none", "live", "stale"}] /\ mishaps' \in 0..MaxMishaps
    BY <1>3, RevAssumption DEF Tidy, SetWorktree, Mishap, Formed, TypeOK
  <2> QED
    BY <1>3, <2>1, <2>2 DEF Tidy, Formed, TypeOK, Owned, HasCode
<1>4. CASE Undo(t)
  <2>1. req' \in [Threads -> Requests] /\ RequestsFormed'
    BY <1>4, ReplyFormed DEF Undo
  <2>2. worktree' \in [Dirs -> {"none", "live", "stale"}]
    BY <1>4, <1>d DEF Undo, Undone, SetWorktree, Formed, TypeOK
  <2>3. /\ dirs' \in [Dirs -> DirStates] /\ mishaps' \in 0..MaxMishaps
        /\ \A e \in Dirs : HasCode(e)' => HasCode(e) /\ dirs'[e].from = dirs[e].from
    <3>1. CASE RemoveAll(d)
      BY <1>d, <3>1, RemovedDir DEF HasCode
    <3>2. CASE Mishap /\ dirs' = [dirs EXCEPT ![d] = Absent]
      BY <1>d, <3>2, RevAssumption DEF Mishap, Absent, DirStates, HasCode, Formed, TypeOK
    <3> QED
      BY <1>4, <3>1, <3>2 DEF Undo
  <2> QED
    BY <1>4, <2>1, <2>2, <2>3 DEF Undo, Formed, TypeOK, Owned
<1> QED
  BY <1>1, <1>2, <1>3, <1>4

\* A load leaves the worker that is there, lists a new one of the revision
\* that it has read, or none.
WorkerOf(t, ready) == [src |-> req[t].src, rev |-> req[t].rev, ready |-> ready]

Started(t, w) ==
  /\ running' = [running EXCEPT ![req[t].name] = w]
  /\ \/ w = running[req[t].name]
     \/ /\ ~IsReady(req[t].name)
        /\ \/ w = None
           \/ /\ Loads(DirOf(t)) /\ HasAssets(DirOf(t))
              /\ \E ready \in BOOLEAN : w = WorkerOf(t, ready)

\* Every load does.
LEMMA StartMoves ==
  ASSUME Formed, NEW t \in Threads, Start(t)
  PROVE  \E w : Started(t, w)
<1>1. CASE IsReady(req[t].name)
  <2>1. running' = [running EXCEPT ![req[t].name] = running[req[t].name]]
    BY <1>1 DEF Start, Formed, TypeOK
  <2> QED
    BY <2>1 DEF Started
<1>2. CASE ~IsReady(req[t].name) /\ running' = [running EXCEPT ![req[t].name] = None]
  BY <1>2 DEF Started
<1>3. CASE /\ ~IsReady(req[t].name) /\ Loads(DirOf(t)) /\ HasAssets(DirOf(t))
           /\ \E ready \in BOOLEAN : running' = [running EXCEPT ![req[t].name] = WorkerOf(t, ready)]
  BY <1>3 DEF Started
<1> QED
  BY <1>1, <1>2, <1>3 DEF Start, NewWorker, WorkerOf

\* Rows and workers are written from what a call has read.
LEMMA OtherStepsKeepFormed ==
  ASSUME Formed, NEW t \in Threads,
         \/ Upsert(t) \/ Unload(t) \/ DeleteRow(t) \/ RemoveDir(t) \/ Fetch(t) \/ Start(t)
  PROVE  Formed'
<1>0. req[t] \in Requests /\ RequestFormed(req[t])
  BY DEF Formed, TypeOK, RequestsFormed
<1>n. req[t].name \in Names
  BY <1>0 DEF Requests, RequestFormed, Upsert, Unload, DeleteRow, RemoveDir, Fetch, Start, At
<1>1. CASE Upsert(t)
  <2>1. Entry(t) \in Entries /\ <<req[t].name, req[t].src>> \in Wants
    BY <1>1, DirOfCall, PlacedCall DEF Upsert, Holding
  <2>2. registry' = [registry EXCEPT ![req[t].name] = Entry(t)] /\ Entry(t).src = req[t].src
    BY <1>1 DEF Upsert, Entry
  <2>3. registry' \in [Names -> Entries \cup {None}]
    BY <2>1, <2>2 DEF Formed, TypeOK
  <2>4. \A n \in Names : registry'[n] # None => <<n, registry'[n].src>> \in Wants
    BY <1>n, <2>1, <2>2 DEF Formed, TypeOK, Owned
  <2>5. req' \in [Threads -> Requests] /\ RequestsFormed'
    BY <1>1, ReplyFormed DEF Upsert
  <2> QED
    BY <1>1, <2>3, <2>4, <2>5 DEF Upsert, disk, Formed, TypeOK, Owned, HasCode
<1>2. CASE Unload(t)
  <2>1. req' \in [Threads -> Requests] /\ RequestsFormed'
    BY <1>0, <1>2, ReplyFormed, GotoFormed DEF Unload, At, RequestFormed, Requests, Places
  <2>2. running' \in [Names -> Workers \cup {None}]
    BY <1>2 DEF Unload, Formed, TypeOK
  <2>3. \A n \in Names : running'[n] # None => <<n, running'[n].src>> \in Wants
    BY <1>2 DEF Unload, Formed, TypeOK, Owned
  <2> QED
    BY <1>2, <2>1, <2>2, <2>3 DEF Unload, disk, Formed, TypeOK, Owned, HasCode
<1>3. CASE DeleteRow(t)
  <2>1. req' \in [Threads -> Requests] /\ RequestsFormed'
    BY <1>0, <1>3, ReplyFormed, GotoFormed DEF DeleteRow, At, RequestFormed, Requests, Places
  <2>2. registry' \in [Names -> Entries \cup {None}]
    BY <1>3 DEF DeleteRow, Formed, TypeOK
  <2>3. \A n \in Names : registry'[n] # None => <<n, registry'[n].src>> \in Wants
    BY <1>3 DEF DeleteRow, Formed, TypeOK, Owned
  <2> QED
    BY <1>3, <2>1, <2>2, <2>3 DEF DeleteRow, disk, Formed, TypeOK, Owned, HasCode
<1>4. CASE RemoveDir(t)
  <2>1. req' \in [Threads -> Requests] /\ RequestsFormed'
    BY <1>4, ReplyFormed DEF RemoveDir
  <2>2. DirOf(t) \in Dirs
    BY <1>4, DirOfCall, PlacedCall DEF RemoveDir
  <2>3. /\ dirs' \in [Dirs -> DirStates] /\ mishaps' \in 0..MaxMishaps
        /\ \A e \in Dirs : HasCode(e)' => HasCode(e) /\ dirs'[e].from = dirs[e].from
    BY <1>4, <2>2, RemovedDir DEF RemoveDir, HasCode
  <2> QED
    BY <1>4, <2>1, <2>3 DEF RemoveDir, Formed, TypeOK, Owned
<1>5. CASE Fetch(t)
  <2>1. req' \in [Threads -> Requests] /\ RequestsFormed'
    BY <1>5, ReplyFormed DEF Fetch
  <2>2. DirOf(t) \in Dirs
    BY <1>5, DirOfCall, PlacedCall DEF Fetch, Holding, Reading, At
  <2>3. /\ dirs' \in [Dirs -> DirStates]
        /\ \A e \in Dirs : HasCode(e)' => HasCode(e) /\ dirs'[e].from = dirs[e].from
    <3> DEFINE d == DirOf(t)
    <3>1. dirs \in [Dirs -> DirStates] /\ dirs[d] \in DirStates
      BY <2>2 DEF Formed, TypeOK
    <3>2. PICK r : r = dirs'[d]
      OBVIOUS
    <3>3. dirs' = [dirs EXCEPT ![d] = r]
      BY <1>5, <2>2, <3>1, <3>2 DEF Fetch
    <3>4. r.assets = TRUE /\ r.from = dirs[d].from
          /\ r.code = (IF dirs[d].code = "absent" THEN "empty" ELSE dirs[d].code) /\ r \in DirStates
      BY <1>5, <2>2, <3>1, <3>2 DEF Fetch, DirStates
    <3> HIDE DEF d
    <3> QED
      BY <3>1, <3>3, <3>4 DEF HasCode
  <2> QED
    BY <1>5, <2>1, <2>3 DEF Fetch, Formed, TypeOK, Owned
<1>6. CASE Start(t)
  <2>1. PICK w : Started(t, w)
    BY <1>6, StartMoves
  <2>2. w # None => w \in Workers /\ <<req[t].name, w.src>> \in Wants
    <3>1. req[t].src \in Sources /\ req[t].rev \in Revs /\ <<req[t].name, req[t].src>> \in Wants
      BY <1>6, DirOfCall, PlacedCall DEF Start, Holding, Reading, At
    <3>2. \A b \in BOOLEAN : WorkerOf(t, b) \in Workers /\ WorkerOf(t, b).src = req[t].src
      BY <3>1 DEF WorkerOf, Workers
    <3>3. CASE w = running[req[t].name]
      BY <1>n, <3>3 DEF Formed, TypeOK, Owned
    <3>4. CASE \E b \in BOOLEAN : w = WorkerOf(t, b)
      BY <3>1, <3>2, <3>4
    <3> QED
      BY <2>1, <3>3, <3>4 DEF Started
  <2>3. running' \in [Names -> Workers \cup {None}]
    BY <2>1, <2>2 DEF Started, Formed, TypeOK
  <2>4. \A n \in Names : running'[n] # None => <<n, running'[n].src>> \in Wants
    BY <1>n, <2>1, <2>2 DEF Started, Formed, TypeOK, Owned
  <2>5. req' \in [Threads -> Requests] /\ RequestsFormed'
    BY <1>6, ReplyFormed DEF Start
  <2> QED
    BY <1>6, <2>3, <2>4, <2>5 DEF Start, disk, Formed, TypeOK, Owned, HasCode
<1> QED
  BY <1>1, <1>2, <1>3, <1>4, <1>5, <1>6

\* All steps, those of the environment too.
LEMMA NextKeepsFormed ==
  ASSUME Formed, Next
  PROVE  Formed'
<1>1. CASE Push
  <2>1. head' \in Revs
    BY <1>1, RevAssumption DEF Push, Formed, TypeOK, Revs
  <2> QED
    BY <1>1, <2>1 DEF Push, disk, Formed, TypeOK, RequestsFormed, Owned, HasCode
<1>2. CASE Crash
  <2>1. Idle \in Requests /\ RequestFormed(Idle)
    BY DEF Idle, Requests, Places, RequestFormed, Ops
  <2>2. req' \in [Threads -> Requests] /\ RequestsFormed'
    BY <1>2, <2>1 DEF Crash, RequestsFormed
  <2>3. mishaps' \in 0..MaxMishaps
    BY <1>2, RevAssumption DEF Crash, Mishap, Formed, TypeOK
  <2> QED
    BY <1>2, <2>2, <2>3 DEF Crash, disk, Formed, TypeOK, Owned, HasCode
<1>3. ASSUME NEW t \in Threads, Step(t)
      PROVE  Formed'
  BY <1>3, QuietStepsKeepFormed, FillingStepsKeepFormed, OtherStepsKeepFormed DEF Step
<1> QED
  BY <1>1, <1>2, <1>3, RequestKeepsFormed DEF Next

\* Initially there is nothing but idle handlers.
LEMMA InitFormed == Init => Formed
<1>1. Idle \in Requests /\ RequestFormed(Idle)
  BY DEF Idle, Requests, Places, RequestFormed, Ops
<1>2. Absent \in DirStates /\ Absent.code = "absent"
  BY DEF Absent, DirStates
<1> SUFFICES ASSUME Init PROVE Formed
  OBVIOUS
<1>3. TypeOK
  <2>1. head \in Revs /\ mishaps \in 0..MaxMishaps
    BY RevAssumption DEF Init, Revs
  <2>2. /\ registry \in [Names -> Entries \cup {None}] /\ running \in [Names -> Workers \cup {None}]
        /\ worktree \in [Dirs -> {"none", "live", "stale"}]
    BY DEF Init
  <2>3. dirs \in [Dirs -> DirStates] /\ req \in [Threads -> Requests]
    BY <1>1, <1>2 DEF Init
  <2> QED
    BY <2>1, <2>2, <2>3 DEF TypeOK
<1>4. RequestsFormed
  BY <1>1 DEF Init, RequestsFormed
<1>5. Owned
  BY <1>2 DEF Init, Owned, HasCode
<1> QED
  BY <1>3, <1>4, <1>5 DEF Formed

-----------------------------------------------------------------------------
(* What orderly use means for directories *)

\* A directory is of one source, and of one name.
LEMMA OwnDirs ==
  ASSUME Orderly, NEW e \in Entries \cup Workers, NEW f \in Entries \cup Workers,
         BundleDir(e) = BundleDir(f)
  PROVE  /\ e.src = f.src /\ e.rev = f.rev
         /\ \A n, m \in Names : <<n, e.src>> \in Wants /\ <<m, f.src>> \in Wants => n = m
<1>1. e.src = f.src /\ e.rev = f.rev
  BY DEF Orderly, BundleDir, Entries, Workers
<1>2. ASSUME NEW n \in Names, NEW m \in Names, <<n, e.src>> \in Wants, <<m, f.src>> \in Wants
      PROVE  n = m
  <2>1. <<n, e.src>>[2] = <<m, f.src>>[2] => <<n, e.src>>[1] = <<m, f.src>>[1]
    BY <1>2 DEF Orderly
  <2> QED
    BY <1>1, <2>1
<1> QED
  BY <1>1, <1>2

\* So what holds code holds that of the one who looks for it there.
LEMMA CodeIsOwn ==
  ASSUME Orderly, Formed, Formed', NEW e \in Entries \cup Workers
  PROVE  /\ BundleDir(e) \in Dirs
         /\ Loads(BundleDir(e)) => DirContains(e)
         /\ DirContains(e) <=> HasCode(BundleDir(e)) /\ <<e.src, e.rev>> \notin Broken
         /\ DirContains(e)' <=> HasCode(BundleDir(e))' /\ <<e.src, e.rev>> \notin Broken
<1> DEFINE d == BundleDir(e)
<1>1. d \in Dirs /\ d[1] = SegOf[e.src] /\ d[2] = e.rev
  BY DEF BundleDir, Dirs, Entries, Workers
<1>2. HasCode(d) => dirs[d].from = e.src
  <2>1. dirs[d].from \in Sources \cup {None}
    BY <1>1 DEF Formed, TypeOK, DirStates
  <2> QED
    BY <1>1, <2>1 DEF Formed, Owned, Orderly, Entries, Workers
<1>3. HasCode(d)' => dirs'[d].from = e.src
  <2>1. dirs'[d].from \in Sources \cup {None}
    BY <1>1 DEF Formed, TypeOK, DirStates
  <2> QED
    BY <1>1, <2>1 DEF Formed, Owned, Orderly, Entries, Workers
<1> QED
  BY <1>1, <1>2, <1>3 DEF DirContains, Loads, ValidManifest

\* Two calls that work on one directory are for one name.
LEMMA SameDirSameName ==
  ASSUME Orderly, Formed, NEW t \in Threads, NEW u \in Threads, DirOf(t) = DirOf(u),
         req[t].src # None, req[t].rev # 0, req[u].src # None, req[u].rev # 0
  PROVE  req[t].name = req[u].name /\ req[t].name # None
<1>1. /\ Entry(t) \in Entries /\ req[t].name \in Names /\ <<req[t].name, req[t].src>> \in Wants
      /\ Entry(u) \in Entries /\ req[u].name \in Names /\ <<req[u].name, req[u].src>> \in Wants
  BY DirOfCall
<1>2. BundleDir(Entry(t)) = BundleDir(Entry(u)) /\ Entry(t).src = req[t].src /\ Entry(u).src = req[u].src
  BY DEF DirOf, BundleDir, Entry
<1> QED
  BY <1>1, <1>2, OwnDirs, NullAssumption

-----------------------------------------------------------------------------
(* What a step of a handler does to rows, workers and itself *)

\* A row goes by its delete and comes by its install.
LEMMA RowsMove ==
  ASSUME Formed, NEW t \in Threads, Step(t), NEW n \in Names
  PROVE  \/ registry'[n] = registry[n]
         \/ n = req[t].name /\ At(t, "row") /\ registry'[n] = None
         \/ n = req[t].name /\ At(t, "upsert") /\ registry'[n] = Entry(t)
BY DEF Step, Fails, DigestFails, Resolve, Stat, AddWorktree, Checkout, Copy, CopyRest, CopyTo,
   Tidy, Undo, Check, Upsert, Unload, Get, Reinstall, DeleteRow, RemoveDir, Plan, Fetch, Start,
   Validate, Ask, Entry, Formed, TypeOK, At

\* A worker is stopped by an unload, and replaced by a load only if not ready.
LEMMA WorkersMove ==
  ASSUME Formed, NEW t \in Threads, Step(t), NEW n \in Names
  PROVE  \/ running'[n] = running[n] /\ (n = req[t].name => ~At(t, "unload"))
         \/ n = req[t].name /\ (At(t, "unload") \/ At(t, "start")) /\ running'[n] = None
         \/ /\ n = req[t].name /\ At(t, "start") /\ HasAssets(DirOf(t)) /\ Loads(DirOf(t))
            /\ \E ready \in BOOLEAN : running'[n] = WorkerOf(t, ready)
<1>1. CASE Start(t)
  <2>1. PICK w : Started(t, w)
    BY <1>1, StartMoves
  <2>2. At(t, "start") /\ ~At(t, "unload")
    BY <1>1 DEF Start, At
  <2> QED
    BY <2>1, <2>2 DEF Started, Formed, TypeOK
<1>2. CASE ~Start(t)
  BY <1>2 DEF Step, Fails, DigestFails, Resolve, Stat, AddWorktree, Checkout, Copy, CopyRest, CopyTo,
     Tidy, Undo, Check, Upsert, Unload, Get, Reinstall, DeleteRow, RemoveDir, Plan, Fetch, Validate,
     Ask, Formed, TypeOK, At
<1> QED
  BY <1>1, <1>2

\* A handler keeps to its call, and reaches a place that counts on a directory
\* or fills one only from the places that have looked at it.
HandlerMoved(t) ==
  /\ \A u \in Threads : u # t => req'[u] = req[u]
  /\ \/ req'[t] = Idle
     \/ /\ req'[t].name = req[t].name
        /\ \/ req'[t].op = req[t].op
           \/ req[t].op = "update" /\ req'[t].op = "install"
  /\ Filling(t)' => /\ Entry(t)' = Entry(t)
                    /\ Filling(t) \/ (At(t, "stat") /\ ~Exists(DirOf(t)))
  /\ Holding(t)' => \/ Holding(t) /\ Entry(t)' = Entry(t)
                    \/ /\ At(t, "check") /\ Entry(t)' = Entry(t)
                       /\ Loads(DirOf(t)) /\ UNCHANGED dirs
                    \/ /\ At(t, "get") /\ registry[req[t].name] # None
                       /\ Entry(t)' = registry[req[t].name]
  /\ Reading(t)' => Reading(t) \/ (At(t, "get") /\ registry[req[t].name] # None)
  /\ At(t, "unload")' => FALSE
  /\ At(t, "remove")' => At(t, "row") /\ registry'[req[t].name] = None

\* Every step of a handler does.
LEMMA HandlerMoves ==
  ASSUME Formed, NEW t \in Threads, Step(t)
  PROVE  HandlerMoved(t)
<1>0. req \in [Threads -> Requests]
  BY DEF Formed, TypeOK
<1>1. ASSUME Reply(t)
      PROVE  req'[t] = Idle /\ \A u \in Threads : u # t => req'[u] = req[u]
  BY <1>0, <1>1 DEF Reply
<1>2. ASSUME NEW p \in Places, Goto(t, p)
      PROVE  /\ \A u \in Threads : u # t => req'[u] = req[u]
             /\ req'[t].op = req[t].op /\ req'[t].name = req[t].name /\ req'[t].at = p
             /\ Entry(t)' = Entry(t)
  BY <1>0, <1>2 DEF Goto, Entry, Requests
<1>3. Idle.at = "idle"
  BY DEF Idle
<1> USE DEF At, Filling, Holding, Reading
<1>4. CASE Reply(t)
  BY <1>1, <1>3, <1>4 DEF HandlerMoved
<1>5. ASSUME NEW p \in Places, Goto(t, p),
             \/ p \in {"tidy", "check", "row", "get"}
             \/ p \in {"copy", "copyRest", "undo"} /\ Filling(t)
             \/ p = "add" /\ At(t, "stat") /\ ~Exists(DirOf(t))
             \/ p = "upsert" /\ At(t, "check") /\ Loads(DirOf(t)) /\ UNCHANGED dirs
             \/ p \in {"fetch", "start", "validate", "ask"} /\ Reading(t)
             \/ p = "remove" /\ At(t, "row") /\ registry'[req[t].name] = None
      PROVE  HandlerMoved(t)
  BY <1>2, <1>5 DEF HandlerMoved
<1>6. CASE \/ Fails(t) \/ DigestFails(t) \/ Ask(t) \/ Undo(t) \/ Upsert(t) \/ RemoveDir(t)
           \/ Fetch(t) \/ Start(t)
  BY <1>4, <1>6 DEF Fails, DigestFails, Ask, Undo, Upsert, RemoveDir, Fetch, Start
<1>7. CASE Checkout(t) \/ Copy(t) \/ CopyRest(t) \/ Tidy(t)
  BY <1>5, <1>7 DEF Checkout, Copy, CopyRest, CopyTo, Tidy, Places
<1>8. CASE Stat(t) \/ Check(t) \/ Unload(t) \/ Validate(t) \/ Plan(t)
  BY <1>4, <1>5, <1>8 DEF Stat, Check, Unload, Validate, Plan, Places, disk
<1>9. CASE DeleteRow(t)
  <2>1. req[t].name \in Names
    BY <1>9 DEF DeleteRow, Formed, TypeOK, RequestsFormed, RequestFormed, Requests
  <2>2. registry'[req[t].name] = None
    BY <1>9, <2>1 DEF DeleteRow, Formed, TypeOK
  <2> QED
    BY <1>4, <1>5, <1>9, <2>2 DEF DeleteRow, Places
<1>10. CASE Resolve(t) \/ AddWorktree(t)
  <2>1. CASE AddWorktree(t) /\ Goto(t, "undo")
    BY <1>5, <2>1 DEF AddWorktree, Places
  <2>2. CASE \/ req' = [req EXCEPT ![t].at = "stat", ![t].rev = head] /\ At(t, "resolve")
             \/ req' = [req EXCEPT ![t].at = "checkout", ![t].added = TRUE] /\ At(t, "add")
    BY <1>0, <2>2 DEF HandlerMoved, Requests, Entry
  <2> QED
    BY <1>10, <2>1, <2>2 DEF Resolve, AddWorktree
<1>11. CASE Get(t)
  <2>1. CASE registry[req[t].name] = None
    BY <1>4, <1>5, <1>11, <2>1 DEF Get, Places
  <2>2. CASE registry[req[t].name] # None
    <3> DEFINE e == registry[req[t].name]
    <3>1. req[t].name \in Names /\ e \in Entries
      BY <1>11, <2>2 DEF Get, Formed, TypeOK, RequestsFormed, RequestFormed, Requests
    <3>2. /\ \A u \in Threads : u # t => req'[u] = req[u]
          /\ req'[t].op = req[t].op /\ req'[t].name = req[t].name /\ req'[t].at \in {"row", "plan"}
          /\ req'[t].src = e.src /\ req'[t].rev = e.rev
      BY <1>0, <1>11, <2>2 DEF Get, Requests
    <3>3. Entry(t)' = e
      BY <3>1, <3>2 DEF Entry, Entries
    <3> QED
      BY <1>11, <2>2, <3>2, <3>3 DEF HandlerMoved, Get
  <2> QED
    BY <2>1, <2>2
<1>12. CASE Reinstall(t)
  <2>1. CASE registry[req[t].name] = None
    BY <1>4, <1>12, <2>1 DEF Reinstall
  <2>2. CASE registry[req[t].name] # None
    <3>1. /\ \A u \in Threads : u # t => req'[u] = req[u]
          /\ req'[t].op = "install" /\ req'[t].name = req[t].name /\ req'[t].at = "resolve"
      BY <1>0, <1>12, <2>2 DEF Reinstall, Requests
    <3> QED
      BY <1>12, <3>1 DEF HandlerMoved, Reinstall
  <2> QED
    BY <2>1, <2>2
<1> QED
  BY <1>6, <1>7, <1>8, <1>9, <1>10, <1>11, <1>12 DEF Step

-----------------------------------------------------------------------------
(* No step of a handler takes away what is in use *)

\* A delete removes a directory only once nobody counts on it.
LEMMA DeletedIsUnused ==
  ASSUME Orderly, Formed, Safe, NEW t \in Threads, At(t, "remove")
  PROVE  Unused(DirOf(t))
<1>1. /\ req[t].src # None /\ req[t].rev # 0 /\ req[t].op = "delete"
      /\ Entry(t) \in Entries /\ req[t].name \in Names /\ <<req[t].name, req[t].src>> \in Wants
      /\ DirOf(t) = BundleDir(Entry(t)) /\ Entry(t).src = req[t].src
  BY DirOfCall, PlacedCall
     DEF Formed, RequestsFormed, RequestFormed, At, DirOf, BundleDir, Entry
<1>2. registry[req[t].name] = None /\ running[req[t].name] = None
  BY <1>1 DEF Safe, DeleteInOrder, At
<1>3. ASSUME NEW n \in Names, registry[n] # None
      PROVE  BundleDir(registry[n]) # DirOf(t)
  <2>1. registry[n] \in Entries /\ <<n, registry[n].src>> \in Wants
    BY <1>3 DEF Formed, TypeOK, Owned
  <2> QED
    BY <1>1, <1>2, <1>3, <2>1, OwnDirs
<1>4. ASSUME NEW n \in Names, running[n] # None
      PROVE  BundleDir(running[n]) # DirOf(t)
  <2>1. running[n] \in Workers /\ <<n, running[n].src>> \in Wants
    BY <1>4 DEF Formed, TypeOK, Owned
  <2> QED
    BY <1>1, <1>2, <1>4, <2>1, OwnDirs
<1>5. ASSUME NEW u \in Threads, Holding(u)
      PROVE  DirOf(u) # DirOf(t)
  <2>1. req[u].src # None /\ req[u].rev # 0 /\ u # t
    BY <1>5, PlacedCall DEF Holding, Reading, At
  <2>2. req[u].name = req[t].name /\ req[t].name # None => Conflict(req[t].op, req[u].op)
    BY <1>1 DEF Conflict
  <2> QED
    BY <1>1, <2>1, <2>2, SameDirSameName DEF Safe, NoConflicts
<1> QED
  BY <1>3, <1>4, <1>5 DEF Unused

\* What somebody uses keeps its code and its assets.
LEMMA UsedStays ==
  ASSUME Orderly, Formed, Formed', Safe, NEW t \in Threads, Step(t),
         NEW e \in Entries \cup Workers, DirContains(e), ~Unused(BundleDir(e))
  PROVE  DirContains(e)' /\ (HasAssets(BundleDir(e)) => HasAssets(BundleDir(e))')
<1> DEFINE d == BundleDir(e)
<1>1. d \in Dirs /\ HasCode(d) /\ <<e.src, e.rev>> \notin Broken
  BY CodeIsOwn
<1>2. HasCode(d)' => DirContains(e)'
  BY <1>1, CodeIsOwn
<1> HIDE DEF d
<1>3. HasCode(d)' /\ (HasAssets(d) => HasAssets(d)')
  <2>1. CASE UNCHANGED dirs
    BY <1>1, <2>1 DEF HasCode, HasAssets
  <2>2. CASE AddWorktree(t) \/ Fetch(t) \/ Copy(t) \/ CopyRest(t)
    BY <1>1, <2>2
       DEF AddWorktree, Fetch, Copy, CopyRest, CopyTo, HasCode, HasAssets, Formed, TypeOK, DirStates
  <2>3. CASE Undo(t)
    <3>1. DirOf(t) # d /\ DirOf(t) \in Dirs
      BY <2>3, DirOfCall, PlacedCall DEF d, Undo, Safe, FilledIsUnused, Filling, At
    <3>2. dirs'[d] = dirs[d]
      BY <1>1, <2>3, <3>1, RemovedDir DEF Undo, Formed, TypeOK
    <3> QED
      BY <1>1, <3>2 DEF HasCode, HasAssets
  <2>4. CASE RemoveDir(t)
    <3>1. DirOf(t) # d /\ DirOf(t) \in Dirs
      BY <2>4, DeletedIsUnused, DirOfCall, PlacedCall DEF d, RemoveDir
    <3>2. dirs'[d] = dirs[d]
      BY <1>1, <2>4, <3>1, RemovedDir DEF RemoveDir
    <3> QED
      BY <1>1, <3>2 DEF HasCode, HasAssets
  <2> QED
    BY <2>1, <2>2, <2>3, <2>4 DEF Step, disk, Fails, DigestFails, Resolve, Stat, Checkout, Tidy, Check,
       Upsert, Unload, Get, Reinstall, DeleteRow, Plan, Start, Validate, Ask
<1> QED
  BY <1>2, <1>3 DEF d

-----------------------------------------------------------------------------
(* Safe *)

\* Conflicts can only come with a new request: an update excludes what its
\* install will.
LEMMA NoConflictsKept ==
  ASSUME Formed, Safe, NEW t \in Threads, Step(t)
  PROVE  NoConflicts'
<1>1. HandlerMoved(t)
  BY HandlerMoves
<1>2. Idle.name = None
  BY DEF Idle
<1> QED
  BY <1>1, <1>2 DEF HandlerMoved, Safe, NoConflicts, Conflict

\* A row, a worker or a call that counts on a directory makes it used.
LEMMA InUse ==
  ASSUME Formed
  PROVE  /\ \A n \in Names : registry[n] # None =>
              /\ registry[n] \in Entries /\ <<n, registry[n].src>> \in Wants
              /\ ~Unused(BundleDir(registry[n]))
         /\ \A n \in Names : running[n] # None =>
              /\ running[n] \in Workers /\ <<n, running[n].src>> \in Wants
              /\ ~Unused(BundleDir(running[n]))
         /\ \A u \in Threads : Holding(u) =>
              /\ Entry(u) \in Entries /\ Entry(u) # None /\ BundleDir(Entry(u)) = DirOf(u)
              /\ req[u].name \in Names /\ ~Unused(BundleDir(Entry(u)))
<1>1. ASSUME NEW n \in Names, registry[n] # None
      PROVE  /\ registry[n] \in Entries /\ <<n, registry[n].src>> \in Wants
             /\ ~Unused(BundleDir(registry[n]))
  BY <1>1 DEF Formed, TypeOK, Owned, Unused
<1>2. ASSUME NEW n \in Names, running[n] # None
      PROVE  /\ running[n] \in Workers /\ <<n, running[n].src>> \in Wants
             /\ ~Unused(BundleDir(running[n]))
  BY <1>2 DEF Formed, TypeOK, Owned, Unused
<1>3. ASSUME NEW u \in Threads, Holding(u)
      PROVE  /\ Entry(u) \in Entries /\ Entry(u) # None /\ BundleDir(Entry(u)) = DirOf(u)
             /\ req[u].name \in Names /\ ~Unused(BundleDir(Entry(u)))
  <2>1. Entry(u) \in Entries /\ req[u].name \in Names
    BY <1>3, DirOfCall, PlacedCall
  <2>2. BundleDir(Entry(u)) = DirOf(u)
    BY DEF BundleDir, Entry, DirOf
  <2>3. Entry(u) # None
    BY <2>1, NullAssumption DEF Entries
  <2> QED
    BY <1>3, <2>1, <2>2, <2>3 DEF Unused
<1> QED
  BY <1>1, <1>2, <1>3

\* An install's row is of what its check has loaded.
LEMMA RowsStayThere ==
  ASSUME Orderly, Formed, Formed', Safe, NEW t \in Threads, Step(t),
         NEW n \in Names, registry'[n] # None
  PROVE  DirContains(registry[n])'
<1>1. PICK e \in Entries : e = registry'[n]
  BY DEF Formed, TypeOK
<1>2. DirContains(e) /\ ~Unused(BundleDir(e))
  <2>1. CASE e = registry[n]
    BY <1>1, <2>1, InUse DEF Safe, UsedIsThere
  <2>2. CASE At(t, "upsert") /\ e = Entry(t)
    BY <2>2, InUse DEF Holding, Safe, UsedIsThere
  <2> QED
    BY <1>1, <2>1, <2>2, RowsMove
<1>3. DirContains(e)'
  BY <1>2, UsedStays
<1> QED
  BY <1>1, <1>3 DEF DirContains, Loads, HasCode, ValidManifest, BundleDir

\* A call counts on what it has loaded itself, or on what a row counts on.
LEMMA CallsStayThere ==
  ASSUME Orderly, Formed, Formed', Safe, NEW t \in Threads, Step(t),
         NEW u \in Threads, Holding(u)'
  PROVE  DirContains(Entry(u))'
<1>0. HandlerMoved(t)
  BY HandlerMoves
<1>1. PICK e : e = Entry(u)'
  OBVIOUS
<1>2. e \in Entries /\ DirContains(e)'
  <2>1. CASE Holding(u) /\ e = Entry(u)
    <3>1. e \in Entries /\ DirContains(e) /\ ~Unused(BundleDir(e))
      BY <2>1, InUse DEF Safe, UsedIsThere
    <3> QED
      BY <3>1, UsedStays
  <2>2. CASE At(t, "check") /\ e = Entry(t) /\ Loads(DirOf(t)) /\ UNCHANGED dirs
    <3>1. e \in Entries /\ BundleDir(e) = DirOf(t)
      BY <2>2, DirOfCall, PlacedCall DEF BundleDir, DirOf, Entry
    <3>2. HasCode(BundleDir(e))' /\ <<e.src, e.rev>> \notin Broken
      BY <2>2, <3>1, CodeIsOwn DEF HasCode
    <3> QED
      BY <3>1, <3>2, CodeIsOwn
  <2>3. CASE At(t, "get") /\ registry[req[t].name] # None /\ e = registry[req[t].name]
    <3>1. req[t].name \in Names
      BY <2>3 DEF At, Formed, TypeOK, RequestsFormed, RequestFormed, Requests
    <3>2. e \in Entries /\ DirContains(e) /\ ~Unused(BundleDir(e))
      BY <2>3, <3>1, InUse DEF Safe, UsedIsThere
    <3> QED
      BY <3>2, UsedStays
  <2>4. u # t => Holding(u) /\ e = Entry(u)
    BY <1>0, <1>1 DEF HandlerMoved, Holding, Reading, At, Entry
  <2> QED
    BY <1>0, <1>1, <2>1, <2>2, <2>3, <2>4 DEF HandlerMoved
<1> QED
  BY <1>1, <1>2 DEF DirContains, Loads, HasCode, ValidManifest, BundleDir

\* Nobody deletes the row of a name beside a call that counts on it.
LEMMA ReadersKeepRows ==
  ASSUME Orderly, Formed, Safe, NEW t \in Threads, Step(t), NEW u \in Threads, Reading(u)'
  PROVE  registry'[req'[u].name] # None
<1>0. HandlerMoved(t)
  BY HandlerMoves
<1> DEFINE n == req'[u].name
<1>1. n = req[u].name /\ n \in Names /\ registry[n] # None /\ (u = t => ~At(t, "row") /\ ~At(t, "upsert"))
  <2>1. CASE u = t
    <3>1. Reading(t) \/ (At(t, "get") /\ registry[req[t].name] # None)
      BY <1>0, <2>1 DEF HandlerMoved
    <3>2. req[t].name \in Names
      BY <3>1 DEF At, Reading, Formed, TypeOK, RequestsFormed, RequestFormed, Requests
    <3>3. n = req[t].name
      BY <1>0, <2>1 DEF HandlerMoved, Reading, At, Idle
    <3> QED
      BY <2>1, <3>1, <3>2, <3>3 DEF Safe, UsedIsThere, Reading, At
  <2>2. CASE u # t
    <3>1. Reading(u) /\ n = req[u].name
      BY <1>0, <2>2 DEF HandlerMoved, Reading, At
    <3> QED
      BY <2>2, <3>1, InUse DEF Safe, UsedIsThere, Holding
  <2> QED
    BY <2>1, <2>2
<1>2. u # t => ~(n = req[t].name /\ At(t, "row"))
  <2> SUFFICES ASSUME u # t, n = req[t].name, At(t, "row") PROVE FALSE
    OBVIOUS
  <2>1. req[t].op = "delete"
    BY DEF At, Formed, RequestsFormed, RequestFormed
  <2> QED
    BY <1>1, <2>1, NullAssumption DEF Safe, NoConflicts, Conflict
<1>3. n = req[t].name /\ At(t, "upsert") => Entry(t) # None
  BY InUse DEF Holding
<1> QED
  BY <1>1, <1>2, <1>3, RowsMove

\* The three together.
LEMMA UsedIsThereKept ==
  ASSUME Orderly, Formed, Formed', Safe, NEW t \in Threads, Step(t)
  PROVE  UsedIsThere'
BY RowsStayThere, CallsStayThere, ReadersKeepRows DEF UsedIsThere

\* An install starts to fill a directory that is not there, hence not used,
\* and nobody can come to use it before the install is over.
LEMMA FilledStaysUnused ==
  ASSUME Orderly, Formed, Formed', Safe, NEW t \in Threads, Step(t), NEW u \in Threads, Filling(u)'
  PROVE  Unused(DirOf(u))'
<1>0. HandlerMoved(t)
  BY HandlerMoves
<1> DEFINE D == DirOf(u)
<1>1. Entry(u)' = Entry(u) /\ DirOf(u)' = D /\ (Filling(u) \/ (u = t /\ At(t, "stat") /\ ~Exists(D)))
  <2>1. Entry(u)' = Entry(u) /\ (Filling(u) \/ (u = t /\ At(t, "stat") /\ ~Exists(D)))
    BY <1>0 DEF HandlerMoved, Filling, At, Entry
  <2>2. /\ DirOf(u) = <<SegOf[Entry(u).src], Entry(u).rev>>
        /\ DirOf(u)' = <<SegOf[Entry(u)'.src], Entry(u)'.rev>>
    BY DEF DirOf, BundleDir, Entry
  <2> QED
    BY <2>1, <2>2
<1>2. Unused(D)
  <2>1. CASE Filling(u)
    BY <2>1 DEF Safe, FilledIsUnused
  <2>2. CASE ~Exists(D)
    <3>1. \A e \in Entries \cup Workers : DirContains(e) => BundleDir(e) # D
      BY <2>2 DEF DirContains, Loads, HasCode, Exists
    <3> QED
      BY <3>1, InUse DEF Unused, Safe, UsedIsThere, RunningHasBundle
  <2> QED
    BY <1>1, <2>1, <2>2
<1>3. ~Holding(u) /\ req[u].op = "install" /\ req[u].src # None /\ req[u].rev # 0
  BY <1>1, PlacedCall DEF Filling, Holding, Reading, At, Formed, RequestsFormed, RequestFormed
<1> HIDE DEF D
<1>4. ASSUME NEW n \in Names, registry'[n] # None
      PROVE  BundleDir(registry'[n]) # D
  BY <1>2, <1>4, RowsMove, InUse DEF Unused, Holding
<1>5. ASSUME NEW n \in Names, running'[n] # None
      PROVE  BundleDir(running'[n]) # D
  <2>1. CASE running'[n] = running[n]
    BY <1>2, <1>5, <2>1 DEF Unused
  <2>2. CASE At(t, "start") /\ \E ready \in BOOLEAN : running'[n] = WorkerOf(t, ready)
    <3>1. Holding(t) /\ BundleDir(running'[n]) = DirOf(t)
      BY <2>2 DEF Holding, Reading, At, WorkerOf, BundleDir, DirOf
    <3> QED
      BY <1>2, <3>1 DEF Unused
  <2> QED
    BY <1>5, <2>1, <2>2, WorkersMove
<1>6. ASSUME NEW v \in Threads, Holding(v)'
      PROVE  BundleDir(Entry(v)') # D
  <2>1. CASE Holding(v) /\ Entry(v)' = Entry(v)
    BY <1>2, <2>1, InUse DEF Unused
  <2>2. CASE v = t /\ At(t, "check") /\ Entry(t)' = Entry(t)
    <3>1. req[t].op = "install" /\ req[t].src # None /\ req[t].rev # 0 /\ u # t
      BY <1>1, <2>2, PlacedCall DEF Filling, At, Formed, RequestsFormed, RequestFormed
    <3>2. DirOf(t) # DirOf(u)
      BY <1>3, <3>1, SameDirSameName DEF Safe, NoConflicts, Conflict
    <3> QED
      BY <2>2, <3>2 DEF D, DirOf, BundleDir, Entry
  <2>3. CASE v = t /\ At(t, "get") /\ registry[req[t].name] # None /\ Entry(t)' = registry[req[t].name]
    <3>1. req[t].name \in Names
      BY <2>3 DEF At, Formed, TypeOK, RequestsFormed, RequestFormed, Requests
    <3> QED
      BY <1>2, <2>3, <3>1 DEF Unused
  <2>4. v # t => Holding(v) /\ Entry(v)' = Entry(v)
    BY <1>0, <1>6 DEF HandlerMoved, Holding, Reading, At, Entry
  <2> QED
    BY <1>0, <1>6, <2>1, <2>2, <2>3, <2>4 DEF HandlerMoved
<1>7. ASSUME NEW v \in Threads, Holding(v)'
      PROVE  DirOf(v)' # D
  <2>1. BundleDir(Entry(v)') # D
    BY <1>6, <1>7
  <2>2. Entry(v)'.src = req'[v].src /\ Entry(v)'.rev = req'[v].rev
    BY DEF Entry
  <2> QED
    BY <2>1, <2>2 DEF BundleDir, DirOf
<1> QED
  BY <1>1, <1>4, <1>5, <1>7 DEF Unused, BundleDir

\* No start of a worker and no install crosses a delete of the name.
LEMMA DeleteInOrderKept ==
  ASSUME Formed, Safe, NEW t \in Threads, Step(t)
  PROVE  DeleteInOrder'
<1>0. HandlerMoved(t)
  BY HandlerMoves
<1>1. \A u \in Threads : req[u].op = "delete" => req[u].name \in Names /\ req[u].name # None
  <2> SUFFICES ASSUME NEW u \in Threads, req[u].op = "delete"
               PROVE  req[u].name \in Names /\ req[u].name # None
    OBVIOUS
  <2>1. Idle.op = "none"
    BY DEF Idle
  <2>2. req[u].at # "idle"
    BY <2>1 DEF Formed, RequestsFormed, RequestFormed
  <2> QED
    BY <2>2 DEF Formed, TypeOK, RequestsFormed, RequestFormed, Requests
<1>2. \A u \in Threads : req'[u].op = "delete" => req[u].op = "delete" /\ req'[u].name = req[u].name
  BY <1>0 DEF HandlerMoved, Idle
<1>3. ASSUME NEW u \in Threads, u # t, req[u].op = "delete"
      PROVE  req[u].name = req[t].name => ~Conflict("delete", req[t].op)
  BY <1>1, <1>3 DEF Safe, NoConflicts
<1>4. ASSUME NEW u \in Threads, req'[u].op = "delete", ~At(u, "unload")'
      PROVE  running'[req'[u].name] = None
  <2>1. CASE u = t /\ At(t, "unload")
    BY <1>1, <1>2, <1>4, <2>1, WorkersMove DEF At
  <2>2. CASE u = t /\ ~At(t, "unload")
    <3>1. ~At(t, "start") /\ running[req[t].name] = None
      BY <1>2, <1>4, <2>2 DEF At, Formed, RequestsFormed, RequestFormed, Safe, DeleteInOrder
    <3> QED
      BY <1>1, <1>2, <1>4, <2>2, <3>1, WorkersMove
  <2>3. CASE u # t
    <3>1. running[req[u].name] = None
      BY <1>0, <1>2, <1>4, <2>3 DEF HandlerMoved, At, Safe, DeleteInOrder
    <3>2. req[u].name # req[t].name
      BY <1>2, <1>3, <1>4, <2>3 DEF Conflict
    <3> QED
      BY <1>1, <1>2, <1>4, <3>1, <3>2, WorkersMove
  <2> QED
    BY <2>1, <2>2, <2>3
<1>5. ASSUME NEW u \in Threads, At(u, "remove")'
      PROVE  registry'[req'[u].name] = None
  <2>0. req'[u].op = "delete"
    <3>1. u = t => req[t].op = "delete" /\ req'[t].op = req[t].op
      <4>1. u = t => At(t, "row") /\ req'[t] # Idle
        BY <1>0, <1>5 DEF HandlerMoved, At, Idle
      <4>2. u = t => req[t].op = "delete"
        BY <4>1 DEF At, Formed, RequestsFormed, RequestFormed
      <4> QED
        BY <1>0, <4>1, <4>2 DEF HandlerMoved
    <3>2. u # t => At(u, "remove") /\ req'[u] = req[u]
      BY <1>0, <1>5 DEF HandlerMoved, At
    <3> QED
      BY <3>1, <3>2 DEF At, Formed, RequestsFormed, RequestFormed
  <2>1. CASE u = t
    BY <1>0, <1>2, <1>5, <2>0, <2>1 DEF HandlerMoved
  <2>2. CASE u # t
    <3>1. registry[req[u].name] = None
      BY <1>0, <1>5, <2>2 DEF HandlerMoved, At, Safe, DeleteInOrder
    <3>2. req[u].name # req[t].name
      BY <1>2, <1>3, <2>0, <2>2 DEF Conflict
    <3> QED
      BY <1>1, <1>2, <2>0, <3>1, <3>2, RowsMove
  <2> QED
    BY <2>1, <2>2
<1> QED
  BY <1>4, <1>5 DEF DeleteInOrder

\* A worker starts in a directory that its row vouches for, and a delete that
\* takes the row away has stopped it.
LEMMA RunningKept ==
  ASSUME Orderly, Formed, Formed', Safe, NEW t \in Threads, Step(t)
  PROVE  RunningHasBundle'
<1> SUFFICES ASSUME NEW n \in Names, running'[n] # None
             PROVE  registry'[n] # None /\ DirContains(running[n])' /\ HasAssets(BundleDir(running[n]))'
  BY DEF RunningHasBundle
<1>1. PICK e \in Workers : e = running'[n]
  BY DEF Formed, TypeOK
<1>2. /\ DirContains(e) /\ HasAssets(BundleDir(e)) /\ ~Unused(BundleDir(e))
      /\ registry[n] # None /\ (n = req[t].name => ~At(t, "row"))
  <2>1. CASE running'[n] = running[n]
    <3>1. n = req[t].name /\ At(t, "row") => running[n] = None
      BY DEF At, Formed, RequestsFormed, RequestFormed, Safe, DeleteInOrder
    <3> QED
      BY <1>1, <2>1, <3>1, InUse DEF Safe, RunningHasBundle
  <2>2. CASE /\ n = req[t].name /\ At(t, "start") /\ HasAssets(DirOf(t))
             /\ \E ready \in BOOLEAN : running'[n] = WorkerOf(t, ready)
    <3>1. Reading(t) /\ Holding(t) /\ ~At(t, "row")
      BY <2>2 DEF Holding, Reading, At
    <3>2. /\ e.src = Entry(t).src /\ e.rev = Entry(t).rev
          /\ BundleDir(e) = DirOf(t) /\ BundleDir(Entry(t)) = DirOf(t)
      BY <1>1, <2>2 DEF WorkerOf, Entry, BundleDir, DirOf
    <3>3. DirContains(Entry(t)) /\ ~Unused(DirOf(t)) /\ registry[n] # None
      BY <2>2, <3>1, <3>2, InUse DEF Safe, UsedIsThere
    <3>4. DirContains(e)
      BY <3>2, <3>3 DEF DirContains
    <3> QED
      BY <2>2, <3>1, <3>2, <3>3, <3>4
  <2> QED
    BY <2>1, <2>2, WorkersMove
<1>3. DirContains(e)' /\ HasAssets(BundleDir(e))'
  BY <1>2, UsedStays
<1>4. registry'[n] # None
  BY <1>2, RowsMove, InUse DEF Holding
<1> QED
  BY <1>1, <1>3, <1>4 DEF DirContains, Loads, HasCode, ValidManifest, BundleDir, HasAssets

\* So the steps of handlers are safe.
LEMMA StepKeepsSafe ==
  ASSUME Orderly, Formed, Formed', Safe, NEW t \in Threads, Step(t)
  PROVE  Safe'
<1>1. FilledIsUnused'
  BY FilledStaysUnused DEF FilledIsUnused
<1> QED
  BY <1>1, NoConflictsKept, UsedIsThereKept, DeleteInOrderKept, RunningKept DEF Safe

\* A new request has looked at nothing yet, and conflicts with no other.
LEMMA RequestMoves ==
  ASSUME Formed, NEW t \in Threads, NEW o \in Ops, NEW n \in Names, NEW s \in Sources \cup {None},
         Request(t, o, n, s)
  PROVE  /\ \A u \in Threads : u # t => req'[u] = req[u]
         /\ req'[t].op = o /\ req'[t].name = n /\ req'[t].rev = 0
         /\ req'[t].at \in {"resolve", "unload", "get"}
         /\ o = "delete" => req'[t].at = "unload"
         /\ req[t] = Idle /\ UNCHANGED <<registry, dirs, worktree, running, mishaps>>
<1>1. /\ FirstPlace(o) \in {"resolve", "unload", "get"}
      /\ o = "delete" => FirstPlace(o) = "unload"
  BY DEF FirstPlace, Ops
<1>2. req[t] = Idle
  BY DEF Request, At, Formed, RequestsFormed, RequestFormed
<1> QED
  BY <1>1, <1>2 DEF Request, Idle, disk, Formed, TypeOK

\* A new request counts on nothing yet.
LEMMA RequestKeepsSafe ==
  ASSUME Orderly, Formed, Safe, NEW t \in Threads, NEW o \in Ops, NEW n \in Names,
         NEW s \in Sources \cup {None}, Request(t, o, n, s)
  PROVE  Safe'
<1>0. /\ \A u \in Threads : u # t => req'[u] = req[u]
      /\ req'[t].op = o /\ req'[t].name = n /\ req'[t].at \in {"resolve", "unload", "get"}
      /\ o = "delete" => req'[t].at = "unload"
      /\ UNCHANGED <<registry, dirs, running>>
  BY RequestMoves
<1>1. \A u \in Threads : Holding(u)' \/ Filling(u)' => u # t
  BY <1>0 DEF Holding, Reading, Filling, At
<1>2. \A u \in Threads : u # t => /\ Holding(u)' = Holding(u) /\ Filling(u)' = Filling(u)
                                   /\ Reading(u)' = Reading(u) /\ Entry(u)' = Entry(u)
                                   /\ DirOf(u)' = DirOf(u)
  BY <1>0 DEF Holding, Reading, Filling, At, Entry, DirOf, BundleDir
<1>3. NoConflicts'
  <2>1. \A u \in Threads : req[u].name = n => ~Conflict(o, req[u].op)
    BY DEF Request, Orderly
  <2> QED
    BY <1>0, <2>1 DEF Safe, NoConflicts, Conflict
<1>4. UsedIsThere'
  <2>1. ASSUME NEW u \in Threads, Holding(u)'
        PROVE  DirContains(Entry(u))'
    <3>1. DirContains(Entry(u)) /\ Entry(u)' = Entry(u)
      BY <1>1, <1>2, <2>1 DEF Safe, UsedIsThere
    <3> QED
      BY <1>0, <3>1 DEF DirContains, Loads, HasCode, ValidManifest, BundleDir
  <2>2. ASSUME NEW u \in Threads, Reading(u)'
        PROVE  registry'[req'[u].name] # None
    BY <1>0, <1>1, <1>2, <2>2 DEF Safe, UsedIsThere, Holding
  <2>3. \A m \in Names : registry'[m] # None => DirContains(registry[m])'
    BY <1>0 DEF Safe, UsedIsThere, DirContains, Loads, HasCode, ValidManifest, BundleDir
  <2> QED
    BY <2>1, <2>2, <2>3 DEF UsedIsThere
<1>5. FilledIsUnused'
  <2> SUFFICES ASSUME NEW u \in Threads, Filling(u)'
               PROVE  Unused(DirOf(u))'
    BY DEF FilledIsUnused
  <2>1. Unused(DirOf(u)) /\ DirOf(u)' = DirOf(u)
    BY <1>1, <1>2 DEF Safe, FilledIsUnused
  <2> QED
    BY <1>0, <1>1, <1>2, <2>1 DEF Unused, BundleDir
<1>6. DeleteInOrder'
  BY <1>0 DEF Safe, DeleteInOrder, At
<1>7. RunningHasBundle'
  BY <1>0 DEF Safe, RunningHasBundle, DirContains, Loads, HasCode, ValidManifest, HasAssets, BundleDir
<1> QED
  BY <1>3, <1>4, <1>5, <1>6, <1>7 DEF Safe

\* Safe does not depend on the branch, the worktrees or the mishaps.
LEMMA PushKeepsSafe ==
  ASSUME Safe, UNCHANGED <<registry, dirs, running, req>>
  PROVE  Safe'
<1>1. NoConflicts' /\ DeleteInOrder'
  BY DEF Safe, NoConflicts, DeleteInOrder, At
<1>2. UsedIsThere'
  BY DEF Safe, UsedIsThere, DirContains, Loads, HasCode, ValidManifest, BundleDir, Entry, Holding, Reading, At
<1>3. FilledIsUnused'
  BY DEF Safe, FilledIsUnused, Unused, BundleDir, DirOf, Filling, Holding, Reading, At
<1>4. RunningHasBundle'
  BY DEF Safe, RunningHasBundle, DirContains, Loads, HasCode, ValidManifest, HasAssets, BundleDir
<1> QED
  BY <1>1, <1>2, <1>3, <1>4 DEF Safe

\* Rows and files survive a crash, calls and workers do not.
LEMMA CrashKeepsSafe ==
  ASSUME Formed, Safe, Crash
  PROVE  Safe'
<1>0. Idle.at = "idle" /\ Idle.op = "none" /\ Idle.name = None
  BY DEF Idle
<1>1. /\ \A u \in Threads : ~Holding(u)' /\ ~Filling(u)' /\ ~Reading(u)'
      /\ \A n \in Names : running'[n] = None
      /\ UNCHANGED <<registry, dirs>>
  BY <1>0 DEF Crash, disk, Holding, Filling, Reading, At
<1>2. NoConflicts' /\ DeleteInOrder'
  BY <1>0 DEF Crash, NoConflicts, DeleteInOrder, At
<1>3. UsedIsThere'
  BY <1>1 DEF Safe, UsedIsThere, DirContains, Loads, HasCode, ValidManifest, BundleDir
<1> QED
  BY <1>1, <1>2, <1>3 DEF Safe, FilledIsUnused, RunningHasBundle

\* All steps.
LEMMA NextKeepsSafe ==
  ASSUME Orderly, Formed, Formed', Safe, Next
  PROVE  Safe'
<1>1. CASE Push
  BY <1>1, PushKeepsSafe DEF Push, disk
<1>2. CASE Crash
  BY <1>2, CrashKeepsSafe
<1> QED
  BY <1>1, <1>2, RequestKeepsSafe, StepKeepsSafe DEF Next

\* Initially nothing is used.
LEMMA InitSafe == Init => Safe
<1>1. Idle.at = "idle" /\ Idle.op = "none" /\ Idle.name = None
  BY DEF Idle
<1> QED
  BY <1>1 DEF Init, Safe, NoConflicts, UsedIsThere, FilledIsUnused, DeleteInOrder, RunningHasBundle,
     Holding, Filling, Reading, At

-----------------------------------------------------------------------------
(* Clean *)

Working(t) == req[t].op = "install" /\ req[t].rev # 0
Settled(d) == worktree[d] # "live" /\ dirs[d].code \in {"absent", "full"}

\* What Clean says until a mishap.
LEMMA CleanMeans ==
  ASSUME mishaps = 0
  PROVE  Clean <=> /\ \A d \in Dirs : Settled(d) \/ \E t \in Threads : Working(t) /\ DirOf(t) = d
                   /\ \A t \in Threads : Working(t) => InstallFormed(t)
BY DEF Clean, NothingHalfDone, InstallsFormed, Installing, Working, Settled

\* Mishaps are never forgotten.
LEMMA MishapsCount ==
  ASSUME Formed, Next, mishaps' = 0
  PROVE  mishaps = 0
<1>1. mishaps \in Nat
  BY RevAssumption DEF Formed, TypeOK
<1>2. mishaps' = mishaps \/ Mishap
  <2>1. ASSUME NEW t \in Threads, Step(t)
        PROVE  mishaps' = mishaps \/ Mishap
    <3>1. CASE Tidy(t) \/ Undo(t) \/ RemoveDir(t)
      BY <3>1 DEF Tidy, Undo, RemoveDir, RemoveAll
    <3>2. CASE Copy(t) \/ CopyRest(t)
      BY <3>2 DEF Copy, CopyRest, CopyTo
    <3> QED
      BY <2>1, <3>1, <3>2 DEF Step, Fails, DigestFails, Resolve, Stat, AddWorktree, Checkout, Check,
         Upsert, Unload, Get, Reinstall, DeleteRow, Plan, Fetch, Start, Validate, Ask
  <2> QED
    BY <2>1 DEF Next, Request, Push, Crash
<1> QED
  BY <1>1, <1>2 DEF Mishap

\* An install has a source.
LEMMA WorkingCall ==
  ASSUME Formed, NEW t \in Threads, Working(t)
  PROVE  req[t].src # None /\ req[t].rev # 0 /\ DirOf(t) \in Dirs
BY DirOfCall DEF Working, Formed, RequestsFormed, RequestFormed

\* No other install works on the directory of an install or of a delete.
LEMMA OwnersApart ==
  ASSUME Orderly, Formed, Safe, NEW t \in Threads, NEW u \in Threads, t # u, Working(u),
         Working(t) \/ At(t, "remove")
  PROVE  DirOf(u) # DirOf(t)
<1>1. req[t].src # None /\ req[t].rev # 0 /\ req[t].op \in {"install", "delete"}
  BY WorkingCall, PlacedCall DEF Working, At, Formed, RequestsFormed, RequestFormed
<1>2. req[u].src # None /\ req[u].rev # 0 /\ req[u].op = "install"
  BY WorkingCall DEF Working
<1> QED
  BY <1>1, <1>2, SameDirSameName DEF Safe, NoConflicts, Conflict

\* The owner of a directory leaves it settled, or formed for its next place.
LEMMA OwnerKeepsClean ==
  ASSUME Orderly, Formed, Safe, Clean, mishaps = 0, mishaps' = 0,
         NEW t \in Threads, Working(t) \/ At(t, "remove"), HandlerMoved(t),
         NEW d \in Dirs, d = DirOf(t),
         \A e \in Dirs : e # d => dirs'[e] = dirs[e] /\ worktree'[e] = worktree[e],
         \/ Working(t)' /\ DirOf(t)' = d /\ InstallFormed(t)'
         \/ ~Working(t)' /\ Settled(d)'
  PROVE  Clean'
<1>1. \A u \in Threads : u # t => /\ Working(u)' = Working(u) /\ DirOf(u)' = DirOf(u)
                                   /\ req'[u] = req[u]
  BY DEF HandlerMoved, Working, DirOf, BundleDir
<1>2. ASSUME NEW u \in Threads, Working(u)'
      PROVE  InstallFormed(u)'
  <2>1. CASE u = t
    BY <1>2, <2>1
  <2>2. CASE u # t
    <3>1. InstallFormed(u) /\ DirOf(u) \in Dirs /\ DirOf(u) # d
      BY <1>1, <1>2, <2>2, CleanMeans, OwnersApart, WorkingCall
    <3> QED
      BY <1>1, <2>2, <3>1 DEF InstallFormed, At
  <2> QED
    BY <2>1, <2>2
<1>3. ASSUME NEW e \in Dirs
      PROVE  Settled(e)' \/ \E u \in Threads : Working(u)' /\ DirOf(u)' = e
  <2>1. CASE e = d
    BY <2>1
  <2>2. CASE e # d /\ Settled(e)
    BY <2>2 DEF Settled
  <2>3. CASE e # d /\ ~Settled(e)
    <3>1. PICK u \in Threads : Working(u) /\ DirOf(u) = e
      BY <2>3, CleanMeans
    <3> QED
      BY <1>1, <2>3, <3>1
  <2> QED
    BY <2>1, <2>2, <2>3
<1> QED
  BY <1>2, <1>3 DEF Clean, NothingHalfDone, InstallsFormed, Installing, Working, Settled

\* Nobody else changes directories, but for their assets.
LEMMA BystanderKeepsClean ==
  ASSUME Clean, mishaps = 0, mishaps' = 0,
         NEW t \in Threads, ~Working(t), ~Working(t)', HandlerMoved(t),
         \A e \in Dirs : dirs'[e].code = dirs[e].code /\ worktree'[e] = worktree[e], Formed
  PROVE  Clean'
<1>1. \A u \in Threads : u # t => /\ Working(u)' = Working(u) /\ DirOf(u)' = DirOf(u)
                                   /\ req'[u] = req[u]
  BY DEF HandlerMoved, Working, DirOf, BundleDir
<1>2. ASSUME NEW u \in Threads, Working(u)'
      PROVE  InstallFormed(u)'
  <2>1. u # t /\ InstallFormed(u) /\ DirOf(u) \in Dirs
    BY <1>1, <1>2, CleanMeans, WorkingCall
  <2> QED
    BY <1>1, <2>1 DEF InstallFormed, At
<1>3. ASSUME NEW e \in Dirs
      PROVE  Settled(e)' \/ \E u \in Threads : Working(u)' /\ DirOf(u)' = e
  <2>1. CASE Settled(e)
    BY <2>1 DEF Settled
  <2>2. CASE ~Settled(e)
    <3>1. PICK u \in Threads : Working(u) /\ DirOf(u) = e
      BY <2>2, CleanMeans
    <3> QED
      BY <1>1, <3>1
  <2> QED
    BY <2>1, <2>2
<1> QED
  BY <1>2, <1>3 DEF Clean, NothingHalfDone, InstallsFormed, Installing, Working, Settled

\* An install that has resolved its commit finds the directory settled.
LEMMA ResolveKeepsClean ==
  ASSUME Orderly, Formed, Formed', Safe, Clean, mishaps = 0, mishaps' = 0, NEW t \in Threads, Resolve(t)
  PROVE  Clean'
<1>0. /\ \A u \in Threads : u # t => req'[u] = req[u]
      /\ req'[t].op = req[t].op /\ req'[t].name = req[t].name /\ req'[t].src = req[t].src
      /\ req'[t].at = "stat" /\ req'[t].rev # 0 /\ req'[t].rev \in Revs
      /\ UNCHANGED <<dirs, worktree>>
  BY DEF Resolve, disk, Formed, TypeOK, Requests, Revs
<1>1. /\ req[t].op = "install" /\ req[t].rev = 0 /\ req[t].src \in Sources
      /\ req[t].name \in Names /\ <<req[t].name, req[t].src>> \in Wants
  BY DEF Resolve, At, Formed, TypeOK, RequestsFormed, RequestFormed, Requests
<1> DEFINE e == [src |-> req[t].src, rev |-> req'[t].rev]
           d == BundleDir(e)
<1>2. e \in Entries /\ e.src = req[t].src /\ DirOf(t)' = d /\ d \in Dirs
  BY <1>0, <1>1 DEF Entries, DirOf, BundleDir, Dirs
<1>3. ASSUME NEW u \in Threads, Working(u)
      PROVE  DirOf(u) # d
  <2>1. /\ u # t /\ req[u].name \in Names /\ <<req[u].name, req[u].src>> \in Wants
        /\ Entry(u) \in Entries /\ Entry(u).src = req[u].src /\ BundleDir(Entry(u)) = DirOf(u)
    BY <1>1, <1>3, WorkingCall, DirOfCall DEF Working, Entry, BundleDir, DirOf
  <2>2. req[u].name # req[t].name
    BY <1>1, <1>3, <2>1, NullAssumption DEF Working, Safe, NoConflicts, Conflict
  <2> QED
    BY <1>1, <1>2, <2>1, <2>2, OwnDirs
<1>4. Settled(d)
  BY <1>2, <1>3, CleanMeans
<1> HIDE DEF d
<1>5. \A u \in Threads : u # t => Working(u)' = Working(u) /\ DirOf(u)' = DirOf(u)
  BY <1>0 DEF Working, DirOf, BundleDir
<1>6. ASSUME NEW u \in Threads, Working(u)'
      PROVE  InstallFormed(u)'
  <2>1. CASE u = t
    BY <1>0, <1>2, <1>4, <2>1 DEF InstallFormed, Settled, At
  <2>2. CASE u # t
    <3>1. InstallFormed(u)
      BY <1>5, <1>6, <2>2, CleanMeans
    <3> QED
      BY <1>0, <1>5, <2>2, <3>1 DEF InstallFormed, At
  <2> QED
    BY <2>1, <2>2
<1>7. ASSUME NEW f \in Dirs
      PROVE  Settled(f)' \/ \E u \in Threads : Working(u)' /\ DirOf(u)' = f
  <2>1. CASE Settled(f)
    BY <1>0, <2>1 DEF Settled
  <2>2. CASE ~Settled(f)
    <3>1. PICK u \in Threads : Working(u) /\ DirOf(u) = f
      BY <2>2, CleanMeans
    <3> QED
      BY <1>1, <1>5, <3>1 DEF Working
  <2> QED
    BY <2>1, <2>2
<1> QED
  BY <1>6, <1>7 DEF Clean, NothingHalfDone, InstallsFormed, Installing, Working, Settled

\* The steps of handlers that fill no directory.
LEMMA OtherStepsKeepClean ==
  ASSUME Orderly, Formed, Safe, Clean, mishaps = 0, mishaps' = 0, NEW t \in Threads, Step(t), ~Working(t),
         \/ Fails(t) \/ DigestFails(t) \/ Unload(t) \/ Get(t) \/ Reinstall(t) \/ DeleteRow(t)
         \/ Plan(t) \/ Fetch(t) \/ Start(t) \/ Validate(t) \/ Ask(t)
  PROVE  Clean'
<1>0. HandlerMoved(t)
  BY HandlerMoves
<1>i. Idle.op = "none"
  BY DEF Idle
<1>1. ~Working(t)'
  <2>1. CASE Reply(t)
    BY <1>i, <2>1 DEF Reply, Working, Formed, TypeOK
  <2>2. CASE \E p \in Places : Goto(t, p)
    BY <2>2 DEF Goto, Working, Formed, TypeOK, Requests
  <2>3. CASE Get(t) /\ registry[req[t].name] # None
    BY <2>3 DEF Get, Working, Formed, TypeOK, RequestsFormed, RequestFormed, Requests, At
  <2>4. CASE Reinstall(t) /\ registry[req[t].name] # None
    BY <2>4 DEF Reinstall, Working, Formed, TypeOK, RequestsFormed, RequestFormed, Requests, At
  <2> QED
    BY <2>1, <2>2, <2>3, <2>4 DEF Fails, DigestFails, Unload, Get, Reinstall, DeleteRow, Plan, Fetch,
       Start, Validate, Ask, Places
<1>2. \A e \in Dirs : dirs'[e].code = dirs[e].code /\ worktree'[e] = worktree[e]
  <2>1. CASE Fetch(t)
    <3>1. dirs[DirOf(t)].code # "absent" /\ DirOf(t) \in Dirs
      BY <2>1, InUse, DirOfCall, PlacedCall
         DEF Fetch, Holding, Reading, At, Safe, UsedIsThere, DirContains, Loads, HasCode
    <3> QED
      BY <2>1, <3>1 DEF Fetch, Formed, TypeOK, DirStates
  <2> QED
    BY <2>1 DEF disk, Fails, DigestFails, Unload, Get, Reinstall, DeleteRow, Plan, Start, Validate, Ask
<1> QED
  BY <1>0, <1>1, <1>2, BystanderKeepsClean

\* The steps of an install behind its commit, and the end of a delete.
LEMMA OwnerStepsKeepClean ==
  ASSUME Orderly, Formed, Safe, Clean, mishaps = 0, mishaps' = 0, NEW t \in Threads, Step(t),
         \/ (Fails(t) \/ DigestFails(t)) /\ Working(t)
         \/ Stat(t) \/ AddWorktree(t) \/ Checkout(t) \/ Copy(t) \/ CopyRest(t) \/ Tidy(t)
         \/ Undo(t) \/ Check(t) \/ Upsert(t) \/ RemoveDir(t)
  PROVE  Clean'
<1>0. HandlerMoved(t) /\ req[t] \in Requests /\ RequestFormed(req[t])
  BY HandlerMoves DEF Formed, TypeOK, RequestsFormed
<1>1. (Working(t) /\ InstallFormed(t)) \/ (At(t, "remove") /\ RemoveDir(t))
  <2>1. Working(t) \/ RemoveDir(t)
    BY <1>0 DEF Working, RequestFormed, At, Stat, AddWorktree, Checkout, Copy, CopyRest, Tidy,
                Undo, Check, Upsert
  <2> QED
    BY <2>1, CleanMeans DEF RemoveDir
<1>2. PICK d \in Dirs : d = DirOf(t)
  BY <1>1, WorkingCall, DirOfCall, PlacedCall
<1>3. ASSUME Reply(t), Settled(d)',
             \A e \in Dirs : e # d => dirs'[e] = dirs[e] /\ worktree'[e] = worktree[e]
      PROVE  Clean'
  <2>1. ~Working(t)'
    BY <1>3 DEF Reply, Idle, Working, Formed, TypeOK
  <2> QED
    BY <1>0, <1>1, <1>2, <1>3, <2>1, OwnerKeepsClean
<1>4. ASSUME NEW p \in Places, Goto(t, p), Working(t), InstallFormed(t)',
             \A e \in Dirs : e # d => dirs'[e] = dirs[e] /\ worktree'[e] = worktree[e]
      PROVE  Clean'
  <2>1. Working(t)' /\ DirOf(t)' = d
    BY <1>0, <1>2, <1>4 DEF Goto, Working, DirOf, BundleDir, Requests, Formed, TypeOK
  <2> QED
    BY <1>0, <1>2, <1>4, <2>1, OwnerKeepsClean
<1>g. ASSUME NEW p \in Places, Goto(t, p)
      PROVE  req'[t].at = p /\ req'[t].added = req[t].added /\ DirOf(t)' = d
  BY <1>0, <1>2, <1>g DEF Goto, DirOf, BundleDir, Requests, Formed, TypeOK
<1>5. CASE (Fails(t) \/ DigestFails(t)) /\ Working(t)
  <2>1. Reply(t) /\ UNCHANGED <<dirs, worktree>> /\ req[t].at \in {"upsert", "check"}
    BY <1>0, <1>5 DEF Fails, DigestFails, disk, Working, RequestFormed
  <2>2. InstallFormed(t)
    BY <1>5, CleanMeans
  <2>3. Settled(d)
    BY <1>2, <2>1, <2>2 DEF InstallFormed, Settled
  <2> QED
    BY <1>3, <2>1, <2>3 DEF Settled
<1>6. CASE Stat(t)
  <2>0. At(t, "stat") /\ Working(t) /\ UNCHANGED <<dirs, worktree>> /\ Settled(d)
    BY <1>1, <1>2, <1>6 DEF Stat, disk, At, InstallFormed, Settled
  <2>1. CASE Goto(t, "check")
    <3>1. InstallFormed(t)'
      BY <1>g, <2>0, <2>1 DEF Places, InstallFormed, Settled, At
    <3> QED
      BY <1>4, <2>0, <2>1, <3>1 DEF Places
  <2>2. CASE Goto(t, "add") /\ ~Exists(d)
    <3>1. InstallFormed(t)'
      BY <1>g, <2>0, <2>2 DEF Places, InstallFormed, Settled, At, Exists
    <3> QED
      BY <1>4, <2>0, <2>2, <3>1 DEF Places
  <2> QED
    BY <1>2, <1>6, <2>1, <2>2 DEF Stat
<1>7. CASE AddWorktree(t)
  <2>0. /\ At(t, "add") /\ Working(t)
        /\ \A e \in Dirs : e # d => dirs'[e] = dirs[e] /\ worktree'[e] = worktree[e]
    BY <1>1, <1>2, <1>7 DEF AddWorktree, SetWorktree, At, Formed, TypeOK
  <2>1. CASE worktree' = [worktree EXCEPT ![d] = "live"]
             /\ req' = [req EXCEPT ![t].at = "checkout", ![t].added = TRUE]
    <3>1. req'[t].at = "checkout" /\ Working(t)' /\ DirOf(t)' = d
      BY <1>0, <1>2, <2>0, <2>1 DEF Working, DirOf, BundleDir, Requests, Formed, TypeOK
    <3>2. InstallFormed(t)'
      BY <2>1, <3>1 DEF InstallFormed, At, Formed, TypeOK
    <3> QED
      BY <1>0, <1>2, <2>0, <3>1, <3>2, OwnerKeepsClean
  <2>2. CASE Goto(t, "undo")
    <3>1. InstallFormed(t)'
      BY <1>g, <2>0, <2>2 DEF Places, InstallFormed, At
    <3> QED
      BY <1>4, <2>0, <2>2, <3>1 DEF Places
  <2> QED
    BY <1>2, <1>7, <2>1, <2>2 DEF AddWorktree, SetWorktree
<1>8. CASE Checkout(t)
  <2>0. /\ At(t, "checkout") /\ Working(t) /\ worktree[d] = "live" /\ req[t].added
        /\ UNCHANGED <<dirs, worktree>>
    BY <1>0, <1>1, <1>2, <1>8 DEF Checkout, disk, At, InstallFormed, RequestFormed
  <2>1. PICK p \in {"copy", "undo"} : Goto(t, p)
    BY <1>8 DEF Checkout
  <2>2. InstallFormed(t)'
    BY <1>g, <2>0, <2>1 DEF Places, InstallFormed, At
  <2> QED
    BY <1>4, <2>0, <2>1, <2>2 DEF Places
<1>9. CASE Copy(t) \/ CopyRest(t)
  <2>0. /\ At(t, "copy") \/ At(t, "copyRest")
        /\ Working(t) /\ worktree[d] = "live" /\ req[t].added /\ UNCHANGED worktree
        /\ \A e \in Dirs : e # d => dirs'[e] = dirs[e]
    BY <1>0, <1>1, <1>2, <1>9 DEF Copy, CopyRest, CopyTo, At, InstallFormed, RequestFormed, Formed, TypeOK
  <2>1. \/ Goto(t, "undo") \/ Goto(t, "copyRest")
        \/ Goto(t, "tidy") /\ dirs'[d].code = "full"
    BY <1>2, <1>9 DEF Copy, CopyRest, CopyTo, Formed, TypeOK, DirStates
  <2>2. PICK p \in {"undo", "copyRest", "tidy"} : Goto(t, p) /\ (p = "tidy" => dirs'[d].code = "full")
    BY <2>1
  <2>3. InstallFormed(t)'
    BY <1>g, <2>0, <2>2 DEF Places, InstallFormed, At
  <2> QED
    BY <1>4, <2>0, <2>2, <2>3 DEF Places
<1>10. CASE Tidy(t)
  <2>0. /\ Working(t) /\ UNCHANGED dirs /\ dirs[d].code = "full" /\ Goto(t, "check")
    BY <1>1, <1>2, <1>10 DEF Tidy, At, InstallFormed
  <2>1. worktree' = [worktree EXCEPT ![d] = "none"]
    BY <1>2, <1>10 DEF Tidy, SetWorktree, Mishap
  <2>2. InstallFormed(t)'
    BY <1>g, <2>0, <2>1 DEF Places, InstallFormed, At, Formed, TypeOK
  <2> QED
    BY <1>4, <2>0, <2>1, <2>2 DEF Places, Formed, TypeOK
<1>11. CASE Undo(t)
  <2>0. Reply(t)
    BY <1>11 DEF Undo
  <2>1. (\E x \in {"none", "stale"} : worktree' = [worktree EXCEPT ![d] = x]) /\ RemoveAll(d)
    BY <1>2, <1>11, <2>0 DEF Undo, Undone, SetWorktree, Mishap, Formed, TypeOK
  <2>2. Settled(d)' /\ \A e \in Dirs : e # d => dirs'[e] = dirs[e] /\ worktree'[e] = worktree[e]
    BY <2>1, RemovedDir DEF Settled, Absent, Formed, TypeOK
  <2> QED
    BY <1>3, <2>0, <2>2
<1>12. CASE Check(t) \/ Upsert(t)
  <2>0. (At(t, "check") \/ At(t, "upsert")) /\ Working(t) /\ UNCHANGED <<dirs, worktree>> /\ Settled(d)
    BY <1>1, <1>2, <1>12 DEF Check, Upsert, disk, At, InstallFormed, Settled
  <2>1. CASE Reply(t)
    BY <1>3, <2>0, <2>1 DEF Settled
  <2>2. CASE Goto(t, "upsert")
    <3>1. InstallFormed(t)'
      BY <1>g, <2>0, <2>2 DEF Places, InstallFormed, Settled, At
    <3> QED
      BY <1>4, <2>0, <2>2, <3>1 DEF Places
  <2> QED
    BY <1>12, <2>1, <2>2 DEF Check, Upsert
<1>13. CASE RemoveDir(t)
  <2>1. RemoveAll(d) /\ Reply(t) /\ UNCHANGED worktree
    BY <1>2, <1>13 DEF RemoveDir
  <2>0. At(t, "remove") /\ ~Working(t)
    BY <1>0, <1>13 DEF RemoveDir, Working, At, RequestFormed
  <2>2. Settled(d)'
    <3>1. ~\E u \in Threads : Working(u) /\ DirOf(u) = d
      BY <1>2, <2>0, OwnersApart
    <3>2. worktree[d] # "live"
      BY <3>1, CleanMeans DEF Settled
    <3> QED
      BY <2>1, <3>2, RemovedDir DEF Settled, Absent
  <2>3. \A e \in Dirs : e # d => dirs'[e] = dirs[e] /\ worktree'[e] = worktree[e]
    BY <2>1, RemovedDir
  <2> QED
    BY <1>3, <2>1, <2>2, <2>3
<1> QED
  BY <1>5, <1>6, <1>7, <1>8, <1>9, <1>10, <1>11, <1>12, <1>13

\* All steps.
LEMMA NextKeepsClean ==
  ASSUME Orderly, Formed, Formed', Safe, Clean, Next
  PROVE  Clean'
<1> SUFFICES ASSUME mishaps' = 0
             PROVE  Clean'
  BY DEF Clean, NothingHalfDone, InstallsFormed
<1>0. mishaps = 0
  BY MishapsCount
<1>1. CASE Push
  BY <1>1 DEF Push, disk, Clean, NothingHalfDone, InstallsFormed, Installing, InstallFormed, DirOf, BundleDir, At
<1>2. CASE Crash
  BY <1>0, <1>2 DEF Crash, Mishap
<1>3. ASSUME NEW t \in Threads, NEW o \in Ops, NEW n \in Names, NEW s \in Sources \cup {None},
             Request(t, o, n, s)
      PROVE  Clean'
  <2>1. /\ \A u \in Threads : u # t => req'[u] = req[u]
        /\ req'[t].rev = 0 /\ UNCHANGED <<dirs, worktree>> /\ req[t] = Idle
    BY <1>3, RequestMoves
  <2>2. \A u \in Threads : /\ Working(u) <=> Working(u)'
                           /\ Working(u) => DirOf(u)' = DirOf(u) /\ req'[u] = req[u]
    BY <2>1 DEF Working, Idle, DirOf, BundleDir
  <2>3. ASSUME NEW u \in Threads, Working(u)'
        PROVE  InstallFormed(u)'
    <3>1. InstallFormed(u) /\ DirOf(u)' = DirOf(u) /\ req'[u] = req[u]
      BY <1>0, <2>2, <2>3, CleanMeans
    <3> QED
      BY <2>1, <3>1 DEF InstallFormed, At
  <2>4. \A d \in Dirs : Settled(d)' \/ \E u \in Threads : Working(u)' /\ DirOf(u)' = d
    BY <1>0, <2>1, <2>2, CleanMeans DEF Settled
  <2> QED
    BY <2>3, <2>4 DEF Clean, NothingHalfDone, InstallsFormed, Installing, Working, Settled
<1>4. ASSUME NEW t \in Threads, Step(t)
      PROVE  Clean'
  <2>1. Resolve(t) => Clean'
    BY <1>0, ResolveKeepsClean
  <2>2. \/ (Fails(t) \/ DigestFails(t)) /\ Working(t)
        \/ Stat(t) \/ AddWorktree(t) \/ Checkout(t) \/ Copy(t) \/ CopyRest(t) \/ Tidy(t)
        \/ Undo(t) \/ Check(t) \/ Upsert(t) \/ RemoveDir(t)
        => Clean'
    BY <1>0, <1>4, OwnerStepsKeepClean
  <2>3. Unload(t) \/ Get(t) \/ Reinstall(t) \/ DeleteRow(t) \/ Plan(t) \/ Fetch(t) \/ Start(t)
        \/ Validate(t) \/ Ask(t) => ~Working(t)
    BY DEF Unload, Get, Reinstall, DeleteRow, Plan, Fetch, Start, Validate, Ask, At, Working,
       Formed, RequestsFormed, RequestFormed
  <2>4. ~Working(t) /\ (Fails(t) \/ DigestFails(t) \/ Unload(t) \/ Get(t) \/ Reinstall(t) \/ DeleteRow(t)
          \/ Plan(t) \/ Fetch(t) \/ Start(t) \/ Validate(t) \/ Ask(t)) => Clean'
    BY <1>0, <1>4, OtherStepsKeepClean
  <2> QED
    BY <1>4, <2>1, <2>2, <2>3, <2>4 DEF Step
<1> QED
  BY <1>1, <1>2, <1>3, <1>4 DEF Next

\* Initially all directories are absent.
LEMMA InitClean == Init => Clean
<1>1. Idle.op = "none" /\ Absent.code = "absent"
  BY DEF Idle, Absent
<1> QED
  BY <1>1 DEF Init, Clean, NothingHalfDone, InstallsFormed

-----------------------------------------------------------------------------
(* The theorems *)

\* The inductive invariant holds: whatever clients do, requests, rows and
\* files are well formed (api.go, source.go); for orderly clients what is
\* used is there, and until a mishap no directory is left half filled and no
\* checkout stays on disk.
THEOREM Storing == Spec => []IndInv
<1>1. Init => IndInv
  BY InitFormed, InitSafe, InitClean DEF IndInv
<1>2. IndInv /\ [Next]_vars => IndInv'
  <2>1. CASE Next
    BY <2>1, NextKeepsFormed, NextKeepsSafe, NextKeepsClean DEF IndInv
  <2>2. ASSUME IndInv, UNCHANGED vars
        PROVE  IndInv'
    <3>1. Formed'
      BY <2>2 DEF vars, IndInv, Formed, TypeOK, RequestsFormed, Owned, HasCode
    <3>2. Orderly => Safe'
      BY <2>2, PushKeepsSafe DEF vars, IndInv
    <3>3. Orderly => Clean'
      BY <2>2 DEF vars, IndInv, Clean, NothingHalfDone, InstallsFormed, Installing, InstallFormed,
                  DirOf, BundleDir, At
    <3> QED
      BY <3>1, <3>2, <3>3 DEF IndInv
  <2> QED
    BY <2>1, <2>2
<1> QED
  BY <1>1, <1>2, PTL DEF Spec

\* For orderly clients a row's bundle_dir is a materialized bundle of the
\* row's own source (registry.go:9), whatever fails on the way.
THEOREM RowsLoad ==
  ASSUME Orderly
  PROVE  Spec => []RegisteredLoads
<1>1. IndInv => RegisteredLoads
  BY DEF IndInv, Safe, UsedIsThere, RegisteredLoads, Registered
<1> QED
  BY <1>1, Storing, PTL

\* And, until a mishap, a complete one.
THEOREM RowsComplete ==
  ASSUME Orderly
  PROVE  Spec => []RegisteredComplete
<1>1. IndInv => RegisteredComplete
  <2> SUFFICES ASSUME IndInv, mishaps = 0, NEW n \in Names, registry[n] # None
               PROVE  dirs[BundleDir(registry[n])].code = "full"
    BY DEF RegisteredComplete, Registered
  <2> DEFINE d == BundleDir(registry[n])
  <2>1. d \in Dirs /\ dirs[d].code \in {"part", "full"}
    <3>1. registry[n] \in Entries
      BY InUse DEF IndInv
    <3>2. DirContains(registry[n])
      BY DEF IndInv, Safe, UsedIsThere
    <3> QED
      BY <3>1, <3>2 DEF DirContains, Loads, HasCode, BundleDir, Dirs, Entries
  <2>2. CASE Settled(d)
    BY <2>1, <2>2 DEF Settled
  <2>3. ASSUME NEW t \in Threads, Working(t), DirOf(t) = d
        PROVE  dirs[d].code = "full"
    <3>1. InstallFormed(t) /\ ~Filling(t)
      BY <2>3, CleanMeans DEF IndInv, Safe, FilledIsUnused, Unused
    <3>2. req[t].at \in {"stat", "add", "checkout", "copy", "copyRest", "tidy", "undo", "check", "upsert"}
      <4>1. Idle.op = "none"
        BY DEF Idle
      <4> QED
        BY <2>3, <4>1 DEF Working, IndInv, Formed, TypeOK, RequestsFormed, RequestFormed, Requests, Places
    <3> QED
      BY <2>1, <2>3, <3>1, <3>2 DEF InstallFormed, Filling, At
  <2> QED
    BY <2>1, <2>2, <2>3, CleanMeans DEF IndInv
<1> QED
  BY <1>1, Storing, PTL

\* A worker's bundle is registered, on disk and has its assets.
THEOREM WorkersHaveBundles ==
  ASSUME Orderly
  PROVE  Spec => []RunningHasBundle
<1>1. IndInv => RunningHasBundle
  BY DEF IndInv, Safe
<1> QED
  BY <1>1, Storing, PTL

\* Until a mishap, an install that fails, also because its client left, takes
\* its directory and its checkout away (source.go:59, 145).  Not that git
\* forgets the worktree: it may go on listing one that is gone.
THEOREM InstallsAreClean ==
  ASSUME Orderly
  PROVE  Spec => []NothingHalfDone
<1>1. IndInv => NothingHalfDone
  BY DEF IndInv, Clean
<1> QED
  BY <1>1, Storing, PTL

-----------------------------------------------------------------------------
(* BundleStore implements ModelStore *)

\* Every row is usable, so the catalogue is the registry.
LEMMA CatalogIsRegistry ==
  ASSUME Orderly
  PROVE  /\ Formed /\ Safe => catalog = registry
         /\ Formed' /\ Safe' => catalog' = registry'
<1>1. Formed /\ Safe => catalog = registry
  BY DEF catalog, Formed, TypeOK, Safe, UsedIsThere
<1>2. Formed' /\ Safe' => catalog' = registry'
  <2> SUFFICES ASSUME Formed', Safe'
               PROVE  catalog' = registry'
    OBVIOUS
  <2>1. \A n \in Names : registry'[n] # None => DirContains(registry[n])'
    BY DEF Safe, UsedIsThere
  <2>2. catalog' = [n \in Names |-> registry'[n]]
    BY <2>1 DEF catalog
  <2> QED
    BY <2>2 DEF Formed, TypeOK
<1> QED
  BY <1>1, <1>2

\* Upsert, DeleteRow, Unload and Start are the effects of the calls, all
\* other steps of handlers stutter.
LEMMA HandlerStepRefines ==
  ASSUME Orderly, Formed, Formed', Safe, Safe', NEW t \in Threads, Step(t)
  PROVE  Store!Next \/ UNCHANGED <<catalog, running>>
<1>0. catalog = registry /\ catalog' = registry'
  BY CatalogIsRegistry
<1> DEFINE n == req[t].name
<1>1. CASE Upsert(t)
  <2>1. n \in Names /\ Entry(t) \in Store!Entries
    BY <1>1, InUse DEF Upsert, Holding, Entries, Revs, Store!Entries
  <2>2. Store!Install(n, Entry(t))
    BY <1>0, <1>1 DEF Upsert, Entry, Store!Install
  <2> QED
    BY <2>1, <2>2 DEF Store!Next
<1>2. CASE DeleteRow(t)
  <2>1. n \in Names /\ running[n] = None
    BY <1>2 DEF DeleteRow, At, Formed, TypeOK, RequestsFormed, RequestFormed, Requests, Safe, DeleteInOrder
  <2>2. Store!Remove(n)
    BY <1>0, <1>2, <2>1 DEF DeleteRow, Store!Remove
  <2> QED
    BY <2>1, <2>2 DEF Store!Next
<1>3. CASE Unload(t)
  <2>1. n \in Names
    BY <1>3 DEF Unload, At, Formed, TypeOK, RequestsFormed, RequestFormed, Requests
  <2>2. Store!Stop(n)
    BY <1>0, <1>3 DEF Unload, Store!Stop
  <2> QED
    BY <2>1, <2>2 DEF Store!Next
<1>4. CASE Start(t)
  <2>1. /\ n \in Names /\ registry[n] # None /\ UNCHANGED registry
        /\ \A b \in BOOLEAN : WorkerOf(t, b) \in Store!Workers
    <3>1. n \in Names /\ req[t].src \in Sources /\ req[t].rev \in Revs
      BY <1>4, DirOfCall, PlacedCall DEF Start, At, Holding, Reading
    <3> QED
      BY <1>4, <3>1 DEF Start, At, Reading, Safe, UsedIsThere, WorkerOf, Store!Workers, Revs
  <2>2. PICK w : Started(t, w)
    BY <1>4, StartMoves
  <2>3. CASE w = running[n]
    BY <1>0, <2>1, <2>2, <2>3 DEF Started, Formed, TypeOK
  <2>4. CASE ~IsReady(n) /\ w = None
    <3>1. Store!Fail(n)
      BY <1>0, <2>1, <2>2, <2>4 DEF Started, IsReady, Store!Fail, Store!IsReady
    <3> QED
      BY <2>1, <3>1 DEF Store!Next
  <2>5. CASE ~IsReady(n) /\ \E b \in BOOLEAN : w = WorkerOf(t, b)
    <3>1. w \in Store!Workers /\ Store!Start(n, w)
      BY <1>0, <2>1, <2>2, <2>5 DEF Started, IsReady, Store!Start, Store!IsReady
    <3> QED
      BY <2>1, <3>1 DEF Store!Next
  <2> QED
    BY <2>2, <2>3, <2>4, <2>5 DEF Started
<1>5. UNCHANGED <<registry, running>> => UNCHANGED <<catalog, running>>
  BY <1>0
<1>6. CASE ~Upsert(t) /\ ~DeleteRow(t) /\ ~Unload(t) /\ ~Start(t)
  BY <1>5, <1>6 DEF Step, Fails, DigestFails, Resolve, Stat, AddWorktree, Checkout, Copy, CopyRest, CopyTo,
     Tidy, Undo, Check, Get, Reinstall, RemoveDir, Plan, Fetch, Validate, Ask
<1> QED
  BY <1>1, <1>2, <1>3, <1>4, <1>6

\* A crash takes the workers along.
LEMMA NextRefines ==
  ASSUME Orderly, Formed, Formed', Safe, Safe', [Next]_vars
  PROVE  [Store!Next]_<<catalog, running>>
<1>0. catalog = registry /\ catalog' = registry'
  BY CatalogIsRegistry
<1>1. CASE Push \/ UNCHANGED vars
  BY <1>0, <1>1 DEF Push, vars
<1>2. CASE Crash
  BY <1>0, <1>2 DEF Crash, Store!Next, Store!Down
<1>3. ASSUME NEW t \in Threads, NEW o \in Ops, NEW n \in Names, NEW s \in Sources \cup {None},
             Request(t, o, n, s)
      PROVE  UNCHANGED <<catalog, running>>
  BY <1>0, <1>3 DEF Request
<1> QED
  BY <1>1, <1>2, <1>3, HandlerStepRefines DEF Next

\* For orderly clients row, directory and worker change as if each call had
\* one effect or none, no row names what cannot be loaded ("Switch active
\* revision only after verification succeeds", rfc-v0.md:117), and a load
\* replaces only a worker that is not ready (manager.go:91).
THEOREM ActsAsOneStore ==
  ASSUME Orderly
  PROVE  Spec => ImplementsStore
<1>1. Init => Store!Init
  BY DEF Init, Store!Init, catalog
<1>2. IndInv /\ IndInv' /\ [Next]_vars => [Store!Next]_Store!vars
  BY NextRefines DEF IndInv, Store!vars
<1> QED
  BY <1>1, <1>2, Storing, PTL DEF Spec, ImplementsStore, Store!Spec
=============================================================================
