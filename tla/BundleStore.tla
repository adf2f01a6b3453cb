---------------------------- MODULE BundleStore ----------------------------
(***************************************************************************)
(* The daemon's persistent state and the API handlers that change it:      *)
(* internal/api, internal/source, internal/registry and the checks of      *)
(* internal/bundle.                                                        *)
(*                                                                         *)
(* A bundle is known in three places that no transaction spans: a row of   *)
(* the SQLite registry, a directory bundles/<segment>/<sha> filled through *)
(* a temporary git worktree, and a worker of the runtime manager.  Each    *)
(* handler walks these places one step after the other, concurrently with  *)
(* other requests, with git and network errors, and with crashes of the    *)
(* daemon.  Files are abstracted to how far the copy of a bundle got, to   *)
(* the source directory they came from, and to whether its assets are in   *)
(* place; the manager to the worker it lists for each name: the revision   *)
(* it was started on, and whether it is ready or degraded.                 *)
(***************************************************************************)
EXTENDS Naturals

CONSTANTS
  Names,        \* bundle names
  Sources,      \* bundle directories of the repository (Ref.Subdir)
  SegOf,        \* [Sources -> segments]: filepath.Base of the subdirectory
  Wants,        \* <<name, source>> pairs clients install
  Broken,       \* <<source, revision>> pairs whose manifest is not valid
  Threads,      \* request handlers
  None,         \* no row, no worker, no source
  MaxRev,       \* bound on the commits the tracked branch goes through
  MaxMishaps,   \* bound on crashes and on clean-ups that fail
  Disciplined   \* TRUE: no delete beside another call for that name,
                \* nor two installs of it at once

Revs == 1..MaxRev
Dirs == {SegOf[s] : s \in Sources} \X Revs
Ops  == {"install", "update", "delete", "pull", "load", "unload", "predict"}

ASSUME RevAssumption   == MaxRev \in Nat \ {0} /\ MaxMishaps \in Nat
ASSUME WantsAssumption == Wants \subseteq Names \X Sources
ASSUME BrokenAssumption == Broken \subseteq Sources \X Revs
ASSUME NullAssumption  ==
  None \notin Sources \cup Names \cup [src : Sources, rev : Revs]
               \cup [src : Sources, rev : Revs, ready : BOOLEAN]
ASSUME DisciplineAssumption == Disciplined \in BOOLEAN

VARIABLES
  head,      \* the commit the tracked branch points to upstream
  registry,  \* rows of the bundles table: name -> Entry or None
  dirs,      \* the bundles/ tree
  worktree,  \* what git's mirror knows of <dir>.wt
  running,   \* name -> the ready or degraded worker the manager lists, or None
  req,       \* what each handler is doing
  mishaps    \* crashes and failed clean-ups so far

vars == <<head, registry, dirs, worktree, running, req, mishaps>>

(***************************************************************************)
(* code: how much of the bundle's tree has been copied.  In a "part"       *)
(* directory the walk has passed handler and manifest, so bundle.Load is   *)
(* content, but later files are missing.                                   *)
(* worktree: "live" registered and on disk, "stale" registered but gone.   *)
(***************************************************************************)
Entries   == [src : Sources, rev : Revs]
Workers   == [src : Sources, rev : Revs, ready : BOOLEAN]
DirStates == [code : {"absent", "empty", "part", "full"},
              from : Sources \cup {None}, assets : BOOLEAN]
Places    == {"idle", "resolve", "stat", "add", "checkout", "copy", "copyRest",
              "tidy", "undo", "check", "upsert", "unload", "get", "row",
              "remove", "plan", "fetch", "start", "validate", "ask"}
Requests  == [op : Ops \cup {"none"}, at : Places, name : Names \cup {None},
              src : Sources \cup {None}, rev : Revs \cup {0}, added : BOOLEAN]

Absent == [code |-> "absent", from |-> None, assets |-> FALSE]
Idle   == [op |-> "none", at |-> "idle", name |-> None, src |-> None,
           rev |-> 0, added |-> FALSE]

TypeOK ==
  /\ head \in Revs
  /\ registry \in [Names -> Entries \cup {None}]
  /\ dirs \in [Dirs -> DirStates]
  /\ worktree \in [Dirs -> {"none", "live", "stale"}]
  /\ running \in [Names -> Workers \cup {None}]
  /\ req \in [Threads -> Requests]
  /\ mishaps \in 0..MaxMishaps

Init ==
  /\ head = 1
  /\ registry = [n \in Names |-> None]
  /\ dirs = [d \in Dirs |-> Absent]
  /\ worktree = [d \in Dirs |-> "none"]
  /\ running = [n \in Names |-> None]
  /\ req = [t \in Threads |-> Idle]
  /\ mishaps = 0

-----------------------------------------------------------------------------
(* Helpers *)

At(t, place)   == req[t].at = place
Goto(t, place) == req' = [req EXCEPT ![t].at = place]
Reply(t)       == req' = [req EXCEPT ![t] = Idle]

\* Installer.bundleDir of a reference and a commit.
BundleDir(e) == <<SegOf[e.src], e.rev>>
DirOf(t)     == BundleDir(req[t])
Exists(d)    == dirs[d].code # "absent"

\* bundle.Load succeeds on a directory with manifest and handler, whose
\* manifest is valid; and what CheckAssets looks for.
HasCode(d)       == dirs[d].code \in {"part", "full"}
ValidManifest(d) == <<dirs[d].from, d[2]>> \notin Broken
Loads(d)         == HasCode(d) /\ ValidManifest(d)
HasAssets(d)     == dirs[d].assets

disk == <<dirs, worktree>>

Mishap == mishaps < MaxMishaps /\ mishaps' = mishaps + 1

SetWorktree(d, state) == worktree' = [worktree EXCEPT ![d] = state]

\* os.RemoveAll, complete, or stopped by an error somewhere on its way.
Remains(d) ==
  {dirs[d]} \cup [code : {"empty"}, from : {None}, assets : {dirs[d].assets, FALSE}]
            \cup (IF HasCode(d) THEN {[dirs[d] EXCEPT !.code = "part"]} ELSE {})

RemoveAll(d) ==
  \/ dirs' = [dirs EXCEPT ![d] = Absent] /\ UNCHANGED mishaps
  \/ Exists(d) /\ Mishap /\ \E r \in Remains(d) : dirs' = [dirs EXCEPT ![d] = r]

-----------------------------------------------------------------------------
(* Requests arrive *)

Conflict(o, u) == \/ "delete" \in {o, u}
                  \/ {o, u} \subseteq {"install", "update"}

FirstPlace(o) == CASE o = "install" -> "resolve"
                   [] o \in {"delete", "unload"} -> "unload"
                   [] OTHER -> "get"

Request(t, o, n, s) ==
  /\ At(t, "idle")
  /\ IF o = "install" THEN <<n, s>> \in Wants ELSE s = None
  /\ Disciplined =>
       \A u \in Threads : req[u].name = n => ~Conflict(o, req[u].op)
  /\ req' = [req EXCEPT ![t] =
               [Idle EXCEPT !.op = o, !.at = FirstPlace(o), !.name = n, !.src = s]]
  /\ UNCHANGED <<head, registry, disk, running, mishaps>>

\* A handler replies with an error: git, network, SQLite, its context.
Fails(t) ==
  /\ req[t].at \in {"resolve", "upsert", "get", "row", "fetch", "start", "ask"}
  /\ Reply(t)
  /\ UNCHANGED <<head, registry, disk, running, mishaps>>

\* bundle.Load fails on a valid bundle: its digest walks every file, also
\* those that a pull or a delete changes meanwhile.
DigestFails(t) ==
  /\ req[t].at \in {"check", "plan"}
  /\ Reply(t)
  /\ UNCHANGED <<head, registry, disk, running, mishaps>>

-----------------------------------------------------------------------------
(* handleInstall and Installer.Install *)

\* syncMirror and resolveCommit.
Resolve(t) ==
  /\ At(t, "resolve")
  /\ req' = [req EXCEPT ![t].at = "stat", ![t].rev = head]
  /\ UNCHANGED <<head, registry, disk, running, mishaps>>

\* An existing directory counts as materialized.
Stat(t) ==
  /\ At(t, "stat")
  /\ Goto(t, IF Exists(DirOf(t)) THEN "check" ELSE "add")
  /\ UNCHANGED <<head, registry, disk, running, mishaps>>

\* MkdirAll, then git worktree add, which refuses a path that is registered
\* already, on disk or not.  It runs under the request's context: a git that
\* is killed because the client left may have registered the path, and the
\* call does not know.
AddWorktree(t) ==
  LET d == DirOf(t) IN
  /\ At(t, "add")
  /\ dirs' = [dirs EXCEPT ![d].code = IF @ = "absent" THEN "empty" ELSE @]
  /\ \/ /\ worktree[d] = "none"
        /\ SetWorktree(d, "live")
        /\ req' = [req EXCEPT ![t].at = "checkout", ![t].added = TRUE]
     \/ /\ \/ UNCHANGED worktree
           \/ worktree[d] = "none" /\ SetWorktree(d, "live")
        /\ Goto(t, "undo")
  /\ UNCHANGED <<head, registry, running, mishaps>>

\* sparse-checkout and checkout inside the worktree.
Checkout(t) ==
  /\ At(t, "checkout")
  /\ \/ worktree[DirOf(t)] = "live" /\ Goto(t, "copy")
     \/ Goto(t, "undo")
  /\ UNCHANGED <<head, registry, disk, running, mishaps>>

\* copyDir, first up to the manifest and handler, then the rest.
CopyTo(t, code, next) ==
  LET d == DirOf(t) IN
  /\ \/ /\ worktree[d] = "live" /\ Exists(d)
        /\ dirs' = [dirs EXCEPT ![d].code = code, ![d].from = req[t].src]
        /\ Goto(t, next)
     \/ Goto(t, "undo") /\ UNCHANGED dirs
  /\ UNCHANGED <<head, registry, worktree, running, mishaps>>

Copy(t)     == At(t, "copy") /\ CopyTo(t, "part", "copyRest")
CopyRest(t) == At(t, "copyRest") /\ CopyTo(t, "full", "tidy")

\* Mutant: the deferred removal of the worktree is missing.
Tidy_KeepsWorktree(t) ==
  /\ At(t, "tidy")
  /\ Goto(t, "check")
  /\ UNCHANGED <<head, registry, disk, running, mishaps>>

\* The deferred git worktree remove and RemoveAll, after success.  An error
\* of the first is ignored.
Tidy(t) ==
  /\ At(t, "tidy")
  /\ \/ SetWorktree(DirOf(t), "none") /\ UNCHANGED mishaps
     \/ SetWorktree(DirOf(t), "stale") /\ Mishap
  /\ Goto(t, "check")
  /\ UNCHANGED <<head, registry, dirs, running>>

\* What git knows of the worktree after Undo.
Undone(t) ==
  IF req[t].added THEN "none"
  ELSE IF worktree[DirOf(t)] = "live" THEN "stale" ELSE worktree[DirOf(t)]

\* Mutant: the half-copied directory stays.
Undo_KeepsDir(t) ==
  /\ At(t, "undo")
  /\ SetWorktree(DirOf(t), Undone(t))
  /\ Reply(t)
  /\ UNCHANGED <<head, registry, dirs, running, mishaps>>

\* After an error: git forgets the worktree only if this call knows that it
\* has added it, its files go in any case, and so does the bundle directory.
\* Errors of all this are ignored.
Undo(t) ==
  LET d == DirOf(t) IN
  /\ At(t, "undo")
  /\ \/ SetWorktree(d, Undone(t)) /\ RemoveAll(d)
     \/ req[t].added /\ SetWorktree(d, "stale") /\ Mishap /\ dirs' = [dirs EXCEPT ![d] = Absent]
  /\ Reply(t)
  /\ UNCHANGED <<head, registry, running>>

\* Mutant: the result is not looked at.
Check_Skipped(t) ==
  /\ At(t, "check")
  /\ Goto(t, "upsert")
  /\ UNCHANGED <<head, registry, disk, running, mishaps>>

\* bundle.Load of the result; a revision that is not valid stays on disk.
Check(t) ==
  /\ At(t, "check")
  /\ IF Loads(DirOf(t)) THEN Goto(t, "upsert") ELSE Reply(t)
  /\ UNCHANGED <<head, registry, disk, running, mishaps>>

\* Mutant: the resolved commit is not recorded.
Upsert_NoCommit(t) ==
  /\ At(t, "upsert")
  /\ registry' = [registry EXCEPT ![req[t].name] = [src |-> req[t].src, rev |-> 0]]
  /\ Reply(t)
  /\ UNCHANGED <<head, disk, running, mishaps>>

Upsert(t) ==
  /\ At(t, "upsert")
  /\ registry' = [registry EXCEPT ![req[t].name] = [src |-> req[t].src, rev |-> req[t].rev]]
  /\ Reply(t)
  /\ UNCHANGED <<head, disk, running, mishaps>>

-----------------------------------------------------------------------------
(* handleDeleteModel and handleUnload *)

\* Mutant: delete does not stop the worker.
Unload_NotOnDelete(t) ==
  /\ At(t, "unload")
  /\ IF req[t].op = "delete"
     THEN Goto(t, "get") /\ UNCHANGED running
     ELSE Reply(t) /\ running' = [running EXCEPT ![req[t].name] = None]
  /\ UNCHANGED <<head, registry, disk, mishaps>>

\* Manager.Unload.
Unload(t) ==
  /\ At(t, "unload")
  /\ running' = [running EXCEPT ![req[t].name] = None]
  /\ IF req[t].op = "delete" THEN Goto(t, "get") ELSE Reply(t)
  /\ UNCHANGED <<head, registry, disk, mishaps>>

\* Registry.Get, the first step of most handlers.  An unknown name ends the
\* call, but for delete, which goes on without an entry.
Get(t) ==
  LET e == registry[req[t].name] IN
  /\ At(t, "get")
  /\ req[t].op # "update"
  /\ \/ /\ e # None
        /\ req' = [req EXCEPT ![t].src = e.src, ![t].rev = e.rev,
                     ![t].at = IF req[t].op = "delete" THEN "row" ELSE "plan"]
     \/ e = None /\ req[t].op = "delete" /\ Goto(t, "row")
     \/ e = None /\ req[t].op # "delete" /\ Reply(t)
  /\ UNCHANGED <<head, registry, disk, running, mishaps>>

\* gonnxctl update gets the row in one request and in a second asks for an
\* install of the source that the row names.
Reinstall(t) ==
  LET e == registry[req[t].name] IN
  /\ At(t, "get")
  /\ req[t].op = "update"
  /\ \/ /\ e # None
        /\ req' = [req EXCEPT ![t].op = "install", ![t].at = "resolve", ![t].src = e.src]
     \/ e = None /\ Reply(t)
  /\ UNCHANGED <<head, registry, disk, running, mishaps>>

\* Mutant: the row stays.
DeleteRow_KeepsRow(t) ==
  /\ At(t, "row")
  /\ IF req[t].src = None THEN Reply(t) ELSE Goto(t, "remove")
  /\ UNCHANGED <<head, registry, disk, running, mishaps>>

DeleteRow(t) ==
  /\ At(t, "row")
  /\ registry' = [registry EXCEPT ![req[t].name] = None]
  /\ IF req[t].src = None THEN Reply(t) ELSE Goto(t, "remove")
  /\ UNCHANGED <<head, disk, running, mishaps>>

\* os.RemoveAll(e.BundleDir), of which an error is logged.
RemoveDir(t) ==
  /\ At(t, "remove")
  /\ RemoveAll(DirOf(t))
  /\ Reply(t)
  /\ UNCHANGED <<head, registry, worktree, running>>

-----------------------------------------------------------------------------
(* handlePull, handleLoad, handlePredict *)

\* bundle.Load, and for load CheckAssets; a failure ends the call.
Plan(t) ==
  /\ At(t, "plan")
  /\ LET usable == Loads(DirOf(t)) /\ (req[t].op = "load" => HasAssets(DirOf(t))) IN
     \/ usable /\ req[t].op = "pull" /\ Goto(t, "fetch")
     \/ usable /\ req[t].op = "load" /\ Goto(t, "start")
     \/ usable /\ req[t].op = "predict" /\ Goto(t, "validate")
     \/ ~usable /\ Reply(t)
  /\ UNCHANGED <<head, registry, disk, running, mishaps>>

\* assets.Fetch: MkdirAll and the rename into place.
Fetch(t) ==
  LET d == DirOf(t) IN
  /\ At(t, "fetch")
  /\ dirs' = [dirs EXCEPT ![d].assets = TRUE,
                          ![d].code = IF @ = "absent" THEN "empty" ELSE @]
  /\ Reply(t)
  /\ UNCHANGED <<head, registry, worktree, running, mishaps>>

\* Manager.Load lists a new worker, which starts in the bundle directory and
\* opens handler and model there: ready, or degraded where the machine lacks a
\* dependency; or failed, which is as none.
NewWorker(t) ==
  \/ /\ Loads(DirOf(t)) /\ HasAssets(DirOf(t))
     /\ \E ready \in BOOLEAN : running' = [running EXCEPT ![req[t].name] =
          [src |-> req[t].src, rev |-> req[t].rev, ready |-> ready]]
  \/ running' = [running EXCEPT ![req[t].name] = None]

IsReady(n) == running[n] # None /\ running[n].ready

\* Mutant: a ready worker is replaced.
Start_Replaces(t) ==
  /\ At(t, "start")
  /\ NewWorker(t)
  /\ Reply(t)
  /\ UNCHANGED <<head, registry, disk, mishaps>>

\* A no-op beside a ready worker; a degraded one is replaced, whatever
\* revision it is of.
Start(t) ==
  /\ At(t, "start")
  /\ IF IsReady(req[t].name) THEN UNCHANGED running ELSE NewWorker(t)
  /\ Reply(t)
  /\ UNCHANGED <<head, registry, disk, mishaps>>

\* The body against the inputSchema of the row's revision.
Validate(t) ==
  /\ At(t, "validate")
  /\ Goto(t, "ask") \/ Reply(t)
  /\ UNCHANGED <<head, registry, disk, running, mishaps>>

\* Manager.Predict.
Ask(t) ==
  /\ At(t, "ask")
  /\ Reply(t)
  /\ UNCHANGED <<head, registry, disk, running, mishaps>>

-----------------------------------------------------------------------------
(* The environment *)

\* Somebody pushes a commit to the tracked branch.
Push ==
  /\ head < MaxRev
  /\ head' = head + 1
  /\ UNCHANGED <<registry, disk, running, req, mishaps>>

\* The daemon dies and starts again: rows and files stay, handlers and the
\* manager's map do not.
Crash ==
  /\ Mishap
  /\ req' = [t \in Threads |-> Idle]
  /\ running' = [n \in Names |-> None]
  /\ UNCHANGED <<head, registry, disk>>

Step(t) ==
  \/ Fails(t) \/ DigestFails(t)
  \/ Resolve(t) \/ Stat(t) \/ AddWorktree(t) \/ Checkout(t) \/ Copy(t) \/ CopyRest(t)
  \/ Tidy(t) \/ Undo(t) \/ Check(t) \/ Upsert(t)
  \/ Unload(t) \/ Get(t) \/ Reinstall(t) \/ DeleteRow(t) \/ RemoveDir(t)
  \/ Plan(t) \/ Fetch(t) \/ Start(t) \/ Validate(t) \/ Ask(t)

Next ==
  \/ \E t \in Threads :
       \/ \E o \in Ops, n \in Names, s \in Sources \cup {None} : Request(t, o, n, s)
       \/ Step(t)
  \/ Push
  \/ Crash

Spec == Init /\ [][Next]_vars

-----------------------------------------------------------------------------
(* Properties.  They hold for disciplined clients of bundles that share no *)
(* directory; the runs that expect a violation drop one condition each.    *)

Deleting(n)       == \E t \in Threads : req[t].name = n /\ req[t].op = "delete"
Installing(d)     == \E t \in Threads : req[t].op = "install" /\ req[t].rev # 0 /\ DirOf(t) = d
Registered(n)     == registry[n] # None /\ ~Deleting(n)
DirContains(e)    == Loads(BundleDir(e)) /\ dirs[BundleDir(e)].from = e.src

\* A row's bundle_dir is a materialized bundle of the row's own source
\* (registry.go:9), through installs, updates, failures and crashes.
RegisteredLoads ==
  \A n \in Names : Registered(n) => DirContains(registry[n])

\* Until a mishap, it is complete: an install that failed midway left nothing
\* that a later install could take for a finished one.
RegisteredComplete ==
  mishaps = 0 => \A n \in Names : Registered(n) => dirs[BundleDir(registry[n])].code = "full"

\* A worker's bundle is still registered, on disk and has its assets: delete
\* stops the worker first, and no other call takes the bundle from under it.
RunningHasBundle ==
  \A n \in Names : running[n] # None =>
    registry[n] # None /\ DirContains(running[n]) /\ HasAssets(BundleDir(running[n]))

\* Until a mishap, whatever no install is working on is absent or complete
\* and has no checkout beside it: a failed install takes its files away
\* (source.go:59, 145).  What it may leave is a worktree that git still lists.
NothingHalfDone ==
  mishaps = 0 => \A d \in Dirs : ~Installing(d) =>
    worktree[d] # "live" /\ dirs[d].code \in {"absent", "full"}

-----------------------------------------------------------------------------
(* The store as its clients may think of it *)

catalog == [n \in Names |->
  IF registry[n] # None /\ DirContains(registry[n]) THEN registry[n] ELSE None]

Store == INSTANCE ModelStore WITH catalog <- catalog, running <- running

\* Row, directory and worker change as if each call had one effect, of which
\* none is seen before it is complete: "Switch active revision only after
\* verification succeeds" (rfc-v0.md:117).
ImplementsStore == Store!Spec

-----------------------------------------------------------------------------
(* The inductive invariant, for orderly use *)

\* What the properties need of clients and of the repository, and the code
\* does not enforce: calls that do not cross, directories with base names of
\* their own, and one name for each of them.
Orderly ==
  /\ Disciplined
  /\ \A r, s \in Sources : SegOf[r] = SegOf[s] => r = s
  /\ \A v, w \in Wants : v[2] = w[2] => v[1] = w[1]

Entry(t) == [src |-> req[t].src, rev |-> req[t].rev]

\* Installs that fill or remove their directory; calls that count on theirs.
Filling(t) == req[t].at \in {"add", "checkout", "copy", "copyRest", "undo"}
Reading(t) == req[t].at \in {"plan", "fetch", "start", "validate", "ask"}
Holding(t) == Reading(t) \/ At(t, "upsert")

\* A handler's place goes with what it does and knows.
RequestFormed(r) ==
  /\ r.at = "idle" => r = Idle
  /\ r.at # "idle" => r.op # "none" /\ r.name # None
  /\ r.op = "install" => r.src # None
  /\ r.op = "update" => r.at = "get"
  /\ r.op = "unload" => r.at = "unload"
  /\ r.src # None => <<r.name, r.src>> \in Wants
  /\ r.at = "resolve" => r.op = "install" /\ r.rev = 0
  /\ r.at \in {"stat", "add", "checkout", "copy", "copyRest", "tidy", "undo", "check", "upsert"}
       => r.op = "install" /\ r.rev # 0
  /\ r.at \in {"plan", "fetch", "start", "validate", "ask"}
       => r.op \in {"pull", "load", "predict"} /\ r.src # None /\ r.rev # 0
  /\ r.at \in {"unload", "get"} => r.op # "install" /\ r.src = None /\ r.rev = 0
  /\ r.at \in {"row", "remove"} => r.op = "delete" /\ (r.src # None => r.rev # 0)
  /\ r.at = "remove" => r.src # None
  /\ r.at \in {"checkout", "copy", "copyRest", "tidy"} => r.added
  /\ r.added => r.at \in {"checkout", "copy", "copyRest", "tidy", "undo", "check", "upsert"}

RequestsFormed == \A t \in Threads : RequestFormed(req[t])

\* Rows and workers are of what clients install, files of their own source.
Owned ==
  /\ \A n \in Names : registry[n] # None => <<n, registry[n].src>> \in Wants
  /\ \A n \in Names : running[n] # None => <<n, running[n].src>> \in Wants
  /\ \A d \in Dirs : HasCode(d) => dirs[d].from # None /\ SegOf[dirs[d].from] = d[1]

NoConflicts == \A t, u \in Threads :
  t # u /\ req[t].name # None /\ req[t].name = req[u].name => ~Conflict(req[t].op, req[u].op)

\* Whatever a row, a worker or a call counts on is there.
UsedIsThere ==
  /\ \A n \in Names : registry[n] # None => DirContains(registry[n])
  /\ \A t \in Threads : Holding(t) => DirContains(Entry(t))
  /\ \A t \in Threads : Reading(t) => registry[req[t].name] # None

\* An install fills no directory that is in use, so its failure spoils none.
Unused(d) ==
  /\ \A n \in Names : registry[n] # None => BundleDir(registry[n]) # d
  /\ \A n \in Names : running[n] # None => BundleDir(running[n]) # d
  /\ \A u \in Threads : Holding(u) => DirOf(u) # d

FilledIsUnused == \A t \in Threads : Filling(t) => Unused(DirOf(t))

\* A delete has stopped the worker before it removes the row, and the row
\* before it removes the directory.
DeleteInOrder == \A t \in Threads :
  /\ req[t].op = "delete" /\ ~At(t, "unload") => running[req[t].name] = None
  /\ At(t, "remove") => registry[req[t].name] = None

\* How far an install has come, as long as nothing went wrong behind its back.
InstallFormed(t) ==
  LET d == DirOf(t) IN
  /\ req[t].at \in {"stat", "check", "upsert"} =>
       worktree[d] # "live" /\ dirs[d].code \in {"absent", "full"}
  /\ At(t, "add") => worktree[d] # "live" /\ dirs[d].code = "absent"
  /\ req[t].at \in {"checkout", "copy", "copyRest", "tidy"} => worktree[d] = "live"
  /\ At(t, "tidy") => dirs[d].code = "full"

InstallsFormed ==
  mishaps = 0 => \A t \in Threads : req[t].op = "install" /\ req[t].rev # 0 => InstallFormed(t)

Formed == TypeOK /\ RequestsFormed /\ Owned
Safe   == NoConflicts /\ UsedIsThere /\ FilledIsUnused /\ DeleteInOrder /\ RunningHasBundle
Clean  == NothingHalfDone /\ InstallsFormed

IndInv == Formed /\ (Orderly => Safe /\ Clean)

-----------------------------------------------------------------------------
(* What the documentation says and the code does not keep. *)

\* RegisteredComplete without the condition on mishaps: crashes are no licence.
CompleteAfterCrash ==
  \A n \in Names : Registered(n) => dirs[BundleDir(registry[n])].code = "full"
=============================================================================
