----------------------------- MODULE AssetPull -----------------------------
(***************************************************************************)
(* internal/assets: Plan and Fetch for one bundle directory, called by any *)
(* number of pulls at once.  The manifest is a list of N assets; a file is *)
(* its content, and a content stands for its digest.                       *)
(***************************************************************************)
EXTENDS Daemon, FiniteSetsExt

CONSTANTS
  N,         \* number of assets in the manifest
  Dests,     \* destination paths
  Contents,  \* what a file or a response body can be
  None,      \* no such file
  DestOf,    \* [1..N -> Dests]: Asset.Dest
  SumOf,     \* [1..N -> Contents]: the content with digest Asset.SHA256
  Packed     \* the assets that have an unpack section

Assets == 1..N

ASSUME ManifestAssumption ==
  /\ N \in Nat
  /\ DestOf \in [Assets -> Dests]
  /\ SumOf \in [Assets -> Contents]
  /\ Packed \subseteq Assets
  /\ None \notin Contents

VARIABLES
  files,  \* the content at each destination
  temps,  \* temporary files, each with the thread and the boot it is of
  pull    \* what each thread is doing

assetVars == <<files, temps, pull>>

(***************************************************************************)
(* next: the asset Plan looks at; todo: the plan, less what was fetched;   *)
(* got: the body received.                                                 *)
(***************************************************************************)
PullPlaces == {"idle", "plan", "fetch", "body", "verify", "fetched", "error"}
Pulls == [at : PullPlaces, next : 1..N + 1, todo : SUBSET Assets,
          got : Contents \cup {None}]
NoPull == [at |-> "idle", next |-> 1, todo |-> {}, got |-> None]

AssetsOK ==
  /\ files \in [Dests -> Contents \cup {None}]
  /\ temps \subseteq Threads \X (0..MaxBoot)
  /\ pull \in [Threads -> Pulls]

\* The checkout may hold any file at a destination.
AssetsInit ==
  /\ files \in [Dests -> Contents \cup {None}]
  /\ temps = {}
  /\ pull = [t \in Threads |-> NoPull]

PullAt(t, place) == pull[t].at = place
Current(t)       == Min(pull[t].todo)

-----------------------------------------------------------------------------
(* Plan *)

BeginPull(t) ==
  /\ PullAt(t, "idle")
  /\ pull' = [pull EXCEPT ![t] = [NoPull EXCEPT !.at = "plan"]]
  /\ UNCHANGED <<files, temps>>

\* Mutant: a file that is there is taken for the right one.
CacheMiss_Absent(i) == files[DestOf[i]] = None

\* Absent, or the digest does not match.
CacheMiss(i) == files[DestOf[i]] # SumOf[i]

\* Mutant: the loop runs once too often.
PlanOne_PastEnd(t) ==
  LET i == pull[t].next IN
  /\ PullAt(t, "plan")
  /\ i \in Assets
  /\ pull' = [pull EXCEPT ![t].next = i + 2,
                          ![t].todo = IF CacheMiss(i) THEN @ \cup {i} ELSE @]
  /\ UNCHANGED <<files, temps>>

PlanOne(t) ==
  LET i == pull[t].next IN
  /\ PullAt(t, "plan")
  /\ i \in Assets
  /\ pull' = [pull EXCEPT ![t].next = i + 1,
                          ![t].todo = IF CacheMiss(i) THEN @ \cup {i} ELSE @]
  /\ UNCHANGED <<files, temps>>

Planned(t) ==
  /\ PullAt(t, "plan")
  /\ pull[t].next = N + 1
  /\ pull' = [pull EXCEPT ![t].at = "fetch"]
  /\ UNCHANGED <<files, temps>>

\* An asset is not valid, or a file cannot be read.
PlanFails(t) ==
  /\ PullAt(t, "plan")
  /\ pull' = [pull EXCEPT ![t].at = "error"]
  /\ UNCHANGED <<files, temps>>

-----------------------------------------------------------------------------
(* Fetch: fetchOne for each item, in the order of the plan *)

\* The server answers 200 and the temporary file is created.
Open(t) ==
  /\ PullAt(t, "fetch")
  /\ pull[t].todo # {}
  /\ temps' = temps \cup {<<t, boot>>}
  /\ pull' = [pull EXCEPT ![t].at = "body"]
  /\ UNCHANGED files

\* The body arrives: what was asked for or anything else, cut short or not.
Receive(t, c) ==
  /\ PullAt(t, "body")
  /\ Current(t) \notin Packed
  /\ pull' = [pull EXCEPT ![t].at = "verify", ![t].got = c]
  /\ UNCHANGED <<files, temps>>

\* Mutant: the digest is not compared.
Place_Unverified(t) ==
  LET i == Current(t) IN
  /\ PullAt(t, "verify")
  /\ files' = [files EXCEPT ![DestOf[i]] = pull[t].got]
  /\ temps' = temps \ {<<t, boot>>}
  /\ pull' = [pull EXCEPT ![t].at = "fetch", ![t].got = None,
                          ![t].todo = @ \ {i}]

\* The digest matches: rename the temporary file.
Place(t) ==
  LET i == Current(t) IN
  /\ PullAt(t, "verify")
  /\ pull[t].got = SumOf[i]
  /\ files' = [files EXCEPT ![DestOf[i]] = pull[t].got]
  /\ temps' = temps \ {<<t, boot>>}
  /\ pull' = [pull EXCEPT ![t].at = "fetch", ![t].got = None,
                          ![t].todo = @ \ {i}]

\* Mutant: the deferred removal is missing.
FetchFails_KeepsTemp(t) ==
  /\ pull[t].at \in {"fetch", "body", "verify"}
  /\ pull[t].todo # {}
  /\ pull' = [pull EXCEPT ![t].at = "error", ![t].got = None]
  /\ UNCHANGED <<files, temps>>

\* The token is not set, the transfer fails, the asset is an archive, the
\* digest differs, or the rename fails; the context may have ended.
FetchFails(t) ==
  /\ pull[t].at \in {"fetch", "body", "verify"}
  /\ pull[t].todo # {}
  /\ temps' = temps \ {<<t, boot>>}
  /\ pull' = [pull EXCEPT ![t].at = "error", ![t].got = None]
  /\ UNCHANGED files

Fetched(t) ==
  /\ PullAt(t, "fetch")
  /\ pull[t].todo = {}
  /\ pull' = [pull EXCEPT ![t].at = "fetched"]
  /\ UNCHANGED <<files, temps>>

AssetStep(t) ==
  \/ PlanOne(t) \/ Planned(t) \/ PlanFails(t)
  \/ Open(t) \/ (\E c \in Contents : Receive(t, c)) \/ Place(t) \/ FetchFails(t)
  \/ Fetched(t)

\* The daemon dies: files and temporary files stay.
AssetsCrash ==
  /\ pull' = [t \in Threads |-> NoPull]
  /\ UNCHANGED <<files, temps>>

-----------------------------------------------------------------------------
(* Properties *)

\* No other asset with another digest has the same destination.
Unshared(i) == \A j \in Assets : DestOf[j] = DestOf[i] => SumOf[j] = SumOf[i]

\* Every asset is where it belongs.
InPlace == \A i \in Assets : Unshared(i) => files[DestOf[i]] = SumOf[i]

\* The contents some asset declares for d.
Declared(d) == {SumOf[i] : i \in {j \in Assets : DestOf[j] = d}}

\* "A partial download never replaces a valid existing file": whatever a
\* server sends, pulls overlap or the daemon dies, no valid file gets lost.
ValidFilesStay ==
  [][\A d \in Dests : files[d] \in Declared(d) => files'[d] \in Declared(d)]_files

\* Fetch that returns nil leaves every asset in place, also those Plan found
\* correct long before, beside other pulls of the same directory.
FetchedMatch == \A t \in Threads : PullAt(t, "fetched") => InPlace

\* A temporary file is of a transfer in progress, or of a daemon that died.
NoLitter ==
  \A x \in temps : x[2] = boot => pull[x[1]].at \in {"body", "verify"}

-----------------------------------------------------------------------------
(* The inductive invariant behind them *)

\* What the plan has passed over is in place and stays so; the plan is whole
\* before the first transfer begins.
PullFormed(p, f) ==
  /\ p.at \in {"fetch", "body", "verify", "fetched"} => p.next = N + 1
  /\ p.at = "fetched" => p.todo = {}
  /\ p.at \in {"body", "verify"} => p.todo # {}
  /\ p.at \in {"plan", "fetch", "body", "verify", "fetched"} =>
       \A i \in 1..(p.next - 1) : i \notin p.todo /\ Unshared(i) => f[DestOf[i]] = SumOf[i]

PullsFormed == \A t \in Threads : PullFormed(pull[t], files)

\* No temporary file is of a daemon to come.
TempsFormed == NoLitter /\ \A x \in temps : x[2] <= boot
=============================================================================
