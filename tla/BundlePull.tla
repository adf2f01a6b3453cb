---------------------------- MODULE BundlePull ----------------------------
(***************************************************************************)
(* handlePull of internal/api for one bundle directory: Plan and Fetch of  *)
(* its assets (AssetPull), then Setup of its environment (VenvSetup), by   *)
(* any number of concurrent requests, with crashes of the daemon and       *)
(* upgrades of the SDK in between.  At the other end of each request is a  *)
(* gonnxctl pull, which reads the stream to its last line.  Registry       *)
(* look-ups and the removal of the directory by a delete are BundleStore's.*)
(***************************************************************************)
EXTENDS AssetPull, VenvSetup

CONSTANT
  OneSetup  \* TRUE: clients do not let two Setups of the directory overlap

ASSUME OneSetupAssumption == OneSetup \in BOOLEAN

VARIABLE
  pulled  \* history: the SDK the last successful gonnxctl pull was for, or 0

pullVars == <<boot, assetVars, venvVars, pulled>>

TypeOK == BootOK /\ AssetsOK /\ VenvOK /\ pulled \in Versions \cup {0}

Init == BootInit /\ AssetsInit /\ VenvInit /\ pulled = 0

\* A request arrives.
Request(t) ==
  /\ SetupAt(t, "idle")
  /\ BeginPull(t)
  /\ UNCHANGED <<boot, venvVars, pulled>>

\* Fetch returned nil: the handler calls python.Setup.
BeginSetup(t) ==
  /\ PullAt(t, "fetched")
  /\ SetupAt(t, "idle")
  /\ OneSetup => \A u \in Threads : SetupAt(u, "idle")
  /\ SetupTo(t, "hash")
  /\ UNCHANGED <<boot, assetVars, sdk, venv, sentinel, pulled>>

\* Mutant: the last line is taken for success whatever it says.
ClientSees_AnyEnd(t) == pulled' = setup[t].hash

\* gonnxctl succeeds if it reads "done"; an "error" line or a stream that
\* breaks off, as after the server's WriteTimeout, makes it fail.
ClientSees(t) ==
  IF SetupAt(t, "ready") THEN pulled' \in {pulled, setup[t].hash} ELSE pulled' = pulled

\* The last line of the stream: "done" or "error".
Reply(t) ==
  /\ ClientSees(t)
  /\ PullAt(t, "error") \/ setup[t].at \in {"ready", "error"}
  /\ pull' = [pull EXCEPT ![t] = NoPull]
  /\ setup' = [setup EXCEPT ![t] = NoSetup]
  /\ UNCHANGED <<boot, files, temps, sdk, venv, sentinel>>

Handler(t) ==
  \/ Request(t) \/ BeginSetup(t) \/ Reply(t)
  \/ AssetStep(t) /\ UNCHANGED <<boot, venvVars, pulled>>
  \/ SetupStep(t) /\ UNCHANGED <<boot, assetVars, pulled>>

Next ==
  \/ \E t \in Threads : Handler(t)
  \/ UpgradeSdk /\ UNCHANGED <<boot, assetVars, pulled>>
  \/ Restart /\ AssetsCrash /\ VenvCrash /\ UNCHANGED pulled

Spec == Init /\ [][Next]_pullVars

-----------------------------------------------------------------------------

\* A pull that ends with "done" leaves a bundle that can be loaded: every
\* asset verified, and an environment complete and not older than the pull.
DoneIsReady ==
  \A t \in Threads : SetupAt(t, "ready") =>
    InPlace /\ Complete /\ venv.sdk >= setup[t].hash

\* Once gonnxctl pull has succeeded for the present SDK, the bundle can be
\* loaded for good: no later pull of it, failing, cut short, repeated or
\* beside another, takes an asset or the environment away (Setup "creates (or
\* reuses)" it, venv.go:42), also while it runs.
PulledStaysLoadable == pulled = sdk => Complete /\ InPlace

\* When nobody is at work on the environment, a sentinel that would make the
\* next Setup skip belongs to a complete one; without OneSetup it need not.
SettledVenv ==
  (\A t \in Threads : SetupAt(t, "idle")) => UpToDateIsComplete

-----------------------------------------------------------------------------
(* The inductive invariant *)

\* The handler calls Setup after Fetch, and does nothing to the assets then.
SetupAfterFetch == \A t \in Threads : ~SetupAt(t, "idle") => PullAt(t, "fetched")

\* No SDK is named that has not been there.
SdkBounds ==
  /\ sentinel <= sdk /\ venv.sdk <= sdk /\ pulled <= sdk
  /\ \A t \in Threads : setup[t].hash <= sdk

OneAtATime == \A t, u \in Threads : ~SetupAt(t, "idle") /\ ~SetupAt(u, "idle") => t = u

\* What one Setup may rely on while it is the only one.  The sentinel is of an
\* SDK not newer than the one it has hashed, and is gone, or too old to vouch
\* for anything, from the moment the environment is touched to the last step.
SetupsFormed == \A t \in Threads :
  /\ ~(setup[t].at \in {"idle", "hash", "error"}) => setup[t].hash # 0
  /\ SetupAt(t, "compare") => sentinel <= setup[t].hash
  /\ SetupAt(t, "compare") /\ sentinel = setup[t].hash => Complete /\ venv.sdk >= setup[t].hash
  /\ setup[t].at \in {"clear", "create"} => sentinel < setup[t].hash
  /\ setup[t].at \in {"pip", "sdk", "reqs", "write"} => sentinel = 0
  /\ setup[t].at \in {"sdk", "reqs", "write"} => venv.base
  /\ setup[t].at \in {"reqs", "write"} => venv.sdk >= setup[t].hash
  /\ SetupAt(t, "write") => (HasReqs => venv.reqs)
  /\ SetupAt(t, "ready") => sentinel = setup[t].hash /\ Complete /\ venv.sdk >= setup[t].hash

\* A success seen for the present SDK rests on the sentinel and on assets that
\* nobody takes away.
PulledKept ==
  /\ pulled # 0 => InPlace
  /\ OneSetup /\ pulled = sdk => sentinel = sdk

IndInv ==
  /\ TypeOK /\ PullsFormed /\ TempsFormed /\ SetupAfterFetch /\ SdkBounds /\ PulledKept
  /\ OneSetup => OneAtATime /\ SetupsFormed /\ UpToDateIsComplete
=============================================================================
