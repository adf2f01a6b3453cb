----------------------------- MODULE VenvSetup -----------------------------
(***************************************************************************)
(* internal/python: Setup of the virtual environment of one bundle         *)
(* directory.  Its sentinel file names the inputs it was built from; as    *)
(* requirements.txt never changes inside a bundle directory, the one input *)
(* that tells two sentinels apart is the content of the SDK, numbered in   *)
(* the order of its upgrades.                                              *)
(***************************************************************************)
EXTENDS Daemon

CONSTANTS
  MaxSdk,   \* bound on the versions of the SDK
  HasReqs   \* TRUE iff the bundle has a requirements.txt

Versions == 1..MaxSdk

ASSUME SdkAssumption == MaxSdk \in Nat \ {0} /\ HasReqs \in BOOLEAN

VARIABLES
  sdk,       \* the version now in <state>/sdk/python
  venv,      \* what .venv holds: an interpreter, the SDK of a version, packages
  sentinel,  \* the version .venv/gonnx.installed names; 0: no such file
  setup      \* what each thread is doing

venvVars == <<sdk, venv, sentinel, setup>>

SetupPlaces == {"idle", "hash", "compare", "clear", "create", "pip", "sdk", "reqs",
                "write", "ready", "error"}
Setups  == [at : SetupPlaces, hash : Versions \cup {0}]
NoSetup == [at |-> "idle", hash |-> 0]
Venvs   == [base : BOOLEAN, sdk : Versions \cup {0}, reqs : BOOLEAN]
NoVenv  == [base |-> FALSE, sdk |-> 0, reqs |-> FALSE]

VenvOK ==
  /\ sdk \in Versions
  /\ venv \in Venvs
  /\ sentinel \in Versions \cup {0}
  /\ setup \in [Threads -> Setups]

VenvInit ==
  /\ sdk = 1
  /\ venv = NoVenv
  /\ sentinel = 0
  /\ setup = [t \in Threads |-> NoSetup]

SetupAt(t, place) == setup[t].at = place
SetupTo(t, place) == setup' = [setup EXCEPT ![t].at = place]

-----------------------------------------------------------------------------

\* fileHash of requirements.txt and dirHash of the SDK.
Hash(t) ==
  /\ SetupAt(t, "hash")
  /\ setup' = [setup EXCEPT ![t].at = "compare", ![t].hash = sdk]
  /\ UNCHANGED <<sdk, venv, sentinel>>

\* Mutants: any sentinel will do, or none.
Compare_Any(t) ==
  /\ SetupAt(t, "compare")
  /\ SetupTo(t, IF sentinel # 0 THEN "ready" ELSE "clear")
  /\ UNCHANGED <<sdk, venv, sentinel>>

Compare_Never(t) ==
  /\ SetupAt(t, "compare")
  /\ SetupTo(t, "clear")
  /\ UNCHANGED <<sdk, venv, sentinel>>

\* An equal sentinel ends the call.
Compare(t) ==
  /\ SetupAt(t, "compare")
  /\ SetupTo(t, IF sentinel = setup[t].hash THEN "ready" ELSE "clear")
  /\ UNCHANGED <<sdk, venv, sentinel>>

\* python3 -m venv --clear is at work: it deletes file by file, in the order
\* of the directory, so the sentinel may go first or last.
Clear(t) ==
  /\ SetupAt(t, "clear")
  /\ venv' = NoVenv
  /\ sentinel' \in {sentinel, 0}
  /\ SetupTo(t, "create")
  /\ UNCHANGED sdk

\* It has deleted everything and created the environment anew.
Create(t) ==
  /\ SetupAt(t, "create")
  /\ venv' = [venv EXCEPT !.base = TRUE]
  /\ sentinel' = 0
  /\ SetupTo(t, "pip")
  /\ UNCHANGED sdk

\* pip runs from the environment: it needs the interpreter there.
UpgradePip(t) ==
  /\ SetupAt(t, "pip")
  /\ venv.base
  /\ SetupTo(t, "sdk")
  /\ UNCHANGED <<sdk, venv, sentinel>>

\* pip installs whatever the SDK directory holds by now.
InstallSdk(t) ==
  /\ SetupAt(t, "sdk")
  /\ venv.base
  /\ venv' = [venv EXCEPT !.sdk = sdk]
  /\ SetupTo(t, IF HasReqs THEN "reqs" ELSE "write")
  /\ UNCHANGED <<sdk, sentinel>>

InstallReqs(t) ==
  /\ SetupAt(t, "reqs")
  /\ venv.base
  /\ venv' = [venv EXCEPT !.reqs = TRUE]
  /\ SetupTo(t, "write")
  /\ UNCHANGED <<sdk, sentinel>>

\* Mutant: the hash is taken when the sentinel is written.
WriteSentinel_LateHash(t) ==
  /\ SetupAt(t, "write")
  /\ sentinel' = sdk
  /\ SetupTo(t, "ready")
  /\ UNCHANGED <<sdk, venv>>

WriteSentinel(t) ==
  /\ SetupAt(t, "write")
  /\ sentinel' = setup[t].hash
  /\ SetupTo(t, "ready")
  /\ UNCHANGED <<sdk, venv>>

\* A hash, a command or the write fails, or the context ends and the command
\* is killed; what was done stays.
SetupFails(t) ==
  /\ setup[t].at \notin {"idle", "compare", "ready", "error"}
  /\ SetupTo(t, "error")
  /\ UNCHANGED <<sdk, venv, sentinel>>

SetupStep(t) ==
  \/ Hash(t) \/ Compare(t) \/ Clear(t) \/ Create(t)
  \/ UpgradePip(t) \/ InstallSdk(t) \/ InstallReqs(t) \/ WriteSentinel(t)
  \/ SetupFails(t)

\* install.sh replaces the SDK of the state directory.
UpgradeSdk ==
  /\ sdk < MaxSdk
  /\ sdk' = sdk + 1
  /\ UNCHANGED <<venv, sentinel, setup>>

\* The daemon dies; the command it was running has ended or is killed.
VenvCrash ==
  /\ setup' = [t \in Threads |-> NoSetup]
  /\ UNCHANGED <<sdk, venv, sentinel>>

-----------------------------------------------------------------------------
(* Properties *)

\* Everything is installed.
Complete == venv.base /\ venv.sdk # 0 /\ (HasReqs => venv.reqs)

\* A sentinel that makes Setup skip ("sentinelFile records the inputs that
\* were used to build the venv", venv.go:26) belongs to a venv built from the
\* SDK as it is now: however builds were cut short, whatever order --clear
\* deletes in, and although the SDK may change while pip installs it.
UpToDateIsComplete ==
  sentinel = sdk => Complete /\ venv.sdk = sdk
=============================================================================
