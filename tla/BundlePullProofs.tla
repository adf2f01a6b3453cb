-------------------------- MODULE BundlePullProofs --------------------------
(***************************************************************************)
(* Proofs about BundlePull and the two components it is composed of, for   *)
(* any manifest, any number of concurrent pulls, of crashes and of SDK     *)
(* upgrades.  IndInv is inductive; the safety properties of AssetPull,     *)
(* VenvSetup and BundlePull follow from it.                                *)
(*                                                                         *)
(* The lemmas go by component: the steps of Fetch leave the environment    *)
(* alone, and those of Setup the assets, so each keeps the parts of the    *)
(* other because their variables do not change.                            *)
(***************************************************************************)
EXTENDS BundlePull, WellFoundedInduction, TLAPS

-----------------------------------------------------------------------------
(* The order of the plan *)

\* A set of asset numbers has a first one.
LEMMA FirstOfPlan ==
  ASSUME NEW S \in SUBSET Nat, S # {}
  PROVE  Min(S) \in S
<1>1. PICK x \in S : \A y \in S : <<y, x>> \notin OpToRel(<, Nat)
  BY WFMin, NatLessThanWellFounded, Zenon
<1>2. \A y \in S : ~(y < x)
  BY <1>1, Zenon DEF OpToRel
<1>3. \A y \in S : x <= y
  BY <1>2
<1> QED
  BY <1>3 DEF Min

\* The asset being fetched is one of the plan.
LEMMA CurrentPlanned ==
  ASSUME AssetsOK, NEW t \in Threads, pull[t].todo # {}
  PROVE  Current(t) \in pull[t].todo /\ Current(t) \in Assets
<1>1. pull[t].todo \in SUBSET Assets
  BY DEF AssetsOK, Pulls
<1>2. pull[t].todo \in SUBSET Nat
  BY <1>1, ManifestAssumption DEF Assets
<1> QED
  BY <1>1, <1>2, FirstOfPlan DEF Current

-----------------------------------------------------------------------------
(* Plan and Fetch *)

\* What is in place stays in place, and what is valid stays valid: a rename
\* happens after the digest has been compared.
LEMMA PlaceKeeps ==
  ASSUME AssetsOK, NEW t \in Threads, pull[t].todo # {}, Place(t)
  PROVE  /\ \A i \in Assets : Unshared(i) /\ files[DestOf[i]] = SumOf[i] =>
              files'[DestOf[i]] = SumOf[i]
         /\ \A d \in Dests : files[d] \in Declared(d) => files'[d] \in Declared(d)
         /\ files' \in [Dests -> Contents \cup {None}]
         /\ files'[DestOf[Current(t)]] = SumOf[Current(t)]
<1> DEFINE j == Current(t)
<1>1. j \in Assets /\ DestOf[j] \in Dests /\ SumOf[j] \in Contents
  BY CurrentPlanned, ManifestAssumption
<1>2. files' = [files EXCEPT ![DestOf[j]] = SumOf[j]]
  BY DEF Place
<1> HIDE DEF j
<1>3. files \in [Dests -> Contents \cup {None}]
  BY DEF AssetsOK
<1>4. SumOf[j] \in Declared(DestOf[j])
  BY <1>1 DEF Declared
<1>5. ASSUME NEW i \in Assets, Unshared(i), files[DestOf[i]] = SumOf[i]
      PROVE  files'[DestOf[i]] = SumOf[i]
  <2>1. DestOf[i] \in Dests
    BY ManifestAssumption
  <2> QED
    BY <1>1, <1>2, <1>3, <1>5, <2>1 DEF Unshared
<1>6. files'[DestOf[j]] = SumOf[j] /\ files' \in [Dests -> Contents \cup {None}]
  BY <1>1, <1>2, <1>3
<1>7. \A d \in Dests : files[d] \in Declared(d) => files'[d] \in Declared(d)
  BY <1>2, <1>3, <1>4
<1> QED
  BY <1>5, <1>6, <1>7 DEF j

\* A pull changes its own record only, to one that is well formed.
LEMMA PullMoves ==
  ASSUME AssetsOK, PullsFormed, NEW t \in Threads, NEW r \in Pulls,
         pull' = [pull EXCEPT ![t] = r],
         PullFormed(r, files'),
         \A i \in Assets : Unshared(i) /\ files[DestOf[i]] = SumOf[i] =>
           files'[DestOf[i]] = SumOf[i]
  PROVE  pull' \in [Threads -> Pulls] /\ PullsFormed'
<1>1. pull' \in [Threads -> Pulls]
  BY DEF AssetsOK
<1>2. ASSUME NEW u \in Threads PROVE PullFormed(pull'[u], files')
  <2>1. CASE u = t
    BY <2>1 DEF AssetsOK
  <2>2. CASE u # t
    <3>1. pull'[u] = pull[u] /\ pull[u] \in Pulls /\ PullFormed(pull[u], files)
      BY <2>2 DEF AssetsOK, PullsFormed
    <3>2. \A i \in 1..(pull[u].next - 1) : i \in Assets
      BY <3>1, ManifestAssumption DEF Pulls, Assets
    <3> QED
      BY <3>1, <3>2 DEF PullFormed
  <2> QED
    BY <2>1, <2>2
<1> QED
  BY <1>1, <1>2 DEF PullsFormed

\* The temporary files of the others are not touched.
LEMMA TempsMove ==
  ASSUME AssetsOK, TempsFormed, BootOK, boot' = boot, NEW t \in Threads, NEW r \in Pulls,
         pull' = [pull EXCEPT ![t] = r],
         \/ temps' = temps \ {<<t, boot>>}
         \/ temps' = temps \cup {<<t, boot>>} /\ r.at \in {"body", "verify"}
         \/ temps' = temps /\ (pull[t].at \in {"body", "verify"} => r.at \in {"body", "verify"})
  PROVE  temps' \subseteq Threads \X (0..MaxBoot) /\ TempsFormed'
<1>1. temps' \subseteq temps \cup {<<t, boot>>} /\ <<t, boot>> \in Threads \X (0..MaxBoot)
  BY DEF BootOK
<1>2. temps' \subseteq Threads \X (0..MaxBoot)
  BY <1>1 DEF AssetsOK
<1>3. ASSUME NEW x \in temps'
      PROVE  x[2] <= boot' /\ (x[2] = boot' => pull'[x[1]].at \in {"body", "verify"})
  <2>1. x[1] \in Threads /\ x[2] \in 0..MaxBoot /\ x = <<x[1], x[2]>>
    BY <1>2
  <2>2. x[2] <= boot
    BY <1>1, BootAssumption DEF TempsFormed, BootOK
  <2>3. CASE x[1] # t
    <3>1. x \in temps /\ pull'[x[1]] = pull[x[1]]
      BY <1>1, <2>1, <2>3 DEF AssetsOK
    <3> QED
      BY <2>2, <3>1 DEF TempsFormed, NoLitter
  <2>4. CASE x[1] = t /\ x[2] = boot
    <3>1. x = <<t, boot>> /\ pull'[t] = r
      BY <2>1, <2>4 DEF AssetsOK
    <3>2. x \in temps => pull[t].at \in {"body", "verify"}
      BY <2>4 DEF TempsFormed, NoLitter
    <3> QED
      BY <2>2, <2>4, <3>1, <3>2
  <2> QED
    BY <2>2, <2>3, <2>4
<1> QED
  BY <1>2, <1>3 DEF TempsFormed, NoLitter

\* A step of Plan or Fetch keeps what AssetPull promises.
LEMMA AssetStepKeeps ==
  ASSUME AssetsOK, PullsFormed, TempsFormed, BootOK, boot' = boot,
         NEW t \in Threads, BeginPull(t) \/ AssetStep(t)
  PROVE  AssetsOK' /\ PullsFormed' /\ TempsFormed'
<1> DEFINE p == pull[t]
<1>1. p \in Pulls /\ PullFormed(p, files) /\ N \in Nat
  BY ManifestAssumption DEF AssetsOK, PullsFormed
<1>2. files \in [Dests -> Contents \cup {None}]
  BY DEF AssetsOK
<1>3. CASE BeginPull(t)
  <2> DEFINE r == [NoPull EXCEPT !.at = "plan"]
  <2>1. r \in Pulls /\ PullFormed(r, files') /\ r.at = "plan"
    BY <1>1 DEF NoPull, Pulls, PullPlaces, PullFormed
  <2>2. pull' = [pull EXCEPT ![t] = r] /\ files' = files /\ temps' = temps
        /\ p.at = "idle"
    BY <1>3 DEF BeginPull, PullAt
  <2> HIDE DEF r
  <2> QED
    BY <1>2, <2>1, <2>2, PullMoves, TempsMove DEF AssetsOK
<1>4. CASE PlanOne(t)
  <2> DEFINE i == p.next
             T == IF CacheMiss(i) THEN p.todo \cup {i} ELSE p.todo
             r == [p EXCEPT !.next = i + 1, !.todo = T]
  <2>1. i \in Assets /\ p.at = "plan" /\ pull' = [pull EXCEPT ![t] = r]
        /\ files' = files /\ temps' = temps
    BY <1>4 DEF PlanOne, PullAt, AssetsOK
  <2>2. T \in SUBSET Assets /\ i + 1 \in 1..N + 1
    BY <1>1, <2>1 DEF Pulls, Assets
  <2>3. \A k \in 1..i : k \notin T /\ Unshared(k) => files[DestOf[k]] = SumOf[k]
    BY <1>1, <2>1 DEF PullFormed, Pulls, CacheMiss, Assets
  <2> HIDE DEF T
  <2>4. r \in Pulls /\ r.at = "plan" /\ r.next = i + 1 /\ r.todo = T
    BY <1>1, <2>1, <2>2 DEF Pulls
  <2>5. PullFormed(r, files')
    BY <1>1, <2>1, <2>3, <2>4 DEF PullFormed, Assets
  <2> HIDE DEF r
  <2> QED
    BY <1>2, <2>1, <2>4, <2>5, PullMoves, TempsMove DEF AssetsOK
<1>5. CASE Planned(t)
  <2> DEFINE r == [p EXCEPT !.at = "fetch"]
  <2>1. p.at = "plan" /\ p.next = N + 1 /\ pull' = [pull EXCEPT ![t] = r]
        /\ files' = files /\ temps' = temps
    BY <1>5 DEF Planned, PullAt, AssetsOK
  <2>2. r \in Pulls /\ r.at = "fetch" /\ PullFormed(r, files')
    BY <1>1, <2>1 DEF Pulls, PullPlaces, PullFormed
  <2> HIDE DEF r
  <2> QED
    BY <1>2, <2>1, <2>2, PullMoves, TempsMove DEF AssetsOK
<1>6. CASE PlanFails(t)
  <2> DEFINE r == [p EXCEPT !.at = "error"]
  <2>1. p.at = "plan" /\ pull' = [pull EXCEPT ![t] = r] /\ files' = files /\ temps' = temps
    BY <1>6 DEF PlanFails, PullAt, AssetsOK
  <2>2. r \in Pulls /\ r.at = "error" /\ PullFormed(r, files')
    BY <1>1, <2>1 DEF Pulls, PullPlaces, PullFormed
  <2> HIDE DEF r
  <2> QED
    BY <1>2, <2>1, <2>2, PullMoves, TempsMove DEF AssetsOK
<1>7. CASE Open(t)
  <2> DEFINE r == [p EXCEPT !.at = "body"]
  <2>1. p.at = "fetch" /\ p.todo # {} /\ pull' = [pull EXCEPT ![t] = r]
        /\ files' = files /\ temps' = temps \cup {<<t, boot>>}
    BY <1>7 DEF Open, PullAt, AssetsOK
  <2>2. r \in Pulls /\ r.at = "body" /\ PullFormed(r, files')
    BY <1>1, <2>1 DEF Pulls, PullPlaces, PullFormed
  <2> HIDE DEF r
  <2> QED
    BY <1>2, <2>1, <2>2, PullMoves, TempsMove DEF AssetsOK
<1>8. CASE \E c \in Contents : Receive(t, c)
  <2>1. PICK c \in Contents : Receive(t, c)
    BY <1>8
  <2> DEFINE r == [p EXCEPT !.at = "verify", !.got = c]
  <2>2. p.at = "body" /\ pull' = [pull EXCEPT ![t] = r] /\ files' = files /\ temps' = temps
    BY <2>1 DEF Receive, PullAt, AssetsOK
  <2>3. r \in Pulls /\ r.at = "verify" /\ PullFormed(r, files')
    BY <1>1, <2>2 DEF Pulls, PullPlaces, PullFormed
  <2> HIDE DEF r
  <2> QED
    BY <1>2, <2>2, <2>3, PullMoves, TempsMove DEF AssetsOK
<1>9. CASE Place(t)
  <2> DEFINE j == Current(t)
             r == [p EXCEPT !.at = "fetch", !.got = None, !.todo = @ \ {j}]
  <2>1. p.at = "verify" /\ p.todo # {} /\ pull' = [pull EXCEPT ![t] = r]
        /\ temps' = temps \ {<<t, boot>>}
    BY <1>1, <1>9 DEF Place, PullAt, AssetsOK, PullFormed
  <2>2. r \in Pulls /\ r.at = "fetch" /\ r.next = p.next /\ r.todo = p.todo \ {j}
    BY <1>1, <2>1 DEF Pulls, PullPlaces
  <2>3. /\ \A i \in Assets : Unshared(i) /\ files[DestOf[i]] = SumOf[i] =>
              files'[DestOf[i]] = SumOf[i]
        /\ files' \in [Dests -> Contents \cup {None}]
        /\ files'[DestOf[j]] = SumOf[j]
    BY <1>9, <2>1, PlaceKeeps
  <2> HIDE DEF j
  <2>4. PullFormed(r, files')
    BY <1>1, <2>1, <2>2, <2>3 DEF PullFormed, Assets
  <2> HIDE DEF r
  <2> QED
    BY <1>2, <2>1, <2>2, <2>3, <2>4, PullMoves, TempsMove DEF AssetsOK
<1>10. CASE FetchFails(t)
  <2> DEFINE r == [p EXCEPT !.at = "error", !.got = None]
  <2>1. pull' = [pull EXCEPT ![t] = r] /\ files' = files /\ temps' = temps \ {<<t, boot>>}
    BY <1>10 DEF FetchFails, AssetsOK
  <2>2. r \in Pulls /\ r.at = "error" /\ PullFormed(r, files')
    BY <1>1 DEF Pulls, PullPlaces, PullFormed
  <2> HIDE DEF r
  <2> QED
    BY <1>2, <2>1, <2>2, PullMoves, TempsMove DEF AssetsOK
<1>11. CASE Fetched(t)
  <2> DEFINE r == [p EXCEPT !.at = "fetched"]
  <2>1. p.at = "fetch" /\ p.todo = {} /\ pull' = [pull EXCEPT ![t] = r]
        /\ files' = files /\ temps' = temps
    BY <1>11 DEF Fetched, PullAt, AssetsOK
  <2>2. r \in Pulls /\ r.at = "fetched" /\ PullFormed(r, files')
    BY <1>1, <2>1 DEF Pulls, PullPlaces, PullFormed
  <2> HIDE DEF r
  <2> QED
    BY <1>2, <2>1, <2>2, PullMoves, TempsMove DEF AssetsOK
<1> QED
  BY <1>3, <1>4, <1>5, <1>6, <1>7, <1>8, <1>9, <1>10, <1>11 DEF AssetStep

\* A pull that has fetched its assets finds them in place.
LEMMA FetchedInPlace ==
  ASSUME AssetsOK, PullsFormed
  PROVE  FetchedMatch
<1>1. ASSUME NEW t \in Threads, PullAt(t, "fetched"), NEW i \in Assets, Unshared(i)
      PROVE  files[DestOf[i]] = SumOf[i]
  <2>1. PullFormed(pull[t], files) /\ pull[t].at = "fetched"
    BY <1>1 DEF PullsFormed, PullAt
  <2>2. pull[t].next = N + 1 /\ pull[t].todo = {} /\ N \in Nat
    BY <2>1, ManifestAssumption DEF PullFormed
  <2>3. i \in 1..(pull[t].next - 1) /\ i \notin pull[t].todo
    BY <2>2 DEF Assets
  <2> QED
    BY <1>1, <2>1, <2>3 DEF PullFormed
<1> QED
  BY <1>1 DEF FetchedMatch, InPlace

-----------------------------------------------------------------------------
(* Setup *)

\* What every step of a Setup has in common.
LEMMA SetupStepMoves ==
  ASSUME VenvOK, NEW t \in Threads, SetupStep(t)
  PROVE  /\ VenvOK'
         /\ ~SetupAt(t, "idle") /\ setup'[t].at # "idle"
         /\ \A u \in Threads \ {t} : setup'[u] = setup[u]
         /\ sdk' = sdk
         /\ venv'.sdk \in {venv.sdk, 0, sdk}
         /\ sentinel' \in {sentinel, 0, setup[t].hash}
         /\ setup'[t].hash \in {setup[t].hash, sdk}
<1> USE DEF SetupAt
<1>1. setup[t] \in Setups /\ sdk \in Versions /\ venv \in Venvs
      /\ setup \in [Threads -> Setups] /\ sentinel \in Versions \cup {0}
  BY DEF VenvOK
<1>2. ASSUME NEW place \in SetupPlaces \ {"idle"}, SetupTo(t, place)
      PROVE  /\ setup' \in [Threads -> Setups] /\ setup'[t].at = place
             /\ setup'[t].hash = setup[t].hash
             /\ \A u \in Threads \ {t} : setup'[u] = setup[u]
  BY <1>1, <1>2 DEF SetupTo, Setups
<1>3. CASE Hash(t)
  BY <1>1, <1>3 DEF Hash, VenvOK, Setups, SetupPlaces
<1>4. CASE Compare(t) \/ UpgradePip(t) \/ SetupFails(t)
  <2>1. PICK place \in SetupPlaces \ {"idle"} : SetupTo(t, place)
    BY <1>4 DEF Compare, UpgradePip, SetupFails, SetupPlaces
  <2>2. ~SetupAt(t, "idle") /\ UNCHANGED <<sdk, venv, sentinel>>
    BY <1>4 DEF Compare, UpgradePip, SetupFails
  <2> QED
    BY <1>1, <1>2, <2>1, <2>2 DEF VenvOK
<1>5. CASE Clear(t) \/ Create(t)
  <2>1. PICK place \in SetupPlaces \ {"idle"} : SetupTo(t, place)
    BY <1>5 DEF Clear, Create, SetupPlaces
  <2>2. ~SetupAt(t, "idle") /\ sdk' = sdk /\ sentinel' \in {sentinel, 0}
        /\ venv' \in {NoVenv, [venv EXCEPT !.base = TRUE]}
    BY <1>1, <1>5 DEF Clear, Create
  <2>3. venv' \in Venvs /\ venv'.sdk \in {venv.sdk, 0}
    <3>1. NoVenv \in Venvs /\ NoVenv.sdk = 0
      BY DEF NoVenv, Venvs
    <3>2. [venv EXCEPT !.base = TRUE] \in Venvs /\ [venv EXCEPT !.base = TRUE].sdk = venv.sdk
      BY <1>1 DEF Venvs
    <3> QED
      BY <2>2, <3>1, <3>2
  <2> QED
    BY <1>1, <1>2, <2>1, <2>2, <2>3 DEF VenvOK
<1>6. CASE InstallSdk(t) \/ InstallReqs(t)
  <2>1. PICK place \in SetupPlaces \ {"idle"} : SetupTo(t, place)
    BY <1>6 DEF InstallSdk, InstallReqs, SetupPlaces
  <2>2. ~SetupAt(t, "idle") /\ sdk' = sdk /\ sentinel' = sentinel
        /\ venv' \in Venvs /\ venv'.sdk \in {venv.sdk, sdk}
    BY <1>1, <1>6 DEF InstallSdk, InstallReqs, Venvs
  <2> QED
    BY <1>1, <1>2, <2>1, <2>2 DEF VenvOK
<1>7. CASE WriteSentinel(t)
  <2>1. SetupTo(t, "ready") /\ ~SetupAt(t, "idle") /\ sdk' = sdk /\ venv' = venv
        /\ sentinel' = setup[t].hash
    BY <1>7 DEF WriteSentinel
  <2>2. setup[t].hash \in Versions \cup {0}
    BY <1>1 DEF Setups
  <2> QED
    BY <1>1, <1>2, <2>1, <2>2 DEF VenvOK, SetupPlaces
<1> QED
  BY <1>3, <1>4, <1>5, <1>6, <1>7 DEF SetupStep

\* The environment as the only Setup leaves it: each step hands the next what
\* it relies on, and the sentinel vouches for no unfinished work.
LEMMA SetupStepSound ==
  ASSUME VenvOK, SdkBounds, OneAtATime, SetupsFormed, UpToDateIsComplete,
         NEW t \in Threads, SetupStep(t),
         pulled = sdk => sentinel = sdk
  PROVE  SetupsFormed' /\ UpToDateIsComplete' /\ (pulled = sdk' => sentinel' = sdk')
<1> USE DEF SetupAt
<1>1. setup[t] \in Setups /\ sdk \in Versions /\ venv \in Venvs
      /\ setup \in [Threads -> Setups] /\ sentinel \in Versions \cup {0}
  BY DEF VenvOK
<1>2. \A u \in Threads \ {t} : setup[u].at = "idle" /\ setup'[u] = setup[u]
  BY SetupStepMoves DEF OneAtATime
<1> DEFINE Good ==
      /\ ~(setup'[t].at \in {"idle", "hash", "error"}) => setup'[t].hash # 0
      /\ setup'[t].at = "compare" => sentinel' <= setup'[t].hash
      /\ setup'[t].at = "compare" /\ sentinel' = setup'[t].hash =>
           Complete' /\ venv'.sdk >= setup'[t].hash
      /\ setup'[t].at \in {"clear", "create"} => sentinel' < setup'[t].hash
      /\ setup'[t].at \in {"pip", "sdk", "reqs", "write"} => sentinel' = 0
      /\ setup'[t].at \in {"sdk", "reqs", "write"} => venv'.base
      /\ setup'[t].at \in {"reqs", "write"} => venv'.sdk >= setup'[t].hash
      /\ setup'[t].at = "write" => (HasReqs => venv'.reqs)
      /\ setup'[t].at = "ready" =>
           sentinel' = setup'[t].hash /\ Complete' /\ venv'.sdk >= setup'[t].hash
<1> DEFINE Kept == UpToDateIsComplete' /\ (pulled = sdk' => sentinel' = sdk')
<1>3. Good => SetupsFormed'
  <2> HIDE DEF Good
  <2>1. \A u \in Threads \ {t} : setup'[u].at = "idle"
    BY <1>2
  <2> QED
    BY <2>1 DEF SetupsFormed, Good
<1>4. sdk \in Nat /\ sentinel \in Nat /\ setup[t].hash \in Nat /\ venv.sdk \in Nat
      /\ sentinel <= sdk /\ venv.sdk <= sdk /\ setup[t].hash <= sdk /\ sdk # 0
  BY <1>1, SdkAssumption DEF SdkBounds, Versions, Setups, Venvs
<1>5. ASSUME NEW place, SetupTo(t, place)
      PROVE  setup'[t].at = place /\ setup'[t].hash = setup[t].hash
  BY <1>1, <1>5 DEF SetupTo, Setups
<1>6. CASE Hash(t)
  <2>1. setup'[t].at = "compare" /\ setup'[t].hash = sdk
        /\ UNCHANGED <<sdk, venv, sentinel>>
    BY <1>1, <1>6 DEF Hash, Setups
  <2> QED
    BY <1>3, <1>4, <2>1 DEF UpToDateIsComplete, Complete
<1>7. CASE Compare(t)
  <2>1. setup'[t].at = (IF sentinel = setup[t].hash THEN "ready" ELSE "clear")
        /\ setup'[t].hash = setup[t].hash /\ UNCHANGED <<sdk, venv, sentinel>>
        /\ setup[t].at = "compare"
    BY <1>5, <1>7 DEF Compare
  <2> QED
    BY <1>3, <1>4, <2>1 DEF SetupsFormed, UpToDateIsComplete, Complete
<1>8. CASE Clear(t)
  <2>1. setup'[t].at = "create" /\ setup'[t].hash = setup[t].hash /\ sdk' = sdk
        /\ setup[t].at = "clear" /\ sentinel' \in {sentinel, 0}
    BY <1>5, <1>8 DEF Clear
  <2> QED
    BY <1>3, <1>4, <2>1 DEF SetupsFormed, UpToDateIsComplete
<1>9. CASE Create(t)
  <2>1. setup'[t].at = "pip" /\ setup'[t].hash = setup[t].hash /\ sdk' = sdk
        /\ setup[t].at = "create" /\ sentinel' = 0
    BY <1>5, <1>9 DEF Create
  <2> QED
    BY <1>3, <1>4, <2>1 DEF SetupsFormed, UpToDateIsComplete
<1>10. CASE UpgradePip(t)
  <2>1. setup'[t].at = "sdk" /\ setup'[t].hash = setup[t].hash
        /\ setup[t].at = "pip" /\ venv.base /\ UNCHANGED <<sdk, venv, sentinel>>
    BY <1>5, <1>10 DEF UpgradePip
  <2> QED
    BY <1>3, <1>4, <2>1 DEF SetupsFormed, UpToDateIsComplete
<1>11. CASE InstallSdk(t)
  <2>1. setup'[t].at = (IF HasReqs THEN "reqs" ELSE "write")
        /\ setup'[t].hash = setup[t].hash /\ setup[t].at = "sdk"
        /\ venv'.base /\ venv'.sdk = sdk /\ UNCHANGED <<sdk, sentinel>>
    BY <1>1, <1>5, <1>11 DEF InstallSdk, Venvs
  <2> QED
    BY <1>3, <1>4, <2>1, SdkAssumption DEF SetupsFormed, UpToDateIsComplete
<1>12. CASE InstallReqs(t)
  <2>1. setup'[t].at = "write" /\ setup'[t].hash = setup[t].hash /\ setup[t].at = "reqs"
        /\ venv'.base /\ venv'.sdk = venv.sdk /\ venv'.reqs /\ UNCHANGED <<sdk, sentinel>>
    BY <1>1, <1>5, <1>12 DEF InstallReqs, Venvs
  <2> QED
    BY <1>3, <1>4, <2>1 DEF SetupsFormed, UpToDateIsComplete
<1>13. CASE WriteSentinel(t)
  <2>1. setup'[t].at = "ready" /\ setup'[t].hash = setup[t].hash /\ setup[t].at = "write"
        /\ sentinel' = setup[t].hash /\ UNCHANGED <<sdk, venv>>
    BY <1>5, <1>13 DEF WriteSentinel
  <2> QED
    BY <1>3, <1>4, <2>1 DEF SetupsFormed, UpToDateIsComplete, Complete
<1>14. CASE SetupFails(t)
  <2>1. setup'[t].at = "error" /\ UNCHANGED <<sdk, venv, sentinel>>
    BY <1>5, <1>14 DEF SetupFails
  <2> QED
    BY <1>3, <2>1 DEF UpToDateIsComplete, Complete
<1> QED
  BY <1>6, <1>7, <1>8, <1>9, <1>10, <1>11, <1>12, <1>13, <1>14 DEF SetupStep

-----------------------------------------------------------------------------
(* The handler, and the inductive invariant *)

\* No step of Plan or Fetch takes away an asset that is in place, or a valid file.
LEMMA AssetStepSafe ==
  ASSUME AssetsOK, PullsFormed, NEW t \in Threads, AssetStep(t)
  PROVE  /\ InPlace => InPlace'
         /\ \A d \in Dests : files[d] \in Declared(d) => files'[d] \in Declared(d)
         /\ pull[t].at # "fetched"
         /\ \A u \in Threads \ {t} : pull'[u] = pull[u]
<1>1. pull[t].at # "fetched" /\ \A u \in Threads \ {t} : pull'[u] = pull[u]
  BY DEF AssetStep, PlanOne, Planned, PlanFails, Open, Receive, Place, FetchFails, Fetched,
     PullAt, AssetsOK
<1>2. CASE Place(t)
  <2>1. PullFormed(pull[t], files) /\ pull[t].at = "verify"
    BY <1>2 DEF PullsFormed, Place, PullAt
  <2>2. pull[t].todo # {}
    BY <2>1 DEF PullFormed
  <2> QED
    BY <1>1, <1>2, <2>2, PlaceKeeps DEF InPlace
<1>3. CASE ~Place(t)
  <2>1. files' = files
    BY <1>3 DEF AssetStep, PlanOne, Planned, PlanFails, Open, Receive, FetchFails, Fetched
  <2> QED
    BY <1>1, <2>1 DEF InPlace
<1> QED
  BY <1>2, <1>3

\* A step that touches neither the environment nor its Setups.
LEMMA VenvKept ==
  ASSUME IndInv, UNCHANGED <<venvVars, pulled>>, InPlace => InPlace'
  PROVE  /\ VenvOK' /\ SdkBounds' /\ PulledKept' /\ (pulled \in Versions \cup {0})'
         /\ OneSetup => (OneAtATime /\ SetupsFormed /\ UpToDateIsComplete)'
<1>1. sdk' = sdk /\ venv' = venv /\ sentinel' = sentinel /\ setup' = setup /\ pulled' = pulled
  BY DEF venvVars
<1>2. VenvOK' /\ (pulled \in Versions \cup {0})'
  BY <1>1 DEF IndInv, TypeOK, VenvOK
<1>3. SdkBounds' /\ PulledKept'
  BY <1>1 DEF IndInv, SdkBounds, PulledKept
<1>4. OneSetup => (OneAtATime /\ SetupsFormed /\ UpToDateIsComplete)'
  BY <1>1 DEF IndInv, OneAtATime, SetupsFormed, UpToDateIsComplete, Complete, SetupAt
<1> QED
  BY <1>2, <1>3, <1>4

\* A step that touches neither files nor pulls.
LEMMA AssetsKept ==
  ASSUME IndInv, UNCHANGED <<boot, assetVars>>
  PROVE  BootOK' /\ AssetsOK' /\ PullsFormed' /\ TempsFormed' /\ (InPlace => InPlace')
<1>1. boot' = boot /\ files' = files /\ temps' = temps /\ pull' = pull
  BY DEF assetVars
<1>2. BootOK' /\ AssetsOK'
  BY <1>1 DEF IndInv, TypeOK, BootOK, AssetsOK
<1>3. PullsFormed' /\ TempsFormed' /\ (InPlace => InPlace')
  BY <1>1 DEF IndInv, PullsFormed, TempsFormed, NoLitter, InPlace
<1> QED
  BY <1>2, <1>3

\* A request arrives, or a pull plans or fetches.
LEMMA FetchingKeeps ==
  ASSUME IndInv, NEW t \in Threads,
         Request(t) \/ (AssetStep(t) /\ UNCHANGED <<boot, venvVars, pulled>>)
  PROVE  IndInv'
<1>1. BeginPull(t) \/ AssetStep(t)
  BY DEF Request
<1>2. UNCHANGED <<boot, venvVars, pulled>>
  BY DEF Request
<1>3. AssetsOK' /\ PullsFormed' /\ TempsFormed' /\ BootOK'
  BY <1>1, <1>2, AssetStepKeeps DEF IndInv, TypeOK, BootOK
<1>4. /\ InPlace => InPlace'
      /\ \A u \in Threads \ {t} : pull'[u] = pull[u]
      /\ SetupAt(t, "idle")
  <2>1. CASE Request(t)
    BY <2>1 DEF Request, BeginPull, InPlace, IndInv, TypeOK, AssetsOK
  <2>2. CASE AssetStep(t)
    BY <2>2, AssetStepSafe DEF IndInv, TypeOK, SetupAfterFetch, PullAt
  <2> QED
    BY <2>1, <2>2
<1>5. SetupAfterFetch'
  BY <1>2, <1>4 DEF IndInv, SetupAfterFetch, venvVars, SetupAt, PullAt
<1> QED
  BY <1>2, <1>3, <1>4, <1>5, VenvKept DEF IndInv, TypeOK

\* Fetch has returned and Setup begins.
LEMMA BeginSetupKeeps ==
  ASSUME IndInv, NEW t \in Threads, BeginSetup(t)
  PROVE  IndInv'
<1> USE DEF SetupAt
<1>1. UNCHANGED <<boot, assetVars, sdk, venv, sentinel, pulled>>
  BY DEF BeginSetup
<1>2. setup \in [Threads -> Setups] /\ setup[t] \in Setups
  BY DEF IndInv, TypeOK, VenvOK
<1>3. /\ setup'[t].at = "hash" /\ setup'[t].hash = setup[t].hash
      /\ setup' \in [Threads -> Setups]
      /\ \A u \in Threads \ {t} : setup'[u] = setup[u]
      /\ pull[t].at = "fetched"
      /\ OneSetup => \A u \in Threads : setup[u].at = "idle"
  BY <1>2 DEF BeginSetup, SetupTo, Setups, SetupPlaces, PullAt
<1>4. VenvOK' /\ (pulled \in Versions \cup {0})'
  BY <1>1, <1>3 DEF IndInv, TypeOK, VenvOK
<1>5. SetupAfterFetch'
  BY <1>1, <1>3 DEF IndInv, SetupAfterFetch, PullAt, assetVars
<1>6. SdkBounds'
  <2>1. \A u \in Threads : setup'[u].hash = setup[u].hash
    BY <1>3
  <2> QED
    BY <1>1, <2>1 DEF IndInv, SdkBounds
<1>7. PulledKept'
  BY <1>1, AssetsKept DEF IndInv, PulledKept
<1>8. OneSetup => OneAtATime' /\ SetupsFormed' /\ UpToDateIsComplete'
  <2>1. OneSetup => \A u \in Threads : setup'[u].at = IF u = t THEN "hash" ELSE "idle"
    BY <1>3
  <2>2. OneSetup => OneAtATime' /\ SetupsFormed'
    BY <2>1 DEF OneAtATime, SetupsFormed
  <2> QED
    BY <1>1, <2>2 DEF IndInv, UpToDateIsComplete, Complete
<1> QED
  BY <1>1, <1>4, <1>5, <1>6, <1>7, <1>8, AssetsKept DEF IndInv, TypeOK

\* Setup keeps what it says of itself, and what has been pulled.
LEMMA SetupStepKeeps ==
  ASSUME IndInv, NEW t \in Threads, SetupStep(t), UNCHANGED <<boot, assetVars, pulled>>
  PROVE  IndInv'
<1> USE DEF SetupAt
<1>1. VenvOK
  BY DEF IndInv, TypeOK
<1>2. /\ VenvOK'
      /\ setup[t].at # "idle" /\ setup'[t].at # "idle"
      /\ \A u \in Threads \ {t} : setup'[u] = setup[u]
      /\ sdk' = sdk
      /\ venv'.sdk \in {venv.sdk, 0, sdk}
      /\ sentinel' \in {sentinel, 0, setup[t].hash}
      /\ setup'[t].hash \in {setup[t].hash, sdk}
  BY <1>1, SetupStepMoves
<1>3. SetupAfterFetch'
  BY <1>2 DEF IndInv, SetupAfterFetch, PullAt, assetVars
<1>4. SdkBounds'
  <2>1. sdk \in Nat /\ sdk # 0
    BY <1>1, SdkAssumption DEF VenvOK, Versions
  <2>2. \A u \in Threads : setup'[u].hash <= sdk
    BY <1>2, <2>1 DEF IndInv, SdkBounds
  <2> QED
    BY <1>2, <2>1, <2>2 DEF IndInv, SdkBounds
<1>5. OneSetup => OneAtATime' /\ SetupsFormed' /\ UpToDateIsComplete'
                  /\ (pulled = sdk' => sentinel' = sdk')
  <2>1. ASSUME OneSetup
        PROVE  SetupsFormed' /\ UpToDateIsComplete' /\ (pulled = sdk' => sentinel' = sdk')
    BY <1>1, <2>1, SetupStepSound DEF IndInv, PulledKept
  <2>2. OneSetup => OneAtATime'
    BY <1>2 DEF IndInv, OneAtATime
  <2> QED
    BY <2>1, <2>2
<1>6. PulledKept' /\ (pulled \in Versions \cup {0})'
  BY <1>5, AssetsKept DEF IndInv, PulledKept, TypeOK
<1> QED
  BY <1>2, <1>3, <1>4, <1>5, <1>6, AssetsKept DEF IndInv, TypeOK

\* The stream ends, and its client has seen how.
LEMMA ReplyKeeps ==
  ASSUME IndInv, NEW t \in Threads, Reply(t)
  PROVE  IndInv'
<1> USE DEF SetupAt
<1>1. UNCHANGED <<boot, files, temps, sdk, venv, sentinel>>
  BY DEF Reply
<1>2. /\ pull \in [Threads -> Pulls] /\ setup \in [Threads -> Setups]
      /\ pull' = [pull EXCEPT ![t] = NoPull] /\ setup' = [setup EXCEPT ![t] = NoSetup]
  BY DEF IndInv, TypeOK, AssetsOK, VenvOK, Reply
<1>3. pull[t].at \in {"error", "fetched"}
  BY DEF Reply, PullAt, IndInv, SetupAfterFetch
<1>4. AssetsOK' /\ PullsFormed' /\ TempsFormed' /\ BootOK'
  <2>1. N \in Nat
    BY ManifestAssumption
  <2>2. NoPull \in Pulls /\ PullFormed(NoPull, files') /\ NoPull.at = "idle"
    BY <2>1 DEF NoPull, Pulls, PullPlaces, PullFormed
  <2>3. AssetsOK /\ PullsFormed /\ TempsFormed /\ BootOK
    BY DEF IndInv, TypeOK
  <2>4. pull' \in [Threads -> Pulls] /\ PullsFormed'
    BY <1>1, <1>2, <2>2, <2>3, PullMoves
  <2>5. temps' \subseteq Threads \X (0..MaxBoot) /\ TempsFormed'
    BY <1>1, <1>2, <1>3, <2>2, <2>3, TempsMove
  <2> QED
    BY <1>1, <2>3, <2>4, <2>5 DEF AssetsOK, BootOK
<1>5. /\ setup'[t].at = "idle" /\ setup'[t].hash = 0 /\ setup' \in [Threads -> Setups]
      /\ \A u \in Threads \ {t} : setup'[u] = setup[u] /\ pull'[u] = pull[u]
  BY <1>2 DEF NoSetup, Setups, SetupPlaces
<1>6. VenvOK' /\ SetupAfterFetch'
  BY <1>1, <1>5 DEF IndInv, TypeOK, VenvOK, SetupAfterFetch, PullAt
<1>7. pulled' \in {pulled, setup[t].hash} /\ (setup[t].at # "ready" => pulled' = pulled)
  BY DEF Reply, ClientSees
<1>8. SdkBounds' /\ (pulled \in Versions \cup {0})'
  <2>1. setup[t].hash \in Versions \cup {0} /\ 0 <= sdk
    BY <1>2, SdkAssumption DEF IndInv, TypeOK, VenvOK, Setups, Versions
  <2>2. \A u \in Threads : setup'[u].hash <= sdk
    BY <1>5, <2>1 DEF IndInv, SdkBounds
  <2> QED
    BY <1>1, <1>7, <2>1, <2>2 DEF IndInv, SdkBounds, TypeOK
<1>9. PulledKept'
  <2>1. InPlace' = InPlace
    BY <1>1 DEF InPlace
  <2>2. setup[t].at = "ready" => InPlace
    BY FetchedInPlace DEF IndInv, TypeOK, SetupAfterFetch, FetchedMatch
  <2>3. OneSetup /\ setup[t].at = "ready" => sentinel = setup[t].hash
    BY DEF IndInv, SetupsFormed
  <2> QED
    BY <1>1, <1>7, <2>1, <2>2, <2>3 DEF IndInv, PulledKept
<1>10. OneSetup => OneAtATime' /\ SetupsFormed' /\ UpToDateIsComplete'
  <2>1. OneSetup => OneAtATime'
    BY <1>5 DEF IndInv, OneAtATime
  <2>2. OneSetup => SetupsFormed'
    BY <1>1, <1>5 DEF IndInv, SetupsFormed, Complete
  <2> QED
    BY <1>1, <2>1, <2>2 DEF IndInv, UpToDateIsComplete, Complete
<1> QED
  BY <1>4, <1>6, <1>8, <1>9, <1>10 DEF IndInv, TypeOK

\* A newer SDK makes every sentinel out of date.
LEMMA UpgradeKeeps ==
  ASSUME IndInv, UpgradeSdk, UNCHANGED <<boot, assetVars, pulled>>
  PROVE  IndInv'
<1>1. sdk' = sdk + 1 /\ sdk' \in Versions /\ sdk \in Nat
      /\ UNCHANGED <<venv, sentinel, setup, pulled>>
  BY SdkAssumption DEF UpgradeSdk, IndInv, TypeOK, VenvOK, Versions
<1>2. VenvOK' /\ SetupAfterFetch' /\ (pulled \in Versions \cup {0})'
  BY <1>1 DEF IndInv, TypeOK, VenvOK, SetupAfterFetch, SetupAt, PullAt, assetVars
<1>3. sentinel \in Nat /\ pulled \in Nat /\ venv.sdk \in Nat
      /\ \A t \in Threads : setup[t].hash \in Nat
  BY SdkAssumption DEF IndInv, TypeOK, VenvOK, Versions, Venvs, Setups
<1>4. sentinel < sdk' /\ pulled < sdk' /\ SdkBounds'
  BY <1>1, <1>3 DEF IndInv, SdkBounds
<1>5. PulledKept'
  BY <1>1, <1>3, <1>4, AssetsKept DEF IndInv, PulledKept
<1>6. OneSetup => OneAtATime' /\ SetupsFormed' /\ UpToDateIsComplete'
  BY <1>1, <1>3, <1>4 DEF IndInv, OneAtATime, SetupsFormed, UpToDateIsComplete, Complete, SetupAt
<1> QED
  BY <1>2, <1>4, <1>5, <1>6, AssetsKept DEF IndInv, TypeOK

\* The daemon dies and starts again: its temporary files are of an earlier boot.
LEMMA RestartKeeps ==
  ASSUME IndInv, Restart, AssetsCrash, VenvCrash, UNCHANGED pulled
  PROVE  IndInv'
<1> USE DEF SetupAt
<1>1. boot' = boot + 1 /\ boot \in 0..MaxBoot /\ boot' \in 0..MaxBoot
  BY BootAssumption DEF Restart, IndInv, TypeOK, BootOK
<1>2. /\ pull' = [t \in Threads |-> NoPull] /\ setup' = [t \in Threads |-> NoSetup]
      /\ UNCHANGED <<files, temps, sdk, venv, sentinel, pulled>>
  BY DEF AssetsCrash, VenvCrash
<1>3. N \in Nat
  BY ManifestAssumption
<1>4. BootOK' /\ AssetsOK' /\ VenvOK' /\ (pulled \in Versions \cup {0})'
  <2>1. NoPull \in Pulls /\ NoSetup \in Setups
    BY <1>3 DEF NoPull, Pulls, PullPlaces, NoSetup, Setups, SetupPlaces
  <2> QED
    BY <1>1, <1>2, <2>1 DEF IndInv, TypeOK, BootOK, AssetsOK, VenvOK
<1>5. PullsFormed'
  BY <1>2 DEF PullsFormed, PullFormed, NoPull
<1>6. TempsFormed'
  <2>1. \A x \in temps : x[2] \in 0..MaxBoot /\ x[2] <= boot
    BY DEF IndInv, TypeOK, AssetsOK, TempsFormed
  <2>2. \A x \in temps : x[2] <= boot + 1 /\ x[2] # boot + 1
    BY <1>1, <2>1, BootAssumption
  <2> QED
    BY <1>1, <1>2, <2>2 DEF TempsFormed, NoLitter
<1>7. \A t \in Threads : setup'[t].at = "idle" /\ setup'[t].hash = 0
  BY <1>2 DEF NoSetup
<1>8. SetupAfterFetch' /\ SdkBounds' /\ PulledKept'
  <2>1. 0 <= sdk
    BY SdkAssumption DEF IndInv, TypeOK, VenvOK, Versions
  <2> QED
    BY <1>2, <1>7, <2>1 DEF IndInv, SetupAfterFetch, SdkBounds, PulledKept, InPlace
<1>9. OneSetup => OneAtATime' /\ SetupsFormed' /\ UpToDateIsComplete'
  BY <1>2, <1>7 DEF IndInv, OneAtATime, SetupsFormed, UpToDateIsComplete, Complete
<1> QED
  BY <1>4, <1>5, <1>6, <1>8, <1>9 DEF IndInv, TypeOK

\* Initially nothing is fetched and no environment is there.
LEMMA InitHolds == Init => IndInv
<1> SUFFICES ASSUME Init PROVE IndInv
  OBVIOUS
<1> USE DEF SetupAt
<1>1. N \in Nat /\ MaxBoot \in Nat /\ MaxSdk \in Nat \ {0}
  BY ManifestAssumption, BootAssumption, SdkAssumption
<1>2. TypeOK
  <2>1. NoPull \in Pulls /\ NoSetup \in Setups
    BY <1>1 DEF NoPull, Pulls, PullPlaces, NoSetup, Setups, SetupPlaces
  <2>2. BootOK /\ AssetsOK
    BY <1>1, <2>1 DEF Init, BootInit, AssetsInit, BootOK, AssetsOK
  <2>3. VenvOK /\ pulled \in Versions \cup {0}
    BY <1>1, <2>1 DEF Init, VenvInit, VenvOK, Versions, NoVenv, Venvs
  <2> QED
    BY <2>2, <2>3 DEF TypeOK
<1>3. PullsFormed /\ TempsFormed
  BY DEF Init, AssetsInit, NoPull, PullsFormed, PullFormed, TempsFormed, NoLitter
<1>4. \A t \in Threads : setup[t].at = "idle" /\ setup[t].hash = 0
  BY DEF Init, VenvInit, NoSetup
<1>5. sdk = 1 /\ sentinel = 0 /\ pulled = 0 /\ venv.sdk = 0
  BY DEF Init, VenvInit, NoVenv
<1>6. SetupAfterFetch /\ SdkBounds /\ PulledKept
  BY <1>4, <1>5 DEF SetupAfterFetch, SdkBounds, PulledKept
<1>7. OneAtATime /\ SetupsFormed /\ UpToDateIsComplete
  BY <1>4, <1>5 DEF OneAtATime, SetupsFormed, UpToDateIsComplete
<1> QED
  BY <1>2, <1>3, <1>6, <1>7 DEF IndInv

\* IndInv holds in every reachable state, whatever the manifest, with any
\* number of pulls, and also where clients let Setups overlap.
THEOREM Pulling == Spec => []IndInv
<1>1. IndInv /\ [Next]_pullVars => IndInv'
  <2> SUFFICES ASSUME IndInv, [Next]_pullVars PROVE IndInv'
    OBVIOUS
  <2>1. CASE UNCHANGED pullVars
    <3>1. UNCHANGED <<boot, assetVars>> /\ UNCHANGED <<venvVars, pulled>>
          /\ pull' = pull /\ setup' = setup
      BY <2>1 DEF pullVars, assetVars, venvVars
    <3>2. SetupAfterFetch'
      BY <3>1 DEF IndInv, SetupAfterFetch, SetupAt, PullAt
    <3> QED
      BY <3>1, <3>2, AssetsKept, VenvKept DEF IndInv, TypeOK
  <2>2. ASSUME NEW t \in Threads, Handler(t) PROVE IndInv'
    BY <2>2, FetchingKeeps, BeginSetupKeeps, SetupStepKeeps, ReplyKeeps DEF Handler
  <2>3. CASE UpgradeSdk /\ UNCHANGED <<boot, assetVars, pulled>>
    BY <2>3, UpgradeKeeps
  <2>4. CASE Restart /\ AssetsCrash /\ VenvCrash /\ UNCHANGED pulled
    BY <2>4, RestartKeeps
  <2> QED
    BY <2>1, <2>2, <2>3, <2>4 DEF Next
<1> QED
  BY <1>1, InitHolds, PTL DEF Spec

-----------------------------------------------------------------------------
(* What follows *)

\* Fetch that returns nil has left every asset in place (assets.go, Fetch).
THEOREM FetchDelivers == Spec => []FetchedMatch
<1>1. IndInv => FetchedMatch
  BY FetchedInPlace DEF IndInv, TypeOK
<1> QED
  BY <1>1, Pulling, PTL

\* No temporary file is left by a daemon that lives on.
THEOREM NothingLeftOver == Spec => []NoLitter
<1>1. IndInv => NoLitter
  BY DEF IndInv, TempsFormed
<1> QED
  BY <1>1, Pulling, PTL

\* No valid file is ever replaced by what a server sent instead.
THEOREM ValidFilesKept == Spec => ValidFilesStay
<1>1. IndInv /\ [Next]_pullVars =>
        [\A d \in Dests : files[d] \in Declared(d) => files'[d] \in Declared(d)]_files
  <2> SUFFICES ASSUME IndInv, Next, files' # files
               PROVE  \A d \in Dests : files[d] \in Declared(d) => files'[d] \in Declared(d)
    BY DEF pullVars, assetVars
  <2>1. PICK t \in Threads : AssetStep(t)
    BY DEF Next, Handler, Request, BeginPull, BeginSetup, Reply, SetupStep, UpgradeSdk,
       AssetsCrash, assetVars
  <2> QED
    BY <2>1, AssetStepSafe DEF IndInv, TypeOK
<1> QED
  BY <1>1, Pulling, PTL DEF Spec, ValidFilesStay

\* Where Setups of the directory do not overlap, a sentinel that makes Setup
\* skip belongs to a complete environment of the present SDK (venv.go:26).
THEOREM SentinelVouches ==
  ASSUME OneSetup
  PROVE  Spec => []UpToDateIsComplete
<1>1. IndInv => UpToDateIsComplete
  BY DEF IndInv
<1> QED
  BY <1>1, Pulling, PTL

\* And a pull that ends with "done" leaves a bundle that can be loaded.
THEOREM DoneMeansReady ==
  ASSUME OneSetup
  PROVE  Spec => []DoneIsReady
<1>1. IndInv => DoneIsReady
  <2> SUFFICES ASSUME IndInv, NEW t \in Threads, SetupAt(t, "ready")
               PROVE  InPlace /\ Complete /\ venv.sdk >= setup[t].hash
    BY DEF DoneIsReady
  <2>1. InPlace
    BY FetchedInPlace DEF IndInv, TypeOK, SetupAfterFetch, SetupAt, FetchedMatch
  <2>2. Complete /\ venv.sdk >= setup[t].hash
    BY DEF IndInv, SetupsFormed
  <2> QED
    BY <2>1, <2>2
<1> QED
  BY <1>1, Pulling, PTL

\* What a client has pulled for the present SDK stays loadable.
THEOREM PulledIsKept ==
  ASSUME OneSetup
  PROVE  Spec => []PulledStaysLoadable
<1>1. IndInv => PulledStaysLoadable
  <2>1. IndInv => sdk # 0
    BY SdkAssumption DEF IndInv, TypeOK, VenvOK, Versions
  <2> QED
    BY <2>1 DEF IndInv, PulledKept, PulledStaysLoadable, UpToDateIsComplete
<1> QED
  BY <1>1, Pulling, PTL
=============================================================================
