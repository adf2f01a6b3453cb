----------------------------- MODULE ModelStore -----------------------------
(***************************************************************************)
(* What the daemon promises about installed models, without files, git,    *)
(* rows and requests in progress: a catalogue of usable revisions, and for *)
(* each name the revision its worker was started from and whether it is    *)
(* ready or degraded.  Every call has one effect or none.  BundleStore     *)
(* implements it for disciplined clients.                                  *)
(***************************************************************************)
EXTENDS Naturals

CONSTANTS Names, Sources, MaxRev, None

VARIABLES
  catalog,  \* name -> the installed revision, usable, or None
  running   \* name -> its worker, ready or degraded, or None

vars == <<catalog, running>>

Entries == [src : Sources, rev : 1..MaxRev]
Workers == [src : Sources, rev : 1..MaxRev, ready : BOOLEAN]

Init == catalog = [n \in Names |-> None] /\ running = catalog

\* Install or update; a running worker is left alone.
Install(n, e) == catalog' = [catalog EXCEPT ![n] = e] /\ UNCHANGED running

\* Delete: only what does not run.
Remove(n) ==
  /\ running[n] = None
  /\ catalog' = [catalog EXCEPT ![n] = None]
  /\ UNCHANGED running

IsReady(n) == running[n] # None /\ running[n].ready

\* A ready worker is never replaced by another, only stopped first; loading
\* a degraded one again replaces it, perhaps by one of a later revision.
Start(n, w) ==
  /\ catalog[n] # None /\ ~IsReady(n)
  /\ running' = [running EXCEPT ![n] = w]
  /\ UNCHANGED catalog

\* What replaces a degraded worker may fail.
Fail(n) ==
  /\ catalog[n] # None /\ ~IsReady(n)
  /\ running' = [running EXCEPT ![n] = None]
  /\ UNCHANGED catalog

\* Unload, or the first step of delete.
Stop(n) == running' = [running EXCEPT ![n] = None] /\ UNCHANGED catalog

\* The daemon's end takes the workers along, not the catalogue.
Down == running' = [n \in Names |-> None] /\ UNCHANGED catalog

Next ==
  \/ Down
  \/ \E n \in Names :
       \/ Remove(n) \/ Fail(n) \/ Stop(n)
       \/ \E e \in Entries : Install(n, e)
       \/ \E w \in Workers : Start(n, w)

Spec == Init /\ [][Next]_vars
=============================================================================
