------------------------------ MODULE Daemon ------------------------------
(***************************************************************************)
(* What the handlers of one gonnxd process share, whatever they work on:   *)
(* the goroutines of its HTTP requests, and the fact that the process may  *)
(* die and be started again while files stay as they are.                  *)
(***************************************************************************)
EXTENDS Naturals

CONSTANTS
  Threads,  \* request handlers
  MaxBoot   \* bound on restarts

ASSUME BootAssumption == MaxBoot \in Nat

VARIABLE boot  \* restarts so far

BootOK   == boot \in 0..MaxBoot
BootInit == boot = 0
Restart  == boot < MaxBoot /\ boot' = boot + 1
=============================================================================
