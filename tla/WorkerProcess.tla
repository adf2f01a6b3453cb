--------------------------- MODULE WorkerProcess ---------------------------
(***************************************************************************)
(* What a worker process is to the manager that started it: it comes up,   *)
(* answers whoever asks, may hang for ever, and is gone in the end.  This  *)
(* is the picture WorkerManager has of the Python program; WorkerServer    *)
(* models that program and implements it.                                  *)
(***************************************************************************)
CONSTANT Callers  \* goroutines of the daemon that send it requests

VARIABLES
  proc,  \* the states a process has in WorkerManager, from "booting" on
  call   \* what each caller asks, or how that ended, or "none"

vars == <<proc, call>>

Requests == {"health", "describe", "predict", "shutdown"}

Init == proc = "booting" /\ call = [c \in Callers |-> "none"]

Set(c, value) == call' = [call EXCEPT ![c] = value]

Asks(c)    == call[c] = "none" /\ (\E r \in Requests : Set(c, r)) /\ UNCHANGED proc
Returns(c) == call[c] \in {"ok", "failed"} /\ Set(c, "none") /\ UNCHANGED proc

Bind  == proc = "booting" /\ proc' = "serving" /\ UNCHANGED call
Hang  == proc = "serving" /\ proc' = "hung" /\ UNCHANGED call
Crash == proc # "zombie" /\ proc' = "zombie" /\ UNCHANGED call

\* Only a serving process answers, and only a handler's answer can be bad.
\* The answer to /shutdown is the last one.
Answered(c) ==
  /\ proc = "serving"
  /\ call[c] \in Requests
  /\ Set(c, "ok") \/ (call[c] = "predict" /\ Set(c, "failed"))
  /\ proc' = IF call[c] = "shutdown" THEN "stopping" ELSE proc

\* One that serves or hangs refuses nobody.
Fails(c) ==
  /\ proc \notin {"serving", "hung"}
  /\ call[c] \in Requests
  /\ Set(c, "failed")
  /\ UNCHANGED proc

GivesUp(c) == call[c] \in Requests /\ Set(c, "failed") /\ UNCHANGED proc

\* A /shutdown is obeyed also when its caller has given up.
Obeys == proc = "serving" /\ proc' = "stopping" /\ UNCHANGED call

Next ==
  \/ Bind \/ Hang \/ Crash \/ Obeys
  \/ \E c \in Callers : Asks(c) \/ Answered(c) \/ Fails(c) \/ GivesUp(c) \/ Returns(c)

Spec == Init /\ [][Next]_vars
=============================================================================
