---------------------------- MODULE WorkerServer ----------------------------
(***************************************************************************)
(* One worker process: sdk/python/gonnx (worker.py, server.py, context.py, *)
(* model_worker.py), with the goroutines of the daemon that call it.       *)
(*                                                                         *)
(* serve() imports the handler, loads the model, binds the socket and then *)
(* serves one connection after the other, in the order they were made.  A  *)
(* connection carries one request (HTTP/1.0).  Handler code is foreign: it *)
(* returns a value, with or without extra headers, that may not be JSON;   *)
(* or raises, ends the process, or never returns.  A request is written in *)
(* the step that connects; a reply is read in the step that writes it.     *)
(***************************************************************************)
EXTENDS Naturals, Sequences, SequencesExt

CONSTANTS
  Callers,  \* goroutines inside client.Do
  Kinds,    \* the requests they send
  None      \* nobody

AllKinds == {"health", "describe", "predict", "shutdown"}

ASSUME KindsAssumption == Kinds \subseteq AllKinds
ASSUME NobodyAssumption == None \notin Callers

VARIABLES
  engine,    \* GONNX_ENGINE
  subclass,  \* TRUE iff the callable is a ModelWorker
  phase,     \* where serve() is
  session,   \* TRUE iff ctx._session is there
  loads,     \* how often ModelWorker.load has run
  stop,      \* _SHUTDOWN
  file,      \* what is at GONNX_SOCKET
  queue,     \* connections not yet accepted
  current,   \* the caller being served, or None
  header,    \* TRUE iff the reply buffer already holds header lines
  call       \* what each caller asks and how that went

vars == <<engine, subclass, phase, session, loads, stop, file, queue,
          current, header, call>>

Engines   == {"onnxruntime", "torch"}
NonOnnx   == {"torch"}  \* and "torch_jit", which is treated alike
Starting  == {"start", "imported", "prepared", "bound"}
Listening == {"accepting", "handling", "hung"}
Phases    == Starting \cup Listening \cup {"exited"}

\* A reply is a status line and what follows it, or what Go cannot parse, or
\* no reply at all.
Replies == {"none", "200", "other status", "malformed", "lost", "cancelled"}

Calls == [kind : AllKinds \cup {"none"}, at : {"idle", "dial", "sent", "done"},
          reply : Replies, ran : 0..2, extra : BOOLEAN]

Idle == [kind |-> "none", at |-> "idle", reply |-> "none", ran |-> 0, extra |-> FALSE]

TypeOK ==
  /\ engine \in Engines /\ subclass \in BOOLEAN
  /\ phase \in Phases
  /\ session \in BOOLEAN /\ loads \in 0..1
  /\ stop \in BOOLEAN
  /\ file \in {"none", "stale", "own"}
  /\ queue \in Seq(Callers) /\ IsInjective(queue)
  /\ current \in Callers \cup {None}
  /\ header \in BOOLEAN
  /\ call \in [Callers -> Calls]

Init ==
  /\ engine \in Engines /\ subclass \in BOOLEAN
  /\ phase = "start"
  /\ session = FALSE /\ loads = 0 /\ stop = FALSE
  /\ file \in {"none", "stale"}
  /\ queue = <<>> /\ current = None /\ header = FALSE
  /\ call = [c \in Callers |-> Idle]

bundle == <<engine, subclass>>
model  == <<session, loads>>
wire   == <<queue, current, header, call>>

-----------------------------------------------------------------------------
(* serve, up to its loop *)

\* _load_callable
Import ==
  /\ phase = "start"
  /\ phase' = "imported"
  /\ UNCHANGED <<bundle, model, stop, file, wire>>

\* Mutant: the model is loaded by the first predict.
Prepare_Lazy ==
  /\ phase = "imported"
  /\ phase' = "prepared"
  /\ UNCHANGED <<bundle, model, stop, file, wire>>

\* ctx.session, or ModelWorker.startup: a ModelWorker of a bundle with an
\* ONNX engine is not started.
Prepare ==
  /\ phase = "imported"
  /\ phase' = "prepared"
  /\ session' = (engine \notin NonOnnx)
  /\ loads' = IF engine \in NonOnnx /\ subclass THEN loads + 1 ELSE loads
  /\ UNCHANGED <<bundle, stop, file, wire>>

\* server_bind removes what is there.
Bind ==
  /\ phase = "prepared"
  /\ phase' = "bound"
  /\ file' = "own"
  /\ UNCHANGED <<bundle, model, stop, wire>>

\* server_activate
Listen ==
  /\ phase = "bound"
  /\ phase' = "accepting"
  /\ UNCHANGED <<bundle, model, stop, file, wire>>

-----------------------------------------------------------------------------
(* The callers *)

Ends(c, reply) == [call EXCEPT ![c].at = "done", ![c].reply = reply]

Ask(c) ==
  /\ call[c].at = "idle"
  /\ \E k \in Kinds : call' = [call EXCEPT ![c].kind = k, ![c].at = "dial"]
  /\ UNCHANGED <<bundle, phase, model, stop, file, queue, current, header>>

Connect(c) ==
  /\ call[c].at = "dial"
  /\ phase \in Listening
  /\ call' = [call EXCEPT ![c].at = "sent"]
  /\ queue' = Append(queue, c)
  /\ UNCHANGED <<bundle, phase, model, stop, file, current, header>>

\* Nobody listens, or the connection went with the process.
Lost(c) ==
  /\ \/ call[c].at = "dial" /\ phase \notin Listening
     \/ call[c].at = "sent" /\ phase = "exited"
  /\ call' = Ends(c, "lost")
  /\ UNCHANGED <<bundle, phase, model, stop, file, queue, current, header>>

\* The context ends.  The server finds out when it writes the reply.
Cancel(c) ==
  /\ call[c].at \in {"dial", "sent"}
  /\ call' = Ends(c, "cancelled")
  /\ UNCHANGED <<bundle, phase, model, stop, file, queue, current, header>>

\* A goroutine that still has a connection in the queue is another caller.
Return(c) ==
  /\ call[c].at = "done"
  /\ c # current /\ ~Contains(queue, c)
  /\ call' = [call EXCEPT ![c] = Idle]
  /\ UNCHANGED <<bundle, phase, model, stop, file, queue, current, header>>

-----------------------------------------------------------------------------
(* handle_request *)

\* Mutants: the newest connection first; one handler object for all; the
\* flag is not looked at; the connection is not taken off the queue.
Accept_Newest ==
  /\ phase = "accepting" /\ ~stop /\ queue # <<>>
  /\ phase' = "handling"
  /\ current' = Last(queue)
  /\ queue' = Front(queue)
  /\ header' = FALSE
  /\ UNCHANGED <<bundle, model, stop, file, call>>

Accept_KeepsHandler ==
  /\ phase = "accepting" /\ ~stop /\ queue # <<>>
  /\ phase' = "handling"
  /\ current' = Head(queue)
  /\ queue' = Tail(queue)
  /\ UNCHANGED <<bundle, model, stop, file, header, call>>

Accept_AfterStop ==
  /\ phase = "accepting" /\ queue # <<>>
  /\ phase' = "handling"
  /\ current' = Head(queue)
  /\ queue' = Tail(queue)
  /\ header' = FALSE
  /\ UNCHANGED <<bundle, model, stop, file, call>>

Accept_Peeks ==
  /\ phase = "accepting" /\ ~stop /\ queue # <<>>
  /\ phase' = "handling"
  /\ current' = Head(queue)
  /\ header' = FALSE
  /\ UNCHANGED <<bundle, model, stop, file, queue, call>>

\* A new handler object, with an empty buffer, for each connection.
Accept ==
  /\ phase = "accepting" /\ ~stop /\ queue # <<>>
  /\ phase' = "handling"
  /\ current' = Head(queue)
  /\ queue' = Tail(queue)
  /\ header' = FALSE
  /\ UNCHANGED <<bundle, model, stop, file, call>>

Serves(kind) == phase = "handling" /\ call[current].kind = kind

\* The connection is closed after the reply, which a caller that has given
\* up does not get.
Finish(c, reply) ==
  /\ phase' = "accepting"
  /\ current' = None
  /\ call' = IF c.at = "sent" THEN [call EXCEPT ![current] =
               [c EXCEPT !.at = "done", !.reply = reply]] ELSE [call EXCEPT ![current] = c]

\* send_response puts the status line behind what the buffer holds.
Line(status) == IF header THEN "malformed" ELSE status

Health ==
  /\ Serves("health") \/ Serves("describe")
  /\ Finish(call[current], Line("200"))
  /\ UNCHANGED <<bundle, model, stop, file, queue, header>>

\* Mutant: _shutdown sets a local variable.
Shutdown_Local ==
  /\ Serves("shutdown")
  /\ Finish(call[current], Line("200"))
  /\ UNCHANGED <<bundle, model, stop, file, queue, header>>

\* 204
Shutdown ==
  /\ Serves("shutdown")
  /\ stop' = TRUE
  /\ Finish(call[current], Line("200"))
  /\ UNCHANGED <<bundle, model, file, queue, header>>

Ran == [call[current] EXCEPT !.ran = @ + 1]

\* The body is not JSON: the handler does not run.
BadRequest ==
  /\ Serves("predict")
  /\ Finish(call[current], Line("other status"))
  /\ UNCHANGED <<bundle, model, stop, file, queue, header>>

\* The handler returns a value, or raises: 500.
HandlerReturns ==
  /\ Serves("predict")
  /\ \E status \in {"200", "other status"} : Finish(Ran, Line(status))
  /\ UNCHANGED <<bundle, model, stop, file, queue, header>>

\* It returns a Response with headers, sent before the status line.
HandlerSetsHeaders ==
  /\ Serves("predict")
  /\ header' = TRUE
  /\ Finish([Ran EXCEPT !.extra = TRUE], "malformed")
  /\ UNCHANGED <<bundle, model, stop, file, queue>>

\* json.dumps fails outside the try: the connection is closed.
HandlerUnserialisable ==
  /\ Serves("predict")
  /\ header' \in BOOLEAN
  /\ Finish([Ran EXCEPT !.extra = header'], "lost")
  /\ UNCHANGED <<bundle, model, stop, file, queue>>

HandlerHangs ==
  /\ Serves("predict")
  /\ phase' = "hung"
  /\ call' = [call EXCEPT ![current] = Ran]
  /\ UNCHANGED <<bundle, model, stop, file, queue, current, header>>

-----------------------------------------------------------------------------
(* The end *)

\* Leave the loop, server_close, exit.
Close ==
  /\ phase = "accepting" /\ stop
  /\ phase' = "exited"
  /\ queue' = <<>>
  /\ UNCHANGED <<bundle, model, stop, file, current, header, call>>

\* An exception at start-up, SystemExit in the handler, a signal.
Dies ==
  /\ phase # "exited"
  /\ phase' = "exited"
  /\ queue' = <<>> /\ current' = None
  /\ UNCHANGED <<bundle, model, stop, file, header, call>>

Handle ==
  \/ Health \/ Shutdown \/ BadRequest \/ HandlerReturns
  \/ HandlerSetsHeaders \/ HandlerUnserialisable

Process == Import \/ Prepare \/ Bind \/ Listen \/ Accept \/ Handle \/ Close

Next ==
  \/ Process \/ HandlerHangs \/ Dies
  \/ \E c \in Callers : Ask(c) \/ Connect(c) \/ Lost(c) \/ Cancel(c) \/ Return(c)

Spec == Init /\ [][Next]_vars

(***************************************************************************)
(* The interpreter runs, and so do client.Do's goroutines.  Handler code   *)
(* need not return, which HandlerHangs says; nobody need ask or give up.   *)
(***************************************************************************)
Fairness ==
  WF_vars(Process) /\ \A c \in Callers : WF_vars(Connect(c) \/ Lost(c))

FairSpec == Spec /\ Fairness

-----------------------------------------------------------------------------
(* Properties *)

\* What a bundle is promised before /health: the session of its engine, and
\* the one call of startup for a ModelWorker.
SessionThere  == engine \notin NonOnnx => session
StartupCalled == subclass => loads = 1

\* The ModelWorkers that the promise is broken to, by serve's elif.
StartupSkipped == subclass /\ engine \notin NonOnnx

ModelInPlace == SessionThere /\ (StartupCalled \/ StartupSkipped)

HealthAnswered == \E c \in Callers : call[c].kind = "health" /\ call[c].reply = "200"

\* Any start-up error "crashes the process immediately — gonnxd sees the exit
\* and reports a clean load failure instead of a 502 on the first predict"
\* (server.py:177): a worker that has answered /health has its session and,
\* but for a ModelWorker with an ONNX engine, has been started.
HealthMeansLoaded == HealthAnswered => ModelInPlace

\* A predict that succeeds ran the handler once; one that fails, is lost or
\* given up ran it once at most, though the client cannot tell.
RunsOnce ==
  \A c \in Callers :
    /\ call[c].ran <= 1
    /\ (call[c].kind = "predict" /\ call[c].reply = "200") => call[c].ran = 1

\* Only a handler that sets headers spoils a reply, and only its own: what it
\* left in the buffer when its body was not JSON never meets a later reply.
RepliesClean ==
  \A c \in Callers : call[c].reply = "malformed" => call[c].extra

\* After the answer to /shutdown no handler runs again, whoever is waiting.
NothingAfterShutdown ==
  [][stop => \A c \in Callers : call'[c].ran <= call[c].ran]_vars

\* "POST /shutdown -> 204 (then process exits)" (server.py:8).
ShutdownObeyed ==
  \A c \in Callers : (call[c].kind = "shutdown" /\ call[c].reply = "200") ~> (phase = "exited")

\* Whoever has connected is served or disconnected, in a queue that others
\* keep joining, unless handler code never returns.
Served == \A c \in Callers : (call[c].at = "sent") ~> (call[c].at # "sent" \/ phase = "hung")

-----------------------------------------------------------------------------
(* The inductive invariant behind the safety properties *)

ModelInOrder ==
  /\ phase \in {"start", "imported"} => ~session /\ loads = 0
  /\ phase \in {"prepared", "bound"} \cup Listening => ModelInPlace
  /\ StartupSkipped => loads = 0

\* Connections exist while the socket does.  Their callers have not returned
\* and have no reply, but for having given up.
Waiting(c) == /\ call[c].at \in {"sent", "done"}
              /\ call[c].reply \in {"none", "cancelled"}

QueueFormed ==
  /\ phase \notin Listening => queue = <<>>
  /\ \A i \in 1..Len(queue) :
       queue[i] # current /\ Waiting(queue[i]) /\ call[queue[i]].ran = 0

CurrentFormed ==
  /\ current # None <=> phase \in {"handling", "hung"}
  /\ current # None => Waiting(current)
  /\ phase = "handling" => ~header /\ call[current].ran = 0

CallsFormed == \A c \in Callers :
  /\ call[c].at = "idle" <=> call[c].kind = "none"
  /\ call[c].at # "done" <=> call[c].reply = "none"
  /\ call[c].at \in {"idle", "dial"} => call[c].ran = 0

\* Once the flag is set no handler is at work.
StopSettled == stop => phase \in {"accepting", "exited"}

\* Served once and with one's own reply, a health answer given by a loaded
\* model, and a flag that is obeyed: together these are inductive.
IndInv ==
  /\ TypeOK /\ ModelInOrder /\ QueueFormed /\ CurrentFormed /\ CallsFormed
  /\ StopSettled /\ HealthMeansLoaded /\ RunsOnce /\ RepliesClean

-----------------------------------------------------------------------------
(* What the documentation says and the code does not keep. *)

\* "The server calls app.startup(ctx) once at process start (before /health)"
\* (model_worker.py:17), whatever the engine.
StartupBeforeHealth == HealthAnswered => StartupCalled

-----------------------------------------------------------------------------
(* The process as WorkerManager sees it *)

procState ==
  CASE phase \in Starting -> "booting"
    [] phase = "exited"   -> "zombie"
    [] phase = "hung"     -> "hung"
    [] stop               -> "stopping"
    [] OTHER              -> "serving"

Outcome(r) ==
  CASE r.at = "idle"                    -> "none"
    [] r.at = "done" /\ r.reply = "200" -> "ok"
    [] r.at = "done" /\ r.reply # "200" -> "failed"
    [] OTHER                            -> r.kind

outcome == [c \in Callers |-> Outcome(call[c])]

Picture == INSTANCE WorkerProcess WITH proc <- procState, call <- outcome, Callers <- Callers

\* The Python program is the worker process the supervisor was modelled with.
ImplementsProcess == Picture!Spec
=============================================================================
