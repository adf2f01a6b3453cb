------------------------- MODULE WorkerServerProofs -------------------------
(***************************************************************************)
(* That IndInv is an invariant of WorkerServer for any number of callers   *)
(* and any Kinds, what follows from it, and that the Python program        *)
(* implements WorkerProcess.                                               *)
(*                                                                         *)
(* There is one lemma for each group of actions that disturb the same      *)
(* parts of the invariant: the start-up, the callers, Accept, the end of a *)
(* request (Finish), and the end of the process.                           *)
(***************************************************************************)
EXTENDS WorkerServer, SequenceTheorems, TLAPS

-----------------------------------------------------------------------------
(* The queue *)

\* Taking the first connection leaves the others in place, each of them once.
LEMMA TailOfQueue ==
  ASSUME queue \in Seq(Callers), IsInjective(queue), queue # <<>>
  PROVE  /\ Head(queue) \in Callers
         /\ Tail(queue) \in Seq(Callers) /\ IsInjective(Tail(queue))
         /\ \A i \in 1..Len(Tail(queue)) :
              /\ i + 1 \in 1..Len(queue)
              /\ Tail(queue)[i] = queue[i + 1]
              /\ Tail(queue)[i] # Head(queue)
<1>1. Len(queue) \in Nat \ {0} /\ Head(queue) = queue[1] /\ queue[1] \in Callers
  BY EmptySeq, LenProperties
<1>2. Tail(queue) \in Seq(Callers) /\ Len(Tail(queue)) = Len(queue) - 1
  BY HeadTailProperties
<1>3. \A i \in 1..Len(Tail(queue)) : i + 1 \in 1..Len(queue) /\ Tail(queue)[i] = queue[i + 1]
  BY <1>1, <1>2, HeadTailProperties
<1>4. DOMAIN queue = 1..Len(queue) /\ DOMAIN Tail(queue) = 1..Len(Tail(queue))
  BY <1>2, LenProperties
<1>5. IsInjective(Tail(queue))
  <2> SUFFICES ASSUME NEW i \in 1..Len(Tail(queue)), NEW j \in 1..Len(Tail(queue)),
                      Tail(queue)[i] = Tail(queue)[j]
               PROVE  i = j
    BY <1>4 DEF IsInjective
  <2>1. i + 1 = j + 1
    BY <1>3, <1>4 DEF IsInjective
  <2> QED
    BY <2>1
<1>6. \A i \in 1..Len(Tail(queue)) : Tail(queue)[i] # Head(queue)
  <2> SUFFICES ASSUME NEW i \in 1..Len(Tail(queue)), queue[i + 1] = queue[1] PROVE FALSE
    BY <1>1, <1>3
  <2>1. i + 1 = 1
    BY <1>1, <1>3, <1>4 DEF IsInjective
  <2> QED
    BY <2>1
<1> QED
  BY <1>1, <1>2, <1>3, <1>5, <1>6

\* A caller that waits nowhere joins at the end.
LEMMA AppendToQueue ==
  ASSUME queue \in Seq(Callers), IsInjective(queue), NEW c \in Callers,
         \A i \in 1..Len(queue) : queue[i] # c
  PROVE  /\ Append(queue, c) \in Seq(Callers) /\ IsInjective(Append(queue, c))
         /\ Append(queue, c) # <<>>
         /\ \A i \in 1..Len(Append(queue, c)) :
              \/ Append(queue, c)[i] = c
              \/ i \in 1..Len(queue) /\ Append(queue, c)[i] = queue[i]
<1> DEFINE q == Append(queue, c)
<1>1. q \in Seq(Callers) /\ Len(q) = Len(queue) + 1 /\ Len(queue) \in Nat
  BY AppendProperties, LenProperties
<1>2. \A i \in 1..Len(queue) : q[i] = queue[i]
  BY AppendProperties
<1>3. q[Len(queue) + 1] = c
  BY AppendProperties
<1>4. \A i \in 1..Len(q) : i \in 1..Len(queue) \/ i = Len(queue) + 1
  BY <1>1
<1>5. DOMAIN queue = 1..Len(queue) /\ DOMAIN q = 1..Len(q)
  BY <1>1, LenProperties
<1>6. IsInjective(q)
  <2> SUFFICES ASSUME NEW i \in 1..Len(q), NEW j \in 1..Len(q), q[i] = q[j] PROVE i = j
    BY <1>5 DEF IsInjective
  <2>1. CASE i \in 1..Len(queue) /\ j \in 1..Len(queue)
    BY <2>1, <1>2, <1>5 DEF IsInjective
  <2>2. CASE ~(i \in 1..Len(queue) /\ j \in 1..Len(queue))
    BY <2>2, <1>2, <1>3, <1>4
  <2> QED
    BY <2>1, <2>2
<1>7. q # <<>>
  BY AppendProperties
<1>8. \A i \in 1..Len(q) : q[i] = c \/ (i \in 1..Len(queue) /\ q[i] = queue[i])
  BY <1>2, <1>3, <1>4
<1> HIDE DEF q
<1> QED
  BY <1>1, <1>6, <1>7, <1>8 DEF q

-----------------------------------------------------------------------------
(* One step keeps the invariant *)

\* Only start-up changes whether the model is there.
LEMMA ModelStays ==
  ASSUME UNCHANGED <<bundle, model>>
  PROVE  /\ ModelInPlace' <=> ModelInPlace
         /\ StartupSkipped' <=> StartupSkipped
BY DEF bundle, model, ModelInPlace, SessionThere, StartupCalled, StartupSkipped

\* Start-up and the socket: the callers have no connection yet.
LEMMA StartUpStep ==
  ASSUME IndInv, Import \/ Prepare \/ Bind \/ Listen
  PROVE  IndInv'
<1>0. TypeOK /\ ModelInOrder /\ HealthMeansLoaded
  BY DEF IndInv
<1>1. TypeOK'
  <2>1. session' \in BOOLEAN
    BY <1>0, Zenon DEF TypeOK, Import, Prepare, Bind, Listen, model
  <2>2. loads' \in 0..1
    BY <1>0 DEF TypeOK, ModelInOrder, Import, Prepare, Bind, Listen, model
  <2> QED
    BY <1>0, <2>1, <2>2 DEF TypeOK, Import, Prepare, Bind, Listen, Phases, Starting,
       Listening, bundle, model, wire
<1>2. ModelInOrder' /\ HealthMeansLoaded'
  <2>1. CASE Prepare
    <3>1. engine' = engine /\ subclass' = subclass /\ call' = call
      BY <2>1 DEF Prepare, bundle, wire
    <3>2. ModelInPlace' /\ (StartupSkipped' => loads' = 0)
      <4>1. CASE engine \in NonOnnx
        BY <2>1, <3>1, <4>1, <1>0
        DEF ModelInPlace, SessionThere, StartupCalled, StartupSkipped, ModelInOrder, Prepare
      <4>2. CASE engine \notin NonOnnx
        <5>1. session' = TRUE /\ loads' = 0
          BY <2>1, <4>2, <1>0, Zenon DEF ModelInOrder, Prepare
        <5> QED
          BY <3>1, <4>2, <5>1, Zenon DEF ModelInPlace, SessionThere, StartupCalled, StartupSkipped
      <4> QED
        BY <4>1, <4>2
    <3> QED
      BY <2>1, <3>2 DEF ModelInOrder, HealthMeansLoaded, Prepare, Listening
  <2>2. CASE Import \/ Bind \/ Listen
    BY <2>2, ModelStays DEF IndInv, ModelInOrder, HealthMeansLoaded, HealthAnswered, Import, Bind, Listen,
       Listening, bundle, model, wire
  <2> QED
    BY <2>1, <2>2
<1>3. QueueFormed' /\ CurrentFormed'
  BY DEF IndInv, QueueFormed, CurrentFormed, Waiting, Import, Prepare, Bind, Listen,
     Listening, wire
<1>4. CallsFormed' /\ RunsOnce' /\ RepliesClean'
  BY DEF IndInv, CallsFormed, RunsOnce, RepliesClean, Import, Prepare, Bind, Listen, wire
<1>5. StopSettled'
  BY DEF IndInv, StopSettled, Import, Prepare, Bind, Listen
<1> QED
  BY <1>1, <1>2, <1>3, <1>4, <1>5 DEF IndInv

\* A caller that neither waits in the queue nor is served changes its own
\* record only, to one that is well formed.
LEMMA CallerMoves ==
  ASSUME IndInv, NEW c \in Callers, NEW r \in Calls,
         call' = [call EXCEPT ![c] = r],
         UNCHANGED <<bundle, phase, model, stop, file, queue, current, header>>,
         c = current \/ (\E i \in 1..Len(queue) : queue[i] = c) =>
           /\ r.at \in {"sent", "done"} /\ r.reply \in {"none", "cancelled"}
           /\ r.ran = call[c].ran,
         r.at = "idle" <=> r.kind = "none",
         r.at # "done" <=> r.reply = "none",
         r.at \in {"idle", "dial"} => r.ran = 0,
         r.ran \in {0, call[c].ran},
         r.reply \notin {"200", "malformed"}
  PROVE  IndInv'
<1>1. TypeOK'
  BY DEF IndInv, TypeOK, bundle, model
<1>2. ModelInOrder' /\ HealthMeansLoaded'
  BY ModelStays DEF IndInv, TypeOK, ModelInOrder, HealthMeansLoaded, HealthAnswered, bundle, model
<1>3. QueueFormed'
  <2> SUFFICES ASSUME NEW i \in 1..Len(queue)
               PROVE  Waiting(queue[i])' /\ call'[queue[i]].ran = 0
    BY DEF IndInv, QueueFormed
  <2>1. queue[i] \in Callers
    BY ElementOfSeq DEF IndInv, TypeOK
  <2> QED
    BY <2>1 DEF IndInv, TypeOK, QueueFormed, Waiting
<1>4. CurrentFormed'
  BY NobodyAssumption DEF IndInv, TypeOK, CurrentFormed, Waiting
<1>5. CallsFormed' /\ RunsOnce' /\ RepliesClean'
  BY DEF IndInv, TypeOK, CallsFormed, RunsOnce, RepliesClean
<1>6. StopSettled'
  BY DEF IndInv, StopSettled
<1> QED
  BY <1>1, <1>2, <1>3, <1>4, <1>5, <1>6 DEF IndInv

LEMMA CallerStep ==
  ASSUME IndInv, NEW c \in Callers, Ask(c) \/ Lost(c) \/ Cancel(c) \/ Return(c)
  PROVE  IndInv'
<1>1. TypeOK /\ QueueFormed /\ CurrentFormed /\ CallsFormed /\ call[c] \in Calls
  BY DEF IndInv, TypeOK
<1>2. ASSUME c = current \/ \E i \in 1..Len(queue) : queue[i] = c
      PROVE  Waiting(c)
  BY <1>1, <1>2, NobodyAssumption DEF QueueFormed, CurrentFormed
<1>3. CASE Ask(c)
  <2>1. PICK k \in Kinds : call' = [call EXCEPT ![c].kind = k, ![c].at = "dial"]
    BY <1>3 DEF Ask
  <2> DEFINE r == [call[c] EXCEPT !.kind = k, !.at = "dial"]
  <2>2. call' = [call EXCEPT ![c] = r]
    BY <1>1, <2>1 DEF TypeOK, Calls
  <2>3. call[c].at = "idle" /\ k \in AllKinds
    BY <1>3, KindsAssumption DEF Ask
  <2>4. r \in Calls
    BY <1>1, <2>3 DEF Calls
  <2>5. ~(c = current \/ \E i \in 1..Len(queue) : queue[i] = c)
    BY <1>2, <2>3 DEF Waiting
  <2>6. /\ r.at = "dial" /\ r.kind = k /\ r.reply = "none"
        /\ r.ran = 0 /\ call[c].ran = 0
    BY <1>1, <2>3 DEF CallsFormed, Calls
  <2>7. r.kind # "none"
    BY <2>3, <2>6 DEF AllKinds
  <2> HIDE DEF r
  <2> QED
    BY <1>3, <2>2, <2>4, <2>5, <2>6, <2>7, CallerMoves DEF Ask
<1>4. CASE Lost(c) \/ Cancel(c)
  <2>1. PICK reply \in {"lost", "cancelled"} : call' = Ends(c, reply)
    BY <1>4 DEF Lost, Cancel
  <2> DEFINE r == [call[c] EXCEPT !.at = "done", !.reply = reply]
  <2>2. call' = [call EXCEPT ![c] = r]
    BY <1>1, <2>1 DEF TypeOK, Calls, Ends
  <2>3. call[c].at \in {"dial", "sent"}
    BY <1>4 DEF Lost, Cancel
  <2>4. r \in Calls /\ r.at = "done" /\ r.kind = call[c].kind /\ r.ran = call[c].ran
        /\ r.reply = reply
    BY <1>1 DEF Calls, Replies
  <2>5. ASSUME c = current \/ \E i \in 1..Len(queue) : queue[i] = c
        PROVE  reply = "cancelled"
    <3>1. phase \in Listening /\ call[c].at = "sent"
      BY <1>1, <1>2, <2>3, <2>5, EmptySeq, NobodyAssumption
         DEF QueueFormed, CurrentFormed, Waiting, Listening
    <3>2. ~Lost(c)
      BY <3>1 DEF Lost, Listening
    <3> QED
      BY <1>1, <1>4, <2>2, <2>4, <3>2 DEF Cancel, Ends, TypeOK, Calls
  <2>6. r.kind # "none"
    BY <1>1, <2>3, <2>4 DEF CallsFormed
  <2>7. UNCHANGED <<bundle, phase, model, stop, file, queue, current, header>>
    BY <1>4 DEF Lost, Cancel
  <2> HIDE DEF r
  <2> QED
    BY <2>2, <2>4, <2>5, <2>6, <2>7, CallerMoves
<1>5. CASE Return(c)
  <2>1. ~(c = current \/ \E i \in 1..Len(queue) : queue[i] = c)
    BY <1>5 DEF Return, Contains
  <2>2. Idle \in Calls
    BY DEF Idle, Calls, Replies
  <2> QED
    BY <1>5, <2>1, <2>2, CallerMoves DEF Return, Idle
<1> QED
  BY <1>3, <1>4, <1>5

LEMMA ConnectStep ==
  ASSUME IndInv, NEW c \in Callers, Connect(c)
  PROVE  IndInv'
<1>1. TypeOK /\ QueueFormed /\ CurrentFormed /\ CallsFormed /\ call[c] \in Calls
  BY DEF IndInv, TypeOK
<1>2. call[c].at = "dial" /\ call[c].ran = 0 /\ call[c].reply = "none" /\ call[c].kind # "none"
  BY <1>1 DEF Connect, CallsFormed
<1>3. c # current /\ \A i \in 1..Len(queue) : queue[i] # c
  BY <1>1, <1>2, NobodyAssumption DEF QueueFormed, CurrentFormed, Waiting
<1>4. /\ queue' \in Seq(Callers) /\ IsInjective(queue')
      /\ \A i \in 1..Len(queue') :
           queue'[i] = c \/ (i \in 1..Len(queue) /\ queue'[i] = queue[i])
  BY <1>1, <1>3, AppendToQueue DEF Connect, TypeOK
<1>5. call' = [call EXCEPT ![c].at = "sent"] /\ call' \in [Callers -> Calls]
  BY <1>1 DEF Connect, TypeOK, Calls
<1>6. TypeOK'
  BY <1>1, <1>4, <1>5 DEF Connect, TypeOK, bundle, model
<1>7. ModelInOrder' /\ HealthMeansLoaded'
  BY <1>1, <1>2, <1>5, ModelStays DEF IndInv, TypeOK, Connect, ModelInOrder, HealthMeansLoaded,
     HealthAnswered, bundle, model
<1>8. QueueFormed'
  <2> SUFFICES ASSUME NEW i \in 1..Len(queue')
               PROVE  /\ queue'[i] # current
                      /\ call'[queue'[i]].at \in {"sent", "done"}
                      /\ call'[queue'[i]].reply \in {"none", "cancelled"}
                      /\ call'[queue'[i]].ran = 0
    BY DEF Connect, QueueFormed, Waiting
  <2>1. CASE queue'[i] = c
    BY <1>1, <1>2, <1>3, <1>5, <2>1 DEF TypeOK, Waiting
  <2>2. CASE i \in 1..Len(queue) /\ queue'[i] = queue[i]
    <3>1. queue[i] \in Callers
      BY <1>1, <2>2, ElementOfSeq DEF TypeOK
    <3> QED
      BY <1>1, <1>3, <1>5, <2>2, <3>1 DEF TypeOK, QueueFormed, Waiting
  <2> QED
    BY <1>4, <2>1, <2>2
<1>9. CurrentFormed'
  BY <1>1, <1>3, <1>5, NobodyAssumption DEF Connect, TypeOK, CurrentFormed, Waiting
<1>10. CallsFormed' /\ RunsOnce' /\ RepliesClean'
  BY <1>1, <1>2, <1>5 DEF IndInv, TypeOK, CallsFormed, RunsOnce, RepliesClean
<1>11. StopSettled'
  BY DEF IndInv, StopSettled, Connect
<1> QED
  BY <1>6, <1>7, <1>8, <1>9, <1>10, <1>11 DEF IndInv

\* The first of the queue is served next, with an empty buffer.
LEMMA AcceptStep ==
  ASSUME IndInv, Accept
  PROVE  IndInv'
<1>1. TypeOK /\ QueueFormed /\ CallsFormed /\ queue # <<>>
  BY DEF IndInv, Accept
<1>2. /\ Head(queue) \in Callers
      /\ Tail(queue) \in Seq(Callers) /\ IsInjective(Tail(queue))
      /\ \A i \in 1..Len(Tail(queue)) :
           /\ i + 1 \in 1..Len(queue)
           /\ Tail(queue)[i] = queue[i + 1]
           /\ Tail(queue)[i] # Head(queue)
  BY <1>1, TailOfQueue DEF TypeOK
<1>3. Head(queue) = queue[1] /\ 1 \in 1..Len(queue)
  BY <1>1, EmptySeq DEF TypeOK
<1>4. TypeOK'
  BY <1>1, <1>2 DEF Accept, TypeOK, Phases, Listening, bundle, model
<1>5. ModelInOrder' /\ HealthMeansLoaded'
  BY ModelStays DEF IndInv, Accept, ModelInOrder, HealthMeansLoaded, HealthAnswered, Listening, bundle, model
<1>6. QueueFormed'
  BY <1>1, <1>2 DEF Accept, QueueFormed, Waiting, Listening
<1>7. CurrentFormed'
  BY <1>1, <1>2, <1>3, NobodyAssumption DEF Accept, QueueFormed, CurrentFormed, Waiting
<1>8. CallsFormed' /\ RunsOnce' /\ RepliesClean'
  BY DEF IndInv, Accept, CallsFormed, RunsOnce, RepliesClean
<1>9. StopSettled'
  BY DEF Accept, StopSettled
<1> QED
  BY <1>4, <1>5, <1>6, <1>7, <1>8, <1>9 DEF IndInv

\* The end of a request whose caller's record is now c: the reply is written
\* if the caller is still there.
LEMMA FinishStep ==
  ASSUME IndInv, phase = "handling",
         NEW c \in Calls, NEW reply \in Replies \ {"none"}, Finish(c, reply),
         c.kind = call[current].kind, c.at = call[current].at,
         c.reply = call[current].reply, c.ran \in {0, 1},
         c.kind = "predict" /\ reply = "200" => c.ran = 1,
         reply = "malformed" => c.extra,
         UNCHANGED <<bundle, model, file, queue>>,
         stop' \in BOOLEAN, header' \in BOOLEAN
  PROVE  IndInv'
<1>1. TypeOK /\ QueueFormed /\ CurrentFormed /\ CallsFormed /\ RunsOnce /\ RepliesClean
      /\ ModelInPlace /\ ModelInOrder
  BY DEF IndInv, ModelInOrder, Listening
<1>2. current \in Callers /\ Waiting(current)
  BY <1>1 DEF TypeOK, CurrentFormed
<1>3. PICK r \in Calls :
        /\ call' = [call EXCEPT ![current] = r]
        /\ r.kind = c.kind /\ r.ran = c.ran /\ r.extra = c.extra /\ r.at = "done"
        /\ r.reply \in {reply, "cancelled"}
  <2>1. CASE c.at = "sent"
    <3> DEFINE r == [c EXCEPT !.at = "done", !.reply = reply]
    <3>1. r \in Calls
      BY DEF Calls
    <3>2. call' = [call EXCEPT ![current] = r]
      BY <2>1 DEF Finish
    <3> QED
      BY <3>1, <3>2 DEF Calls
  <2>2. CASE c.at # "sent"
    <3>1. c.at = "done" /\ c.reply = "cancelled"
      BY <1>1, <1>2, <2>2 DEF Waiting, CallsFormed
    <3>2. call' = [call EXCEPT ![current] = c]
      BY <2>2 DEF Finish
    <3> QED
      BY <3>1, <3>2
  <2> QED
    BY <2>1, <2>2
<1>4. r.kind # "none" /\ r.reply # "none"
  BY <1>1, <1>2, <1>3 DEF CallsFormed, Waiting
<1>5. TypeOK'
  BY <1>1, <1>2, <1>3 DEF TypeOK, Finish, Phases, Listening, bundle, model
<1>6. ModelInOrder' /\ HealthMeansLoaded'
  BY <1>1, ModelStays DEF ModelInOrder, HealthMeansLoaded, Finish, bundle, model
<1>7. QueueFormed'
  <2> SUFFICES ASSUME NEW i \in 1..Len(queue)
               PROVE  queue[i] # None /\ Waiting(queue[i])' /\ call'[queue[i]].ran = 0
    BY DEF QueueFormed, Finish, Listening
  <2>1. queue[i] \in Callers /\ queue[i] # current
    BY <1>1, ElementOfSeq DEF TypeOK, QueueFormed
  <2> QED
    BY <1>1, <1>3, <2>1, NobodyAssumption DEF TypeOK, QueueFormed, Waiting
<1>8. CurrentFormed'
  BY DEF CurrentFormed, Finish
<1>9. CallsFormed' /\ RunsOnce'
  BY <1>1, <1>2, <1>3, <1>4 DEF TypeOK, CallsFormed, RunsOnce
<1>10. RepliesClean'
  BY <1>1, <1>2, <1>3 DEF TypeOK, RepliesClean
<1>11. StopSettled'
  BY DEF StopSettled, Finish
<1> QED
  BY <1>5, <1>6, <1>7, <1>8, <1>9, <1>10, <1>11 DEF IndInv

\* What a handler's end leaves in its caller's record.
LEMMA RanRecord ==
  ASSUME IndInv, Serves("predict"), NEW e \in BOOLEAN
  PROVE  /\ ~header
         /\ current \in Callers /\ call[current] \in Calls
         /\ Ran \in Calls /\ [Ran EXCEPT !.extra = e] \in Calls
         /\ \A r \in {Ran, [Ran EXCEPT !.extra = e]} :
              /\ r.kind = "predict" /\ r.at = call[current].at
              /\ r.reply = call[current].reply /\ r.ran = 1
         /\ [Ran EXCEPT !.extra = e].extra = e
<1>1. current \in Callers /\ call[current] \in Calls
  BY DEF IndInv, TypeOK, CurrentFormed, Serves
<1>2. call[current].ran = 0 /\ call[current].kind = "predict" /\ ~header
  BY DEF IndInv, CurrentFormed, Serves
<1>3. /\ Ran \in Calls /\ Ran.kind = "predict" /\ Ran.at = call[current].at
      /\ Ran.reply = call[current].reply /\ Ran.ran = 1
  BY <1>1, <1>2 DEF Ran, Calls
<1> DEFINE x == [Ran EXCEPT !.extra = e]
<1>4. x \in Calls
  BY <1>3 DEF Calls
<1>5. x.kind = Ran.kind /\ x.at = Ran.at /\ x.reply = Ran.reply /\ x.ran = Ran.ran
  BY <1>3 DEF Calls
<1>6. x.extra = e
  BY <1>3 DEF Calls
<1> HIDE DEF x
<1> QED
  BY <1>1, <1>2, <1>3, <1>4, <1>5, <1>6 DEF x

LEMMA HandleStep ==
  ASSUME IndInv, Handle
  PROVE  IndInv'
<1>1. phase = "handling"
  BY DEF Handle, Health, Shutdown, BadRequest, HandlerReturns, HandlerSetsHeaders,
     HandlerUnserialisable, Serves
<1>2. /\ ~header /\ current \in Callers /\ call[current] \in Calls
      /\ call[current].ran = 0
      /\ header \in BOOLEAN /\ stop \in BOOLEAN
  BY <1>1 DEF IndInv, TypeOK, CurrentFormed
<1>3. Line("200") = "200" /\ Line("other status") = "other status"
  BY <1>2 DEF Line
<1>4. {"200", "other status", "malformed", "lost"} \subseteq Replies \ {"none"}
  BY DEF Replies
<1>5. CASE Health \/ Shutdown
  <2>1. Finish(call[current], "200") /\ call[current].kind # "predict"
    BY <1>3, <1>5 DEF Health, Shutdown, Serves
  <2>2. stop' \in BOOLEAN /\ header' \in BOOLEAN /\ UNCHANGED <<bundle, model, file, queue>>
    BY <1>2, <1>5 DEF Health, Shutdown
  <2> QED
    BY <1>1, <1>2, <1>4, <2>1, <2>2, FinishStep
<1>6. CASE BadRequest
  <2>1. Finish(call[current], "other status")
    BY <1>3, <1>6 DEF BadRequest
  <2>2. stop' \in BOOLEAN /\ header' \in BOOLEAN /\ UNCHANGED <<bundle, model, file, queue>>
    BY <1>2, <1>6 DEF BadRequest
  <2> QED
    BY <1>1, <1>2, <1>4, <2>1, <2>2, FinishStep
<1>7. CASE HandlerReturns
  <2>1. PICK status \in {"200", "other status"} : Finish(Ran, status)
    BY <1>3, <1>7 DEF HandlerReturns
  <2>2. Serves("predict") /\ stop' = stop /\ header' = header
        /\ UNCHANGED <<bundle, model, file, queue>>
    BY <1>7 DEF HandlerReturns
  <2>3. /\ Ran \in Calls /\ Ran.kind = "predict" /\ Ran.at = call[current].at
        /\ Ran.reply = call[current].reply /\ Ran.ran = 1
    BY <2>2, RanRecord
  <2>4. call[current].kind = "predict" /\ status \in Replies \ {"none"} /\ status # "malformed"
    BY <1>4, <2>2 DEF Serves
  <2> QED
    BY <1>1, <1>2, <2>1, <2>2, <2>3, <2>4, FinishStep
<1>8. CASE HandlerSetsHeaders \/ HandlerUnserialisable
  <2>1. Serves("predict") /\ stop' = stop /\ header' \in BOOLEAN
        /\ UNCHANGED <<bundle, model, file, queue>>
    BY <1>8 DEF HandlerSetsHeaders, HandlerUnserialisable
  <2>2. PICK e \in BOOLEAN, reply \in {"malformed", "lost"} :
          Finish([Ran EXCEPT !.extra = e], reply) /\ (reply = "malformed" => e)
    BY <1>8 DEF HandlerSetsHeaders, HandlerUnserialisable
  <2> DEFINE r == [Ran EXCEPT !.extra = e]
  <2>3. /\ r \in Calls /\ r.kind = "predict" /\ r.at = call[current].at
        /\ r.reply = call[current].reply /\ r.ran = 1 /\ r.extra = e
    BY <2>1, RanRecord
  <2>4. call[current].kind = "predict" /\ reply \in Replies \ {"none"} /\ reply # "200"
    BY <1>4, <2>1 DEF Serves
  <2>5. Finish(r, reply)
    BY <2>2
  <2> HIDE DEF r
  <2> QED
    BY <1>1, <1>2, <2>1, <2>2, <2>3, <2>4, <2>5, FinishStep
<1> QED
  BY <1>5, <1>6, <1>7, <1>8 DEF Handle

\* The handler never returns, or the process ends.
LEMMA EndStep ==
  ASSUME IndInv, HandlerHangs \/ Close \/ Dies
  PROVE  IndInv'
<1>1. TypeOK /\ ModelInOrder /\ QueueFormed /\ CurrentFormed /\ CallsFormed /\ StopSettled
      /\ HealthMeansLoaded /\ RunsOnce /\ RepliesClean
  BY DEF IndInv
<1>2. CASE HandlerHangs
  <2>1. /\ current \in Callers /\ Ran \in Calls
        /\ Ran.kind = call[current].kind /\ Ran.at = call[current].at
        /\ Ran.reply = call[current].reply /\ Ran.extra = call[current].extra /\ Ran.ran = 1
    <3>1. current \in Callers /\ call[current] \in Calls /\ call[current].ran = 0
      BY <1>1, <1>2 DEF HandlerHangs, Serves, TypeOK, CurrentFormed
    <3> QED
      BY <3>1 DEF Ran, Calls
  <2>2. call' = [call EXCEPT ![current] = Ran] /\ phase = "handling" /\ phase' = "hung"
        /\ UNCHANGED <<bundle, model, stop, file, queue, current, header>>
    BY <1>2 DEF HandlerHangs, Serves
  <2>3. Waiting(current) /\ current # None
    BY <1>1, <2>2 DEF CurrentFormed
  <2>4. TypeOK'
    BY <1>1, <2>1, <2>2 DEF TypeOK, Phases, Listening, bundle, model
  <2>5. ModelInOrder' /\ HealthMeansLoaded'
    BY <1>1, <2>1, <2>2, ModelStays DEF TypeOK, ModelInOrder, HealthMeansLoaded, HealthAnswered, Listening,
       bundle, model
  <2>6. QueueFormed'
    <3> SUFFICES ASSUME NEW i \in 1..Len(queue)
                 PROVE  queue[i] # current /\ Waiting(queue[i])' /\ call'[queue[i]].ran = 0
      BY <1>1, <2>2 DEF QueueFormed, Listening
    <3>1. queue[i] \in Callers /\ queue[i] # current
      BY <1>1, ElementOfSeq DEF TypeOK, QueueFormed
    <3> QED
      BY <1>1, <2>2, <3>1 DEF TypeOK, QueueFormed, Waiting
  <2>7. CurrentFormed'
    BY <1>1, <2>1, <2>2, <2>3 DEF TypeOK, CurrentFormed, Waiting
  <2>8. CallsFormed' /\ RunsOnce' /\ RepliesClean'
    BY <1>1, <2>1, <2>2, <2>3 DEF TypeOK, CallsFormed, RunsOnce, RepliesClean, Waiting
  <2>9. StopSettled'
    BY <1>1, <2>2 DEF StopSettled
  <2> QED
    BY <2>4, <2>5, <2>6, <2>7, <2>8, <2>9 DEF IndInv
<1>3. CASE Close \/ Dies
  <2>1. phase' = "exited" /\ queue' = <<>> /\ current' = None
        /\ UNCHANGED <<bundle, model, stop, file, header, call>>
    BY <1>1, <1>3 DEF Close, Dies, CurrentFormed
  <2>2. TypeOK'
    BY <1>1, <2>1, EmptySeq DEF TypeOK, Phases, IsInjective, bundle, model
  <2>3. ModelInOrder' /\ HealthMeansLoaded'
    BY <1>1, <2>1, ModelStays DEF ModelInOrder, HealthMeansLoaded, HealthAnswered, Listening, bundle, model
  <2>4. QueueFormed' /\ CurrentFormed'
    BY <2>1, EmptySeq DEF QueueFormed, CurrentFormed
  <2>5. CallsFormed' /\ RunsOnce' /\ RepliesClean' /\ StopSettled'
    BY <1>1, <2>1 DEF CallsFormed, RunsOnce, RepliesClean, StopSettled
  <2> QED
    BY <2>2, <2>3, <2>4, <2>5 DEF IndInv
<1> QED
  BY <1>2, <1>3

\* IndInv holds in every state the program can reach.
THEOREM Invariance == Spec => []IndInv
<1>1. Init => IndInv
  <2> SUFFICES ASSUME Init PROVE IndInv
    OBVIOUS
  <2>1. TypeOK
    <3>1. Idle \in Calls
      BY DEF Idle, Calls, Replies
    <3>2. queue \in Seq(Callers) /\ IsInjective(queue)
      BY EmptySeq DEF Init, IsInjective
    <3>3. call \in [Callers -> Calls]
      BY <3>1 DEF Init
    <3>4. session \in BOOLEAN /\ stop \in BOOLEAN /\ header \in BOOLEAN
      BY Zenon DEF Init
    <3>5. loads \in 0..1
      BY DEF Init
    <3> QED
      BY <3>2, <3>3, <3>4, <3>5 DEF Init, TypeOK, Phases, Starting
  <2>2. ModelInOrder /\ QueueFormed /\ CurrentFormed
    BY EmptySeq DEF Init, ModelInOrder, QueueFormed, CurrentFormed, Listening
  <2>3. CallsFormed /\ StopSettled /\ HealthMeansLoaded /\ RunsOnce /\ RepliesClean
    BY DEF Init, CallsFormed, StopSettled, HealthMeansLoaded, HealthAnswered, RunsOnce, RepliesClean, Idle
  <2> QED
    BY <2>1, <2>2, <2>3 DEF IndInv
<1>2. IndInv /\ [Next]_vars => IndInv'
  <2> SUFFICES ASSUME IndInv, [Next]_vars PROVE IndInv'
    OBVIOUS
  <2>1. CASE Process
    BY <2>1, StartUpStep, AcceptStep, HandleStep, EndStep DEF Process
  <2>2. CASE HandlerHangs \/ Dies
    BY <2>2, EndStep
  <2>3. ASSUME NEW c \in Callers, Ask(c) \/ Connect(c) \/ Lost(c) \/ Cancel(c) \/ Return(c)
        PROVE  IndInv'
    BY <2>3, CallerStep, ConnectStep
  <2>4. CASE UNCHANGED vars
    BY <2>4, ModelStays DEF vars, bundle, model, IndInv, TypeOK, ModelInOrder, HealthAnswered,
       QueueFormed, CurrentFormed,
       Waiting, CallsFormed, StopSettled, HealthMeansLoaded, RunsOnce, RepliesClean
  <2> QED
    BY <2>1, <2>2, <2>3, <2>4 DEF Next
<1> QED
  BY <1>1, <1>2, PTL DEF Spec

-----------------------------------------------------------------------------
(* What follows from it *)

\* The variables of the program, its queue and its callers keep their types:
\* no socket file without a binder, no reply that a caller cannot have got.
THEOREM TypeCorrect == Spec => []TypeOK
<1>1. IndInv => TypeOK
  BY DEF IndInv
<1> QED
  BY <1>1, Invariance, PTL

\* A worker that has answered /health has the session of its engine, and its
\* ModelWorker has been started, unless the engine is ONNX (server.py:177-190).
THEOREM HealthImpliesModel == Spec => []HealthMeansLoaded
<1>1. IndInv => HealthMeansLoaded
  BY DEF IndInv
<1> QED
  BY <1>1, Invariance, PTL

\* And if it is, never: no behaviour of the program calls startup on a
\* ModelWorker with an ONNX engine, against model_worker.py:17.
THEOREM OnnxWorkersNeverStarted == Spec => [](StartupSkipped => loads = 0)
<1>1. IndInv => (StartupSkipped => loads = 0)
  BY DEF IndInv, ModelInOrder
<1> QED
  BY <1>1, Invariance, PTL

\* A handler runs at most once for a request, and once if it succeeded,
\* whoever gives up and whatever the handlers of other requests did.
THEOREM AtMostOnce == Spec => []RunsOnce
<1>1. IndInv => RunsOnce
  BY DEF IndInv
<1> QED
  BY <1>1, Invariance, PTL

\* A malformed reply is the fault of that request's own handler.
THEOREM OwnReplies == Spec => []RepliesClean
<1>1. IndInv => RepliesClean
  BY DEF IndInv
<1> QED
  BY <1>1, Invariance, PTL

\* Once /shutdown has been taken no handler runs again (server.py:199).
THEOREM ShutdownIsLast == Spec => NothingAfterShutdown
<1>1. IndInv /\ [Next]_vars => [stop => \A c \in Callers : call'[c].ran <= call[c].ran]_vars
  <2> SUFFICES ASSUME IndInv, Next, stop, NEW c \in Callers
               PROVE  call'[c].ran <= call[c].ran
    OBVIOUS
  <2>1. call \in [Callers -> Calls] /\ phase \in {"accepting", "exited"} /\ call[c].ran \in 0..2
    BY DEF IndInv, TypeOK, StopSettled, Calls
  <2>2. CASE Process \/ HandlerHangs \/ Dies
    <3>1. call' = call
      BY <2>1, <2>2 DEF Process, HandlerHangs, Dies, Import, Prepare, Bind, Listen, Accept,
         Handle, Health, Shutdown, BadRequest, HandlerReturns, HandlerSetsHeaders,
         HandlerUnserialisable, Serves, Close, wire
    <3> QED
      BY <2>1, <3>1
  <2>3. ASSUME NEW d \in Callers, Ask(d) \/ Connect(d) \/ Lost(d) \/ Cancel(d) \/ Return(d)
        PROVE  call'[c].ran \in {call[c].ran, 0}
    <3>1. CASE Ask(d)
      BY <2>1, <3>1 DEF Ask, Calls
    <3>2. CASE Connect(d)
      BY <2>1, <3>2 DEF Connect, Calls
    <3>3. CASE Lost(d) \/ Cancel(d)
      <4>1. PICK reply \in Replies : call' = Ends(d, reply)
        BY <3>3 DEF Lost, Cancel, Replies
      <4> QED
        BY <2>1, <4>1 DEF Ends, Calls
    <3>4. CASE Return(d)
      BY <2>1, <3>4 DEF Return, Idle
    <3> QED
      BY <2>3, <3>1, <3>2, <3>3, <3>4
  <2> QED
    BY <2>1, <2>2, <2>3 DEF Next
<1> QED
  BY <1>1, Invariance, PTL DEF Spec, NothingAfterShutdown

-----------------------------------------------------------------------------
(* The Python program implements WorkerProcess *)

\* A caller's outcome changes as its record does.
LEMMA OutcomeChanges ==
  ASSUME NEW c \in Callers, \A x \in Callers \ {c} : call'[x] = call[x]
  PROVE  outcome[c] = Outcome(call[c]) /\ outcome' = [outcome EXCEPT ![c] = Outcome(call'[c])]
<1>1. outcome' = [x \in Callers |-> Outcome(call'[x])]
  BY DEF outcome, Outcome
<1>2. \A x \in Callers \ {c} : Outcome(call'[x]) = Outcome(call[x])
  BY Zenon
<1> QED
  BY <1>1, <1>2 DEF outcome

\* One that is on its way has the kind of its request for an outcome.
LEMMA OnItsWay ==
  ASSUME IndInv, NEW c \in Callers, call[c].at \in {"dial", "sent"}
  PROVE  Outcome(call[c]) = call[c].kind /\ call[c].kind \in Picture!Requests
<1>1. call[c] \in Calls /\ call[c].kind # "none"
  BY DEF IndInv, TypeOK, CallsFormed
<1> QED
  BY <1>1 DEF Outcome, Picture!Requests, Calls, AllKinds

LEMMA CallerSimulates ==
  ASSUME IndInv, NEW c \in Callers,
         Ask(c) \/ Connect(c) \/ Lost(c) \/ Cancel(c) \/ Return(c)
  PROVE  Picture!Next \/ UNCHANGED <<procState, outcome>>
<1>1. phase' = phase /\ stop' = stop
  BY DEF Ask, Connect, Lost, Cancel, Return
<1>2. procState' = procState
  BY <1>1 DEF procState
<1>3. call \in [Callers -> Calls] /\ call[c] \in Calls
  BY DEF IndInv, TypeOK
<1>4. CASE Ask(c)
  <2>1. PICK k \in Kinds : call' = [call EXCEPT ![c].kind = k, ![c].at = "dial"]
    BY <1>4 DEF Ask
  <2>2. call' = [call EXCEPT ![c] = [call[c] EXCEPT !.kind = k, !.at = "dial"]]
    BY <1>3, <2>1 DEF Calls
  <2>3. Outcome(call'[c]) = k /\ \A x \in Callers \ {c} : call'[x] = call[x]
    BY <1>3, <2>2 DEF Outcome, Calls
  <2>4. Outcome(call[c]) = "none" /\ k \in Picture!Requests
    BY <1>4, KindsAssumption DEF Ask, Outcome, AllKinds, Picture!Requests
  <2>5. outcome[c] = "none" /\ outcome' = [outcome EXCEPT ![c] = k]
    BY <2>3, <2>4, OutcomeChanges
  <2> QED
    BY <1>2, <2>4, <2>5 DEF Picture!Next, Picture!Asks, Picture!Set
<1>5. CASE Connect(c)
  <2>1. call' = [call EXCEPT ![c] = [call[c] EXCEPT !.at = "sent"]] /\ call[c].at = "dial"
    BY <1>3, <1>5 DEF Connect, Calls
  <2>2. Outcome(call'[c]) = Outcome(call[c]) /\ \A x \in Callers \ {c} : call'[x] = call[x]
    BY <1>3, <2>1 DEF Outcome, Calls
  <2>3. outcome' = [outcome EXCEPT ![c] = outcome[c]]
    BY <2>2, OutcomeChanges
  <2> QED
    BY <1>2, <2>3 DEF outcome
<1>6. CASE Lost(c) \/ Cancel(c)
  <2>1. PICK reply \in {"lost", "cancelled"} :
          /\ call' = Ends(c, reply)
          /\ reply = "lost" => Lost(c)
    BY <1>6 DEF Lost, Cancel
  <2>2. call' = [call EXCEPT ![c] = [call[c] EXCEPT !.at = "done", !.reply = reply]]
    BY <1>3, <2>1 DEF Ends, Calls
  <2>3. Outcome(call'[c]) = "failed" /\ \A x \in Callers \ {c} : call'[x] = call[x]
    BY <1>3, <2>1, <2>2 DEF Outcome, Calls
  <2>4. outcome[c] \in Picture!Requests /\ outcome' = [outcome EXCEPT ![c] = "failed"]
    BY <1>6, <2>3, OutcomeChanges, OnItsWay DEF Lost, Cancel
  <2> QED
    BY <1>2, <2>4 DEF Picture!Next, Picture!GivesUp, Picture!Set
<1>7. CASE Return(c)
  <2>1. Outcome(call[c]) \in {"ok", "failed"} /\ Outcome(call'[c]) = "none"
    BY <1>3, <1>7 DEF Return, Outcome, Idle
  <2>2. outcome[c] \in {"ok", "failed"} /\ outcome' = [outcome EXCEPT ![c] = "none"]
    BY <1>3, <1>7, <2>1, OutcomeChanges DEF Return
  <2> QED
    BY <1>2, <2>2 DEF Picture!Next, Picture!Returns, Picture!Set
<1> QED
  BY <1>4, <1>5, <1>6, <1>7

\* The end of a request is an answer, unless its caller has given up.
LEMMA FinishSimulates ==
  ASSUME IndInv, phase = "handling", NEW c \in Calls, NEW reply, Finish(c, reply),
         c.kind = call[current].kind, c.at = call[current].at,
         c.reply = call[current].reply,
         reply = "200" \/ c.kind = "predict",
         stop' = (stop \/ c.kind = "shutdown")
  PROVE  Picture!Next \/ UNCHANGED <<procState, outcome>>
<1>1. current \in Callers /\ Waiting(current) /\ call[current] \in Calls
  BY DEF IndInv, TypeOK, CurrentFormed
<1>2. ~stop /\ procState = "serving"
  BY DEF IndInv, StopSettled, procState, Starting
<1>3. procState' = IF c.kind = "shutdown" THEN "stopping" ELSE "serving"
  BY <1>2 DEF Finish, procState, Starting
<1>4. call \in [Callers -> Calls]
  BY DEF IndInv, TypeOK
<1>5. CASE c.at = "sent"
  <2>1. call' = [call EXCEPT ![current] = [c EXCEPT !.at = "done", !.reply = reply]]
    BY <1>5 DEF Finish
  <2>2. /\ Outcome(call'[current]) = IF reply = "200" THEN "ok" ELSE "failed"
        /\ \A x \in Callers \ {current} : call'[x] = call[x]
    BY <1>1, <1>4, <2>1 DEF Outcome, Calls
  <2>3. /\ outcome[current] = c.kind /\ c.kind \in Picture!Requests
        /\ outcome' = [outcome EXCEPT ![current] = IF reply = "200" THEN "ok" ELSE "failed"]
    BY <1>1, <1>5, <2>2, OutcomeChanges, OnItsWay
  <2>4. Picture!Answered(current)
    BY <1>2, <1>3, <2>3 DEF Picture!Answered, Picture!Set
  <2> QED
    BY <1>1, <2>4 DEF Picture!Next
<1>6. CASE c.at # "sent"
  <2>1. call' = [call EXCEPT ![current] = c] /\ c.at = "done"
    BY <1>1, <1>6 DEF Finish, Waiting
  <2>2. /\ Outcome(call'[current]) = Outcome(call[current])
        /\ \A x \in Callers \ {current} : call'[x] = call[x]
    BY <1>1, <1>4, <2>1 DEF Outcome
  <2>3. outcome' = [outcome EXCEPT ![current] = outcome[current]]
    BY <1>1, <2>2, OutcomeChanges
  <2>4. outcome' = outcome
    BY <2>3 DEF outcome
  <2> QED
    BY <1>2, <1>3, <2>4 DEF Picture!Next, Picture!Obeys
<1> QED
  BY <1>5, <1>6

LEMMA HandleSimulates ==
  ASSUME IndInv, Handle
  PROVE  Picture!Next \/ UNCHANGED <<procState, outcome>>
<1>1. phase = "handling"
  BY DEF Handle, Health, Shutdown, BadRequest, HandlerReturns, HandlerSetsHeaders,
     HandlerUnserialisable, Serves
<1>2. ~header /\ call[current] \in Calls /\ stop \in BOOLEAN
  BY <1>1 DEF IndInv, TypeOK, CurrentFormed
<1>3. Line("200") = "200" /\ Line("other status") = "other status"
  BY <1>2 DEF Line
<1>4. CASE Health \/ Shutdown \/ BadRequest
  <2>1. PICK reply \in {"200", "other status"} :
          Finish(call[current], reply) /\ (reply = "200" \/ call[current].kind = "predict")
    BY <1>3, <1>4 DEF Health, Shutdown, BadRequest, Serves
  <2>2. stop' = (stop \/ call[current].kind = "shutdown")
    BY <1>2, <1>4 DEF Health, Shutdown, BadRequest, Serves
  <2> QED
    BY <1>1, <1>2, <2>1, <2>2, FinishSimulates
<1>5. CASE HandlerReturns \/ HandlerSetsHeaders \/ HandlerUnserialisable
  <2>1. Serves("predict") /\ stop' = stop
    BY <1>5 DEF HandlerReturns, HandlerSetsHeaders, HandlerUnserialisable
  <2>2. PICK r \in {Ran, [Ran EXCEPT !.extra = TRUE], [Ran EXCEPT !.extra = FALSE]},
             reply \in Replies : Finish(r, reply)
    <3>1. CASE HandlerReturns
      BY <1>3, <3>1 DEF HandlerReturns, Replies
    <3>2. CASE HandlerSetsHeaders
      BY <3>2 DEF HandlerSetsHeaders, Replies
    <3>3. CASE HandlerUnserialisable
      BY <3>3 DEF HandlerUnserialisable, Replies
    <3> QED
      BY <1>5, <3>1, <3>2, <3>3
  <2>3. r \in Calls /\ r.kind = "predict" /\ r.at = call[current].at
        /\ r.reply = call[current].reply
    BY <2>1, RanRecord
  <2>4. call[current].kind = "predict"
    BY <2>1 DEF Serves
  <2> QED
    BY <1>1, <1>2, <2>1, <2>2, <2>3, <2>4, FinishSimulates
<1> QED
  BY <1>4, <1>5 DEF Handle

\* The handler begins, never to return: its caller still waits.
LEMMA HangSimulates ==
  ASSUME IndInv, HandlerHangs
  PROVE  Picture!Hang
<1>1. current \in Callers /\ phase = "handling" /\ ~stop
  BY DEF HandlerHangs, Serves, IndInv, TypeOK, CurrentFormed, StopSettled
<1>2. call \in [Callers -> Calls]
  BY DEF IndInv, TypeOK
<1>3. Outcome(call'[current]) = Outcome(call[current])
      /\ \A x \in Callers \ {current} : call'[x] = call[x]
  BY <1>1, <1>2 DEF HandlerHangs, Ran, Outcome, Calls
<1>4. outcome' = [outcome EXCEPT ![current] = outcome[current]]
  BY <1>1, <1>3, OutcomeChanges
<1>5. outcome' = outcome
  BY <1>4 DEF outcome
<1>6. procState = "serving" /\ procState' = "hung"
  BY <1>1 DEF HandlerHangs, procState, Starting
<1> QED
  BY <1>5, <1>6 DEF Picture!Hang

\* Every step of the program, or of a caller, is a step of WorkerProcess or a
\* stutter.
LEMMA StepSimulates ==
  ASSUME IndInv, [Next]_vars
  PROVE  [Picture!Next]_<<procState, outcome>>
<1>1. call' = call => outcome' = outcome
  BY DEF outcome, Outcome
<1>2. ~stop \/ phase \in {"accepting", "exited"}
  BY DEF IndInv, StopSettled
<1>3. CASE UNCHANGED vars
  BY <1>1, <1>3 DEF vars, procState
<1>4. CASE Import \/ Prepare \/ Bind \/ Accept
  BY <1>1, <1>4 DEF Import, Prepare, Bind, Accept, wire, procState, Starting
<1>5. CASE Listen
  BY <1>1, <1>2, <1>5 DEF Listen, wire, procState, Starting, Picture!Next, Picture!Bind
<1>6. CASE Handle
  BY <1>6, HandleSimulates
<1>7. CASE HandlerHangs
  BY <1>7, HangSimulates DEF Picture!Next
<1>8. CASE Close \/ Dies
  BY <1>1, <1>8 DEF Close, Dies, procState, Starting, Picture!Next, Picture!Crash
<1>9. ASSUME NEW c \in Callers, Ask(c) \/ Connect(c) \/ Lost(c) \/ Cancel(c) \/ Return(c)
      PROVE  [Picture!Next]_<<procState, outcome>>
  BY <1>9, CallerSimulates
<1> QED
  BY <1>3, <1>4, <1>5, <1>6, <1>7, <1>8, <1>9 DEF Next, Process

\* Whatever the handlers do and however many goroutines call, the program of
\* sdk/python/gonnx is the process the supervisor was modelled with.
THEOREM ServerRefinement == Spec => ImplementsProcess
<1>1. Init => Picture!Init
  BY DEF Init, Picture!Init, procState, outcome, Outcome, Starting, Idle
<1> QED
  BY <1>1, StepSimulates, Invariance, PTL
  DEF Spec, ImplementsProcess, Picture!Spec, Picture!vars
=============================================================================
