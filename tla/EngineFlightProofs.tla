-------------------------- MODULE EngineFlightProofs --------------------------
(***************************************************************************)
(* Theorems about the pushes of Engine.tla on their way through the pool:  *)
(* that there is one per output at most, that Engine implements Delivery,  *)
(* and that retries do not multiply.                                       *)
(***************************************************************************)
EXTENDS EngineDelivery, EngineProofs, FiniteSetTheorems

(* A push of v to o waits in the pool's queue, is being applied, or its    *)
(* result waits in the core's queue.                                       *)
Waiting(o, v) ==
    /\ {j \in jobs : j.output = o} = {[output |-> o, value |-> v]}
    /\ {j \in busy : j.output = o} = {} /\ Results(o) = {}

Applying(o, v) ==
    /\ {j \in busy : j.output = o} = {[output |-> o, value |-> v]}
    /\ {j \in jobs : j.output = o} = {} /\ Results(o) = {}

Unread(o, v) == \E k \in DOMAIN queue : Results(o) = {k} /\ queue[k].value = v

Answered(o, v) ==
    /\ Unread(o, v)
    /\ {j \in jobs : j.output = o} = {} /\ {j \in busy : j.output = o} = {}

(* An output has no push anywhere, or exactly one, and _in_flight knows.   *)
Grounded(o) ==
    /\ o \notin inFlight
    /\ {j \in jobs : j.output = o} = {} /\ {j \in busy : j.output = o} = {}
    /\ Results(o) = {}

Airborne(o, v) ==
    /\ o \in inFlight /\ v \in Values
    /\ Waiting(o, v) \/ Applying(o, v) \/ Answered(o, v)

(* The inductive invariant behind SingleFlight.  Without a process there   *)
(* is nothing on its way, which is why Start may begin with empty sets.    *)
FlightInv ==
    /\ \A o \in Outputs : Grounded(o) \/ \E v \in Values : Airborne(o, v)
    /\ phase = "down" => queue = <<>> /\ jobs = {} /\ busy = {} /\ inFlight = {}

(* What a step may do to the push of an output.                            *)
Stays(o) ==
    /\ outputState'[o] = outputState[o]
    /\ \/ Grounded(o) /\ Grounded(o)'
       \/ \E v \in Values : Airborne(o, v) /\ Airborne(o, v)'

Departs(o) ==
    /\ outputState'[o] = outputState[o]
    /\ Grounded(o)
    /\ \E v \in Values : v = Desired(o)' /\ v = pending'[o].target /\ Airborne(o, v)'

Lands(o) ==
    \E v \in Values : /\ Airborne(o, v) /\ Grounded(o)'
                      /\ outputState'[o] \in {outputState[o], v}

Moves == \A o \in Outputs : Stays(o) \/ Departs(o) \/ Lands(o)

-----------------------------------------------------------------------------
(* Posting a message other than a result leaves the results as they are.   *)
LEMMA AppendOther ==
    ASSUME queue \in Seq(CoreMessage), NEW m \in CoreMessage, queue' = Append(queue, m),
           NEW o, ~(m.kind = "result" /\ m.instance = o)
    PROVE  /\ Results(o) = {} => Results(o)' = {}
           /\ \A v : Unread(o, v) => Unread(o, v)'
<1>1. /\ DOMAIN queue = 1 .. Len(queue) /\ Len(queue) \in Nat
      /\ DOMAIN queue' = 1 .. Len(queue) + 1
      /\ \A k \in 1 .. Len(queue) : queue'[k] = queue[k]
      /\ queue'[Len(queue) + 1] = m
  BY AppendProperties, LenProperties
<1>2. Results(o)' = Results(o)
  BY <1>1 DEF Results
<1>3. \A k \in Results(o) : queue'[k] = queue[k]
  BY <1>1 DEF Results
<1> QED BY <1>2, <1>3 DEF Unread

(* Posting the first result for an output makes it the only one.           *)
LEMMA AppendResult ==
    ASSUME queue \in Seq(CoreMessage), NEW m \in CoreMessage, queue' = Append(queue, m),
           m.kind = "result", Results(m.instance) = {}
    PROVE  Unread(m.instance, m.value)'
<1>1. /\ DOMAIN queue = 1 .. Len(queue) /\ Len(queue) \in Nat
      /\ DOMAIN queue' = 1 .. Len(queue) + 1
      /\ \A k \in 1 .. Len(queue) : queue'[k] = queue[k]
      /\ queue'[Len(queue) + 1] = m
  BY AppendProperties, LenProperties
<1>2. Results(m.instance)' = {Len(queue) + 1}
  BY <1>1 DEF Results
<1> QED BY <1>1, <1>2 DEF Unread

(* Taking a message other than a result leaves the results as they are.    *)
LEMMA TailOther ==
    ASSUME queue \in Seq(CoreMessage), queue # <<>>, queue' = Tail(queue),
           NEW o, ~(Head(queue).kind = "result" /\ Head(queue).instance = o)
    PROVE  /\ Results(o) = {} => Results(o)' = {}
           /\ \A v : Unread(o, v) => Unread(o, v)'
<1>1. /\ DOMAIN queue = 1 .. Len(queue) /\ Len(queue) \in Nat \ {0}
      /\ DOMAIN queue' = 1 .. Len(queue) - 1
      /\ \A k \in 1 .. Len(queue) - 1 : queue'[k] = queue[k + 1]
      /\ queue[1] = Head(queue)
  BY HeadTailProperties, LenProperties, EmptySeq
<1>2. 1 \notin Results(o)
  BY <1>1 DEF Results
<1>3. \A k \in Results(o)' : k + 1 \in Results(o)
  BY <1>1 DEF Results
<1>4. \A k \in Results(o) : k - 1 \in Results(o)' /\ queue'[k - 1] = queue[k]
  <2> SUFFICES ASSUME NEW k \in Results(o)
               PROVE  k - 1 \in Results(o)' /\ queue'[k - 1] = queue[k]
    OBVIOUS
  <2>1. k \in 2 .. Len(queue)
    BY <1>1, <1>2 DEF Results
  <2>2. k - 1 \in 1 .. Len(queue) - 1 /\ (k - 1) + 1 = k
    BY <1>1, <2>1
  <2>3. queue'[k - 1] = queue[k]
    BY <1>1, <2>2
  <2> QED BY <1>1, <2>2, <2>3 DEF Results
<1>5. ASSUME NEW v, NEW k, Results(o) = {k}, queue[k].value = v
      PROVE  Results(o)' = {k - 1} /\ queue'[k - 1].value = v
  <2>1. k \in Nat
    BY <1>1, <1>5 DEF Results
  <2>2. \A l \in Results(o)' : l = k - 1
    BY <1>1, <1>3, <1>5, <2>1 DEF Results
  <2> QED BY <1>4, <1>5, <2>2
<1>6. \A k : Results(o)' = {k} => k \in DOMAIN queue'
  BY DEF Results
<1> QED BY <1>3, <1>5, <1>6 DEF Unread

(* Taking the only result of an output leaves none.                        *)
LEMMA TailResult ==
    ASSUME queue \in Seq(CoreMessage), queue # <<>>, queue' = Tail(queue),
           Head(queue).kind = "result", NEW o, o = Head(queue).instance
    PROVE  /\ Results(o) # {}
           /\ \A v : Unread(o, v) => Head(queue).value = v /\ Results(o)' = {}
<1>1. /\ DOMAIN queue = 1 .. Len(queue) /\ Len(queue) \in Nat \ {0}
      /\ DOMAIN queue' = 1 .. Len(queue) - 1
      /\ \A k \in 1 .. Len(queue) - 1 : queue'[k] = queue[k + 1]
      /\ queue[1] = Head(queue)
  BY HeadTailProperties, LenProperties, EmptySeq
<1>2. 1 \in Results(o)
  BY <1>1 DEF Results
<1>3. \A k \in Results(o)' : k + 1 \in Results(o) /\ k \in Nat \ {0}
  BY <1>1 DEF Results
<1>4. ASSUME NEW v, NEW k, Results(o) = {k}, queue[k].value = v
      PROVE  Head(queue).value = v /\ Results(o)' = {}
  <2>1. k = 1
    BY <1>2, <1>4
  <2> QED BY <1>1, <1>3, <1>4, <2>1
<1> QED BY <1>2, <1>4 DEF Unread

-----------------------------------------------------------------------------
(* An output that a step does not concern keeps its push as it is.         *)
LEMMA OtherStays ==
    ASSUME FlightInv, NEW o \in Outputs,
           {j \in jobs' : j.output = o} = {j \in jobs : j.output = o},
           {j \in busy' : j.output = o} = {j \in busy : j.output = o},
           o \in inFlight' <=> o \in inFlight,
           outputState'[o] = outputState[o],
           Results(o) = {} => Results(o)' = {},
           \A v : Unread(o, v) => Unread(o, v)'
    PROVE  Stays(o)
<1>1. CASE Grounded(o)
  BY <1>1 DEF Grounded, Stays
<1>2. CASE \E v \in Values : Airborne(o, v)
  <2>1. PICK v \in Values : Airborne(o, v)
    BY <1>2
  <2>2. Airborne(o, v)'
    BY <2>1 DEF Airborne, Waiting, Applying, Answered
  <2> QED BY <2>1, <2>2 DEF Stays
<1> QED BY <1>1, <1>2 DEF FlightInv

(* A step that touches no push leaves every one where it is.               *)
LEMMA Untouched ==
    ASSUME FlightInv, UNCHANGED <<jobs, busy, inFlight, outputState>>,
           \A o \in Outputs : /\ Results(o) = {} => Results(o)' = {}
                             /\ \A v : Unread(o, v) => Unread(o, v)'
    PROVE  Moves
BY OtherStays DEF Moves

(* A dispatcher thread takes a request: its push waits, and is then being  *)
(* applied, or is answered at once for an output that is gone.             *)
LEMMA TakeMoves ==
    ASSUME TypeOK, FlightInv, NEW j \in jobs, Take(j)
    PROVE  Moves
<1>1. /\ j \in Request /\ j = [output |-> j.output, value |-> j.value]
      /\ j.output \in Outputs /\ queue \in Seq(CoreMessage)
      /\ PushResult(j.output, j.value, "no") \in CoreMessage
  BY DEF TypeOK, Request, PushResult, CoreMessage
<1>2. /\ jobs' = jobs \ {j} /\ UNCHANGED <<inFlight, outputState>>
      /\ \/ busy' = busy \cup {j} /\ queue' = queue
         \/ busy' = busy /\ queue' = Append(queue, PushResult(j.output, j.value, "no"))
  BY DEF Take, core, durable
<1>3. Airborne(j.output, j.value) /\ Waiting(j.output, j.value)
  <2>1. ~Grounded(j.output)
    BY DEF Grounded
  <2>2. PICK v \in Values : Airborne(j.output, v)
    BY <1>1, <2>1 DEF FlightInv
  <2>3. Waiting(j.output, v) /\ v = j.value
    BY <2>2 DEF Airborne, Waiting, Applying, Answered
  <2> QED BY <2>2, <2>3
<1>4. Airborne(j.output, j.value)'
  <2>1. {k \in jobs' : k.output = j.output} = {}
    BY <1>2, <1>3, <1>1 DEF Waiting
  <2>2. CASE busy' = busy \cup {j} /\ queue' = queue
    <3>1. {k \in busy' : k.output = j.output} = {j}
      BY <1>3, <2>2 DEF Waiting
    <3>2. Results(j.output)' = {}
      BY <1>3, <2>2 DEF Waiting, Results
    <3>3. Applying(j.output, j.value)'
      BY <1>1, <2>1, <3>1, <3>2 DEF Applying
    <3> QED BY <1>2, <1>3, <3>3 DEF Airborne
  <2>3. CASE busy' = busy /\ queue' = Append(queue, PushResult(j.output, j.value, "no"))
    <3>1. Unread(j.output, j.value)'
      <4> DEFINE m == PushResult(j.output, j.value, "no")
      <4>1. m.kind = "result" /\ m.instance = j.output /\ m.value = j.value
        BY DEF PushResult
      <4> HIDE DEF m
      <4> QED BY <1>1, <1>3, <2>3, <4>1, AppendResult DEF Waiting, m
    <3>2. Answered(j.output, j.value)'
      BY <1>3, <2>1, <2>3, <3>1 DEF Answered, Waiting
    <3> QED BY <1>2, <1>3, <3>2 DEF Airborne
  <2> QED BY <1>2, <2>2, <2>3
<1>5. ASSUME NEW o \in Outputs, o # j.output
      PROVE  Stays(o)
  <2>1. /\ Results(o) = {} => Results(o)' = {}
        /\ \A v : Unread(o, v) => Unread(o, v)'
    <3>1. CASE queue' = queue
      BY <3>1 DEF Results, Unread
    <3>2. CASE queue' = Append(queue, PushResult(j.output, j.value, "no"))
      BY <1>1, <1>5, <3>2, AppendOther DEF PushResult
    <3> QED BY <1>2, <3>1, <3>2
  <2>2. /\ {k \in jobs' : k.output = o} = {k \in jobs : k.output = o}
        /\ {k \in busy' : k.output = o} = {k \in busy : k.output = o}
    BY <1>2, <1>5
  <2> QED BY <1>2, <2>1, <2>2, OtherStays
<1>6. Stays(j.output)
  BY <1>2, <1>3, <1>4, <1>1 DEF Stays, Request
<1> QED BY <1>5, <1>6 DEF Moves

(* apply() returned or raised: the push is answered.                       *)
LEMMA FinishMoves ==
    ASSUME TypeOK, FlightInv, NEW j \in busy, NEW ok \in {"yes", "no"}, Finish(j, ok)
    PROVE  Moves
<1> DEFINE m == PushResult(j.output, j.value, ok)
<1>1. /\ j \in Request /\ j.output \in Outputs /\ queue \in Seq(CoreMessage)
      /\ m \in CoreMessage
      /\ m.kind = "result" /\ m.instance = j.output /\ m.value = j.value
  BY DEF TypeOK, Request, PushResult, CoreMessage
<1>2. /\ busy' = busy \ {j} /\ queue' = Append(queue, m)
      /\ UNCHANGED <<jobs, inFlight, outputState>>
  BY DEF Finish, core, durable
<1> HIDE DEF m
<1>3. Airborne(j.output, j.value) /\ Applying(j.output, j.value)
  <2>1. ~Grounded(j.output)
    BY DEF Grounded
  <2>2. PICK v \in Values : Airborne(j.output, v)
    BY <1>1, <2>1 DEF FlightInv
  <2>3. Applying(j.output, v) /\ v = j.value
    BY <2>2 DEF Airborne, Waiting, Applying, Answered
  <2> QED BY <2>2, <2>3
<1>4. Airborne(j.output, j.value)'
  <2>1. Unread(j.output, j.value)'
    BY <1>1, <1>2, <1>3, AppendResult DEF Applying
  <2>2. {k \in busy' : k.output = j.output} = {}
    BY <1>1, <1>2, <1>3 DEF Applying
  <2>3. Answered(j.output, j.value)'
    BY <1>2, <1>3, <2>1, <2>2 DEF Answered, Applying
  <2> QED BY <1>2, <1>3, <2>3 DEF Airborne
<1>5. ASSUME NEW o \in Outputs, o # j.output
      PROVE  Stays(o)
  <2>1. /\ Results(o) = {} => Results(o)' = {}
        /\ \A v : Unread(o, v) => Unread(o, v)'
    BY <1>1, <1>2, <1>5, AppendOther
  <2>2. {k \in busy' : k.output = o} = {k \in busy : k.output = o}
    BY <1>2, <1>5
  <2> QED BY <1>2, <2>1, <2>2, OtherStays
<1>6. Stays(j.output)
  BY <1>1, <1>2, <1>3, <1>4 DEF Stays, Request
<1> QED BY <1>5, <1>6 DEF Moves

(* _handle_push_result: the push it is about has landed, and only the      *)
(* value that was sent may be noted.                                       *)
LEMMA PushResultMoves ==
    ASSUME TypeOK, FlightInv, HandlePushResult
    PROVE  Moves
<1> DEFINE m == Head(queue)
<1>1. /\ queue \in Seq(CoreMessage) /\ queue # <<>> /\ queue' = Tail(queue)
      /\ m \in CoreMessage /\ m.kind = "result" /\ m.instance \in Outputs
  BY ReceiveType, MessageFields DEF HandlePushResult, Receive, TypeOK
<1>2. /\ inFlight' = inFlight \ {m.instance} /\ UNCHANGED <<jobs, busy>>
      /\ outputState' = IF m.ok = "yes" THEN [outputState EXCEPT ![m.instance] = m.value]
                        ELSE outputState
  BY DEF HandlePushResult, dispatcher
<1>3. outputState \in [Outputs -> Values \cup {"none"}]
  BY DEF TypeOK
<1>4. PICK o \in Outputs : o = m.instance
  BY <1>1
<1>5. /\ Results(o) # {}
      /\ \A v : Unread(o, v) => m.value = v /\ Results(o)' = {}
  BY <1>1, <1>4, TailResult
<1>6. PICK v \in Values : Airborne(o, v) /\ Answered(o, v)
  BY <1>5 DEF FlightInv, Grounded, Airborne, Waiting, Applying
<1>7. Lands(o)
  <2>1. m.value = v /\ Results(o)' = {}
    BY <1>5, <1>6 DEF Answered
  <2>2. outputState'[o] \in {outputState[o], v}
    BY <1>2, <1>3, <1>4, <2>1
  <2>3. Grounded(o)'
    BY <1>2, <1>4, <1>6, <2>1 DEF Grounded, Answered
  <2> QED BY <1>6, <2>2, <2>3 DEF Lands
<1>8. ASSUME NEW p \in Outputs, p # o
      PROVE  Stays(p)
  <2>1. /\ Results(p) = {} => Results(p)' = {}
        /\ \A u : Unread(p, u) => Unread(p, u)'
    BY <1>1, <1>4, <1>8, TailOther
  <2>2. outputState'[p] = outputState[p] /\ (p \in inFlight' <=> p \in inFlight)
    BY <1>2, <1>3, <1>4, <1>8
  <2> QED BY <1>2, <2>1, <2>2, OtherStays
<1> QED BY <1>7, <1>8 DEF Moves

(* _dispatch_due_pushes, as all three of its callers use it: a push departs *)
(* to an output that had none, with the value that is wanted and owed.     *)
LEMMA DispatchMoves ==
    ASSUME FlightInv, NEW pend \in [Outputs -> PendingPush], NEW live, NEW g, NEW ls, NEW at,
           jobs' = jobs \cup DispatchedRequests(pend, inFlight, live, g, ls, at),
           inFlight' = inFlight \cup ReadyOutputs(pend, inFlight, live, at),
           pending' = DispatchedTable(pend, inFlight, live, g, ls, at),
           UNCHANGED <<busy, queue, outputState>>,
           Graph' = g, latches' = ls
    PROVE  Moves
<1> DEFINE ready == ReadyOutputs(pend, inFlight, live, at)
<1>1. \A o \in Outputs : Results(o)' = Results(o) /\ \A v : Unread(o, v) => Unread(o, v)'
  BY DEF Results, Unread
<1>2. ASSUME NEW o \in Outputs, o \notin ready
      PROVE  Stays(o)
  <2>1. {j \in jobs' : j.output = o} = {j \in jobs : j.output = o}
    BY <1>2 DEF DispatchedRequests
  <2> QED BY <1>1, <1>2, <2>1, OtherStays
<1>3. ASSUME NEW o \in ready
      PROVE  Departs(o)
  <2>0. PICK v \in Values : v = DesiredOutputState(g, o, ls)
    BY DesiredType
  <2>1. o \in Outputs /\ o \notin inFlight /\ o \in live
        /\ o \in DuePushes(pend, inFlight, at)
    BY DEF ReadyOutputs, DuePushes
  <2>2. Grounded(o)
    BY <2>1 DEF FlightInv, Airborne
  <2>3. {j \in jobs' : j.output = o} = {[output |-> o, value |-> v]}
    <3>1. {j \in jobs : j.output = o} = {}
      BY <2>2 DEF Grounded
    <3>2. [output |-> o, value |-> v] \in DispatchedRequests(pend, inFlight, live, g, ls, at)
      BY <2>0 DEF DispatchedRequests
    <3>3. \A j \in DispatchedRequests(pend, inFlight, live, g, ls, at) :
             j.output = o => j = [output |-> o, value |-> v]
      BY <2>0 DEF DispatchedRequests
    <3> QED BY <3>1, <3>2, <3>3
  <2>4. v = Desired(o)'
    BY <2>0 DEF Desired
  <2>5. v = pending'[o].target
    BY <2>0, <2>1 DEF DispatchedTable, PendingPush
  <2>6. o \in inFlight'
    OBVIOUS
  <2>7. Waiting(o, v)'
    BY <1>1, <2>1, <2>2, <2>3 DEF Waiting, Grounded
  <2>8. Airborne(o, v)'
    BY <2>6, <2>7 DEF Airborne
  <2> QED BY <2>1, <2>2, <2>4, <2>5, <2>8 DEF Departs
<1> QED BY <1>2, <1>3 DEF Moves

(* reconcile() forces a push to every output, on top of those on their way. *)
LEMMA ReconcileAllMoves ==
    ASSUME TypeOK, FlightInv, NEW downtime, NEW raised, NEW reports,
           ReconcileAll(downtime, raised, reports)
    PROVE  Moves
<1>1. PICK new, outs :
         /\ latches' = new
         /\ LET pend == SyncOutputs(outs, Graph, new, outputState, pending, TRUE)
            IN  /\ pending'  = DispatchedTable(pend, inFlight, Live, Graph, new, now)
                /\ inFlight' = inFlight \cup ReadyOutputs(pend, inFlight, Live, now)
                /\ jobs'     = jobs \cup DispatchedRequests(pend, inFlight, Live, Graph, new, now)
  BY DEF ReconcileAll, WriteLatches
<1> DEFINE pend == SyncOutputs(outs, Graph, new, outputState, pending, TRUE)
<1>2. pend \in [Outputs -> PendingPush]
  BY SyncOutputsType DEF TypeOK
<1>3. UNCHANGED <<busy, queue, outputState, config>>
  BY DEF ReconcileAll
<1>4. PICK g : g = Graph /\ g = Graph'
  BY <1>3 DEF Graph
<1>5. /\ pending'  = DispatchedTable(pend, inFlight, Live, g, new, now)
      /\ inFlight' = inFlight \cup ReadyOutputs(pend, inFlight, Live, now)
      /\ jobs'     = jobs \cup DispatchedRequests(pend, inFlight, Live, g, new, now)
  BY <1>1, <1>4
<1> HIDE DEF pend
<1> QED BY <1>1, <1>2, <1>3, <1>4, <1>5, DispatchMoves

(* The first tick of a process sends what was pending.                     *)
LEMMA StartMoves ==
    ASSUME TypeOK, FlightInv, NEW c \in Configurations, Start(c)
    PROVE  Moves
<1> DEFINE g == FromConfiguration(c)
           pend == SyncOutputs(OutputNames(g), g, db, outputState, pending, FALSE)
<1>1. /\ jobs = {} /\ inFlight = {}
  BY DEF Start, FlightInv
<1>2. pend \in [Outputs -> PendingPush]
  <2> HIDE DEF g
  <2> QED BY SyncOutputsType DEF TypeOK
<1>3. /\ pending'  = DispatchedTable(pend, inFlight, c.instances, g, db, now)
      /\ inFlight' = inFlight \cup ReadyOutputs(pend, inFlight, c.instances, now)
      /\ jobs'     = jobs \cup DispatchedRequests(pend, inFlight, c.instances, g, db, now)
      /\ UNCHANGED <<busy, queue, outputState>>
      /\ Graph' = g /\ latches' = db
  BY <1>1 DEF Start, Graph
<1> HIDE DEF g, pend
<1> QED BY <1>2, <1>3, DispatchMoves

(* The dispatching half of a tick.                                         *)
LEMMA DispatchDueMoves ==
    ASSUME TypeOK, FlightInv, DispatchDuePushes
    PROVE  Moves
<1>1. UNCHANGED <<busy, queue, outputState, config, latches>>
  BY DEF DispatchDuePushes
<1>2. PICK g, ls : g = Graph /\ g = Graph' /\ ls = latches
  BY <1>1 DEF Graph
<1>3. /\ pending'  = DispatchedTable(pending, inFlight, Live, g, ls, tickAt)
      /\ inFlight' = inFlight \cup ReadyOutputs(pending, inFlight, Live, tickAt)
      /\ jobs'     = jobs \cup DispatchedRequests(pending, inFlight, Live, g, ls, tickAt)
  BY <1>2 DEF DispatchDuePushes
<1> QED BY <1>1, <1>2, <1>3, DispatchMoves DEF TypeOK

(* A message that is not a result is posted: no push moves.                *)
LEMMA SubmitMoves ==
    ASSUME TypeOK, FlightInv, NEW m \in CoreMessage, m.kind # "result", Submit(m)
    PROVE  Moves
<1>1. /\ queue \in Seq(CoreMessage) /\ queue' = Append(queue, m)
      /\ UNCHANGED <<jobs, busy, inFlight, outputState>>
  BY DEF TypeOK, Submit, durable, core, dispatcher
<1> QED BY <1>1, AppendOther, Untouched

(* A message that is not a result is taken: no push moves.                 *)
LEMMA ReceiveMoves ==
    ASSUME TypeOK, FlightInv, NEW kind, kind # "result", Receive(kind),
           UNCHANGED <<jobs, busy, inFlight, outputState>>
    PROVE  Moves
<1>1. /\ queue \in Seq(CoreMessage) /\ queue # <<>> /\ queue' = Tail(queue)
      /\ Head(queue).kind # "result"
  BY DEF TypeOK, Receive
<1> QED BY <1>1, TailOther, Untouched

(* A step that leaves the queue and the pool alone.                        *)
LEMMA IdleMoves ==
    ASSUME FlightInv, UNCHANGED <<jobs, busy, inFlight, outputState, queue>>
    PROVE  Moves
<1>1. \A o \in Outputs : /\ Results(o) = {} => Results(o)' = {}
                        /\ \A v : Unread(o, v) => Unread(o, v)'
  BY DEF Results, Unread
<1> QED BY <1>1, Untouched

(* Every step of the engine moves each push as Moves says, or ends the     *)
(* process.                                                                *)
LEMMA NextMoves ==
    ASSUME TypeOK, FlightInv, [Next]_vars
    PROVE  \/ Moves /\ phase' # "down"
           \/ ProcessGone
           \/ UNCHANGED <<phase, queue, jobs, busy, inFlight>> /\ Moves
<1>1. CASE UNCHANGED vars
  BY <1>1, IdleMoves DEF vars, durable, core, dispatcher
<1>2. CASE HandleInputEvent \/ HandleUnlatch \/ IgnoreUnlatch \/ HandleReload
  <2>1. phase' # "down" /\ UNCHANGED <<jobs, busy, inFlight, outputState>>
    BY <1>2 DEF HandleInputEvent, HandleUnlatch, IgnoreUnlatch, HandleReload, Receive,
                dispatcher, durable
  <2>2. \E kind \in {"event", "unlatch", "reload"} : Receive(kind)
    BY <1>2 DEF HandleInputEvent, HandleUnlatch, IgnoreUnlatch, HandleReload
  <2> QED BY <2>1, <2>2, ReceiveMoves
<1>3. CASE HandlePushResult
  <2>1. phase' # "down"
    BY <1>3 DEF HandlePushResult, Receive
  <2> QED BY <1>3, <2>1, PushResultMoves
<1>4. CASE HandleShutdown \/ Crash
  BY <1>4 DEF HandleShutdown, Crash
<1>5. CASE BeginTick
  <2>1. phase' # "down" /\ UNCHANGED <<jobs, busy, inFlight, outputState, queue>>
    BY <1>5 DEF BeginTick, dispatcher, durable
  <2> QED BY <2>1, IdleMoves
<1>6. CASE DispatchDuePushes
  <2>1. phase' # "down"
    BY <1>6 DEF DispatchDuePushes
  <2> QED BY <1>6, <2>1, DispatchDueMoves
<1>7. CASE \/ \E t \in due, rep \in Reports : HandleReconcileRetry(t, rep)
           \/ \E t \in due, raised \in BOOLEAN, ev \in EventLists :
                 HandleCatchUpRetry(t, raised, ev)
  <2>1. phase' # "down" /\ UNCHANGED <<jobs, busy, inFlight, outputState, queue>>
    BY <1>7 DEF HandleReconcileRetry, HandleCatchUpRetry, Fire, dispatcher
  <2> QED BY <2>1, IdleMoves
<1>8. CASE \E downtime \in [Inputs -> EventLists], raised \in SUBSET Inputs,
             reports \in [Outputs -> Reports] : ReconcileAll(downtime, raised, reports)
  <2>1. PICK downtime, raised, reports : ReconcileAll(downtime, raised, reports)
    BY <1>8
  <2>2. phase' # "down"
    BY <2>1 DEF ReconcileAll
  <2> QED BY <2>1, <2>2, ReconcileAllMoves
<1>9. CASE PoolNext
  <2>1. phase' # "down"
    BY <1>9 DEF PoolNext, Take, Finish, core
  <2> QED BY <1>9, <2>1, TakeMoves, FinishMoves DEF PoolNext
<1>10. CASE \/ \E i \in Inputs, t \in Time : Emit(i, t)
            \/ \E o \in Outputs : RequestUnlatch(o)
            \/ \E c \in Configurations : SubmitReload(c)
            \/ RequestStop
  <2>1. \E m \in CoreMessage : m.kind # "result" /\ Submit(m)
    BY <1>10 DEF Emit, RequestUnlatch, SubmitReload, RequestStop, CoreMessage, InputEvent,
                 UnlatchRequest, ReloadMessage, ShutdownMessage
  <2>2. phase' # "down"
    BY <2>1 DEF Submit, core
  <2> QED BY <2>1, <2>2, SubmitMoves
<1>11. CASE \E c \in Configurations : Start(c)
  <2>1. phase' # "down"
    BY <1>11 DEF Start
  <2> QED BY <1>11, <2>1, StartMoves
<1>12. CASE ClockTick
  BY <1>12, IdleMoves DEF ClockTick, durable, core, dispatcher
<1> QED
  BY <1>1, <1>2, <1>3, <1>4, <1>5, <1>6, <1>7, <1>8, <1>9, <1>10, <1>11, <1>12
  DEF Next, CoreNext, OutsideNext

(* The end of the process grounds everything.                              *)
LEMMA GoneGrounds ==
    ASSUME ProcessGone
    PROVE  \A o \in Outputs : Grounded(o)'
<1>1. queue' = <<>> /\ jobs' = {} /\ busy' = {} /\ inFlight' = {}
  BY DEF ProcessGone
<1>2. \A o : Results(o)' = {}
  BY <1>1 DEF Results
<1> QED BY <1>1, <1>2 DEF Grounded

(* Every output has no push or one, at the start and after every step.     *)
LEMMA FlightStep ==
    /\ Init => FlightInv
    /\ TypeOK /\ FlightInv /\ [Next]_vars => FlightInv'
<1>1. ASSUME Init PROVE FlightInv
  <2>1. queue = <<>> /\ jobs = {} /\ busy = {} /\ inFlight = {}
    BY <1>1 DEF Init
  <2>2. \A o : Results(o) = {}
    BY <2>1 DEF Results
  <2> QED BY <2>1, <2>2 DEF FlightInv, Grounded
<1>2. ASSUME TypeOK, FlightInv, [Next]_vars PROVE FlightInv'
  <2>1. Moves => \A o \in Outputs : (Grounded(o) \/ \E v \in Values : Airborne(o, v))'
    BY DEF Moves, Stays, Departs, Lands
  <2>2. CASE ProcessGone
    <3>1. queue' = <<>> /\ jobs' = {} /\ busy' = {} /\ inFlight' = {}
      BY <2>2 DEF ProcessGone
    <3> QED BY <2>2, <3>1, GoneGrounds DEF FlightInv
  <2>3. CASE Moves /\ (phase' # "down" \/ UNCHANGED <<phase, queue, jobs, busy, inFlight>>)
    <3>1. (phase = "down" => queue = <<>> /\ jobs = {} /\ busy = {} /\ inFlight = {})'
      BY <1>2, <2>3 DEF FlightInv
    <3> QED BY <2>1, <2>3, <3>1 DEF FlightInv
  <2> QED BY <1>2, <2>2, <2>3, NextMoves
<1> QED BY <1>1, <1>2

(* The engine keeps FlightInv.                                             *)
LEMMA FlightInvariant == Spec => []FlightInv
BY FlightStep, TypeCorrect, PTL DEF Spec

(* Nobody ever pushes to an output twice at once, and no output stays in   *)
(* _in_flight without a push: whatever is posted, lost with the process or *)
(* late, each output has one push on its way exactly if _in_flight says so. *)
THEOREM OnePushPerOutput == Spec => []SingleFlight
<1>1. ASSUME FlightInv, NEW o \in Outputs
      PROVE  Cardinality({j \in jobs : j.output = o}) + Cardinality({j \in busy : j.output = o})
               + Cardinality(Results(o)) = (IF o \in inFlight THEN 1 ELSE 0)
  <2> DEFINE J == {j \in jobs : j.output = o}
             B == {j \in busy : j.output = o}
             R == Results(o)
             One(S) == \E x : S = {x}
  <2>1. \/ o \notin inFlight /\ J = {} /\ B = {} /\ R = {}
        \/ o \in inFlight /\ One(J) /\ B = {} /\ R = {}
        \/ o \in inFlight /\ J = {} /\ One(B) /\ R = {}
        \/ o \in inFlight /\ J = {} /\ B = {} /\ One(R)
    <3>1. CASE Grounded(o)
      BY <3>1 DEF Grounded
    <3>2. CASE \E v \in Values : Airborne(o, v)
      BY <3>2 DEF Airborne, Waiting, Applying, Answered, Unread
    <3> QED BY <1>1, <3>1, <3>2 DEF FlightInv
  <2> HIDE DEF J, B, R
  <2>2. /\ Cardinality({}) = 0
        /\ \A S : One(S) => Cardinality(S) = 1
    BY FS_EmptySet, FS_Singleton
  <2> HIDE DEF One
  <2>3. Cardinality(J) + Cardinality(B) + Cardinality(R) = (IF o \in inFlight THEN 1 ELSE 0)
    BY <2>1, <2>2
  <2> QED BY <2>3 DEF J, B, R
<1>2. FlightInv => SingleFlight
  BY <1>1 DEF SingleFlight
<1> QED BY <1>2, FlightInvariant, PTL

-----------------------------------------------------------------------------
(* The refinement mapping reads "none" off an output without a push, and   *)
(* the value of its one push off any other.                                *)
LEMMA FlyingRead ==
    \A o, v : /\ Grounded(o) => Flying(o) = "none"
              /\ Airborne(o, v) => Flying(o) = v /\ v # "none"
<1>1. ASSUME NEW o, Grounded(o)
      PROVE  Flying(o) = "none"
  <2>1. \A j \in jobs \cup busy : j.output # o
    BY <1>1 DEF Grounded
  <2>2. Flights(o) = {}
    BY <1>1, <2>1 DEF Flights, Grounded
  <2> QED BY <2>2 DEF Flying
<1>2. ASSUME NEW o, NEW v, Airborne(o, v)
      PROVE  Flights(o) = {v}
  <2> DEFINE r == [output |-> o, value |-> v]
  <2>1. CASE Waiting(o, v) \/ Applying(o, v)
    <3>1. {j \in jobs \cup busy : j.output = o} = {r} /\ Results(o) = {}
      BY <2>1 DEF Waiting, Applying
    <3>2. {j.value : j \in {r}} = {v}
      OBVIOUS
    <3>3. {queue[k].value : k \in {}} = {}
      OBVIOUS
    <3> HIDE DEF r
    <3> QED BY <3>1, <3>2, <3>3 DEF Flights
  <2>2. CASE Answered(o, v)
    <3>1. {j \in jobs \cup busy : j.output = o} = {}
      BY <2>2 DEF Answered
    <3>2. {j.value : j \in {}} = {}
      OBVIOUS
    <3>3. {queue[k].value : k \in Results(o)} = {v}
      BY <2>2 DEF Answered, Unread
    <3> QED BY <3>1, <3>2, <3>3 DEF Flights
  <2> QED BY <1>2, <2>1, <2>2 DEF Airborne
<1> QED BY <1>1, <1>2 DEF Flying, Airborne, Values

(* A step that moves pushes and keeps every output covered is work.        *)
LEMMA MovesWork ==
    ASSUME Moves, PendingCoversDesired', TypeOK'
    PROVE  D!Work
<1>1. (\A o, v : /\ Grounded(o) => Flying(o) = "none"
                 /\ Airborne(o, v) => Flying(o) = v /\ v # "none")'
  BY FlyingRead, PTL
<1>2. ASSUME NEW o \in Outputs
      PROVE  D!Rest(o) \/ D!Send(o) \/ D!Report(o)
  <2>1. \A v : /\ Grounded(o) => Flying(o) = "none"
               /\ Airborne(o, v) => Flying(o) = v /\ v # "none"
    BY FlyingRead
  <2>2. (\A v : /\ Grounded(o) => Flying(o) = "none"
                /\ Airborne(o, v) => Flying(o) = v /\ v # "none")'
    BY <1>1
  <2>3. CASE Stays(o)
    BY <2>1, <2>2, <2>3 DEF Stays, D!Rest
  <2>4. CASE Departs(o)
    BY <2>1, <2>2, <2>4 DEF Departs, D!Send
  <2>5. CASE Lands(o)
    BY <2>1, <2>2, <2>5 DEF Lands, D!Report
  <2> QED BY <2>3, <2>4, <2>5 DEF Moves
<1>3. D!Covered'
  <2>1. OutputNames(Graph)' \subseteq Outputs
    BY GraphType DEF TypeOK, Graph
  <2> QED BY <2>1 DEF D!Covered, Served, PendingCoversDesired
<1> QED BY <1>2, <1>3 DEF D!Work

(* The end of the process loses sight of everything, and of nothing else.  *)
LEMMA GoneStops ==
    ASSUME ProcessGone
    PROVE  D!Stop
<1>1. (\A o, v : /\ Grounded(o) => Flying(o) = "none"
                 /\ Airborne(o, v) => Flying(o) = v /\ v # "none")'
  BY FlyingRead, PTL
<1>2. \A o \in Outputs : Flying(o)' = "none"
  BY <1>1, GoneGrounds
<1> QED BY <1>2 DEF ProcessGone, D!Stop, Served

(* The engine implements Delivery: whatever is noted as applied was on its *)
(* way, whatever is sent is the only value on its way and is wanted and    *)
(* owed, and no served output is wrong and forgotten, with any plugins,    *)
(* reloads and crashes.                                                    *)
THEOREM ImplementsDelivery == Spec => DeliversAsPromised
<1>1. Init => D!Init
  <2> SUFFICES ASSUME Init PROVE D!Init
    OBVIOUS
  <2>1. \A o \in Outputs : Desired(o) \in Values /\ Flying(o) = "none"
    <3>1. \A o : Results(o) = {}
      BY DEF Init, Results
    <3>2. \A o : Grounded(o)
      BY <3>1 DEF Init, Grounded
    <3> QED BY <3>2, FlyingRead, DesiredType DEF Desired
  <2>2. [o \in Outputs |-> pending[o].target] = [o \in Outputs |-> "none"]
    BY DEF Init, NoPush
  <2> QED BY <2>1, <2>2 DEF Init, D!Init, Served
<1>2. TypeOK /\ TypeOK' /\ FlightInv /\ PendingCoversDesired' /\ [Next]_vars => [D!Next]_(D!vars)
  BY NextMoves, MovesWork, GoneStops DEF D!Next
<1> QED
  BY <1>1, <1>2, TypeCorrect, FlightInvariant, OutputsCovered, PTL
  DEF Spec, DeliversAsPromised, D!Spec

-----------------------------------------------------------------------------
(* The inductive invariant behind OneRetryChain.  A timer is scheduled, or *)
(* is about to be fired by the running tick, never both: otherwise the     *)
(* chain that a firing timer continues would be a second one.  Chains      *)
(* begin in reconcile(), once in the life of a process, and there are none *)
(* before.                                                                 *)
RetryInv ==
    /\ OneRetryChain
    /\ timers \cap due = {}
    /\ phase # "running" => timers = {} /\ due = {}

SameChain(s, t) == s.message.kind = t.message.kind /\ s.message.instance = t.message.instance

(* What is scheduled again continues the chain of the timer that fired.    *)
LEMMA AgainSameChain ==
    ASSUME NEW t, t.message \in TimerMessage, NEW delay, NEW n
    PROVE  SameChain(Timer(delay, [t.message EXCEPT !.attempt = n]), t)
BY DEF SameChain, Timer, TimerMessage

(* A firing timer leaves, and at most its own successor comes.             *)
LEMMA FireKeepsChains ==
    ASSUME RetryInv, phase = "running", phase' = "running", NEW t \in due, due' = due \ {t},
           \/ timers' = timers
           \/ \E s : SameChain(s, t) /\ timers' = timers \cup {s}
    PROVE  RetryInv'
<1>1. \A s \in timers \cup due' : s # t /\ ~SameChain(s, t)
  BY DEF RetryInv, OneRetryChain, SameChain
<1>2. CASE timers' = timers
  BY <1>2 DEF RetryInv, OneRetryChain
<1>3. CASE \E s : SameChain(s, t) /\ timers' = timers \cup {s}
  <2>1. PICK s : SameChain(s, t) /\ timers' = timers \cup {s}
    BY <1>3
  <2>2. \A u \in timers \cup due' : u # s /\ ~SameChain(u, s) /\ ~SameChain(s, u)
    BY <1>1, <2>1 DEF SameChain
  <2>3. timers' \cap due' = {}
    BY <2>1, <2>2 DEF RetryInv
  <2>4. \A u, w \in timers' \cup due' : SameChain(u, w) => u = w
    BY <2>1, <2>2 DEF RetryInv, OneRetryChain, SameChain
  <2> QED BY <2>3, <2>4 DEF RetryInv, OneRetryChain, SameChain
<1> QED BY <1>2, <1>3

(* reconcile() begins one chain per plugin that failed.                    *)
LEMMA ReconcileAllBeginsChains ==
    ASSUME RetryInv, NEW downtime, NEW raised, NEW reports,
           ReconcileAll(downtime, raised, reports)
    PROVE  RetryInv'
<1> DEFINE late(i) == Timer(ReconcileRetryInitial,
                            [kind |-> "catchup", instance |-> i, attempt |-> Bump(0),
                             since |-> lastSeen])
           again(o) == Timer(ReconcileRetryInitial,
                             [kind |-> "reconcile", instance |-> o, attempt |-> Bump(0)])
<1>1. PICK ins, outs : timers' = timers \cup {late(i) : i \in ins} \cup {again(o) : o \in outs}
  BY DEF ReconcileAll
<1>2. timers = {} /\ due = {} /\ due' = due /\ phase' = "running"
  BY DEF ReconcileAll, RetryInv
<1>3. /\ \A i : late(i).message.kind = "catchup" /\ late(i).message.instance = i
      /\ \A o : again(o).message.kind = "reconcile" /\ again(o).message.instance = o
  BY DEF Timer
<1> HIDE DEF late, again
<1>4. \A s, t \in timers' : SameChain(s, t) => s = t
  BY <1>1, <1>2, <1>3 DEF SameChain
<1> QED BY <1>2, <1>4 DEF RetryInv, OneRetryChain, SameChain

(* Every step of the engine keeps the chains apart.                        *)
LEMMA RetryStep == TypeOK /\ RetryInv /\ [Next]_vars => RetryInv'
<1> SUFFICES ASSUME TypeOK, RetryInv, [Next]_vars PROVE RetryInv'
  OBVIOUS
<1>1. CASE HandleShutdown \/ Crash
  BY <1>1 DEF HandleShutdown, Crash, ProcessGone, RetryInv, OneRetryChain
<1>2. CASE BeginTick
  <2>1. /\ timers' \subseteq timers /\ due' \subseteq timers /\ phase' = "running"
        /\ timers' \cap due' = {}
    <3>1. /\ timers' = {t \in timers : t.at > now} /\ due' = {t \in timers : t.at <= now}
          /\ phase' = "running"
      BY <1>2 DEF BeginTick
    <3>2. \A t \in timers : t.at \in Nat /\ now \in Nat
      BY BoundsAssumption DEF TypeOK, Time
    <3>3. timers' \cap due' = {}
      BY <3>1, <3>2
    <3> QED BY <3>1, <3>3
  <2> QED BY <2>1 DEF RetryInv, OneRetryChain
<1>3. CASE \E t \in due, rep \in Reports : HandleReconcileRetry(t, rep)
  <2>1. PICK t \in due, rep \in Reports : HandleReconcileRetry(t, rep)
    BY <1>3
  <2>2. /\ phase = "running" /\ phase' = "running" /\ due' = due \ {t}
        /\ \/ timers' = timers
           \/ timers' = timers \cup {Timer(ReconcileDelay(t.message.attempt),
                                           [t.message EXCEPT !.attempt = Bump(@)])}
    BY <2>1 DEF HandleReconcileRetry, Fire
  <2>3. \A delay, n : SameChain(Timer(delay, [t.message EXCEPT !.attempt = n]), t)
    BY AgainSameChain DEF TypeOK
  <2> QED BY <2>2, <2>3, FireKeepsChains
<1>4. CASE \E t \in due, raised \in BOOLEAN, ev \in EventLists :
             HandleCatchUpRetry(t, raised, ev)
  <2>1. PICK t \in due, raised \in BOOLEAN, ev \in EventLists :
           HandleCatchUpRetry(t, raised, ev)
    BY <1>4
  <2>2. /\ phase = "running" /\ phase' = "running" /\ due' = due \ {t}
        /\ \/ timers' = timers
           \/ timers' = timers \cup {Timer(ReconcileDelay(t.message.attempt),
                                           [t.message EXCEPT !.attempt = Bump(@)])}
    BY <2>1 DEF HandleCatchUpRetry, Fire
  <2>3. \A delay, n : SameChain(Timer(delay, [t.message EXCEPT !.attempt = n]), t)
    BY AgainSameChain DEF TypeOK
  <2> QED BY <2>2, <2>3, FireKeepsChains
<1>5. CASE \E downtime \in [Inputs -> EventLists], raised \in SUBSET Inputs,
             reports \in [Outputs -> Reports] : ReconcileAll(downtime, raised, reports)
  BY <1>5, ReconcileAllBeginsChains
<1>6. CASE \/ UNCHANGED vars \/ PoolNext
           \/ HandleInputEvent \/ HandleUnlatch \/ IgnoreUnlatch \/ HandlePushResult
           \/ HandleReload \/ DispatchDuePushes
           \/ \E i \in Inputs, t \in Time : Emit(i, t)
           \/ \E o \in Outputs : RequestUnlatch(o)
           \/ \E c \in Configurations : SubmitReload(c)
           \/ RequestStop \/ ClockTick
  <2>1. UNCHANGED <<phase, timers, due>>
    BY <1>6 DEF vars, core, PoolNext, Take, Finish, HandleInputEvent, HandleUnlatch,
                IgnoreUnlatch, HandlePushResult, HandleReload, DispatchDuePushes, Emit,
                RequestUnlatch, SubmitReload, RequestStop, Submit, ClockTick
  <2> QED BY <2>1 DEF RetryInv, OneRetryChain
<1>7. CASE \E c \in Configurations : Start(c)
  <2>1. phase = "down" /\ UNCHANGED <<timers, due>>
    BY <1>7 DEF Start
  <2> QED BY <2>1 DEF RetryInv, OneRetryChain
<1> QED BY <1>1, <1>2, <1>3, <1>4, <1>5, <1>6, <1>7 DEF Next, CoreNext, OutsideNext

(* Retries do not multiply: however often queries and catch-ups fail, and  *)
(* whatever is posted or reloaded in between, a plugin never has two       *)
(* ReconcileOutput or CatchUp messages outstanding.                        *)
THEOREM RetriesDoNotMultiply == Spec => []OneRetryChain
<1>1. Init => RetryInv
  BY DEF Init, RetryInv, OneRetryChain
<1>2. RetryInv => OneRetryChain
  BY DEF RetryInv
<1> QED BY <1>1, <1>2, RetryStep, TypeCorrect, PTL DEF Spec

=============================================================================
