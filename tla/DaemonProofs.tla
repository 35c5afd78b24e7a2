----------------------------- MODULE DaemonProofs -----------------------------
(***************************************************************************)
(* Theorems about Daemon.tla, for every set of configurations that         *)
(* DaemonAssumption allows and every number of reloads.                    *)
(***************************************************************************)
EXTENDS Daemon, TLAPS

Pair(o) == [name |-> o.name, settings |-> o.settings]

OnePerName(S) == \A o, p \in S : o.name = p.name => o = p

ReloadsIn(q) == {k \in DOMAIN q : q[k].kind = "reload"}
Reloads      == ReloadsIn(queue)

Messages == [kind : {"reload"}, plugins : SUBSET Instances, number : 1 .. MaxReloads]
              \cup {ShutdownMessage}

Plans == [config : Configs, latches : {"set", "clear"}, number : 0 .. MaxReloads,
          previous : SUBSET Instances, rebuilt : SUBSET Instances]

(* TypeOK, with a name for the sets of the messages and of the plans.      *)
Typed ==
    /\ file \in Configs \cup {Bad}
    /\ reloadRequested \in BOOLEAN /\ shuttingDown \in BOOLEAN /\ acknowledged \in BOOLEAN
    /\ queue \in Seq(Messages) /\ plan \in Plans
    /\ db \in {"set", "clear"} /\ latches \in {"set", "clear"}
    /\ adopted \subseteq Instances /\ live \subseteq Instances /\ running \subseteq Instances
    /\ reloader \in {"wait", "load", "read", "swap", "build", "acknowledge", "stop", "start", "ended"}
    /\ result \in {"none", "invalid", "failed", "timeout", "complete"}
    /\ main \in {"run", "stop", "join", "gone"} /\ reloads \in 0 .. MaxReloads

(* Each reload that has been numbered, is on its way to a number or is     *)
(* still to be woken for stems from a SIGHUP of its own.                   *)
CountInv ==
    plan.number + (IF reloader \in {"load", "read", "swap", "build"} THEN 1 ELSE 0)
                + (IF reloadRequested /\ ~shuttingDown THEN 1 ELSE 0) <= reloads

(* A message in the queue is one that the reload thread numbered; only the *)
(* newest has the number it waits for, and that carries what it rebuilt.   *)
QueueInv ==
    \A k \in Reloads :
        /\ queue[k].number <= plan.number
        /\ queue[k].number = plan.number =>
              queue[k].plugins = plan.rebuilt /\ \A j \in Reloads : j <= k

(* The reload thread waits for a message that is on its way, or that the   *)
(* core has handled: then nothing else is on its way, the core uses what   *)
(* was rebuilt and its cache is the table.                                 *)
HandOverInv ==
    /\ reloader = "acknowledge" /\ ~acknowledged =>
          \E k \in Reloads : queue[k].number = plan.number
    /\ reloader = "acknowledge" /\ acknowledged => latches = db
    /\ \/ reloader = "acknowledge" /\ acknowledged
       \/ reloader \in {"stop", "start"}
       \/ reloader = "wait" /\ result = "complete"
       => adopted = plan.rebuilt /\ Reloads = {}

(* What was rebuilt has one instance for a name and contains every         *)
(* previous one that is still configured.                                  *)
RebuiltInv ==
    /\ OnePerName(live) /\ OnePerName(plan.previous) /\ OnePerName(plan.rebuilt)
    /\ reloader \in {"acknowledge", "stop", "start"} =>
          \A o \in plan.previous : Pair(o) \in plan.config => o \in plan.rebuilt

(* Until stop() takes the instances down, what runs is what the daemon     *)
(* lists, but for the two steps between which a reload puts it right.      *)
ExactInv ==
    main \in {"run", "stop"} =>
        /\ reloader \notin {"stop", "start"} => running = live
        /\ reloader = "acknowledge" => plan.previous = live
        /\ reloader = "stop" => running = plan.previous /\ live = plan.rebuilt
        /\ reloader = "start" => running = plan.previous \cap plan.rebuilt /\ live = plan.rebuilt
        /\ reloader = "wait" /\ result = "complete" => live = plan.rebuilt

(* Afterwards too a reload that goes on stops what runs before it starts   *)
(* what takes its place; the thread does not begin another.                *)
LateInv ==
    main \in {"join", "gone"} =>
        /\ shuttingDown
        /\ reloader \in {"load", "read", "swap", "build", "acknowledge"} => running \subseteq live
        /\ reloader = "acknowledge" => running \subseteq plan.previous
        /\ reloader = "stop" => running \subseteq plan.previous
        /\ reloader = "start" => running \subseteq plan.rebuilt
        /\ OnePerName(running)

DaemonInv ==
    /\ Typed /\ CountInv /\ QueueInv /\ HandOverInv
    /\ RebuiltInv /\ ExactInv /\ LateInv /\ StaleCacheIsRepaired

-----------------------------------------------------------------------------
(* The operators of the model: what is built is an instance, and what is   *)
(* rebuilt has one instance for a name and keeps what is still configured. *)
LEMMA BuiltInstances ==
    ASSUME NEW c \in Configs, NEW n \in 0 .. MaxReloads
    PROVE  Built(c, n) \subseteq Instances
<1>1. Instances = UNION {Built(d, k) : d \in Configs, k \in 0 .. MaxReloads}
  BY DEF Built, Instances
<1> QED BY <1>1

LEMMA BuiltOnePerName ==
    ASSUME NEW c \in Configs, NEW n
    PROVE  OnePerName(Built(c, n))
BY DaemonAssumption DEF Built, OnePerName

LEMMA RebuiltFacts ==
    ASSUME NEW c \in Configs, NEW n, OnePerName(live)
    PROVE  /\ OnePerName(Rebuilt(c, n))
           /\ \A o \in live : Pair(o) \in c => o \in Rebuilt(c, n)
           /\ Rebuilt(c, n) \subseteq live \cup Built(c, n)
<1>0. Rebuilt(c, n) = {o \in live : Pair(o) \in c}
                         \cup {o \in Built(c, n) : Pair(o) \notin Settings(live)}
  BY DEF Rebuilt, Pair
<1>1. /\ \A o \in live : Pair(o) \in c => o \in Rebuilt(c, n)
      /\ Rebuilt(c, n) \subseteq live \cup Built(c, n)
  BY <1>0
<1>2. ASSUME NEW o \in live, Pair(o) \in c,
             NEW p \in Built(c, n), Pair(p) \notin Settings(live), o.name = p.name
      PROVE  FALSE
  <2>1. PICK y \in c : p = [name |-> y.name, settings |-> y.settings, built |-> n]
    BY DEF Built
  <2>2. Pair(o) = y
    BY <1>2, <2>1, DaemonAssumption DEF Pair
  <2>3. Pair(p) = Pair(o)
    BY <2>1, <2>2 DEF Pair
  <2> QED BY <1>2, <2>3 DEF Settings, Pair
<1>3. ASSUME NEW o \in Rebuilt(c, n), NEW p \in Rebuilt(c, n), o.name = p.name
      PROVE  o = p
  <2>1. \A q \in Rebuilt(c, n) :
           \/ q \in live /\ Pair(q) \in c
           \/ q \in Built(c, n) /\ Pair(q) \notin Settings(live)
    BY <1>0
  <2>2. CASE o \in live /\ p \in live
    BY <1>3, <2>2 DEF OnePerName
  <2>3. CASE o \in Built(c, n) /\ p \in Built(c, n)
    BY <1>3, <2>3, BuiltOnePerName DEF OnePerName
  <2> QED BY <1>2, <1>3, <2>1, <2>2, <2>3
<1> QED BY <1>1, <1>3 DEF OnePerName

(* The queue: what a message put at its end, or taken from its head, does  *)
(* to the reload messages in it.                                           *)
LEMMA PutFacts ==
    ASSUME NEW q \in Seq(Messages), NEW m \in Messages
    PROVE  LET last == Len(q) + 1
               r    == Append(q, m)
           IN  /\ r \in Seq(Messages) /\ r[last] = m
               /\ \A k \in ReloadsIn(q) : k < last /\ r[k] = q[k]
               /\ m.kind = "reload" => ReloadsIn(r) = ReloadsIn(q) \cup {last}
               /\ m.kind # "reload" => ReloadsIn(r) = ReloadsIn(q)
BY DEF ReloadsIn

LEMMA TakeFacts ==
    ASSUME NEW q \in Seq(Messages), q # <<>>
    PROVE  /\ Tail(q) \in Seq(Messages) /\ Head(q) = q[1] /\ Head(q) \in Messages
           /\ ReloadsIn(q) \subseteq Nat \ {0}
           /\ \A k \in ReloadsIn(Tail(q)) :
                  k \in Nat \ {0} /\ k + 1 \in ReloadsIn(q) /\ Tail(q)[k] = q[k + 1]
           /\ \A k \in ReloadsIn(q) :
                  k # 1 => k - 1 \in ReloadsIn(Tail(q)) /\ Tail(q)[k - 1] = q[k]
           /\ Head(q).kind = "reload" => 1 \in ReloadsIn(q)
BY DEF ReloadsIn

LEMMA MessageFacts ==
    ASSUME NEW m \in Messages
    PROVE  /\ m.kind = "reload" => m.plugins \subseteq Instances /\ m.number \in 1 .. MaxReloads
           /\ m.kind \in {"reload", "shutdown"}
BY DEF Messages, ShutdownMessage

-----------------------------------------------------------------------------
LEMMA TypedIsTypeOK == Typed <=> TypeOK
BY DEF Typed, TypeOK, Messages, Plans

(* What the three steps that write it leave in the reload thread's plan.   *)
LEMMA PlanFacts ==
    ASSUME Typed
    PROVE  /\ Load =>
                /\ plan'.config = file /\ plan'.latches = plan.latches
                /\ plan'.number = plan.number /\ plan'.previous = plan.previous
                /\ plan'.rebuilt = plan.rebuilt /\ file \in Configs /\ plan' \in Plans
           /\ ReadLatches =>
                /\ plan'.config = plan.config /\ plan'.latches = db
                /\ plan'.number = plan.number /\ plan'.previous = plan.previous
                /\ plan'.rebuilt = plan.rebuilt /\ plan' \in Plans
           /\ SubmitReload =>
                /\ plan'.config = plan.config /\ plan'.latches = plan.latches
                /\ plan'.number = plan.number + 1 /\ plan'.previous = live
                /\ plan'.rebuilt = Rebuilt(plan.config, plan.number + 1)
                /\ queue' = Append(queue, ReloadMessage(plan'.rebuilt, plan'.number))
                /\ plan'.number \in 0 .. MaxReloads /\ plan'.rebuilt \subseteq Instances
                     => plan' \in Plans
           /\ plan.config \in Configs /\ plan.number \in 0 .. MaxReloads
           /\ plan.previous \subseteq Instances /\ plan.rebuilt \subseteq Instances
           /\ plan.latches \in {"set", "clear"}
<1> USE DEF Typed, Plans
<1>1. Load => /\ file \in Configs
              /\ plan' = [plan EXCEPT !.config = file]
  BY DEF Load
<1>2. ReadLatches => plan' = [plan EXCEPT !.latches = db]
  BY DEF ReadLatches
<1>3. SubmitReload =>
        /\ plan' = [plan EXCEPT !.number = plan.number + 1, !.previous = live,
                                !.rebuilt = Rebuilt(plan.config, plan.number + 1)]
        /\ queue' = Append(queue, ReloadMessage(Rebuilt(plan.config, plan.number + 1), plan.number + 1))
  BY DEF SubmitReload
<1> QED BY <1>1, <1>2, <1>3

(* Every step keeps the count of SIGHUPs, and with it the types.           *)
LEMMA CountStep ==
    ASSUME Typed, CountInv, [Next]_vars
    PROVE  CountInv'
<1> USE PlanFacts, DaemonAssumption DEF Typed, CountInv, signals, core
<1>1. CASE Woken \/ LoadFails \/ SwapLatches \/ BuildFails \/ TimesOut \/ Acknowledged
             \/ StopRemoved \/ StartNew
  BY <1>1 DEF Woken, LoadFails, SwapLatches, BuildFails, TimesOut, Acknowledged, StopRemoved,
     StartNew
<1>2. CASE Load \/ ReadLatches \/ SubmitReload
  <2>1. UNCHANGED <<signals, reloads>>
    BY <1>2 DEF Load, ReadLatches, SubmitReload
  <2>2. \/ reloader \in {"load", "read"} /\ reloader' \in {"read", "swap"} /\ (Load \/ ReadLatches)
        \/ reloader = "build" /\ reloader' = "acknowledge" /\ SubmitReload
    BY <1>2 DEF Load, ReadLatches, SubmitReload
  <2> QED BY <2>1, <2>2
<1>3. CASE MessageLoop \/ Exit \/ UNCHANGED vars
  BY <1>3 DEF MessageLoop, Exit, HandleReload, HandleShutdown, StopReturns, StopInstances,
     JoinThreads, vars
<1>4. CASE HandleInputEvent \/ HandleUnlatch \/ CoreRaises \/ Terminate
  BY <1>4 DEF HandleInputEvent, HandleUnlatch, CoreRaises, Terminate
<1>5. CASE \E c \in Configs \cup {Bad} : Reconfigure(c)
  BY <1>5 DEF Reconfigure
<1> QED BY <1>1, <1>2, <1>3, <1>4, <1>5 DEF Next, Reloader

(* Every step keeps the types; that a reload finds a number for its        *)
(* message is CountInv.                                                    *)
LEMMA TypeStep ==
    ASSUME Typed, CountInv, [Next]_vars
    PROVE  Typed'
<1> USE PlanFacts DEF Typed, signals, core
<1>1. CASE Woken \/ LoadFails \/ SwapLatches \/ BuildFails \/ TimesOut \/ Acknowledged
             \/ StopRemoved \/ StartNew
  BY <1>1 DEF Woken, LoadFails, SwapLatches, BuildFails, TimesOut, Acknowledged, StopRemoved,
     StartNew
<1>2. CASE Load \/ ReadLatches
  BY <1>2 DEF Load, ReadLatches
<1>3. CASE SubmitReload
  <2>1. plan.number + 1 \in 1 .. MaxReloads
    <3>1. reloader = "build"
      BY <1>3 DEF SubmitReload
    <3> QED BY <3>1, DaemonAssumption DEF CountInv
  <2>2. Rebuilt(plan.config, plan.number + 1) \subseteq Instances
    <3>1. Built(plan.config, plan.number + 1) \subseteq Instances
      BY <2>1, BuiltInstances
    <3> QED BY <3>1 DEF Rebuilt
  <2>3. ReloadMessage(plan'.rebuilt, plan'.number) \in Messages
    BY <1>3, <2>1, <2>2 DEF ReloadMessage, Messages
  <2>4. queue' \in Seq(Messages)
    BY <1>3, <2>3, PutFacts
  <2>5. plan' \in Plans
    BY <1>3, <2>1, <2>2
  <2> QED BY <1>3, <2>4, <2>5 DEF SubmitReload
<1>4. CASE HandleReload \/ HandleShutdown
  <2>1. queue # <<>> /\ queue' = Tail(queue)
    BY <1>4 DEF HandleReload, HandleShutdown
  <2>2. queue' \in Seq(Messages)
    BY <2>1, TakeFacts
  <2>3. HandleReload => Head(queue).plugins \subseteq Instances
    BY <2>1, TakeFacts, MessageFacts DEF HandleReload
  <2> QED BY <1>4, <2>2, <2>3 DEF HandleReload, HandleShutdown
<1>5. CASE Terminate \/ StopInstances
  <2>1. ShutdownMessage \in Messages
    BY DEF Messages
  <2>2. queue' \in Seq(Messages)
    BY <1>5, <2>1, PutFacts DEF Terminate, StopInstances
  <2> QED BY <1>5, <2>2 DEF Terminate, StopInstances
<1>6. CASE HandleInputEvent \/ HandleUnlatch \/ CoreRaises \/ StopReturns \/ JoinThreads
             \/ UNCHANGED vars
  BY <1>6 DEF HandleInputEvent, HandleUnlatch, CoreRaises, StopReturns, JoinThreads, vars
<1>7. CASE \E c \in Configs \cup {Bad} : Reconfigure(c)
  BY <1>7, DaemonAssumption DEF Reconfigure
<1> QED BY <1>1, <1>2, <1>3, <1>4, <1>5, <1>6, <1>7 DEF Next, Reloader, MessageLoop, Exit

(* The daemon starts with the instances of its first configuration.        *)
LEMMA InitStep == Init => DaemonInv
<1> SUFFICES ASSUME Init PROVE DaemonInv
  OBVIOUS
<1> USE DaemonAssumption DEF Init
<1>1. Built(First, 0) \subseteq Instances /\ OnePerName(Built(First, 0)) /\ First \in Configs
  BY BuiltInstances, BuiltOnePerName
<1>2. Typed
  <2>1. plan \in Plans
    BY <1>1 DEF Plans
  <2>2. queue \in Seq(Messages) /\ 0 \in 0 .. MaxReloads
    OBVIOUS
  <2> HIDE DaemonAssumption
  <2> QED BY <1>1, <2>1, <2>2 DEF Typed
<1>3. Reloads = {}
  BY DEF Reloads, ReloadsIn
<1> QED BY <1>1, <1>2, <1>3 DEF DaemonInv, CountInv, QueueInv, HandOverInv, RebuiltInv, ExactInv,
        LateInv, StaleCacheIsRepaired, OnePerName

(* Who moves the queue: the reload thread puts a reload in it, the signal  *)
(* handler and stop() a shutdown, and the core takes its head.             *)
LEMMA QueueMoves ==
    ASSUME Typed, [Next]_vars
    PROVE  \/ SubmitReload
           \/ HandleReload
           \/ HandleShutdown
           \/ /\ queue' = Append(queue, ShutdownMessage)
              /\ Terminate \/ StopInstances
           \/ /\ UNCHANGED <<queue, adopted, acknowledged>>
              /\ plan'.number = plan.number /\ plan'.rebuilt = plan.rebuilt
<1> USE PlanFacts DEF signals, core
<1>1. CASE Woken \/ LoadFails \/ SwapLatches \/ BuildFails \/ TimesOut \/ Acknowledged
             \/ StopRemoved \/ StartNew
  BY <1>1 DEF Woken, LoadFails, SwapLatches, BuildFails, TimesOut, Acknowledged, StopRemoved,
     StartNew
<1>2. CASE Load \/ ReadLatches
  BY <1>2 DEF Load, ReadLatches
<1>3. CASE Terminate \/ StopInstances
  BY <1>3 DEF Terminate, StopInstances
<1>4. CASE HandleInputEvent \/ HandleUnlatch \/ CoreRaises \/ StopReturns \/ JoinThreads
             \/ UNCHANGED vars
  BY <1>4 DEF HandleInputEvent, HandleUnlatch, CoreRaises, StopReturns, JoinThreads, vars
<1>5. CASE \E c \in Configs \cup {Bad} : Reconfigure(c)
  BY <1>5 DEF Reconfigure
<1> QED BY <1>1, <1>2, <1>3, <1>4, <1>5 DEF Next, Reloader, MessageLoop, Exit

(* What each of them does to the reload messages.                          *)
LEMMA SubmitFacts ==
    ASSUME Typed, SubmitReload, plan.number + 1 <= MaxReloads
    PROVE  \E last \in Nat :
              /\ Reloads' = Reloads \cup {last}
              /\ queue'[last].number = plan'.number /\ queue'[last].plugins = plan'.rebuilt
              /\ \A k \in Reloads : k < last /\ queue'[k] = queue[k]
<1> DEFINE m == ReloadMessage(plan'.rebuilt, plan'.number)
<1>1. plan'.rebuilt \subseteq Instances
  <2>1. Built(plan.config, plan.number + 1) \subseteq Instances
    BY PlanFacts, BuiltInstances, DaemonAssumption
  <2> QED BY <2>1, PlanFacts DEF Rebuilt, Typed
<1>2. plan'.number \in 1 .. MaxReloads
  BY PlanFacts, DaemonAssumption
<1>3. m \in Messages /\ m.kind = "reload" /\ m.number = plan'.number /\ m.plugins = plan'.rebuilt
  BY <1>1, <1>2 DEF Messages, ReloadMessage
<1>4. queue' = Append(queue, m) /\ queue \in Seq(Messages)
  BY PlanFacts DEF Typed
<1> HIDE DEF m
<1> WITNESS Len(queue) + 1 \in Nat
<1> QED BY <1>3, <1>4, PutFacts DEF Reloads

LEMMA ShutdownFacts ==
    ASSUME Typed, queue' = Append(queue, ShutdownMessage)
    PROVE  Reloads' = Reloads /\ \A k \in Reloads : queue'[k] = queue[k]
<1>1. ShutdownMessage \in Messages /\ ShutdownMessage.kind # "reload"
  BY DEF Messages, ShutdownMessage
<1>2. queue \in Seq(Messages)
  BY DEF Typed
<1> DEFINE r == Append(queue, ShutdownMessage)
<1>3. ReloadsIn(r) = ReloadsIn(queue) /\ \A k \in ReloadsIn(queue) : r[k] = queue[k]
  BY <1>1, <1>2, PutFacts
<1> QED BY <1>3 DEF Reloads

LEMMA HandleFacts ==
    ASSUME Typed, HandleReload \/ HandleShutdown
    PROVE  /\ \A k \in Reloads' : k \in Nat \ {0} /\ k + 1 \in Reloads /\ queue'[k] = queue[k + 1]
           /\ \A k \in Reloads : k \in Nat \ {0}
                 /\ (k # 1 => k - 1 \in Reloads' /\ queue'[k - 1] = queue[k])
           /\ HandleReload => 1 \in Reloads /\ Head(queue) = queue[1]
           /\ HandleShutdown => 1 \notin Reloads
           /\ UNCHANGED <<plan, reloader, result>>
<1>1. /\ queue # <<>> /\ queue' = Tail(queue) /\ UNCHANGED <<plan, reloader, result>>
      /\ HandleReload => Head(queue).kind = "reload"
      /\ HandleShutdown => Head(queue).kind = "shutdown"
  BY DEF HandleReload, HandleShutdown
<1>2. queue \in Seq(Messages)
  BY DEF Typed
<1>3. HandleShutdown => 1 \notin Reloads
  BY <1>1, <1>2, TakeFacts DEF Reloads, ReloadsIn
<1> QED BY <1>1, <1>2, <1>3, TakeFacts DEF Reloads

(* Every step keeps the numbers of the queued messages in order.           *)
LEMMA QueueStep ==
    ASSUME Typed, CountInv, QueueInv, [Next]_vars
    PROVE  QueueInv'
<1>1. CASE SubmitReload
  <2>1. reloader = "build"
    BY <1>1 DEF SubmitReload
  <2>2. plan.number + 1 <= MaxReloads /\ plan'.number = plan.number + 1 /\ plan.number \in Nat
    BY <1>1, <2>1, PlanFacts, DaemonAssumption DEF CountInv, Typed
  <2>3. PICK last \in Nat :
              /\ Reloads' = Reloads \cup {last}
              /\ queue'[last].number = plan'.number /\ queue'[last].plugins = plan'.rebuilt
              /\ \A k \in Reloads : k < last /\ queue'[k] = queue[k]
    BY <1>1, <2>2, SubmitFacts
  <2>4. ASSUME NEW k \in Reloads
        PROVE  /\ k \in Nat /\ k < last
               /\ queue'[k].number \in Nat /\ queue'[k].number < plan'.number
    <3>1. k \in DOMAIN queue /\ queue[k].kind = "reload" /\ queue \in Seq(Messages)
      BY DEF Reloads, ReloadsIn, Typed
    <3>2. k \in Nat /\ queue[k].number \in 1 .. MaxReloads /\ queue[k].number <= plan.number
      BY <3>1, MessageFacts DEF QueueInv
    <3> QED BY <2>2, <2>3, <3>2, DaemonAssumption
  <2>5. ASSUME NEW k \in Reloads'
        PROVE  /\ queue'[k].number <= plan'.number
               /\ queue'[k].number = plan'.number =>
                    queue'[k].plugins = plan'.rebuilt /\ \A j \in Reloads' : j <= k
    <3>1. CASE k = last
      <4>1. queue'[k].number = plan'.number /\ queue'[k].plugins = plan'.rebuilt
        BY <2>3, <3>1
      <4>2. \A j \in Reloads' : j <= k
        BY <2>3, <2>4, <3>1
      <4> QED BY <2>2, <4>1, <4>2
    <3>2. CASE k \in Reloads
      BY <2>2, <2>4, <3>2
    <3> QED BY <2>3, <3>1, <3>2
  <2> QED BY <2>5 DEF QueueInv
<1>2. CASE HandleReload \/ HandleShutdown
  <2>1. \A k \in Reloads' : k \in Nat /\ k + 1 \in Reloads /\ queue'[k] = queue[k + 1]
    BY <1>2, HandleFacts
  <2>2. plan' = plan
    BY <1>2, HandleFacts
  <2> QED BY <2>1, <2>2 DEF QueueInv
<1>3. CASE queue' = Append(queue, ShutdownMessage) /\ (Terminate \/ StopInstances)
  BY <1>3, ShutdownFacts DEF QueueInv, Terminate, StopInstances
<1>4. CASE UNCHANGED queue /\ plan'.number = plan.number /\ plan'.rebuilt = plan.rebuilt
  BY <1>4 DEF QueueInv, Reloads
<1> QED BY <1>1, <1>2, <1>3, <1>4, QueueMoves

(* Every step keeps the hand-over: the message waited for is on its way,   *)
(* or nothing is and the core has what was rebuilt.                        *)
LEMMA HandOverStep ==
    ASSUME Typed, CountInv, QueueInv, HandOverInv, [Next]_vars
    PROVE  HandOverInv'
<1>1. CASE SubmitReload
  <2>1. reloader = "build" /\ reloader' = "acknowledge" /\ acknowledged' = FALSE
    BY <1>1 DEF SubmitReload
  <2>2. plan.number + 1 <= MaxReloads
    BY <2>1, PlanFacts, DaemonAssumption DEF CountInv, Typed
  <2> QED BY <1>1, <2>1, <2>2, SubmitFacts DEF HandOverInv
<1>2. CASE HandleReload
  <2> USE HandleFacts, <1>2
  <2>1. /\ acknowledged' = (acknowledged \/ Head(queue).number = plan.number)
        /\ adopted' = Head(queue).plugins /\ latches' = db'
    BY DEF HandleReload
  <2>2. 1 \in Reloads /\ Head(queue) = queue[1]
    OBVIOUS
  <2>3. CASE queue[1].number = plan.number
    <3>1. Reloads' = {}
      <4> SUFFICES ASSUME NEW k \in Reloads' PROVE FALSE
        OBVIOUS
      <4>1. k \in Nat \ {0} /\ k + 1 \in Reloads
        OBVIOUS
      <4>2. k + 1 <= 1
        BY <2>2, <2>3, <4>1 DEF QueueInv
      <4> QED BY <4>1, <4>2
    <3>2. adopted' = plan'.rebuilt /\ acknowledged'
      BY <2>1, <2>2, <2>3 DEF QueueInv
    <3> QED BY <2>1, <3>1, <3>2 DEF HandOverInv
  <2>4. CASE queue[1].number # plan.number
    <3>1. acknowledged' = acknowledged
      BY <2>1, <2>2, <2>4 DEF Typed
    <3>2. ~(\/ reloader = "acknowledge" /\ acknowledged
            \/ reloader \in {"stop", "start"}
            \/ reloader = "wait" /\ result = "complete")
      BY <2>2 DEF HandOverInv
    <3>3. ASSUME NEW k \in Reloads, queue[k].number = plan.number
          PROVE  k - 1 \in Reloads' /\ queue'[k - 1].number = plan'.number
      BY <2>4, <3>3
    <3> QED BY <2>1, <3>1, <3>2, <3>3 DEF HandOverInv
  <2> QED BY <2>3, <2>4
<1>3. CASE HandleShutdown
  <2> USE HandleFacts, <1>3
  <2>1. UNCHANGED <<acknowledged, adopted, latches, db>> /\ 1 \notin Reloads
    BY DEF HandleShutdown
  <2>2. Reloads = {} => Reloads' = {}
    OBVIOUS
  <2>3. ASSUME NEW k \in Reloads
        PROVE  k - 1 \in Reloads' /\ queue'[k - 1] = queue[k]
    BY <2>1
  <2> QED BY <2>1, <2>2, <2>3 DEF HandOverInv
<1>4. CASE queue' = Append(queue, ShutdownMessage) /\ (Terminate \/ StopInstances)
  <2>1. UNCHANGED <<reloader, result, plan, acknowledged, adopted, latches, db>>
    BY <1>4 DEF Terminate, StopInstances
  <2>2. Reloads' = Reloads /\ \A k \in Reloads : queue'[k] = queue[k]
    BY <1>4, ShutdownFacts
  <2> QED BY <2>1, <2>2 DEF HandOverInv
<1>5. CASE /\ UNCHANGED <<queue, adopted, acknowledged>>
           /\ plan'.number = plan.number /\ plan'.rebuilt = plan.rebuilt
           /\ ~SubmitReload /\ ~HandleReload /\ ~HandleShutdown /\ ~Terminate /\ ~StopInstances
  <2>1. Reloads' = Reloads
    BY <1>5 DEF Reloads
  <2>2. reloader = "acknowledge" /\ acknowledged /\ reloader' = "acknowledge" => latches' = db'
    BY <1>5 DEF HandOverInv, Next, Reloader, MessageLoop, Exit, Woken, LoadFails, Load, ReadLatches,
       SwapLatches, BuildFails, TimesOut, Acknowledged, StopRemoved, StartNew, HandleInputEvent,
       HandleUnlatch, CoreRaises, StopReturns, JoinThreads, Reconfigure, signals, core, vars
  <2>3. /\ reloader' = "acknowledge" => reloader = "acknowledge"
        /\ reloader' \in {"stop", "start"} => \/ reloader \in {"stop", "start"}
                                              \/ reloader = "acknowledge" /\ acknowledged
        /\ reloader' = "wait" /\ result' = "complete" =>
              reloader = "start" \/ (reloader = "wait" /\ result = "complete")
    BY <1>5 DEF Next, Reloader, MessageLoop, Exit, Woken, LoadFails, Load, ReadLatches,
       SwapLatches, BuildFails, TimesOut, Acknowledged, StopRemoved, StartNew, HandleInputEvent,
       HandleUnlatch, CoreRaises, StopReturns, JoinThreads, Reconfigure, signals, core, vars
  <2> QED BY <1>5, <2>1, <2>2, <2>3 DEF HandOverInv
<1>6. Terminate \/ StopInstances => queue' = Append(queue, ShutdownMessage)
  BY DEF Terminate, StopInstances
<1> QED BY <1>1, <1>2, <1>3, <1>4, <1>5, <1>6, QueueMoves

(* Every step keeps one instance for a name in what is listed and rebuilt. *)
LEMMA RebuiltStep ==
    ASSUME Typed, RebuiltInv, [Next]_vars
    PROVE  RebuiltInv'
<1> USE PlanFacts DEF signals, core
<1>1. CASE SubmitReload
  <2>1. live' = live
    BY <1>1 DEF SubmitReload
  <2>2. /\ OnePerName(plan'.rebuilt)
        /\ \A o \in live : Pair(o) \in plan.config => o \in plan'.rebuilt
    BY <1>1, RebuiltFacts DEF RebuiltInv
  <2> QED BY <1>1, <2>1, <2>2 DEF RebuiltInv
<1>2. CASE Load \/ ReadLatches
  BY <1>2 DEF Load, ReadLatches, RebuiltInv
<1>3. CASE Acknowledged
  BY <1>3 DEF Acknowledged, RebuiltInv
<1>4. CASE StopInstances
  BY <1>4 DEF StopInstances, RebuiltInv, OnePerName
<1>5. CASE \/ Woken \/ LoadFails \/ SwapLatches \/ BuildFails \/ TimesOut \/ StopRemoved \/ StartNew
           \/ HandleReload \/ HandleShutdown \/ StopReturns \/ JoinThreads
           \/ HandleInputEvent \/ HandleUnlatch \/ CoreRaises \/ Terminate
           \/ UNCHANGED vars
           \/ \E c \in Configs \cup {Bad} : Reconfigure(c)
  <2>1. /\ UNCHANGED <<live, plan>>
        /\ reloader' \in {"acknowledge", "stop", "start"} =>
              reloader \in {"acknowledge", "stop", "start"}
    BY <1>5 DEF Woken, LoadFails, SwapLatches, BuildFails, TimesOut, StopRemoved, StartNew,
       HandleReload, HandleShutdown, StopReturns, JoinThreads, HandleInputEvent, HandleUnlatch,
       CoreRaises, Terminate, Reconfigure, vars
  <2> QED BY <2>1 DEF RebuiltInv
<1> QED BY <1>1, <1>2, <1>3, <1>4, <1>5 DEF Next, Reloader, MessageLoop, Exit

(* Every step keeps what runs equal to what is listed, until stop().       *)
LEMMA ExactStep ==
    ASSUME Typed, ExactInv, [Next]_vars
    PROVE  ExactInv'
<1> USE PlanFacts DEF signals, core
<1>1. CASE SubmitReload \/ Load \/ ReadLatches
  BY <1>1 DEF SubmitReload, Load, ReadLatches, ExactInv
<1>2. CASE Acknowledged \/ StopRemoved
  BY <1>2 DEF Acknowledged, StopRemoved, ExactInv
<1>3. CASE StartNew
  BY <1>3 DEF StartNew, ExactInv
<1>4. CASE \/ Woken \/ LoadFails \/ SwapLatches \/ BuildFails \/ TimesOut
  <2>1. /\ UNCHANGED <<live, running, plan, main>>
        /\ {reloader, reloader'} \cap {"stop", "start"} = {} /\ reloader' # "acknowledge"
        /\ ~(reloader' = "wait" /\ result' = "complete")
    BY <1>4 DEF Woken, LoadFails, SwapLatches, BuildFails, TimesOut
  <2> QED BY <2>1 DEF ExactInv
<1>5. CASE \/ HandleReload \/ HandleShutdown \/ StopReturns
           \/ HandleInputEvent \/ HandleUnlatch \/ CoreRaises \/ Terminate
           \/ UNCHANGED vars
           \/ \E c \in Configs \cup {Bad} : Reconfigure(c)
  <2>1. /\ UNCHANGED <<live, running, plan, reloader, result>>
        /\ main' \in {"run", "stop"} => main \in {"run", "stop"}
    BY <1>5 DEF HandleReload, HandleShutdown, StopReturns, HandleInputEvent, HandleUnlatch,
       CoreRaises, Terminate, Reconfigure, vars
  <2> QED BY <2>1 DEF ExactInv
<1>6. CASE StopInstances \/ JoinThreads
  BY <1>6 DEF StopInstances, JoinThreads, ExactInv
<1> QED BY <1>1, <1>2, <1>3, <1>4, <1>5, <1>6 DEF Next, Reloader, MessageLoop, Exit

(* Every step keeps one instance for a name running also after stop().     *)
LEMMA LateStep ==
    ASSUME Typed, ExactInv, RebuiltInv, LateInv, [Next]_vars
    PROVE  LateInv'
<1> USE PlanFacts DEF signals, core
<1>1. CASE SubmitReload \/ Load \/ ReadLatches
  BY <1>1 DEF SubmitReload, Load, ReadLatches, LateInv
<1>2. CASE Acknowledged \/ StopRemoved
  BY <1>2 DEF Acknowledged, StopRemoved, LateInv, OnePerName
<1>3. CASE StartNew
  <2>1. /\ running' = running \cup (plan.rebuilt \ plan.previous) /\ reloader = "start"
        /\ reloader' = "wait" /\ UNCHANGED <<main, shuttingDown>>
    BY <1>3 DEF StartNew
  <2> QED BY <2>1 DEF LateInv, RebuiltInv, OnePerName
<1>4. CASE \/ Woken \/ LoadFails \/ SwapLatches \/ BuildFails \/ TimesOut
  BY <1>4 DEF Woken, LoadFails, SwapLatches, BuildFails, TimesOut, LateInv
<1>5. CASE \/ HandleReload \/ HandleShutdown
           \/ HandleInputEvent \/ HandleUnlatch \/ CoreRaises \/ Terminate
           \/ UNCHANGED vars \/ JoinThreads
           \/ \E c \in Configs \cup {Bad} : Reconfigure(c)
  <2>1. /\ UNCHANGED <<live, running, plan, reloader>>
        /\ shuttingDown => shuttingDown'
        /\ main' \in {"join", "gone"} => main \in {"join", "gone"}
    BY <1>5 DEF HandleReload, HandleShutdown, HandleInputEvent, HandleUnlatch, JoinThreads,
       CoreRaises, Terminate, Reconfigure, vars
  <2> QED BY <2>1 DEF LateInv
<1>6. CASE StopInstances
  BY <1>6 DEF StopInstances, LateInv, ExactInv, OnePerName, RebuiltInv
<1>7. CASE StopReturns
  BY <1>7 DEF StopReturns, LateInv, ExactInv, OnePerName, RebuiltInv, Typed
<1> QED BY <1>1, <1>2, <1>3, <1>4, <1>5, <1>6, <1>7 DEF Next, Reloader, MessageLoop, Exit

(* Every step leaves a way for a stale cache to be read again.             *)
LEMMA CacheStep ==
    ASSUME Typed, HandOverInv, StaleCacheIsRepaired, [Next]_vars
    PROVE  StaleCacheIsRepaired'
<1> USE PlanFacts DEF signals, core
<1>1. ReloadQueued <=> Reloads # {}
  BY DEF ReloadQueued, Reloads, ReloadsIn
<1>2. ReloadQueued' <=> Reloads' # {}
  BY DEF ReloadQueued, Reloads, ReloadsIn
<1>3. CASE HandleReload \/ HandleInputEvent \/ HandleUnlatch \/ HandleShutdown \/ CoreRaises
  BY <1>3 DEF HandleReload, HandleInputEvent, HandleUnlatch, HandleShutdown, CoreRaises,
     StaleCacheIsRepaired
<1>4. CASE StopReturns \/ StopInstances \/ JoinThreads
  BY <1>4 DEF StopReturns, StopInstances, JoinThreads, StaleCacheIsRepaired
<1>5. CASE Load \/ ReadLatches \/ SwapLatches \/ SubmitReload
  BY <1>5 DEF Load, ReadLatches, SwapLatches, SubmitReload, StaleCacheIsRepaired
<1>6. CASE TimesOut \/ Acknowledged
  <2>1. /\ UNCHANGED <<db, latches, main, plan, queue>> /\ reloader = "acknowledge"
    BY <1>6 DEF TimesOut, Acknowledged
  <2>2. acknowledged => latches = db
    BY <2>1 DEF HandOverInv
  <2>3. ~acknowledged => Reloads' # {}
    BY <2>1 DEF HandOverInv, Reloads
  <2> QED BY <1>2, <2>1, <2>2, <2>3 DEF StaleCacheIsRepaired
<1>7. CASE BuildFails
  BY <1>7 DEF BuildFails, StaleCacheIsRepaired
<1>8. CASE Terminate
  <2>1. Reloads' = Reloads
    BY <1>8, ShutdownFacts DEF Terminate
  <2> QED BY <1>1, <1>2, <1>8, <2>1 DEF Terminate, StaleCacheIsRepaired
<1>9. CASE \/ Woken \/ LoadFails \/ StopRemoved \/ StartNew \/ UNCHANGED vars
           \/ \E c \in Configs \cup {Bad} : Reconfigure(c)
  <2>1. /\ UNCHANGED <<db, latches, main, plan, queue>>
        /\ reloader \in {"read", "swap", "build", "acknowledge"} => reloader' = reloader
    BY <1>9 DEF Woken, LoadFails, StopRemoved, StartNew, vars, Reconfigure
  <2> QED BY <2>1 DEF StaleCacheIsRepaired, ReloadQueued
<1> QED BY <1>3, <1>4, <1>5, <1>6, <1>7, <1>8, <1>9 DEF Next, Reloader, MessageLoop, Exit

-----------------------------------------------------------------------------
LEMMA DaemonStep == DaemonInv /\ [Next]_vars => DaemonInv'
BY TypeStep, CountStep, QueueStep, HandOverStep, RebuiltStep, ExactStep, LateStep, CacheStep
   DEF DaemonInv

LEMMA DaemonAlways == Spec => []DaemonInv
BY InitStep, DaemonStep, PTL DEF Spec

(* Types of the daemon's tables and of the reload thread's variables; in   *)
(* particular no reload is submitted that no SIGHUP asked for.             *)
THEOREM TypeCorrect == Spec => []TypeOK
<1>1. DaemonInv => TypeOK
  BY TypedIsTypeOK DEF DaemonInv
<1> QED BY <1>1, DaemonAlways, PTL

(* After a reload that completed, the core uses, the daemon lists and the  *)
(* machine runs the same instances, however the reloads before it ended.   *)
THEOREM CompletedReloadAgrees == Spec => []AdoptedIsRunning
<1>1. DaemonInv => AdoptedIsRunning
  BY DEF DaemonInv, AdoptedIsRunning, Settled, HandOverInv, ExactInv
<1> QED BY <1>1, DaemonAlways, PTL

(* Two instances of one name never run at a time: not during a reload, not *)
(* during stop(), not in a reload that goes on while stop() is at work.    *)
THEOREM NamesRunOnce == Spec => []OneInstancePerName
<1>1. DaemonInv => OneInstancePerName
  <2> SUFFICES ASSUME DaemonInv PROVE OnePerName(running)
    BY DEF OneInstancePerName, OnePerName
  <2>1. CASE main \in {"join", "gone"}
    BY <2>1 DEF DaemonInv, LateInv
  <2>2. CASE main \in {"run", "stop"}
    BY <2>2 DEF DaemonInv, ExactInv, RebuiltInv, OnePerName
  <2> QED BY <2>1, <2>2 DEF DaemonInv, Typed
<1> QED BY <1>1, DaemonAlways, PTL

(* A latch cache that the reload thread read too early is replaced by a    *)
(* message that is still on its way, unless the plugins could not be built.*)
THEOREM StaleCacheHasRepair == Spec => []StaleCacheIsRepaired
<1>1. DaemonInv => StaleCacheIsRepaired
  BY DEF DaemonInv
<1> QED BY <1>1, DaemonAlways, PTL

(* A reload stops no instance whose plugin and settings the configuration  *)
(* it loaded contains.                                                     *)
THEOREM UnchangedKeepRunning == Spec => UnchangedUntouched
<1> DEFINE Kept == \A o \in running \ running' :
                      main = "run" /\ main' = "run" =>
                          [name |-> o.name, settings |-> o.settings] \notin plan.config
<1>1. ASSUME DaemonInv, [Next]_vars PROVE [Kept]_vars
  <2> SUFFICES ASSUME NEW o \in running \ running', main = "run", main' = "run"
               PROVE  Pair(o) \notin plan.config
    BY DEF Pair
  <2>1. StopRemoved
    BY <1>1 DEF Next, Reloader, MessageLoop, Exit, Woken, LoadFails, Load, ReadLatches,
       SwapLatches, BuildFails, SubmitReload, TimesOut, Acknowledged, StartNew, HandleReload,
       HandleShutdown, HandleInputEvent, HandleUnlatch, CoreRaises, StopReturns, StopInstances,
       JoinThreads, Terminate, Reconfigure, signals, core, vars
  <2>2. o \in plan.previous /\ o \notin plan.rebuilt /\ reloader = "stop"
    BY <2>1 DEF StopRemoved
  <2> QED BY <1>1, <2>2 DEF DaemonInv, RebuiltInv
<1> QED BY <1>1, DaemonAlways, PTL DEF Spec, UnchangedUntouched

=============================================================================
