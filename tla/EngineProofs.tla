---------------------------- MODULE EngineProofs ----------------------------
(***************************************************************************)
(* Theorems about Engine.tla, for every set of rules, instances and        *)
(* configurations, every retry setting and every bound.                    *)
(***************************************************************************)
EXTENDS Engine, TLAPS, SequenceTheorems, WellFoundedInduction

(* A non-empty set of times has a latest one: what max() relies on in      *)
(* _resolve_with_clear and _summarize.                                     *)
LEMMA LatestExists ==
    ASSUME NEW S, S \subseteq Time, S # {}
    PROVE  \E t \in S : \A u \in S : u <= t
<1> DEFINE T == {n \in Nat : \E t \in S : n = Horizon - t}
           R == OpToRel(<, Nat)
<1>1. \A t \in S : t \in Nat /\ Horizon - t \in Nat
  BY BoundsAssumption DEF Time
<1>2. T # {} /\ T \subseteq Nat
  BY <1>1
<1>3. IsWellFoundedOn(R, Nat)
  BY NatLessThanWellFounded
<1>4. \E x \in T : \A y \in T : ~(<<y, x>> \in R)
  <2> HIDE DEF T, R
  <2> QED BY <1>2, <1>3, WFMin
<1>5. PICK x \in T : \A y \in T : ~(<<y, x>> \in R)
  BY <1>4
<1>6. \A y \in T : x <= y
  <2> SUFFICES ASSUME NEW y \in T PROVE x <= y
    OBVIOUS
  <2>1. x \in Nat /\ y \in Nat
    OBVIOUS
  <2>2. ~(y < x)
    BY <1>5, <2>1 DEF OpToRel
  <2> QED BY <2>1, <2>2
<1>7. PICK t \in S : x = Horizon - t
  OBVIOUS
<1>8. \A u \in S : u <= t
  BY <1>1, <1>6, <1>7, BoundsAssumption
<1> QED BY <1>8

-----------------------------------------------------------------------------
(* A deadline capped at the horizon is a time.                             *)
LEMMA CapType == \A t : Cap(t) \in Time
BY BoundsAssumption DEF Cap, Time

(* The saturated trigger_count stays within its bound.                     *)
LEMMA CountedType == \A n : Counted(n) \in 0 .. CountCap
BY BoundsAssumption DEF Counted

(* A saturated attempt counter stays within its bound.                     *)
LEMMA BumpType == \A n \in 0 .. AttemptCap : Bump(n) \in 0 .. AttemptCap
BY BoundsAssumption DEF Bump

(* desired_output_state answers on or off, for any graph and latches.      *)
LEMMA DesiredType == \A g, o, ls : DesiredOutputState(g, o, ls) \in Values
BY DEF DesiredOutputState, Values

(* The graph of a configuration names only known rules and instances.      *)
LEMMA GraphType ==
    ASSUME NEW c \in Configurations
    PROVE  LET g == FromConfiguration(c) IN
           /\ RuleNames(g) \subseteq Rules
           /\ OutputNames(g) \subseteq Outputs
           /\ \A o \in OutputNames(g) : \E r \in RuleNames(g) : o \in g.outputs[r]
           /\ \A r \in RuleNames(g) : g.outputs[r] \subseteq OutputNames(g)
           /\ \A r \in RuleNames(g) : g.outputs[r] \subseteq c.instances
<1> DEFINE g == FromConfiguration(c)
<1>1. RuleNames(g) = c.rules
  BY DEF RuleNames, FromConfiguration
<1>2. \A r \in c.rules : g.outputs[r] = c.outputs[r] \cap c.instances
  BY DEF FromConfiguration
<1>3. c.rules \subseteq Rules /\ \A r \in c.rules : c.outputs[r] \subseteq Outputs
  BY ConfigurationsAssumption
<1> HIDE DEF g
<1>4. /\ RuleNames(g) \subseteq Rules
      /\ OutputNames(g) \subseteq Outputs
      /\ \A o \in OutputNames(g) : \E r \in RuleNames(g) : o \in g.outputs[r]
      /\ \A r \in RuleNames(g) : g.outputs[r] \subseteq OutputNames(g)
      /\ \A r \in RuleNames(g) : g.outputs[r] \subseteq c.instances
  BY <1>1, <1>2, <1>3 DEF OutputNames
<1> QED BY <1>4 DEF g

(* _sync_output leaves well-formed rows in pending_pushes.                 *)
LEMMA SyncOutputsType ==
    ASSUME now \in Time, NEW outs, NEW g, NEW ls, NEW applied,
           NEW pend \in [Outputs -> PendingPush], NEW force
    PROVE  SyncOutputs(outs, g, ls, applied, pend, force) \in [Outputs -> PendingPush]
<1> SUFFICES ASSUME NEW o \in Outputs, NEW desired \in Values
             PROVE  SyncedPush(desired, applied[o], pend[o], force) \in PendingPush
  BY DesiredType DEF SyncOutputs
<1>1. NoPush \in PendingPush
  BY BoundsAssumption DEF NoPush, PendingPush, Time
<1>2. [target |-> desired, attempts |-> 0, next_at |-> now] \in PendingPush
  BY BoundsAssumption DEF PendingPush
<1> QED BY <1>1, <1>2 DEF SyncedPush

(* _dispatch_due_pushes leaves well-formed rows in pending_pushes.         *)
LEMMA DispatchedTableType ==
    ASSUME NEW pend \in [Outputs -> PendingPush], NEW flying, NEW live, NEW g, NEW ls,
           NEW at
    PROVE  DispatchedTable(pend, flying, live, g, ls, at) \in [Outputs -> PendingPush]
<1> SUFFICES ASSUME NEW o \in Outputs, NEW desired \in Values
             PROVE  /\ [pend[o] EXCEPT !.target = desired] \in PendingPush
                    /\ NoPush \in PendingPush
  BY DesiredType DEF DispatchedTable
<1> QED BY BoundsAssumption DEF NoPush, PendingPush, Time

(* _dispatch_due_pushes hands requests for known outputs to the pool.      *)
LEMMA DispatchedRequestsType ==
    ASSUME NEW pend, NEW flying, NEW live, NEW g, NEW ls, NEW at
    PROVE  /\ DispatchedRequests(pend, flying, live, g, ls, at) \subseteq Request
           /\ ReadyOutputs(pend, flying, live, at) \subseteq Outputs
BY DesiredType DEF DispatchedRequests, Request, ReadyOutputs, DuePushes

(* _record_push_failure writes a well-formed row.                          *)
LEMMA FailedPushType ==
    ASSUME NEW existing \in PendingPush, NEW value \in Values
    PROVE  FailedPush(existing, value) \in PendingPush
<1>1. Bump(0) \in 0 .. AttemptCap /\ Bump(existing.attempts) \in 0 .. AttemptCap
  BY BumpType, BoundsAssumption DEF PendingPush
<1> QED BY <1>1, CapType DEF FailedPush, PendingPush

(* _apply_trigger keeps the latch records well formed.                     *)
LEMMA TriggeredType ==
    ASSUME latches \in [Rules -> LatchRecord], NEW rs, NEW times,
           times[Len(times)] \in Time
    PROVE  Triggered(rs, times) \in [Rules -> LatchRecord]
BY CountedType DEF Triggered, LatchRecord, OptTime

(* Clearing in _handle_unlatch keeps the latch records well formed.        *)
LEMMA ClearedType ==
    ASSUME latches \in [Rules -> LatchRecord], now \in Time, NEW rs
    PROVE  Cleared(rs) \in [Rules -> LatchRecord]
BY DEF Cleared, LatchRecord, OptTime

(* resolve_rule answers with a state and times it was given.               *)
LEMMA ResolveRuleType ==
    ASSUME now \in Time, NEW persisted \in LatchRecord, NEW event \in OptTime,
           NEW reports \in SUBSET Report
    PROVE  ResolveRule(now, persisted, event, reports)
             \in [state : {"set", "clear"}, set_at : OptTime, cleared_at : OptTime]
<1> DEFINE cleared == {rep \in reports : rep.belief = "CLEARED"}
           known == {rep.cleared_at : rep \in cleared} \ {None}
<1>1. ClearTime(cleared) \in OptTime
  <2>1. known \subseteq Time
    BY DEF Report, OptTime
  <2>2. CASE known = {}
    BY <2>2 DEF ClearTime, OptTime
  <2>3. CASE known # {}
    <3>1. \E t \in known : \A u \in known : u <= t
      <4> HIDE DEF known
      <4> QED BY <2>1, <2>3, LatestExists
    <3> QED BY <2>1, <2>3, <3>1 DEF ClearTime, OptTime
  <2> QED BY <2>2, <2>3
<1>2. ResolveWithClear(now, persisted, event, cleared)
        \in [state : {"set", "clear"}, set_at : OptTime, cleared_at : OptTime]
  <2> HIDE DEF cleared
  <2> QED BY <1>1 DEF ResolveWithClear, Outcome, LatchRecord, OptTime
<1>3. persisted.set_at \in OptTime /\ Latest(persisted.set_at, event) \in OptTime
  BY DEF Latest, LatchRecord
<1> QED BY <1>2, <1>3 DEF ResolveRule, Outcome, LatchRecord

(* _apply_reconcile_outcome keeps the latch records well formed.           *)
LEMMA ResolvedType ==
    ASSUME now \in Time, latches \in [Rules -> LatchRecord], NEW rs,
           NEW event \in [Rules -> OptTime], NEW count,
           NEW reports \in [Rules -> SUBSET Report]
    PROVE  Resolved(rs, event, count, reports) \in [Rules -> LatchRecord]
<1> SUFFICES ASSUME NEW r \in Rules
             PROVE  [state |-> ResolveRule(now, latches[r], event[r], reports[r]).state,
                     set_at |-> ResolveRule(now, latches[r], event[r], reports[r]).set_at,
                     cleared_at |-> ResolveRule(now, latches[r], event[r], reports[r]).cleared_at,
                     trigger_count |-> Counted(latches[r].trigger_count + count[r])]
                      \in LatchRecord
  BY DEF Resolved
<1>1. ResolveRule(now, latches[r], event[r], reports[r])
        \in [state : {"set", "clear"}, set_at : OptTime, cleared_at : OptTime]
  BY ResolveRuleType
<1> QED BY <1>1, CountedType DEF LatchRecord

-----------------------------------------------------------------------------
(* The messages of each kind carry what their handlers read.               *)
LEMMA MessageFields ==
    ASSUME NEW m \in CoreMessage
    PROVE  /\ m.kind = "event"   => m.instance \in Inputs /\ m.at \in Time
           /\ m.kind = "unlatch" => m.instance \in Outputs
           /\ m.kind = "result"  => m.instance \in Outputs /\ m.value \in Values
                                       /\ m.ok \in {"yes", "no"}
           /\ m.kind = "reload"  => m.config \in Configurations
BY DEF CoreMessage, ShutdownMessage

(* _schedule appends a well-formed timer.                                  *)
LEMMA TimerType ==
    ASSUME NEW delay, NEW m \in TimerMessage
    PROVE  Timer(delay, m) \in [at : Time, message : TimerMessage]
BY CapType DEF Timer

(* Retrying a timer's message keeps it a timer message.                    *)
LEMMA AgainType ==
    ASSUME NEW m \in TimerMessage
    PROVE  /\ [m EXCEPT !.attempt = Bump(@)] \in TimerMessage
           /\ m.kind = "reconcile" => m.instance \in Outputs
           /\ m.kind = "catchup" => m.instance \in Inputs
<1>1. Bump(m.attempt) \in 0 .. AttemptCap
  BY BumpType DEF TimerMessage
<1> QED BY <1>1 DEF TimerMessage

(* The actions that only post a message.                                   *)
LEMMA SubmitType ==
    ASSUME TypeOK, NEW m \in CoreMessage, Submit(m)
    PROVE  TypeOK'
BY AppendProperties DEF TypeOK, Submit, durable, core, dispatcher, Desired, Graph

(* A latch transaction keeps its three tables well formed.                 *)
LEMMA CommitLatchesType ==
    ASSUME TypeOK, NEW rs, NEW touched, NEW new \in [Rules -> LatchRecord],
           CommitLatches(rs, touched, new)
    PROVE  /\ db' \in [Rules -> LatchRecord]
           /\ latches' \in [Rules -> LatchRecord]
           /\ pending' \in [Outputs -> PendingPush]
<1>1. pending' \in [Outputs -> PendingPush]
  BY SyncOutputsType DEF CommitLatches, TypeOK
<1>2. db' \in [Rules -> LatchRecord] /\ latches' \in [Rules -> LatchRecord]
  BY DEF CommitLatches, WriteLatches, TypeOK
<1> QED BY <1>1, <1>2

(* _summarize returns one of the event times, or None.                     *)
LEMMA LatestOfType ==
    ASSUME NEW ins, ins \subseteq Inputs, NEW downtime \in [Inputs -> Seq(Time)]
    PROVE  LatestOf(ins, downtime) \in OptTime
<1> DEFINE times == UNION {{downtime[i][k] : k \in DOMAIN downtime[i]} : i \in ins}
<1>1. times \subseteq Time
  <2> SUFFICES ASSUME NEW i \in ins, NEW k \in DOMAIN downtime[i]
               PROVE  downtime[i][k] \in Time
    OBVIOUS
  <2>1. downtime[i] \in Seq(Time)
    OBVIOUS
  <2> QED BY <2>1, ElementOfSeq, LenProperties
<1>2. times # {} => \E t \in times : \A u \in times : u <= t
  <2> HIDE DEF times
  <2> QED BY <1>1, LatestExists
<1> QED BY <1>1, <1>2 DEF LatestOf, OptTime

(* What catch_up() may return is a sequence of times.                      *)
LEMMA EventListsType ==
    ASSUME now \in Time, NEW ev \in EventLists
    PROVE  /\ ev \in Seq(Time)
           /\ ev # <<>> => ev[Len(ev)] \in Time
<1>1. PICK n \in 0 .. MaxDowntime : ev \in [1 .. n -> 0 .. now]
  BY DEF EventLists
<1>2. n \in Nat /\ 0 .. now \subseteq Time
  BY BoundsAssumption DEF Time
<1>3. ev \in [1 .. n -> Time]
  BY <1>1, <1>2
<1>4. ev \in Seq(Time) /\ Len(ev) = n
  BY <1>2, <1>3, IsASeq, LenProperties
<1> QED BY <1>3, <1>4, ElementOfSeq, EmptySeq, LenProperties

-----------------------------------------------------------------------------
(* A fresh database without a process is well typed.                       *)
LEMMA InitType == Init => TypeOK
<1> SUFFICES ASSUME Init PROVE TypeOK
  OBVIOUS
<1>1. FreshLatch \in LatchRecord
  BY BoundsAssumption DEF FreshLatch, LatchRecord, OptTime
<1>2. NoPush \in PendingPush
  BY BoundsAssumption DEF NoPush, PendingPush, Time
<1>3. 0 \in Time /\ None \in OptTime
  BY BoundsAssumption DEF Time, OptTime
<1>4. <<>> \in Seq(CoreMessage)
  BY EmptySeq
<1> QED BY <1>1, <1>2, <1>3, <1>4 DEF Init, TypeOK

(* What every step that receives a message leaves typed.                   *)
LEMMA ReceiveType ==
    ASSUME TypeOK, NEW kind, Receive(kind)
    PROVE  /\ Head(queue) \in CoreMessage /\ Head(queue).kind = kind
           /\ queue' \in Seq(CoreMessage)
           /\ pc' \in {"get", "tick", "timers"}
BY HeadTailProperties DEF Receive, TypeOK

(* A dispatcher thread taking a request keeps the types.                   *)
LEMMA TakeType ==
    ASSUME TypeOK, NEW j \in jobs, Take(j)
    PROVE  TypeOK'
<1>1. j \in Request /\ PushResult(j.output, j.value, "no") \in CoreMessage
  BY DEF TypeOK, Request, PushResult, CoreMessage
<1>2. queue' \in Seq(CoreMessage) /\ busy' \in SUBSET Request
  <2>1. Append(queue, PushResult(j.output, j.value, "no")) \in Seq(CoreMessage)
    BY <1>1, AppendProperties DEF TypeOK
  <2>2. CASE j.output \in Live
    BY <1>1, <2>2 DEF Take, TypeOK
  <2>3. CASE j.output \notin Live
    BY <2>1, <2>3 DEF Take, TypeOK
  <2> QED BY <2>2, <2>3
<1>3. jobs' \in SUBSET Request /\ UNCHANGED <<now, durable, core>>
  BY DEF Take, TypeOK
<1> QED BY <1>2, <1>3 DEF TypeOK, durable, core

(* A dispatcher thread reporting a result keeps the types.                 *)
LEMMA FinishType ==
    ASSUME TypeOK, NEW j \in busy, NEW ok \in {"yes", "no"}, Finish(j, ok)
    PROVE  TypeOK'
<1>1. j \in Request /\ PushResult(j.output, j.value, ok) \in CoreMessage
  BY DEF TypeOK, Request, PushResult, CoreMessage
<1>2. queue' \in Seq(CoreMessage)
  BY <1>1, AppendProperties DEF Finish, TypeOK
<1> QED BY <1>2 DEF Finish, TypeOK, durable, core

(* _handle_input_event keeps the types.                                    *)
LEMMA InputEventType ==
    ASSUME TypeOK, HandleInputEvent
    PROVE  TypeOK'
<1> DEFINE rules == RulesForInput(Graph, Head(queue).instance)
           new == Triggered(rules, <<Head(queue).at>>)
<1>1. /\ queue' \in Seq(CoreMessage) /\ pc' \in {"get", "tick", "timers"}
      /\ Head(queue).at \in Time
  BY ReceiveType, MessageFields DEF HandleInputEvent
<1>2. new \in [Rules -> LatchRecord]
  <2> HIDE DEF rules
  <2> QED BY <1>1, TriggeredType DEF TypeOK
<1>3. CommitLatches(rules, rules, new)
  BY DEF HandleInputEvent
<1>4. /\ db' \in [Rules -> LatchRecord] /\ latches' \in [Rules -> LatchRecord]
      /\ pending' \in [Outputs -> PendingPush]
  <2> HIDE DEF rules, new
  <2> QED BY <1>2, <1>3, CommitLatchesType
<1> QED BY <1>1, <1>4 DEF HandleInputEvent, TypeOK, dispatcher

(* _handle_unlatch keeps the types.                                        *)
LEMMA UnlatchType ==
    ASSUME TypeOK, HandleUnlatch
    PROVE  TypeOK'
<1> DEFINE o == Head(queue).instance
           new == Cleared(SetRules(o))
<1>1. queue' \in Seq(CoreMessage) /\ pc' \in {"get", "tick", "timers"}
  BY ReceiveType DEF HandleUnlatch
<1>2. new \in [Rules -> LatchRecord]
  BY ClearedType DEF TypeOK
<1>3. CommitLatches(SetRules(o), RulesForOutput(Graph, o), new)
  BY DEF HandleUnlatch
<1>4. /\ db' \in [Rules -> LatchRecord] /\ latches' \in [Rules -> LatchRecord]
      /\ pending' \in [Outputs -> PendingPush]
  <2> HIDE DEF o, new
  <2> QED BY <1>2, <1>3, CommitLatchesType
<1> QED BY <1>1, <1>4 DEF HandleUnlatch, TypeOK, dispatcher

(* _handle_push_result keeps the types.                                    *)
LEMMA PushResultType ==
    ASSUME TypeOK, HandlePushResult
    PROVE  TypeOK'
<1> DEFINE m == Head(queue)
           o == m.instance
           applied == IF m.ok = "yes" THEN [outputState EXCEPT ![o] = m.value]
                      ELSE outputState
           pend == IF m.ok = "yes" THEN pending
                   ELSE [pending EXCEPT ![o] = FailedPush(@, m.value)]
<1>1. /\ queue' \in Seq(CoreMessage) /\ pc' \in {"get", "tick", "timers"}
      /\ m.instance \in Outputs /\ m.value \in Values
  BY ReceiveType, MessageFields DEF HandlePushResult
<1>2. applied \in [Outputs -> Values \cup {"none"}]
  BY <1>1 DEF TypeOK
<1>3. FailedPush(pending[o], m.value) \in PendingPush
  BY <1>1, FailedPushType DEF TypeOK
<1>4. pend \in [Outputs -> PendingPush]
  BY <1>1, <1>3 DEF TypeOK
<1>5. /\ outputState' = applied /\ inFlight' = inFlight \ {o}
      /\ pending' = SyncOutputs({o}, Graph, latches, applied, pend, FALSE)
  BY DEF HandlePushResult
<1>6. pending' \in [Outputs -> PendingPush]
  <2> HIDE DEF o, applied, pend
  <2> QED BY <1>4, <1>5, SyncOutputsType DEF TypeOK
<1>7. inFlight' \in SUBSET Outputs
  BY <1>5 DEF TypeOK
<1> HIDE DEF m, o, applied, pend
<1> QED BY <1>1, <1>2, <1>5, <1>6, <1>7 DEF HandlePushResult, TypeOK, dispatcher

(* _handle_reload keeps the types.                                         *)
LEMMA ReloadType ==
    ASSUME TypeOK, HandleReload
    PROVE  TypeOK'
<1>1. /\ queue' \in Seq(CoreMessage) /\ pc' \in {"get", "tick", "timers"}
      /\ config' \in Configurations
  BY ReceiveType, MessageFields DEF HandleReload
<1>2. pending' \in [Outputs -> PendingPush]
  BY SyncOutputsType DEF HandleReload, TypeOK
<1> QED BY <1>1, <1>2 DEF HandleReload, TypeOK, dispatcher

(* The end of the process, by shutdown or crash, keeps the types.          *)
LEMMA GoneType ==
    ASSUME TypeOK, ProcessGone, lastSeen' \in OptTime
    PROVE  TypeOK'
<1>1. <<>> \in Seq(CoreMessage)
  BY EmptySeq
<1>2. 0 \in Time
  BY BoundsAssumption DEF Time
<1> QED BY <1>1, <1>2 DEF ProcessGone, TypeOK, OptTime

(* The dispatching half of _tick keeps the types.                          *)
LEMMA DispatchType ==
    ASSUME TypeOK, DispatchDuePushes
    PROVE  TypeOK'
<1>1. pending' \in [Outputs -> PendingPush]
  BY DispatchedTableType DEF DispatchDuePushes, TypeOK
<1>2. inFlight' \in SUBSET Outputs /\ jobs' \in SUBSET Request
  BY DispatchedRequestsType DEF DispatchDuePushes, TypeOK
<1>3. lastSeen' \in OptTime /\ seenWritten' \in OptTime
  BY DEF DispatchDuePushes, TypeOK, OptTime
<1>4. tickAt' \in Time
  BY BoundsAssumption DEF DispatchDuePushes, Time
<1> QED BY <1>1, <1>2, <1>3, <1>4 DEF DispatchDuePushes, TypeOK

(* A timer that fires leaves the rest of the state typed.                  *)
LEMMA FireType ==
    ASSUME TypeOK, NEW t \in due, NEW kind, Fire(t, kind)
    PROVE  /\ t.message \in TimerMessage /\ t.message.kind = kind
           /\ due' \in SUBSET [at : Time, message : TimerMessage]
BY DEF Fire, TypeOK

(* _handle_reconcile_retry keeps the types.                                *)
LEMMA ReconcileRetryType ==
    ASSUME TypeOK, NEW t \in due, NEW report \in Report, HandleReconcileRetry(t, report)
    PROVE  TypeOK'
<1> DEFINE o == t.message.instance
           rules == RulesForOutput(Graph, o)
           again == [t.message EXCEPT !.attempt = Bump(@)]
           new == Resolved(rules, [r \in Rules |-> None], [r \in Rules |-> 0],
                           [r \in Rules |-> {report}])
<1>1. /\ again \in TimerMessage
      /\ due' \in SUBSET [at : Time, message : TimerMessage]
  BY FireType, AgainType DEF HandleReconcileRetry
<1>2. Timer(ReconcileDelay(t.message.attempt), again) \in [at : Time, message : TimerMessage]
  BY <1>1, TimerType
<1>3. new \in [Rules -> LatchRecord]
  <2>1. /\ [r \in Rules |-> None] \in [Rules -> OptTime]
        /\ [r \in Rules |-> {report}] \in [Rules -> SUBSET Report]
    BY DEF OptTime
  <2> HIDE DEF rules
  <2> QED BY <2>1, ResolvedType DEF TypeOK
<1>4. \/ UNCHANGED <<db, latches, pending, timers>>
      \/ /\ timers' = timers \cup {Timer(ReconcileDelay(t.message.attempt), again)}
         /\ UNCHANGED <<db, latches, pending>>
      \/ CommitLatches(rules, rules, new) /\ UNCHANGED timers
  BY DEF HandleReconcileRetry
<1> HIDE DEF o, rules, again, new
<1>5. /\ db' \in [Rules -> LatchRecord] /\ latches' \in [Rules -> LatchRecord]
      /\ pending' \in [Outputs -> PendingPush]
      /\ timers' \in SUBSET [at : Time, message : TimerMessage]
  <2>1. CASE UNCHANGED <<db, latches, pending, timers>>
    BY <2>1 DEF TypeOK
  <2>2. CASE /\ timers' = timers \cup {Timer(ReconcileDelay(t.message.attempt), again)}
             /\ UNCHANGED <<db, latches, pending>>
    BY <2>2, <1>2 DEF TypeOK
  <2>3. CASE CommitLatches(rules, rules, new) /\ UNCHANGED timers
    BY <2>3, <1>3, CommitLatchesType DEF TypeOK
  <2> QED BY <1>4, <2>1, <2>2, <2>3
<1> QED BY <1>1, <1>5 DEF HandleReconcileRetry, Fire, TypeOK, dispatcher

(* _handle_catch_up_retry keeps the types.                                 *)
LEMMA CatchUpRetryType ==
    ASSUME TypeOK, NEW t \in due, NEW raised, NEW events,
           events # <<>> => events[Len(events)] \in Time,
           HandleCatchUpRetry(t, raised, events)
    PROVE  TypeOK'
<1> DEFINE i == t.message.instance
           rules == RulesForInput(Graph, i)
           again == [t.message EXCEPT !.attempt = Bump(@)]
           new == Triggered(rules, events)
<1>1. /\ again \in TimerMessage
      /\ due' \in SUBSET [at : Time, message : TimerMessage]
  BY FireType, AgainType DEF HandleCatchUpRetry
<1>2. Timer(ReconcileDelay(t.message.attempt), again) \in [at : Time, message : TimerMessage]
  BY <1>1, TimerType
<1>3. events # <<>> => new \in [Rules -> LatchRecord]
  <2> HIDE DEF rules
  <2> QED BY TriggeredType DEF TypeOK
<1>4. \/ UNCHANGED <<db, latches, pending, timers>>
      \/ /\ timers' = timers \cup {Timer(ReconcileDelay(t.message.attempt), again)}
         /\ UNCHANGED <<db, latches, pending>>
      \/ events # <<>> /\ CommitLatches(rules, rules, new) /\ UNCHANGED timers
  BY DEF HandleCatchUpRetry
<1> HIDE DEF i, rules, again, new
<1>5. /\ db' \in [Rules -> LatchRecord] /\ latches' \in [Rules -> LatchRecord]
      /\ pending' \in [Outputs -> PendingPush]
      /\ timers' \in SUBSET [at : Time, message : TimerMessage]
  <2>1. CASE UNCHANGED <<db, latches, pending, timers>>
    BY <2>1 DEF TypeOK
  <2>2. CASE /\ timers' = timers \cup {Timer(ReconcileDelay(t.message.attempt), again)}
             /\ UNCHANGED <<db, latches, pending>>
    BY <2>2, <1>2 DEF TypeOK
  <2>3. CASE events # <<>> /\ CommitLatches(rules, rules, new) /\ UNCHANGED timers
    BY <2>3, <1>3, CommitLatchesType DEF TypeOK
  <2> QED BY <1>4, <2>1, <2>2, <2>3
<1> QED BY <1>1, <1>5 DEF HandleCatchUpRetry, Fire, TypeOK, dispatcher

(* Runtime.start() up to the dispatcher keeps the types.                   *)
LEMMA StartType ==
    ASSUME TypeOK, NEW c \in Configurations, Start(c)
    PROVE  TypeOK'
<1> DEFINE g == FromConfiguration(c)
           pend == SyncOutputs(OutputNames(g), g, db, outputState, pending, FALSE)
<1>1. pend \in [Outputs -> PendingPush]
  <2> HIDE DEF g
  <2> QED BY SyncOutputsType DEF TypeOK
<1>2. /\ pending'  = DispatchedTable(pend, {}, c.instances, g, db, now)
      /\ inFlight' = ReadyOutputs(pend, {}, c.instances, now)
      /\ jobs'     = DispatchedRequests(pend, {}, c.instances, g, db, now)
  BY DEF Start
<1> HIDE DEF g, pend
<1>3. pending' \in [Outputs -> PendingPush]
  BY <1>1, <1>2, DispatchedTableType
<1>4. inFlight' \in SUBSET Outputs /\ jobs' \in SUBSET Request
  BY <1>2, DispatchedRequestsType
<1> QED BY <1>3, <1>4 DEF Start, TypeOK, OptTime

(* reconcile() keeps the types.                                            *)
LEMMA ReconcileAllType ==
    ASSUME TypeOK, NEW downtime \in [Inputs -> Seq(Time)], NEW raised \in SUBSET Inputs,
           NEW reports \in [Outputs -> Report], ReconcileAll(downtime, raised, reports)
    PROVE  TypeOK'
<1> DEFINE g == Graph
           rules == RuleNames(g)
           event == [r \in Rules |-> IF r \in rules
                                     THEN LatestOf(g.inputs[r] \ raised, downtime) ELSE None]
           count == [r \in Rules |-> IF r \in rules
                                     THEN CountOf(g.inputs[r] \ raised, downtime) ELSE 0]
           known == [r \in Rules |-> IF r \in rules
                                     THEN {reports[o] : o \in g.outputs[r]} ELSE {}]
           new   == Resolved(rules, event, count, known)
           pend  == SyncOutputs(OutputNames(g), g, new, outputState, pending, TRUE)
           late(i) == [kind |-> "catchup", instance |-> i, attempt |-> Bump(0),
                       since |-> lastSeen]
           again(o) == [kind |-> "reconcile", instance |-> o, attempt |-> Bump(0)]
<1>1. /\ rules \subseteq Rules /\ OutputNames(g) \subseteq Outputs
      /\ InputNames(g) \subseteq Inputs
      /\ \A r \in rules : g.inputs[r] \subseteq Inputs /\ g.outputs[r] \subseteq Outputs
  <2>1. rules \subseteq Rules /\ OutputNames(g) \subseteq Outputs
    BY GraphType DEF Graph, TypeOK
  <2>2. \A r \in rules : g.inputs[r] \subseteq Inputs /\ g.outputs[r] \subseteq Outputs
    BY ConfigurationsAssumption DEF Graph, TypeOK, FromConfiguration, RuleNames
  <2>3. InputNames(g) \subseteq Inputs
    BY <2>2 DEF InputNames
  <2> QED BY <2>1, <2>2, <2>3
<1> HIDE DEF g, rules
<1>2. event \in [Rules -> OptTime]
  <2> SUFFICES ASSUME NEW r \in Rules, r \in rules
               PROVE  LatestOf(g.inputs[r] \ raised, downtime) \in OptTime
    BY DEF OptTime
  <2>1. g.inputs[r] \ raised \subseteq Inputs
    BY <1>1
  <2> QED BY <2>1, LatestOfType
<1>3. known \in [Rules -> SUBSET Report]
  BY <1>1
<1> HIDE DEF event, count, known
<1>4. new \in [Rules -> LatchRecord]
  BY <1>2, <1>3, ResolvedType DEF TypeOK
<1>5. pend \in [Outputs -> PendingPush]
  <2> HIDE DEF new
  <2> QED BY SyncOutputsType DEF TypeOK
<1>6. /\ phase' = "running"
      /\ WriteLatches(rules, new)
      /\ timers' = timers
             \cup {Timer(ReconcileRetryInitial, late(i)) : i \in InputNames(g) \cap raised}
             \cup {Timer(ReconcileRetryInitial, again(o)) :
                     o \in {p \in OutputNames(g) : reports[p].belief = "UNKNOWN"}}
      /\ pending'  = DispatchedTable(pend, inFlight, Live, g, new, now)
      /\ inFlight' = inFlight \cup ReadyOutputs(pend, inFlight, Live, now)
      /\ jobs'     = jobs \cup DispatchedRequests(pend, inFlight, Live, g, new, now)
      /\ lastSeen' = now /\ seenWritten' = now
      /\ UNCHANGED <<now, outputState, config, queue, due, tickAt, pc, busy>>
  BY DEF ReconcileAll, g, rules, event, count, known
<1> HIDE DEF new, pend
<1>7. db' \in [Rules -> LatchRecord] /\ latches' \in [Rules -> LatchRecord]
  BY <1>4, <1>6 DEF WriteLatches, TypeOK
<1>8. timers' \in SUBSET [at : Time, message : TimerMessage]
  <2>1. \A i \in Inputs : late(i) \in TimerMessage
    BY BumpType, BoundsAssumption DEF TimerMessage, TypeOK
  <2>2. \A o \in Outputs : again(o) \in TimerMessage
    BY BumpType, BoundsAssumption DEF TimerMessage
  <2> HIDE DEF late, again
  <2>3. \A i \in Inputs :
          Timer(ReconcileRetryInitial, late(i)) \in [at : Time, message : TimerMessage]
    BY <2>1, TimerType
  <2>4. \A o \in Outputs :
          Timer(ReconcileRetryInitial, again(o)) \in [at : Time, message : TimerMessage]
    BY <2>2, TimerType
  <2> QED BY <1>1, <1>6, <2>3, <2>4 DEF TypeOK
<1>9. pending' \in [Outputs -> PendingPush]
  BY <1>5, <1>6, DispatchedTableType
<1>10. inFlight' \in SUBSET Outputs /\ jobs' \in SUBSET Request
  BY <1>6, DispatchedRequestsType DEF TypeOK
<1> QED BY <1>6, <1>7, <1>8, <1>9, <1>10 DEF TypeOK, OptTime

(* Every step of the engine keeps the types.                               *)
LEMMA NextType == TypeOK /\ [Next]_vars => TypeOK'
<1> SUFFICES ASSUME TypeOK, [Next]_vars PROVE TypeOK'
  OBVIOUS
<1>1. CASE UNCHANGED vars
  BY <1>1 DEF vars, durable, core, dispatcher, TypeOK
<1>2. CASE HandleInputEvent
  BY <1>2, InputEventType
<1>3. CASE HandleUnlatch
  BY <1>3, UnlatchType
<1>4. CASE IgnoreUnlatch
  BY <1>4, ReceiveType DEF IgnoreUnlatch, TypeOK, durable, dispatcher
<1>5. CASE HandlePushResult
  BY <1>5, PushResultType
<1>6. CASE HandleReload
  BY <1>6, ReloadType
<1>7. CASE HandleShutdown
  BY <1>7, GoneType DEF HandleShutdown, TypeOK, OptTime
<1>8. CASE BeginTick
  BY <1>8 DEF BeginTick, TypeOK, durable, dispatcher
<1>9. CASE DispatchDuePushes
  BY <1>9, DispatchType
<1>10. CASE \E t \in due, rep \in Reports : HandleReconcileRetry(t, rep)
  BY <1>10, ReconcileRetryType DEF Reports
<1>11. CASE \E t \in due, raised \in BOOLEAN, ev \in EventLists :
              HandleCatchUpRetry(t, raised, ev)
  <2>1. PICK t \in due, raised \in BOOLEAN, ev \in EventLists :
           HandleCatchUpRetry(t, raised, ev)
    BY <1>11
  <2>2. ev # <<>> => ev[Len(ev)] \in Time
    BY EventListsType DEF TypeOK
  <2> QED BY <2>1, <2>2, CatchUpRetryType
<1>12. CASE \E downtime \in [Inputs -> EventLists], raised \in SUBSET Inputs,
              reports \in [Outputs -> Reports] : ReconcileAll(downtime, raised, reports)
  <2>1. PICK downtime \in [Inputs -> EventLists], raised \in SUBSET Inputs,
             reports \in [Outputs -> Reports] : ReconcileAll(downtime, raised, reports)
    BY <1>12
  <2>2. EventLists \subseteq Seq(Time)
    BY EventListsType DEF TypeOK
  <2>3. downtime \in [Inputs -> Seq(Time)] /\ reports \in [Outputs -> Report]
    BY <2>2 DEF Reports
  <2> QED BY <2>1, <2>3, ReconcileAllType
<1>13. CASE PoolNext
  BY <1>13, TakeType, FinishType DEF PoolNext
<1>14. CASE \E i \in Inputs, t \in Time : Emit(i, t)
  <2>1. PICK i \in Inputs, t \in Time : Emit(i, t)
    BY <1>14
  <2>2. InputEvent(i, t) \in CoreMessage
    BY DEF InputEvent, CoreMessage
  <2> QED BY <2>1, <2>2, SubmitType DEF Emit
<1>15. CASE \E o \in Outputs : RequestUnlatch(o)
  <2>1. PICK o \in Outputs : RequestUnlatch(o)
    BY <1>15
  <2>2. UnlatchRequest(o) \in CoreMessage
    BY DEF UnlatchRequest, CoreMessage
  <2> QED BY <2>1, <2>2, SubmitType DEF RequestUnlatch
<1>16. CASE \E c \in Configurations : SubmitReload(c)
  <2>1. PICK c \in Configurations : SubmitReload(c)
    BY <1>16
  <2>2. ReloadMessage(c) \in CoreMessage
    BY DEF ReloadMessage, CoreMessage
  <2> QED BY <2>1, <2>2, SubmitType DEF SubmitReload
<1>17. CASE \E c \in Configurations : Start(c)
  BY <1>17, StartType
<1>18. CASE RequestStop
  <2>1. ShutdownMessage \in CoreMessage
    BY DEF CoreMessage
  <2> QED BY <1>18, <2>1, SubmitType DEF RequestStop
<1>19. CASE Crash
  BY <1>19, GoneType DEF Crash, TypeOK
<1>20. CASE ClockTick
  <2>1. now' \in Time
    BY <1>20, BoundsAssumption DEF ClockTick, TypeOK, Time
  <2> QED BY <1>20, <2>1 DEF ClockTick, TypeOK, durable, core, dispatcher
<1> QED
  BY <1>1, <1>2, <1>3, <1>4, <1>5, <1>6, <1>7, <1>8, <1>9, <1>10, <1>11, <1>12, <1>13,
     <1>14, <1>15, <1>16, <1>17, <1>18, <1>19, <1>20
  DEF Next, CoreNext, OutsideNext

(* The engine's state is well typed in every reachable state, for every    *)
(* configuration and every behaviour of the plugins.                       *)
THEOREM TypeCorrect == Spec => []TypeOK
<1>1. Init => TypeOK
  BY InitType
<1>2. TypeOK /\ [Next]_vars => TypeOK'
  BY NextType
<1> QED BY <1>1, <1>2, PTL DEF Spec

-----------------------------------------------------------------------------
(* PendingCoversDesired as a relation between a graph, a latch table, what *)
(* was last applied and the pending pushes.                                *)
Covered(g, ls, applied, pend) ==
    \A o \in OutputNames(g) :
        \/ applied[o] = DesiredOutputState(g, o, ls)
        \/ pend[o].target = DesiredOutputState(g, o, ls)

(* PendingCoversDesired of the current state, as a Covered relation.       *)
LEMMA CoveredNow ==
    PendingCoversDesired <=>
        (phase # "down" => Covered(FromConfiguration(config), latches, outputState, pending))
BY DEF PendingCoversDesired, Covered, Desired, Graph

(* PendingCoversDesired of the next state, as a Covered relation.          *)
LEMMA CoveredNext ==
    PendingCoversDesired' <=>
        (phase' # "down" =>
            Covered(FromConfiguration(config'), latches', outputState', pending'))
BY DEF PendingCoversDesired, Covered, Desired, Graph, OutputNames, RuleNames,
       DesiredOutputState, RulesForOutput, FromConfiguration

(* Dispatching keeps the row of a live output on the wanted value.         *)
LEMMA DispatchCovers ==
    ASSUME NEW g, NEW ls, NEW applied, NEW pend \in [Outputs -> PendingPush], NEW flying,
           NEW live, NEW at, OutputNames(g) \subseteq live \cap Outputs,
           Covered(g, ls, applied, pend)
    PROVE  Covered(g, ls, applied, DispatchedTable(pend, flying, live, g, ls, at))
<1> SUFFICES ASSUME NEW o \in OutputNames(g), applied[o] # DesiredOutputState(g, o, ls)
             PROVE  DispatchedTable(pend, flying, live, g, ls, at)[o].target
                       = DesiredOutputState(g, o, ls)
  BY DEF Covered
<1>1. pend[o].target = DesiredOutputState(g, o, ls) /\ o \in Outputs /\ o \in live
  BY DEF Covered
<1>2. [pend[o] EXCEPT !.target = DesiredOutputState(g, o, ls)].target
          = DesiredOutputState(g, o, ls)
  BY <1>1 DEF PendingPush
<1> QED BY <1>1, <1>2 DEF DispatchedTable

(* An output none of the changed rules lists wants what it wanted before.  *)
LEMMA UnaffectedDesired ==
    ASSUME NEW g, NEW touched, NEW ls, NEW new,
           \A r \in RuleNames(g) : r \notin touched => new[r] = ls[r],
           NEW o, o \notin OutputsAffectedBy(g, touched)
    PROVE  DesiredOutputState(g, o, new) = DesiredOutputState(g, o, ls)
<1>1. \A r \in RulesForOutput(g, o) : r \in RuleNames(g) /\ r \notin touched
  BY DEF OutputsAffectedBy, RulesForOutput
<1>2. \A r \in RulesForOutput(g, o) : new[r] = ls[r]
  BY <1>1
<1> QED BY <1>2 DEF DesiredOutputState

(* A transaction that changes latches only of the rules whose outputs it   *)
(* syncs keeps every output covered.                                       *)
LEMMA CommitCovers ==
    ASSUME TypeOK, PendingCoversDesired, phase # "down",
           NEW rs, NEW touched, NEW new,
           \A r \in Rules : r \notin touched => new[r] = latches[r],
           CommitLatches(rs, touched, new), UNCHANGED <<config, outputState>>
    PROVE  PendingCoversDesired'
<1> DEFINE g == FromConfiguration(config)
<1>1. RuleNames(g) \subseteq Rules /\ OutputNames(g) \subseteq Outputs
  BY GraphType DEF TypeOK
<1>2. Covered(g, latches, outputState, pending)
  BY CoveredNow
<1>3. /\ latches' = new
      /\ pending' = SyncOutputs(OutputsAffectedBy(g, touched), g, new, outputState,
                                pending, FALSE)
  BY DEF CommitLatches, WriteLatches, Graph
<1> HIDE DEF g
<1>4. ASSUME NEW o \in OutputNames(g)
      PROVE  \/ outputState[o] = DesiredOutputState(g, o, new)
             \/ pending'[o].target = DesiredOutputState(g, o, new)
  <2>1. o \in Outputs
    BY <1>1
  <2>2. CASE o \in OutputsAffectedBy(g, touched)
    BY <1>3, <2>1, <2>2 DEF SyncOutputs, SyncedPush
  <2>3. CASE o \notin OutputsAffectedBy(g, touched)
    <3>1. DesiredOutputState(g, o, new) = DesiredOutputState(g, o, latches)
      BY <1>1, <2>3, UnaffectedDesired
    <3>2. pending'[o] = pending[o]
      BY <1>3, <2>1, <2>3 DEF SyncOutputs
    <3> QED BY <1>2, <3>1, <3>2 DEF Covered
  <2> QED BY <2>2, <2>3
<1>5. Covered(g, latches', outputState', pending')
  BY <1>3, <1>4 DEF Covered
<1> QED BY <1>5, CoveredNext DEF g

(* Once _sync_output ran for every output of the graph, forced or not,     *)
(* every output is covered.                                                *)
LEMMA SyncAllCovers ==
    ASSUME NEW g, NEW outs, OutputNames(g) \subseteq outs \cap Outputs,
           NEW ls, NEW applied, NEW pend
    PROVE  /\ Covered(g, ls, applied, SyncOutputs(outs, g, ls, applied, pend, FALSE))
           /\ Covered(g, ls, applied, SyncOutputs(outs, g, ls, applied, pend, TRUE))
<1>1. \A o \in OutputNames(g) :
         /\ \/ applied[o] = DesiredOutputState(g, o, ls)
            \/ SyncOutputs(outs, g, ls, applied, pend, FALSE)[o].target
                   = DesiredOutputState(g, o, ls)
         /\ SyncOutputs(outs, g, ls, applied, pend, TRUE)[o].target
                   = DesiredOutputState(g, o, ls)
  BY DEF SyncOutputs, SyncedPush
<1> QED BY <1>1 DEF Covered

(* _handle_push_result keeps every output covered.                         *)
LEMMA PushResultCovers ==
    ASSUME TypeOK, PendingCoversDesired, HandlePushResult
    PROVE  PendingCoversDesired'
<1> DEFINE g == FromConfiguration(config)
           m == Head(queue)
           o == m.instance
           applied == IF m.ok = "yes" THEN [outputState EXCEPT ![o] = m.value]
                      ELSE outputState
           pend == IF m.ok = "yes" THEN pending
                   ELSE [pending EXCEPT ![o] = FailedPush(@, m.value)]
<1>1. /\ outputState' = applied /\ latches' = latches /\ config' = config
      /\ pending' = SyncOutputs({o}, g, latches, applied, pend, FALSE)
      /\ phase # "down"
  BY DEF HandlePushResult, Graph, Receive
<1>2. OutputNames(g) \subseteq Outputs
  BY GraphType DEF TypeOK
<1>3. Covered(g, latches, outputState, pending)
  BY <1>1, CoveredNow
<1>4. \A p \in Outputs : p # o => applied[p] = outputState[p] /\ pend[p] = pending[p]
  BY DEF TypeOK
<1> HIDE DEF g, o, applied, pend
<1>5. ASSUME NEW p \in OutputNames(g)
      PROVE  \/ applied[p] = DesiredOutputState(g, p, latches)
             \/ pending'[p].target = DesiredOutputState(g, p, latches)
  <2>1. p \in Outputs
    BY <1>2
  <2>2. CASE p = o
    BY <1>1, <2>1, <2>2 DEF SyncOutputs, SyncedPush
  <2>3. CASE p # o
    <3>1. pending'[p] = pending[p] /\ applied[p] = outputState[p]
      BY <1>1, <1>4, <2>1, <2>3 DEF SyncOutputs
    <3> QED BY <1>3, <3>1 DEF Covered
  <2> QED BY <2>2, <2>3
<1>6. Covered(g, latches', outputState', pending')
  BY <1>1, <1>5 DEF Covered
<1> QED BY <1>1, <1>6, CoveredNext DEF g

(* _handle_reload leaves every output of the new graph covered.            *)
LEMMA ReloadCovers ==
    ASSUME TypeOK, HandleReload
    PROVE  PendingCoversDesired'
<1> DEFINE g == FromConfiguration(config')
           outs == OutputNames(Graph) \cup OutputNames(g)
<1>1. /\ config' \in Configurations /\ latches' = db /\ outputState' = outputState
      /\ pending' = SyncOutputs(outs, g, db, outputState, pending, FALSE)
  BY ReceiveType, MessageFields DEF HandleReload
<1>2. OutputNames(g) \subseteq outs \cap Outputs
  BY <1>1, GraphType
<1> HIDE DEF g, outs
<1>3. Covered(g, latches', outputState', pending')
  BY <1>1, <1>2, SyncAllCovers
<1> QED BY <1>3, CoveredNext DEF g

(* The dispatching half of _tick keeps every output covered.               *)
LEMMA DispatchDueCovers ==
    ASSUME TypeOK, PendingCoversDesired, DispatchDuePushes
    PROVE  PendingCoversDesired'
<1> DEFINE g == FromConfiguration(config)
<1>1. /\ config' = config /\ latches' = latches /\ outputState' = outputState
      /\ pending' = DispatchedTable(pending, inFlight, Live, g, latches, tickAt)
      /\ phase # "down"
  BY DEF DispatchDuePushes, Graph
<1>2. OutputNames(g) \subseteq Live \cap Outputs
  BY GraphType DEF TypeOK, Live
<1>3. Covered(g, latches, outputState, pending)
  BY <1>1, CoveredNow
<1> HIDE DEF g
<1>4. Covered(g, latches', outputState', pending')
  BY <1>1, <1>2, <1>3, DispatchCovers DEF TypeOK
<1> QED BY <1>1, <1>4, CoveredNext DEF g

(* start() leaves every output of the graph covered.                       *)
LEMMA StartCovers ==
    ASSUME TypeOK, NEW c \in Configurations, Start(c)
    PROVE  PendingCoversDesired'
<1> DEFINE g == FromConfiguration(c)
           pend == SyncOutputs(OutputNames(g), g, db, outputState, pending, FALSE)
<1>1. /\ config' = c /\ latches' = db /\ outputState' = outputState
      /\ pending' = DispatchedTable(pend, {}, c.instances, g, db, now)
  BY DEF Start
<1>2. OutputNames(g) \subseteq c.instances \cap Outputs
  BY GraphType
<1>3. pend \in [Outputs -> PendingPush]
  <2> HIDE DEF g
  <2> QED BY SyncOutputsType DEF TypeOK
<1>4. Covered(g, db, outputState, pend)
  <2> HIDE DEF g
  <2> QED BY <1>2, SyncAllCovers
<1> HIDE DEF g, pend
<1>5. Covered(g, latches', outputState', pending')
  BY <1>1, <1>2, <1>3, <1>4, DispatchCovers
<1> QED BY <1>1, <1>5, CoveredNext DEF g

(* reconcile() leaves every output of the graph covered.                   *)
LEMMA ReconcileAllCovers ==
    ASSUME TypeOK, NEW downtime, NEW raised, NEW reports,
           ReconcileAll(downtime, raised, reports)
    PROVE  PendingCoversDesired'
<1> DEFINE g == FromConfiguration(config)
           rules == RuleNames(g)
           event == [r \in Rules |-> IF r \in rules
                                     THEN LatestOf(g.inputs[r] \ raised, downtime) ELSE None]
           count == [r \in Rules |-> IF r \in rules
                                     THEN CountOf(g.inputs[r] \ raised, downtime) ELSE 0]
           known == [r \in Rules |-> IF r \in rules
                                     THEN {reports[o] : o \in g.outputs[r]} ELSE {}]
           new   == Resolved(rules, event, count, known)
           pend  == SyncOutputs(OutputNames(g), g, new, outputState, pending, TRUE)
<1>1. /\ latches' = new /\ config' = config /\ outputState' = outputState
      /\ pending' = DispatchedTable(pend, inFlight, Live, g, new, now)
  BY DEF ReconcileAll, WriteLatches, Graph
<1>2. OutputNames(g) \subseteq Live \cap Outputs
  BY GraphType DEF TypeOK, Live
<1> HIDE DEF g, new
<1>3. pend \in [Outputs -> PendingPush]
  BY SyncOutputsType DEF TypeOK
<1>4. Covered(g, new, outputState, pend)
  BY <1>2, SyncAllCovers
<1> HIDE DEF pend
<1>5. Covered(g, latches', outputState', pending')
  BY <1>1, <1>2, <1>3, <1>4, DispatchCovers
<1> QED BY <1>1, <1>5, CoveredNext DEF g

(* A step that touches neither the latches nor the rows they are compared  *)
(* with keeps the outputs covered; so does a process that is gone.         *)
LEMMA UntouchedCovers ==
    ASSUME PendingCoversDesired,
           \/ phase' = "down"
           \/ phase # "down" /\ UNCHANGED <<config, latches, outputState, pending>>
           \/ UNCHANGED <<phase, config, latches, outputState, pending>>
    PROVE  PendingCoversDesired'
BY CoveredNow, CoveredNext

(* Every step of the engine keeps every output covered.                    *)
LEMMA NextCovers ==
    TypeOK /\ PendingCoversDesired /\ [Next]_vars => PendingCoversDesired'
<1> SUFFICES ASSUME TypeOK, PendingCoversDesired, [Next]_vars PROVE PendingCoversDesired'
  OBVIOUS
<1>1. CASE UNCHANGED vars
  BY <1>1, UntouchedCovers DEF vars, durable, core
<1>2. CASE HandleInputEvent
  <2> DEFINE rules == RulesForInput(Graph, Head(queue).instance)
             new == Triggered(rules, <<Head(queue).at>>)
  <2>1. \A r \in Rules : r \notin rules => new[r] = latches[r]
    BY DEF Triggered
  <2>2. /\ CommitLatches(rules, rules, new) /\ UNCHANGED <<config, outputState>>
        /\ phase # "down"
    BY <1>2 DEF HandleInputEvent, Receive
  <2> HIDE DEF rules, new
  <2> QED BY <2>1, <2>2, CommitCovers
<1>3. CASE HandleUnlatch
  <2> DEFINE o == Head(queue).instance
             rules == RulesForOutput(Graph, o)
             new == Cleared(SetRules(o))
  <2>1. \A r \in Rules : r \notin rules => new[r] = latches[r]
    BY DEF Cleared, SetRules
  <2>2. /\ CommitLatches(SetRules(o), rules, new) /\ UNCHANGED <<config, outputState>>
        /\ phase # "down"
    BY <1>3 DEF HandleUnlatch, Receive
  <2> HIDE DEF o, rules, new
  <2> QED BY <2>1, <2>2, CommitCovers
<1>4. CASE IgnoreUnlatch
  BY <1>4, UntouchedCovers DEF IgnoreUnlatch, durable
<1>5. CASE HandlePushResult
  BY <1>5, PushResultCovers
<1>6. CASE HandleReload
  BY <1>6, ReloadCovers
<1>7. CASE HandleShutdown \/ Crash
  BY <1>7, UntouchedCovers DEF HandleShutdown, Crash, ProcessGone
<1>8. CASE BeginTick
  BY <1>8, UntouchedCovers DEF BeginTick, durable
<1>9. CASE DispatchDuePushes
  BY <1>9, DispatchDueCovers
<1>10. CASE \E t \in due, rep \in Reports : HandleReconcileRetry(t, rep)
  <2>1. PICK t \in due, rep \in Reports : HandleReconcileRetry(t, rep)
    BY <1>10
  <2> DEFINE rules == RulesForOutput(Graph, t.message.instance)
             new == Resolved(rules, [r \in Rules |-> None], [r \in Rules |-> 0],
                             [r \in Rules |-> {rep}])
  <2>2. \A r \in Rules : r \notin rules => new[r] = latches[r]
    BY DEF Resolved
  <2>3. phase # "down" /\ UNCHANGED <<phase, config, outputState>>
    BY <2>1 DEF HandleReconcileRetry, Fire
  <2>4. UNCHANGED <<db, latches, pending>> \/ CommitLatches(rules, rules, new)
    BY <2>1 DEF HandleReconcileRetry
  <2> HIDE DEF rules, new
  <2> QED BY <2>2, <2>3, <2>4, CommitCovers, UntouchedCovers
<1>11. CASE \E t \in due, raised \in BOOLEAN, ev \in EventLists :
              HandleCatchUpRetry(t, raised, ev)
  <2>1. PICK t \in due, raised \in BOOLEAN, ev \in EventLists :
           HandleCatchUpRetry(t, raised, ev)
    BY <1>11
  <2> DEFINE rules == RulesForInput(Graph, t.message.instance)
             new == Triggered(rules, ev)
  <2>2. \A r \in Rules : r \notin rules => new[r] = latches[r]
    BY DEF Triggered
  <2>3. phase # "down" /\ UNCHANGED <<phase, config, outputState>>
    BY <2>1 DEF HandleCatchUpRetry, Fire
  <2>4. UNCHANGED <<db, latches, pending>> \/ CommitLatches(rules, rules, new)
    BY <2>1 DEF HandleCatchUpRetry
  <2> HIDE DEF rules, new
  <2> QED BY <2>2, <2>3, <2>4, CommitCovers, UntouchedCovers
<1>12. CASE \E downtime \in [Inputs -> EventLists], raised \in SUBSET Inputs,
              reports \in [Outputs -> Reports] : ReconcileAll(downtime, raised, reports)
  BY <1>12, ReconcileAllCovers
<1>13. CASE PoolNext
  <2>1. UNCHANGED <<phase, config, latches, outputState, pending>>
    BY <1>13 DEF PoolNext, Take, Finish, durable, core
  <2> QED BY <2>1, UntouchedCovers
<1>14. CASE \/ \E i \in Inputs, t \in Time : Emit(i, t)
            \/ \E o \in Outputs : RequestUnlatch(o)
            \/ \E c \in Configurations : SubmitReload(c)
            \/ RequestStop \/ ClockTick
  <2>1. UNCHANGED <<phase, config, latches, outputState, pending>>
    BY <1>14 DEF Emit, RequestUnlatch, SubmitReload, RequestStop, Submit, ClockTick,
                 durable, core
  <2> QED BY <2>1, UntouchedCovers
<1>15. CASE \E c \in Configurations : Start(c)
  BY <1>15, StartCovers
<1> QED
  BY <1>1, <1>2, <1>3, <1>4, <1>5, <1>6, <1>7, <1>8, <1>9, <1>10, <1>11, <1>12, <1>13,
     <1>14, <1>15
  DEF Next, CoreNext, OutsideNext

(* No output is ever left wrong and forgotten, whatever messages arrive in *)
(* whatever order, whichever pushes fail, and across reloads and crashes:  *)
(* it was last told what the latches want, or a pending push carries it.   *)
THEOREM OutputsCovered == Spec => []PendingCoversDesired
<1>1. Init => PendingCoversDesired
  BY DEF Init, PendingCoversDesired
<1>2. TypeOK /\ PendingCoversDesired /\ [Next]_vars => PendingCoversDesired'
  BY NextCovers
<1> QED BY <1>1, <1>2, TypeCorrect, PTL DEF Spec

-----------------------------------------------------------------------------
(* A step that gives the pool nothing new cannot give it a stale value.    *)
LEMMA NothingDispatched ==
    ASSUME jobs' \subseteq jobs
    PROVE  \A j \in jobs' \ jobs : j.value = Desired(j.output)'
OBVIOUS

(* Whatever _dispatch_due_pushes hands to the pool carries the value the   *)
(* latches want on the graph in use.                                       *)
LEMMA RequestsFresh ==
    ASSUME NEW pend, NEW flying, NEW live, NEW at,
           jobs' \subseteq jobs \cup DispatchedRequests(pend, flying, live,
                                       FromConfiguration(config'), latches', at)
    PROVE  \A j \in jobs' \ jobs : j.value = Desired(j.output)'
<1> DEFINE g == FromConfiguration(config')
<1>1. \A o : Desired(o)' = DesiredOutputState(g, o, latches')
  BY DEF Desired, Graph, DesiredOutputState, RulesForOutput, RuleNames, FromConfiguration
<1>2. \A j \in DispatchedRequests(pend, flying, live, g, latches', at) :
          j.value = DesiredOutputState(g, j.output, latches')
  <2> HIDE DEF g
  <2> QED BY DEF DispatchedRequests
<1> QED BY <1>1, <1>2

(* Every request a step of the engine gives to the pool, in a tick, at     *)
(* start-up or by reconciliation, carries the value wanted then.           *)
LEMMA StepIsFresh ==
    ASSUME [Next]_vars
    PROVE  \A j \in jobs' \ jobs : j.value = Desired(j.output)'
<1>1. CASE UNCHANGED vars
  BY <1>1, NothingDispatched DEF vars, dispatcher
<1>2. CASE DispatchDuePushes
  <2>1. /\ jobs' = jobs \cup DispatchedRequests(pending, inFlight, Live,
                               FromConfiguration(config), latches, tickAt)
        /\ UNCHANGED <<config, latches>>
    BY <1>2 DEF DispatchDuePushes, Graph
  <2> QED BY <2>1, RequestsFresh
<1>3. CASE \E c \in Configurations : Start(c)
  <2>1. PICK c \in Configurations : Start(c)
    BY <1>3
  <2> DEFINE pend == SyncOutputs(OutputNames(FromConfiguration(c)), FromConfiguration(c),
                                 db, outputState, pending, FALSE)
  <2>2. /\ jobs' = DispatchedRequests(pend, {}, c.instances, FromConfiguration(c), db, now)
        /\ config' = c /\ latches' = db
    BY <2>1 DEF Start
  <2> HIDE DEF pend
  <2> QED BY <2>2, RequestsFresh
<1>4. CASE \E downtime \in [Inputs -> EventLists], raised \in SUBSET Inputs,
              reports \in [Outputs -> Reports] : ReconcileAll(downtime, raised, reports)
  <2>1. PICK downtime, raised, reports : ReconcileAll(downtime, raised, reports)
    BY <1>4
  <2>2. \E pend : /\ jobs' = jobs \cup DispatchedRequests(pend, inFlight, Live,
                                          FromConfiguration(config), latches', now)
                  /\ config' = config
    BY <2>1 DEF ReconcileAll, WriteLatches, Graph
  <2> QED BY <2>2, RequestsFresh
<1>5. CASE PoolNext
  BY <1>5, NothingDispatched DEF PoolNext, Take, Finish
<1>6. CASE HandleShutdown \/ Crash
  BY <1>6, NothingDispatched DEF HandleShutdown, Crash, ProcessGone
<1>7. CASE \/ HandleInputEvent \/ HandleUnlatch \/ IgnoreUnlatch \/ HandlePushResult
           \/ HandleReload \/ BeginTick
           \/ \E t \in due, rep \in Reports : HandleReconcileRetry(t, rep)
           \/ \E t \in due, raised \in BOOLEAN, ev \in EventLists :
                 HandleCatchUpRetry(t, raised, ev)
           \/ \E i \in Inputs, t \in Time : Emit(i, t)
           \/ \E o \in Outputs : RequestUnlatch(o)
           \/ \E c \in Configurations : SubmitReload(c)
           \/ RequestStop \/ ClockTick
  <2>1. UNCHANGED jobs
    BY <1>7 DEF HandleInputEvent, HandleUnlatch, IgnoreUnlatch, HandlePushResult,
                HandleReload, BeginTick, HandleReconcileRetry, HandleCatchUpRetry, Fire,
                Emit, RequestUnlatch, SubmitReload, RequestStop, Submit, ClockTick,
                dispatcher
  <2> QED BY <2>1, NothingDispatched
<1> QED BY <1>1, <1>2, <1>3, <1>4, <1>5, <1>6, <1>7 DEF Next, CoreNext, OutsideNext

(* Replaying a stale value is impossible: every request the pool is given, *)
(* in a tick, at start-up or by reconciliation, carries the value the      *)
(* latches want at that moment, whatever its row was written for.          *)
THEOREM DispatchIsFresh == Spec => FreshDispatch
<1>1. [Next]_vars => [\A j \in jobs' \ jobs : j.value = Desired(j.output)']_vars
  BY StepIsFresh
<1> QED BY <1>1, PTL DEF Spec, FreshDispatch

=============================================================================
