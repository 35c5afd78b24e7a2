---------------------------- MODULE SystemProofs ----------------------------
(***************************************************************************)
(* Theorems about System.tla: the real plugins are instances of the open   *)
(* ones of Engine.tla, an event of the downtime latches, and a latch is    *)
(* cleared only after the operator has cleared an output.                  *)
(***************************************************************************)
EXTENDS System, EngineFlightProofs

(* What lies outside is no later than the clock, and what one catch_up()   *)
(* has to deliver is within its bound.                                     *)
WorldInv ==
    /\ \A o \in Outputs : remote[o].cleared_at <= now
    /\ \A i \in Inputs : \A k \in DOMAIN missed[i] : missed[i][k] <= now
    /\ events \in Nat
    /\ \A i \in Inputs : Len(missed[i]) + events <= MaxDowntime

(* The outputs C are closed when no rule joins one of them to another      *)
(* output, and untouched while the operator has cleared none of them.      *)
Closed(C) ==
    \A r \in RuleNames(Graph) : Graph.outputs[r] \subseteq C \/ Graph.outputs[r] \cap C = {}

UntouchedBy(C) == \A o \in C : operatorAt[o] = None

Unasked(o) == \A k \in DOMAIN queue : ~(queue[k].kind = "unlatch" /\ queue[k].instance = o)

(* What keeps the latches behind an output set while nobody clears it: no  *)
(* unlatch of it is waiting, its incident was never resolved, whoever was  *)
(* told "on" is still wanted on, and nothing else is on its way to it.     *)
Steady(o) ==
    /\ Unasked(o)
    /\ o \in PollOutputs => remote[o].shows # "off"
    /\ \A j \in jobs \cup busy : j.output = o /\ j.value = "on" => Desired(o) = "on"
    /\ o \in PollOutputs /\ remote[o].shows = "on" =>
          /\ Desired(o) = "on"
          /\ \A j \in jobs \cup busy : j.output = o => j.value = "on"

SteadyInv ==
    /\ latches = db
    /\ \A C \in SUBSET Outputs : Closed(C) /\ UntouchedBy(C) => \A o \in C : Steady(o)

-----------------------------------------------------------------------------
(* query() answers what Engine.tla lets an output answer.                  *)
LEMMA QueryIsReport ==
    ASSUME OutsideTypeOK, WorldInv, NEW o \in Outputs, NEW reachable
    PROVE  Query(o, reachable) \in Reports
<1>1. remote[o] \in Remote /\ remote[o].cleared_at \in OptTime /\ remote[o].cleared_at <= now
  BY DEF OutsideTypeOK, WorldInv, Remote
<1>2. None \in OptTime
  BY DEF OptTime
<1>3. Unknown \in Reports
  BY <1>2 DEF Unknown, Reports, Report, Beliefs
<1>4. [belief |-> "ACTIVE", cleared_at |-> None] \in Reports
  BY <1>2 DEF Reports, Report, Beliefs
<1>5. [belief |-> "CLEARED", cleared_at |-> remote[o].cleared_at] \in Reports
  BY <1>1 DEF Reports, Report, Beliefs
<1> QED BY <1>3, <1>4, <1>5 DEF Query

(* What waits for a catch_up() is a list Engine.tla lets it return.        *)
LEMMA MissedIsEventList ==
    ASSUME TypeOK, OutsideTypeOK, WorldInv, NEW i \in Inputs
    PROVE  missed[i] \in EventLists
<1> DEFINE n == Len(missed[i])
<1>1. missed[i] \in Seq(Time) /\ n \in Nat /\ DOMAIN missed[i] = 1 .. n
  BY LenProperties DEF OutsideTypeOK
<1>2. n + events <= MaxDowntime /\ events \in Nat
  BY DEF WorldInv
<1>3. n \in 0 .. MaxDowntime
  BY <1>1, <1>2, BoundsAssumption
<1>4. \A k \in 1 .. n : missed[i][k] \in 0 .. now
  <2> SUFFICES ASSUME NEW k \in 1 .. n PROVE missed[i][k] \in 0 .. now
    OBVIOUS
  <2>1. missed[i][k] \in Time
    BY <1>1
  <2>2. missed[i][k] <= now
    BY <1>1 DEF WorldInv
  <2> QED BY <2>1, <2>2, BoundsAssumption DEF Time, TypeOK
<1>5. missed[i] \in [1 .. n -> 0 .. now]
  <2>1. missed[i] = [k \in DOMAIN missed[i] |-> missed[i][k]]
    BY <1>1
  <2> QED BY <1>1, <1>4, <2>1
<1> QED BY <1>3, <1>5 DEF EventLists

(* A step of the system is a step of the engine, or leaves it alone.       *)
LEMMA SystemStepsEngine ==
    ASSUME TypeOK, OutsideTypeOK, WorldInv, [SysNext]_sysvars
    PROVE  [Next]_vars
<1>1. CASE UNCHANGED sysvars
  BY <1>1 DEF sysvars
<1>2. CASE Messages
  BY <1>2 DEF Messages, Next, CoreNext
<1>3. CASE \E t \in due, reachable \in BOOLEAN : QueryRetried(t, reachable)
  <2>1. PICK t \in due, reachable \in BOOLEAN : QueryRetried(t, reachable)
    BY <1>3
  <2>2. HandleReconcileRetry(t, Query(t.message.instance, reachable))
    BY <2>1 DEF QueryRetried
  <2>3. t.message.instance \in Outputs
    BY <2>2, FireType, AgainType DEF HandleReconcileRetry
  <2>4. PICK rep \in Reports : rep = Query(t.message.instance, reachable)
    BY <2>3, QueryIsReport
  <2>5. \E u \in due, rp \in Reports : HandleReconcileRetry(u, rp)
    BY <2>2, <2>4
  <2> QED BY <2>5 DEF Next, CoreNext
<1>4. CASE \E t \in due, raised \in BOOLEAN : CatchUpRetried(t, raised)
  <2>1. PICK t \in due, raised \in BOOLEAN : CatchUpRetried(t, raised)
    BY <1>4
  <2>2. HandleCatchUpRetry(t, raised, missed[t.message.instance])
    BY <2>1 DEF CatchUpRetried
  <2>3. t.message.instance \in Inputs
    BY <2>2, FireType, AgainType DEF HandleCatchUpRetry
  <2>4. PICK ev \in EventLists : ev = missed[t.message.instance]
    BY <2>3, MissedIsEventList
  <2>5. \E u \in due, ra \in BOOLEAN, l \in EventLists : HandleCatchUpRetry(u, ra, l)
    BY <2>2, <2>4
  <2> QED BY <2>5 DEF Next, CoreNext
<1>5. CASE \E raised \in SUBSET Inputs, unreachable \in SUBSET PollOutputs :
             ProcessReconciles(raised, unreachable)
  <2>1. PICK raised \in SUBSET Inputs, unreachable \in SUBSET PollOutputs :
           ProcessReconciles(raised, unreachable)
    BY <1>5
  <2> DEFINE reports == [o \in Outputs |-> Query(o, o \notin unreachable)]
  <2>2. ReconcileAll(missed, raised, reports)
    BY <2>1 DEF ProcessReconciles
  <2>3. reports \in [Outputs -> Reports]
    BY QueryIsReport
  <2>4. missed \in [Inputs -> EventLists]
    BY MissedIsEventList DEF OutsideTypeOK
  <2> HIDE DEF reports
  <2>5. \E d \in [Inputs -> EventLists], ra \in SUBSET Inputs,
           rp \in [Outputs -> Reports] : ReconcileAll(d, ra, rp)
    BY <2>2, <2>3, <2>4
  <2> QED BY <2>5 DEF Next, CoreNext
<1>6. CASE Takes
  BY <1>6 DEF Takes, Next, PoolNext
<1>7. CASE Applies
  <2>1. PICK j \in busy : PushLands(j) \/ PushFails(j)
    BY <1>7 DEF Applies
  <2>2. Finish(j, "yes") \/ Finish(j, "no")
    BY <2>1 DEF PushLands, PushFails
  <2> QED BY <2>2 DEF Next, PoolNext
<1>8. CASE TimePasses
  BY <1>8 DEF TimePasses, Next, OutsideNext
<1>9. CASE \E i \in Inputs : Happens(i)
  <2>1. PICK i \in Inputs : Happens(i)
    BY <1>9
  <2>2. UNCHANGED vars \/ Emit(i, now)
    BY <2>1 DEF Happens
  <2>3. now \in Time
    BY DEF TypeOK
  <2> QED BY <2>2, <2>3 DEF Next, OutsideNext
<1>10. CASE \E o \in Outputs : ResolveIncident(o) \/ PollOnce(o) \/ SwitchOff(o) \/ SwitchOn(o)
  <2>1. PICK o \in Outputs : ResolveIncident(o) \/ PollOnce(o) \/ SwitchOff(o) \/ SwitchOn(o)
    BY <1>10
  <2>2. UNCHANGED vars \/ RequestUnlatch(o)
    BY <2>1 DEF ResolveIncident, PollOnce, SwitchOff, SwitchOn
  <2> QED BY <2>2 DEF Next, OutsideNext
<1>11. CASE ProcessStarts
  <2>1. config \in Configurations /\ Start(config)
    BY <1>11 DEF ProcessStarts, TypeOK
  <2>2. PICK c \in Configurations : c = config
    BY <2>1
  <2>3. Start(c)
    BY <2>1, <2>2
  <2> QED BY <2>3 DEF Next, OutsideNext
<1>12. CASE ProcessDies
  BY <1>12 DEF ProcessDies, Next, OutsideNext
<1>13. CASE ProcessTold
  BY <1>13 DEF ProcessTold, Next, OutsideNext
<1> QED
  BY <1>1, <1>2, <1>3, <1>4, <1>5, <1>6, <1>7, <1>8, <1>9, <1>10, <1>11, <1>12, <1>13
  DEF SysNext, CoreSteps

-----------------------------------------------------------------------------
(* apply() keeps what an output shows well formed and not in the future.   *)
LEMMA AppliedType ==
    ASSUME TypeOK, OutsideTypeOK, WorldInv, NEW o \in Outputs, NEW value \in Values
    PROVE  Applied(o, value) \in Remote /\ Applied(o, value).cleared_at <= now
<1> DEFINE x == remote[o]
<1>1. x \in Remote /\ x.cleared_at <= now /\ now \in OptTime /\ now \in Int /\ None \in OptTime
  BY BoundsAssumption DEF OutsideTypeOK, WorldInv, TypeOK, OptTime, Time
<1>2. None <= now /\ now <= now
  BY BoundsAssumption DEF None, TypeOK, Time
<1>3. value \in {"on", "off"}
  BY DEF Values
<1> HIDE DEF x
<1>4. [x EXCEPT !.shows = value, !.told = value] \in Remote
      /\ [x EXCEPT !.shows = value, !.told = value].cleared_at = x.cleared_at
  BY <1>1, <1>3 DEF Remote, Values
<1>5. [x EXCEPT !.shows = "on", !.cleared_at = None] \in Remote
      /\ [x EXCEPT !.shows = "on", !.cleared_at = None].cleared_at = None
  BY <1>1 DEF Remote
<1>6. [x EXCEPT !.shows = "off", !.cleared_at = now] \in Remote
      /\ [x EXCEPT !.shows = "off", !.cleared_at = now].cleared_at = now
  BY <1>1 DEF Remote
<1>7. Applied(o, value) \in {[x EXCEPT !.shows = value, !.told = value],
         [x EXCEPT !.shows = "on", !.cleared_at = None],
         [x EXCEPT !.shows = "off", !.cleared_at = now], x}
  BY DEF Applied, x
<1> QED BY <1>1, <1>2, <1>4, <1>5, <1>6, <1>7

(* A request that is being applied names an output and a value.            *)
LEMMA BusyType ==
    ASSUME TypeOK, NEW j \in busy
    PROVE  j.output \in Outputs /\ j.value \in Values
BY DEF TypeOK, Request

(* What the outside looks like after a step that changes one output.       *)
LEMMA RemoteStep ==
    ASSUME OutsideTypeOK, WorldInv, NEW o \in Outputs, NEW x \in Remote, x.cleared_at <= now,
           remote' = [remote EXCEPT ![o] = x],
           now' = now, operatorAt' \in [Outputs -> OptTime], UNCHANGED <<missed, events>>
    PROVE  OutsideTypeOK' /\ WorldInv'
<1>1. remote' \in [Outputs -> Remote] /\ \A p \in Outputs : remote'[p].cleared_at <= now
  BY DEF OutsideTypeOK, WorldInv
<1> QED BY <1>1 DEF OutsideTypeOK, WorldInv

(* What the outside looks like after a step that delivers lists whole.     *)
LEMMA MissedStep ==
    ASSUME OutsideTypeOK, WorldInv, NEW S, missed' = [i \in Inputs |-> IF i \in S THEN <<>> ELSE missed[i]],
           now' = now, UNCHANGED <<remote, operatorAt, events>>
    PROVE  OutsideTypeOK' /\ WorldInv'
<1>1. <<>> \in Seq(Time) /\ Len(<<>>) = 0 /\ DOMAIN <<>> = {}
  BY EmptySeq
<1>2. missed' \in [Inputs -> Seq(Time)]
  BY <1>1 DEF OutsideTypeOK
<1>3. \A i \in Inputs : \A k \in DOMAIN missed'[i] : missed'[i][k] <= now
  BY <1>1 DEF WorldInv
<1>4. ASSUME NEW i \in Inputs PROVE Len(missed'[i]) + events <= MaxDowntime
  <2>1. Len(missed[i]) + events <= MaxDowntime /\ Len(missed[i]) \in Nat /\ events \in Nat
    BY LenProperties DEF WorldInv, OutsideTypeOK
  <2>2. Len(missed'[i]) \in {0, Len(missed[i])}
    BY <1>1
  <2> QED BY <2>1, <2>2, BoundsAssumption
<1> QED BY <1>2, <1>3, <1>4 DEF OutsideTypeOK, WorldInv

(* What the outside looks like after a step of the daemon alone.           *)
LEMMA OutsideStep ==
    ASSUME TypeOK, OutsideTypeOK, WorldInv, now' = now \/ now' = now + 1,
           UNCHANGED <<remote, missed, operatorAt, events>>
    PROVE  OutsideTypeOK' /\ WorldInv'
<1>1. now \in Int /\ now <= now' /\ now' \in Int
  BY BoundsAssumption DEF TypeOK, Time
<1>2. ASSUME NEW o \in Outputs PROVE remote'[o].cleared_at <= now'
  <2>1. remote[o].cleared_at \in Int /\ remote[o].cleared_at <= now
    BY BoundsAssumption DEF OutsideTypeOK, WorldInv, Remote, OptTime, Time, None
  <2> QED BY <1>1, <2>1
<1>3. ASSUME NEW i \in Inputs, NEW k \in DOMAIN missed'[i] PROVE missed'[i][k] <= now'
  <2>1. missed[i] \in Seq(Time)
    BY DEF OutsideTypeOK
  <2>2. missed[i][k] \in Time
    BY <2>1, <1>3, ElementOfSeq, LenProperties
  <2>3. missed[i][k] <= now
    BY <1>3 DEF WorldInv
  <2> QED BY <1>1, <2>2, <2>3, BoundsAssumption DEF Time
<1> QED BY <1>2, <1>3 DEF OutsideTypeOK, WorldInv

(* The types and the bounds of the outside are kept by every step.         *)
LEMMA WorldStep ==
    ASSUME TypeOK, OutsideTypeOK, WorldInv, [SysNext]_sysvars
    PROVE  OutsideTypeOK' /\ WorldInv'
<1>t. now \in OptTime /\ None \in OptTime /\ now \in Int /\ now <= now
  BY BoundsAssumption DEF TypeOK, OptTime, Time
<1>1. CASE UNCHANGED sysvars
  BY <1>1, OutsideStep DEF sysvars, vars, outside, budget
<1>2. CASE Messages
  <2>1. UNCHANGED outside
    BY <1>2 DEF Messages
  <2>2. now' = now
    BY <1>2 DEF Messages, HandleInputEvent, HandleUnlatch, IgnoreUnlatch, HandlePushResult,
                HandleShutdown, ProcessGone, BeginTick, DispatchDuePushes
  <2> QED BY <2>1, <2>2, OutsideStep DEF outside, budget
<1>3. CASE \E t \in due, reachable \in BOOLEAN : QueryRetried(t, reachable)
  BY <1>3, OutsideStep DEF QueryRetried, HandleReconcileRetry, Fire
<1>4. CASE \E t \in due, raised \in BOOLEAN : CatchUpRetried(t, raised)
  <2>1. PICK t \in due, raised \in BOOLEAN : CatchUpRetried(t, raised)
    BY <1>4
  <2> DEFINE i == t.message.instance
  <2>2. now' = now /\ UNCHANGED <<remote, operatorAt, events>>
    BY <2>1 DEF CatchUpRetried, HandleCatchUpRetry, Fire
  <2>3. missed' = IF raised THEN missed ELSE [missed EXCEPT ![i] = <<>>]
    BY <2>1 DEF CatchUpRetried
  <2>4. \E S : missed' = [p \in Inputs |-> IF p \in S THEN <<>> ELSE missed[p]]
    <3>1. missed = [p \in Inputs |-> missed[p]]
      BY DEF OutsideTypeOK
    <3>2. CASE raised
      <4>1. missed' = [p \in Inputs |-> IF p \in {} THEN <<>> ELSE missed[p]]
        BY <2>3, <3>1, <3>2
      <4> QED BY <4>1
    <3>3. CASE ~raised
      <4>1. missed' = [p \in Inputs |-> IF p \in {i} THEN <<>> ELSE missed[p]]
        BY <2>3, <3>1, <3>3 DEF OutsideTypeOK
      <4> QED BY <4>1
    <3> QED BY <3>2, <3>3
  <2> QED BY <2>2, <2>4, MissedStep
<1>5. CASE \E raised \in SUBSET Inputs, unreachable \in SUBSET PollOutputs :
             ProcessReconciles(raised, unreachable)
  <2>1. PICK raised \in SUBSET Inputs, unreachable \in SUBSET PollOutputs :
           ProcessReconciles(raised, unreachable)
    BY <1>5
  <2>2. now' = now /\ UNCHANGED <<remote, operatorAt, events>>
    BY <2>1 DEF ProcessReconciles, ReconcileAll
  <2>3. missed' = [p \in Inputs |-> IF p \in raised THEN missed[p] ELSE <<>>]
    BY <2>1 DEF ProcessReconciles
  <2>4. missed' = [p \in Inputs |-> IF p \in Inputs \ raised THEN <<>> ELSE missed[p]]
    BY <2>3
  <2> QED BY <2>2, <2>4, MissedStep
<1>6. CASE Takes
  BY <1>6, OutsideStep DEF Takes, Take, outside, budget
<1>7. CASE Applies
  <2>1. PICK j \in busy : PushLands(j) \/ PushFails(j)
    BY <1>7 DEF Applies
  <2>2. /\ now' = now /\ UNCHANGED <<missed, operatorAt, events>>
        /\ UNCHANGED remote \/ remote' = [remote EXCEPT ![j.output] = Applied(j.output, j.value)]
    BY <2>1 DEF PushLands, PushFails, Finish, budget
  <2>3. PICK x \in Remote : x = Applied(j.output, j.value) /\ x.cleared_at <= now
    BY AppliedType, BusyType
  <2>4. CASE UNCHANGED remote
    BY <2>2, <2>4, OutsideStep
  <2>5. CASE remote' = [remote EXCEPT ![j.output] = Applied(j.output, j.value)]
    BY <2>2, <2>3, <2>5, BusyType, RemoteStep DEF OutsideTypeOK
  <2> QED BY <2>2, <2>4, <2>5
<1>8. CASE TimePasses
  BY <1>8, OutsideStep DEF TimePasses, ClockTick, outside, budget
<1>9. CASE \E i \in Inputs : Happens(i)
  <2>1. PICK i \in Inputs : Happens(i)
    BY <1>9
  <2>2. /\ events > 0 /\ events' = events - 1 /\ UNCHANGED <<remote, operatorAt>> /\ now' = now
        /\ missed' = [missed EXCEPT ![i] = Append(@, now)] \/ missed' = missed
    BY <2>1 DEF Happens, Emit, Submit, vars
  <2>3. events' \in Nat /\ events \in Nat
    BY <2>2 DEF WorldInv
  <2>4. /\ missed[i] \in Seq(Time) /\ now \in Time
        /\ Append(missed[i], now) \in Seq(Time)
        /\ Len(Append(missed[i], now)) = Len(missed[i]) + 1
        /\ \A k \in DOMAIN Append(missed[i], now) : Append(missed[i], now)[k] <= now
    <3>1. missed[i] \in Seq(Time) /\ now \in Time
      BY DEF OutsideTypeOK, TypeOK
    <3>2. \A k \in 1 .. Len(missed[i]) : missed[i][k] <= now
      BY <3>1, LenProperties DEF WorldInv
    <3> QED BY <1>t, <3>1, <3>2, AppendProperties, LenProperties
  <2>5. missed' \in [Inputs -> Seq(Time)]
    BY <2>2, <2>4 DEF OutsideTypeOK
  <2>6. \A p \in Inputs : \A k \in DOMAIN missed'[p] : missed'[p][k] <= now
    BY <2>2, <2>4 DEF OutsideTypeOK, WorldInv
  <2>7. ASSUME NEW p \in Inputs PROVE Len(missed'[p]) + events' <= MaxDowntime
    <3>1. Len(missed[p]) + events <= MaxDowntime /\ Len(missed[p]) \in Nat
      BY LenProperties DEF WorldInv, OutsideTypeOK
    <3>2. Len(missed'[p]) \in {Len(missed[p]), Len(missed[p]) + 1}
      BY <2>2, <2>4 DEF OutsideTypeOK
    <3> QED BY <2>2, <2>3, <3>1, <3>2, BoundsAssumption
  <2> QED BY <2>2, <2>3, <2>5, <2>6, <2>7 DEF OutsideTypeOK, WorldInv
<1>10. CASE \E o \in Outputs : ResolveIncident(o) \/ PollOnce(o) \/ SwitchOff(o) \/ SwitchOn(o)
  <2>1. PICK o \in Outputs : ResolveIncident(o) \/ PollOnce(o) \/ SwitchOff(o) \/ SwitchOn(o)
    BY <1>10
  <2>2. remote[o] \in Remote /\ remote[o].cleared_at <= now /\ remote[o].told \in {"on", "off"}
        /\ remote \in [Outputs -> Remote]
    BY DEF OutsideTypeOK, WorldInv, Remote, Values
  <2>3. CASE PollOnce(o)
    BY <2>3, OutsideStep DEF PollOnce, RequestUnlatch, Submit, outside, budget
  <2>4. CASE ResolveIncident(o)
    <3>1. PICK x : x = [remote[o] EXCEPT !.shows = "off", !.cleared_at = now]
      OBVIOUS
    <3>2. x \in Remote /\ x.cleared_at <= now
      BY <1>t, <2>2, <3>1 DEF Remote
    <3>3. remote' = [remote EXCEPT ![o] = x]
      BY <2>2, <2>4, <3>1 DEF ResolveIncident, Remote
    <3> QED BY <1>t, <2>4, <3>2, <3>3, RemoteStep DEF ResolveIncident, OutsideTypeOK, vars
  <2>5. CASE SwitchOff(o)
    <3>1. PICK x : x = [remote[o] EXCEPT !.shows = "off"]
      OBVIOUS
    <3>2. x \in Remote /\ x.cleared_at <= now
      BY <1>t, <2>2, <3>1 DEF Remote
    <3>3. remote' = [remote EXCEPT ![o] = x]
      BY <2>2, <2>5, <3>1 DEF SwitchOff, Remote
    <3> QED BY <1>t, <2>5, <3>2, <3>3, RemoteStep
            DEF SwitchOff, RequestUnlatch, Submit, OutsideTypeOK
  <2>6. CASE SwitchOn(o)
    <3>1. PICK x : x = [remote[o] EXCEPT !.shows = remote[o].told]
      OBVIOUS
    <3>2. x \in Remote /\ x.cleared_at <= now
      BY <1>t, <2>2, <3>1 DEF Remote
    <3>3. remote' = [remote EXCEPT ![o] = x]
      BY <2>2, <2>6, <3>1 DEF SwitchOn, Remote
    <3> QED BY <1>t, <2>6, <3>2, <3>3, RemoteStep DEF SwitchOn, OutsideTypeOK, vars, budget
  <2> QED BY <2>1, <2>3, <2>4, <2>5, <2>6
<1>11. CASE ProcessStarts
  <2>1. /\ now' = now /\ UNCHANGED <<missed, operatorAt, events>>
        /\ remote' = [o \in Outputs |-> IF o \in SwitchOutputs THEN FreshRemote(o) ELSE remote[o]]
    BY <1>11 DEF ProcessStarts, Start, budget
  <2>2. \A o : FreshRemote(o) \in Remote /\ FreshRemote(o).cleared_at <= now
    BY <1>t, BoundsAssumption DEF FreshRemote, Remote, Values, TypeOK, Time, None
  <2>3. remote' \in [Outputs -> Remote] /\ \A o \in Outputs : remote'[o].cleared_at <= now
    BY <2>1, <2>2 DEF OutsideTypeOK, WorldInv
  <2> QED BY <2>1, <2>3 DEF OutsideTypeOK, WorldInv
<1>12. CASE ProcessDies
  BY <1>12, OutsideStep DEF ProcessDies, Crash, ProcessGone
<1>13. CASE ProcessTold
  BY <1>13, OutsideStep DEF ProcessTold, RequestStop, Submit
<1> QED
  BY <1>1, <1>2, <1>3, <1>4, <1>5, <1>6, <1>7, <1>8, <1>9, <1>10, <1>11, <1>12, <1>13
  DEF SysNext, CoreSteps

(* The types and the bounds hold before the first start.                   *)
LEMMA WorldStarts == SysInit => TypeOK /\ OutsideTypeOK /\ WorldInv
<1> SUFFICES ASSUME SysInit PROVE TypeOK /\ OutsideTypeOK /\ WorldInv
  OBVIOUS
<1>1. TypeOK
  BY InitType DEF SysInit
<1>2. /\ remote = [o \in Outputs |-> FreshRemote(o)] /\ missed = [i \in Inputs |-> <<>>]
      /\ operatorAt = [o \in Outputs |-> None]
      /\ events \in Nat /\ events <= MaxDowntime
  BY ScenariosAssumption DEF SysInit
<1>3. \A o : FreshRemote(o) \in Remote /\ FreshRemote(o).cleared_at <= now
  BY <1>1, BoundsAssumption DEF FreshRemote, Remote, Values, TypeOK, Time, OptTime, None
<1>4. <<>> \in Seq(Time) /\ Len(<<>>) = 0 /\ DOMAIN <<>> = {}
  BY EmptySeq
<1>5. OutsideTypeOK
  BY <1>2, <1>3, <1>4 DEF OutsideTypeOK, OptTime
<1>6. WorldInv
  BY <1>2, <1>3, <1>4 DEF WorldInv
<1> QED BY <1>1, <1>5, <1>6

(* The types and bounds of the engine and of what surrounds it, always.    *)
LEMMA WorldInvariant == SysSpec => [](TypeOK /\ OutsideTypeOK /\ WorldInv)
<1>1. TypeOK /\ OutsideTypeOK /\ WorldInv /\ [SysNext]_sysvars
        => (TypeOK /\ OutsideTypeOK /\ WorldInv)'
  BY SystemStepsEngine, WorldStep, NextType
<1> QED BY <1>1, WorldStarts, PTL DEF SysSpec

(* What PagerDuty, the accessories, the mailboxes and the operator's acts  *)
(* amount to is well typed in every reachable state.                       *)
THEOREM OutsideTypeCorrect == SysSpec => []OutsideTypeOK
BY WorldInvariant, PTL

(* The system with the real plugins implements the open engine, for every  *)
(* configuration and scenario: query() and catch_up() answer what Engine   *)
(* allows and every act of a plugin is a message Engine expects.  So each  *)
(* theorem about Engine holds of the system.                               *)
THEOREM PluginsFitTheEngine == SysSpec => EngineSteps
<1>1. SysInit => Init
  BY DEF SysInit
<1>2. TypeOK /\ OutsideTypeOK /\ WorldInv /\ [SysNext]_sysvars => [Next]_vars
  BY SystemStepsEngine
<1> QED BY <1>1, <1>2, WorldInvariant, PTL DEF SysSpec, EngineSteps

-----------------------------------------------------------------------------
(* Among optional times there is a latest one, None being before all.      *)
LEMMA LatestOptional ==
    ASSUME NEW S, S \subseteq OptTime
    PROVE  \E t \in S \cup {None} : \A u \in S : u <= t
<1> DEFINE K == S \ {None}
<1>1. K \subseteq Time
  BY DEF OptTime
<1>4. \A u \in Time : u \in Int /\ u >= 0
  BY BoundsAssumption DEF Time
<1>2. CASE K = {}
  BY <1>2 DEF None
<1>3. CASE K # {}
  <2>1. PICK t \in K : \A u \in K : u <= t
    BY <1>1, <1>3, LatestExists
  <2>2. None <= t
    BY <1>1, <1>4 DEF None
  <2> QED BY <2>1, <2>2
<1> QED BY <1>2, <1>3

(* The time resolve_rule takes for the clear is no later than the last one *)
(* the rule's outputs show.                                                *)
LEMMA ClearTimeBound ==
    ASSUME NEW times, times \subseteq OptTime, NEW cleared,
           \A rep \in cleared : rep.cleared_at \in times
    PROVE  LET last == CHOOSE t \in times \cup {None} : \A u \in times : u <= t
           IN  /\ last \in OptTime /\ ClearTime(cleared) \in OptTime
               /\ ClearTime(cleared) # None => ClearTime(cleared) <= last
<1> DEFINE last == CHOOSE t \in times \cup {None} : \A u \in times : u <= t
           known == {rep.cleared_at : rep \in cleared} \ {None}
<1>1. last \in times \cup {None} /\ \A u \in times : u <= last
  BY LatestOptional
<1>2. known \subseteq Time /\ known \subseteq times
  BY DEF OptTime
<1>3. CASE known = {}
  BY <1>1, <1>3 DEF ClearTime, OptTime
<1>4. CASE known # {}
  <2>1. \E t \in known : \A u \in known : u <= t
    BY <1>2, <1>4, LatestExists
  <2>2. ClearTime(cleared) \in known
    BY <1>4, <2>1 DEF ClearTime
  <2> QED BY <1>1, <1>2, <2>2 DEF OptTime
<1> QED BY <1>3, <1>4

(* resolve_rule sets the latch when an event is later than the clear.      *)
LEMMA LaterEventSets ==
    ASSUME NEW t, NEW persisted, NEW event \in Time, NEW reports,
           LET cleared == {rep \in reports : rep.belief = "CLEARED"}
           IN  cleared # {} => ClearTime(cleared) = None \/ event > ClearTime(cleared)
    PROVE  ResolveRule(t, persisted, event, reports).state = "set"
<1> DEFINE cleared == {rep \in reports : rep.belief = "CLEARED"}
<1>1. event # None
  BY BoundsAssumption DEF Time, None
<1>2. CASE cleared = {}
  BY <1>1, <1>2 DEF ResolveRule, Outcome
<1>3. CASE cleared # {}
  <2>1. ResolveRule(t, persisted, event, reports)
          = ResolveWithClear(t, persisted, event, cleared)
    BY <1>3 DEF ResolveRule
  <2>2. ResolveWithClear(t, persisted, event, cleared).state = "set"
    BY <1>1, <1>3 DEF ResolveWithClear, Outcome
  <2> QED BY <2>1, <2>2
<1> QED BY <1>2, <1>3

(* _summarize is no earlier than any event it summarizes.                  *)
LEMMA LatestOfIsLatest ==
    ASSUME NEW ins, ins \subseteq Inputs, NEW downtime \in [Inputs -> Seq(Time)],
           NEW i \in ins, NEW k \in DOMAIN downtime[i]
    PROVE  LatestOf(ins, downtime) \in Time /\ downtime[i][k] <= LatestOf(ins, downtime)
<1> DEFINE times == UNION {{downtime[p][n] : n \in DOMAIN downtime[p]} : p \in ins}
<1>1. times \subseteq Time
  <2> SUFFICES ASSUME NEW p \in ins, NEW n \in DOMAIN downtime[p] PROVE downtime[p][n] \in Time
    OBVIOUS
  <2>1. downtime[p] \in Seq(Time)
    OBVIOUS
  <2> QED BY <2>1, ElementOfSeq, LenProperties
<1>2. downtime[i][k] \in times
  OBVIOUS
<1>3. \E t \in times : \A u \in times : u <= t
  BY <1>1, <1>2, LatestExists
<1>4. LatestOf(ins, downtime) \in times /\ \A u \in times : u <= LatestOf(ins, downtime)
  BY <1>2, <1>3 DEF LatestOf
<1> QED BY <1>1, <1>2, <1>4

(* Only reconcile() takes the process from starting to running.            *)
LEMMA OnlyReconcileRuns ==
    ASSUME [SysNext]_sysvars, Reconciles
    PROVE  \E raised \in SUBSET Inputs, unreachable \in SUBSET PollOutputs :
             ProcessReconciles(raised, unreachable)
<1>1. phase = "starting" /\ phase' = "running"
  BY DEF Reconciles
<1>2. ~UNCHANGED sysvars /\ ~Messages
  BY <1>1 DEF sysvars, vars, core, Messages, HandleInputEvent, HandleUnlatch, IgnoreUnlatch,
              HandlePushResult, HandleShutdown, BeginTick, DispatchDuePushes, Receive
<1>3. ~\E t \in due, b \in BOOLEAN : QueryRetried(t, b) \/ CatchUpRetried(t, b)
  BY <1>1 DEF QueryRetried, CatchUpRetried, HandleReconcileRetry, HandleCatchUpRetry, Fire
<1>4. ~Takes /\ ~Applies /\ ~TimePasses
  BY <1>1 DEF Takes, Take, Applies, PushLands, PushFails, Finish, TimePasses, ClockTick, core
<1>5. ~\E i \in Inputs : Happens(i)
  BY <1>1 DEF Happens, Emit, Submit, core, vars
<1>6. ~\E o \in Outputs : ResolveIncident(o) \/ PollOnce(o) \/ SwitchOff(o) \/ SwitchOn(o)
  BY <1>1 DEF ResolveIncident, PollOnce, SwitchOff, SwitchOn, RequestUnlatch, Submit, core, vars
<1>7. ~ProcessStarts /\ ~ProcessDies /\ ~ProcessTold
  BY <1>1 DEF ProcessStarts, Start, ProcessDies, Crash, ProcessGone, ProcessTold, RequestStop
<1> QED BY <1>2, <1>3, <1>4, <1>5, <1>6, <1>7 DEF SysNext, CoreSteps

(* The latch reconcile() writes for a rule of the graph: resolve_rule on   *)
(* the latest event of the inputs that answered and on all reports.        *)
LEMMA ReconciledLatch ==
    ASSUME TypeOK, NEW downtime, NEW raised, NEW reports,
           ReconcileAll(downtime, raised, reports), NEW r, r \in RuleNames(Graph),
           NEW event, event = LatestOf(Graph.inputs[r] \ raised, downtime),
           NEW known, known = {reports[o] : o \in Graph.outputs[r]}
    PROVE  latches'[r].state = ResolveRule(now, latches[r], event, known).state
<1> DEFINE rules == RuleNames(Graph)
           latest == [s \in Rules |-> IF s \in rules
                                     THEN LatestOf(Graph.inputs[s] \ raised, downtime) ELSE None]
           count == [s \in Rules |-> IF s \in rules
                                     THEN CountOf(Graph.inputs[s] \ raised, downtime) ELSE 0]
           told == [s \in Rules |-> IF s \in rules
                                     THEN {reports[o] : o \in Graph.outputs[s]} ELSE {}]
<1>1. r \in Rules
  BY GraphType DEF TypeOK, Graph
<1>2. latches' = Resolved(rules, latest, count, told)
  BY DEF ReconcileAll, WriteLatches
<1>3. latest[r] = event /\ told[r] = known
  BY <1>1
<1> HIDE DEF latest, count, told
<1>4. Resolved(rules, latest, count, told)[r].state
        = ResolveRule(now, latches[r], latest[r], told[r]).state
  BY <1>1 DEF Resolved
<1> QED BY <1>2, <1>3, <1>4

(* An event of the downtime that is later than every clear its rule's      *)
(* outputs show is never dropped, whatever else happened, failed or was    *)
(* cleared meanwhile: reconcile() leaves the latch set, or the catch_up()  *)
(* that failed still has it.                                               *)
THEOREM DowntimeLosesNoEvent == SysSpec => DowntimeEventLatches
<1>1. ASSUME TypeOK, OutsideTypeOK, [SysNext]_sysvars, Reconciles,
             NEW r \in RuleNames(Graph), NEW i \in Graph.inputs[r],
             NEW k \in DOMAIN missed[i], missed[i][k] > LastClear(r)
      PROVE  latches'[r].state = "set" \/ missed'[i] # <<>>
  <2>1. PICK raised \in SUBSET Inputs, unreachable \in SUBSET PollOutputs :
           ProcessReconciles(raised, unreachable)
    BY <1>1, OnlyReconcileRuns
  <2> DEFINE reports == [o \in Outputs |-> Query(o, o \notin unreachable)]
             outs == Graph.outputs[r]
             times == {remote[o].cleared_at : o \in outs}
             known == {reports[o] : o \in outs}
             cleared == {rep \in known : rep.belief = "CLEARED"}
             event == LatestOf(Graph.inputs[r] \ raised, missed)
  <2>2. /\ ReconcileAll(missed, raised, reports)
        /\ missed' = [p \in Inputs |-> IF p \in raised THEN missed[p] ELSE <<>>]
    BY <2>1 DEF ProcessReconciles
  <2>3. r \in Rules /\ outs \subseteq Outputs /\ Graph.inputs[r] \subseteq Inputs
    <3>1. r \in config.rules /\ config.rules \subseteq Rules
          /\ config.inputs[r] \subseteq Inputs /\ config.outputs[r] \subseteq Outputs
      BY <1>1, ConfigurationsAssumption DEF TypeOK, Graph, FromConfiguration, RuleNames
    <3> QED BY <3>1 DEF Graph, FromConfiguration
  <2>4. CASE i \in raised
    <3>1. missed'[i] = missed[i] /\ missed[i] # <<>>
      BY <1>1, <2>2, <2>3, <2>4, EmptySeq
    <3> QED BY <3>1
  <2>5. CASE i \notin raised
    <3>1. /\ missed \in [Inputs -> Seq(Time)]
          /\ event \in Time /\ missed[i][k] <= event /\ missed[i][k] \in Time
      <4>1. missed \in [Inputs -> Seq(Time)] /\ missed[i] \in Seq(Time)
        BY <2>3, <1>1 DEF OutsideTypeOK
      <4>2. missed[i][k] \in Time
        BY <1>1, <4>1, ElementOfSeq, LenProperties
      <4>3. i \in Graph.inputs[r] \ raised /\ Graph.inputs[r] \ raised \subseteq Inputs
        BY <1>1, <2>3, <2>5
      <4> QED BY <1>1, <4>1, <4>2, <4>3, LatestOfIsLatest
    <3>2. times \subseteq OptTime
      BY <1>1, <2>3 DEF OutsideTypeOK, Remote
    <3>3. \A rep \in cleared : rep.cleared_at \in times
      <4> SUFFICES ASSUME NEW o \in outs, reports[o].belief = "CLEARED"
                   PROVE  reports[o].cleared_at \in times
        OBVIOUS
      <4>1. reports[o] = Query(o, o \notin unreachable)
        BY <2>3
      <4>2. reports[o].cleared_at = remote[o].cleared_at
        BY <4>1 DEF Query, Unknown
      <4> QED BY <4>2
    <3>4. LastClear(r) = CHOOSE t \in times \cup {None} : \A u \in times : u <= t
      BY DEF LastClear
    <3> HIDE DEF times, cleared, event, known, reports
    <3>5. /\ LastClear(r) \in OptTime /\ ClearTime(cleared) \in OptTime
          /\ ClearTime(cleared) # None => ClearTime(cleared) <= LastClear(r)
      BY <3>2, <3>3, <3>4, ClearTimeBound
    <3>6. ClearTime(cleared) = None \/ event > ClearTime(cleared)
      <4>1. \A t \in OptTime : t \in Int
        BY BoundsAssumption DEF OptTime, Time, None
      <4>2. Time \subseteq OptTime
        BY DEF OptTime
      <4> QED BY <1>1, <3>1, <3>5, <4>1, <4>2
    <3>7. ResolveRule(now, latches[r], event, known).state = "set"
      BY <3>1, <3>6, LaterEventSets DEF cleared
    <3>8. latches'[r].state = ResolveRule(now, latches[r], event, known).state
      <4>1. PICK d, reps : d = missed /\ reps = reports
        OBVIOUS
      <4>2. ReconcileAll(d, raised, reps)
        BY <2>2, <4>1
      <4>3. PICK ev, kn : ev = event /\ kn = known
        OBVIOUS
      <4>4. ev = LatestOf(Graph.inputs[r] \ raised, d) /\ kn = {reps[o] : o \in Graph.outputs[r]}
        BY <4>1, <4>3 DEF event, known
      <4>5. latches'[r].state = ResolveRule(now, latches[r], ev, kn).state
        <5>1. TypeOK /\ r \in RuleNames(Graph)
          BY <1>1
        <5> QED BY <4>2, <4>4, <5>1, ReconciledLatch
      <4> QED BY <4>3, <4>5
    <3> QED BY <3>7, <3>8
  <2> QED BY <2>4, <2>5
<1> DEFINE Kept == Reconciles => \A r \in RuleNames(Graph) :
              \A i \in Graph.inputs[r] : \A k \in DOMAIN missed[i] :
                  missed[i][k] > LastClear(r) =>
                      latches'[r].state = "set" \/ missed'[i] # <<>>
<1>2. TypeOK /\ OutsideTypeOK /\ WorldInv /\ [SysNext]_sysvars => [Kept]_sysvars
  BY <1>1
<1> QED BY <1>2, WorldInvariant, PTL DEF SysSpec, DowntimeEventLatches

-----------------------------------------------------------------------------
(* Posting anything but an unlatch of the output leaves it unasked.        *)
LEMMA AppendUnasked ==
    ASSUME queue \in Seq(CoreMessage), NEW m \in CoreMessage, queue' = Append(queue, m),
           NEW o, ~(m.kind = "unlatch" /\ m.instance = o), Unasked(o)
    PROVE  Unasked(o)'
<1>1. /\ DOMAIN queue = 1 .. Len(queue) /\ Len(queue) \in Nat
      /\ DOMAIN queue' = 1 .. Len(queue) + 1
      /\ \A k \in 1 .. Len(queue) : queue'[k] = queue[k]
      /\ queue'[Len(queue) + 1] = m
  BY AppendProperties, LenProperties
<1> QED BY <1>1 DEF Unasked

(* Taking a message leaves it unasked, and the message was no unlatch.     *)
LEMMA TailUnasked ==
    ASSUME queue \in Seq(CoreMessage), queue # <<>>, NEW o, Unasked(o)
    PROVE  /\ ~(Head(queue).kind = "unlatch" /\ Head(queue).instance = o)
           /\ queue' = Tail(queue) => Unasked(o)'
<1>1. /\ DOMAIN queue = 1 .. Len(queue) /\ Len(queue) \in Nat /\ Len(queue) # 0
      /\ DOMAIN Tail(queue) = 1 .. Len(queue) - 1
      /\ \A k \in 1 .. Len(queue) - 1 : Tail(queue)[k] = queue[k + 1]
      /\ queue[1] = Head(queue)
  BY HeadTailProperties, LenProperties, EmptySeq
<1>2. 1 \in DOMAIN queue
  BY <1>1
<1>3. ASSUME queue' = Tail(queue), NEW k \in DOMAIN queue'
      PROVE  ~(queue'[k].kind = "unlatch" /\ queue'[k].instance = o)
  <2>1. queue'[k] = queue[k + 1] /\ k + 1 \in DOMAIN queue
    BY <1>1, <1>3
  <2> QED BY <2>1 DEF Unasked
<1> QED BY <1>1, <1>2, <1>3 DEF Unasked

(* An output that is steady does not report that it was cleared.           *)
LEMMA SteadyQuery ==
    ASSUME OutsideTypeOK, NEW o \in Outputs, Steady(o), NEW reachable
    PROVE  Query(o, reachable).belief # "CLEARED"
<1>1. o \in SwitchOutputs \/ remote[o].shows # "off"
  BY OutputKindsAssumption DEF Steady
<1>2. remote[o].shows \in {"never", "on", "off"}
  BY DEF OutsideTypeOK, Remote
<1> QED BY <1>1, <1>2 DEF Query, Unknown

(* Without a CLEARED report resolve_rule leaves a set latch set.           *)
LEMMA NotClearedKeeps ==
    ASSUME NEW t, NEW persisted, persisted.state = "set", NEW event, NEW reports,
           \A rep \in reports : rep.belief # "CLEARED"
    PROVE  ResolveRule(t, persisted, event, reports).state = "set"
<1>1. {rep \in reports : rep.belief = "CLEARED"} = {}
  OBVIOUS
<1> QED BY <1>1 DEF ResolveRule, Outcome

(* reconcile() leaves the latch set of a rule all whose outputs are steady. *)
LEMMA ReconcileKeepsSet ==
    ASSUME TypeOK, OutsideTypeOK, NEW raised, NEW unreachable,
           ProcessReconciles(raised, unreachable), NEW r \in RuleNames(Graph),
           Graph.outputs[r] \subseteq Outputs, \A o \in Graph.outputs[r] : Steady(o)
    PROVE  latches[r].state = "set" => latches'[r].state = "set"
<1>1. PICK d, reps : d = missed /\ reps = [o \in Outputs |-> Query(o, o \notin unreachable)]
  OBVIOUS
<1>2. ReconcileAll(d, raised, reps)
  BY <1>1 DEF ProcessReconciles
<1>6. PICK ev, kn : /\ ev = LatestOf(Graph.inputs[r] \ raised, d)
                    /\ kn = {reps[o] : o \in Graph.outputs[r]}
  OBVIOUS
<1>3. latches'[r].state = ResolveRule(now, latches[r], ev, kn).state
  BY <1>2, <1>6, ReconciledLatch
<1>4. ASSUME NEW o \in Graph.outputs[r] PROVE reps[o].belief # "CLEARED"
  <2>1. o \in Outputs /\ Steady(o)
    OBVIOUS
  <2>2. reps[o] = Query(o, o \notin unreachable)
    BY <1>1, <2>1
  <2> QED BY <2>1, <2>2, SteadyQuery
<1>5. \A rep \in kn : rep.belief # "CLEARED"
  BY <1>4, <1>6
<1> QED BY <1>3, <1>5, NotClearedKeeps

(* An unlatch, a report or an event touches a set latch of a closed group  *)
(* of steady outputs only to set it again.                                 *)
LEMMA SetStays ==
    ASSUME TypeOK, OutsideTypeOK, [SysNext]_sysvars,
           NEW C \in SUBSET Outputs, \A o \in C : Steady(o),
           NEW r \in RuleNames(Graph), Graph.outputs[r] \subseteq C,
           latches[r].state = "set", db[r].state = "set"
    PROVE  latches'[r].state = "set"
<1>r. r \in Rules /\ latches \in [Rules -> LatchRecord]
  BY GraphType DEF TypeOK, Graph
<1>1. CASE UNCHANGED latches
  BY <1>1
<1>2. ASSUME NEW rs, NEW times, latches' = Triggered(rs, times)
      PROVE  latches'[r].state = "set"
  BY <1>r, <1>2 DEF Triggered, LatchRecord
<1>3. CASE HandleInputEvent
  BY <1>2, <1>3 DEF HandleInputEvent, CommitLatches, WriteLatches
<1>4. CASE HandleUnlatch
  <2> DEFINE o == Head(queue).instance
  <2>1. queue \in Seq(CoreMessage) /\ queue # <<>> /\ Head(queue).kind = "unlatch"
    BY <1>4 DEF HandleUnlatch, Receive, TypeOK
  <2>2. o \notin C
    BY <2>1, TailUnasked DEF Steady
  <2>3. r \notin SetRules(o)
    BY <2>2 DEF SetRules, RulesForOutput
  <2>4. latches' = Cleared(SetRules(o))
    BY <1>4 DEF HandleUnlatch, CommitLatches, WriteLatches
  <2> HIDE DEF o
  <2> QED BY <1>r, <2>3, <2>4 DEF Cleared
<1>5. CASE \E t \in due, reachable \in BOOLEAN : QueryRetried(t, reachable)
  <2>1. PICK t \in due, reachable \in BOOLEAN : QueryRetried(t, reachable)
    BY <1>5
  <2>2. PICK o : o = t.message.instance
    OBVIOUS
  <2>3. PICK report : report = Query(o, reachable)
    OBVIOUS
  <2>4. HandleReconcileRetry(t, report)
    BY <2>1, <2>2, <2>3 DEF QueryRetried
  <2> DEFINE rules == RulesForOutput(Graph, o)
             new == Resolved(rules, [s \in Rules |-> None], [s \in Rules |-> 0],
                             [s \in Rules |-> {report}])
  <2>5. UNCHANGED latches \/ latches' = new
    BY <2>2, <2>4 DEF HandleReconcileRetry, CommitLatches, WriteLatches
  <2>6. CASE r \in rules
    <3>1. o \in C /\ o \in Outputs
      BY <2>6 DEF RulesForOutput
    <3>2. report.belief # "CLEARED"
      BY <2>3, <3>1, SteadyQuery
    <3>3. ResolveRule(now, latches[r], None, {report}).state = "set"
      BY <3>2, NotClearedKeeps
    <3>4. new[r].state = ResolveRule(now, latches[r], None, {report}).state
      BY <1>r, <2>6 DEF Resolved
    <3> QED BY <2>5, <3>3, <3>4
  <2>7. CASE r \notin rules
    BY <1>r, <2>5, <2>7 DEF Resolved
  <2> QED BY <2>6, <2>7
<1>6. CASE \E t \in due, raised \in BOOLEAN : CatchUpRetried(t, raised)
  <2>1. PICK t \in due, raised \in BOOLEAN : CatchUpRetried(t, raised)
    BY <1>6
  <2>2. UNCHANGED latches
        \/ \E rs, times : latches' = Triggered(rs, times)
    BY <2>1 DEF CatchUpRetried, HandleCatchUpRetry, CommitLatches, WriteLatches
  <2> QED BY <1>2, <2>2
<1>7. CASE \E raised \in SUBSET Inputs, unreachable \in SUBSET PollOutputs :
             ProcessReconciles(raised, unreachable)
  BY <1>7, ReconcileKeepsSet
<1>8. CASE ProcessStarts
  BY <1>8 DEF ProcessStarts, Start
<1>9. CASE \/ IgnoreUnlatch \/ HandlePushResult \/ HandleShutdown \/ BeginTick
           \/ DispatchDuePushes \/ Takes \/ Applies \/ TimePasses
           \/ \E i \in Inputs : Happens(i)
           \/ \E o \in Outputs : ResolveIncident(o) \/ PollOnce(o) \/ SwitchOff(o) \/ SwitchOn(o)
           \/ ProcessDies \/ ProcessTold \/ UNCHANGED sysvars
  <2>1. UNCHANGED latches
    BY <1>9 DEF IgnoreUnlatch, HandlePushResult, HandleShutdown, BeginTick, DispatchDuePushes,
                Takes, Take, Applies, PushLands, PushFails, Finish, TimePasses, ClockTick, Happens,
                Emit, ResolveIncident, PollOnce, SwitchOff, SwitchOn, RequestUnlatch, Submit,
                ProcessDies, Crash, ProcessTold, RequestStop, ProcessGone, sysvars, vars, core
  <2> QED BY <2>1
<1> QED
  BY <1>3, <1>4, <1>5, <1>6, <1>7, <1>8, <1>9 DEF SysNext, CoreSteps, Messages

(* The system never changes its configuration.                             *)
LEMMA ConfigStays ==
    ASSUME [SysNext]_sysvars
    PROVE  config' = config
<1>1. CASE Messages \/ UNCHANGED sysvars
  BY <1>1 DEF Messages, HandleInputEvent, HandleUnlatch, IgnoreUnlatch, HandlePushResult,
              HandleShutdown, BeginTick, DispatchDuePushes, ProcessGone, sysvars, vars, core
<1>2. CASE \/ \E t \in due, b \in BOOLEAN : QueryRetried(t, b) \/ CatchUpRetried(t, b)
           \/ \E ra \in SUBSET Inputs, un \in SUBSET PollOutputs : ProcessReconciles(ra, un)
  BY <1>2 DEF QueryRetried, CatchUpRetried, HandleReconcileRetry, HandleCatchUpRetry, Fire,
              ProcessReconciles, ReconcileAll
<1>3. CASE Takes \/ Applies \/ TimePasses
  BY <1>3 DEF Takes, Take, Applies, PushLands, PushFails, Finish, TimePasses, ClockTick, core
<1>4. CASE \/ \E i \in Inputs : Happens(i)
           \/ \E o \in Outputs : ResolveIncident(o) \/ PollOnce(o) \/ SwitchOff(o) \/ SwitchOn(o)
           \/ ProcessStarts \/ ProcessDies \/ ProcessTold
  BY <1>4 DEF Happens, Emit, ResolveIncident, PollOnce, SwitchOff, SwitchOn, RequestUnlatch,
              Submit, ProcessStarts, Start, ProcessDies, Crash, ProcessGone, ProcessTold,
              RequestStop, core, vars
<1> QED BY <1>1, <1>2, <1>3, <1>4 DEF SysNext, CoreSteps

(* The operator's acts are not taken back.                                 *)
LEMMA TouchedStays ==
    ASSUME TypeOK, OutsideTypeOK, [SysNext]_sysvars, NEW o \in Outputs, operatorAt'[o] = None
    PROVE  operatorAt[o] = None /\ ~ResolveIncident(o) /\ ~SwitchOff(o)
<1>1. now # None /\ operatorAt \in [Outputs -> OptTime]
  BY BoundsAssumption DEF TypeOK, OutsideTypeOK, Time, None
<1>2. ASSUME NEW p \in Outputs, ResolveIncident(p) \/ SwitchOff(p)
      PROVE  operatorAt' = [operatorAt EXCEPT ![p] = now]
  BY <1>2 DEF ResolveIncident, SwitchOff
<1>3. ASSUME ~\E p \in Outputs : ResolveIncident(p) \/ SwitchOff(p)
      PROVE  operatorAt' = operatorAt
  BY <1>3 DEF SysNext, CoreSteps, Messages, QueryRetried, CatchUpRetried, ProcessReconciles,
              Takes, Applies, PushLands, PushFails, TimePasses, Happens, PollOnce, SwitchOn,
              ProcessStarts, ProcessDies, ProcessTold, sysvars, outside
<1> QED BY <1>1, <1>2, <1>3

(* Writing back what changed keeps the cache equal to the table.           *)
LEMMA WriteKeepsCache ==
    ASSUME latches = db, NEW rs, NEW new, new = [r \in Rules |-> new[r]],
           \A r \in Rules : r \notin rs => new[r] = latches[r], WriteLatches(rs, new)
    PROVE  latches' = db'
<1>1. db' = [r \in Rules |-> IF r \in rs THEN new[r] ELSE db[r]] /\ latches' = new
  BY DEF WriteLatches
<1>2. [r \in Rules |-> IF r \in rs THEN new[r] ELSE db[r]] = [r \in Rules |-> new[r]]
  OBVIOUS
<1> QED BY <1>1, <1>2

(* The core's cache always is the table: every handler writes both.        *)
LEMMA CacheStays ==
    ASSUME latches = db, [SysNext]_sysvars
    PROVE  latches' = db'
<1>1. ASSUME NEW rs, NEW touched, NEW new, CommitLatches(rs, touched, new),
             new = [r \in Rules |-> new[r]], \A r \in Rules : r \notin rs => new[r] = latches[r]
      PROVE  latches' = db'
  BY <1>1, WriteKeepsCache DEF CommitLatches
<1>2. \A rs, times : /\ Triggered(rs, times) = [r \in Rules |-> Triggered(rs, times)[r]]
                     /\ \A r \in Rules : r \notin rs => Triggered(rs, times)[r] = latches[r]
  BY DEF Triggered
<1>3. \A rs : /\ Cleared(rs) = [r \in Rules |-> Cleared(rs)[r]]
              /\ \A r \in Rules : r \notin rs => Cleared(rs)[r] = latches[r]
  BY DEF Cleared
<1>4. \A rs, ev, n, rep :
         /\ Resolved(rs, ev, n, rep) = [r \in Rules |-> Resolved(rs, ev, n, rep)[r]]
         /\ \A r \in Rules : r \notin rs => Resolved(rs, ev, n, rep)[r] = latches[r]
  BY DEF Resolved
<1>5. CASE HandleInputEvent
  <2>1. PICK rs, new : CommitLatches(rs, rs, new) /\ new = Triggered(rs, <<Head(queue).at>>)
    BY <1>5 DEF HandleInputEvent
  <2> QED BY <1>1, <1>2, <2>1
<1>6. CASE HandleUnlatch
  <2>1. PICK rs, touched, new : CommitLatches(rs, touched, new) /\ new = Cleared(rs)
    BY <1>6 DEF HandleUnlatch
  <2> QED BY <1>1, <1>3, <2>1
<1>7. CASE \E t \in due, reachable \in BOOLEAN : QueryRetried(t, reachable)
  <2>1. PICK t \in due, reachable \in BOOLEAN : QueryRetried(t, reachable)
    BY <1>7
  <2>2. \/ UNCHANGED <<db, latches>>
        \/ \E rs, ev, n, rep : CommitLatches(rs, rs, Resolved(rs, ev, n, rep))
    BY <2>1 DEF QueryRetried, HandleReconcileRetry
  <2>3. ASSUME NEW rs, NEW ev, NEW n, NEW rep, CommitLatches(rs, rs, Resolved(rs, ev, n, rep))
        PROVE  latches' = db'
    <3>1. PICK new : new = Resolved(rs, ev, n, rep)
      OBVIOUS
    <3>2. CommitLatches(rs, rs, new)
      BY <2>3, <3>1
    <3> QED BY <1>1, <1>4, <3>1, <3>2
  <2> QED BY <2>2, <2>3
<1>8. CASE \E t \in due, raised \in BOOLEAN : CatchUpRetried(t, raised)
  <2>1. PICK t \in due, raised \in BOOLEAN : CatchUpRetried(t, raised)
    BY <1>8
  <2>2. \/ UNCHANGED <<db, latches>>
        \/ \E rs, times : CommitLatches(rs, rs, Triggered(rs, times))
    BY <2>1 DEF CatchUpRetried, HandleCatchUpRetry
  <2>3. ASSUME NEW rs, NEW times, CommitLatches(rs, rs, Triggered(rs, times))
        PROVE  latches' = db'
    <3>1. PICK new : new = Triggered(rs, times)
      OBVIOUS
    <3>2. CommitLatches(rs, rs, new)
      BY <2>3, <3>1
    <3> QED BY <1>1, <1>2, <3>1, <3>2
  <2> QED BY <2>2, <2>3
<1>9. CASE \E raised \in SUBSET Inputs, unreachable \in SUBSET PollOutputs :
             ProcessReconciles(raised, unreachable)
  <2>1. PICK raised \in SUBSET Inputs, unreachable \in SUBSET PollOutputs :
           ProcessReconciles(raised, unreachable)
    BY <1>9
  <2>2. \E rs, ev, n, rep : WriteLatches(rs, Resolved(rs, ev, n, rep))
    BY <2>1 DEF ProcessReconciles, ReconcileAll
  <2>3. PICK rs, ev, n, rep : WriteLatches(rs, Resolved(rs, ev, n, rep))
    BY <2>2
  <2>4. PICK new : new = Resolved(rs, ev, n, rep)
    OBVIOUS
  <2>5. WriteLatches(rs, new)
    BY <2>3, <2>4
  <2> QED BY <1>4, <2>4, <2>5, WriteKeepsCache
<1>10. CASE ProcessStarts
  BY <1>10 DEF ProcessStarts, Start
<1>11. CASE \/ IgnoreUnlatch \/ HandlePushResult \/ HandleShutdown \/ BeginTick
            \/ DispatchDuePushes \/ Takes \/ Applies \/ TimePasses
            \/ \E i \in Inputs : Happens(i)
            \/ \E o \in Outputs : ResolveIncident(o) \/ PollOnce(o) \/ SwitchOff(o) \/ SwitchOn(o)
            \/ ProcessDies \/ ProcessTold \/ UNCHANGED sysvars
  <2>1. UNCHANGED <<db, latches>>
    BY <1>11 DEF IgnoreUnlatch, HandlePushResult, HandleShutdown, BeginTick, DispatchDuePushes,
                 Takes, Take, Applies, PushLands, PushFails, Finish, TimePasses, ClockTick,
                 Happens, Emit, ResolveIncident, PollOnce, SwitchOff, SwitchOn, RequestUnlatch,
                 Submit, ProcessDies, Crash, ProcessTold, RequestStop, ProcessGone, sysvars,
                 vars, core, durable
  <2> QED BY <2>1
<1> QED
  BY <1>5, <1>6, <1>7, <1>8, <1>9, <1>10, <1>11 DEF SysNext, CoreSteps, Messages

(* Nobody asks for an unlatch of a steady output that the operator leaves  *)
(* alone: the poller does not see it resolved, and the switch was not      *)
(* written.                                                                *)
LEMMA UnaskedStays ==
    ASSUME TypeOK, OutsideTypeOK, [SysNext]_sysvars, NEW o \in Outputs, Steady(o),
           operatorAt'[o] = None
    PROVE  Unasked(o)'
<1>t. queue \in Seq(CoreMessage) /\ Unasked(o)
  BY DEF TypeOK, Steady
<1>1. CASE UNCHANGED queue
  BY <1>1, <1>t DEF Unasked
<1>2. CASE queue # <<>> /\ queue' = Tail(queue)
  BY <1>2, <1>t, TailUnasked
<1>3. CASE queue' = <<>>
  <2>1. DOMAIN queue' = {}
    BY <1>3, EmptySeq
  <2> QED BY <2>1 DEF Unasked
<1>4. ASSUME NEW m \in CoreMessage, queue' = Append(queue, m),
             ~(m.kind = "unlatch" /\ m.instance = o)
      PROVE  Unasked(o)'
  BY <1>4, <1>t, AppendUnasked
<1>5. CASE HandleInputEvent \/ HandleUnlatch \/ IgnoreUnlatch \/ HandlePushResult
  BY <1>2, <1>5 DEF HandleInputEvent, HandleUnlatch, IgnoreUnlatch, HandlePushResult, Receive
<1>6. CASE HandleShutdown \/ ProcessDies
  BY <1>3, <1>6 DEF HandleShutdown, ProcessDies, Crash, ProcessGone
<1>7. CASE Takes
  <2>1. PICK j \in jobs : Take(j)
    BY <1>7 DEF Takes
  <2>2. PICK m : m = PushResult(j.output, j.value, "no")
    OBVIOUS
  <2>3. m \in CoreMessage /\ m.kind = "result"
    BY <2>2 DEF TypeOK, Request, PushResult, CoreMessage
  <2>4. UNCHANGED queue \/ queue' = Append(queue, m)
    BY <2>1, <2>2 DEF Take
  <2> QED BY <1>1, <1>4, <2>3, <2>4
<1>8. CASE Applies
  <2>1. PICK j \in busy : Finish(j, "yes") \/ Finish(j, "no")
    BY <1>8 DEF Applies, PushLands, PushFails
  <2>2. PICK m : m \in {PushResult(j.output, j.value, "yes"), PushResult(j.output, j.value, "no")}
                 /\ queue' = Append(queue, m)
    BY <2>1 DEF Finish
  <2>3. m \in CoreMessage /\ m.kind = "result"
    BY <2>2, BusyType DEF PushResult, CoreMessage
  <2> QED BY <1>4, <2>2, <2>3
<1>9. CASE \E i \in Inputs : Happens(i)
  <2>1. PICK i \in Inputs : Happens(i)
    BY <1>9
  <2>2. PICK m : m = InputEvent(i, now)
    OBVIOUS
  <2>3. m \in CoreMessage /\ m.kind = "event"
    BY <2>2 DEF TypeOK, InputEvent, CoreMessage
  <2>4. UNCHANGED queue \/ queue' = Append(queue, m)
    BY <2>1, <2>2 DEF Happens, Emit, Submit, vars
  <2> QED BY <1>1, <1>4, <2>3, <2>4
<1>10. CASE \E p \in Outputs : PollOnce(p) \/ SwitchOff(p)
  <2>1. PICK p \in Outputs : PollOnce(p) \/ SwitchOff(p)
    BY <1>10
  <2>2. p # o
    BY <2>1, SteadyQuery, TouchedStays DEF PollOnce
  <2>3. PICK m : m = UnlatchRequest(p)
    OBVIOUS
  <2>4. m \in CoreMessage /\ m.instance = p
    BY <2>3 DEF UnlatchRequest, CoreMessage
  <2>5. queue' = Append(queue, m)
    BY <2>1, <2>3 DEF PollOnce, SwitchOff, RequestUnlatch, Submit
  <2> QED BY <1>4, <2>2, <2>4, <2>5
<1>11. CASE ProcessTold
  <2>1. PICK m : m = ShutdownMessage
    OBVIOUS
  <2>2. m \in CoreMessage /\ m.kind = "shutdown" /\ queue' = Append(queue, m)
    BY <1>11, <2>1 DEF ShutdownMessage, CoreMessage, ProcessTold, RequestStop, Submit
  <2> QED BY <1>4, <2>2
<1>12. CASE \/ BeginTick \/ DispatchDuePushes \/ TimePasses \/ ProcessStarts \/ UNCHANGED sysvars
            \/ \E t \in due, b \in BOOLEAN : QueryRetried(t, b) \/ CatchUpRetried(t, b)
            \/ \E ra \in SUBSET Inputs, un \in SUBSET PollOutputs : ProcessReconciles(ra, un)
            \/ \E p \in Outputs : ResolveIncident(p) \/ SwitchOn(p)
  <2>1. UNCHANGED queue
    BY <1>12 DEF BeginTick, DispatchDuePushes, TimePasses, ClockTick, ProcessStarts, Start,
                 QueryRetried, CatchUpRetried, HandleReconcileRetry, HandleCatchUpRetry, Fire,
                 ProcessReconciles, ReconcileAll, ResolveIncident, SwitchOn, sysvars, vars
  <2> QED BY <1>1, <2>1
<1> QED
  BY <1>5, <1>6, <1>7, <1>8, <1>9, <1>10, <1>11, <1>12 DEF SysNext, CoreSteps, Messages

(* What a step does to what an output shows that is polled, steady and     *)
(* left alone: nothing, or a push of "on" takes effect.                    *)
Opens(o) ==
    \E j \in busy : /\ j.output = o /\ j.value = "on" /\ remote'[o].shows = "on"
                    /\ jobs' = jobs /\ busy' = busy \ {j}

LEMMA ShownStays ==
    ASSUME TypeOK, OutsideTypeOK, [SysNext]_sysvars, NEW o \in PollOutputs, o \in Outputs,
           Steady(o), operatorAt'[o] = None
    PROVE  remote'[o].shows = remote[o].shows \/ Opens(o)
<1>t. remote \in [Outputs -> Remote] /\ remote[o] \in Remote /\ o \notin SwitchOutputs
  BY OutputKindsAssumption DEF OutsideTypeOK
<1>1. CASE Applies
  <2>1. PICK j \in busy : PushLands(j) \/ PushFails(j)
    BY <1>1 DEF Applies
  <2>2. j.output \in Outputs /\ j.value \in {"on", "off"}
    BY BusyType DEF Values
  <2>3. /\ jobs' = jobs /\ busy' = busy \ {j}
        /\ UNCHANGED remote \/ remote' = [remote EXCEPT ![j.output] = Applied(j.output, j.value)]
    BY <2>1 DEF PushLands, PushFails, Finish
  <2>4. CASE UNCHANGED remote \/ j.output # o
    BY <1>t, <2>2, <2>3, <2>4
  <2>5. CASE remote' = [remote EXCEPT ![j.output] = Applied(j.output, j.value)] /\ j.output = o
    <3>1. remote'[o] = Applied(o, j.value)
      BY <1>t, <2>2, <2>5
    <3>2. CASE j.value = "on"
      <4>1. Applied(o, j.value) = [remote[o] EXCEPT !.shows = "on", !.cleared_at = None]
        BY <1>t, <3>2 DEF Applied
      <4>2. Applied(o, j.value).shows = "on"
        BY <1>t, <4>1 DEF Remote
      <4> QED BY <2>3, <2>5, <3>1, <3>2, <4>2 DEF Opens
    <3>3. CASE j.value = "off"
      <4>1. remote[o].shows # "on"
        BY <2>5, <3>3 DEF Steady
      <4>2. Applied(o, j.value) = remote[o]
        BY <1>t, <3>3, <4>1 DEF Applied
      <4> QED BY <3>1, <4>2
    <3> QED BY <2>2, <3>2, <3>3
  <2> QED BY <2>3, <2>4, <2>5
<1>2. CASE ProcessStarts
  <2>1. remote'[o] = remote[o]
    BY <1>2, <1>t DEF ProcessStarts
  <2> QED BY <2>1
<1>3. CASE \E p \in Outputs : ResolveIncident(p) \/ SwitchOff(p) \/ SwitchOn(p)
  <2>1. PICK p \in Outputs : ResolveIncident(p) \/ SwitchOff(p) \/ SwitchOn(p)
    BY <1>3
  <2>2. p # o
    BY <1>t, <2>1, TouchedStays DEF SwitchOn
  <2>3. remote'[o] = remote[o]
    BY <1>t, <2>1, <2>2 DEF ResolveIncident, SwitchOff, SwitchOn
  <2> QED BY <2>3
<1>4. CASE \/ Messages \/ Takes \/ TimePasses \/ ProcessDies \/ ProcessTold \/ UNCHANGED sysvars
           \/ \E t \in due, b \in BOOLEAN : QueryRetried(t, b) \/ CatchUpRetried(t, b)
           \/ \E ra \in SUBSET Inputs, un \in SUBSET PollOutputs : ProcessReconciles(ra, un)
           \/ \E i \in Inputs : Happens(i)
           \/ \E p \in Outputs : PollOnce(p)
  <2>1. UNCHANGED remote
    BY <1>4 DEF Messages, Takes, TimePasses, ProcessDies, ProcessTold, QueryRetried,
                CatchUpRetried, ProcessReconciles, Happens, PollOnce, sysvars, outside
  <2> QED BY <2>1
<1> QED BY <1>1, <1>2, <1>3, <1>4 DEF SysNext, CoreSteps

(* The pool's threads hold only requests that were in the pool.            *)
LEMMA PoolKeeps ==
    ASSUME [Next]_vars
    PROVE  busy' \subseteq jobs \cup busy
<1>1. CASE PoolNext
  BY <1>1 DEF PoolNext, Take, Finish
<1>2. CASE HandleShutdown \/ Crash
  BY <1>2 DEF HandleShutdown, Crash, ProcessGone
<1>3. CASE \/ HandleInputEvent \/ HandleUnlatch \/ IgnoreUnlatch \/ HandlePushResult
           \/ HandleReload \/ BeginTick \/ DispatchDuePushes \/ ClockTick \/ UNCHANGED vars
  <2>1. UNCHANGED busy
    BY <1>3 DEF HandleInputEvent, HandleUnlatch, IgnoreUnlatch, HandlePushResult, HandleReload,
                BeginTick, DispatchDuePushes, ClockTick, dispatcher, vars
  <2> QED BY <2>1
<1>4. CASE \/ \E t \in due, rep \in Reports : HandleReconcileRetry(t, rep)
           \/ \E t \in due, ra \in BOOLEAN, ev \in EventLists : HandleCatchUpRetry(t, ra, ev)
  <2>1. UNCHANGED busy
    BY <1>4 DEF HandleReconcileRetry, HandleCatchUpRetry, Fire, dispatcher
  <2> QED BY <2>1
<1>5. CASE \E d \in [Inputs -> EventLists], ra \in SUBSET Inputs,
              reports \in [Outputs -> Reports] : ReconcileAll(d, ra, reports)
  <2>1. PICK d, ra, reports : ReconcileAll(d, ra, reports)
    BY <1>5
  <2>2. UNCHANGED busy
    BY <2>1 DEF ReconcileAll
  <2> QED BY <2>2
<1>6. CASE \/ \E i \in Inputs, t \in Time : Emit(i, t)
           \/ \E o \in Outputs : RequestUnlatch(o)
           \/ \E c \in Configurations : SubmitReload(c) \/ Start(c)
           \/ RequestStop
  <2>1. UNCHANGED busy
    BY <1>6 DEF Emit, RequestUnlatch, SubmitReload, RequestStop, Submit, Start, dispatcher
  <2> QED BY <2>1
<1> QED BY <1>1, <1>2, <1>3, <1>4, <1>5, <1>6 DEF Next, CoreNext, OutsideNext

(* The value wanted of an output, spelled out over its rules.              *)
LEMMA WantedOn ==
    \A o : Desired(o) = "on" <=>
              \E r \in RuleNames(Graph) : o \in Graph.outputs[r] /\ latches[r].state = "set"
BY DEF Desired, DesiredOutputState, RulesForOutput

(* While the operator leaves a closed group of steady outputs alone, what  *)
(* is wanted on stays wanted on.                                           *)
LEMMA WantedStays ==
    ASSUME TypeOK, OutsideTypeOK, SteadyInv, [SysNext]_sysvars,
           NEW C \in SUBSET Outputs, Closed(C), UntouchedBy(C), NEW o \in C, Desired(o) = "on"
    PROVE  Desired(o)' = "on"
<1>1. PICK r \in RuleNames(Graph) : o \in Graph.outputs[r] /\ latches[r].state = "set"
  BY WantedOn
<1>2. Graph.outputs[r] \subseteq C /\ \A p \in C : Steady(p)
  BY <1>1 DEF Closed, SteadyInv
<1>3. db[r].state = "set"
  BY <1>1 DEF SteadyInv
<1>4. latches'[r].state = "set"
  BY <1>1, <1>2, <1>3, SetStays
<1>5. config' = config
  BY ConfigStays
<1>6. Desired(o)' = DesiredOutputState(Graph, o, latches')
  BY <1>5 DEF Desired, Graph, DesiredOutputState, RulesForOutput, RuleNames, FromConfiguration
<1> QED BY <1>1, <1>4, <1>6 DEF DesiredOutputState, RulesForOutput

(* A steady output of a group that is left alone stays steady.             *)
LEMMA SteadyStays ==
    ASSUME TypeOK, OutsideTypeOK, WorldInv, FlightInv, SteadyInv, [SysNext]_sysvars,
           NEW C \in SUBSET Outputs, Closed(C), UntouchedBy(C), UntouchedBy(C)', NEW o \in C
    PROVE  Steady(o)'
<1>1. Steady(o) /\ o \in Outputs /\ operatorAt'[o] = None
  BY DEF SteadyInv, UntouchedBy
<1>2. Unasked(o)'
  BY <1>1, UnaskedStays
<1>3. Desired(o) = "on" => Desired(o)' = "on"
  BY WantedStays
<1>4. ASSUME NEW j \in jobs' \cup busy', j.output = o
      PROVE  j \in jobs \cup busy \/ j.value = Desired(o)'
  <2>1. [Next]_vars
    BY SystemStepsEngine
  <2>2. busy' \subseteq jobs \cup busy
    BY <2>1, PoolKeeps
  <2>3. \A i \in jobs' \ jobs : i.value = Desired(i.output)'
    BY <2>1, StepIsFresh
  <2>4. CASE j \in jobs' \ jobs
    <3>1. j.value = Desired(j.output)'
      BY <2>3, <2>4
    <3> QED BY <1>4, <3>1
  <2> QED BY <1>4, <2>2, <2>4
<1>5. ASSUME NEW j \in jobs' \cup busy', j.output = o, j.value = "on"
      PROVE  Desired(o)' = "on"
  BY <1>1, <1>3, <1>4, <1>5 DEF Steady
<1>6. ASSUME o \in PollOutputs
      PROVE  /\ remote'[o].shows # "off"
             /\ remote'[o].shows = "on" =>
                  /\ Desired(o)' = "on"
                  /\ \A j \in jobs' \cup busy' : j.output = o => j.value = "on"
  <2>1. remote'[o].shows = remote[o].shows \/ Opens(o)
    BY <1>1, <1>6, ShownStays
  <2>2. CASE remote'[o].shows = remote[o].shows
    <3>1. remote[o].shows # "off"
      BY <1>1, <1>6 DEF Steady
    <3>2. CASE remote[o].shows = "on"
      <4>1. Desired(o) = "on" /\ \A j \in jobs \cup busy : j.output = o => j.value = "on"
        BY <1>1, <1>6, <3>2 DEF Steady
      <4> QED BY <1>3, <1>4, <2>2, <3>1, <4>1
    <3> QED BY <2>2, <3>1, <3>2
  <2>3. CASE Opens(o)
    <3>1. PICK j \in busy : /\ j.output = o /\ j.value = "on" /\ remote'[o].shows = "on"
                            /\ jobs' = jobs /\ busy' = busy \ {j}
      BY <2>3 DEF Opens
    <3>2. {i \in jobs : i.output = o} = {} /\ \A i \in busy : i.output = o => i = j
      <4>1. o \in Outputs /\ j \in {i \in busy : i.output = o}
        BY <1>1, <3>1
      <4>2. PICK v \in Values : Applying(o, v)
        BY <4>1 DEF FlightInv, Grounded, Airborne, Waiting, Answered
      <4> QED BY <4>1, <4>2 DEF Applying
    <3>3. \A i \in jobs' \cup busy' : i.output # o
      BY <3>1, <3>2
    <3>4. Desired(o) = "on"
      BY <1>1, <3>1 DEF Steady
    <3> QED BY <1>3, <3>1, <3>3, <3>4
  <2> QED BY <2>1, <2>2, <2>3
<1> QED BY <1>2, <1>5, <1>6 DEF Steady

(* Every step keeps the invariant: a group that is closed and left alone   *)
(* after the step was so before, since the configuration stays and no act  *)
(* of the operator is taken back.                                          *)
LEMMA SteadyStep ==
    TypeOK /\ OutsideTypeOK /\ WorldInv /\ FlightInv /\ SteadyInv /\ [SysNext]_sysvars
        => SteadyInv'
<1> SUFFICES ASSUME TypeOK, OutsideTypeOK, WorldInv, FlightInv, SteadyInv, [SysNext]_sysvars
             PROVE  SteadyInv'
  OBVIOUS
<1>1. latches' = db'
  BY CacheStays DEF SteadyInv
<1>2. ASSUME NEW C \in SUBSET Outputs, Closed(C)', UntouchedBy(C)', NEW o \in C
      PROVE  Steady(o)'
  <2>1. Closed(C)
    BY <1>2, ConfigStays DEF Closed, Graph, RuleNames, FromConfiguration
  <2>2. UntouchedBy(C)
    BY <1>2, TouchedStays DEF UntouchedBy
  <2> QED BY <1>2, <2>1, <2>2, SteadyStays
<1> QED BY <1>1, <1>2 DEF SteadyInv

(* Before the first start nothing was shown, asked for or sent.            *)
LEMMA SteadyStarts == SysInit => SteadyInv
<1> SUFFICES ASSUME SysInit PROVE SteadyInv
  OBVIOUS
<1>1. /\ latches = db /\ queue = <<>> /\ jobs = {} /\ busy = {}
      /\ remote = [o \in Outputs |-> FreshRemote(o)]
  BY DEF SysInit, Init
<1>2. DOMAIN queue = {}
  BY <1>1, EmptySeq
<1>3. ASSUME NEW o \in Outputs PROVE Steady(o)
  <2>1. o \in PollOutputs => remote[o].shows = "never"
    BY <1>1 DEF FreshRemote
  <2> QED BY <1>1, <1>2, <2>1 DEF Steady, Unasked
<1> QED BY <1>1, <1>3 DEF SteadyInv

(* The invariant behind DeliberateUnlatch holds in every reachable state.  *)
LEMMA SteadyInvariant ==
    SysSpec => [](TypeOK /\ OutsideTypeOK /\ WorldInv /\ FlightInv /\ SteadyInv)
<1>1. SysInit => FlightInv
  BY FlightStep DEF SysInit
<1>2. TypeOK /\ OutsideTypeOK /\ WorldInv /\ FlightInv /\ [SysNext]_sysvars => FlightInv'
  BY SystemStepsEngine, FlightStep
<1> QED BY <1>1, <1>2, SteadyStarts, SteadyStep, WorldInvariant, PTL DEF SysSpec

(* A latch is cleared only after the operator cleared an output of every   *)
(* closed group around its rule, however rules share outputs: where rules  *)
(* share none, an output of the rule itself; in any case some output.      *)
GroupUnlatch ==
    [][\A C \in SUBSET Outputs : \A r \in RuleNames(Graph) :
          Closed(C) /\ Graph.outputs[r] \subseteq C /\ Unlatches(r) =>
              \E o \in C : operatorAt[o] # None]_sysvars

(* Unlatching is always deliberate (README.md), for every configuration:   *)
(* whatever failed, was lost, restarted or polled twice, no step clears a  *)
(* latch of a group of outputs in which the operator has cleared none.     *)
THEOREM UnlatchFollowsTheOperator == SysSpec => GroupUnlatch
<1>1. ASSUME TypeOK, OutsideTypeOK, SteadyInv, [SysNext]_sysvars,
             NEW C \in SUBSET Outputs, NEW r \in RuleNames(Graph), Closed(C),
             Graph.outputs[r] \subseteq C, Unlatches(r)
      PROVE  \E o \in C : operatorAt[o] # None
  <2> SUFFICES ASSUME UntouchedBy(C) PROVE FALSE
    BY DEF UntouchedBy
  <2>1. \A o \in C : Steady(o)
    BY <1>1 DEF SteadyInv
  <2>2. latches[r].state = "set" /\ db[r].state = "set" /\ latches'[r].state = "clear"
    BY <1>1 DEF SteadyInv, Unlatches
  <2> QED BY <1>1, <2>1, <2>2, SetStays
<1> DEFINE Kept == \A C \in SUBSET Outputs : \A r \in RuleNames(Graph) :
                      Closed(C) /\ Graph.outputs[r] \subseteq C /\ Unlatches(r) =>
                          \E o \in C : operatorAt[o] # None
<1>2. TypeOK /\ OutsideTypeOK /\ SteadyInv /\ [SysNext]_sysvars => [Kept]_sysvars
  BY <1>1
<1> QED BY <1>2, SteadyInvariant, PTL DEF SysSpec, GroupUnlatch

(* No two rules of a configuration share an output.                        *)
OwnOutputs ==
    \A c \in Configurations : \A r, s \in c.rules :
        r # s => c.outputs[r] \cap c.outputs[s] = {}

(* With rules that share no output, a latch is never cleared before the    *)
(* operator has cleared an output of that very rule.                       *)
THEOREM UnlatchIsDeliberate == OwnOutputs => (SysSpec => DeliberateUnlatch)
<1> SUFFICES ASSUME OwnOutputs PROVE SysSpec => DeliberateUnlatch
  OBVIOUS
<1> DEFINE Grouped == \A C \in SUBSET Outputs : \A r \in RuleNames(Graph) :
                         Closed(C) /\ Graph.outputs[r] \subseteq C /\ Unlatches(r) =>
                             \E o \in C : operatorAt[o] # None
           Own == \A r \in RuleNames(Graph) :
                     Unlatches(r) => \E o \in Graph.outputs[r] : operatorAt[o] # None
<1>1. ASSUME TypeOK, NEW r \in RuleNames(Graph)
      PROVE  Graph.outputs[r] \in SUBSET Outputs /\ Closed(Graph.outputs[r])
  <2>1. RuleNames(Graph) = config.rules /\ config \in Configurations
        /\ \A s \in config.rules : Graph.outputs[s] = config.outputs[s] \cap config.instances
    BY <1>1 DEF TypeOK, Graph, FromConfiguration, RuleNames
  <2>2. config.outputs[r] \subseteq Outputs
    BY <1>1, <2>1, ConfigurationsAssumption
  <2>3. \A s \in config.rules : s # r => config.outputs[s] \cap config.outputs[r] = {}
    BY <1>1, <2>1 DEF OwnOutputs
  <2> QED BY <1>1, <2>1, <2>2, <2>3 DEF Closed
<1>2. TypeOK /\ [Grouped]_sysvars => [Own]_sysvars
  BY <1>1
<1> QED BY <1>2, WorldInvariant, UnlatchFollowsTheOperator, PTL DEF GroupUnlatch, DeliberateUnlatch

=============================================================================
