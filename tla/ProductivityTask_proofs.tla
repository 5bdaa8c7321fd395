---------------------- MODULE ProductivityTask_proofs ----------------------
(***************************************************************************)
(* For any number of tasks and handlers, and whatever goes wrong: a task has *)
(* one effect, unless two deliveries or requests for it overlap, a success   *)
(* stands, and disconnecting holds.  At the end, that ProductivityTask        *)
(* implements SingleEffect.                                                *)
(***************************************************************************)
EXTENDS ProductivityTask, TLAPS

LEMMA Bounds == MaxCopies \in Nat /\ MaxFaults \in Nat /\ NoTask \notin Tasks
BY ProductivityAssumption DEF ProductivityAssumption

Working == {"begin", "consent", "succeed", "fail"} \cup Trusted

Places == {"idle", "start", "settle"} \cup Working

-----------------------------------------------------------------------------
(* The helpers keep the types of what they write.                           *)

LEMMA GoesType ==
    ASSUME TypeOK, NEW w \in Workers, at[w] # "idle",
           NEW there \in Places \ {"idle"}, Goes(w, there)
    PROVE  /\ at' \in [Workers -> Places]
           /\ job' \in [Workers -> Tasks \cup {NoTask}]
           /\ \A v \in Workers : at'[v] = "idle" <=> job'[v] = NoTask
           /\ open' \subseteq {v \in Workers : at'[v] # "idle"}
           /\ job[w] \in Tasks
<1>1. at' = [at EXCEPT ![w] = there] /\ job' = job /\ open' = open
  BY DEF Goes
<1>2. at' \in [Workers -> Places]
  BY <1>1 DEF TypeOK, Places, Working, Trusted
<1>3. job[w] \in Tasks
  BY DEF TypeOK
<1>4. QED
  BY <1>1, <1>2, <1>3 DEF TypeOK

LEMMA LeavesType ==
    ASSUME TypeOK, NEW w \in Workers, Leaves(w)
    PROVE  /\ at' \in [Workers -> Places]
           /\ job' \in [Workers -> Tasks \cup {NoTask}]
           /\ \A v \in Workers : at'[v] = "idle" <=> job'[v] = NoTask
           /\ open' \subseteq {v \in Workers : at'[v] # "idle"}
<1>1. at' \in [Workers -> Places]
  BY DEF Leaves, TypeOK, Places, Working, Trusted
<1>2. QED
  BY <1>1 DEF Leaves, TypeOK

LEMMA QueuedType ==
    ASSUME TypeOK, NEW t \in Tasks, NEW n \in 1 .. 2, Queued(t, n)
    PROVE  queue' \in [Tasks -> 0 .. MaxCopies]
<1>1. queue[t] + n \in 0 .. MaxCopies
  BY Bounds DEF Queued, TypeOK
<1>2. QED
  BY <1>1 DEF Queued, TypeOK

LEMMA EffectType ==
    ASSUME TypeOK, NEW t \in Tasks, Effect(t)
    PROVE  effects' \in [Tasks -> 0 .. Several]
<1>1. (IF effects[t] < Several THEN effects[t] + 1 ELSE effects[t]) \in 0 .. Several
  BY DEF TypeOK, Several
<1>2. QED
  BY <1>1 DEF Effect, TypeOK

LEMMA FaultType ==
    ASSUME TypeOK, NEW kind, Fault(kind)
    PROVE  faults' \in 0 .. MaxFaults
BY Bounds DEF Fault, TypeOK

LEMMA AbandonedType ==
    ASSUME TypeOK, NEW t \in Tasks, Abandoned(t)
    PROVE  /\ effects' \in [Tasks -> 0 .. Several]
           /\ late' \subseteq Tasks /\ doubled' \subseteq Tasks
<1>1. CASE Effect(t) /\ UNCHANGED <<late, doubled>>
  BY <1>1, EffectType DEF TypeOK
<1>2. CASE UNCHANGED <<googleVars, doubled>>
  BY <1>2 DEF TypeOK, googleVars
<1>3. CASE late' = late \cup {t} /\ doubled' = doubled \cup {t} /\ UNCHANGED effects
  BY <1>3 DEF TypeOK
<1>4. QED
  BY <1>1, <1>2, <1>3 DEF Abandoned

Statuses == {"none", "queued", "running", "succeeded", "failed"}

LEMMA SetType ==
    ASSUME TypeOK, NEW t \in Tasks, NEW value \in Statuses, Set(t, value)
    PROVE  status' \in [Tasks -> Statuses]
BY DEF Set, TypeOK, Statuses

LEMMA CallGoesType ==
    ASSUME TypeOK, NEW t \in Tasks, NEW there \in {"create", "publish", "fail", "accepted", "refused"},
           CallGoes(t, there)
    PROVE  call' \in [Tasks -> {"none", "create", "publish", "fail", "accepted", "refused"}]
BY DEF CallGoes, TypeOK

LEMMA CallTypeStep ==
    ASSUME TypeOK, NEW t \in Tasks, Call(t)
    PROVE  TypeOK'
<1>1. CASE Ask(t)
  <2>1. call' \in [Tasks -> {"none", "create", "publish", "fail", "accepted", "refused"}]
    BY <1>1, CallGoesType DEF Ask
  <2>2. QED
    BY <1>1, <2>1 DEF Ask, TypeOK, workVars, googleVars, userVars, ghostVars
<1>2. CASE CreateQueued(t)
  <2>1. call' \in [Tasks -> {"none", "create", "publish", "fail", "accepted", "refused"}]
    BY <1>2, CallGoesType DEF CreateQueued
  <2>2. status' \in [Tasks -> Statuses]
    BY <1>2, SetType DEF CreateQueued, TypeOK, Statuses
  <2>3. faults' \in 0 .. MaxFaults
    BY <1>2, FaultType DEF CreateQueued, TypeOK
  <2>4. QED
    BY <1>2, <2>1, <2>2, <2>3 DEF CreateQueued, TypeOK, Statuses, workVars, googleVars, userVars
<1>3. CASE Publish(t)
  <2>1. call' \in [Tasks -> {"none", "create", "publish", "fail", "accepted", "refused"}]
    BY <1>3, CallGoesType DEF Publish
  <2>2. queue' \in [Tasks -> 0 .. MaxCopies]
    BY <1>3, QueuedType DEF Publish
  <2>3. QED
    BY <1>3, <2>1, <2>2 DEF Publish, TypeOK, workVars, googleVars, userVars, ghostVars
<1>4. CASE PublishTwice(t)
  <2>1. call' \in [Tasks -> {"none", "create", "publish", "fail", "accepted", "refused"}]
    BY <1>4, CallGoesType DEF PublishTwice
  <2>2. queue' \in [Tasks -> 0 .. MaxCopies]
    BY <1>4, QueuedType DEF PublishTwice
  <2>3. faults' \in 0 .. MaxFaults
    BY <1>4, FaultType DEF PublishTwice
  <2>4. QED
    BY <1>4, <2>1, <2>2, <2>3 DEF PublishTwice, TypeOK, workVars, googleVars, userVars
<1>5. CASE PublishFails(t)
  <2>1. call' \in [Tasks -> {"none", "create", "publish", "fail", "accepted", "refused"}]
    BY <1>5, CallGoesType DEF PublishFails
  <2>2. queue' \in [Tasks -> 0 .. MaxCopies]
    BY <1>5, QueuedType DEF PublishFails, TypeOK
  <2>3. faults' \in 0 .. MaxFaults
    BY <1>5, FaultType DEF PublishFails
  <2>4. disowned' \subseteq Tasks
    BY <1>5 DEF PublishFails, TypeOK
  <2>5. QED
    BY <1>5, <2>1, <2>2, <2>3, <2>4 DEF PublishFails, TypeOK, workVars, googleVars, userVars
<1>6. CASE RefuseCall(t)
  <2>1. call' \in [Tasks -> {"none", "create", "publish", "fail", "accepted", "refused"}]
    BY <1>6, CallGoesType DEF RefuseCall
  <2>2. status' \in [Tasks -> Statuses]
    BY <1>6, SetType DEF RefuseCall, TypeOK, Statuses
  <2>3. faults' \in 0 .. MaxFaults
    BY <1>6, FaultType DEF RefuseCall, TypeOK
  <2>4. QED
    BY <1>6, <2>1, <2>2, <2>3 DEF RefuseCall, TypeOK, Statuses, workVars, googleVars, userVars
<1>7. QED
  BY <1>1, <1>2, <1>3, <1>4, <1>5, <1>6 DEF Call

(* A handler goes on: what a step may write besides its place.              *)
LEMMA HandlerType ==
    ASSUME TypeOK, NEW w \in Workers, at[w] # "idle",
           NEW there \in Places \ {"idle"}, Goes(w, there), UNCHANGED <<call, queue, userVars>>,
           status' \in [Tasks -> Statuses], effects' \in [Tasks -> 0 .. Several],
           late' \subseteq Tasks, doubled' \subseteq Tasks, disowned' \subseteq Tasks,
           stranded' \subseteq Tasks, faults' \in 0 .. MaxFaults
    PROVE  TypeOK'
BY GoesType DEF TypeOK, Places, Working, Statuses, userVars

LEMMA HandleTypeStep ==
    ASSUME TypeOK, NEW w \in Workers, Handle(w)
    PROVE  TypeOK'
<1> DEFINE Held == UNCHANGED <<taskVars, googleVars, userVars, ghostVars>>
<1>1. ASSUME NEW there \in Places \ {"idle"}, at[w] # "idle", Goes(w, there), Held
      PROVE  TypeOK'
  BY <1>1, HandlerType DEF TypeOK, Statuses, taskVars, googleVars, ghostVars
<1>2. ASSUME NEW there \in Places \ {"idle"}, at[w] # "idle", Goes(w, there),
             NEW value \in Statuses, Set(job[w], value),
             stranded' \subseteq Tasks, faults' \in 0 .. MaxFaults,
             UNCHANGED <<call, queue, googleVars, userVars, doubled, disowned>>
      PROVE  TypeOK'
  <2>1. status' \in [Tasks -> Statuses]
    BY <1>2, GoesType, SetType
  <2>2. QED
    BY <1>2, <2>1, HandlerType DEF TypeOK, googleVars
<1>3. {"consent", "begin", "settle", "token", "fail", "refresh", "reconcile", "succeed", "post"}
          \subseteq Places \ {"idle"}
  BY DEF Places, Working, Trusted
<1>4. CASE Start(w)
  BY <1>1, <1>3, <1>4 DEF Start
<1>5. CASE Begin(w)
  BY <1>2, <1>3, <1>5 DEF Begin, Statuses, ghostVars, TypeOK
<1>6. CASE CheckConsent(w)
  BY <1>1, <1>3, <1>6 DEF CheckConsent
<1>7. CASE GetToken(w)
  BY <1>1, <1>3, <1>7 DEF GetToken
<1>8. CASE Refresh(w)
  <2>1. "reconcile" \in Places \ {"idle"}
    BY <1>3
  <2>2. QED
    BY <1>8, <2>1, GoesType DEF Refresh, TypeOK, Places, Working, taskVars, googleVars, ghostVars
<1>9. CASE Reconcile(w)
  BY <1>1, <1>3, <1>9 DEF Reconcile
<1>10. CASE Post(w)
  <2>1. "succeed" \in Places \ {"idle"} /\ at[w] # "idle" /\ Goes(w, "succeed")
    BY <1>3, <1>10 DEF Post
  <2>2. effects' \in [Tasks -> 0 .. Several]
    BY <1>10, <2>1, GoesType, EffectType DEF Post
  <2>3. QED
    BY <1>10, <2>1, <2>2, HandlerType DEF Post, TypeOK, Statuses, taskVars, ghostVars
<1>11. CASE Succeed(w)
  BY <1>2, <1>3, <1>11 DEF Succeed, Statuses, ghostVars, TypeOK
<1>12. CASE Fail(w)
  <2>1. "settle" \in Places \ {"idle"} /\ at[w] # "idle" /\ Goes(w, "settle")
    BY <1>3, <1>12 DEF Fail
  <2>2. job[w] \in Tasks
    BY <2>1, GoesType
  <2>3. stranded' \subseteq Tasks /\ faults' \in 0 .. MaxFaults
    BY <1>12, <2>2, FaultType DEF Fail, TypeOK
  <2>4. status' \in [Tasks -> Statuses]
    BY <1>12, <2>2, SetType DEF Fail, TypeOK, Statuses
  <2>5. QED
    BY <1>12, <2>1, <2>3, <2>4, HandlerType DEF Fail, TypeOK, googleVars
<1>13. CASE Settle(w)
  BY <1>13, LeavesType DEF Settle, TypeOK, Places, Working, taskVars, googleVars, userVars, ghostVars
<1>14. QED
  BY <1>4, <1>5, <1>6, <1>7, <1>8, <1>9, <1>10, <1>11, <1>12, <1>13 DEF Handle

LEMMA AccidentTypeStep ==
    ASSUME TypeOK, NEW w \in Workers,
           StartRaises(w) \/ WorkRaises(w) \/ Crash(w) \/ ChannelLost(w)
    PROVE  TypeOK'
<1>1. CASE StartRaises(w)
  <2>1. "settle" \in Places \ {"idle"} /\ at[w] # "idle" /\ Goes(w, "settle")
    BY <1>1 DEF StartRaises, Places
  <2>2. job[w] \in Tasks
    BY <2>1, GoesType
  <2>3. stranded' \subseteq Tasks /\ faults' \in 0 .. MaxFaults
    BY <1>1, <2>2, FaultType DEF StartRaises, TypeOK
  <2>4. status' \in [Tasks -> Statuses]
    BY <1>1, <2>2, SetType DEF StartRaises, TypeOK, Statuses
  <2>5. QED
    BY <1>1, <2>1, <2>3, <2>4, HandlerType DEF StartRaises, TypeOK, googleVars
<1>2. CASE WorkRaises(w)
  <2>1. "fail" \in Places \ {"idle"} /\ at[w] # "idle" /\ Goes(w, "fail")
    BY <1>2 DEF WorkRaises, Places, Working
  <2>2. job[w] \in Tasks
    BY <2>1, GoesType
  <2>3. faults' \in 0 .. MaxFaults
    BY <1>2, FaultType DEF WorkRaises
  <2>4. effects' \in [Tasks -> 0 .. Several] /\ late' \subseteq Tasks /\ doubled' \subseteq Tasks
    BY <1>2, <2>2, AbandonedType DEF WorkRaises, TypeOK, googleVars
  <2>5. status' \in [Tasks -> Statuses]
    BY <1>2, <2>2, SetType DEF WorkRaises, TypeOK, Statuses
  <2>6. disowned' \subseteq Tasks
    BY <1>2, <2>2 DEF WorkRaises, TypeOK
  <2>7. QED
    BY <1>2, <2>1, <2>3, <2>4, <2>5, <2>6, HandlerType DEF WorkRaises, TypeOK
<1>3. CASE Crash(w)
  <2>1. job[w] \in Tasks
    BY <1>3 DEF Crash, TypeOK
  <2>2. queue' \in [Tasks -> 0 .. MaxCopies]
    BY <1>3, <2>1, QueuedType DEF Crash, Requeued, TypeOK
  <2>3. effects' \in [Tasks -> 0 .. Several] /\ late' \subseteq Tasks /\ doubled' \subseteq Tasks
    BY <1>3, <2>1, AbandonedType DEF Crash, TypeOK, googleVars
  <2>4. stranded' \subseteq Tasks /\ faults' \in 0 .. MaxFaults
    BY <1>3, <2>1, FaultType DEF Crash, TypeOK
  <2>5. QED
    BY <1>3, <2>2, <2>3, <2>4, LeavesType DEF Crash, TypeOK, Places, Working, userVars
<1>4. CASE ChannelLost(w)
  <2>1. job[w] \in Tasks
    BY <1>4 DEF ChannelLost, TypeOK
  <2>2. queue' \in [Tasks -> 0 .. MaxCopies]
    BY <1>4, <2>1, QueuedType DEF ChannelLost, Requeued
  <2>3. faults' \in 0 .. MaxFaults
    BY <1>4, FaultType DEF ChannelLost
  <2>4. QED
    BY <1>4, <2>1, <2>2, <2>3 DEF ChannelLost, TypeOK, googleVars, userVars
<1>5. QED
  BY <1>1, <1>2, <1>3, <1>4

LEMMA DeliverTypeStep ==
    ASSUME TypeOK, NEW w \in Workers, Deliver(w)
    PROVE  TypeOK'
<1>1. PICK t \in Tasks : /\ queue[t] > 0
                         /\ queue' = [queue EXCEPT ![t] = @ - 1]
                         /\ job' = [job EXCEPT ![w] = t]
  BY DEF Deliver
<1>2. queue' \in [Tasks -> 0 .. MaxCopies]
  <2>1. queue[t] - 1 \in 0 .. MaxCopies
    BY <1>1, Bounds DEF TypeOK
  <2>2. QED
    BY <1>1, <2>1 DEF TypeOK
<1>3. at' = [at EXCEPT ![w] = "start"] /\ open' = open \cup {w}
  BY DEF Deliver
<1>4. /\ at' \in [Workers -> Places]
      /\ job' \in [Workers -> Tasks \cup {NoTask}]
      /\ \A v \in Workers : at'[v] = "idle" <=> job'[v] = NoTask
      /\ open' \subseteq {v \in Workers : at'[v] # "idle"}
  <2>1. at' \in [Workers -> Places]
    BY <1>3 DEF TypeOK, Places, Working
  <2>2. job' \in [Workers -> Tasks \cup {NoTask}]
    BY <1>1 DEF TypeOK
  <2>3. \A v \in Workers : at'[v] = "idle" <=> job'[v] = NoTask
    BY <1>1, <1>3, Bounds DEF TypeOK
  <2>4. QED
    BY <1>3, <2>1, <2>2, <2>3 DEF TypeOK
<1>5. QED
  BY <1>2, <1>4 DEF Deliver, TypeOK, Places, Working, googleVars, userVars, ghostVars

LEMMA ConnectionTypeStep ==
    ASSUME TypeOK, Connection
    PROVE  TypeOK'
<1>1. Barred \subseteq Tasks
  BY DEF Barred
<1>2. UNCHANGED <<taskVars, workVars, googleVars, ghostVars>>
  BY DEF Connection, Connect, Expire, AskRefresh, EndRefresh, Disconnect, RevokeConsent,
         RevokeAtGoogle, DeleteToken, DisconnectRaises
<1>3. /\ consent' \in BOOLEAN /\ renewing' \in BOOLEAN /\ gone' \in BOOLEAN
      /\ token' \in {"none", "fresh", "stale"}
      /\ leaving' \in {"none", "forget", "revoke", "provider", "delete"}
      /\ barred' \subseteq Tasks
  BY <1>1 DEF TypeOK, Connection, Connect, Expire, AskRefresh, EndRefresh, Disconnect,
              RevokeConsent, RevokeAtGoogle, DeleteToken, DisconnectRaises
<1>4. QED
  BY <1>2, <1>3 DEF TypeOK, taskVars, workVars, googleVars, ghostVars

LEMMA LateTypeStep ==
    ASSUME TypeOK, NEW t \in Tasks, LateEffect(t)
    PROVE  TypeOK'
<1>1. effects' \in [Tasks -> 0 .. Several]
  BY EffectType DEF LateEffect
<1>2. QED
  BY <1>1 DEF LateEffect, TypeOK, taskVars, workVars, userVars, ghostVars

LEMMA TypeStep ==
    ASSUME TypeOK, [Next]_vars
    PROVE  TypeOK'
<1>1. CASE UNCHANGED vars
  BY <1>1 DEF vars, taskVars, workVars, googleVars, userVars, ghostVars, TypeOK
<1>2. QED
  BY <1>1, CallTypeStep, LateTypeStep, DeliverTypeStep, HandleTypeStep, AccidentTypeStep,
     ConnectionTypeStep DEF Next

LEMMA TypeCorrectInit == Init => TypeOK
<1>1. 0 \in 0 .. MaxCopies /\ 0 \in 0 .. MaxFaults /\ 0 \in 0 .. Several
  BY Bounds DEF Several
<1>2. SUFFICES ASSUME Init
             PROVE  TypeOK
  OBVIOUS
<1>3. /\ status \in [Tasks -> Statuses] /\ queue \in [Tasks -> 0 .. MaxCopies]
      /\ effects \in [Tasks -> 0 .. Several] /\ at \in [Workers -> Places]
      /\ job \in [Workers -> Tasks \cup {NoTask}]
      /\ \A w \in Workers : at[w] = "idle" <=> job[w] = NoTask
  BY <1>1, <1>2 DEF Init, Statuses, Places
<1>4. QED
  BY <1>1, <1>2, <1>3 DEF Init, TypeOK, Statuses, Places, Working

(* The states of tasks, messages, handlers, effects and connection have their *)
(* types, whatever goes wrong.                                             *)
THEOREM TypeCorrect == Spec => []TypeOK
BY TypeCorrectInit, TypeStep, PTL DEF Spec

-----------------------------------------------------------------------------
(* What no other actor does to a handler, to effects and to a status.        *)

(* A handler is moved by its own steps only.                                *)
LEMMA OwnSteps ==
    ASSUME TypeOK, Next, NEW w \in Workers
    PROVE  \/ at'[w] = at[w] /\ job'[w] = job[w]
           \/ Deliver(w) \/ Settle(w) \/ Crash(w)
           \/ (Handle(w) \/ StartRaises(w) \/ WorkRaises(w)) /\ at[w] # "idle" /\ job'[w] = job[w]
<1>1. ASSUME NEW v \in Workers, v # w,
             Deliver(v) \/ Handle(v) \/ StartRaises(v) \/ WorkRaises(v) \/ Crash(v) \/ ChannelLost(v)
      PROVE  at'[w] = at[w] /\ job'[w] = job[w]
  <2>1. CASE Deliver(v)
    BY <1>1, <2>1 DEF Deliver, TypeOK
  <2>2. CASE Handle(v)
    BY <1>1, <2>2 DEF Handle, Start, Begin, CheckConsent, GetToken, Refresh, Reconcile, Post,
                      Succeed, Fail, Settle, Goes, Leaves, TypeOK
  <2>3. CASE StartRaises(v) \/ WorkRaises(v) \/ Crash(v) \/ ChannelLost(v)
    BY <1>1, <2>3 DEF StartRaises, WorkRaises, Crash, ChannelLost, Goes, Leaves, TypeOK
  <2>4. QED
    BY <1>1, <2>1, <2>2, <2>3
<1>2. CASE \E t \in Tasks : Call(t) \/ LateEffect(t)
  BY <1>2 DEF Call, Ask, CreateQueued, Publish, PublishTwice, PublishFails, RefuseCall, LateEffect, workVars
<1>3. CASE Connection
  BY <1>3 DEF Connection, Connect, Expire, AskRefresh, EndRefresh, Disconnect, RevokeConsent,
              RevokeAtGoogle, DeleteToken, DisconnectRaises, workVars
<1>4. CASE Handle(w)
  BY <1>4 DEF Handle, Start, Begin, CheckConsent, GetToken, Refresh, Reconcile, Post, Succeed, Fail, Goes
<1>5. CASE StartRaises(w) \/ WorkRaises(w) \/ ChannelLost(w)
  BY <1>5 DEF StartRaises, WorkRaises, ChannelLost, Goes
<1>6. QED
  BY <1>1, <1>2, <1>3, <1>4, <1>5 DEF Next

LEMMA EffectGrows ==
    ASSUME TypeOK, NEW t \in Tasks, NEW s \in Tasks, Effect(t)
    PROVE  effects'[s] = effects[s] \/ (s = t /\ effects'[s] > 0 /\ effects'[s] <= effects[s] + 1)
BY DEF Effect, TypeOK, Several

(* An effect is never undone, and a new one is its handler's or a late one.   *)
LEMMA EffectSteps ==
    ASSUME TypeOK, Next, NEW t \in Tasks
    PROVE  \/ effects'[t] = effects[t]
           \/ /\ effects'[t] > 0 /\ effects'[t] <= effects[t] + 1
              /\ \/ LateEffect(t)
                 \/ \E w \in Workers : /\ at[w] = "post" /\ job[w] = t
                                       /\ Post(w) \/ WorkRaises(w) \/ Crash(w)
<1>1. ASSUME NEW w \in Workers,
             Deliver(w) \/ Handle(w) \/ StartRaises(w) \/ WorkRaises(w) \/ Crash(w) \/ ChannelLost(w),
             effects'[t] # effects[t]
      PROVE  /\ effects'[t] > 0 /\ effects'[t] <= effects[t] + 1
             /\ at[w] = "post" /\ job[w] = t
             /\ Post(w) \/ WorkRaises(w) \/ Crash(w)
  <2>1. CASE Deliver(w) \/ StartRaises(w) \/ ChannelLost(w)
    BY <1>1, <2>1 DEF Deliver, StartRaises, ChannelLost, googleVars
  <2>2. CASE Handle(w)
    <3>1. Post(w)
      BY <1>1, <2>2 DEF Handle, Start, Begin, CheckConsent, GetToken, Refresh, Reconcile, Succeed,
                        Fail, Settle, googleVars
    <3>2. at[w] = "post" /\ Effect(job[w]) /\ job[w] \in Tasks
      BY <3>1 DEF Post, TypeOK
    <3>3. QED
      BY <1>1, <3>1, <3>2, EffectGrows
  <2>3. CASE WorkRaises(w) \/ Crash(w)
    <3>1. at[w] = "post" /\ Effect(job[w])
      BY <1>1, <2>3 DEF WorkRaises, Crash, Abandoned, googleVars
    <3>2. job[w] \in Tasks
      BY <3>1 DEF TypeOK
    <3>3. QED
      BY <1>1, <2>3, <3>1, <3>2, EffectGrows
  <2>4. QED
    BY <1>1, <2>1, <2>2, <2>3
<1>2. CASE \E s \in Tasks : Call(s)
  BY <1>2 DEF Call, Ask, CreateQueued, Publish, PublishTwice, PublishFails, RefuseCall, googleVars
<1>3. CASE \E s \in Tasks : LateEffect(s)
  BY <1>3, EffectGrows DEF LateEffect
<1>4. CASE Connection
  BY <1>4 DEF Connection, Connect, Expire, AskRefresh, EndRefresh, Disconnect, RevokeConsent,
              RevokeAtGoogle, DeleteToken, DisconnectRaises, googleVars
<1>5. QED
  BY <1>1, <1>2, <1>3, <1>4 DEF Next

(* Who writes which status.                                                 *)
LEMMA StatusSteps ==
    ASSUME TypeOK, Next, NEW t \in Tasks, status'[t] # status[t]
    PROVE  \/ call[t] = "create" /\ CreateQueued(t) /\ status'[t] = "queued"
           \/ call[t] = "fail" /\ RefuseCall(t) /\ status'[t] = "failed" /\ status[t] # "none"
           \/ \E w \in Workers :
                 /\ job[w] = t
                 /\ \/ at[w] = "begin" /\ status'[t] = "running"
                    \/ /\ at[w] = "succeed" /\ status'[t] = "succeeded"
                       /\ Succeed(w) \/ (WorkRaises(w) /\ t \in disowned')
                    \/ at[w] = "fail" /\ Fail(w) /\ status'[t] = "failed"
<1>1. ASSUME NEW w \in Workers,
             Deliver(w) \/ Handle(w) \/ StartRaises(w) \/ WorkRaises(w) \/ Crash(w) \/ ChannelLost(w)
      PROVE  /\ job[w] = t
             /\ \/ at[w] = "begin" /\ status'[t] = "running"
                \/ /\ at[w] = "succeed" /\ status'[t] = "succeeded"
                   /\ Succeed(w) \/ (WorkRaises(w) /\ t \in disowned')
                \/ at[w] = "fail" /\ Fail(w) /\ status'[t] = "failed"
  <2>1. CASE Handle(w)
    BY <2>1 DEF Handle, Start, Begin, CheckConsent, GetToken, Refresh, Reconcile, Post, Succeed,
                Fail, Settle, Set, TypeOK, taskVars
  <2>2. CASE Deliver(w) \/ StartRaises(w) \/ WorkRaises(w) \/ Crash(w) \/ ChannelLost(w)
    BY <2>2 DEF Deliver, StartRaises, WorkRaises, Crash, ChannelLost, Set, TypeOK
  <2>3. QED
    BY <1>1, <2>1, <2>2
<1>2. ASSUME NEW s \in Tasks, Call(s)
      PROVE  \/ call[t] = "create" /\ CreateQueued(t) /\ status'[t] = "queued"
             \/ call[t] = "fail" /\ RefuseCall(t) /\ status'[t] = "failed" /\ status[t] # "none"
  <2>1. CASE CreateQueued(s) \/ RefuseCall(s)
    BY <2>1 DEF CreateQueued, RefuseCall, Set, TypeOK
  <2>2. CASE Ask(s) \/ Publish(s) \/ PublishTwice(s) \/ PublishFails(s)
    BY <2>2 DEF Ask, Publish, PublishTwice, PublishFails
  <2>3. QED
    BY <1>2, <2>1, <2>2 DEF Call
<1>3. CASE (\E s \in Tasks : LateEffect(s)) \/ Connection
  BY <1>3 DEF LateEffect, Connection, Connect, Expire, AskRefresh, EndRefresh, Disconnect,
              RevokeConsent, RevokeAtGoogle, DeleteToken, DisconnectRaises, taskVars
<1>4. QED
  BY <1>1, <1>2, <1>3 DEF Next

-----------------------------------------------------------------------------
(* What has succeeded, or is about to be called so, has had its effect.       *)

DoneInv ==
    /\ \A t \in Tasks : status[t] = "succeeded" => effects[t] > 0
    /\ \A w \in Workers : at[w] = "succeed" => effects[job[w]] > 0

LEMMA DoneStep ==
    ASSUME TypeOK, DoneInv, Next
    PROVE  DoneInv'
<1>1. ASSUME NEW t \in Tasks, effects[t] > 0
      PROVE  effects'[t] > 0
  BY <1>1, EffectSteps
<1>2. ASSUME NEW t \in Tasks, status'[t] = "succeeded"
      PROVE  effects'[t] > 0
  BY <1>1, <1>2, StatusSteps DEF DoneInv
<1>3. ASSUME NEW w \in Workers, at'[w] = "succeed"
      PROVE  effects'[job'[w]] > 0
  <2>1. CASE at'[w] = at[w] /\ job'[w] = job[w]
    <3>1. job[w] \in Tasks
      BY <1>3, <2>1 DEF TypeOK
    <3>2. QED
      BY <1>1, <1>3, <2>1, <3>1 DEF DoneInv
  <2>2. CASE Handle(w) /\ at[w] # "idle" /\ job'[w] = job[w]
    <3>1. job[w] \in Tasks
      BY <2>2 DEF TypeOK
    <3>2. Reconcile(w) \/ Post(w)
      BY <1>3, <2>2 DEF Handle, Start, Begin, CheckConsent, GetToken, Refresh, Succeed, Fail, Settle,
                        Goes, Leaves, TypeOK
    <3>3. effects[job[w]] > 0 \/ Effect(job[w])
      BY <1>3, <3>2 DEF Reconcile, Post, Goes, TypeOK
    <3>4. QED
      BY <1>1, <2>2, <3>1, <3>3 DEF Effect, TypeOK, Several
  <2>3. CASE Deliver(w) \/ Settle(w) \/ Crash(w) \/ StartRaises(w) \/ WorkRaises(w)
    BY <1>3, <2>3 DEF Deliver, Settle, Crash, StartRaises, WorkRaises, Goes, Leaves, TypeOK
  <2>4. QED
    BY <2>1, <2>2, <2>3, OwnSteps
<1>4. QED
  BY <1>2, <1>3 DEF DoneInv

-----------------------------------------------------------------------------
(* Before its message is out, and for good where it never was, nobody works    *)
(* on a task.                                                              *)

Unsent(t) ==
    \/ call[t] \in {"none", "create", "publish"}
    \/ call[t] \in {"fail", "refused"} /\ t \notin disowned

UnsentInv ==
    \A t \in Tasks :
        /\ call[t] \in {"none", "create"} => status[t] = "none"
        /\ Unsent(t) =>
              /\ queue[t] = 0 /\ status[t] # "succeeded"
              /\ \A w \in Workers : job[w] # t

LEMMA UnsentBefore ==
    ASSUME TypeOK, Next, NEW t \in Tasks, Unsent(t)'
    PROVE  Unsent(t)
<1>1. disowned \subseteq disowned'
  BY DEF Next, Call, Ask, CreateQueued, Publish, PublishTwice, PublishFails, RefuseCall, LateEffect,
         Deliver, Handle, Start, Begin, CheckConsent, GetToken, Refresh, Reconcile, Post, Succeed,
         Fail, Settle, StartRaises, WorkRaises, Crash, ChannelLost, Connection, Connect, Expire,
         AskRefresh, EndRefresh, Disconnect, RevokeConsent, RevokeAtGoogle, DeleteToken, DisconnectRaises, ghostVars
<1>2. call' = call \/ \E s \in Tasks : Call(s)
  BY DEF Next, LateEffect,
         Deliver, Handle, Start, Begin, CheckConsent, GetToken, Refresh, Reconcile, Post, Succeed,
         Fail, Settle, StartRaises, WorkRaises, Crash, ChannelLost, Connection, Connect, Expire,
         AskRefresh, EndRefresh, Disconnect, RevokeConsent, RevokeAtGoogle, DeleteToken, DisconnectRaises, taskVars
<1>3. ASSUME NEW s \in Tasks, Call(s)
      PROVE  Unsent(t)
  <2>1. CASE s = t
    BY <1>1, <1>3, <2>1 DEF Call, Ask, CreateQueued, Publish, PublishTwice, PublishFails, RefuseCall,
                            CallGoes, Unsent, TypeOK
  <2>2. CASE s # t
    BY <1>1, <1>3, <2>2 DEF Call, Ask, CreateQueued, Publish, PublishTwice, PublishFails, RefuseCall,
                            CallGoes, Unsent, TypeOK
  <2>3. QED
    BY <2>1, <2>2
<1>4. QED
  BY <1>1, <1>2, <1>3 DEF Unsent

(* Messages are put in the queue by the publication and by a handler of theirs. *)
LEMMA QueueSteps ==
    ASSUME TypeOK, Next, NEW t \in Tasks
    PROVE  \/ queue'[t] = queue[t]
           \/ /\ \/ Publish(t) /\ queue'[t] = queue[t] + 1
                 \/ PublishTwice(t) /\ t \in doubled'
                 \/ PublishFails(t) /\ queue'[t] = queue[t] + 1 /\ t \in disowned'
           \/ \E w \in Workers : \/ Deliver(w) /\ job'[w] = t /\ queue[t] > 0 /\ queue'[t] = queue[t] - 1
                                 \/ Crash(w) /\ job[w] = t /\ w \in open /\ queue'[t] = queue[t] + 1
                                 \/ ChannelLost(w) /\ job[w] = t /\ t \in doubled'
<1>1. ASSUME NEW s \in Tasks, Call(s), queue'[t] # queue[t]
      PROVE  \/ Publish(t) /\ queue'[t] = queue[t] + 1
             \/ PublishTwice(t) /\ t \in doubled'
             \/ PublishFails(t) /\ queue'[t] = queue[t] + 1 /\ t \in disowned'
  <2>1. CASE Publish(s)
    BY <1>1, <2>1 DEF Publish, Queued, TypeOK
  <2>2. CASE PublishTwice(s)
    BY <1>1, <2>2 DEF PublishTwice, Queued, TypeOK
  <2>3. CASE PublishFails(s)
    BY <1>1, <2>3 DEF PublishFails, Queued, TypeOK
  <2>4. CASE Ask(s) \/ CreateQueued(s) \/ RefuseCall(s)
    BY <1>1, <2>4 DEF Ask, CreateQueued, RefuseCall
  <2>5. QED
    BY <1>1, <2>1, <2>2, <2>3, <2>4 DEF Call
<1>2. ASSUME NEW w \in Workers, Deliver(w), queue'[t] # queue[t]
      PROVE  job'[w] = t /\ queue[t] > 0 /\ queue'[t] = queue[t] - 1
  BY <1>2 DEF Deliver, TypeOK
<1>3. ASSUME NEW w \in Workers, Crash(w), queue'[t] # queue[t]
      PROVE  job[w] = t /\ w \in open /\ queue'[t] = queue[t] + 1
  BY <1>3 DEF Crash, Requeued, Queued, TypeOK
<1>4. ASSUME NEW w \in Workers, ChannelLost(w), queue'[t] # queue[t]
      PROVE  job[w] = t /\ t \in doubled'
  BY <1>4 DEF ChannelLost, Requeued, Queued, TypeOK
<1>5. ASSUME NEW w \in Workers, Handle(w) \/ StartRaises(w) \/ WorkRaises(w)
      PROVE  queue' = queue
  BY <1>5 DEF Handle, Start, Begin, CheckConsent, GetToken, Refresh, Reconcile, Post, Succeed,
              Fail, Settle, StartRaises, WorkRaises, taskVars
<1>6. CASE Connection \/ \E s \in Tasks : LateEffect(s)
  BY <1>6 DEF LateEffect, Connection, Connect, Expire, AskRefresh, EndRefresh, Disconnect,
              RevokeConsent, RevokeAtGoogle, DeleteToken, DisconnectRaises, taskVars
<1>7. QED
  BY <1>1, <1>2, <1>3, <1>4, <1>5, <1>6 DEF Next

(* A handler has the task it had, none, or one whose message waited.         *)
LEMMA JobSteps ==
    ASSUME TypeOK, Next, NEW w \in Workers, NEW t \in Tasks, job'[w] = t
    PROVE  job[w] = t \/ (Deliver(w) /\ queue[t] > 0)
<1>1. CASE Deliver(w)
  BY <1>1 DEF Deliver, TypeOK
<1>2. CASE Settle(w) \/ Crash(w)
  BY <1>2, Bounds DEF Settle, Crash, Leaves, TypeOK
<1>3. QED
  BY <1>1, <1>2, OwnSteps

LEMMA GhostsGrow ==
    ASSUME Next
    PROVE  doubled \subseteq doubled' /\ disowned \subseteq disowned'
BY DEF Next, Call, Ask, CreateQueued, Publish, PublishTwice, PublishFails, RefuseCall, LateEffect,
       Deliver, Handle, Start, Begin, CheckConsent, GetToken, Refresh, Reconcile, Post, Succeed,
       Fail, Settle, StartRaises, WorkRaises, Crash, ChannelLost, Abandoned, Connection, Connect,
       Expire, AskRefresh, EndRefresh, Disconnect, RevokeConsent, RevokeAtGoogle, DeleteToken, DisconnectRaises, ghostVars

LEMMA UnsentStep ==
    ASSUME TypeOK, UnsentInv, Next
    PROVE  UnsentInv'
<1>1. SUFFICES ASSUME NEW t \in Tasks
               PROVE  /\ call'[t] \in {"none", "create"} => status'[t] = "none"
                      /\ Unsent(t)' => /\ queue'[t] = 0 /\ status'[t] # "succeeded"
                                       /\ \A w \in Workers : job'[w] # t
  BY DEF UnsentInv
<1>2. ASSUME Unsent(t)'
      PROVE  /\ queue'[t] = 0 /\ status'[t] # "succeeded"
             /\ \A w \in Workers : job'[w] # t
  <2>1. /\ Unsent(t) /\ queue[t] = 0 /\ status[t] # "succeeded"
        /\ \A w \in Workers : job[w] # t
    BY <1>2, UnsentBefore DEF UnsentInv
  <2>2. queue'[t] = 0
    <3>1. ~Publish(t) /\ ~PublishTwice(t)
      BY <1>2 DEF Publish, PublishTwice, CallGoes, Unsent, TypeOK
    <3>2. ~(PublishFails(t) /\ t \in disowned')
      BY <1>2 DEF PublishFails, CallGoes, Unsent, TypeOK
    <3>3. QED
      BY <2>1, <3>1, <3>2, QueueSteps
  <2>3. \A w \in Workers : job'[w] # t
    BY <2>1, JobSteps
  <2>4. status'[t] # "succeeded"
    BY <2>1, StatusSteps
  <2>5. QED
    BY <2>2, <2>3, <2>4
<1>3. ASSUME call'[t] \in {"none", "create"}
      PROVE  status'[t] = "none"
  <2>1. call[t] \in {"none", "create"}
    <3>1. CASE \E s \in Tasks : Call(s)
      BY <1>3, <3>1 DEF Call, Ask, CreateQueued, Publish, PublishTwice, PublishFails, RefuseCall,
                        CallGoes, TypeOK
    <3>2. CASE call' = call
      BY <1>3, <3>2
    <3>3. QED
      BY <3>1, <3>2 DEF Next, LateEffect,
         Deliver, Handle, Start, Begin, CheckConsent, GetToken, Refresh, Reconcile, Post, Succeed,
         Fail, Settle, StartRaises, WorkRaises, Crash, ChannelLost, Connection, Connect, Expire,
         AskRefresh, EndRefresh, Disconnect, RevokeConsent, RevokeAtGoogle, DeleteToken, DisconnectRaises, taskVars
  <2>2. status[t] = "none" /\ \A w \in Workers : job[w] # t
    BY <2>1 DEF UnsentInv, Unsent
  <2>3. ~CreateQueued(t)
    BY <1>3 DEF CreateQueued, CallGoes, TypeOK
  <2>4. QED
    BY <2>2, <2>3, StatusSteps
<1>4. QED
  BY <1>2, <1>3

-----------------------------------------------------------------------------
(* The message of a task whose deliveries do not overlap is in one place.     *)

Once(t) ==
    /\ queue[t] <= 1 /\ effects[t] <= 1 /\ t \notin late
    /\ \A w \in Workers : job[w] = t =>
          /\ queue[t] = 0 /\ w \in open
          /\ at[w] = "post" => effects[t] = 0
          /\ \A v \in Workers : job[v] = t => v = w

OnceInv == \A t \in Tasks \ doubled : Once(t)

LEMMA LateSteps ==
    ASSUME Next
    PROVE  late' \subseteq late \cup doubled'
BY DEF Next, Call, Ask, CreateQueued, Publish, PublishTwice, PublishFails, RefuseCall, LateEffect,
       Deliver, Handle, Start, Begin, CheckConsent, GetToken, Refresh, Reconcile, Post, Succeed,
       Fail, Settle, StartRaises, WorkRaises, Crash, ChannelLost, Abandoned, Connection, Connect,
       Expire, AskRefresh, EndRefresh, Disconnect, RevokeConsent, RevokeAtGoogle, DeleteToken, DisconnectRaises, googleVars

LEMMA OpenSteps ==
    ASSUME Next, NEW w \in Workers, w \in open
    PROVE  w \in open' \/ Settle(w) \/ Crash(w) \/ ChannelLost(w)
BY DEF Next, Call, Ask, CreateQueued, Publish, PublishTwice, PublishFails, RefuseCall, LateEffect,
       Deliver, Handle, Start, Begin, CheckConsent, GetToken, Refresh, Reconcile, Post, Succeed,
       Fail, Settle, StartRaises, WorkRaises, Crash, ChannelLost, Connection, Connect,
       Expire, AskRefresh, EndRefresh, Disconnect, RevokeConsent, RevokeAtGoogle, DeleteToken, DisconnectRaises, workVars,
       Goes, Leaves

LEMMA OnceStep ==
    ASSUME TypeOK, UnsentInv, OnceInv, Next
    PROVE  OnceInv'
<1>1. SUFFICES ASSUME NEW t \in Tasks, t \notin doubled'
               PROVE  Once(t)'
  BY DEF OnceInv
<1>2. Once(t)
  BY <1>1, GhostsGrow DEF OnceInv
<1>3. Publish(t) \/ PublishFails(t) => queue[t] = 0 /\ \A w \in Workers : job[w] # t
  BY DEF Publish, PublishFails, UnsentInv, Unsent
<1>4. queue'[t] <= 1
  <2>1. queue[t] \in Nat
    BY DEF TypeOK
  <2>2. QED
    BY <1>1, <1>2, <1>3, <2>1, QueueSteps DEF Once
<1>5. effects'[t] <= 1
  <2>1. ~LateEffect(t)
    BY <1>2 DEF LateEffect, Once
  <2>2. QED
    BY <1>2, <2>1, EffectSteps DEF Once
<1>6. t \notin late'
  BY <1>1, <1>2, LateSteps DEF Once
<1>7. ASSUME NEW w \in Workers, job'[w] = t, job[w] = t
      PROVE  /\ queue'[t] = 0 /\ w \in open'
             /\ at'[w] = "post" => effects'[t] = 0
  <2>1. /\ queue[t] = 0 /\ w \in open
        /\ at[w] = "post" => effects[t] = 0
        /\ \A v \in Workers : job[v] = t => v = w
    BY <1>2, <1>7 DEF Once
  <2>2. ~Settle(w) /\ ~Crash(w)
    BY <1>7, Bounds DEF Settle, Crash, Leaves, TypeOK
  <2>3. ~ChannelLost(w)
    BY <1>1, <1>7 DEF ChannelLost
  <2>4. queue'[t] = 0
    BY <1>1, <1>3, <1>7, <2>1, <2>2, <2>3, QueueSteps
  <2>5. w \in open'
    BY <2>1, <2>2, <2>3, OpenSteps
  <2>6. ASSUME at'[w] = "post"
        PROVE  effects'[t] = 0
    <3>1. ~Post(w) /\ ~WorkRaises(w) /\ ~LateEffect(t)
      BY <1>2, <2>6 DEF Post, WorkRaises, Goes, TypeOK, LateEffect, Once
    <3>2. effects'[t] = effects[t]
      BY <2>1, <2>2, <3>1, EffectSteps
    <3>3. at[w] = "post" \/ (Handle(w) /\ at[w] # "post") \/ StartRaises(w)
      BY <2>2, <2>6, <3>1, OwnSteps DEF Deliver, TypeOK
    <3>4. CASE Handle(w) /\ at[w] # "post"
      <4>1. Reconcile(w)
        BY <2>6, <3>4 DEF Handle, Start, Begin, CheckConsent, GetToken, Refresh, Post, Succeed,
                          Fail, Settle, Goes, Leaves, TypeOK
      <4>2. effects[t] \in 0 .. Several
        BY DEF TypeOK
      <4>3. effects[t] = 0
        BY <1>7, <2>6, <4>1, <4>2 DEF Reconcile, Goes, TypeOK, Several
      <4>4. QED
        BY <3>2, <4>3
    <3>5. ~StartRaises(w)
      BY <2>6 DEF StartRaises, Goes, TypeOK
    <3>6. QED
      BY <2>1, <3>2, <3>3, <3>4, <3>5
  <2>7. QED
    BY <2>4, <2>5, <2>6
<1>8. ASSUME NEW w \in Workers, Deliver(w), queue[t] > 0, job'[w] = t
      PROVE  queue'[t] = 0 /\ w \in open' /\ at'[w] # "post"
  <2>1. queue[t] = 1
    BY <1>2, <1>8 DEF Once, TypeOK
  <2>2. queue'[t] = queue[t] - 1
    BY <1>8 DEF Deliver, TypeOK
  <2>3. QED
    BY <1>8, <2>1, <2>2 DEF Deliver, TypeOK
<1>9. ASSUME NEW w \in Workers, NEW v \in Workers, job'[w] = t, job'[v] = t
      PROVE  v = w
  <2>1. CASE job[w] = t /\ job[v] = t
    BY <1>2, <2>1 DEF Once
  <2>2. CASE Deliver(w) /\ queue[t] > 0
    <3>1. job[v] # t
      BY <1>2, <2>2 DEF Once
    <3>2. Deliver(v)
      BY <1>9, <3>1, JobSteps
    <3>3. QED
      BY <2>2, <3>2 DEF Deliver, TypeOK
  <2>3. CASE Deliver(v) /\ queue[t] > 0
    <3>1. job[w] # t
      BY <1>2, <2>3 DEF Once
    <3>2. Deliver(w)
      BY <1>9, <3>1, JobSteps
    <3>3. QED
      BY <2>3, <3>2 DEF Deliver, TypeOK
  <2>4. QED
    BY <1>9, <2>1, <2>2, <2>3, JobSteps
<1>10. QED
  BY <1>4, <1>5, <1>6, <1>7, <1>8, <1>9, JobSteps DEF Once

-----------------------------------------------------------------------------
(* A handler that is at work on a task has not found it succeeded.           *)

UndoneInv ==
    \A w \in Workers :
        at[w] \in Working /\ job[w] \notin doubled \cup disowned => status[job[w]] # "succeeded"

LEMMA UndoneStep ==
    ASSUME TypeOK, OnceInv, UndoneInv, Next
    PROVE  UndoneInv'
<1>1. SUFFICES ASSUME NEW w \in Workers, at'[w] \in Working, job'[w] \notin doubled' \cup disowned'
               PROVE  status'[job'[w]] # "succeeded"
  BY DEF UndoneInv
<1>2. ~Deliver(w) /\ ~Settle(w) /\ ~Crash(w) /\ ~StartRaises(w) /\ ~Succeed(w)
  BY <1>1 DEF Deliver, Settle, Crash, StartRaises, Succeed, Goes, Leaves, TypeOK, Working, Trusted
<1>3. job'[w] = job[w] /\ at[w] # "idle"
  BY <1>1, <1>2, OwnSteps DEF Working, Trusted
<1>4. job[w] \in Tasks /\ job[w] \notin doubled \cup disowned
  BY <1>1, <1>3, GhostsGrow DEF TypeOK
<1>5. status[job[w]] # "succeeded"
  <2>1. CASE at[w] \in Working
    BY <1>4, <2>1 DEF UndoneInv
  <2>2. CASE at[w] \notin Working
    <3>1. at[w] # at'[w]
      BY <1>1, <2>2
    <3>2. Handle(w) \/ WorkRaises(w)
      BY <1>2, <3>1, OwnSteps
    <3>3. Start(w)
      BY <1>2, <2>2, <3>2 DEF Handle, WorkRaises, Begin, CheckConsent, GetToken, Refresh, Reconcile, Post,
                              Fail, Working, Trusted
    <3>4. status[job[w]] = "succeeded" => at'[w] = "settle"
      BY <3>3, Zenon DEF Start, Goes, TypeOK
    <3>5. QED
      BY <1>1, <3>4 DEF Working, Trusted
  <2>3. QED
    BY <2>1, <2>2
<1>6. ASSUME status'[job[w]] = "succeeded"
      PROVE  FALSE
  <2>1. PICK v \in Workers : /\ job[v] = job[w]
                             /\ Succeed(v) \/ job[w] \in disowned'
    BY <1>4, <1>5, <1>6, StatusSteps
  <2>2. Succeed(v)
    BY <1>1, <1>3, <2>1
  <2>3. v = w
    BY <1>4, <2>1 DEF OnceInv, Once
  <2>4. QED
    BY <1>2, <2>2, <2>3
<1>7. QED
  BY <1>3, <1>6

-----------------------------------------------------------------------------
(* What disconnecting has barred.                                          *)

BarredInv ==
    /\ barred # {} => ~consent
    /\ barred \cap late = {}
    /\ \A w \in Workers : at[w] \in Trusted => job[w] \notin barred

GoneInv == gone => token = "none" /\ ~renewing /\ \A w \in Workers : at[w] # "refresh"

LEMMA BarredStep ==
    ASSUME TypeOK, BarredInv, Next
    PROVE  BarredInv'
<1>1. CASE Connection
  BY <1>1 DEF Connection, Connect, Expire, AskRefresh, EndRefresh, Disconnect, RevokeConsent,
              RevokeAtGoogle, DeleteToken, DisconnectRaises, Barred, BarredInv, workVars, googleVars
<1>2. CASE UNCHANGED <<barred, consent>>
  <2>1. barred' \cap late' = {}
    <3>1. ASSUME NEW t \in late', t \notin late
          PROVE  \E w \in Workers : at[w] = "post" /\ job[w] = t
      BY <1>2, <3>1 DEF Next, Call, Ask, CreateQueued, Publish, PublishTwice, PublishFails, RefuseCall,
         LateEffect, Deliver, Handle, Start, Begin, CheckConsent, GetToken, Refresh, Reconcile, Post,
         Succeed, Fail, Settle, StartRaises, WorkRaises, Crash, ChannelLost, Abandoned, Connection,
         Connect, Expire, AskRefresh, EndRefresh, Disconnect, RevokeConsent, RevokeAtGoogle,
         DeleteToken, DisconnectRaises, googleVars
    <3>2. QED
      BY <1>2, <3>1 DEF BarredInv, Trusted
  <2>2. ASSUME NEW w \in Workers, at'[w] \in Trusted
        PROVE  job'[w] \notin barred'
    <3>1. ~Deliver(w) /\ ~Settle(w) /\ ~Crash(w) /\ ~StartRaises(w) /\ ~WorkRaises(w)
      BY <2>2 DEF Deliver, Settle, Crash, StartRaises, WorkRaises, Goes, Leaves, TypeOK, Trusted
    <3>2. job'[w] = job[w]
      BY <3>1, OwnSteps
    <3>3. at[w] \in Trusted \/ (CheckConsent(w) /\ consent)
      <4>1. CASE Handle(w)
        BY <2>2, <4>1 DEF Handle, Start, Begin, CheckConsent, GetToken, Refresh, Reconcile, Post,
                          Succeed, Fail, Settle, Goes, Leaves, TypeOK, Trusted
      <4>2. QED
        BY <2>2, <3>1, <4>1, OwnSteps
    <3>4. QED
      BY <1>2, <3>2, <3>3 DEF BarredInv
  <2>3. QED
    BY <1>2, <2>1, <2>2 DEF BarredInv
<1>3. QED
  BY <1>1, <1>2 DEF Next, Call, Ask, CreateQueued, Publish, PublishTwice, PublishFails, RefuseCall,
     LateEffect, Deliver, Handle, Start, Begin, CheckConsent, GetToken, Refresh, Reconcile, Post,
     Succeed, Fail, Settle, StartRaises, WorkRaises, Crash, ChannelLost, userVars

LEMMA GoneStep ==
    ASSUME TypeOK, GoneInv, Next
    PROVE  GoneInv'
<1>1. CASE Connection
  BY <1>1 DEF Connection, Connect, Expire, AskRefresh, EndRefresh, Disconnect, RevokeConsent,
              RevokeAtGoogle, DeleteToken, DisconnectRaises, GoneInv, workVars
<1>2. CASE UNCHANGED <<gone, renewing>> /\ (token' = token \/ \E w \in Workers : Refresh(w))
  <2>1. SUFFICES ASSUME gone
                 PROVE  token' = "none" /\ ~renewing' /\ \A w \in Workers : at'[w] # "refresh"
    BY <1>2 DEF GoneInv
  <2>2. token = "none" /\ ~renewing /\ \A w \in Workers : at[w] # "refresh"
    BY <2>1 DEF GoneInv
  <2>3. token' = "none" /\ ~renewing'
    BY <1>2, <2>2 DEF Refresh
  <2>4. ASSUME NEW w \in Workers
        PROVE  at'[w] # "refresh"
    <3>1. CASE Deliver(w) \/ Settle(w) \/ Crash(w) \/ StartRaises(w) \/ WorkRaises(w)
      BY <3>1 DEF Deliver, Settle, Crash, StartRaises, WorkRaises, Goes, Leaves, TypeOK
    <3>2. CASE GetToken(w)
      BY <2>2, <3>2, Zenon DEF GetToken, Goes, TypeOK
    <3>3. CASE Handle(w) /\ ~GetToken(w)
      BY <2>2, <3>3 DEF Handle, Start, Begin, CheckConsent, Refresh, Reconcile, Post,
                        Succeed, Fail, Settle, Goes, Leaves, TypeOK
    <3>4. QED
      BY <2>2, <3>1, <3>2, <3>3, OwnSteps
  <2>5. QED
    BY <2>3, <2>4
<1>3. QED
  BY <1>1, <1>2 DEF Next, Call, Ask, CreateQueued, Publish, PublishTwice, PublishFails, RefuseCall,
     LateEffect, Deliver, Handle, Start, Begin, CheckConsent, GetToken, Refresh, Reconcile, Post,
     Succeed, Fail, Settle, StartRaises, WorkRaises, Crash, ChannelLost, userVars

-----------------------------------------------------------------------------
(* Together.                                                               *)

IInv == TypeOK /\ DoneInv /\ UnsentInv /\ OnceInv /\ UndoneInv /\ BarredInv /\ GoneInv

LEMMA IInvInit == Init => IInv
<1>1. Init => TypeOK
  BY TypeCorrectInit
<1>2. Init => DoneInv /\ UndoneInv /\ BarredInv /\ GoneInv
  BY DEF Init, DoneInv, UndoneInv, BarredInv, GoneInv, Working, Trusted
<1>3. ASSUME Init, NEW t \in Tasks
      PROVE  /\ status[t] = "none" /\ queue[t] = 0 /\ effects[t] = 0
             /\ \A w \in Workers : job[w] # t
  <2>1. t # NoTask
    BY Bounds
  <2>2. QED
    BY <1>3, <2>1 DEF Init
<1>4. Init => UnsentInv /\ OnceInv
  <2>1. SUFFICES ASSUME Init
                 PROVE  UnsentInv /\ OnceInv
    OBVIOUS
  <2>2. UnsentInv
    BY <1>3, <2>1 DEF UnsentInv
  <2>3. late = {}
    BY <2>1 DEF Init
  <2>4. ASSUME NEW t \in Tasks
        PROVE  Once(t)
    <3>1. queue[t] = 0 /\ effects[t] = 0 /\ \A w \in Workers : job[w] # t
      BY <1>3, <2>1
    <3>2. QED
      BY <2>3, <3>1 DEF Once
  <2>5. QED
    BY <2>2, <2>4 DEF OnceInv
<1>5. QED
  BY <1>1, <1>2, <1>4 DEF IInv

LEMMA IInvStep ==
    ASSUME IInv, [Next]_vars
    PROVE  IInv'
<1>1. CASE Next
  BY <1>1, TypeStep, DoneStep, UnsentStep, OnceStep, UndoneStep, BarredStep, GoneStep DEF IInv
<1>2. CASE UNCHANGED vars
  BY <1>2, TypeStep DEF vars, taskVars, workVars, googleVars, userVars, ghostVars, IInv, DoneInv,
     UnsentInv, Unsent, OnceInv, Once, UndoneInv, BarredInv, GoneInv
<1>3. QED
  BY <1>1, <1>2

LEMMA Inductive == Spec => []IInv
BY IInvInit, IInvStep, PTL DEF Spec

(* A task that is said to have succeeded has had its effect, and one whose     *)
(* deliveries and requests do not overlap has at most one, through any number  *)
(* of crashes, redeliveries and errors.                                      *)
THEOREM EffectIsSingle == Spec => []OneEffect
<1>1. IInv => OneEffect
  BY DEF IInv, DoneInv, OnceInv, Once, OneEffect
<1>2. QED
  BY <1>1, Inductive, PTL

(* A success stands: no other handler of its message, and no error of the call *)
(* that published it, takes it back, but for the named exceptions.             *)
THEOREM SuccessStands == Spec => SucceededIsFinal
<1>1. ASSUME IInv, [Next]_vars, NEW t \in Tasks \ (doubled \cup disowned), status[t] = "succeeded"
      PROVE  status'[t] = "succeeded"
  <2>1. CASE UNCHANGED vars
    BY <1>1, <2>1 DEF vars, taskVars
  <2>2. CASE Next
    <3>1. SUFFICES ASSUME status'[t] # "succeeded"
                   PROVE  FALSE
      OBVIOUS
    <3>2. ~Unsent(t)
      BY <1>1 DEF IInv, UnsentInv
    <3>3. ~(call[t] \in {"create", "fail"})
      BY <1>1, <3>2 DEF Unsent
    <3>4. PICK w \in Workers : job[w] = t /\ at[w] \in {"begin", "fail"}
      BY <1>1, <2>2, <3>1, <3>3, StatusSteps DEF IInv
    <3>5. QED
      BY <1>1, <3>4 DEF IInv, UndoneInv, Working
  <2>3. QED
    BY <1>1, <2>1, <2>2
<1>2. IInv /\ [Next]_vars =>
        [\A t \in Tasks \ (doubled \cup disowned) :
            status[t] = "succeeded" => status'[t] = "succeeded"]_vars
  BY <1>1
<1>3. QED
  BY <1>2, Inductive, PTL DEF Spec, SucceededIsFinal

(* From the commit that revokes consent until the user connects again, nothing *)
(* happens in the user's name that had not passed the check; and a token that  *)
(* no refresh can write back stays deleted.                                  *)
THEOREM DisconnectIsKept == Spec => DisconnectHolds
<1>1. ASSUME IInv, Next, NEW t \in Tasks, t \in barred
      PROVE  effects'[t] = effects[t]
  <2>1. ~LateEffect(t)
    BY <1>1 DEF IInv, BarredInv, LateEffect
  <2>2. ~\E w \in Workers : at[w] = "post" /\ job[w] = t
    BY <1>1 DEF IInv, BarredInv, Trusted
  <2>3. QED
    BY <1>1, <2>1, <2>2, EffectSteps DEF IInv
<1>2. IInv /\ Next => (gone' => token' = "none")
  BY IInvStep DEF IInv, GoneInv
<1>3. IInv => barred \subseteq Tasks
  BY DEF IInv, TypeOK
<1>4. IInv /\ [Next]_vars =>
        [/\ \A t \in barred \cap barred' : effects'[t] = effects[t]
         /\ gone /\ gone' => token' = "none"]_vars
  BY <1>1, <1>2, <1>3
<1>5. QED
  BY <1>4, Inductive, PTL DEF Spec, DisconnectHolds
-----------------------------------------------------------------------------
(* The refinement of SingleEffect.                                          *)

(* Nothing was done for a call that may yet be refused, and a handler that is  *)
(* at work on a task has called it running.                                  *)
AnswerInv ==
    \A t \in Tasks \ Void :
        /\ Unsent(t) => effects[t] = 0
        /\ call[t] \in {"create", "publish", "fail"} => status[t] \in {"none", "queued"}

Begun == Working \ {"begin"}

RunningInv ==
    \A w \in Workers : at[w] \in Begun /\ job[w] \notin Void => status[job[w]] = "running"

LEMMA CallSteps ==
    ASSUME TypeOK, Next, NEW t \in Tasks, call'[t] # call[t]
    PROVE  Call(t)
<1>1. PICK s \in Tasks : Call(s)
  BY DEF Next, LateEffect,
         Deliver, Handle, Start, Begin, CheckConsent, GetToken, Refresh, Reconcile, Post, Succeed,
         Fail, Settle, StartRaises, WorkRaises, Crash, ChannelLost, Connection, Connect, Expire,
         AskRefresh, EndRefresh, Disconnect, RevokeConsent, RevokeAtGoogle, DeleteToken, DisconnectRaises, taskVars
<1> QED
  BY <1>1 DEF Call, Ask, CreateQueued, Publish, PublishTwice, PublishFails, RefuseCall, CallGoes, TypeOK

LEMMA AnswerStep ==
    ASSUME IInv, AnswerInv, Next
    PROVE  AnswerInv'
<1>1. SUFFICES ASSUME NEW t \in Tasks, t \notin Void'
               PROVE  /\ Unsent(t)' => effects'[t] = 0
                      /\ call'[t] \in {"create", "publish", "fail"} => status'[t] \in {"none", "queued"}
  BY DEF AnswerInv
<1>2. TypeOK /\ t \notin Void /\ Once(t)
  BY <1>1, GhostsGrow DEF Void, IInv, OnceInv
<1>3. Unsent(t)' => Unsent(t) /\ \A w \in Workers : job[w] # t
  BY <1>2, UnsentBefore DEF IInv, UnsentInv
<1>4. ASSUME Unsent(t)'
      PROVE  effects'[t] = 0
  <2>1. effects[t] = 0
    BY <1>2, <1>3, <1>4 DEF AnswerInv
  <2>2. ~LateEffect(t)
    BY <1>2 DEF LateEffect, Once
  <2> QED
    BY <1>2, <1>3, <1>4, <2>1, <2>2, EffectSteps
<1>5. ASSUME call'[t] \in {"create", "publish", "fail"}
      PROVE  status'[t] \in {"none", "queued"}
  <2>1. Unsent(t)'
    BY <1>1, <1>5 DEF Unsent, Void
  <2>2. call[t] \in {"none", "create", "publish", "fail"}
    BY <1>2, <1>5, CallSteps DEF Call, Ask, CreateQueued, Publish, PublishTwice, PublishFails, RefuseCall
  <2>3. status[t] \in {"none", "queued"}
    BY <1>2, <2>2 DEF AnswerInv, IInv, UnsentInv
  <2>4. ~RefuseCall(t)
    BY <1>2, <1>5 DEF RefuseCall, CallGoes, TypeOK
  <2> QED
    BY <1>2, <1>3, <2>1, <2>3, <2>4, StatusSteps
<1> QED
  BY <1>4, <1>5

LEMMA RunningStep ==
    ASSUME IInv, RunningInv, Next
    PROVE  RunningInv'
<1>1. SUFFICES ASSUME NEW w \in Workers, at'[w] \in Begun, job'[w] \notin Void'
               PROVE  status'[job'[w]] = "running"
  BY DEF RunningInv
<1>2. ~Deliver(w) /\ ~Settle(w) /\ ~Crash(w) /\ ~StartRaises(w) /\ ~Succeed(w) /\ ~Fail(w) /\ TypeOK
  BY <1>1 DEF Deliver, Settle, Crash, StartRaises, Succeed, Fail, Goes, Leaves, IInv, TypeOK, Begun, Working,
              Trusted
<1>3. job'[w] = job[w] /\ at[w] # "idle"
  BY <1>1, <1>2, OwnSteps DEF Begun, Working, Trusted
<1>4. job[w] \in Tasks /\ job[w] \notin Void /\ Once(job[w])
  BY <1>1, <1>2, <1>3, GhostsGrow DEF TypeOK, IInv, OnceInv, Void
<1>5. status[job[w]] = "running" \/ status'[job[w]] = "running"
  <2>1. CASE at[w] \in Begun
    BY <1>4, <2>1 DEF RunningInv
  <2>2. CASE at[w] \notin Begun
    <3>1. Handle(w) \/ WorkRaises(w)
      BY <1>1, <1>2, <2>2, OwnSteps
    <3>2. Start(w) \/ Begin(w)
      BY <1>2, <2>2, <3>1 DEF Handle, WorkRaises, CheckConsent, GetToken, Refresh, Reconcile, Post,
                              Begun, Working, Trusted
    <3>3. CASE Start(w)
      <4>1. at'[w] \in {"settle", "begin"} \/ status[job[w]] = "running"
        BY <1>2, <3>3, Zenon DEF Start, Goes, TypeOK
      <4> QED
        BY <1>1, <4>1 DEF Begun, Working, Trusted
    <3>4. CASE Begin(w)
      BY <1>2, <1>4, <3>4 DEF Begin, Set, TypeOK
    <3> QED
      BY <3>2, <3>3, <3>4
  <2> QED
    BY <2>1, <2>2
<1>6. ASSUME status'[job[w]] # status[job[w]]
      PROVE  status'[job[w]] = "running"
  <2>1. ~(call[job[w]] \in {"create", "fail"})
    BY <1>4 DEF Void, IInv, UnsentInv, Unsent
  <2>2. PICK v \in Workers :
           /\ job[v] = job[w]
           /\ \/ status'[job[w]] = "running"
              \/ Succeed(v) \/ job[w] \in disowned'
              \/ Fail(v)
    BY <1>2, <1>4, <1>6, <2>1, StatusSteps
  <2>3. v = w
    BY <1>4, <2>2 DEF Once
  <2> QED
    BY <1>1, <1>2, <1>3, <2>2, <2>3 DEF Void
<1> QED
  BY <1>3, <1>5, <1>6

FullInv == IInv /\ AnswerInv /\ RunningInv

LEMMA FullInductive == Spec => []FullInv
<1>1. Init => AnswerInv /\ RunningInv
  BY DEF Init, AnswerInv, RunningInv, Begun, Working, Trusted
<1>2. ASSUME FullInv, [Next]_vars
      PROVE  FullInv'
  <2>1. CASE Next
    BY <1>2, <2>1, IInvStep, AnswerStep, RunningStep DEF FullInv
  <2>2. CASE UNCHANGED vars
    <3>1. IInv'
      BY <1>2, IInvStep DEF FullInv
    <3>2. AnswerInv' /\ RunningInv'
      BY <1>2, <2>2 DEF FullInv, AnswerInv, RunningInv, Unsent, Void, vars, taskVars, workVars, googleVars,
                        userVars, ghostVars
    <3> QED
      BY <3>1, <3>2 DEF FullInv
  <2> QED
    BY <1>2, <2>1, <2>2
<1> QED
  BY <1>1, <1>2, IInvInit, PTL DEF Spec, FullInv

(* What a step may do to one task: nothing to be seen, or one step of its order. *)
Untouched(t) ==
    /\ status'[t] = status[t] /\ call'[t] = call[t] /\ effects'[t] = effects[t]
    /\ t \in doubled' <=> t \in doubled
    /\ t \in disowned' <=> t \in disowned

Keeps(t) == Word(t)' = Word(t) /\ Done(t)' = Done(t)

Turns(t, answer) == Word(t)' = answer /\ Done(t)' = Done(t)

Fares(t) ==
    \/ Word(t) \in {"none", "failed"} /\ Turns(t, "open")
    \/ /\ Word(t) = "open" /\ Done(t) = 0 /\ t \notin barred
       /\ Word(t)' = "open" /\ Done(t)' = 1
    \/ Word(t) = "open" /\ Done(t) = 1 /\ Turns(t, "succeeded")
    \/ Word(t) = "open" /\ Turns(t, "failed")
    \/ Word(t) \in {"none", "open"} /\ Done(t) = 0 /\ Turns(t, "refused")
    \/ Word(t) # "void" /\ Word(t)' = "void" /\ Done(t)' = 0

LEMMA UntouchedKeeps ==
    ASSUME NEW t \in Tasks, Untouched(t)
    PROVE  Keeps(t)
BY DEF Untouched, Keeps, Word, Done, Void

Words == [t \in Tasks |-> Word(t)]

Deeds == [t \in Tasks |-> Done(t)]

LEMMA OneTaskFares ==
    ASSUME NEW t \in Tasks, \A s \in Tasks : s # t => Keeps(s), Keeps(t) \/ Fares(t), barred' = barred
    PROVE  [Order!ANext]_Order!avars
<1>1. ASSUME NEW answer, NEW n, Word(t)' = answer, Done(t)' = n
      PROVE  Words' = [Words EXCEPT ![t] = answer] /\ Deeds' = [Deeds EXCEPT ![t] = n]
  BY <1>1 DEF Words, Deeds, Keeps
<1>2. Words[t] = Word(t) /\ Deeds[t] = Done(t)
  BY DEF Words, Deeds
<1>3. CASE Keeps(t)
  <2>1. Words' = Words /\ Deeds' = Deeds
    BY <1>2, <1>3 DEF Words, Deeds, Keeps
  <2> QED
    BY <2>1 DEF Order!avars, Words, Deeds
<1>4. ASSUME NEW answer, Turns(t, answer)
      PROVE  Words' = [Words EXCEPT ![t] = answer] /\ Deeds' = Deeds
  BY <1>4 DEF Turns, Keeps, Words, Deeds
<1>5. CASE Fares(t)
  <2>1. CASE Word(t) \in {"none", "failed"} /\ Turns(t, "open")
    <3>1. Order!Take(t)
      BY <1>2, <1>4, <2>1 DEF Order!Take, Order!Says, Words, Deeds
    <3> QED
      BY <3>1 DEF Order!ANext
  <2>2. CASE /\ Word(t) = "open" /\ Done(t) = 0 /\ t \notin barred
             /\ Word(t)' = "open" /\ Done(t)' = 1
    <3>1. Words' = Words
      BY <1>1, <1>2, <2>2 DEF Words
    <3>2. Deeds' = [Deeds EXCEPT ![t] = 1]
      BY <1>1, <2>2
    <3>3. Order!Perform(t)
      BY <1>2, <2>2, <3>1, <3>2 DEF Order!Perform, Words, Deeds
    <3> QED
      BY <3>3 DEF Order!ANext
  <2>3. CASE Word(t) = "open" /\ Done(t) = 1 /\ Turns(t, "succeeded")
    <3>1. Order!Succeed(t)
      BY <1>2, <1>4, <2>3 DEF Order!Succeed, Order!Says, Words, Deeds
    <3> QED
      BY <3>1 DEF Order!ANext
  <2>4. CASE Word(t) = "open" /\ Turns(t, "failed")
    <3>1. Order!Fail(t)
      BY <1>2, <1>4, <2>4 DEF Order!Fail, Order!Says, Words, Deeds
    <3> QED
      BY <3>1 DEF Order!ANext
  <2>5. CASE Word(t) \in {"none", "open"} /\ Done(t) = 0 /\ Turns(t, "refused")
    <3>1. Order!Refuse(t)
      BY <1>2, <1>4, <2>5 DEF Order!Refuse, Order!Says, Words, Deeds
    <3> QED
      BY <3>1 DEF Order!ANext
  <2>6. CASE Word(t) # "void" /\ Word(t)' = "void" /\ Done(t)' = 0
    <3>1. Order!Lapse(t)
      BY <1>1, <1>2, <2>6 DEF Order!Lapse, Order!Says, Words, Deeds
    <3> QED
      BY <3>1 DEF Order!ANext
  <2> QED
    BY <1>5, <2>1, <2>2, <2>3, <2>4, <2>5, <2>6 DEF Fares
<1> QED
  BY <1>3, <1>5

(* A call, a late request or a handler touches its own task only.            *)
LEMMA OwnTask ==
    ASSUME TypeOK, NEW t,
           \/ t \in Tasks /\ (Call(t) \/ LateEffect(t))
           \/ \E w \in Workers :
                 /\ t = job[w]
                 /\ \/ Deliver(w) \/ Handle(w) \/ StartRaises(w) \/ WorkRaises(w)
                    \/ Crash(w) \/ ChannelLost(w)
    PROVE  barred' = barred /\ \A s \in Tasks : s # t => Untouched(s)
<1>1. CASE t \in Tasks /\ (Call(t) \/ LateEffect(t))
  BY <1>1 DEF Call, Ask, CreateQueued, Publish, PublishTwice, PublishFails, RefuseCall, LateEffect, CallGoes,
              Set, Effect, Untouched, TypeOK, taskVars, googleVars, userVars, ghostVars
<1>2. ASSUME NEW w \in Workers, t = job[w],
             Deliver(w) \/ StartRaises(w) \/ WorkRaises(w) \/ Crash(w) \/ ChannelLost(w)
      PROVE  barred' = barred /\ \A s \in Tasks : s # t => Untouched(s)
  BY <1>2 DEF Deliver, StartRaises, WorkRaises, Crash, ChannelLost, Abandoned, Set, Effect, Untouched, TypeOK,
              googleVars, userVars, ghostVars
<1>3. ASSUME NEW w \in Workers, t = job[w], Handle(w)
      PROVE  barred' = barred /\ \A s \in Tasks : s # t => Untouched(s)
  BY <1>3 DEF Handle, Start, Begin, CheckConsent, GetToken, Refresh, Reconcile, Post, Succeed, Fail, Settle,
              Set, Effect, Untouched, TypeOK, taskVars, googleVars, userVars, ghostVars
<1> QED
  BY <1>1, <1>2, <1>3

(* A task with which nothing overlapped, and does not now, and who did what to it. *)
LEMMA ItFares ==
    ASSUME FullInv, Next, NEW t \in Tasks, barred' = barred
    PROVE  Keeps(t) \/ Fares(t)
<1>1. TypeOK /\ Void \subseteq Void' /\ status[t] \in Statuses /\ effects[t] \in Nat
  BY GhostsGrow DEF FullInv, IInv, Void, TypeOK, Statuses
<1>2. CASE t \in Void
  BY <1>1, <1>2 DEF Keeps, Word, Done
<1>3. CASE t \notin Void /\ t \in Void'
  BY <1>1, <1>3 DEF Fares, Word, Done, Statuses
<1>4. CASE t \notin Void'
  <2>1. t \notin Void /\ Once(t)
    BY <1>1, <1>4 DEF FullInv, IInv, OnceInv, Void
  <2>2. /\ Word(t) = IF call[t] = "refused" THEN "refused"
                     ELSE IF status[t] \in {"queued", "running"} THEN "open" ELSE status[t]
        /\ Word(t)' = IF call'[t] = "refused" THEN "refused"
                      ELSE IF status'[t] \in {"queued", "running"} THEN "open" ELSE status'[t]
        /\ Done(t) = effects[t] /\ Done(t)' = effects'[t]
    BY <1>4, <2>1 DEF Word, Done
  <2>3. Unsent(t) => effects[t] = 0 /\ \A w \in Workers : job[w] # t
    BY <2>1 DEF FullInv, AnswerInv, IInv, UnsentInv
  <2>4. call[t] \in {"fail", "refused", "create"} => Unsent(t)
    BY <2>1 DEF Void, Unsent
  <2>5. CASE effects'[t] # effects[t]
    <3>1. PICK w \in Workers : /\ at[w] = "post" /\ job[w] = t
                               /\ Post(w) \/ WorkRaises(w) \/ Crash(w)
      BY <1>1, <2>1, <2>5, EffectSteps DEF Once, LateEffect
    <3>2. call[t] # "refused" /\ call' = call /\ status'[t] = status[t]
      BY <2>3, <2>4, <3>1 DEF Post, WorkRaises, Crash, taskVars
    <3>3. status[t] = "running" /\ effects[t] = 0 /\ t \notin barred
      BY <2>1, <3>1 DEF FullInv, RunningInv, Begun, Working, Trusted, Once, IInv, BarredInv
    <3>4. effects'[t] = 1
      <4>1. effects'[t] \in Nat
        BY TypeStep DEF FullInv, IInv, TypeOK
      <4> QED
        BY <1>1, <2>5, <3>3, <4>1, EffectSteps
    <3> QED
      BY <2>2, <3>2, <3>3, <3>4 DEF Fares
  <2>6. CASE effects'[t] = effects[t] /\ Call(t)
    <3>1. CASE RefuseCall(t)
      <4>1. call[t] = "fail" /\ call'[t] = "refused" /\ status[t] \in {"none", "queued"} /\ effects[t] = 0
        BY <1>1, <2>1, <2>3, <2>4, <3>1 DEF RefuseCall, CallGoes, TypeOK, FullInv, AnswerInv
      <4> QED
        BY <2>2, <2>6, <4>1 DEF Fares, Turns
    <3>2. CASE CreateQueued(t)
      <4>1. /\ status[t] = "none" /\ call[t] = "create" /\ call'[t] # "refused"
            /\ status'[t] \in {"none", "queued"}
        BY <1>1, <3>2 DEF CreateQueued, CallGoes, Set, TypeOK, FullInv, IInv, UnsentInv
      <4> QED
        BY <2>2, <2>6, <4>1 DEF Fares, Keeps, Turns
    <3>3. CASE Ask(t) \/ Publish(t) \/ PublishTwice(t) \/ PublishFails(t)
      <4>1. status' = status /\ call[t] # "refused" /\ call'[t] # "refused"
        BY <1>1, <3>3 DEF Ask, Publish, PublishTwice, PublishFails, CallGoes, TypeOK
      <4> QED
        BY <2>2, <2>6, <4>1 DEF Keeps
    <3> QED
      BY <2>6, <3>1, <3>2, <3>3 DEF Call
  <2>7. CASE effects'[t] = effects[t] /\ ~Call(t) /\ status'[t] # status[t]
    <3>1. call'[t] = call[t]
      BY <1>1, <2>7, CallSteps
    <3>2. PICK w \in Workers :
             /\ job[w] = t
             /\ \/ at[w] = "begin" /\ status'[t] = "running"
                \/ at[w] = "succeed" /\ status'[t] = "succeeded"
                \/ at[w] = "fail" /\ status'[t] = "failed"
      BY <1>1, <2>7, StatusSteps DEF Call
    <3>3. call[t] # "refused"
      BY <2>3, <2>4, <3>2
    <3>4. CASE at[w] = "begin" /\ status'[t] = "running"
      <4>1. status[t] # "succeeded"
        BY <2>1, <3>2, <3>4 DEF FullInv, IInv, UndoneInv, Working, Void
      <4> QED
        BY <1>1, <2>2, <2>7, <3>1, <3>3, <3>4, <4>1 DEF Fares, Keeps, Turns, Statuses
    <3>5. CASE at[w] = "succeed" /\ status'[t] = "succeeded"
      <4>1. status[t] = "running" /\ effects[t] > 0
        BY <2>1, <3>2, <3>5 DEF FullInv, IInv, DoneInv, RunningInv, Begun, Working
      <4>2. effects[t] = 1
        BY <1>1, <2>1, <4>1 DEF Once
      <4> QED
        BY <2>2, <2>7, <3>1, <3>3, <3>5, <4>1, <4>2 DEF Fares, Turns
    <3>6. CASE at[w] = "fail" /\ status'[t] = "failed"
      <4>1. status[t] = "running"
        BY <2>1, <3>2, <3>6 DEF FullInv, RunningInv, Begun, Working
      <4> QED
        BY <2>2, <2>7, <3>1, <3>3, <3>6, <4>1 DEF Fares, Turns
    <3> QED
      BY <3>2, <3>4, <3>5, <3>6
  <2>8. CASE effects'[t] = effects[t] /\ ~Call(t) /\ status'[t] = status[t]
    BY <1>1, <2>2, <2>8, CallSteps DEF Keeps
  <2> QED
    BY <2>5, <2>6, <2>7, <2>8
<1> QED
  BY <1>2, <1>3, <1>4

(* The connection says nothing of a task; it bars more of them, or none.      *)
LEMMA ConnectionHalts ==
    ASSUME FullInv, Connection
    PROVE  [Order!ANext]_Order!avars
<1>1. \A t \in Tasks : Untouched(t)
  BY DEF Connection, Connect, Expire, AskRefresh, EndRefresh, Disconnect, RevokeConsent, RevokeAtGoogle,
         DeleteToken, DisconnectRaises, Untouched, taskVars, googleVars, ghostVars
<1>2. Words' = Words /\ Deeds' = Deeds
  <2>1. \A t \in Tasks : Keeps(t)
    BY <1>1, UntouchedKeeps
  <2> QED
    BY <2>1 DEF Words, Deeds, Keeps
<1>3. barred \subseteq Barred
  BY DEF FullInv, IInv, BarredInv, Barred, TypeOK
<1>4. barred' = {} \/ barred \subseteq barred'
  BY <1>3 DEF Connection, Connect, Expire, AskRefresh, EndRefresh, Disconnect, RevokeConsent, RevokeAtGoogle,
              DeleteToken, DisconnectRaises
<1> QED
  BY <1>2, <1>4 DEF Order!ANext, Order!Halt, Order!Resume, Words, Deeds

LEMMA OrderStep ==
    ASSUME FullInv, [Next]_vars
    PROVE  [Order!ANext]_Order!avars
<1>1. TypeOK
  BY DEF FullInv, IInv
<1>2. CASE UNCHANGED vars
  <2>1. Words' = Words /\ Deeds' = Deeds /\ barred' = barred
    BY <1>2 DEF vars, taskVars, googleVars, userVars, ghostVars, Words, Deeds, Word, Done, Void
  <2> QED
    BY <2>1 DEF Order!avars, Words, Deeds
<1>3. CASE Next /\ ~Connection
  <2>1. PICK t : /\ \/ t \in Tasks /\ (Call(t) \/ LateEffect(t))
                    \/ \E w \in Workers :
                          /\ t = job[w]
                          /\ \/ Deliver(w) \/ Handle(w) \/ StartRaises(w) \/ WorkRaises(w)
                             \/ Crash(w) \/ ChannelLost(w)
    BY <1>3 DEF Next
  <2>2. barred' = barred /\ \A s \in Tasks : s # t => Keeps(s)
    BY <1>1, <2>1, OwnTask, UntouchedKeeps
  <2>3. CASE t \in Tasks
    BY <1>3, <2>2, <2>3, ItFares, OneTaskFares
  <2>4. CASE t \notin Tasks
    <3>1. Words' = Words /\ Deeds' = Deeds
      BY <2>2, <2>4 DEF Words, Deeds, Keeps
    <3> QED
      BY <2>2, <3>1 DEF Order!avars, Words, Deeds
  <2> QED
    BY <2>3, <2>4
<1> QED
  BY <1>2, <1>3, ConnectionHalts

\* For any number of tasks and handlers, through any accidents: a task is performed
\* once at most, a success stands, and what was refused or barred is not performed.
THEOREM OrdersAreKept == Spec => ImplementsSingleEffect
<1>1. Init => Order!AInit
  BY DEF Init, Order!AInit, Word, Done, Void
<1>2. FullInv /\ [Next]_vars => [Order!ANext]_Order!avars
  BY OrderStep
<1> QED
  BY <1>1, <1>2, FullInductive, PTL DEF Spec, ImplementsSingleEffect, Order!ASpec
=============================================================================
